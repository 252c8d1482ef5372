CONSTANTS
  q1 = q1
  q2 = q2
  l1 = l1
  l2 = l2
  None = None
  Cells = {q1, q2}
  Lights = {l1, l2}
  Cmds = {"onoff on", "lightness 50", "colortemp 101", "colortemp 30 l2",
          "demo on", "demo off", "status"}
  Kind <- MCKind
  Addrs <- MCAddrs
  Tree <- MCTree
  Func <- MCFunc
  DemoAddrs <- MCDemoAddrs
  Faults = {"oom"}
SPECIFICATION Spec
INVARIANTS TypeOK RequestServed
PROPERTIES RefinesFifo LightsEnd
