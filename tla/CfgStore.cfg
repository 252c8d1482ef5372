CONSTANTS
  d1 = d1
  b1 = b1
  None = None
  Devs = {d1, b1}
  Bare = {b1}
  Edits = {"move", "flag", "done"}
SPECIFICATION Spec
INVARIANTS TypeOK MemoryIsDocument AddressIsSaved DoneHasAddress ChangedOutsideIsKnown
