----------------------------- MODULE MCAsItems ------------------------------
(* Instances of AsItems for TLC. *)
EXTENDS AsItems

\* Primary elements, which have the configuration server, and others.
Primary == {[sig |-> <<"cfg", "std", "setup", "std", "std">>, ven |-> <<>>],
            [sig |-> <<"std", "time", "cfg", "cfg", "setup">>, ven |-> <<"vtime">>],
            [sig |-> <<"cfg", "setup", "time">>, ven |-> <<"vsetup", "ven">>]}
Others == {[sig |-> <<"std">>, ven |-> <<>>], [sig |-> <<"setup", "time">>, ven |-> <<>>],
           [sig |-> <<"std", "setup", "std">>, ven |-> <<>>], [sig |-> <<>>, ven |-> <<"vsetup">>],
           [sig |-> <<"std">>, ven |-> <<"ven">>]}

\* One element, or a second one that takes at most the bytes of the first.
SmallSecond == {<<p>> : p \in Primary} \cup
  {r \in {<<p, o>> : p \in Primary, o \in Others} : 4 + Bytes(r[2]) <= Bytes(r[1])}

\* Three elements, or a large second one.
AnyShape == SmallSecond \cup {<<p, o>> : p \in Primary, o \in Others}
                        \cup {<<p, o, o>> : p \in Primary, o \in Others}

TimeFirst == {<<[sig |-> <<"cfg", "time", "std">>, ven |-> <<>>]>>}

Shapes == SmallSecond \cup TimeFirst

\* In these nodes the first loop of __dcd_store finds all elements, and each has a model.
ASSUME \A r \in Shapes : Counted(r) /\ Modelled(r)

Config(b, k, a, s, t, c) ==
  [bindings |-> b, known |-> k, aki |-> a, subs |-> s, target |-> t, current |-> c]
Bindings == {<<1>>, <<1, 2>>, <<2, 1, 3>>}

\* The first key and the key of the publication exist.  Of the features some are
\* to be set, some to be cleared.
GoodConfigs ==
  {Config(<<>>, {}, 0, <<1>>, {}, {}), Config(<<>>, {1}, 1, <<>>, {0}, {1})} \cup
  {Config(b, k, a, s, {0, 4}, {1, 4}) : b \in Bindings, k \in {{1, 2, 3}, {1, 2}},
                                        a \in {0, 2}, s \in {<<>>, <<1, 2>>}}
ASSUME \A c \in GoodConfigs : Keyed(c)

AnyConfigs == GoodConfigs \cup {Config(<<3, 1>>, {1, 2}, 1, <<>>, {}, {})}
SubConfigs == {Config(<<>>, {}, 0, s, {}, {}) : s \in {<<1>>, <<1, 2, 3>>}}
=============================================================================
