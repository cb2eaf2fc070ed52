----------------------------- MODULE MCLeaEvent -----------------------------
EXTENDS LeaEvent, TLC

\* Uninitialised endtimes: long past, and with more nanoseconds than a second
\* has, so that its fields and the time left disagree.
Past     == {[sec |-> 0, nsec |-> 0]}
AnyTime  == {[sec |-> 0, nsec |-> 0], [sec |-> 0, nsec |-> 5]}

NoTimeout     == {-1}
SomeTimeouts  == {-1, 1, 2}
LoopTimeoutsM == {-1, 0}

Lagged      == {{"FDRD", "LAG"}, {"FDRD", "LAG", "ONESHOT"}, {"FDRD", "CONN"}}
LaggedOrNot == {{"FDRD", "LAG"}, {"FDRD", "CONN"}}
OnlyLagged  == {{"FDRD", "LAG"}}

Symmetry == Permutations(Event) \cup Permutations(Fd)
=============================================================================
