---------------------------- MODULE MCTimerHeap -----------------------------
EXTENDS TimerHeap, TLC

\* Two endtimes, either side of a full second.
MCTimes == {[sec |-> 0, nsec |-> 1], [sec |-> 1, nsec |-> 0]}

Symmetry == Permutations(Event)
=============================================================================
