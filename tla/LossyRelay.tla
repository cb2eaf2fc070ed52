----------------------------- MODULE LossyRelay -----------------------------
(***************************************************************************)
(* What either direction of the proxy promises: it takes the pieces of a   *)
(* stream, 1, 2, 3, ..., and passes some of those it takes on, in their    *)
(* order and at most once, in the step that takes them.  What a step does  *)
(* not pass on is lost: nothing is kept for later.                         *)
(***************************************************************************)
EXTENDS Integers, Sequences

VARIABLES
  taken,   \* pieces taken from the stream
  out      \* the pieces passed on

Init == taken = 0 /\ out = <<>>

\* The positions of out' that this step has added.
New == (Len(out) + 1)..Len(out')

Pass ==
  /\ taken' >= taken
  /\ Len(out') >= Len(out) /\ \A k \in 1..Len(out) : out'[k] = out[k]
  /\ \A k \in New : out'[k] \in (taken + 1)..taken'
  /\ \A j, k \in New : j < k => out'[j] < out'[k]

Spec == Init /\ [][Pass]_<<taken, out>>
=============================================================================
