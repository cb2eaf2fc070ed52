------------------------------ MODULE TimerHeap -----------------------------
(***************************************************************************)
(* The timer heap as event_lea.c drives it.  Every operation is one the    *)
(* reactor's API performs on base->timeheap; the heap is never told of an  *)
(* event's endtime before the event is in it, because lt_timeout_add       *)
(* pushes first and returns the endtime to be stored.                      *)
(***************************************************************************)
EXTENDS LeaHeap

CONSTANTS
  Times,      \* endtimes that timers and uninitialised events may carry
  MaxTimers   \* bound on the slots in use

ASSUME TimesAssumption == Times \subseteq Time /\ MaxTimers \in Nat

VARIABLES
  heap,       \* base->timeheap and the min_heap_idx of every event
  endtime,    \* the endtime field of every event
  intact      \* history: no operation so far was one the heap cannot absorb

vars == <<heap, endtime, intact>>

Slots(h) == 0..(h.n - 1)

\* The events the heap array holds.
Held(h) == {h.p[i] : i \in Slots(h)}

Init ==
  /\ heap = min_heap_constructor_([e \in Event |-> -1])
  /\ endtime \in [Event -> Times]
  /\ intact = TRUE

\* lt_io_add or lt_io_mod with a timeout: lt_timeout_add resets the index,
\* pushes under the old endtime, and the caller stores the new one.
lt_timeout_add(e, t, reallocated) ==
  /\ heap.n < MaxTimers
  /\ heap' = min_heap_push_(min_heap_elem_init_(heap, e), e, endtime, reallocated)
  /\ endtime' = [endtime EXCEPT ![e] = t]
  /\ intact' = (intact /\ e \notin Held(heap))

\* lt_io_mod with NO_TIMEOUT forgets the index and leaves the slot.
lt_io_mod_no_timeout(e) ==
  /\ heap' = min_heap_elem_init_(heap, e)
  /\ intact' = (intact /\ e \notin Held(heap))
  /\ UNCHANGED endtime

\* Erasing the last slot under a parent with another endtime.
LastUnderOther(e) ==
  LET i == heap.idx[e] IN
  /\ i = heap.n - 1 /\ i > 0
  /\ min_heap_elem_greater(endtime, heap.p[Parent(i)], e)

lt_io_remove(e) ==
  /\ heap.idx[e] # -1 /\ heap.n > 0
  /\ heap' = min_heap_erase_(heap, e, endtime)
  /\ intact' = (intact /\ ~LastUnderOther(e))
  /\ UNCHANGED endtime

Pop ==
  /\ heap.n > 0
  /\ heap' = min_heap_pop_(heap, endtime)
  /\ UNCHANGED <<endtime, intact>>

Next ==
  \/ \E e \in Event, t \in Times, ok \in BOOLEAN : lt_timeout_add(e, t, ok)
  \/ \E e \in Event : lt_io_mod_no_timeout(e) \/ lt_io_remove(e)
  \/ Pop

Spec == Init /\ [][Next]_vars

-----------------------------------------------------------------------------
(* Properties.                                                             *)

\* Types of the heap's array, counters and indices (min_heap_t, min_heap_idx):
\* n never exceeds a, and no index points outside the array.
TypeOK ==
  /\ IsHeap(heap)
  /\ endtime \in [Event -> Times]
  /\ intact \in BOOLEAN

\* The sifting loops of lea_heap.c keep every event's min_heap_idx and the
\* array in step, so that min_heap_erase_ finds the event it is given: as
\* long as no event was re-armed while in the heap and no erase met the last
\* slot under a parent with another endtime.
Indexed ==
  intact =>
    /\ \A i \in Slots(heap) : heap.p[i] \in Event /\ heap.idx[heap.p[i]] = i
    /\ \A e \in Event : heap.idx[e] # -1 => heap.idx[e] \in Slots(heap) /\ heap.p[heap.idx[e]] = e

\* Every slot below n holds an event: the sifting loops leave no slot in use
\* that nobody wrote, not after a realloc that failed, a duplicate push, or an
\* erase that met the last slot.
InBounds == \A i \in Slots(heap) : heap.p[i] # NULL

\* "min time on time" (the comment on min_heap_push_ in lea_heap.c): the root
\* of the heap is an event none of the others ends before.
RootFirst ==
  intact => \A i \in Slots(heap) :
              lt_time_a_sub_b(endtime[heap.p[0]], endtime[heap.p[i]]) <= 0
=============================================================================
