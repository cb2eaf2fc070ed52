--------------------------- MODULE TimerHeapProofs --------------------------
(***************************************************************************)
(* The timer heap keeps its types, its slots and its indices, for every    *)
(* set of events, every endtime and every number of timers.                *)
(***************************************************************************)
EXTENDS TimerHeap, LeaHeapProofs

\* The inductive invariant.  No part is inductive alone: an erase moves the
\* last slot into the array, so the slots must be filled for the array to keep
\* its type, and filled slots and indices that agree are kept by the sifting
\* loops only for an array whose indices lie inside it.
Inv ==
  /\ TypeOK
  /\ Filled(heap)
  /\ intact => Agrees(heap)

\* The constructor's heap is empty and no event has an index.
LEMMA InitInv == Init => Inv
<1> SUFFICES ASSUME Init PROVE Inv
  OBVIOUS
<1>1. IsHeap(heap) /\ Filled(heap) /\ Agrees(heap)
  BY Constructed DEF Init
<1>2. QED
  BY <1>1 DEF Inv, TypeOK, Init

\* Every operation of the reactor on its heap keeps the invariant.
LEMMA NextInv == Inv /\ [Next]_vars => Inv'
<1> SUFFICES ASSUME Inv, [Next]_vars PROVE Inv'
  OBVIOUS
<1>1. IsHeap(heap) /\ Filled(heap) /\ endtime \in [Event -> Times] /\ intact \in BOOLEAN
      /\ (intact => Agrees(heap))
  BY DEF Inv, TypeOK
<1>2. ASSUME NEW e \in Event, NEW t \in Times, NEW ok \in BOOLEAN, lt_timeout_add(e, t, ok) PROVE Inv'
  <2> DEFINE h == min_heap_elem_init_(heap, e)
             r == min_heap_push_(h, e, endtime, ok)
  <2>1. heap' = r /\ endtime' = [endtime EXCEPT ![e] = t] /\ intact' = (intact /\ e \notin Held(heap))
    BY <1>2 DEF lt_timeout_add
  <2>2. IsHeap(h) /\ h.p = heap.p /\ h.n = heap.n
    BY <1>1, ElemInit
  <2>3. ASSUME intact, e \notin Held(heap) PROVE Agrees(h)
    BY <1>1, <2>3, ForgetAgrees DEF Held, Slots
  <2> HIDE DEF h
  <2>4. /\ IsHeap(r) /\ (Filled(h) => Filled(r))
        /\ Agrees(h) /\ (\A i \in 0..(h.n - 1) : h.p[i] # e) => Agrees(r)
    BY <2>2, PushKeeps
  <2> HIDE DEF r
  <2>5. Filled(h)
    BY <1>1, <2>2 DEF Filled
  <2>6. ASSUME intact' PROVE Agrees(r)
    <3>1. intact /\ e \notin Held(heap)
      BY <2>1, <2>6
    <3>2. \A i \in 0..(h.n - 1) : h.p[i] # e
      BY <2>2, <3>1 DEF Held, Slots
    <3>3. QED
      BY <2>3, <2>4, <3>1, <3>2
  <2>7. intact' \in BOOLEAN
    BY <2>1
  <2>8. endtime' \in [Event -> Times]
    BY <1>1, <2>1
  <2>9. QED
    BY <2>1, <2>4, <2>5, <2>6, <2>7, <2>8 DEF Inv, TypeOK
<1>3. ASSUME NEW e \in Event, lt_io_mod_no_timeout(e) PROVE Inv'
  <2> DEFINE h == min_heap_elem_init_(heap, e)
  <2>1. heap' = h /\ endtime' = endtime /\ intact' = (intact /\ e \notin Held(heap))
    BY <1>3 DEF lt_io_mod_no_timeout
  <2>2. IsHeap(h) /\ h.p = heap.p /\ h.n = heap.n
    BY <1>1, ElemInit
  <2>3. ASSUME intact' PROVE Agrees(h)
    BY <1>1, <2>1, <2>3, ForgetAgrees DEF Held, Slots
  <2> HIDE DEF h
  <2>4. Filled(h)
    BY <1>1, <2>2 DEF Filled
  <2>5. intact' \in BOOLEAN
    BY <2>1
  <2>6. QED
    BY <1>1, <2>1, <2>2, <2>3, <2>4, <2>5 DEF Inv, TypeOK
<1>4. ASSUME NEW e \in Event, lt_io_remove(e) PROVE Inv'
  <2> DEFINE f == min_heap_erase_(heap, e, endtime)
  <2>1. /\ heap.idx[e] # -1 /\ heap.n > 0 /\ heap' = f /\ endtime' = endtime
        /\ intact' = (intact /\ ~LastUnderOther(e))
    BY <1>4 DEF lt_io_remove
  <2>2. /\ IsHeap(f) /\ Filled(f)
        /\ \/ ~Agrees(heap)
           \/ /\ heap.idx[e] = heap.n - 1 /\ heap.idx[e] > 0
              /\ min_heap_elem_greater(endtime, heap.p[Parent(heap.idx[e])], e)
           \/ Agrees(f)
    BY <1>1, <2>1, EraseKeeps
  <2> HIDE DEF f
  <2>3. ASSUME intact' PROVE Agrees(f)
    <3>1. intact /\ ~LastUnderOther(e)
      BY <2>1, <2>3
    <3>2. QED
      BY <1>1, <2>2, <3>1 DEF LastUnderOther
  <2>4. intact' \in BOOLEAN
    BY <2>1
  <2>5. QED
    BY <1>1, <2>1, <2>2, <2>3, <2>4 DEF Inv, TypeOK
<1>5. CASE Pop
  <2> DEFINE f == min_heap_pop_(heap, endtime)
  <2>1. heap' = f /\ endtime' = endtime /\ intact' = intact
    BY <1>5 DEF Pop
  <2>2. IsHeap(f) /\ Filled(f) /\ (Agrees(heap) => Agrees(f))
    BY <1>1, PopKeeps
  <2> HIDE DEF f
  <2>3. QED
    BY <1>1, <2>1, <2>2 DEF Inv, TypeOK
<1>6. CASE UNCHANGED vars
  BY <1>1, <1>6 DEF vars, Inv, TypeOK
<1>7. QED
  BY <1>2, <1>3, <1>4, <1>5, <1>6 DEF Next

\* The invariant holds in every reachable state.
LEMMA Invariance == Spec => []Inv
  BY InitInv, NextInv, PTL DEF Spec

\* The array, counters and indices of min_heap_t keep their types: n never
\* exceeds a and no min_heap_idx points outside the array, whatever order
\* lt_timeout_add, lt_io_mod, lt_io_remove and min_heap_pop_ come in.
THEOREM TimerHeapTypes == Spec => []TypeOK
<1>1. Inv => TypeOK
  BY DEF Inv
<1>2. QED
  BY <1>1, Invariance, PTL

\* Every slot under n holds an event, for heaps of any size: a failed realloc,
\* a duplicate push and an erase through an index left behind included.
THEOREM TimerHeapInBounds == Spec => []InBounds
<1>1. Inv => InBounds
  BY DEF Inv, InBounds, Filled, Slots
<1>2. QED
  BY <1>1, Invariance, PTL

\* The sifting loops keep every min_heap_idx and the array in step as long as
\* no event was re-armed in the heap and no erase met the last slot under
\* another endtime.
THEOREM TimerHeapIndexed == Spec => []Indexed
<1>1. Inv => Indexed
  BY DEF Inv, Indexed, Agrees, Slots
<1>2. QED
  BY <1>1, Invariance, PTL
=============================================================================
