------------------------------- MODULE LeaHeap ------------------------------
(***************************************************************************)
(* The timer heap of lea_heap.c: an array p of event pointers with n       *)
(* elements and room for a, and the min_heap_idx field each event keeps of *)
(* its own slot.  Operators map a heap and the events' current endtimes to *)
(* the next heap.  The sifting loops are written by what they compute: the *)
(* slots the hole travels through, and where it stops.                     *)
(***************************************************************************)
EXTENDS LtTime, FiniteSetsExt

CONSTANTS
  Event,       \* the event structs
  NULL,        \* a null or never written pointer
  HEAP_INIT    \* slots of the first reservation (8 in the code)

ASSUME HeapAssumption == NULL \notin Event /\ HEAP_INIT \in Nat \ {0}

\* n elements in an array of a slots, every index inside the array.
IsHeap(h) ==
  h \in [p : [0..(h.a - 1) -> Event \cup {NULL}], n : 0..h.a, a : Nat, idx : [Event -> -1..(h.a - 1)]]

min_heap_constructor_(idx) == [p |-> [i \in {} |-> NULL], n |-> 0, a |-> 0, idx |-> idx]

\* The macro's value is the difference of the two endtimes, and it is used as
\* a truth value: it holds whenever the endtimes differ.
min_heap_elem_greater(endtime, x, y) == lt_time_a_sub_b(endtime[x], endtime[y]) # 0

Parent(i) == (i - 1) \div 2

\* The slots a hole travels through from slot from on, if a loop moves it from
\* slot x to slot next[x], and ends where next[x] is x: the least set of slots
\* with from that next never leaves.
Travels(next, from) ==
  {i \in DOMAIN next : \A S \in SUBSET DOMAIN next :
                         from \in S /\ (\A x \in S : next[x] \in S) => i \in S}

min_heap_elem_init_(h, e) == [h EXCEPT !.idx[e] = -1]

\* Mutant: the array grows by the elements asked for, its recorded size doubles.
min_heap_reserve_short(h, n, reallocated) ==
  LET a == Max({IF h.a = 0 THEN HEAP_INIT ELSE 2 * h.a, n}) IN
  IF h.a < n /\ reallocated
  THEN [h EXCEPT !.p = [i \in 0..(n - 1) |-> IF i < h.a THEN h.p[i] ELSE NULL], !.a = a]
  ELSE h

\* Mutant: the last old slot is not copied into the new array.
min_heap_reserve_lossy(h, n, reallocated) ==
  LET a == Max({IF h.a = 0 THEN HEAP_INIT ELSE 2 * h.a, n}) IN
  IF h.a < n /\ reallocated
  THEN [h EXCEPT !.p = [i \in 0..(a - 1) |-> IF i < h.a - 1 THEN h.p[i] ELSE NULL], !.a = a]
  ELSE h

\* NULL-filled room for at least n elements, or the heap as it was when
\* realloc fails.
min_heap_reserve_(h, n, reallocated) ==
  LET a == Max({IF h.a = 0 THEN HEAP_INIT ELSE 2 * h.a, n}) IN
  IF h.a < n /\ reallocated
  THEN [h EXCEPT !.p = [i \in 0..(a - 1) |-> IF i < h.a THEN h.p[i] ELSE NULL], !.a = a]
  ELSE h

\* Mutant: the events the hole passes keep their old index.
RiseIndexOfNewOnly(h, hole, e, next) ==
  LET path == Travels(next, hole)
      top  == Min(path)
  IN [h EXCEPT !.p = [i \in DOMAIN h.p |-> CASE i = top -> e
                                             [] i \in path \ {top} -> h.p[next[i]]
                                             [] OTHER -> h.p[i]],
               !.idx[e] = top]

\* Common part of both upward loops: what the hole leaves behind moves down,
\* e lands where it stops.  Indices are written from the bottom up, so the
\* topmost slot of an event decides.
Rise(h, hole, e, next) ==
  LET path == Travels(next, hole)
      top  == Min(path)
      p    == [i \in DOMAIN h.p |-> CASE i = top -> e
                                      [] i \in path \ {top} -> h.p[next[i]]
                                      [] OTHER -> h.p[i]]
      slots(x) == {i \in path : p[i] = x}
  IN [h EXCEPT !.p = p,
               !.idx = [x \in Event |-> IF slots(x) = {} THEN h.idx[x] ELSE Min(slots(x))]]

\* One turn of the upward loop: the hole changes places with its parent while
\* that is greater.
RiseNext(h, hole, e, endtime) ==
  [i \in 0..hole |-> IF i > 0 /\ min_heap_elem_greater(endtime, h.p[Parent(i)], e) THEN Parent(i) ELSE i]

min_heap_shift_up_(h, hole, e, endtime) ==
  Rise(h, hole, e, RiseNext(h, hole, e, endtime))

min_heap_shift_up_unconditional_(h, hole, e, endtime) ==
  Rise(h, hole, e, [RiseNext(h, hole, e, endtime) EXCEPT ![hole] = Parent(hole)])

MinChild(h, i, endtime) ==
  LET c == 2 * (i + 1) IN
  IF c = h.n \/ min_heap_elem_greater(endtime, h.p[c], h.p[c - 1]) THEN c - 1 ELSE c

\* One turn of the downward loop.
SinkNext(h, e, endtime) ==
  [i \in DOMAIN h.p |->
     IF 2 * (i + 1) <= h.n /\ min_heap_elem_greater(endtime, e, h.p[MinChild(h, i, endtime)])
     THEN MinChild(h, i, endtime) ELSE i]

\* The downward loop, as Rise: indices are written from the top down.
Sink(h, hole, e, next) ==
  LET path == Travels(next, hole)
      bottom == Max(path)
      p    == [i \in DOMAIN h.p |-> CASE i = bottom -> e
                                      [] i \in path \ {bottom} -> h.p[next[i]]
                                      [] OTHER -> h.p[i]]
      slots(x) == {i \in path : p[i] = x}
  IN [h EXCEPT !.p = p,
               !.idx = [x \in Event |-> IF slots(x) = {} THEN h.idx[x] ELSE Max(slots(x))]]

min_heap_shift_down_(h, hole, e, endtime) == Sink(h, hole, e, SinkNext(h, e, endtime))

min_heap_push_(h, e, endtime, reallocated) ==
  LET r == min_heap_reserve_(h, h.n + 1, reallocated) IN
  IF r.a < h.n + 1 THEN h
  ELSE min_heap_shift_up_([r EXCEPT !.n = @ + 1], h.n, e, endtime)

min_heap_pop_(h, endtime) ==
  IF h.n = 0 THEN h
  ELSE min_heap_elem_init_(
         min_heap_shift_down_([h EXCEPT !.n = @ - 1], 0, h.p[h.n - 1], endtime), h.p[0])

min_heap_erase_(h, e, endtime) ==
  LET last == h.p[h.n - 1]
      g    == [h EXCEPT !.n = @ - 1]
      i    == h.idx[e]
  IN min_heap_elem_init_(
       IF i > 0 /\ min_heap_elem_greater(endtime, h.p[Parent(i)], last)
       THEN min_heap_shift_up_unconditional_(g, i, last, endtime)
       ELSE min_heap_shift_down_(g, i, last, endtime), e)
=============================================================================
