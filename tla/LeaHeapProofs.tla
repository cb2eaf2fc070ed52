---------------------------- MODULE LeaHeapProofs ---------------------------
(***************************************************************************)
(* What the loops of lea_heap.c do to an array of any size: lemmas about   *)
(* the slots a hole travels through, and about the operations built on     *)
(* them.                                                                   *)
(***************************************************************************)
EXTENDS LeaHeap, WellFoundedInduction, TLAPS

-----------------------------------------------------------------------------
(* The way of a hole.                                                      *)

\* The way starts at from, and a turn of the loop stays on it.
LEMMA TravelsClosed ==
  ASSUME NEW D, NEW next \in [D -> D], NEW from \in D
  PROVE  /\ from \in Travels(next, from) /\ Travels(next, from) \subseteq D
         /\ \A x \in Travels(next, from) : next[x] \in Travels(next, from)
<1>1. DOMAIN next = D
  OBVIOUS
<1>2. from \in Travels(next, from) /\ Travels(next, from) \subseteq D
  BY <1>1 DEF Travels
<1>3. ASSUME NEW x \in Travels(next, from) PROVE next[x] \in Travels(next, from)
  <2>1. x \in D /\ next[x] \in D
    BY <1>2
  <2>2. ASSUME NEW S \in SUBSET D, from \in S, \A y \in S : next[y] \in S
        PROVE  next[x] \in S
    <3>1. x \in S
      BY <1>1, <1>3, <2>2 DEF Travels
    <3>2. QED
      BY <2>2, <3>1
  <2>3. QED
    BY <1>1, <2>1, <2>2 DEF Travels
<1>4. QED
  BY <1>2, <1>3

\* Nothing else is on the way.
LEMMA TravelsLeast ==
  ASSUME NEW D, NEW next \in [D -> D], NEW from \in D,
         NEW S \in SUBSET D, from \in S, \A x \in S : next[x] \in S
  PROVE  Travels(next, from) \subseteq S
<1>1. DOMAIN next = D
  OBVIOUS
<1>2. QED
  BY <1>1 DEF Travels

\* The way is its first slot, and the way from the next one.
LEMMA TravelsStep ==
  ASSUME NEW D, NEW next \in [D -> D], NEW from \in D
  PROVE  Travels(next, from) \subseteq {from} \cup Travels(next, next[from])
<1> DEFINE S == {from} \cup Travels(next, next[from])
<1>1. next[from] \in D
  OBVIOUS
<1>2. /\ next[from] \in Travels(next, next[from]) /\ Travels(next, next[from]) \subseteq D
      /\ \A x \in Travels(next, next[from]) : next[x] \in Travels(next, next[from])
  BY <1>1, TravelsClosed
<1>3. S \in SUBSET D /\ from \in S /\ \A x \in S : next[x] \in S
  BY <1>2
<1> HIDE DEF S
<1>4. Travels(next, from) \subseteq S
  BY <1>3, TravelsLeast
<1>5. QED
  BY <1>4 DEF S

\* Where the loop ends the way ends.
LEMMA TravelsFixed ==
  ASSUME NEW D, NEW next \in [D -> D], NEW from \in D, next[from] = from
  PROVE  Travels(next, from) = {from}
<1>1. {from} \in SUBSET D /\ \A x \in {from} : next[x] \in {from}
  OBVIOUS
<1>2. Travels(next, from) \subseteq {from}
  BY <1>1, TravelsLeast
<1>3. from \in Travels(next, from)
  BY TravelsClosed
<1>4. QED
  BY <1>2, <1>3

\* Of two slots of the way one comes after the other.
LEMMA TravelsOrdered ==
  ASSUME NEW D, NEW next \in [D -> D], NEW from \in D,
         NEW a \in Travels(next, from), NEW b \in Travels(next, from)
  PROVE  a \in Travels(next, b) \/ b \in Travels(next, a)
<1>1. /\ Travels(next, from) \subseteq D /\ from \in Travels(next, from)
      /\ \A x \in Travels(next, from) : next[x] \in Travels(next, from)
  BY TravelsClosed
<1>2. a \in D /\ a \in Travels(next, a) /\ \A x \in Travels(next, a) : next[x] \in Travels(next, a)
  <2>1. a \in D
    BY <1>1
  <2>2. QED
    BY <2>1, TravelsClosed
<1> DEFINE S == {z \in Travels(next, from) : a \in Travels(next, z) \/ z \in Travels(next, a)}
<1>3. from \in S
  BY <1>1
<1>4. ASSUME NEW z \in S PROVE next[z] \in S
  <2>1. next[z] \in Travels(next, from) /\ z \in D
    BY <1>1
  <2>2. CASE z \in Travels(next, a)
    BY <1>2, <2>1, <2>2
  <2>3. CASE a \in Travels(next, z) /\ z # a
    <3>1. a \in Travels(next, next[z])
      BY <2>1, <2>3, TravelsStep
    <3>2. QED
      BY <2>1, <3>1
  <2>4. QED
    BY <1>2, <2>2, <2>3
<1>5. S \in SUBSET D
  BY <1>1
<1> HIDE DEF S
<1>6. Travels(next, from) \subseteq S
  BY <1>3, <1>4, <1>5, TravelsLeast
<1>7. b \in S
  BY <1>6
<1>8. QED
  BY <1>7 DEF S

\* A loop that never comes back to a slot it has left.
Forward(next) == \A x \in DOMAIN next : x \in Travels(next, next[x]) => next[x] = x

\* The way has one end, every slot of it but the first is entered from exactly
\* one other, and the first from none: what the hole leaves behind is moved,
\* not lost or doubled.
Shifts(next, from, end) ==
  /\ \A x \in Travels(next, from) : next[x] = x => x = end
  /\ \A x \in Travels(next, from) \ {from} : \E y \in Travels(next, from) \ {end} : next[y] = x
  /\ \A x, y \in Travels(next, from) \ {end} : next[x] = next[y] => x = y
  /\ \A x \in Travels(next, from) \ {end} : next[x] # from

\* So moves every loop that only moves on.
LEMMA TravelsShift ==
  ASSUME NEW D, NEW next \in [D -> D], NEW from \in D, Forward(next),
         NEW end \in Travels(next, from), next[end] = end
  PROVE  Shifts(next, from, end)
<1> DEFINE P == Travels(next, from)
<1>1. P \subseteq D /\ from \in P /\ DOMAIN next = D /\ \A x \in P : next[x] \in P
  BY TravelsClosed
<1>2. ASSUME NEW x \in P, next[x] = x PROVE x = end
  <2>1. x \in Travels(next, end) \/ end \in Travels(next, x)
    BY TravelsOrdered
  <2>2. Travels(next, x) = {x} /\ Travels(next, end) = {end}
    BY <1>1, <1>2, TravelsFixed
  <2>3. QED
    BY <2>1, <2>2
<1>3. ASSUME NEW x \in P \ {from} PROVE \E y \in P \ {end} : next[y] = x
  <2>1. SUFFICES ASSUME \A y \in P \ {end} : next[y] # x PROVE FALSE
    OBVIOUS
  <2> DEFINE S == P \ {x}
  <2>2. ASSUME NEW y \in S PROVE next[y] \in S
    BY <1>1, <2>1
  <2>3. S \in SUBSET D /\ from \in S
    BY <1>1
  <2> HIDE DEF S
  <2>4. P \subseteq S
    BY <2>2, <2>3, TravelsLeast
  <2>5. QED
    BY <2>4 DEF S
<1>4. ASSUME NEW x \in P \ {end}, NEW y \in P \ {end}, next[x] = next[y] PROVE x = y
  <2>1. SUFFICES ASSUME x # y PROVE FALSE
    OBVIOUS
  <2>2. next[x] # x /\ next[y] # y
    BY <1>2
  <2>3. x \in Travels(next, y) \/ y \in Travels(next, x)
    BY TravelsOrdered
  <2>4. CASE x \in Travels(next, y)
    <3>1. x \in Travels(next, next[y])
      BY <1>1, <2>1, <2>4, TravelsStep
    <3>2. QED
      BY <1>1, <1>4, <2>2, <3>1 DEF Forward
  <2>5. CASE y \in Travels(next, x)
    <3>1. y \in Travels(next, next[x])
      BY <1>1, <2>1, <2>5, TravelsStep
    <3>2. QED
      BY <1>1, <1>4, <2>2, <3>1 DEF Forward
  <2>6. QED
    BY <2>3, <2>4, <2>5
<1>5. ASSUME NEW x \in P \ {end} PROVE next[x] # from
  BY <1>1, <1>2 DEF Forward
<1>6. QED
  BY <1>2, <1>3, <1>4, <1>5 DEF Shifts

-----------------------------------------------------------------------------
(* Both directions of a hole.                                              *)

\* A set of slots has a topmost one.
LEMMA MinSlot ==
  ASSUME NEW S, S \subseteq Nat, S # {}
  PROVE  Min(S) \in S /\ \A y \in S : Min(S) <= y
<1>1. PICK x \in S : \A y \in S : ~(<<y, x>> \in OpToRel(<, Nat))
  BY NatLessThanWellFounded, WFMin
<1>2. ASSUME NEW y \in S PROVE x <= y
  <2>1. x \in Nat /\ y \in Nat
    OBVIOUS
  <2>2. ~(y < x)
    BY <1>1, <2>1 DEF OpToRel
  <2>3. QED
    BY <2>1, <2>2
<1>3. QED
  BY <1>2 DEF Min

\* And a lowest one, if the array ends.
LEMMA MaxSlot ==
  ASSUME NEW b \in Nat, NEW S, S \subseteq 0..b, S # {}
  PROVE  Max(S) \in S /\ \A y \in S : Max(S) >= y
<1> DEFINE T == {b - x : x \in S}
<1>1. T \subseteq Nat /\ T # {}
  <2>1. \A x \in S : b - x \in Nat
    OBVIOUS
  <2>2. PICK x \in S : TRUE
    OBVIOUS
  <2>3. b - x \in T
    OBVIOUS
  <2>4. QED
    BY <2>1, <2>3
<1>2. Min(T) \in T /\ \A y \in T : Min(T) <= y
  <2> HIDE DEF T
  <2>1. QED
    BY <1>1, MinSlot
<1>3. PICK x \in S : Min(T) = b - x
  BY <1>2
<1>4. ASSUME NEW y \in S PROVE x >= y
  <2>1. b - y \in T
    OBVIOUS
  <2>2. b - x <= b - y
    BY <1>2, <1>3, <2>1
  <2>3. x \in Int /\ y \in Int
    OBVIOUS
  <2>4. QED
    BY <2>2, <2>3
<1>5. QED
  BY <1>4 DEF Max

\* What a sifting loop makes of heap h, when the hole starts at hole and e is
\* put where it ends: what lay ahead of the hole moves back by one slot, and
\* every event the loop has stored knows a slot it was stored in.
Sifted(r, h, next, hole, end, e) ==
  /\ r \in [p : [0..(h.a - 1) -> Event \cup {NULL}], n : {h.n}, a : {h.a}, idx : [Event -> -1..(h.a - 1)]]
  /\ end \in Travels(next, hole) /\ next[end] = end
  /\ r.p[end] = e
  /\ \A i \in Travels(next, hole) \ {end} : r.p[i] = h.p[next[i]]
  /\ \A i \in 0..(h.a - 1) : i \notin Travels(next, hole) => r.p[i] = h.p[i]
  /\ \A x \in Event :
       \/ r.idx[x] = h.idx[x] /\ \A i \in Travels(next, hole) : r.p[i] # x
       \/ r.idx[x] \in Travels(next, hole) /\ r.p[r.idx[x]] = x

\* Storing the array and the indices leaves the counters.
LEMMA StoreArray ==
  ASSUME NEW P, NEW N, NEW A, NEW I, NEW h \in [p : P, n : N, a : A, idx : I], NEW p \in P, NEW idx \in I
  PROVE  /\ [h EXCEPT !.p = p, !.idx = idx] \in [p : P, n : {h.n}, a : {h.a}, idx : I]
         /\ [h EXCEPT !.p = p, !.idx = idx].p = p /\ [h EXCEPT !.p = p, !.idx = idx].idx = idx
  OBVIOUS

\* The end of a loop's way and the slots of an event on it, found by a choice
\* that is sound for every set of slots of the array.
LEMMA SiftResult ==
  ASSUME NEW h, IsHeap(h), NEW D, D \subseteq 0..(h.a - 1), NEW next \in [D -> D],
         NEW hole \in D, NEW e \in Event,
         NEW end \in Travels(next, hole), next[end] = end,
         NEW p, p = [i \in 0..(h.a - 1) |-> p[i]], p[end] = e,
         \A i \in Travels(next, hole) \ {end} : p[i] = h.p[next[i]],
         \A i \in 0..(h.a - 1) : i \notin Travels(next, hole) => p[i] = h.p[i],
         NEW idx, idx = [x \in Event |-> idx[x]],
         \A x \in Event : \/ idx[x] = h.idx[x] /\ \A i \in Travels(next, hole) : p[i] # x
                          \/ idx[x] \in Travels(next, hole) /\ p[idx[x]] = x
  PROVE  Sifted([h EXCEPT !.p = p, !.idx = idx], h, next, hole, end, e)
<1> DEFINE P == Travels(next, hole)
           A == 0..(h.a - 1)
<1>1. P \subseteq D /\ \A x \in P : next[x] \in P
  BY TravelsClosed
<1>2. /\ h.p \in [A -> Event \cup {NULL}] /\ DOMAIN h.p = A
      /\ h.idx \in [Event -> -1..(h.a - 1)] /\ h.a \in Nat
  BY DEF IsHeap
<1>3. P \subseteq A /\ end \in A
  BY <1>1
<1> HIDE DEF P, A
<1>4. /\ p[end] = e
      /\ \A i \in P \ {end} : p[i] = h.p[next[i]]
      /\ \A i \in A : i \notin P => p[i] = h.p[i]
  BY DEF P, A
<1>5. p \in [A -> Event \cup {NULL}]
  <2>1. ASSUME NEW i \in A PROVE p[i] \in Event \cup {NULL}
    <3>1. CASE i = end
      BY <1>4, <3>1
    <3>2. CASE i \in P \ {end}
      <4>1. next[i] \in A
        BY <1>1, <1>3, <3>2 DEF P
      <4>2. p[i] = h.p[next[i]]
        BY <1>4, <3>2
      <4>3. QED
        BY <1>2, <4>1, <4>2
    <3>3. CASE i \notin P
      <4>1. p[i] = h.p[i]
        BY <1>4, <3>3
      <4>2. QED
        BY <1>2, <4>1
    <3>4. QED
      BY <3>1, <3>2, <3>3
  <2>2. p = [i \in A |-> p[i]]
    BY DEF A
  <2>3. QED
    BY <2>1, <2>2
<1>6. \A x \in Event : \/ idx[x] = h.idx[x] /\ \A i \in P : p[i] # x
                       \/ idx[x] \in P /\ p[idx[x]] = x
  BY DEF P
<1>7. idx \in [Event -> -1..(h.a - 1)]
  <2>1. A \subseteq -1..(h.a - 1)
    BY DEF A, IsHeap
  <2>2. \A x \in Event : idx[x] \in -1..(h.a - 1)
    BY <1>2, <1>3, <1>6, <2>1
  <2>3. QED
    BY <2>2
<1> DEFINE r == [h EXCEPT !.p = p, !.idx = idx]
<1>8. /\ r \in [p : [A -> Event \cup {NULL}], n : {h.n}, a : {h.a}, idx : [Event -> -1..(h.a - 1)]]
      /\ r.p = p /\ r.idx = idx
  BY <1>5, <1>7, StoreArray DEF IsHeap, A
<1> HIDE DEF r
<1>9. Sifted(r, h, next, hole, end, e)
  <2>1. /\ r.p[end] = e
        /\ \A i \in P \ {end} : r.p[i] = h.p[next[i]]
        /\ \A i \in A : i \notin P => r.p[i] = h.p[i]
    BY <1>4, <1>8
  <2>2. \A x \in Event : \/ r.idx[x] = h.idx[x] /\ \A i \in P : r.p[i] # x
                         \/ r.idx[x] \in P /\ r.p[r.idx[x]] = x
    BY <1>6, <1>8
  <2>3. QED
    BY <1>8, <2>1, <2>2, Zenon DEF Sifted, P, A
<1>10. QED
  BY <1>9 DEF r

\* A hole that rises sifts the heap.
LEMMA RiseSifts ==
  ASSUME NEW h, IsHeap(h), NEW hole \in 0..(h.a - 1), NEW e \in Event,
         NEW next \in [0..hole -> 0..hole], \A i \in 0..hole : next[i] <= i
  PROVE  Forward(next) /\ \E end : Sifted(Rise(h, hole, e, next), h, next, hole, end, e)
<1> DEFINE D == 0..hole
           P == Travels(next, hole)
           end == Min(P)
           p == [i \in DOMAIN h.p |-> CASE i = end -> e
                                        [] i \in P \ {end} -> h.p[next[i]]
                                        [] OTHER -> h.p[i]]
           slots(x) == {i \in P : p[i] = x}
           idx == [x \in Event |-> IF slots(x) = {} THEN h.idx[x] ELSE Min(slots(x))]
<1>1. h.a \in Nat /\ h.a > 0 /\ h.a - 1 \in Nat /\ hole \in D /\ D \subseteq 0..(h.a - 1) /\ D \subseteq Nat
  BY DEF IsHeap
<1>2. hole \in P /\ P \subseteq D /\ \A x \in P : next[x] \in P
  BY <1>1, TravelsClosed
<1>3. end \in P /\ \A y \in P : end <= y
  <2>1. P \subseteq Nat /\ P # {}
    BY <1>1, <1>2
  <2> HIDE DEF P
  <2>2. QED
    BY <1>1, <1>2, <2>1, MinSlot
<1>4. next[end] = end
  <2> HIDE DEF P, end
  <2>1. next[end] <= end /\ end <= next[end]
    BY <1>2, <1>3
  <2>2. next[end] \in Int /\ end \in Int
    BY <1>1, <1>2, <1>3
  <2>3. QED
    BY <2>1, <2>2
<1>5. ASSUME NEW x \in Event
      PROVE  \/ idx[x] = h.idx[x] /\ \A i \in P : p[i] # x
             \/ idx[x] \in P /\ p[idx[x]] = x
  <2>1. CASE slots(x) = {}
    BY <2>1
  <2>2. CASE slots(x) # {}
    <3>1. slots(x) \subseteq P
      OBVIOUS
    <3>2. idx[x] = Min(slots(x))
      BY <2>2
    <3>3. \A i \in slots(x) : i \in P /\ p[i] = x
      OBVIOUS
    <3> HIDE DEF P, slots, p, idx
    <3>4. slots(x) \subseteq Nat
      BY <1>1, <1>2, <3>1
    <3>5. Min(slots(x)) \in slots(x)
      BY <1>1, <2>2, <3>4, MinSlot
    <3>6. QED
      BY <3>2, <3>3, <3>5
  <2>3. QED
    BY <2>1, <2>2
<1>6. Sifted(Rise(h, hole, e, next), h, next, hole, end, e)
  <2>1. Rise(h, hole, e, next) = [h EXCEPT !.p = p, !.idx = idx]
    BY DEF Rise
  <2>2. idx = [x \in Event |-> idx[x]]
    OBVIOUS
  <2>3. DOMAIN h.p = 0..(h.a - 1)
    BY DEF IsHeap
  <2>4. /\ p = [i \in 0..(h.a - 1) |-> p[i]] /\ p[end] = e
        /\ \A i \in P \ {end} : p[i] = h.p[next[i]]
        /\ \A i \in 0..(h.a - 1) : i \notin P => p[i] = h.p[i]
    <3> HIDE DEF P, end
    <3>1. QED
      BY <1>1, <1>2, <1>3, <2>3
  <2> HIDE DEF p, idx, slots, end, D
  <2>5. Sifted([h EXCEPT !.p = p, !.idx = idx], h, next, hole, end, e)
    <3>1. D \subseteq 0..(h.a - 1) /\ next \in [D -> D] /\ hole \in D
      BY <1>1 DEF D
    <3>2. QED
      BY <1>3, <1>4, <1>5, <2>2, <2>4, <3>1, SiftResult
  <2>6. QED
    BY <2>1, <2>5
<1>7. Forward(next)
  <2> SUFFICES ASSUME NEW x \in D, x \in Travels(next, next[x]) PROVE next[x] = x
    BY DEF Forward
  <2> DEFINE S == {z \in D : z <= next[x]}
  <2>1. next[x] \in D /\ next[x] <= x /\ x \in Int /\ next[x] \in Int
        /\ \A z \in D : z \in Int /\ next[z] \in D /\ next[z] \in Int
    BY <1>1
  <2>2. S \in SUBSET D /\ next[x] \in S
    BY <2>1
  <2>3. ASSUME NEW z \in S PROVE next[z] \in S
    <3>1. next[z] <= z /\ z <= next[x] /\ z \in D
      OBVIOUS
    <3>2. next[z] <= next[x]
      BY <2>1, <3>1
    <3>3. QED
      BY <2>1, <3>1, <3>2
  <2> HIDE DEF S, D
  <2>4. Travels(next, next[x]) \subseteq S
    BY <2>1, <2>2, <2>3, TravelsLeast DEF D
  <2>5. x <= next[x]
    BY <2>4 DEF S
  <2>6. QED
    BY <2>1, <2>5
<1>8. QED
  BY <1>6, <1>7

\* A hole that sinks sifts the heap.
LEMMA SinkSifts ==
  ASSUME NEW h, IsHeap(h), NEW hole \in 0..(h.a - 1), NEW e \in Event,
         NEW next \in [0..(h.a - 1) -> 0..(h.a - 1)], \A i \in 0..(h.a - 1) : next[i] >= i
  PROVE  Forward(next) /\ \E end : Sifted(Sink(h, hole, e, next), h, next, hole, end, e)
<1> DEFINE D == 0..(h.a - 1)
           P == Travels(next, hole)
           end == Max(P)
           p == [i \in DOMAIN h.p |-> CASE i = end -> e
                                        [] i \in P \ {end} -> h.p[next[i]]
                                        [] OTHER -> h.p[i]]
           slots(x) == {i \in P : p[i] = x}
           idx == [x \in Event |-> IF slots(x) = {} THEN h.idx[x] ELSE Max(slots(x))]
<1>1. h.a \in Nat /\ h.a > 0 /\ h.a - 1 \in Nat /\ hole \in D /\ D \subseteq 0..(h.a - 1) /\ D \subseteq Nat
  BY DEF IsHeap
<1>2. hole \in P /\ P \subseteq D /\ \A x \in P : next[x] \in P
  BY <1>1, TravelsClosed
<1>3. end \in P /\ \A y \in P : end >= y
  <2>1. P \subseteq 0..(h.a - 1) /\ P # {}
    BY <1>1, <1>2
  <2> HIDE DEF P
  <2>2. QED
    BY <1>1, <1>2, <2>1, MaxSlot
<1>4. next[end] = end
  <2> HIDE DEF P, end
  <2>1. next[end] >= end /\ end >= next[end]
    BY <1>2, <1>3
  <2>2. next[end] \in Int /\ end \in Int
    BY <1>1, <1>2, <1>3
  <2>3. QED
    BY <2>1, <2>2
<1>5. ASSUME NEW x \in Event
      PROVE  \/ idx[x] = h.idx[x] /\ \A i \in P : p[i] # x
             \/ idx[x] \in P /\ p[idx[x]] = x
  <2>1. CASE slots(x) = {}
    BY <2>1
  <2>2. CASE slots(x) # {}
    <3>1. slots(x) \subseteq P
      OBVIOUS
    <3>2. idx[x] = Max(slots(x))
      BY <2>2
    <3>3. \A i \in slots(x) : i \in P /\ p[i] = x
      OBVIOUS
    <3> HIDE DEF P, slots, p, idx
    <3>4. slots(x) \subseteq 0..(h.a - 1)
      BY <1>1, <1>2, <3>1
    <3>5. Max(slots(x)) \in slots(x)
      BY <1>1, <2>2, <3>4, MaxSlot
    <3>6. QED
      BY <3>2, <3>3, <3>5
  <2>3. QED
    BY <2>1, <2>2
<1>6. Sifted(Sink(h, hole, e, next), h, next, hole, end, e)
  <2>1. Sink(h, hole, e, next) = [h EXCEPT !.p = p, !.idx = idx]
    BY DEF Sink
  <2>2. idx = [x \in Event |-> idx[x]]
    OBVIOUS
  <2>3. DOMAIN h.p = 0..(h.a - 1)
    BY DEF IsHeap
  <2>4. /\ p = [i \in 0..(h.a - 1) |-> p[i]] /\ p[end] = e
        /\ \A i \in P \ {end} : p[i] = h.p[next[i]]
        /\ \A i \in 0..(h.a - 1) : i \notin P => p[i] = h.p[i]
    <3> HIDE DEF P, end
    <3>1. QED
      BY <1>1, <1>2, <1>3, <2>3
  <2> HIDE DEF p, idx, slots, end, D
  <2>5. Sifted([h EXCEPT !.p = p, !.idx = idx], h, next, hole, end, e)
    <3>1. D \subseteq 0..(h.a - 1) /\ next \in [D -> D] /\ hole \in D
      BY <1>1 DEF D
    <3>2. QED
      BY <1>3, <1>4, <1>5, <2>2, <2>4, <3>1, SiftResult
  <2>6. QED
    BY <2>1, <2>5
<1>7. Forward(next)
  <2> SUFFICES ASSUME NEW x \in D, x \in Travels(next, next[x]) PROVE next[x] = x
    BY DEF Forward
  <2> DEFINE S == {z \in D : z >= next[x]}
  <2>1. next[x] \in D /\ next[x] >= x /\ x \in Int /\ next[x] \in Int
        /\ \A z \in D : z \in Int /\ next[z] \in D /\ next[z] \in Int
    <3>1. \A z \in D : next[z] \in D /\ next[z] >= z
      OBVIOUS
    <3> HIDE DEF D
    <3>2. QED
      BY <1>1, <3>1
  <2>2. S \in SUBSET D /\ next[x] \in S
    BY <2>1
  <2>3. ASSUME NEW z \in S PROVE next[z] \in S
    <3>1. next[z] >= z /\ z >= next[x] /\ z \in D
      OBVIOUS
    <3>2. next[z] >= next[x]
      BY <2>1, <3>1
    <3>3. QED
      BY <2>1, <3>1, <3>2
  <2> HIDE DEF S, D
  <2>4. Travels(next, next[x]) \subseteq S
    BY <2>1, <2>2, <2>3, TravelsLeast DEF D
  <2>5. x >= next[x]
    BY <2>4 DEF S
  <2>6. QED
    BY <2>1, <2>5
<1>8. QED
  BY <1>6, <1>7

-----------------------------------------------------------------------------
(* The heap's invariants under sifting.                                    *)

\* Every slot below n holds an event.
Filled(h) == \A i \in 0..(h.n - 1) : h.p[i] # NULL

\* Slots and indices agree.
Agrees(h) ==
  /\ \A i \in 0..(h.n - 1) : h.p[i] \in Event /\ h.idx[h.p[i]] = i
  /\ \A x \in Event : h.idx[x] # -1 => h.idx[x] \in 0..(h.n - 1) /\ h.p[h.idx[x]] = x

\* The slots of M but hole agree, and hold events other than e.
Others(h, M, hole, e) ==
  \A i \in M \ {hole} : h.p[i] \in Event /\ h.idx[h.p[i]] = i /\ h.p[i] # e

\* All of M agrees, and holds e and what it held but for hole; an event that
\* was not stored keeps its index.
Rejoined(r, h, M, hole, e) ==
  /\ \A i \in M : r.p[i] \in Event /\ r.idx[r.p[i]] = i
  /\ \A i \in M : r.p[i] = e \/ \E j \in M \ {hole} : r.p[i] = h.p[j]
  /\ \A x \in Event : \/ r.idx[x] \in M /\ r.p[r.idx[x]] = x
                      \/ r.idx[x] = h.idx[x] /\ x # e /\ \A j \in M \ {hole} : h.p[j] # x

\* If the other slots of M agree and hold events other than e, sifting e in
\* from hole leaves all of M in agreement.
LEMMA SiftAgrees ==
  ASSUME NEW h, IsHeap(h), NEW D, D \subseteq 0..(h.a - 1), NEW next \in [D -> D], NEW hole \in D,
         Forward(next), NEW e \in Event, NEW r, NEW end, Sifted(r, h, next, hole, end, e),
         NEW M, M \subseteq 0..(h.a - 1), Travels(next, hole) \subseteq M,
         Others(h, M, hole, e)
  PROVE  Rejoined(r, h, M, hole, e)
<1> DEFINE P == Travels(next, hole)
<1>1. /\ end \in P /\ next[end] = end /\ r.p[end] = e
      /\ \A i \in P \ {end} : r.p[i] = h.p[next[i]]
      /\ \A i \in 0..(h.a - 1) : i \notin P => r.p[i] = h.p[i]
      /\ \A x \in Event : \/ r.idx[x] = h.idx[x] /\ \A i \in P : r.p[i] # x
                          \/ r.idx[x] \in P /\ r.p[r.idx[x]] = x
  BY DEF Sifted
<1>2. /\ hole \in P /\ P \subseteq M /\ \A x \in P : next[x] \in P
  BY TravelsClosed
<1>3. /\ \A x \in P \ {hole} : \E y \in P \ {end} : next[y] = x
      /\ \A x, y \in P \ {end} : next[x] = next[y] => x = y
      /\ \A x \in P \ {end} : next[x] # hole
  <2>1. end \in Travels(next, hole) /\ next[end] = end
    BY <1>1
  <2>2. Shifts(next, hole, end)
    BY <2>1, TravelsShift
  <2>3. QED
    BY <2>2 DEF Shifts
<1> HIDE DEF P
<1>4. \A i \in P \ {end} : next[i] \in M \ {hole}
  BY <1>2, <1>3
<1> USE DEF Others
<1>5. ASSUME NEW i \in M PROVE r.p[i] = e \/ \E j \in M \ {hole} : r.p[i] = h.p[j]
  <2>1. CASE i = end
    BY <1>1, <2>1
  <2>2. CASE i \in P \ {end}
    BY <1>1, <1>4, <2>2
  <2>3. CASE i \notin P
    BY <1>1, <1>2, <2>3
  <2>4. QED
    BY <2>1, <2>2, <2>3
<1>6. ASSUME NEW i \in M PROVE r.p[i] \in Event
  BY <1>5
<1>7. ASSUME NEW i \in P, NEW k \in P, r.p[i] = r.p[k] PROVE i = k
  <2>1. CASE i = end /\ k # end
    <3>1. r.p[k] = h.p[next[k]] /\ next[k] \in M \ {hole}
      BY <1>1, <1>4, <2>1
    <3>2. QED
      BY <1>1, <1>7, <2>1, <3>1
  <2>2. CASE k = end /\ i # end
    <3>1. r.p[i] = h.p[next[i]] /\ next[i] \in M \ {hole}
      BY <1>1, <1>4, <2>2
    <3>2. QED
      BY <1>1, <1>7, <2>2, <3>1
  <2>3. CASE i # end /\ k # end
    <3>1. /\ r.p[i] = h.p[next[i]] /\ next[i] \in M \ {hole}
          /\ r.p[k] = h.p[next[k]] /\ next[k] \in M \ {hole}
      BY <1>1, <1>4, <2>3
    <3>2. next[i] = next[k]
      BY <1>7, <3>1
    <3>3. QED
      BY <1>3, <2>3, <3>2
  <2>4. QED
    BY <2>1, <2>2, <2>3
<1>8. ASSUME NEW i \in P, NEW k \in M \ P PROVE r.p[i] # r.p[k]
  <2>1. r.p[k] = h.p[k] /\ k \in M \ {hole}
    BY <1>1, <1>2
  <2>2. CASE i = end
    BY <1>1, <2>1, <2>2
  <2>3. CASE i # end
    <3>1. r.p[i] = h.p[next[i]] /\ next[i] \in M \ {hole} /\ next[i] \in P
      BY <1>1, <1>2, <1>4, <2>3
    <3>2. QED
      BY <2>1, <3>1
  <2>4. QED
    BY <2>2, <2>3
<1>9. ASSUME NEW i \in M PROVE r.idx[r.p[i]] = i
  <2>1. r.p[i] \in Event
    BY <1>6
  <2>2. CASE i \in P
    <3>1. r.idx[r.p[i]] \in P /\ r.p[r.idx[r.p[i]]] = r.p[i]
      BY <1>1, <2>1, <2>2
    <3>2. QED
      BY <1>7, <2>2, <3>1
  <2>3. CASE i \notin P
    <3>1. r.p[i] = h.p[i] /\ i \in M \ {hole}
      BY <1>1, <1>2, <2>3
    <3>2. r.idx[r.p[i]] = h.idx[r.p[i]]
      BY <1>1, <1>8, <2>1, <2>3
    <3>3. QED
      BY <3>1, <3>2
  <2>4. QED
    BY <2>2, <2>3
<1>10. ASSUME NEW x \in Event
       PROVE  \/ r.idx[x] \in M /\ r.p[r.idx[x]] = x
              \/ r.idx[x] = h.idx[x] /\ x # e /\ \A j \in M \ {hole} : h.p[j] # x
  <2>1. CASE r.idx[x] \in P /\ r.p[r.idx[x]] = x
    BY <1>2, <2>1
  <2>2. CASE r.idx[x] = h.idx[x] /\ \A i \in P : r.p[i] # x
    <3>1. x # e
      BY <1>1, <2>2
    <3>2. CASE \E j \in M \ {hole} : h.p[j] = x
      <4>1. PICK j \in M \ {hole} : h.p[j] = x
        BY <3>2
      <4>2. CASE j \in P
        <5>1. PICK y \in P \ {end} : next[y] = j
          BY <1>3, <4>1, <4>2
        <5>2. r.p[y] = x
          BY <1>1, <4>1, <5>1
        <5>3. QED
          BY <2>2, <5>2
      <4>3. CASE j \notin P
        <5>1. r.p[j] = x /\ r.idx[x] = j
          BY <1>1, <2>2, <4>1, <4>3
        <5>2. QED
          BY <4>1, <5>1
      <4>4. QED
        BY <4>2, <4>3
    <3>3. QED
      BY <2>2, <3>1, <3>2
  <2>3. QED
    BY <1>1, <2>1, <2>2
<1>11. QED
  BY <1>5, <1>6, <1>9, <1>10 DEF Rejoined

\* Sifting fills the slots below n with events, if those outside the way hold
\* one and the way leads on to slots that do.
LEMMA SiftFilled ==
  ASSUME NEW h, IsHeap(h), NEW D, D \subseteq 0..(h.a - 1), NEW next \in [D -> D], NEW hole \in D,
         Forward(next), NEW e \in Event, NEW r, NEW end, Sifted(r, h, next, hole, end, e),
         \A i \in 0..(h.n - 1) : i \notin Travels(next, hole) => h.p[i] # NULL,
         \A i \in Travels(next, hole) : i < h.n => next[i] = i \/ h.p[next[i]] # NULL
  PROVE  Filled(r)
<1> DEFINE P == Travels(next, hole)
<1>1. /\ end \in P /\ next[end] = end /\ r.p[end] = e /\ r.n = h.n
      /\ \A i \in P \ {end} : r.p[i] = h.p[next[i]]
      /\ \A i \in 0..(h.a - 1) : i \notin P => r.p[i] = h.p[i]
  BY DEF Sifted
<1>2. \A x \in P : next[x] = x => x = end
  <2>1. end \in Travels(next, hole) /\ next[end] = end
    BY <1>1
  <2>2. Shifts(next, hole, end)
    BY <2>1, TravelsShift
  <2>3. QED
    BY <2>2 DEF Shifts
<1>3. \A i \in P : i < h.n => next[i] = i \/ h.p[next[i]] # NULL
  OBVIOUS
<1>4. \A i \in 0..(h.n - 1) : i \notin P => h.p[i] # NULL
  OBVIOUS
<1> HIDE DEF P
<1>5. ASSUME NEW i \in 0..(h.n - 1) PROVE r.p[i] # NULL
  <2>1. i < h.n /\ i \in 0..(h.a - 1)
    BY DEF IsHeap
  <2>2. CASE i = end
    BY <1>1, <2>2, HeapAssumption
  <2>3. CASE i \in P \ {end}
    BY <1>1, <1>2, <1>3, <2>1, <2>3
  <2>4. CASE i \notin P
    BY <1>1, <1>4, <2>1, <2>4
  <2>5. QED
    BY <2>2, <2>3, <2>4
<1>6. QED
  BY <1>1, <1>5 DEF Filled

-----------------------------------------------------------------------------
(* The operations.                                                         *)

\* The constructor's heap is empty.
LEMMA Constructed ==
  LET h == min_heap_constructor_([e \in Event |-> -1])
  IN  IsHeap(h) /\ Filled(h) /\ Agrees(h)
<1> DEFINE h == min_heap_constructor_([e \in Event |-> -1])
<1>1. h.n = 0 /\ h.a = 0 /\ h.idx = [e \in Event |-> -1]
  BY DEF min_heap_constructor_
<1>2. h \in [p : [{} -> Event \cup {NULL}], n : {0}, a : {0}, idx : [Event -> {-1}]]
  BY DEF min_heap_constructor_
<1> HIDE DEF h
<1>3. 0..(h.a - 1) = {} /\ 0..(h.n - 1) = {} /\ 0 \in 0..0
  BY <1>1
<1>4. h \in [p : [0..(h.a - 1) -> Event \cup {NULL}], n : 0..h.a, a : Nat, idx : [Event -> -1..(h.a - 1)]]
  BY <1>1, <1>2, <1>3
<1>5. IsHeap(h)
  BY <1>4 DEF IsHeap
<1>6. Filled(h) /\ Agrees(h)
  BY <1>1, <1>3 DEF Filled, Agrees
<1>7. QED
  BY <1>5, <1>6 DEF h

\* Changing the number of elements leaves the rest.
LEMMA Resized ==
  ASSUME NEW h, IsHeap(h), NEW n \in 0..h.a
  PROVE  LET g == [h EXCEPT !.n = n]
         IN  IsHeap(g) /\ g.p = h.p /\ g.n = n /\ g.a = h.a /\ g.idx = h.idx
  BY DEF IsHeap

\* min_heap_elem_init_ forgets one index and leaves the rest.
LEMMA ElemInit ==
  ASSUME NEW h, IsHeap(h), NEW e \in Event
  PROVE  LET g == min_heap_elem_init_(h, e)
         IN  IsHeap(g) /\ g.p = h.p /\ g.n = h.n /\ g.a = h.a /\ g.idx = [h.idx EXCEPT ![e] = -1]
<1> DEFINE g == [h EXCEPT !.idx[e] = -1]
<1>1. h.a \in Nat /\ h.idx \in [Event -> -1..(h.a - 1)]
  BY DEF IsHeap
<1>2. [h.idx EXCEPT ![e] = -1] \in [Event -> -1..(h.a - 1)]
  BY <1>1
<1>3. g.p = h.p /\ g.n = h.n /\ g.a = h.a /\ g.idx = [h.idx EXCEPT ![e] = -1]
  BY DEF IsHeap
<1>4. g \in [p : [0..(h.a - 1) -> Event \cup {NULL}], n : 0..h.a, a : Nat, idx : [Event -> -1..(h.a - 1)]]
  BY <1>2 DEF IsHeap
<1> HIDE DEF g
<1>5. IsHeap(g)
  BY <1>3, <1>4, Zenon DEF IsHeap
<1>6. QED
  BY <1>3, <1>5 DEF g, min_heap_elem_init_

\* Forgetting the index of an event that is not in the heap leaves slots and
\* indices in agreement.
LEMMA ForgetAgrees ==
  ASSUME NEW h, IsHeap(h), Agrees(h), NEW e \in Event, \A i \in 0..(h.n - 1) : h.p[i] # e
  PROVE  Agrees(min_heap_elem_init_(h, e))
<1> DEFINE g == min_heap_elem_init_(h, e)
<1>1. IsHeap(g) /\ g.p = h.p /\ g.n = h.n /\ g.a = h.a /\ g.idx = [h.idx EXCEPT ![e] = -1]
  BY ElemInit
<1> HIDE DEF g
<1>2. \A x \in Event : g.idx[x] = IF x = e THEN -1 ELSE h.idx[x]
  BY <1>1 DEF IsHeap
<1>3. Agrees(g)
  BY <1>1, <1>2 DEF Agrees
<1>4. QED
  BY <1>3 DEF g

\* min_heap_reserve_ copies every slot into the larger array, and has room
\* for what was asked for unless realloc failed.
LEMMA Reserved ==
  ASSUME NEW h, IsHeap(h), NEW n \in Nat, NEW reallocated \in BOOLEAN
  PROVE  LET g == min_heap_reserve_(h, n, reallocated)
         IN  /\ IsHeap(g) /\ g.n = h.n /\ g.idx = h.idx /\ g.a >= h.a
             /\ \A i \in 0..(h.a - 1) : g.p[i] = h.p[i]
<1> DEFINE size == IF h.a = 0 THEN HEAP_INIT ELSE 2 * h.a
           a == Max({size, n})
           p == [i \in 0..(a - 1) |-> IF i < h.a THEN h.p[i] ELSE NULL]
           g == [h EXCEPT !.p = p, !.a = a]
<1>1. h.a \in Nat /\ h.p \in [0..(h.a - 1) -> Event \cup {NULL}]
      /\ h.n \in 0..h.a /\ h.idx \in [Event -> -1..(h.a - 1)]
  BY DEF IsHeap
<1>2. size \in Nat /\ size >= h.a
  BY <1>1, HeapAssumption
<1> HIDE DEF size
<1>3. a \in Nat /\ a >= h.a
  <2> DEFINE b == size + n
  <2>1. b \in Nat /\ {size, n} \subseteq 0..b /\ {size, n} # {}
    BY <1>2
  <2> HIDE DEF b
  <2>2. a \in {size, n} /\ \A y \in {size, n} : a >= y
    BY <2>1, MaxSlot
  <2> HIDE DEF a
  <2>3. QED
    BY <1>1, <1>2, <2>2
<1> HIDE DEF a
<1>4. /\ p \in [0..(a - 1) -> Event \cup {NULL}]
      /\ \A i \in 0..(h.a - 1) : p[i] = h.p[i]
  BY <1>1, <1>3
<1> HIDE DEF p
<1>5. IsHeap(g) /\ g.n = h.n /\ g.idx = h.idx /\ g.a = a /\ g.p = p
  <2>1. h.n \in 0..a /\ h.idx \in [Event -> -1..(a - 1)]
    BY <1>1, <1>3
  <2>2. g.n = h.n /\ g.idx = h.idx /\ g.a = a /\ g.p = p
    BY DEF IsHeap
  <2>3. g \in [p : [0..(a - 1) -> Event \cup {NULL}], n : 0..a, a : Nat, idx : [Event -> -1..(a - 1)]]
    BY <1>3, <1>4, <2>1 DEF IsHeap
  <2>4. QED
    BY <2>2, <2>3, Zenon DEF IsHeap
<1> HIDE DEF g
<1>6. \/ min_heap_reserve_(h, n, reallocated) = h
      \/ min_heap_reserve_(h, n, reallocated) = g
  BY Zenon DEF min_heap_reserve_, g, p, a, size
<1>7. QED
  BY <1>1, <1>3, <1>4, <1>5, <1>6

\* A turn of the upward loop goes to a slot above or stays.
LEMMA RiseTurn ==
  ASSUME NEW h, NEW hole \in Nat, NEW e, NEW endtime
  PROVE  LET next == RiseNext(h, hole, e, endtime)
         IN  next \in [0..hole -> 0..hole] /\ \A i \in 0..hole : next[i] <= i
<1>1. ASSUME NEW i \in 0..hole, i > 0 PROVE Parent(i) \in 0..hole /\ Parent(i) <= i
  BY <1>1 DEF Parent
<1>2. QED
  BY <1>1 DEF RiseNext

\* So does the first turn of the unconditional one.
LEMMA RiseTurnAtOnce ==
  ASSUME NEW h, NEW hole \in Nat, hole > 0, NEW e, NEW endtime
  PROVE  LET next == [RiseNext(h, hole, e, endtime) EXCEPT ![hole] = Parent(hole)]
         IN  next \in [0..hole -> 0..hole] /\ \A i \in 0..hole : next[i] <= i
<1> DEFINE R == RiseNext(h, hole, e, endtime)
<1>1. R \in [0..hole -> 0..hole] /\ \A i \in 0..hole : R[i] <= i
  BY RiseTurn
<1>2. Parent(hole) \in 0..hole /\ Parent(hole) <= hole
  BY DEF Parent
<1> HIDE DEF R
<1>3. LET next == [R EXCEPT ![hole] = Parent(hole)]
      IN  next \in [0..hole -> 0..hole] /\ \A i \in 0..hole : next[i] <= i
  BY <1>1, <1>2
<1>4. QED
  BY <1>3 DEF R

\* A turn of the downward loop goes to a slot below, still under n, or stays;
\* it stays in a slot that is not under n.
LEMMA SinkTurn ==
  ASSUME NEW h, IsHeap(h), NEW e, NEW endtime
  PROVE  LET next == SinkNext(h, e, endtime)
         IN  /\ next \in [0..(h.a - 1) -> 0..(h.a - 1)]
             /\ \A i \in 0..(h.a - 1) : next[i] = i \/ (i < next[i] /\ next[i] < h.n)
             /\ \A i \in 0..(h.a - 1) : i >= h.n => next[i] = i
<1>1. h.a \in Nat /\ h.n \in 0..h.a /\ DOMAIN h.p = 0..(h.a - 1)
  BY DEF IsHeap
<1>2. ASSUME NEW i \in 0..(h.a - 1), 2 * (i + 1) <= h.n
      PROVE  /\ MinChild(h, i, endtime) \in 0..(h.a - 1)
             /\ i < MinChild(h, i, endtime) /\ MinChild(h, i, endtime) < h.n
             /\ i < h.n
  <2> DEFINE c == 2 * (i + 1)
  <2>1. MinChild(h, i, endtime) = c - 1 \/ (MinChild(h, i, endtime) = c /\ c # h.n)
    BY DEF MinChild
  <2>2. QED
    BY <1>1, <1>2, <2>1
<1> DEFINE next == SinkNext(h, e, endtime)
<1>3. /\ next = [i \in 0..(h.a - 1) |-> next[i]]
      /\ \A i \in 0..(h.a - 1) : next[i] = i \/ (next[i] = MinChild(h, i, endtime) /\ 2 * (i + 1) <= h.n)
  BY <1>1 DEF SinkNext
<1> HIDE DEF next
<1>4. ASSUME NEW i \in 0..(h.a - 1)
      PROVE  /\ next[i] \in 0..(h.a - 1)
             /\ next[i] = i \/ (i < next[i] /\ next[i] < h.n)
             /\ i >= h.n => next[i] = i
  <2>1. CASE next[i] = i
    BY <2>1
  <2>2. CASE next[i] = MinChild(h, i, endtime) /\ 2 * (i + 1) <= h.n
    <3>1. /\ next[i] \in 0..(h.a - 1) /\ i < next[i] /\ next[i] < h.n /\ i < h.n
      BY <1>2, <2>2
    <3>2. QED
      BY <1>1, <3>1
  <2>3. QED
    BY <1>3, <2>1, <2>2
<1>5. QED
  BY <1>3, <1>4 DEF next

\* A slot above one that is under n is under n.
LEMMA SlotAbove ==
  ASSUME NEW n \in Nat, NEW hole \in Nat, NEW i \in Nat, NEW k \in Nat,
         k <= i, i < n, k # i, i <= hole
  PROVE  k \in 0..(n - 1) /\ k # hole
  OBVIOUS

\* A rising hole: counters stay, the slots under n are filled and agree.
LEMMA RiseKeeps ==
  ASSUME NEW h, IsHeap(h), NEW hole \in 0..(h.a - 1), NEW e \in Event,
         NEW next \in [0..hole -> 0..hole], \A i \in 0..hole : next[i] <= i
  PROVE  LET r == Rise(h, hole, e, next)
         IN  /\ IsHeap(r) /\ r.n = h.n /\ r.a = h.a
             /\ (\A i \in 0..(h.n - 1) : i # hole => h.p[i] # NULL) => Filled(r)
             /\ hole < h.n /\ Others(h, 0..(h.n - 1), hole, e) => Rejoined(r, h, 0..(h.n - 1), hole, e)
<1> DEFINE D == 0..hole
           P == Travels(next, hole)
           r == Rise(h, hole, e, next)
<1>1. PICK end : Forward(next) /\ Sifted(r, h, next, hole, end, e)
  BY RiseSifts
<1> HIDE DEF r
<1>2. h.a \in Nat /\ h.n \in 0..h.a /\ hole \in D /\ D \subseteq 0..(h.a - 1) /\ next \in [D -> D]
  BY DEF IsHeap
<1>3. hole \in P /\ P \subseteq D
  BY <1>2, TravelsClosed
<1>4. /\ r \in [p : [0..(h.a - 1) -> Event \cup {NULL}], n : {h.n}, a : {h.a}, idx : [Event -> -1..(h.a - 1)]]
  BY <1>1 DEF Sifted
<1>5. IsHeap(r) /\ r.n = h.n /\ r.a = h.a
  BY <1>2, <1>4 DEF IsHeap
<1>6. ASSUME \A i \in 0..(h.n - 1) : i # hole => h.p[i] # NULL PROVE Filled(r)
  <2>1. \A i \in 0..(h.n - 1) : i \notin Travels(next, hole) => h.p[i] # NULL
    BY <1>3, <1>6
  <2>2. ASSUME NEW i \in Travels(next, hole), i < h.n, next[i] # i PROVE h.p[next[i]] # NULL
    <3> DEFINE k == next[i]
    <3>1. i \in 0..hole /\ k \in 0..hole /\ k <= i /\ i < h.n /\ k # i
      BY <1>3, <2>2
    <3> HIDE DEF k
    <3>2. h.n \in Nat /\ k \in Nat /\ i \in Nat /\ hole \in Nat /\ k <= i /\ i < h.n /\ k # i /\ i <= hole
      BY <1>2, <3>1
    <3>3. k \in 0..(h.n - 1) /\ k # hole
      BY <3>2, SlotAbove
    <3>4. QED
      BY <1>6, <3>3 DEF k
  <2> HIDE DEF D
  <2>3. QED
    BY <1>1, <1>2, <2>1, <2>2, SiftFilled
<1>7. ASSUME hole < h.n, Others(h, 0..(h.n - 1), hole, e)
      PROVE  Rejoined(r, h, 0..(h.n - 1), hole, e)
  <2> DEFINE M == 0..(h.n - 1)
  <2>1. M \subseteq 0..(h.a - 1) /\ D \subseteq M
    BY <1>2, <1>7
  <2>2. Travels(next, hole) \subseteq M /\ Others(h, M, hole, e)
    BY <1>3, <1>7, <2>1
  <2> HIDE DEF M, D
  <2>3. Rejoined(r, h, M, hole, e)
    BY <1>1, <1>2, <2>1, <2>2, SiftAgrees
  <2>4. QED
    BY <2>3 DEF M
<1>8. QED
  BY <1>5, <1>6, <1>7 DEF r

\* A sinking hole, likewise; one that starts at n or after stays there.
LEMMA SinkKeeps ==
  ASSUME NEW h, IsHeap(h), NEW hole \in 0..(h.a - 1), NEW e \in Event, NEW endtime
  PROVE  LET r == min_heap_shift_down_(h, hole, e, endtime)
         IN  /\ IsHeap(r) /\ r.n = h.n /\ r.a = h.a
             /\ Filled(h) => Filled(r)
             /\ hole < h.n /\ Others(h, 0..(h.n - 1), hole, e) => Rejoined(r, h, 0..(h.n - 1), hole, e)
             /\ hole >= h.n => /\ \A i \in 0..(h.a - 1) : i # hole => r.p[i] = h.p[i]
                               /\ \A x \in Event : x # e => r.idx[x] = h.idx[x]
<1> DEFINE D == 0..(h.a - 1)
           next == SinkNext(h, e, endtime)
           P == Travels(next, hole)
           r == min_heap_shift_down_(h, hole, e, endtime)
<1>1. /\ next \in [D -> D]
      /\ \A i \in D : next[i] = i \/ (i < next[i] /\ next[i] < h.n)
      /\ \A i \in D : i >= h.n => next[i] = i
  BY SinkTurn
<1>2. h.a \in Nat /\ h.n \in 0..h.a /\ hole \in D
  BY DEF IsHeap
<1>3. r = Sink(h, hole, e, next)
  BY DEF min_heap_shift_down_
<1> HIDE DEF r, next
<1>4. PICK end : Forward(next) /\ Sifted(r, h, next, hole, end, e)
  <2>1. \A i \in D : next[i] >= i
    BY <1>1, <1>2
  <2>2. QED
    BY <1>1, <1>2, <1>3, <2>1, SinkSifts
<1>5. hole \in P /\ P \subseteq D
  <2> HIDE DEF D
  <2>1. QED
    BY <1>1, <1>2, TravelsClosed
<1>6. /\ r \in [p : [0..(h.a - 1) -> Event \cup {NULL}], n : {h.n}, a : {h.a}, idx : [Event -> -1..(h.a - 1)]]
  BY <1>4 DEF Sifted
<1>7. IsHeap(r) /\ r.n = h.n /\ r.a = h.a
  BY <1>2, <1>6 DEF IsHeap
<1>8. ASSUME Filled(h) PROVE Filled(r)
  <2>1. \A i \in 0..(h.n - 1) : i \notin Travels(next, hole) => h.p[i] # NULL
    BY <1>8 DEF Filled
  <2>2. ASSUME NEW i \in Travels(next, hole), i < h.n, next[i] # i PROVE h.p[next[i]] # NULL
    <3>1. i \in D /\ i < next[i] /\ next[i] < h.n /\ next[i] \in D
      BY <1>1, <1>5, <2>2
    <3>2. next[i] \in 0..(h.n - 1)
      BY <1>2, <3>1
    <3>3. QED
      BY <1>8, <3>2 DEF Filled
  <2>3. D \subseteq 0..(h.a - 1)
    OBVIOUS
  <2> HIDE DEF D
  <2>4. QED
    BY <1>1, <1>2, <1>4, <2>1, <2>2, <2>3, SiftFilled
<1>9. ASSUME hole < h.n, Others(h, 0..(h.n - 1), hole, e)
      PROVE  Rejoined(r, h, 0..(h.n - 1), hole, e)
  <2> DEFINE M == 0..(h.n - 1)
  <2>1. M \subseteq 0..(h.a - 1) /\ hole \in M /\ M \in SUBSET D /\ D \subseteq 0..(h.a - 1)
    BY <1>2, <1>9
  <2>2. ASSUME NEW x \in M PROVE next[x] \in M
    <3>1. x \in D
      BY <2>1
    <3>2. next[x] \in D
      BY <1>1, <3>1
    <3>3. CASE next[x] = x
      BY <3>3
    <3>4. CASE next[x] < h.n
      BY <1>2, <3>2, <3>4
    <3>5. QED
      BY <1>1, <3>1, <3>3, <3>4
  <2> HIDE DEF M, D
  <2>3. Travels(next, hole) \subseteq M
    BY <1>1, <1>2, <2>1, <2>2, TravelsLeast
  <2>4. Others(h, M, hole, e)
    BY <1>9 DEF M
  <2>5. Rejoined(r, h, M, hole, e)
    BY <1>1, <1>2, <1>4, <2>1, <2>3, <2>4, SiftAgrees
  <2>6. QED
    BY <2>5 DEF M
<1>10. ASSUME hole >= h.n
       PROVE  /\ \A i \in 0..(h.a - 1) : i # hole => r.p[i] = h.p[i]
              /\ \A x \in Event : x # e => r.idx[x] = h.idx[x]
  <2>1. next[hole] = hole
    BY <1>1, <1>2, <1>10
  <2>2. P = {hole}
    <3> HIDE DEF D
    <3>1. QED
      BY <1>1, <1>2, <2>1, TravelsFixed
  <2>3. /\ end \in P /\ r.p[end] = e
        /\ \A i \in 0..(h.a - 1) : i \notin P => r.p[i] = h.p[i]
        /\ \A x \in Event : \/ r.idx[x] = h.idx[x] /\ \A i \in P : r.p[i] # x
                            \/ r.idx[x] \in P /\ r.p[r.idx[x]] = x
    BY <1>4 DEF Sifted
  <2> HIDE DEF P
  <2>4. QED
    BY <2>2, <2>3
<1>11. QED
  BY <1>7, <1>8, <1>9, <1>10 DEF r

\* min_heap_push_ keeps the heap's types and its slots filled; slots and
\* indices stay in agreement if the event was not in the heap.
LEMMA PushKeeps ==
  ASSUME NEW h, IsHeap(h), NEW e \in Event, NEW endtime, NEW reallocated \in BOOLEAN
  PROVE  LET r == min_heap_push_(h, e, endtime, reallocated)
         IN  /\ IsHeap(r)
             /\ Filled(h) => Filled(r)
             /\ Agrees(h) /\ (\A i \in 0..(h.n - 1) : h.p[i] # e) => Agrees(r)
<1> DEFINE m == min_heap_reserve_(h, h.n + 1, reallocated)
           g == [m EXCEPT !.n = @ + 1]
           r == min_heap_shift_up_(g, h.n, e, endtime)
<1>1. h.n \in Nat /\ h.n + 1 \in Nat /\ h.a \in Nat /\ h.n <= h.a
  BY DEF IsHeap
<1>2. /\ IsHeap(m) /\ m.n = h.n /\ m.idx = h.idx /\ m.a >= h.a
      /\ \A i \in 0..(h.a - 1) : m.p[i] = h.p[i]
  BY <1>1, Reserved
<1>3. min_heap_push_(h, e, endtime, reallocated) = IF m.a < h.n + 1 THEN h ELSE r
  BY DEF min_heap_push_
<1> HIDE DEF m
<1>4. CASE m.a < h.n + 1
  BY <1>3, <1>4
<1>5. CASE ~(m.a < h.n + 1)
  <2>1. m.a \in Nat /\ m.n + 1 \in 0..m.a /\ h.n \in 0..(m.a - 1)
    BY <1>1, <1>2, <1>5 DEF IsHeap
  <2>2. IsHeap(g) /\ g.p = m.p /\ g.n = m.n + 1 /\ g.a = m.a /\ g.idx = m.idx
    BY <1>2, <2>1, Resized
  <2> HIDE DEF g
  <2>3. /\ \A i \in 0..(h.n - 1) : g.p[i] = h.p[i]
        /\ g.n = h.n + 1 /\ g.idx = h.idx /\ h.n \in 0..(g.a - 1) /\ 0..(g.n - 1) = 0..h.n
    BY <1>1, <1>2, <2>1, <2>2
  <2> DEFINE next == RiseNext(g, h.n, e, endtime)
  <2>4. next \in [0..h.n -> 0..h.n] /\ \A i \in 0..h.n : next[i] <= i
    BY <1>1, RiseTurn
  <2>5. r = Rise(g, h.n, e, next)
    BY DEF min_heap_shift_up_
  <2> HIDE DEF next, r
  <2>6. /\ IsHeap(r) /\ r.n = g.n /\ r.a = g.a
        /\ (\A i \in 0..(g.n - 1) : i # h.n => g.p[i] # NULL) => Filled(r)
        /\ h.n < g.n /\ Others(g, 0..(g.n - 1), h.n, e) => Rejoined(r, g, 0..(g.n - 1), h.n, e)
    BY <2>2, <2>3, <2>4, <2>5, RiseKeeps
  <2>7. ASSUME Filled(h) PROVE Filled(r)
    <3>1. ASSUME NEW i \in 0..(g.n - 1), i # h.n PROVE g.p[i] # NULL
      <4>1. i \in 0..(h.n - 1)
        BY <1>1, <2>3, <3>1
      <4>2. QED
        BY <2>3, <2>7, <4>1 DEF Filled
    <3>2. QED
      BY <2>6, <3>1
  <2>8. ASSUME Agrees(h), \A i \in 0..(h.n - 1) : h.p[i] # e PROVE Agrees(r)
    <3>1. (0..h.n) \ {h.n} = 0..(h.n - 1) /\ h.n < g.n
      BY <1>1, <2>3
    <3>2. Others(g, 0..h.n, h.n, e)
      BY <2>3, <2>8, <3>1 DEF Others, Agrees
    <3>3. Rejoined(r, g, 0..h.n, h.n, e)
      BY <2>3, <2>6, <3>1, <3>2
    <3>4. \A i \in 0..h.n : r.p[i] \in Event /\ r.idx[r.p[i]] = i
      BY <3>3 DEF Rejoined
    <3>5. ASSUME NEW x \in Event, r.idx[x] # -1 PROVE r.idx[x] \in 0..h.n /\ r.p[r.idx[x]] = x
      <4>1. CASE r.idx[x] = g.idx[x] /\ \A j \in 0..(h.n - 1) : g.p[j] # x
        <5>1. h.idx[x] \in 0..(h.n - 1) /\ h.p[h.idx[x]] = x
          BY <2>3, <2>8, <3>5, <4>1 DEF Agrees
        <5>2. QED
          BY <2>3, <4>1, <5>1
      <4>2. QED
        BY <3>1, <3>3, <4>1 DEF Rejoined
    <3>6. 0..(r.n - 1) = 0..h.n
      BY <2>3, <2>6
    <3>7. QED
      BY <3>4, <3>5, <3>6 DEF Agrees
  <2>9. QED
    BY <1>3, <1>5, <2>6, <2>7, <2>8
<1>6. QED
  BY <1>4, <1>5

\* The last event, moved into the slot of the one that leaves, restores the
\* agreement of slots and indices.
LEMMA RefillAgrees ==
  ASSUME NEW h, IsHeap(h), Agrees(h), h.n > 0, NEW hole \in 0..(h.n - 2),
         NEW g, IsHeap(g), g.p = h.p, g.idx = h.idx, g.n = h.n - 1,
         NEW r, IsHeap(r), r.n = g.n,
         Others(g, 0..(g.n - 1), hole, h.p[h.n - 1]) => Rejoined(r, g, 0..(g.n - 1), hole, h.p[h.n - 1])
  PROVE  Agrees(min_heap_elem_init_(r, h.p[hole]))
<1> DEFINE last == h.p[h.n - 1]
           gone == h.p[hole]
           M == 0..(g.n - 1)
           f == min_heap_elem_init_(r, gone)
<1>1. /\ h.n \in Nat /\ h.n - 1 \in 0..(h.n - 1) /\ hole \in 0..(h.n - 1) /\ hole # h.n - 1
      /\ M \subseteq 0..(h.n - 1) /\ h.n - 1 \notin M /\ hole \in M
      /\ \A i \in 0..(h.n - 1) : i # h.n - 1 => i \in M
  BY DEF IsHeap
<1>2. /\ \A i \in 0..(h.n - 1) : h.p[i] \in Event /\ h.idx[h.p[i]] = i
      /\ \A x \in Event : h.idx[x] # -1 => h.idx[x] \in 0..(h.n - 1) /\ h.p[h.idx[x]] = x
  BY DEF Agrees
<1>3. last \in Event /\ gone \in Event /\ h.idx[last] = h.n - 1 /\ h.idx[gone] = hole
  BY <1>1, <1>2
<1>4. Others(g, M, hole, last)
  <2>1. ASSUME NEW i \in M \ {hole} PROVE g.p[i] \in Event /\ g.idx[g.p[i]] = i /\ g.p[i] # last
    <3>1. i \in 0..(h.n - 1) /\ i # h.n - 1
      BY <1>1
    <3>2. QED
      BY <1>2, <1>3, <3>1
  <2> HIDE DEF M, last
  <2>2. QED
    BY <2>1 DEF Others
<1>5. Rejoined(r, g, M, hole, last)
  BY <1>4
<1>6. IsHeap(f) /\ f.p = r.p /\ f.n = r.n /\ f.idx = [r.idx EXCEPT ![gone] = -1]
  BY <1>3, ElemInit
<1> HIDE DEF f, M, gone, last
<1>7. \A x \in Event : f.idx[x] = IF x = gone THEN -1 ELSE r.idx[x]
  BY <1>3, <1>6 DEF IsHeap
<1>8. ASSUME NEW i \in M PROVE f.p[i] \in Event /\ f.idx[f.p[i]] = i
  <2>1. r.p[i] \in Event /\ r.idx[r.p[i]] = i
    BY <1>5 DEF Rejoined
  <2>2. r.p[i] # gone
    <3>1. CASE r.p[i] = last
      BY <1>1, <1>3, <3>1
    <3>2. CASE \E j \in M \ {hole} : r.p[i] = g.p[j]
      <4>1. PICK j \in M \ {hole} : r.p[i] = g.p[j]
        BY <3>2
      <4>2. h.idx[h.p[j]] = j
        BY <1>1, <1>2, <4>1
      <4>3. QED
        BY <1>3, <4>1, <4>2
    <3>3. QED
      BY <1>5, <3>1, <3>2 DEF Rejoined
  <2>3. QED
    BY <1>6, <1>7, <2>1, <2>2
<1>9. ASSUME NEW x \in Event, f.idx[x] # -1 PROVE f.idx[x] \in M /\ f.p[f.idx[x]] = x
  <2>1. x # gone /\ f.idx[x] = r.idx[x]
    BY <1>7, <1>9
  <2>2. CASE r.idx[x] = h.idx[x] /\ x # last /\ \A j \in M \ {hole} : h.p[j] # x
    <3>1. h.idx[x] \in 0..(h.n - 1) /\ h.p[h.idx[x]] = x
      BY <1>2, <1>9, <2>1, <2>2
    <3>2. h.idx[x] # h.n - 1 /\ h.idx[x] # hole
      BY <2>1, <2>2, <3>1 DEF last, gone
    <3>3. h.idx[x] \in M \ {hole}
      BY <1>1, <3>1, <3>2
    <3>4. QED
      BY <2>2, <3>1, <3>3
  <2>3. CASE r.idx[x] \in M /\ r.p[r.idx[x]] = x
    BY <1>6, <2>1, <2>3
  <2>4. QED
    BY <1>5, <2>2, <2>3 DEF Rejoined
<1>10. 0..(f.n - 1) = M
  BY <1>6 DEF M
<1>11. Agrees(f)
  BY <1>8, <1>9, <1>10 DEF Agrees
<1>12. QED
  BY <1>11 DEF f, gone

\* The downward half of min_heap_erase_, and min_heap_pop_.
LEMMA SinkOut ==
  ASSUME NEW h, IsHeap(h), Filled(h), h.n > 0, NEW hole \in 0..(h.a - 1), NEW gone \in Event, NEW endtime
  PROVE  LET f == min_heap_elem_init_(
                    min_heap_shift_down_([h EXCEPT !.n = @ - 1], hole, h.p[h.n - 1], endtime), gone)
         IN  /\ IsHeap(f) /\ Filled(f)
             /\ Agrees(h) /\ hole < h.n /\ gone = h.p[hole] => Agrees(f)
<1> DEFINE g == [h EXCEPT !.n = @ - 1]
           last == h.p[h.n - 1]
           r == min_heap_shift_down_(g, hole, last, endtime)
           f == min_heap_elem_init_(r, gone)
<1>1. h.n \in Nat /\ h.a \in Nat /\ h.n - 1 \in 0..h.a /\ h.n - 1 \in 0..(h.n - 1) /\ h.n - 1 \in 0..(h.a - 1)
  BY DEF IsHeap
<1>2. last \in Event
  BY <1>1 DEF IsHeap, Filled
<1>3. IsHeap(g) /\ g.p = h.p /\ g.n = h.n - 1 /\ g.a = h.a /\ g.idx = h.idx
  BY <1>1, Resized
<1> HIDE DEF g
<1>4. Filled(g)
  <2>1. \A i \in 0..(g.n - 1) : i \in 0..(h.n - 1)
    BY <1>1, <1>3
  <2>2. QED
    BY <1>3, <2>1 DEF Filled
<1> HIDE DEF last
<1>5. /\ IsHeap(r) /\ r.n = g.n /\ r.a = g.a
      /\ Filled(g) => Filled(r)
      /\ hole < g.n /\ Others(g, 0..(g.n - 1), hole, last) => Rejoined(r, g, 0..(g.n - 1), hole, last)
      /\ hole >= g.n => /\ \A i \in 0..(g.a - 1) : i # hole => r.p[i] = g.p[i]
                        /\ \A x \in Event : x # last => r.idx[x] = g.idx[x]
  <2>1. hole \in 0..(g.a - 1)
    BY <1>3
  <2>2. QED
    BY <1>2, <1>3, <2>1, SinkKeeps
<1> HIDE DEF r
<1>6. IsHeap(f) /\ f.p = r.p /\ f.n = r.n /\ f.idx = [r.idx EXCEPT ![gone] = -1]
  BY <1>5, ElemInit
<1> HIDE DEF f
<1>7. Filled(f)
  BY <1>4, <1>5, <1>6 DEF Filled
<1>8. ASSUME Agrees(h), hole < h.n, gone = h.p[hole] PROVE Agrees(f)
  <2>1. CASE hole < h.n - 1
    <3>1. hole \in 0..(h.n - 2) /\ hole < g.n
      BY <1>1, <1>3, <2>1
    <3>2. Agrees(min_heap_elem_init_(r, h.p[hole]))
      BY <1>3, <1>5, <1>8, <3>1, RefillAgrees DEF last
    <3>3. QED
      BY <1>8, <3>2 DEF f
  <2>2. CASE ~(hole < h.n - 1)
    <3>1. hole = h.n - 1 /\ hole >= g.n /\ gone = last
      BY <1>1, <1>3, <1>8, <2>2 DEF last
    <3>2. /\ \A i \in 0..(h.n - 1) : h.p[i] \in Event /\ h.idx[h.p[i]] = i
          /\ \A x \in Event : h.idx[x] # -1 => h.idx[x] \in 0..(h.n - 1) /\ h.p[h.idx[x]] = x
      BY <1>8 DEF Agrees
    <3>3. \A x \in Event : f.idx[x] = IF x = gone THEN -1 ELSE h.idx[x]
      BY <1>3, <1>5, <1>6, <3>1 DEF IsHeap
    <3>4. ASSUME NEW i \in 0..(h.n - 2) PROVE f.p[i] = h.p[i] /\ i \in 0..(h.n - 1) /\ h.p[i] # gone
      <4>1. i \in 0..(h.n - 1) /\ i # hole /\ i \in 0..(h.a - 1)
        BY <1>1, <3>1 DEF IsHeap
      <4>2. h.idx[h.p[i]] = i /\ h.idx[last] = h.n - 1
        BY <1>1, <3>2, <4>1 DEF last
      <4>3. QED
        BY <1>3, <1>5, <1>6, <3>1, <4>1, <4>2
    <3>5. \A i \in 0..(h.n - 2) : f.p[i] \in Event /\ f.idx[f.p[i]] = i
      BY <3>2, <3>3, <3>4
    <3>6. ASSUME NEW x \in Event, f.idx[x] # -1 PROVE f.idx[x] \in 0..(h.n - 2) /\ f.p[f.idx[x]] = x
      <4>1. x # gone /\ f.idx[x] = h.idx[x] /\ h.idx[x] \in 0..(h.n - 1) /\ h.p[h.idx[x]] = x
        BY <3>2, <3>3, <3>6
      <4>2. h.idx[x] # h.n - 1
        BY <1>8, <3>1, <4>1
      <4>3. h.idx[x] \in 0..(h.n - 2)
        BY <1>1, <4>1, <4>2
      <4>4. QED
        BY <3>4, <4>1, <4>3
    <3>7. 0..(f.n - 1) = 0..(h.n - 2)
      BY <1>1, <1>3, <1>5, <1>6
    <3>8. QED
      BY <3>5, <3>6, <3>7 DEF Agrees
  <2>3. QED
    BY <2>1, <2>2
<1>9. QED
  BY <1>6, <1>7, <1>8 DEF f, r, g, last

\* min_heap_pop_ keeps the heap's types, its slots filled and, for a heap with
\* elements, slots and indices in agreement.
LEMMA PopKeeps ==
  ASSUME NEW h, IsHeap(h), Filled(h), NEW endtime
  PROVE  LET f == min_heap_pop_(h, endtime)
         IN  IsHeap(f) /\ Filled(f) /\ (Agrees(h) => Agrees(f))
<1>1. CASE h.n = 0
  BY <1>1 DEF min_heap_pop_
<1>2. CASE h.n # 0
  <2>1. h.n > 0 /\ 0 \in 0..(h.n - 1) /\ 0 \in 0..(h.a - 1) /\ 0 < h.n
    BY <1>2 DEF IsHeap
  <2>2. h.p[0] \in Event
    BY <2>1 DEF IsHeap, Filled
  <2> DEFINE f == min_heap_elem_init_(
                    min_heap_shift_down_([h EXCEPT !.n = @ - 1], 0, h.p[h.n - 1], endtime), h.p[0])
  <2>3. IsHeap(f) /\ Filled(f) /\ (Agrees(h) => Agrees(f))
    BY <2>1, <2>2, SinkOut
  <2>4. min_heap_pop_(h, endtime) = f
    BY <1>2 DEF min_heap_pop_
  <2> HIDE DEF f
  <2>5. QED
    BY <2>3, <2>4
<1>3. QED
  BY <1>1, <1>2

\* min_heap_erase_ of an event with an index, likewise: unless it takes out the
\* last slot and finds another endtime in the parent's.
LEMMA EraseKeeps ==
  ASSUME NEW h, IsHeap(h), Filled(h), h.n > 0, NEW e \in Event, h.idx[e] # -1, NEW endtime
  PROVE  LET f == min_heap_erase_(h, e, endtime)
         IN  /\ IsHeap(f) /\ Filled(f)
             /\ \/ ~Agrees(h)
                \/ /\ h.idx[e] = h.n - 1 /\ h.idx[e] > 0
                   /\ min_heap_elem_greater(endtime, h.p[Parent(h.idx[e])], e)
                \/ Agrees(f)
<1> DEFINE g == [h EXCEPT !.n = @ - 1]
           last == h.p[h.n - 1]
           i == h.idx[e]
           up == min_heap_elem_init_(min_heap_shift_up_unconditional_(g, i, last, endtime), e)
           down == min_heap_elem_init_(min_heap_shift_down_(g, i, last, endtime), e)
           Up == i > 0 /\ min_heap_elem_greater(endtime, h.p[Parent(i)], last)
<1>1. /\ h.n \in Nat /\ h.a \in Nat /\ h.n - 1 \in 0..h.a /\ h.n - 1 \in 0..(h.n - 1) /\ h.n - 1 \in 0..(h.a - 1)
      /\ i \in 0..(h.a - 1) /\ i \in Nat
  BY DEF IsHeap
<1>2. last \in Event
  BY <1>1 DEF IsHeap, Filled
<1>3. ASSUME Agrees(h) PROVE i < h.n /\ e = h.p[i]
  BY <1>1, <1>3 DEF Agrees
<1>4. min_heap_erase_(h, e, endtime) = IF Up THEN up ELSE down
  BY DEF min_heap_erase_
<1>5. IsHeap(down) /\ Filled(down) /\ (Agrees(h) => Agrees(down))
  <2>1. /\ IsHeap(down) /\ Filled(down)
        /\ Agrees(h) /\ i < h.n /\ e = h.p[i] => Agrees(down)
    BY <1>1, SinkOut
  <2> HIDE DEF down, i
  <2>2. QED
    BY <1>3, <2>1
<1>6. ASSUME Up
      PROVE  IsHeap(up) /\ Filled(up) /\ (Agrees(h) /\ i # h.n - 1 => Agrees(up))
  <2> DEFINE next == [RiseNext(g, i, last, endtime) EXCEPT ![i] = Parent(i)]
             r == min_heap_shift_up_unconditional_(g, i, last, endtime)
  <2>1. IsHeap(g) /\ g.p = h.p /\ g.n = h.n - 1 /\ g.a = h.a /\ g.idx = h.idx
    BY <1>1, Resized
  <2>2. next \in [0..i -> 0..i] /\ \A k \in 0..i : next[k] <= k
    <3> HIDE DEF i, g, last
    <3>1. i > 0
      BY <1>6
    <3>2. QED
      BY <1>1, <3>1, RiseTurnAtOnce
  <2>3. r = Rise(g, i, last, next)
    BY DEF min_heap_shift_up_unconditional_
  <2>4. i \in 0..(g.a - 1)
    BY <1>1, <2>1
  <2> HIDE DEF g, next, r, last, i
  <2>5. /\ IsHeap(r) /\ r.n = g.n /\ r.a = g.a
        /\ (\A k \in 0..(g.n - 1) : k # i => g.p[k] # NULL) => Filled(r)
        /\ i < g.n /\ Others(g, 0..(g.n - 1), i, last) => Rejoined(r, g, 0..(g.n - 1), i, last)
    BY <1>2, <2>1, <2>2, <2>3, <2>4, RiseKeeps
  <2>6. Filled(r)
    <3>1. \A k \in 0..(g.n - 1) : k \in 0..(h.n - 1)
      BY <1>1, <2>1
    <3>2. QED
      BY <2>1, <2>5, <3>1 DEF Filled
  <2>7. IsHeap(up) /\ up.p = r.p /\ up.n = r.n
    <3>1. LET f == min_heap_elem_init_(r, e) IN IsHeap(f) /\ f.p = r.p /\ f.n = r.n
      BY <2>5, ElemInit
    <3>2. QED
      BY <3>1 DEF r
  <2>8. ASSUME Agrees(h), i # h.n - 1 PROVE Agrees(up)
    <3>1. i \in 0..(h.n - 2) /\ i < g.n /\ e = h.p[i]
      BY <1>1, <1>3, <2>1, <2>8
    <3>2. Agrees(min_heap_elem_init_(r, h.p[i]))
      BY <2>1, <2>5, <2>8, <3>1, RefillAgrees DEF last
    <3>3. QED
      BY <3>1, <3>2 DEF r
  <2> HIDE DEF up
  <2>9. QED
    BY <2>6, <2>7, <2>8 DEF Filled
<1>7. ASSUME Agrees(h), Up, i = h.n - 1
      PROVE  i > 0 /\ min_heap_elem_greater(endtime, h.p[Parent(i)], e)
  BY <1>3, <1>7
<1> HIDE DEF up, down, Up, last, g
<1>8. QED
  BY <1>4, <1>5, <1>6, <1>7

=============================================================================
