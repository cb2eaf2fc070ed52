---------------------------- MODULE LtPoolProofs ----------------------------
(***************************************************************************)
(* Proofs about lt_pool.c for every element size, element count, word size *)
(* and number of pools and managers.                                       *)
(***************************************************************************)
EXTENDS LtPool, TLAPS

\* alignment_ptr rounds up: it never moves a position back.
LEMMA AlignmentRoundsUp ==
  ASSUME NEW p \in Nat
  PROVE  alignment_ptr(p) \in Nat /\ alignment_ptr(p) >= p
<1>1. (-p) % WORD \in 0..(WORD - 1)
  BY PoolAssumption
<1>2. QED
  BY <1>1, PoolAssumption DEF alignment_ptr

\* The invariant behind BlocksApart.  A pool's elements all end at or before
\* its pos, where the next element will start; pos never lies in the header.
Filled ==
  /\ \A b \in blocks : b.off >= SIZEOF_POOL /\ b.off + one_element_size <= pos[b.pool]
  /\ \A q \in 1..created : pos[q] >= SIZEOF_POOL

Inv == TypeOK /\ Filled /\ BlocksApart

\* Before any call there is no pool and no element.
LEMMA InitHolds == Init => Inv
<1> SUFFICES ASSUME Init PROVE Inv
  OBVIOUS
<1>1. created \in 0..MaxPools /\ pos \in [Pool -> Nat] /\ next \in [Pool -> Pool \cup {0}]
  BY PoolAssumption DEF Init
<1>2. manager \in [Manager -> [cur : 0..created, head : 0..created, tail : 0..created,
                               phase : {"none", "ready", "destroyed"}]]
  BY DEF Init
<1>3. owned \in [Manager -> SUBSET (1..created)]
  BY DEF Init
<1>4. TypeOK
  BY <1>1, <1>2, <1>3 DEF Init, TypeOK
<1>5. Filled /\ BlocksApart
  BY DEF Init, Filled, BlocksApart
<1>6. QED
  BY <1>4, <1>5 DEF Inv

\* Setting a manager up opens at most one pool, behind all that exist.
LEMMA SetUpKeeps ==
  ASSUME Inv, NEW m \in Manager, lt_new_memory_pool_manager(m)
  PROVE  Inv'
<1>1. alignment_ptr(SIZEOF_POOL) \in Nat /\ alignment_ptr(SIZEOF_POOL) >= SIZEOF_POOL
  BY AlignmentRoundsUp, PoolAssumption
<1>2. CASE \E q \in Pool :
             /\ Fresh(q)
             /\ pos' = [pos EXCEPT ![q] = alignment_ptr(SIZEOF_POOL)]
             /\ next' = [next EXCEPT ![q] = 0]
             /\ manager' = [manager EXCEPT ![m] = [cur |-> q, head |-> q, tail |-> q, phase |-> "ready"]]
             /\ owned' = [owned EXCEPT ![m] = {q}]
  <2>1. PICK q \in Pool :
             /\ Fresh(q)
             /\ pos' = [pos EXCEPT ![q] = alignment_ptr(SIZEOF_POOL)]
             /\ next' = [next EXCEPT ![q] = 0]
             /\ manager' = [manager EXCEPT ![m] = [cur |-> q, head |-> q, tail |-> q, phase |-> "ready"]]
             /\ owned' = [owned EXCEPT ![m] = {q}]
    BY <1>2
  <2>2. q = created + 1 /\ created' = q /\ created \in Nat /\ q \in Nat
    BY <2>1, PoolAssumption DEF Fresh, Inv, TypeOK
  <2>3. blocks' \subseteq blocks
    BY DEF lt_new_memory_pool_manager
  <2>4. TypeOK'
    <3>1. created' \in 0..MaxPools /\ pos' \in [Pool -> Nat] /\ next' \in [Pool -> Pool \cup {0}]
      BY <1>1, <2>1, <2>2, PoolAssumption DEF Inv, TypeOK, Pool
    <3>2. manager' \in [Manager -> [cur : 0..created', head : 0..created', tail : 0..created',
                                    phase : {"none", "ready", "destroyed"}]]
      BY <2>1, <2>2 DEF Inv, TypeOK
    <3>3. owned' \in [Manager -> SUBSET (1..created')]
      BY <2>1, <2>2 DEF Inv, TypeOK
    <3>4. blocks' \in SUBSET [m : Manager, pool : 1..created', off : Nat]
      BY <2>2, <2>3 DEF Inv, TypeOK
    <3>5. QED
      BY <3>1, <3>2, <3>3, <3>4 DEF lt_new_memory_pool_manager, Inv, TypeOK
  <2>5. Filled'
    <3>1. \A c \in blocks : c.pool \in 1..created
      BY DEF Inv, TypeOK
    <3>2. \A r \in 1..created : pos'[r] = pos[r]
      BY <2>1, <2>2, PoolAssumption DEF Inv, TypeOK, Pool
    <3>3. pos'[q] = alignment_ptr(SIZEOF_POOL)
      BY <2>1 DEF Inv, TypeOK
    <3>4. \A r \in 1..created' : r \in 1..created \/ r = q
      BY <2>2
    <3>5. QED
      BY <1>1, <2>3, <3>1, <3>2, <3>3, <3>4 DEF Inv, Filled
  <2>6. BlocksApart'
    BY <2>3 DEF Inv, BlocksApart
  <2>7. QED
    BY <2>4, <2>5, <2>6 DEF Inv
<1>3. CASE UNCHANGED <<created, pos, next>>
           /\ manager' = [manager EXCEPT ![m] = [cur |-> 0, head |-> 0, tail |-> 0, phase |-> "ready"]]
           /\ owned' = [owned EXCEPT ![m] = {}]
  BY <1>3, PoolAssumption DEF Inv, TypeOK, Filled, BlocksApart, lt_new_memory_pool_manager
<1>4. QED
  BY <1>2, <1>3 DEF lt_new_memory_pool_manager

\* The element lt_alloc hands out starts at pos, behind every other one of its
\* pool, and the new pos lies behind its end.
LEMMA AllocKeeps ==
  ASSUME Inv, NEW m \in Manager, lt_alloc(m)
  PROVE  Inv'
<1> DEFINE t == manager[m].tail
           p == alignment_ptr(pos[t] + one_element_size)
           b == [m |-> m, pool |-> t, off |-> pos[t]]
<1>1. t \in 1..created /\ t \in Pool /\ pos[t] \in Nat /\ created \in Nat /\ pos[t] >= SIZEOF_POOL
  BY PoolAssumption DEF lt_alloc, Inv, TypeOK, Filled, Pool
<1>2. p \in Nat /\ p >= pos[t] + one_element_size
  BY <1>1, AlignmentRoundsUp, PoolAssumption
<1>3. alignment_ptr(SIZEOF_POOL) \in Nat /\ alignment_ptr(SIZEOF_POOL) >= SIZEOF_POOL
  BY AlignmentRoundsUp, PoolAssumption
<1>4. blocks' = blocks \cup {b}
  BY DEF lt_alloc
<1>5. b \in [m : Manager, pool : 1..created, off : Nat] /\ b.pool = t /\ b.off = pos[t]
  BY <1>1
<1>6. BlocksApart'
  <2>1. \A c \in blocks : c.pool = b.pool => c.off + one_element_size <= b.off
    BY <1>5 DEF Inv, Filled
  <2>2. QED
    BY <1>1, <1>4, <1>5, <2>1 DEF Inv, BlocksApart
<1>7. CASE pos' = [pos EXCEPT ![t] = p] /\ UNCHANGED <<created, next, manager, owned>>
  <2>1. TypeOK'
    BY <1>1, <1>2, <1>4, <1>5, <1>7 DEF lt_alloc, Inv, TypeOK, Pool
  <2>2. Filled'
    <3>1. \A c \in blocks : c.pool \in Pool /\ c.off \in Nat /\ pos[c.pool] \in Nat
      BY PoolAssumption DEF Inv, TypeOK, Pool
    <3>2. \A q \in Pool : pos'[q] \in Nat /\ pos'[q] >= pos[q]
      BY <1>1, <1>2, <1>7, PoolAssumption DEF Inv, TypeOK
    <3>3. pos'[t] = p
      BY <1>1, <1>7 DEF Inv, TypeOK
    <3>4. \A q \in 1..created' : pos'[q] >= SIZEOF_POOL
      BY <1>1, <1>7, <3>2, PoolAssumption DEF Inv, TypeOK, Filled, Pool
    <3>5. QED
      BY <1>1, <1>2, <1>4, <1>5, <3>1, <3>2, <3>3, <3>4, PoolAssumption DEF Inv, Filled
  <2>3. QED
    BY <1>6, <2>1, <2>2 DEF Inv
<1>8. CASE \E q \in Pool :
             /\ Fresh(q)
             /\ pos' = [pos EXCEPT ![t] = p, ![q] = alignment_ptr(SIZEOF_POOL)]
             /\ next' = Appended(t, q)
             /\ manager' = [manager EXCEPT ![m].cur = q, ![m].tail = q]
             /\ owned' = [owned EXCEPT ![m] = @ \cup {q}]
             /\ UNCHANGED starved
  <2>1. PICK q \in Pool :
             /\ Fresh(q)
             /\ pos' = [pos EXCEPT ![t] = p, ![q] = alignment_ptr(SIZEOF_POOL)]
             /\ next' = Appended(t, q)
             /\ manager' = [manager EXCEPT ![m].cur = q, ![m].tail = q]
             /\ owned' = [owned EXCEPT ![m] = @ \cup {q}]
             /\ UNCHANGED starved
    BY <1>8
  <2>2. q = created + 1 /\ created' = q /\ q # t
    BY <1>1, <2>1 DEF Fresh
  <2>3. TypeOK'
    <3>1. created' \in 0..MaxPools /\ pos' \in [Pool -> Nat] /\ next' \in [Pool -> Pool \cup {0}]
      BY <1>1, <1>2, <1>3, <2>1, <2>2, PoolAssumption DEF Inv, TypeOK, Pool, Appended
    <3>2. manager' \in [Manager -> [cur : 0..created', head : 0..created', tail : 0..created',
                                    phase : {"none", "ready", "destroyed"}]]
      BY <1>1, <2>1, <2>2 DEF Inv, TypeOK
    <3>3. owned' \in [Manager -> SUBSET (1..created')]
      BY <1>1, <2>1, <2>2 DEF Inv, TypeOK
    <3>4. blocks' \in SUBSET [m : Manager, pool : 1..created', off : Nat]
      BY <1>1, <1>4, <1>5, <2>2 DEF Inv, TypeOK
    <3>5. QED
      BY <2>1, <3>1, <3>2, <3>3, <3>4 DEF lt_alloc, Inv, TypeOK
  <2>4. Filled'
    <3>1. \A c \in blocks : c.pool \in 1..created /\ c.off \in Nat /\ pos[c.pool] \in Nat
      BY PoolAssumption DEF Inv, TypeOK, Pool
    <3>2. \A r \in 1..created : pos'[r] \in Nat /\ pos'[r] >= pos[r]
      BY <1>1, <1>2, <2>1, <2>2, PoolAssumption DEF Inv, TypeOK, Pool
    <3>3. pos'[t] = p /\ pos'[q] = alignment_ptr(SIZEOF_POOL)
      BY <1>1, <2>1, <2>2 DEF Inv, TypeOK
    <3>4. \A r \in 1..created' : pos'[r] >= SIZEOF_POOL
      <4>1. \A r \in 1..created : pos[r] \in Nat /\ pos[r] >= SIZEOF_POOL
        BY PoolAssumption DEF Inv, TypeOK, Filled, Pool
      <4>2. \A r \in 1..created' : r \in 1..created \/ r = q
        BY <1>1, <2>2
      <4>3. QED
        BY <1>3, <3>2, <3>3, <4>1, <4>2, PoolAssumption
    <3>5. QED
      BY <1>1, <1>2, <1>4, <1>5, <3>1, <3>2, <3>3, <3>4, PoolAssumption DEF Inv, Filled
  <2>5. QED
    BY <1>6, <2>3, <2>4 DEF Inv
<1>9. QED
  BY <1>7, <1>8 DEF lt_alloc

\* Every call keeps the invariant.
LEMMA NextKeeps == Inv /\ [Next]_vars => Inv'
<1> SUFFICES ASSUME Inv, [Next]_vars PROVE Inv'
  OBVIOUS
<1>1. ASSUME NEW m \in Manager, lt_alloc_null(m) PROVE Inv'
  BY <1>1 DEF lt_alloc_null, Inv, TypeOK, Filled, BlocksApart
<1>2. ASSUME NEW m \in Manager, lt_destroy_memory_pool(m) PROVE Inv'
  <2>1. manager[m].head \in Pool
    BY <1>2, PoolAssumption DEF lt_destroy_memory_pool, Inv, TypeOK, Pool
  <2>2. blocks' \subseteq blocks
    BY <1>2 DEF lt_destroy_memory_pool
  <2>3. TypeOK'
    <3>1. freed' \in SUBSET Pool /\ crashed' \in BOOLEAN
      BY <1>2, <2>1 DEF lt_destroy_memory_pool, Inv, TypeOK
    <3>2. manager' \in [Manager -> [cur : 0..created, head : 0..created, tail : 0..created,
                                    phase : {"none", "ready", "destroyed"}]]
      BY <1>2 DEF lt_destroy_memory_pool, Inv, TypeOK
    <3>3. QED
      BY <1>2, <2>2, <3>1, <3>2 DEF lt_destroy_memory_pool, Inv, TypeOK
  <2>4. Filled' /\ BlocksApart'
    BY <1>2, <2>2 DEF lt_destroy_memory_pool, Inv, Filled, BlocksApart
  <2>5. QED
    BY <2>3, <2>4 DEF Inv
<1>3. ASSUME NEW m \in Manager, NEW n \in Manager, copy_manager(m, n) PROVE Inv'
  BY <1>3 DEF copy_manager, Inv, TypeOK, Filled, BlocksApart
<1>4. CASE UNCHANGED vars
  BY <1>4 DEF vars, Inv, TypeOK, Filled, BlocksApart
<1>5. QED
  BY <1>1, <1>2, <1>3, <1>4, SetUpKeeps, AllocKeeps DEF Next

\* Inv is an invariant of the pools.
LEMMA Invariance == Spec => []Inv
  BY InitHolds, NextKeeps, PTL DEF Spec

\* The fields of pools and managers keep their types, and no manager ever
\* points to a pool that was not created, whatever sizes are asked for.
THEOREM PoolTypes == Spec => []TypeOK
<1>1. Inv => TypeOK
  BY DEF Inv
<1>2. QED
  BY <1>1, Invariance, PTL

\* No two elements lt_alloc hands out overlap, and none overlaps a pool's
\* header: for every element size, count, alignment and word size, with copied
\* managers and when a pool could not be replaced.
THEOREM PoolBlocksApart == Spec => []BlocksApart
<1>1. Inv => BlocksApart
  BY DEF Inv
<1>2. QED
  BY <1>1, Invariance, PTL

-----------------------------------------------------------------------------
(* The lists of pools.                                                     *)

\* Nobody else allocates from the manager's pools: its owner destroys it, and
\* so never copies it, or no manager has been copied.
Exclusive(m) == m \in Destroyable \/ ~shared

\* No manager's tail, and no manager's list, leads into another's pools.
Separate ==
  /\ \A m, n \in Manager : m # n => owned[m] \cap owned[n] = {}
  /\ \A m, n \in Manager : m # n /\ Exclusive(m) => manager[n].tail \notin owned[m]

\* A manager's list runs from its head to its tail, from older to newer pools.
Chain(m) ==
  /\ \/ owned[m] = {} /\ manager[m].head = 0 /\ manager[m].tail = 0
     \/ manager[m].head \in owned[m] /\ manager[m].tail \in owned[m]
  /\ \A q \in owned[m] : manager[m].head <= q /\ q <= manager[m].tail
  /\ \A q \in owned[m] : q = manager[m].head \/ \E r \in owned[m] : next[r] = q
  /\ \A q \in owned[m] : next[q] = 0 <=> q = manager[m].tail

Chained == \A m \in Manager : manager[m].phase = "ready" /\ Exclusive(m) => Chain(m)

\* The tail has room for the start of one more element, unless it could not be
\* replaced.
TailRoom ==
  \A m \in Manager : manager[m].phase = "ready" /\ manager[m].tail # 0 /\ ~shared =>
    pos[manager[m].tail] <= End \/ manager[m].tail \in starved

\* What was given back was created, and belongs to no list in use.
FreedApart ==
  /\ freed \subseteq 1..created
  /\ ~crashed => \A m \in Destroyable : manager[m].phase = "ready" => owned[m] \cap freed = {}

\* An element starts at the end of its pool at the latest.
StartsByEnd ==
  \A b \in blocks : b.off <= End \/ b.pool \in starved \/ shared

ListInv == Separate /\ Chained /\ TailRoom /\ FreedApart /\ StartsByEnd

\* Types of what the lists are made of.
LEMMA ListTypes ==
  ASSUME Inv, NEW m \in Manager
  PROVE  /\ created \in Nat /\ created <= MaxPools
         /\ owned[m] \subseteq 1..created
         /\ manager[m].tail \in 0..created /\ manager[m].head \in 0..created
         /\ \A q \in owned[m] : q \in Pool /\ q \in Nat /\ next[q] \in Nat
<1>1. created \in Nat /\ created <= MaxPools
  BY PoolAssumption DEF Inv, TypeOK
<1>2. owned[m] \subseteq 1..created
  BY DEF Inv, TypeOK
<1>3. manager[m].tail \in 0..created /\ manager[m].head \in 0..created
  BY DEF Inv, TypeOK
<1>4. \A q \in owned[m] : q \in Pool /\ q \in Nat
  BY <1>1, <1>2, PoolAssumption DEF Pool
<1>5. \A q \in Pool : next[q] \in Nat
  BY PoolAssumption DEF Inv, TypeOK, Pool
<1>6. QED
  BY <1>1, <1>2, <1>3, <1>4, <1>5

\* Before any call there is no list.
LEMMA ListInit == Init => ListInv
  BY DEF Init, ListInv, Separate, Chained, Chain, TailRoom, FreedApart, StartsByEnd

\* A manager that is set up starts a list of its own, of one pool or of none.
LEMMA SetUpLists ==
  ASSUME Inv, ListInv, NEW m \in Manager, lt_new_memory_pool_manager(m)
  PROVE  ListInv'
<1>1. UNCHANGED <<freed, starved, shared, crashed>> /\ blocks' \subseteq blocks /\ ~crashed
  BY DEF lt_new_memory_pool_manager
<1>2. /\ manager \in [Manager -> [cur : 0..created, head : 0..created, tail : 0..created,
                                  phase : {"none", "ready", "destroyed"}]]
      /\ owned \in [Manager -> SUBSET (1..created)]
      /\ pos \in [Pool -> Nat] /\ next \in [Pool -> Pool \cup {0}]
  BY DEF Inv, TypeOK
<1>3. StartsByEnd'
  BY <1>1 DEF ListInv, StartsByEnd
<1>4. \A n \in Manager : Exclusive(n)' <=> Exclusive(n)
  BY <1>1 DEF Exclusive
<1>5. CASE \E q \in Pool :
             /\ Fresh(q)
             /\ pos' = [pos EXCEPT ![q] = alignment_ptr(SIZEOF_POOL)]
             /\ next' = [next EXCEPT ![q] = 0]
             /\ manager' = [manager EXCEPT ![m] = [cur |-> q, head |-> q, tail |-> q, phase |-> "ready"]]
             /\ owned' = [owned EXCEPT ![m] = {q}]
  <2>1. PICK q \in Pool :
             /\ Fresh(q)
             /\ pos' = [pos EXCEPT ![q] = alignment_ptr(SIZEOF_POOL)]
             /\ next' = [next EXCEPT ![q] = 0]
             /\ manager' = [manager EXCEPT ![m] = [cur |-> q, head |-> q, tail |-> q, phase |-> "ready"]]
             /\ owned' = [owned EXCEPT ![m] = {q}]
    BY <1>5
  <2>2. q = created + 1 /\ created' = created + 1 /\ created \in Nat
    BY <2>1, ListTypes DEF Fresh
  <2>3. /\ owned'[m] = {q} /\ manager'[m].head = q /\ manager'[m].tail = q
        /\ pos'[q] = alignment_ptr(SIZEOF_POOL) /\ next'[q] = 0
    BY <1>2, <2>1
  <2>4. \A n \in Manager : n # m => owned'[n] = owned[n] /\ manager'[n] = manager[n]
    BY <1>2, <2>1
  <2>5. \A r \in Pool : r # q => next'[r] = next[r] /\ pos'[r] = pos[r]
    BY <1>2, <2>1
  <2>6. \A n \in Manager : q \notin owned[n] /\ manager[n].tail # q /\ owned[n] \subseteq Pool
    BY <2>2, ListTypes
  <2>7. Separate'
    BY <1>4, <2>3, <2>4, <2>6 DEF ListInv, Separate
  <2>8. Chained'
    <3> SUFFICES ASSUME NEW n \in Manager, (manager[n].phase = "ready" /\ Exclusive(n))'
                 PROVE  Chain(n)'
      BY DEF Chained
    <3>1. CASE n = m
      BY <2>2, <2>3, <3>1 DEF Chain
    <3>2. CASE n # m
      <4>1. Chain(n)
        BY <1>4, <2>4, <3>2 DEF ListInv, Chained
      <4>2. \A r \in owned[n] : next'[r] = next[r]
        BY <2>5, <2>6
      <4>3. QED
        BY <2>4, <3>2, <4>1, <4>2 DEF Chain
    <3>3. QED
      BY <3>1, <3>2
  <2>9. TailRoom'
    <3> SUFFICES ASSUME NEW n \in Manager, (manager[n].phase = "ready" /\ manager[n].tail # 0 /\ ~shared)'
                 PROVE  (pos[manager[n].tail] <= End \/ manager[n].tail \in starved)'
      BY DEF TailRoom
    <3>1. CASE n = m
      <4>1. End \in Nat /\ SIZEOF_MANAGER <= End /\ SIZEOF_MANAGER \in Nat
        BY PoolAssumption DEF End
      <4>2. alignment_ptr(SIZEOF_POOL) \in Nat
        BY AlignmentRoundsUp, PoolAssumption
      <4>3. End' = End
        BY DEF End
      <4>4. QED
        BY <2>3, <3>1, <4>1, <4>2, <4>3, StructAssumption
    <3>2. CASE n # m
      <4>1. manager[n].tail \in Pool /\ manager[n].tail # q
        BY <2>2, <2>4, <2>6, <3>2, ListTypes, PoolAssumption DEF Pool
      <4>2. pos[manager[n].tail] <= End \/ manager[n].tail \in starved
        BY <1>1, <2>4, <3>2 DEF ListInv, TailRoom
      <4>3. QED
        BY <1>1, <2>4, <2>5, <3>2, <4>1, <4>2 DEF End
    <3>3. QED
      BY <3>1, <3>2
  <2>10. FreedApart'
    <3>1. q \notin freed /\ freed' \subseteq 1..created'
      BY <1>1, <2>2 DEF ListInv, FreedApart
    <3>2. QED
      BY <1>1, <2>3, <2>4, <3>1, PoolAssumption DEF ListInv, FreedApart
  <2>11. QED
    BY <1>3, <2>7, <2>8, <2>9, <2>10 DEF ListInv
<1>6. CASE /\ manager' = [manager EXCEPT ![m] = [cur |-> 0, head |-> 0, tail |-> 0, phase |-> "ready"]]
           /\ owned' = [owned EXCEPT ![m] = {}]
           /\ UNCHANGED <<created, pos, next>>
  <2>1. owned'[m] = {} /\ manager'[m].head = 0 /\ manager'[m].tail = 0
    BY <1>2, <1>6
  <2>2. \A n \in Manager : n # m => owned'[n] = owned[n] /\ manager'[n] = manager[n]
    BY <1>2, <1>6
  <2>3. \A n \in Manager : 0 \notin owned[n]
    BY ListTypes
  <2>4. Separate'
    BY <1>4, <2>1, <2>2, <2>3 DEF ListInv, Separate
  <2>5. Chained'
    <3>1. Chain(m)'
      BY <2>1 DEF Chain
    <3>2. \A n \in Manager : n # m => (Chain(n)' <=> Chain(n))
      BY <1>6, <2>2 DEF Chain
    <3>3. QED
      BY <1>4, <2>2, <3>1, <3>2 DEF ListInv, Chained
  <2>6. TailRoom'
    BY <1>1, <1>6, <2>1, <2>2 DEF ListInv, TailRoom, End
  <2>7. FreedApart'
    BY <1>1, <1>6, <2>1, <2>2, PoolAssumption DEF ListInv, FreedApart
  <2>8. QED
    BY <1>3, <2>4, <2>5, <2>6, <2>7 DEF ListInv
<1>7. QED
  BY <1>5, <1>6 DEF lt_new_memory_pool_manager

\* lt_alloc moves the pos of the manager's tail, and appends at most one pool
\* behind it.
LEMMA AllocLists ==
  ASSUME Inv, ListInv, NEW m \in Manager, lt_alloc(m)
  PROVE  ListInv'
<1> DEFINE t == manager[m].tail
           p == alignment_ptr(pos[t] + one_element_size)
           b == [m |-> m, pool |-> t, off |-> pos[t]]
<1>1. UNCHANGED <<freed, shared, crashed>> /\ blocks' = blocks \cup {b} /\ ~crashed
      /\ manager[m].phase = "ready" /\ t # 0
  BY DEF lt_alloc
<1>2. /\ manager \in [Manager -> [cur : 0..created, head : 0..created, tail : 0..created,
                                  phase : {"none", "ready", "destroyed"}]]
      /\ owned \in [Manager -> SUBSET (1..created)]
      /\ pos \in [Pool -> Nat] /\ next \in [Pool -> Pool \cup {0}]
      /\ starved \in SUBSET Pool
  BY DEF Inv, TypeOK
<1>3. t \in Pool /\ t \in 1..created /\ created \in Nat /\ pos[t] \in Nat
  BY <1>1, <1>2, ListTypes, PoolAssumption DEF Pool
<1>4. p \in Nat /\ End \in Nat
  BY <1>3, AlignmentRoundsUp, PoolAssumption DEF End
<1>5. \A n \in Manager : Exclusive(n)' <=> Exclusive(n)
  BY <1>1 DEF Exclusive
<1>6. starved \subseteq starved'
  BY DEF lt_alloc
<1>7. StartsByEnd'
  <2>1. b.off = pos[t] /\ b.pool = t
    OBVIOUS
  <2>2. pos[t] <= End \/ t \in starved \/ shared
    BY <1>1 DEF ListInv, TailRoom
  <2>3. QED
    BY <1>1, <1>6, <2>1, <2>2 DEF ListInv, StartsByEnd, End
<1>8. \A n \in Manager : n # m /\ ~shared => manager[n].tail # t
  <2>1. ~shared => Exclusive(m) /\ Chain(m)
    BY <1>1 DEF Exclusive, ListInv, Chained
  <2>2. ~shared => t \in owned[m]
    BY <1>1, <2>1 DEF Chain
  <2>3. QED
    BY <2>1, <2>2 DEF ListInv, Separate
<1>9. CASE /\ pos' = [pos EXCEPT ![t] = p]
           /\ UNCHANGED <<created, next, manager, owned>>
           /\ UsedUp(p) => t \in starved'
  <2>1. Separate' /\ Chained' /\ FreedApart'
    BY <1>1, <1>5, <1>9 DEF ListInv, Separate, Chained, Chain, FreedApart
  <2>2. TailRoom'
    <3> SUFFICES ASSUME NEW n \in Manager, (manager[n].phase = "ready" /\ manager[n].tail # 0 /\ ~shared)'
                 PROVE  (pos[manager[n].tail] <= End \/ manager[n].tail \in starved)'
      BY DEF TailRoom
    <3>1. manager[n].tail \in Pool /\ (pos[manager[n].tail] <= End \/ manager[n].tail \in starved)
      BY <1>1, <1>3, <1>9, ListTypes, PoolAssumption DEF ListInv, TailRoom, Pool
    <3>2. CASE n = m
      <4>1. manager'[n].tail = t /\ pos'[t] = p
        BY <1>2, <1>3, <1>9, <3>2
      <4>2. p <= End \/ t \in starved'
        BY <1>4, <1>9 DEF UsedUp
      <4>3. QED
        BY <4>1, <4>2 DEF End
    <3>3. CASE n # m
      <4>1. manager[n].tail # t
        BY <1>1, <1>8, <3>3
      <4>2. pos'[manager[n].tail] = pos[manager[n].tail]
        BY <1>2, <1>9, <3>1, <4>1
      <4>3. QED
        BY <1>6, <1>9, <3>1, <4>2 DEF End
    <3>4. QED
      BY <3>2, <3>3
  <2>3. QED
    BY <1>7, <2>1, <2>2 DEF ListInv
<1>10. CASE \E q \in Pool :
             /\ Fresh(q)
             /\ pos' = [pos EXCEPT ![t] = p, ![q] = alignment_ptr(SIZEOF_POOL)]
             /\ next' = Appended(t, q)
             /\ manager' = [manager EXCEPT ![m].cur = q, ![m].tail = q]
             /\ owned' = [owned EXCEPT ![m] = @ \cup {q}]
  <2>1. PICK q \in Pool :
             /\ Fresh(q)
             /\ pos' = [pos EXCEPT ![t] = p, ![q] = alignment_ptr(SIZEOF_POOL)]
             /\ next' = Appended(t, q)
             /\ manager' = [manager EXCEPT ![m].cur = q, ![m].tail = q]
             /\ owned' = [owned EXCEPT ![m] = @ \cup {q}]
    BY <1>10
  <2>2. q = created + 1 /\ created' = created + 1 /\ q # t
    BY <1>3, <2>1 DEF Fresh
  <2>3. /\ owned'[m] = owned[m] \cup {q} /\ manager'[m].head = manager[m].head /\ manager'[m].tail = q
        /\ manager'[m].phase = manager[m].phase
        /\ pos'[q] = alignment_ptr(SIZEOF_POOL) /\ next'[q] = 0 /\ next'[t] = q
    <3>1. owned'[m] = owned[m] \cup {q} /\ pos'[q] = alignment_ptr(SIZEOF_POOL)
      BY <1>2, <1>3, <2>1, <2>2
    <3>2. next'[q] = 0 /\ next'[t] = q
      BY <1>2, <1>3, <2>1, <2>2 DEF Appended
    <3>3. manager'[m].head = manager[m].head /\ manager'[m].tail = q
          /\ manager'[m].phase = manager[m].phase
      BY <1>2, <2>1
    <3>4. QED
      BY <3>1, <3>2, <3>3
  <2>4. \A n \in Manager : n # m => owned'[n] = owned[n] /\ manager'[n] = manager[n]
    BY <1>2, <2>1
  <2>5. \A r \in Pool : r # q /\ r # t => next'[r] = next[r] /\ pos'[r] = pos[r]
    BY <1>2, <2>1 DEF Appended
  <2>6. \A n \in Manager : q \notin owned[n] /\ manager[n].tail # q /\ owned[n] \subseteq Pool
    BY <2>2, ListTypes
  <2>7. Separate'
    <3>1. \A k, n \in Manager : k # n => owned'[k] \cap owned'[n] = {}
      BY <2>3, <2>4, <2>6 DEF ListInv, Separate
    <3>2. \A k, n \in Manager : k # n /\ Exclusive(k) => manager'[n].tail \notin owned'[k]
      BY <2>3, <2>4, <2>6 DEF ListInv, Separate
    <3>3. QED
      BY <1>5, <3>1, <3>2 DEF Separate
  <2>8. Chained'
    <3> SUFFICES ASSUME NEW n \in Manager, (manager[n].phase = "ready" /\ Exclusive(n))'
                 PROVE  Chain(n)'
      BY DEF Chained
    <3>1. CASE n = m
      <4>1. Chain(m) /\ t \in owned[m] /\ manager[m].head \in owned[m]
        BY <1>1, <1>5, <3>1 DEF ListInv, Chained, Chain
      <4>2. \A r \in owned[m] : r \in 1..created /\ next[r] \in Nat /\ (r # t => next'[r] = next[r])
        BY <2>5, <2>6, ListTypes
      <4>3. \A r \in owned'[m] : manager'[m].head <= r /\ r <= manager'[m].tail
        BY <1>3, <2>2, <2>3, <4>1, <4>2 DEF Chain
      <4>4. \A r \in owned'[m] : r = manager'[m].head \/ \E s \in owned'[m] : next'[s] = r
        <5> SUFFICES ASSUME NEW r \in owned'[m], r # manager'[m].head
                     PROVE  \E s \in owned'[m] : next'[s] = r
          OBVIOUS
        <5>1. CASE r = q
          BY <2>3, <4>1, <5>1
        <5>2. CASE r # q
          <6>1. PICK s \in owned[m] : next[s] = r
            BY <2>3, <4>1, <5>2 DEF Chain
          <6>2. next[s] # 0
            BY <2>3, <4>2, <5>2, <6>1
          <6>3. s # t
            BY <4>1, <6>2 DEF Chain
          <6>4. QED
            BY <2>3, <4>2, <6>1, <6>3
        <5>3. QED
          BY <5>1, <5>2
      <4>5. \A r \in owned'[m] : next'[r] = 0 <=> r = manager'[m].tail
        <5>1. \A r \in owned[m] : r # t => next'[r] # 0
          BY <4>1, <4>2 DEF Chain
        <5>2. q # 0 /\ q \notin owned[m]
          BY <1>3, <2>2, <2>6
        <5>3. QED
          BY <2>3, <5>1, <5>2
      <4>6. QED
        BY <2>3, <3>1, <4>1, <4>3, <4>4, <4>5 DEF Chain
    <3>2. CASE n # m
      <4>1. Chain(n) /\ t \notin owned[n]
        BY <1>5, <2>4, <3>2 DEF ListInv, Chained, Separate
      <4>2. \A r \in owned[n] : next'[r] = next[r]
        BY <2>5, <2>6, <4>1
      <4>3. QED
        BY <2>4, <3>2, <4>1, <4>2 DEF Chain
    <3>3. QED
      BY <3>1, <3>2
  <2>9. TailRoom'
    <3> SUFFICES ASSUME NEW n \in Manager, (manager[n].phase = "ready" /\ manager[n].tail # 0 /\ ~shared)'
                 PROVE  (pos[manager[n].tail] <= End \/ manager[n].tail \in starved)'
      BY DEF TailRoom
    <3>1. CASE n = m
      <4>1. SIZEOF_MANAGER <= End /\ SIZEOF_MANAGER \in Nat
        BY PoolAssumption DEF End
      <4>2. alignment_ptr(SIZEOF_POOL) \in Nat
        BY AlignmentRoundsUp, PoolAssumption
      <4>3. End' = End
        BY DEF End
      <4>4. QED
        BY <1>4, <2>3, <3>1, <4>1, <4>2, <4>3, StructAssumption
    <3>2. CASE n # m
      <4>1. manager[n].tail \in Pool /\ manager[n].tail # q /\ manager[n].tail # t
        BY <1>1, <1>3, <1>8, <2>4, <2>6, <3>2, ListTypes, PoolAssumption DEF Pool
      <4>2. pos[manager[n].tail] <= End \/ manager[n].tail \in starved
        BY <1>1, <2>4, <3>2 DEF ListInv, TailRoom
      <4>3. QED
        BY <1>6, <2>4, <2>5, <3>2, <4>1, <4>2 DEF End
    <3>3. QED
      BY <3>1, <3>2
  <2>10. FreedApart'
    <3>1. q \notin freed /\ freed' \subseteq 1..created'
      BY <1>1, <1>3, <2>2 DEF ListInv, FreedApart
    <3>2. \A n \in Destroyable : manager'[n].phase = manager[n].phase
      BY <2>3, <2>4, PoolAssumption
    <3>3. \A n \in Destroyable : manager[n].phase = "ready" => owned'[n] \cap freed = {}
      BY <1>1, <2>3, <2>4, <3>1, PoolAssumption DEF ListInv, FreedApart
    <3>4. QED
      BY <1>1, <3>1, <3>2, <3>3 DEF FreedApart
  <2>11. QED
    BY <1>7, <2>7, <2>8, <2>9, <2>10 DEF ListInv
<1>11. QED
  BY <1>9, <1>10 DEF lt_alloc

\* Destroying frees the head of a list only its manager uses.
LEMMA DestroyLists ==
  ASSUME Inv, ListInv, NEW m \in Manager, lt_destroy_memory_pool(m)
  PROVE  /\ ListInv'
         /\ manager'[m].phase = "destroyed" => owned[m] \subseteq freed'
<1> DEFINE h == manager[m].head
<1>1. /\ UNCHANGED <<created, pos, next, owned, starved, shared>> /\ freed' = freed \cup {h}
      /\ manager[m].phase = "ready" /\ h # 0 /\ m \in Destroyable /\ ~crashed
      /\ blocks' \subseteq blocks
  BY DEF lt_destroy_memory_pool
<1>2. Chain(m) /\ h \in owned[m] /\ h \in 1..created
  BY <1>1, ListTypes DEF Exclusive, ListInv, Chained, Chain
<1>3. /\ \A n \in Manager : n # m => manager'[n] = manager[n]
      /\ manager'[m].tail = manager[m].tail /\ manager'[m].head = manager[m].head
      /\ manager'[m].phase \in {"ready", "destroyed"}
      /\ manager'[m].phase = "ready" => crashed'
      /\ manager'[m].phase = "destroyed" => LastPool(h)
  <2>1. manager \in [Manager -> [cur : 0..created, head : 0..created, tail : 0..created,
                                 phase : {"none", "ready", "destroyed"}]]
    BY DEF Inv, TypeOK
  <2>2. CASE LastPool(h) /\ manager' = [manager EXCEPT ![m].phase = "destroyed"]
    BY <2>1, <2>2
  <2>3. CASE crashed' = TRUE /\ manager' = manager
    BY <1>1, <2>3
  <2>4. QED
    BY <2>2, <2>3 DEF lt_destroy_memory_pool
<1>4. \A n \in Manager : Exclusive(n)' <=> Exclusive(n)
  BY <1>1 DEF Exclusive
<1>5. \A n \in Manager : manager'[n].tail = manager[n].tail /\ manager'[n].head = manager[n].head
                         /\ (manager'[n].phase = "ready" => manager[n].phase = "ready")
  BY <1>1, <1>3
<1>6. Separate' /\ StartsByEnd'
  BY <1>1, <1>4, <1>5 DEF ListInv, Separate, StartsByEnd, End
<1>7. Chained'
  <2>1. \A n \in Manager : Chain(n)' <=> Chain(n)
    BY <1>1, <1>5 DEF Chain
  <2>2. QED
    BY <1>4, <1>5, <2>1 DEF ListInv, Chained
<1>8. TailRoom'
  BY <1>1, <1>5 DEF ListInv, TailRoom, End
<1>9. FreedApart'
  <2>1. freed' \subseteq 1..created'
    BY <1>1, <1>2 DEF ListInv, FreedApart
  <2>2. ASSUME NEW n \in Destroyable, ~crashed', manager'[n].phase = "ready"
        PROVE  owned'[n] \cap freed' = {}
    <3>1. n # m /\ n \in Manager
      BY <1>3, <2>2, PoolAssumption
    <3>2. owned[n] \cap freed = {}
      BY <1>1, <1>5, <2>2, <3>1 DEF ListInv, FreedApart
    <3>3. h \notin owned[n]
      BY <1>2, <3>1 DEF ListInv, Separate
    <3>4. QED
      BY <1>1, <3>2, <3>3
  <2>3. QED
    BY <2>1, <2>2 DEF FreedApart
<1>10. ASSUME LastPool(h) PROVE owned[m] \subseteq freed'
  <2>1. h = manager[m].tail
    BY <1>2, <1>10 DEF Chain, LastPool
  <2>2. \A q \in owned[m] : q \in Nat /\ h <= q /\ q <= h
    BY <1>2, <2>1, ListTypes DEF Chain
  <2>3. \A q \in owned[m] : q = h
    BY <1>2, <2>2
  <2>4. QED
    BY <1>1, <2>3
<1>11. QED
  BY <1>3, <1>6, <1>7, <1>8, <1>9, <1>10 DEF ListInv

\* A copy leaves two managers on one list, of which neither is destroyed.
LEMMA CopyLists ==
  ASSUME Inv, ListInv, NEW m \in Manager, NEW n \in Manager, copy_manager(m, n)
  PROVE  ListInv'
<1>1. /\ UNCHANGED <<created, pos, next, freed, owned, blocks, starved, crashed>> /\ shared'
      /\ m \notin Destroyable /\ n \notin Destroyable
  BY DEF copy_manager
<1>2. manager'[n] = manager[m] /\ \A k \in Manager : k # n => manager'[k] = manager[k]
  BY DEF copy_manager, Inv, TypeOK
<1>3. \A k \in Manager : Exclusive(k)' <=> k \in Destroyable
  BY <1>1 DEF Exclusive
<1>4. \A k \in Destroyable : k \in Manager /\ Exclusive(k) /\ manager'[k] = manager[k]
  BY <1>1, <1>2, PoolAssumption DEF Exclusive
<1>5. Separate'
  <2>1. \A k, l \in Manager : k # l => owned'[k] \cap owned'[l] = {}
    BY <1>1 DEF ListInv, Separate
  <2>2. \A k, l \in Manager : k # l /\ k \in Destroyable => manager'[l].tail \notin owned'[k]
    BY <1>1, <1>2, <1>4 DEF ListInv, Separate
  <2>3. QED
    BY <1>3, <2>1, <2>2 DEF Separate
<1>6. Chained'
  <2>1. \A k \in Destroyable : Chain(k)' <=> Chain(k)
    BY <1>1, <1>4 DEF Chain
  <2>2. QED
    BY <1>3, <1>4, <2>1 DEF ListInv, Chained
<1>7. TailRoom' /\ StartsByEnd'
  BY <1>1 DEF TailRoom, StartsByEnd
<1>8. FreedApart'
  BY <1>1, <1>4 DEF ListInv, FreedApart
<1>9. QED
  BY <1>5, <1>6, <1>7, <1>8 DEF ListInv

\* Every call keeps the lists sound.
LEMMA NextLists == Inv /\ ListInv /\ [Next]_vars => ListInv'
<1> SUFFICES ASSUME Inv, ListInv, [Next]_vars PROVE ListInv'
  OBVIOUS
<1>1. ASSUME NEW m \in Manager, lt_alloc_null(m) PROVE ListInv'
  BY <1>1 DEF lt_alloc_null, ListInv, Separate, Chained, Chain, Exclusive, TailRoom, FreedApart,
              StartsByEnd, End
<1>2. CASE UNCHANGED vars
  BY <1>2 DEF vars, ListInv, Separate, Chained, Chain, Exclusive, TailRoom, FreedApart,
              StartsByEnd, End
<1>3. QED
  BY <1>1, <1>2, SetUpLists, AllocLists, DestroyLists, CopyLists DEF Next

\* ListInv is an invariant of the pools.
LEMMA ListInvariance == Spec => [](Inv /\ ListInv)
  BY InitHolds, ListInit, NextKeeps, NextLists, PTL DEF Spec

\* Whatever the size of an element and their number, at most one element of a
\* pool reaches over its end, by at most its own size, unless the pool could
\* not be replaced or was shared: elements are apart, and none starts behind
\* the end.
THEOREM PoolOverrunOnce == Spec => []OverrunOnce
<1>1. Inv /\ ListInv => OverrunOnce
  <2> SUFFICES ASSUME Inv, ListInv, NEW b \in blocks, b.pool \notin starved, ~shared
               PROVE  /\ b.off <= End
                      /\ \A c \in blocks : b # c /\ b.pool = c.pool =>
                           b.off + one_element_size <= End \/ c.off + one_element_size <= End
    BY DEF OverrunOnce
  <2>1. \A c \in blocks : c.pool = b.pool => c.off <= End
    BY DEF ListInv, StartsByEnd
  <2>2. End \in Nat /\ one_element_size \in Nat /\ \A c \in blocks : c.off \in Nat
    BY PoolAssumption DEF End, Inv, TypeOK
  <2>3. BlocksApart
    BY DEF Inv
  <2>4. ASSUME NEW c \in blocks, b # c, b.pool = c.pool
        PROVE  b.off + one_element_size <= End \/ c.off + one_element_size <= End
    <3>1. b.off + one_element_size <= c.off \/ c.off + one_element_size <= b.off
      BY <2>3, <2>4 DEF BlocksApart
    <3>2. b.off <= End /\ c.off <= End
      BY <2>1, <2>4
    <3>3. QED
      BY <2>2, <3>1, <3>2
  <2>5. QED
    BY <2>1, <2>4
<1>2. QED
  BY <1>1, ListInvariance, PTL

\* Every pool a manager created is on the list that lt_destroy_memory_pool
\* walks, and the list ends at the tail.
THEOREM PoolChainComplete == Spec => []ChainComplete
<1>1. ListInv => ChainComplete
  BY DEF ListInv, Chained, Chain, Exclusive, ChainComplete
<1>2. QED
  BY <1>1, ListInvariance, PTL

\* A call of lt_destroy_memory_pool that returns has freed every pool of its
\* manager, and none of them for the second time.
THEOREM PoolDestroyFreesAll == Spec => DestroyFreesAll
<1> DEFINE FreesAll == \A m \in Manager :
                         manager[m].phase = "ready" /\ manager'[m].phase = "destroyed"
                           => owned[m] \subseteq freed' /\ owned[m] \cap freed = {}
<1>1. Inv /\ ListInv /\ [Next]_vars => FreesAll
  <2> SUFFICES ASSUME Inv, ListInv, [Next]_vars, NEW m \in Manager,
                      manager[m].phase = "ready", manager'[m].phase = "destroyed"
               PROVE  owned[m] \subseteq freed' /\ owned[m] \cap freed = {}
    OBVIOUS
  <2>1. manager \in [Manager -> [cur : 0..created, head : 0..created, tail : 0..created,
                                 phase : {"none", "ready", "destroyed"}]]
    BY DEF Inv, TypeOK
  <2>2. ASSUME NEW n \in Manager, lt_new_memory_pool_manager(n) PROVE FALSE
    <3>1. manager'[n].phase = "ready" /\ \A k \in Manager : k # n => manager'[k] = manager[k]
      BY <2>1, <2>2 DEF lt_new_memory_pool_manager
    <3>2. QED
      BY <3>1
  <2>3. ASSUME NEW n \in Manager, lt_alloc(n) PROVE FALSE
    <3>1. CASE UNCHANGED manager
      BY <3>1
    <3>2. CASE \E q \in Pool : manager' = [manager EXCEPT ![n].cur = q, ![n].tail = q]
      BY <2>1, <3>2
    <3>3. QED
      BY <2>3, <3>1, <3>2 DEF lt_alloc
  <2>4. ASSUME NEW n \in Manager, lt_alloc_null(n) PROVE FALSE
    BY <2>4 DEF lt_alloc_null
  <2>5. ASSUME NEW n \in Manager, lt_destroy_memory_pool(n)
        PROVE  owned[m] \subseteq freed' /\ owned[m] \cap freed = {}
    <3>1. n = m /\ n \in Destroyable /\ ~crashed
      BY <2>1, <2>5 DEF lt_destroy_memory_pool
    <3>2. QED
      BY <2>5, <3>1, DestroyLists DEF ListInv, FreedApart
  <2>6. ASSUME NEW k \in Manager, NEW n \in Manager, copy_manager(k, n) PROVE FALSE
    BY <2>1, <2>6 DEF copy_manager
  <2>7. CASE UNCHANGED vars
    BY <2>7 DEF vars
  <2>8. QED
    BY <2>2, <2>3, <2>4, <2>5, <2>6, <2>7 DEF Next
<1>2. QED
  BY <1>1, ListInvariance, PTL DEF Spec, DestroyFreesAll
=============================================================================
