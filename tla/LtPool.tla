------------------------------- MODULE LtPool -------------------------------
(***************************************************************************)
(* The pools of lt_pool.c.  A manager hands out equal elements from the    *)
(* pool at its tail and appends a new pool when that one is used up.       *)
(* Addresses are offsets from the start of their pool.  A manager is a     *)
(* plain struct: proxy_connect copies one by value, and both copies then   *)
(* allocate from the same pools.  Chain pools are destroyed once a request *)
(* is sent and their manager is set up again for the next one.             *)
(***************************************************************************)
EXTENDS Integers, FiniteSets

CONSTANTS
  Manager,            \* the managers
  Destroyable,        \* the managers their owner destroys; the others may be copied
  one_element_size, element_count,
  SIZEOF_POOL,        \* sizeof(lt_memory_pool_t)
  SIZEOF_MANAGER,     \* sizeof(lt_memory_pool_manager_t)
  WORD,               \* sizeof(uintptr_t)
  MaxPools, MaxBlocks \* bounds on pools ever created and on blocks in use

ASSUME PoolAssumption ==
  /\ Destroyable \subseteq Manager
  /\ one_element_size \in Nat \ {0} /\ element_count \in Nat
  /\ SIZEOF_POOL \in Nat /\ SIZEOF_MANAGER \in Nat /\ WORD \in Nat \ {0}
  /\ MaxPools \in Nat /\ MaxBlocks \in Nat

VARIABLES
  created,    \* number of pools created; pool 0 stands for NULL
  pos, next,  \* the fields of every pool
  freed,      \* pools given back to the allocator
  manager,    \* the fields cur, head, tail of every manager, and its phase
  owned,      \* history: pools created through each manager since it was set up
  blocks,     \* elements in use: pool and offset
  starved,    \* history: pools whose replacement could not be allocated
  shared,     \* history: a manager has been copied
  crashed     \* the process has died

vars == <<created, pos, next, freed, manager, owned, blocks, starved, shared, crashed>>

Pool == 1..MaxPools

\* Mutant: rounds down.
alignment_ptr_down(p) == p - (p % WORD)

alignment_ptr(p) == p + ((-p) % WORD)

\* The struct of a pool is smaller than the manager's, by which the pool's
\* allocation is sized.
ASSUME StructAssumption == alignment_ptr(SIZEOF_POOL) <= SIZEOF_MANAGER

\* pool->end: the allocation is sized with the manager's struct, not the pool's.
End == SIZEOF_MANAGER + element_count * one_element_size

Init ==
  /\ created = 0 /\ freed = {} /\ blocks = {} /\ starved = {}
  /\ pos = [q \in Pool |-> 0] /\ next = [q \in Pool |-> 0]
  /\ manager = [m \in Manager |-> [cur |-> 0, head |-> 0, tail |-> 0, phase |-> "none"]]
  /\ owned = [m \in Manager |-> {}]
  /\ shared = FALSE /\ crashed = FALSE

\* Mutant: a pool is used that aligned_alloc never returned.
FreshUnchecked(q) ==
  /\ created < MaxPools /\ q = created + 1
  /\ UNCHANGED created

\* aligned_alloc yields a pool.
Fresh(q) ==
  /\ created < MaxPools /\ q = created + 1
  /\ created' = q

lt_new_memory_pool_manager(m) ==
  /\ ~crashed
  /\ m \in Destroyable \/ manager[m].phase = "none"
  /\ blocks' = {b \in blocks : b.m # m}
  /\ \/ \E q \in Pool :
          /\ Fresh(q)
          /\ pos' = [pos EXCEPT ![q] = alignment_ptr(SIZEOF_POOL)]
          /\ next' = [next EXCEPT ![q] = 0]
          /\ manager' = [manager EXCEPT ![m] = [cur |-> q, head |-> q, tail |-> q, phase |-> "ready"]]
          /\ owned' = [owned EXCEPT ![m] = {q}]
     \/ /\ manager' = [manager EXCEPT ![m] = [cur |-> 0, head |-> 0, tail |-> 0, phase |-> "ready"]]
        /\ owned' = [owned EXCEPT ![m] = {}]
        /\ UNCHANGED <<created, pos, next>>
  /\ UNCHANGED <<freed, starved, shared, crashed>>

\* lt_alloc on a manager whose first pool was refused reads through NULL.
lt_alloc_null(m) ==
  /\ ~crashed
  /\ manager[m].phase = "ready" /\ manager[m].tail = 0
  /\ crashed' = TRUE
  /\ UNCHANGED <<created, pos, next, freed, manager, owned, blocks, starved, shared>>

\* Mutant: one more element is taken from a pool that is used up.
UsedUpLate(p) == p > End + one_element_size

UsedUp(p) == p > End

\* Mutant: the new pool is not linked to the list.
AppendedUnlinked(t, q) == [next EXCEPT ![q] = 0]

\* next of every pool when q is appended behind the tail t.
Appended(t, q) == [next EXCEPT ![q] = 0, ![t] = q]

\* The element is taken at pos before the pool is known to have room for it;
\* a pool whose pos has moved past its end is replaced at the tail.
lt_alloc(m) ==
  LET t == manager[m].tail
      p == alignment_ptr(pos[t] + one_element_size)
  IN
  /\ ~crashed
  /\ manager[m].phase = "ready" /\ t # 0
  /\ Cardinality(blocks) < MaxBlocks
  /\ blocks' = blocks \cup {[m |-> m, pool |-> t, off |-> pos[t]]}
  /\ \/ /\ ~UsedUp(p)
        /\ pos' = [pos EXCEPT ![t] = p]
        /\ UNCHANGED <<created, next, manager, owned, starved>>
     \/ /\ UsedUp(p)
        /\ \E q \in Pool :
             /\ Fresh(q)
             /\ pos' = [pos EXCEPT ![t] = p, ![q] = alignment_ptr(SIZEOF_POOL)]
             /\ next' = Appended(t, q)
             /\ manager' = [manager EXCEPT ![m].cur = q, ![m].tail = q]
             /\ owned' = [owned EXCEPT ![m] = @ \cup {q}]
        /\ UNCHANGED starved
     \/ /\ UsedUp(p)
        /\ pos' = [pos EXCEPT ![t] = p]
        /\ starved' = starved \cup {t}
        /\ UNCHANGED <<created, next, manager, owned>>
  /\ UNCHANGED <<freed, shared, crashed>>

\* Mutant: the loop is left after one free.
LastPoolAlways(q) == TRUE

LastPool(q) == next[q] = 0

\* The loop frees head again and again until its next is NULL: with one pool
\* it ends after one free, with more it frees the same pool twice.
lt_destroy_memory_pool(m) ==
  LET h == manager[m].head IN
  /\ ~crashed
  /\ m \in Destroyable
  /\ manager[m].phase = "ready" /\ h # 0
  /\ freed' = freed \cup {h}
  /\ IF LastPool(h)
     THEN /\ manager' = [manager EXCEPT ![m].phase = "destroyed"]
          /\ blocks' = {b \in blocks : b.m # m}
          /\ UNCHANGED crashed
     ELSE crashed' = TRUE /\ UNCHANGED <<manager, blocks>>
  /\ UNCHANGED <<created, pos, next, owned, starved, shared>>

\* conn->pair->request_pool_manager = conn->request_pool_manager
copy_manager(m, n) ==
  /\ ~crashed
  /\ {m, n} \subseteq Manager \ Destroyable
  /\ manager[m].phase = "ready" /\ manager[n].phase = "none"
  /\ manager' = [manager EXCEPT ![n] = manager[m]]
  /\ shared' = TRUE
  /\ UNCHANGED <<created, pos, next, freed, owned, blocks, starved, crashed>>

Next ==
  \/ \E m \in Manager :
       \/ lt_new_memory_pool_manager(m)
       \/ lt_alloc(m)
       \/ lt_alloc_null(m)
       \/ lt_destroy_memory_pool(m)
  \/ \E m, n \in Manager : copy_manager(m, n)

Spec == Init /\ [][Next]_vars

-----------------------------------------------------------------------------
(* Properties.                                                             *)

\* Types of the pools' and managers' fields (lt_memory_pool_t,
\* lt_memory_pool_manager_t).
TypeOK ==
  /\ created \in 0..MaxPools
  /\ pos \in [Pool -> Nat] /\ next \in [Pool -> Pool \cup {0}]
  /\ freed \in SUBSET Pool /\ starved \in SUBSET Pool
  /\ manager \in [Manager -> [cur : 0..created, head : 0..created, tail : 0..created,
                              phase : {"none", "ready", "destroyed"}]]
  /\ owned \in [Manager -> SUBSET (1..created)]
  /\ blocks \in SUBSET [m : Manager, pool : 1..created, off : Nat]
  /\ shared \in BOOLEAN /\ crashed \in BOOLEAN

\* No two elements lt_alloc has handed out overlap, and none overlaps its
\* pool's header: not when a pool could not be replaced, nor when two copies
\* of a manager allocate from one pool.
BlocksApart ==
  \A b \in blocks :
    /\ b.off >= SIZEOF_POOL
    /\ \A c \in blocks : b # c /\ b.pool = c.pool =>
         \/ b.off + one_element_size <= c.off
         \/ c.off + one_element_size <= b.off

\* lt_alloc hands out at most one element of a pool that reaches over its end,
\* and that one starts at the end at the latest, where an element of one word
\* may lie wholly outside; unless a pool could not be replaced or a copied
\* manager has grown behind this one's back.
OverrunOnce ==
  \A b \in blocks : b.pool \in starved \/ shared \/
    /\ b.off <= End
    /\ \A c \in blocks : b # c /\ b.pool = c.pool =>
         b.off + one_element_size <= End \/ c.off + one_element_size <= End

\* Every pool a manager created is on the list lt_destroy_memory_pool walks:
\* it is the head or the next of another one, and the list ends at the tail.
ChainComplete ==
  \A m \in Manager : manager[m].phase = "ready" /\ ~shared =>
    /\ \A q \in owned[m] : q = manager[m].head \/ \E r \in owned[m] : next[r] = q
    /\ \A q \in owned[m] : next[q] = 0 <=> q = manager[m].tail

\* A call of lt_destroy_memory_pool that returns has freed every pool of the
\* manager, and none of them had been freed before.
DestroyFreesAll ==
  [][\A m \in Manager :
       manager[m].phase = "ready" /\ manager'[m].phase = "destroyed"
         => owned[m] \subseteq freed' /\ owned[m] \cap freed = {}]_vars

\* The layout comment of lt_new_memory_pool: a pool is its struct followed by
\* whole elements, so every element lies inside its pool.
BlocksInside == \A b \in blocks : b.off + one_element_size <= End
=============================================================================
