------------------------- MODULE LeaEventWalkProofs -------------------------
(***************************************************************************)
(* Proofs about one round of lt_base_loop for every report, every number   *)
(* of events and every sequence of calls that callbacks make meanwhile:    *)
(* the list lt_loop_init_actlist builds, the walk over it, and that no     *)
(* ready event is left out.                                                *)
(***************************************************************************)
EXTENDS LeaEventProofs, SequenceTheorems

\* The two passes of lt_loop_init_actlist, the callbacks they call included.
InFirst  == pc = "first" \/ (pc = "callback" /\ ret = "first")
InSecond == pc = "second" \/ (pc = "callback" /\ ret = "second")

\* The lagged events of a round are different structs in use, and each leads
\* to the next.
Chain ==
  /\ lagged \in Seq(Event) /\ pos \in 1..(Len(lagged) + 1)
  /\ \A k \in 1..Len(lagged) : lagged[k] \in allocated
  /\ \A j, k \in 1..Len(lagged) : lagged[j] = lagged[k] => j = k
  /\ \A k \in 1..(Len(lagged) - 1) : event[lagged[k]].next_active_ev = lagged[k + 1]

\* A report names a struct once, and what the passes have linked comes from
\* the entries they have left behind.
Linked ==
  /\ \A x, y \in 1..Len(batch) : batch[x].ptr = batch[y].ptr => x = y
  /\ InFirst \/ InSecond =>
       /\ pos = 1
       /\ \A j \in 1..Len(lagged) : \E k \in 1..Len(batch) : k < i /\ batch[k].ptr = lagged[j]

\* The ends of the list: none before the first lagged event, then the first
\* and the last one linked.
Ends ==
  /\ pc \in {"setup", "epoll_wait"} \/ InFirst => activelist.head = NULL
  /\ InFirst => lagged = <<>>
  /\ InSecond => /\ Len(lagged) > 0
                 /\ activelist.head = lagged[1] /\ ev_prev = lagged[Len(lagged)]

\* Entry k of the report is called directly or linked, if it is ready.
Dispatched(k) ==
  batch[k].io => \/ batch[k].ptr \in called
                 \/ \E j \in 1..Len(lagged) : lagged[j] = batch[k].ptr

\* The entries behind the index, and the one whose callback runs.
Passed ==
  /\ InFirst \/ InSecond =>
       \A k \in 1..Len(batch) : k < i \/ (k = i /\ pc = "callback") => Dispatched(k)
  /\ ReadyDispatched

WalkInv == Chain /\ Linked /\ Ends /\ Passed /\ ActiveWalk

-----------------------------------------------------------------------------
\* A report names every struct at most once.
LEMMA ReportDistinct ==
  ASSUME NEW b \in Reports
  PROVE  \A x, y \in 1..Len(b) : b[x].ptr = b[y].ptr => x = y
<1>1. PICK k \in 0..Min({INIT_EPEV, Cardinality(Fd)}) :
        b \in [1..k -> Reportable] /\ \A x, y \in 1..k : b[x].ptr = b[y].ptr => x = y
  BY DEF Reports
<1>2. k \in Nat
  BY <1>1, ReportBound
<1>3. Len(b) = k
  BY <1>1, <1>2
<1>4. QED
  BY <1>1, <1>3

\* Nothing is linked or reported in a new base.
LEMMA WalkInit == Init => WalkInv
<1> SUFFICES ASSUME Init PROVE WalkInv
  OBVIOUS
<1>1. Len(lagged) = 0 /\ Len(batch) = 0 /\ lagged \in Seq(Event)
  BY DEF Init
<1>2. Chain /\ Linked
  BY <1>1 DEF Init, Chain, Linked, InFirst, InSecond
<1>3. Ends /\ Passed /\ ActiveWalk
  BY <1>1 DEF Init, Ends, Passed, ActiveWalk, ReadyDispatched, InFirst, InSecond, InWalk
<1>4. QED
  BY <1>2, <1>3 DEF WalkInv

\* A step that leaves the round and the links of the structs in use alone.
LEMMA QuietWalk ==
  ASSUME WalkInv, Inv,
         UNCHANGED <<activelist, batch, i, ev_prev, cur, lagged, pos, called>>,
         pc' \in {"crashed", "returned"} \/ UNCHANGED <<pc, ret>>,
         allocated \subseteq allocated',
         \A x \in allocated : event'[x].next_active_ev = event[x].next_active_ev
  PROVE  WalkInv'
<1>1. Chain'
  BY DEF WalkInv, Chain
<1>2. Linked'
  BY DEF WalkInv, Linked, InFirst, InSecond
<1>3. Ends'
  BY DEF WalkInv, Ends, InFirst, InSecond
<1>4. Passed'
  BY DEF WalkInv, Passed, Dispatched, ReadyDispatched, InFirst, InSecond, InWalk
<1>5. ActiveWalk'
  BY DEF WalkInv, ActiveWalk, InWalk
<1>6. QED
  BY <1>1, <1>2, <1>3, <1>4, <1>5 DEF WalkInv

\* A registration call, made by the program or by a callback in the middle of
\* a round, links and unlinks nothing: it sets up structs that no list holds.
LEMMA ApiWalk == ASSUME WalkInv, Inv, Api PROVE WalkInv'
<1>1. \A x \in Event : event[x] \in EventRec
  BY DEF Inv, Types
<1>2. UNCHANGED <<activelist, batch, i, ev_prev, cur, lagged, pos, called>>
  BY DEF Api, lt_io_add, lt_io_mod, lt_io_remove, lt_io_remove_wild, lt_new_post_callback, loop, history
<1>3. pc' = "crashed" \/ UNCHANGED <<pc, ret>>
  <2>1. CASE \E e \in Event : lt_io_remove_wild(e)
    BY <2>1 DEF lt_io_remove_wild
  <2>2. CASE UNCHANGED loop
    BY <2>2 DEF loop
  <2>3. QED
    BY <2>1, <2>2 DEF Api, lt_io_add, lt_io_mod, lt_io_remove, lt_new_post_callback
<1>4. allocated \subseteq allocated'
  BY DEF Api, lt_io_add, lt_io_mod, lt_io_remove, lt_io_remove_wild, lt_new_post_callback, struct
<1>5. \A x \in allocated : event'[x].next_active_ev = event[x].next_active_ev
  <2>1. event \in [Event -> EventRec] /\ allocated \subseteq Event
    BY DEF Inv, Types
  <2>2. ASSUME NEW e \in Event, e \notin allocated, NEW r, event' = [event EXCEPT ![e] = r]
        PROVE  \A x \in allocated : event'[x] = event[x]
    BY <2>1, <2>2
  <2>3. CASE \E e \in Event, f \in Fd, flag \in FlagSets, to \in Timeouts, ok \in BOOLEAN :
               lt_io_add(e, f, flag, to, ok)
    BY <2>2, <2>3 DEF lt_io_add
  <2>4. CASE \E e \in Event, f \in Fd : lt_new_post_callback(e, f)
    BY <2>2, <2>4 DEF lt_new_post_callback
  <2>5. CASE \E e \in Event, flag \in FlagSets, to \in Timeouts, ok \in BOOLEAN : lt_io_mod(e, flag, to, ok)
    <3>1. PICK e \in Event, flag \in FlagSets, to \in Timeouts :
            event' = [event EXCEPT ![e].flag = flag, ![e].endtime = EndtimeAfter(e, to)]
      BY <2>5 DEF lt_io_mod
    <3>2. event'[e].next_active_ev = event[e].next_active_ev
      BY <2>1, <3>1, <1>1 DEF EventRec
    <3>3. \A x \in Event \ {e} : event'[x] = event[x]
      BY <2>1, <3>1
    <3>4. QED
      BY <2>1, <3>2, <3>3
  <2>6. CASE \E e \in Event : lt_io_remove(e)
    <3>1. PICK e \in Event : event' = [event EXCEPT ![e].deleted = TRUE]
      BY <2>6 DEF lt_io_remove
    <3>2. QED
      BY <1>1, <2>1, <3>1, SetDeleted
  <2>7. CASE \E e \in Event : lt_io_remove_wild(e)
    BY <2>7 DEF lt_io_remove_wild, struct
  <2>8. QED
    BY <2>3, <2>4, <2>5, <2>6, <2>7 DEF Api
<1>6. QED
  BY <1>2, <1>3, <1>4, <1>5, QuietWalk

\* epoll_wait's report starts a round with nothing linked.
LEMMA ReadyWalk == ASSUME WalkInv, Inv, epoll_wait_ready PROVE WalkInv'
<1>1. /\ pc = "epoll_wait" /\ pc' = "first" /\ batch' \in Reports /\ i' = 1
      /\ lagged' = <<>> /\ pos' = 1 /\ called' = {} /\ activelist' = activelist
  BY DEF epoll_wait_ready
<1>2. Len(lagged') = 0 /\ lagged' \in Seq(Event)
  BY <1>1
<1>3. Chain'
  BY <1>1, <1>2 DEF Chain
<1>4. Linked'
  BY <1>1, <1>2, ReportDistinct DEF Linked
<1>5. Ends'
  BY <1>1 DEF WalkInv, Ends, InFirst, InSecond
<1>6. Passed' /\ ActiveWalk'
  <2>1. ~InWalk'
    BY <1>1 DEF InWalk
  <2>2. \A k \in 1..Len(batch') : ~(k < i') /\ ~(k = i' /\ pc' = "callback")
    BY <1>1
  <2>3. QED
    BY <2>1, <2>2 DEF Passed, ReadyDispatched, ActiveWalk
<1>7. QED
  BY <1>3, <1>4, <1>5, <1>6 DEF WalkInv

\* The first pass calls an entry, skips one that is not ready, or starts the
\* list with it.
LEMMA FirstWalk == ASSUME WalkInv, Inv, first_pass PROVE WalkInv'
<1> DEFINE e == batch[i].ptr
<1>1. /\ pc = "first" /\ i \in 1..Len(batch) /\ i \in Nat /\ Len(batch) \in Nat
      /\ UNCHANGED <<event, allocated, batch, pos>>
  BY DEF first_pass, Inv, Types, struct
<1>2. /\ lagged = <<>> /\ Len(lagged) = 0 /\ pos = 1 /\ activelist.head = NULL
      /\ \A k \in 1..Len(batch) : k < i => Dispatched(k)
  BY <1>1 DEF WalkInv, Ends, Linked, Passed, InFirst
<1>3. e \in Event /\ e \in allocated
  BY <1>1 DEF Inv, Types, Reached, Entry
<1>4. ASSUME activelist' = [head |-> e, tail |-> e], ev_prev' = e, lagged' = <<e>>,
             i' = i + 1, pc' = "second", UNCHANGED called
      PROVE  WalkInv'
  <2>1. lagged' \in Seq(Event) /\ Len(lagged') = 1 /\ lagged'[1] = e
    BY <1>3, <1>4
  <2>2. Chain'
    BY <1>1, <1>2, <1>3, <2>1 DEF Chain
  <2>3. Linked'
    BY <1>1, <1>2, <1>4, <2>1 DEF WalkInv, Linked
  <2>4. Ends'
    BY <1>4, <2>1 DEF Ends, InFirst, InSecond
  <2>5. Passed' /\ ActiveWalk'
    <3>1. ~InWalk' /\ pc' # "callback"
      BY <1>4 DEF InWalk
    <3>2. ASSUME NEW k \in 1..Len(batch), k < i' PROVE Dispatched(k)'
      BY <1>1, <1>2, <1>4, <2>1, <3>2 DEF Dispatched
    <3>3. QED
      BY <1>1, <3>1, <3>2 DEF Passed, ReadyDispatched, ActiveWalk
  <2>6. QED
    BY <2>2, <2>3, <2>4, <2>5 DEF WalkInv
<1>5. ASSUME Call("first"), called' = called \cup {e}, UNCHANGED <<activelist, ev_prev, i, lagged>>
      PROVE  WalkInv'
  <2>1. pc' = "callback" /\ ret' = "first"
    BY <1>5 DEF Call
  <2>2. Chain'
    BY <1>1, <1>5 DEF WalkInv, Chain
  <2>3. Linked' /\ Ends'
    BY <1>1, <1>2, <1>5, <2>1 DEF WalkInv, Linked, Ends, InFirst, InSecond
  <2>4. Passed' /\ ActiveWalk'
    <3>1. ~InWalk'
      BY <2>1 DEF InWalk
    <3>2. ASSUME NEW k \in 1..Len(batch), k < i \/ k = i PROVE Dispatched(k)'
      BY <1>1, <1>2, <1>5, <3>2 DEF Dispatched
    <3>3. QED
      BY <1>1, <1>5, <3>1, <3>2 DEF Passed, ReadyDispatched, ActiveWalk
  <2>5. QED
    BY <2>2, <2>3, <2>4 DEF WalkInv
<1>6. ASSUME ~batch[i].io, i' = i + 1, UNCHANGED <<activelist, ret, pc, ev_prev, lagged, called>>
      PROVE  WalkInv'
  <2>1. Chain'
    BY <1>1, <1>6 DEF WalkInv, Chain
  <2>2. Linked' /\ Ends'
    BY <1>1, <1>2, <1>6 DEF WalkInv, Linked, Ends, InFirst, InSecond
  <2>3. Passed' /\ ActiveWalk'
    <3>1. ~InWalk' /\ pc' # "callback"
      BY <1>1, <1>6 DEF InWalk
    <3>2. ASSUME NEW k \in 1..Len(batch), k < i' PROVE Dispatched(k)'
      BY <1>1, <1>2, <1>6, <3>2 DEF Dispatched
    <3>3. QED
      BY <1>1, <3>1, <3>2 DEF Passed, ReadyDispatched, ActiveWalk
  <2>4. QED
    BY <2>1, <2>2, <2>3 DEF WalkInv
<1>7. QED
  BY <1>4, <1>5, <1>6 DEF first_pass, SecondPassFrom

\* The second pass calls an entry, or links it behind the last one linked,
\* which no other event of the list is.
LEMMA SecondWalk == ASSUME WalkInv, Inv, second_pass PROVE WalkInv'
<1> DEFINE e == batch[i].ptr
           n == Len(lagged)
<1>1. /\ pc = "second" /\ i \in 1..Len(batch) /\ i \in Nat /\ Len(batch) \in Nat
      /\ UNCHANGED <<allocated, batch, pos, activelist>>
  BY DEF second_pass, Inv, Types
<1>2. /\ lagged \in Seq(Event) /\ n \in Nat /\ n > 0 /\ pos = 1
      /\ activelist.head = lagged[1] /\ ev_prev = lagged[n]
      /\ \A k \in 1..Len(batch) : k < i => Dispatched(k)
      /\ \A j \in 1..n : \E k \in 1..Len(batch) : k < i /\ batch[k].ptr = lagged[j]
  BY <1>1 DEF WalkInv, Chain, Ends, Linked, Passed, InSecond
<1>3. e \in Event /\ e \in allocated
  BY <1>1 DEF Inv, Types, Reached, Entry
<1>4. ASSUME event' = Link(e), ev_prev' = e, lagged' = Append(lagged, e), i' = i + 1,
             UNCHANGED <<ret, pc, called>>
      PROVE  WalkInv'
  <2>1. /\ lagged' \in Seq(Event) /\ Len(lagged') = n + 1 /\ lagged'[n + 1] = e
        /\ \A k \in 1..n : lagged'[k] = lagged[k]
    BY <1>2, <1>3, <1>4
  <2>2. ASSUME NEW j \in 1..n PROVE lagged[j] # e
    <3>1. PICK k \in 1..Len(batch) : k < i /\ batch[k].ptr = lagged[j]
      BY <1>2
    <3>2. batch[k].ptr # e
      BY <1>1, <3>1 DEF WalkInv, Linked
    <3>3. QED
      BY <3>1, <3>2
  <2>3. /\ event'[ev_prev].next_active_ev = e
        /\ \A x \in Event \ {ev_prev} : event'[x] = event[x]
    <3>1. event \in [Event -> EventRec] /\ ev_prev \in Event
      BY <1>2 DEF Inv, Types
    <3>2. QED
      BY <1>4, <3>1 DEF Link, EventRec
  <2>4. Chain'
    <3>1. \A k \in 1..(n + 1) : k \in 1..n \/ k = n + 1
      BY <1>2
    <3>2. \A k \in 1..(n + 1) : lagged'[k] \in allocated
      BY <1>3, <2>1, <3>1 DEF WalkInv, Chain
    <3>3. \A j, k \in 1..(n + 1) : lagged'[j] = lagged'[k] => j = k
      BY <2>1, <2>2, <3>1 DEF WalkInv, Chain
    <3>4. ASSUME NEW k \in 1..n PROVE event'[lagged'[k]].next_active_ev = lagged'[k + 1]
      <4>1. CASE k = n
        BY <1>2, <2>1, <2>3, <4>1
      <4>2. CASE k # n
        <5>1. k \in 1..(n - 1) /\ k + 1 \in 1..n /\ n \in 1..n
          BY <1>2, <4>2
        <5>2. lagged[k] # ev_prev /\ lagged[k] \in Event
          BY <1>2, <4>2, <5>1 DEF WalkInv, Chain
        <5>3. event'[lagged[k]].next_active_ev = lagged[k + 1]
          BY <2>3, <5>1, <5>2 DEF WalkInv, Chain
        <5>4. QED
          BY <2>1, <5>1, <5>3
      <4>3. QED
        BY <4>1, <4>2
    <3>5. pos' \in 1..(Len(lagged') + 1)
      BY <1>1, <1>2, <2>1
    <3>6. Len(lagged') - 1 = n
      BY <1>2, <2>1
    <3>7. QED
      BY <1>1, <2>1, <3>2, <3>3, <3>4, <3>5, <3>6 DEF Chain
  <2>5. Linked'
    <3>1. ASSUME NEW j \in 1..(n + 1)
          PROVE  \E k \in 1..Len(batch) : k < i + 1 /\ batch[k].ptr = lagged'[j]
      <4>1. CASE j = n + 1
        BY <1>1, <2>1, <4>1
      <4>2. CASE j \in 1..n
        <5>1. PICK k \in 1..Len(batch) : k < i /\ batch[k].ptr = lagged[j]
          BY <1>2, <4>2
        <5>2. k < i + 1
          BY <1>1, <5>1
        <5>3. QED
          BY <2>1, <4>2, <5>1, <5>2
      <4>3. QED
        BY <1>2, <4>1, <4>2
    <3>2. QED
      BY <1>1, <1>2, <1>4, <2>1, <3>1 DEF WalkInv, Linked
  <2>6. Ends'
    <3>1. Len(lagged') > 0 /\ lagged'[1] = lagged[1] /\ ev_prev' = lagged'[Len(lagged')]
      BY <1>2, <1>4, <2>1
    <3>2. ~InFirst' /\ pc' = "second"
      BY <1>1, <1>4 DEF InFirst
    <3>3. QED
      BY <1>1, <1>2, <3>1, <3>2 DEF Ends
  <2>7. Passed' /\ ActiveWalk'
    <3>1. ~InWalk' /\ pc' # "callback"
      BY <1>1, <1>4 DEF InWalk
    <3>2. ASSUME NEW k \in 1..Len(batch), k < i' PROVE Dispatched(k)'
      <4>1. CASE k = i
        BY <1>1, <1>2, <2>1, <4>1 DEF Dispatched
      <4>2. CASE k < i
        <5>1. 1..n \subseteq 1..(n + 1)
          BY <1>2
        <5>2. Dispatched(k)
          BY <1>2, <4>2
        <5>3. QED
          BY <1>1, <1>4, <2>1, <5>1, <5>2 DEF Dispatched
      <4>3. QED
        BY <1>1, <1>4, <3>2, <4>1, <4>2
    <3>3. QED
      BY <1>1, <3>1, <3>2 DEF Passed, ReadyDispatched, ActiveWalk
  <2>8. QED
    BY <2>4, <2>5, <2>6, <2>7 DEF WalkInv
<1>5. ASSUME Call("second"), called' = called \cup {e}, UNCHANGED <<event, ev_prev, i, lagged>>
      PROVE  WalkInv'
  <2>1. pc' = "callback" /\ ret' = "second"
    BY <1>5 DEF Call
  <2>2. Chain'
    BY <1>1, <1>5 DEF WalkInv, Chain
  <2>3. Linked' /\ Ends'
    BY <1>1, <1>2, <1>5, <2>1 DEF WalkInv, Linked, Ends, InFirst, InSecond
  <2>4. Passed' /\ ActiveWalk'
    <3>1. ~InWalk'
      BY <2>1 DEF InWalk
    <3>2. ASSUME NEW k \in 1..Len(batch), k < i \/ k = i PROVE Dispatched(k)'
      BY <1>1, <1>2, <1>5, <3>2 DEF Dispatched
    <3>3. QED
      BY <1>1, <1>5, <3>1, <3>2 DEF Passed, ReadyDispatched, ActiveWalk
  <2>5. QED
    BY <2>2, <2>3, <2>4 DEF WalkInv
<1>6. QED
  BY <1>4, <1>5 DEF second_pass

\* The walk starts at the first lagged event, or has nothing to visit.
LEMMA StartWalk == ASSUME WalkInv, Inv, walk_start PROVE WalkInv'
<1>1. /\ pc \in {"first", "second"} /\ i > Len(batch) /\ pc' = "process"
      /\ UNCHANGED <<event, allocated, batch, i, lagged, pos, called>>
      /\ cur' = activelist.head
  BY DEF walk_start, WalkFrom, struct, history
<1>2. lagged \in Seq(Event) /\ Len(lagged) \in Nat /\ Len(batch) \in Nat /\ i \in Nat
  BY DEF WalkInv, Chain, Inv, Types
<1>3. Chain'
  BY <1>1 DEF WalkInv, Chain
<1>4. Linked' /\ Ends'
  BY <1>1 DEF WalkInv, Linked, Ends, InFirst, InSecond
<1>5. Passed'
  <2>1. \A k \in 1..Len(batch) : Dispatched(k)
    BY <1>1, <1>2 DEF WalkInv, Passed, InFirst, InSecond
  <2>2. ReadyDispatched'
    BY <1>1, <2>1 DEF ReadyDispatched, Dispatched
  <2>3. QED
    BY <1>1, <2>2 DEF Passed, InFirst, InSecond
<1>6. ActiveWalk'
  <2>1. pos = 1
    BY <1>1 DEF WalkInv, Linked, InFirst, InSecond
  <2>2. CASE pc = "first"
    BY <1>1, <1>2, <2>1, <2>2 DEF WalkInv, Ends, InFirst, ActiveWalk
  <2>3. CASE pc = "second"
    <3>1. Len(lagged) > 0 /\ cur' = lagged[1]
      BY <1>1, <2>3 DEF WalkInv, Ends, InSecond
    <3>2. lagged[1] \in Event /\ NULL \notin Event
      BY <1>2, <3>1, HeapAssumption
    <3>3. QED
      BY <1>1, <2>1, <3>1, <3>2 DEF ActiveWalk
  <2>4. QED
    BY <1>1, <2>2, <2>3
<1>7. QED
  BY <1>3, <1>4, <1>5, <1>6 DEF WalkInv

\* A step of the walk follows the link of the event it stands on.
LEMMA StepWalk ==
  ASSUME WalkInv, Inv, InWalk, cur \in Event,
         UNCHANGED <<allocated, activelist, batch, i, lagged, called>>,
         \A x \in Event : event'[x].next_active_ev = event[x].next_active_ev,
         cur' = event[cur].next_active_ev, Advance, pc' = "process"
  PROVE  WalkInv'
<1> DEFINE n == Len(lagged)
<1>1. lagged \in Seq(Event) /\ n \in Nat /\ pos \in 1..(n + 1) /\ pos \in Nat
  BY DEF WalkInv, Chain
<1>2. pos' \in 1..(n + 1) /\ (pos <= n => pos' = pos + 1) /\ (pos > n => pos' = n + 1)
  BY <1>1 DEF Advance
<1>3. Chain'
  <2>1. /\ \A k \in 1..n : lagged[k] \in allocated
        /\ \A j, k \in 1..n : lagged[j] = lagged[k] => j = k
        /\ \A k \in 1..(n - 1) : event[lagged[k]].next_active_ev = lagged[k + 1]
    BY DEF WalkInv, Chain
  <2>2. ASSUME NEW k \in 1..(n - 1) PROVE event'[lagged[k]].next_active_ev = lagged[k + 1]
    <3>1. k \in 1..n
      BY <1>1
    <3>2. lagged[k] \in Event
      BY <1>1, <3>1
    <3>3. QED
      BY <2>1, <3>2
  <2>3. lagged' = lagged /\ allocated' = allocated
    OBVIOUS
  <2>4. QED
    BY <1>1, <1>2, <2>1, <2>2, <2>3 DEF Chain
<1>4. Linked' /\ Ends'
  BY DEF WalkInv, Linked, Ends, InFirst, InSecond
<1>5. Passed'
  BY DEF WalkInv, Passed, ReadyDispatched, InFirst, InSecond, InWalk
<1>6. ActiveWalk'
  <2>1. CASE pos < n
    <3>1. pos \in 1..n /\ pos \in 1..(n - 1) /\ pos + 1 \in 1..n /\ pos' = pos + 1
      BY <1>1, <1>2, <2>1
    <3>2. cur = lagged[pos]
      BY <3>1 DEF WalkInv, ActiveWalk
    <3>3. cur' = lagged[pos + 1]
      BY <3>1, <3>2 DEF WalkInv, Chain
    <3>4. lagged[pos + 1] \in Event /\ NULL \notin Event
      BY <1>1, <3>1, HeapAssumption
    <3>5. QED
      BY <3>1, <3>3, <3>4 DEF ActiveWalk
  <2>2. CASE pos >= n
    <3>1. pos' = n + 1 /\ ~(pos' <= n)
      BY <1>1, <1>2, <2>2
    <3>2. QED
      BY <3>1 DEF ActiveWalk
  <2>3. QED
    BY <1>1, <2>1, <2>2
<1>7. QED
  BY <1>3, <1>4, <1>5, <1>6 DEF WalkInv

\* A struct marked deleted, or not, keeps its link.
LEMMA MarkLinks ==
  ASSUME Inv, NEW d \in BOOLEAN, event' = [event EXCEPT ![cur].deleted = d]
  PROVE  \A x \in Event : event'[x].next_active_ev = event[x].next_active_ev
<1>1. event \in [Event -> EventRec] /\ \A x \in Event : event[x] \in EventRec
  BY DEF Inv, Types
<1>2. QED
  BY <1>1, SetDeleted

\* lt_ev_process_and_moveout goes on to the next event or calls this one.
LEMMA ProcessWalk == ASSUME WalkInv, Inv, process_event PROVE WalkInv'
<1>1. /\ pc = "process" /\ cur # NULL /\ cur \in Event
      /\ UNCHANGED <<allocated, activelist, batch, i, lagged, called, ev_prev>>
  BY DEF process_event, Inv, Types, NullOrEvent
<1>2. ASSUME event' = [event EXCEPT ![cur].deleted = TRUE] \/ event' = event,
             cur' = event[cur].next_active_ev, Advance, UNCHANGED <<pc, ret>>
      PROVE  WalkInv'
  <2>1. \A x \in Event : event'[x].next_active_ev = event[x].next_active_ev
    BY <1>2, MarkLinks
  <2>2. InWalk /\ pc' = "process"
    BY <1>1, <1>2 DEF InWalk
  <2>3. QED
    BY <1>1, <1>2, <2>1, <2>2, StepWalk
<1>3. ASSUME Call("process"), UNCHANGED <<event, cur, pos>>
      PROVE  WalkInv'
  <2>1. pc' = "callback" /\ ret' = "process"
    BY <1>3 DEF Call
  <2>2. Chain' /\ Linked' /\ Ends'
    BY <1>1, <1>3, <2>1 DEF WalkInv, Chain, Linked, Ends, InFirst, InSecond
  <2>3. Passed'
    BY <1>1, <2>1 DEF WalkInv, Passed, ReadyDispatched, InFirst, InSecond, InWalk
  <2>4. ActiveWalk'
    BY <1>1, <1>3, <2>1 DEF WalkInv, ActiveWalk, InWalk
  <2>5. QED
    BY <2>2, <2>3, <2>4 DEF WalkInv
<1>4. QED
  BY <1>2, <1>3 DEF process_event

\* The return of a lagged callback moves the walk on.
LEMMA LaggedReturnWalk == ASSUME WalkInv, Inv, lagged_return PROVE WalkInv'
<1>1. /\ pc = "callback" /\ ret = "process" /\ pc' = "process"
      /\ UNCHANGED <<allocated, activelist, batch, i, lagged, called, ev_prev>>
      /\ cur' = event[cur].next_active_ev /\ Advance
  BY DEF lagged_return
<1>2. cur \in Event /\ InWalk
  BY <1>1 DEF Inv, Walking, InWalk
<1> DEFINE d == "ONESHOT" \in event[cur].flag
<1>3. event' = [event EXCEPT ![cur].deleted = d] /\ d \in BOOLEAN
  BY DEF lagged_return, DeletedAfter
<1> HIDE DEF d
<1>4. \A x \in Event : event'[x].next_active_ev = event[x].next_active_ev
  BY <1>3, MarkLinks
<1>5. QED
  BY <1>1, <1>2, <1>4, StepWalk

\* The return of a callback that a pass called: its entry is dispatched.
LEMMA DirectReturnWalk == ASSUME WalkInv, Inv, direct_return PROVE WalkInv'
<1>1. /\ pc = "callback" /\ ret \in {"first", "second"} /\ pc' = ret /\ i' = i + 1
      /\ UNCHANGED <<event, allocated, activelist, ret, batch, ev_prev, cur, lagged, pos, called>>
      /\ i \in Nat /\ Len(batch) \in Nat
  BY DEF direct_return, struct, history, Inv, Types
<1>2. Chain' /\ Ends'
  BY <1>1 DEF WalkInv, Chain, Ends, InFirst, InSecond
<1>3. Linked'
  <2>1. \A k \in 1..Len(batch) : k < i => k < i'
    BY <1>1
  <2>2. InFirst \/ InSecond
    BY <1>1 DEF InFirst, InSecond
  <2>3. QED
    BY <1>1, <2>1, <2>2 DEF WalkInv, Linked
<1>4. Passed' /\ ActiveWalk'
  <2>1. ~InWalk' /\ pc' # "callback"
    BY <1>1 DEF InWalk
  <2>2. ASSUME NEW k \in 1..Len(batch), k < i' PROVE Dispatched(k)'
    <3>1. k < i \/ k = i
      BY <1>1, <2>2
    <3>2. Dispatched(k)
      BY <1>1, <3>1 DEF WalkInv, Passed, InFirst, InSecond
    <3>3. QED
      BY <1>1, <3>2 DEF Dispatched
  <2>3. QED
    BY <1>1, <2>1, <2>2 DEF Passed, ReadyDispatched, ActiveWalk
<1>5. QED
  BY <1>2, <1>3, <1>4 DEF WalkInv

\* The end of the walk empties the list.
LEMMA EndWalk == ASSUME WalkInv, Inv, walk_end PROVE WalkInv'
<1>1. /\ UNCHANGED <<event, allocated, batch, lagged, pos>>
      /\ activelist' = [head |-> NULL, tail |-> NULL] /\ pc' = "epoll_wait"
  BY DEF walk_end, struct, history
<1>2. Chain' /\ Linked' /\ Ends'
  BY <1>1 DEF WalkInv, Chain, Linked, Ends, InFirst, InSecond
<1>3. Passed' /\ ActiveWalk'
  BY <1>1 DEF Passed, ReadyDispatched, ActiveWalk, InFirst, InSecond, InWalk
<1>4. QED
  BY <1>2, <1>3 DEF WalkInv

\* Entering the loop, leaving it and the clock touch no round.
LEMMA OtherWalk ==
  ASSUME WalkInv, Inv,
         \/ \E to \in LoopTimeouts : EnterLoop(to)
         \/ \E value \in {0, -1} : epoll_wait_leave(value)
         \/ Tick \/ UNCHANGED vars
  PROVE  WalkInv'
<1>1. UNCHANGED <<event, allocated, activelist, batch, i, ev_prev, cur, lagged, pos, called>>
  BY DEF EnterLoop, epoll_wait_leave, Tick, vars, struct, loop, history
<1>2. CASE pc' = "returned" \/ UNCHANGED <<pc, ret>>
  BY <1>1, <1>2, QuietWalk
<1>3. CASE \E to \in LoopTimeouts : EnterLoop(to)
  <2>1. pc = "setup" /\ pc' = "epoll_wait"
    BY <1>3 DEF EnterLoop
  <2>2. Chain' /\ Linked' /\ Ends'
    BY <1>1, <2>1 DEF WalkInv, Chain, Linked, Ends, InFirst, InSecond
  <2>3. Passed' /\ ActiveWalk'
    BY <2>1 DEF Passed, ReadyDispatched, ActiveWalk, InFirst, InSecond, InWalk
  <2>4. QED
    BY <2>2, <2>3 DEF WalkInv
<1>4. QED
  BY <1>2, <1>3 DEF epoll_wait_leave, Tick, vars, loop

\* Every step of the reactor keeps the invariant of a round.
LEMMA WalkKept == WalkInv /\ Inv /\ [Next]_vars => WalkInv'
<1> SUFFICES ASSUME WalkInv, Inv, [Next]_vars PROVE WalkInv'
  OBVIOUS
<1>1. ASSUME \/ \E to \in LoopTimeouts : EnterLoop(to)
             \/ \E value \in {0, -1} : epoll_wait_leave(value)
             \/ Tick \/ Ended \/ UNCHANGED vars
      PROVE  WalkInv'
  BY <1>1, OtherWalk DEF Ended
<1>2. QED
  BY <1>1, ApiWalk, ReadyWalk, FirstWalk, SecondWalk, StartWalk, ProcessWalk, EndWalk,
     LaggedReturnWalk, DirectReturnWalk DEF Next

\* WalkInv is an invariant of the reactor.
LEMMA WalkInvariance == Spec => []WalkInv
  BY WalkInit, WalkKept, Invariance, PTL DEF Spec

\* lt_ev_process_and_moveout visits the lagged events of the round, each and in
\* the order of the report, before it follows a link an earlier round left:
\* for every report and whatever callbacks register, modify or remove.
THEOREM ActiveWalkTheorem == Spec => []ActiveWalk
<1>1. WalkInv => ActiveWalk
  BY DEF WalkInv
<1>2. QED
  BY <1>1, WalkInvariance, PTL

\* Every ready event of a report has been called or linked when the passes of
\* lt_loop_init_actlist are over, although callbacks change flags meanwhile.
THEOREM ReadyDispatchedTheorem == Spec => []ReadyDispatched
<1>1. WalkInv => ReadyDispatched
  BY DEF WalkInv, Passed
<1>2. QED
  BY <1>1, WalkInvariance, PTL
=============================================================================
