--------------------------- MODULE LeaEventProofs ---------------------------
(***************************************************************************)
(* Proofs about the reactor for every number of events, descriptors,       *)
(* flags and timeouts, every epoll report and every sequence of calls.     *)
(***************************************************************************)
EXTENDS LeaEvent, FiniteSetTheorems, TLAPS

NullOrEvent == Event \cup {NULL}

\* TypeOK without the timer heap.
Types ==
  /\ event \in [Event -> EventRec]
  /\ allocated \in SUBSET Event
  /\ epoll \in [Fd -> {NULL} \cup [ptr : Event, mask : SUBSET Mask]]
  /\ activelist \in [head : NullOrEvent, tail : NullOrEvent]
  /\ batch \in Seq(Entry)
  /\ i \in Nat \ {0}
  /\ ev_prev \in NullOrEvent /\ cur \in NullOrEvent
  /\ clock \in 1..MaxClock

\* Every struct the kernel, the report or the active list leads to has been
\* handed out by lt_new_event, and owns a descriptor.
Reached ==
  /\ \A e \in allocated : event[e].fd \in Fd /\ event[e].next_active_ev \in allocated \cup {NULL}
  /\ \A f \in Fd : epoll[f] # NULL => epoll[f].ptr \in allocated
  /\ \A k \in 1..Len(batch) : batch[k].ptr \in allocated
  /\ {ev_prev, cur, activelist.head} \subseteq allocated \cup {NULL}
  /\ fired \cup gone \subseteq allocated

\* The invariant behind OneShotStops: a fired event is marked deleted, and
\* only the return of its own callback could clear the mark.
FiredDeleted == \A e \in fired : event[e].deleted

\* The callback the walk calls is that of a struct, and it has not fired.
Walking == pc = "callback" /\ ret = "process" => cur \in Event /\ cur \notin fired

Inv ==
  /\ Types
  /\ Reached
  /\ InterestMatchesFlag
  /\ RemovedNotRegistered
  /\ FiredDeleted
  /\ Walking

-----------------------------------------------------------------------------
\* Min of the two bounds on a report's length is one of them.
LEMMA ReportBound == Min({INIT_EPEV, Cardinality(Fd)}) \in Nat
<1>1. INIT_EPEV \in Nat /\ Cardinality(Fd) \in Nat
  BY EventAssumption, FS_CardinalityType
<1>2. \E x \in {INIT_EPEV, Cardinality(Fd)} : \A y \in {INIT_EPEV, Cardinality(Fd)} : x =< y
  BY <1>1
<1>3. Min({INIT_EPEV, Cardinality(Fd)}) \in {INIT_EPEV, Cardinality(Fd)}
  BY <1>2 DEF Min
<1>4. QED
  BY <1>1, <1>3

\* A report is a sequence of entries whose structs the kernel's table names.
LEMMA ReportType ==
  ASSUME NEW b \in Reports
  PROVE  /\ b \in Seq(Entry)
         /\ \A k \in 1..Len(b) : b[k] \in Reportable
<1>1. PICK k \in 0..Min({INIT_EPEV, Cardinality(Fd)}) : b \in [1..k -> Reportable]
  BY DEF Reports
<1>2. k \in Nat
  BY <1>1, ReportBound
<1>3. Reportable \subseteq Entry
  BY DEF Reportable
<1>4. b \in Seq(Reportable) /\ Len(b) = k
  BY <1>1, <1>2
<1>5. QED
  BY <1>1, <1>2, <1>3, <1>4

\* The mask asked of the kernel is made of its four bits.
LEMMA MaskType == ASSUME NEW flag PROVE EpollMask(flag) \in SUBSET Mask
  BY DEF EpollMask, Mask

\* The endtime a registration call stores is a time.
LEMMA EndtimeType ==
  ASSUME Types, NEW e \in Event, NEW to \in Timeouts
  PROVE  EndtimeAfter(e, to) \in Time
<1>1. clock \in Int /\ to \in Int /\ NSEC \in Nat \ {0}
  BY EventAssumption, NSECAssumption DEF Types
<1>2. \A n \in Int : n \div NSEC \in Int /\ n % NSEC \in Int
  BY <1>1
<1>3. lt_gettime(clock) \in Time
  BY <1>1, <1>2 DEF lt_gettime, Time
<1>4. \A n \in Int : Carries(n) \in Int
  BY <1>1, <1>2 DEF Carries
<1>5. \A t \in Time : lt_time_addition(t, to) \in Time
  BY <1>1, <1>4 DEF lt_time_addition, Time
<1>6. event[e].endtime \in Time
  BY DEF Types, EventRec
<1>7. QED
  BY <1>3, <1>5, <1>6 DEF EndtimeAfter

\* Marking a struct deleted changes nothing else of it.
LEMMA SetDeleted ==
  ASSUME NEW r \in EventRec, NEW d \in BOOLEAN
  PROVE  /\ [r EXCEPT !.deleted = d] \in EventRec
         /\ [r EXCEPT !.deleted = d].flag = r.flag
         /\ [r EXCEPT !.deleted = d].fd = r.fd
         /\ [r EXCEPT !.deleted = d].endtime = r.endtime
         /\ [r EXCEPT !.deleted = d].next_active_ev = r.next_active_ev
         /\ [r EXCEPT !.deleted = d].deleted = d
  BY DEF EventRec

\* lt_timeout_add's result stored in a struct changes nothing else of it.
LEMMA SetEndtime ==
  ASSUME NEW r \in EventRec, NEW t \in Time
  PROVE  /\ [r EXCEPT !.endtime = t] \in EventRec
         /\ [r EXCEPT !.endtime = t].flag = r.flag
         /\ [r EXCEPT !.endtime = t].fd = r.fd
         /\ [r EXCEPT !.endtime = t].next_active_ev = r.next_active_ev
         /\ [r EXCEPT !.endtime = t].deleted = r.deleted
  BY DEF EventRec

\* The base lt_base_init returns satisfies the invariant.
LEMMA InitHolds == Init => Inv
<1> SUFFICES ASSUME Init PROVE Inv
  OBVIOUS
<1>1. event \in [Event -> EventRec]
  <2>1. \A g \in Garbage : [flag |-> {}, fd |-> NULL, deleted |-> FALSE,
                            endtime |-> g, next_active_ev |-> NULL] \in EventRec
    BY EventAssumption DEF EventRec
  <2>2. QED
    BY <2>1 DEF Init
<1>2. Types
  BY <1>1, EventAssumption DEF Init, Types, NullOrEvent
<1>3. Reached
  BY DEF Init, Reached
<1>4. QED
  BY <1>2, <1>3 DEF Init, Inv, InterestMatchesFlag, RemovedNotRegistered, FiredDeleted, Walking

-----------------------------------------------------------------------------
(* The registration calls.                                                 *)

\* lt_io_add works on a struct nothing leads to yet.
LEMMA AddKeeps ==
  ASSUME Inv, NEW e \in Event, NEW f \in Fd, NEW flag \in FlagSets, NEW to \in Timeouts,
         NEW ok \in BOOLEAN, lt_io_add(e, f, flag, to, ok)
  PROVE  Inv'
<1>1. e \notin allocated /\ allocated' = allocated \cup {e}
  BY DEF lt_io_add
<1> DEFINE new == [lt_ev_init_(e, flag, f) EXCEPT !.endtime = EndtimeAfter(e, to)]
<1>2. event' = [event EXCEPT ![e] = new]
  BY DEF lt_io_add
<1>3. /\ new \in EventRec
      /\ new.flag = flag /\ new.fd = f /\ new.deleted = FALSE /\ new.next_active_ev = NULL
  <2>1. EndtimeAfter(e, to) \in Time /\ flag \in SUBSET FlagBits /\ event[e] \in EventRec
    BY EndtimeType, EventAssumption DEF Inv, Types
  <2>2. QED
    <3>1. /\ lt_ev_init_(e, flag, f) \in EventRec
          /\ lt_ev_init_(e, flag, f).flag = flag /\ lt_ev_init_(e, flag, f).fd = f
          /\ lt_ev_init_(e, flag, f).deleted = FALSE
          /\ lt_ev_init_(e, flag, f).next_active_ev = NULL
      BY <2>1 DEF EventRec, lt_ev_init_
    <3>2. QED
      BY <2>1, <3>1, SetEndtime
<1>4. event' \in [Event -> EventRec] /\ event'[e] = new /\ \A x \in Event \ {e} : event'[x] = event[x]
  BY <1>2, <1>3 DEF Inv, Types
<1>5. epoll' = lt_add_to_epfd(e, f, flag)
  BY DEF lt_io_add
<1>6. UNCHANGED <<activelist, batch, i, ev_prev, cur, clock, pc, ret, fired, gone>>
  BY DEF lt_io_add, loop
<1>7. epoll' \in [Fd -> {NULL} \cup [ptr : Event, mask : SUBSET Mask]]
  BY <1>5, MaskType DEF Inv, Types, lt_add_to_epfd
<1>8. Types'
  BY <1>1, <1>4, <1>6, <1>7 DEF Inv, Types
<1>9. \A g \in Fd : epoll'[g] = epoll[g] \/ (g = f /\ epoll'[g] = [ptr |-> e, mask |-> EpollMask(flag)])
  BY <1>5 DEF Inv, Types, lt_add_to_epfd
<1>10. Reached'
  <2>1. \A x \in allocated' : event'[x].fd \in Fd /\ event'[x].next_active_ev \in allocated' \cup {NULL}
    BY <1>1, <1>3, <1>4 DEF Inv, Types, Reached
  <2>2. \A g \in Fd : epoll'[g] # NULL => epoll'[g].ptr \in allocated'
    BY <1>1, <1>9 DEF Inv, Reached
  <2>3. QED
    BY <1>1, <1>6, <2>1, <2>2 DEF Inv, Reached
<1>11. InterestMatchesFlag'
  <2> SUFFICES ASSUME NEW g \in Fd, epoll'[g] # NULL
               PROVE  /\ epoll'[g].ptr \in allocated'
                      /\ event'[epoll'[g].ptr].fd = g
                      /\ epoll'[g].mask = EpollMask(event'[epoll'[g].ptr].flag)
    BY DEF InterestMatchesFlag, EpollMask
  <2>1. CASE epoll'[g] = epoll[g]
    <3>1. epoll[g].ptr \in allocated /\ epoll[g].ptr \in Event /\ epoll[g].ptr # e
      BY <1>1, <2>1 DEF Inv, Types, InterestMatchesFlag
    <3>2. QED
      BY <1>1, <1>4, <2>1, <3>1 DEF Inv, InterestMatchesFlag
  <2>2. CASE g = f /\ epoll'[g] = [ptr |-> e, mask |-> EpollMask(flag)]
    <3>1. epoll'[g].ptr = e /\ epoll'[g].mask = EpollMask(flag)
      BY <2>2
    <3>2. event'[e].fd = f /\ event'[e].flag = flag
      BY <1>3, <1>4
    <3>3. QED
      BY <1>1, <2>2, <3>1, <3>2
  <2>3. QED
    BY <1>9, <2>1, <2>2
<1>12. RemovedNotRegistered'
  BY <1>1, <1>6, <1>9 DEF Inv, Reached, RemovedNotRegistered
<1>13. FiredDeleted'
  BY <1>1, <1>4, <1>6 DEF Inv, Types, Reached, FiredDeleted
<1>14. Walking'
  BY <1>6 DEF Inv, Walking
<1>15. QED
  BY <1>8, <1>10, <1>11, <1>12, <1>13, <1>14 DEF Inv

\* lt_io_mod changes the interest in the event's own descriptor only.
LEMMA ModKeeps ==
  ASSUME Inv, NEW e \in Event, NEW flag \in FlagSets, NEW to \in Timeouts,
         NEW ok \in BOOLEAN, lt_io_mod(e, flag, to, ok)
  PROVE  Inv'
<1>1. e \in allocated /\ allocated' = allocated /\ gone' = gone \ {e}
  BY DEF lt_io_mod
<1>2. event' = [event EXCEPT ![e].flag = flag, ![e].endtime = EndtimeAfter(e, to)]
  BY DEF lt_io_mod
<1>3. event[e].fd \in Fd
  BY <1>1 DEF Inv, Reached
<1>4. /\ event' \in [Event -> EventRec]
      /\ event'[e].flag = flag
      /\ \A x \in Event : /\ event'[x].fd = event[x].fd /\ event'[x].deleted = event[x].deleted
                          /\ event'[x].next_active_ev = event[x].next_active_ev
                          /\ x # e => event'[x].flag = event[x].flag
  <2>1. event[e] \in EventRec /\ EndtimeAfter(e, to) \in Time /\ flag \in SUBSET FlagBits
    BY EndtimeType, EventAssumption DEF Inv, Types
  <2>2. /\ event'[e] = [event[e] EXCEPT !.flag = flag, !.endtime = EndtimeAfter(e, to)]
        /\ event' = [event EXCEPT ![e] = event'[e]]
    BY <1>2 DEF Inv, Types
  <2>3. QED
    <3>1. \A x \in Event \ {e} : event'[x] = event[x]
      BY <1>2 DEF Inv, Types
    <3>2. /\ event'[e] \in EventRec /\ event'[e].fd = event[e].fd /\ event'[e].flag = flag
          /\ event'[e].next_active_ev = event[e].next_active_ev
          /\ event'[e].deleted = event[e].deleted
      BY <2>1, <2>2 DEF EventRec
    <3>3. event' \in [Event -> EventRec]
      BY <2>2, <3>2 DEF Inv, Types
    <3>4. QED
      BY <3>1, <3>2, <3>3
<1>5. epoll' = lt_mod_to_epfd(e, event[e].fd, flag)
  BY DEF lt_io_mod
<1>6. UNCHANGED <<activelist, batch, i, ev_prev, cur, clock, pc, ret, fired>>
  BY DEF lt_io_mod, loop
<1>7. epoll' \in [Fd -> {NULL} \cup [ptr : Event, mask : SUBSET Mask]]
  BY <1>5, MaskType DEF Inv, Types, lt_mod_to_epfd
<1>8. Types'
  BY <1>1, <1>4, <1>6, <1>7 DEF Inv, Types
<1>9. \A g \in Fd : \/ epoll'[g] = epoll[g] /\ (g = event[e].fd => epoll[g] = NULL)
                    \/ g = event[e].fd /\ epoll'[g] = [ptr |-> e, mask |-> EpollMask(flag)]
  BY <1>3, <1>5 DEF Inv, Types, lt_mod_to_epfd
<1>10. Reached'
  BY <1>1, <1>4, <1>6, <1>9 DEF Inv, Types, Reached
<1>11. InterestMatchesFlag'
  <2> SUFFICES ASSUME NEW g \in Fd, epoll'[g] # NULL
               PROVE  /\ epoll'[g].ptr \in allocated'
                      /\ event'[epoll'[g].ptr].fd = g
                      /\ epoll'[g].mask = EpollMask(event'[epoll'[g].ptr].flag)
    BY DEF InterestMatchesFlag, EpollMask
  <2>1. CASE g = event[e].fd
    BY <1>1, <1>4, <1>9, <2>1 DEF Inv, InterestMatchesFlag
  <2>2. CASE g # event[e].fd
    <3>1. epoll'[g] = epoll[g] /\ epoll[g].ptr \in allocated /\ event[epoll[g].ptr].fd = g
      BY <1>9, <2>2 DEF Inv, InterestMatchesFlag
    <3>2. epoll[g].ptr # e /\ epoll[g].ptr \in Event
      BY <2>2, <3>1 DEF Inv, Types
    <3>3. QED
      BY <1>1, <1>4, <3>1, <3>2 DEF Inv, InterestMatchesFlag
  <2>3. QED
    BY <2>1, <2>2
<1>12. RemovedNotRegistered'
  BY <1>1, <1>9 DEF Inv, RemovedNotRegistered
<1>13. FiredDeleted' /\ Walking'
  BY <1>4, <1>6 DEF Inv, Types, Reached, FiredDeleted, Walking
<1>14. QED
  BY <1>8, <1>10, <1>11, <1>12, <1>13 DEF Inv

\* The entry lt_io_remove deletes is the only one that leads to the event.
LEMMA RemoveKeeps ==
  ASSUME Inv, NEW e \in Event, lt_io_remove(e)
  PROVE  Inv'
<1>1. e \in allocated /\ allocated' = allocated /\ gone' = gone \cup {e}
  BY DEF lt_io_remove
<1>2. event' = [event EXCEPT ![e].deleted = TRUE]
  BY DEF lt_io_remove
<1>3. event[e].fd \in Fd
  BY <1>1 DEF Inv, Reached
<1>4. /\ event' \in [Event -> EventRec]
      /\ \A x \in Event : /\ event'[x].fd = event[x].fd /\ event'[x].flag = event[x].flag
                          /\ event'[x].next_active_ev = event[x].next_active_ev
                          /\ event[x].deleted => event'[x].deleted
  <2>1. event[e] \in EventRec
    BY DEF Inv, Types
  <2>2. /\ event'[e] = [event[e] EXCEPT !.deleted = TRUE]
        /\ event' = [event EXCEPT ![e] = event'[e]]
    BY <1>2 DEF Inv, Types
  <2>3. QED
    <3>1. \A x \in Event \ {e} : event'[x] = event[x]
      BY <1>2 DEF Inv, Types
    <3>2. /\ event'[e] \in EventRec /\ event'[e].fd = event[e].fd /\ event'[e].flag = event[e].flag
          /\ event'[e].next_active_ev = event[e].next_active_ev /\ event'[e].deleted
      BY <2>1, <2>2, SetDeleted
    <3>3. event' \in [Event -> EventRec]
      BY <2>2, <3>2 DEF Inv, Types
    <3>4. QED
      BY <3>1, <3>2, <3>3
<1>5. epoll' = [epoll EXCEPT ![event[e].fd] = NULL]
  BY DEF lt_io_remove, lt_remove_from_epfd
<1>6. UNCHANGED <<activelist, batch, i, ev_prev, cur, clock, pc, ret, fired>>
  BY DEF lt_io_remove, loop
<1>7. Types'
  BY <1>1, <1>4, <1>5, <1>6 DEF Inv, Types
<1>8. \A g \in Fd : epoll'[g] # NULL => epoll'[g] = epoll[g] /\ g # event[e].fd
  BY <1>5 DEF Inv, Types
<1>9. Reached'
  BY <1>1, <1>4, <1>6, <1>8 DEF Inv, Types, Reached
<1>10. \A g \in Fd : epoll'[g] # NULL => epoll'[g].ptr # e /\ epoll'[g].ptr \in Event
  BY <1>8 DEF Inv, Types, InterestMatchesFlag
<1>11. InterestMatchesFlag'
  <2> SUFFICES ASSUME NEW g \in Fd, epoll'[g] # NULL
               PROVE  /\ epoll'[g].ptr \in allocated'
                      /\ event'[epoll'[g].ptr].fd = g
                      /\ epoll'[g].mask = EpollMask(event'[epoll'[g].ptr].flag)
    BY DEF InterestMatchesFlag, EpollMask
  <2>1. QED
    BY <1>1, <1>4, <1>8, <1>10 DEF Inv, InterestMatchesFlag
<1>12. RemovedNotRegistered'
  BY <1>1, <1>8, <1>10 DEF Inv, RemovedNotRegistered
<1>13. FiredDeleted' /\ Walking'
  BY <1>4, <1>6 DEF Inv, Types, Reached, FiredDeleted, Walking
<1>14. QED
  BY <1>7, <1>9, <1>11, <1>12, <1>13 DEF Inv

\* lt_new_post_callback sets up a struct nothing leads to.
LEMMA PostKeeps ==
  ASSUME Inv, NEW e \in Event, NEW f \in Fd, lt_new_post_callback(e, f)
  PROVE  Inv'
<1>1. e \notin allocated /\ allocated' = allocated \cup {e}
  BY DEF lt_new_post_callback
<1> DEFINE new == lt_ev_init_(e, {"ONESHOT"}, f)
<1>2. event' = [event EXCEPT ![e] = new]
  BY DEF lt_new_post_callback
<1>3. new \in EventRec /\ new.fd = f /\ new.next_active_ev = NULL
  <2>1. {"ONESHOT"} \in SUBSET FlagBits /\ event[e] \in EventRec
    BY DEF FlagBits, Inv, Types
  <2>2. QED
    BY <2>1 DEF EventRec, lt_ev_init_
<1>4. event' \in [Event -> EventRec] /\ event'[e] = new /\ \A x \in Event \ {e} : event'[x] = event[x]
  BY <1>2, <1>3 DEF Inv, Types
<1>5. UNCHANGED <<epoll, activelist, batch, i, ev_prev, cur, clock, pc, ret, fired, gone>>
  BY DEF lt_new_post_callback, loop
<1>6. Types'
  BY <1>1, <1>4, <1>5 DEF Inv, Types
<1>7. Reached'
  BY <1>1, <1>3, <1>4, <1>5 DEF Inv, Types, Reached
<1>8. InterestMatchesFlag' /\ RemovedNotRegistered'
  BY <1>1, <1>4, <1>5 DEF Inv, Types, Reached, InterestMatchesFlag, RemovedNotRegistered
<1>9. FiredDeleted' /\ Walking'
  BY <1>1, <1>4, <1>5 DEF Inv, Types, Reached, FiredDeleted, Walking
<1>10. QED
  BY <1>6, <1>7, <1>8, <1>9 DEF Inv

-----------------------------------------------------------------------------
(* The loop.                                                               *)

\* A step that leaves the structs, the table, the active list's pointers, the
\* report and the marks alone keeps everything but Walking.
LEMMA QuietKeeps ==
  ASSUME Inv, UNCHANGED <<event, allocated, epoll, activelist, batch, ev_prev, cur, fired, gone>>,
         i' \in Nat \ {0}, clock' \in 1..MaxClock, Walking'
  PROVE  Inv'
<1>1. Types' /\ Reached'
  BY DEF Inv, Types, Reached
<1>2. InterestMatchesFlag' /\ RemovedNotRegistered' /\ FiredDeleted'
  BY DEF Inv, InterestMatchesFlag, RemovedNotRegistered, FiredDeleted, EpollMask
<1>3. QED
  BY <1>1, <1>2 DEF Inv

\* What epoll_wait reports leads to structs the table named.
LEMMA ReadyKeeps == ASSUME Inv, epoll_wait_ready PROVE Inv'
<1>1. batch' \in Seq(Entry) /\ \A k \in 1..Len(batch') : batch'[k] \in Reportable
  BY ReportType DEF epoll_wait_ready
<1>2. \A en \in Reportable : en.ptr \in allocated
  BY DEF Reportable, Inv, Reached
<1>3. UNCHANGED <<event, allocated, epoll, activelist, ev_prev, cur, clock, fired, gone>>
      /\ i' = 1 /\ pc' = "first"
  BY DEF epoll_wait_ready, struct
<1>4. Types'
  BY <1>1, <1>3 DEF Inv, Types
<1>5. Reached'
  BY <1>1, <1>2, <1>3 DEF Inv, Reached
<1>6. InterestMatchesFlag' /\ RemovedNotRegistered' /\ FiredDeleted'
  BY <1>3 DEF Inv, InterestMatchesFlag, RemovedNotRegistered, FiredDeleted, EpollMask
<1>7. Walking'
  BY <1>3 DEF Walking
<1>8. QED
  BY <1>4, <1>5, <1>6, <1>7 DEF Inv

\* The entry a pass looks at leads to a struct that was handed out.
LEMMA EntryType ==
  ASSUME Inv, i <= Len(batch)
  PROVE  batch[i].ptr \in allocated /\ batch[i].ptr \in Event
<1>1. i \in 1..Len(batch)
  BY DEF Inv, Types
<1>2. QED
  BY <1>1 DEF Inv, Types, Reached

\* The first pass changes no struct.
LEMMA FirstKeeps == ASSUME Inv, first_pass PROVE Inv'
<1> DEFINE e == batch[i].ptr
<1>1. UNCHANGED <<event, allocated, epoll, batch, cur, clock, fired, gone>>
  BY DEF first_pass, struct
<1>2. e \in allocated /\ e \in Event
  BY EntryType DEF first_pass
<1>3. i' \in Nat \ {0}
  BY DEF first_pass, SecondPassFrom, Inv, Types
<1>4. /\ activelist' = [head |-> e, tail |-> e] \/ activelist' = activelist
      /\ ev_prev' = e \/ ev_prev' = ev_prev
      /\ pc' = "callback" => ret' = "first" \/ (pc = "first" /\ pc' = pc)
  BY DEF first_pass, Call
<1>5. pc = "first"
  BY DEF first_pass
<1>6. Types'
  BY <1>1, <1>2, <1>3, <1>4 DEF Inv, Types, NullOrEvent
<1>7. Reached'
  BY <1>1, <1>2, <1>4 DEF Inv, Reached
<1>8. InterestMatchesFlag' /\ RemovedNotRegistered' /\ FiredDeleted'
  BY <1>1 DEF Inv, InterestMatchesFlag, RemovedNotRegistered, FiredDeleted, EpollMask
<1>9. Walking'
  BY <1>4, <1>5 DEF Walking
<1>10. QED
  BY <1>6, <1>7, <1>8, <1>9 DEF Inv

\* The second pass changes one pointer of one struct.
LEMMA SecondKeeps == ASSUME Inv, second_pass PROVE Inv'
<1> DEFINE e == batch[i].ptr
<1>1. UNCHANGED <<allocated, epoll, activelist, batch, cur, clock, fired, gone>>
  BY DEF second_pass
<1>2. e \in allocated /\ e \in Event
  BY EntryType DEF second_pass
<1>3. i' \in Nat \ {0}
  BY DEF second_pass, Inv, Types
<1>4. /\ event' = event \/ event' = [event EXCEPT ![ev_prev].next_active_ev = e]
      /\ ev_prev' = e \/ ev_prev' = ev_prev
      /\ pc' = "callback" => ret' = "second" \/ (pc = "second" /\ pc' = pc)
      /\ pc = "second"
  BY DEF second_pass, Call, Link
<1>5. /\ event' \in [Event -> EventRec]
      /\ \A x \in Event : /\ event'[x].fd = event[x].fd /\ event'[x].flag = event[x].flag
                          /\ event'[x].deleted = event[x].deleted
                          /\ event'[x].next_active_ev \in {event[x].next_active_ev, e}
  <2>1. CASE event' = event
    BY <2>1 DEF Inv, Types
  <2>2. CASE event' = [event EXCEPT ![ev_prev].next_active_ev = e]
    <3>1. CASE ev_prev \in Event
      <4>1. event[ev_prev] \in EventRec
        BY <3>1 DEF Inv, Types
      <4>2. /\ event'[ev_prev] = [event[ev_prev] EXCEPT !.next_active_ev = e]
            /\ \A x \in Event \ {ev_prev} : event'[x] = event[x]
            /\ event' = [event EXCEPT ![ev_prev] = event'[ev_prev]]
        BY <2>2, <3>1 DEF Inv, Types
      <4>3. /\ event'[ev_prev] \in EventRec /\ event'[ev_prev].fd = event[ev_prev].fd
            /\ event'[ev_prev].flag = event[ev_prev].flag
            /\ event'[ev_prev].deleted = event[ev_prev].deleted
            /\ event'[ev_prev].next_active_ev = e
        BY <1>2, <4>1, <4>2 DEF EventRec
      <4>4. event' \in [Event -> EventRec]
        BY <4>2, <4>3 DEF Inv, Types
      <4>5. QED
        BY <4>2, <4>3, <4>4
    <3>2. CASE ev_prev \notin Event
      <4>1. event' = event
        BY <2>2, <3>2 DEF Inv, Types
      <4>2. QED
        BY <2>1, <4>1
    <3>3. QED
      BY <3>1, <3>2
  <2>3. QED
    BY <1>4, <2>1, <2>2
<1>6. Types'
  BY <1>1, <1>2, <1>3, <1>4, <1>5 DEF Inv, Types, NullOrEvent
<1>7. Reached'
  BY <1>1, <1>2, <1>4, <1>5 DEF Inv, Types, Reached
<1>8. InterestMatchesFlag'
  <2> SUFFICES ASSUME NEW g \in Fd, epoll'[g] # NULL
               PROVE  /\ epoll'[g].ptr \in allocated'
                      /\ event'[epoll'[g].ptr].fd = g
                      /\ epoll'[g].mask = EpollMask(event'[epoll'[g].ptr].flag)
    BY DEF InterestMatchesFlag, EpollMask
  <2>1. epoll'[g] = epoll[g] /\ epoll[g].ptr \in Event
    BY <1>1 DEF Inv, Types
  <2>2. QED
    BY <1>1, <1>5, <2>1 DEF Inv, InterestMatchesFlag
<1>9. RemovedNotRegistered' /\ FiredDeleted'
  BY <1>1, <1>5 DEF Inv, Types, Reached, RemovedNotRegistered, FiredDeleted
<1>10. Walking'
  BY <1>4 DEF Walking
<1>11. QED
  BY <1>6, <1>7, <1>8, <1>9, <1>10 DEF Inv

\* The walk only ever sets or clears the deleted mark of the event it is on.
LEMMA MarkKeeps ==
  ASSUME Inv, cur \in Event, NEW d \in BOOLEAN,
         event' = [event EXCEPT ![cur].deleted = d],
         UNCHANGED <<allocated, epoll, activelist, batch, i, ev_prev, clock, gone>>,
         cur' = event[cur].next_active_ev,
         d \/ cur \notin fired,
         fired' \subseteq fired \cup (IF d THEN {cur} ELSE {}),
         pc' = "process"
  PROVE  Inv'
<1>1. event[cur] \in EventRec
  BY DEF Inv, Types
<1>2. /\ event'[cur] = [event[cur] EXCEPT !.deleted = d]
      /\ \A x \in Event \ {cur} : event'[x] = event[x]
      /\ event' = [event EXCEPT ![cur] = event'[cur]]
  BY DEF Inv, Types
<1>3. /\ event'[cur] \in EventRec /\ event'[cur].fd = event[cur].fd
      /\ event'[cur].flag = event[cur].flag
      /\ event'[cur].next_active_ev = event[cur].next_active_ev
      /\ event'[cur].deleted = d
  BY <1>1, <1>2 DEF EventRec
<1>4. event' \in [Event -> EventRec]
  BY <1>2, <1>3 DEF Inv, Types
<1>5. \A x \in Event : /\ event'[x].fd = event[x].fd /\ event'[x].flag = event[x].flag
                       /\ event'[x].next_active_ev = event[x].next_active_ev
  BY <1>2, <1>3
<1>6. cur \in allocated
  BY HeapAssumption DEF Inv, Reached
<1>7. Types'
  BY <1>1, <1>4 DEF Inv, Types, EventRec, NullOrEvent
<1>8. Reached'
  BY <1>5, <1>6 DEF Inv, Types, Reached
<1>9. InterestMatchesFlag'
  <2> SUFFICES ASSUME NEW g \in Fd, epoll'[g] # NULL
               PROVE  /\ epoll'[g].ptr \in allocated'
                      /\ event'[epoll'[g].ptr].fd = g
                      /\ epoll'[g].mask = EpollMask(event'[epoll'[g].ptr].flag)
    BY DEF InterestMatchesFlag, EpollMask
  <2>1. epoll'[g] = epoll[g] /\ epoll[g].ptr \in Event
    BY DEF Inv, Types
  <2>2. QED
    BY <1>5, <2>1 DEF Inv, InterestMatchesFlag
<1>10. FiredDeleted'
  <2> SUFFICES ASSUME NEW x \in fired' PROVE event'[x].deleted
    BY DEF FiredDeleted
  <2>1. CASE x = cur
    BY <1>3, <2>1
  <2>2. CASE x # cur
    <3>1. x \in fired /\ x \in Event
      BY <2>2 DEF Inv, Types, Reached
    <3>2. QED
      BY <1>2, <2>2, <3>1 DEF Inv, FiredDeleted
  <2>3. QED
    BY <2>1, <2>2
<1>11. RemovedNotRegistered' /\ Walking'
  BY DEF Inv, RemovedNotRegistered, Walking
<1>12. QED
  BY <1>7, <1>8, <1>9, <1>10, <1>11 DEF Inv

\* Between its turns the walk changes nothing but its own position.
LEMMA ProcessKeeps == ASSUME Inv, process_event PROVE Inv'
<1>1. pc = "process" /\ cur \in Event
      /\ UNCHANGED <<allocated, epoll, activelist, batch, i, ev_prev, clock, fired, gone>>
  BY DEF process_event, Inv, Types, NullOrEvent
<1>2. CASE event' = [event EXCEPT ![cur].deleted = TRUE]
           /\ cur' = event[cur].next_active_ev /\ UNCHANGED <<pc, ret>>
  BY <1>1, <1>2, MarkKeeps
<1>3. CASE cur' = event[cur].next_active_ev /\ UNCHANGED <<event, pc, ret>>
  <2>1. cur \in allocated
    BY <1>1, HeapAssumption DEF Inv, Reached
  <2>2. cur' \in allocated \cup {NULL} /\ cur' \in NullOrEvent
    BY <1>3, <2>1 DEF Inv, Types, Reached, NullOrEvent
  <2>3. Types' /\ Reached'
    BY <1>1, <1>3, <2>2 DEF Inv, Types, Reached
  <2>4. InterestMatchesFlag' /\ RemovedNotRegistered' /\ FiredDeleted'
    BY <1>1, <1>3 DEF Inv, InterestMatchesFlag, RemovedNotRegistered, FiredDeleted, EpollMask
  <2>5. Walking'
    BY <1>1, <1>3 DEF Walking
  <2>6. QED
    BY <2>3, <2>4, <2>5 DEF Inv
<1>4. CASE ~event[cur].deleted /\ Call("process") /\ UNCHANGED <<event, cur, pos>>
  <2>1. cur \notin fired
    BY <1>4 DEF Inv, FiredDeleted
  <2>2. Walking'
    BY <1>1, <1>4, <2>1 DEF Walking
  <2>3. i' \in Nat \ {0} /\ clock' \in 1..MaxClock
    BY <1>1 DEF Inv, Types
  <2>4. QED
    BY <1>1, <1>4, <2>2, <2>3, QuietKeeps
<1>5. QED
  BY <1>2, <1>3, <1>4 DEF process_event

\* deleted is overwritten with the one-shot bit; an event that fired is not
\* the one whose callback returns.
LEMMA ReturnKeeps == ASSUME Inv, lagged_return PROVE Inv'
<1> DEFINE d == "ONESHOT" \in event[cur].flag
<1>1. /\ UNCHANGED <<allocated, epoll, activelist, batch, i, ev_prev, clock, gone>>
      /\ event' = [event EXCEPT ![cur].deleted = d]
      /\ cur' = event[cur].next_active_ev /\ pc' = "process" /\ cur \notin fired
      /\ fired' = IF d THEN fired \cup {cur} ELSE fired
  BY DEF lagged_return, DeletedAfter, Inv, Walking
<1>2. cur \in Event
  BY DEF lagged_return, Inv, Walking
<1>3. d \in BOOLEAN
  OBVIOUS
<1>4. fired' \subseteq fired \cup (IF d THEN {cur} ELSE {})
  BY <1>1
<1>5. QED
  BY <1>1, <1>2, <1>3, <1>4, MarkKeeps

\* The walk starts at the head of the active list.
LEMMA StartKeeps == ASSUME Inv, walk_start PROVE Inv'
<1>1. /\ UNCHANGED <<event, allocated, epoll, batch, i, ev_prev, clock, fired, gone>>
      /\ cur' = activelist.head /\ pc' = "process"
  BY DEF walk_start, WalkFrom, struct, history
<1>2. activelist' = [activelist EXCEPT !.tail = IF pc = "second" THEN ev_prev ELSE activelist.head]
  BY DEF walk_start
<1>3. activelist' \in [head : NullOrEvent, tail : NullOrEvent] /\ activelist'.head = activelist.head
  BY <1>2 DEF Inv, Types
<1>4. Types' /\ Reached'
  BY <1>1, <1>3 DEF Inv, Types, Reached
<1>5. InterestMatchesFlag' /\ RemovedNotRegistered' /\ FiredDeleted'
  BY <1>1 DEF Inv, InterestMatchesFlag, RemovedNotRegistered, FiredDeleted, EpollMask
<1>6. Walking'
  BY <1>1 DEF Walking
<1>7. QED
  BY <1>4, <1>5, <1>6 DEF Inv

\* The end of the walk empties the active list.
LEMMA EndKeeps == ASSUME Inv, walk_end PROVE Inv'
<1>1. /\ UNCHANGED <<event, allocated, epoll, batch, i, ev_prev, cur, clock, fired, gone>>
      /\ activelist' = [head |-> NULL, tail |-> NULL] /\ pc' = "epoll_wait"
  BY DEF walk_end, struct, history
<1>2. Types' /\ Reached'
  BY <1>1 DEF Inv, Types, Reached, NullOrEvent
<1>3. InterestMatchesFlag' /\ RemovedNotRegistered' /\ FiredDeleted'
  BY <1>1 DEF Inv, InterestMatchesFlag, RemovedNotRegistered, FiredDeleted, EpollMask
<1>4. Walking'
  BY <1>1 DEF Walking
<1>5. QED
  BY <1>2, <1>3, <1>4 DEF Inv

\* The steps that only move the loop on, the clock, or nothing.
LEMMA OtherKeeps ==
  ASSUME Inv,
         \/ \E e \in Event : lt_io_remove_wild(e)
         \/ \E to \in LoopTimeouts : EnterLoop(to)
         \/ \E value \in {0, -1} : epoll_wait_leave(value)
         \/ direct_return
         \/ Tick
         \/ UNCHANGED vars
  PROVE  Inv'
<1>1. UNCHANGED <<event, allocated, epoll, activelist, batch, ev_prev, cur, fired, gone>>
  BY DEF lt_io_remove_wild, EnterLoop, epoll_wait_leave, direct_return, Tick, vars, struct, loop, history
<1>2. pc' # "callback" \/ UNCHANGED <<pc, ret>>
  BY DEF lt_io_remove_wild, EnterLoop, epoll_wait_leave, direct_return, Tick, vars, loop
<1>3. i' = i \/ i' = i + 1
  BY DEF lt_io_remove_wild, EnterLoop, epoll_wait_leave, direct_return, Tick, vars, loop
<1>4. clock' = clock \/ (clock < MaxClock /\ clock' = clock + 1)
  BY DEF lt_io_remove_wild, EnterLoop, epoll_wait_leave, direct_return, Tick, vars
<1>5. i' \in Nat \ {0} /\ clock' \in 1..MaxClock
  BY <1>3, <1>4, EventAssumption DEF Inv, Types
<1>6. Walking'
  BY <1>1, <1>2 DEF Inv, Walking
<1>7. QED
  BY <1>1, <1>5, <1>6, QuietKeeps

\* Every step of the reactor keeps the invariant.
LEMMA NextKeeps == Inv /\ [Next]_vars => Inv'
<1> SUFFICES ASSUME Inv, [Next]_vars PROVE Inv'
  OBVIOUS
<1>1. ASSUME Api PROVE Inv'
  BY <1>1, AddKeeps, ModKeeps, RemoveKeeps, PostKeeps, OtherKeeps DEF Api
<1>2. ASSUME \/ \E to \in LoopTimeouts : EnterLoop(to)
             \/ \E value \in {0, -1} : epoll_wait_leave(value)
             \/ direct_return \/ Tick \/ Ended \/ UNCHANGED vars
      PROVE  Inv'
  BY <1>2, OtherKeeps DEF Ended
<1>3. ASSUME epoll_wait_ready \/ first_pass \/ second_pass \/ walk_start
             \/ process_event \/ walk_end \/ lagged_return
      PROVE  Inv'
  BY <1>3, ReadyKeeps, FirstKeeps, SecondKeeps, StartKeeps, ProcessKeeps, EndKeeps, ReturnKeeps
<1>4. QED
  BY <1>1, <1>2, <1>3 DEF Next

\* Inv is an invariant of the reactor.
LEMMA Invariance == Spec => []Inv
  BY InitHolds, NextKeeps, PTL DEF Spec

-----------------------------------------------------------------------------
\* Whatever sequence of registration calls a program and its callbacks make,
\* on any number of events and descriptors, a watched descriptor leads to the
\* struct that owns it and is watched for what its flags ask for.
THEOREM InterestTheorem == Spec => []InterestMatchesFlag
<1>1. Inv => InterestMatchesFlag
  BY DEF Inv
<1>2. QED
  BY <1>1, Invariance, PTL

\* After lt_io_remove the kernel's table never leads to the event again until
\* lt_io_mod is called on it.
THEOREM RemovedTheorem == Spec => []RemovedNotRegistered
<1>1. Inv => RemovedNotRegistered
  BY DEF Inv
<1>2. QED
  BY <1>1, Invariance, PTL

\* A lagged event whose callback returned with LV_ONESHOT set is never called
\* by the walk again.
THEOREM OneShotTheorem == Spec => []OneShotStops
<1>1. Inv => OneShotStops
  BY DEF Inv, Walking, OneShotStops
<1>2. QED
  BY <1>1, Invariance, PTL

-----------------------------------------------------------------------------
(* The reactor drives the timer heap only as TimerHeap says.               *)

\* Every event's endtime is one of Endtimes.
EndtimesKnown ==
  /\ intact \in BOOLEAN
  /\ \A e \in Event : event[e].endtime \in Endtimes

\* The endtime a registration call stores is one of Endtimes.
LEMMA EndtimeKnown ==
  ASSUME Inv, EndtimesKnown, NEW e \in Event, NEW to \in Timeouts
  PROVE  EndtimeAfter(e, to) \in Endtimes
<1>1. CASE to >= 0
  <2>1. to \in Timeouts \cap Nat /\ clock \in 1..MaxClock
    BY <1>1, EventAssumption DEF Inv, Types
  <2>2. QED
    BY <1>1, <2>1 DEF EndtimeAfter, Endtimes, SetEndtimes
<1>2. CASE ~(to >= 0)
  BY <1>2 DEF EndtimeAfter, EndtimesKnown
<1>3. QED
  BY <1>1, <1>2

\* A struct's new endtime seen through the heap's view of the structs.
LEMMA EndtimesAfter ==
  ASSUME event \in [Event -> EventRec], NEW e \in Event, NEW t,
         event' \in [Event -> EventRec], event'[e].endtime = t,
         \A x \in Event \ {e} : event'[x].endtime = event[x].endtime
  PROVE  endtimes' = [endtimes EXCEPT ![e] = t]
  BY DEF endtimes

\* A step that changes no endtime is invisible to the heap.
LEMMA EndtimesSame ==
  ASSUME \A x \in Event : event'[x].endtime = event[x].endtime
  PROVE  endtimes' = endtimes
  BY DEF endtimes

\* min_heap_elem_init_ is the same seen through the instance.
LEMMA SameInit ==
  ASSUME NEW h, NEW e
  PROVE  Timers!min_heap_elem_init_(h, e) = min_heap_elem_init_(h, e)
  BY DEF Timers!min_heap_elem_init_, min_heap_elem_init_

\* The empty heap is the same seen through the instance.
LEMMA SameConstructor ==
  ASSUME NEW idx
  PROVE  Timers!min_heap_constructor_(idx) = min_heap_constructor_(idx)
  BY DEF Timers!min_heap_constructor_, min_heap_constructor_

\* min_heap_push_ is the same seen through the instance.
LEMMA SamePush ==
  ASSUME NEW h, NEW e, NEW t, NEW ok
  PROVE  Timers!min_heap_push_(h, e, t, ok) = min_heap_push_(h, e, t, ok)
  BY DEF Timers!min_heap_push_, min_heap_push_, Timers!min_heap_reserve_, min_heap_reserve_,
         Timers!min_heap_shift_up_, min_heap_shift_up_, Timers!Rise, Rise, Timers!RiseNext, RiseNext,
         Timers!min_heap_elem_greater, min_heap_elem_greater, Timers!lt_time_a_sub_b, lt_time_a_sub_b,
         Timers!Parent, Parent, Timers!Travels, Travels, Timers!Max, Max, Timers!Min, Min

\* min_heap_erase_ is the same seen through the instance.
LEMMA SameErase ==
  ASSUME NEW h, NEW e, NEW t
  PROVE  Timers!min_heap_erase_(h, e, t) = min_heap_erase_(h, e, t)
  BY DEF Timers!min_heap_erase_, min_heap_erase_, Timers!min_heap_elem_init_, min_heap_elem_init_,
         Timers!min_heap_shift_up_unconditional_, min_heap_shift_up_unconditional_,
         Timers!min_heap_shift_down_, min_heap_shift_down_, Timers!MinChild, MinChild,
         Timers!Sink, Sink, Timers!SinkNext, SinkNext, Timers!Rise, Rise, Timers!RiseNext, RiseNext,
         Timers!min_heap_elem_greater, min_heap_elem_greater, Timers!lt_time_a_sub_b, lt_time_a_sub_b,
         Timers!Parent, Parent, Timers!Travels, Travels, Timers!Max, Max, Timers!Min, Min

\* lt_io_add and lt_io_mod push a timer, or only reset the index.
LEMMA ArmRefines ==
  ASSUME Inv, EndtimesKnown, NEW e \in Event, NEW to \in Timeouts, NEW ok \in BOOLEAN,
         TimerRoom(to),
         heap' = TimerHeapAfter(e, to, ok),
         endtimes' = [endtimes EXCEPT ![e] = EndtimeAfter(e, to)],
         intact' = (intact /\ e \notin Timers!Held(heap))
  PROVE  Timers!Next
<1>1. CASE to >= 0
  <2>1. Timers!lt_timeout_add(e, EndtimeAfter(e, to), ok)
    BY <1>1, SameInit, SamePush DEF Timers!lt_timeout_add, TimerHeapAfter, TimerRoom
  <2>2. EndtimeAfter(e, to) \in Endtimes
    BY EndtimeKnown
  <2>3. QED
    BY <2>1, <2>2 DEF Timers!Next
<1>2. CASE ~(to >= 0)
  <2>1. endtimes' = endtimes
    BY <1>2 DEF EndtimeAfter, endtimes
  <2>2. Timers!lt_io_mod_no_timeout(e)
    BY <1>2, <2>1, SameInit DEF Timers!lt_io_mod_no_timeout, TimerHeapAfter
  <2>3. QED
    BY <2>2 DEF Timers!Next
<1>3. QED
  BY <1>1, <1>2

\* A step of a registration call maps to a step of the heap, or to a stutter.
LEMMA ApiRefines ==
  ASSUME Inv, EndtimesKnown, Inv', Api
  PROVE  EndtimesKnown' /\ (Timers!Next \/ UNCHANGED <<heap, endtimes, intact>>)
<1>1. ASSUME NEW e \in Event, NEW f \in Fd, NEW flag \in FlagSets, NEW to \in Timeouts,
             NEW ok \in BOOLEAN, lt_io_add(e, f, flag, to, ok)
      PROVE  EndtimesKnown' /\ Timers!Next
  <2>1. event' = [event EXCEPT ![e] = [lt_ev_init_(e, flag, f) EXCEPT !.endtime = EndtimeAfter(e, to)]]
    BY <1>1 DEF lt_io_add
  <2>2. event[e] \in EventRec /\ event \in [Event -> EventRec] /\ event' \in [Event -> EventRec]
    BY DEF Inv, Types
  <2>3. event'[e].endtime = EndtimeAfter(e, to) /\ \A x \in Event \ {e} : event'[x] = event[x]
    BY <2>1, <2>2 DEF lt_ev_init_, EventRec
  <2>4. endtimes' = [endtimes EXCEPT ![e] = EndtimeAfter(e, to)]
    BY <2>2, <2>3, EndtimesAfter
  <2>5. Timers!Next
    BY <1>1, <2>4, ArmRefines DEF lt_io_add
  <2>6. intact' \in BOOLEAN
    BY <1>1 DEF lt_io_add
  <2>7. QED
    BY <2>3, <2>5, <2>6, EndtimeKnown DEF EndtimesKnown, Endtimes, SetEndtimes
<1>2. ASSUME NEW e \in Event, NEW flag \in FlagSets, NEW to \in Timeouts,
             NEW ok \in BOOLEAN, lt_io_mod(e, flag, to, ok)
      PROVE  EndtimesKnown' /\ Timers!Next
  <2>1. event' = [event EXCEPT ![e].flag = flag, ![e].endtime = EndtimeAfter(e, to)]
    BY <1>2 DEF lt_io_mod
  <2>2. event[e] \in EventRec /\ event \in [Event -> EventRec] /\ event' \in [Event -> EventRec]
    BY DEF Inv, Types
  <2>3. event'[e].endtime = EndtimeAfter(e, to) /\ \A x \in Event \ {e} : event'[x] = event[x]
    BY <2>1, <2>2 DEF EventRec
  <2>4. endtimes' = [endtimes EXCEPT ![e] = EndtimeAfter(e, to)]
    BY <2>2, <2>3, EndtimesAfter
  <2>5. Timers!Next
    BY <1>2, <2>4, ArmRefines DEF lt_io_mod
  <2>6. intact' \in BOOLEAN
    BY <1>2 DEF lt_io_mod
  <2>7. QED
    BY <2>3, <2>5, <2>6, EndtimeKnown DEF EndtimesKnown, Endtimes, SetEndtimes
<1>3. ASSUME NEW e \in Event, lt_io_remove(e)
      PROVE  EndtimesKnown' /\ (Timers!Next \/ UNCHANGED <<heap, endtimes, intact>>)
  <2>1. event' = [event EXCEPT ![e].deleted = TRUE] /\ event[e] \in EventRec
    BY <1>3 DEF lt_io_remove, Inv, Types
  <2>2. \A x \in Event : event'[x].endtime = event[x].endtime
    BY <2>1 DEF Inv, Types, EventRec
  <2>3. endtimes' = endtimes
    BY <2>2, EndtimesSame
  <2>4. ASSUME heap.idx[e] = -1 PROVE UNCHANGED <<heap, endtimes, intact>>
    <3>1. heap' = heap
      BY <1>3, <2>4 DEF lt_io_remove, HeapWithout
    <3>2. intact' = intact
      BY <1>3, <2>4 DEF lt_io_remove, EndtimesKnown
    <3>3. QED
      BY <2>3, <3>1, <3>2
  <2>5. ASSUME heap.idx[e] # -1 PROVE Timers!Next
    <3>1. Timers!lt_io_remove(e)
      BY <1>3, <2>3, <2>5, SameErase DEF lt_io_remove, HeapWithout, Timers!lt_io_remove
    <3>2. QED
      BY <3>1 DEF Timers!Next
  <2>6. intact' \in BOOLEAN
    BY <1>3 DEF lt_io_remove
  <2>7. QED
    BY <2>2, <2>4, <2>5, <2>6 DEF EndtimesKnown, Endtimes, SetEndtimes
<1>4. ASSUME NEW e \in Event, NEW f \in Fd, lt_new_post_callback(e, f)
      PROVE  EndtimesKnown' /\ UNCHANGED <<heap, endtimes, intact>>
  <2>1. event' = [event EXCEPT ![e] = lt_ev_init_(e, {"ONESHOT"}, f)] /\ event[e] \in EventRec
        /\ UNCHANGED <<heap, intact>>
    BY <1>4 DEF lt_new_post_callback, Inv, Types
  <2>2. \A x \in Event : event'[x].endtime = event[x].endtime
    BY <2>1 DEF Inv, Types, EventRec, lt_ev_init_
  <2>3. QED
    BY <2>1, <2>2, EndtimesSame DEF EndtimesKnown, Endtimes, SetEndtimes
<1>5. ASSUME NEW e \in Event, lt_io_remove_wild(e)
      PROVE  EndtimesKnown' /\ UNCHANGED <<heap, endtimes, intact>>
  BY <1>5, EndtimesSame DEF lt_io_remove_wild, struct, history, EndtimesKnown, Endtimes, SetEndtimes
<1>6. QED
  BY <1>1, <1>2, <1>3, <1>4, <1>5 DEF Api

\* The loop itself never touches the heap, nor any endtime.
LEMMA LoopRefines ==
  ASSUME Inv, EndtimesKnown, [Next]_vars, ~Api
  PROVE  EndtimesKnown' /\ UNCHANGED <<heap, endtimes, intact>>
<1>1. UNCHANGED <<heap, intact>>
  BY DEF Next, EnterLoop, epoll_wait_ready, epoll_wait_leave, first_pass, second_pass, walk_start,
         process_event, walk_end, direct_return, lagged_return, Tick, Ended, vars, struct, history
<1>2. \/ event' = event
      \/ event' = [event EXCEPT ![ev_prev].next_active_ev = batch[i].ptr]
      \/ \E d \in BOOLEAN : event' = [event EXCEPT ![cur].deleted = d]
  <2>1. CASE second_pass
    BY <2>1 DEF second_pass, Link
  <2>2. CASE process_event
    BY <2>2 DEF process_event
  <2>3. CASE lagged_return
    <3> DEFINE d == "ONESHOT" \in event[cur].flag
    <3>1. event' = [event EXCEPT ![cur].deleted = d]
      BY <2>3 DEF lagged_return, DeletedAfter
    <3>2. d \in BOOLEAN
      OBVIOUS
    <3> HIDE DEF d
    <3>3. QED
      BY <3>1, <3>2
  <2>4. CASE \/ \E to \in LoopTimeouts : EnterLoop(to)
             \/ \E value \in {0, -1} : epoll_wait_leave(value)
             \/ epoll_wait_ready \/ first_pass \/ walk_start \/ walk_end \/ direct_return
             \/ Tick \/ Ended \/ UNCHANGED vars
    BY <2>4 DEF EnterLoop, epoll_wait_ready, epoll_wait_leave, first_pass, walk_start, walk_end,
                direct_return, Tick, Ended, vars, struct
  <2>5. QED
    BY <2>1, <2>2, <2>3, <2>4 DEF Next
<1>3. \A x \in Event : event'[x].endtime = event[x].endtime
  <2>1. \A x \in Event : event[x] \in EventRec
    BY DEF Inv, Types
  <2>2. CASE event' = [event EXCEPT ![ev_prev].next_active_ev = batch[i].ptr]
    BY <2>1, <2>2 DEF Inv, Types, EventRec
  <2>3. ASSUME NEW d \in BOOLEAN, event' = [event EXCEPT ![cur].deleted = d]
        PROVE  \A x \in Event : event'[x].endtime = event[x].endtime
    BY <2>1, <2>3 DEF Inv, Types, EventRec
  <2>4. QED
    BY <1>2, <2>2, <2>3
<1>4. QED
  BY <1>1, <1>3, EndtimesSame DEF EndtimesKnown, Endtimes, SetEndtimes

\* The operations the reactor performs on its timer heap, in whatever order
\* programs and callbacks make their calls, are those of TimerHeap: what
\* holds of every behaviour of TimerHeap holds of base->timeheap.
THEOREM TimersTheorem == Spec => TimersImplemented
<1>1. Init => EndtimesKnown /\ Timers!Init
  <2> SUFFICES ASSUME Init PROVE EndtimesKnown /\ Timers!Init
    OBVIOUS
  <2>1. \A e \in Event : event[e].endtime \in Garbage
    BY DEF Init
  <2>2. EndtimesKnown
    BY <2>1 DEF Init, EndtimesKnown, Endtimes, SetEndtimes
  <2>3. endtimes \in [Event -> Endtimes]
    BY <2>2 DEF EndtimesKnown, endtimes
  <2>4. QED
    BY <2>2, <2>3, SameConstructor DEF Init, Timers!Init
<1>2. Inv /\ Inv' /\ EndtimesKnown /\ [Next]_vars
        => EndtimesKnown' /\ [Timers!Next]_(Timers!vars)
  BY ApiRefines, LoopRefines DEF Timers!vars
<1>3. QED
  BY <1>1, <1>2, Invariance, PTL DEF Spec, TimersImplemented, Timers!Spec
=============================================================================
