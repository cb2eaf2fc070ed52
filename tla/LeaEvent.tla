------------------------------ MODULE LeaEvent ------------------------------
(***************************************************************************)
(* The reactor of event_lea.c: the registration calls a program makes on a *)
(* base, before the loop or from a callback, and the dispatch loop         *)
(* lt_base_loop with its two passes over the events epoll reports and the  *)
(* walk over the list of lagged (LV_LAG) active events.                    *)
(*                                                                         *)
(* Callbacks are the user's: between its call and its return a callback    *)
(* may make any registration call.  The kernel reports any registered      *)
(* descriptors in any order.  No call of the repository returns an event   *)
(* to the free list, so lt_new_event always takes a new struct.            *)
(***************************************************************************)
EXTENDS LeaHeap, Sequences

CONSTANTS
  Fd,            \* file descriptors
  FlagSets,      \* the flag sets callers pass
  Timeouts,      \* the timeouts callers pass; NO_TIMEOUT is -1
  Garbage,       \* endtimes a fresh, uninitialised event may carry
  LoopTimeouts,  \* the timeouts programs pass to lt_base_loop
  INIT_EPEV,     \* events one epoll_wait may report
  WRAP,          \* modulus of the machine's unsigned long long
  MaxTimers,     \* bound on the slots of the timer heap in use
  MaxClock,      \* bound on the clock
  MaxCalls       \* bound on the registration calls of a behaviour

FlagBits == {"FDRD", "FDWR", "CONN", "LAG", "ONESHOT"}

ASSUME EventAssumption ==
  /\ IsFiniteSet(Fd) /\ FlagSets \subseteq SUBSET FlagBits
  /\ Timeouts \subseteq Int /\ Garbage \subseteq Time
  /\ LoopTimeouts \subseteq Int /\ INIT_EPEV \in Nat /\ WRAP \in Nat \ {0}
  /\ MaxTimers \in Nat /\ MaxClock \in Nat \ {0} /\ MaxCalls \in Nat

\* The loop's timeout is an int: as an unsigned number of the wider type a
\* negative one is still ahead of every reading of the clock.
ASSUME WidthAssumption == LoopTimeouts \subseteq (MaxClock - WRAP)..(WRAP - 1) /\ MaxClock <= WRAP

VARIABLES
  event,        \* the event structs: flag, fd, deleted, endtime, next_active_ev
  allocated,    \* the structs lt_new_event has handed out
  heap,         \* base->timeheap and the events' min_heap_idx
  epoll,        \* the kernel's interest table: per fd, NULL or [ptr, mask]
  activelist,   \* base->activelist: head and tail
  pc,           \* where lt_base_loop is
  ret,          \* the pass that called the running callback
  batch,        \* epevents[0..ready-1]: the event and whether EPOLLIN|EPOLLOUT is set
  i,            \* index into batch
  ev_prev,      \* last event linked by lt_loop_init_actlist
  cur,          \* the event the walk of lt_ev_process_and_moveout stands on
  timeout,      \* argument of lt_base_loop
  start, after, \* the two clock readings of lt_base_loop
  rv,           \* what lt_base_loop returned
  clock, calls, \* the clock, and registration calls so far
  lagged,       \* history: events linked in this round, in report order
  pos,          \* history: position of the walk in lagged, at most one past its end
  called,       \* history: events called directly in this round
  fired,        \* history: events whose one-shot lagged callback has returned
  gone,         \* history: events removed and not modified since
  posted,       \* history: events of lt_new_post_callback
  intact        \* history: the heap was never used in a way it cannot absorb

struct  == <<event, allocated, heap, epoll>>
loop    == <<activelist, pc, ret, batch, i, ev_prev, cur, timeout, start, after, rv>>
history == <<lagged, pos, called, fired, gone, posted, intact>>
vars    == <<struct, loop, clock, calls, history>>

EventRec == [flag : SUBSET FlagBits, fd : Fd \cup {NULL}, deleted : BOOLEAN,
             endtime : Time, next_active_ev : Event \cup {NULL}]
Mask  == {"RDHUP", "IN", "OUT", "ET"}
Entry == [ptr : Event, io : BOOLEAN]

\* base_init leaves an empty base; struct memory is whatever the allocator holds.
Init ==
  /\ event \in [Event -> {[flag |-> {}, fd |-> NULL, deleted |-> FALSE,
                           endtime |-> g, next_active_ev |-> NULL] : g \in Garbage}]
  /\ allocated = {}
  /\ heap = min_heap_constructor_([e \in Event |-> -1])
  /\ epoll = [f \in Fd |-> NULL]
  /\ activelist = [head |-> NULL, tail |-> NULL]
  /\ pc = "setup" /\ ret = "setup" /\ batch = <<>> /\ i = 1
  /\ ev_prev = NULL /\ cur = NULL
  /\ timeout = -1 /\ start = lt_gettime(1) /\ after = lt_gettime(1) /\ rv = 0
  /\ clock = 1 /\ calls = 0
  /\ lagged = <<>> /\ pos = 1 /\ called = {} /\ fired = {} /\ gone = {} /\ posted = {}
  /\ intact = TRUE

-----------------------------------------------------------------------------
(* Registration calls.                                                     *)

endtimes == [e \in Event |-> event[e].endtime]

\* The endtimes lt_timeout_add computes with this model's clock and callers.
SetEndtimes ==
  {lt_time_addition(lt_gettime(c), to) : c \in 1..MaxClock, to \in Timeouts \cap Nat}

\* A struct no timer was set for keeps what the allocator left in it.
Endtimes == Garbage \cup SetEndtimes

\* The timer heap alone, with the operations the reactor performs on it.
Timers == INSTANCE TimerHeap WITH endtime <- endtimes, Times <- Endtimes

EpollMask(flag) ==
  {"RDHUP"} \cup (IF "FDRD" \in flag THEN {"IN"}  ELSE {})
            \cup (IF "FDWR" \in flag THEN {"OUT"} ELSE {})
            \cup (IF "CONN" \in flag THEN {"ET"}  ELSE {})

\* A program may call the API while it sets up and inside a callback.
Callable ==
  /\ pc \in {"setup", "callback"} /\ calls < MaxCalls
  /\ calls' = calls + 1

lt_ev_init_(e, flag, f) ==
  [event[e] EXCEPT !.flag = flag, !.fd = f, !.deleted = FALSE, !.next_active_ev = NULL]

\* lt_timeout_add pushes under the endtime the struct holds; NO_TIMEOUT only
\* sets the index.
TimerHeapAfter(e, to, reallocated) ==
  IF to >= 0
  THEN min_heap_push_(min_heap_elem_init_(heap, e), e, endtimes, reallocated)
  ELSE min_heap_elem_init_(heap, e)

\* The bound on the heap, where a timer is set.
TimerRoom(to) == to >= 0 => heap.n < MaxTimers

EndtimeAfter(e, to) ==
  IF to >= 0 THEN lt_time_addition(lt_gettime(clock), to) ELSE event[e].endtime

\* EPOLL_CTL_ADD fails with EEXIST on a registered fd, EPOLL_CTL_MOD with
\* ENOENT on any other; both results are ignored by the callers.
lt_add_to_epfd(e, f, flag) ==
  IF epoll[f] = NULL THEN [epoll EXCEPT ![f] = [ptr |-> e, mask |-> EpollMask(flag)]] ELSE epoll

\* Mutant: the mask is made before the struct takes its new flags.
lt_mod_to_epfd_old_flag(e, f, flag) ==
  IF epoll[f] = NULL THEN epoll
  ELSE [epoll EXCEPT ![f] = [ptr |-> e, mask |-> EpollMask(event[e].flag)]]

lt_mod_to_epfd(e, f, flag) ==
  IF epoll[f] = NULL THEN epoll ELSE [epoll EXCEPT ![f] = [ptr |-> e, mask |-> EpollMask(flag)]]

lt_io_add(e, f, flag, to, reallocated) ==
  /\ Callable
  /\ e \notin allocated /\ TimerRoom(to)
  /\ allocated' = allocated \cup {e}
  /\ event' = [event EXCEPT ![e] = [lt_ev_init_(e, flag, f) EXCEPT !.endtime = EndtimeAfter(e, to)]]
  /\ heap' = TimerHeapAfter(e, to, reallocated)
  /\ epoll' = lt_add_to_epfd(e, f, flag)
  /\ intact' = (intact /\ e \notin Timers!Held(heap))
  /\ UNCHANGED <<loop, clock, lagged, pos, called, fired, gone, posted>>

\* Does nothing for an ev that is NULL; here e is an event of the program's.
lt_io_mod(e, flag, to, reallocated) ==
  /\ Callable
  /\ e \in allocated \ posted /\ TimerRoom(to)
  /\ event' = [event EXCEPT ![e].flag = flag, ![e].endtime = EndtimeAfter(e, to)]
  /\ heap' = TimerHeapAfter(e, to, reallocated)
  /\ epoll' = lt_mod_to_epfd(e, event[e].fd, flag)
  /\ gone' = gone \ {e}
  /\ intact' = (intact /\ e \notin Timers!Held(heap))
  /\ UNCHANGED <<allocated, loop, clock, lagged, pos, called, fired, posted>>

\* Mutant: the descriptor stays in the table.
lt_remove_from_epfd_nothing(f) == epoll

lt_remove_from_epfd(f) == [epoll EXCEPT ![f] = NULL]

\* Mutant: the event forgets its slot and stays in it.
HeapWithoutIndexOnly(e) == min_heap_elem_init_(heap, e)

\* The heap after lt_io_remove.
HeapWithout(e) == IF heap.idx[e] = -1 THEN heap ELSE min_heap_erase_(heap, e, endtimes)

\* An index that survives in an empty heap makes min_heap_erase_ read slot
\* UINT_MAX: the process dies there.
lt_io_remove(e) ==
  /\ Callable
  /\ e \in allocated \ posted
  /\ heap.idx[e] = -1 \/ heap.n > 0
  /\ heap' = HeapWithout(e)
  /\ epoll' = lt_remove_from_epfd(event[e].fd)
  /\ event' = [event EXCEPT ![e].deleted = TRUE]
  /\ gone' = gone \cup {e}
  /\ intact' = (intact /\ ~(heap.idx[e] # -1 /\ Timers!LastUnderOther(e)))
  /\ UNCHANGED <<allocated, loop, clock, lagged, pos, called, fired, posted>>

lt_io_remove_wild(e) ==
  /\ Callable
  /\ e \in allocated \ posted
  /\ heap.idx[e] # -1 /\ heap.n = 0
  /\ pc' = "crashed"
  /\ UNCHANGED <<struct, activelist, ret, batch, i, ev_prev, cur, timeout, start, after, rv, clock, history>>

\* The event is initialised and linked to nothing.
lt_new_post_callback(e, f) ==
  /\ Callable
  /\ e \notin allocated
  /\ allocated' = allocated \cup {e}
  /\ event' = [event EXCEPT ![e] = lt_ev_init_(e, {"ONESHOT"}, f)]
  /\ posted' = posted \cup {e}
  /\ UNCHANGED <<heap, epoll, loop, clock, lagged, pos, called, fired, gone, intact>>

Api ==
  \/ \E e \in Event, f \in Fd :
       \/ \E flag \in FlagSets, to \in Timeouts, ok \in BOOLEAN : lt_io_add(e, f, flag, to, ok)
       \/ lt_new_post_callback(e, f)
  \/ \E e \in Event :
       \/ \E flag \in FlagSets, to \in Timeouts, ok \in BOOLEAN : lt_io_mod(e, flag, to, ok)
       \/ lt_io_remove(e)
       \/ lt_io_remove_wild(e)

-----------------------------------------------------------------------------
(* lt_base_loop.                                                           *)

EnterLoop(to) ==
  /\ pc = "setup"
  /\ timeout' = to
  /\ pc' = "epoll_wait"
  /\ start' = lt_gettime(clock)
  /\ UNCHANGED <<struct, activelist, ret, batch, i, ev_prev, cur, after, rv, clock, calls, history>>

\* What epoll_wait may report: descriptors of the table, each at most once,
\* with readiness only where the mask asks for it.  The empty report is what
\* an interrupted call (EINTR) leaves at any time, and what comes when the
\* loop's timeout, in milliseconds for epoll_wait, has passed.
Reportable ==
  {en \in Entry : \E f \in Fd : /\ epoll[f] # NULL
                                /\ en.ptr = epoll[f].ptr
                                /\ en.io => epoll[f].mask \cap {"IN", "OUT"} # {}}

Reports ==
  UNION {{b \in [1..k -> Reportable] : \A x, y \in 1..k : b[x].ptr = b[y].ptr => x = y}
           : k \in 0..Min({INIT_EPEV, Cardinality(Fd)})}

\* The reading taken after epoll_wait decides first whether the loop expired:
\* the int that epoll_wait took as milliseconds is compared with nanoseconds,
\* so that a timeout that is not negative runs out a million times too early.
Expired == time_a_gt_b(lt_time_a_sub_b(lt_gettime(clock), start), timeout, WRAP)

epoll_wait_ready ==
  /\ pc = "epoll_wait" /\ ~Expired
  /\ batch' \in Reports
  /\ pc' = "first"
  /\ i' = 1 /\ after' = lt_gettime(clock)
  /\ lagged' = <<>> /\ pos' = 1 /\ called' = {}
  /\ UNCHANGED <<struct, activelist, ret, ev_prev, cur, timeout, start, rv, clock, calls, fired, gone, posted, intact>>

\* "loop expired" returns 0; an error of epoll_wait other than EINTR returns -1.
epoll_wait_leave(value) ==
  /\ pc = "epoll_wait"
  /\ value = 0 => Expired
  /\ pc' = "returned" /\ rv' = value
  /\ UNCHANGED <<struct, activelist, ret, batch, i, ev_prev, cur, timeout, start, after, clock, calls, history>>

\* Calls the callback of e; from is the pass to come back to.
Call(from) ==
  /\ pc' = "callback"
  /\ ret' = from

\* Mutant: the index is moved on twice between the passes.
SecondPassFromLate == i + 2

\* Where the second pass goes on after the first lagged event.
SecondPassFrom == i + 1

\* First pass of lt_loop_init_actlist: direct callbacks up to the first ready
\* lagged event; an entry that is not ready is skipped.
first_pass ==
  LET e == batch[i].ptr IN
  /\ pc = "first" /\ i <= Len(batch)
  /\ UNCHANGED <<struct, batch, cur, timeout, start, after, rv, clock, calls, pos, fired, gone, posted, intact>>
  /\ \/ /\ batch[i].io /\ "LAG" \in event[e].flag
        /\ activelist' = [head |-> e, tail |-> e]
        /\ ev_prev' = e /\ lagged' = <<e>>
        /\ i' = SecondPassFrom /\ pc' = "second"
        /\ UNCHANGED <<ret, called>>
     \/ /\ batch[i].io /\ "LAG" \notin event[e].flag
        /\ Call("first") /\ called' = called \cup {e}
        /\ UNCHANGED <<activelist, ev_prev, i, lagged>>
     \/ /\ ~batch[i].io
        /\ i' = i + 1
        /\ UNCHANGED <<activelist, ret, pc, ev_prev, lagged, called>>

\* Mutant: every lagged event is linked behind the head.
LinkBehindHead(e) == [event EXCEPT ![activelist.head].next_active_ev = e]

Link(e) == [event EXCEPT ![ev_prev].next_active_ev = e]

\* Second pass: further ready lagged events are linked behind ev_prev, every
\* other entry is called directly.
second_pass ==
  LET e == batch[i].ptr IN
  /\ pc = "second" /\ i <= Len(batch)
  /\ UNCHANGED <<allocated, heap, epoll, activelist, batch, cur, timeout, start, after, rv,
                 clock, calls, pos, fired, gone, posted, intact>>
  /\ \/ /\ batch[i].io /\ "LAG" \in event[e].flag
        /\ event' = Link(e)
        /\ ev_prev' = e /\ lagged' = Append(lagged, e)
        /\ i' = i + 1
        /\ UNCHANGED <<ret, pc, called>>
     \/ /\ ~(batch[i].io /\ "LAG" \in event[e].flag)
        /\ Call("second") /\ called' = called \cup {e}
        /\ UNCHANGED <<event, ev_prev, i, lagged>>

\* Mutant: the walk starts at the last event linked.
WalkFromTail == IF pc = "second" THEN ev_prev ELSE activelist.head

\* Where lt_ev_process_and_moveout starts.
WalkFrom == activelist.head

\* End of the passes: the tail is set and the walk starts at the head.
walk_start ==
  /\ pc \in {"first", "second"} /\ i > Len(batch)
  /\ activelist' = [activelist EXCEPT !.tail = IF pc = "second" THEN ev_prev ELSE activelist.head]
  /\ cur' = WalkFrom
  /\ pc' = "process"
  /\ UNCHANGED <<struct, ret, batch, i, ev_prev, timeout, start, after, rv, clock, calls, history>>

Advance == pos' = IF pos <= Len(lagged) THEN pos + 1 ELSE pos

\* lt_ev_process_and_moveout: one event of the walk.
process_event ==
  /\ pc = "process" /\ cur # NULL
  /\ UNCHANGED <<allocated, heap, epoll, activelist, batch, i, ev_prev, timeout, start, after, rv,
                 clock, calls, lagged, called, fired, gone, posted, intact>>
  /\ \/ /\ lt_ev_check_timeout(event[cur].endtime, after)
        /\ event' = [event EXCEPT ![cur].deleted = TRUE]
        /\ cur' = event[cur].next_active_ev /\ Advance
        /\ UNCHANGED <<pc, ret>>
     \/ /\ ~lt_ev_check_timeout(event[cur].endtime, after) /\ event[cur].deleted
        /\ cur' = event[cur].next_active_ev /\ Advance
        /\ UNCHANGED <<event, pc, ret>>
     \/ /\ ~lt_ev_check_timeout(event[cur].endtime, after) /\ ~event[cur].deleted
        /\ Call("process")
        /\ UNCHANGED <<event, cur, pos>>

walk_end ==
  /\ pc = "process" /\ cur = NULL
  /\ activelist' = [head |-> NULL, tail |-> NULL]
  /\ pc' = "epoll_wait"
  /\ UNCHANGED <<struct, ret, batch, i, ev_prev, cur, timeout, start, after, rv, clock, calls, history>>

\* Mutant: a callback's return always leaves the event alive.
DeletedAfterNever(flag) == FALSE

DeletedAfter(flag) == "ONESHOT" \in flag

\* The return of a callback: the passes go on to the next entry; the walk
\* overwrites deleted with the one-shot bit of the flags as they are now.
direct_return ==
  /\ pc = "callback" /\ ret \in {"first", "second"}
  /\ pc' = ret /\ i' = i + 1
  /\ UNCHANGED <<struct, activelist, ret, batch, ev_prev, cur, timeout, start, after, rv, clock, calls, history>>

lagged_return ==
  /\ pc = "callback" /\ ret = "process"
  /\ event' = [event EXCEPT ![cur].deleted = DeletedAfter(event[cur].flag)]
  /\ fired' = IF "ONESHOT" \in event[cur].flag THEN fired \cup {cur} ELSE fired
  /\ cur' = event[cur].next_active_ev /\ Advance
  /\ pc' = "process"
  /\ UNCHANGED <<allocated, heap, epoll, activelist, ret, batch, i, ev_prev, timeout, start, after, rv,
                 clock, calls, lagged, called, gone, posted, intact>>

callback_return == direct_return \/ lagged_return

\* Time passes.
Tick ==
  /\ clock < MaxClock
  /\ clock' = clock + 1
  /\ UNCHANGED <<struct, loop, calls, history>>

\* After the return of lt_base_loop, or a crash, nothing happens any more.
Ended == pc \in {"returned", "crashed"} /\ UNCHANGED vars

Pass == first_pass \/ second_pass \/ walk_start \/ process_event \/ walk_end

Next ==
  \/ Api
  \/ \E to \in LoopTimeouts : EnterLoop(to)
  \/ epoll_wait_ready
  \/ \E value \in {0, -1} : epoll_wait_leave(value)
  \/ first_pass
  \/ second_pass
  \/ walk_start
  \/ process_event
  \/ walk_end
  \/ direct_return
  \/ lagged_return
  \/ Tick
  \/ Ended

Spec == Init /\ [][Next]_vars

\* The thread that runs the loop is scheduled, and callbacks return.
FairSpec == Spec /\ WF_vars(Pass) /\ WF_vars(callback_return)

\* Besides, the program enters the loop and epoll_wait comes back.
FairLoopSpec ==
  /\ FairSpec
  /\ WF_vars(\E to \in LoopTimeouts : EnterLoop(to))
  /\ WF_vars(epoll_wait_ready)

-----------------------------------------------------------------------------
(* Properties.                                                             *)

\* Types of the structs of event_lea.h and of lt_base_loop's locals.
TypeOK ==
  /\ event \in [Event -> EventRec]
  /\ allocated \in SUBSET Event
  /\ IsHeap(heap)
  /\ epoll \in [Fd -> {NULL} \cup [ptr : Event, mask : SUBSET Mask]]
  /\ activelist \in [head : Event \cup {NULL}, tail : Event \cup {NULL}]
  /\ pc \in {"setup", "epoll_wait", "first", "second", "process", "callback", "returned", "crashed"}
  /\ ret \in {"setup", "first", "second", "process"}
  /\ batch \in Seq(Entry)
  /\ i \in Nat \ {0}
  /\ ev_prev \in Event \cup {NULL} /\ cur \in Event \cup {NULL}
  /\ timeout \in Int /\ start \in Time /\ after \in Time /\ rv \in {0, -1}
  /\ clock \in Nat /\ calls \in Nat
  /\ lagged \in Seq(Event) /\ pos \in Nat \ {0}
  /\ called \in SUBSET Event /\ fired \in SUBSET Event
  /\ gone \in SUBSET Event /\ posted \in SUBSET Event
  /\ intact \in BOOLEAN

\* Whatever lt_io_add, lt_io_mod and lt_io_remove are called with, from the
\* main program or from a callback, and although they ignore what epoll_ctl
\* answers: an fd the kernel watches leads to the struct that owns the fd,
\* and is watched for exactly what that struct's flags ask for.
InterestMatchesFlag ==
  \A f \in Fd : epoll[f] # NULL =>
    /\ epoll[f].ptr \in allocated
    /\ event[epoll[f].ptr].fd = f
    /\ epoll[f].mask = EpollMask(event[epoll[f].ptr].flag)

\* A lagged event whose callback returned with LV_ONESHOT set is never called
\* by the walk of lt_ev_process_and_moveout again, whatever later calls do.
OneShotStops == pc = "callback" /\ ret = "process" => cur \notin fired

\* lt_io_remove takes the event out of the kernel's table, and no later
\* lt_io_add or lt_io_mod of another event brings it back.
RemovedNotRegistered == \A f \in Fd : epoll[f] # NULL => epoll[f].ptr \notin gone

InWalk == pc = "process" \/ (pc = "callback" /\ ret = "process")

\* The walk visits the lagged events of this round, each of them and in the
\* order epoll reported them, before it visits anything else: next_active_ev
\* pointers that earlier rounds left behind never make it leave one out.
ActiveWalk ==
  InWalk => /\ pos <= Len(lagged) => cur = lagged[pos]
            /\ cur = NULL => pos = Len(lagged) + 1

\* When lt_loop_init_actlist is done, every ready event of the report has been
\* called directly or waits in the active list: the index that runs on from
\* the first pass to the second skips none, although callbacks change flags.
ReadyDispatched ==
  InWalk => \A k \in 1..Len(batch) :
              batch[k].io => \/ batch[k].ptr \in called
                             \/ \E j \in 1..Len(lagged) : lagged[j] = batch[k].ptr

\* A loop entered with NO_TIMEOUT, or another negative timeout, never expires,
\* however long it runs: it is compared as an unsigned number with the time
\* passed, which no reading of the clock brings that far.
NoTimeoutNeverExpires == pc = "returned" /\ rv = 0 => timeout >= 0

\* The time left for the event the walk stands on, by the reading it uses.
TimeLeft == lt_time_a_sub_b(event[cur].endtime, after)

\* For an endtime lt_timeout_add has set, lt_ev_process_and_moveout calls the
\* events that are late and gives up those still ahead, by the time left and
\* zero either way: comparing seconds and nanoseconds one by one agrees with
\* it, although the carry of lt_time_addition can leave the nanoseconds of a
\* whole second.  (The design note has the two the other way round: what is
\* timed out is cleared.)
TimeoutVerdict ==
  [][process_event /\ event[cur].endtime \in SetEndtimes =>
       /\ pc' = "callback" => TimeLeft <= 0
       /\ event' # event => TimeLeft >= 0]_vars

\* What the registration calls do to base->timeheap, in any order and from
\* any callback, are the operations of TimerHeap, so that its invariants hold
\* of the reactor's heap.
TimersImplemented == Timers!Spec

\* Every event put on the active list is reached by the walk: its callback is
\* called, or it is found timed out or deleted.
LaggedServed == \A k \in 1..Cardinality(Event) : Len(lagged) >= k ~> pos > k

-----------------------------------------------------------------------------
(* What comments and notes of the repository say, and the code does not do. *)

\* "active event list" (event_lea.h): the walk visits active events only.
OnlyActiveWalked ==
  InWalk /\ cur # NULL => \E j \in 1..Len(lagged) : lagged[j] = cur

\* The event whose callback runs.
Running == IF ret = "process" THEN cur ELSE batch[i].ptr

\* A callback handed to lt_new_post_callback ("post") is called in the end.
PostedRuns == \A e \in Event : e \in posted ~> pc = "callback" /\ Running = e

\* "deleted = 1 ... For active event" (lt_io_remove): an event is not called
\* once it has been removed, also when the current report holds it.
RemovedNotCalled ==
  [][pc # "callback" /\ pc' = "callback" => Running' \notin gone]_vars
=============================================================================
