------------------------- MODULE LeaEventTimeProofs -------------------------
(***************************************************************************)
(* Proofs about the reactor's time and timers: when lt_base_loop gives up, *)
(* what lt_ev_check_timeout makes of endtimes, and what is left of the     *)
(* types once base->timeheap is included, for every number of nanoseconds  *)
(* in a second, every width of the machine's integers and every timeout.   *)
(***************************************************************************)
EXTENDS LeaEventProofs, LeaHeapProofs

-----------------------------------------------------------------------------
(* The arithmetic of LtTime.                                               *)

\* Quotient and remainder make up the dividend.
LEMMA QuotientRemainder ==
  ASSUME NEW n \in Int, NEW m \in Nat, m > 0
  PROVE  n \div m \in Int /\ n % m \in 0..(m - 1) /\ n = m * (n \div m) + (n % m)
  OBVIOUS

\* The same for the seconds and nanoseconds of a clock.
LEMMA Division ==
  ASSUME NEW n \in Int
  PROVE  \E q \in Int, r \in 0..(NSEC - 1) :
           n \div NSEC = q /\ n % NSEC = r /\ n = q * NSEC + r
<1>1. NSEC \in Nat /\ NSEC > 0
  BY NSECAssumption
<1>2. n \div NSEC \in Int /\ n % NSEC \in 0..(NSEC - 1) /\ n = NSEC * (n \div NSEC) + (n % NSEC)
  BY <1>1, QuotientRemainder
<1>3. \A q \in Int : NSEC * q = q * NSEC
  BY <1>1
<1>4. QED
  BY <1>2, <1>3

\* A clock reading has its nanoseconds below a second.
LEMMA ClockReading ==
  ASSUME NEW c \in Nat
  PROVE  /\ lt_gettime(c) \in Time /\ lt_gettime(c).nsec \in 0..(NSEC - 1)
         /\ lt_gettime(c).sec * NSEC + lt_gettime(c).nsec = c
<1>1. PICK q \in Int, r \in 0..(NSEC - 1) : c \div NSEC = q /\ c % NSEC = r /\ c = q * NSEC + r
  <2>1. c \in Int
    OBVIOUS
  <2>2. QED
    BY <2>1, Division
<1>2. lt_gettime(c) = [sec |-> q, nsec |-> r]
  BY <1>1 DEF lt_gettime
<1>3. lt_gettime(c).sec = q /\ lt_gettime(c).nsec = r
  BY <1>2
<1>4. r \in Int /\ lt_gettime(c) \in Time
  BY <1>1, <1>2, NSECAssumption DEF Time
<1>5. QED
  BY <1>1, <1>3, <1>4

\* The difference of two readings is the time between them.
LEMMA ReadingDifference ==
  ASSUME NEW c \in Nat, NEW d \in Nat
  PROVE  lt_time_a_sub_b(lt_gettime(d), lt_gettime(c)) = d - c
<1> DEFINE cs == lt_gettime(c).sec * NSEC
           cn == lt_gettime(c).nsec
           ds == lt_gettime(d).sec * NSEC
           dn == lt_gettime(d).nsec
<1>1. cs + cn = c /\ ds + dn = d
  BY ClockReading
<1>2. cs \in Int /\ ds \in Int /\ cn \in Int /\ dn \in Int
  BY ClockReading, NSECAssumption DEF Time
<1>3. lt_time_a_sub_b(lt_gettime(d), lt_gettime(c)) = ds + dn - cs - cn
  BY DEF lt_time_a_sub_b
<1> HIDE DEF cs, cn, ds, dn
<1>4. QED
  BY <1>1, <1>2, <1>3

\* The carry loop of lt_time_addition leaves at most a whole second.
LEMMA CarryBound ==
  ASSUME NEW n \in Nat
  PROVE  Carries(n) \in Nat /\ n - Carries(n) * NSEC \in 0..NSEC
<1>1. NSEC \in Nat \ {0, 1}
  BY NSECAssumption
<1>2. CASE ~(n > NSEC)
  BY <1>1, <1>2 DEF Carries
<1>3. CASE n > NSEC
  <2>1. n - 1 \in Int
    OBVIOUS
  <2>2. PICK q \in Int, r \in 0..(NSEC - 1) :
          (n - 1) \div NSEC = q /\ (n - 1) % NSEC = r /\ n - 1 = q * NSEC + r
    BY <2>1, Division
  <2>3. Carries(n) = q
    BY <1>3, <2>2 DEF Carries
  <2>4. q * NSEC \in Int
    BY <1>1, <2>2
  <2>5. n - q * NSEC \in 0..NSEC
    BY <1>1, <2>2, <2>4
  <2>6. q >= 0
    <3>1. SUFFICES ASSUME q < 0 PROVE FALSE
      BY <2>2
    <3>2. q * NSEC <= 0
      BY <1>1, <2>2, <3>1
    <3>3. QED
      BY <1>1, <1>3, <2>2, <2>4, <3>2
  <2>7. QED
    BY <2>2, <2>3, <2>5, <2>6
<1>4. QED
  BY <1>2, <1>3

\* A time whose nanoseconds are at most a whole second.
Carried(t) == t \in Time /\ t.nsec \in 0..NSEC

\* The endtime of a timer set at c has its nanoseconds carried.
LEMMA AdditionCarried ==
  ASSUME NEW c \in Nat, NEW to \in Nat
  PROVE  Carried(lt_time_addition(lt_gettime(c), to))
<1>1. lt_gettime(c) \in Time /\ lt_gettime(c).nsec \in Nat /\ lt_gettime(c).sec \in Int
  BY ClockReading, NSECAssumption DEF Time
<1> DEFINE n == to + lt_gettime(c).nsec
<1>2. n \in Nat
  BY <1>1
<1>3. Carries(n) \in Nat /\ n - Carries(n) * NSEC \in 0..NSEC
  BY <1>2, CarryBound
<1>4. lt_time_addition(lt_gettime(c), to) =
        [sec |-> lt_gettime(c).sec + Carries(n), nsec |-> n - Carries(n) * NSEC]
  BY DEF lt_time_addition
<1> HIDE DEF n
<1>5. lt_gettime(c).sec + Carries(n) \in Int /\ n - Carries(n) * NSEC \in Int
  BY <1>1, <1>3, NSECAssumption
<1>6. QED
  BY <1>3, <1>4, <1>5 DEF Carried, Time

\* Seconds count for more than nanoseconds: a later second is later, even when
\* the nanoseconds of the earlier one amount to a whole second.
LEMMA SecondsFirst ==
  ASSUME NEW x \in Int, NEW y \in Int, x > y
  PROVE  x * NSEC \in Int /\ y * NSEC \in Int /\ x * NSEC >= y * NSEC + NSEC
<1>1. NSEC \in Nat
  BY NSECAssumption
<1>2. PICK d \in Nat : x = y + 1 + d
  <2>1. x - y - 1 \in Nat /\ x = y + 1 + (x - y - 1)
    OBVIOUS
  <2>2. QED
    BY <2>1
<1>3. x * NSEC = y * NSEC + NSEC + d * NSEC
  BY <1>1, <1>2
<1>4. d * NSEC \in Nat /\ y * NSEC \in Int /\ x * NSEC \in Int
  BY <1>1, <1>2
<1>5. QED
  BY <1>1, <1>3, <1>4

\* lt_ev_check_timeout agrees with the time left.
LEMMA CheckVerdict ==
  ASSUME NEW t, Carried(t), NEW now \in Time, now.nsec \in 0..(NSEC - 1)
  PROVE  /\ lt_ev_check_timeout(t, now) => lt_time_a_sub_b(t, now) >= 0
         /\ ~lt_ev_check_timeout(t, now) => lt_time_a_sub_b(t, now) <= 0
<1>1. /\ t.sec \in Int /\ now.sec \in Int /\ t.nsec \in 0..NSEC /\ now.nsec \in 0..(NSEC - 1)
      /\ NSEC \in Nat \ {0, 1}
  BY NSECAssumption DEF Carried, Time
<1> DEFINE ts == t.sec * NSEC
           ns == now.sec * NSEC
<1>2. ts \in Int /\ ns \in Int
  BY <1>1
<1>3. lt_time_a_sub_b(t, now) = ts + t.nsec - ns - now.nsec
  BY DEF lt_time_a_sub_b
<1>4. (t.sec > now.sec => ts >= ns + NSEC) /\ (t.sec < now.sec => ns >= ts + NSEC)
  BY <1>1, SecondsFirst
<1>5. t.sec = now.sec => ts = ns
  OBVIOUS
<1> HIDE DEF ts, ns
<1>6. QED
  BY <1>1, <1>2, <1>3, <1>4, <1>5 DEF lt_ev_check_timeout

-----------------------------------------------------------------------------
(* The loop's timeout.                                                     *)

\* What lt_base_loop knows of time: the reading it took when it was entered, the
\* reading of this round, and why it returned.
Timing ==
  /\ clock \in 1..MaxClock
  /\ \E c \in 1..clock : start = lt_gettime(c)
  /\ \E c \in 1..clock : after = lt_gettime(c)
  /\ pc \in {"setup", "crashed"} \/ timeout \in LoopTimeouts
  /\ NoTimeoutNeverExpires

\* The comparison as unsigned numbers never holds for NO_TIMEOUT and other
\* negative timeouts: they are as far ahead as the unsigned type reaches.
LEMMA Unsigned ==
  ASSUME NEW d \in Nat, d < MaxClock, NEW to \in LoopTimeouts, time_a_gt_b(d, to, WRAP)
  PROVE  to >= 0
<1>1. /\ WRAP \in Nat /\ WRAP > 0 /\ MaxClock \in Nat /\ MaxClock <= WRAP
      /\ to \in Int /\ MaxClock - WRAP <= to /\ to <= WRAP - 1
  BY EventAssumption, WidthAssumption
<1>2. d % WRAP = d
  BY <1>1
<1>3. CASE to >= 0
  BY <1>3
<1>4. CASE to < 0
  <2>1. to + WRAP \in 0..(WRAP - 1) /\ to = (-1) * WRAP + (to + WRAP)
    BY <1>1, <1>4
  <2>2. to % WRAP = to + WRAP
    BY <1>1, <2>1
  <2>3. QED
    BY <1>1, <1>2, <2>2 DEF time_a_gt_b
<1>5. QED
  BY <1>1, <1>3, <1>4

\* A step keeps what the loop knows, and returns 0 only from an expired wait.
LEMMA TimingKept == Timing /\ [Next]_vars => Timing'
<1> SUFFICES ASSUME Timing, [Next]_vars PROVE Timing'
  OBVIOUS
<1>1. clock \in Nat /\ clock > 0 /\ clock <= MaxClock /\ MaxClock \in Nat
  BY EventAssumption DEF Timing
<1>2. clock \in 1..clock
  BY <1>1
<1>3. CASE UNCHANGED <<pc, timeout, start, after, rv, clock>>
  BY <1>3 DEF Timing, NoTimeoutNeverExpires
<1>4. CASE Tick
  <2>1. /\ clock' = clock + 1 /\ clock < MaxClock
        /\ UNCHANGED <<pc, timeout, start, after, rv>>
    BY <1>4 DEF Tick, loop
  <2>2. clock' \in 1..MaxClock /\ \A c \in 1..clock : c \in 1..clock' /\ c \in Nat /\ clock' \in Nat
    BY <1>1, <2>1
  <2>3. NoTimeoutNeverExpires'
    BY <2>1 DEF Timing, NoTimeoutNeverExpires
  <2>4. QED
    BY <2>1, <2>2, <2>3 DEF Timing
<1>5. CASE \E to \in LoopTimeouts : EnterLoop(to)
  BY <1>2, <1>5 DEF EnterLoop, Timing, NoTimeoutNeverExpires
<1>6. CASE epoll_wait_ready
  BY <1>2, <1>6 DEF epoll_wait_ready, Timing, NoTimeoutNeverExpires
<1>7. CASE \E value \in {0, -1} : epoll_wait_leave(value)
  <2>1. /\ pc = "epoll_wait" /\ pc' = "returned" /\ (rv' = 0 => Expired)
        /\ UNCHANGED <<timeout, start, after, clock>>
    BY <1>7 DEF epoll_wait_leave
  <2>2. PICK c \in 1..clock : start = lt_gettime(c)
    BY DEF Timing
  <2>3. lt_time_a_sub_b(lt_gettime(clock), start) = clock - c
    BY <1>1, <2>2, ReadingDifference
  <2>4. timeout \in LoopTimeouts /\ clock - c \in Nat /\ clock - c < MaxClock
    BY <1>1, <2>1, <2>2 DEF Timing
  <2>5. rv' = 0 => timeout >= 0
    BY <2>1, <2>3, <2>4, Unsigned DEF Expired
  <2>6. NoTimeoutNeverExpires'
    BY <2>1, <2>5 DEF NoTimeoutNeverExpires
  <2>7. QED
    BY <2>1, <2>6 DEF Timing
<1>8. CASE \E e \in Event : lt_io_remove_wild(e)
  BY <1>8 DEF lt_io_remove_wild, Timing, NoTimeoutNeverExpires
<1>9. CASE UNCHANGED <<timeout, start, after, rv, clock>> /\ pc' \notin {"returned", "setup"}
           /\ pc \notin {"setup", "crashed"}
  BY <1>9 DEF Timing, NoTimeoutNeverExpires
<1>10. CASE UNCHANGED vars
  BY <1>3, <1>10 DEF vars, loop
<1>11. CASE Api
  <2>1. CASE UNCHANGED <<loop, clock>>
    BY <1>3, <2>1 DEF loop
  <2>2. QED
    BY <1>8, <1>11, <2>1 DEF Api, lt_io_add, lt_io_mod, lt_io_remove, lt_new_post_callback
<1>12. QED
  BY <1>4, <1>5, <1>6, <1>7, <1>9, <1>10, <1>11
     DEF Next, first_pass, second_pass, walk_start, process_event, walk_end, direct_return,
         lagged_return, Ended, Call

\* The readings of a new base.
LEMMA TimingInit == Init => Timing
<1> SUFFICES ASSUME Init PROVE Timing
  OBVIOUS
<1>1. 1 \in 1..MaxClock /\ 1 \in 1..1
  BY EventAssumption
<1>2. QED
  BY <1>1 DEF Init, Timing, NoTimeoutNeverExpires

\* A loop entered with a negative timeout never expires, for every timeout an
\* int holds and every width of the unsigned comparison that is wider than the
\* clock.
THEOREM NoTimeoutTheorem == Spec => []NoTimeoutNeverExpires
<1>1. Timing => NoTimeoutNeverExpires
  BY DEF Timing
<1>2. QED
  BY <1>1, TimingInit, TimingKept, PTL DEF Spec

-----------------------------------------------------------------------------
(* The verdict of lt_ev_check_timeout.                                     *)

\* For every timeout that is set and every number of nanoseconds in a second,
\* the walk's comparison of an endtime with its clock reading, field by field,
\* agrees with the time left; whatever uninitialised structs hold.
THEOREM TimeoutVerdictTheorem == Spec => TimeoutVerdict
<1>1. \A t \in SetEndtimes : Carried(t)
  <2>1. ASSUME NEW c \in 1..MaxClock, NEW to \in Timeouts \cap Nat
        PROVE  Carried(lt_time_addition(lt_gettime(c), to))
    BY <2>1, AdditionCarried
  <2>2. QED
    BY <2>1 DEF SetEndtimes
<1> DEFINE Verdict ==
      process_event /\ event[cur].endtime \in SetEndtimes =>
        /\ pc' = "callback" => TimeLeft <= 0
        /\ event' # event => TimeLeft >= 0
<1>2. Inv /\ Timing => Verdict
  <2> SUFFICES ASSUME Inv, Timing, process_event, event[cur].endtime \in SetEndtimes
               PROVE  /\ pc' = "callback" => TimeLeft <= 0
                      /\ event' # event => TimeLeft >= 0
    OBVIOUS
  <2>1. cur \in Event /\ pc = "process"
    BY DEF process_event, Inv, Types, NullOrEvent
  <2>2. Carried(event[cur].endtime)
    BY <1>1
  <2>3. PICK c \in 1..clock : after = lt_gettime(c)
    BY DEF Timing
  <2>4. c \in Nat
    BY <2>3 DEF Timing
  <2>5. after \in Time /\ after.nsec \in 0..(NSEC - 1)
    BY <2>3, <2>4, ClockReading
  <2>6. /\ lt_ev_check_timeout(event[cur].endtime, after)
             => lt_time_a_sub_b(event[cur].endtime, after) >= 0
        /\ ~lt_ev_check_timeout(event[cur].endtime, after)
             => lt_time_a_sub_b(event[cur].endtime, after) <= 0
    BY <2>2, <2>5, CheckVerdict
  <2>7. /\ pc' = "callback" => ~lt_ev_check_timeout(event[cur].endtime, after)
        /\ event' # event => lt_ev_check_timeout(event[cur].endtime, after)
    BY <2>1 DEF process_event
  <2>8. QED
    BY <2>6, <2>7 DEF TimeLeft
<1>3. Spec => [][Verdict]_vars
  BY <1>2, TimingInit, TimingKept, Invariance, PTL DEF Spec
<1>4. QED
  BY <1>3 DEF TimeoutVerdict

-----------------------------------------------------------------------------
(* The timer heap in the reactor, and the reactor's types.                 *)

\* What the sifting loops keep of base->timeheap.
HeapSound ==
  /\ IsHeap(heap)
  /\ Filled(heap)
  /\ intact \in BOOLEAN
  /\ intact => Agrees(heap)

\* The heap part of lt_io_add and lt_io_mod.
LEMMA ArmSound ==
  ASSUME HeapSound, NEW e \in Event, NEW to, NEW ok \in BOOLEAN,
         heap' = TimerHeapAfter(e, to, ok), intact' = (intact /\ e \notin Timers!Held(heap))
  PROVE  HeapSound'
<1> DEFINE h == min_heap_elem_init_(heap, e)
           r == min_heap_push_(h, e, endtimes, ok)
<1>1. heap' = r \/ heap' = h
  BY DEF TimerHeapAfter
<1>2. /\ IsHeap(heap) /\ Filled(heap) /\ intact \in BOOLEAN /\ (intact => Agrees(heap))
  BY DEF HeapSound
<1>3. IsHeap(h) /\ h.p = heap.p /\ h.n = heap.n
  BY <1>2, ElemInit
<1>4. ASSUME intact' PROVE intact /\ \A k \in 0..(heap.n - 1) : heap.p[k] # e
  BY <1>4 DEF Timers!Held, Timers!Slots
<1>5. ASSUME intact' PROVE Agrees(h)
  BY <1>2, <1>4, <1>5, ForgetAgrees
<1> HIDE DEF h
<1>6. /\ IsHeap(r) /\ (Filled(h) => Filled(r))
      /\ Agrees(h) /\ (\A k \in 0..(h.n - 1) : h.p[k] # e) => Agrees(r)
  BY <1>3, PushKeeps
<1> HIDE DEF r
<1>7. Filled(h)
  BY <1>2, <1>3 DEF Filled
<1>8. ASSUME intact' PROVE Agrees(r)
  BY <1>3, <1>4, <1>5, <1>6, <1>8
<1>9. intact' \in BOOLEAN
  OBVIOUS
<1>10. QED
  BY <1>1, <1>3, <1>5, <1>6, <1>7, <1>8, <1>9 DEF HeapSound

\* The heap part of lt_io_remove.
LEMMA RemoveSound ==
  ASSUME HeapSound, NEW e \in Event, lt_io_remove(e)
  PROVE  HeapSound'
<1>1. /\ heap.idx[e] = -1 \/ heap.n > 0
      /\ heap' = IF heap.idx[e] = -1 THEN heap ELSE min_heap_erase_(heap, e, endtimes)
      /\ intact' = (intact /\ ~(heap.idx[e] # -1 /\ Timers!LastUnderOther(e)))
  BY DEF lt_io_remove, HeapWithout
<1>2. intact' \in BOOLEAN
  BY <1>1
<1>3. IsHeap(heap) /\ Filled(heap) /\ intact \in BOOLEAN /\ (intact => Agrees(heap))
  BY DEF HeapSound
<1>4. CASE heap.idx[e] = -1
  <2>1. heap' = heap /\ (intact' => intact)
    BY <1>1, <1>4
  <2>2. QED
    BY <1>2, <1>3, <2>1 DEF HeapSound
<1>5. CASE heap.idx[e] # -1
  <2> DEFINE f == min_heap_erase_(heap, e, endtimes)
  <2>1. heap' = f /\ heap.n > 0 /\ (intact' => intact /\ ~Timers!LastUnderOther(e))
    BY <1>1, <1>5
  <2>2. /\ IsHeap(f) /\ Filled(f)
        /\ \/ ~Agrees(heap)
           \/ /\ heap.idx[e] = heap.n - 1 /\ heap.idx[e] > 0
              /\ min_heap_elem_greater(endtimes, heap.p[Parent(heap.idx[e])], e)
           \/ Agrees(f)
    <3>1. heap.n > 0
      BY <2>1
    <3>2. QED
      BY <1>3, <1>5, <3>1, EraseKeeps
  <2> HIDE DEF f
  <2>3. min_heap_elem_greater(endtimes, heap.p[Parent(heap.idx[e])], e)
          = Timers!min_heap_elem_greater(endtimes, heap.p[Timers!Parent(heap.idx[e])], e)
    BY DEF min_heap_elem_greater, Timers!min_heap_elem_greater, lt_time_a_sub_b, Timers!lt_time_a_sub_b,
           Parent, Timers!Parent
  <2>4. ASSUME intact' PROVE Agrees(f)
    BY <1>3, <2>1, <2>2, <2>3, <2>4 DEF Timers!LastUnderOther
  <2>5. QED
    BY <1>2, <2>1, <2>2, <2>4 DEF HeapSound
<1>6. QED
  BY <1>4, <1>5

\* No step of the reactor damages its heap.
LEMMA HeapKept == HeapSound /\ [Next]_vars => HeapSound'
<1> SUFFICES ASSUME HeapSound, [Next]_vars PROVE HeapSound'
  OBVIOUS
<1>1. CASE UNCHANGED <<heap, intact>>
  BY <1>1 DEF HeapSound
<1>2. ASSUME NEW e \in Event, NEW f \in Fd, NEW flag \in FlagSets, NEW to \in Timeouts, NEW ok \in BOOLEAN,
             lt_io_add(e, f, flag, to, ok)
      PROVE  HeapSound'
  BY <1>2, ArmSound DEF lt_io_add
<1>3. ASSUME NEW e \in Event, NEW flag \in FlagSets, NEW to \in Timeouts, NEW ok \in BOOLEAN,
             lt_io_mod(e, flag, to, ok)
      PROVE  HeapSound'
  BY <1>3, ArmSound DEF lt_io_mod
<1>4. ASSUME NEW e \in Event, lt_io_remove(e) PROVE HeapSound'
  BY <1>4, RemoveSound
<1>5. CASE Api
  <2>1. ASSUME NEW e \in Event, NEW f \in Fd, lt_new_post_callback(e, f) PROVE HeapSound'
    BY <1>1, <2>1 DEF lt_new_post_callback
  <2>2. ASSUME NEW e \in Event, lt_io_remove_wild(e) PROVE HeapSound'
    BY <1>1, <2>2 DEF lt_io_remove_wild, struct, history
  <2>3. QED
    BY <1>2, <1>3, <1>4, <1>5, <2>1, <2>2 DEF Api
<1>6. CASE UNCHANGED vars
  BY <1>1, <1>6 DEF vars, struct, history
<1>7. QED
  BY <1>1, <1>5, <1>6
     DEF Next, EnterLoop, epoll_wait_ready, epoll_wait_leave, first_pass, second_pass, walk_start,
         process_event, walk_end, direct_return, lagged_return, Tick, Ended, struct, history

\* base_init constructs the empty heap.
LEMMA HeapInit == Init => HeapSound
  BY Constructed DEF Init, HeapSound

\* Whatever registration calls a program and its callbacks make, in any order,
\* the reactor's heap keeps its slots and every min_heap_idx in step until an
\* event is re-armed in the heap or an erase meets the last slot under another
\* endtime: lt_io_remove finds the timer it is to take out.
THEOREM ReactorHeapTheorem == Spec => [](Filled(heap) /\ (intact => Agrees(heap)))
<1>1. HeapSound => Filled(heap) /\ (intact => Agrees(heap))
  BY DEF HeapSound
<1>2. QED
  BY <1>1, HeapInit, HeapKept, PTL DEF Spec

\* lt_io_remove never reads through slot UINT_MAX of an empty heap, from the
\* main program or from a callback, as long as no event was re-armed in the heap
\* and no erase met the last slot under another endtime: an index that is left
\* behind is the only way to the crash of lt_io_remove_wild.
THEOREM NoWildErase == Spec => [](intact => pc # "crashed")
<1> DEFINE Alive == intact => pc # "crashed"
<1>1. Init => Alive
  BY DEF Init
<1>2. HeapSound /\ Alive /\ [Next]_vars => Alive'
  <2> SUFFICES ASSUME HeapSound, Alive, [Next]_vars, intact', pc' = "crashed" PROVE FALSE
    OBVIOUS
  <2>1. ASSUME NEW e \in Event, lt_io_remove_wild(e) PROVE FALSE
    <3>1. heap.idx[e] # -1 /\ heap.n = 0 /\ intact
      BY <2>1 DEF lt_io_remove_wild, history
    <3>2. heap.idx[e] \in 0..(heap.n - 1)
      BY <3>1 DEF HeapSound, Agrees
    <3>3. QED
      BY <3>1, <3>2
  <2>2. CASE Api
    <3>1. CASE \E e \in Event : lt_io_remove_wild(e)
      BY <2>1, <3>1
    <3>2. CASE Callable /\ UNCHANGED loop
      BY <3>2 DEF Callable, loop
    <3>3. ASSUME NEW e \in Event, NEW f, NEW flag, NEW to, NEW ok, lt_io_add(e, f, flag, to, ok)
          PROVE  Callable /\ UNCHANGED loop
      BY <3>3 DEF lt_io_add
    <3>4. ASSUME NEW e \in Event, NEW flag, NEW to, NEW ok, lt_io_mod(e, flag, to, ok)
          PROVE  Callable /\ UNCHANGED loop
      BY <3>4 DEF lt_io_mod
    <3>5. ASSUME NEW e \in Event, lt_io_remove(e) PROVE Callable /\ UNCHANGED loop
      BY <3>5 DEF lt_io_remove
    <3>6. ASSUME NEW e \in Event, NEW f, lt_new_post_callback(e, f) PROVE Callable /\ UNCHANGED loop
      BY <3>6 DEF lt_new_post_callback
    <3>7. QED
      BY <2>2, <3>1, <3>2, <3>3, <3>4, <3>5, <3>6 DEF Api
  <2>3. CASE pc' = pc /\ intact' = intact
    BY <2>3
  <2>4. CASE direct_return
    BY <2>4 DEF direct_return
  <2>5. CASE UNCHANGED vars
    BY <2>3, <2>5 DEF vars, loop, history
  <2>6. QED
    BY <2>2, <2>3, <2>4, <2>5
       DEF Next, EnterLoop, epoll_wait_ready, epoll_wait_leave, first_pass, second_pass, walk_start,
           process_event, walk_end, lagged_return, Tick, Ended, Call, vars, loop, history
<1>3. QED
  BY <1>1, <1>2, HeapInit, HeapKept, PTL DEF Spec

\* The types of the loop's control state and of the history.
Control ==
  /\ pc \in {"setup", "epoll_wait", "first", "second", "process", "callback", "returned", "crashed"}
  /\ ret \in {"setup", "first", "second", "process"}
  /\ timeout \in Int /\ rv \in {0, -1} /\ calls \in Nat
  /\ lagged \in Seq(Event) /\ pos \in Nat \ {0}
  /\ called \in SUBSET Event /\ fired \in SUBSET Event
  /\ gone \in SUBSET Event /\ posted \in SUBSET Event

\* Counting a registration call.
LEMMA CallableCounts == ASSUME Control, Callable PROVE calls' \in Nat
  BY DEF Control, Callable

\* The walk's position stays a position.
LEMMA AdvanceType == ASSUME Control, Advance PROVE pos' \in Nat \ {0}
<1>1. pos \in Nat \ {0}
  BY DEF Control
<1>2. pos' = pos + 1 \/ pos' = pos
  BY DEF Advance
<1>3. QED
  BY <1>1, <1>2

\* A step keeps the control state's types: callbacks come from entries of the
\* report and from the walk, both of which lead to structs.
LEMMA ControlKept == Inv /\ Control /\ [Next]_vars => Control'
<1> SUFFICES ASSUME Inv, Control, [Next]_vars PROVE Control'
  OBVIOUS
<1>1. /\ pc \in {"setup", "epoll_wait", "first", "second", "process", "callback", "returned", "crashed"}
      /\ ret \in {"setup", "first", "second", "process"}
      /\ timeout \in Int /\ rv \in {0, -1} /\ calls \in Nat
      /\ lagged \in Seq(Event) /\ pos \in Nat \ {0}
      /\ called \in SUBSET Event /\ fired \in SUBSET Event
      /\ gone \in SUBSET Event /\ posted \in SUBSET Event
  BY DEF Control
<1>2. CASE Api
  <2>1. calls' \in Nat
    BY <1>2, CallableCounts DEF Api, lt_io_add, lt_io_mod, lt_io_remove, lt_io_remove_wild, lt_new_post_callback
  <2>2. gone' \in SUBSET Event /\ posted' \in SUBSET Event
    BY <1>1, <1>2 DEF Api, lt_io_add, lt_io_mod, lt_io_remove, lt_io_remove_wild, lt_new_post_callback, history
  <2>3. UNCHANGED <<ret, timeout, rv, lagged, pos, called, fired>> /\ pc' \in {pc, "crashed"}
    <3>1. CASE UNCHANGED <<loop, lagged, pos, called, fired>>
      BY <3>1 DEF loop
    <3>2. CASE \E e \in Event : lt_io_remove_wild(e)
      BY <3>2 DEF lt_io_remove_wild, history
    <3>3. QED
      BY <1>2, <3>1, <3>2 DEF Api, lt_io_add, lt_io_mod, lt_io_remove, lt_new_post_callback
  <2>4. QED
    BY <1>1, <2>1, <2>2, <2>3 DEF Control
<1>3. CASE \E to \in LoopTimeouts : EnterLoop(to)
  <2>1. timeout' \in Int /\ pc' = "epoll_wait"
        /\ UNCHANGED <<ret, rv, calls, lagged, pos, called, fired, gone, posted>>
    BY <1>3, EventAssumption DEF EnterLoop, history
  <2>2. QED
    BY <1>1, <2>1 DEF Control
<1>4. CASE epoll_wait_ready
  <2>1. pc' = "first" /\ lagged' = <<>> /\ pos' = 1 /\ called' = {}
        /\ UNCHANGED <<ret, timeout, rv, calls, fired, gone, posted>>
    BY <1>4 DEF epoll_wait_ready
  <2>2. QED
    BY <1>1, <2>1 DEF Control
<1>5. CASE \E value \in {0, -1} : epoll_wait_leave(value)
  <2>1. pc' = "returned" /\ rv' \in {0, -1}
        /\ UNCHANGED <<ret, timeout, calls, lagged, pos, called, fired, gone, posted>>
    BY <1>5 DEF epoll_wait_leave, history
  <2>2. QED
    BY <1>1, <2>1 DEF Control
<1>6. ASSUME pc \in {"first", "second"}, i <= Len(batch) PROVE batch[i].ptr \in Event
  BY <1>6, EntryType DEF Inv
<1>7. CASE first_pass
  <2> DEFINE e == batch[i].ptr
  <2>1. e \in Event
    BY <1>6, <1>7 DEF first_pass
  <2>2. pc' \in {"second", "callback", pc} /\ ret' \in {ret, "first"}
        /\ lagged' \in {lagged, <<e>>} /\ called' \in {called, called \cup {e}}
        /\ UNCHANGED <<timeout, rv, calls, pos, fired, gone, posted>>
    BY <1>7 DEF first_pass, Call
  <2> HIDE DEF e
  <2>3. lagged' \in Seq(Event)
    <3>1. <<e>> \in Seq(Event)
      BY <2>1
    <3>2. QED
      BY <1>1, <2>2, <3>1
  <2>4. QED
    BY <1>1, <2>1, <2>2, <2>3 DEF Control
<1>8. CASE second_pass
  <2> DEFINE e == batch[i].ptr
  <2>1. e \in Event
    BY <1>6, <1>8 DEF second_pass
  <2>2. pc' \in {"callback", pc} /\ ret' \in {ret, "second"}
        /\ lagged' \in {lagged, Append(lagged, e)} /\ called' \in {called, called \cup {e}}
        /\ UNCHANGED <<timeout, rv, calls, pos, fired, gone, posted>>
    BY <1>8 DEF second_pass, Call
  <2> HIDE DEF e
  <2>3. lagged' \in Seq(Event)
    BY <1>1, <2>1, <2>2
  <2>4. QED
    BY <1>1, <2>1, <2>2, <2>3 DEF Control
<1>9. CASE walk_start \/ walk_end
  <2>1. pc' \in {"process", "epoll_wait"}
        /\ UNCHANGED <<ret, timeout, rv, calls, lagged, pos, called, fired, gone, posted>>
    BY <1>9 DEF walk_start, walk_end, history
  <2>2. QED
    BY <1>1, <2>1 DEF Control
<1>10. CASE process_event
  <2>1. pc' \in {"callback", pc} /\ ret' \in {ret, "process"} /\ (Advance \/ pos' = pos)
        /\ UNCHANGED <<timeout, rv, calls, lagged, called, fired, gone, posted>>
    BY <1>10 DEF process_event, Call
  <2>2. pos' \in Nat \ {0}
    BY <1>1, <2>1, AdvanceType
  <2>3. QED
    BY <1>1, <2>1, <2>2 DEF Control
<1>11. CASE direct_return
  <2>1. pc' \in {"first", "second"}
        /\ UNCHANGED <<ret, timeout, rv, calls, lagged, pos, called, fired, gone, posted>>
    BY <1>11 DEF direct_return, history
  <2>2. QED
    BY <1>1, <2>1 DEF Control
<1>12. CASE lagged_return
  <2>1. cur \in Event
    BY <1>12 DEF lagged_return, Inv, Walking
  <2>2. pc' = "process" /\ Advance /\ fired' \in {fired, fired \cup {cur}}
        /\ UNCHANGED <<ret, timeout, rv, calls, lagged, called, gone, posted>>
    BY <1>12 DEF lagged_return
  <2>3. pos' \in Nat \ {0}
    BY <2>2, AdvanceType
  <2>4. QED
    BY <1>1, <2>1, <2>2, <2>3 DEF Control
<1>13. CASE Tick \/ Ended \/ UNCHANGED vars
  <2>1. UNCHANGED <<pc, ret, timeout, rv, calls, lagged, pos, called, fired, gone, posted>>
    BY <1>13 DEF Tick, Ended, vars, loop, history
  <2>2. QED
    BY <1>1, <2>1 DEF Control
<1>14. QED
  BY <1>2, <1>3, <1>4, <1>5, <1>7, <1>8, <1>9, <1>10, <1>11, <1>12, <1>13 DEF Next

\* A base that has not been entered.
LEMMA ControlInit == Init => Control
  BY DEF Init, Control

\* Every field of the structs of event_lea.h and every local of lt_base_loop
\* keeps its type, the timer heap's array and indices included: no report, no
\* callback and no order of registration calls leads the loop to a struct
\* nobody handed out or to an index outside the heap's array.
THEOREM ReactorTypes == Spec => []TypeOK
<1>1. Inv /\ Control /\ HeapSound /\ Timing => TypeOK
  <2> SUFFICES ASSUME Inv, Control, HeapSound, Timing PROVE TypeOK
    OBVIOUS
  <2>1. start \in Time /\ after \in Time
    <3>1. clock \in Nat
      BY EventAssumption DEF Timing
    <3>2. PICK c \in 1..clock : start = lt_gettime(c)
      BY DEF Timing
    <3>3. PICK d \in 1..clock : after = lt_gettime(d)
      BY DEF Timing
    <3>4. c \in Nat /\ d \in Nat
      BY <3>1
    <3>5. QED
      BY <3>2, <3>3, <3>4, ClockReading
  <2>2. IsHeap(heap) /\ intact \in BOOLEAN
    BY DEF HeapSound
  <2>3. clock \in Nat
    BY EventAssumption DEF Timing
  <2>4. QED
    BY <2>1, <2>2, <2>3 DEF TypeOK, Inv, Types, Control, NullOrEvent
<1>2. QED
  BY <1>1, Invariance, ControlInit, ControlKept, HeapInit, HeapKept, TimingInit, TimingKept, PTL DEF Spec

=============================================================================
