# leactor in TLA+

leactor is a small event notification library (`event_lea.c`, `lea_heap.c`,
`lt_pool.c`) and an HTTP reverse proxy built on it (`http.c`, `proxy.c`,
`buffer_op_lea.c`, with parsers taken over from nginx). One process, one thread:
everything that makes it hard is the order in which the kernel reports
descriptors, what callbacks do to the structures the loop is walking over,
system calls that do part of what was asked, and allocations that fail.

This directory models the library, the server's start, one proxied connection
and the parsers it uses, and states what they guarantee. The definitions keep the names of the C functions; `PROJECT.json` maps each of them
to its source lines.

## The system

| Component | State | Operations | Talks to |
|---|---|---|---|
| reactor (`event_lea.c`) | event structs, epoll table, active list, the loop's locals | `lt_io_add`, `lt_io_mod`, `lt_io_remove`, `lt_new_post_callback`, `lt_base_loop` | kernel (epoll), timer heap, pools, callbacks |
| time arithmetic (`event_lea.c`) | none | `lt_gettime`, `lt_time_addition`, `lt_time_a_sub_b`, `lt_ev_check_timeout`, `time_a_gt_b` | |
| timer heap (`lea_heap.c`) | array of event pointers, `n`, `a`, each event's `min_heap_idx` | push, pop, erase, reserve | reactor |
| memory pools (`lt_pool.c`) | pools chained behind a manager | set up, allocate, destroy, copy of a manager | every other part |
| buffers and socket I/O (`buffer_op_lea.c`) | buffer chains, iovec chains | `send_chains`, `send_buffers`, `lt_recv`, `lt_accept` | kernel, pools |
| HTTP connections and requests (`http.c`) | connection status, request under construction | accept, data coming, request line, headers, send to client | reactor, parsers, proxy |
| upstream proxy (`proxy.c`) | status of the paired connection | connect, connect writable, send to upstream, data coming | reactor, HTTP, buffers |
| Host header processing (`http_parse.c`) | none | `http_process_host` | HTTP |
| HTTP parsers (`ngx_http_parse.c`) | parser state kept in the request | request line, header line, status line | HTTP |
| start-up (`main.c`) | the listening socket, what SIGPIPE does | builds a base and an HTTP server, binds and listens, enters the loop | kernel, reactor |

The parts share memory and call each other; there are no messages. The reactor
calls back into HTTP and the proxy, which call `lt_io_add` and `lt_io_mod` while
the reactor is in the middle of a report. An event is in up to four places at
once: its struct, the kernel's table, the report being dispatched, and the
active list; and in the timer heap under an index of its own. Keeping these in
step is what the reactor has to get right.

What is hard to test, and where (`PROJECT.json` lists each at its line):

* callbacks that add, modify or remove events whose report entries are still to
  come, and `epoll_ctl` answers that are ignored;
* two passes over one report that share an index, then a walk over a list whose
  links survive from one round to the next;
* a walk that overwrites `deleted` after the callback it has just called;
* a heap whose events are re-armed while inside, whose comparison is a
  difference, and whose growth may fail;
* an element taken from a pool before its room is checked, a pool that cannot be
  replaced, two managers that are copies of each other;
* signed and unsigned comparison of a time difference with "no timeout", and a
  timeout that is milliseconds in one line and nanoseconds in another;
* in the proxy: partial writes, a request before the upstream connection is up,
  a second request while the first response arrives;
* in the parsers: pipelined requests that share one struct which nobody clears,
  two parsers that share one state field, pieces of a buffer whose lengths count
  separators in by fixed numbers, a final dot found by index arithmetic;
* at the start: an address list in which every call may fail for every entry.

## Modules

| Module | Models | Kind |
|---|---|---|
| `LtTime` | time arithmetic | operators |
| `LeaHeap` | every function of `lea_heap.c` | operators on a heap record |
| `TimerHeap` | the heap as `event_lea.c` drives it | abstract specification |
| `LeaEvent` | registration calls and `lt_base_loop` | detailed specification; implements `TimerHeap` |
| `LtPool` | managers, pools, elements | specification |
| `LossyRelay` | what each direction of the proxy promises | abstract specification |
| `HttpListen` | the start of the server | specification, composed into `ProxyPair` |
| `ProxyPair` | one client connection and its upstream pair, with the socket calls | detailed specification; implements `LossyRelay` twice |
| `HttpParse` | the state machines of `ngx_http_parse.c` | tables |
| `HttpHost` | `http_process_host`, and what it is to find | operators |
| `HttpHead` | a buffer parsed, taken apart into elements, put together into a chain, and sent | specification |
| `LeaHeapProofs`, `TimerHeapProofs` | the sifting loops; `TimerHeap` | lemmas; theorems |
| `LeaEventProofs`, `LeaEventWalkProofs`, `LeaEventTimeProofs` | `LeaEvent`: registration and refinement; the passes and the walk; time, heap and types | theorems |
| `LtPoolProofs`, `ProxyPairProofs` | `LtPool`; `ProxyPair` and its refinement of `LossyRelay` | theorems |
| `HttpHeadProofs` | `HttpHost` and `HttpHead` | theorems |
| `MCTimerHeap`, `MCLeaEvent`, `MCLtPool`, `MCHttpHead` | | constants for TLC |

`LeaHeap` extends `LtTime`; `TimerHeap` and `LeaEvent` extend `LeaHeap`.
`LeaEvent` instantiates `TimerHeap` with the endtimes of its own event structs.
`ProxyPair` instantiates `HttpListen` for its own start, and `LossyRelay` once per
direction. `HttpHead` extends `HttpHost`, which extends `HttpParse`.

**LeaHeap.** A heap is a record of the array `p`, its counters `n` and `a`, and
the `min_heap_idx` of every event. A sifting loop is written by what it
computes. `RiseNext` and `SinkNext` are one turn of the loop: for every slot, the
slot the hole goes to from there, or the slot itself where the loop ends.
`Travels` is the set of slots the hole comes through (the least set that holds the
first slot and is closed under a turn); each of them takes over the content of the
next, and the event ends up in the last. Where an event sits in two of these slots
(it was pushed twice), the index written last wins, as in the loop.
`min_heap_elem_greater` is a difference used as a truth value in the code, so in
the model it holds whenever two endtimes differ. `realloc` may fail: the push
then leaves the heap as it was.

**TimerHeap.** What the reactor does to the heap and to endtimes, and nothing
else: arm (reset the index, push under the *old* endtime, store the new one),
forget (an `lt_io_mod` with `NO_TIMEOUT`), erase, pop. The history variable
`intact` turns false when an event that is in the heap is armed or forgotten, or
when an erase meets the last slot under a parent with another endtime; the code
has no defence against these. After such an erase the event is still in the array
with index -1, and the event it displaced has an index behind `n`.

**LeaEvent.** One action per API call, and one action per iteration of each loop
of `lt_base_loop`:

| `pc` | code | actions |
|---|---|---|
| `setup` | the program before `lt_base_loop` | API calls, `EnterLoop` |
| `epoll_wait` | top of the loop | `epoll_wait_ready`, `epoll_wait_leave` |
| `first` | first `for` of `lt_loop_init_actlist` | `first_pass`, `walk_start` |
| `second` | second `for` | `second_pass`, `walk_start` |
| `process` | `lt_ev_process_and_moveout` | `process_event`, `walk_end` |
| `callback` | inside a callback; `ret` says who called it | API calls, `direct_return`, `lagged_return` |
| `returned`, `crashed` | | `Ended` |

A callback is arbitrary: any API calls, then a return. `epoll_wait` may report
any registered descriptors in any order, with or without readiness bits (a bare
error or hang-up sets neither). `epoll_ctl` fails silently as the callers have
it: ADD on a registered descriptor and MOD on an unregistered one change nothing.
`lt_io_mod` does nothing for NULL; the calls of `LeaEvent` are made with an event of
the program's, and `ProxyPair` has the one caller that may pass NULL. The clock
counts nanoseconds, which is what the loop's timeout is compared with; `epoll_wait`
takes the same number as milliseconds, and the model lets it come back at any time.
A fresh event carries whatever endtime its memory holds (`Garbage`).
`lt_io_remove_wild` is the one call that ends the process: an erase in an empty
heap through an index that was left behind.
`lagged`, `pos`, `called`, `fired`, `gone`, `posted` and `intact` are history:
no action of the code reads them.

**LtPool.** Addresses are offsets in their pool. `lt_alloc` takes the element at
`pos`, moves `pos`, and only then compares it with `end`; a used-up pool is
replaced at the tail, or kept in use if `aligned_alloc` fails. An element that is
taken while `pos = end` lies wholly outside. A pool is sized
with `sizeof(lt_memory_pool_manager_t)` although it starts with a
`lt_memory_pool_t`. `lt_destroy_memory_pool` never moves to the next pool, so
with more than one it frees the first one twice: the model lets the process die.
`copy_manager` is the struct assignment in `proxy_connect`.

**ProxyPair.** One client, the proxy's two connections, one upstream. Streams are
sequences of pieces, and a read may end after any of them: a request is two
halves of its request line and its headers, a response two halves of its status
line, its headers and its body. The parsers are modelled by their results on
whole and cut input; a whole status line may be refused, and a whole request
mangled, because the structs they are parsed into are not cleared (`HttpHead` has
the details). `writev` takes everything, a part, or fails in one of three
ways; on a connecting socket it answers `EAGAIN`. `http_data_coming` starts
parsing a buffer (`mode = "parsing"`), `http_process_request_line` handles one
request of it per step, so that the peers act in between; each of the
`proxy_data_coming_...` actions is one whole run of that handler, told apart by
what was read and by the status. The client's status is always `ACCEPTED` and is
left out; the posted callback of the `LAGAIN` case has no action because it is
never called (`post_lost`). Where the code follows a pointer nobody has set
(`next` of the last chain element, the pair's `request_free_head`, `pair->ev`
after a connect that ended at once) the process may die or go on: memory that is
zero or stale leads to either. With NULL in `pair->ev` the `lt_io_mod` of
`http_send_to_upstream` does nothing: the request is sent and no handler is
registered (`callback` stays `"unset"`). `writable` also covers a
report that was made for `EPOLLOUT` and is delivered after the callback was
replaced in the same round. The input is restricted: requests and responses are
well-formed with at least one header, and a body does not start like a status
line.

`orderly` is history: it turns false
at the causes for which a response is lost (a header cut by a read or a status line refused, a read larger
than a buffer, a short write, data together with the end of the stream, a
request sent while a response is under way), never by looking at what arrived.

**LossyRelay.** A stream of pieces 1, 2, 3, ... of which a number has been taken,
and the pieces passed on. A step passes on some of the pieces it takes, in order
and once; what it does not pass on is lost. For responses `taken` is what
`proxy_data_coming` has read and `out` what the client got. For requests `taken`
is how far parsing has come, and a request counts as its last piece.

**HttpListen.** The calls of `child` one after the other, each of which may fail,
with the loop over the addresses of `getaddrinfo`. `sock` is the state of the
socket `listen.fd` names, which after a failed `bind` is a closed one. No client
is accepted in `ProxyPair` before `stage` is `"loop"`.

**HttpParse, HttpHost, HttpHead.** A character stands for the class of
characters the machines treat alike (`G` is the method GET, `a` any lower-case
letter, `!` any character that is allowed in a URI and not in a header name), so
that methods and words are one or two characters long. The machines are tables of
edges; `HttpHead` runs them a character per step on one `request_t`, with every
field that is read before it is written starting as NULL or, in uncleared memory, as a
value that means nothing. A header line becomes an element, its name is put in
lower case in the buffer itself; the end of the head makes the chain of pieces
that `writev` gets. `mode` says which parser runs; `"spinning"` is the header loop
that never gets anywhere (a cut or refused header), `"crashed"` a use of a pointer
nobody has set. An input is a record of the parts it was written with, so that the
properties can compare what was found with what was written; the actions read
only its characters. The name `h` stands for a Host line's. `HostHash` is another
name, `h1`: in the code that hash is taken over `"Host"` with its capital and its
NUL, and the parser hashes names in lower case, so that no Host line has it; names
of seven letters such as `gjutwtw` have, and lead to `http_process_host`. `Zeroed`
says that the memory of the `request_t` was zero when it was taken from its pool.
`http_create_request` does not see to that, so the properties that need it say so.

Not modelled: `lt_del_event` and the free list of events, `http_finish_request`
and the free list of requests (no call reaches them), the timerfd (never
registered), an `epoll_ctl` that runs out of memory, the socket options (their
results are ignored), and the constants of `ngx_http_request.h`.

## Runs

| Run | What it shows |
|---|---|
| `timer_heap` | indices and array stay in step while `intact`; every slot in use was written; types |
| `reactor` | the kernel's table agrees with the structs; removed events are not in it; a one-shot lagged event is not called twice; the walk visits this round's lagged events, all and in order; no ready entry of a report is skipped |
| `reactor_timers` | the reactor implements `TimerHeap`; a loop without timeout never expires; for an endtime that was set, the verdict of the walk is that of the time left; types |
| `reactor_live` | every event put on the active list gets its turn |
| `pools` | elements never overlap, and at most one of a pool reaches over its end, unless it was starved or shared; every pool is on its manager's list; a destroy that returns has freed everything once |
| `proxy` | both directions implement `LossyRelay`; the client gets all of upstream's stream unless one of the causes above occurred; what upstream sends is always read where the pair has an event; clients are served on a listening socket, with SIGPIPE ignored |
| `http_head` | whatever comes in, the elements lie in the characters read, each behind the other; the header loop finds the names and values a head was written with, however it is spaced and whatever the struct held; the pieces of a head written the usual way add up to it, from its first character to its empty line (a request in zeroed memory, a response in any); where `http_process_host` is called, the value is cut to the host; `send_chains` reports a write complete exactly when it is; every whole valid head of a buffer is sent in the end (a request in any memory, a response in zeroed memory) and no cut one |
| `heap_order` | *violated*: the root is not the earliest timer |
| `stale_active_list` | *violated*: the walk visits events that are not active in this round |
| `post_lost` | *violated*: a posted callback is never called |
| `removed_called` | *violated*: an event removed in the same report is called |
| `pool_overrun` | *violated*: an element reaches over the end of its pool |

The violated properties are what comments and notes of the repository say; the
findings in `PROJECT.json` quote them. The repository's own server passes only
`NO_TIMEOUT`, never `LV_LAG`, and never calls `lt_io_remove`: the findings about
timers, lagged and removed events concern other programs that use the library.
`post_lost` and `pool_overrun` concern the server as well.

Some passing properties hold because they leave out, or state, what the code does
not do as one would expect:

* `TimeoutVerdict` says in which sense the walk uses timeouts: it is the *late*
  events it calls and the ones still ahead that it gives up, the reverse of what the
  design note describes (`doc/Unsaved Document 1`, "超时->清除"; a finding of
  `PROJECT.json`).
* `NoTimeoutNeverExpires` is about `NO_TIMEOUT` only. Any other timeout of
  `lt_base_loop` is over, with "loop expired", after as many nanoseconds as it was
  given milliseconds: `epoll_wait` and the comparison use different units.
* `ResponseRead` excepts the pair without an event. Where `connect` succeeds at once
  `proxy_connect` sets the status and makes no event; with NULL in `pair->ev`
  `lt_io_mod` does nothing, the request goes out and the response is never read.
* `HostLengths` is about the names that have the hash `HostHash`, which a Host line's
  has not; by `ElementsAgree` the value of a Host line stays as it was written,
  though the design note lists `process_host` among the steps (a finding as well).
* `HeadsForwarded` asks for zeroed memory where it speaks of responses: otherwise
  `status.count` may start past 3, the third digit does not end the status code, and
  a whole valid response is refused and dropped.
* `OverrunOnce` allows the one element of a pool that `pool_overrun` is about.

The preconditions of `ExactForwarded` are findings in another form: a request parsed
into memory that was not zero may find a flag set and be sent with a wild URI; a URI
with `//`, `/.`, `%` or `#`, or a request behind one in the same buffer, is sent with
whatever `uri.data` held before. The machine stays in
`sw_after_slash_in_uri` on a `+`, so that `/+/` and `/++.` count as complex as
well although no path is shortened by them: `AfterSlash` says so. Further, other
spacing than the usual makes pieces overlap or leave gaps; a request without headers
is sent without its empty line; and an HTTP/0.9 line has no version piece of its own.

`ActiveWalk` and `OnlyActiveWalked` are two halves of one expectation. The first
holds: leftover links never make the walk lose an event of this round. The
second does not: after the last event of the round the walk may run on into
events of an earlier one.

### Bounds

* `NSEC = 2` stands for 1E9, so that the carry of `lt_time_addition` happens at
  once and exact multiples occur; `WRAP = 16` for 2^64, larger than any
  difference the clock can produce.
* `HEAP_INIT = 2` stands for 8: four timers make the heap grow once, with old
  contents to keep, and give it three levels.
* `MCTimerHeap`: four events, two endtimes (the code only tests endtimes for
  equality), any number of operations.
* `MCLeaEvent`: three events on three descriptors and one `INIT_EPEV = 3` report
  reach every mix of direct and lagged entries: before, between and after each
  other. `MaxCalls = 4` registers all three and leaves a call for a callback;
  the number of rounds is unbounded.
* `LeaEventTimers`: timeouts of one and two units with `NSEC = 2`: one ends on a
  full second left uncarried, the other needs the carry. Two events and five calls: arm both, forget one, erase both
  is the shortest way to the empty heap with an index left behind. Uninitialised
  endtimes include one with more nanoseconds than a second has.
* `MCLtPool`: the structs keep their 5:6 proportion of words, elements of three
  half-words force padding; four pools and five elements let two copies of a
  manager each outgrow the pool they share.

* `ProxyPair`: three requests (one response under way, one request that
  overtakes it, one more behind) and `BUF = 5` pieces, so that one request or
  response fits a buffer and two do not; two addresses to listen on, so that a
  socket of the first may be left when the second fails.
* `MCHttpHead`: request lines are every combination of three kinds of methods,
  one or two spaces, 20 URIs that between them visit every state of the URI and
  host machines, versions and line ends, and some that are refused; header lines are every combination of five
  names, three separators, four values, trailing space and line ends; the values
  `http_process_host` is called for are all of up to four characters over six; pipelined pairs and responses are cut
  after every character. Each is read into zeroed and into uncleared memory, and
  `writev` may write any number of characters of a chain.

Symmetry is used for events and descriptors in runs of invariants only.
The pool and proxy runs may stop: the bounds end every behaviour, and the peers
may fall silent.

### Fairness

`FairSpec` assumes that the one thread is scheduled while it is between two
callbacks (`Pass`), and that callbacks return: the library is single-threaded
and cooperative, and neither holds locks. `FairLoopSpec` adds that the program
enters the loop and that `epoll_wait` comes back; it is used for `post_lost`
only, where weaker fairness would refute nothing. In `ProxyPair`, `FairSpec`
assumes that a handler once called runs on, and that the pair's callback is called
while its descriptor stays ready: each round of the loop calls the callback of
every reported descriptor (`ReadyDispatched`). In `HttpHead` a handler that was
called runs on; nothing in it waits.

## Proofs

The theorems hold for every value of the constants that satisfies the
assumptions of the modules. Four of these say more than types:

* `StructAssumption` (`LtPool`): the pool's header, rounded up to the alignment,
  is no larger than the manager's struct a pool is sized with. In the code the
  header has one field less. Without it the first element would start behind `end`.
* `WidthAssumption` (`LeaEvent`): a loop timeout is an `int`, the comparison is made
  in a wider unsigned type, and the clock stays below that type's modulus, so that a
  negative timeout becomes a number larger than any difference of two readings.
* `HeadAssumption` (`HttpHead`): a buffer is any sequence of characters, of which any
  number has been read. `TypeCorrect`, `Inside` and `SendResultRight` need no more.
* `FormAssumption` (`HttpHead`): the parts a head is given by are what they are
  called: a name ends before the first colon, the spaces around a value are not part
  of it, a first line has no line end in its middle, its spaces are spaces. It does
  not restrict what the peer sends to what the parsers accept: names may hold
  anything but a colon, spacing and line ends are free, methods, URIs and versions
  may be refused. `ElementsRight` and `ExactRight` compare what was found
  with these parts.

Each inductive invariant was checked by TLC on the runs' instances before it was
proved.

**The timer heap** (`LeaHeapProofs`, `TimerHeapProofs`; `HeapAssumption`).
`TimerHeapTypes`, `TimerHeapInBounds`, `TimerHeapIndexed`: `Spec => []P` for
`TypeOK`, `InBounds` and `Indexed`. The argument about the loops has three layers.

1. The way of a hole (`Travels...`): for a loop that never comes back to a slot it
   has left (`Forward`), the way has one end, every slot of it but the first is
   entered from exactly one other, the first from none (`Shifts`). No induction over
   the number of turns is needed: the way is the least closed set, so whatever holds
   of its start and is kept by a turn holds of all of it.
2. `Sifted` describes the result of a loop in either direction; `RiseSifts` and
   `SinkSifts` show that both loops have such a result. `SiftFilled` and
   `SiftAgrees` are then proved once for both: what was moved is neither lost nor
   doubled, so slots and indices agree afterwards.
3. `PushKeeps`, `PopKeeps`, `EraseKeeps` for the operations. The exception in
   `EraseKeeps` is exactly the case `LastUnderOther` for which `intact` turns false.

The invariant is `TypeOK`, `Filled` and `intact => Agrees`. An erase stores the last
slot elsewhere, so the array keeps its type only if the slots are filled, and they
stay filled only if the indices lie inside the array.

**The reactor** (`LeaEventProofs`; `EventAssumption`, `HeapAssumption`,
`NSECAssumption`)

* `InterestTheorem`, `RemovedTheorem`, `OneShotTheorem`: `Spec => []P` for
  `InterestMatchesFlag`, `RemovedNotRegistered` and `OneShotStops`. They share
  one inductive invariant `Inv`. It adds `Types`; `Reached` (what the kernel, the
  report and the active list lead to was handed out by `lt_new_event`, so that a
  fresh struct cannot be one of them); `FiredDeleted` (a fired event is marked
  deleted, and nothing clears the mark but the return of its own callback, which
  is not called again); and `Walking`. One lemma per action.
* `TimersTheorem`: `Spec => TimersImplemented`, the refinement. The endtime of
  every struct is one of those `TimerHeap` is instantiated with
  (`EndtimesKnown`); each API call maps to one operation of `TimerHeap` or to a
  stutter, each step of the loop to a stutter. The operators reached through
  `INSTANCE` are shown equal to the module's own (`Same...` lemmas).

**The passes and the walk** (`LeaEventWalkProofs`). `ActiveWalkTheorem` and
`ReadyDispatchedTheorem`. `WalkInv` adds to `ActiveWalk`: `Chain` (the events of
this round's list are distinct and each links to the next), `Linked` (a report names
no struct twice, and what is linked comes from entries already passed), `Ends`
(where the list starts and what `ev_prev` is) and `Passed` (every entry before `i`
has been dispatched). A link can only be broken by a call that writes
`next_active_ev`: `lt_ev_init_` does, but on a struct nothing leads to yet
(`Reached`).

**Time, heap and types** (`LeaEventTimeProofs`; also `WidthAssumption`)

* `NoTimeoutTheorem`: `Spec => []NoTimeoutNeverExpires`. `Timing`: the two readings are
  readings of the clock at some earlier moment. Their difference is then the number of
  units between them whatever `NSEC` is, and `Unsigned` gives the comparison its
  meaning.
* `TimeoutVerdictTheorem`, the action property, for endtimes `lt_timeout_add` has set
  and whatever `Garbage` is. (For an endtime nobody has set, with nanoseconds out of
  range, `lt_ev_check_timeout` really does compare seconds first and errs.)
  `CarryBound` shows that `lt_time_addition` leaves nanoseconds in `0..NSEC`, a whole
  second included, and `SecondsFirst` that comparing seconds before nanoseconds is
  sound there.
* `ReactorHeapTheorem`: `Filled` and `Agrees` of the reactor's own heap, from the
  lemmas of `LeaHeapProofs`. `NoWildErase` follows from it: while `intact` holds the
  process does not end in `lt_io_remove_wild`, so that re-arming an event and the
  erase under another endtime are the only roads to that crash.
* `ReactorTypes`: `Spec => []TypeOK`, put together from `Inv`, `Control` (the loop's
  control state), `HeapSound` and `Timing`.

**The pools** (`LtPoolProofs`; `PoolAssumption`, `StructAssumption`)

* `PoolTypes`: `Spec => []TypeOK`.
* `PoolBlocksApart`: `Spec => []BlocksApart`. The inductive invariant adds
  `Filled`: in each pool every element ends at or before `pos`, and `pos` lies
  behind the header. `BlocksApart` alone is not inductive, since nothing says
  where the next element will start. Copying a manager is harmless because `pos`
  is kept in the pool. The arithmetic is one lemma: `alignment_ptr` rounds up.
* `PoolOverrunOnce`, `PoolChainComplete` and the action property
  `PoolDestroyFreesAll` share `ListInv`: while nothing is shared, managers own
  different pools (`Separate`), a manager's pools form a chain from head to tail
  (`Chained`), the tail has room unless it was starved (`TailRoom`), no element starts behind its
  pool's end (`StartsByEnd`; with `BlocksApart` it follows that only the last one can
  reach over it), and what was
  freed belongs to no manager that is ready (`FreedApart`).

**The proxy** (`ProxyPairProofs`; `PairAssumption`)

* `ProxyTypes`, `ProxyServesReady`, `ProxyOrderlyRelay` from one invariant. It adds
  to these properties how the start-up leads to the loop (`Started`), that the
  parser stands within its buffer (`Within`), that nothing of upstream's is read
  before the handler for it is in place (`Unread`; where the pair has no event, never), and that, as long as nothing was
  lost, a response is awaited at its first piece and all else has been read
  (`Answered`): without it, a second response could be taken for a rest of the first.
* `ProxyResponsesRelayed`, `ProxyRequestsRelayed`: `Spec => P` for both refinements
  of `LossyRelay`: every step maps to `Pass` or to a stutter.
* `ProxyForwardsOnce`: upstream gets no request twice and none before an earlier one.
  The invariant `Forwarded` bounds what upstream got by how far parsing has come.

**The parsers and the chains** (`HttpHeadProofs`; `HeadAssumption`, and
`FormAssumption` where said above). The theorems are about buffers, chains and Host
values of any length, that is about loops over data. They use the least
counterexample in place of induction: a set of the positions at which a claim fails
has a least element (`LeastNumber`), at which the recursive definition gives the
contradiction. `Upto`, `send_chains`, `HostLoop`, `ValidUpto` and `FlattenSeq` are
characterised once this way (`UptoStep`, `SendChainsCounts`, `HostLoopInv`,
`ValidUptoStep`, `FlattenStep`), and no later proof looks inside them.

* `HostFound`: for every value, `http_process_host` returns the length of the name the
  value starts with. `HostInv` is the loop's invariant: what `dot_pos`, `host_len` and
  the state say of the characters seen so far.
* `TypeCorrect`, `Inside`, `SendResultRight`: `Spec => []P` for `TypeOK`,
  `ElementsInside` and `SendResult`, from `HeadInv`. It adds to these `Pointers`: in
  each state of the header machine the pointers that were set so far are ordered
  and lie before `p`. `ElementsInside` alone is not inductive: that an element's end
  is not before its start rests on which states lead to which (`HeaderEdges`).
* `ElementsRight`: `Spec => []ElementsAgree`, from `AgreeInv`. `Place` says where among the written parts the parser stands and which
  pointers it has set there: the first-line parsers leave a line with its line feed
  and only there, the header machine a header line likewise (`LineStep`,
  `LineComplete`). `Untouched`: from the line under way on, the buffer is as the peer
  filled it, although names before it were put in lower case.
* `ExactRight`: `Spec => []ExactForwarded`, from three more. `LineInv`: behind a
  first line of the usual form the pointers of the `request_t` are the marks between
  its parts, and `complex_uri` is still clear, if the memory was zero at first. It is
  what makes the preconditions for requests necessary: the flag is never reset, and
  only a line that ends in CR LF sets `request_end` anew. `TextInv`: what the buffer holds for a head is what is to go out
  for it, as far as the parser has come, and the elements found are its lines, all and
  in order. `ChainInv`: the pieces of a chain meet end to start (`Chained`) from the
  head's first character to its last; `ChainedRight` gives the sum of their lengths.

Only model-checked:

* `LaggedServed`, `ResponseRead`, `HeadsForwarded` and `PostedRuns`: liveness under
  fairness is out of the prover's reach.
* `HostLengths`: what `http_process_host` does to a value is proved (`HostFound`); that
  its caller stores it is checked.

## Plan

1. **Buffers**: `lt_recv` and `send_buffers` on chains of several buffers at the
   level of their loops. Today nothing is sent again after a partial write, so
   that what the loops leave behind is never read.
2. **Server**: several connections that share the connection and buffer pools.
   They interact only through the pools, which `LtPool` covers, and through
   descriptors that are never closed.
