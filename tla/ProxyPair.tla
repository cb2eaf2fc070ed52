------------------------------ MODULE ProxyPair -----------------------------
(***************************************************************************)
(* One client connection of http.c and its upstream pair of proxy.c, with  *)
(* the socket calls of buffer_op_lea.c they make.  Handlers run one at a   *)
(* time, in any order the reactor calls them; the peers send and close     *)
(* between any two of their steps.                                         *)
(*                                                                         *)
(* A stream is a sequence of pieces, and a read may end after each of      *)
(* them.  Request n is the three pieces 3n-2 .. 3n of the client's stream: *)
(* the first and the second half of the request line, and the headers.     *)
(* The response to the n-th request upstream got is the four pieces        *)
(* 4n-3 .. 4n of upstream's stream: two halves of the status line, the     *)
(* headers, the body.  Requests and responses are well-formed, have at     *)
(* least one header, and a body does not look like a status line.  What    *)
(* the parsers make of their characters is the subject of HttpHead.        *)
(***************************************************************************)
EXTENDS Integers, Sequences, FiniteSetsExt

CONSTANTS
  MaxRequests,  \* bound on the requests the client sends
  BUF,          \* pieces one lt_buffer_t holds
  MaxAddr       \* bound on the addresses the server may try to listen on

ASSUME PairAssumption == MaxRequests \in Nat /\ BUF \in Nat \ {0} /\ MaxAddr \in Nat \ {0}

\* What the functions of buffer_op_lea.c and the parsers return.
LOK == 0
LERROR == -2
LAGAIN == -3
LCLOSE == -5
HTTP_PARSE_HEADER_DONE == 1
INVALID == 10   \* any of the parsers' NGX_HTTP_PARSE_INVALID_...

\* The values of connection_t.status: both sides share numbers.
L_PROXY_CONNECTED == -1
L_PROXY_CONNECTING == -2
L_PROXY_WAITING_RESPONSE == -4
L_HTTP_WRITING_RESPONSE_HEADER == -4
L_PROXY_WRITING == -5
L_PROXY_ERROR == -6
L_HTTP_ERROR == -6
L_PROXY_CLOSING == -8
L_HTTP_CLOSING == -8

\* Mutant: the number is that of another status, as several numbers are.
L_HTTP_WROTE_RESPONSE_HEADER_shared == -4

L_HTTP_WROTE_RESPONSE_HEADER == -9

VARIABLES
  mode,      \* what the process does: waits, parses a client's buffer, or has stopped
  status,    \* status of the upstream connection; the client's is always ACCEPTED
  callback,  \* the upstream event's callback; "unset" where pair->ev was never assigned
  pos, last, \* the client's buffer being parsed: next piece, last piece
  csent, cread,      \* pieces the client has sent, pieces lt_recv has taken
  socket,    \* the upstream socket: "none", "connecting", "established", "failed"
  writable,  \* an edge for EPOLLOUT on it is pending or already in the report
  usent, uread,      \* pieces upstream has sent, pieces lt_recv has taken
  uend,      \* how upstream has ended its stream: "open", "fin", "reset"
  endseen,   \* that end has been reported
  up,        \* what upstream got: the request, and whether it is "whole", "part" or "mangled"
  cout,      \* pieces of upstream's stream the client got
  orderly,   \* history: nothing happened so far that loses a response
  stage, left, sock, sigpipe   \* the start of the server, see HttpListen

Listen == INSTANCE HttpListen

process == <<mode, status, callback, pos, last>>
network == <<csent, cread, socket, writable, usent, uread, uend, endseen>>
start   == <<stage, left, sock, sigpipe>>
vars    == <<process, network, up, cout, orderly, start>>

Stopped == {"spinning", "crashed", "exited"}

Init ==
  /\ mode = "listening" /\ status = 0 /\ callback = "unset"
  /\ pos = 1 /\ last = 0
  /\ csent = 0 /\ cread = 0
  /\ socket = "none" /\ writable = FALSE
  /\ usent = 0 /\ uread = 0 /\ uend = "open" /\ endseen = FALSE
  /\ up = <<>> /\ cout = <<>> /\ orderly = TRUE
  /\ Listen!Init

start_up == Listen!Next /\ UNCHANGED <<process, network, up, cout, orderly>>

-----------------------------------------------------------------------------
(* The peers and the kernel.                                               *)

ClientSends ==
  /\ mode # "listening" /\ csent < 3 * MaxRequests
  /\ csent' = csent + 1
  /\ UNCHANGED <<process, cread, socket, writable, usent, uread, uend, endseen, up, cout, orderly>>

ConnectEnds ==
  /\ socket = "connecting"
  /\ writable' = (callback = "proxy_connect_writable")
  /\ \/ socket' = "established" /\ UNCHANGED uend
     \/ socket' = "failed" /\ uend' = "reset"
  /\ UNCHANGED <<process, csent, cread, usent, uread, endseen, up, cout, orderly>>

\* Upstream answers in order, and waits for the rest of a request cut short.
Answerable == {n \in 1..Len(up) : \A k \in 1..n : up[k].got # "part"}

UpstreamSends ==
  /\ socket = "established" /\ uend = "open"
  /\ usent < 4 * Cardinality(Answerable)
  /\ usent' = usent + 1
  /\ UNCHANGED <<process, csent, cread, socket, writable, uread, uend, endseen, up, cout, orderly>>

UpstreamEnds ==
  /\ socket = "established" /\ uend = "open"
  /\ uend' \in {"fin", "reset"}
  /\ writable' = (writable \/ callback = "proxy_connect_writable")
  /\ UNCHANGED <<process, csent, cread, socket, usent, uread, endseen, up, cout, orderly>>

-----------------------------------------------------------------------------
(* Accepting.                                                              *)

\* Where connect succeeds or fails at once no event is made for the pair.
proxy_connect ==
  \/ /\ socket' = "connecting" /\ status' = L_PROXY_CONNECTING
     /\ callback' = "proxy_connect_writable"
     /\ UNCHANGED uend
  \/ /\ socket' = "established" /\ status' = L_PROXY_CONNECTED
     /\ UNCHANGED <<callback, uend>>
  \/ /\ socket' = "failed" /\ uend' = "reset"
     /\ status' \in {0, L_PROXY_CONNECTING}
     /\ UNCHANGED callback

\* The client's event is registered first, and the connection stays when
\* proxy_connect fails.
http_init_connection ==
  /\ proxy_connect
  /\ mode' = "idle"
  /\ UNCHANGED <<pos, last, csent, cread, writable, usent, uread, endseen, up, cout, orderly>>

start_accept == stage = "loop" /\ mode = "listening" /\ http_init_connection

\* Descriptors are never closed: accept4 may fail for any later client, and
\* start_accept then ends the process.
start_accept_fails ==
  /\ stage = "loop" /\ mode \in {"listening", "idle"}
  /\ mode' = "exited"
  /\ UNCHANGED <<status, callback, pos, last, network, up, cout, orderly>>

proxy_connect_writable ==
  /\ mode = "idle" /\ callback = "proxy_connect_writable" /\ writable
  /\ writable' = FALSE
  /\ status' = IF uend # "reset" THEN L_PROXY_CONNECTED ELSE status
  /\ UNCHANGED <<mode, callback, pos, last, csent, cread, socket, usent, uread, uend, endseen, up, cout, orderly>>

-----------------------------------------------------------------------------
(* Sending.                                                                *)

\* What writev did: everything, part of it, or an error.
Writev == {"all", "part", "EAGAIN", "EPIPE", "error"}

\* A return of 0 from writev is treated as EPIPE is.
send_chains(w) ==
  CASE w = "all"                -> LOK
    [] w \in {"part", "EAGAIN"} -> LAGAIN
    [] w = "EPIPE"              -> LCLOSE
    [] w = "error"              -> LERROR

\* The chain's last element has no next set.  send_chains follows it, and on a
\* partial write stores through it; and destructor_chains frees a pool twice
\* when the chain needed more than one.
MayDie(w) == w \in {"all", "part"}

\* What writev can do on the upstream socket.
UpstreamWritev ==
  CASE socket = "connecting"                         -> {"EAGAIN"}
    [] socket = "established" /\ uend # "reset"      -> Writev
    [] OTHER                                         -> {"EPIPE", "error"}

\* The switch of http_send_to_upstream.  The callback posted for LAGAIN is
\* never called.
UpstreamStatus(rv) ==
  CASE rv = LOK    -> L_PROXY_WAITING_RESPONSE
    [] rv = LAGAIN -> L_PROXY_WRITING
    [] rv = LCLOSE -> L_PROXY_CLOSING
    [] rv = LERROR -> L_PROXY_ERROR

\* The switch of http_send_to_client.
ClientStatus(rv) ==
  CASE rv = LOK    -> L_HTTP_WROTE_RESPONSE_HEADER
    [] rv = LAGAIN -> L_HTTP_WRITING_RESPONSE_HEADER
    [] rv = LCLOSE -> L_HTTP_CLOSING
    [] rv = LERROR -> L_HTTP_ERROR

\* Mutant: the connect handler stays.
CallbackAfterSendKept == callback

\* The event's callback after the lt_io_mod that ends http_send_to_upstream,
\* which does nothing where it is passed NULL.
CallbackAfterSend == IF callback = "unset" THEN "unset" ELSE "proxy_data_coming"

\* A response under way is lost when the status is taken away from it.
SendKeepsOrder(w) ==
  uread = 4 * Len(up) \/ (status = L_PROXY_WAITING_RESPONSE /\ w = "all")

\* http_send_to_upstream of request n.  With pair->ev unset, lt_io_mod finds
\* NULL in it and no handler is registered, or writes through what it holds.
http_send_to_upstream(n, got) ==
  \E w \in UpstreamWritev :
    \/ /\ up' = IF w \in {"all", "part"}
                THEN Append(up, [n |-> n, got |-> IF w = "all" THEN got ELSE "part"]) ELSE up
       /\ status' = UpstreamStatus(send_chains(w))
       /\ callback' = CallbackAfterSend
       /\ endseen' = FALSE
       /\ orderly' = (orderly /\ SendKeepsOrder(w))
       /\ UNCHANGED mode
    \/ /\ callback = "unset" \/ MayDie(w)
       /\ mode' = "crashed"
       /\ UNCHANGED <<up, status, callback, endseen, orderly>>

-----------------------------------------------------------------------------
(* The client's side.                                                      *)

\* Mutant: the buffer is taken to be full.
lt_recv_full(read, sent) == read + BUF

\* The last piece of the first buffer lt_recv fills, when read pieces of the
\* sent ones had been taken before; it takes them all.
lt_recv(read, sent) == Min({read + BUF, sent})

\* http_data_coming reads into a new chain of buffers, of which the first is
\* parsed.  A result of LCLOSE or LERROR changes nothing.  A report holds a
\* descriptor once: when the client's comes up again, a stale entry of the
\* pair's in an earlier report is gone.
http_data_coming ==
  /\ mode = "idle" /\ cread < csent
  /\ mode' = "parsing"
  /\ pos' = cread + 1 /\ last' = lt_recv(cread, csent)
  /\ cread' = csent
  /\ writable' = (writable /\ callback = "proxy_connect_writable")
  /\ UNCHANGED <<status, callback, csent, socket, usent, uread, uend, endseen, up, cout, orderly>>

Request(p) == (p + 2) \div 3

\* Which of its request's pieces p is.
Part(p) == ((p - 1) % 3) + 1

\* The results the parser may give from p on.  A request line whose first half
\* an earlier read took may still look like one; a header never does.
ngx_http_parse_request_line(p) ==
  CASE p > last                 -> {LAGAIN}
    [] p <= last /\ Part(p) = 1 -> IF p = last THEN {LAGAIN} ELSE {LOK}
    [] p <= last /\ Part(p) = 2 -> {LOK, INVALID}
    [] p <= last /\ Part(p) = 3 -> {INVALID}

\* The result for the header piece h of a buffer that ends at end.
ngx_http_parse_header_line(h, end) == IF h <= end THEN HTTP_PARSE_HEADER_DONE ELSE LAGAIN

\* Mutant: parsing goes on where the request began.
AfterRequestAgain(p) == p

\* Where the next request of the buffer starts.
AfterRequest(p) == 3 * Request(p) + 1

\* http_process_request_line, one request of the buffer.  A request read as a
\* whole is mangled where its URI is not plain, or the memory of its request
\* or an earlier request of the buffer says so.
http_process_request_line ==
  /\ mode = "parsing" /\ LOK \in ngx_http_parse_request_line(pos)
  /\ ngx_http_parse_header_line(3 * Request(pos), last) = HTTP_PARSE_HEADER_DONE
  /\ \E got \in (IF Part(pos) = 1 THEN {"whole", "mangled"} ELSE {"mangled"}) :
       http_send_to_upstream(Request(pos), got)
  /\ pos' = AfterRequest(pos)
  /\ UNCHANGED <<last, csent, cread, socket, writable, usent, uread, uend, cout>>

\* The request line is there and its headers are not: the loop of
\* http_process_request_headers calls the parser on the same bytes for ever.
request_headers_spin ==
  /\ mode = "parsing" /\ LOK \in ngx_http_parse_request_line(pos)
  /\ ngx_http_parse_header_line(3 * Request(pos), last) = LAGAIN
  /\ mode' = "spinning"
  /\ UNCHANGED <<status, callback, pos, last, network, up, cout, orderly>>

\* The buffer is used up, ends within a request line, or does not start with
\* one: its rest is dropped.
request_line_ends ==
  /\ mode = "parsing" /\ ngx_http_parse_request_line(pos) \cap {LAGAIN, INVALID} # {}
  /\ mode' = "idle"
  /\ UNCHANGED <<status, callback, pos, last, network, up, cout, orderly>>

-----------------------------------------------------------------------------
(* Upstream's side.                                                        *)

First == lt_recv(uread, usent)

\* The results the parser may give on the first buffer of this read; what is no
\* status line does not start like one.  A whole one may be refused too: the
\* digits of its code are counted from what the memory of the request held.
ngx_http_parse_status_line ==
  CASE uread % 4 # 0                       -> {LERROR}
    [] uread % 4 = 0 /\ First >= uread + 2 -> {LOK, LERROR}
    [] uread % 4 = 0 /\ First < uread + 2  -> {LAGAIN}

\* What http_process_request_headers finds behind the status line.
HeaderRead == ngx_http_parse_header_line(uread + 3, First)

\* Mutant: the body is sent from the start of the buffer.
BodyFromStart(h) == uread + 1

\* Where send_buffers starts: behind the header if it was in this read.
BodyFrom(h) == IF h THEN uread + 4 ELSE uread + 1

Pieces(a, b) == [k \in 1..(b - a + 1) |-> a + k - 1]

\* What the client gets from send_buffers, if writev takes all or no more
\* than the first k whole pieces; it looks no further when the first buffer is empty.
send_buffers(from, w, k) ==
  IF from > First \/ w \notin {"all", "part"} THEN <<>>
  ELSE IF w = "all" THEN Pieces(from, usent) ELSE Pieces(from, from + k - 1)

\* Causes for which a response, or a part of it, does not reach the client.
HeadLost == uread % 4 = 0
Overflow == usent > First
BodyShort(from, v) == from <= First /\ v # "all"

\* The pair's event is reported for what has arrived, or the report was made
\* for the EPOLLOUT of the callback that http_send_to_upstream has replaced.
Reported ==
  /\ mode = "idle" /\ callback = "proxy_data_coming" /\ socket # "connecting"
  /\ uread < usent \/ (uend # "open" /\ ~endseen) \/ writable

Readable == Reported /\ uread < usent

\* recv returns 0 or an error after the pieces it had.
Ending == uend # "open"

\* lt_recv returns LCLOSE or LERROR when the stream has ended, also when it
\* has read pieces before: the handler drops them.
proxy_data_coming_end ==
  /\ Reported /\ Ending
  /\ status' = IF uend = "fin" THEN L_PROXY_CLOSING ELSE L_PROXY_ERROR
  /\ uread' = usent /\ writable' = FALSE /\ endseen' = TRUE
  /\ orderly' = (orderly /\ uread = usent)
  /\ UNCHANGED <<mode, callback, pos, last, csent, cread, socket, usent, uend, up, cout>>

\* A response is awaited and the read starts with a whole header: the header
\* is sent to the client, and what follows it is sent only if that was
\* complete.
proxy_data_coming_header ==
  /\ Readable /\ ~Ending
  /\ status = L_PROXY_WAITING_RESPONSE
  /\ LOK \in ngx_http_parse_status_line /\ HeaderRead = HTTP_PARSE_HEADER_DONE
  /\ \E w, v \in Writev, k \in 0..2, j \in 0..(MaxRequests * 4) :
       /\ status' = ClientStatus(send_chains(w))
       /\ cout' = cout \o (CASE w = "all"  -> Pieces(uread + 1, uread + 3) \o send_buffers(BodyFrom(TRUE), v, j)
                             [] w = "part" -> Pieces(uread + 1, uread + k)
                             [] OTHER      -> <<>>)
       /\ v = "part" => j <= usent - BodyFrom(TRUE)
       /\ orderly' = (orderly /\ w = "all" /\ ~BodyShort(BodyFrom(TRUE), v) /\ ~Overflow)
  /\ uread' = usent /\ writable' = FALSE
  /\ UNCHANGED <<mode, callback, pos, last, csent, cread, socket, usent, uend, endseen, up>>

\* A response is awaited and the read does not start with a status line that
\* is whole and taken for one: it is dropped, and the status stays.
proxy_data_coming_dropped ==
  /\ Readable /\ ~Ending
  /\ status = L_PROXY_WAITING_RESPONSE
  /\ ngx_http_parse_status_line \cap {LERROR, LAGAIN} # {}
  /\ uread' = usent /\ writable' = FALSE
  /\ orderly' = (orderly /\ ~HeadLost)
  /\ UNCHANGED <<mode, status, callback, pos, last, csent, cread, socket, usent, uend, endseen, up, cout>>

\* Nothing to read (LAGAIN): the status becomes that of a response awaited, and
\* the parser asks for more.
proxy_data_coming_nothing ==
  /\ Reported /\ ~Ending /\ uread = usent
  /\ status' = L_PROXY_WAITING_RESPONSE
  /\ writable' = FALSE
  /\ UNCHANGED <<mode, callback, pos, last, csent, cread, socket, usent, uread, uend, endseen, up, cout, orderly>>

\* The header loop without a whole header, as on the client's side; or the
\* pair's free list of requests, which nobody has set, leads anywhere; or
\* send_chains or send_buffers store through a wild pointer.
proxy_data_coming_stops ==
  /\ Readable /\ ~Ending
  /\ \/ /\ status = L_PROXY_WAITING_RESPONSE
        /\ LOK \in ngx_http_parse_status_line /\ HeaderRead = LAGAIN
        /\ mode' = "spinning"
     \/ /\ status \in {L_PROXY_WAITING_RESPONSE, L_HTTP_WROTE_RESPONSE_HEADER}
        /\ mode' = "crashed"
  /\ UNCHANGED <<status, callback, pos, last, network, up, cout, orderly>>

\* The header has been sent: everything read is body and is passed on.
proxy_data_coming_body ==
  /\ Readable /\ ~Ending
  /\ status = L_HTTP_WROTE_RESPONSE_HEADER
  /\ \E v \in Writev, j \in 0..(MaxRequests * 4) :
       /\ v = "part" => j <= usent - BodyFrom(FALSE)
       /\ cout' = cout \o send_buffers(BodyFrom(FALSE), v, j)
       /\ orderly' = (orderly /\ ~BodyShort(BodyFrom(FALSE), v))
  /\ uread' = usent /\ writable' = FALSE
  /\ UNCHANGED <<mode, status, callback, pos, last, csent, cread, socket, usent, uend, endseen, up>>

\* In every other status what was read is dropped.
proxy_data_coming_other ==
  /\ Readable /\ ~Ending
  /\ status \notin {L_PROXY_WAITING_RESPONSE, L_HTTP_WROTE_RESPONSE_HEADER}
  /\ uread' = usent /\ writable' = FALSE
  /\ UNCHANGED <<mode, status, callback, pos, last, csent, cread, socket, usent, uend, endseen, up, cout, orderly>>

proxy_data_coming ==
  \/ proxy_data_coming_end
  \/ proxy_data_coming_header
  \/ proxy_data_coming_dropped
  \/ proxy_data_coming_nothing
  \/ proxy_data_coming_stops
  \/ proxy_data_coming_body
  \/ proxy_data_coming_other

process_client == http_process_request_line \/ request_headers_spin \/ request_line_ends

Next ==
  \/ start_up
  \/ /\ \/ ClientSends \/ ConnectEnds \/ UpstreamSends \/ UpstreamEnds
        \/ start_accept \/ start_accept_fails
        \/ http_data_coming \/ process_client
        \/ proxy_connect_writable \/ proxy_data_coming
     /\ UNCHANGED start

Spec == Init /\ [][Next]_vars

\* The loop calls the callbacks of descriptors that stay ready, and a handler
\* runs on once it is called.
FairSpec ==
  /\ Spec
  /\ WF_vars(process_client /\ UNCHANGED start)
  /\ WF_vars(proxy_data_coming /\ UNCHANGED start)

-----------------------------------------------------------------------------
(* Properties.                                                             *)

\* Types of the connections' fields and of the streams.
TypeOK ==
  /\ mode \in {"listening", "idle", "parsing"} \cup Stopped
  /\ status \in -9..0
  /\ callback \in {"unset", "proxy_connect_writable", "proxy_data_coming"}
  /\ pos \in 1..(3 * MaxRequests + 1) /\ last \in 0..csent
  /\ csent \in 0..(3 * MaxRequests) /\ cread \in 0..csent
  /\ socket \in {"none", "connecting", "established", "failed"}
  /\ usent \in 0..(4 * Len(up)) /\ uread \in 0..usent
  /\ uend \in {"open", "fin", "reset"}
  /\ writable \in BOOLEAN /\ endseen \in BOOLEAN /\ orderly \in BOOLEAN
  /\ up \in Seq([n : 1..MaxRequests, got : {"whole", "part", "mangled"}])
  /\ cout \in Seq(1..usent)
  /\ left \in 0..MaxAddr /\ sock \in {"none", "closed", "bound", "listening"}

\* The streams of pieces taken from the client and passed to upstream: the
\* last piece of a request stands for it.
Requests ==
  INSTANCE LossyRelay WITH
    taken <- IF mode = "parsing" THEN pos - 1 ELSE cread,
    out   <- [k \in 1..Len(up) |-> 3 * up[k].n]

\* Whatever reads are split and writes fail, and although every read starts
\* over on a new buffer: http_process_request_line forwards a request at most
\* once, in the order they came, and only while it parses the read that ends
\* it.
RequestsRelayed == Requests!Spec

Responses == INSTANCE LossyRelay WITH taken <- uread, out <- cout

\* proxy_data_coming passes to the client nothing but what it has just read,
\* once and in order, although header and body are sent by different functions
\* from one buffer, by way of a status that requests change.
ResponsesRelayed == Responses!Spec

\* The client gets everything upstream answered, as long as no response is
\* cut within its header by a read or its status line refused, no read overflows a buffer, no write is
\* short, the stream does not end along with data, and no request is sent
\* while a response is under way.
OrderlyRelay == orderly => cout = Pieces(1, uread)

\* Clients are served on a socket that is bound and listens, whichever of the
\* addresses failed before, and with SIGPIPE ignored, so that the EPIPE of
\* send_chains and send_buffers is a result and not the end of the process.
ServesReady == mode # "listening" => sock = "listening" /\ sigpipe = "ignored"

\* Whatever happened to the requests before it, upstream's data is read in
\* the end wherever proxy_connect has made an event for the pair: the
\* unconditional lt_io_mod of http_send_to_upstream always leaves the handler
\* that reads it in place.
ResponseRead ==
  uread < usent /\ callback # "unset" ~> uread = usent \/ mode \in Stopped
=============================================================================
