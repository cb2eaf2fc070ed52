--------------------------- MODULE ProxyPairProofs --------------------------
(***************************************************************************)
(* Proofs about the proxy for every number of requests, every size of a    *)
(* buffer and every number of addresses: the server's start, the types of  *)
(* both connections, what the client gets, and that both directions        *)
(* implement LossyRelay.                                                   *)
(***************************************************************************)
EXTENDS ProxyPair, FiniteSetTheorems, SequenceTheorems, TLAPS

\* The loop runs on a socket that listens, and clients come when it runs.
Started ==
  /\ stage = "lt_ignore_sigpipe" => sock = "listening"
  /\ stage = "loop" => sock = "listening" /\ sigpipe = "ignored"
  /\ mode # "listening" => stage = "loop"

\* The parser stands within the buffer, or just behind it.
Within == mode = "parsing" => pos <= last + 1 /\ last <= cread

\* Nothing of upstream's is read before a request has put the handler in place
\* that reads it, and a stale report of EPOLLOUT is used up by the first read.
Unread ==
  /\ mode = "listening" => callback = "unset" /\ up = <<>>
  /\ callback = "proxy_connect_writable" => up = <<>>
  /\ callback # "proxy_data_coming" => uread = 0
  /\ writable => uread = 0

\* As long as nothing was lost: outside a response all that upstream may answer
\* has been read, and a response is awaited at its first piece.
Answered ==
  orderly /\ uend = "open" =>
    /\ \/ status \in {L_PROXY_WAITING_RESPONSE, L_HTTP_WROTE_RESPONSE_HEADER}
       \/ uread = usent /\ 4 * Cardinality(Answerable) <= uread
    /\ status = L_PROXY_WAITING_RESPONSE => uread % 4 = 0

Inv == TypeOK /\ Started /\ Within /\ Unread /\ Answered /\ OrderlyRelay

-----------------------------------------------------------------------------
(* The operators.                                                          *)

\* The end of the first buffer is the end of the data or of its room.
LEMMA RecvBound ==
  ASSUME NEW a \in Nat, NEW b \in Nat
  PROVE  /\ lt_recv(a, b) \in Nat
         /\ lt_recv(a, b) <= b /\ lt_recv(a, b) <= a + BUF
         /\ lt_recv(a, b) \in {a + BUF, b}
<1>1. a + BUF \in Nat
  BY PairAssumption
<1>2. \E x \in {a + BUF, b} : \A y \in {a + BUF, b} : x <= y
  BY <1>1
<1>3. QED
  BY <1>1, <1>2 DEF lt_recv, Min

\* A run of pieces is the sequence of their numbers.
LEMMA PiecesRun ==
  ASSUME NEW a \in Int, NEW b \in Int, b >= a - 1
  PROVE  /\ Pieces(a, b) \in Seq(a..b) /\ Pieces(a, b) \in Seq(Int)
         /\ Len(Pieces(a, b)) = b - a + 1
         /\ \A k \in 1..(b - a + 1) : Pieces(a, b)[k] = a + k - 1
<1>1. b - a + 1 \in Nat
  OBVIOUS
<1>2. Pieces(a, b) \in [1..(b - a + 1) -> a..b]
  BY DEF Pieces
<1>3. Pieces(a, b) \in [1..(b - a + 1) -> Int]
  BY DEF Pieces
<1>4. Pieces(a, b) \in Seq(a..b) /\ Len(Pieces(a, b)) = b - a + 1
  BY <1>1, <1>2
<1>5. Pieces(a, b) \in Seq(Int)
  BY <1>1, <1>3
<1>6. QED
  BY <1>4, <1>5 DEF Pieces

\* Runs that follow each other make a longer run.
LEMMA PiecesJoin ==
  ASSUME NEW a \in Int, NEW m \in Int, NEW b \in Int, m >= a - 1, b >= m
  PROVE  Pieces(a, m) \o Pieces(m + 1, b) = Pieces(a, b)
<1> DEFINE s == Pieces(a, m) \o Pieces(m + 1, b)
<1>1. /\ Pieces(a, m) \in Seq(Int) /\ Len(Pieces(a, m)) = m - a + 1
      /\ \A k \in 1..(m - a + 1) : Pieces(a, m)[k] = a + k - 1
  BY PiecesRun
<1>2. /\ Pieces(m + 1, b) \in Seq(Int) /\ Len(Pieces(m + 1, b)) = b - m
      /\ \A k \in 1..(b - m) : Pieces(m + 1, b)[k] = m + k
  <2>1. m + 1 \in Int /\ b >= (m + 1) - 1 /\ b - (m + 1) + 1 = b - m
    OBVIOUS
  <2>2. /\ Pieces(m + 1, b) \in Seq(Int) /\ Len(Pieces(m + 1, b)) = b - (m + 1) + 1
        /\ \A k \in 1..(b - (m + 1) + 1) : Pieces(m + 1, b)[k] = (m + 1) + k - 1
    BY <2>1, PiecesRun
  <2>3. QED
    BY <2>1, <2>2
<1>3. /\ Pieces(a, b) \in Seq(Int) /\ Len(Pieces(a, b)) = b - a + 1
      /\ \A k \in 1..(b - a + 1) : Pieces(a, b)[k] = a + k - 1
  <2>1. b >= a - 1
    OBVIOUS
  <2>2. QED
    BY <2>1, PiecesRun
<1>4. /\ s \in Seq(Int) /\ Len(s) = Len(Pieces(a, m)) + Len(Pieces(m + 1, b))
      /\ \A k \in 1..(Len(Pieces(a, m)) + Len(Pieces(m + 1, b))) :
           s[k] = IF k <= Len(Pieces(a, m)) THEN Pieces(a, m)[k] ELSE Pieces(m + 1, b)[k - Len(Pieces(a, m))]
  BY <1>1, <1>2, ConcatProperties
<1> HIDE DEF s
<1>5. Len(s) = b - a + 1
  BY <1>1, <1>2, <1>4
<1>6. ASSUME NEW k \in 1..(b - a + 1) PROVE s[k] = a + k - 1
  <2>1. s[k] = IF k <= m - a + 1 THEN Pieces(a, m)[k] ELSE Pieces(m + 1, b)[k - (m - a + 1)]
    BY <1>1, <1>2, <1>4
  <2>2. CASE k <= m - a + 1
    BY <1>1, <2>1, <2>2
  <2>3. CASE k > m - a + 1
    <3>1. k - (m - a + 1) \in 1..(b - m)
      BY <2>3
    <3>2. QED
      BY <1>2, <2>1, <2>3, <3>1
  <2>4. QED
    BY <2>2, <2>3
<1>7. s = Pieces(a, b)
  BY <1>3, <1>4, <1>5, <1>6, SeqEqual
<1>8. QED
  BY <1>7 DEF s

\* A set of the first n numbers has at most n elements: upstream can answer no
\* more requests than it got.
LEMMA AnswerableCount ==
  ASSUME NEW n \in Nat, NEW S, S \subseteq 1..n
  PROVE  Cardinality(S) \in Nat /\ Cardinality(S) <= n
<1>1. IsFiniteSet(1..n) /\ Cardinality(1..n) = n
  BY FS_Interval
<1>2. QED
  BY <1>1, FS_Subset, FS_CardinalityType

\* Without a request there is nothing to answer.
LEMMA NothingAnswerable ==
  ASSUME up = <<>>
  PROVE  Cardinality(Answerable) = 0
<1>1. Answerable \subseteq 1..0
  BY DEF Answerable
<1>2. Answerable = {}
  BY <1>1
<1>3. QED
  BY <1>2, FS_EmptySet

-----------------------------------------------------------------------------
(* The server's start, the peers and the kernel.                           *)

\* Before the first call nothing has been sent.
LEMMA InitHolds == Init => Inv
<1> SUFFICES ASSUME Init PROVE Inv
  OBVIOUS
<1>1. TypeOK
  <2>1. up \in Seq([n : 1..MaxRequests, got : {"whole", "part", "mangled"}]) /\ cout \in Seq(1..usent)
    BY DEF Init
  <2>2. pos \in 1..(3 * MaxRequests + 1) /\ csent \in 0..(3 * MaxRequests) /\ last \in 0..csent
        /\ cread \in 0..csent /\ usent \in 0..(4 * Len(up)) /\ uread \in 0..usent
    BY PairAssumption DEF Init
  <2>3. status \in -9..0 /\ left \in 0..MaxAddr
    BY PairAssumption DEF Init, Listen!Init
  <2>4. QED
    BY <2>1, <2>2, <2>3 DEF Init, TypeOK, Listen!Init
<1>2. Started /\ Within /\ Unread
  BY DEF Init, Listen!Init, Started, Within, Unread
<1>3. Answered
  BY NothingAnswerable DEF Init, Answered, L_PROXY_WAITING_RESPONSE
<1>4. OrderlyRelay
  BY DEF Init, OrderlyRelay, Pieces
<1>5. QED
  BY <1>1, <1>2, <1>3, <1>4 DEF Inv

\* What a step that neither reads from upstream nor changes the status of the
\* connection preserves.
LEMMA SameRelay ==
  ASSUME Inv, UNCHANGED <<status, uread, up, cout, orderly>>, uend = "open" \/ uend' # "open",
         usent' = usent \/ usent < 4 * Cardinality(Answerable)
  PROVE  Answered' /\ OrderlyRelay'
<1>1. uread \in Nat /\ usent \in Nat /\ Len(up) \in Nat
  BY DEF Inv, TypeOK
<1>2. Cardinality(Answerable) \in Nat /\ Answerable' = Answerable
  BY <1>1, AnswerableCount DEF Answerable
<1>3. QED
  BY <1>1, <1>2 DEF Inv, Answered, OrderlyRelay, Pieces

\* The start of the server touches nothing of a connection.
LEMMA StartKeeps == ASSUME Inv, start_up PROVE Inv'
<1>1. UNCHANGED <<mode, status, callback, pos, last, csent, cread, socket, writable, usent, uread,
                  uend, endseen, up, cout, orderly>>
  BY DEF start_up, process, network
<1>2. left' \in 0..MaxAddr /\ sock' \in {"none", "closed", "bound", "listening"}
  BY PairAssumption DEF start_up, Inv, TypeOK, Listen!Next, Listen!exit_failure, Listen!lt_base_init,
     Listen!getaddrinfo, Listen!bind, Listen!bind_ends, Listen!listen, Listen!lt_ignore_sigpipe
<1>3. TypeOK'
  BY <1>1, <1>2 DEF Inv, TypeOK
<1>4. Started'
  BY <1>1 DEF start_up, Inv, Started, Listen!Next, Listen!exit_failure, Listen!lt_base_init,
     Listen!getaddrinfo, Listen!bind, Listen!bind_ends, Listen!listen, Listen!AfterListen,
     Listen!lt_ignore_sigpipe
<1>5. Within' /\ Unread'
  BY <1>1 DEF Inv, Within, Unread
<1>6. QED
  BY <1>1, <1>3, <1>4, <1>5, SameRelay DEF Inv

\* The peers and the kernel.
LEMMA NetworkKeeps ==
  ASSUME Inv, UNCHANGED start,
         ClientSends \/ ConnectEnds \/ UpstreamSends \/ UpstreamEnds
  PROVE  Inv'
<1>1. UNCHANGED <<mode, status, callback, pos, last, cread, uread, endseen, up, cout, orderly,
                  stage, left, sock, sigpipe>>
  BY DEF start, process, ClientSends, ConnectEnds, UpstreamSends, UpstreamEnds
<1>2. (uend = "open" \/ uend' # "open") /\ (usent' = usent \/ usent < 4 * Cardinality(Answerable))
  BY DEF ClientSends, ConnectEnds, UpstreamSends, UpstreamEnds
<1>3. usent' \in usent..(4 * Len(up))
  <2>1. usent \in Nat /\ usent <= 4 * Len(up) /\ Len(up) \in Nat
    BY DEF Inv, TypeOK
  <2>2. Cardinality(Answerable) <= Len(up) /\ Cardinality(Answerable) \in Nat
    BY <2>1, AnswerableCount DEF Answerable
  <2>3. QED
    BY <2>1, <2>2 DEF ClientSends, ConnectEnds, UpstreamSends, UpstreamEnds
<1>4. csent' \in csent..(3 * MaxRequests)
  BY PairAssumption DEF Inv, TypeOK, ClientSends, ConnectEnds, UpstreamSends, UpstreamEnds
<1>5. TypeOK'
  <2>1. cout \in Seq(1..usent')
    <3>1. 1..usent \subseteq 1..usent'
      BY <1>3 DEF Inv, TypeOK
    <3>2. QED
      BY <3>1, SeqMonotonic DEF Inv, TypeOK
  <2>2. socket' \in {"none", "connecting", "established", "failed"} /\ uend' \in {"open", "fin", "reset"}
    BY DEF Inv, TypeOK, ClientSends, ConnectEnds, UpstreamSends, UpstreamEnds
  <2>3. writable' \in BOOLEAN
    BY DEF Inv, TypeOK, ClientSends, ConnectEnds, UpstreamSends, UpstreamEnds
  <2>4. last \in 0..csent' /\ cread \in 0..csent' /\ csent' \in 0..(3 * MaxRequests)
    BY <1>4, PairAssumption DEF Inv, TypeOK
  <2>5. usent' \in 0..(4 * Len(up)) /\ uread \in 0..usent'
    BY <1>3 DEF Inv, TypeOK
  <2>6. QED
    BY <1>1, <2>1, <2>2, <2>3, <2>4, <2>5 DEF Inv, TypeOK
<1>6. Started' /\ Within'
  BY <1>1 DEF Inv, Started, Within
<1>7. Unread'
  <2>1. writable' => writable \/ callback = "proxy_connect_writable"
    BY Zenon DEF ClientSends, ConnectEnds, UpstreamSends, UpstreamEnds
  <2>2. QED
    BY <1>1, <2>1 DEF Inv, Unread
<1>8. QED
  BY <1>1, <1>2, <1>5, <1>6, <1>7, SameRelay DEF Inv

-----------------------------------------------------------------------------
(* The client's side.                                                      *)

\* A client is accepted, or accepting fails for good.
LEMMA AcceptKeeps ==
  ASSUME Inv, UNCHANGED start, start_accept \/ start_accept_fails
  PROVE  Inv'
<1>1. UNCHANGED <<pos, last, csent, cread, writable, usent, uread, endseen, up, cout, orderly,
                  stage, left, sock, sigpipe>>
  BY DEF start, network, start_accept, start_accept_fails, http_init_connection
<1>2. /\ mode' \in {"idle", "exited"} /\ stage = "loop"
      /\ uend' \in {uend, "reset"}
      /\ socket' \in {socket, "connecting", "established", "failed"}
      /\ callback' \in {callback, "proxy_connect_writable"}
      /\ callback' # callback => mode = "listening"
  BY DEF network, start_accept, start_accept_fails, http_init_connection, proxy_connect
<1>3. status' \in {status, 0, L_PROXY_CONNECTING, L_PROXY_CONNECTED} /\ (status' # status => mode = "listening")
  BY DEF start_accept, start_accept_fails, http_init_connection, proxy_connect
<1>4. TypeOK'
  <2>1. status' \in -9..0
    BY <1>3 DEF Inv, TypeOK, L_PROXY_CONNECTING, L_PROXY_CONNECTED
  <2>2. QED
    BY <1>1, <1>2, <2>1 DEF Inv, TypeOK, Stopped
<1>5. Started' /\ Within' /\ Unread'
  BY <1>1, <1>2 DEF Inv, Started, Within, Unread
<1>6. Answered'
  <2>1. CASE status' = status
    BY <1>1, <1>2, <2>1 DEF Inv, Answered, Answerable
  <2>2. CASE mode = "listening" /\ status' # status
    <3>1. up = <<>> /\ uread = 0 /\ usent = 0
      BY <2>2 DEF Inv, Unread, TypeOK
    <3>2. Cardinality(Answerable) = 0 /\ Answerable' = Answerable
      BY <1>1, <3>1, NothingAnswerable DEF Answerable
    <3>3. QED
      BY <1>1, <3>1, <3>2 DEF Answered
  <2>3. QED
    BY <1>3, <2>1, <2>2
<1>7. OrderlyRelay'
  BY <1>1 DEF Inv, OrderlyRelay, Pieces
<1>8. QED
  BY <1>4, <1>5, <1>6, <1>7 DEF Inv

\* The connect handler marks the connection connected.
LEMMA ConnectedKeeps ==
  ASSUME Inv, UNCHANGED start, proxy_connect_writable
  PROVE  Inv'
<1>1. UNCHANGED <<mode, callback, pos, last, csent, cread, socket, usent, uread, uend, endseen, up, cout,
                  orderly, stage, left, sock, sigpipe>> /\ writable' = FALSE
      /\ callback = "proxy_connect_writable" /\ status' \in {status, L_PROXY_CONNECTED}
  BY DEF start, proxy_connect_writable
<1>2. TypeOK'
  <2>1. status' \in -9..0
    BY <1>1 DEF Inv, TypeOK, L_PROXY_CONNECTED
  <2>2. QED
    BY <1>1, <2>1 DEF Inv, TypeOK
<1>3. Started' /\ Within' /\ Unread'
  BY <1>1 DEF Inv, Started, Within, Unread
<1>4. Answered'
  <2>1. up = <<>> /\ uread = 0 /\ usent = 0
    BY <1>1 DEF Inv, Unread, TypeOK
  <2>2. Cardinality(Answerable) = 0 /\ Answerable' = Answerable
    BY <1>1, <2>1, NothingAnswerable DEF Answerable
  <2>3. QED
    BY <1>1, <2>1, <2>2 DEF Answered
<1>5. OrderlyRelay'
  BY <1>1 DEF Inv, OrderlyRelay, Pieces
<1>6. QED
  BY <1>2, <1>3, <1>4, <1>5 DEF Inv

\* A read from the client fills a new buffer; giving up on a buffer, or in it,
\* changes only what the process does.
LEMMA ReadKeeps ==
  ASSUME Inv, UNCHANGED start, http_data_coming \/ request_headers_spin \/ request_line_ends
  PROVE  Inv'
<1>1. UNCHANGED <<status, callback, csent, socket, usent, uread, uend, endseen, up, cout, orderly,
                  stage, left, sock, sigpipe>>
  BY DEF start, network, http_data_coming, request_headers_spin, request_line_ends
<1>2. /\ mode \in {"idle", "parsing"} /\ mode' \in {"idle", "parsing", "spinning"}
      /\ mode' = "parsing" => http_data_coming
  BY DEF http_data_coming, request_headers_spin, request_line_ends
<1>3. cread \in Nat /\ csent \in Nat /\ cread <= csent /\ csent <= 3 * MaxRequests /\ last <= csent /\ last \in Nat
  BY PairAssumption DEF Inv, TypeOK
<1>4. ASSUME http_data_coming
      PROVE  pos' = cread + 1 /\ last' \in 0..csent /\ cread' = csent /\ cread < csent /\ cread <= last'
  <2>1. pos' = cread + 1 /\ last' = lt_recv(cread, csent) /\ cread' = csent /\ cread < csent
    BY <1>4 DEF http_data_coming
  <2>2. lt_recv(cread, csent) \in Nat /\ lt_recv(cread, csent) <= csent
        /\ lt_recv(cread, csent) \in {cread + BUF, csent}
    BY <1>3, RecvBound
  <2>3. QED
    BY <1>3, <2>1, <2>2, PairAssumption
<1>5. pos' \in 1..(3 * MaxRequests + 1) /\ last' \in 0..csent' /\ cread' \in 0..csent'
  <2>1. CASE http_data_coming
    BY <1>1, <1>3, <1>4, <2>1, PairAssumption
  <2>2. CASE UNCHANGED <<pos, last, cread>>
    BY <1>1, <2>2 DEF Inv, TypeOK
  <2>3. QED
    BY <2>1, <2>2 DEF network, request_headers_spin, request_line_ends
<1>6. writable' => writable
  BY Zenon DEF network, http_data_coming, request_headers_spin, request_line_ends
<1>7. writable' \in BOOLEAN
  BY DEF Inv, TypeOK, network, http_data_coming, request_headers_spin, request_line_ends
<1>8. TypeOK'
  BY <1>1, <1>2, <1>5, <1>7 DEF Inv, TypeOK, Stopped
<1>9. Started' /\ Unread'
  BY <1>1, <1>2, <1>6 DEF Inv, Started, Unread
<1>10. Within'
  BY <1>2, <1>3, <1>4 DEF Within
<1>11. QED
  BY <1>1, <1>8, <1>9, <1>10, SameRelay DEF Inv

\* A request is sent: the handler that reads the response is put in place if the
\* pair has an event, and what was lost so far is recorded.
LEMMA SendKeeps ==
  ASSUME Inv, NEW n \in 1..MaxRequests, NEW got \in {"whole", "mangled"},
         http_send_to_upstream(n, got), UNCHANGED <<usent, uread, uend, cout>>
  PROVE  /\ up' \in Seq([n : 1..MaxRequests, got : {"whole", "part", "mangled"}])
         /\ \/ up' = up
            \/ callback' # "proxy_connect_writable" /\ \E g \in {got, "part"} : up' = Append(up, [n |-> n, got |-> g])
         /\ mode' \in {mode, "crashed"} /\ status' \in -9..0
         /\ callback' \in {callback, "proxy_data_coming"}
         /\ endseen' \in BOOLEAN /\ orderly' \in BOOLEAN
         /\ Answered' /\ OrderlyRelay'
<1>1. PICK w \in Writev :
        \/ /\ up' = IF w \in {"all", "part"}
                    THEN Append(up, [n |-> n, got |-> IF w = "all" THEN got ELSE "part"]) ELSE up
           /\ status' = UpstreamStatus(send_chains(w))
           /\ callback' = IF callback = "unset" THEN "unset" ELSE "proxy_data_coming"
           /\ endseen' = FALSE
           /\ orderly' = (orderly /\ SendKeepsOrder(w))
           /\ UNCHANGED mode
        \/ /\ mode' = "crashed"
           /\ UNCHANGED <<up, status, callback, endseen, orderly>>
  <2>1. UpstreamWritev \subseteq Writev
    BY DEF UpstreamWritev, Writev
  <2>2. QED
    BY <2>1 DEF http_send_to_upstream, CallbackAfterSend
<1>2. CASE mode' = "crashed" /\ UNCHANGED <<up, status, callback, endseen, orderly>>
  <2>1. Answered' /\ OrderlyRelay'
    BY <1>2, SameRelay DEF Inv
  <2>2. QED
    BY <1>2, <2>1 DEF Inv, TypeOK
<1>3. CASE /\ up' = IF w \in {"all", "part"}
                    THEN Append(up, [n |-> n, got |-> IF w = "all" THEN got ELSE "part"]) ELSE up
           /\ status' = UpstreamStatus(send_chains(w))
           /\ callback' = IF callback = "unset" THEN "unset" ELSE "proxy_data_coming"
           /\ endseen' = FALSE
           /\ orderly' = (orderly /\ SendKeepsOrder(w))
           /\ UNCHANGED mode
  <2>1. up' = up \/ \E g \in {got, "part"} : up' = Append(up, [n |-> n, got |-> g])
    BY <1>3
  <2>2. up' \in Seq([n : 1..MaxRequests, got : {"whole", "part", "mangled"}])
    <3> DEFINE R == [n : 1..MaxRequests, got : {"whole", "part", "mangled"}]
    <3>1. \A g \in {got, "part"} : [n |-> n, got |-> g] \in R
      OBVIOUS
    <3>2. up \in Seq(R)
      BY DEF Inv, TypeOK
    <3> HIDE DEF R
    <3>3. ASSUME NEW g \in {got, "part"} PROVE Append(up, [n |-> n, got |-> g]) \in Seq(R)
      BY <3>1, <3>2, AppendProperties
    <3>4. up' \in Seq(R)
      BY <2>1, <3>2, <3>3
    <3>5. QED
      BY <3>4 DEF R
  <2>3. /\ w = "all" <=> status' = L_PROXY_WAITING_RESPONSE
        /\ status' \in {L_PROXY_WAITING_RESPONSE, L_PROXY_WRITING, L_PROXY_CLOSING, L_PROXY_ERROR}
    BY <1>3 DEF Writev, send_chains, UpstreamStatus, LOK, LAGAIN, LCLOSE, LERROR,
       L_PROXY_WAITING_RESPONSE, L_PROXY_WRITING, L_PROXY_CLOSING, L_PROXY_ERROR
  <2>4. orderly' => orderly /\ SendKeepsOrder(w)
    BY <1>3
  <2>5. OrderlyRelay'
    BY <2>4 DEF Inv, OrderlyRelay, Pieces
  <2>6. Answered'
    <3> SUFFICES ASSUME orderly', uend = "open"
                 PROVE  /\ \/ status' = L_PROXY_WAITING_RESPONSE
                           \/ uread = usent /\ 4 * Cardinality(Answerable') <= uread
                        /\ status' = L_PROXY_WAITING_RESPONSE => uread % 4 = 0
      BY DEF Answered
    <3>1. uread \in Nat /\ Len(up) \in Nat /\ usent \in uread..(4 * Len(up))
      BY DEF Inv, TypeOK
    <3>2. CASE w = "all"
      <4>1. uread = 4 * Len(up) \/ status = L_PROXY_WAITING_RESPONSE
        BY <2>4 DEF SendKeepsOrder
      <4>2. uread % 4 = 0
        <5>1. \A x \in Nat : (4 * x) % 4 = 0
          OBVIOUS
        <5>2. QED
          BY <2>4, <3>1, <4>1, <5>1 DEF Inv, Answered
      <4>3. QED
        BY <2>3, <3>2, <4>2
    <3>3. CASE w # "all"
      <4>1. uread = 4 * Len(up)
        BY <2>4, <3>3 DEF SendKeepsOrder
      <4>2. Answerable' \subseteq 1..Len(up)
        <5>1. CASE up' = up
          BY <5>1 DEF Answerable
        <5>2. CASE up' = Append(up, [n |-> n, got |-> "part"])
          <6>1. Len(up') = Len(up) + 1 /\ up'[Len(up) + 1].got = "part"
            BY <5>2 DEF Inv, TypeOK
          <6>2. QED
            BY <3>1, <6>1 DEF Answerable
        <5>3. QED
          BY <1>3, <3>3, <5>1, <5>2
      <4>3. Cardinality(Answerable') \in Nat /\ Cardinality(Answerable') <= Len(up)
        BY <3>1, <4>2, AnswerableCount
      <4>4. QED
        BY <2>3, <3>1, <3>3, <4>1, <4>3
    <3>4. QED
      BY <3>2, <3>3
  <2>7. orderly' \in BOOLEAN
    BY <1>3
  <2>8. status' \in -9..0
    BY <2>3 DEF L_PROXY_WAITING_RESPONSE, L_PROXY_WRITING, L_PROXY_CLOSING, L_PROXY_ERROR
  <2>9. QED
    BY <1>3, <2>1, <2>2, <2>5, <2>6, <2>7, <2>8
<1>4. QED
  BY <1>1, <1>2, <1>3

\* Where a request line and its headers are in the buffer, the request is one
\* the client has sent, and the parser goes on behind it.
LEMMA RequestParsed ==
  ASSUME Inv, http_process_request_line
  PROVE  /\ Request(pos) \in 1..MaxRequests
         /\ pos <= 3 * Request(pos) /\ 3 * Request(pos) <= last
         /\ pos' = 3 * Request(pos) + 1 /\ pos \in Nat /\ last \in Nat
<1>1. pos \in Nat \ {0} /\ last \in Nat /\ last <= 3 * MaxRequests
  BY PairAssumption DEF Inv, TypeOK
<1>2. 3 * Request(pos) <= last
  BY DEF http_process_request_line, ngx_http_parse_header_line, HTTP_PARSE_HEADER_DONE, LAGAIN
<1>3. Request(pos) \in Nat \ {0} /\ pos <= 3 * Request(pos)
  BY <1>1 DEF Request
<1>4. pos' = 3 * Request(pos) + 1
  BY DEF http_process_request_line, AfterRequest
<1>5. QED
  BY <1>1, <1>2, <1>3, <1>4, PairAssumption

\* One request of the client's buffer.
LEMMA RequestKeeps ==
  ASSUME Inv, UNCHANGED start, http_process_request_line
  PROVE  Inv'
<1>1. UNCHANGED <<last, csent, cread, socket, writable, usent, uread, uend, cout, stage, left, sock, sigpipe>>
      /\ mode = "parsing"
  BY DEF start, http_process_request_line
<1>2. PICK got \in {"whole", "mangled"} : http_send_to_upstream(Request(pos), got)
  BY DEF http_process_request_line
<1>3. Request(pos) \in 1..MaxRequests /\ 3 * Request(pos) <= last /\ pos' = 3 * Request(pos) + 1 /\ last \in Nat
  BY RequestParsed
<1>4. /\ up' \in Seq([n : 1..MaxRequests, got : {"whole", "part", "mangled"}])
      /\ \/ up' = up
         \/ callback' # "proxy_connect_writable"
            /\ \E g \in {got, "part"} : up' = Append(up, [n |-> Request(pos), got |-> g])
      /\ mode' \in {mode, "crashed"} /\ status' \in -9..0
      /\ callback' \in {callback, "proxy_data_coming"}
      /\ endseen' \in BOOLEAN /\ orderly' \in BOOLEAN
      /\ Answered' /\ OrderlyRelay'
  BY <1>1, <1>2, <1>3, SendKeeps
<1>5. Len(up) <= Len(up') /\ Len(up) \in Nat /\ Len(up') \in Nat
  <2>1. CASE up' = up
    BY <2>1 DEF Inv, TypeOK
  <2>2. CASE \E g \in {got, "part"} : up' = Append(up, [n |-> Request(pos), got |-> g])
    BY <2>2 DEF Inv, TypeOK
  <2>3. QED
    BY <1>4, <2>1, <2>2
<1>6. TypeOK'
  <2>1. pos' \in 1..(3 * MaxRequests + 1)
    BY <1>3, PairAssumption
  <2>2. usent' \in 0..(4 * Len(up'))
    BY <1>1, <1>5 DEF Inv, TypeOK
  <2>3. QED
    BY <1>1, <1>4, <2>1, <2>2 DEF Inv, TypeOK, Stopped
<1>7. Started' /\ Unread'
  BY <1>1, <1>4 DEF Inv, Started, Unread
<1>8. Within'
  BY <1>1, <1>3 DEF Inv, Within
<1>9. QED
  BY <1>4, <1>6, <1>7, <1>8 DEF Inv

-----------------------------------------------------------------------------
(* Upstream's side.                                                        *)

\* The first buffer of a read from upstream holds something, and no more than
\* was sent.
LEMMA FirstBound ==
  ASSUME Inv
  PROVE  /\ uread \in Nat /\ usent \in Nat /\ uread <= usent
         /\ First \in Nat /\ First <= usent /\ First \in {uread + BUF, usent}
<1>1. uread \in Nat /\ usent \in Nat /\ uread <= usent
  BY DEF Inv, TypeOK
<1>2. QED
  BY <1>1, RecvBound DEF First

\* What send_buffers passes on is a run of pieces that starts where it is told
\* to, and ends at the end of the data if nothing was short.
LEMMA BodySent ==
  ASSUME Inv, NEW from \in Nat, from <= usent + 1,
         NEW v \in Writev, NEW j \in Nat, v = "part" => j <= usent - from
  PROVE  \E b \in (from - 1)..usent :
           /\ send_buffers(from, v, j) = Pieces(from, b)
           /\ ~BodyShort(from, v) /\ (from > First => ~Overflow) => b = usent
<1>1. uread \in Nat /\ usent \in Nat /\ First \in Nat /\ First <= usent
  BY FirstBound
<1>2. CASE from > First
  <2>1. send_buffers(from, v, j) = <<>>
    BY <1>2 DEF send_buffers
  <2>2. Pieces(from, from - 1) = <<>>
    BY DEF Pieces
  <2>3. from - 1 \in (from - 1)..usent
    BY <1>1
  <2>4. ~Overflow => from - 1 = usent
    BY <1>1, <1>2 DEF Overflow
  <2>5. QED
    BY <1>2, <2>1, <2>2, <2>3, <2>4
<1>3. CASE from <= First /\ v = "all"
  <2>1. send_buffers(from, v, j) = Pieces(from, usent) /\ usent \in (from - 1)..usent
    BY <1>1, <1>3 DEF send_buffers
  <2>2. QED
    BY <2>1
<1>4. CASE from <= First /\ v = "part"
  <2>1. send_buffers(from, v, j) = Pieces(from, from + j - 1) /\ from + j - 1 \in (from - 1)..usent
    BY <1>1, <1>4 DEF send_buffers
  <2>2. BodyShort(from, v)
    BY <1>4 DEF BodyShort
  <2>3. QED
    BY <2>1, <2>2
<1>5. CASE from <= First /\ v \notin {"all", "part"}
  <2>1. send_buffers(from, v, j) = <<>>
    BY <1>5 DEF send_buffers
  <2>2. Pieces(from, from - 1) = <<>>
    BY DEF Pieces
  <2>3. from - 1 \in (from - 1)..usent
    BY <1>1
  <2>4. BodyShort(from, v)
    BY <1>5 DEF BodyShort
  <2>5. QED
    BY <2>1, <2>2, <2>3, <2>4
<1>6. QED
  BY <1>1, <1>2, <1>3, <1>4, <1>5

\* The pieces a step passes on: a run that starts behind what was read before,
\* and that is all of what was read if nothing is lost.
Passes ==
  \E b \in uread..uread' :
    /\ cout' = cout \o Pieces(uread + 1, b)
    /\ orderly' => orderly /\ b = uread'

\* A step that passes on nothing and reads nothing, or loses what it reads.
LEMMA PassesNothing ==
  ASSUME Inv, cout' = cout, uread' \in uread..usent, orderly' => orderly /\ uread' = uread
  PROVE  Passes
<1>1. Pieces(uread + 1, uread) = <<>>
  BY DEF Inv, TypeOK, Pieces
<1>2. cout \o <<>> = cout
  BY ConcatEmptySeq DEF Inv, TypeOK
<1>3. uread \in uread..uread'
  BY DEF Inv, TypeOK
<1>4. QED
  BY <1>1, <1>2, <1>3 DEF Passes

\* The client gets a run of pieces more, and has got everything in order.
LEMMA PassesKeeps ==
  ASSUME Inv, Passes, uread' \in uread..usent, usent' = usent
  PROVE  cout' \in Seq(1..usent') /\ OrderlyRelay'
<1>1. PICK b \in uread..uread' :
        cout' = cout \o Pieces(uread + 1, b) /\ (orderly' => orderly /\ b = uread')
  BY DEF Passes
<1>2. uread \in Nat /\ usent \in Nat /\ b \in Nat /\ b <= usent /\ uread <= b
  BY <1>1 DEF Inv, TypeOK
<1>3. Pieces(uread + 1, b) \in Seq(1..usent)
  <2>1. Pieces(uread + 1, b) \in Seq((uread + 1)..b)
    BY <1>2, PiecesRun
  <2>2. (uread + 1)..b \subseteq 1..usent
    BY <1>2
  <2>3. QED
    BY <2>1, <2>2, SeqMonotonic
<1>4. cout' \in Seq(1..usent)
  BY <1>1, <1>3, ConcatProperties DEF Inv, TypeOK
<1>5. ASSUME orderly' PROVE cout' = Pieces(1, uread')
  <2>1. cout = Pieces(1, uread) /\ b = uread'
    BY <1>1, <1>5 DEF Inv, OrderlyRelay
  <2>2. 1 \in Int /\ uread \in Int /\ b \in Int /\ uread >= 1 - 1 /\ b >= uread
    BY <1>2
  <2>3. Pieces(1, uread) \o Pieces(uread + 1, b) = Pieces(1, b)
    BY <2>2, PiecesJoin
  <2>4. QED
    BY <1>1, <2>1, <2>3
<1>6. QED
  BY <1>4, <1>5 DEF OrderlyRelay, Pieces

\* The handler reads all there is, and passes a run of it on.
LEMMA ReadPasses ==
  ASSUME Inv, proxy_data_coming
  PROVE  Passes /\ uread' \in {uread, usent}
<1>1. uread \in Nat /\ usent \in Nat /\ uread <= usent /\ First \in Nat /\ First <= usent
      /\ First \in {uread + BUF, usent} /\ cout \in Seq(1..usent)
  BY FirstBound DEF Inv, TypeOK
<1>2. CASE proxy_data_coming_end
  <2>1. cout' = cout /\ uread' = usent /\ (orderly' => orderly /\ uread = usent)
    BY <1>2 DEF proxy_data_coming_end
  <2>2. QED
    BY <1>1, <2>1, PassesNothing
<1>3. CASE proxy_data_coming_header
  <2>1. uread' = usent /\ uread + 3 <= First
    BY <1>3 DEF proxy_data_coming_header, HeaderRead, ngx_http_parse_header_line, HTTP_PARSE_HEADER_DONE, LAGAIN
  <2>2. PICK w \in Writev, v \in Writev, k \in 0..2, j \in 0..(MaxRequests * 4) :
          /\ cout' = cout \o (CASE w = "all"  -> Pieces(uread + 1, uread + 3) \o send_buffers(uread + 4, v, j)
                                [] w = "part" -> Pieces(uread + 1, uread + k)
                                [] OTHER      -> <<>>)
          /\ v = "part" => j <= usent - (uread + 4)
          /\ orderly' = (orderly /\ w = "all" /\ ~BodyShort(uread + 4, v) /\ ~Overflow)
    BY <1>3 DEF proxy_data_coming_header, BodyFrom
  <2>3. orderly' => orderly /\ w = "all" /\ ~BodyShort(uread + 4, v) /\ ~Overflow
    BY <2>2
  <2>4. CASE w = "all"
    <3>1. j \in Nat /\ uread + 4 \in Nat /\ uread + 4 <= usent + 1
      BY <1>1, <2>1, PairAssumption
    <3>2. PICK b \in ((uread + 4) - 1)..usent :
            /\ send_buffers(uread + 4, v, j) = Pieces(uread + 4, b)
            /\ ~BodyShort(uread + 4, v) /\ (uread + 4 > First => ~Overflow) => b = usent
      BY <2>2, <3>1, BodySent
    <3>3. b \in Nat /\ b >= uread + 3 /\ b <= usent
      BY <1>1, <3>2
    <3>4. Pieces(uread + 1, uread + 3) \o Pieces((uread + 3) + 1, b) = Pieces(uread + 1, b)
      <4>1. uread + 1 \in Int /\ uread + 3 \in Int /\ b \in Int /\ uread + 3 >= (uread + 1) - 1 /\ b >= uread + 3
        BY <1>1, <3>3
      <4>2. QED
        BY <4>1, PiecesJoin
    <3>5. (uread + 3) + 1 = uread + 4
      BY <1>1
    <3>6. cout' = cout \o Pieces(uread + 1, b)
      BY <2>2, <2>4, <3>2, <3>4, <3>5
    <3>7. QED
      BY <1>1, <2>1, <2>3, <3>2, <3>3, <3>6 DEF Passes
  <2>5. CASE w = "part"
    <3>1. cout' = cout \o Pieces(uread + 1, uread + k)
      BY <2>2, <2>5
    <3>2. uread + k \in uread..usent
      BY <1>1, <2>1
    <3>3. QED
      BY <2>1, <2>3, <2>5, <3>1, <3>2 DEF Passes
  <2>6. CASE w \notin {"all", "part"}
    <3>1. cout' = cout
      BY <1>1, <2>2, <2>6, ConcatEmptySeq
    <3>2. QED
      BY <1>1, <2>1, <2>3, <2>6, <3>1, PassesNothing
  <2>7. QED
    BY <2>1, <2>4, <2>5, <2>6
<1>4. CASE proxy_data_coming_dropped
  <2>1. /\ cout' = cout /\ uread' = usent /\ uend = "open" /\ status = L_PROXY_WAITING_RESPONSE
        /\ orderly' = (orderly /\ ~HeadLost)
    BY <1>4 DEF proxy_data_coming_dropped, Ending
  <2>2. ~orderly'
    BY <2>1 DEF Inv, Answered, HeadLost
  <2>3. QED
    BY <1>1, <2>1, <2>2, PassesNothing
<1>5. CASE proxy_data_coming_nothing
  BY <1>1, <1>5, PassesNothing DEF proxy_data_coming_nothing
<1>6. CASE proxy_data_coming_stops
  BY <1>1, <1>6, PassesNothing DEF proxy_data_coming_stops, network
<1>7. CASE proxy_data_coming_body
  <2>1. uread' = usent /\ uread < usent
    BY <1>7 DEF proxy_data_coming_body, Readable
  <2>2. PICK v \in Writev, j \in 0..(MaxRequests * 4) :
          /\ v = "part" => j <= usent - (uread + 1)
          /\ cout' = cout \o send_buffers(uread + 1, v, j)
          /\ orderly' = (orderly /\ ~BodyShort(uread + 1, v))
    BY <1>7 DEF proxy_data_coming_body, BodyFrom
  <2>3. j \in Nat /\ uread + 1 \in Nat /\ uread + 1 <= usent + 1 /\ uread + 1 <= First
    BY <1>1, <2>1, PairAssumption
  <2>4. PICK b \in ((uread + 1) - 1)..usent :
          /\ send_buffers(uread + 1, v, j) = Pieces(uread + 1, b)
          /\ ~BodyShort(uread + 1, v) /\ (uread + 1 > First => ~Overflow) => b = usent
    BY <2>2, <2>3, BodySent
  <2>5. b \in uread..usent
    BY <1>1, <2>4
  <2>6. orderly' => orderly /\ b = usent
    <3>1. orderly' => orderly /\ ~BodyShort(uread + 1, v)
      BY <2>2
    <3>2. ~(uread + 1 > First)
      BY <1>1, <2>3
    <3>3. QED
      BY <2>4, <3>1, <3>2
  <2>7. QED
    BY <2>1, <2>2, <2>4, <2>5, <2>6 DEF Passes
<1>8. CASE proxy_data_coming_other
  <2>1. /\ cout' = cout /\ uread' = usent /\ uend = "open" /\ uread < usent /\ orderly' = orderly
        /\ status \notin {L_PROXY_WAITING_RESPONSE, L_HTTP_WROTE_RESPONSE_HEADER}
    BY <1>8 DEF proxy_data_coming_other, Ending, Readable
  <2>2. ~orderly'
    BY <1>1, <2>1 DEF Inv, Answered
  <2>3. QED
    BY <1>1, <2>1, <2>2, PassesNothing
<1>9. QED
  BY <1>2, <1>3, <1>4, <1>5, <1>6, <1>7, <1>8 DEF proxy_data_coming

\* The statuses the handler leaves: a response is read in the status of one, and
\* the status it is awaited in comes back only at its start.
LEMMA ReadAnswered ==
  ASSUME Inv, proxy_data_coming
  PROVE  Answered' /\ status' \in -9..0
<1>1. UNCHANGED <<usent, uend, up>> /\ Answerable' = Answerable /\ usent \in Nat /\ uread \in Nat
      /\ status \in -9..0
  <2>1. UNCHANGED <<usent, uend, up>>
    BY DEF proxy_data_coming, proxy_data_coming_end, proxy_data_coming_header,
       proxy_data_coming_dropped, proxy_data_coming_nothing, proxy_data_coming_stops, network,
       proxy_data_coming_body, proxy_data_coming_other
  <2>2. QED
    BY <2>1, FirstBound DEF Inv, TypeOK, Answerable
<1>2. CASE proxy_data_coming_end
  <2>1. uend # "open" /\ status' \in {L_PROXY_CLOSING, L_PROXY_ERROR}
    BY <1>2 DEF proxy_data_coming_end, Ending
  <2>2. QED
    BY <1>1, <2>1 DEF Answered, L_PROXY_CLOSING, L_PROXY_ERROR
<1>3. CASE proxy_data_coming_header
  <2>1. PICK w \in Writev : status' = ClientStatus(send_chains(w)) /\ (orderly' => w = "all")
    BY <1>3 DEF proxy_data_coming_header
  <2>2. /\ status' \in {L_HTTP_WROTE_RESPONSE_HEADER, L_HTTP_WRITING_RESPONSE_HEADER, L_HTTP_CLOSING, L_HTTP_ERROR}
        /\ w = "all" => status' = L_HTTP_WROTE_RESPONSE_HEADER
    BY <2>1 DEF Writev, send_chains, ClientStatus, LOK, LAGAIN, LCLOSE, LERROR
  <2>3. status' \in -9..0
    BY <2>2 DEF L_HTTP_WROTE_RESPONSE_HEADER, L_HTTP_WRITING_RESPONSE_HEADER, L_HTTP_CLOSING, L_HTTP_ERROR
  <2>4. Answered'
    BY <2>1, <2>2 DEF Answered, L_HTTP_WROTE_RESPONSE_HEADER, L_PROXY_WAITING_RESPONSE
  <2>5. QED
    BY <2>3, <2>4
<1>4. CASE proxy_data_coming_dropped
  <2>1. /\ uend = "open" /\ status = L_PROXY_WAITING_RESPONSE /\ status' = status
        /\ orderly' = (orderly /\ ~HeadLost)
    BY <1>4 DEF proxy_data_coming_dropped, Ending
  <2>2. ~orderly'
    BY <2>1 DEF Inv, Answered, HeadLost
  <2>3. QED
    BY <1>1, <2>1, <2>2 DEF Answered
<1>5. CASE proxy_data_coming_nothing
  <2>1. /\ status' = L_PROXY_WAITING_RESPONSE /\ uread' = uread /\ writable
    BY <1>1, <1>5 DEF proxy_data_coming_nothing, Reported, Ending
  <2>2. uread = 0
    BY <2>1 DEF Inv, Unread
  <2>3. QED
    BY <2>1, <2>2 DEF Answered, L_PROXY_WAITING_RESPONSE
<1>6. CASE proxy_data_coming_stops
  <2>1. UNCHANGED <<status, uread, orderly>>
    BY <1>6 DEF proxy_data_coming_stops, network
  <2>2. QED
    BY <1>1, <2>1 DEF Inv, Answered
<1>7. CASE proxy_data_coming_body
  <2>1. status' = L_HTTP_WROTE_RESPONSE_HEADER
    BY <1>7 DEF proxy_data_coming_body
  <2>2. QED
    BY <2>1 DEF Answered, L_HTTP_WROTE_RESPONSE_HEADER, L_PROXY_WAITING_RESPONSE
<1>8. CASE proxy_data_coming_other
  <2>1. /\ uend = "open" /\ uread < usent /\ orderly' = orderly /\ status' = status
        /\ status \notin {L_PROXY_WAITING_RESPONSE, L_HTTP_WROTE_RESPONSE_HEADER}
    BY <1>8 DEF proxy_data_coming_other, Ending, Readable
  <2>2. ~orderly'
    BY <1>1, <2>1 DEF Inv, Answered
  <2>3. QED
    BY <1>1, <2>1, <2>2 DEF Answered
<1>9. QED
  BY <1>2, <1>3, <1>4, <1>5, <1>6, <1>7, <1>8 DEF proxy_data_coming

\* The handler for what upstream sends keeps the invariant.
LEMMA ResponseKeeps ==
  ASSUME Inv, UNCHANGED start, proxy_data_coming
  PROVE  Inv'
<1>1. UNCHANGED <<callback, pos, last, csent, cread, socket, usent, uend, up, stage, left, sock, sigpipe>>
      /\ callback = "proxy_data_coming" /\ mode = "idle"
  BY DEF start, proxy_data_coming, proxy_data_coming_end, proxy_data_coming_header,
     proxy_data_coming_dropped, proxy_data_coming_nothing, proxy_data_coming_stops, network,
     proxy_data_coming_body, proxy_data_coming_other, Readable, Reported
<1>2. /\ mode' \in {"idle", "spinning", "crashed"}
      /\ endseen' \in BOOLEAN /\ orderly' \in BOOLEAN /\ writable' \in BOOLEAN
      /\ writable' => uread' = uread /\ writable
  <2>1. CASE proxy_data_coming_end
    BY <1>1, <2>1 DEF proxy_data_coming_end
  <2>2. CASE proxy_data_coming_header
    BY <1>1, <2>2 DEF Inv, TypeOK, proxy_data_coming_header
  <2>3. CASE proxy_data_coming_dropped
    BY <1>1, <2>3 DEF Inv, TypeOK, proxy_data_coming_dropped
  <2>4. CASE proxy_data_coming_nothing
    BY <1>1, <2>4 DEF Inv, TypeOK, proxy_data_coming_nothing
  <2>5. CASE proxy_data_coming_stops
    BY <1>1, <2>5 DEF Inv, TypeOK, proxy_data_coming_stops, network
  <2>6. CASE proxy_data_coming_body
    BY <1>1, <2>6 DEF Inv, TypeOK, proxy_data_coming_body
  <2>7. CASE proxy_data_coming_other
    BY <1>1, <2>7 DEF Inv, TypeOK, proxy_data_coming_other
  <2>8. QED
    BY <2>1, <2>2, <2>3, <2>4, <2>5, <2>6, <2>7 DEF proxy_data_coming
<1>3. Passes /\ uread' \in uread..usent /\ uread' \in Nat
  BY ReadPasses, FirstBound
<1>4. cout' \in Seq(1..usent') /\ OrderlyRelay'
  BY <1>1, <1>3, PassesKeeps
<1>5. Answered' /\ status' \in -9..0
  BY ReadAnswered
<1>6. TypeOK'
  <2>1. uread' \in 0..usent'
    BY <1>1, <1>3, FirstBound
  <2>2. QED
    BY <1>1, <1>2, <1>4, <1>5, <2>1 DEF Inv, TypeOK, Stopped
<1>7. Started' /\ Within' /\ Unread'
  BY <1>1, <1>2 DEF Inv, Started, Within, Unread
<1>8. QED
  BY <1>4, <1>5, <1>6, <1>7 DEF Inv

-----------------------------------------------------------------------------
(* The theorems.                                                           *)

\* Every step of the system keeps the invariant.
LEMMA NextKeeps == Inv /\ [Next]_vars => Inv'
<1> SUFFICES ASSUME Inv, [Next]_vars PROVE Inv'
  OBVIOUS
<1>1. CASE UNCHANGED vars
  <2>1. UNCHANGED <<mode, status, callback, pos, last, csent, cread, socket, writable, usent, uread,
                    uend, endseen, up, cout, orderly, stage, left, sock, sigpipe>>
    BY <1>1 DEF vars, process, network, start
  <2>2. TypeOK' /\ Started' /\ Within' /\ Unread'
    BY <2>1 DEF Inv, TypeOK, Started, Within, Unread
  <2>3. QED
    BY <2>1, <2>2, SameRelay DEF Inv
<1>2. QED
  BY <1>1, StartKeeps, NetworkKeeps, AcceptKeeps, ConnectedKeeps, ReadKeeps, RequestKeeps, ResponseKeeps
     DEF Next, process_client

\* Inv is an invariant of the proxy.
LEMMA Invariance == Spec => []Inv
  BY InitHolds, NextKeeps, PTL DEF Spec

\* The connections' fields and the streams keep their types: the parser never
\* leaves the requests the client has sent, and the client gets nothing that
\* upstream has not sent, for every number of requests and size of buffer.
THEOREM ProxyTypes == Spec => []TypeOK
<1>1. Inv => TypeOK
  BY DEF Inv
<1>2. QED
  BY <1>1, Invariance, PTL

\* Clients are served only on a socket that is bound and listens, with SIGPIPE
\* ignored, however many addresses are tried and whichever calls fail.
THEOREM ProxyServesReady == Spec => []ServesReady
<1>1. Inv => ServesReady
  BY DEF Inv, Started, ServesReady
<1>2. QED
  BY <1>1, Invariance, PTL

\* The client gets everything upstream answered as long as none of the causes
\* of loss has occurred, for every size of a buffer and number of requests.
THEOREM ProxyOrderlyRelay == Spec => []OrderlyRelay
<1>1. Inv => OrderlyRelay
  BY DEF Inv
<1>2. QED
  BY <1>1, Invariance, PTL

-----------------------------------------------------------------------------
(* Both directions implement LossyRelay.                                   *)

\* A sequence that grows by a run of the pieces just taken.
LEMMA ResponseStep ==
  ASSUME Inv, [Next]_vars
  PROVE  [Responses!Pass]_<<uread, cout>>
<1>1. CASE UNCHANGED <<uread, cout>>
  BY <1>1
<1>2. CASE proxy_data_coming
  <2>1. PICK b \in uread..uread' : cout' = cout \o Pieces(uread + 1, b)
    BY <1>2, ReadPasses DEF Passes
  <2>2. uread \in Nat /\ uread' \in Nat /\ b \in Nat /\ uread <= b /\ b <= uread' /\ cout \in Seq(Int)
    <3>1. uread' \in Nat /\ uread \in Nat
      BY <1>2, ReadPasses, FirstBound
    <3>2. cout \in Seq(Int)
      <4>1. 1..usent \subseteq Int /\ cout \in Seq(1..usent)
        BY DEF Inv, TypeOK
      <4>2. QED
        BY <4>1, SeqMonotonic
    <3>3. QED
      BY <2>1, <3>1, <3>2
  <2> DEFINE run == Pieces(uread + 1, b)
  <2>3. run \in Seq(Int) /\ Len(run) = b - uread /\ \A k \in 1..(b - uread) : run[k] = uread + k
    <3> DEFINE from == uread + 1
    <3>1. from \in Int /\ b \in Int /\ b >= from - 1
      BY <2>2
    <3>2. b - from + 1 = b - uread /\ \A k \in Int : from + k - 1 = uread + k
      BY <2>2
    <3> HIDE DEF from
    <3>3. /\ Pieces(from, b) \in Seq(Int) /\ Len(Pieces(from, b)) = b - from + 1
          /\ \A k \in 1..(b - from + 1) : Pieces(from, b)[k] = from + k - 1
      BY <3>1, PiecesRun
    <3>4. run = Pieces(from, b)
      BY DEF from
    <3> HIDE DEF run
    <3>5. QED
      BY <3>2, <3>3, <3>4
  <2>4. /\ Len(cout') = Len(cout) + Len(run) /\ Len(cout) \in Nat
        /\ \A k \in 1..(Len(cout) + Len(run)) :
             cout'[k] = IF k <= Len(cout) THEN cout[k] ELSE run[k - Len(cout)]
    BY <2>1, <2>2, <2>3, ConcatProperties
  <2> HIDE DEF run
  <2>5. Len(cout') >= Len(cout) /\ \A k \in 1..Len(cout) : cout'[k] = cout[k]
    <3>1. Len(run) \in Nat
      BY <2>2, <2>3
    <3>2. \A k \in 1..Len(cout) : k \in 1..(Len(cout) + Len(run)) /\ k <= Len(cout)
      BY <2>4, <3>1
    <3>3. QED
      BY <2>4, <3>1, <3>2
  <2>6. ASSUME NEW k \in (Len(cout) + 1)..Len(cout')
        PROVE  cout'[k] = uread + (k - Len(cout)) /\ k - Len(cout) \in 1..(b - uread)
    <3>1. k \in 1..(Len(cout) + Len(run)) /\ ~(k <= Len(cout)) /\ k - Len(cout) \in 1..(b - uread)
      BY <2>2, <2>3, <2>4
    <3>2. QED
      BY <2>3, <2>4, <3>1
  <2>7. Responses!Pass
    <3>1. \A k \in (Len(cout) + 1)..Len(cout') : cout'[k] \in (uread + 1)..uread'
      BY <2>2, <2>4, <2>6
    <3>2. \A j, k \in (Len(cout) + 1)..Len(cout') : j < k => cout'[j] < cout'[k]
      BY <2>2, <2>4, <2>6
    <3>3. QED
      BY <2>2, <2>5, <3>1, <3>2 DEF Responses!Pass, Responses!New
  <2>8. QED
    BY <2>7
<1>3. QED
  BY <1>1, <1>2 DEF Next, vars, process, network, start_up, ClientSends, ConnectEnds, UpstreamSends, UpstreamEnds,
     start_accept, http_init_connection, start_accept_fails, http_data_coming, process_client,
     http_process_request_line, request_headers_spin, request_line_ends, proxy_connect_writable

\* proxy_data_coming implements LossyRelay from upstream's stream to the client's:
\* what the client gets was just read, comes in order and comes once.
THEOREM ProxyResponsesRelayed == Spec => ResponsesRelayed
<1>1. Init => Responses!Init
  BY DEF Init, Responses!Init
<1>2. QED
  BY <1>1, ResponseStep, Invariance, PTL DEF Spec, ResponsesRelayed, Responses!Spec

\* What the mapping of the client's side makes of the state.
Taken == IF mode = "parsing" THEN pos - 1 ELSE cread
Out == [k \in 1..Len(up) |-> 3 * up[k].n]

\* The steps of the client's side, by what they do to the stream taken: nothing,
\* a loss, or one request taken and perhaps passed on.
LEMMA TakesRequest ==
  ASSUME Inv, Next
  PROVE  /\ Taken \in Nat /\ Taken' \in Nat /\ Taken' >= Taken
         /\ \/ up' = up
            \/ \E g : up' = Append(up, g) /\ 3 * g.n \in (Taken + 1)..Taken'
<1>1. /\ pos \in Nat \ {0} /\ cread \in Nat /\ last \in Nat /\ csent \in Nat /\ cread <= csent
      /\ mode = "parsing" => pos - 1 <= last /\ last <= cread
  BY PairAssumption DEF Inv, TypeOK, Within
<1>2. Taken \in Nat
  BY <1>1 DEF Taken
<1>3. CASE UNCHANGED <<mode, pos, cread, up>>
  BY <1>2, <1>3 DEF Taken
<1>4. CASE up' = up /\ cread' = cread /\ mode' # "parsing"
  BY <1>1, <1>2, <1>4 DEF Taken
<1>5. CASE http_data_coming
  BY <1>1, <1>2, <1>5 DEF Taken, http_data_coming
<1>6. CASE http_process_request_line
  <2>1. /\ Request(pos) \in 1..MaxRequests /\ pos <= 3 * Request(pos) /\ 3 * Request(pos) <= last
        /\ pos' = 3 * Request(pos) + 1 /\ pos \in Nat /\ last \in Nat
    BY <1>6, RequestParsed
  <2>2. mode = "parsing" /\ cread' = cread /\ last' = last
    BY <1>6 DEF http_process_request_line
  <2>3. PICK got : http_send_to_upstream(Request(pos), got)
    BY <1>6 DEF http_process_request_line
  <2>4. \/ up' = up
        \/ \E g : up' = Append(up, g) /\ g.n = Request(pos) /\ mode' = mode
    BY <2>3 DEF http_send_to_upstream
  <2>5. 3 * Request(pos) <= Taken' /\ Taken' \in Nat
    BY <1>1, <2>1, <2>2 DEF Taken
  <2>6. Taken + 1 = pos
    BY <1>1, <2>2 DEF Taken
  <2>7. 3 * Request(pos) \in (Taken + 1)..Taken' /\ Taken' >= Taken
    BY <1>2, <2>1, <2>5, <2>6
  <2>8. QED
    BY <1>2, <2>4, <2>5, <2>7
<1>7. QED
  BY <1>2, <1>3, <1>4, <1>5, <1>6
     DEF Next, process, network, start_up, ClientSends, ConnectEnds, UpstreamSends, UpstreamEnds,
     start_accept, http_init_connection, start_accept_fails, process_client, request_headers_spin,
     request_line_ends, proxy_connect_writable, proxy_data_coming, proxy_data_coming_end,
     proxy_data_coming_header, proxy_data_coming_dropped, proxy_data_coming_nothing,
     proxy_data_coming_stops, proxy_data_coming_body, proxy_data_coming_other

\* A request is taken and passed on in one step, or taken and lost.
LEMMA RequestStep ==
  ASSUME Inv, [Next]_vars
  PROVE  [Requests!Pass]_<<Taken, Out>>
<1>1. CASE UNCHANGED vars
  <2>1. mode' = mode /\ pos' = pos /\ cread' = cread /\ up' = up
    BY <1>1 DEF vars, process, network
  <2>2. Taken' = Taken /\ Out' = Out
    BY <2>1 DEF Taken, Out
  <2>3. QED
    BY <2>2
<1>2. CASE Next
  <2>1. /\ Taken \in Nat /\ Taken' \in Nat /\ Taken' >= Taken
        /\ \/ up' = up
           \/ \E g : up' = Append(up, g) /\ 3 * g.n \in (Taken + 1)..Taken'
    BY <1>2, TakesRequest
  <2> DEFINE Pass ==
        /\ Taken' >= Taken
        /\ Len(Out') >= Len(Out) /\ \A k \in 1..Len(Out) : Out'[k] = Out[k]
        /\ \A k \in (Len(Out) + 1)..Len(Out') : Out'[k] \in (Taken + 1)..Taken'
        /\ \A j, k \in (Len(Out) + 1)..Len(Out') : j < k => Out'[j] < Out'[k]
  <2>2. Len(Out) = Len(up) /\ Len(up) \in Nat /\ \A k \in 1..Len(up) : Out[k] = 3 * up[k].n
    BY DEF Out, Inv, TypeOK
  <2>3. CASE up' = up
    <3>1. Out' = Out
      BY <2>3 DEF Out
    <3>2. (Len(Out) + 1)..Len(Out) = {}
      BY <2>2
    <3>3. Pass
      BY <2>1, <2>2, <3>1, <3>2
    <3>4. QED
      BY <3>3 DEF Requests!Pass, Requests!New, Taken, Out
  <2>4. CASE \E g : up' = Append(up, g) /\ 3 * g.n \in (Taken + 1)..Taken'
    <3>1. PICK g : up' = Append(up, g) /\ 3 * g.n \in (Taken + 1)..Taken'
      BY <2>4
    <3>2. /\ Len(up') = Len(up) + 1 /\ up'[Len(up) + 1] = g
          /\ \A k \in 1..Len(up) : up'[k] = up[k]
      BY <2>2, <3>1 DEF Inv, TypeOK
    <3>3. Len(Out') = Len(up) + 1 /\ \A k \in 1..(Len(up) + 1) : Out'[k] = 3 * up'[k].n
      BY <2>2, <3>2 DEF Out
    <3>4. (Len(Out) + 1)..Len(Out') = {Len(up) + 1}
      BY <2>2, <3>3
    <3>5. Pass
      <4>1. \A k \in 1..Len(Out) : Out'[k] = Out[k]
        BY <2>2, <3>2, <3>3
      <4>2. Out'[Len(up) + 1] \in (Taken + 1)..Taken'
        BY <2>2, <3>1, <3>2, <3>3
      <4>3. Len(Out') >= Len(Out)
        BY <2>2, <3>3
      <4>4. \A j, k \in (Len(Out) + 1)..Len(Out') : ~(j < k)
        BY <2>2, <3>4
      <4>5. QED
        BY <2>1, <3>4, <4>1, <4>2, <4>3, <4>4
    <3>6. QED
      BY <3>5 DEF Requests!Pass, Requests!New, Taken, Out
  <2>5. QED
    BY <2>1, <2>3, <2>4
<1>3. QED
  BY <1>1, <1>2

\* http_process_request_line implements LossyRelay from the client's stream to
\* upstream's: a request is forwarded at most once, in order, while the read
\* that ends it is parsed, however reads are split and writes fail.
THEOREM ProxyRequestsRelayed == Spec => RequestsRelayed
<1>1. Init => Requests!Init
  BY DEF Init, Requests!Init
<1>2. Inv /\ [Next]_vars => [Requests!Pass]_<<IF mode = "parsing" THEN pos - 1 ELSE cread,
                                             [k \in 1..Len(up) |-> 3 * up[k].n]>>
  BY RequestStep DEF Taken, Out
<1>3. QED
  BY <1>1, <1>2, Invariance, PTL DEF Spec, RequestsRelayed, Requests!Spec

\* The requests upstream got are different, in the client's order, and among
\* those whose last piece has been taken.
Forwarded ==
  /\ \A k \in 1..Len(up) : up[k].n \in Nat /\ 3 * up[k].n <= Taken
  /\ \A j, k \in 1..Len(up) : j < k => up[j].n < up[k].n

\* A request is appended behind all that were taken before.
LEMMA ForwardedKept ==
  ASSUME Inv, Forwarded, [Next]_vars
  PROVE  Forwarded'
<1>1. CASE UNCHANGED vars
  <2>1. mode' = mode /\ pos' = pos /\ cread' = cread /\ up' = up
    BY <1>1 DEF vars, process, network
  <2>2. QED
    BY <2>1 DEF Forwarded, Taken
<1>2. CASE Next
  <2>1. /\ Taken \in Nat /\ Taken' \in Nat /\ Taken' >= Taken
        /\ \/ up' = up
           \/ \E g : up' = Append(up, g) /\ 3 * g.n \in (Taken + 1)..Taken'
    BY <1>2, TakesRequest
  <2>2. /\ Len(up) \in Nat /\ \A k \in 1..Len(up') : up'[k].n \in Nat
    <3>1. up \in Seq([n : 1..MaxRequests, got : {"whole", "part", "mangled"}])
      BY DEF Inv, TypeOK
    <3>2. Inv'
      BY NextKeeps
    <3>3. up' \in Seq([n : 1..MaxRequests, got : {"whole", "part", "mangled"}])
      BY <3>2 DEF Inv, TypeOK
    <3>4. \A k \in 1..Len(up') : up'[k] \in [n : 1..MaxRequests, got : {"whole", "part", "mangled"}]
      BY <3>3, ElementOfSeq
    <3>5. \A g \in [n : 1..MaxRequests, got : {"whole", "part", "mangled"}] : g.n \in Nat
      BY PairAssumption
    <3>6. QED
      BY <3>1, <3>4, <3>5
  <2>3. CASE up' = up
    BY <2>1, <2>2, <2>3 DEF Forwarded
  <2>4. CASE \E g : up' = Append(up, g) /\ 3 * g.n \in (Taken + 1)..Taken'
    <3>1. PICK g : up' = Append(up, g) /\ 3 * g.n \in (Taken + 1)..Taken'
      BY <2>4
    <3>2. /\ Len(up') = Len(up) + 1 /\ up'[Len(up) + 1] = g
          /\ \A k \in 1..Len(up) : up'[k] = up[k]
      BY <2>2, <3>1 DEF Inv, TypeOK
    <3>3. g.n \in Nat
      BY <2>2, <3>2
    <3>4. ASSUME NEW k \in 1..Len(up') PROVE k \in 1..Len(up) \/ k = Len(up) + 1
      BY <2>2, <3>2
    <3>5. \A k \in 1..Len(up) : up'[k].n \in Nat /\ 3 * up'[k].n <= Taken /\ up'[k].n < g.n
      BY <2>1, <2>2, <3>1, <3>2, <3>3 DEF Forwarded
    <3>6. \A k \in 1..Len(up') : up'[k].n \in Nat /\ 3 * up'[k].n <= Taken'
      BY <2>1, <2>2, <3>1, <3>2, <3>3, <3>4, <3>5
    <3>7. ASSUME NEW j \in 1..Len(up'), NEW k \in 1..Len(up'), j < k
          PROVE  up'[j].n < up'[k].n
      <4>1. j \in 1..Len(up)
        BY <2>2, <3>2, <3>7
      <4>2. CASE k \in 1..Len(up)
        BY <3>2, <3>7, <4>1, <4>2 DEF Forwarded
      <4>3. CASE k = Len(up) + 1
        BY <3>2, <3>5, <4>1, <4>3
      <4>4. QED
        BY <3>4, <4>2, <4>3
    <3>8. QED
      BY <3>6, <3>7 DEF Forwarded
  <2>5. QED
    BY <2>1, <2>3, <2>4
<1>3. QED
  BY <1>1, <1>2

\* Upstream gets no request twice and none before an earlier one: pipelined
\* requests, split reads, short writes and refused request lines included.
THEOREM ProxyForwardsOnce == Spec => [](\A j, k \in 1..Len(up) : j < k => up[j].n < up[k].n)
<1>1. Init => Forwarded
  BY DEF Init, Forwarded
<1>2. Forwarded => \A j, k \in 1..Len(up) : j < k => up[j].n < up[k].n
  BY DEF Forwarded
<1>3. QED
  BY <1>1, <1>2, ForwardedKept, Invariance, PTL DEF Spec
=============================================================================
