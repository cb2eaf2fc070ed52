------------------------------- MODULE HttpHead ------------------------------
(***************************************************************************)
(* How http.c takes a buffer of pipelined requests, or one with the head   *)
(* of a response, apart and puts it together again: the parsers character  *)
(* by character on one request_t, the header elements, the chain of pieces *)
(* of the buffer that is handed to writev, and what send_chains makes of   *)
(* writev's answer.                                                        *)
(*                                                                         *)
(* An input is given by its parts, so that the properties can say what     *)
(* the parsers should find; the model only sees its characters.            *)
(***************************************************************************)
EXTENDS HttpHost, FiniteSets, SequencesExt

CONSTANTS
  Inputs,     \* buffers: their kind, heads, and how many characters were read
  Dirty       \* whether the memory of a request_t may hold anything

\* The characters a head was written with.
LineText(h) == FlattenSeq(h.line)
FieldText(f) == f.name \o f.sep \o f.value \o f.pad \o f.eol
HeadText(h) == LineText(h) \o FlattenSeq([k \in DOMAIN h.fields |-> FieldText(h.fields[k])]) \o h.end

\* The buffer the peer fills with an input.
Text(in) == FlattenSeq([k \in DOMAIN in.heads |-> HeadText(in.heads[k])])

ASSUME HeadAssumption ==
  /\ Dirty \subseteq BOOLEAN
  /\ \A in \in Inputs : Text(in) \in Seq(Char) /\ in.read \in 0..Len(Text(in))

CRLF == <<CR, LF>>
Ends == {CRLF, <<LF>>}

FieldParts == [name : Seq(Char), sep : Seq(Char), value : Seq(Char), pad : Seq(Char), eol : Ends]
HeadParts  == [line : Seq(Seq(Char)), fields : Seq(FieldParts), end : Ends, valid : BOOLEAN]

\* The parts of a header line are what they are called: the name ends before
\* the first colon or, without one, with the line, and the spaces around a
\* value are not its own.
FieldForm(f) ==
  /\ \A i \in DOMAIN f.name : f.name[i] \notin {":", CR, LF}
  /\ \/ f.sep # <<>> /\ \A i \in DOMAIN f.sep : f.sep[i] = IF i = 1 THEN ":" ELSE SP
     \/ f.sep = <<>> /\ f.name # <<>> /\ f.value = <<>> /\ f.pad = <<>>
  /\ \A i \in DOMAIN f.value : f.value[i] \notin {CR, LF} /\ (i \in {1, Len(f.value)} => f.value[i] # SP)
  /\ \A i \in DOMAIN f.pad : f.pad[i] = SP

\* The first line starts with no line end, and ends with the first one.
LineForm(t) == t # <<>> /\ t[1] \notin {CR, LF} /\ \A i \in DOMAIN t : t[i] = LF <=> i = Len(t)

\* Its parts, for a request: the method, spaces, the URI, spaces, the version,
\* which an HTTP/0.9 line does not have, and the line end; for a response only
\* the last one matters.
RequestForm(l) ==
  /\ l[1] # <<>> /\ \A i \in DOMAIN l[1] : l[1][i] # SP
  /\ l[2] # <<>> /\ \A k \in {2, 4} : \A i \in DOMAIN l[k] : l[k][i] = SP
  /\ l[3] # <<>> /\ l[3][1] # SP /\ l[3][Len(l[3])] # SP
  /\ l[5] # <<>> => l[4] # <<>> /\ l[5][1] = "H"
  /\ \A k \in 1..5 : \A i \in DOMAIN l[k] : l[k][i] \notin {CR, LF}

ASSUME FormAssumption ==
  \A in \in Inputs :
    /\ in.heads \in Seq(HeadParts)
    /\ \A k \in DOMAIN in.heads :
         LET l == in.heads[k].line IN
         /\ LineForm(LineText(in.heads[k])) /\ Len(l) = 6 /\ l[6] \in Ends /\ (in.kind = "request" => RequestForm(l))
         /\ \A j \in DOMAIN in.heads[k].fields : FieldForm(in.heads[k].fields[j])

VARIABLES
  input,     \* what the peer has sent
  text,      \* the buffer, from 1 on; header names are changed in it
  p,         \* where the parser stands; b->pos between two calls
  mode,      \* which parser runs, or how the handler has ended
  r,         \* the request_t
  elements,  \* the list from element_head to element_tail
  chain,     \* the chain constructed last
  sent,      \* history: the chains handed to send_chains so far, with their elements
  result     \* history: the last writev: characters written and asked for, and what send_chains made of it

vars == <<input, text, p, mode, r, elements, chain, sent, result>>

LOK == 0
LAGAIN == -3

NULL == 0
WILD == -50       \* a pointer to nowhere, a number that means nothing

\* The fields of a request_t that are read before they are written.
Fields(dirty) ==
  LET void == IF dirty THEN WILD ELSE NULL IN
  [state |-> "start", request_start |-> void, request_end |-> void, method_end |-> void,
   get |-> FALSE, schema_end |-> void, uri_start |-> void, uri_end |-> void, uri |-> void,
   complex_uri |-> dirty, http_protocol |-> void, http_major |-> void, http_minor |-> void,
   header_name_start |-> void, header_name_end |-> void, header_start |-> void, header_end |-> void,
   invalid_header |-> FALSE, lowcase_index |-> void, upstream |-> dirty,
   count |-> void, status_end |-> void]

\* http_create_request sets conn, header_in and state only.
Init ==
  /\ input \in Inputs
  /\ text = Text(input)
  /\ p = 1
  /\ mode = IF input.kind = "request" THEN "request_line" ELSE "status_line"
  /\ r \in {Fields(d) : d \in Dirty}
  /\ elements = <<>> /\ chain = <<>> /\ sent = <<>>
  /\ result = [wrote |-> 0, total |-> 0, rv |-> LOK]

ch == text[p]

\* The parsers' loops run while p < b->last.
More == p <= input.read

-----------------------------------------------------------------------------
(* ngx_http_parse_request_line and http_request_line_parsed.               *)

Value(c) == IF c = "1" THEN 1 ELSE 0

InVersion == {"first_major_digit", "major_digit"}
InUri     == {"after_slash_in_uri", "check_uri", "uri"}
InHost    == {"host_start", "host", "host_end", "port"}

\* One character of the request line; to is the state it leads to.  The flags
\* complex_uri and quoted_uri are only ever tested together.
RequestLineChar(to) ==
  LET st  == r.state
      hit(s, cs) == st \in s /\ ch \in cs
  IN [r EXCEPT
    !.state         = to,
    !.request_start = IF st = "start" THEN p ELSE @,
    !.method_end    = IF hit({"method"}, {SP}) THEN p - 1 ELSE @,
    !.get           = IF hit({"method"}, {SP}) /\ p = r.request_start + 1 /\ text[p - 1] \in {"G", "M"}
                      THEN text[p - 1] = "G" ELSE @,
    !.schema_end    = IF hit({"schema"}, {":"}) THEN p ELSE @,
    !.uri_start     = IF hit({"spaces_before_uri"} \cup InHost, {"/"}) THEN p
                      ELSE IF hit(InHost, {SP}) THEN r.schema_end + 1 ELSE @,
    !.uri_end       = IF hit(InUri, {SP, CR, LF}) THEN p
                      ELSE IF hit(InHost, {SP}) THEN r.schema_end + 2 ELSE @,
    !.complex_uri   = @ \/ hit(InUri, {"#"}) \/ hit({"after_slash_in_uri", "check_uri"}, {"%"})
                        \/ hit({"after_slash_in_uri"}, {".", "/"}),
    !.http_protocol = IF hit(AfterUri, {"H"}) THEN p ELSE @,
    !.http_major    = IF st = "first_major_digit" THEN Value(ch)
                      ELSE IF hit({"major_digit"}, Digit) THEN @ * 10 + Value(ch) ELSE @,
    !.http_minor    = IF hit(InUri \cup AfterUri, {CR, LF}) THEN 9
                      ELSE IF st = "first_minor_digit" THEN Value(ch)
                      ELSE IF hit({"minor_digit"}, Digit) THEN @ * 10 + Value(ch) ELSE @,
    !.request_end   = IF st = "almost_done" THEN p - 1 ELSE @]

\* Mutant: the state is not set back for the next parser.
RequestLineDone_no_reset ==
  LET q == RequestLineChar(r.state) IN
  [q EXCEPT !.request_end = IF @ = NULL THEN p ELSE @]

\* The label done: a request_end that is set is kept.
RequestLineDone ==
  LET q == RequestLineChar("start") IN
  [q EXCEPT !.request_end = IF @ = NULL THEN p ELSE @]

\* http_request_line_parsed: the piece for the URI is set for plain ones only.
http_request_line_parsed(q) == [q EXCEPT !.uri = IF q.complex_uri THEN @ ELSE q.uri_start]

request_line_char ==
  LET to == RequestLineMove[r.state][ch] IN
  /\ mode = "request_line" /\ More /\ to \notin {"done", "invalid"}
  /\ r' = RequestLineChar(to)
  /\ p' = IF Rereads(r.state, ch) THEN p ELSE p + 1
  /\ UNCHANGED <<input, text, mode, elements, chain, sent, result>>

\* http_process_request_line drops the rest of the buffer where the line of an
\* HTTP/0.9 request names another method than GET.
request_line_done ==
  /\ mode = "request_line" /\ More /\ RequestLineMove[r.state][ch] = "done"
  /\ LET q == RequestLineDone IN
       \/ /\ q.http_major * 1000 + q.http_minor = 9 /\ ~q.get
          /\ mode' = "idle" /\ r' = q
       \/ /\ ~(q.http_major * 1000 + q.http_minor = 9 /\ ~q.get)
          /\ mode' = "headers" /\ r' = http_request_line_parsed(q)
  /\ p' = p + 1 /\ elements' = <<>>
  /\ UNCHANGED <<input, text, chain, sent, result>>

\* The parser asks for more or gives up: the handler returns.
request_line_ends ==
  /\ mode = "request_line"
  /\ More => RequestLineMove[r.state][ch] = "invalid"
  /\ mode' = "idle"
  /\ UNCHANGED <<input, text, p, r, elements, chain, sent, result>>

-----------------------------------------------------------------------------
(* ngx_http_parse_status_line, as http_process_response_line calls it.     *)

\* The third digit ends the code; count is not set before.
StatusLineTo ==
  IF r.state = "status" /\ ch \in Digit /\ r.count + 1 = 3
  THEN "space_after_status" ELSE StatusLineMove[r.state][ch]

StatusLineChar(to) ==
  [r EXCEPT
    !.state         = to,
    !.request_start = IF r.state = "start" THEN p ELSE @,
    !.count         = IF r.state = "status" /\ ch \in Digit THEN @ + 1 ELSE @,
    !.status_end    = IF r.state = "almost_done" THEN p - 1 ELSE @]

status_line_char ==
  /\ mode = "status_line" /\ More /\ StatusLineTo \notin {"done", "invalid"}
  /\ r' = StatusLineChar(StatusLineTo)
  /\ p' = p + 1
  /\ UNCHANGED <<input, text, mode, elements, chain, sent, result>>

status_line_done ==
  /\ mode = "status_line" /\ More /\ StatusLineTo = "done"
  /\ r' = [StatusLineChar("start") EXCEPT !.status_end = IF @ = NULL THEN p ELSE @]
  /\ mode' = "headers"
  /\ p' = p + 1 /\ elements' = <<>>
  /\ UNCHANGED <<input, text, chain, sent, result>>

status_line_ends ==
  /\ mode = "status_line"
  /\ More => StatusLineTo = "invalid"
  /\ mode' = "idle"
  /\ UNCHANGED <<input, text, p, r, elements, chain, sent, result>>

-----------------------------------------------------------------------------
(* ngx_http_parse_header_line and http_process_request_headers.            *)

\* "HTTP/..." instead of a header is skipped where r->upstream is set, which
\* nobody does on purpose.
HeaderLineTo ==
  IF /\ r.state = "name" /\ ch = "/" /\ r.upstream
     /\ p - r.header_name_start = 4
     /\ SubSeq(text, r.header_name_start, p - 1) = <<"H", "T", "T", "P">>
  THEN "ignore_line" ELSE HeaderLineMove[r.state][ch]

\* Mutant: a line without a colon keeps the start of the value before.
ValueStarts_not_name == r.state = "space_before_value" /\ ch # SP

\* header_start is set.
ValueStarts ==
  \/ r.state = "name" /\ ch \in {CR, LF}
  \/ r.state = "space_before_value" /\ ch # SP

\* header_end is set.
ValueEnds ==
  \/ r.state \in {"start", "name", "space_before_value", "value"} /\ ch \in {CR, LF}
  \/ r.state = "value" /\ ch = SP

HeaderLineChar(to) ==
  LET st  == r.state
      named == st \in {"start", "name"} /\ ch \in NameChar
  IN [r EXCEPT
    !.state             = to,
    !.header_name_start = IF st = "start" THEN p ELSE @,
    !.header_name_end   = IF st = "name" /\ ch \in {":", CR, LF} THEN p ELSE @,
    !.header_start      = IF ValueStarts THEN p ELSE @,
    !.header_end        = IF ValueEnds THEN p ELSE @,
    !.invalid_header    = CASE st = "start" -> ch \notin NameChar \cup {CR, LF}
                            [] st = "name"  -> @ \/ (ch \notin NameChar \cup {":", CR, LF} /\ to = "name")
                            [] OTHER        -> @,
    !.lowcase_index     = IF named THEN 1 ELSE @]

\* A name character is stored in lowcase_header; the index is set only by a
\* name that starts with one.
WildIndex == r.state = "name" /\ ch \in NameChar /\ r.lowcase_index = WILD

header_line_char ==
  /\ mode = "headers" /\ More /\ HeaderLineTo \notin {"done", "header_done", "invalid"}
  /\ r' = HeaderLineChar(HeaderLineTo)
  /\ p' = p + 1
  /\ UNCHANGED <<input, text, mode, elements, chain, sent, result>>

header_line_wild ==
  /\ mode = "headers" /\ More /\ WildIndex
  /\ mode' = "crashed"
  /\ UNCHANGED <<input, text, p, r, elements, chain, sent, result>>

\* Mutant: off by one.
Span_short(from, to) == [from |-> from, len |-> to - from - 1]

Span(from, to) == [from |-> from, len |-> to - from]
Chars(t, s)    == SubSeq(t, s.from, s.from + s.len - 1)

\* The characters of s in lower case, where they are.
lowcase_key_copy_from_origin(t, s) ==
  [k \in DOMAIN t |-> IF k \in s.from..(s.from + s.len - 1) THEN tolower[t[k]] ELSE t[k]]

\* Stands for the names in lower case whose hash is HostHash.  That is the hash
\* of "Host" with its capital and its final NUL: "host" is none of them, and
\* two names of seven letters are ("gjutwtw" and "zuxgrxh").
HostHash == <<"h", "1">>

Key(q)   == Span(q.header_name_start, q.header_name_end)
Val(q) == Span(q.header_start, q.header_end)

Lower(name) == [k \in DOMAIN name |-> tolower[name[k]]]

\* Whether http_process_element takes the line for a Host line.
IsHost(name) == Lower(name) = HostHash

\* What http_process_element makes of a header line: the length of the value of
\* what it takes for a Host line changes, and once a host was found the value
\* is put in lower case as well.
Host(q) == http_process_host(Chars(text, Val(q)))

Element(q) ==
  [key |-> Key(q),
   value |-> IF IsHost(Chars(text, Key(q)))
             THEN [Val(q) EXCEPT !.len = Host(q).length] ELSE Val(q)]

TextAfter(q) ==
  LET t == lowcase_key_copy_from_origin(text, Key(q))
  IN  IF IsHost(Chars(text, Key(q))) /\ Host(q).ok
      THEN lowcase_key_copy_from_origin(t, Val(q)) ELSE t

\* One header line is complete.
header_line_done ==
  /\ mode = "headers" /\ More /\ HeaderLineTo = "done"
  /\ LET q == HeaderLineChar("start") IN
       /\ r' = q
       /\ \/ /\ q.invalid_header
             /\ UNCHANGED <<text, elements>>
          \/ /\ ~q.invalid_header
             /\ text' = TextAfter(q)
             /\ elements' = Append(elements, Element(q))
  /\ p' = p + 1
  /\ UNCHANGED <<input, mode, chain, sent, result>>

\* An error, or the need for more, makes the loop call the parser again on the
\* same characters, for ever.
headers_spin ==
  /\ mode = "headers"
  /\ More => HeaderLineTo = "invalid"
  /\ mode' = "spinning"
  /\ UNCHANGED <<input, text, p, r, elements, chain, sent, result>>

-----------------------------------------------------------------------------
(* The chains.                                                             *)

Piece(from, len) == [from |-> from, len |-> len]

\* Mutant: the empty line is not added to the last value.
HeaderPieces_no_end ==
  FlattenSeq([k \in DOMAIN elements |->
    <<Piece(elements[k].key.from, elements[k].key.len + 2),
      Piece(elements[k].value.from, elements[k].value.len + 2)>>])

\* Every name with ": ", every value with its line end, the last one with the
\* empty line as well.
HeaderPieces ==
  FlattenSeq([k \in DOMAIN elements |->
    <<Piece(elements[k].key.from, elements[k].key.len + 2),
      Piece(elements[k].value.from, elements[k].value.len + (IF k = Len(elements) THEN 4 ELSE 2))>>])

http_construct_request_chains ==
  <<Piece(r.request_start, r.method_end - r.request_start + 2),
    Piece(r.uri, r.uri_end - r.uri_start + 1),
    Piece(r.http_protocol, r.request_end - r.http_protocol + 2)>> \o HeaderPieces

construct_response_chains ==
  <<Piece(r.request_start, r.status_end - r.request_start + 2)>> \o HeaderPieces

\* The end of the head.  A response without a header has no element to start
\* from.
headers_done ==
  /\ mode = "headers" /\ More /\ HeaderLineTo = "header_done"
  /\ r' = HeaderLineChar("start")
  /\ p' = p + 1
  /\ \/ /\ input.kind = "request"
        /\ chain' = http_construct_request_chains /\ mode' = "send"
     \/ /\ input.kind = "response" /\ elements # <<>>
        /\ chain' = construct_response_chains /\ mode' = "send"
     \/ /\ input.kind = "response" /\ elements = <<>>
        /\ mode' = "crashed" /\ UNCHANGED chain
  /\ UNCHANGED <<input, text, elements, sent, result>>

-----------------------------------------------------------------------------
(* send_chains.                                                            *)

\* The characters of the first k pieces.
Upto(c, k) ==
  LET upto[i \in 0..k] == IF i = 0 THEN 0 ELSE upto[i - 1] + c[i].len IN upto[k]

\* Mutant: a write that ends with a piece is taken for complete.
send_chains_boundary(c, n) == IF \E k \in DOMAIN c : Upto(c, k) = n THEN LOK ELSE LAGAIN

\* The loop over the chain after writev has written n characters: what is left
\* of n behind each piece, or -1 once a piece was not written in full.
send_chains(c, n) ==
  LET left[k \in 0..Len(c)] ==
        IF k = 0 THEN n
        ELSE LET m == left[k - 1] IN IF m >= c[k].len THEN m - c[k].len ELSE -1
  IN  IF left[Len(c)] >= 0 THEN LOK ELSE LAGAIN

\* What writev may have written, other than nothing.  It refuses pieces that
\* point nowhere or have no length.
Writes ==
  IF \E k \in DOMAIN chain : chain[k].from < 1 \/ chain[k].len < 0 THEN {} ELSE 1..Upto(chain, Len(chain))

\* http_send_to_upstream and http_send_to_client.  Whatever comes of it, the
\* next request of the buffer follows.
send ==
  /\ mode = "send"
  /\ \/ \E n \in Writes :
          result' = [wrote |-> n, total |-> Upto(chain, Len(chain)), rv |-> send_chains(chain, n)]
     \/ UNCHANGED result      \* writev returned 0 or -1
  /\ sent' = Append(sent, [chain |-> chain, elements |-> elements])
  /\ mode' = IF input.kind = "request" THEN "request_line" ELSE "idle"
  /\ UNCHANGED <<input, text, p, r, elements, chain>>

\* After a write the loop follows the last piece's next, which nobody sets.
send_wild ==
  /\ mode = "send" /\ Writes # {}
  /\ mode' = "crashed"
  /\ UNCHANGED <<input, text, p, r, elements, chain, sent, result>>

Ended == mode \in {"idle", "spinning", "crashed"} /\ UNCHANGED vars

Next ==
  \/ request_line_char \/ request_line_done \/ request_line_ends
  \/ status_line_char \/ status_line_done \/ status_line_ends
  \/ header_line_char \/ header_line_wild \/ header_line_done \/ headers_done \/ headers_spin
  \/ send \/ send_wild
  \/ Ended

Spec == Init /\ [][Next]_vars

\* A handler that was called runs on.
FairSpec == Spec /\ WF_vars(Next)

-----------------------------------------------------------------------------
(* What the parts of the input say.                                        *)

\* Where head k starts in the buffer; one more than where head k - 1 ends.
From(in, k) == 1 + Len(FlattenSeq([j \in 1..(k - 1) |-> HeadText(in.heads[j])]))

Whole == Cardinality({k \in DOMAIN input.heads : From(input, k + 1) - 1 <= input.read})

\* The memory of the request_t was zero when it was taken from its pool, which
\* http_create_request does nothing about.
Zeroed == ~r.upstream

ValidName(name) == name # <<>> /\ \A k \in DOMAIN name : name[k] \in NameChar

FieldFrom(in, k, j) ==
  From(in, k) + Len(LineText(in.heads[k]))
    + Len(FlattenSeq([i \in 1..(j - 1) |-> FieldText(in.heads[k].fields[i])]))

\* The element header line j of head k stands for.
Expected(in, k, j) ==
  LET f    == in.heads[k].fields[j]
      name == FieldFrom(in, k, j)
      from == name + Len(f.name \o f.sep) + (IF f.value = <<>> THEN Len(f.pad) ELSE 0)
  IN  [key |-> Piece(name, Len(f.name)), value |-> Piece(from, Len(f.value))]

\* The header lines of head k, among its first n, that carry a valid name, in
\* order.
ValidUpto(in, k, n) ==
  LET js[j \in 0..n] ==
        IF j = 0 THEN <<>>
        ELSE IF ValidName(in.heads[k].fields[j].name) THEN Append(js[j - 1], j) ELSE js[j - 1]
  IN  js[n]
ValidFields(in, k) == ValidUpto(in, k, Len(in.heads[k].fields))

\* A head as the chains assume it: single spaces, ": ", CR LF, nothing behind
\* the values, and at least one header.
Exact(h) ==
  /\ h.fields # <<>>
  /\ h.line[2] = <<SP>> /\ h.line[4] \in {<<SP>>, <<>>} /\ h.line[6] = CRLF /\ h.end = CRLF
  /\ h.line[5] # <<>>
  /\ \A j \in DOMAIN h.fields :
       /\ ValidName(h.fields[j].name) /\ ~IsHost(h.fields[j].name)
       /\ h.fields[j].sep = <<":", SP>> /\ h.fields[j].pad = <<>> /\ h.fields[j].eol = CRLF

\* Character k follows a slash, or a slash and nothing but "+".
AfterSlash(uri, k) == \E i \in 1..(k - 1) : uri[i] = "/" /\ \A j \in (i + 1)..(k - 1) : uri[j] = "+"

\* A path without "//", "/." and "%", and without "#" anywhere.
Plain(uri) ==
  /\ uri[1] = "/" /\ At(uri, "#") = {}
  /\ \A k \in DOMAIN uri :
       uri[k] = "%" \/ (uri[k] \in {"/", "."} /\ AfterSlash(uri, k)) => \E i \in 1..(k - 1) : uri[i] = "?"

\* What goes out for a head: its text with the names in lower case.
Forwarded(h) ==
  HeadText([h EXCEPT !.fields = [j \in DOMAIN h.fields |->
              [h.fields[j] EXCEPT !.name = Lower(@)]]])

Contiguous(c, from) == \A k \in DOMAIN c : c[k].from = from + Upto(c, k - 1)

-----------------------------------------------------------------------------
(* Properties.                                                             *)

\* Types of the request's fields, the elements and the chains.
TypeOK ==
  /\ mode \in {"request_line", "status_line", "headers", "send", "idle", "spinning", "crashed"}
  /\ p \in 1..(input.read + 1)
  /\ text \in Seq(Char) /\ r.state \in State
  /\ \A k \in DOMAIN elements : elements[k].key.len > 0 /\ elements[k].value.len >= 0

\* Whatever the peer sends, the pieces the header loop cuts out of the buffer
\* lie in the characters that were read, name before value, one line's before
\* the next line's: none of the four pointers a line sets in the request_t is
\* left from the line before when http_process_request_headers reads it.
ElementsInside ==
  \A k \in DOMAIN elements :
    LET e == elements[k] IN
    /\ 1 <= e.key.from /\ e.key.from + e.key.len <= e.value.from
    /\ e.value.from + e.value.len < (IF k = Len(elements) THEN p ELSE elements[k + 1].key.from)

\* http_construct_request_chains and construct_response_chains take a head
\* apart into pieces and count in the separators by fixed numbers: for a head
\* written the usual way the pieces follow each other without gap or overlap
\* from its first character to its empty line, so that it goes out as it came
\* in, but for names in lower case.  This is so for a response in any memory,
\* and for a request only if the memory of its request_t was zero, which
\* http_create_request does not see to, and its URI is plain and so are those
\* of the requests before it: the flags of the struct and of those URIs decide
\* whether the URI's piece is set.
ExactForwarded ==
  \A k \in DOMAIN sent :
    LET h == input.heads[k] IN
    /\ Exact(h)
    /\ input.kind = "request" => Zeroed /\ \A j \in 1..k : Plain(input.heads[j].line[3])
    => /\ Contiguous(sent[k].chain, From(input, k))
       /\ Upto(sent[k].chain, Len(sent[k].chain)) = Len(HeadText(h))
       /\ SubSeq(text, From(input, k), From(input, k + 1) - 1) = Forwarded(h)

\* The header loop finds exactly the header lines with a valid name, in order,
\* with the name and the value the line was written with, whatever its
\* spacing and line end and whatever the request before left in the struct.
\* Only the length of the value may differ where the name has the hash HostHash.
ElementsAgree ==
  \A k \in DOMAIN sent :
    LET js == ValidFields(input, k) IN
    /\ Len(sent[k].elements) = Len(js)
    /\ \A i \in DOMAIN js :
         LET e == sent[k].elements[i]  x == Expected(input, k, js[i]) IN
         /\ e.key = x.key /\ e.value.from = x.value.from
         /\ IsHost(input.heads[k].fields[js[i]].name) \/ e.value.len = x.value.len

\* Where the hash of its name makes the header loop call it, http_process_host
\* cuts a value to the host it names, without port and final dot, and leaves
\* one that names no host as it is; only a dot in the port can keep it from
\* finding the final dot.  (A Host line is no such line, and keeps its value:
\* see HostHash and ElementsAgree.)
HostLengths ==
  \A k \in DOMAIN sent : \A i \in DOMAIN sent[k].elements :
    LET f == input.heads[k].fields[ValidFields(input, k)[i]] IN
    IsHost(f.name) => HostIn(f.value, sent[k].elements[i].value.len)

\* send_chains tells its caller that everything was written exactly when it
\* was: the subtractions along the chain come out right also for a write that
\* ends with a piece.
SendResult == result.rv = LOK <=> result.wrote = result.total

\* The heads up to k were read as a whole, and are of the form the parsers
\* accept.
Promised(k) ==
  /\ k <= Whole
  /\ \A j \in 1..k : input.heads[j].valid
  /\ input.kind = "response" => \A j \in 1..k : ValidFields(input, j) # <<>>

\* Every whole head of the buffer is sent in the end, unless a write or a name
\* before has killed the process, and never one that was cut: the parsers hand
\* over to each other in the right state and at the right character.  This is
\* so for requests in any memory, and for a response only if the memory of its
\* request_t was zero, which http_create_request does not see to.
HeadsForwarded ==
  <>[](/\ Len(sent) <= Whole
       /\ \A k \in DOMAIN input.heads :
            Promised(k) /\ (input.kind = "response" => Zeroed)
              => Len(sent) >= k \/ mode = "crashed")
=============================================================================
