------------------------------- MODULE HttpHost ------------------------------
(***************************************************************************)
(* http_process_host of http_parse.c: the length of the host name in a     *)
(* Host value, without its port and its final dot.                         *)
(***************************************************************************)
EXTENDS HttpParse

\* The locals of the loop: dot is where the last dot was (dot_pos, from 0),
\* failed says that the loop has returned LERROR.
HostStart(h) == [state |-> "usual", dot |-> Len(h), host_len |-> Len(h), failed |-> FALSE]

\* One round, with the character c at k (the code's i).
HostStep(v, k, c) ==
  CASE c = "."                         -> [v EXCEPT !.dot = k, !.failed = @ \/ v.dot = k - 1]
    [] c = ":" /\ v.state = "usual"    -> [v EXCEPT !.host_len = k, !.state = "rest"]
    [] c = "[" /\ k = 0                -> [v EXCEPT !.state = "literal"]
    [] c = "]" /\ v.state = "literal"  -> [v EXCEPT !.host_len = k + 1, !.state = "rest"]
    [] c \in {NUL, "/"}                -> [v EXCEPT !.failed = TRUE]
    [] OTHER                           -> v

HostLoop(h) ==
  LET loop[i \in 0..Len(h)] == IF i = 0 THEN HostStart(h) ELSE HostStep(loop[i - 1], i - 1, h[i])
  IN  loop[Len(h)]

\* Mutant: the final dot is not dropped from a name with a port.
FinalDot_no_port(v) == v.dot = v.host_len - 1 /\ v.state = "usual"

\* The host ends in the last dot.
FinalDot(v) == v.dot = v.host_len - 1

\* Whether a host was found, and the length the value has afterwards: an
\* LERROR leaves it alone, and the caller goes on.
http_process_host(h) ==
  LET v   == HostLoop(h)
      len == IF FinalDot(v) THEN v.host_len - 1 ELSE v.host_len
      ok  == ~v.failed /\ len > 0
  IN  [ok |-> ok, length |-> IF ok THEN len ELSE Len(h)]

-----------------------------------------------------------------------------
(* What it is to compute.                                                  *)

\* The positions of c in h.
At(h, c) == {k \in 1..Len(h) : h[k] = c}

First(S, default) == IF S = {} THEN default ELSE CHOOSE k \in S : \A j \in S : k <= j

\* The name and what is not it: "[...]", or everything before the first colon.
NameLength(h) ==
  IF h # <<>> /\ h[1] = "[" THEN First(At(h, "]"), Len(h)) ELSE First(At(h, ":"), Len(h) + 1) - 1

\* The name without a final dot.
HostLength(h) ==
  IF NameLength(h) > 0 /\ h[NameLength(h)] = "." THEN NameLength(h) - 1 ELSE NameLength(h)

\* Values that name no host.
NoHost(h) ==
  \/ At(h, NUL) \cup At(h, "/") # {}
  \/ \E k \in At(h, ".") : k + 1 \in At(h, ".")
  \/ HostLength(h) = 0

\* A dot in the port hides a final dot of the name from the code.
PortDot(h) == \E k \in At(h, ".") : k > NameLength(h)

\* len is the length of the host in h, or that of h where it names none.
HostIn(h, len) == ~PortDot(h) => len = IF NoHost(h) THEN Len(h) ELSE HostLength(h)
=============================================================================
