------------------------------ MODULE HttpParse -----------------------------
(***************************************************************************)
(* The three state machines of ngx_http_parse.c as tables: the state a     *)
(* character leads to from a state, "done" where the line is complete and  *)
(* "invalid" where the parser gives up.  State names drop the code's sw_.  *)
(*                                                                         *)
(* A character stands for the class of characters the machines treat like  *)
(* it: a method or a word of a name is one letter long.                    *)
(***************************************************************************)
EXTENDS Integers, Sequences

SP == "SP"
CR == "CR"
LF == "LF"
NUL == "NUL"
UNDERSCORE == "UNDERSCORE"

Upper  == {"G", "M", "A", "H", "T", "P"}   \* G is the method GET, M another method known
Letter == Upper \cup {"a", "h"}
Digit  == {"0", "1"}
Char   == Letter \cup Digit \cup {SP, "/", ":", ".", "%", "?", "#", "+", "-", UNDERSCORE, "!", "[", "]", CR, LF, NUL}

tolower == [c \in Char |-> IF c = "A" THEN "a" ELSE IF c = "H" THEN "h" ELSE c]

\* What the array usual[] lets pass in a URI without a look.
Usual == Letter \cup Digit \cup {UNDERSCORE, "-", ":", "!", "[", "]"}

On(states, chars, to) == {<<s, c, to>> : s \in states, c \in chars}

\* The end of a line, where it may follow.
LineEnd(states) == On(states, {CR}, "almost_done") \cup On(states, {LF}, "done")

-----------------------------------------------------------------------------
(* ngx_http_parse_request_line.                                            *)

MethodEdges ==
       On({"start"}, {CR, LF}, "start")
  \cup On({"start", "method"}, Upper \cup {UNDERSCORE}, "method")
  \cup On({"method", "spaces_before_uri"}, {SP}, "spaces_before_uri")
  \cup On({"spaces_before_uri"}, {"/"}, "after_slash_in_uri")
  \cup On({"spaces_before_uri"}, Letter, "schema")

HostEdges ==
       On({"schema"}, Letter, "schema")
  \cup On({"schema"}, {":"}, "schema_slash")
  \cup On({"schema_slash"}, {"/"}, "schema_slash_slash")
  \cup On({"schema_slash_slash"}, {"/"}, "host_start")
  \cup On({"host_start"}, {"["}, "host_ip_literal")
  \cup On({"host_start", "host"}, Letter \cup Digit \cup {".", "-"}, "host")
  \cup On({"host_start", "host", "host_end"}, {":"}, "port")
  \cup On({"host_start", "host", "host_end", "port"}, {"/"}, "after_slash_in_uri")
  \cup On({"host_start", "host", "host_end", "port"}, {SP}, "host_http_09")
  \cup On({"host_ip_literal"}, Letter \cup Digit \cup {":", "-", ".", UNDERSCORE, "!", "+"}, "host_ip_literal")
  \cup On({"host_ip_literal"}, {"]"}, "host_end")
  \cup On({"port"}, Digit, "port")

UriEdges ==
       On({"after_slash_in_uri", "check_uri"}, Usual, "check_uri")
  \cup On({"after_slash_in_uri"}, {"+"}, "after_slash_in_uri")
  \cup On({"after_slash_in_uri"}, {".", "/", "%", "?", "#"}, "uri")
  \cup On({"check_uri"}, {".", "+"}, "check_uri")
  \cup On({"check_uri"}, {"/"}, "after_slash_in_uri")
  \cup On({"check_uri"}, {"%", "?", "#"}, "uri")
  \cup On({"uri"}, Usual \cup {".", "+", "/", "%", "?", "#"}, "uri")
  \cup On({"after_slash_in_uri", "check_uri"}, {SP}, "check_uri_http_09")
  \cup On({"uri"}, {SP}, "http_09")
  \cup LineEnd({"after_slash_in_uri", "check_uri", "uri"})

\* Behind the URI: the version, the end of an HTTP/0.9 line, or more URI; in
\* the last case the character is read again (p--).
AfterUri == {"host_http_09", "check_uri_http_09", "http_09"}
MoreUri  == Char \ {SP, CR, LF, "H"}

AfterUriEdges ==
       (UNION {On({s}, {SP}, s) : s \in AfterUri})
  \cup On(AfterUri, {"H"}, "http_H")
  \cup On({"check_uri_http_09"}, MoreUri, "check_uri")
  \cup On({"http_09"}, MoreUri, "uri")
  \cup LineEnd(AfterUri)

Rereads(st, c) == st \in {"check_uri_http_09", "http_09"} /\ c \in MoreUri

\* "HTTP/" and the version up to its last digit, in both first lines.
VersionEdges ==
       On({"http_H"}, {"T"}, "http_HT")
  \cup On({"http_HT"}, {"T"}, "http_HTT")
  \cup On({"http_HTT"}, {"P"}, "http_HTTP")
  \cup On({"http_HTTP"}, {"/"}, "first_major_digit")
  \cup On({"first_major_digit"}, Digit \ {"0"}, "major_digit")
  \cup On({"major_digit"}, Digit, "major_digit")
  \cup On({"major_digit"}, {"."}, "first_minor_digit")
  \cup On({"first_minor_digit", "minor_digit"}, Digit, "minor_digit")

VersionEndEdges ==
       On({"minor_digit", "spaces_after_digit"}, {SP}, "spaces_after_digit")
  \cup LineEnd({"minor_digit", "spaces_after_digit"})
  \cup On({"almost_done"}, {LF}, "done")

RequestLine == MethodEdges \cup HostEdges \cup UriEdges \cup AfterUriEdges \cup VersionEdges \cup VersionEndEdges

-----------------------------------------------------------------------------
(* ngx_http_parse_status_line.  The third digit of the code leads on.      *)

StatusLine ==
       On({"start"}, {"H"}, "http_H")
  \cup VersionEdges
  \cup On({"minor_digit"}, {SP}, "status")
  \cup On({"status"}, Digit \cup {SP}, "status")
  \cup On({"space_after_status"}, {SP, "."}, "status_text")
  \cup On({"status_text"}, Char \ {CR, LF}, "status_text")
  \cup LineEnd({"space_after_status", "status_text"})
  \cup On({"almost_done"}, {LF}, "done")

-----------------------------------------------------------------------------
(* ngx_http_parse_header_line, which allows underscores.                   *)

NameChar == Letter \cup Digit \cup {"-", UNDERSCORE}

HeaderNameEdges ==
       On({"start"}, {CR}, "header_almost_done")
  \cup On({"start", "header_almost_done"}, {LF}, "header_done")
  \cup On({"start"}, Char \ {CR, LF, NUL}, "name")
  \cup On({"name"}, {":"}, "space_before_value")
  \cup On({"name"}, Char \ {":", CR, LF, NUL}, "name")
  \cup LineEnd({"name"})

\* Mutant: what follows a space in a value is taken for the end of the line.
HeaderValueEdges_one_word ==
       On({"space_before_value"}, {SP}, "space_before_value")
  \cup On({"space_before_value", "value"}, Char \ {SP, CR, LF, NUL}, "value")
  \cup On({"value"}, {SP}, "space_after_value")
  \cup On({"space_after_value"}, Char \ {CR, LF, NUL}, "space_after_value")
  \cup LineEnd({"space_before_value", "value", "space_after_value"})
  \cup On({"ignore_line"}, Char \ {LF}, "ignore_line")
  \cup On({"ignore_line"}, {LF}, "start")
  \cup On({"almost_done"}, {CR}, "almost_done")
  \cup On({"almost_done"}, {LF}, "done")

HeaderValueEdges ==
       On({"space_before_value"}, {SP}, "space_before_value")
  \cup On({"space_before_value", "value", "space_after_value"}, Char \ {SP, CR, LF, NUL}, "value")
  \cup On({"value", "space_after_value"}, {SP}, "space_after_value")
  \cup LineEnd({"space_before_value", "value", "space_after_value"})
  \cup On({"ignore_line"}, Char \ {LF}, "ignore_line")
  \cup On({"ignore_line"}, {LF}, "start")
  \cup On({"almost_done"}, {CR}, "almost_done")
  \cup On({"almost_done"}, {LF}, "done")

HeaderLine == HeaderNameEdges \cup HeaderValueEdges

-----------------------------------------------------------------------------
\* The values of r->state, which the machines share.
State == {e[1] : e \in RequestLine \cup StatusLine \cup HeaderLine}

\* The table as a function; a missing edge is a return with an error.
Machine(edges) ==
  [s \in State |-> [c \in Char |->
    IF \E e \in edges : e[1] = s /\ e[2] = c
    THEN (CHOOSE e \in edges : e[1] = s /\ e[2] = c)[3] ELSE "invalid"]]

RequestLineMove == Machine(RequestLine)
StatusLineMove  == Machine(StatusLine)
HeaderLineMove  == Machine(HeaderLine)
=============================================================================
