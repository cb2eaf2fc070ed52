----------------------------- MODULE MCHttpHead -----------------------------
EXTENDS HttpHead

HTTP11 == <<"H", "T", "T", "P", "/", "1", ".", "1">>
One == <<SP>>
Two == <<SP, SP>>
Bare == <<LF>>

\* Header lines.
Field(name, sep, value, pad, eol) == [name |-> name, sep |-> sep, value |-> value, pad |-> pad, eol |-> eol]
aField == Field(<<"a">>, <<":", SP>>, <<"a">>, <<>>, CRLF)
AField == Field(<<"A", "-">>, <<":", SP>>, <<"a", SP, "a">>, <<>>, CRLF)

Fields1 ==
  {Field(name, sep, value, pad, eol) :
     name  \in {<<"a">>, <<"A", UNDERSCORE>>, <<"!", "a">>, <<"a", "!">>, <<"H", "T", "T", "P", "/", "a">>},
     sep   \in {<<":">>, <<":", SP>>, <<":", SP, SP>>},
     value \in {<<>>, <<"a">>, <<"a", SP, "a">>, <<":", "a">>},
     pad   \in {<<>>, One}, eol \in {CRLF, Bare}}

Nameless == {Field(<<"a">>, <<>>, <<>>, <<>>, CRLF), Field(<<>>, <<":">>, <<>>, <<>>, CRLF)}

HostChar == {"a", ".", ":", "[", "]", "/"}
HostLines == {Field(name, <<":", SP>>, <<"A", ":", "1">>, <<>>, CRLF) : name \in {<<"h">>, <<"H">>}}
HostFields ==
  {Field(HostHash, <<":", SP>>, v, <<>>, CRLF) : v \in UNION {[1..n -> HostChar] : n \in 1..4}}
    \cup {Field(<<"H", "1">>, <<":", SP>>, <<"A", ":", "1">>, <<>>, CRLF)}

\* Heads; valid where the parsers are to accept them.
MakeHead(line, fields, end, valid) == [line |-> line, fields |-> fields, end |-> end, valid |-> valid]
Get(uri) == <<<<"G">>, One, uri, One, HTTP11, CRLF>>

Uris == {<<"/">>, <<"/", "a">>, <<"/", "a", "/", "a">>, <<"/", "a", ".", "a">>, <<"/", "+">>, <<"/", "+", ".">>, <<"/", "a", "?", "%">>,
         <<"/", "?", "/", "/">>, <<"/", "a", SP, "a">>, <<"/", "?", SP, "a">>,
         <<"/", "/">>, <<"/", ".">>, <<"/", "%">>, <<"/", "a", "%">>, <<"/", "a", "#">>, <<"/", "?", "#">>,
         <<"a", ":", "/", "/", "a">>, <<"a", ":", "/", "/", "a", ":", "1", "/", "a">>,
         <<"a", ":", "/", "/", "[", ":", "]", "/">>, <<"a", ":", "/", "/", "[", ":", "]", ":", "1">>}
BadUris == {<<"/", NUL>>, <<"a", "/">>, <<"a", ":", "a">>, <<"a", ":", "/", "a">>, <<"a", ":", "/", "/", "!">>, <<"/", SP, "H">>, <<"[">>}
Versions == {HTTP11, HTTP11 \o One, <<"H", "T", "T", "P", "/", "1", "1", ".", "1", "0">>}
BadVersions == {<<"H", "T", "a">>, <<"H", "T", "T", "P", "/", "0">>, <<"H", "T", "T", "P", "/", "1", ":">>, HTTP11 \o <<"a">>}

LineHeads ==
  {MakeHead(<<m, sp, uri, sp2, v, eol>>, <<aField>>, CRLF, TRUE) :
     m \in {<<"G">>, <<"M">>, <<"A", UNDERSCORE>>}, sp \in {One, Two}, uri \in Uris, sp2 \in {One, Two}, v \in Versions, eol \in {CRLF, Bare}}
BadHeads ==
     {MakeHead(Get(uri), <<aField>>, CRLF, FALSE) : uri \in BadUris}
  \cup {MakeHead(<<<<"G">>, One, <<"/">>, One, v, CRLF>>, <<aField>>, CRLF, FALSE) : v \in BadVersions}
  \cup {MakeHead(<<<<"a">>, One, <<"/">>, One, HTTP11, CRLF>>, <<aField>>, CRLF, FALSE)}
  \cup {MakeHead(Get(<<"/">>), <<Field(<<"a", NUL>>, <<":">>, <<"a">>, <<>>, CRLF)>>, CRLF, FALSE)}

\* HTTP/0.9: no version.
OldHeads ==
  {MakeHead(<<m, One, uri, sp2, <<>>, eol>>, <<aField>>, CRLF, m = <<"G">>) :
     m \in {<<"G">>, <<"M">>}, uri \in {<<"/">>, <<"/", "a">>, <<"/", "?">>}, sp2 \in {<<>>, One}, eol \in {CRLF, Bare}}

FieldHeads == {MakeHead(Get(<<"/">>), <<f>>, e, TRUE) : f \in Fields1 \cup Nameless, e \in {CRLF, Bare}}
  \cup {MakeHead(Get(<<"/">>), <<f>>, CRLF, TRUE) : f \in HostFields \cup HostLines}

PairFields == {aField, AField, Field(<<"!", "a">>, <<":", SP>>, <<"a">>, <<>>, CRLF), Field(<<"a">>, <<":">>, <<>>, One, Bare)}
MoreHeads == {MakeHead(Get(<<"/">>), fs, CRLF, TRUE) : fs \in {<<>>} \cup (PairFields \X PairFields)}

\* Requests behind each other in one buffer, which may end anywhere.
Pipelined ==
  {MakeHead(Get(<<"/", "a">>), <<aField>>, CRLF, TRUE), MakeHead(Get(<<"/", "%">>), <<AField>>, CRLF, TRUE),
   MakeHead(<<<<"M">>, One, <<"/">>, One, HTTP11, Bare>>, <<>>, Bare, TRUE),
   MakeHead(<<<<"G">>, One, <<"/">>, <<>>, <<>>, CRLF>>, <<aField>>, CRLF, TRUE)}

\* Responses.  The parts behind the code are its text.
StatusLineOf(v, code, words, eol) == <<v, One, code, <<>>, words, eol>>
Code == <<"1", "0", "0">>
Responses ==
  {MakeHead(StatusLineOf(HTTP11, Code, w, eol), fs, CRLF, TRUE) :
     w \in {<<SP, "A">>, <<".", "1", SP, "A", "a">>}, eol \in {CRLF, Bare},
     fs \in {<<>>, <<aField>>, <<aField, AField>>}}
  \cup {MakeHead(StatusLineOf(v, c, <<SP>>, CRLF), <<aField>>, CRLF, FALSE) :
          v \in {HTTP11, <<"H", "a">>}, c \in {<<"1", "a">>, <<"1", "0", "0", "0">>}}

Length(hs) == Len(FlattenSeq([k \in DOMAIN hs |-> HeadText(hs[k])]))
Read(kind, hs) == [kind |-> kind, heads |-> hs, read |-> Length(hs)]
Cut(kind, hs) == {[kind |-> kind, heads |-> hs, read |-> n] : n \in 0..Length(hs)}

MCInputs ==
       {Read("request", <<h>>) : h \in LineHeads \cup BadHeads \cup OldHeads \cup FieldHeads \cup MoreHeads}
  \cup UNION {Cut("request", hs) : hs \in Pipelined \X Pipelined}
  \cup UNION {Cut("response", <<h>>) : h \in Responses}
=============================================================================
