----------------------------- MODULE MCHttpParser -----------------------------
(***************************************************************************)
(* Correct requests with every kind of body, and some that are not.        *)
(***************************************************************************)
EXTENDS HttpParser

EndLine == <<CR, LF>>
Header(name, value) == [name |-> <<name>>, value |-> value]
Text(h) == h.name \o <<":">> \o h.value \o EndLine
RequestLine == <<"GET", "/", "HTTP/1.1">> \o EndLine

\* A request without a body, and the places where its lines begin.
RequestOf(headers) ==
  LET And(m, h) == [m EXCEPT !.bytes = @ \o Text(h), !.lines = Append(@, Len(m.bytes) + Len(Text(h)))]
      all == FoldLeft(And, [bytes |-> RequestLine, lines |-> <<0, Len(RequestLine)>>], headers)
  IN [bytes |-> all.bytes \o EndLine, lines |-> all.lines, headers |-> headers, marks |-> <<>>,
      body |-> <<>>, joined |-> {}, wellFormed |-> TRUE, waits |-> Len(all.bytes) + 2]

WithBody(m, body) ==
  [m EXCEPT !.bytes = @ \o body, !.body = body, !.waits = Len(m.bytes) + Len(body)]

Mark(m, size, data) ==
  [at |-> Len(m.bytes), skip |-> Len(size) + 2, size |-> Len(data), got |-> Len(m.body)]

WithChunk(m, size, data) ==
  [m EXCEPT !.bytes = @ \o size \o EndLine \o data \o EndLine, !.body = @ \o data,
            !.marks = Append(@, Mark(m, size, data)),
            !.joined = @ \cup {Len(m.bytes) + i : i \in 1..Len(size) + 2}]

WithLastChunk(m) ==
  [m EXCEPT !.bytes = @ \o <<"0">> \o EndLine \o EndLine, !.waits = Len(m.bytes) + 5,
            !.marks = Append(@, Mark(m, <<"0">>, <<>>)),
            !.joined = @ \cup {Len(m.bytes) + i : i \in 1..4}]

\* With what an incorrect request is from its incorrect line or chunk on.
WithWrong(m, bytes) ==
  [m EXCEPT !.wellFormed = FALSE, !.bytes = @ \o bytes, !.waits = Len(m.bytes) + Len(bytes)]
WithWrongLine(m, bytes) == WithWrong([m EXCEPT !.bytes = SubSeq(@, 1, Len(@) - 2)], bytes)
WithWrongSize(m, bytes) ==
  WithWrong([m EXCEPT !.marks = Append(@, Mark(m, <<>>, <<>>))], bytes)

Length(n) == Header("Content-Length", n)
ChunkedBody == Header("Transfer-Encoding", <<"chunked">>)
KeepAlive == Header("Connection", <<"keep-alive">>)
Expect == RequestOf(<<Length(<<"1">>), Header("Expect", <<"100-continue">>)>>)

\* Bodies with the bytes that delimit chunks and lines.  (TLC evaluates a table
\* once, and what a .cfg puts in the place of a constant each time.)
Table ==
  [empty   |-> RequestOf(<<KeepAlive>>),
   length  |-> WithBody(RequestOf(<<KeepAlive, Length(<<"0", "5">>)>>), <<"0", CR, LF, ":", CR>>),
   chunked |-> WithLastChunk(WithChunk(WithChunk(RequestOf(<<ChunkedBody, KeepAlive>>),
                 <<"0", "2">>, <<CR, LF>>), <<"1">>, <<"0">>)),
   expects |-> [WithBody(Expect, <<"x">>) EXCEPT !.waits = Expect.waits],
   noValue |-> WithWrongLine(RequestOf(<<KeepAlive>>), Text(Header("Host", <<>>)) \o EndLine),
   both    |-> WithWrong(RequestOf(<<ChunkedBody, Length(<<"3">>)>>), <<>>),
   noSize  |-> WithWrongSize(RequestOf(<<KeepAlive, ChunkedBody>>), <<"x">> \o EndLine \o <<"y">>),
   long    |-> WithWrongLine(RequestOf(<<KeepAlive>>),
                 Text(Header("Host", <<"x", "x", "x", "x", "x">>)) \o EndLine),
   name    |-> WithWrongLine(RequestOf(<<>>), <<"Ho", "st", ":", "x">> \o EndLine \o EndLine),
   value   |-> WithWrongLine(RequestOf(<<>>),
                 Text(Header("Host", <<"x", "x", "x">>)) \o EndLine)]

MCMessages == Table

\* A chunked request alone; its connection is not kept.
ChunkedTable ==
  [chunked |-> WithLastChunk(WithChunk(RequestOf(<<ChunkedBody>>), <<"0", "2">>, <<"x", "y">>))]

MCChunked == ChunkedTable
=============================================================================
