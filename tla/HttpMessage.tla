------------------------------ MODULE HttpMessage ------------------------------
(***************************************************************************)
(* The bytes of a request: what the parser's functions read in them        *)
(* (httpProtocolHead.c and httpUtilsInternal.c), and which bytes are a     *)
(* correct request to a client that has written them.                      *)
(*                                                                         *)
(* A byte is a string.  A word of text (a method, the name of a header) is *)
(* a byte; digits, colons, CR and LF are bytes of their own, and so is   *)
(* each byte of a body.                                                    *)
(***************************************************************************)
EXTENDS Integers, Sequences, FiniteSets, FiniteSetsExt, SequencesExt

CONSTANTS
  MaxLine,     \* MAX_REQ_LIN_LEN
  MaxName,     \* MAX_HTTP_HEADER_ATTR_LEN, which a header's name stays below
  MaxValue     \* MAX_HTTP_HEADER_VAL_LEN, which its value stays below

ASSUME MaxLineAssumption == MaxLine \in Nat \ {0}
ASSUME HeaderLimitsAssumption == MaxName \in Nat /\ MaxValue \in Nat

CR == "CR"
LF == "LF"
HTTP_CHUNKED_DATA_LEN == 8

\* strstr(s, "\r\n") - s, -1 for NULL.
LineLen(s) ==
  LET ends == {i \in 1..Len(s) - 1 : s[i] = CR /\ s[i + 1] = LF}
  IN IF ends = {} THEN -1 ELSE Min(ends) - 1

Digits == <<"0", "1", "2", "3", "4", "5", "6", "7", "8", "9">>

\* strtol: the value of the leading digits of s.
Number(s, base) ==
  LET others == {i \in DOMAIN s : s[i] \notin ToSet(Digits)} \cup {Len(s) + 1}
      Add(value, digit) == base * value + (CHOOSE d \in DOMAIN Digits : Digits[d] = digit) - 1
  IN FoldLeft(Add, 0, SubSeq(s, 1, Min(others) - 1))

\* In a line of n bytes the k-th one has a name before it and a value behind it,
\* both of which fit their buffers.
Separates(k, n) == k \in 2..n - 1 /\ k - 1 < MaxName /\ n - k < MaxValue

\* VmRESTGetHttpHeader: the first header of that name, <<>> if there is none.
GetHttpHeader(r, name) ==
  LET found == {i \in DOMAIN r.headers : r.headers[i].name = <<name>>}
  IN IF found = {} THEN <<>> ELSE r.headers[Min(found)].value

Expects(r) == GetHttpHeader(r, "Expect") = <<"100-continue">>

ValidRequestLine(line) == line = <<"GET", "/", "HTTP/1.1">>

\* VmRESTSetPayloadType: both ways to give a length, or neither of the known
\* ones, are an error.
PayloadType(r) ==
  LET length == GetHttpHeader(r, "Content-Length")
      coding == GetHttpHeader(r, "Transfer-Encoding")
  IN CASE length = <<>> /\ coding = <<>> -> [type |-> "length", remaining |-> 0]
       [] length # <<>> /\ coding = <<>> -> [type |-> "length", remaining |-> Number(length, 10)]
       [] length = <<>> /\ coding = <<"chunked">> -> [type |-> "chunked", remaining |-> 0]
       [] OTHER -> [type |-> "none", remaining |-> 0]

-----------------------------------------------------------------------------
(* Requests as their clients write them.  Besides the bytes, a request has *)
(* lines (how many bytes are before the request line, before each header   *)
(* and before what is behind the last of them: the empty line, or one that *)
(* is not correct), its headers, and marks (the same for the lines with    *)
(* the sizes of the chunks, with how many bytes such a line takes, how     *)
(* many bytes of the body follow it and how many come before it).          *)

\* At most n bytes of a line are behind the first p bytes, then CR LF.
LineAt(bytes, p, n) ==
  /\ p + n + 2 <= Len(bytes)
  /\ bytes[p + n + 1] = CR /\ bytes[p + n + 2] = LF
  /\ \A i \in 1..n : ~(bytes[p + i] = CR /\ bytes[p + i + 1] = LF)

Behind(bytes, p) == SubSeq(bytes, p + 1, Len(bytes))
Piece(bytes, p, n) == SubSeq(bytes, p + 1, p + n)

\* A header's first colon separates its name from its value.
HeaderColon(line, k) ==
  Separates(k, Len(line)) /\ line[k] = ":" /\ \A j \in 1..k - 1 : line[j] # ":"
IsHeader(line, h) ==
  \E k \in DOMAIN line :
    HeaderColon(line, k) /\ h.name = SubSeq(line, 1, k - 1) /\ h.value = SubSeq(line, k + 1, Len(line))

\* A correct line is short enough wherever a read ends (see LineTooLong in
\* HttpParser), so not longer than MaxLine - 2.
CorrectLines(m) ==
  \A i \in 1..Len(m.lines) - 1 :
    LET n    == m.lines[i + 1] - m.lines[i] - 2
        line == Piece(m.bytes, m.lines[i], n)
    IN /\ n \in 1..MaxLine - 2 /\ LineAt(m.bytes, m.lines[i], n)
       /\ IF i = 1 THEN ValidRequestLine(line) ELSE IsHeader(line, m.headers[i - 1])

HeadEnd(m) == m.lines[Len(m.lines)] + 2
CorrectHead(m) ==
  /\ Len(m.lines) > 1 /\ LineAt(m.bytes, m.lines[Len(m.lines)], 0)
  /\ PayloadType(m).type # "none"

\* A careful client sends the line with the size together with the first
\* byte of the chunk, and the last chunk with the end of the request.
CorrectChunk(m, c) ==
  /\ c.skip \in 3..HTTP_CHUNKED_DATA_LEN /\ c.size > 0 /\ c.got + c.size <= Len(m.body)
  /\ LineAt(m.bytes, c.at, c.skip - 2)
  /\ Number(Piece(m.bytes, c.at, c.skip - 2), 16) = c.size
  /\ LineAt(m.bytes, c.at + c.skip + c.size, 0)
  /\ Piece(m.bytes, c.at + c.skip, c.size) = Piece(m.body, c.got, c.size)
  /\ c.at + 1..c.at + c.skip \subseteq m.joined

Chunked(m) ==
  /\ PayloadType(m).type = "chunked"
  /\ m.marks # <<>> /\ m.marks[1].at = HeadEnd(m) /\ m.marks[1].got = 0
  /\ \A k \in 1..Len(m.marks) - 1 :
       LET c == m.marks[k] IN
       /\ CorrectChunk(m, c)
       /\ m.marks[k + 1].at = c.at + c.skip + c.size + 2
       /\ m.marks[k + 1].got = c.got + c.size

LastChunk(m, c) ==
  /\ Behind(m.bytes, c.at) = <<"0", CR, LF, CR, LF>> /\ Number(<<"0">>, 16) = 0
  /\ c.got = Len(m.body)
  /\ c.at + 1..c.at + 4 \subseteq m.joined

Correct(m) ==
  /\ CorrectHead(m)
  /\ \/ /\ PayloadType(m).type = "length" /\ PayloadType(m).remaining = Len(m.body)
        /\ m.body = Behind(m.bytes, HeadEnd(m))
     \/ Chunked(m) /\ LastChunk(m, m.marks[Len(m.marks)])

\* A line that is too long, or is not what it should be, or a header with a name
\* or a value that is too long.
IncorrectLine(m) ==
  LET p == m.lines[Len(m.lines)]
      first == Len(m.lines) = 1
      line(n) == Piece(m.bytes, p, n)
  IN /\ \A n \in 0..Len(m.bytes) : LineAt(m.bytes, p, n) =>
          \/ n > MaxLine
          \/ first /\ (n = MaxLine \/ ~ValidRequestLine(line(n)))
          \/ ~first /\ n > 0 /\ \A k \in 1..n : ~HeaderColon(line(n), k)
     /\ (\A n \in 0..Len(m.bytes) : ~LineAt(m.bytes, p, n)) => Len(m.bytes) - p >= MaxLine

IncorrectPayload(m) ==
  /\ Len(m.lines) > 1 /\ LineAt(m.bytes, m.lines[Len(m.lines)], 0)
  /\ PayloadType(m).type = "none"

IncorrectSize(m) ==
  LET p == m.marks[Len(m.marks)].at
      size(n) == Piece(m.bytes, p, n)
  IN /\ p + 4 <= Len(m.bytes) /\ ~LineAt(m.bytes, p, 0)
     /\ \A n \in 1..HTTP_CHUNKED_DATA_LEN - 2 :
          LineAt(m.bytes, p, n) => Number(size(n), 16) = 0 /\ size(n) # <<"0">>

Incorrect(m) ==
  \/ IncorrectLine(m)
  \/ IncorrectPayload(m)
  \/ CorrectHead(m) /\ Chunked(m) /\ IncorrectSize(m)

\* A request, whether it is correct (if not, from some place on), the places
\* where no segment of a careful sender ends, and how many bytes the sender
\* sends before it has seen "100 Continue".
IsMessage(m) ==
  /\ m.bytes \in Seq(STRING) /\ m.body \in Seq(STRING)
  /\ m.joined \subseteq 1..Len(m.bytes) - 1
  /\ m.lines \in Seq(Nat) /\ m.lines # <<>> /\ m.lines[1] = 0
  /\ m.headers \in Seq([name : Seq(STRING), value : Seq(STRING)])
  /\ Len(m.headers) = IF Len(m.lines) = 1 THEN 0 ELSE Len(m.lines) - 2
  /\ m.marks \in Seq([at : Nat, skip : Nat, size : Nat, got : Nat])
  /\ CorrectLines(m)
  /\ m.wellFormed \in BOOLEAN
  /\ IF m.wellFormed THEN Correct(m) ELSE Incorrect(m)
  /\ \/ m.waits = Len(m.bytes)
     \/ m.wellFormed /\ Expects(m) /\ m.waits = HeadEnd(m)

=============================================================================
