---------------------------- MODULE HttpParserProofs ----------------------------
(***************************************************************************)
(* Theorems of HttpParser for every set of requests a client may send and  *)
(* every length they have, on the hypothesis ~CutsAnywhere: no segment     *)
(* ends at a place where a careful client does not end one.  (Without it   *)
(* they are false: the run chunk_line_cut has a counterexample.)            *)
(*                                                                         *)
(* The argument is that the parser is always behind the first p bytes of a *)
(* request of which the first r are read, that what it has stored is what  *)
(* these p bytes say, and that what it finds in the bytes from p to r      *)
(* decides as all the bytes behind p would.                                *)
(***************************************************************************)
EXTENDS HttpParser, SequenceTheorems, WellFoundedInduction, TLAPS

-----------------------------------------------------------------------------
(* The invariant.                                                          *)

\* What the client can be sent.
Kinds == Final \cup {"continue"}

\* The types of what the client and the connection keep.  (What req is, the
\* places of At say.)
TypeInv ==
  /\ asked \in Seq(DOMAIN Messages)
  /\ sent \in Nat /\ wire \in Seq(STRING)
  /\ buffer \in Seq(STRING) /\ done \in 0..Len(buffer)
  /\ answers \in Seq([to : Nat, is : Kinds, payload : Seq(STRING)])
  /\ asked # <<>> => sent <= Len(Message(Current).bytes)

\* The request that is being sent has no answer yet; it has one, and all of it
\* is sent.
Unanswered == asked # <<>> /\ AnswersTo(Current, Final) = {}
Answered == asked # <<>> => AnswersTo(Current, Final) # {} /\ sent = Len(Message(Current).bytes)

\* What the answers are, and that a request has one final answer at most.
AnswersInv ==
  \A a \in DOMAIN answers :
    /\ answers[a].to \in 1..Current
    /\ answers[a].is = "served" =>
         /\ Message(answers[a].to).wellFormed
         /\ answers[a].payload = Message(answers[a].to).body
    /\ answers[a].is = "refused" => ~Message(answers[a].to).wellFormed
    /\ \A b \in DOMAIN answers :
         /\ answers[a].is \in Final /\ answers[b].is \in Final
         /\ answers[a].to = answers[b].to
         => a = b

\* The parser is behind the first p bytes of the request m, and the first r of
\* them are read.  The client has not ended a segment where it does not.
Stream(m, p, r) ==
  /\ p \in 0..r /\ r \in 0..sent
  /\ Rest = SubSeq(m.bytes, p + 1, r)
  /\ wire = SubSeq(m.bytes, r + 1, sent)
  /\ r \notin m.joined /\ sent \notin m.joined

\* A request as the parser fills it (named, so that it is one term).
No == FALSE
Req(state, headers, type, remaining, payload) ==
  [state |-> state, headers |-> headers, type |-> type, remaining |-> remaining,
   payload |-> payload, keeps |-> No]

\* The headers before the i-th line.
Headers(m, i) == SubSeq(m.headers, 1, i - 2)

\* The places of m behind which the request q can be: none of the bytes,
AtLine(m, q, p) == p = 0 /\ q = NewRequest

\* the request line and the lines before the i-th one,
AtHeader(m, q, p, i) ==
  /\ i \in 2..Len(m.lines) /\ p = m.lines[i]
  /\ q = Req("HEADERS", Headers(m, i), "none", 0, <<>>)

\* all of the head, with
InPayload(m, q, type, remaining, payload) ==
  /\ CorrectHead(m) /\ PayloadType(m).type = type
  /\ q = Req("PAYLOAD", m.headers, type, remaining, payload)

\* j bytes of a body whose length is given,
AtBody(m, q, p, j) ==
  /\ j \in 0..Len(m.body) /\ p = HeadEnd(m) + j /\ m.wellFormed
  /\ InPayload(m, q, "length", Len(m.body) - j, SubSeq(m.body, 1, j))

\* the chunks before the k-th line with a size,
AtMark(m, q, p, k) ==
  /\ k \in 1..Len(m.marks) /\ p = m.marks[k].at
  /\ InPayload(m, q, "chunked", 0, SubSeq(m.body, 1, m.marks[k].got))

\* or j bytes of the chunk behind that line;
InChunk(m, q, p, k, j) ==
  /\ k \in 1..Len(m.marks) - 1 /\ j \in 1..m.marks[k].size
  /\ p = m.marks[k].at + m.marks[k].skip + j
  /\ InPayload(m, q, "chunked", m.marks[k].size - j, SubSeq(m.body, 1, m.marks[k].got + j))

\* or all of the bytes of a correct request.
AtCallback(m, q, r) ==
  /\ m.wellFormed /\ r = Len(m.bytes)
  /\ q.state = "CALLBACK" /\ q.headers = m.headers /\ q.payload = m.body
  /\ DOMAIN q = DOMAIN NewRequest /\ q.keeps = FALSE

At(m, q, p, r) ==
  \/ AtLine(m, q, p)
  \/ \E i \in 1..Len(m.lines) : AtHeader(m, q, p, i)
  \/ \E j \in 0..Len(m.body) : AtBody(m, q, p, j)
  \/ \E k \in 1..Len(m.marks) : AtMark(m, q, p, k)
  \/ \E k \in 1..Len(m.marks) : \E j \in 1..m.marks[k].size : InChunk(m, q, p, k, j)
  \/ AtCallback(m, q, r)

\* The parser can do nothing with s (see AwaitLine, CopyPayload, GetChunkSize).
Stuck(q, s) ==
  \/ q.state \in {"LINE", "HEADERS"} /\ LineLen(s) = -1 /\ Len(s) < MaxLine
  \/ q.state = "PAYLOAD" /\ q.remaining > 0 /\ s = <<>>
  \/ /\ q.state = "PAYLOAD" /\ q.type = "chunked" /\ q.remaining = 0
     /\ ~(Len(s) >= 2 /\ s[1] = CR /\ s[2] = LF)
     /\ Len(s) < 3 \/ (Len(s) = 3 /\ s # <<"0", CR, LF>>)

\* A client that asked for it has been sent "100 Continue" with its head.
Continued(q) ==
  q.state \in {"PAYLOAD", "CALLBACK"} /\ Expects(q) => AnswersTo(Current, {"continue"}) # {}

\* The three situations of a connection that is open: in a request,
Reading(p, r) ==
  /\ pc \in {"idle", "loop", "end"} /\ Unanswered
  /\ pc = "idle" => done = 0
  /\ Stream(Message(Current), p, r)
  /\ At(Message(Current), req, p, r)
  /\ pc # "loop" => Stuck(req, Rest)
  /\ Continued(req)

\* between two of them,
Between ==
  /\ pc = "idle" /\ Answered
  /\ buffer = <<>> /\ wire = <<>> /\ done = 0 /\ req = NewRequest

\* and with one that is answered, or refused, and not released.
Finishing ==
  /\ pc = "finish" /\ asked # <<>>
  /\ req.keeps =>
       \/ Answered /\ wire = <<>>
       \/ /\ Unanswered /\ wire = SubSeq(Message(Current).bytes, 1, sent)
          /\ sent \notin Message(Current).joined

\* The inductive invariant.
IInv ==
  /\ TypeInv
  /\ AnswersInv
  /\ \/ Between
     \/ \E p, r \in 0..sent : Reading(p, r)
     \/ Finishing
     \/ pc = "closed"

-----------------------------------------------------------------------------
(* Numbers, slices and lines.                                              *)

\* Every non-empty set of numbers has a least one.
LEMMA LeastNumber ==
  ASSUME NEW S \in SUBSET Nat, S # {}
  PROVE  Min(S) \in S /\ \A n \in S : Min(S) <= n
<1>1. PICK m \in S : \A n \in S : <<n, m>> \notin OpToRel(<, Nat)
  BY WFMin, NatLessThanWellFounded, Zenon
<1>2. \A n \in S : ~(n < m)
  BY <1>1, Zenon DEF OpToRel
<1>3. \A n \in S : m <= n
  BY <1>2
<1> QED
  BY <1>3, Zenon DEF Min

\* A piece of a sequence: its length and its elements.
LEMMA SliceIs ==
  ASSUME NEW S, NEW b \in Seq(S), NEW p \in Nat, NEW r \in p..Len(b)
  PROVE  /\ SubSeq(b, p + 1, r) \in Seq(S)
         /\ Len(SubSeq(b, p + 1, r)) = r - p
         /\ \A i \in 1..r - p : SubSeq(b, p + 1, r)[i] = b[p + i]
<1>1. \A i \in p + 1..r : b[i] \in S
  BY ElementOfSeq
<1>2. Len(b) \in Nat /\ r \in Int /\ p + 1 \in Int
  BY LenProperties
<1>3. /\ SubSeq(b, p + 1, r) \in Seq(S)
      /\ Len(SubSeq(b, p + 1, r)) = IF p + 1 <= r THEN r - (p + 1) + 1 ELSE 0
      /\ \A i \in 1..r - (p + 1) + 1 : SubSeq(b, p + 1, r)[i] = b[p + 1 + i - 1]
  BY <1>1, <1>2, SubSeqProperties
<1>4. \A i \in 1..r - p : i \in 1..r - (p + 1) + 1 /\ p + 1 + i - 1 = p + i
  BY <1>2
<1>5. (IF p + 1 <= r THEN r - (p + 1) + 1 ELSE 0) = r - p
  BY <1>2
<1> QED
  BY <1>3, <1>4, <1>5

\* A piece of a piece.
LEMMA SliceOfSlice ==
  ASSUME NEW S, NEW b \in Seq(S), NEW p \in Nat, NEW r \in p..Len(b),
         NEW n \in Nat, NEW k \in n..r - p
  PROVE  SubSeq(SubSeq(b, p + 1, r), n + 1, k) = SubSeq(b, p + n + 1, p + k)
<1> DEFINE s == SubSeq(b, p + 1, r)
           u == SubSeq(s, n + 1, k)
           v == SubSeq(b, p + n + 1, p + k)
<1>0. Len(b) \in Nat /\ r \in Nat /\ k \in Nat /\ p + n \in Nat /\ p + k \in p + n..Len(b)
  BY LenProperties
<1>1. s \in Seq(S) /\ Len(s) = r - p /\ \A i \in 1..r - p : s[i] = b[p + i]
  BY SliceIs
<1>2. k \in n..Len(s)
  BY <1>1
<1> HIDE DEF s
<1>3. u \in Seq(S) /\ Len(u) = k - n /\ \A i \in 1..k - n : u[i] = s[n + i]
  BY <1>1, <1>2, SliceIs
<1>4. v \in Seq(S) /\ Len(v) = (p + k) - (p + n) /\ \A i \in 1..(p + k) - (p + n) : v[i] = b[p + n + i]
  BY <1>0, SliceIs
<1> HIDE DEF u, v
<1>5. (p + k) - (p + n) = k - n
  BY <1>0
<1>6. \A i \in 1..k - n : n + i \in 1..r - p /\ p + (n + i) = p + n + i
  BY <1>0
<1>7. \A i \in 1..k - n : u[i] = v[i]
  BY <1>1, <1>3, <1>4, <1>5, <1>6
<1>8. u = v
  BY <1>3, <1>4, <1>5, <1>7, SeqEqual
<1> QED
  BY <1>8 DEF u, v, s

\* Two pieces, one behind the other.
LEMMA SlicesJoin ==
  ASSUME NEW S, NEW b \in Seq(S), NEW p \in Nat, NEW r \in p..Len(b), NEW t \in r..Len(b)
  PROVE  SubSeq(b, p + 1, r) \o SubSeq(b, r + 1, t) = SubSeq(b, p + 1, t)
<1>1. /\ p + 1 \in 1..Len(b) + 1 /\ r \in p + 1 - 1..Len(b) /\ t \in r..Len(b)
  BY LenProperties
<1> QED
  BY <1>1, ConcatAdjacentSubSeq

\* A piece without bytes.
LEMMA SliceEmpty ==
  ASSUME NEW b, NEW p \in Nat
  PROVE  SubSeq(b, p + 1, p) = <<>>
<1>1. p + 1 \in Int /\ p \in Int /\ p < p + 1
  OBVIOUS
<1> QED
  BY <1>1, SubSeqEmpty

\* LineLen finds the end of the line that begins s, and no other.
LEMMA LineLenIs ==
  ASSUME NEW s \in Seq(STRING)
  PROVE  \/ LineLen(s) = -1 /\ \A n \in Nat : ~LineAt(s, 0, n)
         \/ LineLen(s) \in Nat /\ LineAt(s, 0, LineLen(s))
<1> DEFINE ends == {i \in 1..Len(s) - 1 : s[i] = CR /\ s[i + 1] = LF}
<1>0. Len(s) \in Nat
  BY LenProperties
<1>1. LineLen(s) = IF ends = {} THEN -1 ELSE Min(ends) - 1
  BY DEF LineLen
<1>2. CASE ends = {}
  <2>1. ASSUME NEW n \in Nat, LineAt(s, 0, n) PROVE FALSE
    <3>1. 0 + n + 2 <= Len(s) /\ s[0 + n + 1] = CR /\ s[0 + n + 2] = LF
      BY <2>1 DEF LineAt
    <3>2. n + 1 \in 1..Len(s) - 1 /\ 0 + n + 1 = n + 1 /\ 0 + n + 2 = n + 1 + 1
      BY <1>0, <3>1
    <3>3. n + 1 \in ends
      BY <3>1, <3>2
    <3> QED
      BY <1>2, <3>3
  <2> QED
    BY <1>1, <1>2, <2>1
<1>3. CASE ends # {}
  <2>1. ends \in SUBSET Nat
    BY <1>0
  <2>2. PICK e : e = Min(ends)
    OBVIOUS
  <2>3. e \in ends /\ \A i \in ends : e <= i
    BY <1>3, <2>1, <2>2, LeastNumber
  <2>4. e \in 1..Len(s) - 1 /\ s[e] = CR /\ s[e + 1] = LF
    BY <2>3
  <2>5. LineLen(s) = e - 1
    BY <1>1, <1>3, <2>2
  <2>6. e - 1 \in Nat /\ 0 + (e - 1) + 2 <= Len(s) /\ 0 + (e - 1) + 1 = e /\ 0 + (e - 1) + 2 = e + 1
    BY <1>0, <2>4
  <2>7. ASSUME NEW i \in 1..e - 1, s[0 + i] = CR, s[0 + i + 1] = LF PROVE FALSE
    <3>1. 0 + i = i /\ 0 + i + 1 = i + 1 /\ i \in 1..Len(s) - 1 /\ ~(e <= i)
      BY <1>0, <2>4
    <3>2. i \in ends
      BY <2>7, <3>1
    <3> QED
      BY <2>3, <3>1, <3>2
  <2>8. LineAt(s, 0, e - 1)
    BY <2>4, <2>6, <2>7 DEF LineAt
  <2> QED
    BY <2>5, <2>6, <2>8
<1> QED
  BY <1>2, <1>3

\* There is at most one line behind a place.
LEMMA OneLine ==
  ASSUME NEW b, NEW p \in Nat, NEW n \in Nat, NEW k \in Nat, LineAt(b, p, n), LineAt(b, p, k)
  PROVE  n = k
<1>1. /\ b[p + n + 1] = CR /\ b[p + n + 2] = LF
      /\ b[p + k + 1] = CR /\ b[p + k + 2] = LF
      /\ \A i \in 1..n : ~(b[p + i] = CR /\ b[p + i + 1] = LF)
      /\ \A i \in 1..k : ~(b[p + i] = CR /\ b[p + i + 1] = LF)
  BY DEF LineAt
<1>2. ASSUME k < n PROVE FALSE
  <2>1. k + 1 \in 1..n /\ p + (k + 1) = p + k + 1 /\ p + (k + 1) + 1 = p + k + 2
    BY <1>2
  <2> QED
    BY <1>1, <2>1
<1>3. ASSUME n < k PROVE FALSE
  <2>1. n + 1 \in 1..k /\ p + (n + 1) = p + n + 1 /\ p + (n + 1) + 1 = p + n + 2
    BY <1>3
  <2> QED
    BY <1>1, <2>1
<1> QED
  BY <1>2, <1>3

\* The lines of a piece are lines of the whole that end in it.
LEMMA LineInSlice ==
  ASSUME NEW b \in Seq(STRING), NEW p \in Nat, NEW r \in p..Len(b), NEW n \in Nat
  PROVE  LineAt(SubSeq(b, p + 1, r), 0, n) <=> p + n + 2 <= r /\ LineAt(b, p, n)
<1> DEFINE s == SubSeq(b, p + 1, r)
<1>0. Len(b) \in Nat /\ r \in Nat
  BY LenProperties
<1>1. Len(s) = r - p /\ \A i \in 1..r - p : s[i] = b[p + i]
  BY SliceIs
<1> HIDE DEF s
<1>2. CASE p + n + 2 <= r
  <2>1. /\ 0 + n + 2 <= Len(s) /\ p + n + 2 <= Len(b)
        /\ 0 + n + 1 \in 1..r - p /\ 0 + n + 2 \in 1..r - p
        /\ p + (0 + n + 1) = p + n + 1 /\ p + (0 + n + 2) = p + n + 2
    BY <1>0, <1>1, <1>2
  <2>2. s[0 + n + 1] = b[p + n + 1] /\ s[0 + n + 2] = b[p + n + 2]
    BY <1>1, <2>1
  <2>3. ASSUME NEW i \in 1..n
        PROVE  s[0 + i] = b[p + i] /\ s[0 + i + 1] = b[p + i + 1]
    <3>1. 0 + i \in 1..r - p /\ 0 + i + 1 \in 1..r - p
          /\ p + (0 + i) = p + i /\ p + (0 + i + 1) = p + i + 1
      BY <1>0, <1>2
    <3> QED
      BY <1>1, <3>1
  <2>4. LineAt(s, 0, n) <=> LineAt(b, p, n)
    BY <2>1, <2>2, <2>3, Zenon DEF LineAt
  <2> QED
    BY <1>2, <2>4 DEF s
<1>3. CASE ~(p + n + 2 <= r)
  <2>1. ~(0 + n + 2 <= Len(s))
    BY <1>0, <1>1, <1>3
  <2>2. ~LineAt(s, 0, n)
    BY <2>1 DEF LineAt
  <2> QED
    BY <1>3, <2>2 DEF s
<1> QED
  BY <1>2, <1>3

\* What LineLen says of the bytes from p on when r of them are there.
LEMMA LineLenInSlice ==
  ASSUME NEW b \in Seq(STRING), NEW p \in Nat, NEW r \in p..Len(b)
  PROVE  \/ /\ LineLen(SubSeq(b, p + 1, r)) = -1
            /\ \A n \in Nat : LineAt(b, p, n) => r < p + n + 2
         \/ /\ LineLen(SubSeq(b, p + 1, r)) \in Nat
            /\ p + LineLen(SubSeq(b, p + 1, r)) + 2 <= r
            /\ LineAt(b, p, LineLen(SubSeq(b, p + 1, r)))
            /\ \A n \in Nat : LineAt(b, p, n) => n = LineLen(SubSeq(b, p + 1, r))
<1> DEFINE s == SubSeq(b, p + 1, r)
<1>0. Len(b) \in Nat /\ r \in Nat
  BY LenProperties
<1>1. s \in Seq(STRING)
  BY SliceIs
<1>2. \A n \in Nat : LineAt(s, 0, n) <=> p + n + 2 <= r /\ LineAt(b, p, n)
  BY LineInSlice
<1> HIDE DEF s
<1>3. CASE LineLen(s) = -1 /\ \A n \in Nat : ~LineAt(s, 0, n)
  <2>1. \A n \in Nat : LineAt(b, p, n) => r < p + n + 2
    BY <1>0, <1>2, <1>3
  <2> QED
    BY <1>3, <2>1 DEF s
<1>4. CASE LineLen(s) \in Nat /\ LineAt(s, 0, LineLen(s))
  <2>1. p + LineLen(s) + 2 <= r /\ LineAt(b, p, LineLen(s))
    BY <1>2, <1>4
  <2>2. \A n \in Nat : LineAt(b, p, n) => n = LineLen(s)
    BY <1>4, <2>1, OneLine
  <2> QED
    BY <1>4, <2>1, <2>2 DEF s
<1> QED
  BY <1>1, <1>3, <1>4, LineLenIs

-----------------------------------------------------------------------------
(* Answers.                                                                *)

\* An answer, as the client gets it.
AnswerType == [to : Nat, is : Kinds, payload : Seq(STRING)]

\* The request that is being sent is one of Messages.
LEMMA CurrentIsMessage ==
  ASSUME TypeInv, asked # <<>>
  PROVE  Current \in Nat /\ Current \in 1..Len(asked) /\ IsMessage(Message(Current))
<1>1. asked \in Seq(DOMAIN Messages)
  BY DEF TypeInv
<1>2. Current \in Nat /\ Current \in 1..Len(asked)
  BY <1>1, EmptySeq, LenProperties DEF Current
<1>3. asked[Current] \in DOMAIN Messages
  BY <1>1, <1>2, ElementOfSeq
<1> QED
  BY <1>2, <1>3, MessagesAssumption DEF Message

\* What an answer changes.
LEMMA AnswerAppends ==
  ASSUME TypeInv, NEW kind \in Kinds, NEW payload \in Seq(STRING), asked # <<>>,
         Answer(kind, payload)
  PROVE  /\ answers' \in Seq(AnswerType) /\ answers \in Seq(AnswerType)
         /\ Len(answers') = Len(answers) + 1
         /\ DOMAIN answers = 1..Len(answers) /\ DOMAIN answers' = 1..Len(answers) + 1
         /\ Len(answers) \in Nat
         /\ \A a \in 1..Len(answers) : answers'[a] = answers[a]
         /\ answers'[Len(answers) + 1] = [to |-> Current, is |-> kind, payload |-> payload]
<1>1. answers \in Seq(AnswerType)
  BY DEF TypeInv, AnswerType
<1>2. [to |-> Current, is |-> kind, payload |-> payload] \in AnswerType
  BY CurrentIsMessage DEF AnswerType
<1>3. answers' = Append(answers, [to |-> Current, is |-> kind, payload |-> payload])
  BY DEF Answer
<1>4. /\ Len(answers) \in Nat /\ answers' \in Seq(AnswerType)
      /\ Len(answers') = Len(answers) + 1
      /\ \A a \in 1..Len(answers) : answers'[a] = answers[a]
      /\ answers'[Len(answers) + 1] = [to |-> Current, is |-> kind, payload |-> payload]
  BY <1>1, <1>2, <1>3, AppendProperties, LenProperties
<1> QED
  BY <1>1, <1>4, LenProperties

\* An answer may be given if it is true, and if it is the only one.
LEMMA AnswerKeepsInv ==
  ASSUME TypeInv, AnswersInv, asked # <<>>, asked' = asked,
         NEW kind \in Kinds, NEW payload \in Seq(STRING), Answer(kind, payload),
         kind \in Final => AnswersTo(Current, Final) = {},
         kind = "served" => Message(Current).wellFormed /\ payload = Message(Current).body,
         kind = "refused" => ~Message(Current).wellFormed
  PROVE  AnswersInv'
<1> DEFINE n == Len(answers) + 1
<1>0. Current \in Nat /\ Current \in 1..Current /\ Current' = Current
  BY CurrentIsMessage DEF Current
<1>1. /\ n \in Nat /\ DOMAIN answers = 1..Len(answers) /\ DOMAIN answers' = 1..n
      /\ \A a \in 1..Len(answers) : answers'[a] = answers[a]
      /\ answers'[n].to = Current /\ answers'[n].is = kind /\ answers'[n].payload = payload
  <2>1. /\ Len(answers) \in Nat
        /\ DOMAIN answers = 1..Len(answers) /\ DOMAIN answers' = 1..Len(answers) + 1
        /\ \A a \in 1..Len(answers) : answers'[a] = answers[a]
        /\ answers'[Len(answers) + 1] = [to |-> Current, is |-> kind, payload |-> payload]
    BY AnswerAppends, Zenon
  <2> QED
    BY <2>1
<1>2. \A i : Message(i)' = Message(i)
  BY DEF Message
<1>3. ASSUME NEW a \in DOMAIN answers'
      PROVE  /\ answers'[a].to \in 1..Current
             /\ answers'[a].is = "served" =>
                  /\ Message(answers'[a].to).wellFormed
                  /\ answers'[a].payload = Message(answers'[a].to).body
             /\ answers'[a].is = "refused" => ~Message(answers'[a].to).wellFormed
  <2>1. CASE a = n
    BY <1>0, <1>1, <2>1
  <2>2. CASE a # n
    <3>1. a \in DOMAIN answers /\ answers'[a] = answers[a]
      BY <1>1, <2>2 DEF n
    <3> QED
      BY <3>1 DEF AnswersInv
  <2> QED
    BY <2>1, <2>2
<1>4. ASSUME NEW a \in DOMAIN answers', NEW b \in DOMAIN answers',
             answers'[a].is \in Final, answers'[b].is \in Final, answers'[a].to = answers'[b].to
      PROVE  a = b
  <2>1. ASSUME NEW c \in DOMAIN answers, answers[c].to = Current, answers[c].is \in Final, kind \in Final
        PROVE  FALSE
    BY <2>1, Zenon DEF AnswersTo
  <2>2. (a = n \/ (a \in DOMAIN answers /\ answers'[a] = answers[a]))
        /\ (b = n \/ (b \in DOMAIN answers /\ answers'[b] = answers[b]))
    BY <1>1
  <2>3. CASE a = n /\ b # n
    BY <1>1, <1>4, <2>1, <2>2, <2>3
  <2>4. CASE a # n /\ b = n
    BY <1>1, <1>4, <2>1, <2>2, <2>4
  <2>5. CASE a # n /\ b # n
    BY <1>4, <2>2, <2>5, Zenon DEF AnswersInv
  <2> QED
    BY <2>3, <2>4, <2>5
<1> HIDE DEF n
<1> QED
  BY <1>0, <1>2, <1>3, <1>4 DEF AnswersInv, Final

\* Which answers there are to the current request after one more.
LEMMA AnswersAfter ==
  ASSUME TypeInv, asked # <<>>, asked' = asked,
         NEW kind \in Kinds, NEW payload \in Seq(STRING), Answer(kind, payload)
  PROVE  /\ kind \notin Final => AnswersTo(Current, Final)' = AnswersTo(Current, Final)
         /\ kind \in Final => AnswersTo(Current, Final)' # {}
         /\ kind = "continue" => AnswersTo(Current, {"continue"})' # {}
<1> DEFINE n == Len(answers) + 1
<1>0. Current' = Current
  BY DEF Current
<1>1. /\ n \in Nat /\ DOMAIN answers = 1..Len(answers) /\ DOMAIN answers' = 1..n
      /\ \A a \in 1..Len(answers) : answers'[a] = answers[a]
      /\ answers'[n].to = Current /\ answers'[n].is = kind
  <2>1. /\ Len(answers) \in Nat
        /\ DOMAIN answers = 1..Len(answers) /\ DOMAIN answers' = 1..Len(answers) + 1
        /\ \A a \in 1..Len(answers) : answers'[a] = answers[a]
        /\ answers'[Len(answers) + 1] = [to |-> Current, is |-> kind, payload |-> payload]
    BY AnswerAppends, Zenon
  <2> QED
    BY <2>1
<1>2. n \in DOMAIN answers'
  BY <1>1
<1>3. \A kinds : kind \in kinds => n \in AnswersTo(Current, kinds)'
  BY <1>0, <1>1, <1>2 DEF AnswersTo
<1>4. ASSUME kind \notin Final PROVE AnswersTo(Current, Final)' = AnswersTo(Current, Final)
  <2>1. \A a : a \in DOMAIN answers' <=> a \in DOMAIN answers \/ a = n
    BY <1>1
  <2>2. \A a \in DOMAIN answers : answers'[a] = answers[a]
    BY <1>1
  <2>3. n \notin DOMAIN answers
    BY <1>1
  <2>4. \A a : a \in AnswersTo(Current, Final)' <=> a \in AnswersTo(Current, Final)
    BY <1>0, <1>1, <1>4, <2>1, <2>2, <2>3, Zenon DEF AnswersTo, Final
  <2> QED
    BY <2>4
<1>5. Final' = Final
  BY DEF Final
<1> HIDE DEF n
<1> QED
  BY <1>3, <1>4, <1>5

-----------------------------------------------------------------------------
(* Where a connection is while a request is read.                          *)

\* The state of a request that has not been given to its callback.
LEMMA NotKeptYet ==
  ASSUME NEW m, NEW q, NEW p, NEW r, At(m, q, p, r)
  PROVE  /\ q.keeps = FALSE /\ q.state \in {"LINE", "HEADERS", "PAYLOAD", "CALLBACK"}
         /\ DOMAIN q = DOMAIN NewRequest
<1>1. CASE AtLine(m, q, p)
  BY <1>1 DEF AtLine, NewRequest
<1>2. CASE \E i \in 1..Len(m.lines) : AtHeader(m, q, p, i)
  BY <1>2 DEF AtHeader, NewRequest, Req, No
<1>3. CASE \E type, n, payload : InPayload(m, q, type, n, payload)
  BY <1>3 DEF InPayload, NewRequest, Req, No
<1>4. CASE AtCallback(m, q, r)
  BY <1>4 DEF AtCallback
<1>5. \/ \E j \in 0..Len(m.body) : AtBody(m, q, p, j)
      \/ \E k \in 1..Len(m.marks) : AtMark(m, q, p, k)
      \/ \E k \in 1..Len(m.marks) : \E j \in 1..m.marks[k].size : InChunk(m, q, p, k, j)
      => \E type, n, payload : InPayload(m, q, type, n, payload)
  BY DEF AtBody, AtMark, InChunk
<1> QED
  BY <1>1, <1>2, <1>3, <1>4, <1>5 DEF At

\* What is known while a request is being read.
LEMMA ReadingIs ==
  ASSUME TypeInv, NEW p \in Nat, NEW r \in Nat, Reading(p, r)
  PROVE  /\ asked # <<>> /\ IsMessage(Message(Current))
         /\ Message(Current).bytes \in Seq(STRING) /\ Len(Message(Current).bytes) \in Nat
         /\ p <= r /\ r <= sent /\ sent <= Len(Message(Current).bytes) /\ sent \in Nat
         /\ Len(Rest) = r - p /\ Rest \in Seq(STRING)
         /\ Rest = SubSeq(Message(Current).bytes, p + 1, r)
         /\ done \in Nat /\ Len(buffer) \in Nat /\ done <= Len(buffer)
         /\ Len(buffer) - done = r - p
<1>1. asked # <<>>
  BY DEF Reading, Unanswered
<1>2. IsMessage(Message(Current))
  BY <1>1, CurrentIsMessage
<1>3. sent <= Len(Message(Current).bytes) /\ sent \in Nat
  BY <1>1 DEF TypeInv
<1>4. PICK b : b = Message(Current).bytes
  OBVIOUS
<1>5. b \in Seq(STRING) /\ Len(b) \in Nat
  BY <1>2, <1>4, LenProperties DEF IsMessage
<1>6. p <= r /\ r <= sent /\ Rest = SubSeq(b, p + 1, r)
  BY <1>4 DEF Reading, Stream
<1>7. r \in p..Len(b)
  BY <1>3, <1>4, <1>5, <1>6
<1>8. Rest \in Seq(STRING) /\ Len(Rest) = r - p
  BY <1>5, <1>6, <1>7, SliceIs
<1>9. buffer \in Seq(STRING) /\ done \in 0..Len(buffer) /\ Len(buffer) \in Nat
  BY LenProperties DEF TypeInv
<1>10. Len(SubSeq(buffer, done + 1, Len(buffer))) = Len(buffer) - done
  <2>1. done \in Nat /\ Len(buffer) \in done..Len(buffer)
    BY <1>9
  <2> QED
    BY <1>9, <2>1, SliceIs
<1>11. Len(Rest) = Len(buffer) - done
  BY <1>10 DEF Rest
<1>12. done \in Nat /\ done <= Len(buffer) /\ Len(buffer) - done = r - p
  BY <1>8, <1>9, <1>11
<1>13. /\ Message(Current).bytes \in Seq(STRING) /\ Len(Message(Current).bytes) \in Nat
       /\ Rest = SubSeq(Message(Current).bytes, p + 1, r)
  BY <1>4, <1>5, <1>6, Zenon
<1> QED
  BY <1>1, <1>2, <1>3, <1>6, <1>8, <1>9, <1>12, <1>13, Zenon

\* The empty sequence of bytes.
LEMMA NoBytes == <<>> \in Seq(STRING) /\ Len(<<>>) = 0
BY EmptySeq, Zenon

\* An iteration that has processed n bytes keeps the invariant, if the
\* request is then what the first p + n bytes make of it.
LEMMA Advances ==
  ASSUME TypeInv, AnswersInv, NEW p \in Nat, NEW r \in Nat, Reading(p, r),
         NEW n \in 0..r - p, NEW q, Processed(n, q),
         answers' = answers \/ Answer("continue", <<>>),
         At(Message(Current), q, p + n, r),
         q.state \in {"PAYLOAD", "CALLBACK"} /\ Expects(q) => AnswersTo(Current, {"continue"})' # {},
         n = 0 /\ q.state = req.state => Stuck(q, Rest)
  PROVE  IInv'
<1> DEFINE m == Message(Current)
<1>0. /\ asked' = asked /\ sent' = sent /\ wire' = wire /\ buffer' = buffer
      /\ done' = done + n /\ req' = q
      /\ pc' = IF GoesOn(n, req.state, q.state) THEN "loop" ELSE "end"
  BY DEF Processed, clientVars
<1>1. /\ asked # <<>> /\ IsMessage(m) /\ m.bytes \in Seq(STRING) /\ Len(m.bytes) \in Nat
      /\ p <= r /\ r <= sent /\ sent <= Len(m.bytes) /\ sent \in Nat
      /\ Rest = SubSeq(m.bytes, p + 1, r) /\ Len(Rest) = r - p
      /\ done \in Nat /\ Len(buffer) \in Nat /\ done <= Len(buffer)
      /\ Len(buffer) - done = r - p
  BY ReadingIs
<1>2. Current' = Current /\ Message(Current)' = Message(Current)
  BY <1>0 DEF Current, Message
<1>3. <<>> \in Seq(STRING) /\ "continue" \in Kinds /\ "continue" \notin Final
      /\ "continue" # "served" /\ "continue" # "refused"
  <2>1. "continue" \in Kinds /\ "continue" \notin Final /\ "continue" # "served" /\ "continue" # "refused"
    BY DEF Final, Kinds
  <2> QED
    BY <2>1, NoBytes, Zenon
<1>4. AnswersInv' /\ answers' \in Seq(AnswerType) /\ AnswersTo(Current, Final)' = AnswersTo(Current, Final)
  <2>1. CASE answers' = answers
    <3>1. AnswersInv'
      BY <1>0, <1>2, <2>1, Zenon DEF AnswersInv, Current, Message
    <3>2. AnswersTo(Current, Final)' = AnswersTo(Current, Final)
      BY <1>2, <2>1, Zenon DEF AnswersTo, Final
    <3> QED
      BY <2>1, <3>1, <3>2 DEF TypeInv, AnswerType, Kinds, Final
  <2>2. CASE Answer("continue", <<>>)
    <3>1. AnswersInv'
      BY <1>0, <1>1, <1>3, <2>2, AnswerKeepsInv, Zenon
    <3>2. AnswersTo(Current, Final)' = AnswersTo(Current, Final)
      BY <1>0, <1>1, <1>3, <2>2, AnswersAfter, Zenon
    <3> QED
      BY <1>1, <1>3, <2>2, <3>1, <3>2, AnswerAppends, Zenon
  <2> QED
    BY <2>1, <2>2
<1>5. done + n \in 0..Len(buffer)
  BY <1>1
<1>6. TypeInv'
  BY <1>0, <1>2, <1>4, <1>5 DEF TypeInv, AnswerType, Kinds, Final
<1>7. Rest' = SubSeq(m.bytes, p + n + 1, r)
  <2>1. buffer \in Seq(STRING) /\ done \in Nat /\ Len(buffer) \in done..Len(buffer)
    BY <1>1 DEF TypeInv
  <2>2. n \in Nat /\ Len(buffer) - done \in n..Len(buffer) - done
    BY <1>1
  <2>3. SubSeq(SubSeq(buffer, done + 1, Len(buffer)), n + 1, Len(buffer) - done)
          = SubSeq(buffer, done + n + 1, done + (Len(buffer) - done))
    BY <2>1, <2>2, SliceOfSlice
  <2>4. done + (Len(buffer) - done) = Len(buffer)
    BY <1>1
  <2>5. Rest' = SubSeq(Rest, n + 1, r - p)
    BY <1>0, <1>1, <2>3, <2>4 DEF Rest
  <2>6. r \in p..Len(m.bytes) /\ r - p \in n..r - p /\ p + (r - p) = r
    BY <1>1
  <2>7. SubSeq(SubSeq(m.bytes, p + 1, r), n + 1, r - p) = SubSeq(m.bytes, p + n + 1, p + (r - p))
    BY <1>1, <2>2, <2>6, SliceOfSlice
  <2> QED
    BY <1>1, <2>5, <2>6, <2>7
<1>8. p + n \in Nat /\ p + n \in 0..sent /\ r \in 0..sent /\ p + n \in 0..r /\ r \in 0..sent'
  BY <1>0, <1>1
<1>9. Stream(m, p + n, r)'
  <2>1. wire' = SubSeq(m.bytes, r + 1, sent') /\ r \notin m.joined /\ sent' \notin m.joined
    BY <1>0 DEF Reading, Stream
  <2> QED
    BY <1>2, <1>7, <1>8, <2>1 DEF Stream
<1>10. ASSUME pc' # "loop" PROVE Stuck(q, Rest)' /\ pc' = "end"
  <2>1. ~GoesOn(n, req.state, q.state) /\ pc' = "end"
    BY <1>0, <1>10
  <2>2. n = 0 /\ req.state = q.state
    BY <2>1 DEF GoesOn
  <2>3. p + n + 1 = p + 1
    BY <2>2
  <2>4. Rest' = Rest
    BY <1>1, <1>7, <2>3
  <2>5. Stuck(q, Rest)
    BY <2>2
  <2> QED
    BY <2>1, <2>4, <2>5 DEF Stuck
<1>11. Unanswered'
  BY <1>0, <1>4 DEF Unanswered, Reading
<1>12. pc' \in {"loop", "end"}
  BY <1>10
<1>13. Continued(req)'
  BY <1>0 DEF Continued, Expects
<1>14. Reading(p + n, r)'
  <2>1. pc' # "loop" => Stuck(req, Rest)'
    BY <1>0, <1>10 DEF Stuck
  <2>2. At(Message(Current), req, p + n, r)'
    BY <1>0, <1>2 DEF At, AtLine, AtHeader, AtBody, AtMark, InChunk, AtCallback, InPayload, Headers, Req, No
  <2> QED
    BY <1>9, <1>11, <1>12, <1>13, <2>1, <2>2 DEF Reading
<1> QED
  BY <1>0, <1>4, <1>6, <1>8, <1>14 DEF IInv

\* A failing iteration keeps it, if what is refused is not correct.
LEMMA GivesUp ==
  ASSUME TypeInv, AnswersInv, NEW p \in Nat, NEW r \in Nat, Reading(p, r), NEW kind \in {"refused", "failed"},
         Fails(kind), kind = "refused" => ~Message(Current).wellFormed
  PROVE  IInv'
<1>0. /\ asked' = asked /\ sent' = sent /\ wire' = wire /\ buffer' = buffer
      /\ done' = done /\ req' = req /\ pc' = "finish" /\ Answer(kind, <<>>)
  BY DEF Fails, clientVars
<1>1. asked # <<>> /\ Unanswered /\ req.keeps = FALSE
  BY ReadingIs, NotKeptYet DEF Reading
<1>2. <<>> \in Seq(STRING) /\ kind \in Kinds /\ kind \in Final /\ kind # "served"
  <2>1. kind \in Kinds /\ kind \in Final /\ kind # "served"
    BY DEF Final, Kinds
  <2> QED
    BY <2>1, NoBytes, Zenon
<1>3. AnswersInv'
  BY <1>0, <1>1, <1>2, AnswerKeepsInv, Zenon DEF Unanswered
<1>4. answers' \in Seq(AnswerType)
  BY <1>0, <1>1, <1>2, AnswerAppends, Zenon
<1>5. TypeInv'
  BY <1>0, <1>4 DEF TypeInv, AnswerType, Kinds, Final, Current, Message
<1>6. Finishing'
  BY <1>0, <1>1 DEF Finishing
<1> QED
  BY <1>3, <1>5, <1>6 DEF IInv

-----------------------------------------------------------------------------
(* Initial state, and the steps of the client and of the transport.        *)

\* A new connection.
LEMMA InitStarts == Init => IInv
<1> SUFFICES ASSUME Init PROVE IInv
  OBVIOUS
<1>1. /\ asked = <<>> /\ sent = 0 /\ wire = <<>> /\ buffer = <<>> /\ done = 0
      /\ req = NewRequest /\ pc = "idle" /\ answers = <<>>
  BY DEF Init
<1>2. /\ \A S : <<>> \in Seq(S)
      /\ Len(<<>>) = 0 /\ DOMAIN <<>> = {}
  OBVIOUS
<1>3. asked \in Seq(DOMAIN Messages) /\ wire \in Seq(STRING) /\ buffer \in Seq(STRING)
      /\ answers \in Seq([to : Nat, is : Kinds, payload : Seq(STRING)])
  BY <1>1, <1>2, Zenon
<1>4. done \in 0..Len(buffer) /\ sent \in Nat
  BY <1>1, <1>2
<1>5. TypeInv
  BY <1>1, <1>3, <1>4 DEF TypeInv
<1>6. AnswersInv
  BY <1>1, <1>2, Zenon DEF AnswersInv
<1>7. Between
  BY <1>1 DEF Between, Answered
<1> QED
  BY <1>5, <1>6, <1>7 DEF IInv

\* A request none of whose bytes are read.
Fresh ==
  /\ TypeInv /\ AnswersInv /\ pc = "idle" /\ Unanswered /\ done = 0 /\ buffer = <<>>
  /\ req = NewRequest
  /\ wire = SubSeq(Message(Current).bytes, 1, sent) /\ sent \notin Message(Current).joined

\* Nothing can be done with no byte.
LEMMA Begins == Fresh => IInv
<1> SUFFICES ASSUME TypeInv, AnswersInv, pc = "idle", Unanswered, done = 0, buffer = <<>>, req = NewRequest,
                    wire = SubSeq(Message(Current).bytes, 1, sent), sent \notin Message(Current).joined
             PROVE  IInv
  BY DEF Fresh
<1> DEFINE m == Message(Current)
<1>1. asked # <<>> /\ IsMessage(m)
  BY CurrentIsMessage DEF Unanswered
<1>2. sent \in Nat /\ sent <= Len(m.bytes) /\ Len(m.bytes) \in Nat /\ 0 \notin m.joined
  BY <1>1, LenProperties DEF TypeInv, IsMessage
<1>3. Rest = <<>> /\ SubSeq(m.bytes, 0 + 1, 0) = <<>>
  <2>1. Len(buffer) = 0 /\ done + 1 = 0 + 1
    BY NoBytes
  <2>2. Rest = SubSeq(buffer, 0 + 1, 0)
    BY <2>1 DEF Rest
  <2> QED
    BY <2>2, SliceEmpty
<1>4. Stream(m, 0, 0)
  BY <1>2, <1>3 DEF Stream
<1>5. At(m, req, 0, 0)
  BY DEF At, AtLine
<1>6. LineLen(<<>>) = -1
  <2>1. Len(<<>>) = 0
    BY NoBytes
  <2>2. {i \in 1..Len(<<>>) - 1 : (<<>>)[i] = CR /\ (<<>>)[i + 1] = LF} = {}
    BY <2>1
  <2> QED
    BY <2>2 DEF LineLen
<1>7. Stuck(req, Rest)
  <2>1. req.state = "LINE"
    BY DEF NewRequest
  <2>2. Len(Rest) < MaxLine
    BY <1>3, NoBytes, MaxLineAssumption
  <2> QED
    BY <1>3, <1>6, <2>1, <2>2 DEF Stuck
<1>8. Continued(req)
  BY DEF Continued, NewRequest
<1>9. Reading(0, 0)
  BY <1>4, <1>5, <1>7, <1>8 DEF Reading
<1>10. 0 \in 0..sent
  BY <1>2
<1> QED
  BY <1>9, <1>10 DEF IInv

\* A client's new request.
LEMMA AskKeeps ==
  ASSUME IInv, Ask
  PROVE  IInv'
<1>0. /\ pc # "closed" /\ (asked # <<>> => AnswersTo(Current, Final) # {})
      /\ sent' = 0 /\ wire' = wire /\ buffer' = buffer /\ done' = done /\ req' = req
      /\ pc' = pc /\ answers' = answers /\ AllSent
  BY DEF Ask
<1>1. PICK x \in DOMAIN Messages : asked' = Append(asked, x)
  BY DEF Ask
<1>2. TypeInv /\ AnswersInv
  BY DEF IInv
<1>3. /\ asked \in Seq(DOMAIN Messages) /\ Current \in Nat
      /\ asked' \in Seq(DOMAIN Messages) /\ Current' = Current + 1 /\ asked' # <<>>
      /\ \A i \in 1..Current : asked'[i] = asked[i]
      /\ asked'[Current + 1] = x
  BY <1>1, <1>2, AppendProperties, LenProperties DEF TypeInv, Current
<1>4. \A i \in 1..Current : Message(i)' = Message(i)
  BY <1>3 DEF Message
<1>5. IsMessage(Message(Current)')
  BY <1>3, MessagesAssumption DEF Message
<1>6. Len(Message(Current)'.bytes) \in Nat
  BY <1>5, LenProperties DEF IsMessage
<1>7. TypeInv'
  BY <1>0, <1>2, <1>3, <1>6 DEF TypeInv
<1>8. AnswersInv'
  <2>1. DOMAIN answers' = DOMAIN answers /\ \A a \in DOMAIN answers : answers'[a] = answers[a]
    BY <1>0
  <2>2. \A i \in 1..Current : i \in 1..Current'
    BY <1>3
  <2>3. \A a \in DOMAIN answers : answers[a].to \in 1..Current
    BY <1>2 DEF AnswersInv
  <2>4. ASSUME NEW a \in DOMAIN answers
        PROVE  /\ answers[a].to \in 1..Current'
               /\ answers[a].is = "served" =>
                    /\ Messages[asked'[answers[a].to]].wellFormed
                    /\ answers[a].payload = Messages[asked'[answers[a].to]].body
               /\ answers[a].is = "refused" => ~Messages[asked'[answers[a].to]].wellFormed
    <3>1. asked'[answers[a].to] = asked[answers[a].to]
      BY <1>3, <2>3
    <3> QED
      BY <1>2, <2>2, <2>3, <3>1, Zenon DEF AnswersInv, Message
  <2>5. \A a, b \in DOMAIN answers :
           answers[a].is \in Final /\ answers[b].is \in Final /\ answers[a].to = answers[b].to => a = b
    BY <1>2, Zenon DEF AnswersInv
  <2>6. Final' = Final
    BY DEF Final
  <2> QED
    BY <1>0, <2>1, <2>4, <2>5, <2>6, Zenon DEF AnswersInv, Message
<1>9. Unanswered'
  <2>1. \A a \in DOMAIN answers : answers[a].to # Current + 1
    BY <1>2, <1>3 DEF AnswersInv
  <2> QED
    BY <1>0, <1>3, <2>1, Zenon DEF Unanswered, AnswersTo
<1>10. SubSeq(Message(Current)'.bytes, 1, 0) = <<>> /\ 0 \notin Message(Current)'.joined
  <2>1. SubSeq(Message(Current)'.bytes, 0 + 1, 0) = <<>>
    BY SliceEmpty
  <2> QED
    BY <1>5, <2>1 DEF IsMessage
<1>11. CASE Between
  <2>1. /\ pc = "idle" /\ buffer = <<>> /\ wire = <<>> /\ done = 0 /\ req = NewRequest
    BY <1>11 DEF Between
  <2>2. /\ pc' = "idle" /\ buffer' = <<>> /\ wire' = <<>> /\ done' = 0 /\ req' = NewRequest'
    BY <1>0, <2>1 DEF NewRequest
  <2>3. wire' = SubSeq(Message(Current)'.bytes, 1, sent') /\ sent' \notin Message(Current)'.joined
    BY <1>0, <1>10, <2>2
  <2> QED
    <3>1. Fresh'
      BY <1>7, <1>8, <1>9, <2>2, <2>3 DEF Fresh
    <3> QED
      BY <3>1, Begins, PTL
<1>12. CASE \E p, r \in 0..sent : Reading(p, r)
  BY <1>0, <1>12 DEF Reading, Unanswered
<1>13. CASE Finishing
  <2>1. pc' = "finish" /\ asked' # <<>>
    BY <1>0, <1>3, <1>13 DEF Finishing
  <2>2. ASSUME req.keeps PROVE wire = <<>>
    BY <1>0, <1>13, <2>2 DEF Finishing, Unanswered
  <2>3. Finishing'
    BY <1>0, <1>9, <1>10, <2>1, <2>2 DEF Finishing
  <2> QED
    BY <1>7, <1>8, <2>3 DEF IInv
<1> QED
  BY <1>0, <1>11, <1>12, <1>13 DEF IInv

\* Where a request is does not depend on what else has been read, once it waits.
LEMMA AtIsStable ==
  ASSUME NEW m, NEW q, NEW p, NEW r, NEW t, At(m, q, p, r), q.state # "CALLBACK"
  PROVE  At(m, q, p, t)
BY DEF At, AtCallback

\* The state of the request tells where it is.
LEMMA CallbackIs ==
  ASSUME NEW m, NEW q, NEW p, NEW r, At(m, q, p, r), q.state = "CALLBACK"
  PROVE  AtCallback(m, q, r)
<1>1. ~AtLine(m, q, p)
  BY DEF AtLine, NewRequest
<1>2. \A i : ~AtHeader(m, q, p, i)
  BY DEF AtHeader, NewRequest, Req
<1>3. \A type, n, payload : ~InPayload(m, q, type, n, payload)
  BY DEF InPayload, Req
<1>4. /\ \A j : ~AtBody(m, q, p, j)
      /\ \A k : ~AtMark(m, q, p, k)
      /\ \A k, j : ~InChunk(m, q, p, k, j)
  BY <1>3, Zenon DEF AtBody, AtMark, InChunk
<1> QED
  BY <1>1, <1>2, <1>4 DEF At

\* A segment that arrives.
LEMMA SendKeeps ==
  ASSUME ~CutsAnywhere, IInv, Send
  PROVE  IInv'
<1> DEFINE m == Message(Current)
<1>0. /\ asked' = asked /\ buffer' = buffer /\ done' = done /\ req' = req /\ pc' = pc
      /\ answers' = answers /\ ~AllSent /\ pc # "closed"
  BY DEF Send
<1>1. TypeInv /\ AnswersInv
  BY DEF IInv
<1>2. asked # <<>> /\ sent # Len(m.bytes)
  BY <1>0 DEF AllSent
<1>3. IsMessage(m) /\ m.bytes \in Seq(STRING) /\ Len(m.bytes) \in Nat /\ sent \in Nat /\ sent <= Len(m.bytes)
  BY <1>1, <1>2, CurrentIsMessage, LenProperties DEF IsMessage, TypeInv
<1>4. PICK k \in sent + 1..Len(m.bytes) :
        k \notin m.joined /\ sent' = k /\ wire' = wire \o SubSeq(m.bytes, sent + 1, k)
  BY DEF Send
<1>5. Current' = Current /\ \A i : Message(i)' = Message(i)
  BY <1>0 DEF Current, Message
<1>6. k \in Nat /\ k <= Len(m.bytes) /\ sent <= k
  BY <1>3, <1>4
<1>7. wire' \in Seq(STRING)
  <2>1. SubSeq(m.bytes, sent + 1, k) \in Seq(STRING)
    BY <1>3, <1>6, SliceIs
  <2> QED
    BY <1>1, <1>4, <2>1, ConcatProperties DEF TypeInv
<1>8. TypeInv'
  <2>1. Message(Current)' = m
    BY <1>5
  <2> QED
    BY <1>0, <1>1, <1>4, <1>6, <1>7, <2>1 DEF TypeInv
<1>9. AnswersInv'
  BY <1>0, <1>1, <1>5, Zenon DEF AnswersInv, Final
<1>10. (Unanswered => Unanswered') /\ \A kinds : AnswersTo(Current, kinds)' = AnswersTo(Current, kinds)
  BY <1>0, <1>5 DEF Unanswered, AnswersTo, Final
<1>11. ASSUME NEW r \in Nat, r <= sent, wire = SubSeq(m.bytes, r + 1, sent)
       PROVE  wire' = SubSeq(m.bytes, r + 1, k)
  <2>1. r \in Nat /\ sent \in r..Len(m.bytes) /\ k \in sent..Len(m.bytes)
    BY <1>3, <1>6, <1>11
  <2> QED
    BY <1>3, <1>4, <1>11, <2>1, SlicesJoin
<1>12. ASSUME NEW p \in 0..sent, NEW r \in 0..sent, Reading(p, r) PROVE IInv'
  <2>1. r \in Nat /\ r <= sent /\ p \in 0..sent' /\ r \in 0..sent' /\ p \in 0..r
    BY <1>3, <1>4, <1>6, <1>12 DEF Reading, Stream
  <2>2. wire' = SubSeq(m.bytes, r + 1, sent') /\ Rest' = Rest
    BY <1>0, <1>4, <1>11, <1>12, <2>1 DEF Reading, Stream, Rest
  <2>3. Stream(m, p, r)'
    BY <1>4, <1>5, <1>12, <2>1, <2>2 DEF Reading, Stream
  <2>4. Reading(p, r)'
    <3>1. At(Message(Current), req, p, r)'
      BY <1>0, <1>5, <1>12 DEF Reading, At, AtLine, AtHeader, AtBody, AtMark, InChunk, AtCallback, InPayload, Headers, Req
    <3>2. (pc # "loop" => Stuck(req, Rest))' /\ Continued(req)'
      BY <1>0, <1>10, <1>12, <2>2 DEF Reading, Stuck, Continued, Expects
    <3> QED
      BY <1>0, <1>10, <1>12, <2>3, <3>1, <3>2 DEF Reading
  <2> QED
    BY <1>8, <1>9, <2>1, <2>4 DEF IInv
<1>13. CASE Finishing
  <2>1. pc' = "finish" /\ asked' # <<>>
    BY <1>0, <1>2, <1>13 DEF Finishing
  <2>2. ASSUME req.keeps
        PROVE  Unanswered' /\ wire' = SubSeq(Message(Current)'.bytes, 1, sent') /\ sent' \notin Message(Current)'.joined
    <3>1. Unanswered /\ wire = SubSeq(m.bytes, 0 + 1, sent)
      BY <1>2, <1>13, <2>2 DEF Finishing, Answered
    <3>2. wire' = SubSeq(m.bytes, 0 + 1, k)
      BY <1>3, <1>11, <3>1
    <3>3. Message(Current)' = m /\ 0 + 1 = 1
      BY <1>5
    <3> QED
      BY <1>4, <1>10, <3>1, <3>2, <3>3
  <2>3. Finishing'
    BY <1>0, <2>1, <2>2 DEF Finishing
  <2> QED
    BY <1>8, <1>9, <2>3 DEF IInv
<1>14. ~Between
  BY <1>2 DEF Between, Answered
<1> QED
  BY <1>0, <1>12, <1>13, <1>14 DEF IInv

\* What a read finds, and what it adds to.
LEMMA ReadKeeps ==
  ASSUME IInv, Read
  PROVE  IInv'
<1> DEFINE m == Message(Current)
<1>0. /\ asked' = asked /\ sent' = sent /\ req' = req /\ answers' = answers /\ pc' = "loop"
      /\ wire' = <<>> /\ wire # <<>> /\ done' = 0 /\ buffer' = buffer \o wire /\ pc = "idle"
  BY DEF Read, clientVars
<1>1. TypeInv /\ AnswersInv /\ ~Between /\ ~Finishing
  BY <1>0 DEF IInv, Between, Finishing
<1>2. PICK p \in 0..sent, r \in 0..sent : Reading(p, r)
  BY <1>0, <1>1 DEF IInv
<1>3. p \in Nat /\ r \in Nat
  BY <1>2
<1>4. /\ asked # <<>> /\ IsMessage(m) /\ m.bytes \in Seq(STRING) /\ Len(m.bytes) \in Nat
      /\ p <= r /\ r <= sent /\ sent <= Len(m.bytes) /\ sent \in Nat
      /\ Rest = SubSeq(m.bytes, p + 1, r)
  BY <1>1, <1>2, <1>3, ReadingIs
<1>5. Current' = Current /\ \A i : Message(i)' = Message(i)
  BY <1>0 DEF Current, Message
<1>6. buffer' \in Seq(STRING) /\ Len(buffer') \in Nat
  BY <1>0, <1>1, ConcatProperties, LenProperties DEF TypeInv
<1>7. TypeInv'
  <2>1. Message(Current)' = m
    BY <1>5
  <2>2. wire' \in Seq(STRING)
    BY <1>0, NoBytes, Zenon
  <2>3. done' \in 0..Len(buffer')
    BY <1>0, <1>6
  <2> QED
    BY <1>0, <1>1, <1>6, <2>1, <2>2, <2>3 DEF TypeInv
<1>8. AnswersInv'
  BY <1>0, <1>1, <1>5, Zenon DEF AnswersInv, Final
<1>9. Rest' = SubSeq(m.bytes, p + 1, sent)
  <2>1. Rest' = buffer'
    BY <1>0, <1>6, SubSeqFull DEF Rest
  <2>2. Rest = buffer
    <3>1. done = 0 /\ buffer \in Seq(STRING)
      BY <1>0, <1>1, <1>2 DEF Reading, TypeInv
    <3> QED
      BY <3>1, SubSeqFull DEF Rest
  <2>3. wire = SubSeq(m.bytes, r + 1, sent)
    BY <1>2 DEF Reading, Stream
  <2>4. r \in p..Len(m.bytes) /\ sent \in r..Len(m.bytes)
    BY <1>3, <1>4
  <2>5. SubSeq(m.bytes, p + 1, r) \o SubSeq(m.bytes, r + 1, sent) = SubSeq(m.bytes, p + 1, sent)
    BY <1>3, <1>4, <2>4, SlicesJoin
  <2> QED
    BY <1>0, <1>4, <2>1, <2>2, <2>3, <2>5, Zenon
<1>10. wire' = SubSeq(m.bytes, sent + 1, sent)
  BY <1>0, <1>4, SliceEmpty
<1>a. PICK t : t = sent
  OBVIOUS
<1>11. p \in 0..sent' /\ t \in 0..sent' /\ p \in 0..t
  BY <1>0, <1>3, <1>4, <1>a
<1>12. Stream(m, p, t)'
  <2>1. Message(Current)' = m
    BY <1>5
  <2>2. sent \notin m.joined
    BY <1>2 DEF Reading, Stream
  <2> QED
    BY <1>0, <1>9, <1>10, <1>11, <1>a, <2>1, <2>2 DEF Stream
<1>13. Reading(p, t)'
  <2>1. req.state # "CALLBACK"
    BY <1>0, <1>2 DEF Reading, Stuck
  <2>2. At(m, req, p, t)
    BY <1>2, <2>1, AtIsStable DEF Reading
  <2>3. At(Message(Current), req, p, t)'
    BY <1>0, <1>5, <2>2 DEF At, AtLine, AtHeader, AtBody, AtMark, InChunk, AtCallback, InPayload, Headers, Req
  <2>4. Continued(req)' /\ Unanswered'
    BY <1>0, <1>2, <1>5 DEF Reading, Continued, Expects, AnswersTo, Unanswered, Final
  <2> QED
    BY <1>0, <1>12, <2>3, <2>4 DEF Reading
<1> QED
  BY <1>0, <1>7, <1>8, <1>11, <1>13 DEF IInv

\* What is kept until more has come.
LEMMA AwaitKeeps ==
  ASSUME IInv, AwaitMoreInput
  PROVE  IInv'
<1> DEFINE m == Message(Current)
<1>0. /\ asked' = asked /\ sent' = sent /\ req' = req /\ answers' = answers /\ pc' = "idle"
      /\ wire' = wire /\ done' = 0 /\ buffer' = Rest /\ pc = "end"
  BY DEF AwaitMoreInput, clientVars, Unprocessed
<1>1. TypeInv /\ AnswersInv /\ ~Between /\ ~Finishing
  BY <1>0 DEF IInv, Between, Finishing
<1>2. PICK p \in 0..sent, r \in 0..sent : Reading(p, r)
  BY <1>0, <1>1 DEF IInv
<1>3. p \in Nat /\ r \in Nat
  BY <1>2
<1>4. Rest \in Seq(STRING) /\ Len(Rest) \in Nat
  BY <1>1, <1>2, <1>3, ReadingIs, LenProperties
<1>5. Current' = Current /\ \A i : Message(i)' = Message(i)
  BY <1>0 DEF Current, Message
<1>6. TypeInv'
  <2>1. Message(Current)' = m
    BY <1>5
  <2>2. done' \in 0..Len(buffer')
    BY <1>0, <1>4
  <2> QED
    BY <1>0, <1>1, <1>4, <2>1, <2>2 DEF TypeInv
<1>7. AnswersInv'
  BY <1>0, <1>1, <1>5, Zenon DEF AnswersInv, Final
<1>8. Rest' = Rest
  <2>1. Rest' = buffer'
    BY <1>0, <1>4, SubSeqFull DEF Rest
  <2> QED
    BY <1>0, <2>1
<1>9. Stream(m, p, r)'
  BY <1>0, <1>2, <1>5, <1>8 DEF Reading, Stream
<1>10. Reading(p, r)'
  <2>1. At(Message(Current), req, p, r)'
    BY <1>0, <1>2, <1>5 DEF Reading, At, AtLine, AtHeader, AtBody, AtMark, InChunk, AtCallback, InPayload, Headers, Req
  <2>2. Stuck(req, Rest)'
    BY <1>0, <1>2, <1>8 DEF Reading, Stuck
  <2>3. Continued(req)' /\ Unanswered'
    BY <1>0, <1>2, <1>5 DEF Reading, Continued, Expects, AnswersTo, Unanswered, Final
  <2> QED
    BY <1>0, <1>9, <2>1, <2>2, <2>3 DEF Reading
<1> QED
  BY <1>0, <1>2, <1>6, <1>7, <1>10 DEF IInv

\* The next request of a connection that is kept.
LEMMA KeepKeeps ==
  ASSUME IInv, KeepConnection
  PROVE  IInv'
<1>0. /\ asked' = asked /\ sent' = sent /\ req' = NewRequest /\ answers' = answers /\ pc' = "idle"
      /\ wire' = wire /\ done' = 0 /\ buffer' = <<>> /\ pc = "finish" /\ req.keeps
  BY DEF KeepConnection, clientVars, Released, Keeps
<1>1. TypeInv /\ AnswersInv /\ Finishing
  BY <1>0 DEF IInv, Between, Reading
<1>2. Current' = Current /\ \A i : Message(i)' = Message(i)
  BY <1>0 DEF Current, Message
<1>3. \A kinds : AnswersTo(Current, kinds)' = AnswersTo(Current, kinds)
  BY <1>0, <1>2 DEF AnswersTo
<1>4. TypeInv'
  <2>1. Message(Current)' = Message(Current)
    BY <1>2
  <2>2. buffer' \in Seq(STRING) /\ Len(buffer') = 0
    BY <1>0, NoBytes, Zenon
  <2>3. done' \in 0..Len(buffer')
    BY <1>0, <2>2
  <2> QED
    BY <1>0, <1>1, <2>1, <2>2, <2>3 DEF TypeInv
<1>5. AnswersInv'
  BY <1>0, <1>1, <1>2, Zenon DEF AnswersInv, Final
<1>6. CASE Answered /\ wire = <<>>
  <2>1. Between'
    BY <1>0, <1>2, <1>3, <1>6 DEF Between, Answered, NewRequest, Final
  <2> QED
    BY <1>4, <1>5, <2>1 DEF IInv
<1>7. CASE /\ Unanswered /\ wire = SubSeq(Message(Current).bytes, 1, sent)
           /\ sent \notin Message(Current).joined
  <2>1. Fresh'
    BY <1>0, <1>2, <1>3, <1>4, <1>5, <1>7 DEF Fresh, Unanswered, NewRequest, Final
  <2> QED
    BY <2>1, Begins, PTL
<1> QED
  BY <1>0, <1>1, <1>6, <1>7 DEF Finishing

\* A connection that is closed has given its answers.
LEMMA DisconnectKeeps ==
  ASSUME IInv, DisconnectClient
  PROVE  IInv'
<1>1. /\ UNCHANGED <<asked, sent, wire, buffer, done, req, answers>> /\ pc' = "closed"
      /\ TypeInv /\ AnswersInv
  BY DEF DisconnectClient, clientVars, IInv
<1>2. Current' = Current /\ \A i : Message(i)' = Message(i)
  BY <1>1 DEF Current, Message
<1>3. TypeInv' /\ AnswersInv'
  BY <1>1, <1>2, Zenon DEF TypeInv, AnswersInv, Final, Kinds
<1> QED
  BY <1>1, <1>3 DEF IInv

\* The callback gets the body, and all of the request is read then.
LEMMA CallbackKeeps ==
  ASSUME IInv, TriggerAppCb
  PROVE  IInv'
<1> DEFINE m == Message(Current)
<1>0. /\ asked' = asked /\ sent' = sent /\ wire' = wire /\ done' = done /\ buffer' = buffer
      /\ pc = "loop" /\ pc' = "finish" /\ req.state = "CALLBACK"
      /\ Answer("served", req.payload) \/ Answer("failed", <<>>)
  BY DEF TriggerAppCb, clientVars, In
<1>1. TypeInv /\ AnswersInv /\ ~Between /\ ~Finishing
  BY <1>0 DEF IInv, Between, Finishing
<1>2. PICK p \in 0..sent, r \in 0..sent : Reading(p, r)
  BY <1>0, <1>1 DEF IInv
<1>3. p \in Nat /\ r \in Nat
  BY <1>2
<1>4. /\ asked # <<>> /\ IsMessage(m) /\ m.bytes \in Seq(STRING) /\ Len(m.bytes) \in Nat
      /\ p <= r /\ r <= sent /\ sent <= Len(m.bytes) /\ sent \in Nat
  BY <1>1, <1>2, <1>3, ReadingIs
<1>5. AtCallback(m, req, r)
  BY <1>0, <1>2, CallbackIs DEF Reading
<1>6. m.wellFormed /\ req.payload = m.body /\ sent = Len(m.bytes) /\ r = sent
  BY <1>4, <1>5 DEF AtCallback
<1>7. wire = <<>>
  <2>1. wire = SubSeq(m.bytes, sent + 1, sent)
    BY <1>2, <1>6 DEF Reading, Stream
  <2> QED
    BY <1>4, <2>1, SliceEmpty
<1>8. Current' = Current /\ \A i : Message(i)' = Message(i)
  BY <1>0 DEF Current, Message
<1>9. m.body \in Seq(STRING) /\ <<>> \in Seq(STRING)
  BY <1>4, NoBytes, Zenon DEF IsMessage
<1>10. PICK kind \in {"served", "failed"}, payload \in Seq(STRING) :
         Answer(kind, payload) /\ (kind = "served" => payload = m.body)
  BY <1>0, <1>6, <1>9
<1>11. kind \in Kinds /\ kind \in Final /\ kind # "refused"
  BY DEF Kinds, Final
<1>12. AnswersTo(Current, Final) = {}
  BY <1>2 DEF Reading, Unanswered
<1>13. AnswersInv'
  BY <1>0, <1>1, <1>4, <1>6, <1>10, <1>11, <1>12, AnswerKeepsInv, Zenon
<1>14. answers' \in Seq(AnswerType) /\ AnswersTo(Current, Final)' # {}
  BY <1>0, <1>1, <1>4, <1>10, <1>11, AnswerAppends, AnswersAfter, Zenon
<1>15. TypeInv'
  <2>1. Message(Current)' = m
    BY <1>8
  <2> QED
    BY <1>0, <1>1, <1>14, <2>1 DEF TypeInv, AnswerType, Kinds, Final
<1>16. Answered'
  BY <1>0, <1>6, <1>8, <1>14 DEF Answered
<1>17. Finishing'
  BY <1>0, <1>4, <1>7, <1>16 DEF Finishing
<1> QED
  BY <1>13, <1>15, <1>17 DEF IInv

-----------------------------------------------------------------------------
(* The fields of a request, and the lines of a message.                    *)

\* The changes the parser makes to a request.
LEMMA StateSet ==
  ASSUME NEW state, NEW headers, NEW type, NEW remaining, NEW payload,
         NEW q, q = Req(state, headers, type, remaining, payload), NEW s
  PROVE  [q EXCEPT !.state = s] = Req(s, headers, type, remaining, payload)
BY DEF Req

\* A header more.
LEMMA HeadersSet ==
  ASSUME NEW state, NEW headers, NEW type, NEW remaining, NEW payload,
         NEW q, q = Req(state, headers, type, remaining, payload), NEW h
  PROVE  [q EXCEPT !.headers = h] = Req(state, h, type, remaining, payload)
BY DEF Req

\* Another number of bytes to come.
LEMMA RemainingSet ==
  ASSUME NEW state, NEW headers, NEW type, NEW remaining, NEW payload,
         NEW q, q = Req(state, headers, type, remaining, payload), NEW n
  PROVE  [q EXCEPT !.remaining = n] = Req(state, headers, type, n, payload)
BY DEF Req

\* A request that has just been made.
LEMMA NewFields == NewRequest = Req("LINE", <<>>, "none", 0, <<>>)
BY Zenon DEF NewRequest, Req, No

\* The parts of a message that the lemmas use.
LEMMA MessageParts ==
  ASSUME NEW m, IsMessage(m)
  PROVE  /\ m.bytes \in Seq(STRING) /\ Len(m.bytes) \in Nat
         /\ m.body \in Seq(STRING) /\ Len(m.body) \in Nat
         /\ m.lines \in Seq(Nat) /\ Len(m.lines) \in Nat \ {0} /\ m.lines[1] = 0
         /\ \A i \in 1..Len(m.lines) : m.lines[i] \in Nat
         /\ m.headers \in Seq([name : Seq(STRING), value : Seq(STRING)])
         /\ Len(m.headers) = IF Len(m.lines) = 1 THEN 0 ELSE Len(m.lines) - 2
         /\ m.marks \in Seq([at : Nat, skip : Nat, size : Nat, got : Nat]) /\ Len(m.marks) \in Nat
         /\ \A k \in 1..Len(m.marks) : m.marks[k] \in [at : Nat, skip : Nat, size : Nat, got : Nat]
         /\ CorrectLines(m) /\ m.wellFormed \in BOOLEAN
         /\ m.wellFormed => Correct(m)
         /\ ~m.wellFormed => Incorrect(m)
<1>1. /\ m.bytes \in Seq(STRING) /\ m.body \in Seq(STRING)
      /\ m.lines \in Seq(Nat) /\ m.lines # <<>> /\ m.lines[1] = 0
      /\ m.headers \in Seq([name : Seq(STRING), value : Seq(STRING)])
      /\ Len(m.headers) = IF Len(m.lines) = 1 THEN 0 ELSE Len(m.lines) - 2
      /\ m.marks \in Seq([at : Nat, skip : Nat, size : Nat, got : Nat])
      /\ CorrectLines(m) /\ m.wellFormed \in BOOLEAN
      /\ m.wellFormed => Correct(m)
      /\ ~m.wellFormed => Incorrect(m)
  BY Zenon DEF IsMessage
<1>2. Len(m.bytes) \in Nat /\ Len(m.body) \in Nat /\ Len(m.lines) \in Nat /\ Len(m.marks) \in Nat
  BY <1>1, LenProperties, Zenon
<1>3. Len(m.lines) # 0
  <2>1. Len(m.lines) \in Nat \ {0}
    BY <1>1, EmptySeq, Zenon
  <2> QED
    BY <2>1
<1>4. \A i \in 1..Len(m.lines) : m.lines[i] \in Nat
  BY <1>1, ElementOfSeq, Zenon
<1>5. \A k \in 1..Len(m.marks) : m.marks[k] \in [at : Nat, skip : Nat, size : Nat, got : Nat]
  BY <1>1, ElementOfSeq, Zenon
<1>6. Len(m.lines) \in Nat \ {0}
  BY <1>2, <1>3
<1> QED
  BY <1>1, <1>2, <1>4, <1>5, <1>6, Zenon

\* The line of a message at its i-th place, if it is not the incorrect one.
LEMMA LineIsThere ==
  ASSUME NEW m, IsMessage(m), NEW i \in 1..Len(m.lines), i < Len(m.lines) \/ m.wellFormed
  PROVE  /\ \E n \in Nat : LineAt(m.bytes, m.lines[i], n) /\ n + 2 <= MaxLine
         /\ i = Len(m.lines) => LineAt(m.bytes, m.lines[i], 0) /\ i > 1
<1>0. /\ Len(m.lines) \in Nat \ {0} /\ m.lines[i] \in Nat /\ CorrectLines(m)
      /\ m.wellFormed => Correct(m)
  BY MessageParts
<1>1. ASSUME NEW j \in 1..Len(m.lines) - 1
      PROVE  \E n \in Nat : LineAt(m.bytes, m.lines[j], n) /\ n + 2 <= MaxLine
  <2> DEFINE n == m.lines[j + 1] - m.lines[j] - 2
  <2>1. n \in 1..MaxLine - 2 /\ LineAt(m.bytes, m.lines[j], n)
    BY <1>0 DEF CorrectLines
  <2> HIDE DEF n
  <2>2. n \in Nat /\ n + 2 <= MaxLine
    BY <2>1, MaxLineAssumption
  <2> QED
    BY <2>1, <2>2
<1>2. CASE i < Len(m.lines)
  <2>1. i \in 1..Len(m.lines) - 1
    BY <1>0, <1>2
  <2> QED
    BY <1>1, <1>2, <2>1
<1>3. CASE i = Len(m.lines)
  <2>1. m.wellFormed
    BY <1>3
  <2>2. Len(m.lines) > 1 /\ LineAt(m.bytes, m.lines[Len(m.lines)], 0)
    BY <1>0, <2>1 DEF Correct, CorrectHead
  <2>3. 1 \in 1..Len(m.lines) - 1
    BY <1>0, <2>2
  <2>4. PICK n \in Nat : n + 2 <= MaxLine
    BY <1>1, <2>3
  <2>5. 0 + 2 <= MaxLine
    BY <2>4, MaxLineAssumption
  <2> QED
    BY <1>3, <2>2, <2>5
<1> QED
  BY <1>0, <1>2, <1>3

\* The line of a piece is a line of the message.
LEMMA LineIsPiece ==
  ASSUME NEW b \in Seq(STRING), NEW p \in Nat, NEW r \in p..Len(b), NEW n \in Nat, p + n + 2 <= r
  PROVE  SubSeq(SubSeq(b, p + 1, r), 1, n) = Piece(b, p, n)
<1>1. 0 \in Nat /\ n \in 0..r - p /\ 0 + 1 = 1 /\ p + 0 + 1 = p + 1
  BY LenProperties
<1>2. SubSeq(SubSeq(b, p + 1, r), 0 + 1, n) = SubSeq(b, p + 0 + 1, p + n)
  BY <1>1, SliceOfSlice
<1> QED
  BY <1>1, <1>2 DEF Piece

\* What the parser finds at the beginning of a line.
LEMMA LineFound ==
  ASSUME TypeInv, NEW p \in Nat, NEW r \in Nat, Reading(p, r)
  PROVE  \/ /\ LineLen(Rest) = -1
            /\ \A n \in Nat : LineAt(Message(Current).bytes, p, n) => Len(Rest) < n + 2
         \/ /\ LineLen(Rest) \in Nat /\ LineLen(Rest) + 2 \in 0..r - p
            /\ LineAt(Message(Current).bytes, p, LineLen(Rest))
            /\ \A n \in Nat : LineAt(Message(Current).bytes, p, n) => n = LineLen(Rest)
            /\ Line = Piece(Message(Current).bytes, p, LineLen(Rest))
            /\ LineLen(Rest) \in 0..Len(Message(Current).bytes)
<1>1. PICK b : b = Message(Current).bytes
  OBVIOUS
<1>2. /\ b \in Seq(STRING) /\ Len(b) \in Nat /\ p <= r /\ r <= Len(b) /\ r \in p..Len(b)
      /\ Rest = SubSeq(b, p + 1, r) /\ Len(Rest) = r - p
  BY <1>1, ReadingIs
<1>3. CASE /\ LineLen(Rest) = -1
           /\ \A n \in Nat : LineAt(b, p, n) => r < p + n + 2
  <2>1. \A n \in Nat : r < p + n + 2 => Len(Rest) < n + 2
    BY <1>2
  <2> QED
    BY <1>1, <1>3, <2>1
<1>4. CASE /\ LineLen(Rest) \in Nat
           /\ p + LineLen(Rest) + 2 <= r
           /\ LineAt(b, p, LineLen(Rest))
           /\ \A n \in Nat : LineAt(b, p, n) => n = LineLen(Rest)
  <2>1. LineLen(Rest) + 2 \in 0..r - p /\ LineLen(Rest) \in 0..Len(b)
    BY <1>2, <1>4
  <2>2. Line = Piece(b, p, LineLen(Rest))
    BY <1>2, <1>4, LineIsPiece DEF Line
  <2> QED
    BY <1>1, <1>4, <2>1, <2>2
<1> QED
  BY <1>2, <1>3, <1>4, LineLenInSlice

\* While it looks for lines, the parser is at the beginning of one.
LEMMA AtALine ==
  ASSUME TypeInv, NEW p \in Nat, NEW r \in Nat, Reading(p, r), req.state \in {"LINE", "HEADERS"}
  PROVE  \E i \in 1..Len(Message(Current).lines) :
           /\ p = Message(Current).lines[i]
           /\ req.state = "LINE" => i = 1 /\ AtLine(Message(Current), req, p)
           /\ req.state = "HEADERS" => AtHeader(Message(Current), req, p, i)
<1> DEFINE m == Message(Current)
<1>1. IsMessage(m) /\ Len(m.lines) \in Nat \ {0} /\ m.lines[1] = 0
  BY ReadingIs, MessageParts
<1>2. At(m, req, p, r)
  BY DEF Reading
<1>3. \A type, n, payload : ~InPayload(m, req, type, n, payload)
  BY DEF InPayload, Req
<1>4. /\ \A j : ~AtBody(m, req, p, j)
      /\ \A k : ~AtMark(m, req, p, k)
      /\ \A k, j : ~InChunk(m, req, p, k, j)
  BY <1>3, Zenon DEF AtBody, AtMark, InChunk
<1>5. ~AtCallback(m, req, r)
  BY DEF AtCallback
<1>6. CASE AtLine(m, req, p)
  <2>1. req.state = "LINE" /\ p = m.lines[1] /\ 1 \in 1..Len(m.lines)
    BY <1>1, <1>6 DEF AtLine, NewRequest
  <2> QED
    BY <1>6, <2>1
<1>7. CASE \E i \in 1..Len(m.lines) : AtHeader(m, req, p, i)
  <2>1. PICK i \in 1..Len(m.lines) : AtHeader(m, req, p, i)
    BY <1>7
  <2>2. req.state = "HEADERS" /\ p = m.lines[i]
    BY <2>1 DEF AtHeader, NewRequest, Req
  <2> QED
    BY <2>1, <2>2
<1> QED
  BY <1>2, <1>4, <1>5, <1>6, <1>7 DEF At

\* A message whose last line is its incorrect one, and what it is if not.
LEMMA LastLine ==
  ASSUME NEW m, IsMessage(m), NEW n \in 0..Len(m.bytes), LineAt(m.bytes, m.lines[Len(m.lines)], n), n <= MaxLine
  PROVE  /\ Len(m.lines) = 1 => n = MaxLine \/ ~ValidRequestLine(Piece(m.bytes, m.lines[Len(m.lines)], n))
         /\ Len(m.lines) > 1 /\ n > 0 =>
              \A k \in 1..n : ~HeaderColon(Piece(m.bytes, m.lines[Len(m.lines)], n), k)
         /\ Len(m.lines) > 1 /\ n = 0 /\ PayloadType(m).type # "none" =>
              /\ (CorrectHead(m) /\ Chunked(m)) \/ m.wellFormed
              /\ ~m.wellFormed => IncorrectSize(m)
<1> DEFINE p == m.lines[Len(m.lines)]
<1>1. /\ Len(m.lines) \in Nat \ {0} /\ p \in Nat /\ m.wellFormed \in BOOLEAN
      /\ m.wellFormed => Correct(m)
      /\ ~m.wellFormed => Incorrect(m)
  BY MessageParts
<1>2. n \in Nat /\ ~(n > MaxLine)
  BY MessageParts, MaxLineAssumption
<1> HIDE DEF p
<1>3. CASE Len(m.lines) > 1 /\ LineAt(m.bytes, p, 0)
  <2>1. n = 0
    BY <1>1, <1>2, <1>3, OneLine DEF p
  <2>2. ~IncorrectLine(m)
    <3>1. SUFFICES ASSUME IncorrectLine(m) PROVE FALSE
      OBVIOUS
    <3>2. \/ n > MaxLine
          \/ Len(m.lines) = 1
          \/ n > 0
      BY <3>1 DEF IncorrectLine
    <3> QED
      BY <1>1, <1>2, <1>3, <2>1, <3>2
  <2>3. ~m.wellFormed /\ PayloadType(m).type # "none" => CorrectHead(m) /\ Chunked(m) /\ IncorrectSize(m)
    BY <1>1, <2>2 DEF Incorrect, IncorrectPayload
  <2> QED
    BY <1>1, <1>3, <2>1, <2>3
<1>4. CASE ~(Len(m.lines) > 1 /\ LineAt(m.bytes, p, 0))
  <2>1. ~CorrectHead(m) /\ ~IncorrectPayload(m)
    BY <1>4 DEF CorrectHead, IncorrectPayload, p
  <2>2. IncorrectLine(m)
    BY <1>1, <2>1 DEF Correct, Incorrect
  <2>3. \/ n > MaxLine
        \/ Len(m.lines) = 1 /\ (n = MaxLine \/ ~ValidRequestLine(Piece(m.bytes, m.lines[Len(m.lines)], n)))
        \/ Len(m.lines) # 1 /\ n > 0 /\ \A k \in 1..n : ~HeaderColon(Piece(m.bytes, m.lines[Len(m.lines)], n), k)
    BY <2>2 DEF IncorrectLine
  <2> QED
    BY <1>1, <1>2, <2>3
<1> QED
  BY <1>3, <1>4

-----------------------------------------------------------------------------
(* The request line.                                                       *)

\* An iteration of the parser finds it in a request.
LEMMA InLoop ==
  ASSUME IInv, pc = "loop"
  PROVE  TypeInv /\ AnswersInv /\ \E p, r \in Nat : p \in 0..sent /\ r \in 0..sent /\ Reading(p, r)
<1>1. TypeInv /\ AnswersInv /\ ~Between /\ ~Finishing
  BY DEF IInv, Between, Finishing
<1>2. PICK p \in 0..sent, r \in 0..sent : Reading(p, r)
  BY <1>1 DEF IInv
<1>3. p \in Nat /\ r \in Nat
  BY <1>2
<1> QED
  BY <1>1, <1>2, <1>3

\* No line yet.
LEMMA AwaitLineKeeps ==
  ASSUME IInv, AwaitLine
  PROVE  IInv'
<1>0. /\ req.state \in {"LINE", "HEADERS"} /\ pc = "loop" /\ LineLen(Rest) = -1 /\ Len(Rest) < MaxLine
      /\ Processed(0, req) /\ answers' = answers
  BY DEF AwaitLine, In
<1>1. TypeInv /\ AnswersInv
  BY <1>0, InLoop
<1>2. PICK p \in Nat, r \in Nat : Reading(p, r)
  BY <1>0, InLoop
<1>3. p + 0 = p /\ 0 \in 0..r - p
  BY <1>1, <1>2, ReadingIs
<1>4. At(Message(Current), req, p + 0, r)
  BY <1>2, <1>3 DEF Reading
<1>5. Stuck(req, Rest)
  BY <1>0 DEF Stuck
<1>6. ~(req.state \in {"PAYLOAD", "CALLBACK"} /\ Expects(req))
  BY <1>0
<1> QED
  BY <1>0, <1>1, <1>2, <1>3, <1>4, <1>5, <1>6, Advances, Zenon

\* A line that is too long: the request is not correct.
LEMMA LineTooLongKeeps ==
  ASSUME IInv, LineTooLong
  PROVE  IInv'
<1> DEFINE m == Message(Current)
<1>0. /\ req.state \in {"LINE", "HEADERS"} /\ pc = "loop" /\ Fails("refused")
      /\ \/ LineLen(Rest) = -1 /\ Len(Rest) >= MaxLine
         \/ LineLen(Rest) > MaxLine
         \/ LineLen(Rest) = MaxLine
  BY DEF LineTooLong, In
<1>1. TypeInv /\ AnswersInv
  BY <1>0, InLoop
<1>2. PICK p \in Nat, r \in Nat : Reading(p, r)
  BY <1>0, InLoop
<1>3. IsMessage(m) /\ Len(Rest) \in Nat
  BY <1>1, <1>2, ReadingIs, LenProperties
<1>4. PICK i \in 1..Len(m.lines) : p = m.lines[i]
  BY <1>0, <1>1, <1>2, AtALine
<1>5. ASSUME m.wellFormed PROVE FALSE
  <2>1. PICK n \in Nat : LineAt(m.bytes, p, n) /\ n + 2 <= MaxLine
    BY <1>3, <1>4, <1>5, LineIsThere
  <2>2. \/ LineLen(Rest) = -1 /\ Len(Rest) < n + 2
        \/ LineLen(Rest) = n
    BY <1>1, <1>2, <2>1, LineFound
  <2> QED
    BY <1>0, <1>3, <2>1, <2>2, MaxLineAssumption
<1> QED
  BY <1>0, <1>1, <1>2, <1>5, GivesUp, Zenon

\* The request line.
LEMMA RequestLineKeeps ==
  ASSUME IInv, ProcessRequestLine
  PROVE  IInv'
<1> DEFINE m == Message(Current)
           n == LineLen(Rest)
<1>0. /\ req.state = "LINE" /\ pc = "loop" /\ n \in 0..MaxLine - 1
      /\ IF ValidRequestLine(Line)
         THEN Processed(n + 2, [req EXCEPT !.state = "HEADERS"]) /\ answers' = answers
         ELSE Fails("refused")
  BY DEF ProcessRequestLine, In
<1>1. TypeInv /\ AnswersInv
  BY <1>0, InLoop
<1>2. PICK p \in Nat, r \in Nat : Reading(p, r)
  BY <1>0, InLoop
<1>3. IsMessage(m)
  BY <1>1, <1>2, ReadingIs
<1>4. AtLine(m, req, p) /\ p = m.lines[1] /\ p = 0
  BY <1>0, <1>1, <1>2, AtALine DEF AtLine
<1>5. /\ n + 2 \in 0..r - p /\ LineAt(m.bytes, p, n) /\ Line = Piece(m.bytes, p, n)
      /\ \A k \in Nat : LineAt(m.bytes, p, k) => k = n
      /\ n \in 0..Len(m.bytes)
  <2>1. LineLen(Rest) # -1
    BY <1>0
  <2> QED
    BY <1>1, <1>2, <2>1, LineFound
<1>a. Len(m.lines) \in Nat \ {0}
  BY <1>3, MessageParts
<1>6. /\ Len(m.lines) \in Nat \ {0} /\ CorrectLines(m)
      /\ m.wellFormed => Correct(m)
      /\ \A i \in 1..Len(m.lines) : m.lines[i] \in Nat
  BY <1>3, MessageParts
<1> HIDE DEF n
<1>7. ASSUME Len(m.lines) > 1
      PROVE  ValidRequestLine(Line) /\ m.lines[2] = n + 2
  <2> DEFINE k == m.lines[1 + 1] - m.lines[1] - 2
  <2>1. 1 \in 1..Len(m.lines) - 1
    BY <1>6, <1>7
  <2>2. k \in 1..MaxLine - 2 /\ LineAt(m.bytes, m.lines[1], k) /\ ValidRequestLine(Piece(m.bytes, m.lines[1], k))
    BY <2>1, <1>6 DEF CorrectLines
  <2>3. k \in Nat
    BY <2>2, MaxLineAssumption
  <2>4. k = n
    BY <1>4, <1>5, <2>2, <2>3
  <2>5. m.lines[1 + 1] \in Nat /\ 1 + 1 = 2
    BY <1>6, <1>7
  <2>6. m.lines[2] = k + 2
    BY <1>4, <2>5
  <2> HIDE DEF k
  <2> QED
    BY <1>4, <1>5, <2>2, <2>4, <2>6
<1>8. CASE ValidRequestLine(Line)
  <2>0. PICK q : q = [req EXCEPT !.state = "HEADERS"]
    OBVIOUS
  <2>1. Processed(n + 2, q) /\ answers' = answers
    BY <1>0, <1>8, <2>0, Zenon
  <2>2. Len(m.lines) > 1
    <3>1. ASSUME Len(m.lines) = 1 PROVE FALSE
      <4>1. n <= MaxLine /\ n # MaxLine
        BY <1>0, MaxLineAssumption
      <4>2. LineAt(m.bytes, m.lines[Len(m.lines)], n) /\ Line = Piece(m.bytes, m.lines[Len(m.lines)], n)
        BY <1>4, <1>5, <3>1
      <4>3. PICK piece : piece = Piece(m.bytes, m.lines[Len(m.lines)], n)
        OBVIOUS
      <4>4. n = MaxLine \/ ~ValidRequestLine(piece)
        BY <1>3, <1>5, <3>1, <4>1, <4>2, <4>3, LastLine
      <4> QED
        BY <1>8, <4>1, <4>2, <4>3, <4>4
    <3>2. PICK len : len = Len(m.lines)
      OBVIOUS
    <3>3. len \in Nat \ {0} /\ len # 1
      BY <1>a, <3>1, <3>2, Zenon
    <3>4. len > 1
      BY <3>3
    <3> QED
      BY <3>2, <3>4, Zenon
  <2>3. q = Req("HEADERS", <<>>, "none", 0, <<>>)
    <3>1. req = Req("LINE", <<>>, "none", 0, <<>>)
      BY <1>4, NewFields, Zenon DEF AtLine
    <3> QED
      <4>1. PICK c : c = req
        OBVIOUS
      <4>2. c = Req("LINE", <<>>, "none", 0, <<>>)
        BY <3>1, <4>1, Zenon
      <4>3. [c EXCEPT !.state = "HEADERS"] = Req("HEADERS", <<>>, "none", 0, <<>>)
        BY <4>2, StateSet
      <4> QED
        BY <2>0, <4>1, <4>3, Zenon
  <2>4. AtHeader(m, q, n + 2, 2)
    <3>1. 2 \in 2..Len(m.lines) /\ n + 2 = m.lines[2]
      BY <1>6, <1>7, <2>2
    <3>2. Headers(m, 2) = <<>>
      <4>1. 2 - 2 = 0 /\ SubSeq(m.headers, 0 + 1, 0) = <<>>
        BY SliceEmpty
      <4> QED
        BY <4>1 DEF Headers
    <3> QED
      BY <2>3, <3>1, <3>2 DEF AtHeader
  <2>5. n + 2 \in Nat /\ p + (n + 2) = n + 2
    BY <1>0, <1>4
  <2>6. At(m, q, p + (n + 2), r)
    <3>1. 2 \in 1..Len(m.lines)
      BY <1>6, <2>2
    <3> QED
      BY <2>4, <2>5, <3>1, Zenon DEF At
  <2>7. q.state # req.state /\ ~(q.state \in {"PAYLOAD", "CALLBACK"} /\ Expects(q))
    <3>1. q.state = "HEADERS"
      BY <2>3 DEF Req
    <3>2. req.state = "LINE"
      BY <1>0, Zenon
    <3> QED
      BY <3>1, <3>2
  <2> QED
    BY <1>1, <1>2, <1>5, <2>1, <2>6, <2>7, Advances, Zenon
<1>9. CASE ~ValidRequestLine(Line)
  <2>1. ~m.wellFormed
    BY <1>6, <1>7, <1>9 DEF Correct, CorrectHead
  <2> QED
    BY <1>0, <1>1, <1>2, <1>9, <2>1, GivesUp, Zenon
<1> QED
  BY <1>8, <1>9

-----------------------------------------------------------------------------
(* The headers.                                                            *)

\* A line has one first colon.
LEMMA OneColon ==
  ASSUME NEW line, NEW j \in Nat, NEW k \in Nat, HeaderColon(line, j), HeaderColon(line, k)
  PROVE  j = k
<1>1. /\ line[j] = ":" /\ line[k] = ":" /\ j \in 2..Len(line) - 1 /\ k \in 2..Len(line) - 1
      /\ \A i \in 1..j - 1 : line[i] # ":"
      /\ \A i \in 1..k - 1 : line[i] # ":"
  BY DEF HeaderColon, Separates
<1>2. j < k => j \in 1..k - 1
  BY <1>1
<1>3. k < j => k \in 1..j - 1
  BY <1>1
<1> QED
  BY <1>1, <1>2, <1>3

\* VmRESTProcessHeaders looks for a colon in all there is; it is in the line
\* or behind it.
LEMMA ColonFound ==
  ASSUME NEW s \in Seq(STRING), NEW n \in 1..Len(s),
         NEW k, k = Min({i \in DOMAIN s : s[i] = ":"})
  PROVE  /\ {i \in DOMAIN s : s[i] = ":"} # {} /\ Separates(k, n) => HeaderColon(SubSeq(s, 1, n), k)
         /\ \A j \in 1..n : HeaderColon(SubSeq(s, 1, n), j) =>
              {i \in DOMAIN s : s[i] = ":"} # {} /\ k = j /\ Separates(j, n)
<1> DEFINE colons == {i \in DOMAIN s : s[i] = ":"}
<1>0. DOMAIN s = 1..Len(s) /\ Len(s) \in Nat
  BY LenProperties
<1>1. colons \in SUBSET Nat
  BY <1>0
<1>2. colons # {} => k \in colons /\ \A i \in colons : k <= i
  BY <1>1, LeastNumber
<1>3. PICK line : line = SubSeq(s, 1, n)
  OBVIOUS
<1>4. Len(line) = n /\ \A i \in 1..n : line[i] = s[i]
  <2>1. 0 \in Nat /\ n \in 0..Len(s) /\ 0 + 1 = 1 /\ n - 0 = n /\ \A i \in 1..n : 0 + i = i
    BY <1>0
  <2>2. Len(SubSeq(s, 0 + 1, n)) = n - 0 /\ \A i \in 1..n - 0 : SubSeq(s, 0 + 1, n)[i] = s[0 + i]
    BY <2>1, SliceIs
  <2> QED
    BY <1>3, <2>1, <2>2
<1>5. ASSUME colons # {}, Separates(k, n) PROVE HeaderColon(line, k)
  <2>0. k \in 2..n - 1
    BY <1>5 DEF Separates
  <2>1. k \in 1..n /\ s[k] = ":"
    BY <1>2, <1>5, <2>0
  <2>2. \A j \in 1..k - 1 : s[j] # ":" /\ line[j] = s[j]
    <3>1. SUFFICES ASSUME NEW j \in 1..k - 1 PROVE s[j] # ":" /\ line[j] = s[j]
      OBVIOUS
    <3>2. j \in 1..n /\ j \in DOMAIN s /\ ~(k <= j)
      BY <1>0, <2>1
    <3> QED
      BY <1>2, <1>4, <1>5, <2>0, <3>2
  <2> QED
    BY <1>4, <1>5, <2>1, <2>2 DEF HeaderColon
<1>6. ASSUME NEW j \in 1..n, HeaderColon(line, j)
      PROVE  colons # {} /\ k = j /\ Separates(j, n)
  <2>0. Separates(j, n) /\ line[j] = ":" /\ \A i \in 1..j - 1 : line[i] # ":"
    BY <1>4, <1>6 DEF HeaderColon
  <2>1. j \in 2..n - 1 /\ s[j] = ":" /\ \A i \in 1..j - 1 : line[i] # ":"
    BY <1>4, <1>6, <2>0 DEF Separates
  <2>2. j \in colons
    BY <1>0, <2>1
  <2>3. k \in colons /\ k <= j
    BY <1>2, <2>2
  <2>4. k \in Nat /\ k \in 1..Len(s) /\ s[k] = ":"
    BY <1>0, <2>3
  <2>5. ASSUME k < j PROVE FALSE
    <3>1. k \in 1..j - 1 /\ k \in 1..n
      BY <2>1, <2>4, <2>5
    <3> QED
      BY <1>4, <2>1, <2>4, <3>1
  <2>6. k = j
    BY <2>1, <2>3, <2>4, <2>5
  <2> QED
    BY <2>0, <2>2, <2>6
<1> HIDE DEF colons
<1> QED
  BY <1>3, <1>5, <1>6 DEF colons

\* The header that the next correct line holds.
LEMMA NextHeader ==
  ASSUME NEW m, IsMessage(m), NEW i \in 2..Len(m.lines) - 1, NEW n \in Nat, LineAt(m.bytes, m.lines[i], n)
  PROVE  /\ IsHeader(Piece(m.bytes, m.lines[i], n), m.headers[i - 1]) /\ n \in 1..MaxLine - 2
         /\ m.lines[i + 1] = m.lines[i] + (n + 2)
         /\ m.headers[i - 1] \in [name : Seq(STRING), value : Seq(STRING)]
         /\ \A h \in [name : Seq(STRING), value : Seq(STRING)] :
              h = m.headers[i - 1] => Append(Headers(m, i), h) = Headers(m, i + 1)
<1>1. /\ Len(m.lines) \in Nat \ {0} /\ CorrectLines(m)
      /\ \A j \in 1..Len(m.lines) : m.lines[j] \in Nat
      /\ m.headers \in Seq([name : Seq(STRING), value : Seq(STRING)])
  BY MessageParts
<1>2. i \in Nat /\ i \in 1..Len(m.lines) - 1 /\ i \in 1..Len(m.lines) /\ i + 1 \in 1..Len(m.lines) /\ i # 1
      /\ Len(m.lines) # 1
  BY <1>1
<1>3. Len(m.headers) = Len(m.lines) - 2
  <2>1. Len(m.headers) = IF Len(m.lines) = 1 THEN 0 ELSE Len(m.lines) - 2
    BY MessageParts
  <2> QED
    BY <1>2, <2>1
<1>4. PICK k : k = m.lines[i + 1] - m.lines[i] - 2
  OBVIOUS
<1>5. /\ k \in 1..MaxLine - 2 /\ LineAt(m.bytes, m.lines[i], k)
      /\ IsHeader(Piece(m.bytes, m.lines[i], k), m.headers[i - 1])
  BY <1>1, <1>2, <1>4, Zenon DEF CorrectLines
<1>6. k \in Nat /\ m.lines[i] \in Nat /\ m.lines[i + 1] \in Nat
  BY <1>1, <1>2, <1>5, MaxLineAssumption
<1>7. k = n
  BY <1>5, <1>6, OneLine
<1>8. m.lines[i + 1] = m.lines[i] + (n + 2)
  BY <1>4, <1>6, <1>7
<1>9. i - 1 \in 1..Len(m.headers) /\ i - 2 \in 0..Len(m.headers) /\ i - 2 \in Nat
  <2>1. PICK len : len = Len(m.lines)
    OBVIOUS
  <2>2. Len(m.lines) \in Nat
    BY <1>1
  <2>3. len \in Nat /\ i \in 2..len - 1
    BY <2>1, <2>2
  <2>4. i - 1 \in 1..len - 2 /\ i - 2 \in 0..len - 2 /\ i - 2 \in Nat
    BY <2>3
  <2> QED
    BY <1>3, <2>1, <2>4, Zenon
<1>10. m.headers[i - 1] \in [name : Seq(STRING), value : Seq(STRING)]
  BY <1>1, <1>9, ElementOfSeq
<1>11. ASSUME NEW h \in [name : Seq(STRING), value : Seq(STRING)], h = m.headers[i - 1]
       PROVE  Append(Headers(m, i), h) = Headers(m, i + 1)
  <2>1. PICK hs : hs = m.headers
    OBVIOUS
  <2>2. hs \in Seq([name : Seq(STRING), value : Seq(STRING)]) /\ hs[i - 1] = h /\ i - 1 \in 1..Len(hs)
    BY <1>1, <1>9, <1>11, <2>1
  <2>3. SubSeq(hs, 1, i - 1) = SubSeq(hs, 1, i - 1 - 1) \o <<hs[i - 1]>>
    <3>1. 1 \in 1..Len(hs) /\ i - 1 \in 1..Len(hs)
      BY <2>2
    <3> QED
      BY <2>2, <3>1, SubSeqRecursiveSecond
  <2>4. i - 1 - 1 = i - 2 /\ i + 1 - 2 = i - 1
    BY <1>2
  <2>5. SubSeq(hs, 1, i - 2) \in Seq([name : Seq(STRING), value : Seq(STRING)])
    <3>1. 0 \in Nat /\ i - 2 \in 0..Len(hs) /\ 0 + 1 = 1
      BY <1>9, <2>1
    <3> QED
      BY <2>2, <3>1, SliceIs
  <2>6. Append(SubSeq(hs, 1, i - 2), h) = SubSeq(hs, 1, i - 2) \o <<h>>
    BY <2>5, AppendIsConcat
  <2> QED
    BY <2>1, <2>2, <2>3, <2>4, <2>6 DEF Headers
<1> QED
  BY <1>5, <1>7, <1>8, <1>10, <1>11

\* The parser's line and the colon it has found.
LEMMA HeaderRead ==
  ASSUME IInv, ProcessHeader
  PROVE  /\ pc = "loop" /\ req.state = "HEADERS"
         /\ LineLen(Rest) \in 1..MaxLine
         /\ \/ Fails("refused") /\ \A j \in 1..LineLen(Rest) : ~HeaderColon(Line, j)
            \/ \E h : /\ Processed(LineLen(Rest) + 2, [req EXCEPT !.headers = Append(@, h)])
                      /\ answers' = answers
                      /\ \E k \in 1..LineLen(Rest) :
                           /\ HeaderColon(Line, k)
                           /\ h = [name |-> SubSeq(Line, 1, k - 1), value |-> SubSeq(Line, k + 1, Len(Line))]
<1>1. pc = "loop" /\ req.state = "HEADERS" /\ LineLen(Rest) \in 1..MaxLine
  BY DEF ProcessHeader, In
<1>2. PICK s, n : s = Rest /\ n = LineLen(Rest)
  OBVIOUS
<1>3. PICK k : k = Min({i \in DOMAIN s : s[i] = ":"})
  OBVIOUS
<1>4. IF {i \in DOMAIN s : s[i] = ":"} # {} /\ Separates(k, n)
      THEN /\ Processed(n + 2, [req EXCEPT !.headers = Append(@, [name  |-> SubSeq(Line, 1, k - 1),
                                                                  value |-> SubSeq(Line, k + 1, Len(Line))])])
           /\ answers' = answers
      ELSE Fails("refused")
  BY <1>2, <1>3, Zenon DEF ProcessHeader
<1>5. s \in Seq(STRING) /\ n \in 1..Len(s) /\ Line = SubSeq(s, 1, n) /\ n \in Nat
  <2>1. PICK p \in Nat, r \in Nat : Reading(p, r)
    BY <1>1, InLoop
  <2>2. TypeInv
    BY DEF IInv
  <2>3. Rest \in Seq(STRING) /\ Len(Rest) = r - p /\ p <= r
    BY <2>1, <2>2, ReadingIs
  <2>4. n \in Nat /\ n + 2 \in 0..r - p
    <3>1. LineLen(Rest) # -1
      BY <1>1
    <3> QED
      BY <1>2, <2>1, <2>2, <3>1, LineFound
  <2>5. Len(Rest) \in Nat /\ n # 0
    BY <1>1, <1>2, <2>3
  <2>6. n \in 1..Len(Rest)
    BY <2>3, <2>4, <2>5
  <2> QED
    BY <1>2, <2>3, <2>4, <2>6 DEF Line
<1>6. /\ {i \in DOMAIN s : s[i] = ":"} # {} /\ Separates(k, n) => HeaderColon(SubSeq(s, 1, n), k)
      /\ \A j \in 1..n : HeaderColon(SubSeq(s, 1, n), j) =>
           {i \in DOMAIN s : s[i] = ":"} # {} /\ k = j /\ Separates(j, n)
  BY <1>3, <1>5, ColonFound
<1>7. CASE {i \in DOMAIN s : s[i] = ":"} # {} /\ Separates(k, n)
  <2>1. k \in 1..n /\ HeaderColon(Line, k)
    BY <1>5, <1>6, <1>7 DEF Separates
  <2>2. PICK h : h = [name |-> SubSeq(Line, 1, k - 1), value |-> SubSeq(Line, k + 1, Len(Line))]
    OBVIOUS
  <2>3. Processed(n + 2, [req EXCEPT !.headers = Append(@, h)]) /\ answers' = answers
    BY <1>4, <1>7, <2>2, Zenon
  <2> QED
    BY <1>1, <1>2, <2>1, <2>2, <2>3, Zenon
<1>8. CASE ~({i \in DOMAIN s : s[i] = ":"} # {} /\ Separates(k, n))
  <2>1. Fails("refused")
    BY <1>4, <1>8, Zenon
  <2>2. \A j \in 1..n : ~HeaderColon(Line, j)
    BY <1>5, <1>6, <1>8, Zenon
  <2> QED
    BY <1>1, <1>2, <2>1, <2>2, Zenon
<1> QED
  BY <1>7, <1>8

\* A header.
LEMMA HeaderKeeps ==
  ASSUME IInv, ProcessHeader
  PROVE  IInv'
<1>0. /\ pc = "loop" /\ req.state = "HEADERS"
      /\ LineLen(Rest) \in 1..MaxLine
      /\ \/ Fails("refused") /\ \A j \in 1..LineLen(Rest) : ~HeaderColon(Line, j)
         \/ \E h : /\ Processed(LineLen(Rest) + 2, [req EXCEPT !.headers = Append(@, h)])
                   /\ answers' = answers
                   /\ \E k \in 1..LineLen(Rest) :
                        /\ HeaderColon(Line, k)
                        /\ h = [name |-> SubSeq(Line, 1, k - 1), value |-> SubSeq(Line, k + 1, Len(Line))]
  BY HeaderRead, Zenon
<1>1. TypeInv /\ AnswersInv
  BY <1>0, InLoop, Zenon
<1>2. PICK p \in Nat, r \in Nat : Reading(p, r)
  BY <1>0, InLoop, Zenon
<1>3. PICK m, n : m = Message(Current) /\ n = LineLen(Rest)
  OBVIOUS
<1>4. IsMessage(m) /\ Len(m.lines) \in Nat \ {0} /\ m.bytes \in Seq(STRING) /\ Len(m.bytes) \in Nat
  <2>1. IsMessage(m)
    BY <1>1, <1>2, <1>3, ReadingIs, Zenon
  <2> QED
    BY <2>1, MessageParts, Zenon
<1>5. PICK i \in 1..Len(m.lines) : AtHeader(m, req, p, i)
  BY <1>0, <1>1, <1>2, <1>3, AtALine, Zenon
<1>6. p = m.lines[i] /\ i \in 2..Len(m.lines) /\ req = Req("HEADERS", Headers(m, i), "none", 0, <<>>)
  BY <1>5, Zenon DEF AtHeader
<1>7. n \in 1..MaxLine /\ n \in Nat /\ n > 0 /\ n <= MaxLine
  <2>1. n \in 1..MaxLine
    BY <1>0, <1>3, Zenon
  <2> QED
    BY <2>1, MaxLineAssumption
<1>8. /\ n + 2 \in 0..r - p /\ LineAt(m.bytes, p, n) /\ Line = Piece(m.bytes, p, n)
      /\ \A k \in Nat : LineAt(m.bytes, p, k) => k = n
      /\ n \in 0..Len(m.bytes)
  <2>1. LineLen(Rest) # -1
    BY <1>3, <1>7
  <2> QED
    BY <1>1, <1>2, <1>3, <2>1, LineFound, Zenon
<1>9. m.wellFormed => i < Len(m.lines)
  <2>1. ASSUME m.wellFormed, i = Len(m.lines) PROVE FALSE
    <3>1. LineAt(m.bytes, p, 0)
      BY <1>4, <1>6, <2>1, LineIsThere, Zenon
    <3>2. 0 = n
      BY <1>8, <3>1
    <3> QED
      BY <1>7, <3>2
  <2>2. PICK len : len = Len(m.lines)
    OBVIOUS
  <2>3. len \in Nat /\ i \in 2..len
    BY <1>4, <1>6, <2>2
  <2>4. i < len \/ i = len
    BY <2>3
  <2> QED
    BY <2>1, <2>2, <2>4, Zenon
<1>10. ASSUME i < Len(m.lines) PROVE i \in 2..Len(m.lines) - 1
  <2>1. PICK len : len = Len(m.lines)
    OBVIOUS
  <2>2. len \in Nat /\ i \in 2..len /\ i < len
    BY <1>4, <1>6, <1>10, <2>1
  <2>3. i \in 2..len - 1
    BY <2>2
  <2> QED
    BY <2>1, <2>3
<1>11. CASE Fails("refused") /\ \A j \in 1..LineLen(Rest) : ~HeaderColon(Line, j)
  <2>1. ASSUME m.wellFormed PROVE FALSE
    <3>1. IsHeader(Line, m.headers[i - 1])
      BY <1>4, <1>6, <1>7, <1>8, <1>9, <1>10, <2>1, NextHeader
    <3>2. PICK k \in DOMAIN Line : HeaderColon(Line, k)
      BY <3>1, Zenon DEF IsHeader
    <3>3. Len(Line) = n
      <4>1. PICK b, e : b = m.bytes /\ e = p + n
        OBVIOUS
      <4>2. p + n + 2 <= Len(m.bytes)
        BY <1>8 DEF LineAt
      <4>3. b \in Seq(STRING) /\ Len(b) \in Nat /\ p + n + 2 <= Len(b)
        BY <1>4, <4>1, <4>2, Zenon
      <4>4. p \in Nat /\ e \in p..Len(b) /\ e - p = n
        BY <1>2, <1>7, <4>1, <4>3
      <4>5. Len(SubSeq(b, p + 1, e)) = e - p
        BY <4>3, <4>4, SliceIs, Zenon
      <4>6. Line = SubSeq(b, p + 1, e)
        BY <1>8, <4>1, Zenon DEF Piece
      <4> QED
        BY <4>4, <4>5, <4>6, Zenon
    <3>4. k \in 2..n - 1
      BY <3>2, <3>3 DEF HeaderColon, Separates
    <3>5. k \in 1..n
      BY <1>7, <3>4
    <3> QED
      BY <1>3, <1>11, <3>2, <3>5, Zenon
  <2> QED
    BY <1>1, <1>2, <1>3, <1>11, <2>1, GivesUp, Zenon
<1>12. CASE \E h : /\ Processed(LineLen(Rest) + 2, [req EXCEPT !.headers = Append(@, h)])
                   /\ answers' = answers
                   /\ \E k \in 1..LineLen(Rest) :
                        /\ HeaderColon(Line, k)
                        /\ h = [name |-> SubSeq(Line, 1, k - 1), value |-> SubSeq(Line, k + 1, Len(Line))]
  <2>1. PICK h : /\ Processed(LineLen(Rest) + 2, [req EXCEPT !.headers = Append(@, h)])
                 /\ answers' = answers
                 /\ \E k \in 1..LineLen(Rest) :
                      /\ HeaderColon(Line, k)
                      /\ h = [name |-> SubSeq(Line, 1, k - 1), value |-> SubSeq(Line, k + 1, Len(Line))]
    BY <1>12, Zenon
  <2>2. PICK k \in 1..n :
          HeaderColon(Line, k) /\ h = [name |-> SubSeq(Line, 1, k - 1), value |-> SubSeq(Line, k + 1, Len(Line))]
    BY <1>3, <2>1, Zenon
  <2>3. i < Len(m.lines)
    <3>1. ASSUME i = Len(m.lines) PROVE FALSE
      <4>1. Len(m.lines) > 1
        BY <1>4, <1>6, <3>1
      <4>2. LineAt(m.bytes, m.lines[Len(m.lines)], n) /\ Line = Piece(m.bytes, m.lines[Len(m.lines)], n)
        BY <1>6, <1>8, <3>1, Zenon
      <4>3. \A j \in 1..n : ~HeaderColon(Piece(m.bytes, m.lines[Len(m.lines)], n), j)
        BY <1>4, <1>7, <1>8, <4>1, <4>2, LastLine, Zenon
      <4> QED
        BY <2>2, <4>2, <4>3, Zenon
    <3>2. PICK len : len = Len(m.lines)
      OBVIOUS
    <3>3. len \in Nat /\ i \in 2..len
      BY <1>4, <1>6, <3>2
    <3>4. i < len \/ i = len
      BY <3>3
    <3> QED
      BY <3>1, <3>2, <3>4, Zenon
  <2>4. i \in 2..Len(m.lines) - 1
    BY <1>10, <2>3
  <2>5. /\ IsHeader(Line, m.headers[i - 1]) /\ m.lines[i + 1] = p + (n + 2)
        /\ m.headers[i - 1] \in [name : Seq(STRING), value : Seq(STRING)]
        /\ \A g \in [name : Seq(STRING), value : Seq(STRING)] :
             g = m.headers[i - 1] => Append(Headers(m, i), g) = Headers(m, i + 1)
    BY <1>4, <1>6, <1>7, <1>8, <2>4, NextHeader, Zenon
  <2>6. PICK g : g = m.headers[i - 1]
    OBVIOUS
  <2>7. h = g
    <3>1. PICK j \in DOMAIN Line : /\ HeaderColon(Line, j) /\ g.name = SubSeq(Line, 1, j - 1)
                                   /\ g.value = SubSeq(Line, j + 1, Len(Line))
      BY <2>5, <2>6, Zenon DEF IsHeader
    <3>2. j \in Nat
      BY <3>1 DEF HeaderColon, Separates
    <3>3. j = k
      BY <2>2, <3>1, <3>2, OneColon
    <3>4. g = [name |-> g.name, value |-> g.value]
      BY <2>5, <2>6
    <3> QED
      BY <2>2, <3>1, <3>3, <3>4, Zenon
  <2>8. Append(Headers(m, i), h) = Headers(m, i + 1)
    BY <2>5, <2>6, <2>7, Zenon
  <2>9. PICK q : q = [req EXCEPT !.headers = Append(@, h)]
    OBVIOUS
  <2>10. q = Req("HEADERS", Headers(m, i + 1), "none", 0, <<>>)
    <3>1. PICK c : c = req
      OBVIOUS
    <3>2. c = Req("HEADERS", Headers(m, i), "none", 0, <<>>)
      BY <1>6, <3>1, Zenon
    <3>3. c.headers = Headers(m, i)
      BY <3>2 DEF Req
    <3>4. PICK hs : hs = Headers(m, i + 1)
      OBVIOUS
    <3>5. [c EXCEPT !.headers = hs] = Req("HEADERS", hs, "none", 0, <<>>)
      BY <3>2, HeadersSet
    <3> QED
      BY <2>8, <2>9, <3>1, <3>3, <3>4, <3>5, Zenon
  <2>11. AtHeader(m, q, p + (n + 2), i + 1)
    <3>1. i + 1 \in 2..Len(m.lines)
      BY <1>4, <2>4
    <3> QED
      BY <2>5, <2>10, <3>1, Zenon DEF AtHeader
  <2>12. At(m, q, p + (n + 2), r)
    <3>1. i + 1 \in 1..Len(m.lines)
      BY <1>4, <2>4
    <3> QED
      BY <2>11, <3>1, Zenon DEF At
  <2>13. ~(q.state \in {"PAYLOAD", "CALLBACK"} /\ Expects(q)) /\ n + 2 # 0
    <3>1. q.state = "HEADERS"
      BY <2>10 DEF Req
    <3> QED
      BY <1>7, <3>1
  <2>14. Processed(n + 2, q)
    BY <1>3, <2>1, <2>9, Zenon
  <2> QED
    BY <1>1, <1>2, <1>3, <1>8, <2>1, <2>12, <2>13, <2>14, Advances, Zenon
<1> QED
  BY <1>0, <1>11, <1>12, Zenon

-----------------------------------------------------------------------------
(* The end of the head.                                                    *)

\* The kinds of a payload.
LEMMA PayloadTypes ==
  ASSUME NEW r
  PROVE  /\ PayloadType(r).type \in {"length", "chunked", "none"}
         /\ PayloadType(r).type = "chunked" => PayloadType(r).remaining = 0
<1>1. PICK length, coding : length = GetHttpHeader(r, "Content-Length") /\ coding = GetHttpHeader(r, "Transfer-Encoding")
  OBVIOUS
<1>2. PICK t : t = PayloadType(r)
  OBVIOUS
<1>3. t = CASE length = <<>> /\ coding = <<>> -> [type |-> "length", remaining |-> 0]
            [] length # <<>> /\ coding = <<>> -> [type |-> "length", remaining |-> Number(length, 10)]
            [] length = <<>> /\ coding = <<"chunked">> -> [type |-> "chunked", remaining |-> 0]
            [] OTHER -> [type |-> "none", remaining |-> 0]
  BY <1>1, <1>2, Zenon DEF PayloadType
<1>4. \/ \E n : t = [type |-> "length", remaining |-> n]
      \/ t = [type |-> "chunked", remaining |-> 0]
      \/ t = [type |-> "none", remaining |-> 0]
  <2>1. CASE length = <<>> /\ coding = <<>>
    BY <1>3, <2>1, Zenon
  <2>2. CASE length # <<>> /\ coding = <<>>
    BY <1>3, <2>2, Zenon
  <2>3. CASE length = <<>> /\ coding = <<"chunked">> /\ coding # <<>>
    BY <1>3, <2>3, Zenon
  <2>4. CASE coding # <<>> /\ ~(length = <<>> /\ coding = <<"chunked">>)
    BY <1>3, <2>4, Zenon
  <2> QED
    BY <2>1, <2>2, <2>3, <2>4, Zenon
<1>5. t.type \in {"length", "chunked", "none"} /\ (t.type = "chunked" => t.remaining = 0)
  BY <1>4
<1> QED
  BY <1>2, <1>5, Zenon

\* The headers a parser has read decide about the payload.
LEMMA SameHeaders ==
  ASSUME NEW q, NEW m, q.headers = m.headers
  PROVE  PayloadType(q) = PayloadType(m) /\ Expects(q) = Expects(m)
<1>1. \A name : GetHttpHeader(q, name) = GetHttpHeader(m, name)
  BY Zenon DEF GetHttpHeader
<1> QED
  BY <1>1, Zenon DEF PayloadType, Expects

\* The parser is at the end of the head, with all the headers.
LEMMA AtHeadersEnd ==
  ASSUME TypeInv, NEW p \in Nat, NEW r \in Nat, Reading(p, r), req.state = "HEADERS", LineLen(Rest) = 0,
         NEW m, m = Message(Current)
  PROVE  /\ IsMessage(m) /\ p = m.lines[Len(m.lines)] /\ Len(m.lines) > 1
         /\ LineAt(m.bytes, p, 0) /\ 2 \in 0..r - p
         /\ req = Req("HEADERS", m.headers, "none", 0, <<>>)
<1>1. IsMessage(m) /\ Len(m.lines) \in Nat \ {0}
  BY ReadingIs, MessageParts
<1>2. PICK i \in 1..Len(m.lines) : AtHeader(m, req, p, i)
  BY AtALine
<1>3. p = m.lines[i] /\ i \in 2..Len(m.lines) /\ req = Req("HEADERS", Headers(m, i), "none", 0, <<>>)
  BY <1>2, Zenon DEF AtHeader
<1>4. LineAt(m.bytes, p, 0) /\ 0 + 2 \in 0..r - p
  <2>1. LineLen(Rest) # -1
    OBVIOUS
  <2> QED
    BY <2>1, LineFound, Zenon
<1>5. i = Len(m.lines)
  <2>1. ASSUME i \in 2..Len(m.lines) - 1 PROVE FALSE
    <3>1. 0 \in Nat
      OBVIOUS
    <3>2. 0 \in 1..MaxLine - 2
      BY <1>1, <1>3, <1>4, <2>1, <3>1, NextHeader, Zenon
    <3> QED
      BY <3>2, MaxLineAssumption
  <2>2. PICK len : len = Len(m.lines)
    OBVIOUS
  <2>3. len \in Nat /\ i \in 2..len
    BY <1>1, <1>3, <2>2
  <2>4. i \in 2..len - 1 \/ i = len
    BY <2>3
  <2> QED
    BY <2>1, <2>2, <2>4, Zenon
<1>6. Len(m.lines) > 1
  BY <1>1, <1>3
<1>7. Headers(m, i) = m.headers
  <2>1. m.headers \in Seq([name : Seq(STRING), value : Seq(STRING)])
        /\ Len(m.headers) = IF Len(m.lines) = 1 THEN 0 ELSE Len(m.lines) - 2
    BY <1>1, MessageParts, Zenon
  <2>2. Len(m.headers) = i - 2
    <3>1. PICK len, n : len = Len(m.lines) /\ n = Len(m.headers)
      OBVIOUS
    <3>2. len > 1 /\ i = len /\ n = IF len = 1 THEN 0 ELSE len - 2
      BY <1>5, <1>6, <2>1, <3>1, Zenon
    <3>3. len \in Nat
      BY <1>1, <3>1
    <3>4. n = i - 2
      BY <3>2, <3>3
    <3> QED
      BY <3>1, <3>4, Zenon
  <2>3. SubSeq(m.headers, 1, Len(m.headers)) = m.headers
    BY <2>1, SubSeqFull, Zenon
  <2> QED
    BY <2>2, <2>3, Zenon DEF Headers
<1>8. 2 \in 0..r - p
  BY <1>4
<1> QED
  BY <1>1, <1>3, <1>4, <1>5, <1>6, <1>7, <1>8, Zenon

\* The payload begins where the head ends.
LEMMA PayloadBegins ==
  ASSUME NEW m, IsMessage(m), NEW p \in Nat, p = m.lines[Len(m.lines)], Len(m.lines) > 1, LineAt(m.bytes, p, 0),
         PayloadType(m).type # "none", NEW r,
         NEW q, q = Req("PAYLOAD", m.headers, PayloadType(m).type, PayloadType(m).remaining, <<>>)
  PROVE  At(m, q, p + 2, r)
<1>1. /\ m.wellFormed \in BOOLEAN /\ (m.wellFormed => Correct(m))
      /\ Len(m.body) \in Nat /\ Len(m.marks) \in Nat /\ Len(m.lines) \in Nat /\ Len(m.bytes) \in Nat
  BY MessageParts, LenProperties, Zenon
<1>2. CorrectHead(m)
  BY DEF CorrectHead
<1>3. Chunked(m) \/ m.wellFormed
  <2>1. 0 \in 0..Len(m.bytes) /\ 0 <= MaxLine
    BY <1>1, MaxLineAssumption
  <2>2. 0 = 0
    OBVIOUS
  <2> QED
    BY <2>1, <2>2, LastLine, Zenon
<1>4. p + 2 = HeadEnd(m)
  BY DEF HeadEnd
<1>5. \A s : SubSeq(s, 1, 0) = <<>>
  <2>1. 0 + 1 = 1 /\ 0 \in Nat
    OBVIOUS
  <2> QED
    BY <2>1, SliceEmpty
<1>6. CASE PayloadType(m).type = "length"
  <2>1. ~Chunked(m)
    BY <1>6 DEF Chunked
  <2>2. m.wellFormed /\ PayloadType(m).remaining = Len(m.body)
    BY <1>1, <1>3, <2>1 DEF Correct
  <2>3. 0 \in 0..Len(m.body) /\ Len(m.body) - 0 = Len(m.body) /\ HeadEnd(m) + 0 = HeadEnd(m)
    <3>1. HeadEnd(m) \in Nat
      BY <1>4
    <3> QED
      BY <1>1, <3>1
  <2>4. q = Req("PAYLOAD", m.headers, "length", Len(m.body) - 0, SubSeq(m.body, 1, 0))
    BY <1>5, <1>6, <2>2, <2>3, Zenon
  <2>5. AtBody(m, q, p + 2, 0)
    BY <1>2, <1>4, <1>6, <2>2, <2>3, <2>4, Zenon DEF AtBody, InPayload
  <2> QED
    BY <2>3, <2>5, Zenon DEF At
<1>7. CASE PayloadType(m).type = "chunked"
  <2>1. Chunked(m)
    BY <1>1, <1>3, <1>7 DEF Correct
  <2>2. m.marks # <<>> /\ m.marks[1].at = HeadEnd(m) /\ m.marks[1].got = 0
    BY <2>1, Zenon DEF Chunked
  <2>3. 1 \in 1..Len(m.marks)
    <3>1. m.marks \in Seq([at : Nat, skip : Nat, size : Nat, got : Nat])
      BY MessageParts, Zenon
    <3>2. Len(m.marks) # 0
      BY <2>2, <3>1, EmptySeq, Zenon
    <3> QED
      BY <1>1, <3>2
  <2>4. PayloadType(m).remaining = 0
    BY <1>7, PayloadTypes, Zenon
  <2>5. AtMark(m, q, p + 2, 1)
    BY <1>2, <1>4, <1>5, <1>7, <2>2, <2>3, <2>4, Zenon DEF AtMark, InPayload
  <2> QED
    BY <2>3, <2>5, Zenon DEF At
<1> QED
  BY <1>6, <1>7, PayloadTypes, Zenon

\* The end of the headers: what the payload is, and the answer to a request
\* that expects one before its body.
LEMMA HeadersEndKeeps ==
  ASSUME IInv, ProcessHeadersEnd
  PROVE  IInv'
<1>1. PICK t, m : t = PayloadType(req) /\ m = Message(Current)
  OBVIOUS
<1>2. /\ pc = "loop" /\ req.state = "HEADERS" /\ LineLen(Rest) = 0
      /\ \/ t.type = "none" /\ Fails("refused")
         \/ /\ t.type # "none"
            /\ \/ /\ Processed(2, [req EXCEPT !.state = "PAYLOAD", !.type = t.type, !.remaining = t.remaining])
                  /\ IF Expects(req) THEN Answer("continue", <<>>) ELSE answers' = answers
               \/ Expects(req) /\ Fails("failed")
  BY <1>1, Zenon DEF ProcessHeadersEnd, In
<1>3. TypeInv /\ AnswersInv
  BY <1>2, InLoop, Zenon
<1>4. PICK p \in Nat, r \in Nat : Reading(p, r)
  BY <1>2, InLoop, Zenon
<1>5. /\ IsMessage(m) /\ p = m.lines[Len(m.lines)] /\ Len(m.lines) > 1
      /\ LineAt(m.bytes, p, 0) /\ 2 \in 0..r - p
      /\ req = Req("HEADERS", m.headers, "none", 0, <<>>)
  BY <1>1, <1>2, <1>3, <1>4, AtHeadersEnd, Zenon
<1>6. t = PayloadType(m)
  <2>1. PICK c : c = req
    OBVIOUS
  <2>2. c.headers = m.headers
    BY <1>5, <2>1 DEF Req
  <2> QED
    BY <1>1, <2>1, <2>2, SameHeaders, Zenon
<1>7. CASE t.type = "none" /\ Fails("refused")
  <2>1. ~m.wellFormed
    <3>1. m.wellFormed => Correct(m)
      BY <1>5, MessageParts, Zenon
    <3> QED
      BY <1>6, <1>7, <3>1, Zenon DEF Correct, CorrectHead
  <2> QED
    BY <1>1, <1>3, <1>4, <1>7, <2>1, GivesUp, Zenon
<1>8. CASE Fails("failed")
  <2>1. "failed" # "refused"
    OBVIOUS
  <2> QED
    BY <1>1, <1>3, <1>4, <1>8, <2>1, GivesUp, Zenon
<1>9. CASE /\ t.type # "none"
           /\ Processed(2, [req EXCEPT !.state = "PAYLOAD", !.type = t.type, !.remaining = t.remaining])
           /\ IF Expects(req) THEN Answer("continue", <<>>) ELSE answers' = answers
  <2>1. PICK q : q = [req EXCEPT !.state = "PAYLOAD", !.type = t.type, !.remaining = t.remaining]
    OBVIOUS
  <2>2. q = Req("PAYLOAD", m.headers, t.type, t.remaining, <<>>)
    <3>1. PICK c : c = req
      OBVIOUS
    <3>2. PICK hs, k, n : hs = m.headers /\ k = t.type /\ n = t.remaining
      OBVIOUS
    <3>3. PICK u : u = [c EXCEPT !.state = "PAYLOAD"]
      OBVIOUS
    <3>4. PICK v : v = [u EXCEPT !.type = k]
      OBVIOUS
    <3>5. c = Req("HEADERS", hs, "none", 0, <<>>)
      BY <1>5, <3>1, <3>2, Zenon
    <3>6. u = Req("PAYLOAD", hs, "none", 0, <<>>)
      BY <3>3, <3>5 DEF Req
    <3>7. v = Req("PAYLOAD", hs, k, 0, <<>>)
      BY <3>4, <3>6 DEF Req
    <3>8. [v EXCEPT !.remaining = n] = Req("PAYLOAD", hs, k, n, <<>>)
      BY <3>7 DEF Req
    <3> QED
      BY <2>1, <3>1, <3>2, <3>3, <3>4, <3>8, Zenon
  <2>3. At(m, q, p + 2, r)
    BY <1>5, <1>6, <1>9, <2>2, PayloadBegins, Zenon
  <2>4. Processed(2, q)
    BY <1>9, <2>1, Zenon
  <2>5. answers' = answers \/ Answer("continue", <<>>)
    BY <1>9, Zenon
  <2>6. q.headers = req.headers /\ q.state = "PAYLOAD"
    <3>1. PICK c : c = req
      OBVIOUS
    <3>2. c = Req("HEADERS", m.headers, "none", 0, <<>>)
      BY <1>5, <3>1, Zenon
    <3>3. q.headers = c.headers /\ q.state = "PAYLOAD"
      BY <2>2, <3>2 DEF Req
    <3> QED
      BY <3>1, <3>3, Zenon
  <2>7. ASSUME Expects(q) PROVE AnswersTo(Current, {"continue"})' # {}
    <3>1. Expects(req)
      BY <2>6, <2>7, SameHeaders, Zenon
    <3>2. Answer("continue", <<>>)
      BY <1>9, <3>1, Zenon
    <3>3. asked # <<>> /\ asked' = asked
      BY <1>3, <1>4, <2>4, ReadingIs, Zenon DEF Processed, clientVars
    <3>4. "continue" \in Kinds
      BY DEF Kinds
    <3> QED
      BY <1>3, <3>2, <3>3, <3>4, NoBytes, AnswersAfter, Zenon
  <2>8. ~(2 = 0)
    OBVIOUS
  <2> QED
    BY <1>1, <1>3, <1>4, <1>5, <2>3, <2>4, <2>5, <2>7, <2>8, Advances, Zenon
<1> QED
  BY <1>2, <1>7, <1>8, <1>9, Zenon

-----------------------------------------------------------------------------
(* A body, and what is copied of it.                                       *)

\* Bytes of a message that are bytes of its body.
Holds(b, e, c, g, size) ==
  /\ b \in Seq(STRING) /\ c \in Seq(STRING) /\ e \in Nat /\ g \in Nat /\ size \in Nat
  /\ e + size <= Len(b) /\ g + size <= Len(c) /\ Piece(b, e, size) = Piece(c, g, size)

\* The next n bytes of the body are the next bytes of the message.
Continues(b, e, c, g, j, n) == SubSeq(c, 1, g + j) \o Piece(b, e + j, n) = SubSeq(c, 1, g + j + n)

\* What is copied is the next piece of the body.
LEMMA BodyGoesOn ==
  ASSUME NEW b, NEW e, NEW c, NEW g, NEW size, Holds(b, e, c, g, size),
         NEW j \in Nat, NEW n \in Nat, j + n <= size
  PROVE  Continues(b, e, c, g, j, n)
<1>0. /\ b \in Seq(STRING) /\ c \in Seq(STRING) /\ e \in Nat /\ g \in Nat /\ size \in Nat
      /\ e + size <= Len(b) /\ g + size <= Len(c) /\ Piece(b, e, size) = Piece(c, g, size)
  BY Zenon DEF Holds
<1>1. Piece(b, e + j, n) = Piece(c, g + j, n)
  <2>1. ASSUME NEW d \in Seq(STRING), NEW f \in Nat, f + size <= Len(d)
        PROVE  SubSeq(SubSeq(d, f + 1, f + size), j + 1, j + n) = Piece(d, f + j, n)
    <3>1. PICK t, k : t = f + size /\ k = j + n
      OBVIOUS
    <3>2. Len(d) \in Nat
      BY LenProperties
    <3>3. t \in f..Len(d) /\ k \in j..t - f
      BY <1>0, <2>1, <3>1, <3>2
    <3>4. SubSeq(SubSeq(d, f + 1, t), j + 1, k) = SubSeq(d, f + j + 1, f + k)
      BY <3>3, SliceOfSlice
    <3>5. f + k = f + j + n
      BY <3>1
    <3> QED
      BY <3>1, <3>4, <3>5 DEF Piece
  <2>2. SubSeq(SubSeq(b, e + 1, e + size), j + 1, j + n) = Piece(b, e + j, n)
    BY <1>0, <2>1
  <2>3. SubSeq(SubSeq(c, g + 1, g + size), j + 1, j + n) = Piece(c, g + j, n)
    BY <1>0, <2>1
  <2> QED
    BY <1>0, <2>2, <2>3, Zenon DEF Piece
<1>2. PICK f, t : f = g + j /\ t = g + j + n
  OBVIOUS
<1>3. Len(c) \in Nat
  BY LenProperties
<1>4. 0 \in Nat /\ f \in 0..Len(c) /\ t \in f..Len(c)
  BY <1>0, <1>2, <1>3
<1>5. SubSeq(c, 0 + 1, f) \o SubSeq(c, f + 1, t) = SubSeq(c, 0 + 1, t)
  BY <1>4, SlicesJoin
<1>6. 0 + 1 = 1 /\ t = f + n
  BY <1>2
<1>7. Piece(b, e + j, n) = SubSeq(c, f + 1, t)
  BY <1>1, <1>2, <1>6, Zenon DEF Piece
<1> QED
  BY <1>2, <1>5, <1>6, <1>7, Zenon DEF Continues

\* Where the head of a message ends.
LEMMA HeadEndIs ==
  ASSUME NEW m, IsMessage(m), CorrectHead(m)
  PROVE  HeadEnd(m) \in Nat /\ HeadEnd(m) <= Len(m.bytes)
<1>1. Len(m.lines) \in Nat \ {0} /\ \A i \in 1..Len(m.lines) : m.lines[i] \in Nat
  BY MessageParts, Zenon
<1>2. PICK p : p = m.lines[Len(m.lines)]
  OBVIOUS
<1>3. p \in Nat
  BY <1>1, <1>2
<1>4. p + 0 + 2 <= Len(m.bytes)
  BY <1>2 DEF CorrectHead, LineAt
<1> QED
  BY <1>2, <1>3, <1>4, MessageParts DEF HeadEnd

\* A message with a body of a known length.
LEMMA BodyIs ==
  ASSUME NEW m, IsMessage(m), CorrectHead(m), m.wellFormed, PayloadType(m).type = "length"
  PROVE  /\ HeadEnd(m) + Len(m.body) = Len(m.bytes)
         /\ Piece(m.bytes, HeadEnd(m), Len(m.body)) = Piece(m.body, 0, Len(m.body))
<1>1. HeadEnd(m) \in Nat /\ HeadEnd(m) <= Len(m.bytes)
  BY HeadEndIs
<1>2. /\ m.bytes \in Seq(STRING) /\ Len(m.bytes) \in Nat /\ m.body \in Seq(STRING) /\ Len(m.body) \in Nat
      /\ m.wellFormed => Correct(m)
  BY MessageParts, Zenon
<1>3. m.body = Behind(m.bytes, HeadEnd(m))
  BY <1>2 DEF Correct, Chunked
<1>4. PICK b, c, e, t : b = m.bytes /\ c = m.body /\ e = HeadEnd(m) /\ t = Len(m.bytes)
  OBVIOUS
<1>5. c = SubSeq(b, e + 1, t) /\ b \in Seq(STRING) /\ e \in Nat /\ t = Len(b)
  BY <1>1, <1>2, <1>3, <1>4, Zenon DEF Behind
<1>6. t \in e..Len(b)
  BY <1>1, <1>2, <1>4, <1>5
<1>7. Len(c) = t - e
  BY <1>5, <1>6, SliceIs
<1>8. e + Len(c) = t
  BY <1>5, <1>6, <1>7
<1>9. Piece(b, e, Len(c)) = c
  BY <1>5, <1>8, Zenon DEF Piece
<1>10. Piece(c, 0, Len(c)) = c
  <2>1. 0 + 1 = 1 /\ 0 + Len(c) = Len(c) /\ c \in Seq(STRING)
    BY <1>2, <1>4
  <2> QED
    BY <2>1, SubSeqFull DEF Piece
<1> QED
  BY <1>4, <1>8, <1>9, <1>10, Zenon

\* A message with a body in chunks: what its last mark is.
LEMMA ChunkedIs ==
  ASSUME NEW m, IsMessage(m), CorrectHead(m), PayloadType(m).type = "chunked"
  PROVE  /\ Chunked(m)
         /\ m.wellFormed => LastChunk(m, m.marks[Len(m.marks)])
         /\ ~m.wellFormed => IncorrectSize(m)
<1>1. /\ m.wellFormed \in BOOLEAN /\ (m.wellFormed => Correct(m)) /\ Len(m.bytes) \in Nat
  BY MessageParts, Zenon
<1>2. Len(m.lines) > 1 /\ LineAt(m.bytes, m.lines[Len(m.lines)], 0)
  BY DEF CorrectHead
<1>3. 0 \in 0..Len(m.bytes) /\ 0 <= MaxLine /\ 0 = 0 /\ "chunked" # "none" /\ "chunked" # "length"
  BY <1>1, MaxLineAssumption
<1>4. /\ (CorrectHead(m) /\ Chunked(m)) \/ m.wellFormed
      /\ ~m.wellFormed => IncorrectSize(m)
  BY <1>2, <1>3, LastLine, Zenon
<1> QED
  BY <1>1, <1>3, <1>4, Zenon DEF Correct

\* A correct chunk, where the next one begins, and what it holds.
LEMMA ChunkIs ==
  ASSUME NEW m, IsMessage(m), Chunked(m), NEW k \in 1..Len(m.marks) - 1,
         NEW c, c = m.marks[k]
  PROVE  /\ c.at \in Nat /\ c.skip \in 3..HTTP_CHUNKED_DATA_LEN /\ c.size \in Nat /\ c.size > 0 /\ c.got \in Nat
         /\ c.got + c.size <= Len(m.body) /\ c.at + c.skip + c.size + 2 <= Len(m.bytes)
         /\ LineAt(m.bytes, c.at, c.skip - 2)
         /\ Number(Piece(m.bytes, c.at, c.skip - 2), 16) = c.size
         /\ LineAt(m.bytes, c.at + c.skip + c.size, 0)
         /\ Piece(m.bytes, c.at + c.skip, c.size) = Piece(m.body, c.got, c.size)
         /\ c.at + 1..c.at + c.skip \subseteq m.joined
         /\ k + 1 \in 1..Len(m.marks)
         /\ m.marks[k + 1].at = c.at + c.skip + c.size + 2
         /\ m.marks[k + 1].got = c.got + c.size
<1>1. Len(m.marks) \in Nat /\ \A i \in 1..Len(m.marks) : m.marks[i] \in [at : Nat, skip : Nat, size : Nat, got : Nat]
  BY MessageParts, Zenon
<1>2. k \in 1..Len(m.marks) /\ k + 1 \in 1..Len(m.marks)
  BY <1>1
<1>3. c \in [at : Nat, skip : Nat, size : Nat, got : Nat]
  BY <1>1, <1>2, Zenon
<1>4. CorrectChunk(m, c) /\ m.marks[k + 1].at = c.at + c.skip + c.size + 2 /\ m.marks[k + 1].got = c.got + c.size
  BY Zenon DEF Chunked
<1>5. /\ c.skip \in 3..HTTP_CHUNKED_DATA_LEN /\ c.size > 0 /\ c.got + c.size <= Len(m.body)
      /\ LineAt(m.bytes, c.at, c.skip - 2)
      /\ Number(Piece(m.bytes, c.at, c.skip - 2), 16) = c.size
      /\ LineAt(m.bytes, c.at + c.skip + c.size, 0)
      /\ Piece(m.bytes, c.at + c.skip, c.size) = Piece(m.body, c.got, c.size)
      /\ c.at + 1..c.at + c.skip \subseteq m.joined
  BY <1>4, Zenon DEF CorrectChunk
<1>6. c.at \in Nat /\ c.size \in Nat /\ c.got \in Nat /\ c.skip \in Nat
  BY <1>3
<1>7. c.at + c.skip + c.size + 0 + 2 <= Len(m.bytes)
  BY <1>5, Zenon DEF LineAt
<1>8. c.at + c.skip + c.size + 2 <= Len(m.bytes)
  BY <1>6, <1>7
<1> QED
  BY <1>2, <1>4, <1>5, <1>6, <1>8, Zenon

\* Where a request whose payload is read can be.
LEMMA PayloadPlaces ==
  ASSUME NEW m, NEW q, NEW p, NEW r, At(m, q, p, r), q.state = "PAYLOAD"
  PROVE  /\ q.type = "length" => \E j \in 0..Len(m.body) : AtBody(m, q, p, j)
         /\ q.type = "chunked" =>
              \/ \E k \in 1..Len(m.marks) : AtMark(m, q, p, k)
              \/ \E k \in 1..Len(m.marks) : \E j \in 1..m.marks[k].size : InChunk(m, q, p, k, j)
         /\ q.headers = m.headers /\ (q.type = "length" \/ q.type = "chunked")
<1>1. ~AtLine(m, q, p)
  BY DEF AtLine, NewRequest
<1>2. \A i : ~AtHeader(m, q, p, i)
  BY DEF AtHeader, Req
<1>3. ~AtCallback(m, q, r)
  BY DEF AtCallback
<1>4. \A type, n, payload : InPayload(m, q, type, n, payload) => q.type = type /\ q.headers = m.headers
  BY DEF InPayload, Req
<1>5. \A j : AtBody(m, q, p, j) => q.type = "length" /\ q.headers = m.headers
  BY <1>4, Zenon DEF AtBody
<1>6. /\ \A k : AtMark(m, q, p, k) => q.type = "chunked" /\ q.headers = m.headers
      /\ \A k, j : InChunk(m, q, p, k, j) => q.type = "chunked" /\ q.headers = m.headers
  BY <1>4, Zenon DEF AtMark, InChunk
<1>7. "length" # "chunked"
  OBVIOUS
<1> QED
  BY <1>1, <1>2, <1>3, <1>5, <1>6, <1>7, Zenon DEF At

\* An iteration that reads the payload.
LEMMA PayloadAdvances ==
  ASSUME TypeInv, AnswersInv, NEW p \in Nat, NEW r \in Nat, Reading(p, r), req.state = "PAYLOAD",
         NEW n \in 0..r - p, NEW q, Processed(n, q), answers' = answers, q.headers = Message(Current).headers,
         At(Message(Current), q, p + n, r),
         n = 0 /\ q.state = "PAYLOAD" => Stuck(q, Rest)
  PROVE  IInv'
<1>1. ASSUME Expects(q) PROVE AnswersTo(Current, {"continue"})' # {}
  <2>1. Expects(req)
    <3>1. At(Message(Current), req, p, r)
      BY DEF Reading
    <3>2. req.headers = Message(Current).headers
      BY <3>1, PayloadPlaces
    <3> QED
      BY <1>1, <3>2, SameHeaders, Zenon
  <2>2. Continued(req) /\ asked' = asked
    BY DEF Reading, Processed, clientVars
  <2>3. AnswersTo(Current, {"continue"}) # {}
    BY <2>1, <2>2 DEF Continued
  <2> QED
    BY <2>2, <2>3, Zenon DEF AnswersTo, Current
<1> QED
  BY <1>1, Advances, Zenon

\* What CopyPayload copies and what it leaves of the r - p bytes it is given.
Copies(b, p, r, c, skip, crlf) ==
  \E n \in Nat :
    /\ n <= c.remaining /\ n <= r - p - skip /\ (n = c.remaining \/ n = r - p - skip)
    /\ Processed(IF n = 0 THEN 0 ELSE skip + n + (IF crlf THEN TrailingCrlf(r - p - skip - n) ELSE 0),
                 Req("PAYLOAD", c.headers, c.type, c.remaining - n, c.payload \o Piece(b, p + skip, n)))

\* CopyPayload copies the next bytes of the request.
LEMMA Copied ==
  ASSUME TypeInv, NEW p \in Nat, NEW r \in Nat, Reading(p, r), NEW b, b = Message(Current).bytes,
         NEW c, c = Req("PAYLOAD", c.headers, c.type, c.remaining, c.payload), c.remaining \in Nat,
         NEW skip \in Nat, skip <= r - p, NEW crlf \in BOOLEAN, CopyPayload(c, skip, crlf)
  PROVE  Copies(b, p, r, c, skip, crlf)
<1>0. PICK headers, type, remaining, payload :
        headers = c.headers /\ type = c.type /\ remaining = c.remaining /\ payload = c.payload
  OBVIOUS
<1>a. c = Req("PAYLOAD", headers, type, remaining, payload) /\ remaining \in Nat
  BY <1>0, Zenon
<1>1. /\ b \in Seq(STRING) /\ Len(b) \in Nat /\ p <= r /\ r <= Len(b) /\ Len(Rest) = r - p
      /\ Rest = SubSeq(b, p + 1, r)
  BY ReadingIs
<1>2. PICK n : n = Min({remaining, Len(Rest) - skip})
  OBVIOUS
<1>3. n \in Nat /\ n <= remaining /\ n <= r - p - skip /\ (n = remaining \/ n = r - p - skip)
  <2>1. PICK e : e = r - p - skip
    OBVIOUS
  <2>2. e \in Nat /\ e = Len(Rest) - skip
    BY <1>1, <2>1
  <2>3. n = Min({remaining, e}) /\ {remaining, e} \in SUBSET Nat /\ {remaining, e} # {}
    BY <1>a, <1>2, <2>2
  <2>4. n \in {remaining, e} /\ \A i \in {remaining, e} : n <= i
    BY <2>3, LeastNumber
  <2> QED
    BY <1>a, <2>1, <2>2, <2>4
<1>4. SubSeq(Rest, skip + 1, skip + n) = Piece(b, p + skip, n)
  <2>1. PICK k : k = skip + n
    OBVIOUS
  <2>2. r \in p..Len(b) /\ k \in skip..r - p /\ p + k = p + skip + n
    BY <1>1, <1>3, <2>1
  <2>3. SubSeq(SubSeq(b, p + 1, r), skip + 1, k) = SubSeq(b, p + skip + 1, p + k)
    BY <1>1, <2>2, SliceOfSlice
  <2> QED
    BY <1>1, <2>1, <2>2, <2>3 DEF Piece
<1>5. PICK q : q = [c EXCEPT !.payload = @ \o SubSeq(Rest, skip + 1, skip + n), !.remaining = @ - n]
  OBVIOUS
<1>6. q = Req("PAYLOAD", headers, type, remaining - n, payload \o Piece(b, p + skip, n))
  <2>1. PICK t, left : t = payload \o Piece(b, p + skip, n) /\ left = remaining - n
    OBVIOUS
  <2>2. c.payload = payload /\ c.remaining = remaining
    BY <1>a DEF Req
  <2>3. PICK u : u = [c EXCEPT !.payload = t]
    OBVIOUS
  <2>4. u = Req("PAYLOAD", headers, type, remaining, t)
    BY <1>a, <2>3 DEF Req
  <2>5. [u EXCEPT !.remaining = left] = Req("PAYLOAD", headers, type, left, t)
    BY <2>4 DEF Req
  <2>6. u.remaining = remaining
    BY <2>4 DEF Req
  <2>7. q = [c EXCEPT !.payload = t, !.remaining = left]
    BY <1>4, <1>5, <2>1, <2>2, Zenon
  <2> QED
    BY <2>1, <2>3, <2>5, <2>7, Zenon
<1>7. Processed(IF n = 0 THEN 0 ELSE skip + n + (IF crlf THEN TrailingCrlf(Len(Rest) - skip - n) ELSE 0), q)
  <2>1. c.remaining = remaining
    BY <1>a DEF Req
  <2> QED
    BY <1>2, <1>5, <2>1, Zenon DEF CopyPayload
<1>8. Len(Rest) - skip - n = r - p - skip - n
  BY <1>1
<1> QED
  BY <1>0, <1>3, <1>6, <1>7, <1>8, Zenon DEF Copies

\* A payload of a known length.
LEMMA BodyKeeps ==
  ASSUME IInv, ProcessBody
  PROVE  IInv'
<1>1. /\ pc = "loop" /\ req.state = "PAYLOAD" /\ req.type = "length" /\ answers' = answers
      /\ IF req.remaining = 0 THEN Processed(0, [req EXCEPT !.state = "CALLBACK"])
                              ELSE CopyPayload(req, 0, FALSE)
  BY Zenon DEF ProcessBody, In
<1>2. TypeInv /\ AnswersInv
  BY <1>1, InLoop, Zenon
<1>3. PICK p \in Nat, r \in Nat : Reading(p, r)
  BY <1>1, InLoop, Zenon
<1>4. PICK m, b, body, e : m = Message(Current) /\ b = m.bytes /\ body = m.body /\ e = HeadEnd(m)
  OBVIOUS
<1>5. PICK j \in 0..Len(body) : AtBody(m, req, p, j)
  <2>1. At(m, req, p, r)
    BY <1>3, <1>4 DEF Reading
  <2> QED
    BY <1>1, <1>4, <2>1, PayloadPlaces, Zenon
<1>6. /\ p = e + j /\ m.wellFormed /\ CorrectHead(m) /\ PayloadType(m).type = "length"
      /\ req = Req("PAYLOAD", m.headers, "length", Len(body) - j, SubSeq(body, 1, j))
  BY <1>4, <1>5, Zenon DEF AtBody, InPayload
<1>7. IsMessage(m)
  BY <1>2, <1>3, <1>4, ReadingIs, Zenon
<1>8. /\ b \in Seq(STRING) /\ Len(b) \in Nat /\ body \in Seq(STRING) /\ Len(body) \in Nat /\ e \in Nat
      /\ e + Len(body) = Len(b) /\ Piece(b, e, Len(body)) = Piece(body, 0, Len(body))
  BY <1>4, <1>6, <1>7, MessageParts, HeadEndIs, BodyIs, Zenon
<1>9. p <= r /\ r <= Len(b) /\ Len(Rest) = r - p /\ Rest \in Seq(STRING)
  <2>1. p <= r /\ r <= sent /\ sent <= Len(Message(Current).bytes) /\ sent \in Nat
        /\ Len(Rest) = r - p /\ Rest \in Seq(STRING)
    BY <1>2, <1>3, ReadingIs, Zenon
  <2>2. sent <= Len(b)
    BY <1>4, <2>1, Zenon
  <2> QED
    BY <1>8, <2>1, <2>2
<1>10. PICK c : c = req
  OBVIOUS
<1>11. c = Req("PAYLOAD", m.headers, "length", Len(body) - j, SubSeq(body, 1, j))
  BY <1>6, <1>10, Zenon
<1>12. c.remaining = Len(body) - j
  BY <1>11 DEF Req
<1>13. CASE c.remaining = 0
  <2>1. PICK q : q = [c EXCEPT !.state = "CALLBACK"]
    OBVIOUS
  <2>2. Processed(0, q)
    BY <1>1, <1>10, <1>13, <2>1, Zenon
  <2>3. j = Len(body) /\ r = Len(b) /\ 0 \in 0..r - p /\ p + 0 = p
    BY <1>6, <1>8, <1>9, <1>12, <1>13
  <2>4. SubSeq(body, 1, j) = body
    BY <1>8, <2>3, SubSeqFull, Zenon
  <2>5. /\ q.state = "CALLBACK" /\ q.headers = m.headers /\ q.payload = SubSeq(body, 1, j)
        /\ DOMAIN q = DOMAIN NewRequest /\ q.keeps = FALSE
    BY <1>11, <2>1 DEF Req, NewRequest, No
  <2>6. AtCallback(m, q, r)
    BY <1>4, <1>6, <2>3, <2>4, <2>5, Zenon DEF AtCallback
  <2>7. At(m, q, p + 0, r)
    BY <2>6 DEF At
  <2>8. q.state # "PAYLOAD"
    BY <2>5
  <2> QED
    BY <1>1, <1>2, <1>3, <1>4, <2>2, <2>3, <2>5, <2>7, <2>8, PayloadAdvances, Zenon
<1>14. CASE c.remaining # 0
  <2>0. PICK left : left = Len(body) - j
    OBVIOUS
  <2>1. left \in Nat /\ left > 0 /\ 0 \in Nat /\ 0 <= r - p /\ r - p - 0 = r - p /\ p + 0 = p
    BY <1>8, <1>9, <1>12, <1>14, <2>0
  <2>2. CopyPayload(c, 0, FALSE) /\ FALSE \in BOOLEAN
    BY <1>1, <1>10, <1>14, Zenon
  <2>3. c = Req("PAYLOAD", m.headers, "length", left, SubSeq(body, 1, j)) /\ b = Message(Current).bytes
    BY <1>4, <1>11, <2>0, Zenon
  <2>4. PICK n \in Nat :
           /\ n <= left /\ n <= r - p - 0 /\ (n = left \/ n = r - p - 0)
           /\ Processed(IF n = 0 THEN 0 ELSE 0 + n + (IF FALSE THEN TrailingCrlf(r - p - 0 - n) ELSE 0),
                        Req("PAYLOAD", m.headers, "length", left - n, SubSeq(body, 1, j) \o Piece(b, p + 0, n)))
    <3>1. c.headers = m.headers /\ c.type = "length" /\ c.remaining = left /\ c.payload = SubSeq(body, 1, j)
      BY <2>3 DEF Req
    <3>2. Copies(b, p, r, c, 0, FALSE)
      BY <1>2, <1>3, <2>1, <2>2, <2>3, <3>1, Copied
    <3> QED
      BY <3>1, <3>2, Zenon DEF Copies
  <2>5. PICK t, q : t = SubSeq(body, 1, j + n) /\ q = Req("PAYLOAD", m.headers, "length", left - n, t)
    OBVIOUS
  <2>6. SubSeq(body, 1, j) \o Piece(b, p + 0, n) = t
    <3>1. j \in Nat /\ j + n <= Len(body) /\ 0 + Len(body) <= Len(body) /\ e + Len(body) <= Len(b)
      BY <1>8, <2>0, <2>1, <2>4
    <3>2. SubSeq(body, 1, 0 + j) \o Piece(b, e + j, n) = SubSeq(body, 1, 0 + j + n)
      <4>1. Holds(b, e, body, 0, Len(body))
        BY <1>8, <2>1, <3>1, Zenon DEF Holds
      <4>2. j \in Nat /\ n \in Nat /\ j + n <= Len(body)
        BY <2>4, <3>1
      <4>3. Continues(b, e, body, 0, j, n)
        BY <4>1, <4>2, BodyGoesOn, Zenon
      <4> QED
        BY <4>3, Zenon DEF Continues
    <3>3. 0 + j = j /\ p + 0 = e + j
      BY <1>6, <1>8, <3>1
    <3> QED
      BY <2>5, <3>2, <3>3, Zenon
  <2>7. (IF n = 0 THEN 0 ELSE 0 + n + (IF FALSE THEN TrailingCrlf(r - p - 0 - n) ELSE 0)) = n
    BY <2>4
  <2>8. Processed(n, q)
    BY <2>4, <2>5, <2>6, <2>7, Zenon
  <2>9. n \in 0..r - p /\ j + n \in 0..Len(body) /\ p + n = e + (j + n) /\ left - n = Len(body) - (j + n)
    BY <1>6, <1>8, <1>9, <2>0, <2>1, <2>4
  <2>10. At(m, q, p + n, r)
    <3>1. AtBody(m, q, p + n, j + n)
      BY <1>4, <1>6, <2>5, <2>9, Zenon DEF AtBody, InPayload
    <3> QED
      BY <1>4, <2>9, <3>1, Zenon DEF At
  <2>11. q.headers = m.headers /\ q.state = "PAYLOAD" /\ q.remaining = left - n
    BY <2>5 DEF Req
  <2>12. ASSUME n = 0 PROVE Stuck(q, Rest)
    <3>1. Len(Rest) = 0 /\ q.remaining > 0
      BY <1>9, <2>1, <2>4, <2>11, <2>12
    <3>2. Rest = <<>>
      BY <1>9, <3>1, EmptySeq, Zenon
    <3> QED
      BY <2>11, <3>1, <3>2, Zenon DEF Stuck
  <2> QED
    BY <1>1, <1>2, <1>3, <1>4, <2>8, <2>9, <2>10, <2>11, <2>12, PayloadAdvances, Zenon
<1> QED
  BY <1>13, <1>14

-----------------------------------------------------------------------------
(* Chunks.                                                                 *)

\* Behind a chunk and its CR LF is the next mark.
LEMMA NextMark ==
  ASSUME NEW m, IsMessage(m), CorrectHead(m), PayloadType(m).type = "chunked",
         NEW k \in 1..Len(m.marks) - 1, NEW c, c = m.marks[k], NEW q, NEW r,
         q = Req("PAYLOAD", m.headers, "chunked", 0, SubSeq(m.body, 1, c.got + c.size))
  PROVE  At(m, q, c.at + c.skip + c.size + 2, r)
<1>1. /\ k + 1 \in 1..Len(m.marks) /\ m.marks[k + 1].at = c.at + c.skip + c.size + 2
      /\ m.marks[k + 1].got = c.got + c.size
  <2>1. Chunked(m)
    BY ChunkedIs, Zenon
  <2> QED
    BY <2>1, ChunkIs, Zenon
<1>2. AtMark(m, q, c.at + c.skip + c.size + 2, k + 1)
  BY <1>1, Zenon DEF AtMark, InPayload
<1> QED
  BY <1>1, <1>2, Zenon DEF At

\* Where a request is with j + n bytes of a chunk.
AtChunk(m, q, c, j, n, r) ==
  /\ At(m, q, c.at + c.skip + j + n, r)
  /\ j + n = c.size => At(m, q, c.at + c.skip + c.size + 2, r)

\* More of a chunk is read.
LEMMA ChunkGrows ==
  ASSUME NEW m, IsMessage(m), CorrectHead(m), PayloadType(m).type = "chunked",
         NEW k \in 1..Len(m.marks) - 1, NEW c, c = m.marks[k], NEW q, NEW r,
         NEW j \in Nat, NEW n \in Nat, j + n <= c.size, j + n > 0,
         q = Req("PAYLOAD", m.headers, "chunked", c.size - j - n,
                 SubSeq(m.body, 1, c.got + j) \o Piece(m.bytes, c.at + c.skip + j, n))
  PROVE  AtChunk(m, q, c, j, n, r)
<1>1. /\ c.at \in Nat /\ c.skip \in 3..HTTP_CHUNKED_DATA_LEN /\ c.size \in Nat /\ c.size > 0 /\ c.got \in Nat
      /\ c.got + c.size <= Len(m.body) /\ c.at + c.skip + c.size + 2 <= Len(m.bytes)
      /\ Piece(m.bytes, c.at + c.skip, c.size) = Piece(m.body, c.got, c.size)
  <2>1. Chunked(m)
    BY ChunkedIs, Zenon
  <2> QED
    BY <2>1, ChunkIs, Zenon
<1>2. m.bytes \in Seq(STRING) /\ m.body \in Seq(STRING) /\ Len(m.bytes) \in Nat /\ Len(m.marks) \in Nat
  BY MessageParts, Zenon
<1>3. PICK at, skip, size, g, lenb, lenc, e :
        /\ at = c.at /\ skip = c.skip /\ size = c.size /\ g = c.got
        /\ lenb = Len(m.bytes) /\ lenc = Len(m.body) /\ e = at + skip
  OBVIOUS
<1>a. /\ at \in Nat /\ skip \in 3..HTTP_CHUNKED_DATA_LEN /\ size \in Nat /\ g \in Nat
      /\ g + size <= lenc /\ at + skip + size + 2 <= lenb /\ j + n <= size
  BY <1>1, <1>3, Zenon
<1>b. lenb \in Nat /\ lenc \in Nat
  BY <1>2, <1>3, LenProperties, Zenon
<1>4. /\ e \in Nat /\ e + size <= lenb /\ g + (j + n) = g + j + n /\ size - (j + n) = size - j - n
      /\ j + n \in 1..size /\ at + skip + j + n = at + skip + (j + n)
  <2>1. skip \in Nat
    BY <1>a DEF HTTP_CHUNKED_DATA_LEN
  <2>2. at \in Nat /\ size \in Nat /\ g \in Nat /\ at + skip + size + 2 <= lenb /\ j + n <= size /\ e = at + skip
    BY <1>3, <1>a, Zenon
  <2>3. e \in Nat /\ e + size <= lenb
    BY <1>b, <2>1, <2>2
  <2>4. g + (j + n) = g + j + n /\ size - (j + n) = size - j - n /\ j + n \in 1..size
    BY <2>2
  <2>5. at + skip + j + n = at + skip + (j + n)
    BY <2>1, <2>2
  <2> QED
    BY <2>3, <2>4, <2>5, Zenon
<1>5. Holds(m.bytes, e, m.body, g, size)
  BY <1>1, <1>2, <1>3, <1>a, <1>4, Zenon DEF Holds
<1>6. Continues(m.bytes, e, m.body, g, j, n)
  BY <1>a, <1>5, BodyGoesOn, Zenon
<1>7. PICK t : t = SubSeq(m.body, 1, g + (j + n))
  OBVIOUS
<1>8. q = Req("PAYLOAD", m.headers, "chunked", size - (j + n), t)
  <2>1. SubSeq(m.body, 1, g + j) \o Piece(m.bytes, e + j, n) = t
    BY <1>4, <1>6, <1>7, Zenon DEF Continues
  <2> QED
    BY <1>3, <1>4, <2>1, Zenon
<1>9. k \in 1..Len(m.marks)
  BY <1>2
<1>10. InChunk(m, q, at + skip + (j + n), k, j + n)
  BY <1>3, <1>4, <1>7, <1>8, Zenon DEF InChunk, InPayload
<1>11. At(m, q, c.at + c.skip + j + n, r)
  BY <1>3, <1>4, <1>9, <1>10, Zenon DEF At
<1>12. ASSUME j + n = c.size PROVE At(m, q, c.at + c.skip + c.size + 2, r)
  <2>1. size - (j + n) = 0
    BY <1>3, <1>a, <1>12
  <2>2. q = Req("PAYLOAD", m.headers, "chunked", 0, SubSeq(m.body, 1, c.got + c.size))
    BY <1>3, <1>7, <1>8, <1>12, <2>1, Zenon
  <2> QED
    BY <2>2, NextMark, Zenon
<1> QED
  BY <1>11, <1>12, Zenon DEF AtChunk

\* More of the chunk that an earlier read has begun.
LEMMA ChunkDataKeeps ==
  ASSUME IInv, ProcessChunkData
  PROVE  IInv'
<1>1. /\ pc = "loop" /\ req.state = "PAYLOAD" /\ req.type = "chunked" /\ answers' = answers
      /\ req.remaining > 0 /\ CopyPayload(req, 0, FALSE)
  BY Zenon DEF ProcessChunkData, In
<1>2. TypeInv /\ AnswersInv
  BY <1>1, InLoop, Zenon
<1>3. PICK p \in Nat, r \in Nat : Reading(p, r)
  BY <1>1, InLoop, Zenon
<1>4. PICK m, b : m = Message(Current) /\ b = m.bytes
  OBVIOUS
<1>5. IsMessage(m) /\ p <= r /\ r <= sent /\ sent \in Nat /\ Len(Rest) = r - p /\ Rest \in Seq(STRING)
  BY <1>2, <1>3, <1>4, ReadingIs, Zenon
<1>6. PICK q0 : q0 = req
  OBVIOUS
<1>7. \E k \in 1..Len(m.marks) : \E j \in 1..m.marks[k].size : InChunk(m, q0, p, k, j)
  <2>1. At(m, q0, p, r)
    BY <1>3, <1>4, <1>6 DEF Reading
  <2>2. ASSUME NEW i, AtMark(m, q0, p, i) PROVE FALSE
    <3>1. q0 = Req("PAYLOAD", m.headers, "chunked", 0, SubSeq(m.body, 1, m.marks[i].got))
      BY <2>2, Zenon DEF AtMark, InPayload
    <3>2. q0.remaining = 0
      BY <3>1 DEF Req
    <3> QED
      BY <1>1, <1>6, <3>2
  <2> QED
    BY <1>1, <1>6, <2>1, <2>2, PayloadPlaces, Zenon
<1>a. PICK k \in 1..Len(m.marks) : \E j \in 1..m.marks[k].size : InChunk(m, q0, p, k, j)
  BY <1>7
<1>b. PICK j \in 1..m.marks[k].size : InChunk(m, q0, p, k, j)
  BY <1>a
<1>8. PICK c : c = m.marks[k]
  OBVIOUS
<1>9. /\ k \in 1..Len(m.marks) - 1 /\ j \in 1..c.size /\ p = c.at + c.skip + j
      /\ CorrectHead(m) /\ PayloadType(m).type = "chunked"
      /\ q0 = Req("PAYLOAD", m.headers, "chunked", c.size - j, SubSeq(m.body, 1, c.got + j))
  BY <1>b, <1>8, Zenon DEF InChunk, InPayload
<1>10. c.at \in Nat /\ c.skip \in 3..HTTP_CHUNKED_DATA_LEN /\ c.size \in Nat /\ c.got \in Nat
  <2>1. Chunked(m)
    BY <1>5, <1>9, ChunkedIs, Zenon
  <2> QED
    BY <1>5, <1>8, <1>9, <2>1, ChunkIs, Zenon
<1>11. /\ q0.headers = m.headers /\ q0.type = "chunked" /\ q0.remaining = c.size - j
       /\ q0.payload = SubSeq(m.body, 1, c.got + j) /\ q0.state = "PAYLOAD"
  BY <1>9 DEF Req
<1>12. q0.remaining \in Nat /\ q0.remaining > 0 /\ j \in Nat
  BY <1>1, <1>6, <1>9, <1>10, <1>11
<1>13. Copies(b, p, r, q0, 0, FALSE)
  <2>1. q0 = Req("PAYLOAD", q0.headers, q0.type, q0.remaining, q0.payload)
    BY <1>9, <1>11, Zenon
  <2>2. CopyPayload(q0, 0, FALSE) /\ FALSE \in BOOLEAN /\ b = Message(Current).bytes
    BY <1>1, <1>4, <1>6, Zenon
  <2>3. 0 \in Nat /\ 0 <= r - p
    BY <1>5
  <2> QED
    BY <1>2, <1>3, <1>12, <2>1, <2>2, <2>3, Copied
<1>14. PICK n \in Nat :
         /\ n <= c.size - j /\ n <= r - p - 0 /\ (n = c.size - j \/ n = r - p - 0)
         /\ Processed(IF n = 0 THEN 0 ELSE 0 + n + (IF FALSE THEN TrailingCrlf(r - p - 0 - n) ELSE 0),
                      Req("PAYLOAD", m.headers, "chunked", c.size - j - n,
                          SubSeq(m.body, 1, c.got + j) \o Piece(b, p + 0, n)))
  BY <1>11, <1>13, Zenon DEF Copies
<1>15. PICK q : q = Req("PAYLOAD", m.headers, "chunked", c.size - j - n,
                        SubSeq(m.body, 1, c.got + j) \o Piece(m.bytes, c.at + c.skip + j, n))
  OBVIOUS
<1>16. Processed(n, q)
  <2>1. p + 0 = c.at + c.skip + j
    BY <1>9, <1>3
  <2>2. (IF n = 0 THEN 0 ELSE 0 + n + (IF FALSE THEN TrailingCrlf(r - p - 0 - n) ELSE 0)) = n
    BY <1>14
  <2> QED
    BY <1>4, <1>14, <1>15, <2>1, <2>2, Zenon
<1>17. n \in 0..r - p /\ j + n <= c.size /\ j + n > 0 /\ p + n = c.at + c.skip + j + n
  BY <1>3, <1>5, <1>9, <1>10, <1>14
<1>18. At(m, q, p + n, r)
  <2>1. AtChunk(m, q, c, j, n, r)
    BY <1>5, <1>8, <1>9, <1>12, <1>14, <1>15, <1>17, ChunkGrows, Zenon
  <2> QED
    BY <1>17, <2>1, Zenon DEF AtChunk
<1>19. q.headers = m.headers /\ q.state = "PAYLOAD" /\ q.remaining = c.size - j - n
  BY <1>15 DEF Req
<1>20. ASSUME n = 0 PROVE Stuck(q, Rest)
  <2>1. Len(Rest) = 0 /\ q.remaining > 0
    BY <1>5, <1>10, <1>11, <1>12, <1>14, <1>19, <1>20
  <2>2. Rest = <<>>
    BY <1>5, <2>1, EmptySeq, Zenon
  <2> QED
    BY <1>19, <2>1, <2>2, Zenon DEF Stuck
<1> QED
  BY <1>1, <1>2, <1>3, <1>4, <1>16, <1>17, <1>18, <1>19, <1>20, PayloadAdvances, Zenon

\* A CR LF ahead of the parser is one in the message.
LEMMA CrlfAhead ==
  ASSUME TypeInv, NEW p \in Nat, NEW r \in Nat, Reading(p, r), NEW b, b = Message(Current).bytes
  PROVE  LateCrlf(Rest) <=> p + 2 <= r /\ LineAt(b, p, 0)
<1>1. /\ b \in Seq(STRING) /\ Len(b) \in Nat /\ p <= r /\ r <= Len(b) /\ r \in p..Len(b)
      /\ Rest = SubSeq(b, p + 1, r) /\ Len(Rest) = r - p
  BY ReadingIs
<1>2. PICK s : s = Rest
  OBVIOUS
<1>3. LineAt(s, 0, 0) <=> p + 0 + 2 <= r /\ LineAt(b, p, 0)
  <2>1. 0 \in Nat
    OBVIOUS
  <2> QED
    BY <1>1, <1>2, <2>1, LineInSlice, Zenon
<1>4. LineAt(s, 0, 0) <=> Len(s) >= 2 /\ s[1] = CR /\ s[2] = LF
  <2>1. Len(s) \in Nat
    BY <1>1, <1>2
  <2> QED
    BY <2>1 DEF LineAt
<1> QED
  BY <1>2, <1>3, <1>4 DEF LateCrlf

\* The last chunk of a correct message, and its end.
LEMMA LastMarkIs ==
  ASSUME NEW b \in Seq(STRING), NEW p \in Nat, p <= Len(b), Behind(b, p) = <<"0", CR, LF, CR, LF>>
  PROVE  /\ Len(b) = p + 5 /\ LineAt(b, p, 1) /\ Piece(b, p, 1) = <<"0">>
<1>1. Len(b) \in Nat
  BY LenProperties
<1>2. Len(b) \in p..Len(b)
  BY <1>1
<1>3. PICK s, n : s = Behind(b, p) /\ n = Len(b)
  OBVIOUS
<1>4. s = <<"0", CR, LF, CR, LF>>
  BY <1>3
<1>5. Len(s) = 5 /\ s[1] = "0" /\ s[2] = CR /\ s[3] = LF
  BY <1>4
<1>6. /\ Len(SubSeq(b, p + 1, n)) = n - p
      /\ \A i \in 1..n - p : SubSeq(b, p + 1, n)[i] = b[p + i]
  BY <1>2, <1>3, SliceIs
<1>7. Len(s) = n - p /\ \A i \in 1..n - p : s[i] = b[p + i]
  BY <1>3, <1>6, Zenon DEF Behind
<1>8. n = p + 5
  BY <1>1, <1>3, <1>5, <1>7
<1>9. b[p + 1] = "0" /\ b[p + 2] = CR /\ b[p + 3] = LF
  BY <1>5, <1>7, <1>8
<1>10. LineAt(b, p, 1)
  <2>1. p + 1 + 1 = p + 2 /\ p + 1 + 2 = p + 3 /\ p + 1 + 2 <= Len(b)
    BY <1>3, <1>8
  <2>2. \A i \in 1..1 : ~(b[p + i] = CR /\ b[p + i + 1] = LF)
    BY <1>9 DEF CR
  <2> QED
    BY <1>9, <2>1, <2>2 DEF LineAt
<1>11. Piece(b, p, 1) = <<"0">>
  <2>1. PICK e, t : e = p + 1 /\ t = SubSeq(b, p + 1, e)
    OBVIOUS
  <2>2. e \in p..Len(b) /\ e - p = 1
    BY <1>3, <1>8, <2>1
  <2>3. t \in Seq(STRING) /\ Len(t) = e - p /\ \A i \in 1..e - p : t[i] = b[p + i]
    BY <2>1, <2>2, SliceIs
  <2>4. Len(t) = 1 /\ t[1] = "0"
    BY <1>9, <2>2, <2>3
  <2>5. t = <<"0">>
    <3>1. PICK x : x = t[1]
      OBVIOUS
    <3>2. x \in STRING
      <4>1. 1 \in 1..Len(t)
        BY <2>4
      <4> QED
        BY <2>3, <3>1, <4>1, ElementOfSeq, Zenon
    <3>3. PICK u : u = <<x>>
      OBVIOUS
    <3>4. u \in Seq(STRING) /\ Len(u) = 1 /\ u[1] = x
      BY <3>2, <3>3
    <3>5. Len(t) = Len(u) /\ \A i \in 1..Len(t) : t[i] = u[i]
      BY <2>4, <3>1, <3>4
    <3>6. t = u
      BY <2>3, <3>4, <3>5, SeqEqual
    <3> QED
      BY <2>4, <3>1, <3>3, <3>6, Zenon
  <2> QED
    BY <2>1, <2>5, Zenon DEF Piece
<1> QED
  BY <1>3, <1>8, <1>10, <1>11, Zenon

\* What VmRESTGetChunkSize finds.
LEMMA ChunkSizeIs ==
  ASSUME NEW s
  PROVE  /\ Len(s) < 3 \/ (Len(s) = 3 /\ s # <<"0", CR, LF>>) => GetChunkSize(s).is = "more"
         /\ ~(Len(s) < 3 \/ (Len(s) = 3 /\ s # <<"0", CR, LF>>)) =>
              IF /\ LineLen(s) \in 0..HTTP_CHUNKED_DATA_LEN - 2
                 /\ Number(SubSeq(s, 1, LineLen(s)), 16) # 0 \/ SubSeq(s, 1, LineLen(s)) = <<"0">>
              THEN /\ GetChunkSize(s).is = "size" /\ GetChunkSize(s).skip = LineLen(s) + 2
                   /\ GetChunkSize(s).size = Number(SubSeq(s, 1, LineLen(s)), 16)
              ELSE GetChunkSize(s).is = "bad"
<1>0. PICK n, size, g : n = LineLen(s) /\ size = SubSeq(s, 1, n) /\ g = GetChunkSize(s)
  OBVIOUS
<1>1. CASE Len(s) < 3 \/ (Len(s) = 3 /\ s # <<"0", CR, LF>>)
  <2>1. g = [is |-> "more"]
    BY <1>0, <1>1, Zenon DEF GetChunkSize
  <2> QED
    <3>1. g.is = "more"
      BY <2>1
    <3> QED
      BY <1>0, <1>1, <3>1, Zenon
<1>2. CASE ~(Len(s) < 3 \/ (Len(s) = 3 /\ s # <<"0", CR, LF>>))
  <2>0. g = IF n \in 0..HTTP_CHUNKED_DATA_LEN - 2 /\ (Number(size, 16) # 0 \/ size = <<"0">>)
            THEN [is |-> "size", skip |-> n + 2, size |-> Number(size, 16)]
            ELSE [is |-> "bad"]
    BY <1>0, <1>2, Zenon DEF GetChunkSize
  <2>1. CASE n \in 0..HTTP_CHUNKED_DATA_LEN - 2 /\ (Number(size, 16) # 0 \/ size = <<"0">>)
    <3>1. PICK k, v : k = n + 2 /\ v = Number(size, 16)
      OBVIOUS
    <3>2. g = [is |-> "size", skip |-> k, size |-> v]
      BY <2>0, <2>1, <3>1, Zenon
    <3>3. g.is = "size" /\ g.skip = k /\ g.size = v
      BY <3>2
    <3> QED
      BY <1>0, <1>2, <2>1, <3>1, <3>3, Zenon
  <2>2. CASE ~(n \in 0..HTTP_CHUNKED_DATA_LEN - 2 /\ (Number(size, 16) # 0 \/ size = <<"0">>))
    <3>1. g = [is |-> "bad"]
      BY <2>0, <2>2, Zenon
    <3>2. g.is = "bad"
      BY <3>1
    <3> QED
      BY <1>0, <1>2, <2>2, <3>2, Zenon
  <2> QED
    BY <2>1, <2>2
<1> QED
  BY <1>1, <1>2

\* Where a size is due, there is no CR LF.
LEMMA NoCrlfAtMark ==
  ASSUME NEW m, IsMessage(m), CorrectHead(m), PayloadType(m).type = "chunked", NEW k \in 1..Len(m.marks),
         NEW p, p = m.marks[k].at
  PROVE  ~LineAt(m.bytes, p, 0) /\ p \in Nat
<1>1. /\ Len(m.marks) \in Nat /\ \A i \in 1..Len(m.marks) : m.marks[i] \in [at : Nat, skip : Nat, size : Nat, got : Nat]
      /\ m.wellFormed \in BOOLEAN /\ m.bytes \in Seq(STRING) /\ Len(m.bytes) \in Nat
  BY MessageParts, Zenon
<1>2. p \in Nat
  BY <1>1
<1>3. Chunked(m) /\ (m.wellFormed => LastChunk(m, m.marks[Len(m.marks)])) /\ (~m.wellFormed => IncorrectSize(m))
  BY ChunkedIs, Zenon
<1>4. CASE k \in 1..Len(m.marks) - 1
  <2>1. PICK c : c = m.marks[k]
    OBVIOUS
  <2>2. LineAt(m.bytes, p, c.skip - 2) /\ c.skip \in 3..HTTP_CHUNKED_DATA_LEN
    BY <1>3, <1>4, <2>1, ChunkIs, Zenon
  <2>3. PICK n : n = c.skip - 2
    OBVIOUS
  <2>4. n \in Nat /\ n # 0
    BY <2>2, <2>3 DEF HTTP_CHUNKED_DATA_LEN
  <2>5. 0 \in Nat
    OBVIOUS
  <2> QED
    BY <1>2, <2>2, <2>3, <2>4, <2>5, OneLine, Zenon
<1>5. CASE k = Len(m.marks)
  <2>1. ASSUME ~m.wellFormed PROVE ~LineAt(m.bytes, p, 0)
    BY <1>3, <1>5, <2>1, Zenon DEF IncorrectSize
  <2>2. ASSUME m.wellFormed, LineAt(m.bytes, p, 0) PROVE FALSE
    <3>1. Behind(m.bytes, p) = <<"0", CR, LF, CR, LF>>
      BY <1>3, <1>5, <2>2, Zenon DEF LastChunk
    <3>2. p <= Len(m.bytes)
      <4>1. p + 0 + 2 <= Len(m.bytes)
        BY <2>2 DEF LineAt
      <4> QED
        BY <1>1, <1>2, <4>1
    <3>3. LineAt(m.bytes, p, 1)
      BY <1>1, <1>2, <3>1, <3>2, LastMarkIs, Zenon
    <3>4. 0 \in Nat /\ 1 \in Nat /\ 0 # 1
      OBVIOUS
    <3> QED
      BY <1>2, <2>2, <3>3, <3>4, OneLine, Zenon
  <2> QED
    BY <1>1, <1>2, <2>1, <2>2
<1>6. k \in 1..Len(m.marks) - 1 \/ k = Len(m.marks)
  BY <1>1
<1> QED
  BY <1>4, <1>5, <1>6, <1>2

\* The CR LF of a chunk whose data came before it.
LEMMA LateCrlfKeeps ==
  ASSUME IInv, ProcessLateCrlf
  PROVE  IInv'
<1>1. /\ pc = "loop" /\ req.state = "PAYLOAD" /\ req.type = "chunked" /\ answers' = answers
      /\ req.remaining = 0 /\ LateCrlf(Rest) /\ Processed(2, req)
  BY Zenon DEF ProcessLateCrlf, In
<1>2. TypeInv /\ AnswersInv
  BY <1>1, InLoop, Zenon
<1>3. PICK p \in Nat, r \in Nat : Reading(p, r)
  BY <1>1, InLoop, Zenon
<1>4. PICK m, b, q : m = Message(Current) /\ b = m.bytes /\ q = req
  OBVIOUS
<1>5. IsMessage(m) /\ p <= r /\ r <= sent /\ sent \in Nat
  BY <1>2, <1>3, <1>4, ReadingIs, Zenon
<1>6. p + 2 <= r /\ LineAt(b, p, 0)
  <2>1. b = Message(Current).bytes
    BY <1>4
  <2> QED
    BY <1>1, <1>2, <1>3, <2>1, CrlfAhead, Zenon
<1>7. \A k \in 1..Len(m.marks) : ~AtMark(m, q, p, k)
  <2>1. SUFFICES ASSUME NEW k \in 1..Len(m.marks), AtMark(m, q, p, k) PROVE FALSE
    OBVIOUS
  <2>2. p = m.marks[k].at /\ CorrectHead(m) /\ PayloadType(m).type = "chunked"
    BY <2>1, Zenon DEF AtMark, InPayload
  <2> QED
    BY <1>4, <1>5, <1>6, <2>2, NoCrlfAtMark, Zenon
<1>8. At(m, q, p, r)
  BY <1>3, <1>4 DEF Reading
<1>9. PICK k \in 1..Len(m.marks) : \E j \in 1..m.marks[k].size : InChunk(m, q, p, k, j)
  BY <1>1, <1>4, <1>7, <1>8, PayloadPlaces, Zenon
<1>10. PICK j \in 1..m.marks[k].size : InChunk(m, q, p, k, j)
  BY <1>9
<1>11. PICK c : c = m.marks[k]
  OBVIOUS
<1>12. /\ k \in 1..Len(m.marks) - 1 /\ j \in 1..c.size /\ p = c.at + c.skip + j
       /\ CorrectHead(m) /\ PayloadType(m).type = "chunked"
       /\ q = Req("PAYLOAD", m.headers, "chunked", c.size - j, SubSeq(m.body, 1, c.got + j))
  BY <1>10, <1>11, Zenon DEF InChunk, InPayload
<1>13. q.remaining = c.size - j /\ q.headers = m.headers /\ q.state = "PAYLOAD"
  BY <1>12 DEF Req
<1>14. j = c.size
  <2>1. c.size \in Nat
    <3>1. Chunked(m)
      BY <1>5, <1>12, ChunkedIs, Zenon
    <3> QED
      BY <1>5, <1>11, <1>12, <3>1, ChunkIs, Zenon
  <2>2. PICK size : size = c.size
    OBVIOUS
  <2>3. size \in Nat /\ j \in 1..size /\ size - j = 0
    BY <1>1, <1>4, <1>12, <1>13, <2>1, <2>2, Zenon
  <2>4. j = size
    BY <2>3
  <2> QED
    BY <2>2, <2>4
<1>15. q = Req("PAYLOAD", m.headers, "chunked", 0, SubSeq(m.body, 1, c.got + c.size))
  BY <1>1, <1>4, <1>12, <1>13, <1>14, Zenon
<1>16. At(m, q, p + 2, r)
  BY <1>5, <1>11, <1>12, <1>14, <1>15, NextMark, Zenon
<1>17. 2 \in 0..r - p /\ ~(2 = 0)
  BY <1>3, <1>5, <1>6
<1>18. Processed(2, q)
  BY <1>1, <1>4, Zenon
<1> QED
  BY <1>1, <1>2, <1>3, <1>4, <1>13, <1>16, <1>17, <1>18, PayloadAdvances, Zenon

\* What the parser finds where it looks for the size of a chunk.
LEMMA ChunkAhead ==
  ASSUME TypeInv, NEW p \in Nat, NEW r \in Nat, Reading(p, r), NEW m, m = Message(Current),
         NEW q, q = req, q.state = "PAYLOAD", q.type = "chunked", q.remaining = 0, ~LateCrlf(Rest),
         NEW g, g = GetChunkSize(Rest), g.is # "more"
  PROVE  \E k \in 1..Len(m.marks) :
           /\ AtMark(m, q, p, k)
           /\ \/ /\ k \in 1..Len(m.marks) - 1 /\ p + m.marks[k].skip < r
                 /\ g.is = "size" /\ g.skip = m.marks[k].skip /\ g.size = m.marks[k].size
              \/ /\ m.wellFormed /\ r = Len(m.bytes) /\ m.marks[k].got = Len(m.body)
                 /\ g.is = "size" /\ g.size = 0
              \/ ~m.wellFormed /\ g.is = "bad"
<1>1. PICK s, n, b : s = Rest /\ n = LineLen(s) /\ b = m.bytes
  OBVIOUS
<1>2. /\ IsMessage(m) /\ b \in Seq(STRING) /\ Len(b) \in Nat /\ p <= r /\ r <= Len(b) /\ Len(s) = r - p
  <2>1. /\ IsMessage(m) /\ b \in Seq(STRING) /\ Len(b) \in Nat /\ p <= r /\ r <= sent /\ sent <= Len(b)
        /\ sent \in Nat /\ Len(s) = r - p
    BY <1>1, ReadingIs, Zenon
  <2> QED
    BY <2>1
<1>3. \/ n = -1 /\ \A k \in Nat : LineAt(b, p, k) => Len(s) < k + 2
      \/ /\ n \in Nat /\ LineAt(b, p, n) /\ Line = Piece(b, p, n)
         /\ \A k \in Nat : LineAt(b, p, k) => n = k
  BY <1>1, LineFound, Zenon
<1>4. Line = SubSeq(s, 1, n)
  BY <1>1, Zenon DEF Line
<1>5. /\ ~(Len(s) < 3 \/ (Len(s) = 3 /\ s # <<"0", CR, LF>>))
      /\ IF n \in 0..HTTP_CHUNKED_DATA_LEN - 2 /\ (Number(Line, 16) # 0 \/ Line = <<"0">>)
         THEN g.is = "size" /\ g.skip = n + 2 /\ g.size = Number(Line, 16)
         ELSE g.is = "bad"
  <2>1. ~(Len(s) < 3 \/ (Len(s) = 3 /\ s # <<"0", CR, LF>>))
    BY <1>1, ChunkSizeIs, Zenon
  <2>2. IF /\ LineLen(s) \in 0..HTTP_CHUNKED_DATA_LEN - 2
           /\ Number(SubSeq(s, 1, LineLen(s)), 16) # 0 \/ SubSeq(s, 1, LineLen(s)) = <<"0">>
        THEN /\ GetChunkSize(s).is = "size" /\ GetChunkSize(s).skip = LineLen(s) + 2
             /\ GetChunkSize(s).size = Number(SubSeq(s, 1, LineLen(s)), 16)
        ELSE GetChunkSize(s).is = "bad"
    BY <2>1, ChunkSizeIs, Zenon
  <2>3. n = LineLen(s) /\ Line = SubSeq(s, 1, LineLen(s)) /\ g = GetChunkSize(s)
    BY <1>1, <1>4, Zenon
  <2> QED
    BY <2>1, <2>2, <2>3, Zenon
<1>6. p + 3 <= r
  BY <1>2, <1>5
<1>7. At(m, q, p, r) /\ r \notin m.joined
  BY DEF Reading, Stream
<1>8. ASSUME NEW k \in 1..Len(m.marks), NEW j \in 1..m.marks[k].size, InChunk(m, q, p, k, j) PROVE FALSE
  <2>1. PICK c : c = m.marks[k]
    OBVIOUS
  <2>2. /\ k \in 1..Len(m.marks) - 1 /\ j \in 1..c.size /\ p = c.at + c.skip + j
        /\ CorrectHead(m) /\ PayloadType(m).type = "chunked"
        /\ q = Req("PAYLOAD", m.headers, "chunked", c.size - j, SubSeq(m.body, 1, c.got + j))
    BY <1>8, <2>1, Zenon DEF InChunk, InPayload
  <2>3. q.remaining = c.size - j
    BY <2>2 DEF Req
  <2>4. c.size \in Nat /\ LineAt(m.bytes, c.at + c.skip + c.size, 0)
    <3>1. Chunked(m)
      BY <1>2, <2>2, ChunkedIs, Zenon
    <3> QED
      BY <1>2, <2>1, <2>2, <3>1, ChunkIs, Zenon
  <2>5. j = c.size
    <3>1. PICK size : size = c.size
      OBVIOUS
    <3>2. size \in Nat /\ j \in 1..size /\ size - j = 0
      BY <2>2, <2>3, <2>4, <3>1, Zenon
    <3>3. j = size
      BY <3>2
    <3> QED
      BY <3>1, <3>3
  <2>6. LineAt(b, p, 0) /\ p + 2 <= r
    <3>1. p + 2 <= r
      BY <1>2, <1>6
    <3> QED
      BY <1>1, <2>2, <2>4, <2>5, <3>1, Zenon
  <2> QED
    BY <1>1, <2>6, CrlfAhead, Zenon
<1>9. PICK k \in 1..Len(m.marks) : AtMark(m, q, p, k)
  BY <1>7, <1>8, PayloadPlaces, Zenon
<1>10. PICK c : c = m.marks[k]
  OBVIOUS
<1>11. p = c.at /\ CorrectHead(m) /\ PayloadType(m).type = "chunked"
  BY <1>9, <1>10, Zenon DEF AtMark, InPayload
<1>12. /\ Chunked(m) /\ (m.wellFormed => LastChunk(m, m.marks[Len(m.marks)])) /\ (~m.wellFormed => IncorrectSize(m))
       /\ ~LineAt(b, p, 0) /\ Len(m.marks) \in Nat
  <2>1. ~LineAt(b, p, 0)
    BY <1>1, <1>2, <1>10, <1>11, NoCrlfAtMark, Zenon
  <2> QED
    BY <1>2, <1>11, <2>1, ChunkedIs, MessageParts, Zenon
<1>13. CASE k \in 1..Len(m.marks) - 1
  <2>1. /\ c.skip \in 3..HTTP_CHUNKED_DATA_LEN /\ c.size \in Nat /\ c.size > 0
        /\ LineAt(b, p, c.skip - 2) /\ Number(Piece(b, p, c.skip - 2), 16) = c.size
        /\ p + 1..p + c.skip \subseteq m.joined
    <3>1. c.skip \in 3..HTTP_CHUNKED_DATA_LEN /\ c.size \in Nat /\ c.size > 0
      BY <1>2, <1>10, <1>12, <1>13, ChunkIs, Zenon
    <3>2. LineAt(m.bytes, c.at, c.skip - 2)
      BY <1>2, <1>10, <1>12, <1>13, ChunkIs, Zenon
    <3>3. Number(Piece(m.bytes, c.at, c.skip - 2), 16) = c.size
      <4>1. CorrectChunk(m, c)
        BY <1>10, <1>12, <1>13, Zenon DEF Chunked
      <4> QED
        BY <4>1, Zenon DEF CorrectChunk
    <3>4. c.at + 1..c.at + c.skip \subseteq m.joined
      BY <1>2, <1>10, <1>12, <1>13, ChunkIs, Zenon
    <3> QED
      BY <1>1, <1>11, <3>1, <3>2, <3>3, <3>4, Zenon
  <2>2. PICK skip, size : skip = c.skip /\ size = c.size
    OBVIOUS
  <2>3. skip \in 3..8 /\ size \in Nat /\ size # 0 /\ skip - 2 \in Nat
    BY <2>1, <2>2 DEF HTTP_CHUNKED_DATA_LEN
  <2>4. p + skip < r
    <3>1. r \notin p + 1..p + skip
      BY <1>7, <2>1, <2>2, Zenon
    <3> QED
      BY <1>2, <1>6, <2>3, <3>1
  <2>5. n = skip - 2 /\ Line = Piece(b, p, n)
    <3>1. LineAt(b, p, skip - 2)
      BY <2>1, <2>2, Zenon
    <3>2. ~(Len(s) < skip - 2 + 2)
      BY <1>2, <2>3, <2>4
    <3> QED
      BY <1>3, <2>3, <3>1, <3>2, Zenon
  <2>6. Number(Line, 16) = size
    BY <2>1, <2>2, <2>5, Zenon
  <2>7. n \in 0..HTTP_CHUNKED_DATA_LEN - 2 /\ n + 2 = skip
    BY <2>3, <2>5 DEF HTTP_CHUNKED_DATA_LEN
  <2>8. g.is = "size" /\ g.skip = skip /\ g.size = size
    BY <1>5, <2>3, <2>6, <2>7, Zenon
  <2> QED
    BY <1>9, <1>10, <1>13, <2>2, <2>4, <2>8, Zenon
<1>14. CASE k = Len(m.marks) /\ m.wellFormed
  <2>1. /\ Behind(b, p) = <<"0", CR, LF, CR, LF>> /\ Number(<<"0">>, 16) = 0
        /\ c.got = Len(m.body) /\ p + 1..p + 4 \subseteq m.joined
    BY <1>1, <1>10, <1>11, <1>12, <1>14, Zenon DEF LastChunk
  <2>2. Len(b) = p + 5 /\ LineAt(b, p, 1) /\ Piece(b, p, 1) = <<"0">>
    <3>1. p <= Len(b)
      BY <1>2
    <3> QED
      BY <1>2, <2>1, <3>1, LastMarkIs, Zenon
  <2>3. r = Len(b)
    <3>1. r \notin p + 1..p + 4
      BY <1>7, <2>1, Zenon
    <3> QED
      BY <1>2, <1>6, <2>2, <3>1
  <2>4. n = 1 /\ Line = Piece(b, p, n)
    <3>1. 1 \in Nat /\ ~(Len(s) < 1 + 2)
      BY <1>2, <2>2, <2>3
    <3> QED
      BY <1>3, <2>2, <3>1, Zenon
  <2>5. n \in 0..HTTP_CHUNKED_DATA_LEN - 2 /\ Line = <<"0">>
    BY <2>2, <2>4 DEF HTTP_CHUNKED_DATA_LEN
  <2>6. g.is = "size" /\ g.size = 0
    BY <1>5, <2>1, <2>5, Zenon
  <2> QED
    BY <1>1, <1>9, <1>10, <1>14, <2>1, <2>3, <2>6, Zenon
<1>15. CASE k = Len(m.marks) /\ ~m.wellFormed
  <2>1. \A i \in 1..HTTP_CHUNKED_DATA_LEN - 2 :
          LineAt(b, p, i) => Number(Piece(b, p, i), 16) = 0 /\ Piece(b, p, i) # <<"0">>
    BY <1>1, <1>10, <1>11, <1>12, <1>15, Zenon DEF IncorrectSize
  <2>2. ~(n \in 0..HTTP_CHUNKED_DATA_LEN - 2 /\ (Number(Line, 16) # 0 \/ Line = <<"0">>))
    <3>1. SUFFICES ASSUME n \in 0..HTTP_CHUNKED_DATA_LEN - 2, Number(Line, 16) # 0 \/ Line = <<"0">> PROVE FALSE
      OBVIOUS
    <3>2. n # -1
      BY <3>1 DEF HTTP_CHUNKED_DATA_LEN
    <3>3. LineAt(b, p, n) /\ Line = Piece(b, p, n)
      BY <1>3, <3>2, Zenon
    <3>4. n # 0
      BY <1>12, <3>3
    <3>5. n \in 1..HTTP_CHUNKED_DATA_LEN - 2
      BY <3>1, <3>4 DEF HTTP_CHUNKED_DATA_LEN
    <3> QED
      BY <2>1, <3>1, <3>3, <3>5, Zenon
  <2>3. g.is = "bad"
    BY <1>5, <2>2, Zenon
  <2> QED
    BY <1>9, <1>15, <2>3, Zenon
<1>16. k \in 1..Len(m.marks) - 1 \/ k = Len(m.marks)
  BY <1>12
<1> QED
  BY <1>13, <1>14, <1>15, <1>16, Zenon

\* The end of the last chunk: the request is complete.
LEMMA LastChunkKeeps ==
  ASSUME TypeInv, AnswersInv, NEW p \in Nat, NEW r \in Nat, Reading(p, r), NEW m, m = Message(Current),
         NEW q, q = req, NEW k \in 1..Len(m.marks), AtMark(m, q, p, k), m.wellFormed, r = Len(m.bytes),
         m.marks[k].got = Len(m.body), answers' = answers,
         Processed(0, [q EXCEPT !.state = "CALLBACK"])
  PROVE  IInv'
<1>1. PICK u, body : u = [q EXCEPT !.state = "CALLBACK"] /\ body = m.body
  OBVIOUS
<1>2. q = Req("PAYLOAD", m.headers, "chunked", 0, SubSeq(m.body, 1, m.marks[k].got))
  BY Zenon DEF AtMark, InPayload
<1>3. body \in Seq(STRING) /\ SubSeq(m.body, 1, m.marks[k].got) = body
  <2>1. IsMessage(m)
    BY ReadingIs, Zenon
  <2> QED
    BY <1>1, <2>1, MessageParts, SubSeqFull, Zenon
<1>4. q = Req("PAYLOAD", m.headers, "chunked", 0, body)
  BY <1>2, <1>3, Zenon
<1>5. /\ u.state = "CALLBACK" /\ u.headers = m.headers /\ u.payload = body
      /\ DOMAIN u = DOMAIN NewRequest /\ u.keeps = FALSE
  BY <1>1, <1>4 DEF Req, NewRequest, No
<1>6. p + 0 = p /\ 0 \in 0..r - p
  <2>1. p <= r
    BY ReadingIs
  <2> QED
    BY <2>1
<1>7. At(m, u, p + 0, r)
  <2>1. AtCallback(m, u, r)
    BY <1>1, <1>5, Zenon DEF AtCallback
  <2> QED
    BY <2>1 DEF At
<1>8. q.state = "PAYLOAD" /\ u.state # "PAYLOAD"
  BY <1>4, <1>5 DEF Req
<1>9. Processed(0, u)
  BY <1>1, Zenon
<1> QED
  BY <1>5, <1>6, <1>7, <1>8, <1>9, PayloadAdvances, Zenon

\* A chunk whose size has just been read.
LEMMA NewChunkKeeps ==
  ASSUME TypeInv, AnswersInv, NEW p \in Nat, NEW r \in Nat, Reading(p, r), NEW m, m = Message(Current),
         NEW q, q = req, NEW k \in 1..Len(m.marks) - 1, AtMark(m, q, p, k), NEW c, c = m.marks[k],
         p + c.skip < r, answers' = answers,
         NEW u, u = Req("PAYLOAD", m.headers, "chunked", c.size, SubSeq(m.body, 1, c.got)), CopyPayload(u, c.skip, TRUE)
  PROVE  IInv'
<1>1. /\ IsMessage(m) /\ p <= r /\ r \in Nat
  BY ReadingIs, Zenon
<1>2. /\ p = c.at /\ CorrectHead(m) /\ PayloadType(m).type = "chunked"
      /\ q = Req("PAYLOAD", m.headers, "chunked", 0, SubSeq(m.body, 1, c.got))
  BY Zenon DEF AtMark, InPayload
<1>3. c.skip \in 3..HTTP_CHUNKED_DATA_LEN /\ c.size \in Nat /\ c.size > 0 /\ c.got \in Nat
  <2>1. Chunked(m)
    BY <1>1, <1>2, ChunkedIs, Zenon
  <2> QED
    BY <1>1, <2>1, ChunkIs, Zenon
<1>4. PICK skip, size, text, b :
        skip = c.skip /\ size = c.size /\ text = SubSeq(m.body, 1, c.got) /\ b = m.bytes
  OBVIOUS
<1>a. r \in Nat /\ p <= r
  BY <1>1
<1>5. skip \in Nat /\ skip \in 3..8 /\ size \in Nat /\ size > 0 /\ p + skip < r
  <2>1. skip \in 3..8 /\ size \in Nat /\ size > 0 /\ p + skip < r
    BY <1>3, <1>4, Zenon DEF HTTP_CHUNKED_DATA_LEN
  <2> QED
    BY <2>1
<1>6. u = Req("PAYLOAD", m.headers, "chunked", size, text)
  BY <1>4, Zenon
<1>7. u.headers = m.headers /\ u.type = "chunked" /\ u.remaining = size /\ u.payload = text
  BY <1>6 DEF Req
<1>8. Copies(b, p, r, u, skip, TRUE)
  <2>1. u = Req("PAYLOAD", u.headers, u.type, u.remaining, u.payload) /\ u.remaining \in Nat
    BY <1>5, <1>6, <1>7, Zenon
  <2>2. CopyPayload(u, skip, TRUE) /\ TRUE \in BOOLEAN /\ b = Message(Current).bytes
    BY <1>4, Zenon
  <2>3. skip <= r - p
    BY <1>1, <1>5
  <2> QED
    BY <1>5, <2>1, <2>2, <2>3, Copied
<1>9. PICK n \in Nat :
        /\ n <= size /\ n <= r - p - skip /\ (n = size \/ n = r - p - skip)
        /\ Processed(IF n = 0 THEN 0 ELSE skip + n + (IF TRUE THEN TrailingCrlf(r - p - skip - n) ELSE 0),
                     Req("PAYLOAD", m.headers, "chunked", size - n, text \o Piece(b, p + skip, n)))
  <2>1. PICK w : w = u
    OBVIOUS
  <2>2. Copies(b, p, r, w, skip, TRUE) /\ w.headers = m.headers /\ w.type = "chunked" /\ w.remaining = size /\ w.payload = text
    BY <1>7, <1>8, <2>1
  <2> QED
    BY <2>2, Zenon DEF Copies
<1>10. PICK v : v = Req("PAYLOAD", m.headers, "chunked", size - n, text \o Piece(b, p + skip, n))
  OBVIOUS
<1>11. n \in Nat /\ n > 0 /\ n # 0
  BY <1>1, <1>5, <1>9
<1>12. Processed(skip + n + TrailingCrlf(r - p - skip - n), v)
  BY <1>9, <1>10, <1>11, Zenon
<1>13. /\ At(m, v, p + skip + n, r)
       /\ n = size => At(m, v, p + skip + size + 2, r)
  <2>1. PICK j : j = 0
    OBVIOUS
  <2>2. j \in Nat /\ j + n <= size /\ j + n > 0 /\ j + n = n /\ size - j - n = size - n /\ p + skip + j = p + skip
    BY <1>5, <1>9, <1>11, <2>1
  <2>3. c.got + j = c.got /\ p + skip = c.at + c.skip
    <3>1. PICK got : got = c.got
      OBVIOUS
    <3>2. got \in Nat /\ p + skip = c.at + c.skip
      BY <1>2, <1>3, <1>4, <3>1, Zenon
    <3>3. got + j = got
      BY <2>1, <3>2
    <3> QED
      BY <3>1, <3>2, <3>3, Zenon
  <2>4. v = Req("PAYLOAD", m.headers, "chunked", c.size - j - n,
                SubSeq(m.body, 1, c.got + j) \o Piece(m.bytes, c.at + c.skip + j, n))
    BY <1>4, <1>10, <2>2, <2>3, Zenon
  <2>5. j + n <= c.size
    BY <1>4, <2>2, Zenon
  <2>6. At(m, v, c.at + c.skip + j + n, r) /\ (j + n = c.size => At(m, v, c.at + c.skip + c.size + 2, r))
    <3>1. AtChunk(m, v, c, j, n, r)
      BY <1>1, <1>2, <1>11, <2>2, <2>4, <2>5, ChunkGrows, Zenon
    <3> QED
      BY <3>1, Zenon DEF AtChunk
  <2> QED
    BY <1>4, <2>2, <2>3, <2>6, Zenon
<1>14. v.headers = m.headers
  BY <1>10 DEF Req
<1>15. q.state = "PAYLOAD"
  BY <1>2 DEF Req
<1>16. CASE r - p - skip - n >= 2
  <2>1. n = size
    BY <1>1, <1>5, <1>9, <1>16
  <2>2. TrailingCrlf(r - p - skip - n) = 2
    BY <1>16 DEF TrailingCrlf
  <2>3. PICK t : t = skip + n + 2
    OBVIOUS
  <2>4. t \in 0..r - p /\ t # 0 /\ p + t = p + skip + size + 2
    BY <1>a, <1>5, <1>11, <1>16, <2>1, <2>3
  <2>5. Processed(t, v) /\ At(m, v, p + t, r)
    BY <1>12, <1>13, <2>1, <2>2, <2>3, <2>4, Zenon
  <2> QED
    BY <1>14, <1>15, <2>4, <2>5, PayloadAdvances, Zenon
<1>17. CASE ~(r - p - skip - n >= 2)
  <2>1. TrailingCrlf(r - p - skip - n) = 0
    BY <1>17 DEF TrailingCrlf
  <2>2. PICK t : t = skip + n
    OBVIOUS
  <2>3. t \in 0..r - p /\ t # 0 /\ p + t = p + skip + n /\ skip + n + 0 = t
    <3>1. n <= r - p - skip
      BY <1>9, Zenon
    <3> QED
      BY <1>a, <1>5, <1>11, <2>2, <3>1
  <2>4. Processed(t, v) /\ At(m, v, p + t, r)
    BY <1>12, <1>13, <2>1, <2>3, Zenon
  <2> QED
    BY <1>14, <1>15, <2>3, <2>4, PayloadAdvances, Zenon
<1> QED
  BY <1>16, <1>17

\* The line with the size of a chunk.
LEMMA ChunkKeeps ==
  ASSUME IInv, ProcessChunk
  PROVE  IInv'
<1>1. PICK q, g, m : q = req /\ g = GetChunkSize(Rest) /\ m = Message(Current)
  OBVIOUS
<1>2. /\ pc = "loop" /\ q.state = "PAYLOAD" /\ q.type = "chunked" /\ q.remaining = 0 /\ ~LateCrlf(Rest)
      /\ \/ g.is = "more" /\ Processed(0, q) /\ answers' = answers
         \/ g.is = "bad" /\ Fails("refused")
         \/ /\ g.is = "size" /\ answers' = answers
            /\ IF g.size = 0
               THEN Processed(0, [q EXCEPT !.state = "CALLBACK"])
               ELSE CopyPayload([q EXCEPT !.remaining = g.size], g.skip, TRUE)
  BY <1>1, Zenon DEF ProcessChunk, In
<1>3. TypeInv /\ AnswersInv
  BY <1>2, InLoop, Zenon
<1>4. PICK p \in Nat, r \in Nat : Reading(p, r)
  BY <1>2, InLoop, Zenon
<1>5. IsMessage(m) /\ p <= r /\ r \in Nat
  BY <1>1, <1>3, <1>4, ReadingIs, Zenon
<1>6. At(m, q, p, r)
  BY <1>1, <1>4 DEF Reading
<1>7. CASE g.is = "more" /\ Processed(0, q) /\ answers' = answers
  <2>1. Stuck(q, Rest)
    <3>1. ~(Len(Rest) >= 2 /\ Rest[1] = CR /\ Rest[2] = LF)
      BY <1>2 DEF LateCrlf
    <3>2. Len(Rest) < 3 \/ (Len(Rest) = 3 /\ Rest # <<"0", CR, LF>>)
      <4>1. SUFFICES ASSUME ~(Len(Rest) < 3 \/ (Len(Rest) = 3 /\ Rest # <<"0", CR, LF>>)) PROVE FALSE
        OBVIOUS
      <4>2. PICK s : s = Rest
        OBVIOUS
      <4>3. GetChunkSize(s).is = "size" \/ GetChunkSize(s).is = "bad"
        BY <4>1, <4>2, ChunkSizeIs, Zenon
      <4>4. g = GetChunkSize(s) /\ "more" # "size" /\ "more" # "bad"
        BY <1>1, <4>2
      <4> QED
        BY <1>7, <4>3, <4>4, Zenon
    <3> QED
      BY <1>2, <3>1, <3>2, Zenon DEF Stuck
  <2>2. p + 0 = p /\ 0 \in 0..r - p /\ q.headers = m.headers
    BY <1>2, <1>5, <1>6, PayloadPlaces
  <2> QED
    BY <1>1, <1>2, <1>3, <1>4, <1>6, <1>7, <2>1, <2>2, PayloadAdvances, Zenon
<1>8. CASE g.is # "more"
  <2>1. PICK k \in 1..Len(m.marks) :
          /\ AtMark(m, q, p, k)
          /\ \/ /\ k \in 1..Len(m.marks) - 1 /\ p + m.marks[k].skip < r
                /\ g.is = "size" /\ g.skip = m.marks[k].skip /\ g.size = m.marks[k].size
             \/ /\ m.wellFormed /\ r = Len(m.bytes) /\ m.marks[k].got = Len(m.body)
                /\ g.is = "size" /\ g.size = 0
             \/ ~m.wellFormed /\ g.is = "bad"
    BY <1>1, <1>2, <1>3, <1>4, <1>8, ChunkAhead
  <2>2. CASE g.is = "bad"
    <3>1. "bad" # "more" /\ "bad" # "size"
      OBVIOUS
    <3>2. Fails("refused") /\ ~m.wellFormed
      BY <1>2, <2>1, <2>2, <3>1, Zenon
    <3> QED
      BY <1>1, <1>3, <1>4, <3>2, GivesUp, Zenon
  <2>3. CASE /\ m.wellFormed /\ r = Len(m.bytes) /\ m.marks[k].got = Len(m.body)
             /\ g.is = "size" /\ g.size = 0
    <3>1. "size" # "more" /\ "bad" # "size"
      OBVIOUS
    <3>2. answers' = answers /\ Processed(0, [q EXCEPT !.state = "CALLBACK"])
      BY <1>2, <2>3, <3>1, Zenon
    <3> QED
      BY <1>1, <1>3, <1>4, <2>1, <2>3, <3>2, LastChunkKeeps, Zenon
  <2>4. CASE /\ k \in 1..Len(m.marks) - 1 /\ p + m.marks[k].skip < r
             /\ g.is = "size" /\ g.skip = m.marks[k].skip /\ g.size = m.marks[k].size
    <3>1. PICK c : c = m.marks[k]
      OBVIOUS
    <3>2. c.size \in Nat /\ c.size > 0
      <4>1. CorrectHead(m) /\ PayloadType(m).type = "chunked"
        BY <2>1, Zenon DEF AtMark, InPayload
      <4>2. Chunked(m)
        BY <1>5, <4>1, ChunkedIs, Zenon
      <4> QED
        BY <1>5, <2>4, <3>1, <4>2, ChunkIs, Zenon
    <3>3. g.size # 0 /\ "size" # "more" /\ "bad" # "size"
      BY <2>4, <3>1, <3>2
    <3>4. PICK u, size, hs, text :
            u = [q EXCEPT !.remaining = size] /\ size = c.size /\ hs = m.headers /\ text = SubSeq(m.body, 1, c.got)
      OBVIOUS
    <3>5. answers' = answers /\ CopyPayload(u, c.skip, TRUE) /\ p + c.skip < r
      BY <1>2, <2>4, <3>1, <3>3, <3>4, Zenon
    <3>6. u = Req("PAYLOAD", m.headers, "chunked", c.size, SubSeq(m.body, 1, c.got))
      <4>1. q = Req("PAYLOAD", hs, "chunked", 0, text)
        BY <2>1, <3>1, <3>4, Zenon DEF AtMark, InPayload
      <4>2. [q EXCEPT !.remaining = size] = Req("PAYLOAD", hs, "chunked", size, text)
        BY <4>1, RemainingSet
      <4> QED
        BY <3>4, <4>2, Zenon
    <3> QED
      BY <1>1, <1>3, <1>4, <2>1, <2>4, <3>1, <3>5, <3>6, NewChunkKeeps, Zenon
  <2> QED
    BY <2>1, <2>2, <2>3, <2>4, Zenon
<1> QED
  BY <1>2, <1>7, <1>8, Zenon

-----------------------------------------------------------------------------
(* The invariant, and what it implies.                                     *)

\* Every step keeps the invariant, if the segments end where a careful sender
\* ends them.
LEMMA StepKeeps ==
  ASSUME ~CutsAnywhere, IInv, Next
  PROVE  IInv'
<1>1. CASE Ask
  BY <1>1, AskKeeps, Zenon
<1>2. CASE Send
  BY <1>2, SendKeeps, Zenon
<1>3. CASE Read
  BY <1>3, ReadKeeps, Zenon
<1>4. CASE AwaitLine
  BY <1>4, AwaitLineKeeps, Zenon
<1>5. CASE LineTooLong
  BY <1>5, LineTooLongKeeps, Zenon
<1>6. CASE ProcessRequestLine
  BY <1>6, RequestLineKeeps, Zenon
<1>7. CASE ProcessHeader
  BY <1>7, HeaderKeeps, Zenon
<1>8. CASE ProcessHeadersEnd
  BY <1>8, HeadersEndKeeps, Zenon
<1>9. CASE ProcessBody
  BY <1>9, BodyKeeps, Zenon
<1>10. CASE ProcessChunkData
  BY <1>10, ChunkDataKeeps, Zenon
<1>11. CASE ProcessLateCrlf
  BY <1>11, LateCrlfKeeps, Zenon
<1>12. CASE ProcessChunk
  BY <1>12, ChunkKeeps, Zenon
<1>13. CASE TriggerAppCb
  BY <1>13, CallbackKeeps, Zenon
<1>14. CASE AwaitMoreInput
  BY <1>14, AwaitKeeps, Zenon
<1>15. CASE KeepConnection
  BY <1>15, KeepKeeps, Zenon
<1>16. CASE DisconnectClient
  BY <1>16, DisconnectKeeps, Zenon
<1> QED
  BY <1>1, <1>2, <1>3, <1>4, <1>5, <1>6, <1>7, <1>8, <1>9, <1>10, <1>11, <1>12, <1>13, <1>14, <1>15, <1>16, Zenon
     DEF Next, Server, ProcessBuffer

\* The invariant holds in every reachable state.
THEOREM PlacesAreKept ==
  ASSUME ~CutsAnywhere
  PROVE  Spec => []IInv
<1>1. Init => IInv
  BY InitStarts
<1>2. IInv /\ [Next]_vars => IInv'
  <2>1. SUFFICES ASSUME IInv, [Next]_vars PROVE IInv'
    OBVIOUS
  <2>2. CASE Next
    BY <2>1, <2>2, StepKeeps
  <2>3. CASE UNCHANGED vars
    <3>1. /\ asked' = asked /\ sent' = sent /\ wire' = wire /\ buffer' = buffer /\ done' = done
          /\ req' = req /\ pc' = pc /\ answers' = answers
      BY <2>3 DEF vars, clientVars
    <3>2. TypeInv' /\ AnswersInv'
      BY <2>1, <3>1, Zenon DEF IInv, TypeInv, AnswersInv, Message, Current
    <3>3. (Between => Between') /\ (Finishing => Finishing')
      BY <3>1, Zenon DEF Between, Finishing, Answered, Unanswered, AnswersTo, Message, Current
    <3>4. \A p, r : Reading(p, r) => Reading(p, r)'
      <4>1. Rest' = Rest /\ Message(Current)' = Message(Current)
        BY <3>1, Zenon DEF Rest, Message, Current
      <4>2. \A p, r : At(Message(Current), req, p, r) => At(Message(Current), req, p, r)'
        BY <3>1, <4>1 DEF At, AtLine, AtHeader, AtBody, AtMark, InChunk, AtCallback, InPayload, Headers, Req, No
      <4>3. \A p, r : Stream(Message(Current), p, r) => Stream(Message(Current), p, r)'
        BY <3>1, <4>1 DEF Stream
      <4>4. (Stuck(req, Rest) => Stuck(req, Rest)') /\ (Continued(req) => Continued(req)')
        BY <3>1, <4>1 DEF Stuck, Continued, AnswersTo, Expects, Current
      <4>5. Unanswered => Unanswered'
        BY <3>1, Zenon DEF Unanswered, AnswersTo, Current
      <4> QED
        BY <3>1, <4>2, <4>3, <4>4, <4>5, Zenon DEF Reading
    <3> QED
      BY <2>1, <3>1, <3>2, <3>3, <3>4 DEF IInv
  <2> QED
    BY <2>1, <2>2, <2>3
<1> QED
  BY <1>1, <1>2, PTL DEF Spec

\* The variables have their types.
THEOREM Types ==
  ASSUME ~CutsAnywhere
  PROVE  Spec => []TypeInv
<1>1. IInv => TypeInv
  BY Zenon DEF IInv
<1> QED
  BY <1>1, PlacesAreKept, PTL

\* The application gets the body that the client meant, once, for segments that
\* do not end in or just behind the line with the size of a chunk.
THEOREM BodiesAreServed ==
  ASSUME ~CutsAnywhere
  PROVE  Spec => []ServedAsSent
<1>1. IInv => ServedAsSent
  <2>1. SUFFICES ASSUME AnswersInv, NEW a \in DOMAIN answers
                 PROVE  /\ answers[a].is = "served" =>
                             /\ Message(answers[a].to).wellFormed
                             /\ answers[a].payload = Message(answers[a].to).body
                        /\ answers[a].is \in Final => AnswersTo(answers[a].to, Final) = {a}
    BY Zenon DEF IInv, ServedAsSent
  <2>2. answers[a].is = "served" =>
          /\ Message(answers[a].to).wellFormed
          /\ answers[a].payload = Message(answers[a].to).body
    BY <2>1, Zenon DEF AnswersInv
  <2>3. \A b \in DOMAIN answers :
          answers[a].is \in Final /\ answers[b].is \in Final /\ answers[a].to = answers[b].to => a = b
    BY <2>1, Zenon DEF AnswersInv
  <2>4. answers[a].is \in Final => AnswersTo(answers[a].to, Final) = {a}
    BY <2>3, Zenon DEF AnswersTo
  <2> QED
    BY <2>2, <2>4
<1> QED
  BY <1>1, PlacesAreKept, PTL

\* A correct request, within the limits for lines, names and values, is not
\* refused for where segments and reads have cut it, if no segment ends in or
\* just behind the line with the size of a chunk, nor in the end of the last
\* chunk.  Without the hypothesis it may be refused (httpProtocolHead.c:1237).
THEOREM CorrectIsNotRefused ==
  ASSUME ~CutsAnywhere
  PROVE  Spec => []RefusedOnlyIfMalformed
<1>1. IInv => RefusedOnlyIfMalformed
  BY Zenon DEF IInv, AnswersInv, RefusedOnlyIfMalformed
<1> QED
  BY <1>1, PlacesAreKept, PTL

\* A new request starts with the first byte of a request, if no segment ends
\* between the line of the last chunk and the CR LF behind it.
THEOREM RequestsStartClean ==
  ASSUME ~CutsAnywhere
  PROVE  Spec => []NextRequestIsClean
<1>1. IInv => NextRequestIsClean
  <2>1. SUFFICES ASSUME IInv, pc = "idle", req = NewRequest, ~(buffer = <<>> /\ wire = <<>>)
                 PROVE  asked # <<>> /\ buffer \o wire = SubSeq(Message(Current).bytes, 1, sent)
    BY Zenon DEF NextRequestIsClean
  <2>2. TypeInv
    BY <2>1, Zenon DEF IInv
  <2>3. PICK p \in 0..sent, r \in 0..sent : Reading(p, r)
    BY <2>1 DEF IInv, Between, Finishing
  <2>4. p \in Nat /\ r \in Nat
    BY <2>3
  <2>5. PICK b : b = Message(Current).bytes
    OBVIOUS
  <2>6. /\ asked # <<>> /\ b \in Seq(STRING) /\ Len(b) \in Nat /\ r <= sent /\ sent <= Len(b) /\ sent \in Nat
        /\ Rest = SubSeq(b, p + 1, r)
    BY <2>2, <2>3, <2>4, <2>5, ReadingIs, Zenon
  <2>7. p = 0
    <3>1. req.state = "LINE"
      BY <2>1 DEF NewRequest
    <3>2. AtLine(Message(Current), req, p)
      BY <2>2, <2>3, <2>4, <3>1, AtALine
    <3> QED
      BY <3>2 DEF AtLine
  <2>8. Rest = buffer
    <3>1. done = 0 /\ 0 + 1 = 1 /\ buffer \in Seq(STRING)
      BY <2>1, <2>2, <2>3 DEF Reading, TypeInv
    <3>2. SubSeq(buffer, 1, Len(buffer)) = buffer
      BY <3>1, SubSeqFull, Zenon
    <3> QED
      BY <3>1, <3>2, Zenon DEF Rest
  <2>9. wire = SubSeq(b, r + 1, sent)
    BY <2>3, <2>5 DEF Reading, Stream
  <2>10. SubSeq(b, 0 + 1, r) \o SubSeq(b, r + 1, sent) = SubSeq(b, 0 + 1, sent)
    <3>1. 0 \in Nat /\ r \in 0..Len(b) /\ sent \in r..Len(b)
      BY <2>4, <2>6
    <3> QED
      BY <2>6, <3>1, SlicesJoin, Zenon
  <2>11. 0 + 1 = 1
    OBVIOUS
  <2> QED
    BY <2>5, <2>6, <2>7, <2>8, <2>9, <2>10, <2>11, Zenon
<1> QED
  BY <1>1, PlacesAreKept, PTL

-----------------------------------------------------------------------------
(* What the parser waits for.                                              *)

\* The lines of a message are in order; the last of them is the last.
LEMMA LinesGrow ==
  ASSUME NEW m, IsMessage(m), NEW i \in 1..Len(m.lines)
  PROVE  m.lines[i] <= m.lines[Len(m.lines)]
<1>1. PICK len, line : len = Len(m.lines) /\ line = m.lines
  OBVIOUS
<1>2. len \in Nat \ {0} /\ (\A k \in 1..len : line[k] \in Nat) /\ CorrectLines(m)
  BY <1>1, MessageParts, Zenon
<1>3. \A k \in 1..len - 1 : line[k] <= line[k + 1]
  <2>1. SUFFICES ASSUME NEW k \in 1..len - 1 PROVE line[k] <= line[k + 1]
    OBVIOUS
  <2>2. PICK n : n = line[k + 1] - line[k] - 2
    OBVIOUS
  <2>3. n \in 1..MaxLine - 2
    BY <1>1, <1>2, <2>2, Zenon DEF CorrectLines
  <2>4. k \in 1..len /\ k + 1 \in 1..len
    BY <1>2
  <2>5. line[k] \in Nat /\ line[k + 1] \in Nat
    BY <1>2, <2>4
  <2> QED
    BY <2>2, <2>3, <2>5, MaxLineAssumption
<1>4. PICK S : S = {n \in Nat : n < len /\ line[len - n] > line[len]}
  OBVIOUS
<1>5. S = {}
  <2>1. SUFFICES ASSUME S # {} PROVE FALSE
    OBVIOUS
  <2>2. S \in SUBSET Nat
    BY <1>4
  <2>3. PICK n : n = Min(S)
    OBVIOUS
  <2>4. n \in S /\ \A k \in S : n <= k
    BY <2>1, <2>2, <2>3, LeastNumber
  <2>5. n \in Nat /\ n < len /\ line[len - n] > line[len]
    BY <1>4, <2>4
  <2>6. n # 0 /\ len - n \in 1..len /\ len \in 1..len
    <3>1. line[len] \in Nat
      BY <1>2
    <3>2. ASSUME n = 0 PROVE FALSE
      <4>1. len - n = len
        BY <1>2, <3>2
      <4> QED
        BY <2>5, <3>1, <4>1
    <3> QED
      BY <1>2, <2>5, <3>2
  <2>7. n - 1 \in Nat /\ n - 1 < len /\ len - n \in 1..len - 1 /\ len - n + 1 = len - (n - 1) /\ ~(n <= n - 1)
    BY <1>2, <2>5, <2>6
  <2>8. ~(line[len - (n - 1)] > line[len])
    BY <1>4, <2>4, <2>7
  <2>9. line[len - n] <= line[len - (n - 1)]
    BY <1>3, <2>7
  <2>10. line[len - n] \in Nat /\ line[len - (n - 1)] \in Nat /\ line[len] \in Nat
    <3>1. len - (n - 1) \in 1..len
      BY <1>2, <2>5, <2>7
    <3> QED
      BY <1>2, <2>6, <3>1
  <2> QED
    BY <2>5, <2>8, <2>9, <2>10
<1>6. i \in 1..len /\ len - i \in Nat /\ len - i < len /\ len - (len - i) = i
  BY <1>1, <1>2
<1>7. ~(line[i] > line[len])
  BY <1>4, <1>5, <1>6
<1>8. line[i] \in Nat /\ line[len] \in Nat
  BY <1>2, <1>6
<1>9. line[i] <= line[len]
  BY <1>7, <1>8
<1> QED
  BY <1>1, <1>9, Zenon

\* At the end of the head of a message, all the lines before it are there.
LEMMA LinesAreThere ==
  ASSUME NEW m, IsMessage(m), m.wellFormed, NEW i \in 1..Len(m.lines)
  PROVE  \E n \in Nat : LineAt(m.bytes, m.lines[i], n) /\ m.lines[i] + n + 2 <= HeadEnd(m)
<1>1. PICK len, line : len = Len(m.lines) /\ line = m.lines
  OBVIOUS
<1>2. len \in Nat \ {0} /\ (\A k \in 1..len : line[k] \in Nat) /\ CorrectLines(m)
  BY <1>1, MessageParts, Zenon
<1>3. HeadEnd(m) = line[len] + 2
  BY <1>1, Zenon DEF HeadEnd
<1>4. CASE i = len
  <2>1. LineAt(m.bytes, m.lines[i], 0)
    BY <1>1, <1>4, LineIsThere, Zenon
  <2>2. line[len] + 0 + 2 <= line[len] + 2 /\ 0 \in Nat
    BY <1>2
  <2> QED
    BY <1>1, <1>3, <1>4, <2>1, <2>2, Zenon
<1>5. CASE i # len
  <2>1. i \in 1..len - 1 /\ i + 1 \in 1..len /\ i \in 1..len
    BY <1>1, <1>2, <1>5
  <2>2. PICK n : n = line[i + 1] - line[i] - 2
    OBVIOUS
  <2>3. n \in 1..MaxLine - 2 /\ LineAt(m.bytes, line[i], n)
    BY <1>1, <1>2, <2>1, <2>2, Zenon DEF CorrectLines
  <2>4. n \in Nat /\ line[i] \in Nat /\ line[i + 1] \in Nat /\ line[len] \in Nat
    BY <1>2, <2>1, <2>3, MaxLineAssumption
  <2>5. line[i + 1] <= line[len]
    BY <1>1, <2>1, LinesGrow, Zenon
  <2>6. line[i] + n + 2 <= line[len] + 2
    BY <2>2, <2>4, <2>5
  <2> QED
    BY <1>1, <1>3, <2>3, <2>4, <2>6, Zenon
<1> QED
  BY <1>4, <1>5

\* A parser that looks for a line has all its bytes if the rest of the message
\* is there.
LEMMA NoLineMissing ==
  ASSUME TypeInv, NEW p \in Nat, NEW r \in Nat, Reading(p, r), req.state \in {"LINE", "HEADERS"},
         NEW m, m = Message(Current), LineLen(Rest) = -1, Len(Rest) < MaxLine
  PROVE  /\ r # Len(m.bytes)
         /\ m.wellFormed => r # HeadEnd(m)
<1>1. /\ IsMessage(m) /\ Len(m.bytes) \in Nat /\ p <= r /\ Len(Rest) = r - p
  BY ReadingIs, Zenon
<1>2. PICK i \in 1..Len(m.lines) : p = m.lines[i]
  BY AtALine
<1>3. ASSUME NEW n \in Nat, LineAt(m.bytes, p, n), p + n + 2 <= r PROVE FALSE
  <2>1. Len(Rest) < n + 2
    BY <1>3, LineFound
  <2> QED
    BY <1>1, <1>3, <2>1
<1>4. ASSUME r = Len(m.bytes) PROVE FALSE
  <2>1. \A n \in Nat : ~LineAt(m.bytes, p, n)
    <3>1. SUFFICES ASSUME NEW n \in Nat, LineAt(m.bytes, p, n) PROVE FALSE
      OBVIOUS
    <3>2. p + n + 2 <= r
      BY <1>4, <3>1 DEF LineAt
    <3> QED
      BY <1>3, <3>1, <3>2
  <2>2. i = Len(m.lines) /\ ~m.wellFormed
    <3>1. ~(i < Len(m.lines) \/ m.wellFormed)
      BY <1>1, <1>2, <2>1, LineIsThere
    <3>2. Len(m.lines) \in Nat
      BY <1>1, MessageParts
    <3> QED
      BY <3>1, <3>2
  <2>3. Incorrect(m) /\ p = m.lines[Len(m.lines)]
    BY <1>1, <1>2, <2>2, MessageParts, Zenon
  <2>4. ~LineAt(m.bytes, m.lines[Len(m.lines)], 0)
    <3>1. 0 \in Nat
      OBVIOUS
    <3> QED
      BY <2>1, <2>3, <3>1, Zenon
  <2>5. IncorrectLine(m)
    BY <2>3, <2>4, Zenon DEF Incorrect, IncorrectPayload, CorrectHead
  <2>6. Len(m.bytes) - p >= MaxLine
    <3>1. \A n \in 0..Len(m.bytes) : ~LineAt(m.bytes, p, n)
      BY <1>1, <2>1
    <3> QED
      BY <2>3, <2>5, <3>1, Zenon DEF IncorrectLine
  <2> QED
    BY <1>1, <1>4, <2>6, MaxLineAssumption
<1>5. ASSUME m.wellFormed, r = HeadEnd(m) PROVE FALSE
  <2>1. PICK n \in Nat : LineAt(m.bytes, p, n) /\ p + n + 2 <= r
    BY <1>1, <1>2, <1>5, LinesAreThere, Zenon
  <2> QED
    BY <1>3, <2>1
<1> QED
  BY <1>4, <1>5

\* A parser that waits for a part of the payload has not all of the message.
LEMMA NotStuckInPayload ==
  ASSUME TypeInv, NEW p \in Nat, NEW r \in Nat, Reading(p, r), req.state = "PAYLOAD",
         NEW m, m = Message(Current), Stuck(req, Rest)
  PROVE  r # Len(m.bytes)
<1>1. SUFFICES ASSUME r = Len(m.bytes) PROVE FALSE
  OBVIOUS
<1>2. PICK q, b, s : q = req /\ b = m.bytes /\ s = Rest
  OBVIOUS
<1>3. /\ IsMessage(m) /\ b \in Seq(STRING) /\ Len(b) \in Nat /\ p <= r /\ r = Len(b) /\ Len(s) = r - p
      /\ s \in Seq(STRING)
  BY <1>1, <1>2, ReadingIs, Zenon
<1>4. At(m, q, p, r) /\ q.state = "PAYLOAD"
  BY <1>2, Zenon DEF Reading
<1>5. \/ q.remaining > 0 /\ s = <<>>
      \/ q.type = "chunked" /\ q.remaining = 0 /\ ~LateCrlf(s) /\ (Len(s) < 3 \/ (Len(s) = 3 /\ s # <<"0", CR, LF>>))
  <2>1. Stuck(q, s) /\ q.state \notin {"LINE", "HEADERS"}
    BY <1>2, <1>4
  <2> QED
    BY <2>1, Zenon DEF Stuck, LateCrlf
<1>6. \/ q.remaining > 0 /\ Len(s) = 0
      \/ q.remaining = 0 /\ Len(s) <= 3 /\ ~LateCrlf(s)
  <2>1. CASE q.remaining > 0 /\ s = <<>>
    BY <2>1
  <2>2. CASE q.remaining = 0 /\ ~LateCrlf(s) /\ (Len(s) < 3 \/ Len(s) = 3)
    BY <1>3, <2>2
  <2> QED
    BY <1>5, <2>1, <2>2, Zenon
<1>7. CASE q.type = "length"
  <2>1. PICK j \in 0..Len(m.body) : AtBody(m, q, p, j)
    BY <1>4, <1>7, PayloadPlaces, Zenon
  <2>2. /\ p = HeadEnd(m) + j /\ m.wellFormed /\ CorrectHead(m) /\ PayloadType(m).type = "length"
        /\ q = Req("PAYLOAD", m.headers, "length", Len(m.body) - j, SubSeq(m.body, 1, j))
    BY <2>1, Zenon DEF AtBody, InPayload
  <2>3. HeadEnd(m) \in Nat /\ HeadEnd(m) + Len(m.body) = Len(m.bytes) /\ Len(m.body) \in Nat
    BY <1>3, <2>2, HeadEndIs, BodyIs, MessageParts, Zenon
  <2>4. q.remaining = Len(m.body) - j /\ q.type = "length"
    BY <2>2 DEF Req
  <2>5. PICK len, e, rest, n : len = Len(m.body) /\ e = HeadEnd(m) /\ rest = q.remaining /\ n = Len(s)
    OBVIOUS
  <2>6. "length" # "chunked"
    OBVIOUS
  <2>7. rest > 0 /\ n = 0
    BY <1>5, <1>6, <2>4, <2>5, <2>6, Zenon
  <2>8. j \in 0..len /\ p = e + j /\ e + len = r /\ rest = len - j /\ n = r - p /\ e \in Nat /\ len \in Nat
    BY <1>1, <1>3, <2>2, <2>3, <2>4, <2>5, Zenon
  <2> QED
    BY <2>7, <2>8
<1>8. CASE q.type = "chunked"
  <2>1. ASSUME NEW k \in 1..Len(m.marks), AtMark(m, q, p, k) PROVE FALSE
    <3>1. PICK c : c = m.marks[k]
      OBVIOUS
    <3>2. /\ p = c.at /\ CorrectHead(m) /\ PayloadType(m).type = "chunked"
          /\ q = Req("PAYLOAD", m.headers, "chunked", 0, SubSeq(m.body, 1, c.got))
      BY <2>1, <3>1, Zenon DEF AtMark, InPayload
    <3>3. q.remaining = 0
      BY <3>2 DEF Req
    <3>4. Len(s) <= 3
      BY <1>6, <3>3
    <3>5. /\ Chunked(m) /\ (m.wellFormed => LastChunk(m, m.marks[Len(m.marks)]))
          /\ (~m.wellFormed => IncorrectSize(m)) /\ Len(m.marks) \in Nat
      BY <1>3, <3>2, ChunkedIs, MessageParts, Zenon
    <3>6. CASE k \in 1..Len(m.marks) - 1
      <4>1. c.skip \in 3..HTTP_CHUNKED_DATA_LEN /\ c.size \in Nat /\ c.at + c.skip + c.size + 2 <= Len(m.bytes)
        BY <1>3, <3>1, <3>5, <3>6, ChunkIs, Zenon
      <4>2. PICK skip, size : skip = c.skip /\ size = c.size
        OBVIOUS
      <4>3. skip \in 3..HTTP_CHUNKED_DATA_LEN /\ size \in Nat /\ p + skip + size + 2 <= r
        BY <1>1, <3>2, <4>1, <4>2, Zenon
      <4> QED
        BY <1>3, <3>4, <4>3 DEF HTTP_CHUNKED_DATA_LEN
    <3>7. CASE k \notin 1..Len(m.marks) - 1
      <4>1. k = Len(m.marks)
        BY <3>5, <3>7
      <4>2. CASE m.wellFormed
        <5>1. Behind(b, p) = <<"0", CR, LF, CR, LF>>
          BY <1>2, <3>1, <3>2, <3>5, <4>1, <4>2, Zenon DEF LastChunk
        <5>2. Len(b) = p + 5
          BY <1>3, <5>1, LastMarkIs
        <5> QED
          BY <1>3, <3>4, <5>2
      <4>3. CASE ~m.wellFormed
        <5>1. p + 4 <= Len(m.bytes)
          BY <3>1, <3>2, <3>5, <4>1, <4>3, Zenon DEF IncorrectSize
        <5> QED
          BY <1>1, <1>3, <3>4, <5>1
      <4> QED
        BY <4>2, <4>3
    <3> QED
      BY <3>6, <3>7
  <2>2. ASSUME NEW k \in 1..Len(m.marks), NEW j \in 1..m.marks[k].size, InChunk(m, q, p, k, j) PROVE FALSE
    <3>1. PICK c : c = m.marks[k]
      OBVIOUS
    <3>2. /\ k \in 1..Len(m.marks) - 1 /\ j \in 1..c.size /\ p = c.at + c.skip + j
          /\ CorrectHead(m) /\ PayloadType(m).type = "chunked"
          /\ q = Req("PAYLOAD", m.headers, "chunked", c.size - j, SubSeq(m.body, 1, c.got + j))
      BY <2>2, <3>1, Zenon DEF InChunk, InPayload
    <3>3. q.remaining = c.size - j
      BY <3>2 DEF Req
    <3>4. /\ c.at \in Nat /\ c.skip \in 3..HTTP_CHUNKED_DATA_LEN /\ c.size \in Nat
          /\ c.at + c.skip + c.size + 2 <= Len(m.bytes)
          /\ LineAt(m.bytes, c.at + c.skip + c.size, 0)
      <4>1. Chunked(m)
        BY <1>3, <3>2, ChunkedIs, Zenon
      <4> QED
        BY <1>3, <3>1, <3>2, <4>1, ChunkIs, Zenon
    <3>5. PICK at, skip, size, rest, n : at = c.at /\ skip = c.skip /\ size = c.size /\ rest = q.remaining /\ n = Len(s)
      OBVIOUS
    <3>6. /\ at \in Nat /\ skip \in 3..HTTP_CHUNKED_DATA_LEN /\ size \in Nat /\ at + skip + size + 2 <= r
          /\ j \in 1..size /\ p = at + skip + j /\ rest = size - j /\ n = r - p
      BY <1>1, <1>3, <3>2, <3>3, <3>4, <3>5, Zenon
    <3>7. p + 2 <= r /\ j \in Nat
      BY <3>6 DEF HTTP_CHUNKED_DATA_LEN
    <3>8. CASE rest = 0
      <4>1. j = size
        BY <3>6, <3>8
      <4>2. LineAt(b, p, 0)
        BY <1>2, <3>2, <3>4, <3>5, <4>1, Zenon
      <4>3. LateCrlf(Rest)
        BY <1>2, <3>7, <4>2, CrlfAhead, Zenon
      <4>4. ~(0 > 0)
        OBVIOUS
      <4> QED
        BY <1>2, <1>6, <3>5, <3>8, <4>3, <4>4, Zenon
    <3>9. CASE rest # 0
      <4>1. n = 0
        BY <1>6, <3>5, <3>9, Zenon
      <4> QED
        BY <3>6, <4>1 DEF HTTP_CHUNKED_DATA_LEN
    <3> QED
      BY <3>8, <3>9
  <2> QED
    BY <1>4, <1>8, <2>1, <2>2, PayloadPlaces, Zenon
<1> QED
  BY <1>4, <1>7, <1>8, PayloadPlaces, Zenon

\* Where the parser waits, more of the message comes, or "100 Continue" has
\* been sent.
LEMMA WaitsWhileReading ==
  ASSUME TypeInv, NEW p \in Nat, NEW r \in Nat, Reading(p, r), pc = "idle", wire = <<>>,
         NEW m, m = Message(Current)
  PROVE  /\ sent # Len(m.bytes)
         /\ sent = m.waits => AnswersTo(Current, {"continue"}) # {}
<1>1. /\ IsMessage(m) /\ m.bytes \in Seq(STRING) /\ Len(m.bytes) \in Nat /\ r <= sent /\ sent <= Len(m.bytes)
      /\ sent \in Nat
  BY ReadingIs, Zenon
<1>2. At(m, req, p, r) /\ Stuck(req, Rest) /\ Continued(req) /\ wire = SubSeq(m.bytes, r + 1, sent)
  BY DEF Reading, Stream
<1>3. sent = r
  <2>1. sent \in r..Len(m.bytes)
    BY <1>1
  <2>2. Len(SubSeq(m.bytes, r + 1, sent)) = sent - r
    BY <1>1, <2>1, SliceIs
  <2>3. Len(SubSeq(m.bytes, r + 1, sent)) = 0
    BY <1>2, NoBytes, Zenon
  <2> QED
    BY <1>1, <2>2, <2>3
<1>4. CASE req.state \in {"LINE", "HEADERS"}
  <2>1. LineLen(Rest) = -1 /\ Len(Rest) < MaxLine
    BY <1>2, <1>4 DEF Stuck
  <2>2. r # Len(m.bytes) /\ (m.wellFormed => r # HeadEnd(m))
    BY <1>4, <2>1, NoLineMissing, Zenon
  <2>3. sent # m.waits
    BY <1>1, <1>3, <2>2, Zenon DEF IsMessage
  <2> QED
    BY <1>3, <2>2, <2>3
<1>5. CASE req.state = "PAYLOAD"
  <2>1. r # Len(m.bytes)
    BY <1>2, <1>5, NotStuckInPayload, Zenon
  <2>2. ASSUME sent = m.waits PROVE AnswersTo(Current, {"continue"}) # {}
    <3>1. Expects(m)
      BY <1>1, <1>3, <2>1, <2>2, Zenon DEF IsMessage
    <3>2. req.headers = m.headers
      BY <1>2, <1>5, PayloadPlaces, Zenon
    <3>3. Expects(req)
      BY <3>1, <3>2, SameHeaders, Zenon
    <3> QED
      BY <1>2, <1>5, <3>3 DEF Continued
  <2> QED
    BY <1>3, <2>1, <2>2
<1> QED
  BY <1>2, <1>4, <1>5 DEF Stuck

\* The parser waits only for bytes that will come, for segments that do not end
\* in the line with the size of a chunk or in the end of the last chunk.
THEOREM ParserIsNotStuck ==
  ASSUME ~CutsAnywhere
  PROVE  Spec => []WaitsForSender
<1>1. IInv => WaitsForSender
  <2>1. SUFFICES ASSUME IInv, pc = "idle", wire = <<>>, asked # <<>>
                 PROVE  /\ AllSent => AnswersTo(Current, Final) # {}
                        /\ sent = Message(Current).waits => AnswersTo(Current, Final \cup {"continue"}) # {}
    BY Zenon DEF WaitsForSender
  <2>2. \A kinds \in {Final, {"continue"}} :
          AnswersTo(Current, kinds) # {} => AnswersTo(Current, Final \cup {"continue"}) # {}
    BY DEF AnswersTo
  <2>3. CASE Between
    BY <2>1, <2>2, <2>3 DEF Between, Answered
  <2>4. CASE ~Between
    <3>1. TypeInv
      BY <2>1 DEF IInv
    <3>2. PICK p \in 0..sent, r \in 0..sent : Reading(p, r)
      BY <2>1, <2>4 DEF IInv, Finishing
    <3>3. p \in Nat /\ r \in Nat
      BY <3>2
    <3>4. /\ sent # Len(Message(Current).bytes)
          /\ sent = Message(Current).waits => AnswersTo(Current, {"continue"}) # {}
      BY <2>1, <3>1, <3>2, <3>3, WaitsWhileReading, Zenon
    <3>5. ~AllSent
      BY <2>1, <3>4 DEF AllSent
    <3> QED
      BY <2>2, <3>4, <3>5
  <2> QED
    BY <2>3, <2>4
<1> QED
  BY <1>1, PlacesAreKept, PTL

=============================================================================
