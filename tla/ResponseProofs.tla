--------------------------- MODULE ResponseProofs ---------------------------
(***************************************************************************)
(* Proofs about Response, for bodies, buffers and patience of any size.    *)
(***************************************************************************)
EXTENDS Response, SequenceTheorems, WellFoundedInduction, TLAPS

USE DEF Final

-----------------------------------------------------------------------------
(* Types. *)

Callers == {"interim", "callback", "failure"}

\* What a return leaves behind.
LEMMA Returns ==
  ASSUME NEW who \in Callers, NEW ok \in BOOLEAN, NEW m, TypeOK, Return(who, ok, m)
  PROVE  /\ pc' \in {"parse", "failing", "callback", "finish"}
         /\ mem' \subseteq m
         /\ who = "interim" => mem' \cap ResponsePacket("interim") = {}
         /\ outcome' \in {outcome, "refused"}
         /\ tries' = 0
<1>1. pc' \in {"parse", "failing", "callback", "finish"}
  BY DEF Return, Callers
<1>2. mem' \subseteq m /\ (who = "interim" => mem' \cap ResponsePacket("interim") = {})
  BY DEF Return, FreePacket
<1> QED
  BY <1>1, <1>2 DEF Return

\* What a call does besides: it returns at once, or it writes.
LEMMA Calls ==
  ASSUME NEW who \in Callers, NEW writes, NEW m, NEW done, TypeOK, Call(who, writes, m, done)
  PROVE  \/ Return(who, FALSE, m) /\ UNCHANGED <<caller, room>>
         \/ pc' = "write" /\ caller' = who /\ mem' = m /\ UNCHANGED <<outcome, room, tries>>
BY DEF Call

\* A call keeps the types, whether it writes or is refused.
LEMMA CallKeepsTypes ==
  ASSUME NEW who \in Callers, NEW writes, NEW m, NEW done, TypeOK, Call(who, writes, m, done),
         m \subseteq RequestPacket \cup ResponsePacket("answer") \cup ResponsePacket("interim") \cup {Buffer},
         UNCHANGED <<why, trouble>>, interim' \in BOOLEAN
  PROVE  TypeOK'
<1>1. CASE Return(who, FALSE, m) /\ UNCHANGED <<caller, room>>
  <2>1. /\ pc' \in {"parse", "failing", "callback", "finish"}
        /\ mem' \subseteq m
        /\ outcome' \in {outcome, "refused"}
        /\ tries' = 0
    BY <1>1, Returns
  <2> QED
    BY <1>1, <2>1, LimitsAssumption DEF TypeOK
<1>2. CASE pc' = "write" /\ caller' = who /\ mem' = m /\ UNCHANGED <<outcome, room, tries>>
  BY <1>2 DEF TypeOK, Callers
<1> QED
  BY <1>1, <1>2, Calls

\* So does a return behind the last write, or behind one that failed.
LEMMA ReturnKeepsTypes ==
  ASSUME NEW who \in Callers, NEW ok \in BOOLEAN, TypeOK, Return(who, ok, mem \ {Buffer}),
         UNCHANGED <<why, caller, interim, room>>,
         trouble' \in {trouble, trouble \cup {"memory"}, trouble \cup {"stall"}}
  PROVE  TypeOK'
<1>1. /\ pc' \in {"parse", "failing", "callback", "finish"}
      /\ mem' \subseteq mem
      /\ outcome' \in {outcome, "refused"}
      /\ tries' = 0
  BY Returns
<1>2. trouble' \subseteq {"stop", "reset", "stall", "memory"}
  BY DEF TypeOK
<1> QED
  BY <1>1, <1>2, LimitsAssumption DEF TypeOK

\* Whatever is called and whatever fails, the program counter, the objects and
\* the round of waiting of a write stay in their ranges: a write never waits
\* for longer than MaxTries (socket.c:1066-1099).
THEOREM Types == Spec => []TypeOK
<1>1. Init => TypeOK
  <2> SUFFICES ASSUME Init PROVE TypeOK
    OBVIOUS
  <2>1. /\ why \in {"input", "timeout"} /\ pc = "new" /\ caller = "none" /\ mem = {}
        /\ interim = FALSE /\ room = TRUE /\ outcome = "none" /\ tries = 0 /\ trouble = {}
    BY DEF Init
  <2>2. interim \in BOOLEAN /\ room \in BOOLEAN
    BY <2>1
  <2> QED
    BY <2>1, <2>2, LimitsAssumption DEF TypeOK
<1>2. TypeOK /\ [Next]_vars => TypeOK'
  <2> SUFFICES ASSUME TypeOK, [Next]_vars PROVE TypeOK'
    OBVIOUS
  <2> USE LimitsAssumption DEF TypeOK, linkVars
  <2>1. CASE GetRequestHandle
    BY <2>1 DEF GetRequestHandle, RequestPacket, ResponsePacket
  <2>2. CASE GetRequestHandleFails
    BY <2>2 DEF GetRequestHandleFails, FreeRequestHandle, FreePacket
  <2>3. CASE HandleExpect
    <3>1. /\ \E writes : Call("interim", writes, mem \cup ResponsePacket("interim"), app)
          /\ interim' = TRUE
      BY <2>3 DEF HandleExpect
    <3> QED
      BY <2>3, <3>1, CallKeepsTypes DEF HandleExpect, Callers
  <2>4. ASSUME NEW reason \in {"input", "timeout"}, Refuse(reason) PROVE TypeOK'
    BY <2>4 DEF Refuse
  <2>5. CASE TriggerAppCb
    BY <2>5 DEF TriggerAppCb, RequestPacket
  <2>6. CASE GetData
    BY <2>6 DEF GetData
  <2>7. CASE GetDataZC
    BY <2>7 DEF GetDataZC
  <2>8. ASSUME NEW status \in {"200", "404"}, Describe(status) PROVE TypeOK'
    BY <2>8 DEF Describe
  <2>9. CASE SetDataLength
    BY <2>9 DEF SetDataLength
  <2>10. CASE SetData
    <3>1. \E writes, done : Call("callback", writes, mem, done)
      BY <2>10 DEF SetData
    <3>2. UNCHANGED <<request, why, resp, interim, trouble>>
      BY <2>10 DEF SetData
    <3> QED
      BY <3>1, <3>2, CallKeepsTypes DEF Callers
  <2>11. CASE SetDataZC
    <3>1. \E writes, done : Call("callback", writes, mem, done)
      BY <2>11 DEF SetDataZC
    <3> QED
      BY <2>11, <3>1, CallKeepsTypes DEF SetDataZC, Callers
  <2>12. CASE ReturnSuccess
    BY <2>12 DEF ReturnSuccess
  <2>13. CASE ReturnError
    BY <2>13 DEF ReturnError
  <2>14. CASE SayNothing
    BY <2>14 DEF SayNothing
  <2>15. CASE DescribeFailure
    BY <2>15 DEF DescribeFailure
  <2>16. CASE SendFailureResponse
    BY <2>16, CallKeepsTypes DEF SendFailureResponse, Callers
  <2>17. CASE AllocateBuffer
    BY <2>17 DEF AllocateBuffer
  <2>18. CASE WriteSome
    BY <2>18 DEF WriteSome
  <2>19. CASE WriteAll
    <3>1. CASE Return(caller, TRUE, mem \ {Buffer})
      <4>1. caller \in Callers
        BY <2>19 DEF WriteAll, Ready, Callers
      <4> QED
        BY <2>19, <3>1, <4>1, ReturnKeepsTypes DEF WriteAll
    <3>2. CASE mem' = mem \ {Buffer} /\ tries' = 0 /\ UNCHANGED <<pc, outcome>>
      BY <2>19, <3>2 DEF WriteAll
    <3> QED
      BY <2>19, <3>1, <3>2 DEF WriteAll
  <2>20. CASE Retry
    BY <2>20 DEF Retry, OneMore
  <2>21. CASE WriteFails
    <3>1. /\ Return(caller, FALSE, mem \ {Buffer})
          /\ trouble' \in {trouble, trouble \cup {"memory"}, trouble \cup {"stall"}}
          /\ UNCHANGED <<why, caller, interim, room>>
          /\ caller \in Callers
      BY <2>21 DEF WriteFails, Callers
    <3> QED
      BY <3>1, ReturnKeepsTypes
  <2>22. CASE Finish
    BY <2>22 DEF Finish, FreeRequestHandle, FreePacket
  <2>23. CASE Congestion
    BY <2>23 DEF Congestion
  <2>24. ASSUME NEW event \in {"stop", "reset"}, Disturb(event) PROVE TypeOK'
    BY <2>24 DEF Disturb
  <2>25. CASE UNCHANGED vars
    BY <2>25 DEF vars
  <2> QED
    BY <2>1, <2>2, <2>3, <2>4, <2>5, <2>6, <2>7, <2>8, <2>9, <2>10, <2>11, <2>12, <2>13,
       <2>14, <2>15, <2>16, <2>17, <2>18, <2>19, <2>20, <2>21, <2>22, <2>23, <2>24, <2>25
       DEF Next, Serve, Parse, Callback, Transmit
<1> QED
  BY <1>1, <1>2, PTL DEF Spec

-----------------------------------------------------------------------------
(* Memory. *)

\* What may be allocated at each point.
MemoryInv ==
  /\ pc = "new" => mem = {}
  /\ pc \in {"parse", "callback", "failing", "send", "finish"} =>
       mem \subseteq RequestPacket \cup ResponsePacket("answer")
  /\ pc = "write" =>
       mem \subseteq RequestPacket \cup ResponsePacket("answer") \cup {Buffer}
                       \cup (IF caller = "interim" THEN ResponsePacket("interim") ELSE {})
  /\ pc \in Final => mem = {}

\* Nothing outlives a request, whatever fails.
THEOREM MemoryIsFreed == Spec => []NothingLeaks
<1>1. Init => MemoryInv
  BY DEF Init, MemoryInv
<1>2. TypeOK /\ MemoryInv /\ [Next]_vars => MemoryInv'
  <2> SUFFICES ASSUME TypeOK, MemoryInv, [Next]_vars PROVE MemoryInv'
    OBVIOUS
  <2> USE DEF TypeOK, MemoryInv, linkVars
  <2>1. CASE GetRequestHandle
    BY <2>1 DEF GetRequestHandle
  <2>2. CASE GetRequestHandleFails
    BY <2>2 DEF GetRequestHandleFails, FreeRequestHandle, FreePacket
  <2>3. CASE HandleExpect
    BY <2>3 DEF HandleExpect, Call, Return, FreePacket
  <2>4. ASSUME NEW reason \in {"input", "timeout"}, Refuse(reason) PROVE MemoryInv'
    BY <2>4 DEF Refuse
  <2>5. CASE TriggerAppCb
    BY <2>5 DEF TriggerAppCb, RequestPacket
  <2>6. CASE GetData \/ GetDataZC \/ SetDataLength \/ \E status \in {"200", "404"} : Describe(status)
    BY <2>6 DEF GetData, GetDataZC, SetDataLength, Describe, InCallback
  <2>7. CASE SetData \/ SetDataZC
    BY <2>7 DEF SetData, SetDataZC, InCallback, Call, Return
  <2>8. CASE ReturnSuccess \/ ReturnError
    BY <2>8 DEF ReturnSuccess, ReturnError, InCallback
  <2>9. CASE SayNothing \/ DescribeFailure
    BY <2>9 DEF SayNothing, DescribeFailure
  <2>10. CASE SendFailureResponse
    BY <2>10 DEF SendFailureResponse, Call, Return
  <2>11. CASE AllocateBuffer
    BY <2>11 DEF AllocateBuffer
  <2>12. CASE WriteSome \/ Retry \/ Congestion
    BY <2>12 DEF WriteSome, Retry, Congestion, Ready
  <2>13. CASE WriteAll
    BY <2>13 DEF WriteAll, Ready, Return, FreePacket
  <2>14. CASE WriteFails
    BY <2>14 DEF WriteFails, Return, FreePacket
  <2>15. CASE Finish
    BY <2>15 DEF Finish, FreeRequestHandle, FreePacket
  <2>16. ASSUME NEW event \in {"stop", "reset"}, Disturb(event) PROVE MemoryInv'
    BY <2>16 DEF Disturb
  <2>17. CASE UNCHANGED vars
    BY <2>17 DEF vars
  <2> QED
    BY <2>1, <2>2, <2>3, <2>4, <2>5, <2>6, <2>7, <2>8, <2>9, <2>10, <2>11, <2>12, <2>13,
       <2>14, <2>15, <2>16, <2>17 DEF Next, Serve, Parse, Callback, Transmit
<1>3. MemoryInv => NothingLeaks
  BY DEF MemoryInv, NothingLeaks
<1> QED
  BY <1>1, <1>2, <1>3, Types, PTL DEF Spec

-----------------------------------------------------------------------------
(* The operators on headers, tokens and writes. *)

\* A set of numbers has a least one.
LEMMA LeastIsMember ==
  ASSUME NEW S \in SUBSET Nat, S # {}
  PROVE  Min(S) \in S
<1>1. PICK m \in S : \A n \in S : <<n, m>> \notin OpToRel(<, Nat)
  BY WFMin, NatLessThanWellFounded, Zenon
<1>2. \A n \in S : ~(n < m)
  BY <1>1, Zenon DEF OpToRel
<1>3. \A n \in S : m <= n
  BY <1>2
<1> QED
  BY <1>3 DEF Min

\* What VmRESTGetHTTPMiscHeader finds is the value of a header of that name.
LEMMA HeaderIsFound ==
  ASSUME NEW r, r.headers \in Seq(Header), NEW name
  PROVE  \/ /\ GetHeader(r, name) = <<>>
            /\ \A i \in DOMAIN r.headers : r.headers[i][1] # name
         \/ \E i \in DOMAIN r.headers :
              r.headers[i][1] = name /\ GetHeader(r, name) = <<r.headers[i][2]>>
<1> DEFINE found == {i \in DOMAIN r.headers : r.headers[i][1] = name}
<1>1. found \in SUBSET Nat
  BY LenProperties
<1>2. CASE found = {}
  BY <1>2 DEF GetHeader
<1>3. CASE found # {}
  <2>1. Min(found) \in found
    BY <1>1, <1>3, LeastIsMember
  <2> QED
    BY <1>3, <2>1 DEF GetHeader
<1> QED
  BY <1>2, <1>3

\* The value of Content-Length is a number.
LEMMA LengthIsNumber ==
  ASSUME NEW r \in Object, GetHeader(r, "Content-Length") # <<>>
  PROVE  Head(GetHeader(r, "Content-Length")) \in Nat
<1>1. PICK i \in DOMAIN r.headers : 
        r.headers[i][1] = "Content-Length" /\ GetHeader(r, "Content-Length") = <<r.headers[i][2]>>
  BY HeaderIsFound DEF Object
<1>2. r.headers[i] \in Header
  BY ElementOfSeq, LenProperties DEF Object
<1>3. r.headers[i][2] \in Nat
  BY <1>1, <1>2 DEF Header
<1> QED
  BY <1>1, <1>3

NoHeads(s) == \A i \in DOMAIN s : ~IsHead(s[i])

\* One sequence of tokens behind another.
LEMMA Joined ==
  ASSUME NEW s \in Seq(Token), NEW t \in Seq(Token)
  PROVE  /\ s \o t \in Seq(Token)
         /\ Len(s) \in Nat /\ Len(t) \in Nat
         /\ Len(s \o t) = Len(s) + Len(t)
         /\ DOMAIN s = 1..Len(s) /\ DOMAIN t = 1..Len(t)
         /\ DOMAIN (s \o t) = 1..Len(s) + Len(t)
         /\ \A i \in DOMAIN (s \o t) : \/ i \in DOMAIN s /\ (s \o t)[i] = s[i]
                                       \/ i - Len(s) \in DOMAIN t /\ (s \o t)[i] = t[i - Len(s)]
<1> DEFINE u == s \o t
<1>1. Len(s) \in Nat /\ Len(t) \in Nat /\ DOMAIN s = 1..Len(s) /\ DOMAIN t = 1..Len(t)
  BY LenProperties
<1>2. /\ u \in Seq(Token) /\ Len(u) = Len(s) + Len(t)
      /\ \A i \in 1..Len(s) + Len(t) : u[i] = IF i <= Len(s) THEN s[i] ELSE t[i - Len(s)]
  BY ConcatProperties, Zenon
<1> HIDE DEF u
<1>3. DOMAIN u = 1..Len(s) + Len(t)
  BY <1>2, LenProperties
<1>4. ASSUME NEW i \in DOMAIN u
      PROVE  \/ i \in DOMAIN s /\ u[i] = s[i]
             \/ i - Len(s) \in DOMAIN t /\ u[i] = t[i - Len(s)]
  BY <1>1, <1>2, <1>3
<1> QED
  BY <1>1, <1>2, <1>3, <1>4 DEF u

\* Without heads in either, there is none in both.
LEMMA NoHeadsJoined ==
  ASSUME NEW s \in Seq(Token), NEW t \in Seq(Token), NoHeads(s), NoHeads(t)
  PROVE  NoHeads(s \o t)
BY Joined DEF NoHeads

\* The bytes of a body are as many tokens, none of them a head.
LEMMA BytesAreTokens ==
  ASSUME NEW data \in Seq(Nat), NEW n \in Nat
  PROVE  Bytes(data, n) \in Seq(Token) /\ Len(Bytes(data, n)) = n /\ NoHeads(Bytes(data, n))
<1> DEFINE e(i) == Byte(IF i <= Len(data) THEN data[i] ELSE 0)
<1>1. \A i \in 1..n : e(i) \in Token
  BY ElementOfSeq, LenProperties DEF Token, Byte
<1>2. [i \in 1..n |-> e(i)] \in Seq(Token)
  <2> HIDE DEF e
  <2> QED
    BY <1>1, IsASeq
<1>3. Bytes(data, n) = [i \in 1..n |-> e(i)]
  BY DEF Bytes
<1> QED
  BY <1>2, <1>3 DEF NoHeads, IsHead, Byte

\* A chunk is some tokens, none of them a head.
LEMMA ChunkIsTokens ==
  ASSUME NEW data \in Seq(Nat)
  PROVE  ChunkOf(data) \in Seq(Token) /\ ChunkOf(data) # <<>> /\ NoHeads(ChunkOf(data))
<1> DEFINE size == <<Size(Len(data))>>
           body == Bytes(data, Len(data))
           end == <<Crlf>>
<1>1. Len(data) \in Nat
  BY LenProperties
<1>2. size \in Seq(Token) /\ end \in Seq(Token) /\ Len(size) = 1 /\ Len(end) = 1
      /\ NoHeads(size) /\ NoHeads(end)
  BY <1>1 DEF Size, Crlf, Token, NoHeads, IsHead
<1>3. body \in Seq(Token) /\ Len(body) \in Nat /\ NoHeads(body)
  BY <1>1, BytesAreTokens
<1> HIDE DEF size, body, end
<1>4. size \o body \in Seq(Token) /\ Len(size \o body) = 1 + Len(body) /\ NoHeads(size \o body)
  BY <1>2, <1>3, Joined, NoHeadsJoined
<1> DEFINE all == (size \o body) \o end
<1>5. all \in Seq(Token) /\ Len(all) = Len(size \o body) + Len(end) /\ NoHeads(all)
  BY <1>2, <1>4, Joined, NoHeadsJoined
<1>6. ChunkOf(data) = all
  BY DEF ChunkOf, size, body, end
<1> HIDE DEF all
<1>7. all # <<>>
  BY <1>2, <1>3, <1>4, <1>5, EmptySeq
<1> QED
  BY <1>5, <1>6, <1>7

\* A head stands in front of what follows it, and only there.
LEMMA HeadLeads ==
  ASSUME NEW r \in Object, NEW s \in Seq(Token), NoHeads(s)
  PROVE  /\ HeadOf(r) \o s \in Seq(Token) /\ HeadOf(r) \o s # <<>>
         /\ (HeadOf(r) \o s)[1].status = r.status
         /\ \A i \in DOMAIN (HeadOf(r) \o s) : IsHead((HeadOf(r) \o s)[i]) => i = 1
<1>1. HeadOf(r) \in Seq(Token) /\ Len(HeadOf(r)) = 2 /\ HeadOf(r)[1].status = r.status /\ ~IsHead(HeadOf(r)[2])
  BY DEF HeadOf, Object, Token, IsHead
<1> HIDE DEF HeadOf
<1>2. /\ HeadOf(r) \o s \in Seq(Token) /\ Len(HeadOf(r) \o s) = 2 + Len(s) /\ Len(s) \in Nat
      /\ \A i \in DOMAIN (HeadOf(r) \o s) :
           \/ i \in 1..2 /\ (HeadOf(r) \o s)[i] = HeadOf(r)[i]
           \/ i - 2 \in DOMAIN s /\ (HeadOf(r) \o s)[i] = s[i - 2]
      /\ (HeadOf(r) \o s)[1] = HeadOf(r)[1]
  <2> DEFINE all == HeadOf(r) \o s
  <2>1. DOMAIN HeadOf(r) = 1..2
    BY <1>1, LenProperties
  <2>2. /\ all \in Seq(Token) /\ Len(all) = Len(HeadOf(r)) + Len(s) /\ Len(s) \in Nat
        /\ DOMAIN all = 1..Len(HeadOf(r)) + Len(s)
        /\ \A i \in DOMAIN all : \/ i \in DOMAIN HeadOf(r) /\ all[i] = HeadOf(r)[i]
                                 \/ i - Len(HeadOf(r)) \in DOMAIN s /\ all[i] = s[i - Len(HeadOf(r))]
    BY <1>1, Joined, Zenon
  <2> HIDE DEF all
  <2>3. Len(HeadOf(r)) = 2 /\ DOMAIN s = 1..Len(s)
    BY <1>1, LenProperties
  <2>4. all[1] = HeadOf(r)[1]
    BY <2>1, <2>2, <2>3
  <2> QED
    BY <2>1, <2>2, <2>3, <2>4 DEF all
<1>3. ASSUME NEW i \in DOMAIN (HeadOf(r) \o s), IsHead((HeadOf(r) \o s)[i]) PROVE i = 1
  BY <1>1, <1>2, <1>3 DEF NoHeads
<1> QED
  BY <1>1, <1>2, <1>3, EmptySeq

\* What VmRESTSetData has to write: the head, if it is still to be sent, leads
\* the first write, which sets bHeaderSent.
LEMMA WritesAreTokens ==
  ASSUME NEW r \in Object, NEW data \in Seq(Nat)
  PROVE  /\ Writes(r, data) \in Seq(WriteRecord)
         /\ \A i \in DOMAIN Writes(r, data) : Writes(r, data)[i].buffered
<1> DEFINE head == Write(HeadOf(r), TRUE, TRUE)
           chunk == Write(ChunkOf(data), FALSE, TRUE)
           whole == Write(HeadOf(r) \o Bytes(data, Head(GetHeader(r, "Content-Length"))), TRUE, TRUE)
<1>1. HeadOf(r) \in Seq(Token)
  BY DEF HeadOf, Object, Token
<1>2. head \in WriteRecord /\ chunk \in WriteRecord
  BY <1>1, ChunkIsTokens DEF WriteRecord, Write
<1>3. GetHeader(r, "Content-Length") # <<>> => whole \in WriteRecord
  BY LengthIsNumber, BytesAreTokens, HeadLeads DEF WriteRecord, Write
<1>4. head.buffered /\ chunk.buffered /\ whole.buffered
  BY DEF Write
<1> HIDE DEF head, chunk, whole
<1>5. CASE GetHeader(r, "Content-Length") # <<>>
  <2>1. Writes(r, data) = <<whole>>
    BY <1>5 DEF Writes, whole
  <2> QED
    BY <1>3, <1>4, <1>5, <2>1
<1>6. CASE GetHeader(r, "Content-Length") = <<>> /\ GetHeader(r, "Transfer-Encoding") # <<>>
  <2>1. Writes(r, data) = (IF r.headerSent THEN <<>> ELSE <<head>>) \o <<chunk>>
    BY <1>6 DEF Writes, head, chunk
  <2> QED
    BY <1>2, <1>4, <2>1
<1>7. CASE GetHeader(r, "Content-Length") = <<>> /\ GetHeader(r, "Transfer-Encoding") = <<>>
  <2>1. Writes(r, data) = <<>>
    BY <1>7 DEF Writes
  <2> QED
    BY <2>1
<1> QED
  BY <1>5, <1>6, <1>7

\* A part of a sequence.
LEMMA Slices ==
  ASSUME NEW S, NEW s \in Seq(S), NEW m \in Nat \ {0}, NEW n \in Nat, n <= Len(s)
  PROVE  /\ SubSeq(s, m, n) \in Seq(S)
         /\ DOMAIN SubSeq(s, m, n) = 1..n - m + 1
         /\ \A i \in 1..n - m + 1 : SubSeq(s, m, n)[i] = s[m + i - 1] /\ m + i - 1 \in DOMAIN s
<1>1. DOMAIN s = 1..Len(s) /\ Len(s) \in Nat
  BY LenProperties
<1>2. \A i \in m..n : s[i] \in S
  BY <1>1, ElementOfSeq
<1>3. /\ SubSeq(s, m, n) \in Seq(S)
      /\ Len(SubSeq(s, m, n)) = IF m <= n THEN n - m + 1 ELSE 0
      /\ \A i \in 1..n - m + 1 : SubSeq(s, m, n)[i] = s[m + i - 1]
  BY <1>2, SubSeqProperties
<1>4. DOMAIN SubSeq(s, m, n) = 1..Len(SubSeq(s, m, n))
  BY <1>3, LenProperties
<1>5. 1..Len(SubSeq(s, m, n)) = 1..n - m + 1
  BY <1>3
<1> QED
  BY <1>1, <1>3, <1>4, <1>5

\* What VmRESTGetHttpPayload returns is a part of the body.
LEMMA PieceOfPayload ==
  ASSUME NEW payload \in Seq(Nat), NEW got \in Nat
  PROVE  NextPiece(payload, got) \in Seq(Nat)
<1> DEFINE n == got + IF Len(payload) - got >= MaxData THEN MaxData ELSE Len(payload) - got
<1>1. Len(payload) \in Nat
  BY LenProperties
<1>2. n \in Nat /\ n <= Len(payload) /\ got + 1 \in Nat \ {0}
  BY <1>1, LimitsAssumption
<1> HIDE DEF n
<1>3. SubSeq(payload, got + 1, n) \in Seq(Nat)
  BY <1>2, Slices
<1> QED
  BY <1>3 DEF NextPiece, n

\* Another header.
LEMMA HeaderIsAdded ==
  ASSUME NEW r \in Object, NEW name, NEW value, <<name, value>> \in Header
  PROVE  SetHttpHeader(r, name, value) \in Object
<1>1. Append(r.headers, <<name, value>>) \in Seq(Header)
  BY AppendProperties DEF Object
<1> QED
  BY <1>1 DEF SetHttpHeader, Object

\* An answer that is described is still one.
LEMMA DescribedIsObject ==
  ASSUME NEW r \in Object, NEW status \in Statuses, NEW connection \in {"keep-alive", "close"}
  PROVE  Described(r, status, connection) \in Object
<1>1. [r EXCEPT !.status = status] \in Object
  BY DEF Object
<1>2. <<"Connection", connection>> \in Header
  BY DEF Header
<1> QED
  BY <1>1, <1>2, HeaderIsAdded DEF Described

\* The writes from the application's own buffer are writes of tokens.
LEMMA ZeroCopyWritesAreTokens ==
  ASSUME NEW r \in Object, NEW data \in Seq(Nat)
  PROVE  WritesZeroCopy(r, data) \in Seq(WriteRecord)
<1> DEFINE head == Write(HeadOf(r), FALSE, TRUE)
           body == Write(Bytes(data, Len(data)), FALSE, FALSE)
<1>1. HeadOf(r) \in Seq(Token)
  BY DEF HeadOf, Object, Token
<1>2. Len(data) \in Nat
  BY LenProperties
<1>3. head \in WriteRecord /\ body \in WriteRecord
  BY <1>1, <1>2, BytesAreTokens DEF WriteRecord, Write
<1> HIDE DEF head, body
<1>4. WritesZeroCopy(r, data) = <<head>> \o IF data = <<>> THEN <<>> ELSE <<body>>
  BY DEF WritesZeroCopy, head, body
<1> QED
  BY <1>3, <1>4

\* In what VmRESTSetData writes, only the first token of the first write may be a
\* head; it is there when none is sent or the length is told, and it sets
\* bHeaderSent.
LEMMA WritesLead ==
  ASSUME NEW r \in Object, NEW data \in Seq(Nat),
         NEW i \in DOMAIN Writes(r, data), NEW j \in DOMAIN Writes(r, data)[i].bytes,
         IsHead(Writes(r, data)[i].bytes[j])
  PROVE  /\ i = 1 /\ j = 1
         /\ Writes(r, data)[i].bytes[j].status = r.status
         /\ Writes(r, data)[i].marks
         /\ r.headerSent => \E h \in DOMAIN r.headers : r.headers[h][1] = "Content-Length"
<1> DEFINE tail == Bytes(data, Head(GetHeader(r, "Content-Length")))
           head == Write(HeadOf(r), TRUE, TRUE)
           chunk == Write(ChunkOf(data), FALSE, TRUE)
           whole == Write(HeadOf(r) \o tail, TRUE, TRUE)
<1>1. /\ HeadOf(r)[1].status = r.status
      /\ \A k \in DOMAIN HeadOf(r) : IsHead(HeadOf(r)[k]) => k = 1
  BY DEF HeadOf, IsHead
<1>2. NoHeads(ChunkOf(data))
  BY ChunkIsTokens
<1>3. CASE GetHeader(r, "Content-Length") # <<>>
  <2>1. \E h \in DOMAIN r.headers : r.headers[h][1] = "Content-Length"
    BY <1>3, HeaderIsFound DEF Object
  <2>2. tail \in Seq(Token) /\ NoHeads(tail)
    BY <1>3, LengthIsNumber, BytesAreTokens
  <2>3. /\ (HeadOf(r) \o tail)[1].status = r.status
        /\ \A k \in DOMAIN (HeadOf(r) \o tail) : IsHead((HeadOf(r) \o tail)[k]) => k = 1
    BY <2>2, HeadLeads
  <2>4. Writes(r, data) = <<whole>>
    BY <1>3 DEF Writes
  <2>5. whole.bytes = HeadOf(r) \o tail /\ whole.marks
    BY DEF Write
  <2> HIDE DEF whole, tail
  <2>6. i = 1 /\ Writes(r, data)[i] = whole
    BY <2>4
  <2> QED
    BY <2>1, <2>3, <2>5, <2>6
<1>4. CASE GetHeader(r, "Content-Length") = <<>> /\ GetHeader(r, "Transfer-Encoding") # <<>>
  <2>1. Writes(r, data) = (IF r.headerSent THEN <<>> ELSE <<head>>) \o <<chunk>>
    BY <1>4 DEF Writes
  <2>2. head.bytes = HeadOf(r) /\ head.marks /\ chunk.bytes = ChunkOf(data)
    BY DEF Write
  <2> HIDE DEF head, chunk
  <2>3. CASE r.headerSent
    <3>1. Writes(r, data)[i] = chunk
      BY <2>1, <2>3
    <3> QED
      BY <1>2, <2>2, <3>1 DEF NoHeads
  <2>4. CASE ~r.headerSent
    <3>1. (i = 1 /\ Writes(r, data)[i] = head) \/ Writes(r, data)[i] = chunk
      BY <2>1, <2>4
    <3> QED
      BY <1>1, <1>2, <2>2, <2>4, <3>1 DEF NoHeads
  <2> QED
    BY <2>3, <2>4 DEF Object
<1>5. CASE GetHeader(r, "Content-Length") = <<>> /\ GetHeader(r, "Transfer-Encoding") = <<>>
  <2>1. Writes(r, data) = <<>>
    BY <1>5 DEF Writes
  <2> QED
    BY <2>1
<1> QED
  BY <1>3, <1>4, <1>5

-----------------------------------------------------------------------------
(* Types of the data. *)

\* A call keeps the types of the data.
LEMMA CallKeepsData ==
  ASSUME NEW who \in Callers, NEW writes \in Seq(WriteRecord), NEW m, NEW done \in Application,
         DataOK, Call(who, writes, m, done),
         request' = request, resp' \in [{"answer", "interim"} -> Object]
  PROVE  DataOK'
<1>1. app' \in Application /\ sent' = sent
  BY DEF Call, DataOK, Application
<1>2. todo' \in Seq(WriteRecord) /\ (pc' = "write" => todo' # <<>>)
  <2>1. CASE Return(who, FALSE, m)
    BY <2>1 DEF Return, Callers
  <2>2. CASE todo' = writes /\ writes # <<>>
    BY <2>2
  <2> QED
    BY <2>1, <2>2 DEF Call
<1> QED
  BY <1>1, <1>2 DEF DataOK

\* The types of the data.
LEMMA DataIsTyped == TypeOK /\ DataOK /\ [Next]_vars => DataOK'
<1> SUFFICES ASSUME TypeOK, DataOK, [Next]_vars PROVE DataOK'
  OBVIOUS
<1>1. CASE UNCHANGED <<request, resp, app, todo, sent>> /\ (pc' = "write" => pc = "write")
  BY <1>1 DEF DataOK
<1>2. CASE HandleExpect
  <2> DEFINE r == SetHttpHeader(Described(EmptyResponse, "100", "close"), "Content-Length", 0)
  <2>1. EmptyResponse \in Object /\ <<"Content-Length", 0>> \in Header /\ "100" \in Statuses
    BY EmptySeq DEF EmptyResponse, Object, Statuses, Header
  <2>2. r \in Object
    BY <2>1, DescribedIsObject, HeaderIsAdded
  <2>3. /\ resp' = [resp EXCEPT !["interim"] = r]
        /\ Call("interim", Writes(r, <<>>), mem \cup ResponsePacket("interim"), app)
        /\ request' = request
    BY <1>2 DEF HandleExpect
  <2> HIDE DEF r
  <2>4. Writes(r, <<>>) \in Seq(WriteRecord)
    BY <2>2, WritesAreTokens, EmptySeq
  <2>5. resp' \in [{"answer", "interim"} -> Object] /\ app \in Application
    BY <2>2, <2>3 DEF DataOK
  <2> QED
    BY <2>3, <2>4, <2>5, CallKeepsData DEF Callers
<1>3. CASE GetData \/ GetDataZC
  <2>1. Len(app.data) \in Nat /\ app.data \in Seq(Nat) /\ request.payload \in Seq(Nat)
    BY LenProperties DEF DataOK, Application
  <2>2. app.data \o NextPiece(request.payload, Len(app.data)) \in Seq(Nat)
    BY <2>1, PieceOfPayload, ConcatProperties
  <2>3. app' \in Application
    BY <1>3, <2>1, <2>2 DEF GetData, GetDataZC, Fails, DataOK, Application
  <2>4. UNCHANGED <<request, resp, pc, todo, sent>>
    BY <1>3 DEF GetData, GetDataZC, linkVars
  <2> QED
    BY <2>3, <2>4 DEF DataOK
<1>4. ASSUME NEW status \in {"200", "404"}, Describe(status) PROVE DataOK'
  <2> DEFINE connection == IF status = "200" /\ request.keepAlive THEN "keep-alive" ELSE "close"
  <2>1. resp["answer"] \in Object /\ status \in Statuses
    BY DEF DataOK, Statuses
  <2>2. Described(resp["answer"], status, connection) \in Object
    BY <2>1, DescribedIsObject
  <2>3. resp' \in [{"answer", "interim"} -> Object] /\ app' \in Application
    BY <1>4, <2>2 DEF Describe, DataOK, Application
  <2> QED
    BY <1>4, <2>3 DEF Describe, DataOK, linkVars
<1>5. CASE SetDataLength
  <2>1. resp["answer"] \in Object /\ Len(app.data) \in Nat
    BY LenProperties DEF DataOK, Application
  <2>2. <<"Content-Length", Len(app.data)>> \in Header /\ <<"Transfer-Encoding", "chunked">> \in Header
    BY <2>1 DEF Header
  <2>3. /\ SetHttpHeader(resp["answer"], "Content-Length", Len(app.data)) \in Object
        /\ SetHttpHeader(resp["answer"], "Transfer-Encoding", "chunked") \in Object
    BY <2>1, <2>2, HeaderIsAdded
  <2>4. resp' \in [{"answer", "interim"} -> Object]
    BY <1>5, <2>3 DEF SetDataLength, DataOK
  <2>5. app' \in Application
    BY <1>5 DEF SetDataLength, DataOK, Application
  <2> QED
    BY <1>5, <2>4, <2>5 DEF SetDataLength, DataOK, linkVars
<1>6. CASE SetData
  <2>1. resp["answer"] \in Object /\ app.data \in Seq(Nat) /\ app.left \in Seq(Nat) /\ Len(app.left) \in Nat
    BY LenProperties DEF DataOK, Application
  <2>2. UNCHANGED <<request, resp>>
    BY <1>6 DEF SetData
  <2>3. CASE Call("callback", Writes(resp["answer"], app.data), mem, [app EXCEPT !.stage = "answered"])
    <3>1. [app EXCEPT !.stage = "answered"] \in Application
      BY DEF DataOK, Application
    <3> QED
      BY <2>1, <2>2, <2>3, <3>1, WritesAreTokens, CallKeepsData DEF DataOK, Callers
  <2>4. ASSUME NEW n \in 0..Len(app.left), NEW stage \in {"answered", "chunks"},
               Call("callback", Writes(resp["answer"], SubSeq(app.left, 1, n)), mem,
                    [app EXCEPT !.left = SubSeq(@, n + 1, Len(@)), !.stage = stage])
        PROVE  DataOK'
    <3>1. SubSeq(app.left, 1, n) \in Seq(Nat) /\ SubSeq(app.left, n + 1, Len(app.left)) \in Seq(Nat)
      BY <2>1, Slices
    <3>2. [app EXCEPT !.left = SubSeq(@, n + 1, Len(@)), !.stage = stage] \in Application
      BY <3>1 DEF DataOK, Application
    <3> QED
      BY <2>1, <2>2, <2>4, <3>1, <3>2, WritesAreTokens, CallKeepsData DEF DataOK, Callers
  <2> QED
    BY <1>6, <2>3, <2>4 DEF SetData
<1>7. CASE SetDataZC
  <2> DEFINE r == SetHttpHeader(resp["answer"], "Content-Length", Len(app.data))
             done == [app EXCEPT !.stage = "answered", !.zeroCopy = TRUE]
  <2>1. resp["answer"] \in Object /\ app.data \in Seq(Nat) /\ Len(app.data) \in Nat
    BY LenProperties DEF DataOK, Application
  <2>2. r \in Object
    BY <2>1, HeaderIsAdded DEF Header
  <2>3. /\ resp' = IF Stopped THEN resp ELSE [resp EXCEPT !["answer"] = r]
        /\ Call("callback", WritesZeroCopy(r, app.data), mem, done)
        /\ request' = request
    BY <1>7 DEF SetDataZC
  <2>4. done \in Application
    BY DEF DataOK, Application
  <2> HIDE DEF r, done
  <2>5. resp' \in [{"answer", "interim"} -> Object]
    BY <2>2, <2>3 DEF DataOK
  <2>6. WritesZeroCopy(r, app.data) \in Seq(WriteRecord)
    BY <2>1, <2>2, ZeroCopyWritesAreTokens
  <2> QED
    BY <2>3, <2>4, <2>5, <2>6, CallKeepsData DEF Callers
<1>8. CASE DescribeFailure
  <2>1. resp["answer"] \in Object /\ "error" \in Statuses /\ <<"Content-Length", 0>> \in Header
    BY DEF DataOK, Statuses, Header
  <2>2. FailureLength(Described(resp["answer"], "error", "close")) \in Object
    BY <2>1, DescribedIsObject, HeaderIsAdded DEF FailureLength
  <2>3. resp' \in [{"answer", "interim"} -> Object]
    BY <1>8, <2>2 DEF DescribeFailure, DataOK
  <2> QED
    BY <1>8, <2>3 DEF DescribeFailure, DataOK, linkVars
<1>9. CASE SendFailureResponse
  <2>1. resp["answer"] \in Object /\ app \in Application /\ resp \in [{"answer", "interim"} -> Object]
    BY DEF DataOK
  <2>2. Writes(resp["answer"], <<>>) \in Seq(WriteRecord)
    BY <2>1, WritesAreTokens, EmptySeq
  <2> QED
    BY <1>9, <2>1, <2>2, CallKeepsData DEF SendFailureResponse, Callers
<1>10. CASE WriteSome
  <2>1. Current \in WriteRecord /\ Tail(todo) \in Seq(WriteRecord)
    BY <1>10, HeadTailProperties DEF WriteSome, Ready, Current, DataOK
  <2>2. PICK k \in 1..Len(Current.bytes) - 1 :
          /\ sent' = sent \o SubSeq(Current.bytes, 1, k)
          /\ todo' = <<[Current EXCEPT !.bytes = SubSeq(@, k + 1, Len(@))]>> \o Tail(todo)
    BY <1>10 DEF WriteSome
  <2>3. Current.bytes \in Seq(Token) /\ Len(Current.bytes) \in Nat
    BY <2>1, LenProperties DEF WriteRecord
  <2>4. SubSeq(Current.bytes, 1, k) \in Seq(Token) /\ SubSeq(Current.bytes, k + 1, Len(Current.bytes)) \in Seq(Token)
    BY <2>3, Slices
  <2>5. sent' \in Seq(Token)
    BY <2>2, <2>4, ConcatProperties DEF DataOK
  <2>6. [Current EXCEPT !.bytes = SubSeq(@, k + 1, Len(@))] \in WriteRecord
    BY <2>1, <2>4 DEF WriteRecord
  <2>7. todo' \in Seq(WriteRecord) /\ todo' # <<>>
    BY <2>1, <2>2, <2>6
  <2> QED
    BY <1>10, <2>5, <2>7 DEF WriteSome, DataOK
<1>11. CASE WriteAll
  <2>1. Current \in WriteRecord /\ Tail(todo) \in Seq(WriteRecord)
    BY <1>11, HeadTailProperties DEF WriteAll, Ready, Current, DataOK
  <2>2. sent' \in Seq(Token)
    BY <1>11, <2>1, ConcatProperties DEF WriteAll, DataOK, WriteRecord
  <2>3. resp' \in [{"answer", "interim"} -> Object]
    BY <1>11 DEF WriteAll, HeaderSent, DataOK, Object, Target
  <2>4. todo' \in Seq(WriteRecord) /\ (pc' = "write" => todo' # <<>>)
    BY <1>11, <2>1 DEF WriteAll, Ready, Return, TypeOK
  <2> QED
    BY <1>11, <2>2, <2>3, <2>4 DEF WriteAll, DataOK
<1>12. CASE WriteFails
  <2>1. todo' = <<>> /\ pc' # "write"
    BY <1>12 DEF WriteFails, Return, TypeOK
  <2>2. app' \in Application /\ UNCHANGED <<request, resp, sent>>
    BY <1>12 DEF WriteFails, DataOK, Application
  <2> QED
    BY <2>1, <2>2 DEF DataOK
<1>13. CASE \/ GetRequestHandle \/ GetRequestHandleFails \/ TriggerAppCb \/ ReturnSuccess \/ ReturnError
            \/ SayNothing \/ AllocateBuffer \/ Retry \/ Finish \/ Congestion
            \/ \E reason \in {"input", "timeout"} : Refuse(reason)
            \/ \E event \in {"stop", "reset"} : Disturb(event)
            \/ UNCHANGED vars
  <2>1. UNCHANGED <<request, resp, app, todo, sent>> /\ (pc' = "write" => pc = "write")
    BY <1>13 DEF GetRequestHandle, GetRequestHandleFails, TriggerAppCb, ReturnSuccess, ReturnError,
         SayNothing, AllocateBuffer, Retry, Finish, Congestion, Refuse, Disturb, vars, linkVars
  <2> QED
    BY <1>1, <2>1
<1> QED
  BY <1>2, <1>3, <1>4, <1>5, <1>6, <1>7, <1>8, <1>9, <1>10, <1>11, <1>12, <1>13
     DEF Next, Serve, Parse, Callback, Transmit

-----------------------------------------------------------------------------
(* Heads. *)

\* The status of each response object is its own.
LEMMA StatusesAreKept == TypeOK /\ DataOK /\ StatusInv /\ [Next]_vars => StatusInv'
<1> SUFFICES ASSUME TypeOK, DataOK, StatusInv, [Next]_vars PROVE StatusInv'
  OBVIOUS
<1> USE DEF StatusInv, DataOK, SetHttpHeader, Described
<1>1. CASE UNCHANGED resp
  BY <1>1
<1>2. CASE HandleExpect
  BY <1>2 DEF HandleExpect, EmptyResponse, Object
<1>3. ASSUME NEW status \in {"200", "404"}, Describe(status) PROVE StatusInv'
  BY <1>3 DEF Describe, Object
<1>4. CASE SetDataLength
  <2>1. \E name, value : resp' = [resp EXCEPT !["answer"] = SetHttpHeader(@, name, value)]
    BY <1>4 DEF SetDataLength
  <2>2. resp'["answer"].status = resp["answer"].status /\ resp'["interim"] = resp["interim"]
    BY <2>1 DEF Object
  <2> QED
    BY <2>2
<1>5. CASE SetDataZC
  BY <1>5 DEF SetDataZC, Object
<1>6. CASE DescribeFailure
  BY <1>6 DEF DescribeFailure, FailureLength, Object
<1>7. CASE WriteAll
  BY <1>7 DEF WriteAll, HeaderSent, Target, Object
<1>8. CASE \/ GetRequestHandle \/ GetRequestHandleFails \/ TriggerAppCb \/ GetData \/ GetDataZC
           \/ SetData \/ ReturnSuccess \/ ReturnError \/ SayNothing \/ SendFailureResponse
           \/ AllocateBuffer \/ WriteSome \/ Retry \/ WriteFails \/ Finish \/ Congestion
           \/ \E reason \in {"input", "timeout"} : Refuse(reason)
           \/ \E event \in {"stop", "reset"} : Disturb(event)
           \/ UNCHANGED vars
  <2>1. UNCHANGED resp
    BY <1>8 DEF GetRequestHandle, GetRequestHandleFails, TriggerAppCb, GetData, GetDataZC, SetData,
         ReturnSuccess, ReturnError, SayNothing, SendFailureResponse, AllocateBuffer, WriteSome, Retry,
         WriteFails, Finish, Congestion, Refuse, Disturb, vars, linkVars
  <2> QED
    BY <1>1, <2>1
<1> QED
  BY <1>2, <1>3, <1>4, <1>5, <1>6, <1>7, <1>8 DEF Next, Serve, Parse, Callback, Transmit

\* Trouble and the use of the zero-copy call last.
LEMMA TroubleLasts ==
  ASSUME TypeOK, DataOK, [Next]_vars
  PROVE  (Regular' => Regular) /\ (~Broken' => ~Broken)
<1> USE DEF Regular, Broken, DataOK, Application
<1>1. CASE UNCHANGED trouble /\ app'.zeroCopy = app.zeroCopy
  BY <1>1
<1>2. CASE GetRequestHandleFails \/ WriteFails \/ \E event \in {"stop", "reset"} : Disturb(event)
  BY <1>2 DEF GetRequestHandleFails, WriteFails, Disturb
<1>3. CASE SetData \/ SetDataZC \/ SendFailureResponse \/ HandleExpect
  BY <1>3 DEF SetData, SetDataZC, SendFailureResponse, HandleExpect, Call
<1>4. CASE \/ GetRequestHandle \/ TriggerAppCb \/ GetData \/ GetDataZC
           \/ SetDataLength \/ ReturnSuccess \/ ReturnError \/ SayNothing \/ DescribeFailure
           \/ AllocateBuffer \/ WriteSome \/ WriteAll \/ Retry \/ Finish \/ Congestion
           \/ \E status \in {"200", "404"} : Describe(status)
           \/ \E reason \in {"input", "timeout"} : Refuse(reason)
           \/ UNCHANGED vars
  <2>1. UNCHANGED trouble /\ app'.zeroCopy = app.zeroCopy
    BY <1>4 DEF GetRequestHandle, TriggerAppCb, GetData, GetDataZC, Fails, SetDataLength,
         ReturnSuccess, ReturnError, SayNothing, DescribeFailure, AllocateBuffer, WriteSome, WriteAll, Retry,
         Finish, Congestion, Describe, Refuse, vars, linkVars
  <2> QED
    BY <1>1, <2>1
<1> QED
  BY <1>2, <1>3, <1>4 DEF Next, Serve, Parse, Callback, Transmit

\* A broken connection takes nothing more.
LEMMA BrokenTakesNothing ==
  ASSUME TypeOK, DataOK, [Next]_vars, ~(WriteSome \/ WriteAll)
  PROVE  sent' = sent
<1>1. CASE SetData \/ SetDataZC \/ SendFailureResponse \/ HandleExpect
  BY <1>1 DEF SetData, SetDataZC, SendFailureResponse, HandleExpect, Call
<1>2. CASE \/ GetRequestHandle \/ GetRequestHandleFails \/ TriggerAppCb \/ GetData \/ GetDataZC
           \/ SetDataLength \/ ReturnSuccess \/ ReturnError \/ SayNothing \/ DescribeFailure
           \/ AllocateBuffer \/ Retry \/ WriteFails \/ Finish \/ Congestion
           \/ \E status \in {"200", "404"} : Describe(status)
           \/ \E reason \in {"input", "timeout"} : Refuse(reason)
           \/ \E event \in {"stop", "reset"} : Disturb(event)
           \/ UNCHANGED vars
  BY <1>2 DEF GetRequestHandle, GetRequestHandleFails, TriggerAppCb, GetData, GetDataZC, SetDataLength,
         ReturnSuccess, ReturnError, SayNothing, DescribeFailure, AllocateBuffer, Retry,
         WriteFails, Finish, Congestion, Describe, Refuse, Disturb, vars, linkVars
<1> QED
  BY <1>1, <1>2 DEF Next, Serve, Parse, Callback, Transmit

\* What is sent of the current write.
LEMMA SendKeepsHeads ==
  ASSUME DataOK, SentInv, EarlyInv, WriteInv, pc = "write", NEW k \in 1..Len(todo[1].bytes),
         sent' = sent \o SubSeq(todo[1].bytes, 1, k)
  PROVE  /\ SentInv'
         /\ NothingAnswered /\ ~todo[1].marks => NothingAnswered'
         /\ caller = "interim" => NothingAnswered'
<1> DEFINE bytes == todo[1].bytes
           piece == SubSeq(bytes, 1, k)
<1>1. 1 \in DOMAIN todo /\ todo[1] \in WriteRecord
  BY LenProperties, ElementOfSeq, EmptySeq DEF DataOK
<1>2. bytes \in Seq(Token) /\ Len(bytes) \in Nat /\ sent \in Seq(Token) /\ Len(sent) \in Nat
  BY <1>1, LenProperties DEF DataOK, WriteRecord
<1>3. /\ piece \in Seq(Token) /\ DOMAIN piece = 1..k
      /\ \A i \in 1..k : piece[i] = bytes[i] /\ i \in DOMAIN bytes
  BY <1>2, Slices
<1>4. \A j \in DOMAIN bytes : IsHead(bytes[j]) =>
        /\ j = 1
        /\ IF caller = "interim" THEN bytes[j].status = "100" /\ sent = <<>>
           ELSE bytes[j].status # "100" /\ NothingAnswered /\ todo[1].marks
  BY <1>1 DEF WriteInv
<1> HIDE DEF bytes
<1>5. \A i \in DOMAIN piece : IsHead(piece[i]) =>
        /\ i = 1
        /\ IF caller = "interim" THEN piece[i].status = "100" /\ sent = <<>>
           ELSE piece[i].status # "100" /\ NothingAnswered /\ todo[1].marks
  BY <1>3, <1>4
<1>6. sent' = sent \o piece
  BY DEF bytes
<1> HIDE DEF piece
<1>7. /\ DOMAIN sent' = 1..Len(sent) + Len(piece) /\ Len(piece) \in Nat
      /\ \A i \in DOMAIN sent' : \/ i \in DOMAIN sent /\ sent'[i] = sent[i]
                                 \/ i - Len(sent) \in DOMAIN piece /\ sent'[i] = piece[i - Len(sent)]
  <2> DEFINE all == sent \o piece
  <2>1. /\ DOMAIN all = 1..Len(sent) + Len(piece) /\ Len(piece) \in Nat
        /\ \A i \in DOMAIN all : \/ i \in DOMAIN sent /\ all[i] = sent[i]
                                 \/ i - Len(sent) \in DOMAIN piece /\ all[i] = piece[i - Len(sent)]
    BY <1>2, <1>3, Joined
  <2>2. sent' = all
    BY <1>6
  <2> HIDE DEF all
  <2> QED
    BY <2>1, <2>2
<1>8. ASSUME NEW i \in DOMAIN sent', IsHead(sent'[i])
      PROVE  \/ i \in DOMAIN sent /\ sent'[i] = sent[i]
             \/ /\ i = Len(sent) + 1
                /\ IF caller = "interim" THEN sent'[i].status = "100" /\ sent = <<>>
                   ELSE sent'[i].status # "100" /\ NothingAnswered /\ todo[1].marks
  <2>1. CASE i - Len(sent) \in DOMAIN piece /\ sent'[i] = piece[i - Len(sent)]
    <3>1. i \in Nat /\ i - Len(sent) = 1
      BY <1>2, <1>5, <1>7, <1>8, <2>1
    <3>2. i = Len(sent) + 1
      BY <1>2, <3>1
    <3> QED
      BY <1>5, <1>8, <2>1, <3>2
  <2> QED
    BY <1>7, <2>1
<1>9. ASSUME NEW i \in DOMAIN sent', IsHead(sent'[i]), sent'[i].status = "100" PROVE i = 1
  <2>1. CASE i \in DOMAIN sent /\ sent'[i] = sent[i]
    BY <1>9, <2>1 DEF SentInv
  <2>2. CASE i = Len(sent) + 1 /\ sent = <<>>
    BY <2>2, EmptySeq
  <2> QED
    BY <1>8, <1>9, <2>1, <2>2
<1>10. ASSUME NEW i \in DOMAIN sent', IsAnswer(sent'[i])
       PROVE  \/ i \in DOMAIN sent /\ IsAnswer(sent[i])
              \/ i = Len(sent) + 1 /\ NothingAnswered /\ caller # "interim" /\ todo[1].marks
  BY <1>8, <1>10 DEF IsAnswer
<1>11. SentInv'
  <2>1. ASSUME NEW i \in DOMAIN sent', NEW j \in DOMAIN sent', IsAnswer(sent'[i]), IsAnswer(sent'[j]) PROVE i = j
    BY <1>10, <2>1 DEF SentInv, NothingAnswered
  <2> QED
    BY <1>9, <2>1 DEF SentInv, IsAnswer, IsHead
<1>12. caller = "interim" => NothingAnswered'
  BY <1>10 DEF NothingAnswered, EarlyInv, IsAnswer, IsHead
<1>13. NothingAnswered /\ ~todo[1].marks => NothingAnswered'
  BY <1>10 DEF NothingAnswered, IsAnswer, IsHead
<1> QED
  BY <1>11, <1>12, <1>13

\* What holds while the connection is sound and no write was given up.
Before == TypeOK /\ DataOK /\ StatusInv /\ SentInv /\ WorkerInv

\* A part of a write is sent.
LEMMA PartKeepsWorker ==
  ASSUME Before, WriteSome
  PROVE  SentInv' /\ WorkerInv'
<1> USE DEF Before, WorkerInv
<1>1. /\ pc = "write" /\ Current = todo[1] /\ (todo[1].buffered => Buffer \in mem)
      /\ UNCHANGED <<pc, caller, mem, resp, interim, app>>
  BY HeadTailProperties DEF WriteSome, Ready, Current, DataOK
<1>2. PICK k \in 1..Len(todo[1].bytes) - 1 :
        /\ sent' = sent \o SubSeq(todo[1].bytes, 1, k)
        /\ todo' = <<[todo[1] EXCEPT !.bytes = SubSeq(@, k + 1, Len(@))]>> \o Tail(todo)
  BY <1>1 DEF WriteSome
<1>3. 1 \in DOMAIN todo /\ todo[1] \in WriteRecord /\ DOMAIN todo = 1..Len(todo) /\ Len(todo) \in Nat
  BY <1>1, LenProperties, ElementOfSeq, EmptySeq DEF DataOK
<1>4. todo[1].bytes \in Seq(Token) /\ Len(todo[1].bytes) \in Nat
  BY <1>3, LenProperties DEF WriteRecord
<1>5. SentInv' /\ (NothingAnswered /\ ~todo[1].marks => NothingAnswered') /\ (caller = "interim" => NothingAnswered')
  <2>1. k \in 1..Len(todo[1].bytes)
    BY <1>4
  <2> QED
    BY <1>1, <1>2, <2>1, SendKeepsHeads
<1>6. todo[1].buffered
  BY <1>1, <1>3 DEF WriteInv
<1>7. ASSUME NEW i \in DOMAIN todo'
      PROVE  /\ i \in DOMAIN todo
             /\ todo'[i] = IF i = 1 THEN [todo[1] EXCEPT !.bytes = SubSeq(@, k + 1, Len(@))] ELSE todo[i]
  <2> DEFINE first == [todo[1] EXCEPT !.bytes = SubSeq(@, k + 1, Len(@))]
  <2>1. Tail(todo) \in Seq(WriteRecord) /\ Len(Tail(todo)) = Len(todo) - 1
        /\ \A j \in 1..Len(Tail(todo)) : Tail(todo)[j] = todo[j + 1]
    BY <1>1, HeadTailProperties DEF DataOK
  <2>2. todo' = <<first>> \o Tail(todo)
    BY <1>2
  <2> HIDE DEF first
  <2>3. DOMAIN todo' = 1..Len(todo) /\ \A j \in 1..Len(todo) : todo'[j] = IF j = 1 THEN first ELSE Tail(todo)[j - 1]
    BY <1>3, <2>1, <2>2
  <2>4. i \in 1..Len(todo) /\ (i # 1 => i - 1 \in 1..Len(Tail(todo)) /\ i - 1 + 1 = i)
    BY <1>3, <2>1, <2>3
  <2>5. i # 1 => Tail(todo)[i - 1] = todo[i]
    BY <2>1, <2>4
  <2> QED
    BY <1>3, <2>3, <2>4, <2>5 DEF first
<1>8. ASSUME NEW i \in DOMAIN todo' PROVE todo'[i].buffered /\ NoHeads(todo'[i].bytes)
  <2>1. CASE i = 1
    <3>1. todo'[i].bytes = SubSeq(todo[1].bytes, k + 1, Len(todo[1].bytes)) /\ todo'[i].buffered = todo[1].buffered
      BY <1>3, <1>7, <1>8, <2>1 DEF WriteRecord
    <3>2. \A j \in DOMAIN todo'[i].bytes : k + 1 + j - 1 \in DOMAIN todo[1].bytes
                                          /\ todo'[i].bytes[j] = todo[1].bytes[k + 1 + j - 1]
                                          /\ k + 1 + j - 1 # 1
      BY <1>4, <3>1, Slices
    <3> QED
      BY <1>1, <1>3, <1>6, <3>1, <3>2 DEF WriteInv, NoHeads
  <2>2. CASE i # 1
    BY <1>1, <1>7, <1>8, <2>2 DEF WriteInv, NoHeads
  <2> QED
    BY <2>1, <2>2
<1>9. todo'[1].marks = todo[1].marks
  BY <1>2, <1>3, <1>7, HeadTailProperties DEF DataOK, WriteRecord
<1>10. WriteInv'
  <2>1. caller # "interim" => NothingAnswered' \/ resp'["answer"].headerSent \/ (todo'[1].marks /\ Buffer \in mem')
    BY <1>1, <1>5, <1>6, <1>9 DEF WriteInv
  <2> QED
    BY <1>1, <1>8, <2>1 DEF WriteInv, NoHeads
<1>11. EarlyInv'
  BY <1>1, <1>5 DEF EarlyInv
<1>12. FlagInv' /\ LengthInv'
  BY <1>1 DEF FlagInv, LengthInv
<1> QED
  BY <1>5, <1>10, <1>11, <1>12

\* All of a write is sent: bHeaderSent is set if a head is sent.
LEMMA AllKeepsWorker ==
  ASSUME Before, WriteAll
  PROVE  SentInv' /\ WorkerInv'
<1> USE DEF Before, WorkerInv
<1>1. /\ pc = "write" /\ Current = todo[1] /\ (todo[1].buffered => Buffer \in mem)
      /\ UNCHANGED <<caller, interim, app>>
      /\ resp' = IF todo[1].marks THEN [resp EXCEPT ![Target(caller)] = HeaderSent(@)] ELSE resp
      /\ caller \in Callers
  BY HeadTailProperties DEF WriteAll, Ready, Current, DataOK, TypeOK, Callers
<1>2. 1 \in DOMAIN todo /\ todo[1] \in WriteRecord /\ DOMAIN todo = 1..Len(todo) /\ Len(todo) \in Nat
  BY <1>1, LenProperties, ElementOfSeq, EmptySeq DEF DataOK
<1>3. todo[1].bytes \in Seq(Token) /\ Len(todo[1].bytes) \in Nat
  BY <1>2, LenProperties DEF WriteRecord
<1>4. SentInv' /\ (NothingAnswered /\ ~todo[1].marks => NothingAnswered') /\ (caller = "interim" => NothingAnswered')
  <2>1. CASE Len(todo[1].bytes) = 0
    <3>1. sent' = sent
      BY <1>1, <1>3, <2>1, EmptySeq, ConcatEmptySeq DEF WriteAll, DataOK
    <3> QED
      BY <1>1, <3>1 DEF SentInv, NothingAnswered, IsAnswer, IsHead, EarlyInv
  <2>2. CASE Len(todo[1].bytes) # 0
    <3>1. sent' = sent \o SubSeq(todo[1].bytes, 1, Len(todo[1].bytes))
      BY <1>1, <1>3, SubSeqFull DEF WriteAll
    <3>2. Len(todo[1].bytes) \in 1..Len(todo[1].bytes)
      BY <1>3, <2>2
    <3> QED
      BY <1>1, <3>1, <3>2, SendKeepsHeads
  <2> QED
    BY <2>1, <2>2
<1>5. /\ caller = "interim" => resp'["answer"] = resp["answer"]
      /\ caller # "interim" =>
           /\ resp'["answer"].headers = resp["answer"].headers
           /\ resp["answer"].headerSent \/ todo[1].marks => resp'["answer"].headerSent
  BY <1>1 DEF HeaderSent, Target, DataOK, Object
<1>6. caller # "interim" => NothingAnswered' \/ resp'["answer"].headerSent
  BY <1>1, <1>4, <1>5 DEF WriteInv
<1>7. CASE Tail(todo) = <<>>
  <2>1. pc' = CASE caller = "interim"  -> "parse"
                [] caller = "callback" -> "callback"
                [] caller = "failure"  -> "finish"
    BY <1>7 DEF WriteAll, Return
  <2>2. EarlyInv'
    BY <1>1, <1>4, <1>5, <2>1 DEF EarlyInv, Callers
  <2>3. FlagInv'
    BY <1>1, <1>6, <2>1 DEF FlagInv, WriteInv, Callers
  <2>4. LengthInv'
    BY <1>1, <1>5, <2>1 DEF LengthInv, Callers
  <2>5. WriteInv'
    BY <1>1, <2>1 DEF WriteInv, Callers
  <2> QED
    BY <1>4, <2>2, <2>3, <2>4, <2>5
<1>8. CASE Tail(todo) # <<>>
  <2>1. pc' = "write" /\ todo' = Tail(todo)
    BY <1>1, <1>8 DEF WriteAll
  <2>2. \A i \in DOMAIN todo' : i + 1 \in DOMAIN todo /\ todo'[i] = todo[i + 1] /\ i + 1 # 1
    <3>1. Tail(todo) \in Seq(WriteRecord) /\ Len(Tail(todo)) = Len(todo) - 1
          /\ \A j \in 1..Len(Tail(todo)) : Tail(todo)[j] = todo[j + 1]
      BY <1>1, HeadTailProperties DEF DataOK
    <3>2. DOMAIN Tail(todo) = 1..Len(Tail(todo))
      BY <3>1, LenProperties
    <3> QED
      BY <1>2, <2>1, <3>1, <3>2
  <2>3. \A i \in DOMAIN todo' : todo'[i].buffered /\ NoHeads(todo'[i].bytes)
    BY <1>1, <2>2 DEF WriteInv, NoHeads
  <2>4. EarlyInv'
    BY <1>1, <1>4, <1>5, <2>1 DEF EarlyInv
  <2>5. FlagInv' /\ LengthInv'
    BY <1>1, <1>5, <2>1 DEF FlagInv, LengthInv
  <2>6. WriteInv'
    BY <1>1, <1>6, <2>1, <2>3 DEF WriteInv, NoHeads
  <2> QED
    BY <1>4, <2>4, <2>5, <2>6
<1> QED
  BY <1>7, <1>8

\* A write that fails for want of memory has sent nothing.
LEMMA FailureKeepsWorker ==
  ASSUME Before, WriteFails, Regular', ~Broken
  PROVE  WorkerInv'
<1> USE DEF Before, WorkerInv
<1>1. /\ pc = "write" /\ Buffer \notin mem /\ Return(caller, FALSE, mem \ {Buffer})
      /\ app' = IF caller = "callback" THEN [app EXCEPT !.stage = "failed"] ELSE app
      /\ UNCHANGED <<caller, resp, interim, sent>>
      /\ caller \in Callers
  BY DEF WriteFails, Regular, TypeOK, Callers
<1>2. pc' = CASE caller = "interim"  -> "failing"
              [] caller = "callback" -> "callback"
              [] caller = "failure"  -> "finish"
  BY <1>1 DEF Return
<1>3. NothingAnswered' = NothingAnswered
  BY <1>1 DEF NothingAnswered
<1>4. caller = "callback" => app'.stage = "failed"
  BY <1>1 DEF DataOK, Application
<1>5. EarlyInv' /\ WriteInv'
  BY <1>1, <1>2 DEF EarlyInv, WriteInv, Callers
<1>6. NothingAnswered \/ resp["answer"].headerSent
  BY <1>1 DEF WriteInv, EarlyInv
<1>7. FlagInv'
  BY <1>1, <1>2, <1>3, <1>4, <1>6 DEF FlagInv, Callers
<1>8. LengthInv'
  BY <1>1, <1>2, <1>4 DEF LengthInv, Callers
<1> QED
  BY <1>5, <1>7, <1>8

\* A call of VmRESTSetData from the callback, or for a failure.
LEMMA CallKeepsWorker ==
  ASSUME Before, NEW who \in {"callback", "failure"}, NEW data \in Seq(Nat), NEW m, NEW done \in Application,
         Call(who, Writes(resp["answer"], data), m, done),
         UNCHANGED <<resp, interim>>,
         pc = IF who = "callback" THEN "callback" ELSE "send",
         who = "callback" => app.stage \in {"length", "chunks"} /\ done.stage \in {app.stage, "answered"} \ {"length"}
  PROVE  WorkerInv'
<1> USE DEF Before, WorkerInv
<1>1. resp["answer"] \in Object
  BY DEF DataOK
<1>2. sent' = sent /\ NothingAnswered' = NothingAnswered
  BY DEF Call, NothingAnswered
<1>3. NothingAnswered \/ resp["answer"].headerSent
  BY DEF FlagInv
<1>4. CASE Return(who, FALSE, m) /\ app' = IF who = "callback" THEN [app EXCEPT !.stage = "failed"] ELSE app
  <2>1. pc' = IF who = "callback" THEN "callback" ELSE "finish"
    BY <1>4 DEF Return
  <2>2. who = "callback" => app'.stage = "failed"
    BY <1>4 DEF DataOK, Application
  <2> QED
    BY <1>2, <1>3, <2>1, <2>2 DEF EarlyInv, FlagInv, LengthInv, WriteInv
<1>5. CASE pc' = "write" /\ caller' = who /\ todo' = Writes(resp["answer"], data) /\ app' = done
  <2>1. ASSUME NEW i \in DOMAIN todo', NEW j \in DOMAIN todo'[i].bytes, IsHead(todo'[i].bytes[j])
        PROVE  /\ i = 1 /\ j = 1 /\ todo'[i].bytes[j].status # "100" /\ todo'[i].marks
               /\ resp["answer"].headerSent =>
                    \E h \in DOMAIN resp["answer"].headers : resp["answer"].headers[h][1] = "Content-Length"
    <3>1. /\ i = 1 /\ j = 1 /\ todo'[i].bytes[j].status = resp["answer"].status /\ todo'[i].marks
          /\ resp["answer"].headerSent =>
               \E h \in DOMAIN resp["answer"].headers : resp["answer"].headers[h][1] = "Content-Length"
      BY <1>1, <1>5, <2>1, WritesLead
    <3> QED
      BY <3>1 DEF StatusInv
  <2>2. (\E h \in DOMAIN resp["answer"].headers : resp["answer"].headers[h][1] = "Content-Length")
          => ~resp["answer"].headerSent
    BY DEF LengthInv, FlagInv
  <2>3. \A i \in DOMAIN todo' : todo'[i].buffered
    BY <1>1, <1>5, WritesAreTokens
  <2>4. \A i \in DOMAIN todo' : \A j \in DOMAIN todo'[i].bytes :
          IsHead(todo'[i].bytes[j]) =>
            i = 1 /\ j = 1 /\ todo'[i].bytes[j].status # "100" /\ NothingAnswered /\ todo'[i].marks
    BY <1>3, <2>1, <2>2
  <2>5. WriteInv'
    BY <1>2, <1>3, <1>5, <2>3, <2>4 DEF WriteInv
  <2>6. LengthInv'
    BY <1>5 DEF LengthInv
  <2>7. EarlyInv' /\ FlagInv'
    BY <1>5 DEF EarlyInv, FlagInv
  <2> QED
    BY <2>5, <2>6, <2>7
<1> QED
  BY <1>4, <1>5 DEF Call

\* A head in an answer without payload is the first token of the first write.
LEMMA InterimLeads ==
  ASSUME NEW r \in Object, NEW w, w = Writes(r, <<>>),
         NEW i \in DOMAIN w, NEW j \in DOMAIN w[i].bytes, IsHead(w[i].bytes[j])
  PROVE  i = 1 /\ j = 1 /\ w[i].bytes[j].status = r.status
<1>1. <<>> \in Seq(Nat)
  BY EmptySeq
<1>2. \A data \in Seq(Nat) : w = Writes(r, data) => i = 1 /\ j = 1 /\ w[i].bytes[j].status = r.status
  <2> SUFFICES ASSUME NEW data \in Seq(Nat), w = Writes(r, data)
               PROVE  i = 1 /\ j = 1 /\ w[i].bytes[j].status = r.status
    OBVIOUS
  <2>1. /\ i \in DOMAIN Writes(r, data)
        /\ j \in DOMAIN Writes(r, data)[i].bytes
        /\ IsHead(Writes(r, data)[i].bytes[j])
    OBVIOUS
  <2> QED
    BY <2>1, WritesLead
<1> QED
  BY <1>1, <1>2

\* The interim answer.
LEMMA ExpectKeepsWorker ==
  ASSUME Before, HandleExpect
  PROVE  WorkerInv'
<1> USE DEF Before, WorkerInv
<1> DEFINE r == SetHttpHeader(Described(EmptyResponse, "100", "close"), "Content-Length", 0)
<1>1. EmptyResponse \in Object /\ <<"Content-Length", 0>> \in Header /\ "100" \in Statuses
  BY EmptySeq DEF EmptyResponse, Object, Statuses, Header
<1>2. r \in Object /\ r.status = "100"
  BY <1>1, DescribedIsObject, HeaderIsAdded DEF SetHttpHeader, Described, EmptyResponse
<1>3. /\ pc = "parse" /\ ~interim /\ interim'
      /\ resp' = [resp EXCEPT !["interim"] = r]
      /\ Call("interim", Writes(r, <<>>), mem \cup ResponsePacket("interim"), app)
  BY DEF HandleExpect
<1> HIDE DEF r
<1>4. resp'["answer"] = resp["answer"] /\ sent' = sent /\ sent = <<>> /\ NothingAnswered' /\ app.stage = "start"
      /\ ~resp["answer"].headerSent
  BY <1>3 DEF Call, DataOK, EarlyInv, NothingAnswered
<1>5. CASE Return("interim", FALSE, mem \cup ResponsePacket("interim")) /\ app' = app
  <2>1. pc' = "failing"
    BY <1>5 DEF Return
  <2> QED
    BY <1>4, <2>1 DEF EarlyInv, FlagInv, LengthInv, WriteInv
<1>6. CASE pc' = "write" /\ caller' = "interim" /\ todo' = Writes(r, <<>>) /\ app' = app
  <2>1. \A i \in DOMAIN todo' : todo'[i].buffered
    BY <1>2, <1>6, WritesAreTokens, EmptySeq
  <2>2. ASSUME NEW i \in DOMAIN todo', NEW j \in DOMAIN todo'[i].bytes, IsHead(todo'[i].bytes[j])
        PROVE  i = 1 /\ j = 1 /\ todo'[i].bytes[j].status = "100"
    <3>1. i = 1 /\ j = 1 /\ todo'[i].bytes[j].status = r.status
      BY <1>2, <1>6, <2>2, InterimLeads
    <3> QED
      BY <1>2, <3>1
  <2>3. WriteInv'
    BY <1>4, <1>6, <2>1, <2>2 DEF WriteInv
  <2>4. EarlyInv' /\ FlagInv'
    BY <1>3, <1>4, <1>6 DEF EarlyInv, FlagInv
  <2>5. LengthInv'
    BY <1>3, <1>4, <1>6 DEF LengthInv
  <2> QED
    BY <2>3, <2>4, <2>5
<1> QED
  BY <1>3, <1>5, <1>6 DEF Call

\* Every step keeps the heads in order while the connection is sound.
LEMMA HeadsAreKept ==
  ASSUME Before, [Next]_vars, Regular', ~Broken'
  PROVE  SentInv' /\ WorkerInv'
<1> USE DEF Before, WorkerInv
<1>1. Regular /\ ~Broken
  BY TroubleLasts
<1>2. CASE WriteSome \/ WriteAll
  BY <1>2, PartKeepsWorker, AllKeepsWorker
<1>3. CASE ~(WriteSome \/ WriteAll)
  <2>1. SentInv' /\ sent' = sent /\ (NothingAnswered => NothingAnswered')
    BY <1>3, BrokenTakesNothing DEF SentInv, NothingAnswered
  <2> SUFFICES WorkerInv'
    BY <2>1
  <2>2. CASE HandleExpect
    BY <2>2, ExpectKeepsWorker
  <2>3. CASE SetData
    <3>1. resp["answer"] \in Object /\ app.data \in Seq(Nat) /\ app.left \in Seq(Nat) /\ Len(app.left) \in Nat
      BY LenProperties DEF DataOK, Application
    <3>2. UNCHANGED <<resp, interim>>
      BY <2>3 DEF SetData
    <3>3. CASE InCallback("length")
               /\ Call("callback", Writes(resp["answer"], app.data), mem, [app EXCEPT !.stage = "answered"])
      <4> DEFINE done == [app EXCEPT !.stage = "answered"]
      <4>1. done \in Application /\ done.stage = "answered"
        BY DEF DataOK, Application
      <4> HIDE DEF done
      <4> QED
        BY <3>1, <3>2, <3>3, <4>1, CallKeepsWorker DEF InCallback, done
    <3>4. ASSUME NEW n \in 0..Len(app.left), NEW stage \in {"answered", "chunks"}, InCallback("chunks"),
                 Call("callback", Writes(resp["answer"], SubSeq(app.left, 1, n)), mem,
                      [app EXCEPT !.left = SubSeq(@, n + 1, Len(@)), !.stage = stage])
          PROVE  WorkerInv'
      <4> DEFINE done == [app EXCEPT !.left = SubSeq(@, n + 1, Len(@)), !.stage = stage]
      <4>1. SubSeq(app.left, 1, n) \in Seq(Nat) /\ SubSeq(app.left, n + 1, Len(app.left)) \in Seq(Nat)
        BY <3>1, Slices
      <4>2. done \in Application /\ done.stage = stage
        BY <4>1 DEF DataOK, Application
      <4>3. Call("callback", Writes(resp["answer"], SubSeq(app.left, 1, n)), mem, done)
        BY <3>4
      <4> HIDE DEF done
      <4> QED
        BY <3>2, <3>4, <4>1, <4>2, <4>3, CallKeepsWorker DEF InCallback
    <3> QED
      BY <2>3, <3>3, <3>4 DEF SetData
  <2>4. CASE SendFailureResponse
    <3>1. <<>> \in Seq(Nat) /\ app \in Application
      BY EmptySeq DEF DataOK
    <3> QED
      BY <2>4, <3>1, CallKeepsWorker DEF SendFailureResponse
  <2>5. CASE SetDataZC
    <3>1. Return("callback", FALSE, mem) /\ app'.stage = "failed" /\ resp' = resp
      <4>1. ~app'.zeroCopy
        BY DEF Regular
      <4>2. app \in Application
        BY DEF DataOK
      <4>3. app' # [app EXCEPT !.stage = "answered", !.zeroCopy = TRUE]
        BY <4>1, <4>2 DEF Application
      <4>4. Stopped \/ WritesZeroCopy(SetHttpHeader(resp["answer"], "Content-Length", Len(app.data)), app.data) = <<>>
        BY <2>5, <4>3 DEF SetDataZC, Call
      <4>5. Stopped
        BY <4>4 DEF WritesZeroCopy
      <4> QED
        BY <2>5, <4>2, <4>5 DEF SetDataZC, Call, Application
    <3>2. pc = "callback" /\ pc' = "callback"
      BY <2>5, <3>1 DEF SetDataZC, InCallback, Return
    <3> QED
      BY <2>1, <3>1, <3>2 DEF EarlyInv, FlagInv, LengthInv, WriteInv
  <2>6. CASE WriteFails
    BY <1>1, <2>6, FailureKeepsWorker
  <2>7. CASE (\E status \in {"200", "404"} : Describe(status)) \/ SetDataLength
    <3> DEFINE Added(name, value) ==
                 /\ resp'["answer"].headers = Append(resp["answer"].headers, <<name, value>>)
                 /\ resp'["answer"].headerSent = resp["answer"].headerSent
                 /\ app'.stage \in {"described", "chunks"} => name # "Content-Length"
                 /\ <<name, value>> \in Header
    <3>1. \E name, value : Added(name, value)
      <4>1. ASSUME NEW status \in {"200", "404"}, Describe(status) PROVE \E value : Added("Connection", value)
        <5> DEFINE value == IF status = "200" /\ request.keepAlive THEN "keep-alive" ELSE "close"
        <5>1. resp'["answer"].headers = Append(resp["answer"].headers, <<"Connection", value>>)
              /\ resp'["answer"].headerSent = resp["answer"].headerSent
          BY <4>1 DEF Describe, Described, SetHttpHeader, DataOK, Object
        <5>2. <<"Connection", value>> \in Header
          BY DEF Header
        <5> HIDE DEF value
        <5> QED
          BY <5>1, <5>2
      <4>2. ASSUME SetDataLength, app'.stage = "length" PROVE Added("Content-Length", Len(app.data))
        <5>1. Len(app.data) \in Nat /\ <<"Content-Length", Len(app.data)>> \in Header
          BY LenProperties DEF DataOK, Application, Header
        <5> QED
          BY <4>2, <5>1 DEF SetDataLength, SetHttpHeader, DataOK, Object, Application
      <4>3. ASSUME SetDataLength, app'.stage = "chunks" PROVE Added("Transfer-Encoding", "chunked")
        <5>1. <<"Transfer-Encoding", "chunked">> \in Header
          BY DEF Header
        <5> QED
          BY <4>3, <5>1 DEF SetDataLength, SetHttpHeader, DataOK, Object, Application
      <4>4. SetDataLength => app'.stage \in {"length", "chunks"}
        BY DEF SetDataLength, DataOK, Application
      <4> HIDE DEF Added
      <4> QED
        BY <2>7, <4>1, <4>2, <4>3, <4>4
    <3>2. /\ pc = "callback" /\ pc' = "callback"
          /\ app.stage \in {"read", "described"} /\ app'.stage \in {"described", "length", "chunks"}
      BY <2>7 DEF Describe, SetDataLength, InCallback, DataOK, Application
    <3>3. PICK name, value : Added(name, value)
      BY <3>1
    <3>4. ASSUME app'.stage \in {"described", "chunks"}, NEW i \in DOMAIN resp'["answer"].headers
          PROVE  resp'["answer"].headers[i][1] # "Content-Length"
      <4> DEFINE old == resp["answer"].headers
      <4>1. old \in Seq(Header) /\ \A j \in DOMAIN old : old[j][1] # "Content-Length"
        BY <3>2 DEF DataOK, Object, LengthInv
      <4> HIDE DEF old
      <4>2. resp'["answer"].headers = Append(old, <<name, value>>)
        BY <3>3 DEF old
      <4>3. \/ i \in DOMAIN old /\ Append(old, <<name, value>>)[i] = old[i]
            \/ Append(old, <<name, value>>)[i] = <<name, value>>
        BY <3>3, <3>4, <4>1, <4>2, AppendProperties, LenProperties
      <4> QED
        BY <3>3, <3>4, <4>1, <4>2, <4>3
    <3> QED
      BY <2>1, <3>2, <3>3, <3>4 DEF EarlyInv, FlagInv, LengthInv, WriteInv
  <2>8. CASE DescribeFailure
    BY <2>1, <2>8 DEF DescribeFailure, FailureLength, Described, SetHttpHeader, DataOK, Object,
         EarlyInv, FlagInv, LengthInv, WriteInv
  <2>9. CASE GetData \/ GetDataZC
    <3>1. /\ pc = "callback" /\ pc' = "callback" /\ resp' = resp
          /\ app.stage = "start" /\ app'.stage \in {"start", "read", "failed"}
      BY <2>9 DEF GetData, GetDataZC, InCallback, Fails, DataOK, Application
    <3> QED
      BY <2>1, <3>1 DEF EarlyInv, FlagInv, LengthInv, WriteInv
  <2>10. CASE \/ GetRequestHandle \/ GetRequestHandleFails \/ TriggerAppCb
              \/ \E reason \in {"input", "timeout"} : Refuse(reason)
    <3>1. UNCHANGED <<resp, interim, app>>
      BY <2>10 DEF GetRequestHandle, GetRequestHandleFails, TriggerAppCb, Refuse
    <3>2. pc \in {"new", "parse"} /\ pc' \in {"parse", "callback", "failing"} \cup Final
      BY <2>10 DEF GetRequestHandle, GetRequestHandleFails, TriggerAppCb, Refuse
    <3> QED
      BY <2>1, <3>1, <3>2 DEF EarlyInv, FlagInv, LengthInv, WriteInv
  <2>11. CASE ReturnSuccess \/ ReturnError \/ SayNothing \/ Finish
    <3>1. UNCHANGED <<resp, app>>
      BY <2>11 DEF ReturnSuccess, ReturnError, SayNothing, Finish
    <3>2. (pc = "callback" /\ pc' = "failing") \/ pc' \in {"finish", "kept", "closed"}
      BY <2>11 DEF ReturnSuccess, ReturnError, SayNothing, Finish
    <3> QED
      BY <2>1, <3>1, <3>2 DEF EarlyInv, FlagInv, LengthInv, WriteInv
  <2>12. CASE \/ AllocateBuffer \/ Retry \/ Congestion
              \/ \E event \in {"stop", "reset"} : Disturb(event)
              \/ UNCHANGED vars
    <3>1. UNCHANGED <<pc, caller, resp, interim, app, todo>> /\ mem \subseteq mem'
      BY <2>12 DEF AllocateBuffer, Retry, Congestion, Disturb, vars, linkVars
    <3> QED
      BY <2>1, <3>1 DEF EarlyInv, FlagInv, LengthInv, WriteInv
  <2> QED
    BY <1>3, <2>2, <2>3, <2>4, <2>5, <2>6, <2>7, <2>8, <2>9, <2>10, <2>11, <2>12
       DEF Next, Serve, Parse, Callback, Transmit
<1> QED
  BY <1>2, <1>3

\* Whatever fails, and whenever, heads go to the client in order: the interim
\* answer's first, then one of the answer, which bHeaderSent remembers from the
\* write that sends it on (httpUtilsExternal.c:215-381, httpProtocolHead.c:1431).
THEOREM HeadsGoInOrder == Spec => []HeadsInOrder
<1>1. Init => DataOK /\ HeadInv
  <2> SUFFICES ASSUME Init PROVE DataOK /\ HeadInv
    OBVIOUS
  <2>1. EmptyResponse \in Object
    BY EmptySeq DEF EmptyResponse, Object, Statuses
  <2>2. request.payload \in Seq(Nat)
    <3>1. PICK n \in Lengths : request.payload = [i \in 1..n |-> i]
      BY DEF Init
    <3>2. n \in Nat
      BY LengthsAssumption
    <3>3. \A i \in 1..n : i \in Nat
      BY <3>2
    <3>4. [i \in 1..n |-> i] \in Seq(Nat)
      BY <3>2, <3>3
    <3> QED
      BY <3>1, <3>4
  <2>3. request \in [keepAlive : BOOLEAN, expects : BOOLEAN, payload : Seq(Nat)]
    BY <2>2 DEF Init
  <2>4. DataOK
    BY <2>1, <2>3, EmptySeq DEF Init, DataOK, Application
  <2>6. DOMAIN sent = {} /\ DOMAIN resp["answer"].headers = {}
    BY DEF Init, EmptyResponse
  <2>7. StatusInv /\ SentInv
    BY <2>6 DEF Init, StatusInv, SentInv, EmptyResponse
  <2>8. WorkerInv
    BY <2>6 DEF Init, WorkerInv, EarlyInv, FlagInv, LengthInv, WriteInv, NothingAnswered, EmptyResponse
  <2> QED
    BY <2>4, <2>7, <2>8 DEF HeadInv
<1>2. TypeOK /\ DataOK /\ HeadInv /\ [Next]_vars => (DataOK /\ HeadInv)'
  <2> SUFFICES ASSUME TypeOK, DataOK, HeadInv, [Next]_vars PROVE (DataOK /\ HeadInv)'
    OBVIOUS
  <2>1. DataOK' /\ StatusInv'
    BY DataIsTyped, StatusesAreKept DEF HeadInv
  <2>2. ASSUME Regular' PROVE SentInv'
    <3>1. Regular /\ SentInv
      BY <2>2, TroubleLasts DEF HeadInv
    <3>2. CASE WriteSome \/ WriteAll
      <4>1. ~Broken
        BY <3>2 DEF WriteSome, WriteAll
      <4> QED
        BY <3>1, <3>2, <4>1, PartKeepsWorker, AllKeepsWorker DEF Before, HeadInv
    <3>3. CASE ~(WriteSome \/ WriteAll)
      <4>1. sent' = sent
        BY <3>3, BrokenTakesNothing
      <4> QED
        BY <3>1, <4>1 DEF SentInv
    <3> QED
      BY <3>2, <3>3
  <2>3. ASSUME Regular', ~Broken' PROVE WorkerInv'
    <3>1. Regular /\ ~Broken
      BY <2>3, TroubleLasts
    <3> QED
      BY <2>3, <3>1, HeadsAreKept DEF Before, HeadInv
  <2> QED
    BY <2>1, <2>2, <2>3 DEF HeadInv
<1>3. TypeOK /\ DataOK /\ HeadInv => HeadsInOrder
  BY DEF HeadsInOrder
<1> QED
  BY <1>1, <1>2, <1>3, Types, PTL DEF Spec

\* So the client gets no second head behind one that is sent.
THEOREM OneHeadIsSent == Spec => []HeaderIsSentOnce
<1>1. HeadsInOrder => HeaderIsSentOnce
  <2> SUFFICES ASSUME HeadsInOrder, Regular,
                      NEW i \in DOMAIN Answer, NEW j \in DOMAIN Answer, IsHead(Answer[i]), IsHead(Answer[j])
               PROVE  i = j
    BY DEF HeaderIsSentOnce, Regular
  <2>1. SentInv /\ sent \in Seq(Token)
    BY DEF HeadsInOrder, HeadInv, DataOK
  <2>2. DOMAIN sent = 1..Len(sent) /\ Len(sent) \in Nat
    BY <2>1, LenProperties
  <2>3. CASE sent # <<>> /\ IsHead(sent[1]) /\ sent[1].status = "100"
    <3>1. Answer = SubSeq(sent, 3, Len(sent))
      BY <2>3 DEF Answer
    <3>2. \A k \in DOMAIN Answer : k + 2 \in DOMAIN sent /\ Answer[k] = sent[k + 2] /\ k + 2 # 1 /\ k \in Nat
      <4>1. 3 \in Nat \ {0} /\ Len(sent) <= Len(sent)
        BY <2>2
      <4>2. /\ DOMAIN Answer = 1..Len(sent) - 3 + 1
            /\ \A k \in 1..Len(sent) - 3 + 1 : Answer[k] = sent[3 + k - 1] /\ 3 + k - 1 \in DOMAIN sent
        BY <2>1, <2>2, <3>1, <4>1, Slices
      <4>3. \A k \in 1..Len(sent) - 3 + 1 : 3 + k - 1 = k + 2 /\ k \in Nat /\ k + 2 # 1
        BY <2>2
      <4> QED
        BY <4>2, <4>3
    <3>3. IsAnswer(sent[i + 2]) /\ IsAnswer(sent[j + 2])
      BY <2>1, <3>2 DEF SentInv, IsAnswer
    <3>4. i + 2 = j + 2
      BY <2>1, <3>2, <3>3 DEF SentInv
    <3> QED
      BY <3>2, <3>4
  <2>4. CASE ~(sent # <<>> /\ IsHead(sent[1]) /\ sent[1].status = "100")
    <3>1. Answer = sent
      BY <2>4 DEF Answer
    <3>2. ASSUME NEW k \in DOMAIN sent, IsHead(sent[k]) PROVE IsAnswer(sent[k])
      <4>1. sent # <<>>
        BY <2>2, EmptySeq
      <4> QED
        BY <2>1, <2>4, <3>2, <4>1 DEF SentInv, IsAnswer
    <3> QED
      BY <2>1, <3>1, <3>2 DEF SentInv
  <2> QED
    BY <2>3, <2>4
<1> QED
  BY <1>1, HeadsGoInOrder, PTL

-----------------------------------------------------------------------------
(* The library's own answers. *)

\* The objects of the library's own answers.
LEMMA OwnAnswers ==
  /\ EmptyResponse \in Object
  /\ InterimResponse \in Object /\ InterimResponse.status = "100" /\ ~InterimResponse.headerSent
  /\ FailureResponse \in Object /\ FailureResponse.status = "error" /\ ~FailureResponse.headerSent
  /\ InterimResponse.headers = << <<"Connection", "close">>, <<"Content-Length", 0>> >>
  /\ FailureResponse.headers = << <<"Connection", "close">>, <<"Content-Length", 0>> >>
<1>1. EmptyResponse \in Object /\ {"100", "error"} \subseteq Statuses /\ <<"Content-Length", 0>> \in Header
  BY EmptySeq DEF EmptyResponse, Object, Statuses, Header
<1>2. InterimResponse \in Object /\ FailureResponse \in Object
  BY <1>1, DescribedIsObject, HeaderIsAdded DEF InterimResponse, FailureResponse, FailureLength
<1>3. /\ InterimResponse.status = "100" /\ ~InterimResponse.headerSent
      /\ FailureResponse.status = "error" /\ ~FailureResponse.headerSent
      /\ InterimResponse.headers = Append(Append(<<>>, <<"Connection", "close">>), <<"Content-Length", 0>>)
      /\ FailureResponse.headers = Append(Append(<<>>, <<"Connection", "close">>), <<"Content-Length", 0>>)
  BY DEF InterimResponse, FailureResponse, FailureLength, Described, SetHttpHeader, EmptyResponse
<1> DEFINE close == <<"Connection", "close">>
           length == <<"Content-Length", 0>>
<1>4. Append(Append(<<>>, close), length) = <<close, length>>
  <2> DEFINE S == {close, length}
  <2> HIDE DEF close, length
  <2>1. <<>> \in Seq(S) /\ close \in S /\ length \in S
    BY EmptySeq
  <2>2. Append(<<>>, close) \in Seq(S) /\ Len(Append(<<>>, close)) = 1 /\ Append(<<>>, close)[1] = close
    BY <2>1, AppendProperties, EmptySeq
  <2> DEFINE one == Append(<<>>, close)
             two == Append(one, length)
  <2> HIDE DEF one, S
  <2>3. two \in Seq(S) /\ Len(two) = 2 /\ two[1] = close /\ two[2] = length
    BY <2>1, <2>2, AppendProperties DEF one
  <2>4. <<close, length>> \in Seq(S) /\ Len(<<close, length>>) = 2
    BY <2>1
  <2> HIDE DEF two
  <2>5. \A i \in 1..2 : two[i] = <<close, length>>[i]
    BY <2>3
  <2>6. two = <<close, length>>
    BY <2>3, <2>4, <2>5, SeqEqual
  <2> QED
    BY <2>6 DEF one, two
<1> QED
  BY <1>1, <1>2, <1>3, <1>4

\* They are told with a length of 0, whole, in one write.
LEMMA OwnAnswersAreWhole ==
  ASSUME NEW r \in {InterimResponse, FailureResponse}
  PROVE  Writes(r, <<>>) = <<Write(HeadOf(r), TRUE, TRUE)>>
<1>1. r \in Object /\ r.headers = << <<"Connection", "close">>, <<"Content-Length", 0>> >>
  BY OwnAnswers
<1>2. \A i \in DOMAIN r.headers : i \in {1, 2}
  BY <1>1
<1>3. GetHeader(r, "Content-Length") = <<0>>
  <2>1. 2 \in DOMAIN r.headers /\ r.headers[2][1] = "Content-Length"
    BY <1>1
  <2>2. \A i \in DOMAIN r.headers : r.headers[i][1] = "Content-Length" => r.headers[i][2] = 0
    BY <1>1, <1>2
  <2> QED
    BY <1>1, <2>1, <2>2, HeaderIsFound DEF Object
<1>4. Bytes(<<>>, 0) = <<>>
  <2>1. Bytes(<<>>, 0) \in Seq(Token) /\ Len(Bytes(<<>>, 0)) = 0
    BY BytesAreTokens, EmptySeq
  <2> QED
    BY <2>1, EmptySeq
<1>5. HeadOf(r) \o <<>> = HeadOf(r)
  BY ConcatEmptySeq DEF HeadOf, Object, Token
<1>6. GetHeader(r, "Content-Length") # <<>> /\ Head(GetHeader(r, "Content-Length")) = 0
  BY <1>3
<1>7. Writes(r, <<>>) = <<Write(HeadOf(r) \o Bytes(<<>>, 0), TRUE, TRUE)>>
  BY <1>6 DEF Writes
<1> QED
  BY <1>4, <1>5, <1>7, Zenon

\* Three sequences of tokens can be grouped either way.
LEMMA Regroup ==
  ASSUME NEW s \in Seq(Token), NEW t \in Seq(Token), NEW u \in Seq(Token)
  PROVE  (s \o t) \o u = s \o (t \o u)
BY ConcatAssociative

\* A part of a write leaves the rest of it to be sent.
LEMMA RestIsKept ==
  ASSUME DataOK, WriteSome, Tail(todo) = <<>>
  PROVE  Tail(todo') = <<>> /\ sent' \o todo'[1].bytes = sent \o todo[1].bytes
<1> DEFINE b == todo[1].bytes
<1>1. todo # <<>> /\ Current = todo[1]
  BY HeadTailProperties DEF WriteSome, Ready, Current, DataOK
<1>2. todo[1] \in WriteRecord
  BY <1>1, LenProperties, ElementOfSeq, EmptySeq DEF DataOK
<1>3. b \in Seq(Token) /\ Len(b) \in Nat /\ sent \in Seq(Token)
  BY <1>2, LenProperties DEF WriteRecord, DataOK
<1>4. PICK k \in 1..Len(b) - 1 :
        /\ sent' = sent \o SubSeq(b, 1, k)
        /\ todo' = <<[todo[1] EXCEPT !.bytes = SubSeq(@, k + 1, Len(@))]>> \o Tail(todo)
  BY <1>1 DEF WriteSome
<1>5. todo' = <<[todo[1] EXCEPT !.bytes = SubSeq(b, k + 1, Len(b))]>>
  <2> DEFINE rest == [todo[1] EXCEPT !.bytes = SubSeq(b, k + 1, Len(b))]
  <2>1. todo' = <<rest>> \o <<>>
    BY <1>4
  <2> HIDE DEF rest
  <2>2. <<rest>> \in Seq({rest})
    OBVIOUS
  <2>3. <<rest>> \o <<>> = <<rest>>
    BY <2>2, ConcatEmptySeq
  <2> QED
    BY <2>1, <2>3 DEF rest
<1>6. Tail(todo') = <<>> /\ todo'[1].bytes = SubSeq(b, k + 1, Len(b))
  BY <1>2, <1>5 DEF WriteRecord
<1> HIDE DEF b
<1>7. SubSeq(b, 1, k) \in Seq(Token) /\ SubSeq(b, k + 1, Len(b)) \in Seq(Token)
  BY <1>3, Slices
<1>8. SubSeq(b, 1, k) \o SubSeq(b, k + 1, Len(b)) = b
  BY <1>3, ConcatAdjacentSubSeq, SubSeqFull
<1>9. (sent \o SubSeq(b, 1, k)) \o SubSeq(b, k + 1, Len(b)) = sent \o (SubSeq(b, 1, k) \o SubSeq(b, k + 1, Len(b)))
  BY <1>3, <1>7, Regroup
<1> QED
  BY <1>4, <1>6, <1>8, <1>9 DEF b

\* Nothing is wrong after a step only if nothing was wrong before it.
LEMMA TroubleStays ==
  ASSUME TypeOK, DataOK, [Next]_vars, trouble' = {}
  PROVE  trouble = {} /\ ~WriteFails
<1>1. ~WriteFails
  BY DEF WriteFails, Broken
<1>2. CASE UNCHANGED trouble
  BY <1>1, <1>2
<1>3. CASE GetRequestHandleFails \/ \E event \in {"stop", "reset"} : Disturb(event)
  BY <1>3 DEF GetRequestHandleFails, Disturb
<1>4. CASE \/ GetRequestHandle \/ TriggerAppCb \/ GetData \/ GetDataZC \/ SetDataLength \/ ReturnSuccess
           \/ ReturnError \/ SayNothing \/ DescribeFailure \/ AllocateBuffer \/ WriteSome \/ WriteAll
           \/ Retry \/ Finish \/ Congestion \/ SetData \/ SetDataZC \/ SendFailureResponse \/ HandleExpect
           \/ \E status \in {"200", "404"} : Describe(status)
           \/ \E reason \in {"input", "timeout"} : Refuse(reason)
           \/ UNCHANGED vars
  <2>1. UNCHANGED trouble
    BY <1>4 DEF GetRequestHandle, TriggerAppCb, GetData, GetDataZC, SetDataLength, ReturnSuccess,
         ReturnError, SayNothing, DescribeFailure, AllocateBuffer, WriteSome, WriteAll, Retry, Finish,
         Congestion, SetData, SetDataZC, SendFailureResponse, HandleExpect, Describe, Refuse, vars, linkVars
  <2> QED
    BY <1>2, <2>1
<1> QED
  BY <1>1, <1>3, <1>4 DEF Next, Serve, Parse, Callback, Transmit

\* Each token of an opening or a refusal is one; they are sequences.
LEMMA RefusalsAreSequences ==
  /\ \A r \in Object : HeadOf(r) \in Seq(Token) /\ Len(HeadOf(r)) = 2
  /\ \A opening \in Openings : opening \in Seq(Token)
<1>1. \A r \in Object : HeadOf(r) \in Seq(Token) /\ Len(HeadOf(r)) = 2
  BY DEF HeadOf, Object, Token
<1> QED
  BY <1>1, OwnAnswers, EmptySeq DEF Openings

\* A write of the library's own answer goes on or ends.
LEMMA OwnAnswersAreSent ==
  ASSUME TypeOK, DataOK, UntouchedInv, InterimInv, RefusalInv, WriteSome \/ WriteAll
  PROVE  UntouchedInv' /\ InterimInv' /\ RefusalInv'
<1>1. /\ pc = "write" /\ todo # <<>> /\ Current = todo[1] /\ caller \in Callers
      /\ UNCHANGED <<caller, interim, app>>
  <2>1. pc = "write" /\ UNCHANGED <<caller, interim, app>>
    BY DEF WriteSome, WriteAll, Ready
  <2>2. todo # <<>> /\ todo \in Seq(WriteRecord) /\ caller \in Callers
    BY <2>1 DEF DataOK, TypeOK, Callers
  <2> QED
    BY <2>1, <2>2, HeadTailProperties DEF Current
<1>2. caller # "interim" => (Refused => caller = "failure")
  BY <1>1 DEF RefusalInv, Refused
<1>3. CASE WriteSome
  <2>1. UNCHANGED <<pc, resp, outcome>>
    BY <1>3 DEF WriteSome
  <2>2. Tail(todo) = <<>> => Tail(todo') = <<>> /\ sent' \o todo'[1].bytes = sent \o todo[1].bytes
    BY <1>3, RestIsKept
  <2> QED
    BY <1>1, <2>1, <2>2 DEF UntouchedInv, InterimInv, RefusalInv, Refused
<1>4. CASE WriteAll
  <2>1. sent' = sent \o todo[1].bytes
    BY <1>1, <1>4 DEF WriteAll
  <2>2. /\ resp' = IF todo[1].marks THEN [resp EXCEPT ![Target(caller)] = HeaderSent(@)] ELSE resp
        /\ Tail(todo) = <<>> => /\ outcome' = outcome
                                /\ pc' = CASE caller = "interim"  -> "parse"
                                           [] caller = "callback" -> "callback"
                                           [] caller = "failure"  -> "finish"
        /\ Tail(todo) # <<>> => pc' = "write" /\ outcome' = outcome
    BY <1>1, <1>4 DEF WriteAll, Return
  <2>3. CASE caller = "interim"
    <3>1. resp'["answer"] = resp["answer"]
      BY <2>2, <2>3 DEF Target, DataOK
    <3>2. sent' = HeadOf(InterimResponse) /\ pc' = "parse" /\ interim /\ outcome' = "none"
      BY <1>1, <2>1, <2>2, <2>3 DEF InterimInv, RefusalInv
    <3> QED
      BY <1>1, <2>3, <3>1, <3>2 DEF UntouchedInv, InterimInv, RefusalInv, Openings, Refused
  <2>4. CASE caller = "callback"
    <3>1. pc' \in {"callback", "write"} /\ outcome' = "none" /\ app.stage \in {"chunks", "answered"}
      BY <1>1, <2>2, <2>4 DEF UntouchedInv, RefusalInv
    <3> QED
      BY <1>1, <2>4, <3>1 DEF UntouchedInv, InterimInv, RefusalInv, Refused
  <2>5. CASE caller = "failure"
    <3>1. outcome' = outcome /\ pc' \in {"finish", "write"}
      BY <2>2, <2>5
    <3>2. Refused => pc' = "finish" /\ sent' \in Refusals /\ resp'["answer"].headers = FailureResponse.headers
      <4> SUFFICES ASSUME Refused PROVE pc' = "finish" /\ sent' \in Refusals
                                        /\ resp'["answer"].headers = FailureResponse.headers
        OBVIOUS
      <4>1. resp["answer"] = FailureResponse /\ Tail(todo) = <<>> /\ sent \o todo[1].bytes \in Refusals
        BY <1>1 DEF RefusalInv
      <4>2. resp'["answer"].headers = resp["answer"].headers
        BY <2>2, <2>5 DEF Target, HeaderSent, DataOK, Object
      <4> QED
        BY <2>1, <2>2, <2>5, <4>1, <4>2
    <3> QED
      BY <1>1, <2>5, <3>1, <3>2 DEF UntouchedInv, InterimInv, RefusalInv, Refused
  <2> QED
    BY <1>1, <2>3, <2>4, <2>5 DEF Callers
<1> QED
  BY <1>3, <1>4

\* The interim answer starts.
LEMMA InterimStarts ==
  ASSUME TypeOK, DataOK, UntouchedInv, InterimInv, RefusalInv, HandleExpect, trouble = {}
  PROVE  UntouchedInv' /\ InterimInv' /\ RefusalInv'
<1>1. /\ pc = "parse" /\ ~interim /\ interim' = TRUE
      /\ resp' = [resp EXCEPT !["interim"] = InterimResponse]
      /\ Call("interim", Writes(InterimResponse, <<>>), mem \cup ResponsePacket("interim"), app)
  BY DEF HandleExpect, InterimResponse
<1>2. Writes(InterimResponse, <<>>) = <<Write(HeadOf(InterimResponse), TRUE, TRUE)>>
  BY OwnAnswersAreWhole
<1>3. /\ pc' = "write" /\ caller' = "interim" /\ todo' = <<Write(HeadOf(InterimResponse), TRUE, TRUE)>>
      /\ UNCHANGED <<app, outcome, sent>>
  <2>1. Writes(InterimResponse, <<>>) # <<>> /\ ~Stopped
    BY <1>2 DEF Stopped
  <2> QED
    BY <1>1, <1>2, <2>1 DEF Call
<1>4. sent = <<>> /\ app.stage = "start" /\ outcome = "none" /\ resp'["answer"] = EmptyResponse
  BY <1>1 DEF InterimInv, UntouchedInv, RefusalInv, DataOK
<1>5. Tail(todo') = <<>> /\ todo'[1].bytes = HeadOf(InterimResponse)
  BY <1>3 DEF Write
<1>6. <<>> \o HeadOf(InterimResponse) = HeadOf(InterimResponse)
  BY OwnAnswers, RefusalsAreSequences, ConcatEmptySeq
<1> QED
  BY <1>1, <1>3, <1>4, <1>5, <1>6 DEF UntouchedInv, InterimInv, RefusalInv, Refused

\* The failure answer starts.
LEMMA RefusalStarts ==
  ASSUME TypeOK, DataOK, UntouchedInv, InterimInv, RefusalInv, SendFailureResponse, trouble = {}
  PROVE  UntouchedInv' /\ InterimInv' /\ RefusalInv'
<1>1. pc = "send" /\ UNCHANGED <<resp, interim>> /\ Call("failure", Writes(resp["answer"], <<>>), mem, app)
  BY DEF SendFailureResponse
<1>2. pc' \in {"write", "finish"} /\ (pc' = "write" => caller' = "failure") /\ outcome' = outcome
  BY <1>1 DEF Call, Return
<1>3. Refused => /\ pc' = "write" /\ Tail(todo') = <<>> /\ sent' \o todo'[1].bytes \in Refusals
                 /\ resp'["answer"] = FailureResponse
  <2> SUFFICES ASSUME Refused
               PROVE  /\ pc' = "write" /\ Tail(todo') = <<>> /\ sent' \o todo'[1].bytes \in Refusals
                      /\ resp'["answer"] = FailureResponse
    OBVIOUS
  <2>1. resp["answer"] = FailureResponse /\ sent \in Openings
    BY <1>1 DEF RefusalInv
  <2>2. Writes(resp["answer"], <<>>) = <<Write(HeadOf(FailureResponse), TRUE, TRUE)>>
    BY <2>1, OwnAnswersAreWhole
  <2>3. pc' = "write" /\ todo' = <<Write(HeadOf(FailureResponse), TRUE, TRUE)>> /\ sent' = sent
    <3>1. Writes(resp["answer"], <<>>) # <<>> /\ ~Stopped
      BY <2>2 DEF Stopped
    <3> QED
      BY <1>1, <2>2, <3>1 DEF Call
  <2>4. Tail(todo') = <<>> /\ todo'[1].bytes = HeadOf(FailureResponse)
    BY <2>3 DEF Write
  <2> QED
    BY <1>1, <2>1, <2>3, <2>4 DEF Refusals
<1> QED
  BY <1>1, <1>2, <1>3 DEF UntouchedInv, InterimInv, RefusalInv, Refused

\* Every step, while nothing is wrong.
LEMMA RefusalsAreKept ==
  ASSUME TypeOK, DataOK, FailureInv, [Next]_vars
  PROVE  FailureInv'
<1> SUFFICES ASSUME trouble' = {} PROVE UntouchedInv' /\ InterimInv' /\ RefusalInv'
  BY DEF FailureInv
<1>1. trouble = {} /\ ~WriteFails
  BY TroubleStays
<1>2. UntouchedInv /\ InterimInv /\ RefusalInv
  BY <1>1 DEF FailureInv
<1>3. CASE WriteSome \/ WriteAll
  BY <1>2, <1>3, OwnAnswersAreSent
<1>4. CASE HandleExpect
  BY <1>1, <1>2, <1>4, InterimStarts
<1>5. CASE SendFailureResponse
  BY <1>1, <1>2, <1>5, RefusalStarts
<1>6. CASE SetData \/ SetDataZC
  <2>1. \E writes, done : Call("callback", writes, mem, done) /\ done.stage \in {"chunks", "answered"}
    <3>1. [app EXCEPT !.stage = "answered"].stage = "answered"
          /\ [app EXCEPT !.stage = "answered", !.zeroCopy = TRUE].stage = "answered"
      BY DEF DataOK, Application
    <3>2. \A left, stage : [app EXCEPT !.left = left, !.stage = stage].stage = stage
      BY DEF DataOK, Application
    <3>3. CASE SetDataZC
      BY <3>1, <3>3 DEF SetDataZC
    <3>4. CASE InCallback("length")
               /\ Call("callback", Writes(resp["answer"], app.data), mem, [app EXCEPT !.stage = "answered"])
      BY <3>1, <3>4
    <3>5. ASSUME NEW n, NEW stage \in {"answered", "chunks"},
                 Call("callback", Writes(resp["answer"], SubSeq(app.left, 1, n)), mem,
                      [app EXCEPT !.left = SubSeq(@, n + 1, Len(@)), !.stage = stage])
          PROVE  \E writes, done : Call("callback", writes, mem, done) /\ done.stage \in {"chunks", "answered"}
      BY <3>2, <3>5
    <3> QED
      BY <1>6, <3>3, <3>4, <3>5 DEF SetData
  <2>2. pc = "callback" /\ pc' \in {"callback", "write"} /\ outcome' = outcome
        /\ (pc' = "write" => caller' = "callback" /\ app'.stage \in {"chunks", "answered"})
        /\ (pc' = "callback" => app'.stage = "failed")
    BY <1>6, <2>1 DEF SetData, SetDataZC, InCallback, Call, Return, DataOK, Application
  <2> QED
    BY <1>2, <2>2 DEF UntouchedInv, InterimInv, RefusalInv, Refused
<1>7. CASE DescribeFailure
  <2>1. pc = "failing" /\ pc' = "send" /\ UNCHANGED <<interim, outcome, sent>>
        /\ resp'["answer"] = FailureLength(Described(resp["answer"], "error", "close"))
    BY <1>7 DEF DescribeFailure, linkVars, DataOK
  <2>2. Refused => resp'["answer"] = FailureResponse /\ sent \in Openings
    BY <1>2, <2>1 DEF UntouchedInv, FailureResponse
  <2> QED
    BY <1>2, <2>1, <2>2 DEF UntouchedInv, InterimInv, RefusalInv, Refused
<1>8. CASE SayNothing
  <2>1. pc = "failing" /\ pc' = "finish" /\ outcome' = outcome /\ resp["answer"].headerSent
    BY <1>1, <1>8 DEF SayNothing, Stopped
  <2>2. ~Refused
    BY <1>2, <2>1 DEF UntouchedInv, EmptyResponse
  <2> QED
    BY <1>2, <2>1, <2>2 DEF UntouchedInv, InterimInv, RefusalInv, Refused
<1>9. CASE ReturnSuccess \/ ReturnError
  <2>1. pc = "callback" /\ UNCHANGED <<resp, app, sent>>
    BY <1>9 DEF ReturnSuccess, ReturnError, InCallback, linkVars
  <2>2. \/ pc' = "finish" /\ outcome' = "success"
        \/ pc' = "failing" /\ outcome' = "error" /\ app.stage \in {"start", "read"}
        \/ pc' = "failing" /\ outcome' = "late"
    BY <1>9 DEF ReturnSuccess, ReturnError
  <2> QED
    BY <1>2, <2>1, <2>2 DEF UntouchedInv, InterimInv, RefusalInv, Refused
<1>10. CASE Finish
  <2>1. pc = "finish" /\ UNCHANGED <<resp, outcome, sent>> /\ pc' \in {"kept", "closed"}
    BY <1>10 DEF Finish, linkVars
  <2>2. Refused => pc' = "closed"
    <3> SUFFICES ASSUME Refused PROVE ~Entertained(resp["answer"])
      BY <1>10 DEF Finish
    <3>1. resp["answer"].headers = << <<"Connection", "close">>, <<"Content-Length", 0>> >>
      BY <1>2, <2>1, OwnAnswers DEF RefusalInv
    <3>2. \A i \in DOMAIN resp["answer"].headers :
            resp["answer"].headers[i][1] = "Connection" => resp["answer"].headers[i][2] = "close"
      BY <3>1
    <3>3. GetHeader(resp["answer"], "Connection") \in {<<>>, <<"close">>}
      <4>1. resp["answer"].headers \in Seq(Header)
        BY DEF DataOK, Object
      <4>2. \/ GetHeader(resp["answer"], "Connection") = <<>>
            \/ \E i \in DOMAIN resp["answer"].headers :
                 /\ resp["answer"].headers[i][1] = "Connection"
                 /\ GetHeader(resp["answer"], "Connection") = <<resp["answer"].headers[i][2]>>
        BY <4>1, HeaderIsFound
      <4> QED
        BY <3>2, <4>2
    <3> QED
      BY <3>3 DEF Entertained
  <2> QED
    BY <1>2, <2>1, <2>2 DEF UntouchedInv, InterimInv, RefusalInv, Refused
<1>11. CASE GetRequestHandle \/ TriggerAppCb \/ \E reason \in {"input", "timeout"} : Refuse(reason)
  <2>1. UNCHANGED <<resp, interim, app, sent>>
    BY <1>11 DEF GetRequestHandle, TriggerAppCb, Refuse, linkVars
  <2>2. /\ pc \in {"new", "parse"}
        /\ \/ pc' \in {"parse", "callback"} /\ outcome' = outcome
           \/ pc' = "failing" /\ outcome' = "refused"
    BY <1>11 DEF GetRequestHandle, TriggerAppCb, Refuse
  <2> QED
    BY <1>2, <2>1, <2>2 DEF UntouchedInv, InterimInv, RefusalInv, Refused
<1>12. CASE GetRequestHandleFails
  BY <1>12 DEF GetRequestHandleFails
<1>13. CASE GetData \/ GetDataZC \/ SetDataLength \/ \E status \in {"200", "404"} : Describe(status)
  <2>1. pc = "callback" /\ pc' = "callback" /\ UNCHANGED <<outcome, sent>>
    BY <1>13 DEF GetData, GetDataZC, SetDataLength, Describe, InCallback, linkVars
  <2>2. app'.stage \in {"start", "read"} => app.stage \in {"start", "read"} /\ resp' = resp
    BY <1>13 DEF GetData, GetDataZC, SetDataLength, Describe, InCallback, Fails, DataOK, Application
  <2> QED
    BY <1>2, <2>1, <2>2 DEF UntouchedInv, InterimInv, RefusalInv, Refused
<1>14. CASE \/ AllocateBuffer \/ Retry \/ Congestion
            \/ \E event \in {"stop", "reset"} : Disturb(event)
            \/ UNCHANGED vars
  <2>1. UNCHANGED <<pc, caller, resp, interim, app, outcome, todo, sent>>
    BY <1>14 DEF AllocateBuffer, Retry, Congestion, Disturb, vars, linkVars
  <2> QED
    BY <1>2, <2>1 DEF UntouchedInv, InterimInv, RefusalInv, Refused
<1> QED
  BY <1>1, <1>3, <1>4, <1>5, <1>6, <1>7, <1>8, <1>9, <1>10, <1>11, <1>12, <1>13, <1>14
     DEF Next, Serve, Parse, Callback, Transmit

\* What the client gets for a request that was refused, or that the application
\* failed before it had described an answer, is made step by step from the
\* library's own two answers and nothing else (httpProtocolHead.c:1431-1553).
THEOREM RefusalsGoInOrder == Spec => []RefusalsInOrder
<1>1. HeadsInOrder => DataOK
  BY DEF HeadsInOrder
<1>2. Init => FailureInv
  <2> SUFFICES ASSUME Init PROVE UntouchedInv /\ InterimInv /\ RefusalInv
    BY DEF FailureInv
  <2>1. /\ pc = "new" /\ resp["answer"] = EmptyResponse /\ sent = <<>> /\ ~interim
        /\ app.stage = "start" /\ outcome = "none"
    BY DEF Init
  <2> QED
    BY <2>1 DEF UntouchedInv, InterimInv, RefusalInv, Refused, Openings
<1>3. TypeOK /\ DataOK /\ FailureInv /\ [Next]_vars => FailureInv'
  BY RefusalsAreKept
<1>4. TypeOK /\ DataOK /\ FailureInv => RefusalsInOrder
  BY DEF RefusalsInOrder
<1> QED
  BY <1>1, <1>2, <1>3, <1>4, Types, HeadsGoInOrder, PTL DEF Spec

\* The tokens of two sequences, one behind the other.
LEMMA Behind ==
  ASSUME NEW S, NEW s \in Seq(S), NEW t \in Seq(S)
  PROVE  /\ s \o t \in Seq(S)
         /\ Len(s) \in Nat /\ Len(t) \in Nat /\ Len(s \o t) = Len(s) + Len(t)
         /\ DOMAIN s = 1..Len(s) /\ DOMAIN t = 1..Len(t) /\ DOMAIN (s \o t) = 1..Len(s) + Len(t)
         /\ \A i \in 1..Len(s) : (s \o t)[i] = s[i]
         /\ \A k \in 1..Len(t) : (s \o t)[Len(s) + k] = t[k]
<1> DEFINE u == s \o t
           l == Len(s)
           m == Len(t)
<1>1. l \in Nat /\ m \in Nat /\ DOMAIN s = 1..l /\ DOMAIN t = 1..m
  BY LenProperties
<1>2. /\ u \in Seq(S) /\ Len(u) = l + m
      /\ \A i \in 1..l + m : u[i] = IF i <= l THEN s[i] ELSE t[i - l]
  BY ConcatProperties, Zenon
<1> HIDE DEF u, l, m
<1>3. DOMAIN u = 1..l + m
  BY <1>2, LenProperties
<1>4. \A i \in 1..l : u[i] = s[i]
  BY <1>1, <1>2
<1>5. ASSUME NEW k \in 1..m PROVE u[l + k] = t[k]
  <2>1. \A i \in 1..l + m : u[i] = IF i <= l THEN s[i] ELSE t[i - l]
    BY <1>2, Zenon
  <2>2. l \in Nat /\ m \in Nat
    BY <1>1
  <2> QED
    BY <2>1, <2>2
<1> QED
  BY <1>1, <1>2, <1>3, <1>4, <1>5 DEF u, l, m

\* What stands behind a lead is an end of the whole.
LEMMA EndOfJoined ==
  ASSUME NEW lead \in Seq(Token), NEW s \in Seq(Token)
  PROVE  SubSeq(lead \o s, Len(lead) + 1, Len(lead) + Len(s)) = s
<1>1. Len(lead) \in Nat /\ Len(s) \in Nat
  BY LenProperties
<1>2. CASE s = <<>>
  <2>1. Len(s) = 0
    BY <1>2
  <2>2. Len(lead) + 1 \in Int /\ Len(lead) + Len(s) \in Int /\ Len(lead) + Len(s) < Len(lead) + 1
    BY <1>1, <2>1
  <2> QED
    BY <1>2, <2>2, SubSeqEmpty
<1>3. CASE s # <<>>
  <2>1. Len(s) > 0
    BY <1>1, <1>3, EmptySeq
  <2>2. /\ Len(lead) + 1 \in Len(lead) + 1..Len(lead) + Len(s)
        /\ Len(lead) + Len(s) \in Len(lead) + 1..Len(lead) + Len(s)
        /\ Len(lead) + 1 - Len(lead) = 1 /\ Len(lead) + Len(s) - Len(lead) = Len(s)
    BY <1>1, <2>1
  <2>3. SubSeq(lead \o s, Len(lead) + 1, Len(lead) + Len(s))
          = SubSeq(s, Len(lead) + 1 - Len(lead), Len(lead) + Len(s) - Len(lead))
    BY <2>2, SubSeqOfConcat2
  <2>4. SubSeq(s, 1, Len(s)) = s
    BY SubSeqFull
  <2> QED
    BY <2>2, <2>3, <2>4
<1> QED
  BY <1>2, <1>3

\* A head, its blank line, and what stands behind them.
LEMMA HeadAndBody ==
  ASSUME NEW r \in Object, NEW s \in Seq(Token), NEW a, a = HeadOf(r) \o s
  PROVE  /\ a \in Seq(Token) /\ Len(a) \in Nat /\ Len(a) >= 2 /\ a # <<>>
         /\ IsHead(a[1]) /\ a[1].status = r.status /\ a[1].headers = r.headers
         /\ a[2].kind = "blank"
         /\ SubSeq(a, 3, Len(a)) = s
<1> DEFINE h == HeadOf(r)
<1>1. h \in Seq(Token) /\ Len(h) = 2
  BY RefusalsAreSequences
<1>2. IsHead(h[1]) /\ h[1].status = r.status /\ h[1].headers = r.headers /\ h[2].kind = "blank"
  BY DEF HeadOf, IsHead
<1> HIDE DEF h
<1>3. /\ a \in Seq(Token) /\ Len(s) \in Nat /\ Len(a) = Len(h) + Len(s)
      /\ \A i \in 1..Len(h) : a[i] = h[i]
  <2>1. h \in Seq(Token) /\ a = h \o s
    BY <1>1 DEF h
  <2> QED
    BY <2>1, Behind
<1>4. Len(a) \in Nat /\ Len(a) >= 2 /\ 1 \in 1..Len(h) /\ 2 \in 1..Len(h) /\ Len(h) + 1 = 3
  BY <1>1, <1>3
<1>5. a # <<>>
  BY <1>4, EmptySeq
<1>6. a[1] = h[1] /\ a[2] = h[2]
  BY <1>3, <1>4, Zenon
<1>7. SubSeq(a, 3, Len(a)) = s
  <2>1. SubSeq(h \o s, Len(h) + 1, Len(h) + Len(s)) = s
    BY <1>1, EndOfJoined
  <2>2. a = h \o s
    BY DEF h
  <2> QED
    BY <1>3, <1>4, <2>1, <2>2
<1> QED
  BY <1>2, <1>3, <1>4, <1>5, <1>6, <1>7

\* What the client takes for the answer stands behind the interim one.
LEMMA AnswerIsBehindOpening ==
  ASSUME NEW opening \in Openings, NEW r \in Object, r.status # "100", NEW s \in Seq(Token),
         sent = opening \o (HeadOf(r) \o s)
  PROVE  Answer = HeadOf(r) \o s
<1> DEFINE a == HeadOf(r) \o s
           h == HeadOf(InterimResponse)
<1>1. a \in Seq(Token) /\ Len(a) \in Nat /\ a # <<>> /\ IsHead(a[1]) /\ a[1].status # "100"
  BY HeadAndBody
<1>2. InterimResponse \in Object /\ InterimResponse.status = "100"
  BY OwnAnswers
<1>3. h \in Seq(Token) /\ Len(h) = 2
  BY <1>2, RefusalsAreSequences
<1>4. IsHead(h[1]) /\ h[1].status = "100"
  BY <1>2 DEF HeadOf, IsHead
<1>5. opening \in {<<>>, h}
  BY DEF Openings
<1>6. sent = opening \o a
  OBVIOUS
<1> HIDE DEF a, h
<1>7. CASE opening = <<>>
  <2>1. sent = a
    BY <1>1, <1>6, <1>7, ConcatEmptySeq
  <2> QED
    BY <1>1, <2>1 DEF Answer, a
<1>8. CASE opening = h
  <2>1. /\ Len(sent) = Len(h) + Len(a) /\ \A i \in 1..Len(h) : sent[i] = h[i]
        /\ sent \in Seq(Token)
    <3>1. h \in Seq(Token) /\ a \in Seq(Token) /\ sent = h \o a
      BY <1>1, <1>3, <1>6, <1>8
    <3> QED
      BY <3>1, Behind
  <2>2. sent # <<>> /\ Len(h) + 1 = 3 /\ 1 \in 1..Len(h)
    <3>1. Len(sent) # 0 /\ Len(h) + 1 = 3 /\ 1 \in 1..Len(h)
      BY <1>1, <1>3, <2>1
    <3> QED
      BY <2>1, <3>1, EmptySeq
  <2>3. sent[1] = h[1]
    BY <2>1, <2>2
  <2>4. SubSeq(h \o a, Len(h) + 1, Len(h) + Len(a)) = a
    BY <1>1, <1>3, EndOfJoined
  <2>5. SubSeq(sent, 3, Len(sent)) = a
    <3>1. sent = h \o a
      BY <1>6, <1>8
    <3> QED
      BY <2>1, <2>2, <2>4, <3>1
  <2> QED
    BY <1>4, <2>2, <2>3, <2>5 DEF Answer, a
<1> QED
  BY <1>5, <1>7, <1>8

\* So a failure is told to the client by one whole answer, also behind an interim
\* answer, and the connection is closed.
THEOREM FailuresAreAnswered == Spec => []FailureIsAnswered
<1>1. RefusalsInOrder => FailureIsAnswered
  <2> SUFFICES ASSUME RefusalsInOrder, pc \in Final, Refused, trouble = {}
               PROVE  /\ Complete(Answer, "error", <<>>)
                      /\ Tells(Answer[1].headers, "Connection", "close")
                      /\ pc = "closed"
    BY DEF FailureIsAnswered, Refused
  <2> DEFINE failure == HeadOf(FailureResponse)
             interimHead == HeadOf(InterimResponse)
  <2>1. sent \in Refusals /\ pc = "closed"
    BY DEF RefusalsInOrder, FailureInv, RefusalInv
  <2>2. /\ failure \in Seq(Token) /\ Len(failure) = 2 /\ IsHead(failure[1]) /\ failure[1].status = "error"
        /\ failure[1].headers = << <<"Connection", "close">>, <<"Content-Length", 0>> >>
        /\ failure[2].kind = "blank"
        /\ interimHead \in Seq(Token) /\ Len(interimHead) = 2
        /\ IsHead(interimHead[1]) /\ interimHead[1].status = "100"
    BY OwnAnswers, RefusalsAreSequences DEF HeadOf, IsHead
  <2> HIDE DEF failure, interimHead
  <2>3. Answer = failure
    <3>1. failure \o <<>> = failure /\ <<>> \in Seq(Token)
      BY <2>2, ConcatEmptySeq, EmptySeq
    <3>2. PICK opening \in Openings : sent = opening \o failure
      BY <2>1 DEF Refusals, failure
    <3>3. sent = opening \o (HeadOf(FailureResponse) \o <<>>)
      BY <3>1, <3>2 DEF failure
    <3>4. FailureResponse \in Object /\ FailureResponse.status # "100"
      BY OwnAnswers
    <3> QED
      BY <3>1, <3>3, <3>4, AnswerIsBehindOpening DEF failure
  <2>4. /\ Under(failure[1].headers, "Connection") = {1} /\ failure[1].headers[1][2] = "close"
        /\ Under(failure[1].headers, "Content-Length") = {2} /\ failure[1].headers[2][2] = 0
        /\ Under(failure[1].headers, "Transfer-Encoding") = {}
        /\ 1 \in DOMAIN failure[1].headers /\ 2 \in DOMAIN failure[1].headers
    BY <2>2 DEF Under
  <2>5. SubSeq(failure, 3, Len(failure)) = <<>>
    BY <2>2, SubSeqEmpty
  <2>6. Complete(failure, "error", <<>>)
    BY <2>2, <2>4, <2>5, EmptySeq DEF Complete, Tells
  <2> QED
    BY <2>1, <2>3, <2>4, <2>6 DEF Tells
<1> QED
  BY <1>1, RefusalsGoInOrder, PTL

-----------------------------------------------------------------------------
(* Chunks. *)

\* The kinds of tokens.
LEMMA Kinds ==
  /\ \A n : Size(n).kind = "size" /\ Size(n).value = n
  /\ \A v : Byte(v).kind = "data"
  /\ Crlf.kind = "crlf"
BY DEF Size, Byte, Crlf

\* A chunk: its size, its bytes, a CR LF.
LEMMA ChunkTokens ==
  ASSUME NEW data \in Seq(Nat)
  PROVE  /\ ChunkOf(data) \in Seq(Token) /\ Len(data) \in Nat /\ Len(ChunkOf(data)) = Len(data) + 2
         /\ ChunkOf(data)[1] = Size(Len(data)) /\ ChunkOf(data)[Len(data) + 2] = Crlf
         /\ \A j \in 1..Len(data) : ChunkOf(data)[j + 1] = Byte(data[j])
<1> DEFINE size == <<Size(Len(data))>>
           body == Bytes(data, Len(data))
           end == <<Crlf>>
           n == Len(data)
<1>1. n \in Nat
  BY LenProperties
<1>2. size \in Seq(Token) /\ end \in Seq(Token) /\ Len(size) = 1 /\ Len(end) = 1
  BY <1>1 DEF Size, Crlf, Token
<1>3. body \in Seq(Token) /\ Len(body) = n
  BY <1>1, BytesAreTokens
<1>4. size[1] = Size(n) /\ end[1] = Crlf
  OBVIOUS
<1>5. \A j \in 1..n : body[j] = Byte(data[j])
  BY <1>1 DEF Bytes
<1>6. ChunkOf(data) = (size \o body) \o end
  BY DEF ChunkOf
<1> HIDE DEF size, body, end, n
<1> DEFINE lead == size \o body
<1>7. /\ lead \in Seq(Token) /\ Len(lead) = Len(size) + Len(body)
      /\ \A i \in 1..Len(size) : lead[i] = size[i]
      /\ \A k \in 1..Len(body) : lead[Len(size) + k] = body[k]
  <2>1. size \in Seq(Token) /\ body \in Seq(Token)
    BY <1>2, <1>3
  <2> QED
    BY <2>1, Behind
<1> HIDE DEF lead
<1> DEFINE all == lead \o end
<1>8. /\ all \in Seq(Token) /\ Len(all) = Len(lead) + Len(end)
      /\ \A i \in 1..Len(lead) : all[i] = lead[i]
      /\ \A k \in 1..Len(end) : all[Len(lead) + k] = end[k]
  <2>1. lead \in Seq(Token) /\ end \in Seq(Token)
    BY <1>2, <1>7
  <2> QED
    BY <2>1, Behind
<1> HIDE DEF all
<1>9. Len(lead) = 1 + n /\ Len(all) = n + 2
  BY <1>1, <1>2, <1>3, <1>7, <1>8
<1>10. all[1] = Size(n)
  <2>1. 1 \in 1..Len(lead) /\ 1 \in 1..Len(size)
    BY <1>1, <1>2, <1>9
  <2> QED
    BY <1>4, <1>7, <1>8, <2>1, Zenon
<1>11. all[n + 2] = Crlf
  <2>1. 1 \in 1..Len(end) /\ Len(lead) + 1 = n + 2
    BY <1>1, <1>2, <1>9
  <2> QED
    BY <1>4, <1>8, <2>1, Zenon
<1>12. ASSUME NEW j \in 1..n PROVE all[j + 1] = Byte(data[j])
  <2>1. j \in 1..Len(body) /\ Len(size) + j = j + 1 /\ j + 1 \in 1..Len(lead)
    BY <1>1, <1>2, <1>3, <1>9
  <2>2. lead[Len(size) + j] = body[j] /\ all[j + 1] = lead[j + 1]
    BY <1>7, <1>8, <2>1, Zenon
  <2> QED
    BY <1>5, <2>1, <2>2, Zenon
<1>13. ChunkOf(data) = all
  BY <1>6 DEF all, lead
<1> QED
  BY <1>1, <1>8, <1>9, <1>10, <1>11, <1>12, <1>13, Zenon DEF n

\* A chunk behind other tokens.
LEMMA ChunkBehind ==
  ASSUME NEW s \in Seq(Token), NEW data \in Seq(Nat)
  PROVE  \E u \in Seq(Token) :
         /\ u = s \o ChunkOf(data)
         /\ Len(s) \in Nat /\ Len(data) \in Nat
         /\ DOMAIN s = 1..Len(s) /\ DOMAIN u = 1..Len(u)
         /\ Len(u) = Len(s) + Len(data) + 2
         /\ \A i \in 1..Len(s) : u[i] = s[i]
         /\ u[Len(s) + 1] = Size(Len(data)) /\ u[Len(u)] = Crlf
         /\ \A j \in 1..Len(data) : u[Len(s) + 1 + j] = Byte(data[j])
<1> DEFINE c == ChunkOf(data)
           n == Len(data)
           l == Len(s)
<1>1. /\ c \in Seq(Token) /\ n \in Nat /\ Len(c) = n + 2 /\ c[1] = Size(n) /\ c[n + 2] = Crlf
      /\ \A j \in 1..n : c[j + 1] = Byte(data[j])
  BY ChunkTokens
<1> HIDE DEF c
<1> DEFINE u == s \o c
<1>2. /\ u \in Seq(Token) /\ l \in Nat /\ Len(u) = l + Len(c)
      /\ DOMAIN s = 1..l /\ DOMAIN u = 1..l + Len(c)
      /\ \A i \in 1..l : u[i] = s[i]
      /\ \A k \in 1..Len(c) : u[l + k] = c[k]
  <2>1. c \in Seq(Token)
    BY <1>1
  <2> QED
    BY <2>1, Behind
<1> HIDE DEF n, l, u
<1>3. n \in Nat /\ l \in Nat /\ Len(c) = n + 2
  BY <1>1, <1>2
<1>4. Len(u) = l + n + 2 /\ l + Len(c) = l + n + 2 /\ l + (n + 2) = l + n + 2
  BY <1>2, <1>3
<1>5. u[l + 1] = Size(n) /\ u[Len(u)] = Crlf
  <2>1. 1 \in 1..Len(c) /\ n + 2 \in 1..Len(c)
    BY <1>3
  <2> QED
    BY <1>1, <1>2, <1>4, <2>1, Zenon
<1>6. ASSUME NEW j \in 1..n PROVE u[l + 1 + j] = Byte(data[j])
  <2>1. j + 1 \in 1..Len(c) /\ l + 1 + j = l + (j + 1)
    BY <1>3
  <2> QED
    BY <1>1, <1>2, <2>1, Zenon
<1>7. u = s \o ChunkOf(data)
  BY DEF u, c
<1>8. DOMAIN u = 1..Len(u)
  BY <1>2, <1>4
<1> QED
  BY <1>2, <1>3, <1>4, <1>5, <1>6, <1>7, <1>8, Zenon DEF l, n

\* The size of a chunk is a number.
LEMMA SizesAreNumbers == \A t \in Token : t.kind = "size" => t.value \in Nat
BY DEF Token

\* Behind open chunks another one fits, and the last.
LEMMA ChunksGoOn ==
  ASSUME NEW s \in Seq(Token), OpenChunks(s), NEW data \in Seq(Nat)
  PROVE  IF data = <<>> THEN Chunked(s \o ChunkOf(data)) ELSE OpenChunks(s \o ChunkOf(data))
<1>1. PICK u \in Seq(Token) :
         /\ u = s \o ChunkOf(data)
         /\ Len(s) \in Nat /\ Len(data) \in Nat
         /\ DOMAIN s = 1..Len(s) /\ DOMAIN u = 1..Len(u)
         /\ Len(u) = Len(s) + Len(data) + 2
         /\ \A i \in 1..Len(s) : u[i] = s[i]
         /\ u[Len(s) + 1] = Size(Len(data)) /\ u[Len(u)] = Crlf
         /\ \A j \in 1..Len(data) : u[Len(s) + 1 + j] = Byte(data[j])
  BY ChunkBehind, Zenon
<1> DEFINE n == Len(data)
           l == Len(s)
<1>2. l \in Nat /\ n \in Nat /\ Len(u) = l + n + 2
  BY <1>1
<1>3. n = 0 <=> data = <<>>
  BY EmptySeq
<1>4. l = 0 <=> s = <<>>
  BY EmptySeq
<1>5. ASSUME NEW i \in 1..l, s[i].kind = "size"
      PROVE  /\ s[i].value \in Nat /\ s[i].value > 0 /\ IsChunk(s, i)
             /\ ChunkEnd(s, i) < Len(s) => s[ChunkEnd(s, i) + 1].kind = "size"
  <2>1. s[i] \in Token
    BY <1>1, ElementOfSeq
  <2>2. s[i].value \in Nat
    BY <1>5, <2>1, SizesAreNumbers
  <2>3. i \in DOMAIN s
    BY <1>1, Zenon
  <2> QED
    BY <1>5, <2>2, <2>3, Zenon DEF OpenChunks
<1>6. l # 0 => s[1].kind = "size"
  BY <1>4 DEF OpenChunks
<1>7. /\ \A i \in 1..l : u[i] = s[i]
      /\ u[l + 1].kind = "size" /\ u[l + 1].value = n /\ u[Len(u)].kind = "crlf"
      /\ \A j \in 1..n : u[l + 1 + j].kind = "data"
  BY <1>1, Kinds, Zenon
<1> HIDE DEF n, l
<1>8. u # <<>> /\ u[1].kind = "size"
  <2>1. u # <<>>
    BY <1>2, EmptySeq
  <2>2. CASE l = 0
    <3>1. l + 1 = 1
      BY <2>2
    <3>2. u[l + 1].kind = "size"
      BY <1>7
    <3> QED
      BY <2>1, <3>1, <3>2
  <2>3. CASE l # 0
    BY <1>2, <1>6, <1>7, <2>3
  <2> QED
    BY <2>1, <2>2, <2>3
<1>9. ASSUME NEW i \in 1..Len(u), u[i].kind = "size"
      PROVE  \/ i \in 1..l /\ s[i].kind = "size" /\ u[i] = s[i]
             \/ i = l + 1
  <2>1. CASE i <= l
    BY <1>2, <1>7, <1>9, <2>1
  <2>2. CASE l + 1 < i /\ i < Len(u)
    <3>1. i - (l + 1) \in 1..n /\ l + 1 + (i - (l + 1)) = i
      BY <1>2, <2>2
    <3>2. u[i].kind = "data"
      BY <1>7, <3>1
    <3> QED
      BY <1>9, <3>2
  <2>3. CASE i = Len(u)
    BY <1>7, <1>9, <2>3
  <2> QED
    BY <1>2, <2>1, <2>2, <2>3
<1>10. ASSUME NEW i \in 1..l, s[i].kind = "size", u[i] = s[i]
       PROVE  /\ IsChunk(u, i) /\ u[i].value > 0 /\ u[i].value # 0
              /\ ChunkEnd(u, i) < Len(u) /\ u[ChunkEnd(u, i) + 1].kind = "size"
  <2> DEFINE v == s[i].value
  <2>1. /\ v \in Nat /\ v > 0 /\ i + v + 1 <= l /\ s[i + v + 1].kind = "crlf"
        /\ \A j \in i + 1..i + v : s[j].kind = "data"
        /\ i + v + 1 < l => s[i + v + 1 + 1].kind = "size"
    BY <1>5, <1>10 DEF IsChunk, ChunkEnd, l
  <2>2. u[i].value = v
    BY <1>10
  <2> HIDE DEF v
  <2>3. i + v + 1 \in 1..l /\ u[i + v + 1].kind = "crlf" /\ i + v + 1 < Len(u)
    BY <1>2, <1>7, <2>1
  <2>4. ASSUME NEW j \in i + 1..i + v PROVE u[j].kind = "data"
    <3>1. j \in 1..l
      BY <1>2, <2>1
    <3> QED
      BY <1>7, <2>1, <3>1
  <2>5. u[i + v + 1 + 1].kind = "size"
    <3>1. CASE i + v + 1 < l
      <4>1. i + v + 1 + 1 \in 1..l
        BY <1>2, <2>1, <3>1
      <4> QED
        BY <1>7, <2>1, <3>1, <4>1
    <3>2. CASE i + v + 1 = l
      BY <1>7, <3>2
    <3> QED
      BY <1>2, <2>1, <3>1, <3>2
  <2>6. i + v + 1 <= Len(u) /\ v # 0
    BY <1>2, <2>1
  <2>7. ChunkEnd(u, i) = i + v + 1
    BY <2>2 DEF ChunkEnd
  <2>8. IsChunk(u, i)
    <3>1. ChunkEnd(u, i) <= Len(u) /\ u[ChunkEnd(u, i)].kind = "crlf"
      BY <2>3, <2>6, <2>7
    <3>2. ASSUME NEW j \in i + 1..ChunkEnd(u, i) - 1 PROVE u[j].kind = "data"
      <4>1. i \in Nat /\ v \in Nat
        BY <1>2, <2>1
      <4>2. j \in i + 1..i + v
        BY <2>7, <4>1
      <4> QED
        BY <2>4, <4>2, Zenon
    <3> QED
      BY <3>1, <3>2, Zenon DEF IsChunk
  <2> QED
    BY <2>1, <2>2, <2>3, <2>5, <2>6, <2>7, <2>8, Zenon
<1>11. IsChunk(u, l + 1) /\ ChunkEnd(u, l + 1) = Len(u) /\ u[l + 1].value = n
  <2>1. l + 1 + n + 1 = Len(u) /\ Len(u) <= Len(u)
    BY <1>2
  <2>2. ChunkEnd(u, l + 1) = Len(u)
    BY <1>7, <2>1 DEF ChunkEnd
  <2>3. ASSUME NEW j \in l + 1 + 1..Len(u) - 1 PROVE u[j].kind = "data"
    <3>1. j - (l + 1) \in 1..n /\ l + 1 + (j - (l + 1)) = j
      BY <1>2
    <3> QED
      BY <1>7, <3>1
  <2> QED
    BY <1>7, <2>1, <2>2, <2>3, Zenon DEF IsChunk
<1>12. CASE data = <<>>
  <2>1. n = 0
    BY <1>3, <1>12
  <2>2. ASSUME NEW i \in DOMAIN u, u[i].kind = "size"
        PROVE  /\ IsChunk(u, i)
               /\ IF u[i].value = 0 THEN ChunkEnd(u, i) = Len(u)
                  ELSE ChunkEnd(u, i) < Len(u) /\ u[ChunkEnd(u, i) + 1].kind = "size"
    <3>1. i \in 1..Len(u)
      BY <1>1, Zenon
    <3> QED
      BY <1>9, <1>10, <1>11, <2>1, <2>2, <3>1, Zenon
  <2>3. Chunked(u)
    BY <1>8, <2>2, Zenon DEF Chunked
  <2> QED
    BY <1>1, <1>12, <2>3, Zenon
<1>13. CASE data # <<>>
  <2>1. n > 0 /\ ~(Len(u) < Len(u))
    BY <1>2, <1>3, <1>13
  <2>2. ASSUME NEW i \in DOMAIN u, u[i].kind = "size"
        PROVE  /\ IsChunk(u, i) /\ u[i].value > 0
               /\ ChunkEnd(u, i) < Len(u) => u[ChunkEnd(u, i) + 1].kind = "size"
    <3>1. i \in 1..Len(u)
      BY <1>1, Zenon
    <3> QED
      BY <1>9, <1>10, <1>11, <2>1, <2>2, <3>1, Zenon
  <2>3. OpenChunks(u)
    BY <1>8, <2>2, Zenon DEF OpenChunks
  <2> QED
    BY <1>1, <1>13, <2>3, Zenon
<1> QED
  BY <1>12, <1>13

\* And it carries its bytes behind theirs.
LEMMA ChunkCarriesOn ==
  ASSUME NEW s \in Seq(Token), NEW body, NEW n \in Nat, Carries(s, body, n),
         NEW data \in Seq(Nat), \A i \in 1..Len(data) : data[i] = body[n + i]
  PROVE  Carries(s \o ChunkOf(data), body, n + Len(data))
<1>1. PICK u \in Seq(Token) :
         /\ u = s \o ChunkOf(data)
         /\ Len(s) \in Nat /\ Len(data) \in Nat
         /\ DOMAIN s = 1..Len(s) /\ DOMAIN u = 1..Len(u)
         /\ Len(u) = Len(s) + Len(data) + 2
         /\ \A i \in 1..Len(s) : u[i] = s[i]
         /\ u[Len(s) + 1] = Size(Len(data)) /\ u[Len(u)] = Crlf
         /\ \A j \in 1..Len(data) : u[Len(s) + 1 + j] = Byte(data[j])
  BY ChunkBehind, Zenon
<1> DEFINE m == Len(data)
           l == Len(s)
<1>2. l \in Nat /\ m \in Nat /\ Len(u) = l + m + 2
  BY <1>1
<1>3. PICK at \in [1..n -> 1..l] :
        /\ \A i, j \in 1..n : i < j => at[i] < at[j]
        /\ \A i \in 1..n : s[at[i]] = Byte(body[i])
        /\ \A k \in 1..l : s[k].kind = "data" => \E i \in 1..n : at[i] = k
  <2>1. DOMAIN s = 1..l
    BY <1>1
  <2> QED
    BY <2>1 DEF Carries
<1>4. \A i \in 1..m : u[l + 1 + i] = Byte(body[n + i])
  BY <1>1, Zenon
<1>5. u[l + 1].kind # "data" /\ u[Len(u)].kind # "data"
  BY <1>1, Kinds
<1>6. \A i \in 1..l : u[i] = s[i]
  BY <1>1
<1> HIDE DEF m, l
<1> DEFINE to == [i \in 1..n + m |-> IF i <= n THEN at[i] ELSE l + 1 + (i - n)]
<1>7. \A i \in 1..n : at[i] \in 1..l
  BY <1>3
<1>8. ASSUME NEW i \in 1..n + m
      PROVE  \/ i \in 1..n /\ to[i] = at[i]
             \/ i - n \in 1..m /\ to[i] = l + 1 + (i - n) /\ ~(i <= n)
  BY <1>2
<1>9. ASSUME NEW i \in 1..n + m PROVE to[i] \in 1..Len(u)
  BY <1>2, <1>7
<1>10. to \in [1..n + m -> 1..Len(u)]
  <2> DEFINE e(i) == IF i <= n THEN at[i] ELSE l + 1 + (i - n)
  <2>1. \A i \in 1..n + m : e(i) \in 1..Len(u)
    BY <1>2, <1>7
  <2> HIDE DEF e
  <2>2. [i \in 1..n + m |-> e(i)] \in [1..n + m -> 1..Len(u)]
    BY <2>1
  <2> QED
    BY <2>2 DEF e
<1>11. ASSUME NEW k \in 1..n PROVE k \in 1..n + m /\ to[k] = at[k]
  BY <1>2, <1>11
<1>12. ASSUME NEW k \in 1..m PROVE n + k \in 1..n + m /\ to[n + k] = l + 1 + k
  BY <1>2, <1>12
<1> HIDE DEF to
<1>13. ASSUME NEW i \in 1..n + m, NEW j \in 1..n + m, i < j PROVE to[i] < to[j]
  <2>1. CASE i \in 1..n /\ j \in 1..n
    BY <1>3, <1>11, <1>13, <2>1
  <2>2. CASE i \in 1..n /\ ~(j <= n)
    <3>1. to[i] \in 1..l /\ to[j] = l + 1 + (j - n) /\ j - n \in 1..m
      <4>1. to[i] \in 1..l
        BY <1>7, <1>11, <2>2
      <4>2. to[j] = l + 1 + (j - n) /\ j - n \in 1..m
        BY <1>8, <2>2
      <4> QED
        BY <4>1, <4>2
    <3> QED
      BY <1>2, <3>1
  <2>3. CASE ~(i <= n) /\ ~(j <= n)
    <3>1. to[i] = l + 1 + (i - n) /\ to[j] = l + 1 + (j - n)
      BY <1>8, <2>3
    <3> QED
      BY <1>2, <1>13, <3>1
  <2> QED
    BY <1>2, <1>13, <2>1, <2>2, <2>3
<1>14. ASSUME NEW i \in 1..n + m PROVE u[to[i]] = Byte(body[i])
  <2>1. CASE i \in 1..n /\ to[i] = at[i]
    BY <1>3, <1>6, <1>7, <2>1, Zenon
  <2>2. CASE i - n \in 1..m /\ to[i] = l + 1 + (i - n)
    <3>1. n + (i - n) = i
      BY <1>2
    <3>2. u[to[i]] = Byte(body[n + (i - n)])
      BY <1>4, <2>2, Zenon
    <3> QED
      BY <3>1, <3>2, Zenon
  <2> QED
    BY <1>8, <2>1, <2>2, Zenon
<1>15. ASSUME NEW k \in 1..Len(u), u[k].kind = "data" PROVE \E i \in 1..n + m : to[i] = k
  <2>1. CASE k <= l
    <3>1. k \in 1..l
      BY <1>2, <2>1
    <3>2. PICK i \in 1..n : at[i] = k
      BY <1>3, <1>6, <1>15, <3>1, Zenon
    <3> QED
      BY <1>11, <3>2, Zenon
  <2>2. CASE l + 1 < k /\ k < Len(u)
    <3>1. k - (l + 1) \in 1..m /\ l + 1 + (k - (l + 1)) = k
      BY <1>2, <2>2
    <3> QED
      BY <1>12, <3>1, Zenon
  <2>3. k # l + 1 /\ k # Len(u)
    BY <1>5, <1>15
  <2> QED
    BY <1>2, <2>1, <2>2, <2>3
<1>16. Carries(u, body, n + m)
  <2>1. to \in [1..n + m -> DOMAIN u] /\ DOMAIN u = 1..Len(u)
    BY <1>1, <1>10, Zenon
  <2> QED
    BY <1>13, <1>14, <1>15, <2>1, Zenon DEF Carries
<1> QED
  BY <1>1, <1>16, Zenon DEF m

-----------------------------------------------------------------------------
(* The application's answer. *)

\* Two headers, added one after the other.
LEMMA TwoAdded ==
  ASSUME NEW a, NEW b
  PROVE  Append(<<>>, a) = <<a>> /\ Append(Append(<<>>, a), b) = <<a, b>>
<1> DEFINE S == {a, b}
<1>1. <<>> \in Seq(S) /\ a \in S /\ b \in S
  BY EmptySeq
<1> HIDE DEF S
<1>2. Append(<<>>, a) = <<a>>
  <2>1. Append(<<>>, a) = <<>> \o <<a>>
    BY <1>1, AppendIsConcat
  <2>2. <<a>> \in Seq(S)
    BY <1>1
  <2> QED
    BY <2>1, <2>2, ConcatEmptySeq
<1>3. <<a>> \in Seq(S) /\ Len(<<a>>) = 1
  BY <1>1
<1> DEFINE two == Append(<<a>>, b)
<1>4. two \in Seq(S) /\ Len(two) = 2 /\ two[1] = a /\ two[2] = b
  BY <1>1, <1>3, AppendProperties
<1>5. <<a, b>> \in Seq(S) /\ Len(<<a, b>>) = 2
  BY <1>1
<1> HIDE DEF two
<1>6. \A i \in 1..2 : two[i] = <<a, b>>[i]
  BY <1>4
<1>7. two = <<a, b>>
  BY <1>4, <1>5, <1>6, SeqEqual
<1> QED
  BY <1>2, <1>7 DEF two

\* Two sequences of one element, one behind the other.
LEMMA TwoJoined ==
  ASSUME NEW a, NEW b
  PROVE  <<a>> \o <<b>> = <<a, b>>
<1> DEFINE S == {a, b}
           two == <<a>> \o <<b>>
<1>1. <<a>> \in Seq(S) /\ <<b>> \in Seq(S) /\ <<a, b>> \in Seq(S)
      /\ Len(<<a>>) = 1 /\ Len(<<b>>) = 1 /\ Len(<<a, b>>) = 2
  OBVIOUS
<1> HIDE DEF S
<1>2. /\ two \in Seq(S) /\ Len(two) = Len(<<a>>) + Len(<<b>>)
      /\ \A i \in 1..Len(<<a>>) : two[i] = <<a>>[i]
      /\ \A k \in 1..Len(<<b>>) : two[Len(<<a>>) + k] = <<b>>[k]
  <2>1. <<a>> \in Seq(S) /\ <<b>> \in Seq(S)
    BY <1>1
  <2> QED
    BY <2>1, Behind
<1> HIDE DEF two
<1>3. Len(two) = 2 /\ two[1] = a /\ two[2] = b
  <2>1. Len(two) = 2
    BY <1>1, <1>2
  <2>2. 1 \in 1..Len(<<a>>) /\ 1 \in 1..Len(<<b>>) /\ Len(<<a>>) + 1 = 2 /\ <<a>>[1] = a /\ <<b>>[1] = b
    BY <1>1
  <2> QED
    BY <1>2, <2>1, <2>2, Zenon
<1>4. \A i \in 1..2 : two[i] = <<a, b>>[i]
  BY <1>3
<1>5. two = <<a, b>>
  BY <1>1, <1>2, <1>3, <1>4, SeqEqual
<1> QED
  BY <1>5 DEF two

\* The value of the Connection header of an answer.
Connection(status) == IF status = "200" /\ request.keepAlive THEN "keep-alive" ELSE "close"

\* The statuses of an application.
Told == {"200", "404"}

\* The objects of the application's answer.
LEMMA Echoes ==
  ASSUME DataOK, NEW status \in Told
  PROVE  /\ Begun(status) \in Object /\ Sized(status) \in Object /\ InChunks(status) \in Object
         /\ Begun(status).status = status /\ Sized(status).status = status /\ InChunks(status).status = status
         /\ ~Begun(status).headerSent /\ ~Sized(status).headerSent /\ ~InChunks(status).headerSent
         /\ Connection(status) \in {"keep-alive", "close"}
         /\ Sized(status).headers = << <<"Connection", Connection(status)>>, <<"Content-Length", Len(request.payload)>> >>
         /\ InChunks(status).headers = << <<"Connection", Connection(status)>>, <<"Transfer-Encoding", "chunked">> >>
<1> DEFINE c == Connection(status)
<1>1. c \in {"keep-alive", "close"}
  BY DEF Connection
<1>2. Len(request.payload) \in Nat
  BY LenProperties DEF DataOK
<1>3. Begun(status) = Described(EmptyResponse, status, c)
  BY DEF Begun, Connection
<1> HIDE DEF c
<1>4. Begun(status) \in Object
  BY <1>1, <1>3, OwnAnswers, DescribedIsObject DEF Told, Statuses
<1>5. <<"Content-Length", Len(request.payload)>> \in Header /\ <<"Transfer-Encoding", "chunked">> \in Header
  BY <1>2 DEF Header
<1>6. Sized(status) \in Object /\ InChunks(status) \in Object
  BY <1>4, <1>5, HeaderIsAdded DEF Sized, InChunks
<1>7. /\ Begun(status).status = status /\ ~Begun(status).headerSent
      /\ Begun(status).headers = Append(<<>>, <<"Connection", c>>)
  BY <1>3 DEF Described, SetHttpHeader, EmptyResponse
<1>8. /\ Sized(status).status = status /\ ~Sized(status).headerSent
      /\ Sized(status).headers = Append(Begun(status).headers, <<"Content-Length", Len(request.payload)>>)
      /\ InChunks(status).status = status /\ ~InChunks(status).headerSent
      /\ InChunks(status).headers = Append(Begun(status).headers, <<"Transfer-Encoding", "chunked">>)
  BY <1>4, <1>7 DEF Sized, InChunks, SetHttpHeader, Object
<1>9. /\ Sized(status).headers = << <<"Connection", c>>, <<"Content-Length", Len(request.payload)>> >>
      /\ InChunks(status).headers = << <<"Connection", c>>, <<"Transfer-Encoding", "chunked">> >>
  BY <1>7, <1>8, TwoAdded
<1> QED
  BY <1>1, <1>4, <1>6, <1>7, <1>8, <1>9 DEF c

\* The value of the only header of a name is what VmRESTGetHTTPMiscHeader finds.
LEMMA OnlyHeaderIsFound ==
  ASSUME NEW r, r.headers \in Seq(Header), NEW name, NEW i \in DOMAIN r.headers,
         \A j \in DOMAIN r.headers : r.headers[j][1] = name <=> j = i
  PROVE  GetHeader(r, name) = <<r.headers[i][2]>>
BY HeaderIsFound

\* Without a header of that name it finds none.
LEMMA NoHeaderIsFound ==
  ASSUME NEW r, r.headers \in Seq(Header), NEW name, \A j \in DOMAIN r.headers : r.headers[j][1] # name
  PROVE  GetHeader(r, name) = <<>>
BY HeaderIsFound

\* The whole answer in one write, with a length that is told.
LEMMA SizedWrites ==
  ASSUME NEW r \in Object, NEW c, NEW data \in Seq(Nat),
         r.headers = << <<"Connection", c>>, <<"Content-Length", Len(data)>> >>
  PROVE  /\ Writes(r, data) # <<>> /\ Len(Writes(r, data)) = 1
         /\ InAll(Writes(r, data)) = HeadOf(r) \o Bytes(data, Len(data))
<1> DEFINE n == Len(data)
           w == Write(HeadOf(r) \o Bytes(data, n), TRUE, TRUE)
<1>1. GetHeader(r, "Content-Length") = <<n>>
  <2>1. \A j \in DOMAIN r.headers : j = 1 \/ j = 2
    BY DEF Object
  <2>2. r.headers[1][1] # "Content-Length" /\ r.headers[2][1] = "Content-Length" /\ r.headers[2][2] = n
        /\ 2 \in DOMAIN r.headers
    OBVIOUS
  <2>3. r.headers \in Seq(Header)
    BY DEF Object
  <2> HIDE DEF n
  <2>4. \A j \in DOMAIN r.headers : r.headers[j][1] = "Content-Length" <=> j = 2
    BY <2>1, <2>2
  <2>5. GetHeader(r, "Content-Length") = <<r.headers[2][2]>>
    BY <2>2, <2>3, <2>4, OnlyHeaderIsFound, Zenon
  <2> QED
    BY <2>2, <2>5
<1>2. Writes(r, data) = <<w>>
  <2>1. GetHeader(r, "Content-Length") # <<>> /\ Head(GetHeader(r, "Content-Length")) = n
    BY <1>1
  <2> QED
    BY <2>1 DEF Writes
<1>3. w.bytes = HeadOf(r) \o Bytes(data, n)
  BY DEF Write
<1> HIDE DEF w
<1>4. Writes(r, data) # <<>> /\ Len(Writes(r, data)) = 1 /\ Writes(r, data)[1] = w
  BY <1>2
<1> QED
  BY <1>3, <1>4 DEF InAll

\* The next chunk, behind the head if that is still to be sent.
LEMMA ChunkWrites ==
  ASSUME NEW r \in Object, NEW c, NEW data \in Seq(Nat),
         r.headers = << <<"Connection", c>>, <<"Transfer-Encoding", "chunked">> >>
  PROVE  /\ Writes(r, data) # <<>>
         /\ r.headerSent => Len(Writes(r, data)) = 1 /\ InAll(Writes(r, data)) = ChunkOf(data)
         /\ ~r.headerSent => /\ Len(Writes(r, data)) = 2 /\ Writes(r, data)[1].marks
                             /\ InAll(Writes(r, data)) = HeadOf(r) \o ChunkOf(data)
<1> DEFINE w == Write(ChunkOf(data), FALSE, TRUE)
           h == Write(HeadOf(r), TRUE, TRUE)
<1>1. GetHeader(r, "Content-Length") = <<>> /\ GetHeader(r, "Transfer-Encoding") = <<"chunked">>
  <2>1. \A j \in DOMAIN r.headers : j = 1 \/ j = 2
    OBVIOUS
  <2>2. /\ r.headers[1][1] = "Connection" /\ r.headers[2][1] = "Transfer-Encoding"
        /\ r.headers[2][2] = "chunked" /\ 2 \in DOMAIN r.headers
    OBVIOUS
  <2>3. r.headers \in Seq(Header)
    BY DEF Object
  <2>4. GetHeader(r, "Transfer-Encoding") = <<r.headers[2][2]>>
    <3>1. \A j \in DOMAIN r.headers : r.headers[j][1] = "Transfer-Encoding" <=> j = 2
      BY <2>1, <2>2
    <3> QED
      BY <2>2, <2>3, <3>1, OnlyHeaderIsFound, Zenon
  <2>5. GetHeader(r, "Content-Length") = <<>>
    BY <2>1, <2>2, <2>3, NoHeaderIsFound
  <2> QED
    BY <2>2, <2>4, <2>5
<1>2. Writes(r, data) = (IF r.headerSent THEN <<>> ELSE <<h>>) \o <<w>>
  <2>1. GetHeader(r, "Content-Length") = <<>> /\ GetHeader(r, "Transfer-Encoding") # <<>>
    <3>1. \A v : <<v>> # <<>>
      OBVIOUS
    <3> QED
      BY <1>1, <3>1, Zenon
  <2> QED
    BY <2>1, Zenon DEF Writes
<1>3. w.bytes = ChunkOf(data) /\ h.bytes = HeadOf(r) /\ h.marks
  BY DEF Write
<1> HIDE DEF w, h
<1>4. <<w>> \in Seq({w, h})
  OBVIOUS
<1>5. CASE r.headerSent
  <2>1. Writes(r, data) = <<w>>
    BY <1>2, <1>4, <1>5, ConcatEmptySeq
  <2>2. Writes(r, data) # <<>> /\ Len(Writes(r, data)) = 1 /\ Writes(r, data)[1] = w
    BY <2>1
  <2> QED
    BY <1>3, <1>5, <2>2 DEF InAll
<1>6. CASE ~r.headerSent
  <2>1. Writes(r, data) = <<h, w>>
    <3>1. Writes(r, data) = <<h>> \o <<w>>
      BY <1>2, <1>6
    <3>2. <<h>> \o <<w>> = <<h, w>>
      BY TwoJoined
    <3> QED
      BY <3>1, <3>2, Zenon
  <2>2. Writes(r, data) # <<>> /\ Len(Writes(r, data)) = 2 /\ Writes(r, data)[1] = h /\ Writes(r, data)[2] = w
    BY <2>1
  <2>3. InAll(Writes(r, data)) = h.bytes \o w.bytes
    BY <2>2 DEF InAll
  <2> QED
    BY <1>3, <1>6, <2>2, <2>3
<1> QED
  BY <1>5, <1>6 DEF Object

\* The head and then the application's own buffer.
LEMMA OwnBufferWrites ==
  ASSUME NEW r \in Object, NEW data \in Seq(Nat)
  PROVE  /\ WritesZeroCopy(r, data) # <<>> /\ Len(WritesZeroCopy(r, data)) \in 1..2
         /\ InAll(WritesZeroCopy(r, data)) = HeadOf(r) \o Bytes(data, Len(data))
<1> DEFINE h == Write(HeadOf(r), FALSE, TRUE)
           w == Write(Bytes(data, Len(data)), FALSE, FALSE)
           all == WritesZeroCopy(r, data)
<1>1. all = <<h>> \o IF data = <<>> THEN <<>> ELSE <<w>>
  BY DEF WritesZeroCopy
<1>2. h.bytes = HeadOf(r) /\ w.bytes = Bytes(data, Len(data))
  BY DEF Write
<1> HIDE DEF w, h, all
<1>3. <<h>> \in Seq({w, h})
  OBVIOUS
<1>4. HeadOf(r) \in Seq(Token)
  BY RefusalsAreSequences
<1>5. CASE data = <<>>
  <2>1. all = <<h>>
    BY <1>1, <1>3, <1>5, ConcatEmptySeq
  <2>2. all # <<>> /\ Len(all) = 1 /\ all[1] = h
    BY <2>1
  <2>3. Bytes(data, Len(data)) = <<>>
    <3>1. Len(data) = 0
      BY <1>5
    <3>2. Bytes(data, 0) \in Seq(Token) /\ Len(Bytes(data, 0)) = 0
      BY BytesAreTokens
    <3> QED
      BY <3>1, <3>2, EmptySeq
  <2>4. HeadOf(r) \o <<>> = HeadOf(r)
    BY <1>4, ConcatEmptySeq
  <2> QED
    BY <1>2, <2>2, <2>3, <2>4 DEF InAll, all
<1>6. CASE data # <<>>
  <2>1. all = <<h, w>>
    <3>1. all = <<h>> \o <<w>>
      BY <1>1, <1>6
    <3>2. <<h>> \o <<w>> = <<h, w>>
      BY TwoJoined
    <3> QED
      BY <3>1, <3>2, Zenon
  <2>2. all # <<>> /\ Len(all) = 2 /\ all[1] = h /\ all[2] = w
    BY <2>1
  <2>3. InAll(all) = h.bytes \o w.bytes
    BY <2>2 DEF InAll
  <2> QED
    BY <1>2, <2>2, <2>3 DEF all
<1> QED
  BY <1>5, <1>6

\* What is sent behind the heads is an end of all that is sent.
LEMMA BodyIsPart ==
  ASSUME NEW total, NEW opening \in Openings, NEW r \in Object, NEW s \in Seq(Token),
         total = opening \o (HeadOf(r) \o s)
  PROVE  \E i \in 1..Len(total) + 1 : s = SubSeq(total, i, Len(total))
<1>1. opening \in Seq(Token) /\ HeadOf(r) \in Seq(Token)
  BY RefusalsAreSequences
<1> DEFINE lead == opening \o HeadOf(r)
<1>2. lead \in Seq(Token)
  BY <1>1, Joined
<1>3. total = lead \o s
  BY <1>1, Regroup
<1> HIDE DEF lead
<1>4. Len(lead) \in Nat /\ Len(s) \in Nat /\ Len(lead \o s) = Len(lead) + Len(s)
  BY <1>2, Joined
<1>5. SubSeq(total, Len(lead) + 1, Len(total)) = s
  BY <1>2, <1>3, <1>4, EndOfJoined
<1>6. Len(lead) + 1 \in 1..Len(total) + 1
  BY <1>3, <1>4
<1> QED
  BY <1>5, <1>6

\* What can stand behind the head is a sequence of tokens.
LEMMA BodiesAreTokens ==
  ASSUME DataOK, pc # "write", NEW s \in Bodies
  PROVE  s \in Seq(Token)
<1>1. ToBeSent = sent /\ sent \in Seq(Token)
  BY DEF ToBeSent, DataOK
<1>2. Len(sent) \in Nat
  BY <1>1, LenProperties
<1>3. PICK i \in 1..Len(sent) + 1 : s = SubSeq(sent, i, Len(sent))
  BY <1>1 DEF Bodies
<1>4. i \in Nat \ {0} /\ Len(sent) <= Len(sent)
  BY <1>2
<1> QED
  BY <1>1, <1>2, <1>3, <1>4, Slices

\* An answer stays what it is when nothing is added to it.
LEMMA AnswerStays ==
  ASSUME UNCHANGED request, resp'["answer"].headers = resp["answer"].headers, ToBeSent' = ToBeSent,
         NEW status, Answered(status)
  PROVE  Answered(status)'
<1>1. Sized(status)' = Sized(status) /\ InChunks(status)' = InChunks(status)
  BY DEF Sized, InChunks, Begun
<1>2. Bodies' = Bodies
  BY DEF Bodies
<1>3. ASSUME NEW r, NEW s, Sends(r, s)
      PROVE  resp'["answer"].headers = r.headers /\ \E opening \in Openings : ToBeSent' = opening \o (HeadOf(r) \o s)
  BY <1>3 DEF Sends
<1> QED
  BY <1>1, <1>2, <1>3 DEF Answered, Sends

\* So do the chunks of one that goes on.
LEMMA ChunksStay ==
  ASSUME UNCHANGED <<request, app>>, resp'["answer"].headers = resp["answer"].headers, ToBeSent' = ToBeSent,
         pc = "write", resp'["answer"].headerSent \/ (pc' = "write" /\ todo'[1].marks),
         NEW status, Chunking(status)
  PROVE  Chunking(status)'
<1>1. InChunks(status)' = InChunks(status)
  BY DEF InChunks, Begun
<1>2. Bodies' = Bodies
  BY DEF Bodies
<1>3. ASSUME NEW r, NEW s, Sends(r, s)
      PROVE  resp'["answer"].headers = r.headers /\ \E opening \in Openings : ToBeSent' = opening \o (HeadOf(r) \o s)
  BY <1>3 DEF Sends
<1>4. PICK s \in Bodies, n \in 0..Len(request.payload) :
        Sends(InChunks(status), s) /\ OpenChunks(s) /\ Carries(s, request.payload, n) /\ LeftBehind(n)
  BY DEF Chunking
<1>5. LeftBehind(n)'
  BY <1>4 DEF LeftBehind
<1>6. Sends(InChunks(status), s)'
  BY <1>1, <1>3, <1>4 DEF Sends
<1>7. s \in Bodies' /\ n \in 0..Len(request'.payload) /\ Carries(s, request'.payload, n)
  BY <1>2, <1>4
<1> QED
  BY <1>4, <1>5, <1>6, <1>7 DEF Chunking

-----------------------------------------------------------------------------
(* Its transmission. *)

\* A part of a write leaves the rest of the call's writes to be sent.
LEMMA PartGoesOn ==
  ASSUME DataOK, WriteSome, Len(todo) \in 1..2
  PROVE  Len(todo') = Len(todo) /\ todo'[1].marks = todo[1].marks /\ ToBeSent' = ToBeSent
<1> DEFINE b == todo[1].bytes
<1>1. /\ pc = "write" /\ pc' = "write" /\ todo # <<>> /\ todo \in Seq(WriteRecord)
      /\ Current = todo[1]
  <2>1. pc = "write" /\ pc' = "write"
    BY DEF WriteSome, Ready
  <2>2. todo # <<>> /\ todo \in Seq(WriteRecord)
    BY <2>1 DEF DataOK
  <2> QED
    BY <2>1, <2>2, HeadTailProperties DEF Current
<1>2. todo[1] \in WriteRecord
  BY <1>1, ElementOfSeq
<1>3. b \in Seq(Token) /\ Len(b) \in Nat /\ sent \in Seq(Token)
  BY <1>2, LenProperties DEF WriteRecord, DataOK
<1>4. PICK k \in 1..Len(b) - 1 :
        /\ sent' = sent \o SubSeq(b, 1, k)
        /\ todo' = <<[todo[1] EXCEPT !.bytes = SubSeq(@, k + 1, Len(@))]>> \o Tail(todo)
  BY <1>1 DEF WriteSome
<1> DEFINE go == SubSeq(b, 1, k)
           rest == SubSeq(b, k + 1, Len(b))
           first == [todo[1] EXCEPT !.bytes = rest]
<1>5. go \in Seq(Token) /\ rest \in Seq(Token)
  BY <1>3, Slices
<1>6. go \o rest = b
  BY <1>3, ConcatAdjacentSubSeq, SubSeqFull
<1>7. first \in WriteRecord /\ first.bytes = rest /\ first.marks = todo[1].marks
  BY <1>2, <1>5 DEF WriteRecord
<1>8. todo' = <<first>> \o Tail(todo)
  BY <1>4
<1> HIDE DEF b, go, rest, first
<1>9. Tail(todo) \in Seq(WriteRecord) /\ Len(Tail(todo)) = Len(todo) - 1
      /\ \A i \in 1..Len(Tail(todo)) : Tail(todo)[i] = todo[i + 1]
  BY <1>1, HeadTailProperties
<1>10. <<first>> \in Seq(WriteRecord) /\ Len(<<first>>) = 1 /\ <<first>>[1] = first
  BY <1>7
<1>11. /\ Len(todo') = Len(<<first>>) + Len(Tail(todo))
       /\ \A i \in 1..Len(<<first>>) : todo'[i] = <<first>>[i]
       /\ \A i \in 1..Len(Tail(todo)) : todo'[Len(<<first>>) + i] = Tail(todo)[i]
  <2>1. <<first>> \in Seq(WriteRecord) /\ Tail(todo) \in Seq(WriteRecord)
    BY <1>9, <1>10
  <2> QED
    BY <1>8, <2>1, Behind
<1>12. Len(todo') = Len(todo) /\ todo'[1] = first
  BY <1>9, <1>10, <1>11
<1>13. sent' \o rest = sent \o b
  <2>1. sent' = sent \o go
    BY <1>4 DEF go
  <2> QED
    BY <1>3, <1>5, <1>6, <2>1, Regroup
<1>14. sent' \in Seq(Token)
  <2>1. sent' = sent \o go
    BY <1>4 DEF go
  <2> QED
    BY <1>3, <1>5, <2>1, Joined
<1>15. CASE Len(todo) = 1
  <2>1. InAll(todo) = b /\ InAll(todo') = rest
    BY <1>7, <1>12, <1>15 DEF InAll, b
  <2> QED
    BY <1>1, <1>7, <1>12, <1>13, <2>1 DEF ToBeSent
<1>16. CASE Len(todo) = 2
  <2>1. todo'[2] = todo[2]
    <3>1. 1 \in 1..Len(Tail(todo)) /\ Len(<<first>>) + 1 = 2 /\ 1 + 1 = 2
      BY <1>9, <1>10, <1>16
    <3>2. todo'[Len(<<first>>) + 1] = Tail(todo)[1] /\ Tail(todo)[1] = todo[1 + 1]
      BY <1>9, <1>11, <3>1, Zenon
    <3> QED
      BY <3>1, <3>2, Zenon
  <2>2. InAll(todo) = b \o todo[2].bytes /\ InAll(todo') = rest \o todo[2].bytes
    <3>1. Len(todo) # 1 /\ Len(todo') # 1
      BY <1>12, <1>16
    <3> QED
      BY <1>7, <1>12, <2>1, <3>1, Zenon DEF InAll, b
  <2>3. todo[2].bytes \in Seq(Token)
    <3>1. todo[2] \in WriteRecord
      BY <1>1, <1>16, ElementOfSeq
    <3> QED
      BY <3>1 DEF WriteRecord
  <2>4. sent' \o (rest \o todo[2].bytes) = (sent' \o rest) \o todo[2].bytes
    BY <1>5, <1>14, <2>3, Regroup
  <2>5. sent \o (b \o todo[2].bytes) = (sent \o b) \o todo[2].bytes
    BY <1>3, <2>3, Regroup
  <2> QED
    BY <1>1, <1>7, <1>12, <1>13, <2>2, <2>4, <2>5 DEF ToBeSent
<1> QED
  BY <1>15, <1>16

\* When a write is done, the other one is left or the call returns.
LEMMA AllGoes ==
  ASSUME DataOK, WriteAll, Len(todo) \in 1..2, caller = "callback"
  PROVE  /\ ToBeSent' = ToBeSent
         /\ pc' = "callback" \/ (pc' = "write" /\ Len(todo') \in 1..2)
         /\ resp'["answer"].headers = resp["answer"].headers
         /\ resp["answer"].headerSent \/ todo[1].marks => resp'["answer"].headerSent
         /\ UNCHANGED <<request, caller, app, outcome>>
<1>1. /\ pc = "write" /\ todo # <<>> /\ todo \in Seq(WriteRecord) /\ Current = todo[1]
  <2>1. pc = "write"
    BY DEF WriteAll, Ready
  <2>2. todo # <<>> /\ todo \in Seq(WriteRecord)
    BY <2>1 DEF DataOK
  <2> QED
    BY <2>1, <2>2, HeadTailProperties DEF Current
<1>2. /\ resp'["answer"].headers = resp["answer"].headers
      /\ resp["answer"].headerSent \/ todo[1].marks => resp'["answer"].headerSent
  <2>1. resp' = IF todo[1].marks THEN [resp EXCEPT !["answer"] = HeaderSent(@)] ELSE resp
    BY <1>1 DEF WriteAll, Target
  <2> QED
    BY <2>1 DEF HeaderSent, DataOK, Object
<1>3. Tail(todo) \in Seq(WriteRecord) /\ Len(Tail(todo)) = Len(todo) - 1
      /\ \A i \in 1..Len(Tail(todo)) : Tail(todo)[i] = todo[i + 1]
  BY <1>1, HeadTailProperties
<1>4. sent' = sent \o todo[1].bytes /\ UNCHANGED <<request, caller, app>>
  BY <1>1 DEF WriteAll
<1>5. todo[1].bytes \in Seq(Token) /\ sent \in Seq(Token)
  <2>1. todo[1] \in WriteRecord
    BY <1>1, ElementOfSeq
  <2> QED
    BY <2>1 DEF WriteRecord, DataOK
<1>6. CASE Len(todo) = 1
  <2>1. Tail(todo) = <<>>
    <3>1. Len(Tail(todo)) = 0
      BY <1>3, <1>6
    <3> QED
      BY <1>3, <3>1, EmptySeq
  <2>2. pc' = "callback" /\ outcome' = outcome
    BY <2>1 DEF WriteAll, Return
  <2>3. ToBeSent = sent \o todo[1].bytes /\ ToBeSent' = sent'
    BY <1>1, <1>6, <2>2 DEF ToBeSent, InAll
  <2> QED
    BY <1>2, <1>4, <2>2, <2>3
<1>7. CASE Len(todo) = 2
  <2>1. Len(Tail(todo)) = 1 /\ Tail(todo)[1] = todo[2]
    <3>0. Len(Tail(todo)) = Len(todo) - 1
      BY <1>3
    <3>1. 1 \in 1..Len(Tail(todo)) /\ Len(Tail(todo)) = 1 /\ 1 + 1 = 2
      BY <1>7, <3>0
    <3>2. Tail(todo)[1] = todo[1 + 1]
      BY <1>3, <3>1, Zenon
    <3> QED
      BY <3>1, <3>2, Zenon
  <2>2. Tail(todo) # <<>>
    <3>1. Len(<<>>) = 0 /\ 1 # 0
      BY EmptySeq
    <3> QED
      BY <2>1, <3>1, Zenon
  <2>3. pc' = "write" /\ todo' = Tail(todo) /\ outcome' = outcome
    BY <1>1, <2>2 DEF WriteAll
  <2>4. todo[2].bytes \in Seq(Token)
    <3>1. todo[2] \in WriteRecord
      BY <1>1, <1>7, ElementOfSeq
    <3> QED
      BY <3>1 DEF WriteRecord
  <2>5. ToBeSent = sent \o (todo[1].bytes \o todo[2].bytes)
    BY <1>1, <1>7 DEF ToBeSent, InAll
  <2>6. ToBeSent' = sent' \o todo[2].bytes
    BY <2>1, <2>3 DEF ToBeSent, InAll
  <2>7. (sent \o todo[1].bytes) \o todo[2].bytes = sent \o (todo[1].bytes \o todo[2].bytes)
    BY <1>5, <2>4, Regroup
  <2>8. ToBeSent' = ToBeSent
    BY <1>4, <2>5, <2>6, <2>7
  <2> QED
    BY <1>2, <1>4, <2>1, <2>3, <2>8
<1> QED
  BY <1>6, <1>7

-----------------------------------------------------------------------------
(* What the application reads and says. *)

\* The next piece continues what is read.
LEMMA PieceIsNext ==
  ASSUME NEW payload \in Seq(Nat), NEW got \in Nat, got <= Len(payload)
  PROVE  /\ NextPiece(payload, got) \in Seq(Nat)
         /\ Len(NextPiece(payload, got)) \in Nat
         /\ got + Len(NextPiece(payload, got)) <= Len(payload)
         /\ \A i \in 1..Len(NextPiece(payload, got)) : NextPiece(payload, got)[i] = payload[got + i]
<1> DEFINE n == got + IF Len(payload) - got >= MaxData THEN MaxData ELSE Len(payload) - got
           piece == NextPiece(payload, got)
<1>1. Len(payload) \in Nat
  BY LenProperties
<1>2. n \in Nat /\ n <= Len(payload) /\ got <= n /\ got + 1 \in Nat \ {0}
  BY <1>1, LimitsAssumption
<1>3. piece = SubSeq(payload, got + 1, n)
  BY DEF NextPiece
<1> HIDE DEF n, piece
<1>4. /\ piece \in Seq(Nat)
      /\ DOMAIN piece = 1..n - (got + 1) + 1
      /\ \A i \in 1..n - (got + 1) + 1 : piece[i] = payload[got + 1 + i - 1]
  BY <1>2, <1>3, Slices
<1>5. Len(piece) \in Nat /\ DOMAIN piece = 1..Len(piece)
  BY <1>4, LenProperties
<1>6. n - (got + 1) + 1 = n - got /\ n - got \in Nat
  BY <1>2
<1>7. Len(piece) = n - got
  <2>1. 1..Len(piece) = 1..n - got
    BY <1>4, <1>5, <1>6
  <2> QED
    BY <1>5, <1>6, <2>1
<1>8. ASSUME NEW i \in 1..Len(piece) PROVE piece[i] = payload[got + i]
  <2>1. i \in 1..n - (got + 1) + 1 /\ got + 1 + i - 1 = got + i
    BY <1>2, <1>6, <1>7
  <2> QED
    BY <1>4, <2>1
<1>9. got + Len(piece) <= Len(payload)
  BY <1>1, <1>2, <1>7
<1> QED
  BY <1>4, <1>5, <1>8, <1>9 DEF piece

\* What is read goes on with the next piece, until it is the body.
LEMMA ReadingGoesOn ==
  ASSUME NEW payload \in Seq(Nat), NEW data \in Seq(Nat), Len(data) <= Len(payload),
         \A i \in DOMAIN data : data[i] = payload[i],
         NEW all, all = data \o NextPiece(payload, Len(data))
  PROVE  /\ Len(all) <= Len(payload)
         /\ \A i \in DOMAIN all : all[i] = payload[i]
         /\ ~(Len(all) < Len(payload)) => all = payload
<1> DEFINE piece == NextPiece(payload, Len(data))
           got == Len(data)
<1>1. got \in Nat /\ DOMAIN data = 1..got /\ Len(payload) \in Nat
  BY LenProperties
<1>2. /\ piece \in Seq(Nat) /\ Len(piece) \in Nat /\ got + Len(piece) <= Len(payload)
      /\ \A i \in 1..Len(piece) : piece[i] = payload[got + i]
  BY <1>1, PieceIsNext
<1>3. got <= Len(payload) /\ \A i \in 1..got : data[i] = payload[i]
  BY <1>1
<1> HIDE DEF piece
<1>4. /\ all \in Seq(Nat) /\ Len(all) = got + Len(piece) /\ DOMAIN all = 1..got + Len(piece)
      /\ \A i \in 1..got : all[i] = data[i]
      /\ \A k \in 1..Len(piece) : all[got + k] = piece[k]
  <2>1. all = data \o piece /\ piece \in Seq(Nat)
    BY <1>2 DEF piece
  <2> QED
    BY <2>1, Behind
<1> HIDE DEF got
<1>5. ASSUME NEW i \in 1..got + Len(piece) PROVE all[i] = payload[i]
  <2>1. CASE i <= got
    <3>1. i \in 1..got
      BY <1>1, <1>2, <2>1
    <3> QED
      BY <1>3, <1>4, <3>1, Zenon
  <2>2. CASE ~(i <= got)
    <3>1. i - got \in 1..Len(piece) /\ got + (i - got) = i
      BY <1>1, <1>2, <2>2
    <3> QED
      BY <1>2, <1>4, <3>1, Zenon
  <2> QED
    BY <2>1, <2>2
<1>6. Len(all) <= Len(payload)
  BY <1>2, <1>4
<1>7. ASSUME ~(Len(all) < Len(payload)) PROVE all = payload
  <2>1. Len(all) = Len(payload) /\ Len(all) = got + Len(piece)
    BY <1>1, <1>2, <1>4, <1>6, <1>7
  <2>2. \A i \in 1..Len(all) : all[i] = payload[i]
    BY <1>5, <2>1, Zenon
  <2>3. all \in Seq(Nat)
    BY <1>4
  <2> QED
    BY <2>1, <2>2, <2>3, SeqEqual
<1> QED
  BY <1>4, <1>5, <1>6, <1>7, Zenon

\* What is read stays a beginning of the body.
LEMMA ReadingKeepsEcho ==
  ASSUME DataOK, ReadInv, AnswerInv, trouble = {}, GetData \/ GetDataZC
  PROVE  ReadInv' /\ AnswerInv' /\ EndInv'
<1>1. /\ pc = "callback" /\ pc' = "callback" /\ app.stage = "start" /\ outcome' = outcome /\ request' = request
      /\ ~Stopped /\ outcome # "success"
  BY DEF GetData, GetDataZC, InCallback, Stopped, AnswerInv
<1>2. /\ app'.stage \in {"start", "read"}
      /\ app'.stage = "start" =>
           Len(app'.data) <= Len(request.payload) /\ \A i \in DOMAIN app'.data : app'.data[i] = request.payload[i]
      /\ app'.stage = "read" => app'.data = request.payload /\ app'.left = request.payload
  <2>1. CASE GetData
    <3> DEFINE all == app.data \o NextPiece(request.payload, Len(app.data))
    <3>1. app' = [app EXCEPT !.data = all, !.left = all,
                             !.stage = IF Len(all) < Len(request.payload) THEN "start" ELSE "read"]
      BY <1>1, <2>1 DEF GetData
    <3>2. /\ Len(all) <= Len(request.payload)
          /\ \A i \in DOMAIN all : all[i] = request.payload[i]
          /\ ~(Len(all) < Len(request.payload)) => all = request.payload
      <4>1. /\ request.payload \in Seq(Nat) /\ app.data \in Seq(Nat)
            /\ Len(app.data) <= Len(request.payload) /\ \A i \in DOMAIN app.data : app.data[i] = request.payload[i]
        BY <1>1 DEF DataOK, Application, ReadInv
      <4> HIDE DEF all
      <4> QED
        BY <4>1, ReadingGoesOn DEF all
    <3> HIDE DEF all
    <3>3. /\ app'.data = all /\ app'.left = all
          /\ app'.stage = IF Len(all) < Len(request.payload) THEN "start" ELSE "read"
      BY <3>1 DEF DataOK, Application
    <3> QED
      BY <3>2, <3>3
  <2>2. CASE GetDataZC
    <3>1. app' = [app EXCEPT !.data = request.payload, !.left = request.payload, !.stage = "read"]
      BY <1>1, <2>2 DEF GetDataZC
    <3> QED
      BY <3>1 DEF DataOK, Application
  <2> QED
    BY <2>1, <2>2
<1> QED
  BY <1>1, <1>2 DEF ReadInv, AnswerInv, EndInv

\* The answer is described, and then told where it ends.
LEMMA DescribingKeepsEcho ==
  ASSUME DataOK, UntouchedInv, ReadInv, AnswerInv,
         (\E status \in {"200", "404"} : Describe(status)) \/ SetDataLength
  PROVE  ReadInv' /\ AnswerInv' /\ EndInv'
<1>1. pc = "callback" /\ pc' = "callback" /\ UNCHANGED <<request, outcome, sent>> /\ outcome # "success"
  BY DEF Describe, SetDataLength, InCallback, AnswerInv, linkVars
<1>2. /\ app.stage \in {"read", "described"} /\ app.data = request.payload /\ app.left = request.payload
      /\ app'.data = app.data /\ app'.left = app.left /\ app'.stage \in {"described", "length", "chunks"}
  BY <1>1 DEF Describe, SetDataLength, InCallback, ReadInv, DataOK, Application
<1>3. ReadInv'
  BY <1>1, <1>2 DEF ReadInv
<1>4. EndInv'
  BY <1>1 DEF EndInv
<1>5. \A status : Begun(status)' = Begun(status) /\ Sized(status)' = Sized(status) /\ InChunks(status)' = InChunks(status)
  BY <1>1 DEF Sized, InChunks, Begun
<1>6. \E status \in {"200", "404"} : Answering(status)'
  <2>1. ASSUME NEW status \in {"200", "404"}, Describe(status) PROVE Answering(status)'
    <3>1. resp["answer"] = EmptyResponse /\ sent \in Openings
      BY <1>1, <2>1 DEF UntouchedInv, Describe, InCallback
    <3>2. resp'["answer"] = Begun(status) /\ app'.stage = "described"
      BY <2>1, <3>1 DEF Describe, Begun, DataOK, Application
    <3> QED
      BY <1>1, <1>5, <3>1, <3>2 DEF Answering
  <2>2. CASE SetDataLength
    <3>1. app.stage = "described"
      BY <2>2 DEF SetDataLength, InCallback
    <3>2. PICK status \in {"200", "404"} : Answering(status)
      BY <1>1, <3>1 DEF AnswerInv
    <3>3. resp["answer"] = Begun(status) /\ sent \in Openings
      BY <3>1, <3>2 DEF Answering
    <3>4. \/ app'.stage = "length" /\ resp'["answer"] = SetHttpHeader(Begun(status), "Content-Length", Len(app.data))
          \/ app'.stage = "chunks" /\ resp'["answer"] = SetHttpHeader(Begun(status), "Transfer-Encoding", "chunked")
      BY <2>2, <3>3 DEF SetDataLength, DataOK, Application
    <3>5. CASE app'.stage = "length" /\ resp'["answer"] = Sized(status)
      BY <1>1, <1>5, <3>3, <3>5 DEF Answering
    <3>6. CASE app'.stage = "chunks" /\ resp'["answer"] = InChunks(status)
      <4>1. LeftBehind(0)'
        <5>1. request'.payload \in Seq(Nat) /\ app'.left = request'.payload
          BY <1>1, <1>2 DEF DataOK
        <5>2. 0 + Len(app'.left) = Len(request'.payload) /\ \A i \in DOMAIN app'.left : 0 + i = i
          BY <5>1, LenProperties
        <5> QED
          BY <5>1, <5>2 DEF LeftBehind
      <4> QED
        BY <1>1, <1>5, <3>3, <3>6, <4>1 DEF Answering, Chunking
    <3> QED
      BY <1>2, <3>4, <3>5, <3>6 DEF Sized, InChunks
  <2> QED
    BY <2>1, <2>2
<1> QED
  BY <1>1, <1>3, <1>4, <1>6 DEF AnswerInv

\* Nothing at all is the chunks of nothing.
LEMMA NothingIsCarried ==
  ASSUME NEW body
  PROVE  <<>> \in Seq(Token) /\ OpenChunks(<<>>) /\ Carries(<<>>, body, 0)
<1>1. DOMAIN <<>> = {} /\ 1..0 = {}
  OBVIOUS
<1>2. OpenChunks(<<>>)
  BY <1>1 DEF OpenChunks
<1>3. [i \in 1..0 |-> 0] \in [1..0 -> DOMAIN <<>>]
  BY <1>1
<1>4. Carries(<<>>, body, 0)
  BY <1>1, <1>3 DEF Carries
<1> QED
  BY <1>2, <1>4, EmptySeq

\* The writes of the next chunk continue what is sent.
LEMMA NextChunk ==
  ASSUME DataOK, pc = "callback", NEW status \in Told, Chunking(status), NEW piece \in Seq(Nat),
         NEW writes, writes = Writes(resp["answer"], piece)
  PROVE  /\ writes # <<>> /\ Len(writes) \in 1..2
         /\ resp["answer"].headerSent \/ writes[1].marks
         /\ resp["answer"].headers = InChunks(status).headers
         /\ \E opening \in Openings, s \in Seq(Token), k \in 0..Len(request.payload) :
              /\ OpenChunks(s) /\ Carries(s, request.payload, k) /\ LeftBehind(k)
              /\ sent \o InAll(writes) = opening \o (HeadOf(InChunks(status)) \o (s \o ChunkOf(piece)))
<1> DEFINE r == resp["answer"]
           chunk == ChunkOf(piece)
           head == HeadOf(InChunks(status))
<1>1. r \in Object /\ r.headerSent \in BOOLEAN
  BY DEF DataOK, Object
<1>2. chunk \in Seq(Token)
  BY ChunkIsTokens
<1>3. /\ InChunks(status) \in Object /\ ~InChunks(status).headerSent
      /\ InChunks(status).headers = << <<"Connection", Connection(status)>>, <<"Transfer-Encoding", "chunked">> >>
  BY Echoes
<1>4. head \in Seq(Token)
  BY <1>3, RefusalsAreSequences
<1>5. Len(request.payload) \in Nat
  BY LenProperties DEF DataOK
<1>6. r.headers = InChunks(status).headers
  BY DEF Chunking, Sends
<1>7. /\ writes # <<>>
      /\ r.headerSent => Len(writes) = 1 /\ InAll(writes) = chunk
      /\ ~r.headerSent => Len(writes) = 2 /\ writes[1].marks /\ InAll(writes) = HeadOf(r) \o chunk
  BY <1>1, <1>3, <1>6, ChunkWrites
<1>8. Len(writes) \in 1..2 /\ (r.headerSent \/ writes[1].marks)
  <2>1. Len(writes) \in {1, 2} /\ (r.headerSent \/ writes[1].marks)
    BY <1>1, <1>7, Zenon
  <2> QED
    BY <2>1
<1>9. CASE r = InChunks(status) /\ sent \in Openings /\ LeftBehind(0)
  <2>1. InAll(writes) = head \o chunk
    BY <1>3, <1>7, <1>9
  <2>2. <<>> \o chunk = chunk
    BY <1>2, ConcatEmptySeq
  <2>3. 0 \in 0..Len(request.payload)
    BY <1>5
  <2>4. sent \o InAll(writes) = sent \o (head \o (<<>> \o chunk))
    BY <2>1, <2>2
  <2> HIDE DEF chunk, head
  <2>5. \E opening \in Openings, s \in Seq(Token), k \in 0..Len(request.payload) :
          /\ OpenChunks(s) /\ Carries(s, request.payload, k) /\ LeftBehind(k)
          /\ sent \o InAll(writes) = opening \o (head \o (s \o chunk))
    BY <1>9, <2>3, <2>4, NothingIsCarried, Zenon
  <2> QED
    BY <1>6, <1>7, <1>8, <2>5, Zenon DEF chunk, head
<1>10. ASSUME r.headerSent, NEW s \in Bodies, NEW k \in 0..Len(request.payload),
             Sends(InChunks(status), s), OpenChunks(s), Carries(s, request.payload, k), LeftBehind(k)
      PROVE  \E opening \in Openings, t \in Seq(Token), n \in 0..Len(request.payload) :
               /\ OpenChunks(t) /\ Carries(t, request.payload, n) /\ LeftBehind(n)
               /\ sent \o InAll(writes) = opening \o (head \o (t \o chunk))
  <2>1. s \in Seq(Token)
    BY BodiesAreTokens
  <2>2. PICK opening \in Openings : sent = opening \o (head \o s)
    BY <1>10 DEF Sends, ToBeSent
  <2>3. opening \in Seq(Token)
    BY RefusalsAreSequences
  <2> HIDE DEF chunk, head
  <2>4. (opening \o (head \o s)) \o chunk = opening \o (head \o (s \o chunk))
    <3>1. head \o s \in Seq(Token)
      BY <1>4, <2>1, Joined
    <3>2. (opening \o (head \o s)) \o chunk = opening \o ((head \o s) \o chunk)
      BY <1>2, <2>3, <3>1, Regroup
    <3>3. (head \o s) \o chunk = head \o (s \o chunk)
      BY <1>2, <1>4, <2>1, Regroup
    <3> QED
      BY <3>2, <3>3
  <2>5. sent \o InAll(writes) = opening \o (head \o (s \o chunk))
    BY <1>7, <1>10, <2>2, <2>4
  <2> QED
    BY <1>10, <2>1, <2>5, Zenon
<1>11. CASE ~(r = InChunks(status) /\ sent \in Openings /\ LeftBehind(0))
  <2>1. PICK s \in Bodies, k \in 0..Len(request.payload) :
          r.headerSent /\ Sends(InChunks(status), s) /\ OpenChunks(s) /\ Carries(s, request.payload, k) /\ LeftBehind(k)
    BY <1>11 DEF Chunking
  <2>2. \E opening \in Openings, t \in Seq(Token), n \in 0..Len(request.payload) :
          /\ OpenChunks(t) /\ Carries(t, request.payload, n) /\ LeftBehind(n)
          /\ sent \o InAll(writes) = opening \o (head \o (t \o chunk))
    BY <1>10, <2>1, Zenon
  <2> QED
    BY <1>6, <1>7, <1>8, <2>2, Zenon
<1> QED
  BY <1>9, <1>11

\* While nothing is wrong, a call with something to write writes it.
LEMMA CallWrites ==
  ASSUME trouble = {}, NEW who, NEW writes, writes # <<>>, NEW m, NEW done, Call(who, writes, m, done)
  PROVE  pc' = "write" /\ caller' = who /\ todo' = writes /\ app' = done /\ UNCHANGED <<outcome, sent>>
BY DEF Call, Stopped

\* The answer with a length that is told is written.
LEMMA LengthAnswers ==
  ASSUME DataOK, ReadInv, AnswerInv, trouble = {}, UNCHANGED <<request, resp>>, InCallback("length"),
         Call("callback", Writes(resp["answer"], app.data), mem, [app EXCEPT !.stage = "answered"])
  PROVE  ReadInv' /\ AnswerInv' /\ EndInv'
<1>1. pc = "callback" /\ app.stage = "length" /\ outcome # "success" /\ app.data = request.payload
  BY DEF InCallback, AnswerInv, ReadInv
<1>2. PICK status \in Told : resp["answer"] = Sized(status) /\ sent \in Openings
  BY <1>1 DEF AnswerInv, Answering, Told
<1> DEFINE r == Sized(status)
           body == Bytes(request.payload, Len(request.payload))
           writes == Writes(resp["answer"], app.data)
<1>3. r \in Object /\ r.headers = << <<"Connection", Connection(status)>>, <<"Content-Length", Len(request.payload)>> >>
  BY Echoes
<1>4. request.payload \in Seq(Nat)
  BY DEF DataOK
<1>5. writes # <<>> /\ Len(writes) = 1 /\ InAll(writes) = HeadOf(r) \o body
  <2> HIDE DEF r
  <2> QED
    BY <1>1, <1>2, <1>3, <1>4, SizedWrites DEF r
<1>6. pc' = "write" /\ caller' = "callback" /\ todo' = writes /\ app' = [app EXCEPT !.stage = "answered"]
      /\ UNCHANGED <<outcome, sent>>
  BY <1>5, CallWrites
<1>7. ToBeSent' = sent \o (HeadOf(r) \o body)
  BY <1>5, <1>6 DEF ToBeSent
<1>8. Sized(status)' = r
  BY DEF Sized, Begun
<1> HIDE DEF r, body, writes
<1>9. Sends(Sized(status), body)'
  BY <1>2, <1>7, <1>8 DEF Sends, body, r
<1>10. Answered(status)'
  BY <1>9 DEF Answered, body
<1>11. Answering(status)'
  BY <1>6, <1>10 DEF Answering, DataOK, Application
<1>12. Len(todo') \in 1..2
  BY <1>5, <1>6
<1> QED
  BY <1>1, <1>6, <1>11, <1>12 DEF ReadInv, AnswerInv, EndInv, Told

\* The first part of a body, and the rest.
LEMMA FirstPart ==
  ASSUME NEW s \in Seq(Nat), NEW n \in Nat, n <= Len(s)
  PROVE  /\ SubSeq(s, 1, n) \in Seq(Nat) /\ Len(SubSeq(s, 1, n)) = n
         /\ \A i \in 1..n : SubSeq(s, 1, n)[i] = s[i]
         /\ n = 0 <=> SubSeq(s, 1, n) = <<>>
         /\ SubSeq(s, n + 1, Len(s)) \in Seq(Nat) /\ Len(SubSeq(s, n + 1, Len(s))) = Len(s) - n
         /\ DOMAIN SubSeq(s, n + 1, Len(s)) = 1..Len(s) - n
         /\ \A i \in 1..Len(s) - n : SubSeq(s, n + 1, Len(s))[i] = s[n + i]
<1> DEFINE piece == SubSeq(s, 1, n)
           rest == SubSeq(s, n + 1, Len(s))
           l == Len(s)
<1>1. l \in Nat /\ l <= l /\ 1 \in Nat \ {0} /\ n + 1 \in Nat \ {0}
  BY LenProperties
<1>2. /\ piece \in Seq(Nat) /\ DOMAIN piece = 1..n - 1 + 1
      /\ \A i \in 1..n - 1 + 1 : piece[i] = s[1 + i - 1]
  BY <1>1, Slices
<1>3. /\ rest \in Seq(Nat) /\ DOMAIN rest = 1..l - (n + 1) + 1
      /\ \A i \in 1..l - (n + 1) + 1 : rest[i] = s[n + 1 + i - 1]
  BY <1>1, Slices
<1> HIDE DEF piece, rest, l
<1>4. /\ n - 1 + 1 = n /\ l - (n + 1) + 1 = l - n /\ l - n \in Nat
      /\ \A i \in 1..n : 1 + i - 1 = i
      /\ \A i \in 1..l - n : n + 1 + i - 1 = n + i
  BY <1>1 DEF l
<1>5. DOMAIN piece = 1..n /\ \A i \in 1..n : piece[i] = s[i]
  BY <1>2, <1>4
<1>6. DOMAIN rest = 1..l - n /\ \A i \in 1..l - n : rest[i] = s[n + i]
  BY <1>3, <1>4
<1>7. Len(piece) = n
  <2>1. Len(piece) \in Nat /\ 1..Len(piece) = 1..n
    BY <1>2, <1>5, LenProperties
  <2> QED
    BY <2>1
<1>8. Len(rest) = l - n
  <2>1. Len(rest) \in Nat /\ 1..Len(rest) = 1..l - n
    BY <1>3, <1>6, LenProperties
  <2> QED
    BY <1>4, <2>1
<1>9. n = 0 <=> piece = <<>>
  BY <1>2, <1>7, EmptySeq
<1> QED
  BY <1>2, <1>3, <1>5, <1>6, <1>7, <1>8, <1>9, Zenon DEF piece, rest, l

\* The next chunk, or the last, is written.
LEMMA ChunkAnswers ==
  ASSUME DataOK, ReadInv, AnswerInv, trouble = {}, UNCHANGED <<request, resp>>, InCallback("chunks"),
         NEW n \in 0..Len(app.left), n = 0 => app.left = <<>>,
         Call("callback", Writes(resp["answer"], SubSeq(app.left, 1, n)), mem,
              [app EXCEPT !.left = SubSeq(@, n + 1, Len(@)),
                          !.stage = IF n = 0 THEN "answered" ELSE "chunks"])
  PROVE  ReadInv' /\ AnswerInv' /\ EndInv'
<1> DEFINE left == app.left
           body == request.payload
           piece == SubSeq(left, 1, n)
           rest == SubSeq(left, n + 1, Len(left))
           writes == Writes(resp["answer"], piece)
<1>1. pc = "callback" /\ app.stage = "chunks" /\ outcome # "success"
  BY DEF InCallback, AnswerInv
<1>2. PICK status \in Told : Chunking(status)
  BY <1>1 DEF AnswerInv, Answering, Told
<1>3. left \in Seq(Nat) /\ Len(left) \in Nat /\ n \in Nat /\ n <= Len(left) /\ n + 1 \in Nat \ {0}
      /\ body \in Seq(Nat) /\ Len(body) \in Nat
  BY LenProperties DEF DataOK, Application
<1>4. /\ piece \in Seq(Nat) /\ Len(piece) = n /\ \A i \in 1..n : piece[i] = left[i]
      /\ n = 0 <=> piece = <<>>
  BY <1>3, FirstPart
<1>5. /\ rest \in Seq(Nat) /\ Len(rest) = Len(left) - n /\ DOMAIN rest = 1..Len(left) - n
      /\ \A i \in 1..Len(left) - n : rest[i] = left[n + i]
  BY <1>3, FirstPart
<1> HIDE DEF piece, rest, writes
<1>6. /\ writes # <<>> /\ Len(writes) \in 1..2
      /\ resp["answer"].headerSent \/ writes[1].marks
      /\ resp["answer"].headers = InChunks(status).headers
      /\ \E opening \in Openings, s \in Seq(Token), k \in 0..Len(body) :
           /\ OpenChunks(s) /\ Carries(s, body, k) /\ LeftBehind(k)
           /\ sent \o InAll(writes) = opening \o (HeadOf(InChunks(status)) \o (s \o ChunkOf(piece)))
  <2>1. piece \in Seq(Nat) /\ writes = Writes(resp["answer"], piece)
    BY <1>4 DEF writes
  <2> QED
    BY <1>1, <1>2, <2>1, NextChunk
<1>7. PICK opening \in Openings, s \in Seq(Token), k \in 0..Len(body) :
        /\ OpenChunks(s) /\ Carries(s, body, k) /\ LeftBehind(k)
        /\ sent \o InAll(writes) = opening \o (HeadOf(InChunks(status)) \o (s \o ChunkOf(piece)))
  BY <1>6
<1>8. /\ pc' = "write" /\ caller' = "callback" /\ todo' = writes /\ UNCHANGED <<outcome, sent>>
      /\ app'.left = rest /\ app'.stage = IF n = 0 THEN "answered" ELSE "chunks"
  <2> DEFINE done == [app EXCEPT !.left = rest, !.stage = IF n = 0 THEN "answered" ELSE "chunks"]
  <2>1. Call("callback", writes, mem, done)
    BY DEF writes, piece, rest
  <2>2. done.left = rest /\ done.stage = IF n = 0 THEN "answered" ELSE "chunks"
    BY DEF DataOK, Application
  <2> HIDE DEF done
  <2> QED
    BY <1>6, <2>1, <2>2, CallWrites
<1> DEFINE r == InChunks(status)
<1>9. PICK t \in Seq(Token) : t = s \o ChunkOf(piece)
  <2>1. s \o ChunkOf(piece) \in Seq(Token)
    BY <1>4, ChunkIsTokens, Joined
  <2> QED
    BY <2>1
<1>10. ToBeSent' = opening \o (HeadOf(r) \o t)
  BY <1>7, <1>8, <1>9 DEF ToBeSent
<1>11. r \in Object
  BY Echoes
<1>12. InChunks(status)' = r
  BY DEF InChunks, Begun
<1> HIDE DEF r
<1>13. t \in Bodies'
  <2>1. \E i \in 1..Len(ToBeSent') + 1 : t = SubSeq(ToBeSent', i, Len(ToBeSent'))
    BY <1>9, <1>10, <1>11, BodyIsPart
  <2> QED
    BY <2>1 DEF Bodies
<1>14. Sends(InChunks(status), t)'
  <2>1. resp'["answer"].headers = r.headers
    BY <1>6 DEF r
  <2> QED
    BY <1>10, <1>12, <2>1 DEF Sends
<1>15. k \in Nat /\ k + Len(left) = Len(body) /\ \A i \in 1..Len(left) : left[i] = body[k + i]
  <2>1. DOMAIN left = 1..Len(left)
    BY <1>3, LenProperties
  <2> QED
    BY <1>3, <1>7, <2>1 DEF LeftBehind
<1>16. Carries(t, body, k + n)
  <2>1. \A i \in 1..Len(piece) : piece[i] = body[k + i]
    <3>1. \A i \in 1..n : i \in 1..Len(left)
      BY <1>3
    <3> QED
      BY <1>4, <1>15, <3>1, Zenon
  <2>2. Carries(s \o ChunkOf(piece), body, k + Len(piece))
    BY <1>4, <1>7, <1>15, <2>1, ChunkCarriesOn
  <2> QED
    BY <1>4, <1>9, <2>2, Zenon
<1>17. IF piece = <<>> THEN Chunked(t) ELSE OpenChunks(t)
  BY <1>4, <1>7, <1>9, ChunksGoOn
<1>18. LeftBehind(k + n)'
  <2>1. k + n + Len(rest) = Len(body)
    BY <1>3, <1>5, <1>15
  <2>2. ASSUME NEW i \in DOMAIN rest PROVE rest[i] = body[k + n + i]
    <3>1. i \in 1..Len(left) - n
      BY <1>5
    <3>2. n + i \in 1..Len(left) /\ k + (n + i) = k + n + i
      <4>1. n \in Nat /\ k \in Nat /\ Len(left) \in Nat /\ n <= Len(left)
        BY <1>3, <1>15
      <4> QED
        BY <3>1, <4>1
    <3>3. rest[i] = left[n + i] /\ left[n + i] = body[k + (n + i)]
      BY <1>5, <1>15, <3>1, <3>2, Zenon
    <3> QED
      BY <3>2, <3>3
  <2> QED
    BY <1>8, <2>1, <2>2 DEF LeftBehind
<1>19. CASE n = 0
  <2>1. Len(body) = k + n
    <3>1. Len(left) = 0
      BY <1>19, EmptySeq
    <3> QED
      BY <1>3, <1>15, <1>19, <3>1
  <2>2. Carries(t, body, Len(body)) /\ Chunked(t)
    BY <1>4, <1>16, <1>17, <1>19, <2>1
  <2>3. Answered(status)'
    <3>1. Sends(InChunks(status), t)' /\ Chunked(t) /\ Carries(t, request'.payload, Len(request'.payload)) /\ t \in Bodies'
      BY <1>13, <1>14, <2>2
    <3> QED
      BY <3>1, Zenon DEF Answered
  <2>4. Answering(status)'
    BY <1>8, <1>19, <2>3 DEF Answering
  <2> QED
    BY <1>1, <1>6, <1>8, <2>4 DEF ReadInv, AnswerInv, EndInv, Told
<1>20. CASE n # 0
  <2>1. OpenChunks(t)
    BY <1>4, <1>17, <1>20
  <2>2. k + n \in 0..Len(body)
    BY <1>3, <1>15
  <2>3. Chunking(status)'
    <3>1. resp'["answer"].headerSent \/ (pc' = "write" /\ todo'[1].marks)
      BY <1>6, <1>8
    <3>2. /\ Sends(InChunks(status), t)' /\ OpenChunks(t) /\ Carries(t, request'.payload, k + n) /\ t \in Bodies'
          /\ LeftBehind(k + n)' /\ k + n \in 0..Len(request'.payload)
      BY <1>13, <1>14, <1>16, <1>18, <2>1, <2>2
    <3> QED
      BY <3>1, <3>2, Zenon DEF Chunking
  <2>4. Answering(status)'
    BY <1>8, <1>20, <2>3 DEF Answering
  <2> QED
    BY <1>1, <1>6, <1>8, <2>4 DEF ReadInv, AnswerInv, EndInv, Told
<1> QED
  BY <1>19, <1>20

\* The answer is written from the application's own buffer.
LEMMA OwnBufferAnswers ==
  ASSUME DataOK, ReadInv, AnswerInv, trouble = {}, SetDataZC
  PROVE  ReadInv' /\ AnswerInv' /\ EndInv'
<1>1. /\ pc = "callback" /\ app.stage = "described" /\ outcome # "success" /\ app.data = request.payload
      /\ request' = request
  BY DEF SetDataZC, InCallback, AnswerInv, ReadInv
<1>2. PICK status \in Told : resp["answer"] = Begun(status) /\ sent \in Openings
  BY <1>1 DEF AnswerInv, Answering, Told
<1> DEFINE r == Sized(status)
           body == Bytes(request.payload, Len(request.payload))
           writes == WritesZeroCopy(r, request.payload)
<1>3. r = SetHttpHeader(resp["answer"], "Content-Length", Len(app.data))
  BY <1>1, <1>2 DEF Sized
<1>4. r \in Object
  BY Echoes
<1>5. request.payload \in Seq(Nat)
  BY DEF DataOK
<1> HIDE DEF r
<1>6. writes # <<>> /\ Len(writes) \in 1..2 /\ InAll(writes) = HeadOf(r) \o body
  BY <1>4, <1>5, OwnBufferWrites
<1>7. resp'["answer"] = r
  BY <1>3 DEF SetDataZC, Stopped, DataOK
<1>8. pc' = "write" /\ caller' = "callback" /\ todo' = writes /\ app'.stage = "answered" /\ UNCHANGED <<outcome, sent>>
  <2> DEFINE done == [app EXCEPT !.stage = "answered", !.zeroCopy = TRUE]
  <2>1. Call("callback", writes, mem, done)
    BY <1>1, <1>3 DEF SetDataZC
  <2>2. done.stage = "answered"
    BY DEF DataOK, Application
  <2> HIDE DEF done, writes
  <2> QED
    BY <1>6, <2>1, <2>2, CallWrites
<1> HIDE DEF writes
<1>9. ToBeSent' = sent \o (HeadOf(r) \o body)
  BY <1>6, <1>8 DEF ToBeSent
<1>10. Sized(status)' = r
  BY <1>1 DEF Sized, Begun, r
<1> HIDE DEF body
<1>11. Sends(Sized(status), body)'
  BY <1>1, <1>2, <1>7, <1>9, <1>10 DEF Sends, body
<1>12. Answered(status)'
  BY <1>11 DEF Answered, body
<1>13. Answering(status)'
  BY <1>8, <1>12 DEF Answering
<1>14. Len(todo') \in 1..2
  BY <1>6, <1>8
<1> QED
  BY <1>1, <1>8, <1>13, <1>14 DEF ReadInv, AnswerInv, EndInv, Told

\* A write goes on or ends.
LEMMA AnswerIsSent ==
  ASSUME TypeOK, DataOK, UntouchedInv, InterimInv, RefusalInv, ReadInv, AnswerInv, EndInv, trouble = {},
         WriteSome \/ WriteAll
  PROVE  ReadInv' /\ AnswerInv' /\ EndInv'
<1>1. /\ pc = "write" /\ UNCHANGED <<request, caller, app>> /\ outcome # "success" /\ caller \in Callers
  BY DEF WriteSome, WriteAll, Ready, AnswerInv, TypeOK, Callers
<1>2. CASE caller = "callback"
  <2>1. /\ Len(todo) \in 1..2 /\ app.stage \in {"chunks", "answered"} /\ outcome = "none"
    BY <1>1, <1>2 DEF AnswerInv, UntouchedInv, RefusalInv
  <2>2. PICK status \in Told : Answering(status)
    BY <1>1, <1>2 DEF AnswerInv, Told
  <2>3. /\ ToBeSent' = ToBeSent
        /\ pc' = "callback" \/ (pc' = "write" /\ Len(todo') \in 1..2)
        /\ resp'["answer"].headers = resp["answer"].headers
        /\ resp["answer"].headerSent \/ todo[1].marks => resp'["answer"].headerSent \/ (pc' = "write" /\ todo'[1].marks)
        /\ outcome' = outcome
    <3>1. CASE WriteSome
      <4>1. Len(todo') = Len(todo) /\ todo'[1].marks = todo[1].marks /\ ToBeSent' = ToBeSent
        BY <2>1, <3>1, PartGoesOn
      <4>2. pc' = "write" /\ UNCHANGED <<resp, outcome>>
        BY <1>1, <3>1 DEF WriteSome
      <4> QED
        BY <2>1, <4>1, <4>2
    <3>2. CASE WriteAll
      <4>1. /\ ToBeSent' = ToBeSent
            /\ pc' = "callback" \/ (pc' = "write" /\ Len(todo') \in 1..2)
            /\ resp'["answer"].headers = resp["answer"].headers
            /\ resp["answer"].headerSent \/ todo[1].marks => resp'["answer"].headerSent
            /\ UNCHANGED <<request, caller, app, outcome>>
        BY <1>2, <2>1, <3>2, AllGoes
      <4> QED
        BY <4>1
    <3> QED
      BY <3>1, <3>2
  <2>4. Answering(status)'
    <3>1. CASE app.stage = "answered"
      <4>1. Answered(status)
        BY <2>2, <3>1 DEF Answering
      <4>2. Answered(status)'
        BY <1>1, <2>3, <4>1, AnswerStays
      <4> QED
        BY <1>1, <3>1, <4>2 DEF Answering
    <3>2. CASE app.stage = "chunks"
      <4>1. Chunking(status)
        BY <2>2, <3>2 DEF Answering
      <4>2. resp["answer"].headerSent \/ todo[1].marks
        BY <1>1, <4>1 DEF Chunking
      <4>3. Chunking(status)'
        BY <1>1, <2>3, <4>1, <4>2, ChunksStay
      <4> QED
        BY <1>1, <3>2, <4>3 DEF Answering
    <3> QED
      BY <2>1, <3>1, <3>2
  <2> QED
    BY <1>1, <1>2, <2>1, <2>3, <2>4 DEF ReadInv, AnswerInv, EndInv, Told
<1>3. CASE caller = "interim"
  <2>1. Tail(todo) = <<>> /\ outcome = "none" /\ app.data = <<>> /\ app.stage = "start"
    BY <1>1, <1>3 DEF InterimInv, RefusalInv, ReadInv, UntouchedInv
  <2>2. pc' \in {"write", "parse"} /\ outcome' = "none"
    BY <1>1, <1>3, <2>1 DEF WriteSome, WriteAll, Return
  <2> QED
    BY <1>1, <1>3, <2>1, <2>2 DEF ReadInv, AnswerInv, EndInv
<1>4. CASE caller = "failure"
  <2>1. pc' \in {"write", "finish"} /\ outcome' = outcome
    BY <1>1, <1>4 DEF WriteSome, WriteAll, Return
  <2>2. outcome # "none"
    BY <1>1, <1>4 DEF EndInv
  <2> QED
    BY <1>1, <1>4, <2>1, <2>2 DEF ReadInv, AnswerInv, EndInv
<1> QED
  BY <1>1, <1>2, <1>3, <1>4 DEF Callers

\* Every step, while nothing is wrong.
LEMMA EchoesAreKept ==
  ASSUME TypeOK, DataOK, FailureInv, EchoInv, [Next]_vars
  PROVE  EchoInv'
<1> SUFFICES ASSUME trouble' = {} PROVE ReadInv' /\ AnswerInv' /\ EndInv'
  BY DEF EchoInv
<1>1. trouble = {} /\ ~WriteFails
  BY TroubleStays
<1>2. UntouchedInv /\ InterimInv /\ RefusalInv /\ ReadInv /\ AnswerInv /\ EndInv
  BY <1>1 DEF FailureInv, EchoInv
<1>3. CASE WriteSome \/ WriteAll
  BY <1>1, <1>2, <1>3, AnswerIsSent
<1>4. CASE GetData \/ GetDataZC
  BY <1>1, <1>2, <1>4, ReadingKeepsEcho
<1>5. CASE (\E status \in {"200", "404"} : Describe(status)) \/ SetDataLength
  BY <1>2, <1>5, DescribingKeepsEcho
<1>6. CASE SetDataZC
  BY <1>1, <1>2, <1>6, OwnBufferAnswers
<1>7. CASE SetData
  <2>1. UNCHANGED <<request, resp>>
    BY <1>7 DEF SetData
  <2>2. CASE /\ InCallback("length")
             /\ Call("callback", Writes(resp["answer"], app.data), mem, [app EXCEPT !.stage = "answered"])
    BY <1>1, <1>2, <2>1, <2>2, LengthAnswers
  <2>3. ASSUME InCallback("chunks"), NEW n \in 0..Len(app.left), n = 0 => app.left = <<>>,
               Call("callback", Writes(resp["answer"], SubSeq(app.left, 1, n)), mem,
                    [app EXCEPT !.left = SubSeq(@, n + 1, Len(@)),
                                !.stage = IF n = 0 THEN "answered" ELSE "chunks"])
        PROVE  ReadInv' /\ AnswerInv' /\ EndInv'
    BY <1>1, <1>2, <2>1, <2>3, ChunkAnswers
  <2> QED
    BY <1>7, <2>2, <2>3 DEF SetData
<1>8. CASE HandleExpect
  <2>1. /\ pc = "parse" /\ UNCHANGED request
        /\ Call("interim", Writes(InterimResponse, <<>>), mem \cup ResponsePacket("interim"), app)
    BY <1>8 DEF HandleExpect, InterimResponse
  <2>2. Writes(InterimResponse, <<>>) # <<>>
    <3>1. \A w : <<w>> # <<>>
      OBVIOUS
    <3> QED
      BY <3>1, OwnAnswersAreWhole, Zenon
  <2>3. pc' = "write" /\ caller' = "interim" /\ UNCHANGED <<app, outcome>>
    BY <1>1, <2>1, <2>2, CallWrites
  <2>4. app.data = <<>> /\ outcome = "none"
    BY <1>2, <2>1 DEF ReadInv, RefusalInv
  <2> QED
    BY <2>3, <2>4 DEF ReadInv, AnswerInv, EndInv
<1>9. CASE SendFailureResponse
  <2>1. pc' \in {"write", "finish"} /\ (pc' = "write" => caller' = "failure") /\ outcome' = outcome /\ pc = "send"
    BY <1>9 DEF SendFailureResponse, Call, Return
  <2>2. outcome \notin {"none", "success"}
    BY <1>2, <2>1 DEF AnswerInv, EndInv
  <2> QED
    BY <2>1, <2>2 DEF ReadInv, AnswerInv, EndInv
<1>10. CASE ReturnSuccess
  <2>1. /\ pc = "callback" /\ app.stage \in {"answered", "failed"} /\ pc' = "finish" /\ outcome' = "success"
        /\ UNCHANGED <<request, resp, sent>>
    BY <1>10 DEF ReturnSuccess, InCallback, linkVars
  <2>2. PICK status \in {"200", "404"} : Answered(status)
    BY <1>2, <2>1 DEF AnswerInv, Answering
  <2>3. ToBeSent' = ToBeSent
    BY <2>1 DEF ToBeSent
  <2>4. Answered(status)'
    BY <2>1, <2>2, <2>3, AnswerStays
  <2> QED
    BY <2>1, <2>4 DEF ReadInv, AnswerInv, EndInv
<1>11. CASE Finish
  <2>1. /\ pc = "finish" /\ pc' = IF why = "input" /\ Entertained(resp["answer"]) THEN "kept" ELSE "closed"
        /\ UNCHANGED <<request, why, resp, outcome, sent>>
    BY <1>11 DEF Finish, linkVars
  <2>2. ToBeSent' = ToBeSent
    BY <2>1 DEF ToBeSent
  <2>3. ASSUME NEW status, Answered(status) PROVE Answered(status)'
    BY <2>1, <2>2, <2>3, AnswerStays
  <2>4. EndInv'
    BY <1>2, <2>1 DEF EndInv, Entertained
  <2>5. AnswerInv'
    BY <1>2, <2>1, <2>3 DEF AnswerInv
  <2> QED
    BY <2>1, <2>4, <2>5 DEF ReadInv
<1>12. CASE GetRequestHandle \/ (\E reason \in {"input", "timeout"} : Refuse(reason)) \/ TriggerAppCb
  <2>1. /\ pc \in {"new", "parse"} /\ UNCHANGED <<request, app>>
        /\ \/ pc' \in {"parse", "callback"} /\ outcome' = outcome
           \/ pc' = "failing" /\ outcome' = "refused"
    BY <1>12 DEF GetRequestHandle, Refuse, TriggerAppCb
  <2>2. app.data = <<>> /\ app.stage = "start" /\ outcome = "none"
    BY <1>2, <2>1 DEF ReadInv, UntouchedInv, RefusalInv
  <2>3. Len(app.data) <= Len(request.payload) /\ \A i \in DOMAIN app.data : app.data[i] = request.payload[i]
    <3>1. DOMAIN app.data = {} /\ Len(app.data) = 0 /\ Len(request.payload) \in Nat
      BY <2>2, EmptySeq, LenProperties DEF DataOK
    <3> QED
      BY <3>1
  <2> QED
    BY <2>1, <2>2, <2>3 DEF ReadInv, AnswerInv, EndInv
<1>13. CASE GetRequestHandleFails \/ \E event \in {"stop", "reset"} : Disturb(event)
  BY <1>13 DEF GetRequestHandleFails, Disturb
<1>14. CASE ReturnError
  <2>1. pc = "callback" /\ pc' = "failing" /\ outcome' \in {"error", "late"}
    BY <1>14 DEF ReturnError
  <2> QED
    BY <2>1 DEF ReadInv, AnswerInv, EndInv
<1>15. CASE SayNothing \/ DescribeFailure
  <2>1. pc = "failing" /\ pc' \in {"send", "finish"} /\ outcome' = outcome
    BY <1>15 DEF SayNothing, DescribeFailure
  <2>2. outcome \notin {"none", "success"}
    BY <1>2, <2>1 DEF AnswerInv, EndInv
  <2> QED
    BY <2>1, <2>2 DEF ReadInv, AnswerInv, EndInv
<1>16. CASE AllocateBuffer \/ Retry \/ Congestion \/ UNCHANGED vars
  <2>1. UNCHANGED <<request, why, pc, caller, resp, app, outcome, todo, sent>>
    BY <1>16 DEF AllocateBuffer, Retry, Congestion, vars, linkVars
  <2>2. ToBeSent' = ToBeSent
    BY <2>1 DEF ToBeSent
  <2>3. ASSUME NEW status, Answered(status) PROVE Answered(status)'
    BY <2>1, <2>2, <2>3, AnswerStays
  <2>4. ASSUME NEW status, Answering(status) PROVE Answering(status)'
    <3>1. /\ Begun(status)' = Begun(status) /\ Sized(status)' = Sized(status) /\ InChunks(status)' = InChunks(status)
          /\ Bodies' = Bodies
      BY <2>1, <2>2 DEF Sized, InChunks, Begun, Bodies
    <3>2. Chunking(status) => Chunking(status)'
      <4>1. \A n : LeftBehind(n)' <=> LeftBehind(n)
        BY <2>1 DEF LeftBehind
      <4>2. \A s : Sends(InChunks(status), s)' <=> Sends(InChunks(status), s)
        BY <2>1, <2>2, <3>1 DEF Sends
      <4> QED
        BY <2>1, <3>1, <4>1, <4>2 DEF Chunking
    <3> QED
      BY <2>1, <2>3, <2>4, <3>1, <3>2 DEF Answering
  <2>5. AnswerInv'
    BY <1>2, <2>1, <2>3, <2>4 DEF AnswerInv
  <2>6. ReadInv' /\ EndInv'
    BY <1>2, <2>1 DEF ReadInv, EndInv, Entertained
  <2> QED
    BY <2>5, <2>6
<1> QED
  BY <1>1, <1>3, <1>4, <1>5, <1>6, <1>7, <1>8, <1>9, <1>10, <1>11, <1>12, <1>13, <1>14, <1>15, <1>16
     DEF Next, Serve, Parse, Callback, Transmit

\* How the client gets the answer to a request that the application echoes is
\* accounted for from the first read of its body to the last write of it, in
\* whatever pieces (httpUtilsExternal.c:215-381).
THEOREM EchoesGoInOrder == Spec => []EchoesInOrder
<1>1. RefusalsInOrder => TypeOK /\ DataOK /\ FailureInv
  BY DEF RefusalsInOrder
<1>2. Init => EchoInv
  <2> SUFFICES ASSUME Init PROVE ReadInv /\ AnswerInv /\ EndInv
    BY DEF EchoInv
  <2>1. pc = "new" /\ app.data = <<>> /\ outcome = "none"
    BY DEF Init
  <2> QED
    BY <2>1 DEF ReadInv, AnswerInv, EndInv
<1>3. TypeOK /\ DataOK /\ FailureInv /\ EchoInv /\ [Next]_vars => EchoInv'
  BY EchoesAreKept
<1>4. RefusalsInOrder /\ EchoInv => EchoesInOrder
  BY DEF EchoesInOrder
<1> QED
  BY <1>1, <1>2, <1>3, <1>4, RefusalsGoInOrder, PTL DEF Spec

\* The application's answer is complete, and says what its headers say.
LEMMA EchoIsComplete ==
  ASSUME DataOK, pc # "write", NEW status \in Told, Answered(status)
  PROVE  /\ Complete(Answer, status, request.payload)
         /\ Answer[1].headers = resp["answer"].headers
         /\ Under(Answer[1].headers, "Connection") = {1} /\ 1 \in DOMAIN Answer[1].headers
         /\ Answer[1].headers[1][2] = Connection(status)
<1> DEFINE body == request.payload
           n == Len(request.payload)
<1>1. body \in Seq(Nat) /\ n \in Nat
  BY LenProperties DEF DataOK
<1>2. ToBeSent = sent
  BY DEF ToBeSent
<1>3. /\ Sized(status) \in Object /\ InChunks(status) \in Object
      /\ Sized(status).status = status /\ InChunks(status).status = status
      /\ Sized(status).headers = << <<"Connection", Connection(status)>>, <<"Content-Length", n>> >>
      /\ InChunks(status).headers = << <<"Connection", Connection(status)>>, <<"Transfer-Encoding", "chunked">> >>
  BY Echoes
<1> HIDE DEF n
<1>4. ASSUME NEW r \in Object, r.status = status, NEW s \in Seq(Token), Sends(r, s)
      PROVE  /\ Len(Answer) >= 2 /\ IsHead(Answer[1]) /\ Answer[1].status = status /\ Answer[2].kind = "blank"
             /\ Answer[1].headers = r.headers /\ r.headers = resp["answer"].headers
             /\ SubSeq(Answer, 3, Len(Answer)) = s
  <2>1. PICK opening \in Openings : sent = opening \o (HeadOf(r) \o s)
    BY <1>2, <1>4 DEF Sends
  <2>2. status # "100"
    BY DEF Told
  <2>3. Answer = HeadOf(r) \o s
    BY <1>4, <2>1, <2>2, AnswerIsBehindOpening
  <2> QED
    BY <1>4, <2>3, HeadAndBody DEF Sends
<1>5. CASE Sends(Sized(status), Bytes(body, n))
  <2> DEFINE s == Bytes(body, n)
             headers == Answer[1].headers
  <2>1. s \in Seq(Token) /\ Len(s) = n
    BY <1>1, BytesAreTokens
  <2>2. DOMAIN s = 1..n /\ \A i \in 1..n : s[i] = Byte(body[i])
    BY <1>1 DEF Bytes, n
  <2>3. Sends(Sized(status), s)
    BY <1>5
  <2> HIDE DEF s
  <2>4. /\ Len(Answer) >= 2 /\ IsHead(Answer[1]) /\ Answer[1].status = status /\ Answer[2].kind = "blank"
        /\ headers = Sized(status).headers /\ headers = resp["answer"].headers
        /\ SubSeq(Answer, 3, Len(Answer)) = s
    BY <1>3, <1>4, <2>1, <2>3
  <2>5. headers = << <<"Connection", Connection(status)>>, <<"Content-Length", n>> >>
    BY <1>3, <2>4
  <2> HIDE DEF headers
  <2>6. /\ Under(headers, "Connection") = {1} /\ Under(headers, "Content-Length") = {2}
        /\ Under(headers, "Transfer-Encoding") = {}
        /\ headers[1][2] = Connection(status) /\ headers[2][2] = n /\ 1 \in DOMAIN headers /\ 2 \in DOMAIN headers
    BY <2>5 DEF Under
  <2>7. Tells(headers, "Content-Length", Len(s))
    BY <2>1, <2>6 DEF Tells
  <2>8. Len(s) = Len(body) /\ \A i \in DOMAIN s : s[i] = Byte(body[i])
    BY <2>1, <2>2 DEF n
  <2>9. Complete(Answer, status, body)
    BY <2>4, <2>6, <2>7, <2>8 DEF Complete, headers
  <2> QED
    BY <2>4, <2>6, <2>9 DEF headers
<1>6. ASSUME NEW s \in Bodies, Sends(InChunks(status), s), Chunked(s), Carries(s, body, Len(body))
      PROVE  /\ Complete(Answer, status, body)
             /\ Answer[1].headers = resp["answer"].headers
             /\ Under(Answer[1].headers, "Connection") = {1} /\ 1 \in DOMAIN Answer[1].headers
             /\ Answer[1].headers[1][2] = Connection(status)
  <2> DEFINE headers == Answer[1].headers
  <2>1. s \in Seq(Token)
    BY BodiesAreTokens
  <2>2. /\ Len(Answer) >= 2 /\ IsHead(Answer[1]) /\ Answer[1].status = status /\ Answer[2].kind = "blank"
        /\ headers = InChunks(status).headers /\ headers = resp["answer"].headers
        /\ SubSeq(Answer, 3, Len(Answer)) = s
    BY <1>3, <1>4, <1>6, <2>1
  <2>3. headers = << <<"Connection", Connection(status)>>, <<"Transfer-Encoding", "chunked">> >>
    BY <1>3, <2>2
  <2> HIDE DEF headers
  <2>4. /\ Under(headers, "Connection") = {1} /\ Under(headers, "Transfer-Encoding") = {2}
        /\ Under(headers, "Content-Length") = {}
        /\ headers[1][2] = Connection(status) /\ headers[2][2] = "chunked" /\ 1 \in DOMAIN headers /\ 2 \in DOMAIN headers
    BY <2>3 DEF Under
  <2>5. Tells(headers, "Transfer-Encoding", "chunked")
    BY <2>4 DEF Tells
  <2>6. Complete(Answer, status, body)
    BY <1>6, <2>2, <2>4, <2>5 DEF Complete, headers
  <2> QED
    BY <2>2, <2>4, <2>6 DEF headers
<1> QED
  BY <1>5, <1>6 DEF Answered, n

\* So the client gets the body of its request back, whole, once and in order.
THEOREM AnswersAreMeant == Spec => []AnswerIsAsMeant
<1>1. EchoesInOrder => AnswerIsAsMeant
  <2> SUFFICES ASSUME EchoesInOrder, outcome = "success", trouble = {}
               PROVE  \E status \in {"200", "404"} : Complete(Answer, status, request.payload)
    BY DEF AnswerIsAsMeant
  <2>1. DataOK /\ AnswerInv
    BY DEF EchoesInOrder, EchoInv, RefusalsInOrder
  <2>2. pc # "write" /\ \E status \in Told : Answered(status)
    BY <2>1 DEF AnswerInv, Told
  <2> QED
    BY <2>1, <2>2, EchoIsComplete DEF Told
<1> QED
  BY <1>1, EchoesGoInOrder, PTL

\* And a connection is kept exactly when the client wanted that and was told so,
\* and then behind a complete answer.
THEOREM ConnectionsAreKeptAsTold == Spec => []KeptAsTold
<1>1. EchoesInOrder /\ FailureIsAnswered => KeptAsTold
  <2> SUFFICES ASSUME EchoesInOrder, FailureIsAnswered, pc \in {"kept", "closed"}, trouble = {}, outcome # "late"
               PROVE  /\ pc = "kept" <=> /\ why = "input" /\ request.keepAlive
                                         /\ Tells(Answer[1].headers, "Connection", "keep-alive")
                      /\ pc = "kept" => Complete(Answer, "200", request.payload)
    BY DEF KeptAsTold
  <2>1. TypeOK /\ DataOK /\ AnswerInv /\ EndInv
    BY DEF EchoesInOrder, EchoInv, RefusalsInOrder
  <2>2. outcome \in {"success", "refused", "error"}
    BY <2>1 DEF EndInv, TypeOK
  <2> DEFINE headers == Answer[1].headers
  <2>3. CASE outcome = "success"
    <3>1. PICK status \in Told : Answered(status)
      BY <2>1, <2>3 DEF AnswerInv, Told
    <3>2. /\ Complete(Answer, status, request.payload)
          /\ headers = resp["answer"].headers
          /\ Under(headers, "Connection") = {1} /\ 1 \in DOMAIN headers
          /\ headers[1][2] = Connection(status)
      BY <2>1, <3>1, EchoIsComplete
    <3>3. GetHeader(resp["answer"], "Connection") = <<Connection(status)>>
      <4>1. resp["answer"].headers \in Seq(Header)
        BY <2>1 DEF DataOK, Object
      <4>2. \A j \in DOMAIN resp["answer"].headers : resp["answer"].headers[j][1] = "Connection" <=> j = 1
        BY <3>2 DEF Under
      <4>3. 1 \in DOMAIN resp["answer"].headers /\ resp["answer"].headers[1][2] = Connection(status)
        BY <3>2
      <4>4. GetHeader(resp["answer"], "Connection") = <<resp["answer"].headers[1][2]>>
        BY <4>1, <4>2, <4>3, OnlyHeaderIsFound, Zenon
      <4> QED
        BY <4>3, <4>4
    <3>4. Entertained(resp["answer"]) <=> request.keepAlive /\ Connection(status) = "keep-alive"
      BY <3>3 DEF Entertained
    <3>5. Tells(headers, "Connection", "keep-alive") <=> Connection(status) = "keep-alive"
      BY <3>2 DEF Tells
    <3>6. pc = "kept" <=> why = "input" /\ Entertained(resp["answer"])
      BY <2>1 DEF EndInv
    <3>7. Connection(status) = "keep-alive" => status = "200"
      BY DEF Connection
    <3> QED
      BY <3>2, <3>4, <3>5, <3>6, <3>7
  <2>4. CASE outcome \in {"refused", "error"}
    <3>1. Tells(headers, "Connection", "close") /\ pc = "closed"
      BY <2>4 DEF FailureIsAnswered
    <3>2. ~Tells(headers, "Connection", "keep-alive")
      BY <3>1 DEF Tells
    <3> QED
      BY <3>1, <3>2
  <2> QED
    BY <2>2, <2>3, <2>4
<1> QED
  BY <1>1, EchoesGoInOrder, FailuresAreAnswered, PTL
=============================================================================
