------------------------------ MODULE Response ------------------------------
(***************************************************************************)
(* One request from the allocation of its objects to their release, and    *)
(* the answer to it: what the application calls from its callback          *)
(* (VmRESTGetData, VmRESTSet...), the interim answer to "Expect", the      *)
(* library's own answer after a failure, and the transport's write, which  *)
(* may be cut short, retried and given up.  libmain.c, httpUtilsExternal.c *)
(* and httpProtocolHead.c of restengine, VmSockPosixWrite.                 *)
(*                                                                         *)
(* The client sees a sequence of tokens: a status line with its headers,   *)
(* the blank line, bytes of a body, the size of a chunk, a CR LF behind    *)
(* one.  What the parser does is HttpParser's matter.                      *)
(***************************************************************************)
EXTENDS Naturals, Sequences, FiniteSetsExt

CONSTANTS
  Lengths,     \* of requests' bodies
  MaxData,     \* MAX_DATA_BUFFER_LEN
  MaxTries     \* rounds of waiting in VmSockPosixWrite without progress

ASSUME LengthsAssumption == Lengths \subseteq Nat
ASSUME LimitsAssumption == MaxData \in Nat \ {0} /\ MaxTries \in Nat

VARIABLES
  request,  \* what the client has asked for
  why,      \* the event: "input", or the connection's "timeout"
  pc,       \* where the worker is
  caller,   \* who called VmRESTSetData
  mem,      \* allocated objects
  resp,     \* the answer's and the interim answer's REST_RESPONSE
  interim,  \* dataNotRcvd: the interim answer is given
  app,      \* the application's callback
  outcome,  \* history: how the request was decided
  todo,     \* the writes that a call has still to make
  tries,
  sent,     \* what the client gets
  room,     \* the socket takes more bytes
  trouble   \* what has gone wrong around the worker

linkVars == <<sent, room, tries, todo>>
vars == <<request, why, pc, caller, mem, resp, interim, app, outcome, linkVars, trouble>>

Final == {"kept", "closed", "abandoned"}

\* instanceState is no longer STARTED; the connection is broken.
Stopped == "stop" \in trouble
Broken == "reset" \in trouble

-----------------------------------------------------------------------------
(* Objects. *)

RequestPacket == {"request"} \X {"packet", "line", "headers", "payload"}
ResponsePacket(of) == {of} \X {"packet", "status", "body", "headers"}
Buffer == <<"write", "buffer">>

\* Faulty variant of FreePacket: the header queue is left behind.
FreeButHeaders(m, packet) == m \ {p \in packet : p[2] # "headers"}

\* VmRESTFreeHTTPRequestPacket and VmRESTFreeHTTPResponsePacket.
FreePacket(m, packet) == m \ packet

FreeRequestHandle(m) == FreePacket(FreePacket(m, ResponsePacket("answer")), RequestPacket)

EmptyResponse == [status |-> "none", headers |-> <<>>, headerSent |-> FALSE]

Init ==
  /\ request \in [keepAlive : BOOLEAN, expects : BOOLEAN, payload : {[i \in 1..n |-> i] : n \in Lengths}]
  /\ why \in {"input", "timeout"}
  /\ pc = "new" /\ caller = "none"
  /\ mem = {}
  /\ resp = [of \in {"answer", "interim"} |-> EmptyResponse]
  /\ interim = FALSE
  /\ app = [stage |-> "start", data |-> <<>>, left |-> <<>>, zeroCopy |-> FALSE]
  /\ outcome = "none"
  /\ todo = <<>> /\ tries = 0
  /\ sent = <<>> /\ room = TRUE
  /\ trouble = {}

\* VmRESTGetRequestHandle.
GetRequestHandle ==
  /\ pc = "new"
  /\ mem' = (RequestPacket \ {<<"request", "payload">>}) \cup ResponsePacket("answer")
  /\ pc' = IF why = "input" THEN "parse" ELSE "failing"
  /\ outcome' = IF why = "input" THEN outcome ELSE "refused"
  /\ UNCHANGED <<request, why, caller, resp, interim, app, linkVars, trouble>>

\* No memory for one of the parts, or no peer any more: what there is is freed.
GetRequestHandleFails ==
  /\ pc = "new"
  /\ \E had \in SUBSET (RequestPacket \cup ResponsePacket("answer")) : mem' = FreeRequestHandle(had)
  /\ trouble' = trouble \cup {"memory"}
  /\ pc' = IF why = "input" THEN "closed" ELSE "abandoned"
  /\ UNCHANGED <<request, why, caller, resp, interim, app, outcome, linkVars>>

-----------------------------------------------------------------------------
(* Headers and bytes of an answer. *)

\* VmRESTSetHTTPMiscHeader appends.
SetHttpHeader(r, name, value) == [r EXCEPT !.headers = Append(@, <<name, value>>)]

\* VmRESTGetHTTPMiscHeader: the first header of that name, <<>> for NULL.
GetHeader(r, name) ==
  LET found == {i \in DOMAIN r.headers : r.headers[i][1] = name}
  IN IF found = {} THEN <<>> ELSE <<r.headers[Min(found)][2]>>

\* VmRESTSetFailureResponse and VmRESTSetSuccessResponse.
Described(r, status, connection) ==
  SetHttpHeader([r EXCEPT !.status = status], "Connection", connection)

HeadOf(r) == << [kind |-> "head", status |-> r.status, headers |-> r.headers], [kind |-> "blank"] >>

Byte(value) == [kind |-> "data", value |-> value]

\* The memcpy of n bytes from data, which may have fewer.
Bytes(data, n) == [i \in 1..n |-> Byte(IF i <= Len(data) THEN data[i] ELSE 0)]

Size(n) == [kind |-> "size", value |-> n]
Crlf == [kind |-> "crlf"]

\* VMRESTWriteChunkedMessageInResponseStream; the last chunk is "0" and two CR LF.
ChunkOf(data) == <<Size(Len(data))>> \o Bytes(data, Len(data)) \o <<Crlf>>

\* Faulty variant of HeaderSent: bHeaderSent is forgotten.
HeaderForgotten(r) == r

HeaderSent(r) == [r EXCEPT !.headerSent = TRUE]

\* A write; marks says that bHeaderSent is set after it, buffered that its bytes
\* are assembled in a buffer of its own.
Write(bytes, marks, buffered) == [bytes |-> bytes, marks |-> marks, buffered |-> buffered]

\* VmRESTSetHttpPayload: Content-Length first, else the chunks of a transfer
\* encoding; <<>> if there is neither.
Writes(r, data) ==
  LET length == GetHeader(r, "Content-Length")
      header == IF r.headerSent THEN <<>> ELSE <<Write(HeadOf(r), TRUE, TRUE)>>
  IN CASE length # <<>> -> <<Write(HeadOf(r) \o Bytes(data, Head(length)), TRUE, TRUE)>>
       [] length = <<>> /\ GetHeader(r, "Transfer-Encoding") # <<>> ->
            header \o <<Write(ChunkOf(data), FALSE, TRUE)>>
       [] OTHER -> <<>>

\* VmRESTSetHttpPayloadZeroCopy: the header, then the application's own buffer.
WritesZeroCopy(r, data) ==
  <<Write(HeadOf(r), FALSE, TRUE)>>
    \o IF data = <<>> THEN <<>> ELSE <<Write(Bytes(data, Len(data)), FALSE, FALSE)>>

\* The response object that a caller of VmRESTSetData writes.
Target(who) == IF who = "interim" THEN "interim" ELSE "answer"

\* A call of VmRESTSetData returns; m is what is allocated.
Return(who, ok, m) ==
  /\ pc' = CASE who = "interim"  -> IF ok THEN "parse" ELSE "failing"
             [] who = "callback" -> "callback"
             [] who = "failure"  -> "finish"
  /\ mem' = IF who = "interim" THEN FreePacket(m, ResponsePacket("interim")) ELSE m
  /\ outcome' = IF who = "interim" /\ ~ok THEN "refused" ELSE outcome
  /\ todo' = <<>> /\ tries' = 0

\* The call starts its writes, or is refused because the instance is stopped or
\* no header tells the length.  What the application has done by a successful
\* call is in done.
Call(who, writes, m, done) ==
  IF Stopped \/ writes = <<>>
  THEN /\ Return(who, FALSE, m)
       /\ app' = IF who = "callback" THEN [app EXCEPT !.stage = "failed"] ELSE app
       /\ UNCHANGED <<caller, sent, room>>
  ELSE /\ pc' = "write" /\ caller' = who
       /\ todo' = writes
       /\ app' = done
       /\ mem' = m
       /\ UNCHANGED <<outcome, sent, room, tries>>

-----------------------------------------------------------------------------
(* Before the callback. *)

\* VmRESTHandleExpect: an object of its own for the interim answer.
HandleExpect ==
  /\ pc = "parse" /\ request.expects /\ ~interim
  /\ interim' = TRUE
  /\ LET r == SetHttpHeader(Described(EmptyResponse, "100", "close"), "Content-Length", 0) IN
       /\ resp' = [resp EXCEPT !["interim"] = r]
       /\ Call("interim", Writes(r, <<>>), mem \cup ResponsePacket("interim"), app)
  /\ UNCHANGED <<request, why, trouble>>

\* The request is not correct, there is no endpoint for it or no callback, or
\* the rest of it does not come in time.
Refuse(reason) ==
  /\ pc = "parse"
  /\ why' = reason
  /\ outcome' = "refused"
  /\ pc' = "failing"
  /\ UNCHANGED <<request, caller, mem, resp, interim, app, linkVars, trouble>>

\* The whole request has come.
TriggerAppCb ==
  /\ pc = "parse" /\ (request.expects => interim)
  /\ mem' = IF request.payload = <<>> THEN mem ELSE mem \cup {<<"request", "payload">>}
  /\ pc' = "callback"
  /\ UNCHANGED <<request, why, caller, resp, interim, app, outcome, linkVars, trouble>>

-----------------------------------------------------------------------------
(* The callback: an application that echoes the body of the request. *)

InCallback(stage) == pc = "callback" /\ app.stage = stage

Fails == app' = [app EXCEPT !.stage = "failed"]

\* Faulty variant of NextPiece: each call starts from the beginning.
FirstPiece(payload, got) == SubSeq(payload, 1, IF Len(payload) - got >= MaxData THEN MaxData ELSE Len(payload) - got)

\* What the next VmRESTGetHttpPayload returns.
NextPiece(payload, got) ==
  SubSeq(payload, got + 1, got + IF Len(payload) - got >= MaxData THEN MaxData ELSE Len(payload) - got)

\* VmRESTGetData until it says REST_ENGINE_IO_COMPLETED.
GetData ==
  /\ InCallback("start")
  /\ IF Stopped THEN Fails
     ELSE LET all == app.data \o NextPiece(request.payload, Len(app.data))
          IN app' = [app EXCEPT !.data = all,
                                !.left = all,
                                !.stage = IF Len(all) < Len(request.payload) THEN "start" ELSE "read"]
  /\ UNCHANGED <<request, why, pc, caller, mem, resp, interim, outcome, linkVars, trouble>>

\* VmRESTGetDataZC.
GetDataZC ==
  /\ InCallback("start") /\ app.data = <<>>
  /\ IF Stopped THEN Fails
     ELSE app' = [app EXCEPT !.data = request.payload, !.left = request.payload, !.stage = "read"]
  /\ UNCHANGED <<request, why, pc, caller, mem, resp, interim, outcome, linkVars, trouble>>

\* VmRESTSetSuccessResponse, or VmRESTSetFailureResponse of the application.
Describe(status) ==
  /\ InCallback("read")
  /\ resp' = [resp EXCEPT !["answer"] =
                Described(@, status, IF status = "200" /\ request.keepAlive THEN "keep-alive" ELSE "close")]
  /\ app' = [app EXCEPT !.stage = "described"]
  /\ UNCHANGED <<request, why, pc, caller, mem, interim, outcome, linkVars, trouble>>

\* VmRESTSetDataLength, with a length or with NULL.
SetDataLength ==
  /\ InCallback("described")
  /\ \/ /\ Len(app.data) <= MaxData
        /\ resp' = [resp EXCEPT !["answer"] = SetHttpHeader(@, "Content-Length", Len(app.data))]
        /\ app' = [app EXCEPT !.stage = "length"]
     \/ /\ resp' = [resp EXCEPT !["answer"] = SetHttpHeader(@, "Transfer-Encoding", "chunked")]
        /\ app' = [app EXCEPT !.stage = "chunks"]
  /\ UNCHANGED <<request, why, pc, caller, mem, interim, outcome, linkVars, trouble>>

\* VmRESTSetData: all at once, or the next chunk; the empty one is the last.
SetData ==
  /\ \/ /\ InCallback("length")
        /\ Call("callback", Writes(resp["answer"], app.data), mem, [app EXCEPT !.stage = "answered"])
     \/ /\ InCallback("chunks")
        /\ \E n \in 0..Len(app.left) :
             /\ n <= MaxData /\ (n = 0 => app.left = <<>>)
             /\ Call("callback", Writes(resp["answer"], SubSeq(app.left, 1, n)), mem,
                     [app EXCEPT !.left = SubSeq(@, n + 1, Len(@)),
                                 !.stage = IF n = 0 THEN "answered" ELSE "chunks"])
  /\ UNCHANGED <<request, why, resp, interim, trouble>>

\* VmRESTSetDataZC; a stopped instance adds no header.
SetDataZC ==
  /\ InCallback("described")
  /\ LET r == SetHttpHeader(resp["answer"], "Content-Length", Len(app.data)) IN
       /\ resp' = IF Stopped THEN resp ELSE [resp EXCEPT !["answer"] = r]
       /\ Call("callback", WritesZeroCopy(r, app.data), mem,
               [app EXCEPT !.stage = "answered", !.zeroCopy = TRUE])
  /\ UNCHANGED <<request, why, interim, trouble>>

\* The callback returns success when it is done, or although a call failed.
ReturnSuccess ==
  /\ InCallback("answered") \/ InCallback("failed")
  /\ outcome' = "success"
  /\ pc' = "finish"
  /\ UNCHANGED <<request, why, caller, mem, resp, interim, app, linkVars, trouble>>

\* It returns an error, at once or late: with an answer already begun.
ReturnError ==
  /\ pc = "callback"
  /\ outcome' = IF app.stage \in {"start", "read"} THEN "error" ELSE "late"
  /\ pc' = "failing"
  /\ UNCHANGED <<request, why, caller, mem, resp, interim, app, linkVars, trouble>>

-----------------------------------------------------------------------------
(* VmRESTSendFailureResponse. *)

\* Nothing is said when the instance is stopped, nor behind a header.
SayNothing ==
  /\ pc = "failing"
  /\ Stopped \/ resp["answer"].headerSent
  /\ pc' = "finish"
  /\ UNCHANGED <<request, why, caller, mem, resp, interim, app, outcome, linkVars, trouble>>

\* Faulty variant of FailureLength: no length is set.
NoLength(r) == r

\* VmRESTSetDataLength of the failure answer, "0".
FailureLength(r) == SetHttpHeader(r, "Content-Length", 0)

DescribeFailure ==
  /\ pc = "failing"
  /\ ~Stopped /\ ~resp["answer"].headerSent
  /\ resp' = [resp EXCEPT !["answer"] = FailureLength(Described(@, "error", "close"))]
  /\ pc' = "send"
  /\ UNCHANGED <<request, why, caller, mem, interim, app, outcome, linkVars, trouble>>

\* The instance may have been stopped meanwhile.
SendFailureResponse ==
  /\ pc = "send"
  /\ Call("failure", Writes(resp["answer"], <<>>), mem, app)
  /\ UNCHANGED <<request, why, resp, interim, trouble>>

-----------------------------------------------------------------------------
(* VmSockPosixWrite, and the buffer around it. *)

Current == Head(todo)
Ready == pc = "write" /\ (Current.buffered => Buffer \in mem)

AllocateBuffer ==
  /\ pc = "write" /\ Current.buffered /\ Buffer \notin mem
  /\ mem' = mem \cup {Buffer}
  /\ UNCHANGED <<request, why, pc, caller, resp, interim, app, outcome, linkVars, trouble>>

\* Some bytes go, and more are left.
WriteSome ==
  /\ Ready /\ room /\ ~Broken
  /\ \E k \in 1..Len(Current.bytes) - 1 :
       /\ sent' = sent \o SubSeq(Current.bytes, 1, k)
       /\ todo' = <<[Current EXCEPT !.bytes = SubSeq(@, k + 1, Len(@))]>> \o Tail(todo)
  /\ tries' = 0
  /\ UNCHANGED <<request, why, pc, caller, mem, resp, interim, app, outcome, room, trouble>>

\* All bytes go; the next write of the call follows, or the call returns.
WriteAll ==
  /\ Ready /\ room /\ ~Broken
  /\ sent' = sent \o Current.bytes
  /\ resp' = IF Current.marks THEN [resp EXCEPT ![Target(caller)] = HeaderSent(@)] ELSE resp
  /\ IF Tail(todo) = <<>>
     THEN Return(caller, TRUE, mem \ {Buffer})
     ELSE /\ mem' = mem \ {Buffer}
          /\ todo' = Tail(todo)
          /\ tries' = 0
          /\ UNCHANGED <<pc, outcome>>
  /\ UNCHANGED <<request, why, caller, interim, app, room, trouble>>

\* Faulty variant of OneMore: the time is not counted.
NoMore(n) == n

OneMore(n) == n + 1

\* EAGAIN: wait and try again.
Retry ==
  /\ Ready /\ ~room /\ ~Broken
  /\ tries < MaxTries
  /\ tries' = OneMore(tries)
  /\ UNCHANGED <<request, why, pc, caller, mem, resp, interim, app, outcome, sent, room, todo, trouble>>

\* No memory for the buffer, the time is up, or the connection is broken.
WriteFails ==
  /\ pc = "write"
  /\ \/ Current.buffered /\ Buffer \notin mem /\ trouble' = trouble \cup {"memory"}
     \/ Ready /\ ~room /\ ~Broken /\ tries = MaxTries /\ trouble' = trouble \cup {"stall"}
     \/ Ready /\ Broken /\ UNCHANGED trouble
  /\ Return(caller, FALSE, mem \ {Buffer})
  /\ app' = IF caller = "callback" THEN [app EXCEPT !.stage = "failed"] ELSE app
  /\ UNCHANGED <<request, why, caller, resp, interim, sent, room>>

-----------------------------------------------------------------------------
(* The end of the request. *)

\* Faulty variant of Entertained: what the answer says does not matter.
EntertainedByClient(r) == request.keepAlive

\* VmRESTEntertainPersistentConn: both sides must want to keep the connection.
Entertained(r) == request.keepAlive /\ GetHeader(r, "Connection") = <<"keep-alive">>

Finish ==
  /\ pc = "finish"
  /\ pc' = IF why = "input" /\ Entertained(resp["answer"]) THEN "kept" ELSE "closed"
  /\ mem' = FreeRequestHandle(mem)
  /\ UNCHANGED <<request, why, caller, resp, interim, app, outcome, linkVars, trouble>>

-----------------------------------------------------------------------------
(* Around the worker. *)

\* The client stops reading, or goes on.
Congestion ==
  /\ pc \notin Final
  /\ room' = ~room
  /\ UNCHANGED <<request, why, pc, caller, mem, resp, interim, app, outcome, sent, tries, todo, trouble>>

\* VmRESTStop; a reset by the client.
Disturb(event) ==
  /\ pc \notin Final
  /\ event \notin trouble
  /\ trouble' = trouble \cup {event}
  /\ UNCHANGED <<request, why, pc, caller, mem, resp, interim, app, outcome, linkVars>>

Parse == HandleExpect \/ (\E reason \in {"input", "timeout"} : Refuse(reason)) \/ TriggerAppCb

Callback ==
  \/ GetData \/ GetDataZC
  \/ \E status \in {"200", "404"} : Describe(status)
  \/ SetDataLength \/ SetData \/ SetDataZC
  \/ ReturnSuccess \/ ReturnError

Transmit == AllocateBuffer \/ WriteSome \/ WriteAll \/ Retry \/ WriteFails

Serve ==
  \/ GetRequestHandle \/ GetRequestHandleFails
  \/ Parse \/ Callback
  \/ SayNothing \/ DescribeFailure \/ SendFailureResponse
  \/ Transmit \/ Finish

Next ==
  \/ Serve
  \/ Congestion
  \/ \E event \in {"stop", "reset"} : Disturb(event)

Spec == Init /\ [][Next]_vars

\* A worker runs, callbacks return, and a request that does not come in is
\* timed out.  The client need not read.
FairSpec == Spec /\ WF_vars(Serve)

-----------------------------------------------------------------------------
(* Types; what a client makes of the tokens, a definition of its own. *)

\* The worker's control state and what it has allocated.
TypeOK ==
  /\ why \in {"input", "timeout"}
  /\ pc \in {"new", "parse", "callback", "failing", "send", "write", "finish"} \cup Final
  /\ caller \in {"none", "interim", "callback", "failure"}
  /\ pc = "write" => caller # "none"
  /\ mem \subseteq RequestPacket \cup ResponsePacket("answer") \cup ResponsePacket("interim") \cup {Buffer}
  /\ interim \in BOOLEAN /\ room \in BOOLEAN
  /\ outcome \in {"none", "refused", "success", "error", "late"}
  /\ tries \in 0..MaxTries
  /\ trouble \subseteq {"stop", "reset", "stall", "memory"}

IsHead(t) == t.kind = "head"

\* The tokens behind an interim answer, which has a head and a blank line.
Answer ==
  IF sent # <<>> /\ IsHead(sent[1]) /\ sent[1].status = "100" THEN SubSeq(sent, 3, Len(sent)) ELSE sent

\* The size at i is followed by as many bytes and a CR LF.
ChunkEnd(s, i) == i + s[i].value + 1
IsChunk(s, i) ==
  /\ ChunkEnd(s, i) <= Len(s) /\ s[ChunkEnd(s, i)].kind = "crlf"
  /\ \A j \in i + 1..ChunkEnd(s, i) - 1 : s[j].kind = "data"

\* Chunks one behind the other, the last of which, and only that, is empty.
Chunked(s) ==
  /\ s # <<>> /\ s[1].kind = "size"
  /\ \A i \in DOMAIN s : s[i].kind = "size" =>
       /\ IsChunk(s, i)
       /\ IF s[i].value = 0 THEN ChunkEnd(s, i) = Len(s)
          ELSE ChunkEnd(s, i) < Len(s) /\ s[ChunkEnd(s, i) + 1].kind = "size"

\* The bytes in s are the first n of body, in their order.
Carries(s, body, n) ==
  \E at \in [1..n -> DOMAIN s] :
    /\ \A i, j \in 1..n : i < j => at[i] < at[j]
    /\ \A i \in 1..n : s[at[i]] = Byte(body[i])
    /\ \A k \in DOMAIN s : s[k].kind = "data" => \E i \in 1..n : at[i] = k

\* The headers of a name; there is one, and it has that value.
Under(headers, name) == {i \in DOMAIN headers : headers[i][1] = name}
Tells(headers, name, value) ==
  \E i \in DOMAIN headers : Under(headers, name) = {i} /\ headers[i][2] = value

\* The answer a has one head, tells its length in one way, and has the whole
\* of the body it promises and nothing behind it.
Complete(a, status, body) ==
  /\ Len(a) >= 2 /\ IsHead(a[1]) /\ a[1].status = status /\ a[2].kind = "blank"
  /\ LET headers == a[1].headers
         s == SubSeq(a, 3, Len(a))
     IN \/ /\ Tells(headers, "Content-Length", Len(s)) /\ Under(headers, "Transfer-Encoding") = {}
           /\ Len(s) = Len(body) /\ \A i \in DOMAIN s : s[i] = Byte(body[i])
        \/ /\ Under(headers, "Content-Length") = {} /\ Tells(headers, "Transfer-Encoding", "chunked")
           /\ Chunked(s) /\ Carries(s, body, Len(body))

-----------------------------------------------------------------------------
(* Properties. *)

\* When the callback has returned success and nothing went wrong, the client
\* gets the body of its request back, whole, once and in order, in an answer
\* that says in one way where it ends: whatever pieces the body was read and
\* written in and however the writes were cut (httpUtilsExternal.c:215-381).
AnswerIsAsMeant ==
  outcome = "success" /\ trouble = {} =>
    \E status \in {"200", "404"} : Complete(Answer, status, request.payload)

\* A failure before the application has begun an answer (its own error, a bad
\* request, a timeout) is told to the client by one whole answer, and then the
\* connection is closed, also behind an interim answer (USER-GUIDE.txt:506,
\* httpProtocolHead.c:1431-1553).
FailureIsAnswered ==
  pc \in Final /\ outcome \in {"error", "refused"} /\ trouble = {} =>
    /\ Complete(Answer, "error", <<>>)
    /\ Tells(Answer[1].headers, "Connection", "close")
    /\ pc = "closed"

\* Whatever fails, and whenever, the client gets no second head behind one that
\* is sent (bHeaderSent), unless the application used the zero-copy call or a
\* write was given up on a connection that then goes on.
HeaderIsSentOnce ==
  ~app.zeroCopy /\ "stall" \notin trouble =>
    \A i, j \in DOMAIN Answer : IsHead(Answer[i]) /\ IsHead(Answer[j]) => i = j

\* The server keeps a connection exactly when the client wanted that and was
\* told so, and then the next answer follows a complete one
\* (httpProtocolHead.c:1625-1695, libmain.c:576-643).  Not so when the
\* application fails with an answer begun.
KeptAsTold ==
  pc \in {"kept", "closed"} /\ trouble = {} /\ outcome # "late" =>
    /\ pc = "kept" <=> why = "input" /\ request.keepAlive /\ Tells(Answer[1].headers, "Connection", "keep-alive")
    /\ pc = "kept" => Complete(Answer, "200", request.payload)

\* Nothing that was allocated for a request outlives it, whichever of the
\* allocations, calls and writes failed (httpAllocStruct.c, sockinterface.c:581).
NothingLeaks == pc \in Final => mem = {}

\* A request comes to its end although its client stops reading: the waits of a
\* write are bounded (socket.c:1066-1088).
RequestEnds == <>(pc \in Final)

\* Not so: an application that fails with an answer begun can rely on the
\* library to tell the client.
LateFailureIsAnswered ==
  pc \in Final /\ outcome = "late" /\ trouble = {} =>
    \E status \in {"200", "404", "error"} : \E n \in 0..Len(app.data) :
       Complete(Answer, status, SubSeq(app.data, 1, n))

-----------------------------------------------------------------------------
(* What is inductive behind HeaderIsSentOnce. *)

Statuses == {"none", "100", "200", "404", "error"}
Header == ({"Connection", "Transfer-Encoding"} \X {"keep-alive", "close", "chunked"})
            \cup ({"Content-Length"} \X Nat)
Token == [kind : {"head"}, status : Statuses, headers : Seq(Header)]
           \cup [kind : {"blank", "crlf"}] \cup [kind : {"data", "size"}, value : Nat]

Object == [status : Statuses, headers : Seq(Header), headerSent : BOOLEAN]
WriteRecord == [bytes : Seq(Token), marks : BOOLEAN, buffered : BOOLEAN]
Application ==
  [stage : {"start", "read", "described", "length", "chunks", "answered", "failed"},
   data : Seq(Nat), left : Seq(Nat), zeroCopy : BOOLEAN]

\* Types of what is sent, and of what it is made from.
DataOK ==
  /\ request \in [keepAlive : BOOLEAN, expects : BOOLEAN, payload : Seq(Nat)]
  /\ resp \in [{"answer", "interim"} -> Object]
  /\ app \in Application
  /\ todo \in Seq(WriteRecord)
  /\ pc = "write" => todo # <<>>
  /\ sent \in Seq(Token)

\* The answer and the interim answer differ in their status.
StatusInv == resp["answer"].status # "100" /\ resp["interim"].status \in {"none", "100"}

IsAnswer(t) == IsHead(t) /\ t.status # "100"
NothingAnswered == \A i \in DOMAIN sent : ~IsAnswer(sent[i])

SentInv ==
  /\ \A i \in DOMAIN sent : IsHead(sent[i]) /\ sent[i].status = "100" => i = 1
  /\ \A i, j \in DOMAIN sent : IsAnswer(sent[i]) /\ IsAnswer(sent[j]) => i = j

\* Before the callback, nothing is sent but the interim answer.
EarlyInv ==
  pc \in {"new", "parse"} \/ (pc = "write" /\ caller = "interim") =>
    /\ ~interim => sent = <<>> /\ pc # "write"
    /\ pc = "new" => ~interim
    /\ NothingAnswered
    /\ app.stage = "start" /\ ~resp["answer"].headerSent

\* Between writes bHeaderSent is set when a head is sent; while the length may
\* still be told, or is, there is none.
FlagInv ==
  /\ pc \in {"callback", "failing", "send"} => NothingAnswered \/ resp["answer"].headerSent
  /\ pc = "callback" /\ app.stage \in {"start", "read", "described", "length"} => ~resp["answer"].headerSent
  /\ pc = "send" => ~resp["answer"].headerSent

\* Chunks are written without a length.
LengthInv ==
  /\ pc \in {"new", "parse", "callback"} \/ (pc = "write" /\ caller # "failure")
  /\ app.stage \in {"start", "read", "described", "chunks"}
  => \A i \in DOMAIN resp["answer"].headers : resp["answer"].headers[i][1] # "Content-Length"

\* A write starts with its only head, if it has one.  When some of it is sent, the
\* buffer is there and bHeaderSent is going to be set.
WriteInv ==
  pc = "write" =>
    /\ \A i \in DOMAIN todo : todo[i].buffered
    /\ \A i \in DOMAIN todo : \A j \in DOMAIN todo[i].bytes :
         IsHead(todo[i].bytes[j]) =>
           /\ i = 1 /\ j = 1
           /\ IF caller = "interim" THEN todo[i].bytes[j].status = "100" /\ sent = <<>>
              ELSE todo[i].bytes[j].status # "100" /\ NothingAnswered /\ todo[i].marks
    /\ caller # "interim" => NothingAnswered \/ resp["answer"].headerSent \/ (todo[1].marks /\ Buffer \in mem)
    /\ caller = "callback" => app.stage \in {"chunks", "answered"}

\* What HeaderIsSentOnce does not cover.
Regular == ~app.zeroCopy /\ "stall" \notin trouble

WorkerInv == EarlyInv /\ FlagInv /\ LengthInv /\ WriteInv

HeadInv == StatusInv /\ (Regular => SentInv /\ (~Broken => WorkerInv))

HeadsInOrder == TypeOK /\ DataOK /\ HeadInv

-----------------------------------------------------------------------------
(* What is inductive behind FailureIsAnswered. *)

InterimResponse == SetHttpHeader(Described(EmptyResponse, "100", "close"), "Content-Length", 0)
FailureResponse == FailureLength(Described(EmptyResponse, "error", "close"))

\* What is sent before an answer, and with the failure answer.
Openings == {<<>>, HeadOf(InterimResponse)}
Refusals == {opening \o HeadOf(FailureResponse) : opening \in Openings}

Refused == outcome \in {"error", "refused"}

\* While the application has not described an answer its object is new.
UntouchedInv ==
  /\ pc \in {"new", "parse"} \/ (pc = "write" /\ caller = "interim") => app.stage = "start"
  /\ pc = "write" /\ caller = "callback" => app.stage \in {"chunks", "answered"}
  /\ \/ pc \in {"new", "parse"} \/ (pc = "write" /\ caller = "interim")
     \/ (pc = "callback" /\ app.stage \in {"start", "read"})
     \/ (pc = "failing" /\ Refused)
     => resp["answer"] = EmptyResponse /\ (pc # "write" => sent \in Openings)

\* The interim answer goes out before anything else, and once.
InterimInv ==
  /\ pc = "new" => ~interim
  /\ pc \in {"new", "parse"} /\ ~interim => sent = <<>>
  /\ pc = "write" /\ caller = "interim" =>
       interim /\ Tail(todo) = <<>> /\ sent \o todo[1].bytes = HeadOf(InterimResponse)

\* From the decision to refuse, the failure answer is made, sent, and all there is.
RefusalInv ==
  /\ pc \in {"new", "parse", "callback"} \/ (pc = "write" /\ caller # "failure") => outcome = "none"
  /\ Refused =>
       /\ pc = "send" => resp["answer"] = FailureResponse /\ sent \in Openings
       /\ pc = "write" =>
            resp["answer"] = FailureResponse /\ Tail(todo) = <<>> /\ sent \o todo[1].bytes \in Refusals
       /\ pc \in {"finish"} \cup Final => resp["answer"].headers = FailureResponse.headers /\ sent \in Refusals
       /\ pc \in Final => pc = "closed"

FailureInv == trouble = {} => UntouchedInv /\ InterimInv /\ RefusalInv

RefusalsInOrder == TypeOK /\ DataOK /\ FailureInv

-----------------------------------------------------------------------------
(* What is inductive behind AnswerIsAsMeant and KeptAsTold. *)

\* The application's answer, before and when it is told where it ends.
Begun(status) ==
  Described(EmptyResponse, status, IF status = "200" /\ request.keepAlive THEN "keep-alive" ELSE "close")
Sized(status) == SetHttpHeader(Begun(status), "Content-Length", Len(request.payload))
InChunks(status) == SetHttpHeader(Begun(status), "Transfer-Encoding", "chunked")

\* Chunks one behind the other, none of them the last.
OpenChunks(s) ==
  /\ s # <<>> => s[1].kind = "size"
  /\ \A i \in DOMAIN s : s[i].kind = "size" =>
       /\ IsChunk(s, i) /\ s[i].value > 0
       /\ ChunkEnd(s, i) < Len(s) => s[ChunkEnd(s, i) + 1].kind = "size"

\* What is sent when the writes of the call are done.
InAll(writes) == IF Len(writes) = 1 THEN writes[1].bytes ELSE writes[1].bytes \o writes[2].bytes
ToBeSent == IF pc = "write" THEN sent \o InAll(todo) ELSE sent

\* It is the head of r with s behind, and r is what is described.
Sends(r, s) ==
  /\ resp["answer"].headers = r.headers
  /\ \E opening \in Openings : ToBeSent = opening \o (HeadOf(r) \o s)

\* What can stand behind the head: an end of what is sent.
Bodies == {SubSeq(ToBeSent, i, Len(ToBeSent)) : i \in 1..Len(ToBeSent) + 1}

Answered(status) ==
  \/ Sends(Sized(status), Bytes(request.payload, Len(request.payload)))
  \/ \E s \in Bodies :
       Sends(InChunks(status), s) /\ Chunked(s) /\ Carries(s, request.payload, Len(request.payload))

\* The rest of the body behind the first n bytes is left.
LeftBehind(n) ==
  /\ n + Len(app.left) = Len(request.payload)
  /\ \A i \in DOMAIN app.left : app.left[i] = request.payload[n + i]

\* The chunks of the first n bytes are sent, or nothing is.
Chunking(status) ==
  \/ resp["answer"] = InChunks(status) /\ pc = "callback" /\ sent \in Openings /\ LeftBehind(0)
  \/ /\ resp["answer"].headerSent \/ (pc = "write" /\ todo[1].marks)
     /\ \E s \in Bodies : \E n \in 0..Len(request.payload) :
          Sends(InChunks(status), s) /\ OpenChunks(s) /\ Carries(s, request.payload, n) /\ LeftBehind(n)

Answering(status) ==
  \/ app.stage = "described" /\ resp["answer"] = Begun(status) /\ sent \in Openings
  \/ app.stage = "length" /\ resp["answer"] = Sized(status) /\ sent \in Openings
  \/ app.stage = "chunks" /\ Chunking(status)
  \/ app.stage = "answered" /\ Answered(status)

\* What is read is the beginning of the body, and at last all of it.
ReadInv ==
  /\ pc \in {"new", "parse"} \/ (pc = "write" /\ caller = "interim") => app.data = <<>>
  /\ pc = "callback" =>
       /\ app.stage = "start" =>
            Len(app.data) <= Len(request.payload) /\ \A i \in DOMAIN app.data : app.data[i] = request.payload[i]
       /\ app.stage \in {"read", "described", "length"} => app.data = request.payload /\ app.left = request.payload

\* The answer from its description to the last write of it.
AnswerInv ==
  /\ (pc = "callback" /\ app.stage \notin {"start", "read"}) \/ (pc = "write" /\ caller = "callback") =>
       \E status \in {"200", "404"} : Answering(status)
  /\ pc = "write" /\ caller = "callback" => Len(todo) \in 1..2
  /\ outcome = "success" => pc \in {"finish"} \cup Final /\ \E status \in {"200", "404"} : Answered(status)

\* The request is decided before it ends, and then the connection.
EndInv ==
  /\ pc \in {"failing", "send", "finish"} \cup Final \/ (pc = "write" /\ caller = "failure") => outcome # "none"
  /\ pc \in Final => (pc = "kept" <=> why = "input" /\ Entertained(resp["answer"]))

EchoInv == trouble = {} => ReadInv /\ AnswerInv /\ EndInv

EchoesInOrder == RefusalsInOrder /\ EchoInv
=============================================================================
