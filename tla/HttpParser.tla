------------------------------ MODULE HttpParser ------------------------------
(***************************************************************************)
(* The parser of requests (VmRESTProcessBuffer and what it calls, in       *)
(* restengine/httpProtocolHead.c) on one connection, with what the         *)
(* transport keeps between two reads.  The client sends its requests one   *)
(* after the other, in segments the network chooses; each read hands the   *)
(* parser what the last one left and what has come, and the parser goes    *)
(* over it one line, chunk or piece of a body at a time.                   *)
(***************************************************************************)
EXTENDS HttpMessage

CONSTANTS
  Messages,     \* the requests a client may send, by name (see IsMessage)
  MaxRequests,  \* how many it sends on a connection at most
  CutsAnywhere  \* segments end anywhere, not only where the client's own do

ASSUME MessagesAssumption == \A n \in DOMAIN Messages : IsMessage(Messages[n])
ASSUME LimitsAssumption ==
  MaxRequests \in Nat /\ CutsAnywhere \in BOOLEAN

VARIABLES
  asked,    \* the names of the requests the client has begun to send
  sent,     \* how many bytes of the last of them are sent
  wire,     \* sent and not read
  buffer,   \* VM_SOCKET.pszBuffer
  done,     \* nTotalProcessed, the processed bytes of buffer
  req,      \* the REST_REQUEST of the connection
  pc,       \* "idle", "loop", "end", "finish" or "closed"
  answers   \* what the client has been sent

clientVars == <<asked, sent>>
vars == <<clientVars, wire, buffer, done, req, pc, answers>>

NewRequest ==
  [state |-> "LINE", headers |-> <<>>, type |-> "none", remaining |-> 0,
   payload |-> <<>>, keeps |-> FALSE]

Init ==
  /\ asked = <<>> /\ sent = 0 /\ wire = <<>>
  /\ buffer = <<>> /\ done = 0 /\ req = NewRequest
  /\ pc = "idle" /\ answers = <<>>

-----------------------------------------------------------------------------
(* What is left, and the lines between chunks.                             *)

Rest == SubSeq(buffer, done + 1, Len(buffer))

\* Faulty variant of LateCrlf: the end of a chunk comes with its data.
NeverLate(s) == FALSE

\* "Handle the case when CR LF succeeding the last chunk data is not
\* processed during last call to this function".
LateCrlf(s) == Len(s) >= 2 /\ s[1] = CR /\ s[2] = LF

\* VmRESTGetChunkSize: how many bytes the line with a chunk's size takes and
\* the size; "more" if it cannot tell yet, "bad" if it gives up.
GetChunkSize(s) ==
  LET n == LineLen(s)
      size == SubSeq(s, 1, n)
  IN CASE Len(s) < 3 \/ (Len(s) = 3 /\ s # <<"0", CR, LF>>) -> [is |-> "more"]
       [] OTHER ->
            IF n \in 0..HTTP_CHUNKED_DATA_LEN - 2
               /\ (Number(size, 16) # 0 \/ size = <<"0">>)
            THEN [is |-> "size", skip |-> n + 2, size |-> Number(size, 16)]
            ELSE [is |-> "bad"]

-----------------------------------------------------------------------------
(* The client.                                                             *)

Message(i) == Messages[asked[i]]
Current == Len(asked)
AllSent == asked # <<>> => sent = Len(Message(Current).bytes)

AnswersTo(i, kinds) == {a \in DOMAIN answers : answers[a].to = i /\ answers[a].is \in kinds}

Final == {"served", "failed", "refused"}

\* A client that has its answer goes on to another request.
Ask ==
  /\ pc # "closed" /\ Current < MaxRequests
  /\ AllSent /\ (asked # <<>> => AnswersTo(Current, Final) # {})
  /\ \E m \in DOMAIN Messages : asked' = Append(asked, m)
  /\ sent' = 0
  /\ UNCHANGED <<wire, buffer, done, req, pc, answers>>

\* A segment arrives.
Send ==
  /\ pc # "closed" /\ ~AllSent
  /\ LET m == Message(Current) IN
     \E k \in sent + 1..Len(m.bytes) :
       /\ CutsAnywhere \/ k \notin m.joined
       /\ k <= m.waits \/ AnswersTo(Current, {"continue"}) # {}
       /\ sent' = k
       /\ wire' = wire \o SubSeq(m.bytes, sent + 1, k)
  /\ UNCHANGED <<asked, buffer, done, req, pc, answers>>

-----------------------------------------------------------------------------
(* Reading, and the loop of VmRESTProcessBuffer.                           *)

\* VmSockPosixRead: what the last read left, and everything there is.
Read ==
  /\ pc = "idle" /\ wire # <<>>
  /\ buffer' = buffer \o wire /\ wire' = <<>>
  /\ done' = 0
  /\ pc' = "loop"
  /\ UNCHANGED <<clientVars, req, answers>>

\* Faulty variant of GoesOn: progress within a state does not count.
GoesOnIfChanged(n, before, after) == before # after

\* The loop ends when nothing is processed and the state stays.
GoesOn(n, before, after) == n # 0 \/ before # after

\* An iteration that has processed n bytes and leaves the request r.
Processed(n, r) ==
  /\ done' = done + n
  /\ req' = r
  /\ pc' = IF GoesOn(n, req.state, r.state) THEN "loop" ELSE "end"
  /\ UNCHANGED <<clientVars, wire, buffer>>

Answer(kind, payload) ==
  answers' = Append(answers, [to |-> Current, is |-> kind, payload |-> payload])

\* VmRESTSendFailureResponse.
Fails(kind) ==
  /\ Answer(kind, <<>>)
  /\ pc' = "finish"
  /\ UNCHANGED <<clientVars, wire, buffer, done, req>>

In(state) == pc = "loop" /\ req.state = state

\* VmRESTProcessRequestLine and the first half of VmRESTProcessHeaders: no
\* line yet, or one that is too long.
AwaitLine ==
  /\ In("LINE") \/ In("HEADERS")
  /\ LineLen(Rest) = -1 /\ Len(Rest) < MaxLine
  /\ Processed(0, req) /\ UNCHANGED answers

\* Without its LF, a line has at most MaxLine - 1 bytes here, its CR included:
\* a line that is accepted if it comes at once may be refused if it does not.
LineTooLong ==
  /\ In("LINE") \/ In("HEADERS")
  /\ \/ LineLen(Rest) = -1 /\ Len(Rest) >= MaxLine
     \/ LineLen(Rest) > MaxLine
     \/ In("LINE") /\ LineLen(Rest) = MaxLine
  /\ Fails("refused")

Line == SubSeq(Rest, 1, LineLen(Rest))

ProcessRequestLine ==
  /\ In("LINE") /\ LineLen(Rest) \in 0..MaxLine - 1
  /\ IF ValidRequestLine(Line)
     THEN Processed(LineLen(Rest) + 2, [req EXCEPT !.state = "HEADERS"]) /\ UNCHANGED answers
     ELSE Fails("refused")

\* A header needs a colon with something, but not too much, on both sides of it.
ProcessHeader ==
  /\ In("HEADERS") /\ LineLen(Rest) \in 1..MaxLine
  /\ LET rest == Rest
         colons == {i \in DOMAIN rest : rest[i] = ":"}
         k == Min(colons)
     IN IF colons # {} /\ Separates(k, LineLen(Rest))
        THEN /\ Processed(LineLen(Rest) + 2,
                  [req EXCEPT !.headers = Append(@, [name  |-> SubSeq(Line, 1, k - 1),
                                                     value |-> SubSeq(Line, k + 1, Len(Line))])])
             /\ UNCHANGED answers
        ELSE Fails("refused")

\* The empty line behind the headers; VmRESTHandleExpect answers at once, if
\* there is an endpoint for the request.
ProcessHeadersEnd ==
  /\ In("HEADERS") /\ LineLen(Rest) = 0
  /\ LET p == PayloadType(req)
     IN IF p.type = "none" THEN Fails("refused")
        ELSE \/ /\ Processed(2, [req EXCEPT !.state = "PAYLOAD", !.type = p.type,
                                            !.remaining = p.remaining])
                /\ IF Expects(req) THEN Answer("continue", <<>>) ELSE UNCHANGED answers
             \/ Expects(req) /\ Fails("failed")

-----------------------------------------------------------------------------
(* VmRESTProcessPayload.                                                   *)

\* The CR LF behind a chunk is skipped with it if all of it is there.
TrailingCrlf(left) == IF left >= 2 THEN 2 ELSE 0

\* memcpy into the payload, behind skip bytes that were not part of it.
\* When there is nothing to copy, skip is not counted as processed.
CopyPayload(r, skip, crlf) ==
  LET n    == Min({r.remaining, Len(Rest) - skip})
      left == Len(Rest) - skip - n
  IN Processed(IF n = 0 THEN 0 ELSE skip + n + (IF crlf THEN TrailingCrlf(left) ELSE 0),
               [r EXCEPT !.payload = @ \o SubSeq(Rest, skip + 1, skip + n),
                         !.remaining = @ - n])

ProcessBody ==
  /\ In("PAYLOAD") /\ req.type = "length"
  /\ IF req.remaining = 0 THEN Processed(0, [req EXCEPT !.state = "CALLBACK"])
                          ELSE CopyPayload(req, 0, FALSE)
  /\ UNCHANGED answers

ProcessChunkData ==
  /\ In("PAYLOAD") /\ req.type = "chunked" /\ req.remaining > 0
  /\ CopyPayload(req, 0, FALSE)
  /\ UNCHANGED answers

ProcessLateCrlf ==
  /\ In("PAYLOAD") /\ req.type = "chunked" /\ req.remaining = 0 /\ LateCrlf(Rest)
  /\ Processed(2, req)
  /\ UNCHANGED answers

ProcessChunk ==
  /\ In("PAYLOAD") /\ req.type = "chunked" /\ req.remaining = 0 /\ ~LateCrlf(Rest)
  /\ LET chunk == GetChunkSize(Rest)
     IN \/ chunk.is = "more" /\ Processed(0, req) /\ UNCHANGED answers
        \/ chunk.is = "bad" /\ Fails("refused")
        \/ /\ chunk.is = "size"
           /\ IF chunk.size = 0
              THEN Processed(0, [req EXCEPT !.state = "CALLBACK"])
              ELSE CopyPayload([req EXCEPT !.remaining = chunk.size], chunk.skip, TRUE)
           /\ UNCHANGED answers

\* VmRESTTriggerAppCb: the application answers, or its callback (or the
\* lookup of an endpoint) returns an error.  It may have asked to keep the
\* connection in both cases.
TriggerAppCb ==
  /\ In("CALLBACK")
  /\ \E keeps \in BOOLEAN :
       /\ \/ Answer("served", req.payload) /\ req' = [req EXCEPT !.state = "INVALID", !.keeps = keeps]
          \/ Answer("failed", <<>>) /\ req' = [req EXCEPT !.keeps = keeps]
       /\ pc' = "finish"
  /\ UNCHANGED <<clientVars, wire, buffer, done>>

-----------------------------------------------------------------------------
(* After the loop: VmRESTTcpReceiveNewData and VmSockPosixSetRequestHandle.*)

\* Faulty variants: nProcessed or the old request's bytes are not forgotten.
Whole(all, rest) == all

\* What a request that waits for more keeps, and what a finished one leaves.
Unprocessed(all, rest) == rest
Released(all, rest) == <<>>

AwaitMoreInput ==
  /\ pc = "end"
  /\ buffer' = Unprocessed(buffer, Rest) /\ done' = 0
  /\ pc' = "idle"
  /\ UNCHANGED <<clientVars, wire, req, answers>>

\* VmRESTEntertainPersistentConn: both sides must want to keep it.
Keeps == req.keeps /\ GetHttpHeader(req, "Connection") = <<"keep-alive">>

KeepConnection ==
  /\ pc = "finish" /\ Keeps
  /\ buffer' = Released(buffer, Rest) /\ done' = 0
  /\ req' = NewRequest
  /\ pc' = "idle"
  /\ UNCHANGED <<clientVars, wire, answers>>

DisconnectClient ==
  /\ pc = "finish" /\ ~Keeps
  /\ pc' = "closed"
  /\ UNCHANGED <<clientVars, wire, buffer, done, req, answers>>

ProcessBuffer ==
  \/ AwaitLine \/ LineTooLong \/ ProcessRequestLine
  \/ ProcessHeader \/ ProcessHeadersEnd
  \/ ProcessBody \/ ProcessChunkData \/ ProcessLateCrlf \/ ProcessChunk
  \/ TriggerAppCb

Server == Read \/ ProcessBuffer \/ AwaitMoreInput \/ KeepConnection \/ DisconnectClient

Next == Ask \/ Send \/ Server

Spec == Init /\ [][Next]_vars

-----------------------------------------------------------------------------
(* Properties.                                                             *)

\* The application gets the body that the client meant, once, and of correct
\* requests only, wherever the network has cut the bytes into segments and
\* wherever the reads of the server have cut them again.  (Unless CutsAnywhere,
\* no segment ends in or just behind the line with the size of a chunk.)
ServedAsSent ==
  \A a \in DOMAIN answers :
    /\ answers[a].is = "served" =>
         /\ Message(answers[a].to).wellFormed
         /\ answers[a].payload = Message(answers[a].to).body
    /\ answers[a].is \in Final => AnswersTo(answers[a].to, Final) = {a}

\* A correct request, within the limits for lines, names and values, is not
\* refused because only a part of it was there when it was looked at.  Not so
\* with CutsAnywhere: when a segment ends in or just behind the line with the
\* size of a chunk, the parser may refuse it (httpProtocolHead.c:1237).
RefusedOnlyIfMalformed ==
  \A a \in DOMAIN answers :
    answers[a].is = "refused" => ~Message(answers[a].to).wellFormed

\* On a connection that is kept, a new request starts with the first byte of
\* a request: nothing the parser had no use for is taken for a part of it.
NextRequestIsClean ==
  pc = "idle" /\ req = NewRequest =>
    \/ buffer = <<>> /\ wire = <<>>
    \/ asked # <<>> /\ buffer \o wire = SubSeq(Message(Current).bytes, 1, sent)

\* The parser waits only for bytes that will come: not when the whole request
\* is there, nor, with "Expect: 100-continue", all that the client sends
\* before it has an answer.
WaitsForSender ==
  pc = "idle" /\ wire = <<>> /\ asked # <<>> =>
    /\ AllSent => AnswersTo(Current, Final) # {}
    /\ sent = Message(Current).waits => AnswersTo(Current, Final \cup {"continue"}) # {}

=============================================================================
