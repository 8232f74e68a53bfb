--------------------------- MODULE RequestProofs ---------------------------
(***************************************************************************)
(* Who owns a request object, for every number of workers, connections and *)
(* requests: the inductive invariant behind RequestsAccounted, and the     *)
(* action property PartialRequestIsKept.                                   *)
(***************************************************************************)
EXTENDS ConnectionProofs

USE DEF Kind, Serving, Closing, Holding, Goto, HeldAt

-----------------------------------------------------------------------------
(* Most steps leave the objects alone. *)

\* No object is allocated, saved or freed, and no socket that has a request
\* saved is accepted or freed.
Steady ==
    /\ UNCHANGED <<local, reqs, saved>>
    /\ \A c \in Conns : sock'[c] = sock[c] \/ saved[c] = NoRequest
    /\ \A c \in Conns : (hs[c] => hs'[c]) /\ (hup[c] => hup'[c])
    /\ \A v \in Workers : local[v] # NoRequest => cur'[v] = cur[v]

\* What is left to show of a steady step.
Placed ==
    /\ \A v \in Workers : WorkerRequestInv(v)'
    /\ \A c \in Conns : EstablishedInv(c)' /\ HandedInv(c)'

LEMMA SteadyKeeps ==
    ASSUME TypeOK, RequestInv, Steady, Placed
    PROVE  RequestInv'
  <1>1. OneOwnerInv'
    BY DEF RequestInv, OneOwnerInv, Steady
  <1>2. ASSUME NEW c \in Conns PROVE SavedInv(c)'
    BY DEF RequestInv, SavedInv, Steady
  <1>3. ASSUME NEW r \in reqs' PROVE HasOwner(r)'
    <2>1. r \in reqs /\ r # NoRequest
      BY RequestsAssumption DEF TypeOK, Steady
    <2>2. HasOwner(r)
      BY <2>1 DEF RequestInv
    <2>3. QED
      BY <2>1, <2>2 DEF HasOwner, LeakedByHangup, Steady
  <1>4. QED BY <1>1, <1>2, <1>3 DEF RequestInv, Placed

\* A step of the peers or the clock.
LEMMA PeersSteady ==
    ASSUME TypeOK, RequestInv, Steady, UNCHANGED <<pc, cur>>,
           \A c \in Conns : sock'[c] \in {"none", "backlog"} => sock[c] \in {"none", "backlog"}
    PROVE  RequestInv'
  <1>1. ASSUME NEW v \in Workers PROVE WorkerRequestInv(v)'
    BY DEF RequestInv, WorkerRequestInv, Steady
  <1>2. ASSUME NEW c \in Conns PROVE EstablishedInv(c)' /\ HandedInv(c)'
    BY DEF RequestInv, EstablishedInv, HandedInv, Steady
  <1>3. QED BY <1>1, <1>2, SteadyKeeps DEF Placed

\* A step of worker w, from one program point to another.
Moves(w, from, to) ==
    /\ pc[w] \in from /\ pc'[w] \in to
    /\ \A v \in Workers : v # w => pc'[v] = pc[v] /\ cur'[v] = cur[v]

\* w has no connection before and after the step, or waits for the request of
\* one.
LEMMA DispatchSteady ==
    ASSUME TypeOK, RequestInv, Steady, NEW w \in Workers,
           Moves(w, {"idle", "waiting"}, {"idle", "waiting", "getreq", "tgetreq", "closetimer"}),
           \A c \in Conns : sock'[c] \in {"none", "backlog"} => sock[c] \in {"none", "backlog"},
           \A c \in Conns : cur'[w] = c /\ pc'[w] = "getreq" => (Secure => hs[c]),
           \A c \in Conns : cur'[w] = c /\ pc'[w] = "closetimer" => hup[c]
    PROVE  RequestInv'
  <1>0. local[w] = NoRequest
    BY DEF RequestInv, WorkerRequestInv, Moves
  <1>1. ASSUME NEW v \in Workers PROVE WorkerRequestInv(v)'
    BY <1>0 DEF RequestInv, WorkerRequestInv, Steady, Moves
  <1>2. ASSUME NEW c \in Conns PROVE EstablishedInv(c)'
    BY DEF RequestInv, EstablishedInv, Steady, Moves
  <1>3. ASSUME NEW c \in Conns PROVE HandedInv(c)'
    BY <1>0 DEF RequestInv, HandedInv, Steady, Moves
  <1>4. QED BY <1>1, <1>2, <1>3, SteadyKeeps DEF Placed

\* w goes on with its connection and its request, or begins to close.
LEMMA ServiceSteady ==
    ASSUME TypeOK, RequestInv, Steady, NEW w \in Workers, cur'[w] = cur[w],
           \/ Moves(w, {"read"}, {"process"})
           \/ Moves(w, {"read", "process"} \cup Closing, Closing),
           UNCHANGED sock
    PROVE  RequestInv'
  <1>1. ASSUME NEW v \in Workers PROVE WorkerRequestInv(v)'
    BY DEF RequestInv, WorkerRequestInv, Steady, Moves
  <1>2. ASSUME NEW c \in Conns PROVE EstablishedInv(c)'
    BY DEF RequestInv, EstablishedInv, Steady, Moves
  <1>3. ASSUME NEW c \in Conns PROVE HandedInv(c)'
    BY DEF RequestInv, HandedInv, Steady, Moves
  <1>4. QED BY <1>1, <1>2, <1>3, SteadyKeeps DEF Placed
-----------------------------------------------------------------------------
(* The steps that leave the objects alone. *)

LEMMA PeerKeepsRequests ==
    ASSUME TypeOK, RequestInv, NEW c \in Conns, Peer(c) \/ TimerFire(c)
    PROVE  RequestInv'
  <1> USE DEF workerVars, connVars, pollVars, peerVars
  <1>1. CASE Connect(c)
    <2>1. saved[c] = NoRequest
      BY <1>1 DEF Connect, RequestInv, EstablishedInv
    <2>2. QED
      BY <1>1, <2>1, PeersSteady DEF Connect, Steady, TypeOK
  <1>2. CASE Send(c) \/ Reset(c) \/ TimerFire(c)
    BY <1>2, PeersSteady DEF Send, Reset, TimerFire, Steady, TypeOK
  <1>3. QED BY <1>1, <1>2 DEF Peer

LEMMA QueueKeepsRequests ==
    ASSUME TypeOK, RequestInv, NEW w \in Workers, LockQueue(w) \/ Poll(w)
    PROVE  RequestInv'
  <1> USE DEF workerVars, connVars, pollVars, peerVars
  <1>1. Steady /\ UNCHANGED sock
    BY DEF LockQueue, Poll, Steady
  <1>2. Moves(w, {"idle", "waiting"}, {"waiting"})
    BY DEF LockQueue, Poll, Moves, TypeOK
  <1>3. QED BY <1>1, <1>2, DispatchSteady DEF Moves

\* The worker that dispatches holds nothing.
LEMMA DispatchFrees ==
    ASSUME RequestInv, NEW w \in Workers, pc[w] = "waiting"
    PROVE  local[w] = NoRequest
  BY DEF RequestInv, WorkerRequestInv

\* The handshake goes on, is done or fails.
LEMMA HandshakeSteady ==
    ASSUME TypeOK, NEW c \in Conns, NEW result, Handshake(c, result)
    PROVE  \A d \in Conns : hs[d] => hs'[d]
  BY DEF Handshake, TypeOK

LEMMA DispatchKeepsRequests ==
    ASSUME IInv, RequestInv, NEW w \in Workers, Dispatch(w)
    PROVE  RequestInv'
  <1> USE DEF Take, FreeUnderLock, workerVars, connVars, pollVars, peerVars
  <1>0. TypeOK /\ MutexesHeld
    BY DEF IInv
  <1>1. CASE AcceptFails(w)
    <2>1. Steady /\ UNCHANGED sock /\ Moves(w, {"waiting"}, {"idle"})
      BY <1>0, <1>1 DEF AcceptFails, Steady, Moves, TypeOK
    <2>2. QED BY <1>0, <2>1, DispatchSteady DEF Moves
  <1>2. ASSUME NEW c \in Conns, AcceptAborts(w, c) \/ AcceptConnection(w, c)
        PROVE  RequestInv'
    <2>1. saved[c] = NoRequest
      BY <1>2 DEF AcceptAborts, AcceptConnection, RequestInv, EstablishedInv
    <2>2. \A d \in Conns : hs[d] => hs'[d]
      BY <1>0, <1>2, HandshakeSteady DEF AcceptAborts, AcceptConnection
    <2>3. Steady /\ Moves(w, {"waiting"}, {"idle"})
      BY <1>0, <1>2, <2>1, <2>2 DEF AcceptAborts, AcceptConnection, Steady, Moves, TypeOK
    <2>4. \A d \in Conns : sock'[d] \in {"none", "backlog"} => sock[d] \in {"none", "backlog"}
      BY <1>0, <1>2 DEF AcceptAborts, AcceptConnection, TypeOK
    <2>5. QED BY <1>0, <2>3, <2>4, DispatchSteady DEF Moves
  <1>3. ASSUME NEW c \in Conns, DispatchHangup(w, c) PROVE RequestInv'
    <2>1. hup[c]
      BY <1>3 DEF DispatchHangup, IInv, ConnInv, InputEventInv
    <2>2. Steady /\ UNCHANGED sock /\ Moves(w, {"waiting"}, {"closetimer"}) /\ cur'[w] = c
      BY <1>0, <1>3, DispatchFrees DEF DispatchHangup, Steady, Moves, TypeOK
    <2>3. QED BY <1>0, <2>1, <2>2, DispatchSteady DEF Moves
  <1>4. ASSUME NEW c \in Conns, DispatchTimeout(w, c) \/ DispatchData(w, c) PROVE RequestInv'
    <2>1. Secure => hs[c]
      BY <1>4 DEF DispatchTimeout, DispatchData
    <2>2. Steady /\ UNCHANGED sock /\ Moves(w, {"waiting"}, {"getreq", "tgetreq"}) /\ cur'[w] = c
      BY <1>0, <1>4, DispatchFrees DEF DispatchTimeout, DispatchData, Steady, Moves, TypeOK
    <2>3. QED BY <1>0, <2>1, <2>2, DispatchSteady DEF Moves
  <1>5. ASSUME NEW c \in Conns, DispatchHandshakeTimeout(w, c) \/ DispatchBadHandshake(w, c)
        PROVE  RequestInv'
    <2>1. saved[c] = NoRequest
      BY <1>5 DEF DispatchHandshakeTimeout, DispatchBadHandshake, RequestInv, EstablishedInv
    <2>2. \A d \in Conns : hs[d] => hs'[d]
      BY <1>0, <1>5, HandshakeSteady DEF DispatchHandshakeTimeout, DispatchBadHandshake
    <2>3. Steady /\ Moves(w, {"waiting"}, {"idle"})
      BY <1>0, <1>5, <2>1, <2>2
         DEF DispatchHandshakeTimeout, DispatchBadHandshake, Steady, Moves, TypeOK
    <2>4. \A d \in Conns : sock'[d] \in {"none", "backlog"} => sock[d] \in {"none", "backlog"}
      BY <1>0, <1>5 DEF DispatchHandshakeTimeout, DispatchBadHandshake, TypeOK
    <2>5. QED BY <1>0, <2>3, <2>4, DispatchSteady DEF Moves
  <1>6. ASSUME NEW c \in Conns, DispatchHandshake(w, c) PROVE RequestInv'
    <2>1. \A d \in Conns : hs[d] => hs'[d]
      BY <1>0, <1>6, HandshakeSteady DEF DispatchHandshake
    <2>2. Steady /\ UNCHANGED sock /\ Moves(w, {"waiting"}, {"idle"})
      BY <1>0, <1>6, <2>1 DEF DispatchHandshake, Steady, Moves, TypeOK
    <2>3. QED BY <1>0, <2>2, DispatchSteady DEF Moves
  <1>7. QED
    BY <1>1, <1>2, <1>3, <1>4, <1>5, <1>6 DEF Dispatch

LEMMA ServiceKeepsRequests ==
    ASSUME TypeOK, RequestInv, NEW w \in Workers,
           Read(w) \/ ProcessFails(w) \/ CloseTimer(w) \/ CloseIo(w)
    PROVE  RequestInv'
  <1> USE DEF workerVars, connVars, pollVars, peerVars
  <1>1. Steady /\ UNCHANGED <<sock, cur>>
    BY DEF Read, ProcessFails, CloseTimer, CloseIo, Steady
  <1>2. \/ Moves(w, {"read"}, {"process"})
        \/ Moves(w, {"read", "process"} \cup Closing, Closing)
    BY DEF Read, ProcessFails, CloseTimer, CloseIo, Moves, TypeOK
  <1>3. QED BY <1>1, <1>2, ServiceSteady
-----------------------------------------------------------------------------
(* The steps that pick, save or free an object. *)

\* Worker w gets the request it continues, or a new one: nobody else has it,
\* because nobody else is with the connection (no one holds its mutex).
LEMMA PickKeepsRequests ==
    ASSUME IInv, RequestInv, NEW w \in Workers, NEW c \in Conns, c = cur[w],
           pc[w] \in {"getreq", "tgetreq"}, sockOwner[c] = NoWorker, PickRequest(w, c),
           Goto(w, IF pc[w] = "getreq" THEN "read" ELSE "closetimer"),
           UNCHANGED <<cur, connVars, peerVars>>
    PROVE  RequestInv'
  <1> USE DEF connVars, peerVars
  <1>0. TypeOK /\ MutexesHeld /\ ConnInv(c)
    BY DEF IInv
  <1>1. sock[c] = "live"
    BY <1>0 DEF ConnInv, AbsentInv, NoHolder
  <1>2. \A v \in Workers : v # w => cur[v] # c
    BY <1>0, WorkersAssumption DEF ConnInv, AloneInv, MutexesHeld
  <1>3. PICK r \in Requests :
          /\ local' = [local EXCEPT ![w] = r] /\ reqs' = reqs \cup {r}
          /\ saved[c] \in {NoRequest, r}
          /\ saved[c] = NoRequest => r \notin reqs
    BY <1>0, <1>1 DEF PickRequest, PickNew, RequestInv, SavedInv, TypeOK
  <1>4. r # NoRequest
    BY RequestsAssumption
  <1>5. \A v \in Workers : v # w => local[v] # r
    BY <1>1, <1>2, <1>3, <1>4 DEF RequestInv, WorkerRequestInv, SavedInv
  <1>6. \A v \in Workers : local'[v] = IF v = w THEN r ELSE local[v]
    BY <1>0, <1>3 DEF TypeOK
  <1>7. pc'[w] \in {"read", "closetimer"} /\ \A v \in Workers : v # w => pc'[v] = pc[v]
    BY <1>0 DEF TypeOK
  <1>8. ASSUME NEW v \in Workers PROVE WorkerRequestInv(v)'
    BY <1>3, <1>4, <1>6, <1>7 DEF RequestInv, WorkerRequestInv
  <1>9. OneOwnerInv'
    BY <1>5, <1>6 DEF RequestInv, OneOwnerInv
  <1>10. ASSUME NEW d \in Conns PROVE EstablishedInv(d)'
    BY <1>7 DEF RequestInv, EstablishedInv
  <1>11. ASSUME NEW d \in Conns PROVE SavedInv(d)'
    <2>1. d # c /\ sock[d] = "live" => saved[d] # r
      BY <1>1, <1>3, <1>4 DEF RequestInv, SavedInv
    <2>2. QED
      BY <1>3, <1>6, <2>1 DEF RequestInv, SavedInv
  <1>12. ASSUME NEW d \in Conns PROVE HandedInv(d)'
    BY <1>3, <1>6, <1>7 DEF RequestInv, HandedInv
  <1>13. ASSUME NEW q \in reqs' PROVE HasOwner(q)'
    BY <1>0, <1>3, <1>6, RequestsAssumption DEF RequestInv, HasOwner, LeakedByHangup, WorkerRequestInv, TypeOK
  <1>14. QED
    BY <1>8, <1>9, <1>10, <1>11, <1>12, <1>13 DEF RequestInv

LEMMA GetKeepsRequests ==
    ASSUME ~TimersRaceResets, IInv, RequestInv, NEW w \in Workers, NEW c \in Conns, c = cur[w],
           GetRequest(w) \/ TimeoutGetRequest(w)
    PROVE  RequestInv'
  <1>0. TypeOK /\ ConnInv(c)
    BY DEF IInv
  <1>1. CASE GetRequest(w) /\ CanPickRequest(c)
    BY <1>1, PickKeepsRequests DEF GetRequest
  <1>2. CASE TimeoutGetRequest(w) /\ CanPickRequest(c)
    BY <1>2, PickKeepsRequests DEF TimeoutGetRequest
  <1>3. CASE GetRequest(w) /\ ~CanPickRequest(c)
    <2>1. /\ pc[w] = "getreq" /\ pc' = [pc EXCEPT ![w] = "closetimer"]
          /\ UNCHANGED <<local, reqs, cur, connVars, peerVars>>
          /\ saved[c] = NoRequest
      BY <1>3 DEF GetRequest, CanPickRequest
    <2>2. local[w] = NoRequest
      BY <2>1 DEF RequestInv, WorkerRequestInv
    <2>3. Steady /\ Moves(w, {"getreq"}, {"closetimer"})
      BY <1>0, <2>1 DEF Steady, Moves, connVars, peerVars, TypeOK
    <2>4. ASSUME NEW v \in Workers PROVE WorkerRequestInv(v)'
      BY <2>2, <2>3 DEF RequestInv, WorkerRequestInv, Steady, Moves
    <2>5. ASSUME NEW d \in Conns PROVE EstablishedInv(d)'
      BY <2>1, <2>3 DEF RequestInv, EstablishedInv, Steady, Moves, connVars
    <2>6. ASSUME NEW d \in Conns PROVE HandedInv(d)'
      BY <2>1, <2>3 DEF RequestInv, HandedInv, Steady, Moves, connVars, peerVars
    <2>7. QED BY <1>0, <2>3, <2>4, <2>5, <2>6, SteadyKeeps DEF Placed
  <1>4. CASE TimeoutGetRequest(w) /\ ~CanPickRequest(c)
    BY <1>0, <1>4 DEF TimeoutGetRequest, CanPickRequest, ConnInv, TimeoutInv
  <1>5. QED BY <1>1, <1>2, <1>3, <1>4

\* SetRequestHandle saves the request in hand, or forgets it.
LEMMA SaveKeepsRequests ==
    ASSUME IInv, RequestInv, NEW w \in Workers, NEW c \in Conns, c = cur[w],
           pc[w] = "process", NEW request \in {NoRequest, local[w]},
           saved' = [saved EXCEPT ![c] = request],
           \/ pc' = [pc EXCEPT ![w] = "modify"]
           \/ pc' = [pc EXCEPT ![w] = "closetimer"],
           UNCHANGED <<cur, local, reqs, sock, hs, hup>>
    PROVE  RequestInv'
  <1>0. TypeOK /\ MutexesHeld /\ ConnInv(c)
    BY DEF IInv
  <1>1. sock[c] = "live"
    BY <1>0 DEF ConnInv, AbsentInv, NoHolder
  <1>2. Secure => hs[c]
    BY DEF RequestInv, EstablishedInv
  <1>3. local[w] \in reqs /\ local[w] # NoRequest /\ saved[c] \in {NoRequest, local[w]}
    BY DEF RequestInv, WorkerRequestInv, HandedInv
  <1>4. \A v \in Workers : v # w => cur[v] # c
    BY <1>0 DEF ConnInv, AloneInv
  <1>5. \A d \in Conns : saved'[d] = IF d = c THEN request ELSE saved[d]
    BY <1>0 DEF TypeOK
  <1>6. pc'[w] \in {"modify", "closetimer"} /\ \A v \in Workers : v # w => pc'[v] = pc[v]
    BY <1>0 DEF TypeOK
  <1>7. ASSUME NEW v \in Workers PROVE WorkerRequestInv(v)'
    BY <1>3, <1>6 DEF RequestInv, WorkerRequestInv
  <1>8. OneOwnerInv'
    BY DEF RequestInv, OneOwnerInv
  <1>9. ASSUME NEW d \in Conns PROVE EstablishedInv(d)'
    BY <1>1, <1>2, <1>4, <1>5, <1>6 DEF RequestInv, EstablishedInv
  <1>10. ASSUME NEW d \in Conns PROVE SavedInv(d)'
    <2>1. d # c /\ sock[d] = "live" => saved[d] # local[w]
      BY <1>3 DEF RequestInv, SavedInv
    <2>2. \A v \in Workers : local[v] = local[w] => v = w
      BY <1>3 DEF RequestInv, OneOwnerInv
    <2>3. QED
      BY <1>3, <1>5, <2>1, <2>2 DEF RequestInv, SavedInv
  <1>11. ASSUME NEW d \in Conns PROVE HandedInv(d)'
    BY <1>4, <1>5, <1>6 DEF RequestInv, HandedInv
  <1>12. ASSUME NEW q \in reqs' PROVE HasOwner(q)'
    <2>1. q # NoRequest /\ HasOwner(q)
      BY <1>0, RequestsAssumption DEF RequestInv, TypeOK
    <2>2. QED
      BY <1>1, <1>3, <1>5, <2>1 DEF HasOwner, LeakedByHangup
  <1>13. QED
    BY <1>7, <1>8, <1>9, <1>10, <1>11, <1>12 DEF RequestInv

\* SetRequestHandle leaves a saved request in the socket and frees another one.
LEMMA ModifyKeepsRequests ==
    ASSUME IInv, RequestInv, NEW w \in Workers, NEW c \in Conns, c = cur[w], Modify(w)
    PROVE  RequestInv'
  <1>0. TypeOK /\ MutexesHeld /\ ConnInv(c)
    BY DEF IInv
  <1>1. sock[c] = "live"
    BY <1>0 DEF ConnInv, AbsentInv, NoHolder
  <1>2. /\ pc[w] = "modify" /\ UNCHANGED <<reqs, sock, saved, hs, hup>>
        /\ cur' = [cur EXCEPT ![w] = NoConn]
        /\ \/ /\ saved[c] = local[w] /\ local' = [local EXCEPT ![w] = NoRequest]
              /\ pc' = [pc EXCEPT ![w] = "idle"]
           \/ /\ saved[c] # local[w] /\ local' = local
              /\ pc' = [pc EXCEPT ![w] = "freereq"]
    BY DEF Modify, peerVars
  <1>3. local[w] \in reqs /\ local[w] # NoRequest /\ saved[c] \in {NoRequest, local[w]}
    BY <1>2 DEF RequestInv, WorkerRequestInv, HandedInv
  <1>4. /\ cur'[w] = NoConn
        /\ \/ pc'[w] = "idle" /\ local'[w] = NoRequest /\ saved[c] = local[w]
           \/ pc'[w] = "freereq" /\ local'[w] = local[w] /\ saved[c] = NoRequest
        /\ \A v \in Workers : v # w => pc'[v] = pc[v] /\ cur'[v] = cur[v] /\ local'[v] = local[v]
    BY <1>0, <1>2, <1>3 DEF TypeOK
  <1>5. ASSUME NEW v \in Workers PROVE WorkerRequestInv(v)'
    BY <1>2, <1>3, <1>4 DEF RequestInv, WorkerRequestInv
  <1>6. OneOwnerInv'
    BY <1>4 DEF RequestInv, OneOwnerInv
  <1>7. ASSUME NEW d \in Conns PROVE EstablishedInv(d)'
    BY <1>2, <1>4, ConnsAssumption DEF RequestInv, EstablishedInv
  <1>8. ASSUME NEW d \in Conns PROVE SavedInv(d)'
    BY <1>2, <1>3, <1>4 DEF RequestInv, SavedInv
  <1>9. ASSUME NEW d \in Conns PROVE HandedInv(d)'
    BY <1>2, <1>4, ConnsAssumption DEF RequestInv, HandedInv
  <1>10. ASSUME NEW q \in reqs' PROVE HasOwner(q)'
    BY <1>1, <1>2, <1>4 DEF RequestInv, HasOwner, LeakedByHangup
  <1>11. QED
    BY <1>5, <1>6, <1>7, <1>8, <1>9, <1>10 DEF RequestInv

\* ReleaseSocket: what is saved is the worker's own, or leaks after a hangup.
LEMMA ReleaseKeepsRequests ==
    ASSUME IInv, RequestInv, NEW w \in Workers, NEW c \in Conns, c = cur[w], Release(w)
    PROVE  RequestInv'
  <1>0. TypeOK
    BY DEF IInv
  <1>1. /\ pc[w] = "release" /\ UNCHANGED <<local, reqs, saved, hs, hup>>
        /\ sock' = [sock EXCEPT ![c] = "freed"]
        /\ cur' = [cur EXCEPT ![w] = NoConn]
        /\ pc' = [pc EXCEPT ![w] = IF local[w] = NoRequest THEN "idle" ELSE "freereq"]
    BY DEF Release, peerVars
  <1>2. saved[c] \in {NoRequest, local[w]} \/ hup[c]
    BY <1>1 DEF RequestInv, HandedInv
  <1>3. /\ \A d \in Conns : sock'[d] = IF d = c THEN "freed" ELSE sock[d]
        /\ cur'[w] = NoConn /\ pc'[w] = IF local[w] = NoRequest THEN "idle" ELSE "freereq"
        /\ \A v \in Workers : v # w => pc'[v] = pc[v] /\ cur'[v] = cur[v]
    BY <1>0, <1>1 DEF TypeOK
  <1>4. ASSUME NEW v \in Workers PROVE WorkerRequestInv(v)'
    BY <1>1, <1>3 DEF RequestInv, WorkerRequestInv
  <1>5. OneOwnerInv'
    BY <1>1 DEF RequestInv, OneOwnerInv
  <1>6. ASSUME NEW d \in Conns PROVE EstablishedInv(d)'
    BY <1>1, <1>3, ConnsAssumption DEF RequestInv, EstablishedInv
  <1>7. ASSUME NEW d \in Conns PROVE SavedInv(d)'
    BY <1>1, <1>3 DEF RequestInv, SavedInv
  <1>8. ASSUME NEW d \in Conns PROVE HandedInv(d)'
    BY <1>1, <1>3, ConnsAssumption DEF RequestInv, HandedInv
  <1>9. ASSUME NEW q \in reqs' PROVE HasOwner(q)'
    <2>1. q # NoRequest /\ HasOwner(q)
      BY <1>0, <1>1, RequestsAssumption DEF RequestInv, TypeOK
    <2>2. QED
      BY <1>1, <1>2, <1>3, <2>1 DEF HasOwner, LeakedByHangup
  <1>10. QED
    BY <1>4, <1>5, <1>6, <1>7, <1>8, <1>9 DEF RequestInv

LEMMA FreeKeepsRequests ==
    ASSUME IInv, RequestInv, NEW w \in Workers, FreeRequestHandle(w)
    PROVE  RequestInv'
  <1>0. TypeOK /\ MutexesHeld
    BY DEF IInv
  <1>1. /\ pc[w] = "freereq" /\ UNCHANGED <<cur, saved, sock, hs, hup>>
        /\ reqs' = reqs \ {local[w]}
        /\ local' = [local EXCEPT ![w] = NoRequest]
        /\ pc' = [pc EXCEPT ![w] = "idle"]
    BY DEF FreeRequestHandle, connVars, peerVars
  <1>2. local[w] # NoRequest /\ \A c \in Conns : cur[w] # c
    BY <1>0, <1>1 DEF RequestInv, WorkerRequestInv, MutexesHeld
  <1>3. \A c \in Conns : sock[c] = "live" => saved[c] # local[w]
    BY <1>2 DEF RequestInv, SavedInv
  <1>4. /\ pc'[w] = "idle" /\ local'[w] = NoRequest
        /\ \A v \in Workers : v # w => pc'[v] = pc[v] /\ local'[v] = local[v]
    BY <1>0, <1>1 DEF TypeOK
  <1>5. ASSUME NEW v \in Workers PROVE WorkerRequestInv(v)'
    BY <1>1, <1>2, <1>4 DEF RequestInv, WorkerRequestInv, OneOwnerInv
  <1>6. OneOwnerInv'
    BY <1>4 DEF RequestInv, OneOwnerInv
  <1>7. ASSUME NEW c \in Conns PROVE EstablishedInv(c)'
    BY <1>1, <1>2, <1>4 DEF RequestInv, EstablishedInv
  <1>8. ASSUME NEW c \in Conns PROVE SavedInv(c)'
    BY <1>1, <1>3, <1>4 DEF RequestInv, SavedInv
  <1>9. ASSUME NEW c \in Conns PROVE HandedInv(c)'
    BY <1>1, <1>2, <1>4 DEF RequestInv, HandedInv
  <1>10. ASSUME NEW q \in reqs' PROVE HasOwner(q)'
    BY <1>1, <1>4 DEF RequestInv, HasOwner, LeakedByHangup
  <1>11. QED
    BY <1>5, <1>6, <1>7, <1>8, <1>9, <1>10 DEF RequestInv
-----------------------------------------------------------------------------
(* The invariant. *)

LEMMA InitRequests == Init => RequestInv
  BY DEF Init, RequestInv, WorkerRequestInv, OneOwnerInv, EstablishedInv, SavedInv,
         HandedInv, HasOwner

LEMMA WorkerKeepsRequests ==
    ASSUME ~TimersRaceResets, IInv, RequestInv, NEW w \in Workers, Serve(w) \/ Disconnect(w)
    PROVE  RequestInv'
  <1>0. TypeOK
    BY DEF IInv
  <1>1. CASE FreeRequestHandle(w)
    BY <1>1, FreeKeepsRequests
  <1>2. CASE Read(w) \/ ProcessFails(w) \/ CloseTimer(w) \/ CloseIo(w)
    BY <1>0, <1>2, ServiceKeepsRequests
  <1>3. CASE \/ GetRequest(w) \/ TimeoutGetRequest(w) \/ Modify(w) \/ Release(w)
            \/ AwaitMoreInput(w) \/ KeepAlive(w) \/ Finish(w)
    <2>1. PICK c \in Conns : c = cur[w]
      BY <1>3 DEF IInv, MutexesHeld, GetRequest, AwaitMoreInput, KeepAlive, Finish, Modify,
         TimeoutGetRequest, Release
    <2>2. CASE GetRequest(w) \/ TimeoutGetRequest(w) \/ Modify(w) \/ Release(w)
      BY <2>1, <2>2, GetKeepsRequests, ModifyKeepsRequests, ReleaseKeepsRequests
    <2>3. CASE AwaitMoreInput(w)
      BY <2>1, <2>3, SaveKeepsRequests DEF AwaitMoreInput, Rearm, peerVars
    <2>4. CASE KeepAlive(w)
      BY <2>1, <2>4, SaveKeepsRequests DEF KeepAlive, Rearm, peerVars
    <2>5. CASE Finish(w)
      BY <2>1, <2>5, SaveKeepsRequests DEF Finish, peerVars
    <2>6. QED BY <1>3, <2>2, <2>3, <2>4, <2>5
  <1>4. QED BY <1>1, <1>2, <1>3 DEF Serve, Disconnect

\* Only three steps write pSocket->pRequest.
LEMMA SavedByWorker ==
    ASSUME Next, saved' # saved
    PROVE  \E w \in Workers : AwaitMoreInput(w) \/ KeepAlive(w) \/ Finish(w)
  <1> USE DEF connVars
  <1>1. ASSUME NEW c \in Conns PROVE ~(Peer(c) \/ TimerFire(c))
    BY DEF Peer, Connect, Send, Reset, TimerFire
  <1>2. ASSUME NEW w \in Workers PROVE ~(LockQueue(w) \/ Poll(w))
    BY DEF LockQueue, Poll
  <1>3. ASSUME NEW w \in Workers PROVE ~Dispatch(w)
    BY DEF Dispatch, AcceptFails, AcceptAborts, AcceptConnection, DispatchHangup,
       DispatchTimeout, DispatchHandshakeTimeout, DispatchData, DispatchHandshake,
       DispatchBadHandshake
  <1>4. ASSUME NEW w \in Workers PROVE ~Disconnect(w)
    BY DEF Disconnect, TimeoutGetRequest, CloseTimer, CloseIo, Release, FreeRequestHandle
  <1>5. ASSUME NEW w \in Workers PROVE ~(GetRequest(w) \/ Read(w) \/ ProcessFails(w) \/ Modify(w))
    BY DEF GetRequest, Read, ProcessFails, Modify
  <1>6. QED
    BY <1>1, <1>2, <1>3, <1>4, <1>5 DEF Next, Serve

\* Whatever the peers do and however requests are cut, timed out and aborted,
\* the objects that are allocated have one owner each: a worker, or the live
\* connection they are saved in.
THEOREM RequestsHaveOwners ==
    ASSUME ~TimersRaceResets
    PROVE  Spec => []RequestsInOrder
  <1>1. Init => RequestsInOrder
    BY InitInv, InitRequests DEF RequestsInOrder
  <1>2. RequestsInOrder /\ [Next]_vars => RequestsInOrder'
    <2>1. ASSUME RequestsInOrder, Next PROVE RequestsInOrder'
      <3>1. IInv /\ RequestInv /\ TypeOK
        BY <2>1 DEF RequestsInOrder, IInv
      <3>2. IInv'
        BY <2>1, <3>1, NextKeeps
      <3>3. RequestInv'
        BY <2>1, <3>1, PeerKeepsRequests, QueueKeepsRequests, DispatchKeepsRequests,
           WorkerKeepsRequests DEF Next
      <3>4. QED BY <3>2, <3>3 DEF RequestsInOrder
    <2>2. ASSUME RequestsInOrder, UNCHANGED vars PROVE RequestsInOrder'
      <3>1. IInv /\ RequestInv /\ TypeOK
        BY <2>2 DEF RequestsInOrder, IInv
      <3>2. IInv'
        BY <2>2, <3>1, StutterKeeps
      <3>3. RequestInv'
        BY <2>2, <3>1, PeersSteady
           DEF Steady, vars, workerVars, connVars, pollVars, peerVars
      <3>4. QED BY <3>2, <3>3 DEF RequestsInOrder
    <2>3. QED BY <2>1, <2>2
  <1>3. QED BY <1>1, <1>2, PTL DEF Spec

\* No request object leaks, but for the known case of a hangup, and none is in
\* two hands or used after it was freed (SetRequestHandle, FreeRequestHandle).
THEOREM RequestsAreAccounted ==
    ASSUME ~TimersRaceResets
    PROVE  Spec => []RequestsAccounted
  <1>1. RequestsInOrder => RequestsAccounted
    <2> SUFFICES ASSUME RequestsInOrder PROVE RequestsAccounted
      OBVIOUS
    <2> USE DEF RequestsInOrder, RequestInv
    <2>1. \A r \in reqs :
            \/ \E w \in Workers : local[w] = r
            \/ \E c \in Conns : sock[c] = "live" /\ saved[c] = r
            \/ LeakedByHangup(r)
      BY DEF HasOwner
    <2>2. \A w \in Workers : local[w] \in reqs \cup {NoRequest}
      BY DEF WorkerRequestInv
    <2>3. \A v, w \in Workers : v # w /\ local[v] # NoRequest => local[v] # local[w]
      BY DEF OneOwnerInv
    <2>4. \A c \in Conns : sock[c] = "live" => saved[c] \in reqs \cup {NoRequest}
      BY DEF SavedInv
    <2>5. \A c, d \in Conns : c # d /\ sock[c] = "live" /\ sock[d] = "live"
                             /\ saved[c] # NoRequest => saved[c] # saved[d]
      BY DEF SavedInv
    <2>6. QED BY <2>1, <2>2, <2>3, <2>4, <2>5 DEF RequestsAccounted
  <1>2. QED BY <1>1, RequestsHaveOwners, PTL

\* The first part of a request survives until the worker that reads the rest
\* has it in hand: only SetRequestHandle of that worker replaces or clears it.
THEOREM PartialRequestsAreKept ==
    ASSUME ~TimersRaceResets
    PROVE  Spec => PartialRequestIsKept
  <1> DEFINE Kept == \A c \in Conns : saved[c] # NoRequest /\ saved'[c] # saved[c] =>
                        \E w \in Workers : cur[w] = c /\ local[w] = saved[c]
                                               /\ pc[w] = "process"
  <1>1. RequestsInOrder /\ [Next]_vars => Kept
    <2> SUFFICES ASSUME RequestsInOrder, [Next]_vars, NEW c \in Conns,
                        saved[c] # NoRequest, saved'[c] # saved[c]
                 PROVE  \E w \in Workers : cur[w] = c /\ local[w] = saved[c]
                                               /\ pc[w] = "process"
      OBVIOUS
    <2>1. PICK w \in Workers : AwaitMoreInput(w) \/ KeepAlive(w) \/ Finish(w)
      BY SavedByWorker DEF vars, connVars
    <2>2. pc[w] = "process" /\ cur[w] = c
      BY <2>1 DEF AwaitMoreInput, KeepAlive, Finish, Rearm, RequestsInOrder, IInv, TypeOK
    <2>3. local[w] = saved[c]
      BY <2>2 DEF RequestsInOrder, RequestInv, HandedInv
    <2>4. QED BY <2>2, <2>3
  <1>2. QED BY <1>1, RequestsHaveOwners, PTL DEF Spec, PartialRequestIsKept
=============================================================================
