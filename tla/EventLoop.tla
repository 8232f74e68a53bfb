------------------------------ MODULE EventLoop ------------------------------
(***************************************************************************)
(* The serving phase of the POSIX event loop: worker threads share one     *)
(* epoll queue behind a mutex, fetch a batch of events and dispatch one    *)
(* event per turn; each connection has an IO socket and a one-shot timer   *)
(* socket, both watched one-shot.  transport/posix/socket.c and            *)
(* common/sockinterface.c.  Stopping the server is modelled in Lifecycle.  *)
(***************************************************************************)
EXTENDS Naturals, FiniteSets

CONSTANTS
    Workers,            \* worker threads
    Conns,              \* connections clients may open, each at most once
    Requests,           \* REST_REQUEST objects the allocator can hand out
    NoWorker, NoConn, NoRequest,
    QueueSize,          \* dwSize: the most events one epoll_wait returns
    Secure,             \* TLS instance (pSSLInfo->isSecure)
    TimersRaceResets    \* may a timeout and a peer's reset overlap?

ASSUME WorkersAssumption == Workers # {} /\ NoWorker \notin Workers
ASSUME ConnsAssumption == NoConn \notin Conns
ASSUME RequestsAssumption == NoRequest \notin Requests
ASSUME QueueAssumption == QueueSize \in Nat \ {0}
ASSUME FlagsAssumption == Secure \in BOOLEAN /\ TimersRaceResets \in BOOLEAN

VARIABLES
    qOwner,      \* holder of pQueue->pMutex
    batch,       \* events of pEventArray between iReady and nReady
    pc,          \* where each worker is
    cur,         \* pSocket a worker works on
    local,       \* pRequest a worker works on
    reqs,        \* allocated request objects
    sock,        \* life of the connection's VM_SOCKET
    sockOwner,   \* holder of pSocket->pMutex across steps
    saved,       \* pSocket->pRequest
    hs,          \* bSSLHandShakeCompleted
    expired,     \* bTimerExpired
    ioWatch,     \* epoll interest in the IO socket
    timerWatch,  \* epoll interest in the timer socket
    timer,       \* the timerfd
    unread,      \* what the kernel holds for the connection
    hup          \* the peer has reset the connection

workerVars == <<pc, cur, local, reqs>>
connVars == <<sock, sockOwner, saved, hs, expired>>
pollVars == <<ioWatch, timerWatch, timer>>
peerVars == <<unread, hup>>
vars == <<qOwner, batch, workerVars, connVars, pollVars, peerVars>>

Kind == {"listen", "data", "hup", "timer"}
Watch == {"none", "armed", "disabled"}

\* Program points of a worker that holds a connection.
Serving == {"getreq", "read", "process"}
Closing == {"closetimer", "closeio", "release"}
Holding == Serving \cup Closing \cup {"modify", "tgetreq"}

TypeOK ==
    /\ qOwner \in Workers \cup {NoWorker}
    /\ batch \subseteq Kind \X (Conns \cup {NoConn})
    /\ pc \in [Workers -> Holding \cup {"idle", "waiting", "freereq"}]
    /\ cur \in [Workers -> Conns \cup {NoConn}]
    /\ local \in [Workers -> Requests \cup {NoRequest}]
    /\ reqs \subseteq Requests
    /\ sock \in [Conns -> {"none", "backlog", "live", "freed"}]
    /\ sockOwner \in [Conns -> Workers \cup {NoWorker}]
    /\ saved \in [Conns -> Requests \cup {NoRequest}]
    /\ hs \in [Conns -> BOOLEAN]
    /\ expired \in [Conns -> BOOLEAN]
    /\ ioWatch \in [Conns -> Watch]
    /\ timerWatch \in [Conns -> Watch]
    /\ timer \in [Conns -> {"off", "armed", "expired"}]
    /\ unread \in [Conns -> {"nothing", "bytes", "eof"}]
    /\ hup \in [Conns -> BOOLEAN]

Init ==
    /\ qOwner = NoWorker
    /\ batch = {}
    /\ pc = [w \in Workers |-> "idle"]
    /\ cur = [w \in Workers |-> NoConn]
    /\ local = [w \in Workers |-> NoRequest]
    /\ reqs = {}
    /\ sock = [c \in Conns |-> "none"]
    /\ sockOwner = [c \in Conns |-> NoWorker]
    /\ saved = [c \in Conns |-> NoRequest]
    /\ hs = [c \in Conns |-> FALSE]
    /\ expired = [c \in Conns |-> FALSE]
    /\ ioWatch = [c \in Conns |-> "none"]
    /\ timerWatch = [c \in Conns |-> "none"]
    /\ timer = [c \in Conns |-> "off"]
    /\ unread = [c \in Conns |-> "nothing"]
    /\ hup = [c \in Conns |-> FALSE]

-----------------------------------------------------------------------------
(* The peers and the clock. *)

Connect(c) ==
    /\ sock[c] = "none"
    /\ sock' = [sock EXCEPT ![c] = "backlog"]
    /\ UNCHANGED <<qOwner, batch, workerVars, sockOwner, saved, hs, expired,
                   pollVars, peerVars>>

\* Bytes arrive, or the peer closes its sending side.
Send(c) ==
    /\ sock[c] \in {"backlog", "live"}
    /\ unread[c] # "eof" /\ ~hup[c]
    /\ \E u \in {"bytes", "eof"} \ {unread[c]}: unread' = [unread EXCEPT ![c] = u]
    /\ UNCHANGED <<qOwner, batch, workerVars, connVars, pollVars, hup>>

\* A reset: EPOLLHUP | EPOLLERR from now on, and ENOTCONN from getpeername.
Reset(c) ==
    /\ sock[c] \in {"backlog", "live"}
    /\ ~hup[c]
    /\ TimersRaceResets \/ timer[c] # "expired"
    /\ hup' = [hup EXCEPT ![c] = TRUE]
    /\ UNCHANGED <<qOwner, batch, workerVars, connVars, pollVars, unread>>

TimerFire(c) ==
    /\ timer[c] = "armed"
    /\ TimersRaceResets \/ ~hup[c]
    /\ timer' = [timer EXCEPT ![c] = "expired"]
    /\ UNCHANGED <<qOwner, batch, workerVars, connVars, ioWatch, timerWatch,
                   peerVars>>

-----------------------------------------------------------------------------
(* WaitForEvent: the queue mutex, epoll_wait and the fetched batch. *)

LockQueue(w) ==
    /\ pc[w] = "idle" /\ qOwner = NoWorker
    /\ qOwner' = w
    /\ pc' = [pc EXCEPT ![w] = "waiting"]
    /\ UNCHANGED <<batch, cur, local, reqs, connVars, pollVars, peerVars>>

IoReady(c) == ioWatch[c] = "armed" /\ (hup[c] \/ unread[c] # "nothing")
TimerReady(c) == timerWatch[c] = "armed" /\ timer[c] = "expired"

ReadyEvents ==
    {<<"listen", NoConn>> : c \in {d \in Conns : sock[d] = "backlog"}}
    \cup {<<"hup", c>> : c \in {d \in Conns : IoReady(d) /\ hup[d]}}
    \cup {<<"data", c>> : c \in {d \in Conns : IoReady(d) /\ ~hup[d]}}
    \cup {<<"timer", c>> : c \in {d \in Conns : TimerReady(d)}}

\* EPOLLONESHOT: what epoll_wait returns is watched no more.  (Here and below,
\* the definitions named first are faulty variants that the runs detect.)
StillWatched(watch, taken) == watch
OneShot(watch, taken) ==
    [c \in Conns |-> IF c \in taken THEN "disabled" ELSE watch[c]]

\* PreProcessTimeouts drops the IO events of the connections that are late.
DropNothing(fetched, late) == fetched
DropTimeouts(fetched, late) == fetched \ ({"hup", "data", "timer"} \X late)
DropExpired(fetched, late) == fetched \ ({"hup", "data"} \X late)

\* epoll_wait takes up to QueueSize of the ready events; PreProcessTimeouts
\* follows at once and marks the IO socket of every expired timer.
Poll(w) ==
    /\ pc[w] = "waiting" /\ batch = {}
    /\ \E fetched \in SUBSET ReadyEvents :
         LET late == {c \in Conns : <<"timer", c>> \in fetched}
             io == {c \in Conns : <<"hup", c>> \in fetched
                                  \/ <<"data", c>> \in fetched}
         IN
         /\ fetched # {}
         /\ fetched = ReadyEvents \/ Cardinality(fetched) = QueueSize
         /\ Cardinality(fetched) <= QueueSize
         /\ batch' = DropExpired(fetched, late)
         /\ expired' = [c \in Conns |-> expired[c] \/ c \in late]
         /\ ioWatch' = OneShot(ioWatch, io)
         /\ timerWatch' = OneShot(timerWatch, late)
    /\ UNCHANGED <<qOwner, workerVars, sock, sockOwner, saved, hs, timer,
                   peerVars>>

\* The dispatch of one fetched event ends WaitForEvent's critical section.
Take(w, k, c) ==
    /\ pc[w] = "waiting"
    /\ <<k, c>> \in batch
    /\ batch' = batch \ {<<k, c>>}
    /\ qOwner' = NoWorker

\* ReleaseSocket right after CloseSocket, both under the queue mutex.
FreeUnderLock(c) ==
    /\ sockOwner[c] = NoWorker
    /\ sock' = [sock EXCEPT ![c] = "freed"]
    /\ ioWatch' = [ioWatch EXCEPT ![c] = "none"]
    /\ timerWatch' = [timerWatch EXCEPT ![c] = "none"]
    /\ timer' = [timer EXCEPT ![c] = "off"]

\* ReArmTimer: timerfd_settime starts the timer afresh, or stops it.
RestartTimer(c, setting) == timer' = [timer EXCEPT ![c] = "armed"]
StopTimer(c, setting) == timer' = [timer EXCEPT ![c] = "off"]
ReArmTimer(c, setting) == timer' = [timer EXCEPT ![c] = setting]

\* SSL_accept: needs the peer's bytes to complete or to fail, consumes them.
Handshake(c, result) ==
    \/ /\ result = "done" /\ unread[c] = "bytes" /\ ~hup[c]
       /\ hs' = [hs EXCEPT ![c] = TRUE]
       /\ \E u \in {"nothing", "bytes"}: unread' = [unread EXCEPT ![c] = u]
    \/ /\ result = "want" /\ unread[c] # "eof" /\ ~hup[c]
       /\ unread' = [unread EXCEPT ![c] = "nothing"]
       /\ UNCHANGED hs
    \/ /\ result = "fail" /\ (unread[c] # "nothing" \/ hup[c])
       /\ UNCHANGED <<hs, unread>>

\* accept() itself fails; the connection stays in the backlog.
AcceptFails(w) ==
    /\ Take(w, "listen", NoConn)
    /\ pc' = [pc EXCEPT ![w] = "idle"]
    /\ UNCHANGED <<cur, local, reqs, connVars, pollVars, peerVars>>

\* A connection is accepted, but a later call of the branch fails.
AcceptAborts(w, c) ==
    /\ Take(w, "listen", NoConn)
    /\ sock[c] = "backlog"
    /\ FreeUnderLock(c)
    /\ pc' = [pc EXCEPT ![w] = "idle"]
    /\ UNCHANGED <<cur, local, reqs, sockOwner, saved, hs, expired, peerVars>>

AcceptConnection(w, c) ==
    /\ Take(w, "listen", NoConn)
    /\ sock[c] = "backlog"
    /\ IF Secure THEN Handshake(c, "done") \/ Handshake(c, "want")
                 ELSE UNCHANGED <<hs, unread>>
    /\ sock' = [sock EXCEPT ![c] = "live"]
    /\ ioWatch' = [ioWatch EXCEPT ![c] = "armed"]
    /\ timerWatch' = [timerWatch EXCEPT ![c] = "armed"]
    /\ ReArmTimer(c, "armed")
    /\ pc' = [pc EXCEPT ![w] = "idle"]
    /\ UNCHANGED <<cur, local, reqs, sockOwner, saved, expired, hup>>

\* EPOLLERR | EPOLLHUP: handed to the worker as CONNECTION_CLOSED, and
\* HandleSocketEvent goes straight to DisconnectClient.  The timer runs on.
IgnoreHangup(w, c) ==
    /\ Take(w, "hup", c)
    /\ pc' = [pc EXCEPT ![w] = "idle"]
    /\ UNCHANGED <<cur, local, reqs, connVars, pollVars, peerVars>>

DispatchHangup(w, c) ==
    /\ Take(w, "hup", c)
    /\ pc' = [pc EXCEPT ![w] = "closetimer"]
    /\ cur' = [cur EXCEPT ![w] = c]
    /\ UNCHANGED <<local, reqs, connVars, pollVars, peerVars>>

\* A timeout after the handshake, or on a plain connection: stop watching the
\* IO socket and go on to OnConnectionTimeout.
DispatchTimeout(w, c) ==
    /\ Take(w, "timer", c)
    /\ Secure => hs[c]
    /\ ioWatch' = [ioWatch EXCEPT ![c] = "none"]
    /\ pc' = [pc EXCEPT ![w] = "tgetreq"]
    /\ cur' = [cur EXCEPT ![w] = c]
    /\ UNCHANGED <<local, reqs, connVars, timerWatch, timer, peerVars>>

\* A timeout during the handshake closes the connection on the spot.
DispatchHandshakeTimeout(w, c) ==
    /\ Take(w, "timer", c)
    /\ Secure /\ ~hs[c]
    /\ FreeUnderLock(c)
    /\ pc' = [pc EXCEPT ![w] = "idle"]
    /\ UNCHANGED <<cur, local, reqs, sockOwner, saved, hs, expired, peerVars>>

\* Input on an established connection: the timer is stopped while it is served.
DispatchData(w, c) ==
    /\ Take(w, "data", c)
    /\ Secure => hs[c]
    /\ ReArmTimer(c, "off")
    /\ pc' = [pc EXCEPT ![w] = "getreq"]
    /\ cur' = [cur EXCEPT ![w] = c]
    /\ UNCHANGED <<local, reqs, connVars, ioWatch, timerWatch, peerVars>>

\* Input that belongs to the handshake: ReArmTimer and EPOLL_CTL_MOD again.
DispatchHandshake(w, c) ==
    /\ Take(w, "data", c)
    /\ Secure /\ ~hs[c]
    /\ Handshake(c, "done") \/ Handshake(c, "want")
    /\ ReArmTimer(c, "armed")
    /\ ioWatch' = [ioWatch EXCEPT ![c] = "armed"]
    /\ pc' = [pc EXCEPT ![w] = "idle"]
    /\ UNCHANGED <<cur, local, reqs, sock, sockOwner, saved, expired,
                   timerWatch, hup>>

DispatchBadHandshake(w, c) ==
    /\ Take(w, "data", c)
    /\ Secure /\ ~hs[c]
    /\ Handshake(c, "fail")
    /\ FreeUnderLock(c)
    /\ pc' = [pc EXCEPT ![w] = "idle"]
    /\ UNCHANGED <<cur, local, reqs, sockOwner, saved, expired, hup>>

-----------------------------------------------------------------------------
(* TcpReceiveNewData, outside the queue mutex. *)

Goto(w, label) == pc' = [pc EXCEPT ![w] = label]

\* The request a worker continues: the saved one, or a new one.
PickSaved(w, c) ==
    /\ local' = [local EXCEPT ![w] = saved[c]]
    /\ reqs' = reqs \cup {saved[c]}

PickNew(w, c) ==
    \E r \in Requests \ reqs :
        /\ local' = [local EXCEPT ![w] = r]
        /\ reqs' = reqs \cup {r}

PickRequest(w, c) ==
    IF saved[c] # NoRequest
    THEN /\ local' = [local EXCEPT ![w] = saved[c]]
         /\ UNCHANGED reqs
    ELSE PickNew(w, c)

\* GetPeerInfo fails once the peer has reset the connection, so a new request
\* object cannot be made then.
CanPickRequest(c) == saved[c] # NoRequest \/ ~hup[c]

GetRequest(w) ==
    LET c == cur[w] IN
    /\ pc[w] = "getreq"
    /\ sockOwner[c] = NoWorker
    /\ IF CanPickRequest(c) THEN PickRequest(w, c) /\ Goto(w, "read")
                            ELSE Goto(w, "closetimer") /\ UNCHANGED <<local, reqs>>
    /\ UNCHANGED <<qOwner, batch, cur, connVars, pollVars, peerVars>>

\* Read until EAGAIN; the end of the stream, a reset, or too much data is an
\* error, and an error disconnects the client.
Read(w) ==
    LET c == cur[w] IN
    /\ pc[w] = "read"
    /\ sockOwner[c] = NoWorker
    /\ unread' = [unread EXCEPT ![c] = IF @ = "eof" THEN "eof" ELSE "nothing"]
    /\ \/ unread[c] # "eof" /\ ~hup[c] /\ Goto(w, "process")
       \/ (unread[c] # "nothing" \/ hup[c]) /\ Goto(w, "closetimer")
    /\ UNCHANGED <<qOwner, batch, cur, local, reqs, connVars, pollVars, hup>>

\* SetRequestHandle takes the socket's mutex and re-arms the timer before it
\* re-enables the IO socket: the timer may expire in between.
Rearm(w, c, request) ==
    /\ sockOwner[c] = NoWorker
    /\ sockOwner' = [sockOwner EXCEPT ![c] = w]
    /\ saved' = [saved EXCEPT ![c] = request]
    /\ ReArmTimer(c, "armed")
    /\ Goto(w, "modify")
    /\ UNCHANGED <<qOwner, batch, cur, local, reqs, sock, hs, expired,
                   ioWatch, timerWatch, peerVars>>

\* ProcessBuffer returned REST_ENGINE_MORE_IO_REQUIRED.
AwaitMoreInput(w) == pc[w] = "process" /\ Rearm(w, cur[w], local[w])

\* The answer is sent and the connection is persistent.
KeepAlive(w) == pc[w] = "process" /\ Rearm(w, cur[w], NoRequest)

\* The answer is sent and the connection is to be closed.
Finish(w) ==
    LET c == cur[w] IN
    /\ pc[w] = "process"
    /\ sockOwner[c] = NoWorker
    /\ saved' = [saved EXCEPT ![c] = NoRequest]
    /\ Goto(w, "closetimer")
    /\ UNCHANGED <<qOwner, batch, cur, local, reqs, sock, sockOwner, hs, expired,
                   pollVars, peerVars>>

\* Parsing or answering failed: the connection is closed whatever is saved.
ProcessFails(w) ==
    /\ pc[w] = "process"
    /\ Goto(w, "closetimer")
    /\ UNCHANGED <<qOwner, batch, cur, local, reqs, connVars, pollVars, peerVars>>

\* EPOLL_CTL_MOD, which fails when a timeout has removed the IO socket, and
\* the end of SetRequestHandle.  The worker frees the request unless it is saved.
Modify(w) ==
    LET c == cur[w] IN
    /\ pc[w] = "modify"
    /\ ioWatch' = [ioWatch EXCEPT ![c] = IF @ = "none" THEN "none" ELSE "armed"]
    /\ sockOwner' = [sockOwner EXCEPT ![c] = NoWorker]
    /\ cur' = [cur EXCEPT ![w] = NoConn]
    /\ IF saved[c] = local[w]
       THEN local' = [local EXCEPT ![w] = NoRequest] /\ Goto(w, "idle")
       ELSE Goto(w, "freereq") /\ UNCHANGED local
    /\ UNCHANGED <<qOwner, batch, reqs, sock, saved, hs, expired, timerWatch,
                   timer, peerVars>>

-----------------------------------------------------------------------------
(* OnConnectionTimeout and DisconnectClient. *)

\* A worker that can get no request object returns without disconnecting.
TimeoutGetRequest(w) ==
    LET c == cur[w] IN
    /\ pc[w] = "tgetreq"
    /\ sockOwner[c] = NoWorker
    /\ IF CanPickRequest(c)
       THEN PickRequest(w, c) /\ Goto(w, "closetimer") /\ UNCHANGED cur
       ELSE /\ cur' = [cur EXCEPT ![w] = NoConn]
            /\ Goto(w, "idle")
            /\ UNCHANGED <<local, reqs>>
    /\ UNCHANGED <<qOwner, batch, connVars, pollVars, peerVars>>

\* CloseSocket, first half: the timer.  Removing a timer that is gone fails,
\* and then only the IO socket's descriptor is closed.
CloseTimer(w) ==
    LET c == cur[w]
        gone == timerWatch[c] = "none" IN
    /\ pc[w] = "closetimer"
    /\ timerWatch' = [timerWatch EXCEPT ![c] = "none"]
    /\ timer' = [timer EXCEPT ![c] = "off"]
    /\ ioWatch' = IF gone THEN [ioWatch EXCEPT ![c] = "none"] ELSE ioWatch
    /\ Goto(w, IF gone THEN "release" ELSE "closeio")
    /\ UNCHANGED <<qOwner, batch, cur, local, reqs, connVars, peerVars>>

\* CloseSocket, second half: the IO socket, under its mutex.
CloseIo(w) ==
    LET c == cur[w] IN
    /\ pc[w] = "closeio"
    /\ sockOwner[c] = NoWorker
    /\ ioWatch' = [ioWatch EXCEPT ![c] = "none"]
    /\ Goto(w, "release")
    /\ UNCHANGED <<qOwner, batch, cur, local, reqs, connVars, timerWatch, timer,
                   peerVars>>

\* ReleaseSocket frees the timer socket and the IO socket.
Release(w) ==
    LET c == cur[w] IN
    /\ pc[w] = "release"
    /\ sock' = [sock EXCEPT ![c] = "freed"]
    /\ cur' = [cur EXCEPT ![w] = NoConn]
    /\ Goto(w, IF local[w] = NoRequest THEN "idle" ELSE "freereq")
    /\ UNCHANGED <<qOwner, batch, local, reqs, sockOwner, saved, hs, expired,
                   pollVars, peerVars>>

FreeRequestHandle(w) ==
    /\ pc[w] = "freereq"
    /\ reqs' = reqs \ {local[w]}
    /\ local' = [local EXCEPT ![w] = NoRequest]
    /\ Goto(w, "idle")
    /\ UNCHANGED <<qOwner, batch, cur, connVars, pollVars, peerVars>>

-----------------------------------------------------------------------------

Dispatch(w) ==
    \/ AcceptFails(w)
    \/ \E c \in Conns :
        \/ AcceptAborts(w, c)
        \/ AcceptConnection(w, c)
        \/ DispatchHangup(w, c)
        \/ DispatchTimeout(w, c)
        \/ DispatchHandshakeTimeout(w, c)
        \/ DispatchData(w, c)
        \/ DispatchHandshake(w, c)
        \/ DispatchBadHandshake(w, c)

Serve(w) ==
    \/ GetRequest(w) \/ Read(w)
    \/ AwaitMoreInput(w) \/ KeepAlive(w) \/ Finish(w) \/ ProcessFails(w)
    \/ Modify(w)

Disconnect(w) ==
    \/ TimeoutGetRequest(w)
    \/ CloseTimer(w) \/ CloseIo(w) \/ Release(w)
    \/ FreeRequestHandle(w)

Peer(c) == Connect(c) \/ Send(c) \/ Reset(c)

Next ==
    \/ \E w \in Workers :
        LockQueue(w) \/ Poll(w) \/ Dispatch(w) \/ Serve(w) \/ Disconnect(w)
    \/ \E c \in Conns : Peer(c) \/ TimerFire(c)

Spec == Init /\ [][Next]_vars

\* Threads that can run do run, a callback of the application returns, and a
\* timerfd that is armed expires.  Peers owe nothing.
Fairness ==
    /\ WF_vars(\E w \in Workers : LockQueue(w))
    /\ WF_vars(\E w \in Workers : Poll(w))
    /\ WF_vars(\E w \in Workers : Dispatch(w))
    /\ \A w \in Workers : WF_vars(Serve(w)) /\ WF_vars(Disconnect(w))
    /\ \A c \in Conns : WF_vars(TimerFire(c))

FairSpec == Spec /\ Fairness

-----------------------------------------------------------------------------
(* Properties *)

EventOf(c) == \E k \in Kind : <<k, c>> \in batch

\* Nothing refers to a VM_SOCKET that ReleaseSocket has freed: no worker works
\* on it, no fetched event points to it, neither of its descriptors is watched
\* (epoll would hand out the dangling data.ptr) and its mutex is not held.
NoUseAfterFree ==
    \A c \in Conns : sock[c] = "freed" =>
        /\ \A w \in Workers : cur[w] # c
        /\ ~EventOf(c)
        /\ ioWatch[c] = "none" /\ timerWatch[c] = "none"
        /\ sockOwner[c] = NoWorker

\* A connection is handled by one worker at a time.  The one overlap is a
\* timeout that fires inside SetRequestHandle, between the timer's re-arming
\* and EPOLL_CTL_MOD: the timeout's worker then waits for the socket's mutex.
OneWorkerPerConnection ==
    \A v, w \in Workers : v # w /\ cur[v] = cur[w] /\ cur[v] # NoConn =>
        \/ pc[v] = "modify" /\ pc[w] = "tgetreq" /\ sockOwner[cur[v]] = v
        \/ pc[w] = "modify" /\ pc[v] = "tgetreq" /\ sockOwner[cur[v]] = w

\* While a worker reads, parses or runs the application's callback for a
\* connection, its timer is stopped, so the client gets no 408 in the middle
\* of an answer, and no event of it waits for another worker.
ServiceIsUndisturbed ==
    \A w \in Workers : pc[w] \in Serving =>
        /\ timer[cur[w]] = "off"
        /\ ioWatch[cur[w]] = "disabled"
        /\ ~EventOf(cur[w])

\* No connection is forgotten: a worker has it, an event of it is fetched, or
\* its timer is watched and will expire.
NoLostConnection ==
    \A c \in Conns : sock[c] = "live" =>
        \/ \E w \in Workers : cur[w] = c
        \/ EventOf(c)
        \/ timerWatch[c] = "armed" /\ timer[c] # "off"

\* A request that the hangup branch left in a freed socket (DisconnectClient
\* does not look at pSocket->pRequest): the one leak the code has.
LeakedByHangup(r) == \E c \in Conns : sock[c] = "freed" /\ hup[c] /\ saved[c] = r

\* Every allocated request has one owner that will use or free it, a worker
\* or a live connection, and no owner holds a request that was freed.
RequestsAccounted ==
    /\ \A r \in reqs :
        \/ \E w \in Workers : local[w] = r
        \/ \E c \in Conns : sock[c] = "live" /\ saved[c] = r
        \/ LeakedByHangup(r)
    /\ \A w \in Workers : local[w] \in reqs \cup {NoRequest}
    /\ \A c \in Conns : sock[c] = "live" /\ (\A w \in Workers : cur[w] # c)
                            => saved[c] \in reqs \cup {NoRequest}
    /\ \A v, w \in Workers : v # w /\ local[v] # NoRequest => local[v] # local[w]
    /\ \A c, d \in Conns : c # d /\ sock[c] = "live" /\ sock[d] = "live"
                            /\ saved[c] # NoRequest => saved[c] # saved[d]

\* PreProcessTimeouts' promise: a worker does not begin to serve a connection
\* whose timer has expired.
ExpiredIsNotServed ==
    [][\A w \in Workers : pc[w] = "waiting" /\ pc'[w] = "getreq"
                            => ~expired'[cur'[w]]]_vars

\* A partly received request is forgotten only by the worker that has it in
\* hand: no timeout, hangup or second worker drops it from the socket.
PartialRequestIsKept ==
    [][\A c \in Conns : saved[c] # NoRequest /\ saved'[c] # saved[c] =>
          \E w \in Workers : cur[w] = c /\ local[w] = saved[c]
                                /\ pc[w] = "process"]_vars

\* An idle connection is closed (or its peer sends something).
IdleIsClosed ==
    \A c \in Conns :
        sock[c] = "live" /\ unread[c] = "nothing"
            ~> sock[c] = "freed" \/ unread[c] # "nothing"

\* Input that has arrived is read, or its connection is closed; a stream that
\* has ended is closed, because its "eof" stays.
InputIsServed ==
    \A c \in Conns :
        sock[c] = "live" /\ unread[c] # "nothing"
            ~> sock[c] = "freed" \/ unread[c] = "nothing"

\* A connection that the peer has reset is reclaimed.
ResetIsReclaimed ==
    \A c \in Conns : sock[c] = "live" /\ hup[c] ~> sock[c] = "freed"

-----------------------------------------------------------------------------
(* The inductive invariant behind NoUseAfterFree, OneWorkerPerConnection,  *)
(* ServiceIsUndisturbed and NoLostConnection when timeouts and resets do   *)
(* not overlap: what a connection looks like in each of the situations it  *)
(* can be in.                                                              *)

MutexesHeld ==
    /\ \A w \in Workers : qOwner = w <=> pc[w] = "waiting"
    /\ \A w \in Workers : cur[w] \in Conns <=> pc[w] \in Holding
    /\ \A c \in Conns, w \in Workers :
          sockOwner[c] = w <=> pc[w] = "modify" /\ cur[w] = c

NoHolder(c) == \A w \in Workers : cur[w] # c
HeldAt(w, labels, c) == cur[w] = c /\ pc[w] \in labels

\* Before accept and after ReleaseSocket there is nothing but the kernel's part.
AbsentInv(c) ==
    sock[c] # "live" =>
        /\ NoHolder(c) /\ ~EventOf(c)
        /\ ioWatch[c] = "none" /\ timerWatch[c] = "none" /\ timer[c] = "off"
        /\ expired[c] => sock[c] = "freed"

\* A live connection nobody works on is watched, socket and timer.
WatchedInv(c) ==
    sock[c] = "live" /\ NoHolder(c) /\ ~EventOf(c) =>
        /\ ioWatch[c] = "armed" /\ timerWatch[c] = "armed"
        /\ timer[c] # "off" /\ ~expired[c]

ArmedInv(c) == ioWatch[c] = "armed" => NoHolder(c)

\* A fetched event is the only one of its connection.
InputEventInv(c) ==
    <<"data", c>> \in batch \/ <<"hup", c>> \in batch =>
        /\ NoHolder(c)
        /\ ioWatch[c] = "disabled" /\ timerWatch[c] = "armed"
        /\ timer[c] # "off" /\ ~expired[c]
        /\ <<"timer", c>> \notin batch
        /\ <<"data", c>> \notin batch \/ <<"hup", c>> \notin batch
        /\ <<"hup", c>> \in batch => hup[c]

TimerEventInv(c) ==
    <<"timer", c>> \in batch =>
        /\ \A w \in Workers : cur[w] = c => pc[w] = "modify"
        /\ ioWatch[c] # "none" /\ timerWatch[c] = "disabled"
        /\ timer[c] = "expired" /\ expired[c]

AloneInv(c) ==
    \A v, w \in Workers : v # w /\ cur[v] = c /\ cur[w] = c =>
        \/ pc[v] = "modify" /\ pc[w] = "tgetreq"
        \/ pc[w] = "modify" /\ pc[v] = "tgetreq"

ServingInv(c) ==
    \A w \in Workers : HeldAt(w, Serving, c) =>
        /\ ~EventOf(c)
        /\ ioWatch[c] = "disabled" /\ timerWatch[c] = "armed"
        /\ timer[c] = "off" /\ ~expired[c]

\* Between the timer's re-arming and EPOLL_CTL_MOD a timeout may or may not
\* have been fetched, and may or may not have been dispatched.
ModifyInv(c) ==
    \A w \in Workers : HeldAt(w, {"modify"}, c) =>
        /\ timer[c] # "off"
        /\ \/ /\ timerWatch[c] = "armed" /\ ~expired[c]
              /\ ioWatch[c] = "disabled" /\ ~EventOf(c)
           \/ <<"timer", c>> \in batch
           \/ \E v \in Workers : HeldAt(v, {"tgetreq"}, c)

TimeoutInv(c) ==
    \A w \in Workers : HeldAt(w, {"tgetreq"}, c) =>
        /\ ~EventOf(c)
        /\ ioWatch[c] = "none" /\ timerWatch[c] = "disabled"
        /\ timer[c] = "expired" /\ expired[c]

\* A worker that closes a connection with a running timer got it from a hangup.
ClosingInv(c) ==
    \A w \in Workers :
        /\ HeldAt(w, Closing, c) => ioWatch[c] # "armed" /\ ~EventOf(c)
        /\ HeldAt(w, {"closetimer"}, c) =>
              /\ timer[c] = "armed" => hup[c]
              /\ timer[c] = "expired" => timerWatch[c] = "disabled"
              /\ timerWatch[c] # "none"
        /\ HeldAt(w, {"closeio", "release"}, c) =>
              timerWatch[c] = "none" /\ timer[c] = "off"
        /\ HeldAt(w, {"release"}, c) => ioWatch[c] = "none"

ConnInv(c) ==
    /\ <<"listen", c>> \notin batch
    /\ hup[c] => timer[c] # "expired"
    /\ AbsentInv(c) /\ WatchedInv(c) /\ ArmedInv(c)
    /\ InputEventInv(c) /\ TimerEventInv(c)
    /\ AloneInv(c)
    /\ ServingInv(c) /\ ModifyInv(c) /\ TimeoutInv(c) /\ ClosingInv(c)

IInv == TypeOK /\ MutexesHeld /\ \A c \in Conns : ConnInv(c)

-----------------------------------------------------------------------------
(* What is inductive behind RequestsAccounted and PartialRequestIsKept: who *)
(* has which request object in each of those situations.                   *)

\* A worker that has picked a request has it until it is saved or freed.
WorkerRequestInv(w) ==
    /\ local[w] \in reqs \cup {NoRequest}
    /\ pc[w] \in {"idle", "waiting", "getreq", "tgetreq"} => local[w] = NoRequest
    /\ pc[w] \in {"read", "process", "modify", "freereq"} => local[w] # NoRequest

OneOwnerInv ==
    \A v, w \in Workers : v # w /\ local[v] # NoRequest => local[v] # local[w]

\* Requests are saved behind the handshake only.
EstablishedInv(c) ==
    /\ sock[c] \in {"none", "backlog"} => saved[c] = NoRequest
    /\ Secure /\ saved[c] # NoRequest => hs[c]
    /\ Secure /\ (\E w \in Workers : HeldAt(w, Serving \cup {"modify"}, c)) => hs[c]

\* What a live connection has saved is allocated, is saved nowhere else, and is
\* in no hands but those of its own worker.
SavedInv(c) ==
    sock[c] = "live" /\ saved[c] # NoRequest =>
        /\ saved[c] \in reqs
        /\ \A w \in Workers : local[w] = saved[c] => cur[w] = c
        /\ \A d \in Conns : d # c /\ sock[d] = "live" => saved[d] # saved[c]

\* A worker with a request has the one that is saved, if one is; a worker
\* without one closes a connection that the peer has reset.
HandedInv(c) ==
    \A w \in Workers : HeldAt(w, {"read", "process", "modify"} \cup Closing, c) =>
        \/ saved[c] \in {NoRequest, local[w]}
        \/ pc[w] \in Closing /\ local[w] = NoRequest /\ hup[c]

HasOwner(r) ==
    \/ \E w \in Workers : local[w] = r
    \/ \E c \in Conns : sock[c] = "live" /\ saved[c] = r
    \/ LeakedByHangup(r)

RequestInv ==
    /\ \A w \in Workers : WorkerRequestInv(w)
    /\ OneOwnerInv
    /\ \A c \in Conns : EstablishedInv(c) /\ SavedInv(c) /\ HandedInv(c)
    /\ \A r \in reqs : HasOwner(r)

RequestsInOrder == IInv /\ RequestInv

=============================================================================
