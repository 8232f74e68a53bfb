-------------------------- MODULE ConnectionProofs --------------------------
(***************************************************************************)
(* The types and mutexes of EventLoop, the inductive invariant of its      *)
(* connections, and the safety properties that follow from it, for every   *)
(* number of workers, connections and requests, plain and TLS.             *)
(***************************************************************************)
EXTENDS EventLoop, TLAPS

USE DEF Kind, Watch, Serving, Closing, Holding, Goto, PickNew, OneShot, DropExpired,
        ReArmTimer

-----------------------------------------------------------------------------
(* Types, and who holds the mutexes.                                        *)

LEMMA ReadyEventsType ==
    ASSUME NEW fetched \in SUBSET ReadyEvents
    PROVE  fetched \subseteq Kind \X (Conns \cup {NoConn})
  BY DEF ReadyEvents

LEMMA InitType == Init => TypeOK
  BY DEF Init, TypeOK

LEMMA PeersType ==
    ASSUME TypeOK, NEW c \in Conns, Peer(c) \/ TimerFire(c)
    PROVE  TypeOK'
  <1>1. CASE Connect(c)
    BY <1>1 DEF TypeOK, Connect, workerVars, pollVars, peerVars
  <1>2. CASE Send(c)
    BY <1>2 DEF TypeOK, Send, workerVars, connVars, pollVars
  <1>3. CASE Reset(c)
    BY <1>3 DEF TypeOK, Reset, workerVars, connVars, pollVars
  <1>4. CASE TimerFire(c)
    BY <1>4 DEF TypeOK, TimerFire, workerVars, connVars, peerVars
  <1>5. QED BY <1>1, <1>2, <1>3, <1>4 DEF Peer

LEMMA QueueType ==
    ASSUME TypeOK, NEW w \in Workers, LockQueue(w) \/ Poll(w)
    PROVE  TypeOK'
  <1>1. CASE LockQueue(w)
    BY <1>1 DEF TypeOK, LockQueue, connVars, pollVars, peerVars
  <1>2. CASE Poll(w)
    <2>1. batch' \subseteq Kind \X (Conns \cup {NoConn})
      BY <1>2, ReadyEventsType DEF Poll
    <2>2. /\ expired' \in [Conns -> BOOLEAN]
          /\ ioWatch' \in [Conns -> Watch] /\ timerWatch' \in [Conns -> Watch]
      BY <1>2 DEF Poll, TypeOK
    <2>3. QED
      BY <1>2, <2>1, <2>2 DEF TypeOK, Poll, workerVars, peerVars
  <1>3. QED BY <1>1, <1>2

LEMMA HandshakeType ==
    ASSUME TypeOK, NEW c \in Conns, NEW result, Handshake(c, result)
    PROVE  /\ hs' \in [Conns -> BOOLEAN]
           /\ unread' \in [Conns -> {"nothing", "bytes", "eof"}]
  <1>1. hs' = hs \/ hs' = [hs EXCEPT ![c] = TRUE]
    BY DEF Handshake
  <1>2. unread' = unread
          \/ \E u \in {"nothing", "bytes"} : unread' = [unread EXCEPT ![c] = u]
    BY DEF Handshake
  <1>3. hs' \in [Conns -> BOOLEAN]
    BY <1>1 DEF TypeOK
  <1>4. unread' \in [Conns -> {"nothing", "bytes", "eof"}]
    BY <1>2 DEF TypeOK
  <1>5. QED BY <1>3, <1>4

LEMMA DispatchType ==
    ASSUME TypeOK, NEW w \in Workers, Dispatch(w)
    PROVE  TypeOK'
  <1> USE DEF TypeOK, Take, connVars, pollVars, peerVars
  <1>1. CASE AcceptFails(w)
    BY <1>1 DEF AcceptFails
  <1>2. ASSUME NEW c \in Conns, AcceptAborts(w, c) PROVE TypeOK'
    BY <1>2, SMTT(60) DEF AcceptAborts, FreeUnderLock
  <1>3. ASSUME NEW c \in Conns, AcceptConnection(w, c) PROVE TypeOK'
    <2>1. /\ hs' \in [Conns -> BOOLEAN]
          /\ unread' \in [Conns -> {"nothing", "bytes", "eof"}]
      BY <1>3, HandshakeType DEF AcceptConnection
    <2>2. QED BY <1>3, <2>1 DEF AcceptConnection
  <1>4. ASSUME NEW c \in Conns,
               \/ DispatchHangup(w, c) \/ DispatchTimeout(w, c)
               \/ DispatchData(w, c)
        PROVE  TypeOK'
    BY <1>4 DEF DispatchHangup, DispatchTimeout, DispatchData
  <1>5. ASSUME NEW c \in Conns, DispatchHandshakeTimeout(w, c) PROVE TypeOK'
    BY <1>5, SMTT(60) DEF DispatchHandshakeTimeout, FreeUnderLock
  <1>6. ASSUME NEW c \in Conns, DispatchHandshake(w, c) PROVE TypeOK'
    <2>1. /\ hs' \in [Conns -> BOOLEAN]
          /\ unread' \in [Conns -> {"nothing", "bytes", "eof"}]
      BY <1>6, HandshakeType DEF DispatchHandshake
    <2>2. QED BY <1>6, <2>1 DEF DispatchHandshake
  <1>7. ASSUME NEW c \in Conns, DispatchBadHandshake(w, c) PROVE TypeOK'
    <2>1. /\ hs' \in [Conns -> BOOLEAN]
          /\ unread' \in [Conns -> {"nothing", "bytes", "eof"}]
      BY <1>7, HandshakeType DEF DispatchBadHandshake
    <2>2. QED BY <1>7, <2>1 DEF DispatchBadHandshake, FreeUnderLock
  <1>8. QED BY <1>1, <1>2, <1>3, <1>4, <1>5, <1>6, <1>7 DEF Dispatch

LEMMA ServeType ==
    ASSUME TypeOK, MutexesHeld, NEW w \in Workers, Serve(w)
    PROVE  TypeOK'
  <1>1. CASE GetRequest(w)
    BY <1>1 DEF TypeOK, MutexesHeld, GetRequest, CanPickRequest, PickRequest,
                connVars, pollVars, peerVars
  <1>2. CASE Read(w)
    BY <1>2 DEF TypeOK, Read, connVars, pollVars, peerVars
  <1>3. CASE AwaitMoreInput(w)
    BY <1>3 DEF TypeOK, AwaitMoreInput, Rearm, connVars, pollVars, peerVars
  <1>4. CASE KeepAlive(w)
    BY <1>4 DEF TypeOK, KeepAlive, Rearm, connVars, pollVars, peerVars
  <1>5. CASE Finish(w)
    BY <1>5 DEF TypeOK, Finish, connVars, pollVars, peerVars
  <1>6. CASE ProcessFails(w)
    BY <1>6 DEF TypeOK, ProcessFails, connVars, pollVars, peerVars
  <1>7. CASE Modify(w)
    BY <1>7 DEF TypeOK, Modify, connVars, pollVars, peerVars
  <1>8. QED BY <1>1, <1>2, <1>3, <1>4, <1>5, <1>6, <1>7 DEF Serve

LEMMA DisconnectType ==
    ASSUME TypeOK, MutexesHeld, NEW w \in Workers, Disconnect(w)
    PROVE  TypeOK'
  <1>1. CASE TimeoutGetRequest(w)
    BY <1>1 DEF TypeOK, MutexesHeld, TimeoutGetRequest, CanPickRequest,
                PickRequest, connVars, pollVars, peerVars
  <1>2. CASE CloseTimer(w) \/ CloseIo(w) \/ Release(w) \/ FreeRequestHandle(w)
    BY <1>2 DEF TypeOK, CloseTimer, CloseIo, Release, FreeRequestHandle,
                connVars, pollVars, peerVars
  <1>3. QED BY <1>1, <1>2 DEF Disconnect

-----------------------------------------------------------------------------
(* The mutexes: who holds one is where the code says it is. *)

LEMMA InitLocks == Init => MutexesHeld
  BY WorkersAssumption, ConnsAssumption DEF Init, MutexesHeld

LEMMA NextLocks ==
    ASSUME TypeOK, MutexesHeld, Next
    PROVE  MutexesHeld'
  <1> USE WorkersAssumption, ConnsAssumption DEF TypeOK, MutexesHeld
  <1>1. ASSUME NEW w \in Workers, LockQueue(w) PROVE MutexesHeld'
    BY <1>1 DEF LockQueue, connVars, pollVars, peerVars
  <1>2. ASSUME NEW w \in Workers, Poll(w) PROVE MutexesHeld'
    BY <1>2 DEF Poll, workerVars, peerVars
  <1>3. ASSUME NEW w \in Workers, AcceptFails(w) PROVE MutexesHeld'
    BY <1>3 DEF AcceptFails, Take, connVars, pollVars, peerVars
  <1>4. ASSUME NEW w \in Workers, NEW c \in Conns, AcceptAborts(w, c) PROVE MutexesHeld'
    BY <1>4 DEF AcceptAborts, Take, FreeUnderLock, peerVars
  <1>5. ASSUME NEW w \in Workers, NEW c \in Conns, AcceptConnection(w, c) PROVE MutexesHeld'
    BY <1>5 DEF AcceptConnection, Take, Handshake
  <1>6. ASSUME NEW w \in Workers, NEW c \in Conns, DispatchHangup(w, c) PROVE MutexesHeld'
    BY <1>6 DEF DispatchHangup, Take, connVars, pollVars, peerVars
  <1>7. ASSUME NEW w \in Workers, NEW c \in Conns, DispatchTimeout(w, c) PROVE MutexesHeld'
    BY <1>7 DEF DispatchTimeout, Take, connVars, peerVars
  <1>8. ASSUME NEW w \in Workers, NEW c \in Conns, DispatchHandshakeTimeout(w, c) PROVE MutexesHeld'
    BY <1>8 DEF DispatchHandshakeTimeout, Take, FreeUnderLock, peerVars
  <1>9. ASSUME NEW w \in Workers, NEW c \in Conns, DispatchData(w, c) PROVE MutexesHeld'
    BY <1>9 DEF DispatchData, Take, connVars, peerVars
  <1>10. ASSUME NEW w \in Workers, NEW c \in Conns, DispatchHandshake(w, c) PROVE MutexesHeld'
    BY <1>10 DEF DispatchHandshake, Take, Handshake
  <1>11. ASSUME NEW w \in Workers, NEW c \in Conns, DispatchBadHandshake(w, c) PROVE MutexesHeld'
    BY <1>11 DEF DispatchBadHandshake, Take, Handshake, FreeUnderLock
  <1>12. ASSUME NEW w \in Workers, GetRequest(w) PROVE MutexesHeld'
    BY <1>12 DEF GetRequest, CanPickRequest, PickRequest, connVars, pollVars, peerVars
  <1>13. ASSUME NEW w \in Workers, Read(w) PROVE MutexesHeld'
    BY <1>13 DEF Read, connVars, pollVars
  <1>14. ASSUME NEW w \in Workers, AwaitMoreInput(w) PROVE MutexesHeld'
    BY <1>14 DEF AwaitMoreInput, Rearm, peerVars
  <1>15. ASSUME NEW w \in Workers, KeepAlive(w) PROVE MutexesHeld'
    BY <1>15 DEF KeepAlive, Rearm, peerVars
  <1>16. ASSUME NEW w \in Workers, Finish(w) PROVE MutexesHeld'
    BY <1>16 DEF Finish, pollVars, peerVars
  <1>17. ASSUME NEW w \in Workers, Modify(w) PROVE MutexesHeld'
    BY <1>17 DEF Modify, peerVars
  <1>18. ASSUME NEW w \in Workers, TimeoutGetRequest(w) PROVE MutexesHeld'
    BY <1>18 DEF TimeoutGetRequest, CanPickRequest, PickRequest, connVars, pollVars, peerVars
  <1>19. ASSUME NEW w \in Workers, CloseTimer(w) PROVE MutexesHeld'
    BY <1>19 DEF CloseTimer, connVars, peerVars
  <1>20. ASSUME NEW w \in Workers, CloseIo(w) PROVE MutexesHeld'
    BY <1>20 DEF CloseIo, connVars, peerVars
  <1>21. ASSUME NEW w \in Workers, Release(w) PROVE MutexesHeld'
    BY <1>21 DEF Release, pollVars, peerVars
  <1>22. ASSUME NEW w \in Workers, FreeRequestHandle(w) PROVE MutexesHeld'
    BY <1>22 DEF FreeRequestHandle, connVars, pollVars, peerVars
  <1>23. ASSUME NEW c \in Conns, Connect(c) PROVE MutexesHeld'
    BY <1>23 DEF Connect, workerVars, pollVars, peerVars
  <1>24. ASSUME NEW c \in Conns, Send(c) PROVE MutexesHeld'
    BY <1>24 DEF Send, workerVars, connVars, pollVars
  <1>25. ASSUME NEW c \in Conns, Reset(c) PROVE MutexesHeld'
    BY <1>25 DEF Reset, workerVars, connVars, pollVars
  <1>26. ASSUME NEW c \in Conns, TimerFire(c) PROVE MutexesHeld'
    BY <1>26 DEF TimerFire, workerVars, connVars, peerVars
  <1>27. ASSUME NEW w \in Workers, ProcessFails(w) PROVE MutexesHeld'
    BY <1>27 DEF ProcessFails, connVars, pollVars, peerVars
  <1>40. QED
    BY <1>1, <1>2, <1>3, <1>4, <1>5, <1>6, <1>7, <1>8, <1>9, <1>10, <1>11, <1>12, <1>13, <1>14, <1>15, <1>16, <1>17, <1>18, <1>19, <1>20, <1>21, <1>22, <1>23, <1>24, <1>25, <1>26, <1>27
    DEF Next, Dispatch, Serve, Disconnect, Peer

LEMMA NextType ==
    ASSUME TypeOK, MutexesHeld, Next
    PROVE  TypeOK'
  BY PeersType, QueueType, DispatchType, ServeType, DisconnectType DEF Next

\* Types and mutexes are as declared in every reachable state, whatever the
\* peers do and whenever timers expire.
THEOREM LocksAreHeld == Spec => [](TypeOK /\ MutexesHeld)
  <1>1. Init => TypeOK /\ MutexesHeld
    BY InitType, InitLocks
  <1>2. TypeOK /\ MutexesHeld /\ [Next]_vars => (TypeOK /\ MutexesHeld)'
    <2>1. CASE Next
      BY <2>1, NextType, NextLocks
    <2>2. CASE UNCHANGED vars
      BY <2>2 DEF TypeOK, MutexesHeld, vars, workerVars, connVars, pollVars, peerVars
    <2>3. QED BY <2>1, <2>2
  <1>3. QED BY <1>1, <1>2, PTL DEF Spec

-----------------------------------------------------------------------------
(* Almost every action touches one connection.  A connection that a step    *)
(* does not touch keeps its part of the invariant.                          *)

Unmoved(d) ==
    /\ sock'[d] = sock[d] /\ hup'[d] = hup[d] /\ expired'[d] = expired[d]
    /\ ioWatch'[d] = ioWatch[d] /\ timerWatch'[d] = timerWatch[d]
    /\ timer'[d] = timer[d]
    /\ \A k \in Kind : <<k, d>> \in batch' <=> <<k, d>> \in batch
    /\ \A v \in Workers : cur'[v] = d <=> cur[v] = d
    /\ \A v \in Workers : cur[v] = d => pc'[v] = pc[v]

Only(c) == ConnInv(c)' /\ \A d \in Conns : d # c => Unmoved(d)

OthersStay(w) == \A v \in Workers : v # w => pc'[v] = pc[v] /\ cur'[v] = cur[v]

\* The part of the invariant that belongs to an untouched connection is kept.
LEMMA Frame ==
    ASSUME NEW d \in Conns, ConnInv(d), Unmoved(d)
    PROVE  ConnInv(d)'
  <1> USE DEF Unmoved, NoHolder, EventOf, HeldAt
  <1>1. NoHolder(d)' <=> NoHolder(d)
    OBVIOUS
  <1>2. EventOf(d)' <=> EventOf(d)
    OBVIOUS
  <1>3. \A v \in Workers : \A L : HeldAt(v, L, d)' <=> HeldAt(v, L, d)
    OBVIOUS
  <1> HIDE DEF NoHolder, EventOf, HeldAt
  <1>4. AbsentInv(d)' /\ WatchedInv(d)' /\ ArmedInv(d)'
    BY <1>1, <1>2 DEF ConnInv, AbsentInv, WatchedInv, ArmedInv
  <1>5. InputEventInv(d)' /\ TimerEventInv(d)'
    BY <1>1 DEF ConnInv, InputEventInv, TimerEventInv
  <1>6. AloneInv(d)'
    BY DEF ConnInv, AloneInv
  <1>7. ServingInv(d)' /\ TimeoutInv(d)' /\ ClosingInv(d)'
    BY <1>2, <1>3 DEF ConnInv, ServingInv, TimeoutInv, ClosingInv
  <1>8. ModifyInv(d)'
    BY <1>2, <1>3 DEF ConnInv, ModifyInv
  <1>9. QED
    BY <1>4, <1>5, <1>6, <1>7, <1>8 DEF ConnInv

LEMMA OnlyKeeps ==
    ASSUME IInv, NEW c \in Conns, Only(c)
    PROVE  \A d \in Conns : ConnInv(d)'
  BY Frame DEF IInv, Only

LEMMA UnmovedKeeps ==
    ASSUME IInv, \A d \in Conns : Unmoved(d)
    PROVE  \A d \in Conns : ConnInv(d)'
  BY Frame DEF IInv

USE DEF ConnInv, AbsentInv, WatchedInv, ArmedInv, InputEventInv, TimerEventInv,
        AloneInv, ServingInv, ModifyInv, TimeoutInv, ClosingInv,
        NoHolder, EventOf, HeldAt

-----------------------------------------------------------------------------
(* The peers and the clock. *)

LEMMA ConnectKeeps ==
    ASSUME TypeOK, NEW c \in Conns, ConnInv(c), Connect(c)
    PROVE  Only(c)
  <1>1. ASSUME NEW d \in Conns, d # c PROVE Unmoved(d)
    BY <1>1 DEF Unmoved, Connect, TypeOK, workerVars, pollVars, peerVars
  <1>2. /\ sock[c] = "none" /\ sock'[c] = "backlog"
        /\ UNCHANGED <<batch, cur, pc, hup, expired, ioWatch, timerWatch, timer>>
    BY DEF Connect, TypeOK, workerVars, pollVars, peerVars
  <1>3. ConnInv(c)'
    BY <1>2
  <1>4. QED BY <1>1, <1>3 DEF Only

LEMMA SendKeeps ==
    ASSUME NEW c \in Conns, Send(c)
    PROVE  \A d \in Conns : Unmoved(d)
  BY DEF Unmoved, Send, workerVars, connVars, pollVars

LEMMA ResetKeeps ==
    ASSUME ~TimersRaceResets, TypeOK, NEW c \in Conns, ConnInv(c), Reset(c)
    PROVE  Only(c)
  <1>1. ASSUME NEW d \in Conns, d # c PROVE Unmoved(d)
    BY <1>1 DEF Unmoved, Reset, TypeOK, workerVars, connVars, pollVars
  <1>2. /\ timer[c] # "expired" /\ hup'[c] /\ sock[c] \in {"backlog", "live"}
        /\ UNCHANGED <<batch, cur, pc, sock, expired, ioWatch, timerWatch, timer>>
    BY DEF Reset, TypeOK, workerVars, connVars, pollVars
  <1>3. ConnInv(c)'
    BY <1>2
  <1>4. QED BY <1>1, <1>3 DEF Only

LEMMA TimerFireKeeps ==
    ASSUME ~TimersRaceResets, TypeOK, NEW c \in Conns, ConnInv(c), TimerFire(c)
    PROVE  Only(c)
  <1>1. ASSUME NEW d \in Conns, d # c PROVE Unmoved(d)
    BY <1>1 DEF Unmoved, TimerFire, TypeOK, workerVars, connVars, peerVars
  <1>2. /\ timer[c] = "armed" /\ timer'[c] = "expired" /\ ~hup[c]
        /\ UNCHANGED <<batch, cur, pc, sock, expired, ioWatch, timerWatch, hup>>
    BY DEF TimerFire, TypeOK, workerVars, connVars, peerVars
  <1>3. ConnInv(c)'
    BY <1>2
  <1>4. QED BY <1>1, <1>3 DEF Only

-----------------------------------------------------------------------------
(* WaitForEvent. *)

LEMMA LockQueueKeeps ==
    ASSUME TypeOK, MutexesHeld, NEW w \in Workers, LockQueue(w)
    PROVE  \A d \in Conns : Unmoved(d)
  BY DEF Unmoved, LockQueue, TypeOK, MutexesHeld, connVars, pollVars, peerVars

\* epoll_wait and PreProcessTimeouts, seen from one connection d.
LEMMA PollKeeps ==
    ASSUME TypeOK, MutexesHeld, NEW w \in Workers, Poll(w),
           NEW d \in Conns, ConnInv(d)
    PROVE  ConnInv(d)'
  <1>1. PICK fetched \in SUBSET ReadyEvents :
          LET late == {c \in Conns : <<"timer", c>> \in fetched}
              io == {c \in Conns : <<"hup", c>> \in fetched
                                   \/ <<"data", c>> \in fetched}
          IN  /\ batch' = DropExpired(fetched, late)
              /\ expired' = [c \in Conns |-> expired[c] \/ c \in late]
              /\ ioWatch' = OneShot(ioWatch, io)
              /\ timerWatch' = OneShot(timerWatch, late)
    BY DEF Poll
  <1> DEFINE late == <<"timer", d>> \in fetched
             io == <<"hup", d>> \in fetched \/ <<"data", d>> \in fetched
  <1>2. /\ <<"listen", d>> \notin fetched
        /\ late => TimerReady(d)
        /\ io => IoReady(d)
        /\ <<"hup", d>> \in fetched => hup[d]
        /\ <<"data", d>> \in fetched => ~hup[d]
    BY ConnsAssumption DEF ReadyEvents
  <1>3. /\ <<"listen", d>> \notin batch'
        /\ <<"timer", d>> \in batch' <=> late
        /\ <<"hup", d>> \in batch' <=> <<"hup", d>> \in fetched /\ ~late
        /\ <<"data", d>> \in batch' <=> <<"data", d>> \in fetched /\ ~late
    BY <1>1, <1>2
  <1>4. /\ expired'[d] <=> expired[d] \/ late
        /\ ioWatch'[d] = IF io THEN "disabled" ELSE ioWatch[d]
        /\ timerWatch'[d] = IF late THEN "disabled" ELSE timerWatch[d]
    BY <1>1
  <1>5. /\ batch = {}
        /\ UNCHANGED <<cur, pc, sock, timer, hup>>
    BY DEF Poll, workerVars, peerVars
  <1>6. /\ late => timerWatch[d] = "armed" /\ timer[d] = "expired"
        /\ io => ioWatch[d] = "armed"
    BY <1>2 DEF TimerReady, IoReady
  <1> HIDE DEF late, io
  <1>7. late => /\ \A v \in Workers : cur[v] = d => pc[v] = "modify"
                /\ ioWatch[d] # "none"
    <2> SUFFICES ASSUME late
                 PROVE  /\ \A v \in Workers : cur[v] = d => pc[v] = "modify"
                        /\ ioWatch[d] # "none"
      OBVIOUS
    <2>1. \A v \in Workers : cur[v] = d => pc[v] = "modify"
      BY <1>6 DEF TypeOK, MutexesHeld
    <2>2. QED BY <1>5, <1>6, <2>1
  <1>8. AbsentInv(d)' /\ WatchedInv(d)' /\ ArmedInv(d)'
    BY <1>2, <1>3, <1>4, <1>5, <1>6 DEF late, io
  <1>9. InputEventInv(d)' /\ TimerEventInv(d)'
    BY <1>2, <1>3, <1>4, <1>5, <1>6, <1>7 DEF late, io
  <1>10. AloneInv(d)' /\ ServingInv(d)' /\ ModifyInv(d)'
    BY <1>2, <1>3, <1>4, <1>5, <1>6 DEF late, io
  <1>11. TimeoutInv(d)' /\ ClosingInv(d)'
    BY <1>2, <1>3, <1>4, <1>5, <1>6 DEF late, io
  <1>12. QED
    BY <1>3, <1>5, <1>6, <1>8, <1>9, <1>10, <1>11

\* A worker that waits for events holds no connection.
LEMMA WaiterIsFree ==
    ASSUME MutexesHeld, NEW w \in Workers, NEW c \in Conns, pc[w] = "waiting"
    PROVE  cur[w] # c
  BY DEF MutexesHeld

LEMMA AcceptFailsKeeps ==
    ASSUME TypeOK, MutexesHeld, NEW w \in Workers, AcceptFails(w)
    PROVE  \A d \in Conns : Unmoved(d)
  <1>1. pc[w] = "waiting" /\ pc' = [pc EXCEPT ![w] = "idle"]
    BY DEF AcceptFails, Take
  <1>2. \A d \in Conns : cur[w] # d
    BY <1>1, WaiterIsFree
  <1>3. \A d \in Conns, k \in Kind : <<k, d>> \in batch' <=> <<k, d>> \in batch
    BY ConnsAssumption DEF AcceptFails, Take
  <1>4. QED
    BY <1>1, <1>2, <1>3 DEF AcceptFails, Unmoved, TypeOK, connVars, pollVars, peerVars

LEMMA AcceptAbortsKeeps ==
    ASSUME TypeOK, MutexesHeld, NEW w \in Workers, NEW c \in Conns,
           ConnInv(c), AcceptAborts(w, c)
    PROVE  Only(c)
  <1> USE DEF AcceptAborts, Take, FreeUnderLock, peerVars
  <1>0. \A d \in Conns : cur[w] # d
    BY WaiterIsFree
  <1>1. ASSUME NEW d \in Conns, d # c PROVE Unmoved(d)
    BY <1>0, <1>1, ConnsAssumption DEF Unmoved, TypeOK
  <1>2. /\ sock[c] = "backlog" /\ sock'[c] = "freed"
        /\ ioWatch'[c] = "none" /\ timerWatch'[c] = "none" /\ timer'[c] = "off"
        /\ hup' = hup /\ expired' = expired /\ cur' = cur
        /\ \A k \in Kind : <<k, c>> \in batch' <=> <<k, c>> \in batch
    BY ConnsAssumption DEF TypeOK
  <1>3. ConnInv(c)'
    BY <1>2
  <1>4. QED BY <1>1, <1>3 DEF Only

LEMMA AcceptConnectionKeeps ==
    ASSUME TypeOK, MutexesHeld, NEW w \in Workers, NEW c \in Conns,
           ConnInv(c), AcceptConnection(w, c)
    PROVE  Only(c)
  <1> USE DEF AcceptConnection, Take
  <1>0. \A d \in Conns : cur[w] # d
    BY WaiterIsFree
  <1>1. ASSUME NEW d \in Conns, d # c PROVE Unmoved(d)
    BY <1>0, <1>1, ConnsAssumption DEF Unmoved, TypeOK
  <1>2. /\ sock[c] = "backlog" /\ sock'[c] = "live"
        /\ ioWatch'[c] = "armed" /\ timerWatch'[c] = "armed" /\ timer'[c] = "armed"
        /\ hup' = hup /\ expired' = expired /\ cur' = cur
        /\ \A k \in Kind : <<k, c>> \in batch' <=> <<k, c>> \in batch
    BY ConnsAssumption DEF TypeOK
  <1>3. ConnInv(c)'
    BY <1>2
  <1>4. QED BY <1>1, <1>3 DEF Only

LEMMA DispatchHangupKeeps ==
    ASSUME TypeOK, MutexesHeld, NEW w \in Workers, NEW c \in Conns,
           ConnInv(c), DispatchHangup(w, c)
    PROVE  Only(c)
  <1> USE DEF DispatchHangup, Take, connVars, pollVars, peerVars
  <1>0. \A d \in Conns : cur[w] # d
    BY WaiterIsFree
  <1>1. ASSUME NEW d \in Conns, d # c PROVE Unmoved(d)
    BY <1>0, <1>1 DEF Unmoved, TypeOK
  <1>2. /\ <<"hup", c>> \in batch
        /\ \A k \in Kind : <<k, c>> \in batch' <=> <<k, c>> \in batch /\ k # "hup"
        /\ UNCHANGED <<sock, hup, expired, ioWatch, timerWatch, timer>>
        /\ pc'[w] = "closetimer" /\ cur'[w] = c
    BY DEF TypeOK
  <1>3. OthersStay(w)
    BY DEF OthersStay, TypeOK
  <1>4. timer[c] \in {"off", "armed", "expired"} /\ sock[c] \in {"none", "backlog", "live", "freed"}
    BY DEF TypeOK
  <1> HIDE DEF DispatchHangup, Take, connVars, pollVars, peerVars
  <1>5. ConnInv(c)'
    BY <1>2, <1>3, <1>4 DEF OthersStay
  <1>6. QED BY <1>1, <1>5 DEF Only

LEMMA DispatchTimeoutKeeps ==
    ASSUME TypeOK, MutexesHeld, NEW w \in Workers, NEW c \in Conns,
           ConnInv(c), DispatchTimeout(w, c)
    PROVE  Only(c)
  <1> USE DEF DispatchTimeout, Take, connVars, peerVars
  <1>0. \A d \in Conns : cur[w] # d
    BY WaiterIsFree
  <1>1. ASSUME NEW d \in Conns, d # c PROVE Unmoved(d)
    BY <1>0, <1>1 DEF Unmoved, TypeOK
  <1>2. /\ <<"timer", c>> \in batch
        /\ \A k \in Kind : <<k, c>> \in batch' <=> <<k, c>> \in batch /\ k # "timer"
        /\ UNCHANGED <<sock, hup, expired, timerWatch, timer>>
        /\ ioWatch'[c] = "none"
        /\ pc'[w] = "tgetreq" /\ cur'[w] = c
    BY DEF TypeOK
  <1>3. OthersStay(w)
    BY DEF OthersStay, TypeOK
  <1> HIDE DEF DispatchTimeout, Take, connVars, peerVars
  <1>5. ConnInv(c)'
    BY <1>0, <1>2, <1>3 DEF OthersStay
  <1>6. QED BY <1>1, <1>5 DEF Only

LEMMA DispatchHandshakeTimeoutKeeps ==
    ASSUME TypeOK, MutexesHeld, NEW w \in Workers, NEW c \in Conns,
           ConnInv(c), DispatchHandshakeTimeout(w, c)
    PROVE  Only(c)
  <1> USE DEF DispatchHandshakeTimeout, Take, FreeUnderLock, peerVars
  <1>0. \A d \in Conns : cur[w] # d
    BY WaiterIsFree
  <1>1. ASSUME NEW d \in Conns, d # c PROVE Unmoved(d)
    BY <1>0, <1>1 DEF Unmoved, TypeOK
  <1>2. /\ <<"timer", c>> \in batch
        /\ \A k \in Kind : <<k, c>> \in batch' <=> <<k, c>> \in batch /\ k # "timer"
        /\ ioWatch'[c] = "none" /\ timerWatch'[c] = "none" /\ timer'[c] = "off"
        /\ sock'[c] = "freed" /\ hup' = hup /\ cur' = cur
    BY DEF TypeOK
  <1>3. NoHolder(c)
    BY WorkersAssumption DEF MutexesHeld
  <1>4. ConnInv(c)'
    BY <1>2, <1>3
  <1>5. QED BY <1>1, <1>4 DEF Only

LEMMA DispatchDataKeeps ==
    ASSUME TypeOK, MutexesHeld, NEW w \in Workers, NEW c \in Conns,
           ConnInv(c), DispatchData(w, c)
    PROVE  Only(c)
  <1> USE DEF DispatchData, Take, connVars, peerVars
  <1>0. \A d \in Conns : cur[w] # d
    BY WaiterIsFree
  <1>1. ASSUME NEW d \in Conns, d # c PROVE Unmoved(d)
    BY <1>0, <1>1 DEF Unmoved, TypeOK
  <1>2. /\ <<"data", c>> \in batch
        /\ \A k \in Kind : <<k, c>> \in batch' <=> <<k, c>> \in batch /\ k # "data"
        /\ UNCHANGED <<sock, hup, expired, ioWatch, timerWatch>>
        /\ timer'[c] = "off"
        /\ pc'[w] = "getreq" /\ cur'[w] = c
    BY DEF TypeOK
  <1>3. OthersStay(w)
    BY DEF OthersStay, TypeOK
  <1> HIDE DEF DispatchData, Take, connVars, peerVars
  <1>4. ConnInv(c)'
    BY <1>2, <1>3 DEF OthersStay
  <1>5. QED BY <1>1, <1>4 DEF Only

LEMMA DispatchHandshakeKeeps ==
    ASSUME TypeOK, MutexesHeld, NEW w \in Workers, NEW c \in Conns,
           ConnInv(c), DispatchHandshake(w, c)
    PROVE  Only(c)
  <1> USE DEF DispatchHandshake, Take
  <1>0. \A d \in Conns : cur[w] # d
    BY WaiterIsFree
  <1>1. ASSUME NEW d \in Conns, d # c PROVE Unmoved(d)
    BY <1>0, <1>1 DEF Unmoved, TypeOK
  <1>2. /\ <<"data", c>> \in batch
        /\ \A k \in Kind : <<k, c>> \in batch' <=> <<k, c>> \in batch /\ k # "data"
        /\ UNCHANGED <<sock, hup, expired, timerWatch, cur>>
        /\ timer'[c] = "armed" /\ ioWatch'[c] = "armed"
    BY DEF TypeOK
  <1>3. ConnInv(c)'
    BY <1>2
  <1>4. QED BY <1>1, <1>3 DEF Only

LEMMA DispatchBadHandshakeKeeps ==
    ASSUME TypeOK, MutexesHeld, NEW w \in Workers, NEW c \in Conns,
           ConnInv(c), DispatchBadHandshake(w, c)
    PROVE  Only(c)
  <1> USE DEF DispatchBadHandshake, Take, FreeUnderLock
  <1>0. \A d \in Conns : cur[w] # d
    BY WaiterIsFree
  <1>1. ASSUME NEW d \in Conns, d # c PROVE Unmoved(d)
    BY <1>0, <1>1 DEF Unmoved, TypeOK
  <1>2. /\ <<"data", c>> \in batch
        /\ \A k \in Kind : <<k, c>> \in batch' <=> <<k, c>> \in batch /\ k # "data"
        /\ ioWatch'[c] = "none" /\ timerWatch'[c] = "none" /\ timer'[c] = "off"
        /\ sock'[c] = "freed" /\ hup' = hup /\ cur' = cur
    BY DEF TypeOK
  <1>3. ConnInv(c)'
    BY <1>2
  <1>4. QED BY <1>1, <1>3 DEF Only

-----------------------------------------------------------------------------
(* TcpReceiveNewData, OnConnectionTimeout and DisconnectClient: the steps of *)
(* a worker w on its connection cur[w].                                      *)

LEMMA GetRequestKeeps ==
    ASSUME TypeOK, MutexesHeld, NEW w \in Workers,
           NEW c \in Conns, c = cur[w], ConnInv(c), GetRequest(w)
    PROVE  Only(c)
  <1> USE DEF GetRequest, connVars, pollVars, peerVars
  <1>0. pc[w] = "getreq"
    OBVIOUS
  <1>1. ASSUME NEW d \in Conns, d # c PROVE Unmoved(d)
    BY <1>1, CanPickRequest(c) \/ ~CanPickRequest(c) DEF Unmoved, TypeOK
  <1>2. UNCHANGED <<batch, sock, hup, expired, ioWatch, timerWatch, timer>>
    OBVIOUS
  <1>3. OthersStay(w) /\ pc'[w] \in {"read", "closetimer"} /\ cur'[w] = c
    BY DEF OthersStay, TypeOK
  <1> HIDE DEF GetRequest, connVars, pollVars, peerVars
  <1>4. ConnInv(c)'
    BY <1>0, <1>2, <1>3 DEF OthersStay
  <1>5. QED BY <1>0, <1>1, <1>4 DEF Only

LEMMA ReadKeeps ==
    ASSUME TypeOK, MutexesHeld, NEW w \in Workers,
           NEW c \in Conns, c = cur[w], ConnInv(c), Read(w)
    PROVE  Only(c)
  <1> USE DEF Read, connVars, pollVars
  <1>0. pc[w] = "read"
    OBVIOUS
  <1>1. ASSUME NEW d \in Conns, d # c PROVE Unmoved(d)
    BY <1>1 DEF Unmoved, TypeOK
  <1>2. UNCHANGED <<batch, sock, hup, expired, ioWatch, timerWatch, timer>>
    OBVIOUS
  <1>3. OthersStay(w) /\ pc'[w] \in {"process", "closetimer"} /\ cur'[w] = c
    BY DEF OthersStay, TypeOK
  <1> HIDE DEF Read, connVars, pollVars
  <1>4. ConnInv(c)'
    BY <1>0, <1>2, <1>3 DEF OthersStay
  <1>5. QED BY <1>0, <1>1, <1>4 DEF Only

LEMMA RearmKeeps ==
    ASSUME TypeOK, MutexesHeld, NEW w \in Workers, NEW request,
           NEW c \in Conns, c = cur[w], ConnInv(c),
           pc[w] = "process", Rearm(w, c, request)
    PROVE  Only(c)
  <1> USE DEF Rearm, peerVars
  <1>1. ASSUME NEW d \in Conns, d # c PROVE Unmoved(d)
    BY <1>1 DEF Unmoved, TypeOK
  <1>2. /\ UNCHANGED <<batch, sock, hup, expired, ioWatch, timerWatch>>
        /\ timer'[c] = "armed"
    BY DEF TypeOK
  <1>3. OthersStay(w) /\ pc'[w] = "modify" /\ cur'[w] = c
    BY DEF OthersStay, TypeOK
  <1> HIDE DEF Rearm, peerVars
  <1>4. ConnInv(c)'
    BY <1>2, <1>3 DEF OthersStay
  <1>5. QED BY <1>1, <1>4 DEF Only

LEMMA FinishKeeps ==
    ASSUME TypeOK, MutexesHeld, NEW w \in Workers,
           NEW c \in Conns, c = cur[w], ConnInv(c),
           Finish(w) \/ ProcessFails(w)
    PROVE  Only(c)
  <1> USE DEF Finish, ProcessFails, connVars, pollVars, peerVars
  <1>0. pc[w] = "process"
    OBVIOUS
  <1>1. ASSUME NEW d \in Conns, d # c PROVE Unmoved(d)
    BY <1>1 DEF Unmoved, TypeOK
  <1>2. UNCHANGED <<batch, sock, hup, expired, ioWatch, timerWatch, timer>>
    OBVIOUS
  <1>3. OthersStay(w) /\ pc'[w] = "closetimer" /\ cur'[w] = c
    BY DEF OthersStay, TypeOK
  <1> HIDE DEF Finish, ProcessFails, connVars, pollVars, peerVars
  <1>4. ConnInv(c)'
    BY <1>0, <1>2, <1>3 DEF OthersStay
  <1>5. QED BY <1>0, <1>1, <1>4 DEF Only

\* EPOLL_CTL_MOD either re-enables the IO socket, and the connection is watched
\* again or a timeout of it is fetched, or a timeout's worker has it already.
LEMMA ModifyKeeps ==
    ASSUME TypeOK, MutexesHeld, NEW w \in Workers,
           NEW c \in Conns, c = cur[w], ConnInv(c), Modify(w)
    PROVE  Only(c)
  <1> USE DEF Modify, peerVars
  <1>0. pc[w] = "modify"
    OBVIOUS
  <1>1. ASSUME NEW d \in Conns, d # c PROVE Unmoved(d)
    BY <1>0, <1>1, ConnsAssumption, saved[c] = local[w] \/ saved[c] # local[w]
    DEF Unmoved, TypeOK
  <1>2. /\ UNCHANGED <<batch, sock, hup, expired, timerWatch, timer>>
        /\ ioWatch'[c] = IF ioWatch[c] = "none" THEN "none" ELSE "armed"
    BY <1>0 DEF TypeOK
  <1>3. OthersStay(w) /\ cur'[w] # c
    BY ConnsAssumption, saved[c] = local[w] \/ saved[c] # local[w] DEF OthersStay, TypeOK
  <1> HIDE DEF Modify, peerVars
  <1>4. \A v \in Workers : cur'[v] = c <=> v # w /\ cur[v] = c
    BY <1>3 DEF OthersStay
  <1>5. \A v \in Workers : v # w /\ cur[v] = c => pc[v] = "tgetreq" /\ pc'[v] = "tgetreq"
    BY <1>0, <1>3 DEF OthersStay
  <1>6. CASE ioWatch[c] = "none"
    <2>1. PICK v \in Workers : v # w /\ HeldAt(v, {"tgetreq"}, c)
      BY <1>0, <1>6
    <2>2. ConnInv(c)'
      BY <1>0, <1>2, <1>4, <1>5, <1>6, <2>1
    <2>3. QED BY <1>0, <1>1, <2>2 DEF Only
  <1>7. CASE ioWatch[c] # "none"
    <2>1. \A v \in Workers : cur[v] = c => v = w
      BY <1>0, <1>5, <1>7
    <2>2. NoHolder(c)' /\ ioWatch'[c] = "armed"
      BY <1>2, <1>4, <1>7, <2>1
    <2>3. \/ /\ timerWatch[c] = "armed" /\ ~expired[c] /\ ~EventOf(c)
          \/ <<"timer", c>> \in batch
      BY <1>0, <2>1
    <2>4. ConnInv(c)'
      BY <1>0, <1>2, <2>2, <2>3
    <2>5. QED BY <1>0, <1>1, <2>4 DEF Only
  <1>8. QED BY <1>6, <1>7

\* Resets and timeouts do not overlap, so getpeername succeeds and the worker
\* goes on to disconnect.  It waits for SetRequestHandle's mutex first.
LEMMA TimeoutGetRequestKeeps ==
    ASSUME TypeOK, MutexesHeld, NEW w \in Workers,
           NEW c \in Conns, c = cur[w], ConnInv(c), TimeoutGetRequest(w)
    PROVE  Only(c)
  <1> USE DEF TimeoutGetRequest, connVars, pollVars, peerVars
  <1>0. pc[w] = "tgetreq"
    OBVIOUS
  <1>1. CanPickRequest(c)
    BY <1>0 DEF CanPickRequest
  <1>2. pc' = [pc EXCEPT ![w] = "closetimer"] /\ cur' = cur
    BY <1>1
  <1>3. ASSUME NEW d \in Conns, d # c PROVE Unmoved(d)
    BY <1>2, <1>3 DEF Unmoved, TypeOK
  <1>4. UNCHANGED <<batch, sock, hup, expired, ioWatch, timerWatch, timer>>
    OBVIOUS
  <1>5. OthersStay(w) /\ pc'[w] = "closetimer" /\ cur'[w] = c
    BY <1>2 DEF OthersStay, TypeOK
  <1>6. \A v \in Workers : cur[v] = c => pc[v] # "modify"
    BY <1>0, WorkersAssumption DEF MutexesHeld
  <1> HIDE DEF TimeoutGetRequest, connVars, pollVars, peerVars
  <1>7. ConnInv(c)'
    BY <1>0, <1>4, <1>5, <1>6 DEF OthersStay
  <1>8. QED BY <1>0, <1>3, <1>7 DEF Only

LEMMA CloseTimerKeeps ==
    ASSUME TypeOK, MutexesHeld, NEW w \in Workers,
           NEW c \in Conns, c = cur[w], ConnInv(c), CloseTimer(w)
    PROVE  Only(c)
  <1> USE DEF CloseTimer, connVars, peerVars
  <1>0. pc[w] = "closetimer"
    OBVIOUS
  <1>1. timerWatch[c] # "none"
    BY <1>0
  <1>2. ASSUME NEW d \in Conns, d # c PROVE Unmoved(d)
    BY <1>1, <1>2 DEF Unmoved, TypeOK
  <1>3. /\ UNCHANGED <<batch, sock, hup, expired, ioWatch>>
        /\ timerWatch'[c] = "none" /\ timer'[c] = "off"
    BY <1>0, <1>1 DEF TypeOK
  <1>4. OthersStay(w) /\ pc'[w] = "closeio" /\ cur'[w] = c
    BY <1>1 DEF OthersStay, TypeOK
  <1> HIDE DEF CloseTimer, connVars, peerVars
  <1>5. ConnInv(c)'
    BY <1>0, <1>3, <1>4 DEF OthersStay
  <1>6. QED BY <1>0, <1>2, <1>5 DEF Only

LEMMA CloseIoKeeps ==
    ASSUME TypeOK, MutexesHeld, NEW w \in Workers,
           NEW c \in Conns, c = cur[w], ConnInv(c), CloseIo(w)
    PROVE  Only(c)
  <1> USE DEF CloseIo, connVars, peerVars
  <1>0. pc[w] = "closeio"
    OBVIOUS
  <1>1. ASSUME NEW d \in Conns, d # c PROVE Unmoved(d)
    BY <1>1 DEF Unmoved, TypeOK
  <1>2. /\ UNCHANGED <<batch, sock, hup, expired, timerWatch, timer>>
        /\ ioWatch'[c] = "none"
    BY <1>0 DEF TypeOK
  <1>3. OthersStay(w) /\ pc'[w] = "release" /\ cur'[w] = c
    BY DEF OthersStay, TypeOK
  <1> HIDE DEF CloseIo, connVars, peerVars
  <1>4. ConnInv(c)'
    BY <1>0, <1>2, <1>3 DEF OthersStay
  <1>5. QED BY <1>0, <1>1, <1>4 DEF Only

LEMMA ReleaseKeeps ==
    ASSUME TypeOK, MutexesHeld, NEW w \in Workers,
           NEW c \in Conns, c = cur[w], ConnInv(c), Release(w)
    PROVE  Only(c)
  <1> USE DEF Release, pollVars, peerVars
  <1>0. pc[w] = "release"
    OBVIOUS
  <1>1. ASSUME NEW d \in Conns, d # c PROVE Unmoved(d)
    BY <1>0, <1>1, ConnsAssumption DEF Unmoved, TypeOK
  <1>2. /\ UNCHANGED <<batch, hup, expired, ioWatch, timerWatch, timer>>
        /\ sock'[c] = "freed"
    BY <1>0 DEF TypeOK
  <1>3. OthersStay(w) /\ cur'[w] # c
    BY ConnsAssumption DEF OthersStay, TypeOK
  <1> HIDE DEF Release, pollVars, peerVars
  <1>4. NoHolder(c)'
    BY <1>0, <1>3 DEF OthersStay
  <1>5. ConnInv(c)'
    BY <1>0, <1>2, <1>4
  <1>6. QED BY <1>0, <1>1, <1>5 DEF Only

LEMMA FreeRequestHandleKeeps ==
    ASSUME TypeOK, MutexesHeld, NEW w \in Workers, FreeRequestHandle(w)
    PROVE  \A d \in Conns : Unmoved(d)
  BY DEF Unmoved, FreeRequestHandle, TypeOK, MutexesHeld, connVars, pollVars, peerVars

-----------------------------------------------------------------------------
(* The invariant. *)

LEMMA InitInv == Init => IInv
  <1> SUFFICES ASSUME Init PROVE IInv
    OBVIOUS
  <1>1. ASSUME NEW c \in Conns PROVE ConnInv(c)
    BY <1>1, ConnsAssumption DEF Init
  <1>2. QED BY <1>1, InitType, InitLocks DEF IInv

HIDE DEF ConnInv

LEMMA DispatchKeeps ==
    ASSUME IInv, NEW w \in Workers, Dispatch(w)
    PROVE  \A d \in Conns : ConnInv(d)'
  <1> USE DEF IInv
  <1>1. CASE AcceptFails(w)
    BY <1>1, AcceptFailsKeeps, UnmovedKeeps
  <1>2. ASSUME NEW c \in Conns,
               \/ AcceptAborts(w, c) \/ AcceptConnection(w, c)
               \/ DispatchHangup(w, c) \/ DispatchTimeout(w, c)
               \/ DispatchHandshakeTimeout(w, c) \/ DispatchData(w, c)
               \/ DispatchHandshake(w, c) \/ DispatchBadHandshake(w, c)
        PROVE  Only(c)
    <2>1. TypeOK /\ MutexesHeld /\ ConnInv(c)
      OBVIOUS
    <2>2. QED
      BY <1>2, <2>1, AcceptAbortsKeeps, AcceptConnectionKeeps, DispatchHangupKeeps,
         DispatchTimeoutKeeps, DispatchHandshakeTimeoutKeeps, DispatchDataKeeps,
         DispatchHandshakeKeeps, DispatchBadHandshakeKeeps
  <1>3. QED
    BY <1>1, <1>2, OnlyKeeps DEF Dispatch

LEMMA WorkerKeeps ==
    ASSUME ~TimersRaceResets, IInv, NEW w \in Workers, Serve(w) \/ Disconnect(w)
    PROVE  \A d \in Conns : ConnInv(d)'
  <1>1. CASE FreeRequestHandle(w)
    BY <1>1, FreeRequestHandleKeeps, UnmovedKeeps DEF IInv
  <1>2. CASE ~FreeRequestHandle(w)
    <2>1. PICK c \in Conns : c = cur[w]
      BY <1>2 DEF IInv, MutexesHeld, Serve, Disconnect, GetRequest, Read,
         AwaitMoreInput, KeepAlive, Finish, ProcessFails, Modify, TimeoutGetRequest, CloseTimer,
         CloseIo, Release
    <2>2. TypeOK /\ MutexesHeld /\ ConnInv(c)
      BY DEF IInv
    <2>3. CASE \/ GetRequest(w) \/ Read(w) \/ Finish(w) \/ ProcessFails(w)
               \/ Modify(w)
      BY <2>1, <2>2, <2>3, GetRequestKeeps, ReadKeeps, FinishKeeps, ModifyKeeps,
         OnlyKeeps
    <2>4. CASE AwaitMoreInput(w) \/ KeepAlive(w)
      BY <2>1, <2>2, <2>4, RearmKeeps, OnlyKeeps DEF AwaitMoreInput, KeepAlive
    <2>5. CASE Disconnect(w)
      BY <1>2, <2>1, <2>2, <2>5, TimeoutGetRequestKeeps, CloseTimerKeeps,
         CloseIoKeeps, ReleaseKeeps, OnlyKeeps DEF Disconnect
    <2>6. QED BY <2>3, <2>4, <2>5 DEF Serve
  <1>3. QED BY <1>1, <1>2

LEMMA NextKeeps ==
    ASSUME ~TimersRaceResets, IInv, Next
    PROVE  IInv'
  <1>1. TypeOK /\ MutexesHeld /\ \A c \in Conns : ConnInv(c)
    BY DEF IInv
  <1>2. TypeOK' /\ MutexesHeld'
    BY <1>1, NextType, NextLocks
  <1>3. ASSUME NEW w \in Workers, LockQueue(w) PROVE \A d \in Conns : ConnInv(d)'
    BY <1>1, <1>3, LockQueueKeeps, UnmovedKeeps
  <1>4. ASSUME NEW w \in Workers, Poll(w) PROVE \A d \in Conns : ConnInv(d)'
    BY <1>1, <1>4, PollKeeps
  <1>5. ASSUME NEW c \in Conns, Peer(c) \/ TimerFire(c)
        PROVE  \A d \in Conns : ConnInv(d)'
    <2>1. CASE Send(c)
      BY <2>1, SendKeeps, UnmovedKeeps
    <2>2. CASE Connect(c) \/ Reset(c) \/ TimerFire(c)
      BY <1>1, <2>2, ConnectKeeps, ResetKeeps, TimerFireKeeps, OnlyKeeps
    <2>3. QED BY <1>5, <2>1, <2>2 DEF Peer
  <1>6. \A d \in Conns : ConnInv(d)'
    BY <1>3, <1>4, <1>5, DispatchKeeps, WorkerKeeps DEF Next
  <1>7. QED BY <1>2, <1>6 DEF IInv

LEMMA StutterKeeps ==
    ASSUME IInv, UNCHANGED vars
    PROVE  IInv'
  <1>1. TypeOK' /\ MutexesHeld'
    BY DEF IInv, TypeOK, MutexesHeld, vars, workerVars, connVars, pollVars, peerVars
  <1>2. \A d \in Conns : Unmoved(d)
    BY DEF Unmoved, vars, workerVars, connVars, pollVars, peerVars
  <1>3. QED BY <1>1, <1>2, UnmovedKeeps DEF IInv

\* Every connection is, in every reachable state, in one of the situations that
\* ConnInv lists, whatever the peers do, in whatever batches epoll_wait returns
\* events and whenever timers expire, short of a timeout and a reset at once.
THEOREM ConnectionsInOrder ==
    ASSUME ~TimersRaceResets
    PROVE  Spec => []IInv
  <1>1. IInv /\ [Next]_vars => IInv'
    <2>1. CASE Next
      BY <2>1, NextKeeps
    <2>2. QED BY <2>1, StutterKeeps
  <1>2. QED BY <1>1, InitInv, PTL DEF Spec

\* A freed VM_SOCKET is out of every worker's hands, out of the fetched batch
\* and out of epoll: CloseSocket and ReleaseSocket run exactly once and last.
THEOREM FreedIsForgotten ==
    ASSUME ~TimersRaceResets
    PROVE  Spec => []NoUseAfterFree
  <1>1. IInv => NoUseAfterFree
    <2> SUFFICES ASSUME IInv, NEW c \in Conns, sock[c] = "freed"
                 PROVE  /\ NoHolder(c) /\ ~EventOf(c)
                        /\ ioWatch[c] = "none" /\ timerWatch[c] = "none"
                        /\ sockOwner[c] = NoWorker
      BY DEF NoUseAfterFree
    <2>1. NoHolder(c) /\ ~EventOf(c) /\ ioWatch[c] = "none" /\ timerWatch[c] = "none"
      BY DEF IInv, ConnInv
    <2>2. sockOwner[c] = NoWorker
      BY <2>1 DEF IInv, TypeOK, MutexesHeld
    <2>3. QED BY <2>1, <2>2
  <1>2. QED BY <1>1, ConnectionsInOrder, PTL

\* One worker at a time handles a connection, and the one overlap, a timeout
\* inside SetRequestHandle, is kept apart by the socket's mutex.
THEOREM ConnectionHasOneWorker ==
    ASSUME ~TimersRaceResets
    PROVE  Spec => []OneWorkerPerConnection
  <1>1. IInv => OneWorkerPerConnection
    <2> SUFFICES ASSUME IInv, NEW v \in Workers, NEW w \in Workers,
                        v # w, cur[v] = cur[w], cur[v] # NoConn
                 PROVE  \/ pc[v] = "modify" /\ pc[w] = "tgetreq" /\ sockOwner[cur[v]] = v
                        \/ pc[w] = "modify" /\ pc[v] = "tgetreq" /\ sockOwner[cur[v]] = w
      BY DEF OneWorkerPerConnection
    <2>1. PICK c \in Conns : c = cur[v] /\ c = cur[w]
      BY DEF IInv, TypeOK
    <2>2. AloneInv(c)
      BY DEF IInv, ConnInv
    <2>3. QED BY <2>1, <2>2 DEF IInv, MutexesHeld
  <1>2. QED BY <1>1, ConnectionsInOrder, PTL

\* No timer runs and no event is pending for a connection whose request is
\* being read, parsed or answered.
THEOREM ServiceIsAlone ==
    ASSUME ~TimersRaceResets
    PROVE  Spec => []ServiceIsUndisturbed
  <1>1. IInv => ServiceIsUndisturbed
    <2> SUFFICES ASSUME IInv, NEW w \in Workers, pc[w] \in Serving
                 PROVE  /\ timer[cur[w]] = "off" /\ ioWatch[cur[w]] = "disabled"
                        /\ ~EventOf(cur[w])
      BY DEF ServiceIsUndisturbed
    <2>1. PICK c \in Conns : c = cur[w]
      BY DEF IInv, MutexesHeld
    <2>2. ServingInv(c)
      BY DEF IInv, ConnInv
    <2>3. QED BY <2>1, <2>2
  <1>2. QED BY <1>1, ConnectionsInOrder, PTL

\* A live connection always has somebody, or a running timer, to end it.
THEOREM NoConnectionIsLost ==
    ASSUME ~TimersRaceResets
    PROVE  Spec => []NoLostConnection
  <1>1. IInv => NoLostConnection
    <2> SUFFICES ASSUME IInv, NEW c \in Conns, sock[c] = "live",
                        NoHolder(c), ~EventOf(c)
                 PROVE  timerWatch[c] = "armed" /\ timer[c] # "off"
      BY DEF NoLostConnection
    <2>1. WatchedInv(c)
      BY DEF IInv, ConnInv
    <2>2. QED BY <2>1
  <1>2. QED BY <1>1, ConnectionsInOrder, PTL

\* PreProcessTimeouts' promise: no worker begins to serve a connection whose
\* timer has expired.
THEOREM ExpiredAreLeft ==
    ASSUME ~TimersRaceResets
    PROVE  Spec => ExpiredIsNotServed
  <1> DEFINE Kept == \A w \in Workers : pc[w] = "waiting" /\ pc'[w] = "getreq"
                                           => ~expired'[cur'[w]]
  <1>1. IInv' => Kept
    <2> SUFFICES ASSUME IInv', NEW w \in Workers, pc'[w] = "getreq"
                 PROVE  ~expired'[cur'[w]]
      OBVIOUS
    <2>1. PICK c \in Conns : c = cur'[w]
      BY DEF IInv, MutexesHeld
    <2>2. ServingInv(c)'
      BY DEF IInv, ConnInv
    <2>3. QED BY <2>1, <2>2
  <1>2. []IInv => [][Kept]_vars
    BY <1>1, PTL
  <1>3. QED BY <1>2, ConnectionsInOrder, PTL DEF ExpiredIsNotServed

=============================================================================
