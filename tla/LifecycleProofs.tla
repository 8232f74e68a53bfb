--------------------------- MODULE LifecycleProofs ---------------------------
(***************************************************************************)
(* Theorems about Lifecycle, for every number of worker threads, of        *)
(* requests and of seconds that VmRESTStop waits.                          *)
(***************************************************************************)
EXTENDS Lifecycle, FiniteSetTheorems, TLAPS

USE DEF Leaving, Exiting, Instance, ThreadCount, MayRetry, Signalled

LEMMA RemainingIsFinite ==
    /\ IsFiniteSet(Remaining)
    /\ Cardinality(Remaining) \in Nat
    /\ Cardinality(Remaining) = 0 <=> Remaining = {}
  <1>1. Remaining \subseteq Workers
    BY DEF Remaining
  <1>2. IsFiniteSet(Remaining)
    BY <1>1, FS_Subset, WorkersAssumption
  <1>3. QED BY <1>2, FS_CardinalityType, FS_EmptySet

LEMMA WorkersAreCounted == Cardinality(Workers) \in Nat
  BY WorkersAssumption, FS_CardinalityType

\* A step that moves worker w, and no other, between two program points on the
\* same side of the sign-off leaves the remaining workers as they are.
LEMMA SameRemaining ==
    ASSUME TypeOK, NEW w \in Workers, NEW label \in {"none", "idle", "polling", "busy"} \cup Leaving,
           pc' = [pc EXCEPT ![w] = label],
           pc[w] \in Leaving <=> label \in Leaving
    PROVE  Remaining' = Remaining
  BY DEF Remaining, TypeOK

-----------------------------------------------------------------------------
(* Types. *)

LEMMA InitType == Init => TypeOK
  <1> SUFFICES ASSUME Init PROVE TypeOK
    OBVIOUS
  <1>1. /\ app = "init" /\ instance = "UNINITIALIZED" /\ listener = "none"
        /\ handle = "none" /\ queue = "none" /\ thrCnt = 0
    BY DEF Init
  <1>2. inUse \in BOOLEAN /\ bShutdown \in BOOLEAN
    BY DEF Init
  <1>3. waited \in 0..WaitSeconds + 1 /\ arrived \in 0..MaxArrivals /\ pending \in 0..MaxArrivals
    BY BoundsAssumption DEF Init
  <1>4. /\ qOwner \in Workers \cup {NoWorker} /\ batch = {} /\ refused = {}
        /\ pc \in [Workers -> {"none", "idle", "polling", "busy"} \cup Leaving]
    BY DEF Init
  <1>5. QED BY <1>1, <1>2, <1>3, <1>4 DEF TypeOK

LEMMA AppType ==
    ASSUME TypeOK, VmRESTInit \/ Start \/ VmRESTStop \/ StopLibrary \/ VmRESTShutdown
    PROVE  TypeOK'
  <1> USE BoundsAssumption
  <1>1. CASE VmRESTInit
    BY <1>1 DEF TypeOK, VmRESTInit, queueVars, clientVars
  <1>2. CASE CreateEventQueue
    BY <1>2, WorkersAreCounted DEF TypeOK, CreateEventQueue, clientVars
  <1>3. CASE WatchListener \/ FinishStart \/ StartFails
    <2>1. CASE WatchListener
      BY <2>1 DEF TypeOK, WatchListener, queueVars, clientVars
    <2>2. CASE FinishStart
      BY <2>2 DEF TypeOK, FinishStart, queueVars, clientVars
    <2>3. CASE StartFails
      BY <2>3 DEF TypeOK, StartFails, queueVars, clientVars
    <2>4. QED BY <1>3, <2>1, <2>2, <2>3
  <1>4. ASSUME NEW w \in Workers, SpawnWorker(w) PROVE TypeOK'
    BY <1>4 DEF TypeOK, SpawnWorker, appVars, queueVars, clientVars
  <1>5. CASE VmRESTStop \/ VmRESTShutdown
    BY <1>5 DEF TypeOK, VmRESTStop, VmRESTShutdown, queueVars, clientVars
  <1>6. CASE CloseListener \/ SignalWorkers
    BY <1>6 DEF TypeOK, CloseListener, SignalWorkers, queueVars, clientVars
  <1>7. CASE WaitASecond
    BY <1>7 DEF TypeOK, WaitASecond, queueVars, clientVars
  <1>8. CASE StopClean \/ StopFails
    BY <1>8 DEF TypeOK, StopClean, StopFails, queueVars, clientVars
  <1>9. QED
    BY <1>1, <1>2, <1>3, <1>4, <1>5, <1>6, <1>7, <1>8 DEF Start, StopLibrary

LEMMA ServiceType ==
    ASSUME IInv,
           Arrive \/ \E w \in Workers : LockQueue(w) \/ Poll(w) \/ Work(w) \/ Leave(w)
    PROVE  TypeOK'
  <1> USE BoundsAssumption
  <1>1. TypeOK /\ pending <= arrived /\ ("request" \in batch => pending > 0)
    BY DEF IInv
  <1>2. CASE Arrive
    BY <1>1, <1>2 DEF TypeOK, Arrive, appVars, queueVars
  <1>3. ASSUME NEW w \in Workers, LockQueue(w) \/ Poll(w) PROVE TypeOK'
    <2>1. CASE LockQueue(w)
      BY <1>1, <2>1 DEF TypeOK, LockQueue, appVars, queueVars, clientVars
    <2>2. CASE Poll(w)
      <3>1. batch' \subseteq {"signal", "request"}
        BY <2>2 DEF Poll
      <3>2. QED BY <1>1, <2>2, <3>1 DEF TypeOK, Poll, appVars, queueVars, clientVars
    <2>3. QED BY <1>3, <2>1, <2>2
  <1>4. ASSUME NEW w \in Workers, DispatchRequest(w) PROVE TypeOK'
    BY <1>1, <1>4 DEF TypeOK, DispatchRequest, appVars, queueVars
  <1>5. ASSUME NEW w \in Workers, DispatchSignal(w) PROVE TypeOK'
    <2>1. w \in Remaining
      BY <1>5 DEF DispatchSignal, Remaining
    <2>2. queue # "none"
      BY <1>5 DEF IInv, CountInv, DispatchSignal
    <2>3. thrCnt \in Nat \ {0}
      BY <2>1, <2>2, RemainingIsFinite DEF IInv, CountInv
    <2>4. QED
      BY <1>1, <1>5, <2>3 DEF TypeOK, DispatchSignal, appVars, clientVars
  <1>6. ASSUME NEW w \in Workers, Answer(w) PROVE TypeOK'
    BY <1>1, <1>6 DEF TypeOK, Answer, appVars, queueVars, clientVars
  <1>7. ASSUME NEW w \in Workers, Leave(w) PROVE TypeOK'
    <2>1. CASE FreeEventQueue(w)
      <3>1. pc' \in [Workers -> {"none", "idle", "polling", "busy"} \cup Leaving]
        BY <1>1, <2>1 DEF TypeOK, FreeEventQueue
      <3>2. QED BY <1>1, <2>1, <3>1 DEF TypeOK, FreeEventQueue, appVars, clientVars
    <2>2. CASE ClearInUse(w)
      <3>1. pc' \in [Workers -> {"none", "idle", "polling", "busy"} \cup Leaving]
        BY <1>1, <2>2 DEF TypeOK, ClearInUse
      <3>2. inUse' \in BOOLEAN
        BY <2>2 DEF ClearInUse
      <3>3. /\ UNCHANGED <<app, instance, handle, listener, waited, qOwner, batch>>
            /\ UNCHANGED <<queue, bShutdown, thrCnt, arrived, pending, refused>>
        BY <2>2 DEF ClearInUse, appVars, clientVars
      <3>4. QED BY <1>1, <3>1, <3>2, <3>3 DEF TypeOK
    <2>3. CASE LastAccess(w)
      <3>1. pc' \in [Workers -> {"none", "idle", "polling", "busy"} \cup Leaving]
        BY <1>1, <2>3 DEF TypeOK, LastAccess
      <3>2. QED BY <1>1, <2>3, <3>1 DEF TypeOK, LastAccess, appVars, queueVars, clientVars
    <2>4. QED BY <1>7, <2>1, <2>2, <2>3 DEF Leave
  <1>8. QED BY <1>2, <1>3, <1>4, <1>5, <1>6, <1>7 DEF Work

-----------------------------------------------------------------------------
(* The invariant. *)

LEMMA InitInv == Init => IInv
  <1> SUFFICES ASSUME Init PROVE IInv
    OBVIOUS
  <1>1. TypeOK
    BY InitType
  <1>2. QED
    BY <1>1, WorkersAssumption DEF Init, IInv, CountInv, LastInv, InUseInv

Core == <<qOwner, pc, batch, arrived, pending>>

LEMMA AppKeeps ==
    ASSUME IInv, VmRESTInit \/ Start \/ VmRESTStop \/ StopLibrary \/ VmRESTShutdown
    PROVE  IInv'
  <1>1. TypeOK'
    BY AppType DEF IInv
  <1> USE DEF IInv, CountInv, LastInv, InUseInv
  <1>2. CASE CreateEventQueue
    <2>1. Remaining' = Workers
      BY <1>2 DEF CreateEventQueue, Remaining, TypeOK
    <2>2. QED
      BY <1>1, <1>2, <2>1 DEF CreateEventQueue, clientVars
  <1>3. ASSUME NEW w \in Workers, SpawnWorker(w) PROVE IInv'
    <2>1. Remaining' = Remaining
      BY <1>3, SameRemaining DEF SpawnWorker
    <2>2. /\ pc[w] = "none" /\ pc' = [pc EXCEPT ![w] = "idle"] /\ app = "spawning"
          /\ UNCHANGED <<appVars, queueVars, qOwner, batch, clientVars>>
      BY <1>3 DEF SpawnWorker
    <2>3. QED
      BY <1>1, <2>1, <2>2 DEF TypeOK, appVars, queueVars, clientVars
  <1>4. ASSUME UNCHANGED <<queue, inUse, thrCnt, Core>>,
               \/ VmRESTInit \/ WatchListener \/ FinishStart \/ StartFails
               \/ VmRESTStop \/ CloseListener \/ SignalWorkers \/ WaitASecond
               \/ StopFails \/ StopClean \/ VmRESTShutdown
        PROVE  IInv'
    <2>1. Remaining' = Remaining /\ UNCHANGED <<queue, inUse, thrCnt, pc, qOwner, batch>>
          /\ UNCHANGED <<arrived, pending>>
      BY <1>4 DEF Remaining, Core
    <2>2. (\A w \in Workers : qOwner = w <=> pc[w] = "polling")'
          /\ (pending <= arrived /\ ("request" \in batch => pending > 0))' /\ LastInv'
      BY <2>1
    <2>3. CountInv'
      BY <1>4, <2>1 DEF VmRESTInit, WatchListener, FinishStart, StartFails, VmRESTStop,
         CloseListener, SignalWorkers, WaitASecond, StopFails, StopClean, VmRESTShutdown
    <2>4. InUseInv'
      BY <1>4, <2>1 DEF VmRESTInit, WatchListener, FinishStart, StartFails, VmRESTStop,
         CloseListener, SignalWorkers, WaitASecond, StopFails, StopClean, VmRESTShutdown
    <2>5. QED BY <1>1, <2>2, <2>3, <2>4
  <1>5. QED
    <2>1. CASE CreateEventQueue \/ \E w \in Workers : SpawnWorker(w)
      BY <1>2, <1>3, <2>1
    <2>2. CASE \/ VmRESTInit \/ WatchListener \/ FinishStart \/ StartFails
               \/ VmRESTStop \/ CloseListener \/ SignalWorkers \/ WaitASecond
               \/ StopFails \/ StopClean \/ VmRESTShutdown
      <3>1. UNCHANGED <<queue, inUse, thrCnt, Core>>
        BY <2>2 DEF VmRESTInit, WatchListener, FinishStart, StartFails, VmRESTStop,
           CloseListener, SignalWorkers, WaitASecond, StopFails, StopClean,
           VmRESTShutdown, Core, queueVars, clientVars
      <3>2. QED BY <1>4, <2>2, <3>1
    <2>3. QED BY <2>1, <2>2 DEF Start, StopLibrary

LEMMA ServiceKeeps ==
    ASSUME IInv,
           Arrive \/ \E w \in Workers : LockQueue(w) \/ Poll(w) \/ Work(w) \/ Leave(w)
    PROVE  IInv'
  <1>1. TypeOK /\ TypeOK'
    BY ServiceType DEF IInv
  <1> USE DEF IInv, CountInv, LastInv, InUseInv
  <1>2. CASE Arrive
    <2>1. Remaining' = Remaining
      BY <1>2 DEF Remaining, Arrive
    <2>2. QED
      BY <1>1, <1>2, <2>1 DEF Arrive, appVars, queueVars, TypeOK
  <1>3. ASSUME NEW w \in Workers, LockQueue(w) PROVE IInv'
    <2>1. Remaining' = Remaining
      BY <1>1, <1>3, SameRemaining DEF LockQueue
    <2>2. QED
      BY <1>1, <1>3, <2>1, WorkersAssumption
      DEF LockQueue, appVars, queueVars, clientVars, TypeOK
  <1>4. ASSUME NEW w \in Workers, Poll(w) PROVE IInv'
    <2>1. Remaining' = Remaining
      BY <1>4 DEF Remaining, Poll
    <2>2. QED
      BY <1>1, <1>4, <2>1 DEF Poll, appVars, queueVars, clientVars, TypeOK
  <1>5. ASSUME NEW w \in Workers, DispatchRequest(w) PROVE IInv'
    <2>1. Remaining' = Remaining
      BY <1>1, <1>5, SameRemaining DEF DispatchRequest
    <2>2. QED
      BY <1>1, <1>5, <2>1, WorkersAssumption
      DEF DispatchRequest, appVars, queueVars, TypeOK
  <1>6. ASSUME NEW w \in Workers, DispatchSignal(w) PROVE IInv'
    <2>1. /\ pc[w] = "polling" /\ w \in Remaining
          /\ Remaining' = Remaining \ {w}
      BY <1>1, <1>6 DEF DispatchSignal, Remaining, TypeOK
    <2>2. \A v \in Workers : pc[v] \notin Exiting /\ queue = "live"
      BY <1>1, <1>6, <2>1 DEF TypeOK
    <2>3. thrCnt = Cardinality(Remaining) /\ thrCnt' = Cardinality(Remaining')
      BY <1>6, <2>1, <2>2, RemainingIsFinite, FS_RemoveElement DEF DispatchSignal
    <2>4. thrCnt' = 0 <=> Remaining' = {}
      BY <2>1, <2>3, RemainingIsFinite, FS_RemoveElement, FS_EmptySet
    <2>5. pc' = [pc EXCEPT ![w] = IF thrCnt' = 0 THEN "lastout" ELSE "gone"]
      BY <1>6 DEF DispatchSignal
    <2>6. QED
      BY <1>1, <1>6, <2>1, <2>2, <2>3, <2>4, <2>5, WorkersAssumption
      DEF DispatchSignal, appVars, clientVars, TypeOK
  <1>7. ASSUME NEW w \in Workers, Answer(w) PROVE IInv'
    <2>1. Remaining' = Remaining
      BY <1>1, <1>7, SameRemaining DEF Answer
    <2>2. QED
      BY <1>1, <1>7, <2>1 DEF Answer, appVars, queueVars, clientVars, TypeOK
  <1>8. ASSUME NEW w \in Workers, FreeEventQueue(w) PROVE IInv'
    <2>1. Remaining' = Remaining
      BY <1>1, <1>8, SameRemaining DEF FreeEventQueue
    <2>2. QED
      BY <1>1, <1>8, <2>1 DEF FreeEventQueue, appVars, clientVars, TypeOK
  <1>9. ASSUME NEW w \in Workers, ClearInUse(w) PROVE IInv'
    <2>1. Remaining' = Remaining
      BY <1>1, <1>9, SameRemaining DEF ClearInUse
    <2>2. QED
      BY <1>1, <1>9, <2>1 DEF ClearInUse, appVars, clientVars, TypeOK
  <1>10. ASSUME NEW w \in Workers, LastAccess(w) PROVE IInv'
    <2>1. Remaining' = Remaining
      BY <1>1, <1>10, SameRemaining DEF LastAccess
    <2>2. QED
      BY <1>1, <1>10, <2>1 DEF LastAccess, appVars, queueVars, clientVars, TypeOK
  <1>11. QED
    BY <1>2, <1>3, <1>4, <1>5, <1>6, <1>7, <1>8, <1>9, <1>10 DEF Work, Leave

LEMMA NextKeeps == IInv /\ [Next]_vars => IInv'
  <1>1. CASE UNCHANGED vars
    BY <1>1 DEF IInv, CountInv, LastInv, InUseInv, TypeOK, Remaining, vars,
                appVars, queueVars, clientVars
  <1>2. QED
    BY <1>1, AppKeeps, ServiceKeeps DEF Next

\* Workers that remain are counted in thrCnt, the last one out is alone, and
\* bQueueInUse covers the queue's whole life: in every reachable state.
THEOREM WorkersAreAccounted == Spec => []IInv
  BY InitInv, NextKeeps, PTL DEF Spec

\* The last worker frees the event queue and its mutex only when no other can
\* take the mutex any more, whatever the number of workers.
THEOREM QueueIsSafe == Spec => []QueueOutlivesWorkers
  <1>1. IInv => QueueOutlivesWorkers
    <2> SUFFICES ASSUME IInv, queue = "freed"
                 PROVE  /\ qOwner = NoWorker
                        /\ \A w \in Workers : pc[w] \in {"announce", "sslcheck", "gone"}
      BY DEF QueueOutlivesWorkers
    <2>1. \A w \in Workers : pc[w] \in {"announce", "sslcheck", "gone"}
      BY DEF IInv, LastInv, Remaining, TypeOK
    <2>2. QED BY <2>1 DEF IInv, TypeOK
  <1>2. QED BY <1>1, WorkersAreAccounted, PTL

\* A stop that reports success leaves no worker in the library, but for one on
\* its way out behind the clearing of bQueueInUse.
THEOREM CleanStopIsSafe == Spec => []CleanStopIsClean
  <1>1. IInv => CleanStopIsClean
    <2> SUFFICES ASSUME IInv, app = "stopped"
                 PROVE  /\ queue = "freed"
                        /\ \A w \in Workers : pc[w] \in {"sslcheck", "gone"}
                        /\ Cardinality({w \in Workers : pc[w] = "sslcheck"}) <= 1
      BY DEF CleanStopIsClean
    <2>1. queue = "freed" /\ ~inUse
      BY DEF IInv, InUseInv
    <2>2. \A w \in Workers : pc[w] \in {"sslcheck", "gone"}
      BY <2>1 DEF IInv, LastInv, InUseInv, Remaining, TypeOK
    <2> DEFINE last == {w \in Workers : pc[w] = "sslcheck"}
    <2>3. Cardinality(last) <= 1
      <3>1. CASE last = {}
        BY <3>1, FS_EmptySet
      <3>2. CASE last # {}
        <4>1. PICK w \in Workers : pc[w] = "sslcheck"
          BY <3>2
        <4>2. last = {w}
          BY <4>1 DEF IInv, LastInv
        <4>3. QED BY <4>2, FS_Singleton
      <3>3. QED BY <3>1, <3>2
    <2>4. QED BY <2>1, <2>2, <2>3
  <1>2. QED BY <1>1, WorkersAreAccounted, PTL

\* An application that heeds a failed stop and does not shut down then frees the
\* handle only when no worker serves a connection or takes the queue's mutex.
THEOREM HandleIsSafe ==
    ASSUME HeedsFailure
    PROVE  Spec => []HandleOutlivesService
  <1>1. IInv => HandleOutlivesService
    BY DEF IInv, LastInv, InUseInv, Remaining, TypeOK, HandleOutlivesService
  <1>2. QED BY <1>1, WorkersAreAccounted, PTL

=============================================================================
