------------------------------ MODULE Lifecycle ------------------------------
(***************************************************************************)
(* One library instance from VmRESTInit to VmRESTShutdown: the application *)
(* thread starts and stops the server, detached worker threads leave when  *)
(* they see the signal socket, and the last one frees the event queue.     *)
(* server/restengine/libmain.c, common/sockinterface.c and the shutdown    *)
(* branch of transport/posix/socket.c.  What a worker does for one event   *)
(* is EventLoop's matter; here an event is served in one step, except that *)
(* an application callback may take any time.                              *)
(***************************************************************************)
EXTENDS Naturals, FiniteSets

CONSTANTS
    Workers,          \* the nWorkerThr threads
    NoWorker,
    MaxArrivals,      \* bound: requests that clients send
    WaitSeconds,      \* VmRESTStop's waitSeconds
    HeedsFailure      \* the application shuts down only after a clean stop

ASSUME WorkersAssumption ==
    IsFiniteSet(Workers) /\ Workers # {} /\ NoWorker \notin Workers
ASSUME BoundsAssumption == MaxArrivals \in Nat /\ WaitSeconds \in Nat
ASSUME HeedsFailureAssumption == HeedsFailure \in BOOLEAN

VARIABLES
    app,         \* where the application thread is
    instance,    \* instanceState
    handle,      \* the VMREST_HANDLE and what VmRESTFreeHandle frees with it
    queue,       \* the event queue's memory
    inUse,       \* pSSLInfo->bQueueInUse
    bShutdown,   \* pQueue->bShutdown; the signal byte is written with it
    thrCnt,      \* pQueue->thrCnt
    listener,    \* the listening sockets
    waited,      \* retry of CloseEventQueue
    qOwner,      \* holder of pQueue->pMutex
    batch,       \* fetched events
    pc,          \* where each worker is
    arrived,     \* requests sent by clients, in all
    pending,     \* of these, requests not yet dispatched
    refused      \* instance states in which VmRESTSetData refused an answer

appVars == <<app, instance, handle, listener, waited>>
queueVars == <<queue, inUse, bShutdown, thrCnt>>
clientVars == <<arrived, pending>>
vars == <<appVars, queueVars, qOwner, batch, pc, clientVars, refused>>

Instance == {"UNINITIALIZED", "INITIALIZED", "STARTED", "STOPPED", "SHUTDOWN"}
Leaving == {"lastout", "announce", "sslcheck", "gone"}

TypeOK ==
    /\ app \in {"init", "ready", "queued", "spawning", "failed", "serving",
                "stopping", "unlistened", "waiting", "stopped", "dirty", "done"}
    /\ instance \in Instance
    /\ handle \in {"none", "live", "freed"}
    /\ queue \in {"none", "live", "freed"}
    /\ inUse \in BOOLEAN
    /\ bShutdown \in BOOLEAN
    /\ thrCnt \in Nat
    /\ listener \in {"none", "open", "watched", "closed", "freed"}
    /\ waited \in 0..WaitSeconds + 1
    /\ qOwner \in Workers \cup {NoWorker}
    /\ batch \subseteq {"signal", "request"}
    /\ pc \in [Workers -> {"none", "idle", "polling", "busy"} \cup Leaving]
    /\ arrived \in 0..MaxArrivals
    /\ pending \in 0..MaxArrivals
    /\ refused \subseteq Instance

Init ==
    /\ app = "init" /\ instance = "UNINITIALIZED"
    /\ handle = "none" /\ queue = "none"
    /\ inUse = FALSE /\ bShutdown = FALSE /\ thrCnt = 0
    /\ listener = "none" /\ waited = 0
    /\ qOwner = NoWorker /\ batch = {}
    /\ pc = [w \in Workers |-> "none"]
    /\ arrived = 0 /\ pending = 0
    /\ refused = {}

-----------------------------------------------------------------------------
(* The application thread. *)

VmRESTInit ==
    /\ app = "init"
    /\ handle' = "live"
    /\ instance' = "INITIALIZED"
    /\ app' = "ready"
    /\ UNCHANGED <<listener, waited, queueVars, qOwner, batch, pc, clientVars,
                   refused>>

\* What thrCnt is set to.  (The definitions named first, here and below, are
\* faulty variants that the runs detect.)
OneTooFew == Cardinality(Workers) - 1
ThreadCount == Cardinality(Workers)

\* VmRESTStart, first half: StartServer and CreateEventQueue.
CreateEventQueue ==
    /\ app = "ready" /\ instance = "INITIALIZED"
    /\ queue' = "live"
    /\ inUse' = TRUE
    /\ thrCnt' = ThreadCount
    /\ listener' = "open"
    /\ app' = "queued"
    /\ UNCHANGED <<instance, handle, waited, bShutdown, qOwner, batch, pc,
                   clientVars, refused>>

WatchListener ==
    /\ app = "queued"
    /\ listener' = "watched"
    /\ app' = "spawning"
    /\ UNCHANGED <<instance, handle, waited, queueVars, qOwner, batch, pc,
                   clientVars, refused>>

SpawnWorker(w) ==
    /\ app = "spawning" /\ pc[w] = "none"
    /\ pc' = [pc EXCEPT ![w] = "idle"]
    /\ UNCHANGED <<appVars, queueVars, qOwner, batch, clientVars, refused>>

\* pthread_create fails (or, after the last thread, the removal of the
\* temporary certificate): VmRESTStart returns an error and undoes nothing.
StartFails ==
    /\ app = "spawning"
    /\ app' = "failed"
    /\ UNCHANGED <<instance, handle, listener, waited, queueVars, qOwner, batch,
                   pc, clientVars, refused>>

\* The instance is marked STARTED after the workers have begun to serve.
FinishStart ==
    /\ app = "spawning" /\ \A w \in Workers : pc[w] # "none"
    /\ instance' = "STARTED"
    /\ app' = "serving"
    /\ UNCHANGED <<handle, listener, waited, queueVars, qOwner, batch, pc,
                   clientVars, refused>>

VmRESTStop ==
    /\ app = "serving" /\ instance = "STARTED"
    /\ instance' = "STOPPED"
    /\ app' = "stopping"
    /\ UNCHANGED <<handle, listener, waited, queueVars, qOwner, batch, pc,
                   clientVars, refused>>

CloseListener ==
    /\ app = "stopping"
    /\ listener' = "closed"
    /\ app' = "unlistened"
    /\ UNCHANGED <<instance, handle, waited, queueVars, qOwner, batch, pc,
                   clientVars, refused>>

\* CloseEventQueue: the signal socket stays readable, nobody reads the byte.
SignalWorkers ==
    /\ app = "unlistened"
    /\ bShutdown' = TRUE
    /\ app' = "waiting"
    /\ UNCHANGED <<instance, handle, listener, waited, queue, inUse, thrCnt,
                   qOwner, batch, pc, clientVars, refused>>

MayRetryLess == waited < WaitSeconds
MayRetry == waited <= WaitSeconds

WaitASecond ==
    /\ app = "waiting" /\ inUse /\ MayRetry
    /\ waited' = waited + 1
    /\ UNCHANGED <<app, instance, handle, listener, queueVars, qOwner, batch, pc,
                   clientVars, refused>>

StopUnchecked ==
    /\ app = "waiting"
    /\ listener' = "freed"
    /\ app' = "stopped"
    /\ UNCHANGED <<instance, handle, waited, queueVars, qOwner, batch, pc,
                   clientVars, refused>>

StopClean ==
    /\ app = "waiting" /\ ~inUse
    /\ listener' = "freed"
    /\ app' = "stopped"
    /\ UNCHANGED <<instance, handle, waited, queueVars, qOwner, batch, pc,
                   clientVars, refused>>

\* REST_ENGINE_FAILURE, logged as "Do not attempt shutdown".
StopFails ==
    /\ app = "waiting" /\ inUse /\ waited > WaitSeconds
    /\ app' = "dirty"
    /\ UNCHANGED <<instance, handle, listener, waited, queueVars, qOwner, batch,
                   pc, clientVars, refused>>

\* VmRESTShutdown asks for STOPPED only, which a failed stop has set too.
VmRESTShutdown ==
    /\ app \in IF HeedsFailure THEN {"stopped"} ELSE {"stopped", "dirty"}
    /\ instance = "STOPPED"
    /\ instance' = "SHUTDOWN"
    /\ handle' = "freed"
    /\ app' = "done"
    /\ UNCHANGED <<listener, waited, queueVars, qOwner, batch, pc, clientVars,
                   refused>>

-----------------------------------------------------------------------------
(* Clients and worker threads. *)

Arrive ==
    /\ listener = "watched" /\ arrived < MaxArrivals
    /\ arrived' = arrived + 1
    /\ pending' = pending + 1
    /\ UNCHANGED <<appVars, queueVars, qOwner, batch, pc, refused>>

LockQueue(w) ==
    /\ pc[w] = "idle" /\ qOwner = NoWorker
    /\ qOwner' = w
    /\ pc' = [pc EXCEPT ![w] = "polling"]
    /\ UNCHANGED <<appVars, queueVars, batch, clientVars, refused>>

\* The signal reader is watched level-triggered, so every epoll_wait reports it
\* again; watched one-shot it would be reported to one worker only.
SignalledOnce == bShutdown /\ \A w \in Workers : pc[w] \notin Leaving
Signalled == bShutdown

Poll(w) ==
    /\ pc[w] = "polling" /\ batch = {}
    /\ Signalled \/ pending > 0
    /\ batch' = {e \in {"signal", "request"} :
                    (e = "signal" /\ Signalled) \/ (e = "request" /\ pending > 0)}
    /\ UNCHANGED <<appVars, queueVars, qOwner, pc, clientVars, refused>>

DispatchRequest(w) ==
    /\ pc[w] = "polling" /\ "request" \in batch
    /\ batch' = batch \ {"request"}
    /\ pending' = pending - 1
    /\ qOwner' = NoWorker
    /\ pc' = [pc EXCEPT ![w] = "busy"]
    /\ UNCHANGED <<appVars, queueVars, arrived, refused>>

\* The worker signs off; the one that finds thrCnt at zero frees the queue.
DispatchSignal(w) ==
    /\ pc[w] = "polling" /\ "signal" \in batch /\ bShutdown
    /\ batch' = batch \ {"signal"}
    /\ qOwner' = NoWorker
    /\ thrCnt' = thrCnt - 1
    /\ pc' = [pc EXCEPT ![w] = IF thrCnt' = 0 THEN "lastout" ELSE "gone"]
    /\ UNCHANGED <<appVars, queue, inUse, bShutdown, clientVars, refused>>

\* The callback answers with VmRESTSetData, which wants a STARTED instance.
Answer(w) ==
    /\ pc[w] = "busy"
    /\ refused' = refused \cup ({instance} \ {"STARTED"})
    /\ pc' = [pc EXCEPT ![w] = "idle"]
    /\ UNCHANGED <<appVars, queueVars, qOwner, batch, clientVars>>

FreeEventQueue(w) ==
    /\ pc[w] = "lastout"
    /\ queue' = "freed"
    /\ pc' = [pc EXCEPT ![w] = "announce"]
    /\ UNCHANGED <<appVars, inUse, bShutdown, thrCnt, qOwner, batch, clientVars,
                   refused>>

ClearInUse(w) ==
    /\ pc[w] = "announce"
    /\ inUse' = FALSE
    /\ pc' = [pc EXCEPT ![w] = "sslcheck"]
    /\ UNCHANGED <<appVars, queue, bShutdown, thrCnt, qOwner, batch, clientVars,
                   refused>>

\* isSecure is read, and SecureSocketShutdown runs, after bQueueInUse is clear.
LastAccess(w) ==
    /\ pc[w] = "sslcheck"
    /\ pc' = [pc EXCEPT ![w] = "gone"]
    /\ UNCHANGED <<appVars, queueVars, qOwner, batch, clientVars, refused>>

-----------------------------------------------------------------------------

Start ==
    \/ CreateEventQueue \/ WatchListener \/ FinishStart \/ StartFails
    \/ \E w \in Workers : SpawnWorker(w)

StopLibrary ==
    CloseListener \/ SignalWorkers \/ WaitASecond \/ StopClean \/ StopFails

Work(w) == DispatchRequest(w) \/ DispatchSignal(w) \/ Answer(w)

Leave(w) == FreeEventQueue(w) \/ ClearInUse(w) \/ LastAccess(w)

Next ==
    \/ VmRESTInit \/ Start \/ VmRESTStop \/ StopLibrary \/ VmRESTShutdown
    \/ Arrive
    \/ \E w \in Workers : LockQueue(w) \/ Poll(w) \/ Work(w) \/ Leave(w)

Spec == Init /\ [][Next]_vars

\* VmRESTStop runs to its end: the application's thread is alive. Nothing
\* makes the application stop or shut down.
FairSpec == Spec /\ WF_vars(StopLibrary)

\* The other threads run, and the application's callbacks return.
WorkersRun ==
    /\ WF_vars(\E w \in Workers : LockQueue(w))
    /\ WF_vars(\E w \in Workers : Poll(w))
    /\ \A w \in Workers : WF_vars(Work(w)) /\ WF_vars(Leave(w))

-----------------------------------------------------------------------------
(* Properties *)

\* The queue and its mutex outlive every worker that could still lock it: by
\* the time the last worker frees them, all the others have signed off.
QueueOutlivesWorkers ==
    queue = "freed" =>
        /\ qOwner = NoWorker
        /\ \A w \in Workers : pc[w] \in {"announce", "sslcheck", "gone"}

\* A stop that reports success has left nobody on the listening sockets, the
\* queue or a connection; one worker may be past its clearing of bQueueInUse.
CleanStopIsClean ==
    app = "stopped" =>
        /\ queue = "freed"
        /\ \A w \in Workers : pc[w] \in {"sslcheck", "gone"}
        /\ Cardinality({w \in Workers : pc[w] = "sslcheck"}) <= 1

\* No worker can reach the handle once VmRESTShutdown has freed it.
HandleOutlivesWorkers ==
    handle = "freed" => \A w \in Workers : pc[w] = "gone"

\* The same but for the last worker's reading of isSecure.
HandleOutlivesService ==
    handle = "freed" => \A w \in Workers : pc[w] \in {"sslcheck", "gone"}

\* Answers are refused only because the library is stopping.
RefusedOnlyWhenStopping == refused \subseteq {"STOPPED", "SHUTDOWN"}

\* VmRESTStop returns whatever the workers do: all of them may hang in
\* callbacks, the wait is bounded.
StopReturns == app = "stopping" ~> app \in {"stopped", "dirty"}

\* Once the workers are signalled, each of them leaves, also those that were
\* busy, although the signal is a single byte; unless a callback hangs.
WorkersLeave ==
    WorkersRun => (bShutdown ~> \A w \in Workers : pc[w] = "gone")

-----------------------------------------------------------------------------
(* The inductive invariant behind QueueOutlivesWorkers, CleanStopIsClean and *)
(* HandleOutlivesService.                                                    *)

Exiting == {"lastout", "announce", "sslcheck"}
Remaining == {w \in Workers : pc[w] \notin Leaving}

\* thrCnt counts the workers that have not signed off; before the queue there
\* are no workers, and after the start there are no others.
CountInv ==
    /\ queue # "none" => thrCnt = Cardinality(Remaining)
    /\ queue = "none" <=> app \in {"init", "ready"}
    /\ queue = "none" => \A w \in Workers : pc[w] = "none"
    /\ app \notin {"init", "ready", "queued", "spawning", "failed"} =>
          \A w \in Workers : pc[w] # "none"

\* Whoever is between signing off as the last one and its return is alone.
LastInv ==
    /\ \A w \in Workers : pc[w] \in Exiting => Remaining = {}
    /\ \A v, w \in Workers : pc[v] \in Exiting /\ pc[w] \in Exiting => v = w
    /\ queue = "freed" => Remaining = {} /\ \A w \in Workers : pc[w] # "lastout"
    /\ \A w \in Workers : pc[w] \in {"announce", "sslcheck"} => queue = "freed"

\* bQueueInUse is cleared after the queue is freed, never before.
InUseInv ==
    /\ queue # "none" /\ ~inUse => queue = "freed"
    /\ \A w \in Workers : pc[w] = "announce" => inUse
    /\ app = "stopped" => queue = "freed" /\ ~inUse
    /\ handle = "freed" /\ HeedsFailure => queue = "freed" /\ ~inUse

IInv ==
    /\ TypeOK
    /\ \A w \in Workers : qOwner = w <=> pc[w] = "polling"
    /\ pending <= arrived /\ ("request" \in batch => pending > 0)
    /\ CountInv /\ LastInv /\ InUseInv

=============================================================================
