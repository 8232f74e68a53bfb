------------------------------- MODULE Endpoints -------------------------------
(***************************************************************************)
(* The registry of endpoints (restengine/restProtocolHead.c and the calls  *)
(* VmRESTRegisterHandler, VmRESTFindEndpoint, VmRESTUnRegisterHandler and  *)
(* VmRESTShutdown of restengine/libmain.c): a linked list whose changes    *)
(* are made under a mutex and which VmRestEngineGetEndPoint walks without  *)
(* it.  A walk is one action per node; what is done under the mutex is one *)
(* action.  Threads of the application call the library, its workers look  *)
(* up the endpoints of requests.                                           *)
(***************************************************************************)
EXTENDS UriMatch

CONSTANTS Callers,    \* threads of the application
          Workers,    \* threads of the library
          Nodes,      \* memory for REST_ENDPOINT objects
          Uris, Requests, Handlers, None, NotFound, Rejected,  \* see Registry
          UsesFind,   \* the application calls VmRESTFindEndpoint
          UsesDirect, \* ... and registers a handler without an endpoint
          HeedsStop   \* ... and frees nothing before all workers are gone

Threads == Callers \cup Workers

ASSUME ThreadsDiffer == Callers \cap Workers = {}
ASSUME NoneIsNoNode == None \notin Nodes /\ None \notin Requests /\ None \notin Uris
ASSUME Environment == {UsesFind, UsesDirect, HeedsStop} \subseteq BOOLEAN

VARIABLES
  instanceState,  \* VMREST_HANDLE.instanceState
  useEndPoint,    \* pInstanceGlobal->useEndPoint
  pHttpHandler,   \* "none", "direct" or "engine" (the internal handler)
  head,           \* pInstanceGlobal->pEndPointQueue
  next,           \* REST_ENDPOINT.next
  uriOf,          \* REST_ENDPOINT.pszEndPointURI
  live,           \* the allocated REST_ENDPOINT objects
  running,        \* the workers that have not left
  pc,             \* what a thread is doing
  arg,            \* the URI or the request it does it for
  cur,            \* temp: the object a thread points to
  answer          \* what a worker's last request got

listVars == <<head, next, uriOf, live>>
threadVars == <<pc, arg, cur>>
vars == <<instanceState, useEndPoint, pHttpHandler, listVars, running, threadVars, answer>>

States == {"INITIALIZED", "STARTED", "STOPPED", "SHUTDOWN"}
Steps == {"idle", "init", "register", "find", "lookup", "free"}

TypeOK ==
  /\ instanceState \in States
  /\ useEndPoint \in BOOLEAN
  /\ pHttpHandler \in {"none", "direct", "engine"}
  /\ head \in Nodes \cup {None}
  /\ next \in [Nodes -> Nodes \cup {None}]
  /\ uriOf \in [Nodes -> Uris \cup {None}]
  /\ live \subseteq Nodes
  /\ running \subseteq Workers
  /\ pc \in [Threads -> Steps]
  /\ \A w \in Workers : pc[w] \in {"idle", "lookup"}
  /\ DOMAIN arg = Threads
  /\ \A c \in Callers : arg[c] \in Uris \cup {None}
  /\ \A w \in Workers : arg[w] \in Requests \cup {None}
  /\ cur \in [Threads -> Nodes \cup {None}]

Init ==
  /\ instanceState = "INITIALIZED"
  /\ useEndPoint = FALSE
  /\ pHttpHandler = "none"
  /\ head = None
  /\ next = [n \in Nodes |-> None]
  /\ uriOf = [n \in Nodes |-> None]
  /\ live = {}
  /\ running = {}
  /\ pc = [t \in Threads |-> "idle"]
  /\ arg = [t \in Threads |-> None]
  /\ cur = [t \in Threads |-> None]
  /\ answer = [w \in Workers |-> None]

\* The objects from x on: those in every set that holds x and, with an
\* object, the next one.
From(x) ==
  {n \in Nodes :
     /\ x # None
     /\ \A S \in SUBSET Nodes : (x \in S /\ \A m \in S : next[m] \in S \cup {None}) => n \in S}

Reachable == From(head)

Goto(t, step, argument, node) ==
  /\ pc' = [pc EXCEPT ![t] = step]
  /\ arg' = [arg EXCEPT ![t] = argument]
  /\ cur' = [cur EXCEPT ![t] = node]

Return(t) == Goto(t, "idle", None, None)

-----------------------------------------------------------------------------
(* VmRestEngineGetEndPoint, without the mutex.                             *)

\* The string that is compared: a URI, or the path of a request.
Wanted(t) ==
  IF t \in Callers THEN arg[t]
  ELSE CHOOSE p \in GetEndPointURIfromRequestURI(DecodeEncodedURLString(arg[t].uri)) : TRUE

Walking(t) == pc[t] \in {"register", "find", "lookup"}

\* Faulty variant of Found: the request is never taken for the pattern.
FoundOneWay(t) == cur[t] # None /\ MatchEndPointURI(uriOf[cur[t]], Wanted(t))

Found(t) == cur[t] # None /\ Matches(uriOf[cur[t]], Wanted(t))

\* Faulty variant of Advance: the last object leads back to the first.
AdvanceAround(t) ==
  /\ Walking(t) /\ cur[t] # None /\ ~Found(t)
  /\ cur' = [cur EXCEPT ![t] = IF next[@] = None THEN head ELSE next[@]]
  /\ UNCHANGED <<instanceState, useEndPoint, pHttpHandler, listVars, running, pc, arg, answer>>

Advance(t) ==
  /\ Walking(t) /\ cur[t] # None /\ ~Found(t)
  /\ cur' = [cur EXCEPT ![t] = next[cur[t]]]
  /\ UNCHANGED <<instanceState, useEndPoint, pHttpHandler, listVars, running, pc, arg, answer>>

-----------------------------------------------------------------------------
(* VmRESTRegisterHandler.                                                  *)

\* pHttpHandler keeps the first handler that is registered.
HttpRegister(kind) ==
  pHttpHandler' = IF pHttpHandler = "none" THEN kind ELSE pHttpHandler

RegisterDirect(c) ==
  /\ UsesDirect
  /\ pc[c] = "idle" /\ instanceState = "INITIALIZED"
  /\ HttpRegister("direct")
  /\ UNCHANGED <<instanceState, useEndPoint, listVars, running, threadVars, answer>>

RegisterEndpoint(c, u) ==
  /\ pc[c] = "idle" /\ instanceState = "INITIALIZED"
  /\ IF useEndPoint THEN Goto(c, "register", u, head) ELSE Goto(c, "init", u, None)
  /\ UNCHANGED <<instanceState, useEndPoint, pHttpHandler, listVars, running, answer>>

\* VmRestEngineInitEndPointRegistration.
InitEndPointRegistration(c) ==
  /\ pc[c] = "init"
  /\ head' = None /\ useEndPoint' = TRUE
  /\ Goto(c, "register", arg[c], None)
  /\ UNCHANGED <<instanceState, pHttpHandler, next, uriOf, live, running, answer>>

EndpointExists(c) ==
  /\ pc[c] = "register" /\ Found(c)
  /\ Return(c)
  /\ UNCHANGED <<instanceState, useEndPoint, pHttpHandler, listVars, running, answer>>

\* The new object is filled and appended behind the last one.
AddEndpoint(c) ==
  /\ pc[c] = "register" /\ cur[c] = None
  /\ \E n \in Nodes \ live :
       /\ live' = live \cup {n}
       /\ uriOf' = [uriOf EXCEPT ![n] = arg[c]]
       /\ IF head = None
          THEN head' = n /\ next' = [next EXCEPT ![n] = None]
          ELSE \E last \in Reachable :
                 /\ next[last] = None
                 /\ next' = [next EXCEPT ![n] = None, ![last] = n]
                 /\ UNCHANGED head
  /\ HttpRegister("engine")
  /\ Return(c)
  /\ UNCHANGED <<instanceState, useEndPoint, running, answer>>

-----------------------------------------------------------------------------
(* VmRESTFindEndpoint.                                                     *)

FindEndpoint(c, u) ==
  /\ UsesFind
  /\ pc[c] = "idle" /\ instanceState # "SHUTDOWN"
  /\ Goto(c, "find", u, head)
  /\ UNCHANGED <<instanceState, useEndPoint, pHttpHandler, listVars, running, answer>>

\* The copy goes to the application.  The next pointer that is cleared is
\* the one of the registered object.
CopyEndpoint(c) ==
  /\ pc[c] = "find" /\ Found(c)
  /\ next' = [next EXCEPT ![cur[c]] = None]
  /\ Return(c)
  /\ UNCHANGED <<instanceState, useEndPoint, pHttpHandler, head, uriOf, live, running, answer>>

FindNothing(c) ==
  /\ pc[c] = "find" /\ cur[c] = None
  /\ Return(c)
  /\ UNCHANGED <<instanceState, useEndPoint, pHttpHandler, listVars, running, answer>>

-----------------------------------------------------------------------------
(* VmRESTUnRegisterHandler.                                                *)

MayFree == HeedsStop => running = {}

\* Faulty variant of RemoveEndpoint: the head is never changed.
RemoveBehindHead(c, u) ==
  /\ pc[c] = "idle" /\ instanceState = "STOPPED" /\ MayFree
  /\ \E n \in Reachable :
       /\ uriOf[n] = u
       /\ next' = [p \in Nodes |-> IF next[p] = n THEN next[n] ELSE next[p]]
       /\ Goto(c, "free", u, n)
  /\ UNCHANGED <<instanceState, useEndPoint, pHttpHandler, head, uriOf, live, running, answer>>

\* VmRestEngineRemoveEndpoint takes the object out of the list under the
\* mutex, and frees it after.
RemoveEndpoint(c, u) ==
  /\ pc[c] = "idle" /\ instanceState = "STOPPED" /\ MayFree
  /\ \E n \in Reachable :
       /\ uriOf[n] = u
       /\ IF n = head
          THEN head' = next[n] /\ UNCHANGED next
          ELSE \E prev \in Reachable :
                 /\ next[prev] = n
                 /\ next' = [next EXCEPT ![prev] = next[n]]
                 /\ UNCHANGED head
       /\ Goto(c, "free", u, n)
  /\ UNCHANGED <<instanceState, useEndPoint, pHttpHandler, uriOf, live, running, answer>>

FreeEndPoint(c) ==
  /\ pc[c] = "free"
  /\ live' = live \ {cur[c]}
  /\ Return(c)
  /\ UNCHANGED <<instanceState, useEndPoint, pHttpHandler, head, next, uriOf, running, answer>>

-----------------------------------------------------------------------------
(* The lifecycle, as far as the registry depends on it (see Lifecycle).    *)
(* These calls do not overlap other calls of the application.              *)

Alone == \A c \in Callers : pc[c] = "idle"

Start ==
  /\ Alone /\ instanceState = "INITIALIZED"
  /\ instanceState' = "STARTED" /\ running' = Workers
  /\ UNCHANGED <<useEndPoint, pHttpHandler, listVars, threadVars, answer>>

Stop ==
  /\ Alone /\ instanceState = "STARTED"
  /\ instanceState' = "STOPPED"
  /\ UNCHANGED <<useEndPoint, pHttpHandler, listVars, running, threadVars, answer>>

Leave(w) ==
  /\ w \in running /\ instanceState = "STOPPED" /\ pc[w] = "idle"
  /\ running' = running \ {w}
  /\ UNCHANGED <<instanceState, useEndPoint, pHttpHandler, listVars, threadVars, answer>>

\* Faulty variant of Shutdown: only the first object is freed.
ShutdownFirst ==
  /\ Alone /\ instanceState = "STOPPED" /\ MayFree
  /\ instanceState' = "SHUTDOWN"
  /\ live' = live \ {head}
  /\ head' = None /\ useEndPoint' = FALSE
  /\ UNCHANGED <<pHttpHandler, next, uriOf, running, threadVars, answer>>

\* VmRESTShutdown and VmRestEngineShutdownEndPointRegistration.
Shutdown ==
  /\ Alone /\ instanceState = "STOPPED" /\ MayFree
  /\ instanceState' = "SHUTDOWN"
  /\ live' = live \ Reachable
  /\ head' = None /\ useEndPoint' = FALSE
  /\ UNCHANGED <<pHttpHandler, next, uriOf, running, threadVars, answer>>

-----------------------------------------------------------------------------
(* VmRESTTriggerAppCb and VmRestEngineHandler.                             *)

Serves(w) == w \in running /\ pc[w] = "idle"

NoEngine(w) ==
  /\ Serves(w) /\ pHttpHandler # "engine"
  /\ answer' = [answer EXCEPT ![w] = pHttpHandler]
  /\ UNCHANGED <<instanceState, useEndPoint, pHttpHandler, listVars, running, threadVars>>

BadPath(w, r) ==
  /\ Serves(w) /\ pHttpHandler = "engine"
  /\ GetEndPointURIfromRequestURI(DecodeEncodedURLString(r.uri)) = {}
  /\ answer' = [answer EXCEPT ![w] = Rejected]
  /\ UNCHANGED <<instanceState, useEndPoint, pHttpHandler, listVars, running, threadVars>>

LookUp(w, r) ==
  /\ Serves(w) /\ pHttpHandler = "engine"
  /\ GetEndPointURIfromRequestURI(DecodeEncodedURLString(r.uri)) # {}
  /\ Goto(w, "lookup", r, head)
  /\ answer' = [answer EXCEPT ![w] = None]
  /\ UNCHANGED <<instanceState, useEndPoint, pHttpHandler, listVars, running>>

\* The parameters are parsed and the callback for the method is called,
\* through the pointer the walk has left.
Dispatch(w) ==
  /\ pc[w] = "lookup" /\ Found(w)
  /\ answer' = [answer EXCEPT ![w] =
       IF RequestParams(arg[w].uri) # {} /\ arg[w].method \in Handlers[uriOf[cur[w]]]
       THEN uriOf[cur[w]] ELSE Rejected]
  /\ Return(w)
  /\ UNCHANGED <<instanceState, useEndPoint, pHttpHandler, listVars, running>>

NoEndpoint(w) ==
  /\ pc[w] = "lookup" /\ cur[w] = None
  /\ answer' = [answer EXCEPT ![w] = NotFound]
  /\ Return(w)
  /\ UNCHANGED <<instanceState, useEndPoint, pHttpHandler, listVars, running>>

-----------------------------------------------------------------------------
CallerStep(c) ==
  \/ RegisterDirect(c) \/ InitEndPointRegistration(c) \/ EndpointExists(c)
  \/ AddEndpoint(c) \/ CopyEndpoint(c) \/ FindNothing(c) \/ FreeEndPoint(c)
  \/ \E u \in Uris : RegisterEndpoint(c, u) \/ FindEndpoint(c, u) \/ RemoveEndpoint(c, u)

WorkerStep(w) ==
  \/ Leave(w) \/ NoEngine(w) \/ Dispatch(w) \/ NoEndpoint(w)
  \/ \E r \in Requests : BadPath(w, r) \/ LookUp(w, r)

Next ==
  \/ \E t \in Threads : Advance(t)
  \/ \E c \in Callers : CallerStep(c)
  \/ \E w \in Workers : WorkerStep(w)
  \/ Start \/ Stop \/ Shutdown

Spec == Init /\ [][Next]_vars

\* A worker that looks up an endpoint goes on: no lock is waited for.
Fairness == \A w \in Workers : WF_vars(Advance(w) \/ Dispatch(w) \/ NoEndpoint(w))

FairSpec == Spec /\ Fairness

-----------------------------------------------------------------------------
(* The inductive invariants, for one caller that heeds a failed stop.       *)

\* The objects that are in the list, or were cut off from it by a Find.
Listed == live \ {cur[c] : c \in {d \in Callers : pc[d] = "free"}}

ListIsClosed ==
  instanceState # "SHUTDOWN" =>
    /\ head \in Listed \cup {None}
    /\ \A n \in Listed : next[n] \in Listed \cup {None}

\* Nothing is before the head, and no two objects have the same next one.
ListIsLinear ==
  instanceState # "SHUTDOWN" =>
    /\ \A n \in Listed : next[n] = head => head = None
    /\ \A m, n \in Listed : next[m] = next[n] => m = n \/ next[m] = None

WalksAreInList ==
  \A t \in Threads : Walking(t) /\ cur[t] # None => cur[t] \in Listed

\* Nobody serves when an endpoint is freed.
FreesAreAlone ==
  /\ \A w \in Workers : pc[w] = "lookup" => w \in running
  /\ \A c \in Callers : pc[c] = "free" => running = {} /\ cur[c] \in live
  /\ instanceState = "INITIALIZED" => running = {}
  /\ \A c \in Callers : pc[c] = "free" => instanceState = "STOPPED"
  /\ instanceState = "SHUTDOWN" => running = {} /\ \A c \in Callers : pc[c] = "idle"

\* VmRestEngineAddEndpoint refuses an endpoint that matches a registered
\* one in either direction, so no two in the list do.
EndpointsAreDistinct ==
  \A m, n \in Reachable : m # n => ~Matches(uriOf[m], uriOf[n])

\* What a registration has still to compare is in front of it.
CheckIsComplete ==
  \A c \in Callers : pc[c] = "register" =>
    \A m \in Reachable : Matches(uriOf[m], arg[c]) => m \in From(cur[c])

IInv == TypeOK /\ ListIsClosed /\ ListIsLinear /\ WalksAreInList /\ FreesAreAlone

DistinctInv == IInv /\ CheckIsComplete /\ EndpointsAreDistinct

\* Before the list is initialized, and after it is shut down, it is empty: what
\* VmRestEngineInitEndPointRegistration overwrites points to nothing.
EmptyUntilUsed ==
  /\ ~useEndPoint => head = None
  /\ \A c \in Callers : pc[c] = "init" => ~useEndPoint
  /\ \A c \in Callers : pc[c] = "register" => useEndPoint

\* The same for a lookup, which began with a path.
LookUpIsComplete ==
  \A w \in Workers : pc[w] = "lookup" =>
    /\ arg[w] \in Requests
    /\ GetEndPointURIfromRequestURI(DecodeEncodedURLString(arg[w].uri)) # {}
    /\ \A m \in Reachable : Matches(uriOf[m], Wanted(w)) => m \in From(cur[w])

RegistersBeforeStart ==
  \A c \in Callers : pc[c] \in {"init", "register"} => instanceState = "INITIALIZED" /\ arg[c] \in Uris

\* Without a direct handler, the engine serves whatever is registered.
EngineServes ==
  /\ pHttpHandler # "direct"
  /\ pHttpHandler = "none" => head = None

-----------------------------------------------------------------------------
(* Properties.                                                             *)

\* No thread follows a pointer to an endpoint that has been freed: neither
\* a walk without the mutex nor the callback after it (restProtocolHead.c
\* frees an endpoint outside the mutex).
NoUseAfterFree ==
  \A t \in Threads : Walking(t) /\ cur[t] # None => cur[t] \in live

\* An endpoint that is allocated can be reached, or is about to be freed:
\* what RegisterHandler has stored, UnRegisterHandler or Shutdown frees.
NothingLeaks ==
  live = Reachable \cup {cur[c] : c \in {d \in Callers : pc[d] = "free"}}

\* The inductive invariant behind it, for one caller and without Find.
LeakInv == IInv /\ EmptyUntilUsed /\ NothingLeaks /\ \A c \in Callers : pc[c] # "find"

\* The one behind ImplementsRegistry, without a direct handler too.
RefinementInv ==
  DistinctInv /\ LeakInv /\ LookUpIsComplete /\ RegistersBeforeStart /\ EngineServes

\* An endpoint that was registered gets the requests: none of them goes to
\* a handler that was registered without an endpoint.
EndpointsAreServed ==
  \A w \in Workers : answer[w] \in {"none", "direct"} => Reachable = {}

\* Every lookup ends.
RequestsAreAnswered ==
  \A w \in Workers : pc[w] = "lookup" ~> pc[w] = "idle"

\* The objects of the list in their order, and the sequence they stand for.
Objects ==
  CHOOSE s \in [1..Cardinality(Reachable) -> Reachable] :
    \A i \in DOMAIN s : s[i] = IF i = 1 THEN head ELSE next[s[i - 1]]

Chain == [i \in DOMAIN Objects |-> uriOf[Objects[i]]]

R == INSTANCE Registry WITH
       registered <- Chain,
       asked <- [w \in Workers |-> IF pc[w] = "lookup" THEN arg[w] ELSE None]

\* The list behaves as the registry: a walk of many steps is one lookup,
\* and nothing but a registration or its end changes what is registered.
ImplementsRegistry == R!RegistrySpec

=============================================================================
