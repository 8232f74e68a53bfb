---------------------------- MODULE EndpointsProofs ----------------------------
(***************************************************************************)
(* The registry of endpoints is memory safe for any number of workers,     *)
(* endpoints and requests, provided that one thread of the application     *)
(* calls the library and that it frees nothing while workers run.  Without *)
(* VmRESTFindEndpoint it loses nothing, and without a direct handler it    *)
(* implements the abstract registry.                                       *)
(***************************************************************************)
EXTENDS Endpoints, FiniteSetTheorems, SequenceTheorems, WellFoundedInduction, TLAPS

\* The environment of the theorems.
GoodApplication == (\A c, d \in Callers : c = d) /\ HeedsStop

-----------------------------------------------------------------------------
\* Every step keeps the types.
LEMMA TypeStep == TypeOK /\ [Next]_vars => TypeOK'
<1> SUFFICES ASSUME TypeOK, [Next]_vars PROVE TypeOK'
  OBVIOUS
<1> USE NoneIsNoNode, ThreadsDiffer DEF TypeOK, Threads, States, Steps, Goto, Return, listVars, threadVars
<1>1. ASSUME NEW t \in Threads, Advance(t) PROVE TypeOK'
  BY <1>1 DEF Advance, Walking
<1>2. ASSUME NEW c \in Callers, RegisterDirect(c) PROVE TypeOK'
  BY <1>2 DEF RegisterDirect, HttpRegister
<1>3. ASSUME NEW c \in Callers, InitEndPointRegistration(c) PROVE TypeOK'
  BY <1>3 DEF InitEndPointRegistration
<1>4. ASSUME NEW c \in Callers, EndpointExists(c) PROVE TypeOK'
  BY <1>4 DEF EndpointExists
<1>5. ASSUME NEW c \in Callers, AddEndpoint(c) PROVE TypeOK'
  <2>1. PICK n \in Nodes \ live :
          /\ live' = live \cup {n}
          /\ uriOf' = [uriOf EXCEPT ![n] = arg[c]]
          /\ IF head = None
             THEN head' = n /\ next' = [next EXCEPT ![n] = None]
             ELSE \E last \in Reachable :
                    /\ next' = [next EXCEPT ![n] = None, ![last] = n]
                    /\ UNCHANGED head
    BY <1>5 DEF AddEndpoint
  <2>2. next' \in [Nodes -> Nodes \cup {None}] /\ head' \in Nodes \cup {None}
    BY <2>1
  <2>3. uriOf' \in [Nodes -> Uris \cup {None}] /\ live' \subseteq Nodes
    BY <2>1
  <2>4. pHttpHandler' \in {"none", "direct", "engine"}
    BY <1>5 DEF AddEndpoint, HttpRegister
  <2> QED
    BY <1>5, <2>2, <2>3, <2>4 DEF AddEndpoint
<1>6. ASSUME NEW c \in Callers, CopyEndpoint(c) PROVE TypeOK'
  BY <1>6 DEF CopyEndpoint
<1>7. ASSUME NEW c \in Callers, FindNothing(c) PROVE TypeOK'
  BY <1>7 DEF FindNothing
<1>8. ASSUME NEW c \in Callers, FreeEndPoint(c) PROVE TypeOK'
  BY <1>8 DEF FreeEndPoint
<1>9. ASSUME NEW c \in Callers, NEW u \in Uris, RegisterEndpoint(c, u) PROVE TypeOK'
  BY <1>9 DEF RegisterEndpoint
<1>10. ASSUME NEW c \in Callers, NEW u \in Uris, FindEndpoint(c, u) PROVE TypeOK'
  BY <1>10 DEF FindEndpoint
<1>11. ASSUME NEW c \in Callers, NEW u \in Uris, RemoveEndpoint(c, u) PROVE TypeOK'
  <2>1. PICK n \in Reachable :
          /\ IF n = head
             THEN head' = next[n] /\ UNCHANGED next
             ELSE \E prev \in Reachable : next' = [next EXCEPT ![prev] = next[n]] /\ UNCHANGED head
          /\ Goto(c, "free", u, n)
    BY <1>11 DEF RemoveEndpoint
  <2>2. n \in Nodes
    BY <2>1 DEF Reachable, From
  <2> QED
    BY <1>11, <2>1, <2>2 DEF RemoveEndpoint
<1>12. ASSUME NEW w \in Workers, Leave(w) PROVE TypeOK'
  BY <1>12 DEF Leave
<1>13. ASSUME NEW w \in Workers, NoEngine(w) PROVE TypeOK'
  BY <1>13 DEF NoEngine
<1>14. ASSUME NEW w \in Workers, Dispatch(w) PROVE TypeOK'
  BY <1>14 DEF Dispatch
<1>15. ASSUME NEW w \in Workers, NoEndpoint(w) PROVE TypeOK'
  BY <1>15 DEF NoEndpoint
<1>16. ASSUME NEW w \in Workers, NEW r \in Requests, BadPath(w, r) \/ LookUp(w, r) PROVE TypeOK'
  BY <1>16 DEF BadPath, LookUp
<1>17. CASE Start \/ Stop \/ Shutdown
  BY <1>17 DEF Start, Stop, Shutdown
<1>18. CASE UNCHANGED vars
  BY <1>18 DEF vars
<1> QED
  BY <1>1, <1>2, <1>3, <1>4, <1>5, <1>6, <1>7, <1>8, <1>9, <1>10, <1>11, <1>12, <1>13,
     <1>14, <1>15, <1>16, <1>17, <1>18 DEF Next, CallerStep, WorkerStep

-----------------------------------------------------------------------------
\* What is reached from the head is allocated and not about to be freed:
\* the set Listed is one of those that define Reachable.
LEMMA ReachableIsListed ==
  ASSUME TypeOK, ListIsClosed, instanceState # "SHUTDOWN" PROVE Reachable \subseteq Listed
<1> SUFFICES ASSUME NEW n \in Reachable PROVE n \in Listed
  OBVIOUS
<1>1. head # None /\ n \in Nodes
  BY DEF Reachable, From
<1>2. Listed \in SUBSET Nodes
  BY DEF Listed, TypeOK
<1>3. head \in Listed /\ \A m \in Listed : next[m] \in Listed \cup {None}
  BY <1>1 DEF ListIsClosed
<1> QED
  BY <1>2, <1>3 DEF Reachable, From

-----------------------------------------------------------------------------
\* The list changes in three steps of the application only; all others
\* leave the four list variables and the objects about to be freed alone.
LEMMA ListUnchanged ==
  ASSUME TypeOK, ListIsClosed, ListIsLinear, UNCHANGED <<head, next>>, Listed' = Listed,
         instanceState' = "SHUTDOWN" \/ instanceState # "SHUTDOWN"
  PROVE  ListIsClosed' /\ ListIsLinear'
BY DEF ListIsClosed, ListIsLinear

\* What a step of a thread other than the freeing ones does to Listed.
LEMMA SameListed ==
  ASSUME TypeOK, live' = live,
         \A d \in Callers : (pc[d] = "free") <=> (pc'[d] = "free"),
         \A d \in Callers : pc[d] = "free" => cur'[d] = cur[d]
  PROVE  Listed' = Listed
<1> DEFINE F == {d \in Callers : pc[d] = "free"}
<1>1. F' = F
  OBVIOUS
<1>2. {cur'[c] : c \in F} = {cur[c] : c \in F}
  OBVIOUS
<1> QED
  BY <1>1, <1>2 DEF Listed

LEMMA InvStep ==
  ASSUME GoodApplication, IInv, [Next]_vars PROVE IInv'
<1> USE NoneIsNoNode, ThreadsDiffer DEF IInv
<1>0. TypeOK'
  BY TypeStep
<1>1. ASSUME NEW t \in Threads, Advance(t) PROVE IInv'
  <2>1. Listed' = Listed
    BY <1>1, SameListed DEF Advance, Walking, TypeOK, listVars
  <2>2. ListIsClosed' /\ ListIsLinear'
    BY <1>1, <2>1, ListUnchanged DEF Advance, listVars
  <2>3. instanceState # "SHUTDOWN"
    BY <1>1 DEF Advance, Walking, FreesAreAlone, Threads, TypeOK
  <2>4. next[cur[t]] \in Listed \cup {None}
    BY <1>1, <2>3 DEF Advance, WalksAreInList, ListIsClosed
  <2>5. WalksAreInList'
    BY <1>1, <2>1, <2>4 DEF Advance, WalksAreInList, Walking, TypeOK
  <2>6. FreesAreAlone'
    BY <1>1 DEF Advance, FreesAreAlone, Walking, TypeOK, Threads, listVars
  <2> QED
    BY <1>0, <2>2, <2>5, <2>6
<1>2. ASSUME NEW c \in Callers, RegisterDirect(c) PROVE IInv'
  <2>1. Listed' = Listed
    BY <1>2 DEF RegisterDirect, Listed, listVars, threadVars
  <2>2. ListIsClosed' /\ ListIsLinear'
    BY <1>2, <2>1, ListUnchanged DEF RegisterDirect, listVars
  <2> QED
    BY <1>0, <1>2, <2>1, <2>2 DEF RegisterDirect, WalksAreInList, FreesAreAlone, Walking, listVars, threadVars
<1>3. ASSUME NEW c \in Callers, InitEndPointRegistration(c) PROVE IInv'
  <2>1. Listed' = Listed
    BY <1>3, SameListed DEF InitEndPointRegistration, Goto, TypeOK, Threads
  <2>2. ListIsClosed' /\ ListIsLinear'
    BY <1>3, <2>1 DEF InitEndPointRegistration, ListIsClosed, ListIsLinear, Goto, TypeOK, Listed
  <2>3. WalksAreInList'
    BY <1>3, <2>1 DEF InitEndPointRegistration, WalksAreInList, Walking, Goto, TypeOK, Threads
  <2>4. FreesAreAlone'
    BY <1>3 DEF InitEndPointRegistration, FreesAreAlone, Goto, TypeOK, Threads
  <2> QED
    BY <1>0, <2>2, <2>3, <2>4
<1>4. ASSUME NEW c \in Callers,
             \/ EndpointExists(c) \/ FindNothing(c)
             \/ \E u \in Uris : RegisterEndpoint(c, u) \/ FindEndpoint(c, u)
      PROVE IInv'
  <2>1. /\ UNCHANGED <<listVars, running, instanceState>>
        /\ pc[c] # "free" /\ instanceState # "SHUTDOWN"
        /\ \E step \in {"idle", "init", "register", "find"}, a \in Uris \cup {None}, n \in {head, None} :
             Goto(c, step, a, n)
    BY <1>4 DEF EndpointExists, FindNothing, RegisterEndpoint, FindEndpoint, Return, FreesAreAlone
  <2>2. Listed' = Listed
    BY <2>1, SameListed DEF Goto, TypeOK, Threads, listVars
  <2>3. ListIsClosed' /\ ListIsLinear'
    BY <2>1, <2>2, ListUnchanged DEF listVars
  <2>4. WalksAreInList'
    BY <2>1, <2>2 DEF WalksAreInList, Walking, Goto, TypeOK, Threads, ListIsClosed
  <2>5. FreesAreAlone'
    BY <2>1 DEF FreesAreAlone, Goto, TypeOK, Threads, listVars
  <2> QED
    BY <1>0, <2>3, <2>4, <2>5
<1>5. ASSUME NEW c \in Callers, AddEndpoint(c) PROVE IInv'
  <2>1. PICK n \in Nodes \ live :
          /\ live' = live \cup {n}
          /\ IF head = None
             THEN head' = n /\ next' = [next EXCEPT ![n] = None]
             ELSE \E last \in Reachable :
                    /\ next[last] = None
                    /\ next' = [next EXCEPT ![n] = None, ![last] = n]
                    /\ UNCHANGED head
    BY <1>5 DEF AddEndpoint
  <2>2. /\ pc[c] = "register" /\ Return(c) /\ UNCHANGED <<instanceState, running>>
        /\ instanceState # "SHUTDOWN"
    BY <1>5 DEF AddEndpoint, FreesAreAlone
  <2>3. \A d \in Callers : pc[d] # "free" /\ pc'[d] # "free"
    BY <2>2 DEF GoodApplication, Return, Goto, TypeOK, Threads
  <2>4. Listed = live /\ Listed' = live \cup {n}
    BY <2>1, <2>3 DEF Listed
  <2>5. Reachable \subseteq live
    BY <2>2, <2>4, ReachableIsListed
  <2>6. /\ live \subseteq Nodes /\ next \in [Nodes -> Nodes \cup {None}] /\ n # None
        /\ head \in live \cup {None} /\ \A m \in live : next[m] \in live \cup {None}
    BY <2>2, <2>4 DEF TypeOK, ListIsClosed
  <2>7. ListIsClosed'
    <3>1. CASE head = None
      BY <3>1, <2>1, <2>4, <2>6 DEF ListIsClosed
    <3>2. CASE head # None
      <4>1. PICK last \in live : next' = [next EXCEPT ![n] = None, ![last] = n] /\ head' = head
        BY <3>2, <2>1, <2>5
      <4>2. \A m \in live \cup {n} : next'[m] \in live \cup {n, None}
        BY <4>1, <2>6
      <4> QED
        BY <4>1, <4>2, <2>4, <2>6 DEF ListIsClosed
    <3> QED
      BY <3>1, <3>2
  <2>8. ListIsLinear'
    <3>1. CASE head = None
      <4>1. \A m \in live : next'[m] = next[m]
        BY <3>1, <2>1, <2>6
      <4>2. next'[n] = None /\ head' = n
        BY <3>1, <2>1, <2>6
      <4> QED
        BY <4>1, <4>2, <2>1, <2>2, <2>4, <2>6 DEF ListIsLinear
    <3>2. CASE head # None
      <4>1. PICK last \in live : /\ next' = [next EXCEPT ![n] = None, ![last] = n]
                                 /\ head' = head /\ next[last] = None
        BY <3>2, <2>1, <2>5
      <4>2. next'[n] = None /\ next'[last] = n /\ \A m \in live \ {last} : next'[m] = next[m]
        BY <4>1, <2>1, <2>6
      <4>3. \A m \in live : next[m] # n
        BY <2>1, <2>6
      <4> QED
        BY <3>2, <4>1, <4>2, <4>3, <2>1, <2>2, <2>4, <2>6 DEF ListIsLinear
    <3> QED
      BY <3>1, <3>2
  <2>9. WalksAreInList'
    BY <2>2, <2>4 DEF WalksAreInList, Walking, Return, Goto, TypeOK, Threads
  <2>10. FreesAreAlone'
    BY <2>1, <2>2, <2>3 DEF FreesAreAlone, Return, Goto, TypeOK, Threads
  <2> QED
    BY <1>0, <2>7, <2>8, <2>9, <2>10
<1>6. ASSUME NEW c \in Callers, CopyEndpoint(c) PROVE IInv'
  <2>1. Listed' = Listed
    BY <1>6, SameListed DEF CopyEndpoint, Return, Goto, TypeOK, Threads
  <2>2. /\ next' = [next EXCEPT ![cur[c]] = None] /\ head' = head
        /\ instanceState' = instanceState /\ instanceState # "SHUTDOWN"
        /\ next \in [Nodes -> Nodes \cup {None}] /\ Listed \subseteq Nodes
    BY <1>6 DEF CopyEndpoint, FreesAreAlone, TypeOK, Listed
  <2>3. ListIsClosed' /\ ListIsLinear'
    BY <2>1, <2>2 DEF ListIsClosed, ListIsLinear
  <2>4. WalksAreInList'
    BY <1>6, <2>1 DEF CopyEndpoint, WalksAreInList, Walking, Return, Goto, TypeOK, Threads
  <2>5. FreesAreAlone'
    BY <1>6 DEF CopyEndpoint, FreesAreAlone, Return, Goto, TypeOK, Threads
  <2> QED
    BY <1>0, <2>3, <2>4, <2>5
<1>7. ASSUME NEW c \in Callers, NEW u \in Uris, RemoveEndpoint(c, u) PROVE IInv'
  <2>1. PICK n \in Reachable :
          /\ IF n = head
             THEN head' = next[n] /\ UNCHANGED next
             ELSE \E prev \in Reachable :
                    /\ next[prev] = n
                    /\ next' = [next EXCEPT ![prev] = next[n]]
                    /\ UNCHANGED head
          /\ Goto(c, "free", u, n)
    BY <1>7 DEF RemoveEndpoint
  <2>2. /\ pc[c] = "idle" /\ instanceState = "STOPPED" /\ running = {}
        /\ UNCHANGED <<instanceState, live, running>>
    BY <1>7 DEF RemoveEndpoint, MayFree, GoodApplication
  <2>3. /\ \A d \in Callers : d = c /\ pc[d] # "free"
        /\ pc'[c] = "free" /\ cur'[c] = n
    BY <2>1, <2>2 DEF GoodApplication, Goto, TypeOK, Threads
  <2>4. Listed = live /\ Listed' = live \ {n}
    BY <2>2, <2>3 DEF Listed
  <2>5. Reachable \subseteq live
    BY <2>2, <2>4, ReachableIsListed
  <2>6. /\ live \subseteq Nodes /\ next \in [Nodes -> Nodes \cup {None}] /\ n \in live
        /\ head \in live \cup {None} /\ \A m \in live : next[m] \in live \cup {None}
        /\ \A m \in live : next[m] = head => head = None
        /\ \A m, k \in live : next[m] = next[k] => m = k \/ next[m] = None
    BY <2>1, <2>2, <2>4, <2>5 DEF TypeOK, ListIsClosed, ListIsLinear
  <2>7. ListIsClosed' /\ ListIsLinear'
    <3>1. CASE n = head
      BY <3>1, <2>1, <2>4, <2>6 DEF ListIsClosed, ListIsLinear
    <3>2. CASE n # head
      <4>1. PICK prev \in live : /\ next[prev] = n /\ next' = [next EXCEPT ![prev] = next[n]]
                                 /\ head' = head
        BY <3>2, <2>1, <2>5
      <4>2. next'[prev] = next[n] /\ \A m \in live \ {prev} : next'[m] = next[m]
        BY <4>1, <2>6
      <4>3. \A m \in live \ {n} : next'[m] \in (live \ {n}) \cup {None}
        BY <4>1, <4>2, <2>6
      <4>4. \A m \in live \ {n} : next'[m] = head => head = None
        BY <4>2, <2>6
      <4>5. \A m, k \in live \ {n} : next'[m] = next'[k] => m = k \/ next'[m] = None
        BY <4>1, <4>2, <2>6
      <4>6. head' \in (live \ {n}) \cup {None}
        BY <3>2, <4>1, <2>6
      <4> QED
        BY <4>1, <4>3, <4>4, <4>5, <4>6, <2>4 DEF ListIsClosed, ListIsLinear
    <3> QED
      BY <3>1, <3>2
  <2>8. WalksAreInList'
    <3>1. \A t \in Threads : ~Walking(t)'
      BY <2>1, <2>2, <2>3 DEF Walking, Threads, FreesAreAlone, Goto, TypeOK
    <3> QED
      BY <3>1 DEF WalksAreInList
  <2>9. FreesAreAlone'
    BY <2>1, <2>2, <2>3, <2>6 DEF FreesAreAlone, Goto, TypeOK, Threads
  <2> QED
    BY <1>0, <2>7, <2>8, <2>9
<1>8. ASSUME NEW c \in Callers, FreeEndPoint(c) PROVE IInv'
  <2>1. /\ \A d \in Callers : d = c
        /\ pc[c] = "free" /\ pc'[c] # "free" /\ live' = live \ {cur[c]}
        /\ UNCHANGED <<instanceState, head, next, running>>
        /\ instanceState = "STOPPED" /\ running = {}
    BY <1>8 DEF FreeEndPoint, GoodApplication, FreesAreAlone, Return, Goto, TypeOK, Threads
  <2>2. Listed' = Listed
    BY <2>1 DEF Listed
  <2>3. ListIsClosed' /\ ListIsLinear'
    BY <2>1, <2>2, ListUnchanged
  <2>4. \A t \in Threads : ~Walking(t)'
    BY <1>8, <2>1 DEF FreeEndPoint, Walking, Threads, FreesAreAlone, Return, Goto, TypeOK
  <2>5. FreesAreAlone'
    BY <1>8, <2>1 DEF FreeEndPoint, FreesAreAlone, Return, Goto, TypeOK, Threads
  <2> QED
    BY <1>0, <2>3, <2>4, <2>5 DEF WalksAreInList
<1>9. ASSUME NEW w \in Workers,
             \/ Leave(w) \/ NoEngine(w) \/ Dispatch(w) \/ NoEndpoint(w)
             \/ \E r \in Requests : BadPath(w, r) \/ LookUp(w, r)
      PROVE IInv'
  <2>1. /\ UNCHANGED <<listVars, instanceState>>
        /\ \/ UNCHANGED <<threadVars, running>>
           \/ UNCHANGED threadVars /\ running' = running \ {w} /\ pc[w] = "idle"
           \/ Return(w) /\ UNCHANGED running
           \/ /\ w \in running /\ UNCHANGED running
              /\ \E r \in Requests : Goto(w, "lookup", r, head)
    BY <1>9 DEF Leave, NoEngine, Dispatch, NoEndpoint, BadPath, LookUp, Serves, listVars, threadVars
  <2>2. \A d \in Callers : pc'[d] = pc[d] /\ cur'[d] = cur[d]
    BY <2>1 DEF Return, Goto, threadVars, TypeOK, Threads
  <2>3. Listed' = Listed
    BY <2>1, <2>2, SameListed DEF listVars
  <2>4. ListIsClosed' /\ ListIsLinear'
    BY <2>1, <2>3, ListUnchanged DEF listVars
  <2>5. WalksAreInList'
    BY <2>1, <2>3 DEF WalksAreInList, Walking, Return, Goto, threadVars, listVars, TypeOK, Threads,
                      ListIsClosed, FreesAreAlone
  <2>6. FreesAreAlone'
    BY <2>1, <2>2 DEF FreesAreAlone, Return, Goto, threadVars, listVars, TypeOK, Threads
  <2> QED
    BY <1>0, <2>4, <2>5, <2>6
<1>10. CASE Start \/ Stop
  <2>1. UNCHANGED <<listVars, threadVars>> /\ instanceState' # "SHUTDOWN" /\ instanceState # "SHUTDOWN"
    BY <1>10 DEF Start, Stop
  <2>2. Listed' = Listed
    BY <2>1, SameListed DEF listVars, threadVars
  <2>3. ListIsClosed' /\ ListIsLinear'
    BY <2>1, <2>2, ListUnchanged DEF listVars
  <2>4. WalksAreInList'
    BY <2>1, <2>2 DEF WalksAreInList, Walking, threadVars
  <2>5. FreesAreAlone'
    BY <1>10, <2>1 DEF Start, Stop, Alone, FreesAreAlone, listVars, threadVars
  <2> QED
    BY <1>0, <2>3, <2>4, <2>5
<1>11. CASE Shutdown
  <2>1. /\ instanceState' = "SHUTDOWN" /\ running = {} /\ UNCHANGED <<threadVars, running>>
        /\ \A c \in Callers : pc[c] = "idle"
    BY <1>11 DEF Shutdown, MayFree, GoodApplication, Alone
  <2>2. \A t \in Threads : ~Walking(t)'
    BY <2>1 DEF Walking, Threads, FreesAreAlone, threadVars, TypeOK
  <2> QED
    BY <1>0, <2>1, <2>2 DEF ListIsClosed, ListIsLinear, WalksAreInList, FreesAreAlone, threadVars
<1>12. CASE UNCHANGED vars
  <2>1. Listed' = Listed
    BY <1>12 DEF vars, Listed, listVars, threadVars
  <2> QED
    BY <1>0, <1>12, <2>1 DEF vars, ListIsClosed, ListIsLinear, WalksAreInList, FreesAreAlone, Walking,
                             listVars, threadVars
<1> QED
  BY <1>1, <1>2, <1>3, <1>4, <1>5, <1>6, <1>7, <1>8, <1>9, <1>10, <1>11, <1>12
     DEF Next, CallerStep, WorkerStep

-----------------------------------------------------------------------------
\* The inductive invariant of the registry (MCEndpointsSafe.cfg checks it).
THEOREM RegistryInOrder == ASSUME GoodApplication PROVE Spec => []IInv
<1>1. Init => IInv
  BY NoneIsNoNode, ThreadsDiffer
     DEF Init, IInv, TypeOK, ListIsClosed, ListIsLinear, WalksAreInList, FreesAreAlone, Listed,
         Walking, Threads, States, Steps
<1>2. IInv /\ [Next]_vars => IInv'
  BY InvStep
<1> QED
  BY <1>1, <1>2, PTL DEF Spec

\* No walk of the list and no callback uses an endpoint that was freed, Find
\* and its cut list included, however many workers and endpoints there are.
THEOREM EndpointsAreNotUsedAfterFree == ASSUME GoodApplication PROVE Spec => []NoUseAfterFree
<1>1. IInv => NoUseAfterFree
  BY DEF IInv, WalksAreInList, NoUseAfterFree, Listed
<1> QED
  BY <1>1, RegistryInOrder, PTL

-----------------------------------------------------------------------------
(* The endpoints in the list do not match each other.                      *)

\* From(x) is closed, and behind its first object comes From(next[x]).
LEMMA FromIsClosed ==
  ASSUME TypeOK, NEW x \in Nodes, NEW m \in From(x), next[m] # None PROVE next[m] \in From(x)
BY DEF From, TypeOK

LEMMA FromUnfolds ==
  ASSUME TypeOK, NEW x \in Nodes PROVE From(x) \subseteq {x} \cup From(next[x])
<1> DEFINE S == {x} \cup From(next[x])
<1>1. S \in SUBSET Nodes /\ x \in S /\ x # None
  BY NoneIsNoNode DEF From
<1>2. next[x] # None => next[x] \in From(next[x])
  BY DEF From, TypeOK
<1>3. \A m \in From(next[x]) : next[m] \in From(next[x]) \cup {None}
  BY FromIsClosed DEF From, TypeOK
<1>4. \A m \in S : next[m] \in S \cup {None}
  BY <1>2, <1>3
<1> QED
  BY <1>1, <1>4 DEF From

\* A closed set that holds the head holds what is reachable.
LEMMA ReachableIsLeast ==
  ASSUME NEW S \in SUBSET Nodes, head # None => head \in S,
         \A m \in S : next[m] \in S \cup {None}
  PROVE  Reachable \subseteq S
BY DEF Reachable, From

LEMMA MatchesIsSymmetric == \A e, u : Matches(e, u) <=> Matches(u, e)
BY DEF Matches

LEMMA DistinctStep ==
  ASSUME GoodApplication, DistinctInv, [Next]_vars PROVE DistinctInv'
<1> USE NoneIsNoNode, ThreadsDiffer DEF DistinctInv
<1>0. IInv' /\ TypeOK /\ TypeOK'
  BY InvStep DEF IInv
<1> DEFINE Closed == \A m \in Reachable : next[m] \in Reachable \cup {None}
<1>c. Closed /\ Reachable \subseteq Nodes /\ (head # None => head \in Reachable) /\ From(None) = {}
  BY <1>0, FromIsClosed DEF Reachable, From, TypeOK
\* Steps that change neither the list nor what a registration looks for.
<1>1. ASSUME UNCHANGED <<head, next, uriOf>>,
             \A c \in Callers : pc'[c] = "register" =>
               pc[c] = "register" /\ arg'[c] = arg[c] /\ cur'[c] = cur[c]
      PROVE DistinctInv'
  <2>1. Reachable' = Reachable /\ \A x : From(x)' = From(x)
    BY <1>1 DEF Reachable, From
  <2>2. \A c \in Callers : cur'[c] = cur[c] => From(cur[c])' = From(cur[c])
    BY <1>1 DEF From
  <2> QED
    BY <1>0, <1>1, <2>1, <2>2 DEF CheckIsComplete, EndpointsAreDistinct
<1>2. ASSUME NEW t \in Threads, Advance(t) PROVE DistinctInv'
  <2>1. /\ UNCHANGED <<head, next, uriOf, pc, arg>> /\ cur[t] \in Nodes
        /\ cur' = [cur EXCEPT ![t] = next[cur[t]]]
    BY <1>2, <1>0 DEF Advance, listVars, TypeOK
  <2>2. Reachable' = Reachable /\ EndpointsAreDistinct'
    BY <2>1 DEF Reachable, From, EndpointsAreDistinct
  <2>3. ASSUME NEW c \in Callers, pc'[c] = "register", NEW m \in Reachable, Matches(uriOf[m], arg[c])
        PROVE  m \in From(cur[c])'
    <3>1. m \in From(cur[c])
      BY <2>1, <2>3 DEF CheckIsComplete
    <3>2. CASE c # t
      BY <3>1, <3>2, <2>1, <1>0 DEF From, TypeOK
    <3>3. CASE c = t
      <4>1. cur[c] # m
        BY <3>3, <1>2, <2>3 DEF Advance, Found, Wanted
      <4>2. m \in From(next[cur[c]])
        BY <3>1, <3>3, <4>1, <2>1, <1>0, FromUnfolds
      <4>3. cur'[c] = next[cur[c]]
        BY <3>3, <2>1, <1>0 DEF TypeOK, Threads
      <4> QED
        BY <4>2, <4>3, <2>1 DEF From
    <3> QED
      BY <3>2, <3>3
  <2> QED
    BY <1>0, <2>1, <2>2, <2>3 DEF CheckIsComplete
<1>3. ASSUME NEW c \in Callers, NEW u \in Uris, RegisterEndpoint(c, u) PROVE DistinctInv'
  <2>1. /\ UNCHANGED <<head, next, uriOf>> /\ \A d \in Callers : d = c
        /\ pc'[c] = "register" => cur'[c] = head
    BY <1>3, <1>0 DEF RegisterEndpoint, listVars, Goto, TypeOK, Threads, GoodApplication
  <2>2. Reachable' = Reachable /\ EndpointsAreDistinct'
    BY <2>1 DEF Reachable, From, EndpointsAreDistinct
  <2>3. pc'[c] = "register" => From(cur[c])' = Reachable
    BY <2>1 DEF Reachable, From
  <2> QED
    BY <1>0, <2>1, <2>2, <2>3 DEF CheckIsComplete
<1>4. ASSUME NEW c \in Callers, InitEndPointRegistration(c) PROVE DistinctInv'
  <2>1. Reachable' = {}
    BY <1>4 DEF InitEndPointRegistration, Reachable, From
  <2> QED
    BY <1>0, <2>1 DEF CheckIsComplete, EndpointsAreDistinct
<1>5. ASSUME NEW c \in Callers, AddEndpoint(c) PROVE DistinctInv'
  <2>1. PICK n \in Nodes \ live :
          /\ uriOf' = [uriOf EXCEPT ![n] = arg[c]]
          /\ IF head = None
             THEN head' = n /\ next' = [next EXCEPT ![n] = None]
             ELSE \E last \in Reachable :
                    /\ next[last] = None
                    /\ next' = [next EXCEPT ![n] = None, ![last] = n]
                    /\ UNCHANGED head
    BY <1>5 DEF AddEndpoint
  <2>2. /\ pc[c] = "register" /\ cur[c] = None /\ instanceState # "SHUTDOWN"
        /\ \A d \in Callers : pc'[d] # "register"
    BY <1>5, <1>0 DEF AddEndpoint, GoodApplication, Return, Goto, TypeOK, Threads, IInv, FreesAreAlone
  <2>3. Reachable \subseteq live
    BY <2>2, <1>0, ReachableIsListed DEF IInv, Listed
  <2>4. \A m \in Reachable : ~Matches(uriOf[m], arg[c])
    BY <2>2, <1>c DEF CheckIsComplete
  <2>5. Reachable' \subseteq Reachable \cup {n}
    <3> DEFINE S == Reachable \cup {n}
    <3>1. head' # None => head' \in S
      BY <2>1, <1>c
    <3>2. \A m \in S : next'[m] \in S \cup {None}
      BY <2>1, <2>3, <1>c, <1>0 DEF TypeOK
    <3>3. S \in SUBSET Nodes
      BY <1>c
    <3> HIDE DEF S
    <3>4. Reachable' \subseteq S
      BY <3>1, <3>2, <3>3 DEF Reachable, From
    <3> QED
      BY <3>4 DEF S
  <2>6. \A m \in Reachable : uriOf'[m] = uriOf[m] /\ m # n
    BY <2>1, <2>3, <1>c, <1>0 DEF TypeOK
  <2>7. uriOf'[n] = arg[c]
    BY <2>1, <1>0 DEF TypeOK
  <2>8. EndpointsAreDistinct'
    BY <2>4, <2>5, <2>6, <2>7, MatchesIsSymmetric DEF EndpointsAreDistinct
  <2> QED
    BY <1>0, <2>2, <2>8 DEF CheckIsComplete
<1>6. ASSUME NEW c \in Callers, CopyEndpoint(c) PROVE DistinctInv'
  <2>1. /\ next' = [next EXCEPT ![cur[c]] = None] /\ UNCHANGED <<head, uriOf>>
        /\ \A d \in Callers : pc'[d] # "register"
    BY <1>6, <1>0 DEF CopyEndpoint, GoodApplication, Return, Goto, TypeOK, Threads
  <2>2. \A m \in Reachable : next'[m] \in Reachable \cup {None}
    BY <2>1, <1>c, <1>0 DEF TypeOK
  <2>3. Reachable' \subseteq Reachable
    <3> DEFINE S == Reachable
    <3>1. S \in SUBSET Nodes /\ (head' # None => head' \in S) /\ \A m \in S : next'[m] \in S \cup {None}
      BY <2>1, <2>2, <1>c
    <3> HIDE DEF S
    <3>2. Reachable' \subseteq S
      BY <3>1 DEF Reachable, From
    <3> QED
      BY <3>2 DEF S
  <2> QED
    BY <1>0, <2>1, <2>3 DEF CheckIsComplete, EndpointsAreDistinct
<1>7. ASSUME NEW c \in Callers, NEW u \in Uris, RemoveEndpoint(c, u) PROVE DistinctInv'
  <2>1. PICK n \in Reachable :
          /\ IF n = head
             THEN head' = next[n] /\ UNCHANGED next
             ELSE \E prev \in Reachable : next' = [next EXCEPT ![prev] = next[n]] /\ UNCHANGED head
          /\ Goto(c, "free", u, n) /\ UNCHANGED uriOf
    BY <1>7 DEF RemoveEndpoint
  <2>2. \A d \in Callers : pc'[d] # "register"
    BY <2>1, <1>0 DEF GoodApplication, Goto, TypeOK, Threads
  <2>3. (head' # None => head' \in Reachable) /\ \A m \in Reachable : next'[m] \in Reachable \cup {None}
    BY <2>1, <1>c, <1>0 DEF TypeOK
  <2>4. Reachable' \subseteq Reachable
    <3> DEFINE S == Reachable
    <3>1. S \in SUBSET Nodes /\ (head' # None => head' \in S) /\ \A m \in S : next'[m] \in S \cup {None}
      BY <2>3, <1>c
    <3> HIDE DEF S
    <3>2. Reachable' \subseteq S
      BY <3>1 DEF Reachable, From
    <3> QED
      BY <3>2 DEF S
  <2> QED
    BY <1>0, <2>1, <2>2, <2>4 DEF CheckIsComplete, EndpointsAreDistinct
<1>8. CASE Shutdown
  <2>1. Reachable' = {}
    BY <1>8 DEF Shutdown, Reachable, From
  <2> QED
    BY <1>0, <2>1 DEF CheckIsComplete, EndpointsAreDistinct
<1>9. ASSUME NEW c \in Callers,
             \/ RegisterDirect(c) \/ EndpointExists(c) \/ FindNothing(c) \/ FreeEndPoint(c)
             \/ \E u \in Uris : FindEndpoint(c, u)
      PROVE DistinctInv'
  BY <1>9, <1>1, <1>0 DEF RegisterDirect, EndpointExists, FindNothing, FreeEndPoint, FindEndpoint,
     listVars, threadVars, Return, Goto, TypeOK, Threads
<1>10. ASSUME NEW w \in Workers, WorkerStep(w) PROVE DistinctInv'
  <2>1. UNCHANGED <<head, next, uriOf>>
    BY <1>10 DEF WorkerStep, Leave, NoEngine, Dispatch, NoEndpoint, BadPath, LookUp, listVars
  <2>2. \A c \in Callers : UNCHANGED <<pc[c], arg[c], cur[c]>>
    BY <1>10, <1>0 DEF WorkerStep, Leave, NoEngine, Dispatch, NoEndpoint, BadPath, LookUp, threadVars,
       Return, Goto, TypeOK, Threads
  <2> QED
    BY <2>1, <2>2, <1>1
<1>11. CASE Start \/ Stop \/ UNCHANGED vars
  BY <1>11, <1>1 DEF Start, Stop, vars, listVars, threadVars
<1> QED
  BY <1>2, <1>3, <1>4, <1>5, <1>6, <1>7, <1>8, <1>9, <1>10, <1>11 DEF Next, CallerStep

\* The invariant of a registration that is under way.
THEOREM RegistrationsAreChecked == ASSUME GoodApplication PROVE Spec => []DistinctInv
<1>1. Init => DistinctInv
  <2>1. Init => IInv
    BY NoneIsNoNode, ThreadsDiffer
       DEF Init, IInv, TypeOK, ListIsClosed, ListIsLinear, WalksAreInList, FreesAreAlone, Listed,
           Walking, Threads, States, Steps
  <2>2. Init => Reachable = {}
    BY DEF Init, Reachable, From
  <2> QED
    BY <2>1, <2>2 DEF DistinctInv, CheckIsComplete, EndpointsAreDistinct
<1>2. DistinctInv /\ [Next]_vars => DistinctInv'
  BY DistinctStep
<1> QED
  BY <1>1, <1>2, PTL DEF Spec

\* No two endpoints in the list ever match each other, in either direction.
THEOREM RegisteredAreDistinct == ASSUME GoodApplication PROVE Spec => []EndpointsAreDistinct
BY RegistrationsAreChecked, PTL DEF DistinctInv

-----------------------------------------------------------------------------
(* Nothing is lost from the list when no Find cuts it.                     *)

\* An object that is appended behind a reachable one is the only new one that
\* is reached.
LEMMA AppendReaches ==
  ASSUME TypeOK, NEW last \in Reachable, NEW n \in Nodes, n \notin Reachable,
         next[last] = None, next' = [next EXCEPT ![n] = None, ![last] = n], head' = head
  PROVE  Reachable' = Reachable \cup {n}
<1> USE NoneIsNoNode
<1>0. /\ \A m \in Reachable : next[m] \in Reachable \cup {None}
      /\ Reachable \subseteq Nodes /\ Reachable' \subseteq Nodes /\ head \in Reachable /\ n # last
      /\ next \in [Nodes -> Nodes \cup {None}]
  BY FromIsClosed DEF Reachable, From, TypeOK
<1>1. head' \in Reachable' /\ \A m \in Reachable' : next'[m] \in Reachable' \cup {None}
  BY <1>0 DEF Reachable, From
<1>2. next'[n] = None /\ next'[last] = n /\ \A m \in Reachable \ {last} : next'[m] = next[m]
  BY <1>0
<1>3. Reachable' \subseteq Reachable \cup {n}
  <2> DEFINE S == Reachable \cup {n}
  <2>1. S \in SUBSET Nodes /\ head' \in S /\ \A m \in S : next'[m] \in S \cup {None}
    BY <1>0, <1>2
  <2> HIDE DEF S
  <2>2. Reachable' \subseteq S
    BY <2>1 DEF Reachable, From
  <2> QED
    BY <2>2 DEF S
<1>4. Reachable \subseteq Reachable' \ {n}
  <2> DEFINE S == Reachable' \ {n}
  <2>1. S \in SUBSET Nodes /\ head \in S
    BY <1>0, <1>1
  <2>2. ASSUME NEW m \in S PROVE next[m] \in S \cup {None}
    BY <1>0, <1>1, <1>2, <1>3, <2>2
  <2> HIDE DEF S
  <2>3. Reachable \subseteq S
    BY <2>1, <2>2, ReachableIsLeast
  <2> QED
    BY <2>3 DEF S
<1>5. n \in Reachable'
  BY <1>0, <1>1, <1>2, <1>4
<1> QED
  BY <1>3, <1>4, <1>5

\* Taking an object out of a linear list loses no other.
LEMMA RemoveReaches ==
  ASSUME TypeOK, ListIsLinear, instanceState # "SHUTDOWN", Reachable \subseteq Listed, NEW n \in Reachable,
         IF n = head
         THEN head' = next[n] /\ UNCHANGED next
         ELSE \E prev \in Reachable :
                /\ next[prev] = n
                /\ next' = [next EXCEPT ![prev] = next[n]]
                /\ UNCHANGED head
  PROVE  Reachable' = Reachable \ {n}
<1> USE NoneIsNoNode
<1>0. /\ \A m \in Reachable : next[m] \in Reachable \cup {None}
      /\ Reachable \subseteq Nodes /\ Reachable' \subseteq Nodes /\ head \in Reachable
      /\ \A m \in Reachable : next[m] # head
      /\ \A m, k \in Reachable : next[m] = next[k] => m = k \/ next[m] = None
  BY FromIsClosed DEF Reachable, From, TypeOK, ListIsLinear
<1>1. (head' # None => head' \in Reachable') /\ \A m \in Reachable' : next'[m] \in Reachable' \cup {None}
  <2>1. head' \in Nodes \cup {None} /\ next' \in [Nodes -> Nodes \cup {None}]
    BY <1>0 DEF TypeOK
  <2> QED
    BY <2>1 DEF Reachable, From
<1>2. CASE n = head
  <2>1. head' = next[n] /\ next' = next
    BY <1>2
  <2>2. Reachable' \subseteq Reachable \ {n}
    <3> DEFINE S == Reachable \ {n}
    <3>1. S \in SUBSET Nodes /\ (head' # None => head' \in S) /\ \A m \in S : next'[m] \in S \cup {None}
      BY <1>0, <1>2, <2>1
    <3> HIDE DEF S
    <3>2. Reachable' \subseteq S
      BY <3>1 DEF Reachable, From
    <3> QED
      BY <3>2 DEF S
  <2>3. Reachable \subseteq Reachable' \cup {n}
    <3> DEFINE S == Reachable' \cup {n}
    <3>1. S \in SUBSET Nodes /\ head \in S /\ \A m \in S : next[m] \in S \cup {None}
      BY <1>0, <1>1, <1>2, <2>1
    <3> HIDE DEF S
    <3>2. Reachable \subseteq S
      BY <3>1, ReachableIsLeast
    <3> QED
      BY <3>2 DEF S
  <2> QED
    BY <2>2, <2>3
<1>3. CASE n # head
  <2>1. PICK prev \in Reachable : next[prev] = n /\ next' = [next EXCEPT ![prev] = next[n]] /\ head' = head
    BY <1>3
  <2>2. next'[prev] = next[n] /\ \A m \in Reachable \ {prev} : next'[m] = next[m]
    BY <1>0, <2>1 DEF TypeOK
  <2>3. next[n] # n
    <3> DEFINE S == Reachable \ {n}
    <3>1. SUFFICES ASSUME next[n] = n PROVE FALSE
      OBVIOUS
    <3>2. \A m \in S : next[m] \in S \cup {None}
      BY <1>0, <3>1
    <3>3. S \in SUBSET Nodes /\ head \in S
      BY <1>0, <1>3
    <3> HIDE DEF S
    <3>4. Reachable \subseteq S
      BY <3>2, <3>3, ReachableIsLeast
    <3> QED
      BY <3>4 DEF S
  <2>4. prev # n
    BY <2>1, <2>3
  <2>5. Reachable' \subseteq Reachable \ {n}
    <3> DEFINE S == Reachable \ {n}
    <3>1. \A m \in S : next'[m] \in S \cup {None}
      BY <1>0, <2>1, <2>2, <2>3, <2>4
    <3>2. S \in SUBSET Nodes /\ head' \in S
      BY <1>0, <1>3, <2>1
    <3> HIDE DEF S
    <3>3. Reachable' \subseteq S
      BY <3>1, <3>2 DEF Reachable, From
    <3> QED
      BY <3>3 DEF S
  <2>6. prev \in Reachable'
    <3> SUFFICES ASSUME prev \notin Reachable' PROVE FALSE
      OBVIOUS
    <3>1. \A m \in Reachable' : next[m] \in Reachable' \cup {None}
      BY <1>1, <2>2, <2>5
    <3>2. Reachable' \in SUBSET Nodes /\ head \in Reachable'
      BY <1>0, <1>1, <2>1
    <3>3. Reachable \subseteq Reachable'
      BY <3>1, <3>2, ReachableIsLeast
    <3> QED
      BY <3>3
  <2>7. Reachable \subseteq Reachable' \cup {n}
    <3> DEFINE S == Reachable' \cup {n}
    <3>1. \A m \in S : next[m] \in S \cup {None}
      BY <1>1, <2>1, <2>2, <2>5, <2>6
    <3>2. S \in SUBSET Nodes /\ head \in S
      BY <1>0, <1>1, <2>1
    <3> HIDE DEF S
    <3>3. Reachable \subseteq S
      BY <3>1, <3>2, ReachableIsLeast
    <3> QED
      BY <3>3 DEF S
  <2> QED
    BY <2>5, <2>7
<1> QED
  BY <1>2, <1>3

\* Steps that change neither the list nor what is being freed.
LEMMA LeaksNothingNew ==
  ASSUME LeakInv, IInv', UNCHANGED <<live, head, next, useEndPoint>>,
         \A d \in Callers : (pc[d] = "free") <=> (pc'[d] = "free"),
         \A d \in Callers : pc[d] = "free" => cur'[d] = cur[d],
         \A d \in Callers : pc'[d] = "init" => ~useEndPoint,
         \A d \in Callers : pc'[d] = "register" => useEndPoint,
         \A d \in Callers : pc'[d] # "find"
  PROVE  LeakInv'
<1> DEFINE F == {d \in Callers : pc[d] = "free"}
<1>1. F' = F
  OBVIOUS
<1>2. {cur'[c] : c \in F} = {cur[c] : c \in F}
  OBVIOUS
<1>3. Reachable' = Reachable
  BY DEF Reachable, From
<1>4. NothingLeaks'
  BY <1>1, <1>2, <1>3 DEF LeakInv, NothingLeaks
<1> QED
  BY <1>4 DEF LeakInv, EmptyUntilUsed

LEMMA LeakStep ==
  ASSUME GoodApplication, ~UsesFind, LeakInv, [Next]_vars PROVE LeakInv'
<1> USE NoneIsNoNode, ThreadsDiffer
<1>0. IInv /\ IInv' /\ TypeOK /\ TypeOK' /\ FreesAreAlone /\ EmptyUntilUsed /\ \A c \in Callers : pc[c] # "find"
  BY InvStep DEF IInv, LeakInv
<1>1. ASSUME NEW t \in Threads, Advance(t) PROVE LeakInv'
  BY <1>0, <1>1, LeaksNothingNew DEF Advance, Walking, listVars, TypeOK, Threads, EmptyUntilUsed
<1>2. ASSUME NEW c \in Callers, NEW u \in Uris, RegisterEndpoint(c, u) PROVE LeakInv'
  BY <1>0, <1>2, LeaksNothingNew DEF RegisterEndpoint, listVars, Goto, TypeOK, Threads, EmptyUntilUsed
<1>3. ASSUME NEW c \in Callers, InitEndPointRegistration(c) PROVE LeakInv'
  <2>1. head = None /\ UNCHANGED <<live, head, next>> /\ pc'[c] = "register" /\ \A d \in Callers : d = c
    BY <1>0, <1>3 DEF InitEndPointRegistration, EmptyUntilUsed, Goto, TypeOK, Threads, GoodApplication
  <2>2. Reachable = {} /\ Reachable' = {}
    BY <2>1 DEF Reachable, From
  <2>3. {d \in Callers : pc[d] = "free"} = {} /\ {d \in Callers : pc'[d] = "free"} = {}
    BY <2>1, <1>3 DEF InitEndPointRegistration
  <2>4. NothingLeaks'
    BY <2>1, <2>2, <2>3 DEF LeakInv, NothingLeaks
  <2> QED
    BY <1>0, <1>3, <2>1, <2>4 DEF LeakInv, EmptyUntilUsed, InitEndPointRegistration
<1>4. ASSUME NEW c \in Callers, AddEndpoint(c) PROVE LeakInv'
  <2>1. PICK n \in Nodes \ live :
          /\ live' = live \cup {n}
          /\ IF head = None
             THEN head' = n /\ next' = [next EXCEPT ![n] = None]
             ELSE \E last \in Reachable :
                    /\ next[last] = None
                    /\ next' = [next EXCEPT ![n] = None, ![last] = n]
                    /\ UNCHANGED head
    BY <1>4 DEF AddEndpoint
  <2>2. /\ pc[c] = "register" /\ UNCHANGED useEndPoint
        /\ \A d \in Callers : d = c /\ pc'[d] = "idle"
    BY <1>4, <1>0 DEF AddEndpoint, Return, Goto, TypeOK, Threads, GoodApplication
  <2>3. {d \in Callers : pc[d] = "free"} = {} /\ {d \in Callers : pc'[d] = "free"} = {}
    BY <2>2
  <2>4. live = Reachable
    BY <2>3 DEF LeakInv, NothingLeaks
  <2>5. Reachable' = Reachable \cup {n}
    <3>1. CASE head = None
      <4>1. Reachable = {}
        BY <3>1 DEF Reachable, From
      <4>2. head' = n /\ next'[n] = None
        BY <3>1, <2>1, <1>0 DEF TypeOK
      <4>3. n \in Reachable'
        BY <4>2, <1>0 DEF Reachable, From, TypeOK
      <4>4. Reachable' \subseteq {n}
        <5> DEFINE S == {n}
        <5>1. S \in SUBSET Nodes /\ head' \in S /\ \A m \in S : next'[m] \in S \cup {None}
          BY <4>2
        <5> HIDE DEF S
        <5>2. Reachable' \subseteq S
          BY <5>1 DEF Reachable, From
        <5> QED
          BY <5>2 DEF S
      <4> QED
        BY <4>1, <4>3, <4>4
    <3>2. CASE head # None
      BY <3>2, <2>1, <2>4, <1>0, AppendReaches
    <3> QED
      BY <3>1, <3>2
  <2>6. NothingLeaks'
    BY <2>1, <2>3, <2>4, <2>5 DEF NothingLeaks
  <2>7. useEndPoint
    BY <1>0, <2>2 DEF EmptyUntilUsed
  <2> QED
    BY <1>0, <2>2, <2>6, <2>7 DEF LeakInv, EmptyUntilUsed
<1>5. ASSUME NEW c \in Callers, NEW u \in Uris, RemoveEndpoint(c, u) PROVE LeakInv'
  <2>1. PICK n \in Reachable :
          /\ IF n = head
             THEN head' = next[n] /\ UNCHANGED next
             ELSE \E prev \in Reachable :
                    /\ next[prev] = n
                    /\ next' = [next EXCEPT ![prev] = next[n]]
                    /\ UNCHANGED head
          /\ Goto(c, "free", u, n)
    BY <1>5 DEF RemoveEndpoint
  <2>2. pc[c] = "idle" /\ instanceState = "STOPPED" /\ UNCHANGED <<live, useEndPoint>>
    BY <1>5 DEF RemoveEndpoint
  <2>3. \A d \in Callers : d = c /\ pc[d] = "idle" /\ pc'[d] = "free" /\ cur'[d] = n
    BY <2>1, <2>2, <1>0 DEF GoodApplication, Goto, TypeOK, Threads
  <2>4. {d \in Callers : pc[d] = "free"} = {} /\ {cur'[d] : d \in {e \in Callers : pc'[e] = "free"}} = {n}
    BY <2>3
  <2>5. live = Reachable
    BY <2>4 DEF LeakInv, NothingLeaks
  <2>6. Reachable \subseteq Listed
    BY <1>0, <2>2, ReachableIsListed DEF IInv
  <2>7. Reachable' = Reachable \ {n}
    BY <1>0, <2>1, <2>2, <2>6, RemoveReaches DEF IInv
  <2>8. NothingLeaks'
    BY <2>2, <2>4, <2>5, <2>7 DEF NothingLeaks
  <2>9. head # None
    BY <2>1 DEF Reachable, From
  <2> QED
    BY <1>0, <2>2, <2>3, <2>8, <2>9 DEF LeakInv, EmptyUntilUsed
<1>6. ASSUME NEW c \in Callers, FreeEndPoint(c) PROVE LeakInv'
  <2>1. /\ pc[c] = "free" /\ live' = live \ {cur[c]} /\ UNCHANGED <<instanceState, head, next, useEndPoint>>
        /\ \A d \in Callers : d = c /\ pc'[d] = "idle"
    BY <1>6, <1>0 DEF FreeEndPoint, Return, Goto, TypeOK, Threads, GoodApplication
  <2>2. {cur[d] : d \in {e \in Callers : pc[e] = "free"}} = {cur[c]} /\ {d \in Callers : pc'[d] = "free"} = {}
    BY <2>1
  <2>3. Reachable' = Reachable
    BY <2>1 DEF Reachable, From
  <2>4. cur[c] \notin Reachable
    BY <2>1, <2>2, <1>0, ReachableIsListed DEF IInv, Listed, FreesAreAlone
  <2>5. NothingLeaks'
    BY <2>1, <2>2, <2>3, <2>4 DEF LeakInv, NothingLeaks
  <2> QED
    BY <1>0, <2>1, <2>5 DEF LeakInv, EmptyUntilUsed
<1>7. CASE Shutdown
  <2>1. /\ live' = live \ Reachable /\ head' = None /\ UNCHANGED <<pc, cur>>
        /\ \A c \in Callers : pc[c] = "idle"
    BY <1>7 DEF Shutdown, Alone, threadVars
  <2>2. {d \in Callers : pc[d] = "free"} = {} /\ {d \in Callers : pc'[d] = "free"} = {}
    BY <2>1
  <2>3. Reachable' = {}
    BY <2>1 DEF Reachable, From
  <2>4. NothingLeaks'
    BY <2>1, <2>2, <2>3 DEF LeakInv, NothingLeaks
  <2> QED
    BY <1>0, <2>1, <2>4 DEF LeakInv, EmptyUntilUsed
<1>8. ASSUME NEW c \in Callers,
             \/ RegisterDirect(c) \/ EndpointExists(c) \/ CopyEndpoint(c) \/ FindNothing(c)
             \/ \E u \in Uris : FindEndpoint(c, u)
      PROVE LeakInv'
  <2>1. /\ UNCHANGED <<live, head, next, useEndPoint>> /\ pc[c] # "free"
        /\ UNCHANGED threadVars \/ Return(c)
    BY <1>0, <1>8 DEF RegisterDirect, EndpointExists, CopyEndpoint, FindNothing, FindEndpoint, listVars
  <2> QED
    BY <1>0, <2>1, LeaksNothingNew DEF threadVars, Return, Goto, TypeOK, Threads, EmptyUntilUsed
<1>9. ASSUME NEW w \in Workers, WorkerStep(w) PROVE LeakInv'
  <2>1. UNCHANGED <<live, head, next, useEndPoint>>
    BY <1>9 DEF WorkerStep, Leave, NoEngine, Dispatch, NoEndpoint, BadPath, LookUp, listVars
  <2>2. \A c \in Callers : pc'[c] = pc[c] /\ cur'[c] = cur[c]
    BY <1>9, <1>0 DEF WorkerStep, Leave, NoEngine, Dispatch, NoEndpoint, BadPath, LookUp, threadVars,
       Return, Goto, TypeOK, Threads
  <2> QED
    BY <1>0, <2>1, <2>2, LeaksNothingNew DEF EmptyUntilUsed
<1>10. CASE Start \/ Stop \/ UNCHANGED vars
  BY <1>0, <1>10, LeaksNothingNew DEF Start, Stop, vars, listVars, threadVars, EmptyUntilUsed
<1> QED
  BY <1>1, <1>2, <1>3, <1>4, <1>5, <1>6, <1>7, <1>8, <1>9, <1>10 DEF Next, CallerStep

\* An endpoint that is allocated is in the list or about to be freed, whatever
\* is registered, looked up, removed and shut down, when nothing is found.
THEOREM EndpointsAreNotLost ==
  ASSUME GoodApplication, ~UsesFind PROVE Spec => []NothingLeaks
<1>1. Init => LeakInv
  <2>1. Init => IInv
    BY NoneIsNoNode, ThreadsDiffer
       DEF Init, IInv, TypeOK, ListIsClosed, ListIsLinear, WalksAreInList, FreesAreAlone, Listed,
           Walking, Threads, States, Steps
  <2>2. Init => Reachable = {} /\ {d \in Callers : pc[d] = "free"} = {}
    BY DEF Init, Reachable, From, Threads
  <2> QED
    BY <2>1, <2>2 DEF LeakInv, NothingLeaks, EmptyUntilUsed, Init, Threads
<1>2. LeakInv /\ [Next]_vars => LeakInv'
  BY LeakStep
<1>3. LeakInv => NothingLeaks
  BY DEF LeakInv
<1> QED
  BY <1>1, <1>2, <1>3, PTL DEF Spec

-----------------------------------------------------------------------------
(* The list as a sequence.                                                 *)

\* Every non-empty set of numbers has a least one: the induction of the proofs.
LEMMA LeastNumber ==
  ASSUME NEW S \in SUBSET Nat, S # {}
  PROVE  \E m \in S : \A n \in S : m <= n
<1>1. PICK m \in S : \A n \in S : <<n, m>> \notin OpToRel(<, Nat)
  BY WFMin, NatLessThanWellFounded, Zenon
<1>2. \A n \in S : ~(n < m)
  BY <1>1, Zenon DEF OpToRel
<1> QED
  BY <1>2

\* s are the n objects from h on, in their order, if nx leads from each to
\* the next one.
Links(h, nx, n, s) ==
  /\ s \in [1..n -> Nodes]
  /\ n = 0 => h = None
  /\ n > 0 => s[1] = h /\ nx[s[n]] = None
  /\ \A i \in 1..n - 1 : nx[s[i]] = s[i + 1]
  /\ \A i, j \in 1..n : s[i] = s[j] => i = j

\* From, Reachable and Objects for the list that h and nx make.
Behind(nx, x) ==
  {m \in Nodes :
     /\ x # None
     /\ \A S \in SUBSET Nodes : (x \in S /\ \A k \in S : nx[k] \in S \cup {None}) => m \in S}

Ordered(h, nx) ==
  CHOOSE s \in [1..Cardinality(Behind(nx, h)) -> Behind(nx, h)] :
    \A i \in DOMAIN s : s[i] = IF i = 1 THEN h ELSE nx[s[i - 1]]

LEMMA ListIsOrdered ==
  /\ \A x : From(x) = Behind(next, x)
  /\ Reachable = Behind(next, head) /\ Reachable' = Behind(next', head')
  /\ Objects = Ordered(head, next) /\ Objects' = Ordered(head', next')
<1>1. \A x : From(x) = Behind(next, x)
  BY DEF From, Behind
<1>2. Reachable = Behind(next, head) /\ Reachable' = Behind(next', head')
  BY DEF Reachable, From, Behind
<1>3. Objects = Ordered(head, next)
  BY <1>2, Zenon DEF Objects, Ordered
<1>4. Objects' = Ordered(head', next')
  BY <1>2, Zenon DEF Objects, Ordered
<1> QED
  BY <1>1, <1>2, <1>3, <1>4

\* From one of the links on, one reaches the links behind it.
LEMMA LinksReach ==
  ASSUME NEW h, NEW nx \in [Nodes -> Nodes \cup {None}], NEW n \in Nat, NEW s, Links(h, nx, n, s),
         NEW k \in 1..n
  PROVE  /\ \A m : m \in Behind(nx, s[k]) <=> \E j \in k..n : m = s[j]
         /\ \A i \in 1..n : s[i] \in Behind(nx, s[k]) => k <= i
<1> USE NoneIsNoNode
<1> DEFINE Rest == {s[j] : j \in k..n}
<1>0. /\ s \in [1..n -> Nodes] /\ nx[s[n]] = None
      /\ \A i \in 1..n - 1 : nx[s[i]] = s[i + 1]
  BY DEF Links
<1>1. Behind(nx, s[k]) \subseteq Rest
  <2>1. Rest \in SUBSET Nodes /\ s[k] \in Rest
    BY <1>0
  <2>2. ASSUME NEW m \in Rest PROVE nx[m] \in Rest \cup {None}
    <3>1. PICK j \in k..n : m = s[j]
      OBVIOUS
    <3>2. j # n => j \in 1..n - 1 /\ j + 1 \in k..n
      OBVIOUS
    <3> QED
      BY <1>0, <3>1, <3>2
  <2> HIDE DEF Rest
  <2> QED
    BY <2>1, <2>2 DEF Behind
<1>2. ASSUME NEW S \in SUBSET Nodes, s[k] \in S, \A m \in S : nx[m] \in S \cup {None}
      PROVE  \A j \in k..n : s[j] \in S
  <2> DEFINE Bad == {j \in k..n : s[j] \notin S}
  <2> SUFFICES ASSUME Bad # {} PROVE FALSE
    OBVIOUS
  <2>1. PICK j \in Bad : \A i \in Bad : j <= i
    <3>1. Bad \in SUBSET Nat
      OBVIOUS
    <3> HIDE DEF Bad
    <3> QED
      BY <3>1, LeastNumber
  <2>2. j \in k..n /\ j # k
    BY <1>2, <2>1
  <2>3. j - 1 \in k..n /\ j - 1 \in 1..n - 1 /\ (j - 1) + 1 = j /\ ~(j <= j - 1)
    BY <2>2
  <2>4. s[j - 1] \in S
    BY <2>1, <2>3
  <2>5. nx[s[j - 1]] = s[j] /\ s[j] \in Nodes
    BY <1>0, <2>2, <2>3
  <2> QED
    BY <1>2, <2>1, <2>4, <2>5
<1>3. Rest \subseteq Behind(nx, s[k])
  <2> SUFFICES ASSUME NEW j \in k..n PROVE s[j] \in Behind(nx, s[k])
    OBVIOUS
  <2>1. s[j] \in Nodes /\ s[k] \in Nodes
    BY <1>0
  <2> QED
    BY <1>2, <2>1 DEF Behind
<1>4. ASSUME NEW i \in 1..n, s[i] \in Behind(nx, s[k]) PROVE k <= i
  <2>1. PICK j \in k..n : s[i] = s[j]
    BY <1>1, <1>4
  <2>2. i = j
    BY <2>1 DEF Links
  <2> QED
    BY <2>1, <2>2
<1> QED
  BY <1>1, <1>3, <1>4

LEMMA LinksAreReached ==
  ASSUME NEW h, NEW nx \in [Nodes -> Nodes \cup {None}], NEW n \in Nat, NEW s, Links(h, nx, n, s)
  PROVE  Behind(nx, h) = {s[j] : j \in 1..n}
<1>1. CASE n = 0
  BY <1>1 DEF Links, Behind
<1>2. CASE n # 0
  <2>1. 1 \in 1..n /\ s[1] = h
    BY <1>2 DEF Links
  <2>2. \A m : m \in Behind(nx, h) <=> \E j \in 1..n : m = s[j]
    BY <2>1, LinksReach
  <2> QED
    BY <2>2
<1> QED
  BY <1>1, <1>2

\* The sequence of the objects is the links.
LEMMA LinksAreOrdered ==
  ASSUME NEW h, NEW nx \in [Nodes -> Nodes \cup {None}], NEW n \in Nat, NEW s, Links(h, nx, n, s)
  PROVE  Ordered(h, nx) = s
<1> DEFINE B == Behind(nx, h)
<1>0. /\ s \in [1..n -> Nodes]
      /\ n > 0 => s[1] = h
      /\ \A i \in 1..n - 1 : nx[s[i]] = s[i + 1]
      /\ \A i, j \in 1..n : s[i] = s[j] => i = j
  BY DEF Links
<1>1. B = {s[j] : j \in 1..n}
  BY LinksAreReached
<1> HIDE DEF B
<1>2. Cardinality(B) = n
  <2>1. s \in [1..n -> B]
    BY <1>0, <1>1
  <2>2. s \in Bijection(1..n, B)
    <3>1. \A b \in B : \E j \in 1..n : s[j] = b
      BY <1>1
    <3>2. s \in Injection(1..n, B)
      BY <1>0, <2>1 DEF Injection, IsInjective
    <3>3. s \in Surjection(1..n, B)
      BY <2>1, <3>1 DEF Surjection
    <3> QED
      BY <3>2, <3>3 DEF Bijection
  <2> QED
    BY <2>2, FS_CountingElements DEF ExistsBijection
<1>3. s \in [1..n -> B] /\ \A i \in 1..n : s[i] = IF i = 1 THEN h ELSE nx[s[i - 1]]
  <2>1. \A i \in 1..n : i # 1 => i - 1 \in 1..n - 1 /\ (i - 1) + 1 = i
    OBVIOUS
  <2>2. s \in [1..n -> B]
    BY <1>0, <1>1
  <2> QED
    BY <1>0, <2>1, <2>2
<1>4. ASSUME NEW t \in [1..n -> B], \A i \in 1..n : t[i] = IF i = 1 THEN h ELSE nx[t[i - 1]]
      PROVE  t = s
  <2> DEFINE Bad == {i \in 1..n : t[i] # s[i]}
  <2>1. ASSUME Bad # {} PROVE FALSE
    <3>1. PICK i \in Bad : \A j \in Bad : i <= j
      <4>1. Bad \in SUBSET Nat
        OBVIOUS
      <4> HIDE DEF Bad
      <4> QED
        BY <2>1, <4>1, LeastNumber
    <3>2. i \in 1..n /\ i # 1
      BY <1>3, <1>4, <3>1
    <3>3. i - 1 \in 1..n /\ ~(i <= i - 1)
      BY <3>2
    <3>4. t[i - 1] = s[i - 1]
      BY <3>1, <3>3
    <3> QED
      BY <1>3, <1>4, <3>1, <3>2, <3>4
  <2>2. \A i \in 1..n : t[i] = s[i]
    BY <2>1
  <2> QED
    BY <1>3, <1>4, <2>2
<1> DEFINE P(t) == t \in [1..n -> B] /\ \A i \in DOMAIN t : t[i] = IF i = 1 THEN h ELSE nx[t[i - 1]]
<1>5. \A t : P(t) <=> t = s
  BY <1>3, <1>4
<1>6. Ordered(h, nx) = CHOOSE t : P(t)
  BY <1>2, Zenon DEF Ordered, B
<1> HIDE DEF P
<1> QED
  BY <1>5, <1>6, Zenon

\* An object that is appended comes behind the others.
LEMMA AppendLinks ==
  ASSUME NEW h, NEW nx \in [Nodes -> Nodes \cup {None}], NEW n \in Nat, NEW s, Links(h, nx, n, s),
         NEW x \in Nodes, \A i \in 1..n : s[i] # x, NEW h2, NEW nx2,
         IF h = None THEN h2 = x /\ nx2 = [nx EXCEPT ![x] = None]
         ELSE \E last \in Behind(nx, h) :
                nx[last] = None /\ nx2 = [nx EXCEPT ![x] = None, ![last] = x] /\ h2 = h
  PROVE  Links(h2, nx2, n + 1, [i \in 1..n + 1 |-> IF i <= n THEN s[i] ELSE x])
<1> USE NoneIsNoNode
<1> DEFINE t == [i \in 1..n + 1 |-> IF i <= n THEN s[i] ELSE x]
<1>0. /\ s \in [1..n -> Nodes]
      /\ n = 0 => h = None
      /\ n > 0 => s[1] = h /\ nx[s[n]] = None
      /\ \A i \in 1..n - 1 : nx[s[i]] = s[i + 1]
      /\ \A i, j \in 1..n : s[i] = s[j] => i = j
  BY DEF Links
<1>1. t \in [1..n + 1 -> Nodes] /\ t[n + 1] = x /\ \A i \in 1..n : t[i] = s[i]
  BY <1>0
<1> HIDE DEF t
<1>2. \A i, j \in 1..n + 1 : t[i] = t[j] => i = j
  <2>1. \A i \in 1..n + 1 : i \in 1..n \/ i = n + 1
    OBVIOUS
  <2> QED
    BY <1>0, <1>1, <2>1
<1>3. CASE n = 0
  <2>1. h2 = x /\ nx2[x] = None
    BY <1>0, <1>3
  <2> QED
    BY <1>1, <1>2, <1>3, <2>1 DEF Links, t
<1>4. CASE n # 0
  <2>1. h # None
    BY <1>0, <1>4
  <2>2. PICK last \in Behind(nx, h) :
          nx[last] = None /\ nx2 = [nx EXCEPT ![x] = None, ![last] = x] /\ h2 = h
    BY <2>1
  <2>3. last = s[n]
    <3>1. PICK j \in 1..n : last = s[j]
      BY LinksAreReached
    <3>2. j # n => j \in 1..n - 1 /\ j + 1 \in 1..n
      OBVIOUS
    <3> QED
      BY <1>0, <2>2, <3>1, <3>2
  <2>4. n \in 1..n /\ s[n] \in Nodes /\ s[n] # x
    BY <1>0, <1>4
  <2>5. nx2[x] = None /\ nx2[s[n]] = x
    BY <2>2, <2>3, <2>4
  <2>6. ASSUME NEW i \in 1..n - 1 PROVE nx2[s[i]] = s[i + 1]
    <3>1. i \in 1..n /\ i # n
      OBVIOUS
    <3>2. s[i] \in Nodes /\ s[i] # x /\ s[i] # s[n]
      BY <1>0, <2>4, <3>1
    <3> QED
      BY <1>0, <2>2, <2>3, <3>2
  <2>7. \A i \in 1..(n + 1) - 1 : nx2[t[i]] = t[i + 1]
    <3>1. \A i \in 1..(n + 1) - 1 : i = n \/ (i \in 1..n - 1 /\ i + 1 \in 1..n)
      OBVIOUS
    <3> QED
      BY <1>1, <2>5, <2>6, <2>4, <3>1
  <2>8. t[1] = h2
    BY <1>0, <1>1, <1>4, <2>2
  <2>9. n + 1 \in Nat /\ n + 1 # 0
    OBVIOUS
  <2> QED
    BY <1>1, <1>2, <2>5, <2>7, <2>8, <2>9 DEF Links, t
<1> QED
  BY <1>3, <1>4

\* An object that is taken out leaves the others in their order.
LEMMA RemoveLinks ==
  ASSUME NEW h, NEW nx \in [Nodes -> Nodes \cup {None}], NEW n \in Nat, NEW s, Links(h, nx, n, s),
         NEW k \in 1..n, NEW h2, NEW nx2,
         IF s[k] = h THEN h2 = nx[s[k]] /\ nx2 = nx
         ELSE \E prev \in Behind(nx, h) :
                nx[prev] = s[k] /\ nx2 = [nx EXCEPT ![prev] = nx[s[k]]] /\ h2 = h
  PROVE  Links(h2, nx2, n - 1, [i \in 1..n - 1 |-> IF i < k THEN s[i] ELSE s[i + 1]])
<1> USE NoneIsNoNode
<1> DEFINE t == [i \in 1..n - 1 |-> IF i < k THEN s[i] ELSE s[i + 1]]
<1>0. /\ s \in [1..n -> Nodes] /\ n > 0 /\ s[1] = h /\ nx[s[n]] = None
      /\ \A i \in 1..n - 1 : nx[s[i]] = s[i + 1]
      /\ \A i, j \in 1..n : s[i] = s[j] => i = j
  BY DEF Links
<1>1. \A i \in 1..n - 1 : i \in 1..n /\ i + 1 \in 1..n /\ n - 1 \in Nat
  OBVIOUS
<1>2. /\ t \in [1..n - 1 -> Nodes]
      /\ \A i \in 1..n - 1 : t[i] = IF i < k THEN s[i] ELSE s[i + 1]
  BY <1>0, <1>1
<1> HIDE DEF t
<1>3. \A i, j \in 1..n - 1 : t[i] = t[j] => i = j
  <2> SUFFICES ASSUME NEW i \in 1..n - 1, NEW j \in 1..n - 1, t[i] = t[j] PROVE i = j
    OBVIOUS
  <2>1. PICK a \in {i, i + 1} : t[i] = s[a] /\ (i < k <=> a = i) /\ a \in 1..n
    BY <1>1, <1>2
  <2>2. PICK b \in {j, j + 1} : t[j] = s[b] /\ (j < k <=> b = j) /\ b \in 1..n
    BY <1>1, <1>2
  <2>3. a = b
    BY <1>0, <2>1, <2>2
  <2> QED
    BY <2>1, <2>2, <2>3
<1>4. CASE k = 1
  <2>1. h2 = nx[s[1]] /\ nx2 = nx
    BY <1>0, <1>4
  <2>2. \A i \in 1..n - 1 : t[i] = s[i + 1]
    BY <1>2, <1>4
  <2>3. n - 1 = 0 => h2 = None
    BY <1>0, <2>1
  <2>4. n - 1 > 0 => t[1] = h2 /\ nx2[t[n - 1]] = None
    <3> SUFFICES ASSUME n - 1 > 0 PROVE t[1] = h2 /\ nx2[t[n - 1]] = None
      OBVIOUS
    <3>1. 1 \in 1..n - 1 /\ n - 1 \in 1..n - 1 /\ (n - 1) + 1 = n
      OBVIOUS
    <3> QED
      BY <1>0, <2>1, <2>2, <3>1
  <2>5. \A i \in 1..(n - 1) - 1 : nx2[t[i]] = t[i + 1]
    <3>1. \A i \in 1..(n - 1) - 1 : i \in 1..n - 1 /\ i + 1 \in 1..n - 1
      OBVIOUS
    <3> QED
      BY <1>0, <2>1, <2>2, <3>1
  <2> QED
    BY <1>2, <1>3, <2>3, <2>4, <2>5 DEF Links, t
<1>5. CASE k # 1
  <2>1. s[k] # h /\ k - 1 \in 1..n /\ k - 1 \in 1..n - 1 /\ (k - 1) + 1 = k
    BY <1>0, <1>5
  <2>2. PICK prev \in Behind(nx, h) :
          nx[prev] = s[k] /\ nx2 = [nx EXCEPT ![prev] = nx[s[k]]] /\ h2 = h
    BY <2>1
  <2>3. prev = s[k - 1]
    <3>1. PICK j \in 1..n : prev = s[j]
      BY LinksAreReached
    <3>2. j # n
      BY <1>0, <2>2, <3>1
    <3>3. j \in 1..n - 1 /\ j + 1 \in 1..n
      BY <3>2
    <3>4. j + 1 = k
      BY <1>0, <2>2, <3>1, <3>3
    <3>5. j = k - 1
      BY <3>4
    <3> QED
      BY <3>1, <3>5
  <2>4. nx2[s[k - 1]] = nx[s[k]]
    BY <1>0, <2>1, <2>2, <2>3
  <2>5. \A i \in 1..n : i # k - 1 => nx2[s[i]] = nx[s[i]]
    <3> SUFFICES ASSUME NEW i \in 1..n, i # k - 1 PROVE nx2[s[i]] = nx[s[i]]
      OBVIOUS
    <3>1. s[i] # s[k - 1] /\ s[i] \in Nodes
      BY <1>0, <2>1
    <3> QED
      BY <2>2, <2>3, <3>1
  <2>6. n - 1 > 0 /\ t[1] = h2
    <3>1. n - 1 > 0 /\ 1 \in 1..n - 1 /\ 1 < k
      BY <1>5
    <3> QED
      BY <1>0, <1>2, <2>2, <3>1
  <2>7. nx2[t[n - 1]] = None
    <3>0. n - 1 \in 1..n - 1 /\ (n - 1) + 1 = n /\ n \in 1..n
      BY <2>6
    <3>1. CASE k = n
      <4>1. t[n - 1] = s[k - 1]
        BY <1>2, <3>0, <3>1
      <4> QED
        BY <1>0, <2>4, <3>1, <4>1
    <3>2. CASE k # n
      <4>1. t[n - 1] = s[n] /\ n # k - 1
        BY <1>2, <3>0, <3>2
      <4> QED
        BY <1>0, <2>5, <3>0, <4>1
    <3> QED
      BY <3>1, <3>2
  <2>8. ASSUME NEW i \in 1..(n - 1) - 1 PROVE nx2[t[i]] = t[i + 1]
    <3>0. i \in 1..n - 1 /\ i + 1 \in 1..n - 1 /\ i \in 1..n /\ i + 1 \in 1..n
      OBVIOUS
    <3>1. CASE i + 1 < k
      <4>1. t[i] = s[i] /\ t[i + 1] = s[i + 1] /\ i # k - 1
        BY <1>2, <3>0, <3>1
      <4> QED
        BY <1>0, <2>5, <3>0, <4>1
    <3>2. CASE i + 1 = k
      <4>1. t[i] = s[k - 1] /\ t[i + 1] = s[k + 1] /\ k \in 1..n - 1
        BY <1>2, <3>0, <3>2
      <4> QED
        BY <1>0, <2>4, <4>1
    <3>3. CASE ~(i + 1 < k) /\ i + 1 # k
      <4>1. t[i] = s[i + 1] /\ t[i + 1] = s[(i + 1) + 1] /\ i + 1 # k - 1
        BY <1>2, <3>0, <3>3
      <4> QED
        BY <1>0, <2>5, <3>0, <4>1
    <3> QED
      BY <3>1, <3>2, <3>3
  <2>9. n - 1 # 0
    BY <2>6
  <2>10. Links(h2, nx2, n - 1, t)
    BY <1>2, <1>3, <2>6, <2>7, <2>8, <2>9 DEF Links
  <2> QED
    BY <2>10 DEF t
<1> QED
  BY <1>4, <1>5

-----------------------------------------------------------------------------
(* The registry of the abstract specification compares, decodes and parses *)
(* as the detailed one.                                                    *)

LEMMA SameMatches == \A e, u : R!Matches(e, u) = Matches(e, u)
BY Zenon DEF R!Matches, Matches, R!MatchEndPointURI, MatchEndPointURI

LEMMA SameFirst == \A s, from, c : R!FirstFrom(s, from, c) = FirstFrom(s, from, c)
BY Zenon DEF R!FirstFrom, FirstFrom, R!PlacesOf, PlacesOf, R!Min, Min

LEMMA SameOccurrences == \A s, c : R!Occurrences(s, c) = Occurrences(s, c)
BY Zenon DEF R!Occurrences, Occurrences, R!PlacesOf, PlacesOf, R!Cardinality, Cardinality

LEMMA SamePath == \A r : R!PathOf(r) = GetEndPointURIfromRequestURI(DecodeEncodedURLString(r.uri))
<1>1. \A s : R!DecodeEncodedURLString(s) = DecodeEncodedURLString(s)
  BY Zenon DEF R!DecodeEncodedURLString, DecodeEncodedURLString, R!DecodedCharacter, DecodedCharacter
<1>2. \A s : R!GetEndPointURIfromRequestURI(s) = GetEndPointURIfromRequestURI(s)
  BY SameFirst, Zenon DEF R!GetEndPointURIfromRequestURI, GetEndPointURIfromRequestURI
<1> QED
  BY <1>1, <1>2, Zenon DEF R!PathOf

LEMMA SameParams == ASSUME NEW s, NEW count PROVE R!ParseParams(s, count) = ParseParams(s, count)
<1> DEFINE A(f) == [n \in 0..count |->
                      IF n = 0 THEN [key \in 0..Len(s) |-> {<<>>}] ELSE PairsBehind(s, f[n - 1])]
           B(f) == [n \in 0..count |->
                      IF n = 0 THEN [key \in 0..Len(s) |-> {<<>>}] ELSE R!PairsBehind(s, f[n - 1])]
<1>1. \A later : R!PairsBehind(s, later) = PairsBehind(s, later)
  BY Zenon DEF R!PairsBehind, PairsBehind, R!Between, Between, R!FirstFrom, FirstFrom,
               R!PlacesOf, PlacesOf, R!Min, Min
<1>2. R!QueryMark(s) = QueryMark(s)
  BY SameFirst, Zenon DEF R!QueryMark, QueryMark
<1>3. \A f : A(f) = B(f)
  BY <1>1
<1>4. ParseParams(s, count) =
        IF count > MaxParams THEN {} ELSE (CHOOSE f : f = A(f))[count][QueryMark(s)]
  BY Zenon DEF ParseParams
<1>5. R!ParseParams(s, count) =
        IF count > MaxParams THEN {} ELSE (CHOOSE f : f = B(f))[count][R!QueryMark(s)]
  BY Zenon DEF R!ParseParams
<1> HIDE DEF A, B
<1>6. \A f : f = A(f) <=> f = B(f)
  BY <1>3, Zenon
<1>7. (CHOOSE f : f = A(f)) = (CHOOSE f : f = B(f))
  BY <1>6
<1> QED
  BY <1>2, <1>4, <1>5, <1>7, Zenon

LEMMA SameRequestParams == \A s : R!RequestParams(s) = RequestParams(s)
<1> SUFFICES ASSUME NEW s PROVE R!RequestParams(s) = RequestParams(s)
  OBVIOUS
<1>1. R!GetParamsCountInReqURI(s) = GetParamsCountInReqURI(s)
  BY SameFirst, SameOccurrences, Zenon DEF R!GetParamsCountInReqURI, GetParamsCountInReqURI
<1> DEFINE N == GetParamsCountInReqURI(s)
           A == {IF n = 0 THEN {<<>>} ELSE ParseParams(s, n) : n \in N}
           B == {IF n = 0 THEN {<<>>} ELSE R!ParseParams(s, n) : n \in N}
<1>2. RequestParams(s) = UNION A
  BY Zenon DEF RequestParams
<1>3. R!RequestParams(s) = UNION B
  BY <1>1, Zenon DEF R!RequestParams
<1>4. \A n : (IF n = 0 THEN {<<>>} ELSE R!ParseParams(s, n)) = (IF n = 0 THEN {<<>>} ELSE ParseParams(s, n))
  BY SameParams, Zenon
<1> HIDE DEF N
<1>5. A = B
  BY <1>4, Zenon
<1> QED
  BY <1>2, <1>3, <1>5, Zenon

\* A request has one path, or none.
LEMMA PathIsOne ==
  \A s : GetEndPointURIfromRequestURI(s) # {} => \E p : GetEndPointURIfromRequestURI(s) = {p}
BY Zenon DEF GetEndPointURIfromRequestURI

-----------------------------------------------------------------------------
(* The list is the sequence of the registry.                               *)

LEMMA ChainIsLinks ==
  ASSUME TypeOK, NEW n \in Nat, NEW s, Links(head, next, n, s)
  PROVE  Chain = [i \in 1..n |-> uriOf[s[i]]]
<1>1. Objects = s /\ s \in [1..n -> Nodes]
  BY ListIsOrdered, LinksAreOrdered DEF TypeOK, Links
<1> QED
  BY <1>1 DEF Chain

LEMMA NextChainIsLinks ==
  ASSUME TypeOK', NEW n \in Nat, NEW s, Links(head', next', n, s)
  PROVE  Chain' = [i \in 1..n |-> uriOf'[s[i]]]
<1>1. Objects' = s /\ s \in [1..n -> Nodes]
  BY ListIsOrdered, LinksAreOrdered DEF TypeOK, Links
<1> QED
  BY <1>1 DEF Chain

LEMMA ChainIsKept == ASSUME UNCHANGED <<head, next, uriOf>> PROVE Chain' = Chain
<1>1. Objects' = Objects
  BY ListIsOrdered
<1> QED
  BY <1>1 DEF Chain

\* Without one of its elements, a sequence is what is before and behind it.
LEMMA SequenceWithout ==
  ASSUME NEW S, NEW q \in Seq(S), NEW k \in 1..Len(q)
  PROVE  SubSeq(q, 1, k - 1) \o SubSeq(q, k + 1, Len(q))
           = [i \in 1..Len(q) - 1 |-> IF i < k THEN q[i] ELSE q[i + 1]]
<1> DEFINE a == SubSeq(q, 1, k - 1)
           b == SubSeq(q, k + 1, Len(q))
           n == Len(q)
<1>1. n \in Nat /\ k \in 1..n
  OBVIOUS
<1>2. a \in Seq(S) /\ Len(a) = k - 1 /\ \A i \in 1..k - 1 : a[i] = q[i]
  OBVIOUS
<1>3. b \in Seq(S) /\ Len(b) = n - k /\ \A i \in 1..n - k : b[i] = q[k + i]
  OBVIOUS
<1> HIDE DEF a, b, n
<1>4. a \o b \in Seq(S) /\ Len(a \o b) = n - 1
  <2>1. a \o b \in Seq(S) /\ Len(a \o b) = Len(a) + Len(b)
    BY <1>2, <1>3, ConcatProperties
  <2> QED
    BY <1>1, <1>2, <1>3, <2>1
<1>5. ASSUME NEW i \in 1..n - 1 PROVE (a \o b)[i] = IF i < k THEN q[i] ELSE q[i + 1]
  <2>1. CASE i < k
    BY <1>1, <1>2, <1>3, <2>1
  <2>2. CASE ~(i < k)
    <3>1. i - (k - 1) \in 1..n - k /\ k + (i - (k - 1)) = i + 1
      BY <1>1, <2>2
    <3>2. (a \o b)[i] = b[i - (k - 1)]
      BY <1>1, <1>2, <1>3, <2>2
    <3> QED
      BY <1>3, <2>2, <3>1, <3>2
  <2> QED
    BY <2>1, <2>2
<1>6. a \o b = [i \in 1..n - 1 |-> IF i < k THEN q[i] ELSE q[i + 1]]
  <2>1. a \o b = [i \in 1..Len(a \o b) |-> (a \o b)[i]]
    <3> DEFINE c == a \o b
    <3>1. c \in Seq(S)
      BY <1>4
    <3> HIDE DEF c
    <3>2. c = [i \in 1..Len(c) |-> c[i]]
      BY <3>1
    <3> QED
      BY <3>2 DEF c
  <2> QED
    BY <1>4, <1>5, <2>1, Zenon
<1> QED
  BY <1>6 DEF a, b, n

-----------------------------------------------------------------------------
(* The invariant of the refinement.                                        *)

\* The list is changed by one thread of the application, and only when no worker
\* looks something up.
LEMMA ListIsOwned ==
  ASSUME GoodApplication, RefinementInv,
         \/ Shutdown
         \/ \E c \in Callers : \/ InitEndPointRegistration(c) \/ AddEndpoint(c)
                               \/ \E u \in Uris : RemoveEndpoint(c, u)
  PROVE  \A w \in Workers : pc[w] # "lookup" /\ pc'[w] = pc[w] /\ UNCHANGED answer
<1> USE NoneIsNoNode, ThreadsDiffer
<1>0. TypeOK /\ FreesAreAlone /\ RegistersBeforeStart
  BY DEF RefinementInv, LeakInv, IInv
<1>1. CASE Shutdown
  BY <1>0, <1>1 DEF Shutdown, MayFree, GoodApplication, FreesAreAlone, threadVars
<1>2. ASSUME NEW c \in Callers, InitEndPointRegistration(c) \/ AddEndpoint(c)
      PROVE  \A w \in Workers : pc[w] # "lookup" /\ pc'[w] = pc[w] /\ UNCHANGED answer
  <2>1. running = {}
    BY <1>0, <1>2 DEF InitEndPointRegistration, AddEndpoint, RegistersBeforeStart, FreesAreAlone
  <2>2. \A w \in Workers : pc'[w] = pc[w] /\ UNCHANGED answer
    BY <1>0, <1>2 DEF InitEndPointRegistration, AddEndpoint, Return, Goto, TypeOK, Threads
  <2> QED
    BY <1>0, <2>1, <2>2 DEF FreesAreAlone
<1>3. ASSUME NEW c \in Callers, NEW u \in Uris, RemoveEndpoint(c, u)
      PROVE  \A w \in Workers : pc[w] # "lookup" /\ pc'[w] = pc[w] /\ UNCHANGED answer
  <2>1. running = {}
    BY <1>3 DEF RemoveEndpoint, MayFree, GoodApplication
  <2>2. \A w \in Workers : pc'[w] = pc[w] /\ UNCHANGED answer
    BY <1>0, <1>3 DEF RemoveEndpoint, Goto, TypeOK, Threads
  <2> QED
    BY <1>0, <2>1, <2>2 DEF FreesAreAlone
<1> QED
  BY <1>1, <1>2, <1>3

\* What a worker wants depends on its request only.
LEMMA WantedOfRequest ==
  ASSUME NEW w \in Workers, arg'[w] = arg[w] PROVE Wanted(w)' = Wanted(w)
<1> DEFINE Path(r) == CHOOSE p \in GetEndPointURIfromRequestURI(DecodeEncodedURLString(r.uri)) : TRUE
<1>1. Wanted(w) = Path(arg[w]) /\ Wanted(w)' = Path(arg'[w])
  BY ThreadsDiffer DEF Wanted
<1> HIDE DEF Path
<1> QED
  BY <1>1

LEMMA LookUpStep ==
  ASSUME GoodApplication, ~UsesFind, RefinementInv, [Next]_vars PROVE LookUpIsComplete'
<1> USE NoneIsNoNode, ThreadsDiffer
<1>0. TypeOK /\ LookUpIsComplete /\ \A c \in Callers : pc[c] # "find"
  BY DEF RefinementInv, LeakInv, IInv
\* Steps that change neither the list nor what a worker looks for.
<1>1. ASSUME UNCHANGED <<head, next, uriOf>>,
             \A w \in Workers : pc'[w] = "lookup" =>
               pc[w] = "lookup" /\ arg'[w] = arg[w] /\ cur'[w] = cur[w]
      PROVE  LookUpIsComplete'
  <2>1. Reachable' = Reachable
    BY <1>1 DEF Reachable, From
  <2>2. \A w \in Workers : cur'[w] = cur[w] => From(cur[w])' = From(cur[w])
    BY <1>1 DEF From
  <2>3. \A w \in Workers : pc'[w] = "lookup" => Wanted(w)' = Wanted(w)
    BY <1>1, WantedOfRequest
  <2> QED
    BY <1>0, <1>1, <2>1, <2>2, <2>3 DEF LookUpIsComplete
<1>2. ASSUME NEW t \in Threads, Advance(t) PROVE LookUpIsComplete'
  <2>1. /\ UNCHANGED <<head, next, uriOf, pc, arg>> /\ cur[t] \in Nodes
        /\ cur' = [cur EXCEPT ![t] = next[cur[t]]]
    BY <1>2, <1>0 DEF Advance, listVars, TypeOK
  <2>2. Reachable' = Reachable /\ \A w \in Workers : Wanted(w)' = Wanted(w)
    BY <2>1 DEF Reachable, From, Wanted
  <2>3. ASSUME NEW w \in Workers, pc'[w] = "lookup", NEW m \in Reachable, Matches(uriOf[m], Wanted(w))
        PROVE  m \in From(cur[w])'
    <3>1. m \in From(cur[w])
      BY <1>0, <2>1, <2>3 DEF LookUpIsComplete
    <3>2. CASE w # t
      BY <3>1, <3>2, <2>1, <1>0 DEF From, TypeOK
    <3>3. CASE w = t
      <4>1. cur[w] # m
        BY <3>3, <1>2, <2>3 DEF Advance, Found
      <4>2. m \in From(next[cur[w]])
        BY <3>1, <3>3, <4>1, <2>1, <1>0, FromUnfolds
      <4>3. cur'[w] = next[cur[w]]
        BY <3>3, <2>1, <1>0 DEF TypeOK, Threads
      <4> QED
        BY <4>2, <4>3, <2>1 DEF From
    <3> QED
      BY <3>2, <3>3
  <2> QED
    BY <1>0, <2>1, <2>2, <2>3 DEF LookUpIsComplete
<1>3. ASSUME NEW w \in Workers, NEW r \in Requests, LookUp(w, r) PROVE LookUpIsComplete'
  <2>1. /\ UNCHANGED <<head, next, uriOf>> /\ arg'[w] = r /\ cur'[w] = head
        /\ \A v \in Workers \ {w} : pc'[v] = pc[v] /\ arg'[v] = arg[v] /\ cur'[v] = cur[v]
        /\ GetEndPointURIfromRequestURI(DecodeEncodedURLString(r.uri)) # {}
    BY <1>0, <1>3 DEF LookUp, listVars, Goto, TypeOK, Threads
  <2>2. Reachable' = Reachable
    BY <2>1 DEF Reachable, From
  <2>3. From(cur[w])' = Reachable
    BY <2>1 DEF Reachable, From
  <2>4. \A v \in Workers \ {w} : From(cur[v])' = From(cur[v]) /\ Wanted(v)' = Wanted(v)
    BY <2>1, WantedOfRequest DEF From
  <2> QED
    BY <1>0, <2>1, <2>2, <2>3, <2>4 DEF LookUpIsComplete
<1>4. CASE \/ Shutdown
           \/ \E c \in Callers : \/ InitEndPointRegistration(c) \/ AddEndpoint(c)
                                 \/ \E u \in Uris : RemoveEndpoint(c, u)
  BY <1>4, ListIsOwned DEF LookUpIsComplete
<1>5. ASSUME NEW c \in Callers,
             \/ RegisterDirect(c) \/ EndpointExists(c) \/ FindNothing(c) \/ FreeEndPoint(c)
             \/ \E u \in Uris : RegisterEndpoint(c, u) \/ FindEndpoint(c, u)
      PROVE  LookUpIsComplete'
  <2>1. UNCHANGED <<head, next, uriOf>>
    BY <1>5 DEF RegisterDirect, EndpointExists, FindNothing, FreeEndPoint, FindEndpoint, RegisterEndpoint,
       listVars
  <2>2. \A w \in Workers : UNCHANGED <<pc[w], arg[w], cur[w]>>
    BY <1>5, <1>0 DEF RegisterDirect, EndpointExists, FindNothing, FreeEndPoint, FindEndpoint,
       RegisterEndpoint, threadVars, Return, Goto, TypeOK, Threads
  <2> QED
    BY <2>1, <2>2, <1>1
<1>6. ASSUME NEW w \in Workers,
             \/ Leave(w) \/ NoEngine(w) \/ Dispatch(w) \/ NoEndpoint(w)
             \/ \E r \in Requests : BadPath(w, r)
      PROVE  LookUpIsComplete'
  BY <1>6, <1>1, <1>0 DEF Leave, NoEngine, Dispatch, NoEndpoint, BadPath, listVars, threadVars,
     Return, Goto, TypeOK, Threads
<1>7. CASE Start \/ Stop \/ UNCHANGED vars
  BY <1>7, <1>1 DEF Start, Stop, vars, listVars, threadVars
<1>8. \A c \in Callers : ~CopyEndpoint(c)
  BY <1>0 DEF CopyEndpoint
<1> QED
  BY <1>2, <1>3, <1>4, <1>5, <1>6, <1>7, <1>8 DEF Next, CallerStep, WorkerStep

LEMMA RegistersStep ==
  ASSUME GoodApplication, RefinementInv, [Next]_vars PROVE RegistersBeforeStart'
<1> USE NoneIsNoNode, ThreadsDiffer
<1>0. TypeOK /\ RegistersBeforeStart
  BY DEF RefinementInv, LeakInv, IInv
<1>1. ASSUME instanceState' = instanceState,
             \A c \in Callers : pc'[c] \in {"init", "register"} =>
               pc[c] \in {"init", "register"} /\ arg'[c] = arg[c]
      PROVE  RegistersBeforeStart'
  BY <1>0, <1>1 DEF RegistersBeforeStart
<1>2. ASSUME NEW c \in Callers, NEW u \in Uris, RegisterEndpoint(c, u) PROVE RegistersBeforeStart'
  BY <1>0, <1>2 DEF RegisterEndpoint, RegistersBeforeStart, Goto, TypeOK, Threads
<1>3. ASSUME NEW c \in Callers,
             \/ RegisterDirect(c) \/ InitEndPointRegistration(c) \/ EndpointExists(c)
             \/ AddEndpoint(c) \/ CopyEndpoint(c) \/ FindNothing(c) \/ FreeEndPoint(c)
             \/ \E u \in Uris : FindEndpoint(c, u) \/ RemoveEndpoint(c, u)
      PROVE  RegistersBeforeStart'
  <2>1. instanceState' = instanceState
    BY <1>3 DEF RegisterDirect, InitEndPointRegistration, EndpointExists, AddEndpoint, CopyEndpoint,
       FindNothing, FreeEndPoint, FindEndpoint, RemoveEndpoint
  <2>2. \A d \in Callers : pc'[d] \in {"init", "register"} =>
          pc[d] \in {"init", "register"} /\ arg'[d] = arg[d]
    BY <1>0, <1>3 DEF RegisterDirect, InitEndPointRegistration, EndpointExists, AddEndpoint,
       CopyEndpoint, FindNothing, FreeEndPoint, FindEndpoint, RemoveEndpoint, threadVars, Return, Goto,
       TypeOK, Threads
  <2> QED
    BY <1>1, <2>1, <2>2
<1>4. ASSUME NEW w \in Workers, WorkerStep(w) PROVE RegistersBeforeStart'
  <2>1. instanceState' = instanceState
    BY <1>4 DEF WorkerStep, Leave, NoEngine, Dispatch, NoEndpoint, BadPath, LookUp
  <2>2. \A c \in Callers : UNCHANGED <<pc[c], arg[c]>>
    BY <1>4, <1>0 DEF WorkerStep, Leave, NoEngine, Dispatch, NoEndpoint, BadPath, LookUp, threadVars,
       Return, Goto, TypeOK, Threads
  <2> QED
    BY <1>1, <2>1, <2>2
<1>5. ASSUME NEW t \in Threads, Advance(t) PROVE RegistersBeforeStart'
  BY <1>1, <1>5 DEF Advance
<1>6. CASE Start \/ Stop \/ Shutdown \/ UNCHANGED vars
  BY <1>0, <1>6 DEF Start, Stop, Shutdown, Alone, vars, threadVars, RegistersBeforeStart
<1> QED
  BY <1>2, <1>3, <1>4, <1>5, <1>6 DEF Next, CallerStep

LEMMA ServesStep ==
  ASSUME GoodApplication, ~UsesFind, ~UsesDirect, RefinementInv, [Next]_vars PROVE EngineServes'
<1>0. EngineServes /\ RefinementInv
  BY DEF RefinementInv
<1>1. ASSUME UNCHANGED <<pHttpHandler, head>> PROVE EngineServes'
  BY <1>0, <1>1 DEF EngineServes
<1>2. ASSUME NEW c \in Callers, AddEndpoint(c) PROVE EngineServes'
  BY <1>0, <1>2 DEF AddEndpoint, HttpRegister, EngineServes
<1>3. ASSUME NEW c \in Callers, NEW u \in Uris, RemoveEndpoint(c, u) PROVE EngineServes'
  <2>1. Reachable # {} /\ UNCHANGED pHttpHandler
    BY <1>3 DEF RemoveEndpoint
  <2>2. head # None
    BY <2>1 DEF Reachable, From
  <2> QED
    BY <1>0, <2>1, <2>2 DEF EngineServes
<1>4. ASSUME Shutdown \/ \E c \in Callers : InitEndPointRegistration(c) PROVE EngineServes'
  BY <1>0, <1>4 DEF Shutdown, InitEndPointRegistration, EngineServes
<1>5. ASSUME NEW c \in Callers,
             \/ EndpointExists(c) \/ CopyEndpoint(c) \/ FindNothing(c) \/ FreeEndPoint(c)
             \/ \E u \in Uris : RegisterEndpoint(c, u) \/ FindEndpoint(c, u)
      PROVE  EngineServes'
  BY <1>1, <1>5 DEF EndpointExists, CopyEndpoint, FindNothing, FreeEndPoint, RegisterEndpoint,
     FindEndpoint, listVars
<1>6. ASSUME NEW w \in Workers, WorkerStep(w) PROVE EngineServes'
  BY <1>1, <1>6 DEF WorkerStep, Leave, NoEngine, Dispatch, NoEndpoint, BadPath, LookUp, listVars
<1>7. CASE Start \/ Stop \/ UNCHANGED vars \/ \E t \in Threads : Advance(t)
  BY <1>1, <1>7 DEF Start, Stop, Advance, vars, listVars
<1>8. \A c \in Callers : ~RegisterDirect(c)
  BY DEF RegisterDirect
<1> QED
  BY <1>2, <1>3, <1>4, <1>5, <1>6, <1>7, <1>8 DEF Next, CallerStep

LEMMA RefinementStep ==
  ASSUME GoodApplication, ~UsesFind, ~UsesDirect, RefinementInv, [Next]_vars PROVE RefinementInv'
BY DistinctStep, LeakStep, LookUpStep, RegistersStep, ServesStep DEF RefinementInv

-----------------------------------------------------------------------------
(* Every step of the list is a step of the registry, or none.              *)

\* The links of the list that a step leaves, and what it is in the registry.
Simulates ==
  /\ [R!RegistryNext]_(R!registryVars)
  /\ \E n \in Nat : \E s : Links(head', next', n, s)

Asked == [w \in Workers |-> IF pc[w] = "lookup" THEN arg[w] ELSE None]

\* Steps the registry does not see.
LEMMA SimulateStutter ==
  ASSUME NEW n \in Nat, NEW s, Links(head, next, n, s),
         UNCHANGED <<instanceState, head, next, uriOf, answer, Asked>>
  PROVE  Simulates
<1>1. Chain' = Chain
  BY ChainIsKept
<1>2. UNCHANGED R!registryVars
  BY <1>1 DEF R!registryVars, Asked
<1>3. Links(head', next', n, s)
  BY DEF Links
<1> QED
  BY <1>2, <1>3 DEF Simulates

LEMMA SimulateAddEndpoint ==
  ASSUME GoodApplication, RefinementInv, TypeOK', NEW n \in Nat, NEW s, Links(head, next, n, s),
         NEW c \in Callers, AddEndpoint(c)
  PROVE  Simulates
<1> USE NoneIsNoNode, ThreadsDiffer
<1>0. TypeOK /\ ListIsClosed /\ CheckIsComplete /\ RegistersBeforeStart
  BY DEF RefinementInv, LeakInv, DistinctInv, IInv
<1>1. PICK x \in Nodes \ live :
        /\ uriOf' = [uriOf EXCEPT ![x] = arg[c]]
        /\ IF head = None
           THEN head' = x /\ next' = [next EXCEPT ![x] = None]
           ELSE \E last \in Reachable :
                  /\ next[last] = None
                  /\ next' = [next EXCEPT ![x] = None, ![last] = x]
                  /\ UNCHANGED head
  BY DEF AddEndpoint
<1>2. /\ pc[c] = "register" /\ cur[c] = None /\ instanceState = "INITIALIZED" /\ arg[c] \in Uris
      /\ UNCHANGED <<instanceState, answer>>
  BY <1>0 DEF AddEndpoint, RegistersBeforeStart
<1>3. Reachable = {s[j] : j \in 1..n} /\ s \in [1..n -> Nodes]
  <2>1. next \in [Nodes -> Nodes \cup {None}] /\ Reachable = Behind(next, head)
    BY <1>0, ListIsOrdered DEF TypeOK
  <2> QED
    BY <2>1, LinksAreReached DEF Links
<1>4. \A i \in 1..n : s[i] # x
  <2>1. Reachable \subseteq live
    BY <1>0, <1>2, ReachableIsListed DEF Listed
  <2> QED
    BY <1>3, <2>1
<1> DEFINE t == [i \in 1..n + 1 |-> IF i <= n THEN s[i] ELSE x]
<1>5. Links(head', next', n + 1, t)
  <2>1. next \in [Nodes -> Nodes \cup {None}] /\ Reachable = Behind(next, head)
    BY <1>0, ListIsOrdered DEF TypeOK
  <2> QED
    BY <1>1, <1>4, <2>1, AppendLinks
<1>6. n + 1 \in Nat /\ Chain = [i \in 1..n |-> uriOf[s[i]]] /\ Chain' = [i \in 1..n + 1 |-> uriOf'[t[i]]]
  BY <1>0, <1>5, ChainIsLinks, NextChainIsLinks
<1>7. Chain' = Append(Chain, arg[c])
  <2>1. \A i \in 1..n : uriOf'[t[i]] = uriOf[s[i]]
    BY <1>0, <1>1, <1>3, <1>4 DEF TypeOK
  <2>2. uriOf'[t[n + 1]] = arg[c]
    BY <1>0, <1>1 DEF TypeOK
  <2>3. Chain \in Seq(Uris \cup {None}) /\ Len(Chain) = n
    BY <1>0, <1>3, <1>6 DEF TypeOK
  <2> HIDE DEF t
  <2>4. \A i \in 1..n + 1 : uriOf'[t[i]] = IF i <= n THEN Chain[i] ELSE arg[c]
    BY <1>6, <2>1, <2>2
  <2> QED
    BY <1>6, <2>3, <2>4
<1>8. \A i \in DOMAIN Chain : ~R!Matches(Chain[i], arg[c])
  <2>1. From(None) = {}
    BY DEF From
  <2> QED
    BY <1>0, <1>2, <1>3, <1>6, <2>1, SameMatches DEF CheckIsComplete
<1>9. Asked' = Asked
  BY <1>0, ListIsOwned DEF Asked
<1>10. R!Register(arg[c])
  BY <1>2, <1>7, <1>8, <1>9 DEF R!Register, Asked
<1> QED
  BY <1>2, <1>5, <1>6, <1>10 DEF Simulates, R!RegistryNext

LEMMA SimulateRemoveEndpoint ==
  ASSUME GoodApplication, RefinementInv, TypeOK', NEW n \in Nat, NEW s, Links(head, next, n, s),
         NEW c \in Callers, NEW u \in Uris, RemoveEndpoint(c, u)
  PROVE  Simulates
<1> USE NoneIsNoNode, ThreadsDiffer
<1>0. TypeOK
  BY DEF RefinementInv, LeakInv, IInv
<1>1. PICK x \in Reachable :
        IF x = head
        THEN head' = next[x] /\ UNCHANGED next
        ELSE \E prev \in Reachable :
               /\ next[prev] = x
               /\ next' = [next EXCEPT ![prev] = next[x]]
               /\ UNCHANGED head
  BY DEF RemoveEndpoint
<1>2. instanceState = "STOPPED" /\ UNCHANGED <<instanceState, uriOf, answer>>
  BY DEF RemoveEndpoint
<1>3. Reachable = {s[j] : j \in 1..n} /\ s \in [1..n -> Nodes]
  <2>1. next \in [Nodes -> Nodes \cup {None}] /\ Reachable = Behind(next, head)
    BY <1>0, ListIsOrdered DEF TypeOK
  <2> QED
    BY <2>1, LinksAreReached DEF Links
<1>4. PICK k \in 1..n : x = s[k]
  BY <1>3
<1> DEFINE t == [i \in 1..n - 1 |-> IF i < k THEN s[i] ELSE s[i + 1]]
<1>5. n - 1 \in Nat /\ Links(head', next', n - 1, t)
  <2>1. next \in [Nodes -> Nodes \cup {None}] /\ Reachable = Behind(next, head)
    BY <1>0, ListIsOrdered DEF TypeOK
  <2> QED
    BY <1>1, <1>4, <2>1, RemoveLinks
<1>6. Chain = [i \in 1..n |-> uriOf[s[i]]] /\ Chain' = [i \in 1..n - 1 |-> uriOf[t[i]]]
  BY <1>0, <1>2, <1>5, ChainIsLinks, NextChainIsLinks
<1>7. Chain' = SubSeq(Chain, 1, k - 1) \o SubSeq(Chain, k + 1, Len(Chain))
  <2>1. Chain \in Seq(Uris \cup {None}) /\ Len(Chain) = n
    BY <1>0, <1>3, <1>6 DEF TypeOK
  <2>2. \A i \in 1..n - 1 : uriOf[t[i]] = IF i < k THEN Chain[i] ELSE Chain[i + 1]
    BY <1>3, <1>6
  <2> HIDE DEF t
  <2>3. Chain' = [i \in 1..n - 1 |-> IF i < k THEN Chain[i] ELSE Chain[i + 1]]
    BY <1>6, <2>2
  <2>4. SubSeq(Chain, 1, k - 1) \o SubSeq(Chain, k + 1, Len(Chain))
          = [i \in 1..Len(Chain) - 1 |-> IF i < k THEN Chain[i] ELSE Chain[i + 1]]
    BY <2>1, SequenceWithout
  <2> QED
    BY <2>1, <2>3, <2>4
<1>8. Asked' = Asked /\ \A w \in Workers : Asked[w] = None
  BY <1>0, ListIsOwned DEF Asked
<1>9. R!Unregister(k) /\ k \in DOMAIN Chain
  BY <1>2, <1>6, <1>7, <1>8 DEF R!Unregister, Asked
<1> QED
  BY <1>5, <1>9 DEF Simulates, R!RegistryNext

LEMMA SimulateShutdown ==
  ASSUME GoodApplication, RefinementInv, TypeOK', Shutdown PROVE Simulates
<1>0. TypeOK
  BY DEF RefinementInv, LeakInv, IInv
<1>1. Links(head', next', 0, <<>>)
  BY DEF Shutdown, Links
<1>2. Chain' = <<>>
  <2>1. Chain' = [i \in 1..0 |-> uriOf'[<<>>[i]]]
    BY <1>1, NextChainIsLinks
  <2> QED
    BY <2>1
<1>3. Asked' = Asked /\ \A w \in Workers : Asked[w] = None
  BY <1>0, ListIsOwned DEF Asked, Shutdown, threadVars
<1>4. R!ShutDown
  BY <1>2, <1>3 DEF R!ShutDown, Asked, Shutdown
<1> QED
  BY <1>1, <1>4 DEF Simulates, R!RegistryNext

LEMMA SimulateLifecycle ==
  ASSUME RefinementInv, NEW n \in Nat, NEW s, Links(head, next, n, s), Start \/ Stop PROVE Simulates
<1>1. UNCHANGED <<head, next, uriOf, pc, arg, answer>>
  BY DEF Start, Stop, listVars, threadVars
<1>2. Chain' = Chain /\ Asked' = Asked
  BY <1>1, ChainIsKept DEF Asked
<1>3. R!StartOrStop
  BY <1>1, <1>2 DEF R!StartOrStop, Start, Stop, Asked
<1>4. Links(head', next', n, s)
  BY <1>1 DEF Links
<1> QED
  BY <1>3, <1>4 DEF Simulates, R!RegistryNext

\* Steps of a worker that leave the list alone and are a step of the registry.
LEMMA SimulateWorker ==
  ASSUME NEW n \in Nat, NEW s, Links(head, next, n, s), NEW w \in Workers,
         UNCHANGED <<instanceState, head, next, uriOf>>,
         \/ R!Answer(w)
         \/ \E kind \in {"none", "direct"} : R!Elsewhere(w, kind)
         \/ \E r \in Requests : R!Ask(w, r)
  PROVE  Simulates
<1>1. Links(head', next', n, s)
  BY DEF Links
<1> QED
  BY <1>1 DEF Simulates, R!RegistryNext

LEMMA SimulateNoEngine ==
  ASSUME RefinementInv, NEW n \in Nat, NEW s, Links(head, next, n, s), NEW w \in Workers, NoEngine(w)
  PROVE  Simulates
<1> USE NoneIsNoNode
<1>0. TypeOK /\ EngineServes
  BY DEF RefinementInv, LeakInv, IInv
<1>1. /\ UNCHANGED <<instanceState, head, next, uriOf, pc, arg>> /\ pc[w] = "idle"
      /\ answer' = [answer EXCEPT ![w] = "none"] /\ head = None
  BY <1>0 DEF NoEngine, Serves, EngineServes, TypeOK, listVars, threadVars
<1>2. n = 0
  <2>1. n > 0 => 1 \in 1..n /\ s[1] \in Nodes
    BY DEF Links
  <2> QED
    BY <1>1, <2>1 DEF Links
<1>3. Chain = <<>>
  <2>1. Chain = [i \in 1..n |-> uriOf[s[i]]]
    BY <1>0, ChainIsLinks
  <2> QED
    BY <1>2, <2>1
<1>4. Chain' = Chain /\ Asked' = Asked /\ Asked[w] = None
  BY <1>1, ChainIsKept DEF Asked
<1>5. R!Elsewhere(w, "none")
  BY <1>1, <1>3, <1>4 DEF R!Elsewhere, Asked
<1> QED
  BY <1>1, <1>5, SimulateWorker

LEMMA SimulateAsk ==
  ASSUME RefinementInv, NEW n \in Nat, NEW s, Links(head, next, n, s), NEW w \in Workers,
         NEW r \in Requests, BadPath(w, r) \/ LookUp(w, r)
  PROVE  Simulates
<1>0. TypeOK
  BY DEF RefinementInv, LeakInv, IInv
<1>1. UNCHANGED <<instanceState, head, next, uriOf>> /\ pc[w] = "idle"
  BY DEF BadPath, LookUp, Serves, listVars
<1>2. Chain' = Chain /\ Asked[w] = None
  BY <1>1, ChainIsKept DEF Asked
<1>3. CASE BadPath(w, r)
  <2>1. Asked' = Asked
    BY <1>3 DEF BadPath, threadVars, Asked
  <2>2. R!PathOf(r) = {} /\ answer' = [answer EXCEPT ![w] = Rejected]
    BY <1>3, SamePath DEF BadPath
  <2> QED
    BY <1>1, <1>2, <2>1, <2>2, SimulateWorker DEF R!Ask, Asked
<1>4. CASE LookUp(w, r)
  <2>1. Asked' = [Asked EXCEPT ![w] = r]
    BY <1>0, <1>4 DEF LookUp, Goto, Asked, TypeOK, Threads
  <2>2. R!PathOf(r) # {} /\ answer' = [answer EXCEPT ![w] = None]
    BY <1>4, SamePath DEF LookUp
  <2> QED
    BY <1>1, <1>2, <2>1, <2>2, SimulateWorker DEF R!Ask, Asked
<1> QED
  BY <1>3, <1>4

\* The lookup of a worker is over when it has found the first object that
\* matches, or nothing.
LEMMA SimulateAnswer ==
  ASSUME RefinementInv, NEW n \in Nat, NEW s, Links(head, next, n, s), NEW w \in Workers,
         Dispatch(w) \/ NoEndpoint(w)
  PROVE  Simulates
<1> USE NoneIsNoNode, ThreadsDiffer
<1>0. TypeOK /\ LookUpIsComplete /\ WalksAreInList
  BY DEF RefinementInv, LeakInv, IInv
<1>1. /\ UNCHANGED <<instanceState, head, next, uriOf>> /\ pc[w] = "lookup"
      /\ Return(w)
  BY DEF Dispatch, NoEndpoint, listVars
<1>2. /\ Chain' = Chain /\ Asked[w] = arg[w] /\ arg[w] \in Requests /\ arg[w] # None
      /\ Asked' = [Asked EXCEPT ![w] = None]
  BY <1>0, <1>1, ChainIsKept DEF Asked, Return, Goto, TypeOK, Threads, LookUpIsComplete
<1>3. /\ Chain = [i \in 1..n |-> uriOf[s[i]]] /\ next \in [Nodes -> Nodes \cup {None}]
      /\ Reachable = {s[j] : j \in 1..n} /\ s \in [1..n -> Nodes]
      /\ \A x : From(x) = Behind(next, x)
  <2>1. next \in [Nodes -> Nodes \cup {None}] /\ Reachable = Behind(next, head)
    BY <1>0, ListIsOrdered DEF TypeOK
  <2> QED
    BY <1>0, <2>1, ChainIsLinks, LinksAreReached, ListIsOrdered DEF Links
<1>4. R!PathOf(arg[w]) = {Wanted(w)}
  <2> DEFINE P == GetEndPointURIfromRequestURI(DecodeEncodedURLString(arg[w].uri))
  <2>1. P # {} /\ R!PathOf(arg[w]) = P
    BY <1>0, <1>1, SamePath DEF LookUpIsComplete
  <2>2. \E p : P = {p}
    BY <2>1, PathIsOne
  <2>3. Wanted(w) = CHOOSE p \in P : TRUE
    BY DEF Wanted
  <2> HIDE DEF P
  <2> QED
    BY <2>1, <2>2, <2>3
<1> DEFINE found == {i \in DOMAIN Chain : \E p \in R!PathOf(arg[w]) : R!Matches(Chain[i], p)}
<1>5. found = {i \in 1..n : Matches(uriOf[s[i]], Wanted(w))}
  BY <1>3, <1>4, SameMatches
<1>6. \A i \in found : s[i] \in From(cur[w])
  BY <1>0, <1>1, <1>3, <1>5 DEF LookUpIsComplete
<1>7. R!Outcome(Chain, arg[w]) = IF found = {} THEN NotFound ELSE R!Served(Chain[R!Min(found)], arg[w])
  BY Zenon DEF R!Outcome
<1> HIDE DEF found
<1>8. CASE NoEndpoint(w)
  <2>1. cur[w] = None /\ answer' = [answer EXCEPT ![w] = NotFound]
    BY <1>8 DEF NoEndpoint
  <2>2. found = {}
    BY <1>6, <2>1 DEF From
  <2>3. R!Answer(w)
    BY <1>1, <1>2, <1>7, <2>1, <2>2 DEF R!Answer, Asked
  <2> QED
    BY <1>1, <2>3, SimulateWorker
<1>9. CASE Dispatch(w)
  <2>1. /\ cur[w] # None /\ Matches(uriOf[cur[w]], Wanted(w))
        /\ answer' = [answer EXCEPT ![w] =
             IF RequestParams(arg[w].uri) # {} /\ arg[w].method \in Handlers[uriOf[cur[w]]]
             THEN uriOf[cur[w]] ELSE Rejected]
    BY <1>9 DEF Dispatch, Found
  <2>2. PICK k \in 1..n : cur[w] = s[k]
    <3>1. cur[w] \in Listed
      BY <1>0, <1>1, <2>1 DEF WalksAreInList, Walking, Threads
    <3>2. Listed \subseteq Reachable
      BY DEF RefinementInv, LeakInv, NothingLeaks, Listed
    <3> QED
      BY <1>3, <3>1, <3>2
  <2>3. k \in found
    BY <1>5, <2>1, <2>2
  <2>4. R!Min(found) = k
    <3>1. ASSUME NEW i \in found PROVE k <= i
      <4>1. i \in 1..n /\ s[i] \in From(s[k])
        BY <1>5, <1>6, <2>2
      <4>2. s[i] \in Behind(next, s[k]) /\ next \in [Nodes -> Nodes \cup {None}]
        BY <1>3, <4>1
      <4> QED
        BY <4>1, <4>2, LinksReach
    <3>2. found \subseteq Nat
      BY <1>5
    <3>3. \A x \in found : (\A y \in found : x <= y) => x = k
      BY <2>3, <3>1, <3>2
    <3> QED
      BY <2>3, <3>1, <3>3 DEF R!Min
  <2>5. R!Served(Chain[k], arg[w]) =
          IF RequestParams(arg[w].uri) # {} /\ arg[w].method \in Handlers[uriOf[cur[w]]]
          THEN uriOf[cur[w]] ELSE Rejected
    BY <1>3, <2>2, SameRequestParams DEF R!Served
  <2>6. R!Outcome(Chain, arg[w]) = R!Served(Chain[k], arg[w])
    BY <1>7, <2>3, <2>4
  <2>7. R!Answer(w)
    BY <1>1, <1>2, <2>1, <2>5, <2>6 DEF R!Answer, Asked
  <2> QED
    BY <1>1, <2>7, SimulateWorker
<1> QED
  BY <1>8, <1>9

LEMMA Simulation ==
  ASSUME GoodApplication, ~UsesFind, ~UsesDirect, RefinementInv, [Next]_vars,
         NEW n \in Nat, NEW s, Links(head, next, n, s)
  PROVE  Simulates
<1> USE NoneIsNoNode, ThreadsDiffer
<1>0. TypeOK /\ TypeOK' /\ EmptyUntilUsed /\ \A c \in Callers : pc[c] # "find"
  BY RefinementStep DEF RefinementInv, LeakInv, IInv
<1>1. ASSUME NEW t \in Threads, Advance(t) PROVE Simulates
  BY <1>1, SimulateStutter DEF Advance, listVars, Asked
<1>2. ASSUME NEW c \in Callers, InitEndPointRegistration(c) PROVE Simulates
  <2>1. UNCHANGED <<instanceState, head, next, uriOf, answer>>
    BY <1>0, <1>2 DEF InitEndPointRegistration, EmptyUntilUsed
  <2>2. Asked' = Asked
    BY <1>0, <1>2 DEF InitEndPointRegistration, Goto, Asked, TypeOK, Threads
  <2> QED
    BY <2>1, <2>2, SimulateStutter
<1>3. ASSUME NEW c \in Callers,
             \/ EndpointExists(c) \/ FindNothing(c) \/ FreeEndPoint(c)
             \/ \E u \in Uris : RegisterEndpoint(c, u)
      PROVE  Simulates
  <2>1. UNCHANGED <<instanceState, head, next, uriOf, answer>>
    BY <1>3 DEF EndpointExists, FindNothing, FreeEndPoint, RegisterEndpoint, listVars
  <2>2. Asked' = Asked
    BY <1>0, <1>3 DEF EndpointExists, FindNothing, FreeEndPoint, RegisterEndpoint, Return, Goto, Asked,
       TypeOK, Threads
  <2> QED
    BY <2>1, <2>2, SimulateStutter
<1>4. ASSUME NEW c \in Callers, AddEndpoint(c) PROVE Simulates
  BY <1>0, <1>4, SimulateAddEndpoint
<1>5. ASSUME NEW c \in Callers, NEW u \in Uris, RemoveEndpoint(c, u) PROVE Simulates
  BY <1>0, <1>5, SimulateRemoveEndpoint
<1>6. \A c \in Callers : ~CopyEndpoint(c) /\ ~RegisterDirect(c) /\ \A u \in Uris : ~FindEndpoint(c, u)
  BY <1>0 DEF CopyEndpoint, RegisterDirect, FindEndpoint
<1>7. CASE Shutdown
  BY <1>0, <1>7, SimulateShutdown
<1>8. CASE Start \/ Stop
  BY <1>8, SimulateLifecycle
<1>9. ASSUME NEW w \in Workers, Leave(w) PROVE Simulates
  BY <1>9, SimulateStutter DEF Leave, listVars, threadVars, Asked
<1>10. ASSUME NEW w \in Workers, WorkerStep(w), ~Leave(w) PROVE Simulates
  BY <1>10, SimulateNoEngine, SimulateAsk, SimulateAnswer DEF WorkerStep
<1>11. CASE UNCHANGED vars
  BY <1>11, SimulateStutter DEF vars, listVars, threadVars, Asked
<1> QED
  BY <1>1, <1>2, <1>3, <1>4, <1>5, <1>6, <1>7, <1>8, <1>9, <1>10, <1>11 DEF Next, CallerStep

\* The list behaves as the registry of Registry: a walk without the mutex gives
\* a request the first endpoint that its path matches, registrations and their
\* end are one step each, and nothing else changes what is registered.
THEOREM ListIsRegistry ==
  ASSUME GoodApplication, ~UsesFind, ~UsesDirect PROVE Spec => ImplementsRegistry
<1> DEFINE Linked == \E n \in Nat : \E s : Links(head, next, n, s)
           Inv == RefinementInv /\ Linked
<1>1. Init => Inv /\ R!RegistryInit
  <2> SUFFICES ASSUME Init PROVE Inv /\ R!RegistryInit
    OBVIOUS
  <2>1. IInv
    BY NoneIsNoNode, ThreadsDiffer
       DEF Init, IInv, TypeOK, ListIsClosed, ListIsLinear, WalksAreInList, FreesAreAlone, Listed,
           Walking, Threads, States, Steps
  <2>2. Reachable = {} /\ {d \in Callers : pc[d] = "free"} = {}
    BY DEF Init, Reachable, From, Threads
  <2>3. DistinctInv /\ LeakInv
    BY <2>1, <2>2 DEF DistinctInv, LeakInv, NothingLeaks, EmptyUntilUsed, Init, Threads,
       CheckIsComplete, EndpointsAreDistinct
  <2>4. LookUpIsComplete /\ RegistersBeforeStart /\ EngineServes
    BY DEF Init, Threads, LookUpIsComplete, RegistersBeforeStart, EngineServes
  <2>5. Links(head, next, 0, <<>>)
    BY DEF Init, Links
  <2>6. Chain = <<>>
    <3>1. Chain = [i \in 1..0 |-> uriOf[<<>>[i]]]
      BY <2>1, <2>5, ChainIsLinks DEF IInv
    <3> QED
      BY <3>1
  <2>7. R!RegistryInit
    BY <2>6 DEF R!RegistryInit, Init, Threads
  <2> QED
    BY <2>3, <2>4, <2>5, <2>7 DEF RefinementInv
<1>2. Inv /\ [Next]_vars => Inv' /\ [R!RegistryNext]_(R!registryVars)
  <2> SUFFICES ASSUME Inv, [Next]_vars PROVE Inv' /\ [R!RegistryNext]_(R!registryVars)
    OBVIOUS
  <2>1. RefinementInv'
    BY RefinementStep
  <2>2. Simulates
    BY Simulation
  <2> QED
    BY <2>1, <2>2 DEF Simulates
<1> HIDE DEF Inv
<1> QED
  BY <1>1, <1>2, PTL DEF Spec, ImplementsRegistry, R!RegistrySpec

=============================================================================
