------------------------------- MODULE Registry -------------------------------
(***************************************************************************)
(* What the endpoint registry of an instance promises (docs/USER-GUIDE.txt *)
(* sections 3, 5 and 14): endpoints are registered in an order, two of     *)
(* them never match each other, and a request gets the callback of the     *)
(* first endpoint that its path matches.  Every operation is one step and  *)
(* a lookup changes nothing.  Endpoints implements it with a linked list.  *)
(***************************************************************************)
EXTENDS UriMatch

CONSTANTS Uris,      \* the URIs that may be registered
          Requests,  \* the requests: records [method, uri]
          Workers,   \* the threads that serve requests
          Handlers,  \* the methods an endpoint has a callback for
          None,      \* no request, no answer
          NotFound,  \* the answer to a path that no endpoint matches
          Rejected   \* the answer to a bad URI or a method without callback

VARIABLES instanceState,  \* as in Lifecycle
          registered,  \* the endpoints, in the order of their registration
          asked,       \* the request that a worker looks up
          answer       \* the endpoint whose callback ran, or the error

registryVars == <<instanceState, registered, asked, answer>>

\* The outcome of VmRestEngineHandler for an endpoint that has been found.
Served(endpoint, request) ==
  IF RequestParams(request.uri) # {} /\ request.method \in Handlers[endpoint]
  THEN endpoint ELSE Rejected

\* The endpoint URI that is looked up, as a set: empty for a bad request.
PathOf(request) == GetEndPointURIfromRequestURI(DecodeEncodedURLString(request.uri))

Outcome(endpoints, request) ==
  LET found == {i \in DOMAIN endpoints : \E p \in PathOf(request) : Matches(endpoints[i], p)}
  IN IF found = {} THEN NotFound ELSE Served(endpoints[Min(found)], request)

RegistryInit ==
  /\ instanceState = "INITIALIZED"
  /\ registered = <<>>
  /\ asked = [w \in Workers |-> None]
  /\ answer = [w \in Workers |-> None]

Register(u) ==
  /\ instanceState = "INITIALIZED"
  /\ \A i \in DOMAIN registered : ~Matches(registered[i], u)
  /\ registered' = Append(registered, u)
  /\ UNCHANGED <<instanceState, asked, answer>>

\* Nothing is unregistered while requests are looked up.
Unregister(i) ==
  /\ instanceState = "STOPPED" /\ \A w \in Workers : asked[w] = None
  /\ registered' = SubSeq(registered, 1, i - 1) \o SubSeq(registered, i + 1, Len(registered))
  /\ UNCHANGED <<instanceState, asked, answer>>

StartOrStop ==
  /\ \/ instanceState = "INITIALIZED" /\ instanceState' = "STARTED"
     \/ instanceState = "STARTED" /\ instanceState' = "STOPPED"
  /\ UNCHANGED <<registered, asked, answer>>

ShutDown ==
  /\ instanceState = "STOPPED" /\ instanceState' = "SHUTDOWN"
  /\ \A w \in Workers : asked[w] = None
  /\ registered' = <<>>
  /\ UNCHANGED <<asked, answer>>

Ask(w, r) ==
  /\ asked[w] = None
  /\ IF PathOf(r) = {}
     THEN answer' = [answer EXCEPT ![w] = Rejected] /\ UNCHANGED asked
     ELSE asked' = [asked EXCEPT ![w] = r] /\ answer' = [answer EXCEPT ![w] = None]
  /\ UNCHANGED <<instanceState, registered>>

Answer(w) ==
  /\ asked[w] # None
  /\ answer' = [answer EXCEPT ![w] = Outcome(registered, asked[w])]
  /\ asked' = [asked EXCEPT ![w] = None]
  /\ UNCHANGED <<instanceState, registered>>

\* With no endpoint registered there may be another handler, or none.
Elsewhere(w, kind) ==
  /\ registered = <<>> /\ asked[w] = None
  /\ answer' = [answer EXCEPT ![w] = kind]
  /\ UNCHANGED <<instanceState, registered, asked>>

RegistryNext ==
  \/ \E u \in Uris : Register(u)
  \/ \E i \in DOMAIN registered : Unregister(i)
  \/ StartOrStop \/ ShutDown
  \/ \E w \in Workers : \/ Answer(w)
                         \/ \E kind \in {"none", "direct"} : Elsewhere(w, kind)
                         \/ \E r \in Requests : Ask(w, r)

RegistrySpec == RegistryInit /\ [][RegistryNext]_registryVars

=============================================================================
