# A verification development for C-REST-Engine

C-REST-Engine is an embedded HTTP(S) server library in C: an application creates an
instance, registers callbacks for endpoints, starts it, and a fixed pool of worker
threads serves its clients from one `epoll` queue. This directory holds TLA+ modules
translated from the source, TLC configurations that check them on small instances, and
theorems about them proved with TLAPS. `PROJECT.json` maps every definition to the
source lines it stands for and lists the runs, hazards and theorems.

Paths are relative to `src/`; `restengine/` is `server/restengine/`, `posix/` is
`transport/posix/`.

To repeat a run or a proof, in this directory:

    tlc -workers 2 -config MCEventLoopSafe.cfg MCEventLoop
    tlapm ConnectionProofs.tla

## 1. Inventory

| Component | Source | State | Operations | What makes it correct |
|---|---|---|---|---|
| Event loop and connections, POSIX | `posix/socket.c`; worker loop and handlers of `common/sockinterface.c` | queue mutex; fetched batch of events (`pEventArray`, `iReady`, `nReady`); for each socket its one-shot interest, timer, `bTimerExpired`, `bSSLHandShakeCompleted`, saved `pRequest`, mutex | WaitForEvent, PreProcessTimeouts, AcceptConnection, ReArmTimer, Get/SetRequestHandle, TcpReceiveNewData, OnConnectionTimeout, DisconnectClient, CloseSocket, ReleaseSocket | one worker serves a connection at a time; nothing refers to a freed socket; no connection is forgotten; no request object leaks or is shared |
| Lifecycle of an instance | `restengine/libmain.c`, `httpMain.c`, `httpAllocStruct.c`; start and stop in `common/sockinterface.c`; CloseEventQueue and the shutdown branch in `posix/socket.c` | `instanceState`, `bShutdown`, `thrCnt`, `bQueueInUse`, listeners, memory of queue and handle | Init, Start, Stop, Shutdown; workers signing off | the last worker frees the queue, all workers leave, nobody uses queue or handle after that, the stop returns |
| Endpoint registry | `restengine/restProtocolHead.c`, `libmain.c`, `httpMain.c` | linked list `pEndPointQueue`, `useEndPoint`, `pHttpHandler` | Register, UnRegister, Find, Shutdown; the lookup for a request | endpoints never match each other; a lookup uses no freed endpoint and changes nothing; nothing registered is lost |
| URI matching, wild cards, parameters | `restengine/restProtocolHead.c` | none (pure) | match, wild card by index, parse and get parameters, decode | match = glob match; exactly the well-formed queries are accepted |
| HTTP request parser | `restengine/httpProtocolHead.c`, `httpUtilsInternal.c` | `state`, `dataRemaining`, payload type, payload, unprocessed bytes kept with the socket | ProcessRequestLine, ProcessHeaders, ProcessPayload, TriggerAppCb, the kept connection | what the application gets does not depend on how the network cuts the bytes |
| Requests and answers: the callback's calls, the response writer | `restengine/httpProtocolHead.c`, `httpUtilsExternal.c`, `httpUtilsInternal.c`, `httpAllocStruct.c`, `libmain.c`; VmSockPosixWrite of `posix/socket.c` | request and answer objects, `bHeaderSent`, the list of headers, `dataNotRcvd`, the write buffer | GetData, GetDataZC, SetSuccessResponse, SetFailureResponse, SetDataLength, SetData, SetDataZC, HandleExpect, SendFailureResponse, EntertainPersistentConn, writing in parts | the client gets one whole answer that says where it ends; a failure is told; the connection is kept exactly when that was told; nothing leaks; writes end |
| TLS globals | `posix/secureSocket.c`, `posix/socket.c`, `posix/global.c`; VmRESTSetSSLInfo of `libmain.c` | `gSSLisedInstaceCount`, `gpSSLCTX`, `gSSLThreadLock`, `gGlobalMutex`; `isCertSet`, `isKeySet` of an instance | StartServer (for IPv4 and IPv6), SecureSocket, SecureSocketShutdown | the context and the locks outlive the instances that use them; a destroyed mutex is not locked |
| Configuration | `restengine/httpUtilsInternal.c`, `libmain.c` | `pRESTConfig`, flags on certificate and key | ValidateConfig, SetSSLInfo | an instance does not start without both |
| Dispatch table, threads, memory, logging, Windows transport, sample daemon, client, tools, test clients | see `PROJECT.json` | | | |

### How the components interact

- The **application's thread** calls the library: Init, Register, Start, Stop,
  UnRegister, Shutdown. A stop and the workers share `bShutdown`, `thrCnt` (under the
  queue mutex) and `bQueueInUse` (polled without a lock).
- The **workers** all run the same loop: lock the queue, `epoll_wait` if the last batch is
  used up, take one event, unlock, handle it. A connection moves from worker to worker
  through one-shot `epoll` interests and the `pRequest` saved in its socket.
- A worker that reads a request runs the **parser** on it, which runs the application's
  **callback** through the **registry**; the callback answers through the **response
  writer**. All of it happens in the worker's thread, between taking the event and
  re-arming the socket.
- All **instances** of a process share the TLS context: each start counts in, the last worker
  of each stop counts out.
- The **kernel** holds the timers; a timeout is one more event in the queue, dispatched
  to any worker.

### What is hard here

- two events of one connection (input, reset, timeout) in one batch, or in two batches
  taken by two workers;
- the window in SetRequestHandle between re-arming the timer and re-enabling the socket;
- one-shot interests: one branch that forgets to re-arm strands a connection;
- the order of the last steps of a stop, and a stop that gives up while callbacks run;
- a list that is changed under a mutex and walked without it;
- a parser that resumes in the middle of anything;
- an answer that fails, or is given up, when part of it is sent;
- one context, count and mutex for all instances of a process, counted in and out in two
  files;
- string algorithms with two strings that end at different times.

`PROJECT.json` lists these as hazards, each at its line with the properties for it.

## 2. Modules

| Module | Models | Remarks |
|---|---|---|
| `EventLoop` | event loop and connections: 27 actions of workers, peers and timers | the serving phase of an instance |
| `ConnectionProofs`, `RequestProofs` | proofs: types and mutexes, the invariant of a connection; the owners of request objects | see section 4 |
| `Lifecycle`, `LifecycleProofs` | init, start, workers, stop, shutdown; proofs | one event is one step |
| `UriMatch`, `UriMatchProofs` | the algorithms on URIs, as recursive functions; proofs that they compute what the reference definitions of `MCUriMatch` say | used by the two below |
| `Registry` | what the registry promises: a sequence of endpoints, every operation one step | abstract specification |
| `Endpoints`, `EndpointsProofs` | the linked list, walked one node per step; implements `Registry`; proofs | the lifecycle reduced to what the registry depends on |
| `HttpMessage` | what the parser's functions read in bytes; the grammar of what a client sends | pure; used by the next |
| `HttpParser`, `HttpParserProofs` | the parser and the bytes kept between reads; proofs | one connection, one worker at a time |
| `Response`, `ResponseProofs` | one request from its allocation to its release: the callback's calls, the answers, the writes; proofs | one worker, a client that may stop reading |
| `TlsContext`, `TlsContextProofs` | the TLS state that instances share; proofs | a locked section is one step |
| `MC*` | instances: symmetry, small URIs, requests, and the reference definitions for `UriMatch` | constants of the runs |

Definitions keep the names of the C functions they stand for. A few definitions are
*faulty variants* of the one that follows them (a missing guard, a missing reset, another
order), marked so in a comment and used by no specification: replacing the correct
definition by its variant makes TLC report a violation, which shows that the property
can tell the difference.

### EventLoop

`pc[w]` says where worker `w` is. `LockQueue` and `Poll` are the start of
`VmSockPosixWaitForEvent`; the rest of it is one action for each branch of its dispatch
(`Accept*`, `Dispatch*`), since it runs under the queue mutex until it returns. What
`HandleSocketEvent` does after that runs without it, so each access to shared state is a
step of its own: `GetRequest`, `Read`, then the outcome of parsing and answering
(`AwaitMoreInput`, `KeepAlive`, `Finish`, `ProcessFails`), `Modify` (the second half of
SetRequestHandle), `TimeoutGetRequest`, `CloseTimer`, `CloseIo`, `Release`,
`FreeRequestHandle`. The parser is abstracted to its four outcomes. `sockOwner` is the
socket's mutex where it is held across steps; `sockOwner[c] = NoWorker` in a guard is a
critical section that is one step.

What arrives is abstracted to `unread` (nothing, bytes, end of stream) and `hup`; a
connection is opened at most once, so that a freed socket stays freed and a dangling
reference to it can be seen.

`TimersRaceResets` is an assumption about the environment: with FALSE a connection's
timer does not expire once its peer has reset it, and it is not reset once its timer has
expired. With TRUE the code's behaviour is as in the finding `hangup_race`, so the safety
theorems and passing runs assume FALSE.

### Lifecycle

`app` is where the application's thread is. `CreateEventQueue` ... `FinishStart` are
`VmRESTStart`, `VmRESTStop` ... `StopClean`/`StopFails` are `VmRESTStop`. A worker's event
is one step, except that a callback (`busy`) may take any time: the reason why a stop can
time out. `DispatchSignal`, `FreeEventQueue`, `ClearInUse`, `LastAccess` are the shutdown
branch in the order of the source. `HeedsFailure` says whether the application, as a log
message of the library demands, does not shut down after a failed stop.

### UriMatch, Registry, Endpoints

A C string is a sequence of characters; the C recursions are recursive functions on
positions. `Endpoints` has objects (`next`, `uriOf`, `live`) with addresses that are used
again after a free. A walk (`cur`) is one step per object, because it holds no lock;
append and unlink, under the mutex, are one step each. The free after an unlink is a step
of its own, as in the code. `UsesFind`, `UsesDirect`, `HeedsStop` describe the
application. The refinement mapping gives the sequence of URIs along the list
(`Chain`) for `registered` and the requests being looked up for `asked`. The sequence of the
objects (`Objects`) is chosen, not computed, and the loop of `VmRestParseParams` is a
function from the number of pairs to what lies behind a delimiter (`ParseParams`, one turn
of it `PairsBehind`): the provers can unfold a function, but no recursive operator.

### HttpParser

A byte is a TLA+ string; a method, a header's name or a fixed value is one of them, while
digits, `:`, CR, LF and the bytes of a body are separate. `wire` holds what has arrived,
`buffer` what the transport keeps for the connection (the last read's rest in front), and
each action of `ProcessBuffer` is one iteration of the loop in `VmRESTProcessBuffer`. The
client sends any of `Messages` in segments of its own and the network's choice.
`CutsAnywhere` = FALSE leaves out segments that end in the two places of the finding
`chunk_line_cut` and of the known departure on the last chunk: between the line of a
chunk's size and its first byte, and inside or behind the last chunk's first line
(`joined` in a message).

A header's name and value have to fit their buffers (`Separates`: `MaxName`, `MaxValue`).

What may be in `Messages` is defined in `HttpMessage` from the client's side (`IsMessage`): it knows
no reads and no state of a parser, and shares with it only what values mean (`PayloadType`, `Number`,
`ValidRequestLine`). A message is its bytes, the places of its lines, headers and
chunks, its body, and whether it is correct; an incorrect one is correct up to a line that is too
long or not what it should be, a header with a name or a value that is too long, a payload of no known
kind, or a chunk without a size. `MCHttpParser` builds messages of each kind, TLC evaluates
`MessagesAssumption` on them, and the theorems hold for all others.

### Response

`pc` is where the worker is between `VmRESTGetRequestHandle` and the release of the request;
`caller` tells `VmRESTSetData`'s three callers apart: the interim answer to `Expect`, the
callback, the failure answer. A call computes its writes (`Writes`, `WritesZeroCopy`) and
`Transmit` sends them, each in as many parts as the socket takes: `WriteSome`, `WriteAll`,
`Retry` after EAGAIN, `WriteFails`. What the client gets (`sent`) is a sequence of tokens: a
head (status and headers), the blank line, single bytes of a body, a chunk's size, a CR LF.
`mem` holds the parts of the request and answer objects and the write's buffer.

The application is one callback that echoes the request's body, read in pieces or at once and
answered at once, in chunks or without a copy; it may give up at any point, with success or
with an error. `trouble` collects what has gone wrong around the worker (`stop`, `reset`,
`stall` for a write that was given up, `memory`), so that a property can say which of it
excuses what. `outcome` is a history variable: `refused` (by the library), `error` (by the
callback, before it described an answer), `late` (after), `success`. `Complete`, `Chunked` and
`Carries` define a whole answer from the client's side, independently of the writer: the
chunks by where each one ends, the body by the positions of its bytes, so that both can be
reasoned about without recursion.

### TlsContext

`pc[i]` is where the start or stop of instance `i` is; a start passes through its IPv4 and,
in the build `dual`, its IPv6 socket, and either may fail. `CountIn` and `CountOut` are the
sections locked by `gGlobalMutex`; `DestroyMutex` follows the unlock, so it is a step of its
own. `mutex` becomes `destroyed` and stays so, as in the code, and `LockDestroyed` ends an
instance that locks it then. `ThreadLockInitFails` is the start that finds no memory for OpenSSL's
locks, behind the context and the count and before `gpSSLCTX`; `locksFailed` remembers it, and
`ShutdownWithoutLocks` ends an instance that would destroy what was never made. `MaxCount` bounds
the starts, since the count only grows over the restarts of the build `dual`.

## 3. Runs

All passing runs finish; the bounds are those of the `.cfg`.

| Run | Instance | Shows |
|---|---|---|
| `event_loop_safe` | TLS, 2 workers, 2 connections, 4 request objects, batches of 2 | the safety of sockets, workers and request objects, the two action properties, and the inductive invariant `RequestsInOrder` (`IInv` with the owners of request objects) |
| `event_loop_live` | TLS, 1 worker, 2 connections, 2 request objects, batches of 2 | idle, readable and reset connections are closed or served, also when more is ready than a batch holds or a handshake stalls |
| `hangup_race` | plain, 2 workers, 1 connection, timers race resets | **violates** `NoUseAfterFree` |
| `lifecycle` | 3 workers, 3 requests, a wait of 1 second | safety, `IInv`, the stop returns, all workers leave |
| `shutdown_race` | the same | **violates** `HandleOutlivesWorkers` |
| `uri` | every endpoint and path up to 5 characters; every URI up to 7 characters for queries; texts up to 4 | the algorithms agree with independent definitions |
| `endpoints_safe` | 1 caller, 2 workers, 3 objects, 4 URIs, Find and direct handler | no use after free, distinct endpoints, `DistinctInv` |
| `endpoints_registry` | 1 caller, 1 worker, 3 objects, no Find | implements `Registry`; nothing leaks; lookups end |
| `http_parser` | two requests on a connection, of ten kinds | bodies, refusals, kept connections and waiting do not depend on the segments |
| `chunk_line_cut` | one chunked request, cut anywhere | **violates** `RefusedOnlyIfMalformed` |
| `response` | bodies of 0, 2 and 3 bytes, `MaxData` 2, `MaxTries` 1 | answers are whole, failures are told, one head, kept as told, nothing leaks, the request ends |
| `tls` | 2 instances, 3 contexts, a count up to 8, both builds | the context and the locks outlive their users unless the locks could once not be made; no destroyed mutex is locked with IPv6 |

Why the bounds are enough:

- *EventLoop.* A connection's hazards need at most two workers on it, plus a second
  connection to compete for the batch and the queue. `QueueSize` = 2 is less than what can
  be ready (a listener event and two of each connection), so batches are split. Four
  request objects are one for each worker and each connection. Safety is checked with
  TLS, which has every branch (the plain instance leaves out the handshake); the
  theorems hold for both. Symmetry is used without liveness only.
- *EventLoop, liveness* has one worker: it is the case where a starved or stuck worker
  hurts most, and more make the graph too large for TLC's liveness check. `QueueSize` = 2 is
  again less than what can be ready, so input that did not fit a batch has to be reported
  again, and with TLS a client may stall in its handshake, before a request exists.
- *Lifecycle.* Three workers are one that leaves last, one that leaves earlier and one
  that hangs; `WaitSeconds` = 1 gives a wait that succeeds late and one that fails.
- *Endpoints.* Three objects make a first, a middle and a last one; the four URIs exclude
  one another or overlap; the requests match one, several and none, or are malformed.
  `endpoints_registry` has one worker, since walks do not change the list.
- *UriMatch.* Five characters hold two wild cards with literals around them, or two
  separators and segments of each kind. `MaxParams` = 2 and `MaxKeyLen` = 3 stand for 5
  and 1024, so that both limits are met and exceeded with seven characters.
- *HttpParser.* `MaxLine` = 6 is reached by one message's header; `MaxName` = 2 and `MaxValue` = 3
  are reached by the name of one and by the value of another, which are refused. Two requests show
  what the first leaves to the second. The bodies contain CR, LF, `0` and `:`.
- *Response.* The bodies are empty, exactly one buffer, and longer than one with a rest, which
  are the cases of VmRESTGetHttpPayload; a chunk has 0, 1 or 2 bytes. One round of waiting
  makes a write that resumes and one that is given up. Requests share nothing but the
  connection, and `KeptAsTold` says what the next one on it may rely on, so one is enough.
- *TlsContext.* Two instances make the one that creates the context and the one that shares
  it, in every overlap of their starts and stops; each may be made again. The third context
  lets one be leaked by a bad certificate or by locks that could not be made. An instance starts only while the count leaves room
  for two more under 8: enough for each instance to have stopped and started again.

Deadlock is not checked where the model is bounded or may legitimately stop: clients owe
nothing, an instance that is shut down does nothing more, all inputs may be used up, a request has
ended, an instance that locked a destroyed mutex, or destroyed locks never made, is not followed on.

### Fairness

- `EventLoop`: a runnable thread runs (weak fairness of each worker's serving and
  disconnecting, and of *some* worker's lock, poll and dispatch, because the mutex
  promises no more); the application's callbacks return; an armed timer expires. Peers owe
  nothing. Weak fairness of `TimerFire` is the kernel's promise: a timer that is neither
  stopped nor restarted expires.
- `Lifecycle`: `FairSpec` has the application's thread finish the stop, nothing else, so
  `StopReturns` holds although callbacks hang. `WorkersLeave` states its own assumption
  `WorkersRun`, that the threads run and callbacks return.
- `Endpoints`: a worker that walks the list goes on; it waits for no lock.
- `Response`: the worker runs, callbacks return, and a request that does not come in times
  out (`WF_vars(Serve)`). The client owes nothing: it may never read again.
- `TlsContext` has no liveness: its calls do not wait for each other outside the locked
  sections.
- `HttpParser` has no fairness: `WaitsForSender` says in one state what could be stuck.

## 4. Theorems

| Theorem | States | Assumes |
|---|---|---|
| `LocksAreHeld` (ConnectionProofs) | types; the queue mutex and the sockets' mutexes are held exactly at the program points that took them | nothing but the ASSUMEs on constants |
| `ConnectionsInOrder` (ConnectionProofs) | `[]IInv` | `~TimersRaceResets` |
| `FreedIsForgotten`, `ConnectionHasOneWorker`, `ServiceIsAlone`, `NoConnectionIsLost` | `NoUseAfterFree`, `OneWorkerPerConnection`, `ServiceIsUndisturbed`, `NoLostConnection` | `~TimersRaceResets` |
| `ExpiredAreLeft` | `ExpiredIsNotServed` | `~TimersRaceResets` |
| `RequestsHaveOwners` (RequestProofs) | `[]RequestsInOrder` | `~TimersRaceResets` |
| `RequestsAreAccounted`, `PartialRequestsAreKept` | `RequestsAccounted`, the action property `PartialRequestIsKept` | `~TimersRaceResets` |
| `WorkersAreAccounted` (LifecycleProofs) | `[]IInv` of Lifecycle | the ASSUMEs on constants |
| `QueueIsSafe`, `CleanStopIsSafe` | `QueueOutlivesWorkers`, `CleanStopIsClean` | the ASSUMEs on constants |
| `HandleIsSafe` | `HandleOutlivesService` | `HeedsFailure` |
| `EndpointsAreNotUsedAfterFree` (EndpointsProofs) | `NoUseAfterFree` of Endpoints | `GoodApplication`: one caller, `HeedsStop` |
| `RegistrationsAreChecked`, `RegisteredAreDistinct` | `[]DistinctInv`, `EndpointsAreDistinct` | `GoodApplication` |
| `EndpointsAreNotLost` | `NothingLeaks` of Endpoints | `GoodApplication`, `~UsesFind` |
| `ListIsRegistry` | `ImplementsRegistry`: the list refines `Registry` | `GoodApplication`, `~UsesFind`, `~UsesDirect` |
| `MatchingIsGlob` (UriMatchProofs) | `MatchIsGlob` | strings over any alphabet, no `*` in the URI |
| `WildCardsAreSegments` | `WildCardIsSegment` | endpoints and paths over any alphabet, no `*` in the path |
| `QueriesAreParsed` | `ParamsArePairs` | URIs over any alphabet, no space in the URI |
| `PathIsKept`, `PairIsKept` | `QueryDoesNotReachPath`, `EncodedPairSurvives` | an alphabet without the escapes; for the pair, `MaxParams` at least 1 |
| `UsersAreCounted` (TlsContextProofs) | `[]IInv` of TlsContext | the ASSUMEs on constants |
| `ContextIsKept`, `MutexIsKept` | `ContextOutlivesUsers`, `MutexOutlivesUsers` | the ASSUMEs on constants; the first property itself excepts what follows a failed VmRESTSSLThreadLockInit |
| `Types`, `MemoryIsFreed` (ResponseProofs) | types; `NothingLeaks` of Response | the ASSUMEs on constants |
| `HeadsGoInOrder`, `OneHeadIsSent` | `[]HeadsInOrder`, `HeaderIsSentOnce` | the ASSUMEs on constants |
| `RefusalsGoInOrder`, `FailuresAreAnswered` | `[]RefusalsInOrder`, `FailureIsAnswered` | the ASSUMEs on constants |
| `EchoesGoInOrder` | `[]EchoesInOrder` | the ASSUMEs on constants |
| `AnswersAreMeant`, `ConnectionsAreKeptAsTold` | `AnswerIsAsMeant`, `KeptAsTold` | the ASSUMEs on constants |
| `PlacesAreKept`, `Types` (HttpParserProofs) | `[]IInv` of the parser; types | `~CutsAnywhere`, messages as in `IsMessage` |
| `BodiesAreServed`, `CorrectIsNotRefused` | `ServedAsSent`, `RefusedOnlyIfMalformed` | the same; correct requests keep the limits on lines, names and values |
| `RequestsStartClean`, `ParserIsNotStuck` | `NextRequestIsClean`, `WaitsForSender` | the same |

They hold for any number of workers, connections, requests, endpoints, URIs, instances and
contexts, bodies, buffers and strings of any size, requests of any number of headers and chunks
within the limits on their lines, cut into any segments that do not end in or just behind the line with a
chunk's size or in the end of the last chunk, and for TLS and plain connections.
Every assumption is met by a passing run; without it the property fails as section 5 says
(`~TimersRaceResets`: `hangup_race`; `~CutsAnywhere`: `chunk_line_cut`; `UsesFind`, `UsesDirect`, several callers, a stop that is
not heeded: the known departures). Before it was proved inductive, each invariant was checked
by TLC on the instance of the component's run, those that are no property of a run too
(`HeadsInOrder`, `RefusalsInOrder`, `EchoesInOrder`, `LeakInv`, `RefinementInv`, the parser's `IInv`).

**A connection.** None of the safety properties is inductive: that a freed socket has no
event in the batch rests on where the event can come from. `IInv` of EventLoop says what a
connection looks like in each situation it can be in: absent (`AbsentInv`), watched and
waiting (`WatchedInv`), with a fetched event (`InputEventInv`, `TimerEventInv`), in service
(`ServingInv`), between re-arming its timer and its socket (`ModifyInv`), timed out
(`TimeoutInv`), being closed (`ClosingInv`); and that these exclude each other
(`ArmedInv`, `AloneInv`). `ModifyInv` is the delicate part: in that window a timeout may
not have happened, may have been fetched, or may already be with another worker, which is
why two workers may hold one connection, the second waiting for the socket's mutex. Every
action concerns one connection at most, so each has a lemma that the others keep their
part (`Unmoved`, `Frame`), and `Poll`, which concerns all, is done once for an arbitrary
connection.

**The request objects.** `RequestsInOrder` adds to `IInv` where each object is: with the one
worker that allocated or fetched it, or saved in one socket (`OneOwnerInv`, `HasOwner`). A
socket has one saved only when its handshake is over (`SavedInv`, `EstablishedInv`), so the
failures of a handshake lose nothing, and a worker that serves a socket with a saved object
holds that one (`HandedInv`), so saving another cannot overwrite it. The exception is the
object of a connection that is closed after a reset, which the code does not free; it is
named in the property (`LeakedByHangup`). Most steps leave the objects alone (`Steady`); what is
left are the steps that fetch, save, hand over, release and free one.

**The stop.** `thrCnt` equals the number of workers that have not signed off (`CountInv`),
so the worker that brings it to zero is alone (`LastInv`), and `bQueueInUse` is cleared
only after the queue is freed (`InUseInv`). The counting rests on the library's facts
about cardinalities of finite sets.

**The list.** A walk without the mutex is safe because objects leave the list only when
no worker runs (`FreesAreAlone`), the list is closed under `next` and linear
(`ListIsClosed`, `ListIsLinear`). That two endpoints never match each other needs that
what a registration has still to compare is in front of it (`CheckIsComplete`). Reachability
is defined as membership in every closed set (`From`), which needs no recursion. That nothing
leaks (`LeakInv`) needs that what is behind an object that is taken out, or before one that is
appended, is reachable as it was (`AppendReaches`, `RemoveReaches`), and that the list is
empty when its initialization overwrites the head (`EmptyUntilUsed`).

**The refinement.** `Links` says that a function lists the objects from the head to the last
one, each once. Such a list exists at first, appending adds an element to it and unlinking
drops one (`AppendLinks`, `RemoveLinks`), so `Chain` is known before and after each step
(`ChainIsLinks`). `Simulation` maps each action: an append is `Register`, an unlink
`Unregister`, the last step of a walk `Answer`, and all other steps of a walk are stutters.
That the walk's answer is the *first* endpoint the path matches needs `LookUpIsComplete`: what
matches is still in front of the walk, so the object found is not behind another. In place
of an induction along the list, the proofs take a least counterexample (`LeastNumber`, from the
well-foundedness of the natural numbers).

**The algorithms.** `MatchEndPointURI` is a table over pairs of positions. That there is such a
table, and one only, follows from its choice from below by a least counterexample; that it
holds the matches of `GlobMatches` goes over what it means that a pattern stands for a text
from a pair of positions on. The reference definition takes each star's text to be any, the
code tries the shortest first: that the two agree is the content of `MatchingIsGlob`.
`PathIsKept` and `PairIsKept` follow the text through encoding, decoding, the search for the
delimiters and the cut: an encoded text holds none of them.

`WildCardsAreSegments` and `QueriesAreParsed` compare counting and searching in the code with the
reference's cutting of a string at every place of a character. What the library lacks for that is
done first: the i-th number of a finite set (`Nth`), and that a growing list of as many numbers as
the set has is that enumeration (`EnumerationIs`, `EnumeratesAll`). Then: `PartIs` says what the i-th
part of a string is; the slashes before the index-th star are those before the segment it is
(`PreSlashes`, `StarSegmentIs`), and the copy that starts behind as many slashes of the path
is the segment in its place (`CopyIsPart`). For a query, `Alternates` says that a `=` stands between any two
delimiters and nowhere else. On such a URI the loop of `VmRestParseParams` finds the delimiters in turn
(`FoundInTurn`) and collects the pairs from the last to the first (`RowIs`), and the reference cuts at the
same places (`QueryPartsAre`). A well-formed URI is of this form (`WellFormedAlternates`). So is every
URI on which the loop succeeds (`RequestAlternates`): the chain of delimiters it has found uses up all
the `=` and `&` of the URI, because the handler has counted them. That is why the count
has to be over the whole URI. Spaces are excluded because the reference knows nothing of the refusal of a
URI with a space; the request line ends a URI at one.

**The context.** The count is at least the number of instances whose IPv4 socket, plus the
number of those whose IPv6 socket, was counted in and not out (`CountInv`; at least, because
a start that fails behind the locked section leaves its share). So while an instance serves,
another one's leaving cannot bring it to zero, and all of them share one live context
(`SharedInv`). When VmRESTSSLThreadLockInit has failed (`locksFailed`), the count is 0 instead of
`INVALID`: it still covers its users, but says nothing of a context any more. In the build `dual`
an instance that leaves is one that was counted twice, so leaving never brings the count to zero at all (`NeverZeroInv`), which is what saves the mutex
and what leaks the context.

**Heads.** A head is sent only as the first token of the first write, and that write is the one
that is going to set `bHeaderSent` (`WriteInv`); when it is set, or in program points behind it,
no call makes another (`FlagInv`, `EarlyInv`). Chunks need that no length was described
(`LengthInv`), since the failure answer reuses the headers. All this holds on a connection
that works and for answers that are copied (`Regular`, `Broken`), which are the exceptions of the
property: a write that was given up, or one without a copy, is followed by a second head (see
the known departures), and on a broken connection nothing more is sent.

**The failure answer.** While nothing has gone wrong around the worker, the answer's object is as
it was allocated until the application describes it (`UntouchedInv`), so the failure answer that
is made from it has exactly its own headers, in their order, `Connection: close` among
them; what has been sent followed by the rest of the write is constant while it is written
(`InterimInv`, `RefusalInv`). Hence the client gets one complete answer and the connection is closed.

**The application's answer.** `EchoInv` follows the body: what is read is the beginning of the
request's body and at last all of it (`ReadInv`); while the answer is described its object has
exactly the headers of `Begun`, `Sized` or `InChunks`, and from then on what has been sent
followed by what is left to write (`ToBeSent`) is the opening, the head and either the whole body or
chunks (`Answering`). Writing in parts leaves `ToBeSent` as it is, whatever the parts (`PartGoesOn`,
`AllGoes`). Chunks that are not closed yet (`OpenChunks`) carry the first *n* bytes while the
application holds the rest (`LeftBehind`); one more chunk continues them and the empty one closes
them (`ChunksGoOn`, `ChunkCarriesOn`). Appending one chunk at a time is a step of the model, so
the invariant takes the place of an induction over the body. The first chunk takes the head with
it and the later ones do not, which needs that `bHeaderSent` is set by the time the callback goes on.
From the headers at the end follows what VmRESTEntertainPersistentConn finds (`EndInv`).

**The request.** `MemoryInv` says what may be allocated at each point: the interim answer's
objects only while they are written, the write's buffer only during a write, nothing at the
end.

**The parser.** `IInv` of HttpParserProofs says that the parser is behind the first *p* bytes of the
request, of which the first *r* are read (`Reading`, `Stream`), at a place where a line, a piece of
the body or a chunk begins (`At`), and that the request object holds exactly what these *p* bytes
say. Where the parser has stopped, it can do nothing with the bytes from *p* to *r* (`Stuck`);
this is what `WaitsForSender` needs, and what a mutant that stops too early breaks. Between two requests
nothing is left (`Between`); while an answer is on its way the old bytes still are (`Finishing`).

Each action's lemma says that what the parser finds in the part it has read is what a client
finds in the whole request: a line found is the line of the message (`LineFound`, `LineInSlice`,
`OneLine`), its first colon is that of the header (`ColonFound`), the bytes copied continue the body
(`BodyGoesOn`, `Copied`), a CR LF at the end of a chunk is not the next size, and a size is not a late
CR LF (`NoCrlfAtMark`, `ChunkAhead`). It is here that `joined` is needed: with a segment that ends behind
the line of a size, what is found is not what the message says. A refusal is right because a correct
message has, at each place, what the parser accepts (`LineIsThere`, `LastLine`).

`WaitsForSender` follows because a parser that is stuck cannot have all of the message
(`NoLineMissing`, `NotStuckInPayload`), nor all of the head of one that asks for `100 Continue` and has
not been sent it (`LinesAreThere`). The inductions over lines and header positions are again
least counterexamples; what a number in a header or a size is worth (`Number`, a fold) is never computed:
both sides use the same function.

### Checked by TLC only

- liveness (`IdleIsClosed`, `InputIsServed`, `ResetIsReclaimed`, `StopReturns`,
  `WorkersLeave`, `RequestsAreAnswered`, `RequestEnds`): out of the prover's reach.
  Every invariant of a passing run is stated by a theorem.

## 5. Findings

Each is a run that violates one property; the trace is TLC's.

1. `hangup_race` (`posix/socket.c:578`): on a reset, the connection is closed while its
   timer runs on. A second worker that gets the timeout works on the same socket while the
   first frees it. The data branch stops the timer first (`socket.c:684`).
2. `shutdown_race` (`posix/socket.c:725`): the last worker reads `isSecure`, and may shut
   TLS down, through the handle after clearing the flag that lets `VmRESTStop` return.
3. `chunk_line_cut` (`restengine/httpProtocolHead.c:1237`): a read that ends in or behind
   the line of a chunk's size corrupts or refuses a correct request.

### Known departures

Met while modelling; no run is kept for them. Where a module and a property are named, a
change of the `.cfg` shows the departure.

- *Timeout of a reset connection.* `EventLoop` with `TimersRaceResets = TRUE`, one
  connection, `NoLostConnection`: `OnConnectionTimeout` returns when
  `VmRESTGetRequestHandle` fails (`getpeername`), before `DisconnectClient`; the socket has
  been removed from `epoll`, the timer is spent, the connection is never closed.
- *Shutdown after a failed stop.* `Lifecycle` with `HeedsFailure = FALSE`,
  `HandleOutlivesService`: the stop sets `STOPPED` before it knows that it succeeds, and
  `VmRESTShutdown` asks for no more. `httpMain.c:151` logs `Do not attempt shutdown`;
  `vmrestd/main.c:167` does not look at the result.
- *Early requests.* `Lifecycle`, `RefusedOnlyWhenStopping`: workers serve before
  `instanceState` is `STARTED` (`libmain.c:223`), and `VmRESTSetData` refuses their answers.
- *Two registering threads.* `Endpoints` with two callers, `EndpointsAreDistinct`: the
  check precedes the mutex (`restProtocolHead.c:328`), and the first registration is
  initialised without it (`libmain.c:260`).
- *Direct handler and endpoints.* `Endpoints` with `UsesDirect = TRUE`,
  `EndpointsAreServed`: a handler registered without an endpoint keeps all requests,
  whatever is registered after it (`libmain.c:276`).
- *Unregistering after a failed stop.* `Endpoints` with `HeedsStop = FALSE`,
  `NoUseAfterFree`: the object is freed while a worker walks (`restProtocolHead.c:409` has
  a TODO on it).
- *Wild card at the end of a segment.* For `/a*` and `/ab` `VmRESTGetWildCardByIndex`
  returns `ab`, the whole segment; `WildCardIsSegment` is about wild cards that are segments.
- *The end of the last chunk.* The callback runs at the line `0`, before the CR LF that ends
  the request. On a kept connection a CR LF that comes later is taken for the next request
  (`MCHttpParser.cfg` with `CutsAnywhere = TRUE` violates `NextRequestIsClean`).
  Bytes of a next request that come with the first (pipelining) are dropped.
- *Long lines.* A line is refused when `MAX_REQ_LIN_LEN` bytes are there and its CR LF is not, so a
  request line of that length less one, or a header of that length or one less, is accepted
  if it comes with its CR LF and refused if a read ends in between (`httpProtocolHead.c:992`, `1125`).
  Correct lines in `HttpMessage` are shorter.
- *Zeros.* A last chunk written `00` is refused (`httpUtilsInternal.c:771` knows `0`, `0x0` and
  `0x00` only).
- *Find cuts the list.* `Endpoints` with `UsesFind = TRUE`, `ImplementsRegistry`:
  `VmRESTFindEndpoint` clears `next` of the registered object instead of the copy's
  (`libmain.c:331`), so the endpoints behind it are lost.
- *Ten parameters.* `docs/USER-GUIDE.txt:49` promises ten, the code accepts five
  (`restengine/defines.h:33`).
- *The first instance's certificate.* `TlsContext`, `OwnCertificate`: an instance that starts
  while another serves TLS shares its context and so its certificate (`posix/socket.c:200`);
  `USER-GUIDE.txt:81` says that each instance has a configuration of its own.
- *The context's memory.* Where IPv6 is compiled in, leaving never brings the count to zero, so the
  context stays for the life of the process, and a later instance gets the first one's. A
  context whose certificate or key is refused is not freed; one that is freed goes through
  `VmRESTFreeMemory` instead of `SSL_CTX_free` (`posix/secureSocket.c:211`).
- *The mutex without IPv6.* `MutexOutlivesUsers` of `TlsContext` holds for the build `dual`
  only: in the other the last instance destroys the global mutex and the next start locks it.
- *Count before locks.* `TlsContext`, `ContextIsAlwaysMade`: `posix/socket.c:193` sets the
  count to 0 before the locks are allocated; when that fails (`ThreadLockInitFails`), later
  instances share a context that was never made, or that was freed, and serve without locks.
  The one whose leaving brings the count to 0 then destroys locks that were never
  made (`ShutdownWithoutLocks`). `ContextOutlivesUsers` excepts all of this.
- *An error behind an answer.* `Response`, `LateFailureIsAnswered`: `USER-GUIDE.txt:506` says
  that the library answers when a callback returns an error. With an answer described, the
  failure answer takes over its headers, gets a second `Content-Length` of which the first
  is obeyed, and as many bytes are copied from the empty payload; with a chunk sent, nothing
  ends the answer, and the connection may be kept.
- *Two heads.* `HeaderIsSentOnce` without its two exceptions: VmRESTSetHttpPayloadZeroCopy
  does not set `bHeaderSent`, and after a write that was given up in the middle of a head the
  failure answer follows the half. The connection may be kept after either.
- *Close that keeps.* The interim answer `100` carries `Connection: close`
  (`httpProtocolHead.c:231`), whatever is done later. An application that fails behind
  VmRESTSetSuccessResponse sends both `keep-alive` and `close`.
- *A start that fails late.* `VmRESTStart` returns the error of removing its temporary
  certificate files although the workers run (`libmain.c:204`).
- *The limit on a request.* `common/sockinterface.c:535` multiplies `maxDataPerConnMB`, which
  is in bytes by then, once more; in 32 bits the product is 0. Not modelled.
- *A second start.* `VmRESTStart` may be repeated after one that failed; the new queue
  overwrites the pointer to the one the first workers use. Not modelled.

## 6. What is not modelled, and why

- Failing `malloc` outside `Response` and `TlsContext`, and failing `timerfd_settime` or
  `epoll_ctl` on live descriptors: these calls succeed. `accept` and the calls after it, the
  TLS handshake, reads, writes, parsing and answering may fail.
- The limit on the size of a request, the grammar of the request line beyond valid or not.
- URIs too long for their buffers, characters beyond those that the algorithms tell apart.
- The wording of an answer: status lines, reasons and header names are values.
- Connections that are open at a stop (neither closed nor freed by the code): needs a
  composition of `EventLoop` and `Lifecycle`.
- Configuration but for the certificate and the key: ranges and copies of numbers. Tables of
  valid methods, versions and headers, the dispatch table, wrappers of threads, memory and
  logging: sequential code without behaviour of its own.
- The Windows transport: it does not fit the headers beside it any more (it uses
  `isQueueInUse`, a field that is now `bQueueInUse`, and older signatures than
  `include/vmsock.h`), so there is no build that a model could be compared with.
- The sample daemon, client stubs, tools and test clients.

## 7. Plan

Done: `EventLoop`, `Lifecycle`, `UriMatch`, `Registry`, `Endpoints`, `HttpMessage`, `HttpParser`,
`Response`, `TlsContext`, with the runs and theorems above. Next:

- A composition of `EventLoop` and `Lifecycle` for the connections that are open at a stop.

Liveness is added with the modules it belongs to. Runs are kept few: a new module joins an
existing run's question or replaces a weaker one.
