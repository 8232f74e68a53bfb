----------------------------- MODULE TlsContext -----------------------------
(***************************************************************************)
(* What the library's instances in one process share for TLS: the count of *)
(* instances, the context, OpenSSL's locks, and the mutex that guards them *)
(* (posix/global.c).  VmSockPosixStartServer counts an instance in, once   *)
(* for each family of addresses, and VmRESTSecureSocketShutdown, run by    *)
(* the instance's last worker, counts it out.  The locked sections are one *)
(* step each; the mutex is destroyed outside of them.                      *)
(***************************************************************************)
EXTENDS Integers, FiniteSets

CONSTANTS
    Instances,   \* handles of the process; each names its own certificate
    Contexts,    \* addresses of SSL_CTX objects
    NoContext,
    AppContext,  \* pSSLContext of an application that brings its own
    Builds,      \* with AF_INET6 ("dual") or without ("v4")
    MaxCount     \* bound on gSSLisedInstaceCount

ASSUME InstancesAssumption == IsFiniteSet(Instances)
ASSUME ContextsAssumption ==
    /\ NoContext \notin Contexts
    /\ AppContext \notin Contexts
    /\ AppContext # NoContext
ASSUME BuildsAssumption == Builds \subseteq {"v4", "dual"}
ASSUME MaxCountAssumption == MaxCount \in Nat

INVALID == -1

VARIABLES
    build,     \* how the library was compiled; never changes
    count,     \* gSSLisedInstaceCount
    gpSSLCTX,
    locks,     \* gSSLThreadLock is allocated, OpenSSL's callback is set
    mutex,     \* gGlobalMutex: PTHREAD_MUTEX_INITIALIZER, until destroyed
    live,      \* allocated contexts
    served,    \* history: whose certificate a context was last made from
    locksFailed, \* history: VmRESTSSLThreadLockInit has failed once
    pc,        \* where the start or stop of each instance is
    certSet,   \* pSSLInfo->isCertSet
    keySet,    \* pSSLInfo->isKeySet
    ctx        \* pSSLInfo->sslContext

globals == <<count, gpSSLCTX, locks, live, served, locksFailed>>
config == <<certSet, keySet>>
vars == <<build, globals, mutex, pc, config, ctx>>

Infos == {"NOT_SET", "NO_SSL_PLAIN", "CONFIG_FILE", "BUFFER_API", "APP_CONTEXT"}

PCs == {"none", "initialized", "start4", "bind4", "start6", "bind6", "up",
        "destroy", "down", "undefined"}

TypeOK ==
    /\ build \in Builds
    /\ count \in Int
    /\ gpSSLCTX \in Contexts \cup {NoContext}
    /\ locks \in BOOLEAN
    /\ mutex \in {"initialized", "destroyed"}
    /\ live \subseteq Contexts
    /\ served \in [Contexts -> Instances \cup {NoContext}]
    /\ locksFailed \in BOOLEAN
    /\ pc \in [Instances -> PCs]
    /\ certSet \in [Instances -> Infos]
    /\ keySet \in [Instances -> Infos]
    /\ ctx \in [Instances -> Contexts \cup {AppContext, NoContext}]

Init ==
    /\ build \in Builds
    /\ count = INVALID
    /\ gpSSLCTX = NoContext
    /\ locks = FALSE
    /\ mutex = "initialized"
    /\ live = {}
    /\ served = [c \in Contexts |-> NoContext]
    /\ locksFailed = FALSE
    /\ pc = [i \in Instances |-> "none"]
    /\ certSet = [i \in Instances |-> "NOT_SET"]
    /\ keySet = [i \in Instances |-> "NOT_SET"]
    /\ ctx = [i \in Instances |-> NoContext]

Goto(i, label) == pc' = [pc EXCEPT ![i] = label]

\* The library makes and shares the context.
Managed(i) == certSet[i] \in {"CONFIG_FILE", "BUFFER_API"}

-----------------------------------------------------------------------------
(* Configuration. *)

\* What VmRESTValidateConfig may make of a configuration: plain, with the
\* application's context, or with or without the names of the two files.
Validated ==
    {<<"NO_SSL_PLAIN", "NO_SSL_PLAIN">>, <<"APP_CONTEXT", "APP_CONTEXT">>}
        \cup ({"NOT_SET", "CONFIG_FILE"} \X {"NOT_SET", "CONFIG_FILE"})

VmRESTInit(i) ==
    /\ pc[i] = "none"
    /\ \E info \in Validated :
          /\ certSet' = [certSet EXCEPT ![i] = info[1]]
          /\ keySet' = [keySet EXCEPT ![i] = info[2]]
    /\ ctx' = [ctx EXCEPT ![i] = NoContext]
    /\ Goto(i, "initialized")
    /\ UNCHANGED <<build, globals, mutex>>

\* A certificate or a key from memory, if the configuration named none.
SetCertificate(i) ==
    /\ pc[i] = "initialized"
    /\ certSet[i] = "NOT_SET"
    /\ certSet' = [certSet EXCEPT ![i] = "BUFFER_API"]
    /\ UNCHANGED <<build, globals, mutex, pc, keySet, ctx>>

SetKey(i) ==
    /\ pc[i] = "initialized"
    /\ keySet[i] = "NOT_SET"
    /\ keySet' = [keySet EXCEPT ![i] = "BUFFER_API"]
    /\ UNCHANGED <<build, globals, mutex, pc, certSet, ctx>>

VmRESTSetSSLInfo(i) == SetCertificate(i) \/ SetKey(i)

-----------------------------------------------------------------------------
(* Start. *)

VmRESTStart(i) ==
    /\ pc[i] = "initialized"
    /\ certSet[i] # "NOT_SET"
    /\ keySet[i] # "NOT_SET"
    /\ count + 2 <= MaxCount
    /\ Goto(i, "start4")
    /\ UNCHANGED <<build, globals, mutex, config, ctx>>

Starting(i) == pc[i] \in {"start4", "start6"}

Bound(i) == IF pc[i] = "start4" THEN "bind4" ELSE "bind6"

\* Without IPv4 the start fails, without IPv6 it goes on.
FamilyFails(i) == Goto(i, IF pc[i] \in {"start4", "bind4"} THEN "initialized" ELSE "up")

\* Plain text, or the application's context: nothing is counted.
StartUncounted(i) ==
    /\ Starting(i)
    /\ ~Managed(i)
    /\ ctx' = IF certSet[i] = "APP_CONTEXT" THEN [ctx EXCEPT ![i] = AppContext] ELSE ctx
    /\ Goto(i, Bound(i))
    /\ UNCHANGED <<build, globals, mutex, config>>

\* Faulty variant of Joined: only the instance that makes the context counts.
JoinedOnce(n) == IF n = INVALID THEN 1 ELSE n

\* The count with one more instance.
Joined(n) == IF n = INVALID THEN 1 ELSE n + 1

\* The first instance makes a context from its own certificate.
VmRESTSecureSocket(i, c) ==
    /\ count = INVALID
    /\ c \notin live
    /\ live' = live \cup {c}
    /\ served' = [served EXCEPT ![c] = i]
    /\ ctx' = [ctx EXCEPT ![i] = c]

MakeContext(i) ==
    \E c \in Contexts :
       /\ VmRESTSecureSocket(i, c)
       /\ gpSSLCTX' = c
       /\ locks' = TRUE

ShareContext(i) ==
    /\ count # INVALID
    /\ ctx' = [ctx EXCEPT ![i] = gpSSLCTX]
    /\ UNCHANGED <<live, served, gpSSLCTX, locks>>

CountIn(i) ==
    /\ Starting(i)
    /\ Managed(i)
    /\ mutex = "initialized"
    /\ MakeContext(i) \/ ShareContext(i)
    /\ count' = Joined(count)
    /\ Goto(i, Bound(i))
    /\ UNCHANGED <<build, locksFailed, mutex, config>>

\* No memory for OpenSSL's locks: the count is 0 by then and stays so, and the
\* instances behind share what gpSSLCTX held before.
ThreadLockInitFails(i) ==
    /\ Starting(i)
    /\ Managed(i)
    /\ mutex = "initialized"
    /\ \E c \in Contexts : VmRESTSecureSocket(i, c)
    /\ count' = 0
    /\ locksFailed' = TRUE
    /\ FamilyFails(i)
    /\ UNCHANGED <<build, gpSSLCTX, locks, mutex, config>>

\* No memory, or a certificate, a key or a list of ciphers that OpenSSL refuses:
\* a context that was made stays allocated.
SecureSocketFails(i) ==
    /\ Starting(i)
    /\ Managed(i)
    /\ mutex = "initialized"
    /\ count = INVALID
    /\ \/ live' = live
       \/ \E c \in Contexts \ live : live' = live \cup {c}
    /\ FamilyFails(i)
    /\ UNCHANGED <<build, count, gpSSLCTX, locks, served, locksFailed, mutex, config, ctx>>

\* socket, bind or listen fails behind the locked section, and the count stays.
BindFails(i) ==
    /\ pc[i] \in {"bind4", "bind6"}
    /\ FamilyFails(i)
    /\ UNCHANGED <<build, globals, mutex, config, ctx>>

Listen(i) ==
    /\ pc[i] \in {"bind4", "bind6"}
    /\ Goto(i, IF pc[i] = "bind4" /\ build = "dual" THEN "start6" ELSE "up")
    /\ UNCHANGED <<build, globals, mutex, config, ctx>>

\* The event queue or the workers cannot be created.
StartFails(i) ==
    /\ pc[i] = "bind6" \/ (pc[i] = "bind4" /\ build = "v4")
    /\ Goto(i, "initialized")
    /\ UNCHANGED <<build, globals, mutex, config, ctx>>

-----------------------------------------------------------------------------
(* Stop: VmRESTSecureSocketShutdown in the last worker. *)

StopUncounted(i) ==
    /\ pc[i] = "up"
    /\ ~Managed(i)
    /\ ctx' = [ctx EXCEPT ![i] = NoContext]
    /\ Goto(i, "down")
    /\ UNCHANGED <<build, globals, mutex, config>>

\* Faulty variant of Left: an instance leaves with both its families.
LeftBoth(n) == n - 2

\* The count without one instance.
Left(n) == n - 1

CountOut(i) ==
    /\ pc[i] = "up"
    /\ Managed(i)
    /\ mutex = "initialized"
    /\ ctx' = [ctx EXCEPT ![i] = NoContext]
    /\ \/ /\ Left(count) = 0
          /\ locks
          /\ live' = live \ {ctx[i]}
          /\ locks' = FALSE
          /\ count' = INVALID
          /\ Goto(i, "destroy")
       \/ /\ Left(count) # 0
          /\ count' = Left(count)
          /\ Goto(i, "down")
          /\ UNCHANGED <<live, locks>>
    /\ UNCHANGED <<build, gpSSLCTX, served, locksFailed, mutex, config>>

\* VmRESTSSLThreadLockShutdown destroys locks that were never made: undefined,
\* and the instance is not followed on.
ShutdownWithoutLocks(i) ==
    /\ pc[i] = "up"
    /\ Managed(i)
    /\ mutex = "initialized"
    /\ Left(count) = 0
    /\ ~locks
    /\ Goto(i, "undefined")
    /\ UNCHANGED <<build, globals, mutex, config, ctx>>

\* After the unlock: nobody initialises the mutex again.
DestroyMutex(i) ==
    /\ pc[i] = "destroy"
    /\ mutex' = "destroyed"
    /\ Goto(i, "down")
    /\ UNCHANGED <<build, globals, config, ctx>>

\* Locking a destroyed mutex is undefined: the instance is not followed on.
LockDestroyed(i) ==
    /\ Starting(i) \/ pc[i] = "up"
    /\ Managed(i)
    /\ mutex = "destroyed"
    /\ Goto(i, "undefined")
    /\ UNCHANGED <<build, globals, mutex, config, ctx>>

\* The handle is freed; the application may make another one.
VmRESTShutdown(i) ==
    /\ pc[i] \in {"initialized", "down"}
    /\ certSet' = [certSet EXCEPT ![i] = "NOT_SET"]
    /\ keySet' = [keySet EXCEPT ![i] = "NOT_SET"]
    /\ ctx' = [ctx EXCEPT ![i] = NoContext]
    /\ Goto(i, "none")
    /\ UNCHANGED <<build, globals, mutex>>

StartServer(i) ==
    \/ StartUncounted(i) \/ CountIn(i) \/ BindFails(i) \/ Listen(i)
    \/ SecureSocketFails(i) \/ ThreadLockInitFails(i)

SecureSocketShutdown(i) ==
    StopUncounted(i) \/ CountOut(i) \/ ShutdownWithoutLocks(i) \/ DestroyMutex(i)

Next ==
    \E i \in Instances :
       \/ VmRESTInit(i) \/ VmRESTSetSSLInfo(i) \/ VmRESTStart(i)
       \/ StartServer(i) \/ StartFails(i)
       \/ SecureSocketShutdown(i) \/ LockDestroyed(i)
       \/ VmRESTShutdown(i)

Spec == Init /\ [][Next]_vars

-----------------------------------------------------------------------------
(* Properties. *)

\* Unless VmRESTSSLThreadLockInit has ever failed, an instance that serves TLS
\* with the shared context has it, allocated, with OpenSSL's locks, although
\* other instances start, fail otherwise and stop meanwhile (secureSocket.c:209-219
\* frees both with the last one).
ContextOutlivesUsers ==
    ~locksFailed =>
       \A i \in Instances :
          pc[i] = "up" /\ Managed(i) => ctx[i] \in live /\ ctx[i] = gpSSLCTX /\ locks

\* Not so: the same also when VmRESTSSLThreadLockInit has failed.  The count is
\* then 0 (socket.c:193), so the next instance shares a context that was never
\* made, or was freed, and serves without locks.
ContextIsAlwaysMade ==
    \A i \in Instances : pc[i] = "up" /\ Managed(i) => ctx[i] \in live /\ locks

\* Where IPv6 is compiled in, no instance ever locks the destroyed global mutex
\* (secureSocket.c:227): each is counted in twice (socket.c:202) and out once.
MutexOutlivesUsers ==
    build = "dual" =>
       mutex = "initialized" /\ \A i \in Instances : pc[i] # "undefined"

\* Not so: an instance serves the certificate that it was configured with.  The
\* second one shares the first one's context (socket.c:200).
OwnCertificate ==
    \A i \in Instances :
       pc[i] = "up" /\ Managed(i) => served[ctx[i]] = i

-----------------------------------------------------------------------------
(* The inductive invariant. *)

\* Instances whose IPv4 socket, and those whose IPv6 socket, was counted in.
Counted4 == {i \in Instances : Managed(i) /\ pc[i] \in {"bind4", "start6", "bind6", "up"}}
Counted6 == {i \in Counted4 : build = "dual" /\ pc[i] \in {"bind6", "up"}}

CountInv ==
    \/ count = INVALID /\ Counted4 = {}
    \/ /\ count \in Nat
       /\ count >= Cardinality(Counted4) + Cardinality(Counted6)
       /\ locksFailed \/ (count # 0 /\ gpSSLCTX \in live /\ locks)

SharedInv == \A i \in Counted4 : ctx[i] = gpSSLCTX

\* With IPv6 nobody's leaving brings the count to zero.
NeverZeroInv ==
    build = "dual" =>
       /\ mutex = "initialized"
       /\ \A i \in Instances : pc[i] \notin {"destroy", "undefined"}

FamilyInv == \A i \in Instances : pc[i] \in {"start6", "bind6"} => build = "dual"

IInv == TypeOK /\ CountInv /\ SharedInv /\ NeverZeroInv /\ FamilyInv
=============================================================================
