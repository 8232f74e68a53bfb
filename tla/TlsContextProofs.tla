-------------------------- MODULE TlsContextProofs --------------------------
(***************************************************************************)
(* Theorems about TlsContext, for any number of instances, contexts and    *)
(* restarts.  The count may be more than the users (starts that failed     *)
(* stay counted, and IPv6 is counted in but never out) but is never less.  *)
(***************************************************************************)
EXTENDS TlsContext, FiniteSetTheorems, TLAPS

USE DEF Goto, Managed, INVALID, Joined, Left, Bound, FamilyFails, Starting

LEMMA CountedAreFinite ==
    /\ Counted6 \subseteq Counted4
    /\ IsFiniteSet(Counted4) /\ Cardinality(Counted4) \in Nat
    /\ IsFiniteSet(Counted6) /\ Cardinality(Counted6) \in Nat
  <1>1. Counted6 \subseteq Counted4 /\ Counted4 \subseteq Instances
    BY DEF Counted4, Counted6
  <1>2. IsFiniteSet(Counted4) /\ IsFiniteSet(Counted6)
    BY <1>1, FS_Subset, InstancesAssumption
  <1>3. QED BY <1>1, <1>2, FS_CardinalityType

\* A finite set with one element taken out, and one put in.
LEMMA OneLess ==
    ASSUME NEW S, IsFiniteSet(S), NEW x \in S
    PROVE  Cardinality(S \ {x}) = Cardinality(S) - 1 /\ Cardinality(S) >= 1
  <1>1. IsFiniteSet(S \ {x}) /\ Cardinality(S \ {x}) = Cardinality(S) - 1
    BY FS_RemoveElement
  <1>2. Cardinality(S) \in Nat /\ Cardinality(S \ {x}) \in Nat
    BY <1>1, FS_CardinalityType
  <1>3. QED BY <1>1, <1>2

LEMMA OneMore ==
    ASSUME NEW S, IsFiniteSet(S), NEW x, x \notin S
    PROVE  Cardinality(S \cup {x}) = Cardinality(S) + 1
  BY FS_AddElement

\* The users of the shared context, when one instance moves.
LEMMA CountedMove ==
    ASSUME TypeOK, NEW i \in Instances, NEW label \in PCs, Goto(i, label),
           UNCHANGED <<certSet, build>>
    PROVE  /\ Counted4' = IF Managed(i) /\ label \in {"bind4", "start6", "bind6", "up"}
                          THEN Counted4 \cup {i} ELSE Counted4 \ {i}
           /\ Counted6' = IF Managed(i) /\ build = "dual" /\ label \in {"bind6", "up"}
                          THEN Counted6 \cup {i} ELSE Counted6 \ {i}
  <1>1. pc' = [pc EXCEPT ![i] = label] /\ pc \in [Instances -> PCs]
    BY DEF TypeOK
  <1>2. QED BY <1>1 DEF Counted4, Counted6

\* A step that moves one instance without counting keeps the invariant if it
\* adds no user and touches none of the globals that users rely on.
LEMMA UncountedMove ==
    ASSUME IInv, NEW i \in Instances, NEW label \in PCs, Goto(i, label),
           UNCHANGED <<certSet, build, count, gpSSLCTX, locks, locksFailed, mutex>>,
           live \subseteq live', TypeOK',
           \A j \in Instances : j # i => ctx'[j] = ctx[j],
           i \in Counted4' => i \in Counted4 /\ ctx'[i] = ctx[i],
           i \in Counted6' => i \in Counted6,
           label \notin {"destroy", "undefined"} \/ build # "dual",
           label \in {"start6", "bind6"} => build = "dual"
    PROVE  IInv'
  <1>1. TypeOK /\ CountInv /\ SharedInv /\ NeverZeroInv /\ FamilyInv
    BY DEF IInv
  <1>2. pc' = [pc EXCEPT ![i] = label] /\ pc \in [Instances -> PCs]
    BY <1>1 DEF TypeOK
  <1>3. Counted4' \subseteq Counted4 /\ Counted6' \subseteq Counted6
    BY <1>1, CountedMove DEF Counted4, Counted6
  <1>4. /\ Cardinality(Counted4') \in Nat /\ Cardinality(Counted4') <= Cardinality(Counted4)
        /\ Cardinality(Counted6') \in Nat /\ Cardinality(Counted6') <= Cardinality(Counted6)
    <2>1. IsFiniteSet(Counted4') /\ IsFiniteSet(Counted6')
      BY <1>3, CountedAreFinite, FS_Subset
    <2>2. QED BY <1>3, <2>1, CountedAreFinite, FS_Subset, FS_CardinalityType
  <1>5. CountInv'
    BY <1>1, <1>3, <1>4, CountedAreFinite DEF CountInv
  <1>6. SharedInv'
    BY <1>1, <1>3 DEF SharedInv, Counted4
  <1>7. NeverZeroInv' /\ FamilyInv'
    BY <1>1, <1>2 DEF NeverZeroInv, FamilyInv
  <1>8. QED BY <1>5, <1>6, <1>7 DEF IInv

-----------------------------------------------------------------------------
(* Types. *)

LEMMA InitInvariant == Init => IInv
  <1> SUFFICES ASSUME Init PROVE IInv
    OBVIOUS
  <1>1. TypeOK
    <2>1. build \in Builds /\ count \in Int /\ gpSSLCTX \in Contexts \cup {NoContext}
      BY DEF Init
    <2>2. locks \in BOOLEAN /\ mutex \in {"initialized", "destroyed"} /\ live \subseteq Contexts
      BY DEF Init
    <2>3. /\ pc \in [Instances -> PCs]
          /\ certSet \in [Instances -> Infos] /\ keySet \in [Instances -> Infos]
      BY DEF Init, PCs, Infos
    <2>4. /\ served \in [Contexts -> Instances \cup {NoContext}]
          /\ locksFailed \in BOOLEAN
          /\ ctx \in [Instances -> Contexts \cup {AppContext, NoContext}]
      BY DEF Init
    <2>5. QED BY <2>1, <2>2, <2>3, <2>4 DEF TypeOK
  <1>2. Counted4 = {}
    BY DEF Init, Counted4
  <1>3. QED
    BY <1>1, <1>2 DEF Init, IInv, CountInv, SharedInv, NeverZeroInv, FamilyInv

LEMMA NextType == TypeOK /\ [Next]_vars => TypeOK'
  <1> SUFFICES ASSUME TypeOK, [Next]_vars PROVE TypeOK'
    OBVIOUS
  <1>1. ASSUME NEW i \in Instances, VmRESTInit(i) PROVE TypeOK'
    BY <1>1 DEF TypeOK, VmRESTInit, Validated, Infos, PCs, globals
  <1>2. ASSUME NEW i \in Instances, VmRESTSetSSLInfo(i) \/ VmRESTStart(i) \/ VmRESTShutdown(i)
        PROVE  TypeOK'
    BY <1>2 DEF TypeOK, VmRESTSetSSLInfo, SetCertificate, SetKey, VmRESTStart,
       VmRESTShutdown, Infos, PCs, globals, config
  <1>3. ASSUME NEW i \in Instances, StartUncounted(i) \/ BindFails(i) \/ Listen(i) \/ StartFails(i)
        PROVE  TypeOK'
    BY <1>3 DEF TypeOK, StartUncounted, BindFails, Listen, StartFails, PCs, globals, config
  <1>4. ASSUME NEW i \in Instances, CountIn(i) PROVE TypeOK'
    <2>1. count' \in Int
      BY <1>4 DEF TypeOK, CountIn
    <2>2. CASE MakeContext(i)
      BY <1>4, <2>1, <2>2 DEF TypeOK, CountIn, MakeContext, VmRESTSecureSocket, PCs, config
    <2>3. CASE ShareContext(i)
      BY <1>4, <2>1, <2>3 DEF TypeOK, CountIn, ShareContext, PCs, config
    <2>4. QED BY <1>4, <2>2, <2>3 DEF CountIn
  <1>5. ASSUME NEW i \in Instances, SecureSocketFails(i) PROVE TypeOK'
    BY <1>5 DEF TypeOK, SecureSocketFails, PCs, config
  <1>10. ASSUME NEW i \in Instances, ThreadLockInitFails(i) PROVE TypeOK'
    <2>1. PICK c \in Contexts : VmRESTSecureSocket(i, c)
      BY <1>10 DEF ThreadLockInitFails
    <2>2. /\ live' \subseteq Contexts
          /\ served' \in [Contexts -> Instances \cup {NoContext}]
          /\ ctx' \in [Instances -> Contexts \cup {AppContext, NoContext}]
      BY <2>1 DEF TypeOK, VmRESTSecureSocket
    <2>3. count' \in Int /\ locksFailed' \in BOOLEAN
      BY <1>10 DEF ThreadLockInitFails
    <2>4. pc' \in [Instances -> PCs]
      BY <1>10 DEF TypeOK, ThreadLockInitFails, PCs
    <2>5. UNCHANGED <<build, gpSSLCTX, locks, mutex, certSet, keySet>>
      BY <1>10 DEF ThreadLockInitFails, config
    <2>6. QED BY <2>2, <2>3, <2>4, <2>5 DEF TypeOK
  <1>6. ASSUME NEW i \in Instances,
               \/ StopUncounted(i) \/ DestroyMutex(i) \/ LockDestroyed(i)
               \/ ShutdownWithoutLocks(i)
        PROVE  TypeOK'
    BY <1>6 DEF TypeOK, StopUncounted, DestroyMutex, LockDestroyed, ShutdownWithoutLocks,
       PCs, globals, config
  <1>7. ASSUME NEW i \in Instances, CountOut(i) PROVE TypeOK'
    <2>1. /\ count' \in Int
          /\ live' \subseteq Contexts
          /\ locks' \in BOOLEAN
      <3>1. CASE Left(count) = 0
        <4>1. count' \in Int /\ live' \subseteq Contexts
          BY <1>7, <3>1 DEF TypeOK, CountOut
        <4>2. locks' = FALSE
          BY <1>7, <3>1 DEF CountOut
        <4>3. QED BY <4>1, <4>2
      <3>2. CASE Left(count) # 0
        BY <1>7, <3>2 DEF TypeOK, CountOut
      <3>3. QED BY <3>1, <3>2
    <2>2. pc' \in [Instances -> PCs]
      BY <1>7 DEF TypeOK, CountOut, PCs
    <2>3. ctx' \in [Instances -> Contexts \cup {AppContext, NoContext}]
      BY <1>7 DEF TypeOK, CountOut
    <2>4. UNCHANGED <<build, gpSSLCTX, served, locksFailed, mutex, certSet, keySet>>
      BY <1>7 DEF CountOut, config
    <2>5. QED BY <2>1, <2>2, <2>3, <2>4 DEF TypeOK
  <1>8. CASE UNCHANGED vars
    BY <1>8 DEF TypeOK, vars, globals, config
  <1>9. QED
    BY <1>1, <1>2, <1>3, <1>4, <1>5, <1>6, <1>7, <1>8, <1>10
    DEF Next, StartServer, SecureSocketShutdown

-----------------------------------------------------------------------------
(* The steps. *)

\* Configuring an instance that is not started concerns no other one.
LEMMA ConfigInvariant ==
    ASSUME IInv, TypeOK', NEW i \in Instances,
           VmRESTInit(i) \/ VmRESTSetSSLInfo(i) \/ VmRESTShutdown(i)
    PROVE  IInv'
  <1>1. TypeOK /\ CountInv /\ SharedInv /\ NeverZeroInv /\ FamilyInv
    BY DEF IInv
  <1>2. /\ UNCHANGED <<build, globals, mutex>>
        /\ pc[i] \in {"none", "initialized", "down"}
        /\ pc'[i] \in {"none", "initialized"}
        /\ \A j \in Instances : j # i => pc'[j] = pc[j] /\ ctx'[j] = ctx[j] /\ certSet'[j] = certSet[j]
    BY <1>1 DEF VmRESTInit, VmRESTSetSSLInfo, SetCertificate, SetKey, VmRESTShutdown, TypeOK
  <1>3. Counted4' = Counted4 /\ Counted6' = Counted6
    BY <1>2 DEF Counted4, Counted6
  <1>4. i \notin Counted4 /\ Counted4 \subseteq Instances
    BY <1>2 DEF Counted4
  <1>5. CountInv' /\ SharedInv' /\ NeverZeroInv' /\ FamilyInv'
    BY <1>1, <1>2, <1>3, <1>4
    DEF CountInv, SharedInv, NeverZeroInv, FamilyInv, globals
  <1>6. QED BY <1>5 DEF IInv

LEMMA StartInvariant ==
    ASSUME IInv, TypeOK', NEW i \in Instances,
           \/ VmRESTStart(i) \/ StartUncounted(i) \/ BindFails(i) \/ Listen(i) \/ StartFails(i)
    PROVE  IInv'
  <1>1. TypeOK /\ FamilyInv
    BY DEF IInv
  <1>2. CASE VmRESTStart(i)
    BY <1>1, <1>2, UncountedMove
    DEF VmRESTStart, globals, config, Counted4, Counted6, PCs, TypeOK
  <1>3. CASE StartUncounted(i)
    BY <1>1, <1>3, UncountedMove
    DEF StartUncounted, globals, config, Counted4, Counted6, PCs, TypeOK, FamilyInv
  <1>4. CASE BindFails(i)
    BY <1>1, <1>4, UncountedMove
    DEF BindFails, globals, config, Counted4, Counted6, PCs, TypeOK, FamilyInv
  <1>5. CASE Listen(i)
    BY <1>1, <1>5, UncountedMove
    DEF Listen, globals, config, Counted4, Counted6, PCs, TypeOK, FamilyInv
  <1>6. CASE StartFails(i)
    BY <1>1, <1>6, UncountedMove
    DEF StartFails, globals, config, Counted4, Counted6, PCs, TypeOK
  <1>7. QED BY <1>2, <1>3, <1>4, <1>5, <1>6

LEMMA StopInvariant ==
    ASSUME IInv, TypeOK', NEW i \in Instances,
           \/ SecureSocketFails(i) \/ StopUncounted(i) \/ DestroyMutex(i)
           \/ LockDestroyed(i) \/ ShutdownWithoutLocks(i)
    PROVE  IInv'
  <1>1. TypeOK /\ CountInv /\ SharedInv /\ NeverZeroInv /\ FamilyInv
    BY DEF IInv
  <1>2. CASE SecureSocketFails(i)
    <2>1. Counted4 = {}
      BY <1>1, <1>2 DEF CountInv, SecureSocketFails
    <2>2. pc[i] = "start4"
      BY <1>2, <2>1 DEF SecureSocketFails, Counted4
    <2>3. QED
      BY <1>1, <1>2, <2>2, UncountedMove
      DEF SecureSocketFails, config, Counted4, Counted6, PCs, TypeOK
  <1>3. CASE StopUncounted(i)
    BY <1>1, <1>3, UncountedMove
    DEF StopUncounted, globals, config, Counted4, Counted6, PCs, TypeOK
  <1>4. CASE DestroyMutex(i) \/ LockDestroyed(i) \/ ShutdownWithoutLocks(i)
    <2>1. build # "dual"
      <3>1. CASE DestroyMutex(i) \/ LockDestroyed(i)
        BY <1>1, <3>1 DEF DestroyMutex, LockDestroyed, NeverZeroInv
      <3>2. CASE ShutdownWithoutLocks(i)
        <4>1. i \in Counted4 /\ count = 1 /\ (build = "dual" => i \in Counted6)
          BY <1>1, <3>2 DEF ShutdownWithoutLocks, Counted4, Counted6, TypeOK
        <4>2. Cardinality(Counted4) >= 1
          BY <4>1, OneLess, CountedAreFinite
        <4>3. ASSUME i \in Counted6 PROVE Cardinality(Counted6) >= 1
          BY <4>3, OneLess, CountedAreFinite
        <4>4. count >= Cardinality(Counted4) + Cardinality(Counted6)
          BY <1>1, <4>1 DEF CountInv
        <4>5. QED BY <4>1, <4>2, <4>3, <4>4, CountedAreFinite
      <3>3. QED BY <1>4, <3>1, <3>2
    <2>2. PICK label \in {"down", "undefined"} : Goto(i, label)
      BY <1>4 DEF DestroyMutex, LockDestroyed, ShutdownWithoutLocks
    <2>3. /\ UNCHANGED <<build, globals, config, ctx>>
          /\ pc' = [pc EXCEPT ![i] = label]
      BY <1>4, <2>2 DEF DestroyMutex, LockDestroyed, ShutdownWithoutLocks
    <2>4. Counted4' \subseteq Counted4 /\ Counted6' = {} /\ Counted6 = {}
      BY <1>1, <2>1, <2>2, <2>3 DEF Counted4, Counted6, config, TypeOK
    <2>5. /\ IsFiniteSet(Counted4') /\ Cardinality(Counted4') \in Nat
          /\ Cardinality(Counted4') <= Cardinality(Counted4)
      BY <2>4, CountedAreFinite, FS_Subset, FS_CardinalityType
    <2>6. CountInv'
      BY <1>1, <2>3, <2>4, <2>5, CountedAreFinite DEF CountInv, globals
    <2>7. SharedInv' /\ NeverZeroInv' /\ FamilyInv'
      BY <1>1, <2>1, <2>2, <2>3, <2>4
      DEF SharedInv, NeverZeroInv, FamilyInv, globals, config, TypeOK, Counted4
    <2>8. QED BY <2>6, <2>7 DEF IInv
  <1>5. QED BY <1>2, <1>3, <1>4

\* Where the locks cannot be made nobody is counted, and the count goes to zero.
LEMMA LocksFailInvariant ==
    ASSUME IInv, TypeOK', NEW i \in Instances, ThreadLockInitFails(i)
    PROVE  IInv'
  <1>1. TypeOK /\ CountInv /\ SharedInv /\ NeverZeroInv /\ FamilyInv
    BY DEF IInv
  <1>2. count = -1
    BY DEF ThreadLockInitFails, VmRESTSecureSocket
  <1>3. Counted4 = {}
    BY <1>1, <1>2 DEF CountInv
  <1>4. pc[i] = "start4"
    BY <1>3 DEF ThreadLockInitFails, Counted4
  <1>5. /\ Goto(i, "initialized")
        /\ UNCHANGED <<build, mutex, certSet>> /\ count' = 0 /\ locksFailed'
    BY <1>4 DEF ThreadLockInitFails, config
  <1>6. Counted4' = {} /\ Counted6' = {}
    BY <1>1, <1>3, <1>5 DEF Counted4, Counted6, TypeOK
  <1>7. CountInv' /\ SharedInv'
    BY <1>5, <1>6, FS_EmptySet DEF CountInv, SharedInv
  <1>8. NeverZeroInv' /\ FamilyInv'
    BY <1>1, <1>5 DEF NeverZeroInv, FamilyInv, TypeOK
  <1>9. QED BY <1>7, <1>8 DEF IInv

LEMMA CountInInvariant ==
    ASSUME IInv, TypeOK', NEW i \in Instances, CountIn(i)
    PROVE  IInv'
  <1>1. TypeOK /\ CountInv /\ SharedInv /\ NeverZeroInv /\ FamilyInv
    BY DEF IInv
  <1>2. PICK label \in {"bind4", "bind6"} :
           /\ Goto(i, label)
           /\ label = IF pc[i] = "start4" THEN "bind4" ELSE "bind6"
    BY DEF CountIn
  <1>3. /\ Managed(i) /\ pc[i] \in {"start4", "start6"}
        /\ UNCHANGED <<build, mutex, locksFailed, certSet>>
        /\ pc' = [pc EXCEPT ![i] = label]
        /\ count' = IF count = -1 THEN 1 ELSE count + 1
    BY <1>2 DEF CountIn, config
  <1>4. /\ Counted4' = Counted4 \cup {i}
        /\ Counted6' = IF label = "bind6" THEN Counted6 \cup {i} ELSE Counted6
        /\ label = "bind4" => i \notin Counted4
        /\ label = "bind6" => i \in Counted4 /\ i \notin Counted6
    BY <1>1, <1>2, <1>3 DEF TypeOK, FamilyInv, Counted4, Counted6
  <1>5. Cardinality(Counted4') + Cardinality(Counted6')
           = Cardinality(Counted4) + Cardinality(Counted6) + 1
    <2>1. CASE label = "bind4"
      BY <1>4, <2>1, OneMore, CountedAreFinite
    <2>2. CASE label = "bind6"
      <3>1. Counted4' = Counted4
        BY <1>4, <2>2
      <3>2. Counted6' = Counted6 \cup {i} /\ i \notin Counted6
        BY <1>4, <2>2
      <3>3. Cardinality(Counted6') = Cardinality(Counted6) + 1
        BY <3>2, OneMore, CountedAreFinite
      <3>4. Cardinality(Counted4') = Cardinality(Counted4)
        BY <3>1
      <3>5. QED BY <3>3, <3>4, CountedAreFinite
    <2>3. QED BY <2>1, <2>2
  <1>6. CountInv' /\ SharedInv'
    <2>1. CASE MakeContext(i)
      <3>1. Counted4 = {} /\ Counted6 = {} /\ count = -1
        BY <1>1, <2>1, CountedAreFinite DEF CountInv, MakeContext, VmRESTSecureSocket
      <3>2. Cardinality(Counted4) = 0 /\ Cardinality(Counted6) = 0
        BY <3>1, FS_EmptySet
      <3>3. gpSSLCTX' \in live' /\ locks' /\ ctx'[i] = gpSSLCTX'
        BY <1>1, <2>1 DEF MakeContext, VmRESTSecureSocket, TypeOK
      <3>4. count' = 1 /\ Cardinality(Counted4') + Cardinality(Counted6') = 1
        BY <1>3, <1>5, <3>1, <3>2
      <3>5. CountInv'
        BY <3>3, <3>4 DEF CountInv
      <3>6. SharedInv'
        BY <1>4, <3>1, <3>3 DEF SharedInv
      <3>7. QED BY <3>5, <3>6
    <2>2. CASE ShareContext(i)
      <3>1. /\ count \in Nat /\ (locksFailed \/ (gpSSLCTX \in live /\ locks))
            /\ count >= Cardinality(Counted4) + Cardinality(Counted6)
        BY <1>1, <2>2 DEF CountInv, ShareContext
      <3>2. UNCHANGED <<gpSSLCTX, live, locks>> /\ ctx' = [ctx EXCEPT ![i] = gpSSLCTX]
        BY <2>2 DEF ShareContext
      <3>3. count' = count + 1
        BY <1>3, <3>1
      <3>4. CountInv'
        <4>1. /\ count' \in Nat \ {0}
              /\ count' >= Cardinality(Counted4') + Cardinality(Counted6')
          BY <1>5, <3>1, <3>3, CountedAreFinite
        <4>2. locksFailed' \/ (gpSSLCTX' \in live' /\ locks')
          BY <1>3, <3>1, <3>2
        <4>3. QED BY <4>1, <4>2 DEF CountInv
      <3>5. SharedInv'
        BY <1>1, <1>4, <3>2 DEF SharedInv, TypeOK, Counted4
      <3>6. QED BY <3>4, <3>5
    <2>3. QED BY <2>1, <2>2 DEF CountIn
  <1>7. NeverZeroInv' /\ FamilyInv'
    BY <1>1, <1>2, <1>3 DEF NeverZeroInv, FamilyInv, TypeOK
  <1>8. QED BY <1>6, <1>7 DEF IInv

LEMMA CountOutInvariant ==
    ASSUME IInv, TypeOK', NEW i \in Instances, CountOut(i)
    PROVE  IInv'
  <1>1. TypeOK /\ CountInv /\ SharedInv /\ NeverZeroInv /\ FamilyInv
    BY DEF IInv
  <1>2. PICK label \in {"destroy", "down"} :
           /\ Goto(i, label)
           /\ label = IF Left(count) = 0 THEN "destroy" ELSE "down"
    BY DEF CountOut
  <1>3. /\ Managed(i) /\ pc[i] = "up" /\ UNCHANGED <<build, gpSSLCTX, locksFailed, mutex, certSet>>
        /\ pc' = [pc EXCEPT ![i] = label]
        /\ ctx' = [ctx EXCEPT ![i] = NoContext]
    BY <1>2 DEF CountOut, config
  <1>4. /\ i \in Counted4 /\ Counted4' = Counted4 \ {i}
        /\ Counted6' = Counted6 \ {i} /\ (build = "dual" => i \in Counted6)
    BY <1>1, <1>3, <1>2 DEF TypeOK, Counted4, Counted6
  <1>5. /\ Cardinality(Counted4') = Cardinality(Counted4) - 1
        /\ Cardinality(Counted4) >= 1
    BY <1>4, OneLess, CountedAreFinite
  <1>6. Cardinality(Counted6') \in Nat /\ Cardinality(Counted6') <= Cardinality(Counted6)
    BY <1>4, CountedAreFinite, FS_Subset, FS_CardinalityType
  <1>7. count \in Nat /\ count >= Cardinality(Counted4) + Cardinality(Counted6)
    BY <1>1, <1>4 DEF CountInv
  <1>8. SharedInv' /\ FamilyInv'
    BY <1>1, <1>2, <1>3, <1>4 DEF SharedInv, FamilyInv, TypeOK, Counted4
  <1>9. CASE Left(count) = 0
    <2>1. Cardinality(Counted4) = 1 /\ Cardinality(Counted6) = 0
      BY <1>5, <1>7, <1>9, CountedAreFinite
    <2>2. Counted6 = {}
      BY <2>1, CountedAreFinite, FS_EmptySet
    <2>3. build # "dual"
      BY <1>4, <2>2
    <2>4. Counted4' = {}
      <3>1. IsFiniteSet(Counted4')
        BY <1>4, CountedAreFinite, FS_Subset
      <3>2. Cardinality(Counted4') = 0
        BY <1>5, <2>1
      <3>3. QED BY <3>1, <3>2, FS_EmptySet
    <2>5. CountInv'
      BY <1>9, <2>4 DEF CountOut, CountInv
    <2>6. NeverZeroInv'
      BY <1>3, <2>3 DEF NeverZeroInv
    <2>7. QED BY <1>8, <2>5, <2>6 DEF IInv
  <1>10. CASE Left(count) # 0
    <2>1. count' = count - 1 /\ UNCHANGED <<live, locks>>
      BY <1>10 DEF CountOut
    <2>2. count' \in Nat \ {0} /\ count' >= Cardinality(Counted4') + Cardinality(Counted6')
      BY <1>5, <1>6, <1>7, <1>10, <2>1, CountedAreFinite
    <2>3. locksFailed \/ (gpSSLCTX \in live /\ locks)
      BY <1>1, <1>7 DEF CountInv
    <2>4. CountInv'
      BY <1>3, <2>1, <2>2, <2>3 DEF CountInv
    <2>5. NeverZeroInv'
      BY <1>1, <1>2, <1>3, <1>10 DEF NeverZeroInv, TypeOK
    <2>6. QED BY <1>8, <2>4, <2>5 DEF IInv
  <1>11. QED BY <1>9, <1>10

-----------------------------------------------------------------------------
(* The theorems. *)

\* The count covers every user of the shared context, whatever starts, failed
\* starts and stops have happened, failed locks included (socket.c:185-206,
\* secureSocket.c:205-225).
THEOREM UsersAreCounted == Spec => []IInv
  <1>1. Init => IInv
    BY InitInvariant
  <1>2. IInv /\ [Next]_vars => IInv'
    <2> SUFFICES ASSUME IInv, [Next]_vars PROVE IInv'
      OBVIOUS
    <2>1. TypeOK'
      BY NextType DEF IInv
    <2>2. CASE Next
      BY <2>1, <2>2, ConfigInvariant, StartInvariant, StopInvariant, LocksFailInvariant,
         CountInInvariant, CountOutInvariant
      DEF Next, StartServer, SecureSocketShutdown
    <2>3. CASE UNCHANGED vars
      BY <2>3 DEF vars, globals, config, IInv, TypeOK, CountInv, SharedInv, NeverZeroInv,
         FamilyInv, Counted4, Counted6
    <2>4. QED BY <2>2, <2>3
  <1>3. QED BY <1>1, <1>2, PTL DEF Spec

\* Unless VmRESTSSLThreadLockInit has failed, the shared context and OpenSSL's
\* locks outlive every instance that serves with them (secureSocket.c:209-219).
THEOREM ContextIsKept == Spec => []ContextOutlivesUsers
  <1>1. IInv => ContextOutlivesUsers
    <2> SUFFICES ASSUME IInv, ~locksFailed,
                        NEW i \in Instances, pc[i] = "up", Managed(i)
                 PROVE  ctx[i] \in live /\ ctx[i] = gpSSLCTX /\ locks
      BY DEF ContextOutlivesUsers
    <2>1. i \in Counted4
      BY DEF Counted4
    <2>2. QED BY <2>1 DEF IInv, CountInv, SharedInv
  <1>2. QED BY <1>1, UsersAreCounted, PTL

\* With IPv6 compiled in the global mutex is never destroyed, so never locked
\* after its destruction (socket.c:202, secureSocket.c:227).
THEOREM MutexIsKept == Spec => []MutexOutlivesUsers
  <1>1. IInv => MutexOutlivesUsers
    BY DEF IInv, NeverZeroInv, MutexOutlivesUsers
  <1>2. QED BY <1>1, UsersAreCounted, PTL
=============================================================================
