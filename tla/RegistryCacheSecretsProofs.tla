--------------------- MODULE RegistryCacheSecretsProofs ---------------------
(***************************************************************************)
(* Proofs about RegistryCacheSecrets, for any set of caches, any number of *)
(* credentials and of names of Secrets.                                    *)
(*                                                                         *)
(* What the shoot refers to depends on the "dirty" labels: a Secret that   *)
(* is labelled must never again hold what a cache asks for, or             *)
(* GardenSecretSyncer.Do takes it for the cache's Secret and nothing is    *)
(* left to refer to.  There are two reasons why it does not: users wait    *)
(* for a change to be applied (WaitInv), or they never return to older     *)
(* credentials (AdvanceInv).                                               *)
(***************************************************************************)
EXTENDS RegistryCacheSecrets, FiniteSetTheorems, WellFoundedInduction, TLAPS

-----------------------------------------------------------------------------
(* The inductive invariants.                                                *)

\* The steps that apply a configuration to the shoot.
Applying == {"sync", "create", "patch"}

Progress ==
    /\ pc \in {"sync", "create"} => \A u \in todo : inst[u] # None
    /\ pc = "create" => inst[cache] # None
    /\ current => inst = spec
    /\ pc \in Applying => stale
    /\ pc = "patch" => todo = {}

GoneInv == life = "gone" => pc = "idle" /\ \A n \in Names : secrets[n] = None

ShootInv ==
    /\ ~shoot => ref = NoCaches /\ life # "alive" /\ pc \in {"idle", "delete_all"}
    /\ pc = "delete_all" => ~shoot

BaseInv == TypeOK /\ Progress /\ GoneInv /\ ShootInv

\* Whatever the shoot refers to is used by caching and not labelled.
InUse(caching) == \A u \in Caches : ref[u] # None => caching[u] # None /\ ~secrets[ref[u]].dirty

\* A cache that GardenSecretSyncer.Do has visited has a Secret to refer to.
Visited(u) == inst[u] # None /\ u \notin todo /\ ~(pc = "create" /\ cache = u)

RefInv ==
    /\ NoDanglingReference
    /\ pc = "cleanup" => InUse(inst)
    /\ ~stale => InUse(spec)
    /\ pc \in Applying => \A u \in Caches : Visited(u) => usableSecrets(u) # {}

Labelled(n) == secrets[n] # None /\ secrets[n].dirty

\* A labelled Secret does not hold what its cache asks for.
Unwanted(caching) ==
    \A n \in Names : Labelled(n) /\ caching[secrets[n].uid] # None
                     => secrets[n].data # caching[secrets[n].uid]

\* Users who wait see one change after the other applied.
WaitInv ==
    /\ config # None => config = configured
    /\ pc \in Applying \cup {"cleanup"} => spec = configured /\ config = None /\ current
    /\ life = "alive" /\ (stale \/ pending) => spec = configured /\ config = None
    /\ \A n \in Names : Labelled(n) =>
         /\ spec = configured /\ config = None
         /\ life = "alive" => stale \/ pending
    /\ Unwanted(spec)

\* Caching y is not older than x.
NotOlder(x, y) == \A u \in Caches : x[u] # None /\ y[u] # None => x[u] <= y[u]

\* Nor are the Secrets newer than caching x; the labelled ones are older.
Behind(x) ==
    \A n \in Names : secrets[n] # None /\ x[secrets[n].uid] # None =>
        /\ secrets[n].data <= x[secrets[n].uid]
        /\ secrets[n].dirty => secrets[n].data < x[secrets[n].uid]

\* Credentials that users never return from get newer on their way to the shoot.
AdvanceInv ==
    /\ Behind(want) /\ Behind(spec) /\ NotOlder(spec, want)
    /\ config # None => Behind(config) /\ NotOlder(spec, config) /\ NotOlder(config, want)
    /\ pc \in {"sync", "create"} =>
         /\ Behind(inst) /\ NotOlder(inst, spec) /\ NotOlder(inst, want)
         /\ config # None => NotOlder(inst, config)
    /\ \A u \in Caches \ removed : want[u] = None =>
         /\ SecretsOf(u) = {} /\ spec[u] = None
         /\ config # None => config[u] = None
         /\ pc \in {"sync", "create"} => inst[u] = None

\* The shoot refers to the credentials of caching.
Applied(caching) ==
    \A u \in Caches : IF caching[u] = None THEN ref[u] = None
                      ELSE ref[u] \in Names /\ secrets[ref[u]].data = caching[u]

\* A Ready Runtime has no Secrets of caches that are not its own.
NoLeftover == ~stale /\ ~pending => \A n \in Names : secrets[n] # None => spec[secrets[n].uid] # None

\* As long as no call fails, a cache has at most one usable Secret.
OneUsable == \A u \in Caches : \A n, m \in usableSecrets(u) : n = m

\* Secrets of the caches that are still to be visited, that is replaced, and that were visited.
WriteInv ==
    /\ pc \in {"sync", "create"} => \A u \in todo : SecretsOf(u) = usableSecrets(u)
    /\ pc = "create" => usableSecrets(cache) = {}
    /\ pc \in Applying =>
         \A u \in Caches : Visited(u) => \A n \in usableSecrets(u) : secrets[n].data = inst[u]

AppliedInv ==
    /\ pc = "cleanup" => Applied(inst)
    /\ ~stale /\ shoot => Applied(spec)
    /\ pc = "idle" /\ life = "alive" /\ stale => \A n \in Names : ~Labelled(n)

SyncInv == NoLeftover /\ (~disturbed => OneUsable /\ WriteInv /\ AppliedInv)

-----------------------------------------------------------------------------
(* Facts about the operators.                                                *)

LEMMA Constants ==
    /\ MaxVersion \in Nat /\ 1 \in Versions /\ Versions \subseteq Nat
    /\ Names \subseteq Nat /\ IsFiniteSet(Names)
    /\ None \notin Nat /\ Missing \notin Nat /\ None # Missing
  BY CacheAssumption DEF CacheAssumption, Versions

LEMMA VersionIsNotNone == \A v \in Versions : v # None
  BY Constants

\* Of finitely many names one is the last: the set of the names after it is minimal.
LEMMA LastExists ==
    ASSUME NEW S \in SUBSET Names, S # {}
    PROVE  \E x \in S : \A y \in S : x >= y
  <1> DEFINE After(x) == {y \in S : y > x}
  <1> DEFINE T == {After(x) : x \in S}
  <1>1. IsFiniteSet(S) /\ S \subseteq Nat
    BY Constants, FS_Subset
  <1>2. IsWellFoundedOn(StrictSubsetOrdering(S), FiniteSubsetsOf(S))
    BY <1>1, FS_StrictSubsetOrderingWellFounded
  <1>3. T \subseteq FiniteSubsetsOf(S) /\ T # {}
    <2>1. \A x \in S : After(x) \in SUBSET S /\ IsFiniteSet(After(x))
      BY <1>1, FS_Subset
    <2> QED
      BY <2>1 DEF FiniteSubsetsOf
  <1>4. PICK s \in T : \A t \in T : ~(<<t, s>> \in StrictSubsetOrdering(S))
    BY <1>2, <1>3, WFMin
  <1>5. PICK x \in S : s = After(x)
    OBVIOUS
  <1>6. ASSUME NEW y \in S, ~(x >= y)
        PROVE  FALSE
    <2>1. y > x /\ y \in Nat /\ x \in Nat
      BY <1>1, <1>6
    <2>2. After(y) \subseteq After(x)
      <3>1. ASSUME NEW z \in S, z > y
            PROVE  z > x
        <4>1. z \in Nat
          BY <1>1
        <4> QED
          BY <2>1, <3>1, <4>1
      <3> QED
        BY <3>1
    <2>3. y \in After(x) /\ y \notin After(y)
      BY <1>1, <2>1
    <2>4. <<After(y), After(x)>> \in StrictSubsetOrdering(S)
      BY <2>2, <2>3 DEF StrictSubsetOrdering
    <2>5. After(y) \in T
      OBVIOUS
    <2> QED
      BY <1>4, <1>5, <2>4, <2>5
  <1> QED
    BY <1>6

LEMMA LastFacts ==
    ASSUME NEW S \in SUBSET Names, S # {}
    PROVE  Last(S) \in S
  BY LastExists DEF Last, Max

\* The same for the first.
LEMMA FirstExists ==
    ASSUME NEW S \in SUBSET Names, S # {}
    PROVE  \E x \in S : \A y \in S : x =< y
  <1> DEFINE Before(x) == {y \in S : y < x}
  <1> DEFINE T == {Before(x) : x \in S}
  <1>1. IsFiniteSet(S) /\ S \subseteq Nat
    BY Constants, FS_Subset
  <1>2. IsWellFoundedOn(StrictSubsetOrdering(S), FiniteSubsetsOf(S))
    BY <1>1, FS_StrictSubsetOrderingWellFounded
  <1>3. T \subseteq FiniteSubsetsOf(S) /\ T # {}
    <2>1. \A x \in S : Before(x) \in SUBSET S /\ IsFiniteSet(Before(x))
      BY <1>1, FS_Subset
    <2> QED
      BY <2>1 DEF FiniteSubsetsOf
  <1>4. PICK s \in T : \A t \in T : ~(<<t, s>> \in StrictSubsetOrdering(S))
    BY <1>2, <1>3, WFMin
  <1>5. PICK x \in S : s = Before(x)
    OBVIOUS
  <1>6. ASSUME NEW y \in S, ~(x =< y)
        PROVE  FALSE
    <2>1. y < x /\ y \in Nat /\ x \in Nat
      BY <1>1, <1>6
    <2>2. Before(y) \subseteq Before(x)
      <3>1. ASSUME NEW z \in S, z < y
            PROVE  z < x
        <4>1. z \in Nat
          BY <1>1
        <4> QED
          BY <2>1, <3>1, <4>1
      <3> QED
        BY <3>1
    <2>3. y \in Before(x) /\ y \notin Before(y)
      BY <1>1, <2>1
    <2>4. <<Before(y), Before(x)>> \in StrictSubsetOrdering(S)
      BY <2>2, <2>3 DEF StrictSubsetOrdering
    <2>5. Before(y) \in T
      OBVIOUS
    <2> QED
      BY <1>4, <1>5, <2>4, <2>5
  <1> QED
    BY <1>6

LEMMA FirstFacts ==
    ASSUME NEW S \in SUBSET Names, S # {}
    PROVE  First(S) \in S
  BY FirstExists DEF First, Min

LEMMA SecretFields ==
    ASSUME NEW s \in Secret
    PROVE  s # None /\ s.uid \in Caches /\ s.data \in Versions /\ s.data \in Nat /\ s.dirty \in BOOLEAN
  BY NoneAssumption, Constants DEF NoneAssumption, Secret

LEMMA CachingFields ==
    ASSUME NEW c \in Caching, NEW u \in Caches
    PROVE  c[u] \in Versions \cup {None} /\ (c[u] # None => c[u] \in Nat)
  BY Constants DEF Caching

LEMMA NoCachesFacts == NoCaches \in Caching /\ \A u \in Caches : NoCaches[u] = None
  BY DEF NoCaches, Caching

LEMMA ConfiguredType ==
    ASSUME TypeOK
    PROVE  configured \in Caching
  BY NoCachesFacts DEF TypeOK, configured

\* What may happen to the Secrets: one is labelled, one is added, one is deleted.
Others(n) == \A m \in Names : m # n => secrets'[m] = secrets[m]

SecretType == secrets \in [Names -> Secret \cup {None}]

Marks(n) ==
    /\ SecretType' /\ Others(n) /\ n \in Names /\ secrets[n] # None
    /\ secrets'[n] # None /\ secrets'[n].dirty
    /\ secrets'[n].uid = secrets[n].uid /\ secrets'[n].data = secrets[n].data

Adds(n, u, d) ==
    /\ SecretType' /\ Others(n) /\ n \in Names /\ secrets[n] = None
    /\ secrets'[n] # None /\ ~secrets'[n].dirty
    /\ secrets'[n].uid = u /\ secrets'[n].data = d

Drops(n) == SecretType' /\ Others(n) /\ n \in Names /\ secrets'[n] = None

LEMMA MarksFacts ==
    ASSUME TypeOK, NEW n \in Names, secrets[n] # None,
           secrets' = [secrets EXCEPT ![n] = [@ EXCEPT !.dirty = TRUE]]
    PROVE  Marks(n)
  <1>1. secrets \in [Names -> Secret \cup {None}] /\ secrets[n] \in Secret
    BY DEF TypeOK
  <1> DEFINE s == [secrets[n] EXCEPT !.dirty = TRUE]
  <1>2. s \in Secret /\ s.dirty = TRUE /\ s.uid = secrets[n].uid /\ s.data = secrets[n].data
    BY <1>1 DEF Secret
  <1>3. s # None
    BY <1>2, SecretFields
  <1>4. secrets' = [secrets EXCEPT ![n] = s]
    OBVIOUS
  <1> HIDE DEF s
  <1>5. secrets' \in [Names -> Secret \cup {None}] /\ secrets'[n] = s /\ Others(n)
    BY <1>1, <1>2, <1>4 DEF Others
  <1> QED
    BY <1>1, <1>2, <1>3, <1>5 DEF Marks, SecretType

LEMMA AddsFacts ==
    ASSUME TypeOK, NEW n \in Names, secrets[n] = None, NEW u \in Caches, NEW d \in Versions,
           secrets' = [secrets EXCEPT ![n] = [uid |-> u, data |-> d, dirty |-> FALSE]]
    PROVE  Adds(n, u, d)
  <1>1. secrets \in [Names -> Secret \cup {None}]
    BY DEF TypeOK
  <1> DEFINE s == [uid |-> u, data |-> d, dirty |-> FALSE]
  <1>2. s \in Secret /\ s.dirty = FALSE /\ s.uid = u /\ s.data = d
    BY DEF Secret
  <1>3. s # None
    BY <1>2, SecretFields
  <1>4. secrets' = [secrets EXCEPT ![n] = s]
    OBVIOUS
  <1> HIDE DEF s
  <1>5. secrets' \in [Names -> Secret \cup {None}] /\ secrets'[n] = s /\ Others(n)
    BY <1>1, <1>2, <1>4 DEF Others
  <1> QED
    BY <1>2, <1>3, <1>5 DEF Adds, SecretType

LEMMA DropsFacts ==
    ASSUME TypeOK, NEW n \in Names, secrets' = [secrets EXCEPT ![n] = None]
    PROVE  Drops(n)
  <1>1. secrets \in [Names -> Secret \cup {None}]
    BY DEF TypeOK
  <1> QED
    BY <1>1 DEF Drops, SecretType, Others

-----------------------------------------------------------------------------
(* Types, and where a reconciliation is.                                     *)

\* A reconciliation that is broken off.
LEMMA RequeueBase ==
    ASSUME BaseInv, Requeue, UNCHANGED <<userVars, life, spec, stale, gardenVars>>,
           config' \in Caching \cup {None}, pending' \in BOOLEAN, disturbed' \in BOOLEAN, life # "gone"
    PROVE  BaseInv'
  <1>1. UNCHANGED <<want, removed, module, life, spec, stale, secrets, shoot, ref>>
    BY DEF userVars, gardenVars
  <1>2. pc' = "idle" /\ inst' = NoCaches /\ current' = FALSE /\ todo' = {} /\ cache' = None /\ queued' = TRUE
    BY DEF Requeue
  <1>3. TypeOK'
    BY <1>1, <1>2, NoCachesFacts DEF BaseInv, TypeOK, Steps
  <1>4. Progress'
    BY <1>2 DEF Progress, Applying
  <1>5. GoneInv' /\ ShootInv'
    BY <1>1, <1>2 DEF BaseInv, GoneInv, ShootInv
  <1> QED
    BY <1>3, <1>4, <1>5 DEF BaseInv

LEMMA FailsBase ==
    ASSUME BaseInv, Fails, UNCHANGED <<userVars, config, life, spec, stale>>, pc # "idle"
    PROVE  BaseInv'
  <1>1. Requeue /\ UNCHANGED <<userVars, life, spec, stale, gardenVars>> /\ pending' = TRUE /\ disturbed' = TRUE
        /\ config' = config
    BY DEF Fails
  <1>2. life # "gone" /\ config \in Caching \cup {None}
    BY DEF BaseInv, GoneInv, TypeOK
  <1> QED
    BY <1>1, <1>2, RequeueBase

LEMMA UserBase ==
    ASSUME BaseInv, want' \in Caching, removed' \subseteq Caches, module' \in BOOLEAN,
           UNCHANGED <<kcpVars, memVars, gardenVars, disturbed>>
    PROVE  BaseInv'
  <1>1. UNCHANGED <<config, life, spec, stale, pending, queued, pc, inst, current, todo, cache, secrets, shoot, ref, disturbed>>
    BY DEF kcpVars, memVars, gardenVars
  <1>2. TypeOK'
    BY <1>1 DEF BaseInv, TypeOK
  <1>3. Progress' /\ GoneInv' /\ ShootInv'
    BY <1>1 DEF BaseInv, Progress, GoneInv, ShootInv
  <1> QED
    BY <1>2, <1>3 DEF BaseInv

LEMMA ConfigureBase ==
    ASSUME BaseInv, NEW u \in Caches, Configure(u)
    PROVE  BaseInv'
  <1>1. want \in Caching /\ removed \subseteq Caches /\ module \in BOOLEAN
    BY DEF BaseInv, TypeOK
  <1>2. want' \in Caching
    <2>1. want \in [Caches -> Versions \cup {None}] /\ MaxVersion \in Nat /\ 1 \in Versions /\ want[u] \in Versions \cup {None}
      BY <1>1, Constants DEF Caching
    <2>2. CASE want' = [want EXCEPT ![u] = 1] \/ want' = [want EXCEPT ![u] = None]
      BY <2>1, <2>2 DEF Caching
    <2>3. CASE want[u] # None /\ want[u] < MaxVersion /\ want' = [want EXCEPT ![u] = @ + 1]
      <3>1. want[u] + 1 \in Versions
        BY <2>1, <2>3 DEF Versions
      <3> QED
        BY <2>1, <2>3, <3>1 DEF Caching
    <2>4. CASE want[u] # None /\ want[u] > 1 /\ want' = [want EXCEPT ![u] = @ - 1]
      <3>1. want[u] - 1 \in Versions
        BY <2>1, <2>4 DEF Versions
      <3> QED
        BY <2>1, <2>4, <3>1 DEF Caching
    <2> QED
      BY <2>2, <2>3, <2>4 DEF Configure
  <1>3. removed' \subseteq Caches /\ module' \in BOOLEAN /\ UNCHANGED <<kcpVars, memVars, gardenVars, disturbed>>
    BY <1>1 DEF Configure
  <1> QED
    BY <1>2, <1>3, UserBase

LEMMA SwitchModuleBase ==
    ASSUME BaseInv, SwitchModule
    PROVE  BaseInv'
  BY UserBase DEF SwitchModule, BaseInv, TypeOK

LEMMA DeleteRuntimeBase ==
    ASSUME BaseInv, DeleteRuntime
    PROVE  BaseInv'
  <1>1. life = "alive" /\ life' = "deleting" /\ queued' = TRUE
        /\ UNCHANGED <<want, removed, module, config, spec, stale, pending, pc, inst, current, todo, cache,
                       secrets, shoot, ref, disturbed>>
    BY DEF DeleteRuntime, userVars, memVars, gardenVars
  <1>2. TypeOK'
    BY <1>1 DEF BaseInv, TypeOK
  <1>3. Progress' /\ GoneInv' /\ ShootInv'
    BY <1>1 DEF BaseInv, Progress, GoneInv, ShootInv
  <1> QED
    BY <1>2, <1>3 DEF BaseInv

LEMMA FetchConfigsBase ==
    ASSUME BaseInv, fetchConfigs
    PROVE  BaseInv'
  <1>1. config' = configured
        /\ UNCHANGED <<want, removed, module, life, spec, stale, pending, queued, pc, inst, current, todo, cache,
                       secrets, shoot, ref, disturbed>>
    BY DEF fetchConfigs, userVars, memVars, gardenVars
  <1>2. TypeOK'
    BY <1>1, ConfiguredType DEF BaseInv, TypeOK
  <1>3. Progress' /\ GoneInv' /\ ShootInv'
    BY <1>1 DEF BaseInv, Progress, GoneInv, ShootInv
  <1> QED
    BY <1>2, <1>3 DEF BaseInv

LEMMA UpdateRuntimeBase ==
    ASSUME BaseInv, updateRuntime
    PROVE  BaseInv'
  <1>1. /\ config # None /\ config' = None
        /\ UNCHANGED <<want, removed, module, life, pending, pc, inst, todo, cache, secrets, shoot, ref, disturbed>>
        /\ \/ spec' = config /\ stale' = TRUE /\ queued' = TRUE /\ current' = FALSE
           \/ UNCHANGED <<spec, stale, queued, current>>
    BY DEF updateRuntime, userVars, gardenVars
  <1>2. TypeOK'
    BY <1>1 DEF BaseInv, TypeOK
  <1>3. Progress' /\ GoneInv' /\ ShootInv'
    BY <1>1 DEF BaseInv, Progress, GoneInv, ShootInv
  <1> QED
    BY <1>2, <1>3 DEF BaseInv

LEMMA ReconcileBase ==
    ASSUME BaseInv, Reconcile
    PROVE  BaseInv'
  <1>1. /\ life # "gone" /\ inst' = spec /\ current' = TRUE /\ queued' = FALSE
        /\ UNCHANGED <<want, removed, module, config, life, spec, stale, pending, secrets, cache, disturbed>>
    BY DEF Reconcile, userVars
  <1>2. \/ /\ life = "alive" /\ stale /\ pc' = "sync" /\ todo' = cachesWithSecret(spec) /\ UNCHANGED <<shoot, ref>>
        \/ /\ life = "alive" /\ pc' \in {"idle", "cleanup"} /\ UNCHANGED <<todo, shoot, ref>>
        \/ /\ life = "deleting" /\ shoot' = FALSE /\ ref' = NoCaches /\ pc' = "delete_all" /\ UNCHANGED todo
        \/ /\ life = "deleting" /\ ~shoot /\ pc' = "delete_all" /\ UNCHANGED <<todo, shoot, ref>>
    BY DEF Reconcile
  <1>3. TypeOK /\ ShootInv /\ todo' \subseteq Caches
    BY <1>2 DEF BaseInv, TypeOK, cachesWithSecret
  <1>4. NoCaches \in [Caches -> Names \cup {None, Missing}]
    BY DEF NoCaches
  <1>5. TypeOK'
    BY <1>1, <1>2, <1>3, <1>4 DEF TypeOK, Steps
  <1>6. Progress'
    BY <1>1, <1>2 DEF Progress, Applying, cachesWithSecret
  <1>7. GoneInv' /\ ShootInv'
    BY <1>1, <1>2, <1>3 DEF GoneInv, ShootInv
  <1> QED
    BY <1>5, <1>6, <1>7 DEF BaseInv

\* The parts of Do, with what they leave alone.
DoKeeps ==
    /\ UNCHANGED <<want, removed, module>> /\ UNCHANGED <<config, life, spec, stale, pending, queued>>
    /\ UNCHANGED <<inst, current>> /\ UNCHANGED <<shoot, ref>> /\ UNCHANGED disturbed

DoSkips(u) ==
    /\ \E n \in SecretsOf(u) : secrets[n].data = inst[u]
    /\ todo' = todo \ {u} /\ UNCHANGED <<pc, cache, secrets>>

DoCreates(u) ==
    /\ SecretsOf(u) = {}
    /\ todo' = todo \ {u} /\ pc' = "create" /\ cache' = u /\ UNCHANGED secrets

DoReplaces(u, n) ==
    /\ n \in SecretsOf(u) /\ secrets[n].data # inst[u] /\ Marks(n)
    /\ todo' = todo \ {u} /\ pc' = "create" /\ cache' = u

DoEnds == todo = {} /\ pc' = "patch" /\ UNCHANGED <<todo, cache, secrets>>

LEMMA DoCases ==
    ASSUME TypeOK, Do
    PROVE  /\ pc = "sync"
           /\ \/ /\ DoKeeps
                 /\ \/ \E u \in todo : DoSkips(u) \/ DoCreates(u) \/ \E n \in Names : DoReplaces(u, n)
                    \/ DoEnds
              \/ Fails /\ UNCHANGED <<userVars, config, life, spec, stale>>
  <1>1. pc = "sync" /\ UNCHANGED <<userVars, config, life, spec, stale>>
    BY DEF Do
  <1>2. CASE todo = {} /\ pc' = "patch"
             /\ UNCHANGED <<gardenVars, todo, cache, inst, current, queued, pending, disturbed>>
    BY <1>1, <1>2 DEF DoKeeps, DoEnds, userVars, gardenVars
  <1>3. CASE Fails
    BY <1>1, <1>3
  <1>4. ASSUME NEW u \in todo, todo' = todo \ {u},
               \/ /\ SecretsOf(u) = {}
                  /\ pc' = "create" /\ cache' = u /\ UNCHANGED secrets
               \/ /\ SecretsOf(u) # {} /\ secretDataEqual(u, First(SecretsOf(u)))
                  /\ UNCHANGED <<pc, cache, secrets>>
               \/ /\ SecretsOf(u) # {} /\ ~secretDataEqual(u, First(SecretsOf(u)))
                  /\ secrets' = [secrets EXCEPT ![First(SecretsOf(u))] = [@ EXCEPT !.dirty = TRUE]]
                  /\ pc' = "create" /\ cache' = u,
               UNCHANGED <<shoot, ref, inst, current, queued, pending, disturbed>>
        PROVE  DoKeeps /\ (DoSkips(u) \/ DoCreates(u) \/ \E n \in Names : DoReplaces(u, n))
    <2>1. DoKeeps
      BY <1>1, <1>4 DEF DoKeeps, userVars
    <2>2. CASE SecretsOf(u) = {}
      BY <1>4, <2>1, <2>2 DEF DoCreates
    <2>3. CASE SecretsOf(u) # {}
      <3> DEFINE n == First(SecretsOf(u))
      <3>1. SecretsOf(u) \in SUBSET Names
        BY DEF SecretsOf
      <3>2. n \in SecretsOf(u)
        BY <2>3, <3>1, FirstFacts
      <3>3. n \in Names /\ secrets[n] # None
        BY <3>2 DEF SecretsOf
      <3> HIDE DEF n
      <3>4. CASE secretDataEqual(u, n) /\ UNCHANGED <<pc, cache, secrets>>
        BY <1>4, <2>1, <3>2, <3>4 DEF DoSkips, secretDataEqual
      <3>5. CASE /\ ~secretDataEqual(u, n) /\ pc' = "create" /\ cache' = u
                 /\ secrets' = [secrets EXCEPT ![n] = [@ EXCEPT !.dirty = TRUE]]
        <4>1. Marks(n)
          BY <3>3, <3>5, MarksFacts
        <4>2. secrets[n].data # inst[u]
          BY <3>5 DEF secretDataEqual
        <4> QED
          BY <1>4, <2>1, <3>2, <3>3, <3>5, <4>1, <4>2 DEF DoReplaces
      <3> QED
        BY <1>4, <2>3, <3>4, <3>5 DEF n
    <2> QED
      BY <2>1, <2>2, <2>3
  <1> QED
    BY <1>1, <1>2, <1>3, <1>4 DEF Do

LEMMA DoBase ==
    ASSUME BaseInv, Do
    PROVE  BaseInv'
  <1>1. TypeOK /\ Progress /\ GoneInv /\ ShootInv
    BY DEF BaseInv
  <1>2. pc = "sync"
    BY <1>1, DoCases
  <1>3. CASE Fails /\ UNCHANGED <<userVars, config, life, spec, stale>>
    BY <1>2, <1>3, FailsBase
  <1>4. ASSUME DoKeeps, SecretType', pc' \in Applying, todo' \subseteq todo, cache' \in Caches \cup {None},
               pc' = "create" => cache' \in todo, pc' = "patch" => todo' = {}
        PROVE  BaseInv'
    <2>1. todo \subseteq Caches
      BY <1>1 DEF TypeOK
    <2>2. TypeOK'
      BY <1>1, <1>4, <2>1 DEF TypeOK, DoKeeps, SecretType, Applying, Steps
    <2>3. Progress'
      BY <1>1, <1>2, <1>4 DEF Progress, DoKeeps, Applying
    <2>4. GoneInv' /\ ShootInv'
      BY <1>1, <1>2, <1>4 DEF GoneInv, ShootInv, DoKeeps, Applying
    <2> QED
      BY <2>2, <2>3, <2>4 DEF BaseInv
  <1>5. ASSUME DoKeeps, NEW u \in todo, DoSkips(u) \/ DoCreates(u) \/ (\E n \in Names : DoReplaces(u, n))
        PROVE  BaseInv'
    <2>1. SecretType' /\ pc' \in Applying /\ todo' \subseteq todo /\ cache' \in Caches \cup {None}
          /\ (pc' = "create" => cache' \in todo) /\ pc' # "patch"
      BY <1>1, <1>2, <1>5 DEF DoSkips, DoCreates, DoReplaces, Marks, SecretType, TypeOK, Applying
    <2> QED
      BY <1>4, <1>5, <2>1
  <1>6. CASE DoKeeps /\ DoEnds
    <2>1. SecretType' /\ pc' \in Applying /\ todo' \subseteq todo /\ cache' \in Caches \cup {None}
          /\ pc' # "create" /\ todo' = {}
      BY <1>1, <1>2, <1>6 DEF DoEnds, SecretType, TypeOK, Applying
    <2> QED
      BY <1>4, <1>6, <2>1
  <1> QED
    BY <1>1, <1>3, <1>5, <1>6, DoCases

\* Create, likewise.
CreateAdds(n) ==
    /\ Adds(n, cache, inst[cache])
    /\ pc' = "sync" /\ cache' = None /\ todo' = todo /\ DoKeeps

LEMMA CreateCases ==
    ASSUME BaseInv, Create
    PROVE  /\ pc = "create" /\ cache \in Caches /\ inst[cache] # None
           /\ \/ \E n \in Names : CreateAdds(n)
              \/ Fails /\ UNCHANGED <<userVars, config, life, spec, stale>>
  <1>1. pc = "create" /\ UNCHANGED <<userVars, config, life, spec, stale>> /\ TypeOK
    BY DEF Create, BaseInv
  <1>2. cache \in Caches /\ inst[cache] # None /\ inst \in Caching
    BY <1>1 DEF BaseInv, TypeOK, Progress
  <1>3. inst[cache] \in Versions
    BY <1>2, CachingFields
  <1>4. ASSUME NEW n \in Names, secrets[n] = None,
               secrets' = [secrets EXCEPT ![n] = [uid |-> cache, data |-> inst[cache], dirty |-> FALSE]],
               pc' = "sync", cache' = None,
               UNCHANGED <<shoot, ref, todo, inst, current, queued, pending, disturbed>>
        PROVE  CreateAdds(n)
    <2>1. Adds(n, cache, inst[cache])
      BY <1>1, <1>2, <1>3, <1>4, AddsFacts
    <2>2. DoKeeps
      BY <1>1, <1>4 DEF DoKeeps, userVars
    <2> QED
      BY <1>4, <2>1, <2>2 DEF CreateAdds
  <1> QED
    BY <1>1, <1>2, <1>4 DEF Create

LEMMA CreateBase ==
    ASSUME BaseInv, Create
    PROVE  BaseInv'
  <1>1. TypeOK /\ Progress /\ GoneInv /\ ShootInv /\ pc = "create"
    BY CreateCases DEF BaseInv
  <1>2. CASE Fails /\ UNCHANGED <<userVars, config, life, spec, stale>>
    BY <1>1, <1>2, FailsBase
  <1>3. ASSUME NEW n \in Names, CreateAdds(n)
        PROVE  BaseInv'
    <2>1. SecretType' /\ pc' = "sync" /\ cache' = None /\ todo' = todo /\ DoKeeps
      BY <1>3 DEF CreateAdds, Adds
    <2>2. TypeOK'
      BY <1>1, <2>1 DEF TypeOK, DoKeeps, SecretType, Steps
    <2>3. Progress'
      BY <1>1, <2>1 DEF Progress, DoKeeps, Applying
    <2>4. GoneInv' /\ ShootInv'
      BY <1>1, <2>1 DEF GoneInv, ShootInv, DoKeeps
    <2> QED
      BY <2>2, <2>3, <2>4 DEF BaseInv
  <1> QED
    BY <1>2, <1>3, CreateCases

\* What Patch makes the shoot refer to.
NewRef == [u \in Caches |-> IF inst[u] = None THEN None ELSE SecretName(u)]

PatchKeeps ==
    /\ UNCHANGED <<want, removed, module>> /\ UNCHANGED <<config, life, spec>>
    /\ UNCHANGED <<secrets, shoot>> /\ UNCHANGED disturbed
    /\ ref' = NewRef /\ stale' = ~current /\ pending' = TRUE

LEMMA PatchCases ==
    ASSUME Patch
    PROVE  /\ pc = "patch"
           /\ \/ PatchKeeps /\ Requeue
              \/ PatchKeeps /\ NewRef = ref /\ pc' = "cleanup" /\ UNCHANGED <<queued, inst, current, todo, cache>>
              \/ Fails /\ UNCHANGED <<userVars, config, life, spec, stale>>
  BY DEF Patch, NewRef, PatchKeeps, userVars

LEMMA NewRefFacts ==
    ASSUME NEW u \in Caches
    PROVE  /\ NewRef[u] = (IF inst[u] = None THEN None ELSE SecretName(u))
           /\ inst[u] # None /\ usableSecrets(u) # {} => NewRef[u] \in usableSecrets(u) /\ NewRef[u] \in Names
           /\ NewRef[u] \in Names \cup {None, Missing}
  <1>1. NewRef[u] = (IF inst[u] = None THEN None ELSE SecretName(u))
    BY DEF NewRef
  <1>2. usableSecrets(u) \in SUBSET Names
    BY DEF usableSecrets, SecretsOf
  <1>3. usableSecrets(u) # {} => SecretName(u) \in usableSecrets(u)
    BY <1>2, LastFacts DEF SecretName
  <1>4. usableSecrets(u) = {} => SecretName(u) = Missing
    BY DEF SecretName
  <1> QED
    BY <1>1, <1>2, <1>3, <1>4

LEMMA PatchBase ==
    ASSUME BaseInv, Patch
    PROVE  BaseInv'
  <1>1. TypeOK /\ Progress /\ GoneInv /\ ShootInv /\ pc = "patch" /\ life # "gone" /\ shoot
    BY PatchCases DEF BaseInv, GoneInv, ShootInv
  <1>2. CASE Fails /\ UNCHANGED <<userVars, config, life, spec, stale>>
    BY <1>1, <1>2, FailsBase
  <1>3. NewRef \in [Caches -> Names \cup {None, Missing}]
    <2>1. \A u \in Caches : NewRef[u] \in Names \cup {None, Missing}
      BY NewRefFacts
    <2> QED
      BY <2>1 DEF NewRef
  <1>4. CASE PatchKeeps /\ Requeue
    <2>1. pc' = "idle" /\ inst' = NoCaches /\ current' = FALSE /\ todo' = {} /\ cache' = None /\ queued' = TRUE
      BY <1>4 DEF Requeue
    <2>2. stale' \in BOOLEAN
      BY <1>4 DEF PatchKeeps
    <2>3. TypeOK'
      BY <1>1, <1>3, <1>4, <2>1, <2>2, NoCachesFacts DEF TypeOK, PatchKeeps, Steps
    <2>4. Progress' /\ GoneInv' /\ ShootInv'
      BY <1>1, <1>4, <2>1 DEF Progress, GoneInv, ShootInv, PatchKeeps, Applying
    <2> QED
      BY <2>3, <2>4 DEF BaseInv
  <1>5. CASE PatchKeeps /\ pc' = "cleanup" /\ UNCHANGED <<queued, inst, current, todo, cache>>
    <2>1. stale' \in BOOLEAN
      BY <1>5 DEF PatchKeeps
    <2>2. TypeOK'
      BY <1>1, <1>3, <1>5, <2>1 DEF TypeOK, PatchKeeps, Steps
    <2>3. Progress' /\ GoneInv' /\ ShootInv'
      BY <1>1, <1>5 DEF Progress, GoneInv, ShootInv, PatchKeeps, Applying
    <2> QED
      BY <2>2, <2>3 DEF BaseInv
  <1> QED
    BY <1>2, <1>4, <1>5, PatchCases

\* The parts of Cleanup and of DeleteAll.
CleanupKeeps ==
    /\ UNCHANGED <<want, removed, module>> /\ UNCHANGED <<config, spec, stale, queued>>
    /\ UNCHANGED <<shoot, ref>> /\ UNCHANGED <<todo, cache>> /\ UNCHANGED disturbed

CleanupDrops(n) ==
    /\ secrets[n] # None /\ unused(n) /\ Drops(n)
    /\ CleanupKeeps /\ UNCHANGED <<pc, inst, current, pending, life>>

CleanupEnds ==
    /\ \A n \in Names : secrets[n] # None => ~unused(n)
    /\ pending' = FALSE /\ pc' = "idle" /\ inst' = NoCaches /\ current' = FALSE
    /\ CleanupKeeps /\ UNCHANGED <<secrets, life>>

LEMMA CleanupCases ==
    ASSUME TypeOK, Cleanup
    PROVE  /\ pc = "cleanup"
           /\ \/ \E n \in Names : CleanupDrops(n)
              \/ CleanupEnds
              \/ Fails /\ UNCHANGED <<userVars, config, life, spec, stale>>
  <1>1. pc = "cleanup" /\ UNCHANGED <<userVars, config, life, spec, stale>>
    BY DEF Cleanup
  <1>2. ASSUME NEW n \in Names, secrets[n] # None, unused(n), secrets' = [secrets EXCEPT ![n] = None],
               UNCHANGED <<shoot, ref, memVars, queued, pending, disturbed>>
        PROVE  CleanupDrops(n)
    <2>1. Drops(n)
      BY <1>2, DropsFacts
    <2> QED
      BY <1>1, <1>2, <2>1 DEF CleanupDrops, CleanupKeeps, userVars, memVars
  <1>3. ASSUME \A n \in Names : secrets[n] # None => ~unused(n),
               pending' = FALSE, pc' = "idle", inst' = NoCaches, current' = FALSE,
               UNCHANGED <<gardenVars, todo, cache, queued, disturbed>>
        PROVE  CleanupEnds
    BY <1>1, <1>3 DEF CleanupEnds, CleanupKeeps, userVars, gardenVars
  <1> QED
    BY <1>1, <1>2, <1>3 DEF Cleanup

DeleteDrops(n) ==
    secrets[n] # None /\ Drops(n) /\ CleanupKeeps /\ UNCHANGED <<pc, inst, current, pending, life>>

DeleteEnds ==
    /\ \A n \in Names : secrets[n] = None
    /\ life' = "gone" /\ pc' = "idle" /\ inst' = NoCaches /\ current' = FALSE
    /\ CleanupKeeps /\ UNCHANGED <<secrets, pending>>

LEMMA DeleteAllCases ==
    ASSUME TypeOK, DeleteAll
    PROVE  /\ pc = "delete_all"
           /\ \/ \E n \in Names : DeleteDrops(n)
              \/ DeleteEnds
              \/ Fails /\ UNCHANGED <<userVars, config, life, spec, stale>>
  <1>1. pc = "delete_all" /\ UNCHANGED <<userVars, config, spec, stale>>
    BY DEF DeleteAll
  <1>2. ASSUME NEW n \in Names, secrets[n] # None, secrets' = [secrets EXCEPT ![n] = None],
               UNCHANGED <<shoot, ref, life, memVars, queued, pending, disturbed>>
        PROVE  DeleteDrops(n)
    <2>1. Drops(n)
      BY <1>2, DropsFacts
    <2> QED
      BY <1>1, <1>2, <2>1 DEF DeleteDrops, CleanupKeeps, userVars, memVars
  <1>3. ASSUME \A n \in Names : secrets[n] = None, life' = "gone",
               pc' = "idle", inst' = NoCaches, current' = FALSE,
               UNCHANGED <<gardenVars, todo, cache, queued, pending, disturbed>>
        PROVE  DeleteEnds
    BY <1>1, <1>3 DEF DeleteEnds, CleanupKeeps, userVars, gardenVars
  <1> QED
    BY <1>1, <1>2, <1>3 DEF DeleteAll, deleteAllFails

LEMMA CleanupBase ==
    ASSUME BaseInv, Cleanup \/ DeleteAll
    PROVE  BaseInv'
  <1>1. TypeOK /\ Progress /\ GoneInv /\ ShootInv
    BY DEF BaseInv
  <1>2. pc \in {"cleanup", "delete_all"} /\ life # "gone"
    BY <1>1, CleanupCases, DeleteAllCases DEF GoneInv
  <1>3. CASE Fails /\ UNCHANGED <<userVars, config, life, spec, stale>>
    BY <1>2, <1>3, FailsBase
  <1>4. ASSUME NEW n \in Names, Drops(n), CleanupKeeps, UNCHANGED <<pc, inst, current, pending, life>>
        PROVE  BaseInv'
    <2>1. TypeOK'
      BY <1>1, <1>4 DEF TypeOK, CleanupKeeps, Drops, SecretType
    <2>2. Progress' /\ GoneInv' /\ ShootInv'
      BY <1>1, <1>2, <1>4 DEF Progress, GoneInv, ShootInv, CleanupKeeps
    <2> QED
      BY <2>1, <2>2 DEF BaseInv
  <1>5. CASE CleanupEnds \/ (pc = "delete_all" /\ DeleteEnds)
    <2>1. /\ CleanupKeeps /\ secrets' = secrets /\ pc' = "idle" /\ inst' = NoCaches /\ current' = FALSE
          /\ pending' \in BOOLEAN
          /\ \/ life' = life
             \/ life' = "gone" /\ pc = "delete_all" /\ \A n \in Names : secrets[n] = None
      <3>1. CASE CleanupEnds
        BY <3>1 DEF CleanupEnds
      <3>2. CASE pc = "delete_all" /\ DeleteEnds
        BY <1>1, <3>2 DEF DeleteEnds, TypeOK
      <3> QED
        BY <1>5, <3>1, <3>2
    <2>2. TypeOK'
      BY <1>1, <2>1, NoCachesFacts DEF TypeOK, CleanupKeeps, Steps
    <2>3. Progress'
      BY <2>1 DEF Progress, Applying
    <2>4. GoneInv' /\ ShootInv'
      BY <1>1, <1>2, <2>1 DEF GoneInv, ShootInv, CleanupKeeps
    <2> QED
      BY <2>2, <2>3, <2>4 DEF BaseInv
  <1> QED
    BY <1>1, <1>3, <1>4, <1>5, CleanupCases, DeleteAllCases DEF CleanupDrops, DeleteDrops

LEMMA RestartBase ==
    ASSUME BaseInv, Restart
    PROVE  BaseInv'
  <1>1. Requeue /\ UNCHANGED <<userVars, life, spec, stale, gardenVars>> /\ life # "gone"
        /\ config' = None /\ disturbed' = TRUE /\ pending' = pending /\ pending \in BOOLEAN
    BY DEF Restart, BaseInv, TypeOK
  <1> QED
    BY <1>1, RequeueBase

LEMMA InitBase ==
    ASSUME Init
    PROVE  BaseInv
  <1>1. NoCaches \in Caching /\ NoCaches \in [Caches -> Names \cup {None, Missing}]
    BY NoCachesFacts DEF NoCaches
  <1>2. secrets \in [Names -> Secret \cup {None}] /\ \A n \in Names : secrets[n] = None
    BY DEF Init
  <1>3. TypeOK
    BY <1>1, <1>2 DEF Init, TypeOK, Steps
  <1>4. Progress /\ GoneInv /\ ShootInv
    BY DEF Init, Progress, GoneInv, ShootInv, Applying
  <1> QED
    BY <1>3, <1>4 DEF BaseInv

LEMMA StutterBase ==
    ASSUME BaseInv, UNCHANGED vars
    PROVE  BaseInv'
  BY UserBase DEF vars, userVars, BaseInv, TypeOK

LEMMA BaseStep ==
    ASSUME BaseInv, [Next]_vars
    PROVE  BaseInv'
  BY ConfigureBase, SwitchModuleBase, DeleteRuntimeBase, FetchConfigsBase, UpdateRuntimeBase, ReconcileBase,
     DoBase, CreateBase, PatchBase, CleanupBase, RestartBase, StutterBase DEF Next

\* The types, the position of the reconciliation, the shoot and the finalizer fit
\* together, whatever fails and whatever users do.
THEOREM CacheInvariance == Spec => []BaseInv
  BY InitBase, BaseStep, PTL DEF Spec

\* Every variable of the credential pipeline keeps its type.
THEOREM CacheTypeCorrect == Spec => []TypeOK
  <1>1. BaseInv => TypeOK
    BY DEF BaseInv
  <1> QED
    BY <1>1, CacheInvariance, PTL

\* The finalizer of the Runtime goes only when DeleteAll has found no Secret left, and
\* no reconciliation creates one afterwards: though calls fail and KIM restarts in
\* between, nothing stays in the Garden cluster.
THEOREM NothingLeftAlways == Spec => []NothingLeft
  <1>1. BaseInv => NothingLeft
    BY DEF BaseInv, GoneInv, NothingLeft
  <1> QED
    BY <1>1, CacheInvariance, PTL

-----------------------------------------------------------------------------
(* What the shoot refers to.                                                 *)

SpecKept == stale' \/ (~stale /\ spec' = spec)

\* Steps that do not touch the Garden cluster, within a reconciliation and at its end.
LEMMA RefSame ==
    ASSUME RefInv, UNCHANGED <<secrets, ref, pc, inst, todo, cache>>, SpecKept
    PROVE  RefInv'
  <1>1. NoDanglingReference'
    BY DEF RefInv, NoDanglingReference
  <1>2. pc' = "cleanup" => InUse(inst)'
    BY DEF RefInv, InUse
  <1>3. ~stale' => InUse(spec)'
    BY DEF RefInv, InUse, SpecKept
  <1>4. pc' \in Applying => \A u \in Caches : Visited(u)' => usableSecrets(u)' # {}
    BY DEF RefInv, Visited, usableSecrets, SecretsOf
  <1> QED
    BY <1>1, <1>2, <1>3, <1>4 DEF RefInv

LEMMA RefIdle ==
    ASSUME RefInv, UNCHANGED <<secrets, ref>>, SpecKept, pc' \in {"idle", "delete_all"}
    PROVE  RefInv'
  <1>1. NoDanglingReference'
    BY DEF RefInv, NoDanglingReference
  <1>2. ~stale' => InUse(spec)'
    BY DEF RefInv, InUse, SpecKept
  <1> QED
    BY <1>1, <1>2 DEF RefInv, Applying

LEMMA FailsRef ==
    ASSUME BaseInv, RefInv, Fails, UNCHANGED <<userVars, config, life, spec, stale>>
    PROVE  RefInv'
  <1>1. UNCHANGED <<secrets, ref>> /\ pc' = "idle" /\ UNCHANGED <<spec, stale>>
    BY DEF Fails, Requeue, gardenVars
  <1>2. SpecKept
    BY <1>1 DEF SpecKept, BaseInv, TypeOK
  <1> QED
    BY <1>1, <1>2, RefIdle

LEMMA OutsideRef ==
    ASSUME BaseInv, RefInv,
           \/ \E u \in Caches : Configure(u)
           \/ SwitchModule \/ DeleteRuntime \/ fetchConfigs \/ updateRuntime \/ UNCHANGED vars
    PROVE  RefInv'
  <1>1. UNCHANGED <<secrets, ref, pc, inst, todo, cache>>
    BY DEF Configure, SwitchModule, DeleteRuntime, fetchConfigs, updateRuntime, vars, memVars, gardenVars
  <1>2. SpecKept
    BY DEF Configure, SwitchModule, DeleteRuntime, fetchConfigs, updateRuntime, vars, kcpVars, SpecKept, BaseInv, TypeOK
  <1> QED
    BY <1>1, <1>2, RefSame

LEMMA RestartRef ==
    ASSUME BaseInv, RefInv, Restart
    PROVE  RefInv'
  <1>1. UNCHANGED <<secrets, ref>> /\ pc' = "idle" /\ UNCHANGED <<spec, stale>>
    BY DEF Restart, Requeue, gardenVars
  <1>2. SpecKept
    BY <1>1 DEF SpecKept, BaseInv, TypeOK
  <1> QED
    BY <1>1, <1>2, RefIdle

\* Nothing is referred to by a shoot that is gone.
LEMMA NoRefs ==
    ASSUME ref' = NoCaches, pc' \in {"idle", "delete_all"}
    PROVE  RefInv'
  <1>1. \A u \in Caches : ref'[u] = None
    BY NoCachesFacts
  <1> QED
    BY <1>1 DEF RefInv, NoDanglingReference, InUse, Applying

LEMMA ReconcileRef ==
    ASSUME BaseInv, RefInv, Reconcile
    PROVE  RefInv'
  <1>1. inst' = spec /\ UNCHANGED <<spec, stale, secrets, cache>> /\ pc = "idle"
    BY DEF Reconcile
  <1>2. SpecKept
    BY <1>1 DEF SpecKept, BaseInv, TypeOK
  <1>3. CASE stale /\ pc' = "sync" /\ todo' = cachesWithSecret(spec) /\ UNCHANGED <<shoot, ref>>
    <2>1. NoDanglingReference'
      BY <1>1, <1>3 DEF RefInv, NoDanglingReference
    <2>2. \A u \in Caches : ~Visited(u)'
      BY <1>1, <1>3 DEF Visited, cachesWithSecret
    <2> QED
      BY <1>1, <1>3, <2>1, <2>2 DEF RefInv
  <1>4. CASE ~stale /\ pc' = "cleanup" /\ UNCHANGED ref
    <2>1. NoDanglingReference'
      BY <1>1, <1>4 DEF RefInv, NoDanglingReference
    <2>2. InUse(inst)' /\ InUse(spec)'
      BY <1>1, <1>4 DEF RefInv, InUse
    <2> QED
      BY <1>4, <2>1, <2>2 DEF RefInv, Applying
  <1>5. CASE pc' \in {"idle", "delete_all"} /\ UNCHANGED ref
    BY <1>1, <1>2, <1>5, RefIdle
  <1>6. CASE pc' = "delete_all" /\ ref' = NoCaches
    BY <1>6, NoRefs
  <1> QED
    BY <1>3, <1>4, <1>5, <1>6 DEF Reconcile

\* A Secret that is labelled is not usable any more, the others are.
LEMMA MarksUsable ==
    ASSUME NEW n, Marks(n), NEW u \in Caches, u # secrets[n].uid
    PROVE  usableSecrets(u)' = usableSecrets(u)
  BY DEF Marks, Others, usableSecrets, SecretsOf

LEMMA DoRef ==
    ASSUME BaseInv, RefInv, Do, Unwanted(inst)
    PROVE  RefInv'
  <1>1. TypeOK /\ pc = "sync" /\ stale
    BY DoCases DEF BaseInv, Progress, Applying
  <1>2. CASE Fails /\ UNCHANGED <<userVars, config, life, spec, stale>>
    BY <1>2, FailsRef
  <1>3. ASSUME DoKeeps, NEW u \in todo, DoSkips(u)
        PROVE  RefInv'
    <2>1. UNCHANGED <<secrets, ref, pc, inst, cache, stale, spec>> /\ todo' = todo \ {u} /\ u \in Caches
      BY <1>1, <1>3 DEF DoKeeps, DoSkips, TypeOK
    <2>2. usableSecrets(u) # {}
      <3>1. PICK n \in SecretsOf(u) : secrets[n].data = inst[u]
        BY <1>3 DEF DoSkips
      <3>2. n \in Names /\ secrets[n] # None /\ secrets[n].uid = u
        BY <3>1 DEF SecretsOf
      <3>3. inst[u] # None
        BY <1>1, <1>3 DEF BaseInv, Progress
      <3>4. ~secrets[n].dirty
        BY <3>1, <3>2, <3>3 DEF Unwanted, Labelled
      <3> QED
        BY <3>1, <3>4 DEF usableSecrets
    <2>3. NoDanglingReference'
      BY <2>1 DEF RefInv, NoDanglingReference
    <2>4. ASSUME NEW w \in Caches, Visited(w)'
          PROVE  usableSecrets(w)' # {}
      <3>1. usableSecrets(w)' = usableSecrets(w)
        BY <2>1 DEF usableSecrets, SecretsOf
      <3>2. w = u \/ Visited(w)
        BY <1>1, <2>1, <2>4 DEF Visited
      <3> QED
        BY <1>1, <2>2, <3>1, <3>2 DEF RefInv, Applying
    <2> QED
      BY <1>1, <2>1, <2>3, <2>4 DEF RefInv
  <1>4. ASSUME DoKeeps, NEW u \in todo, DoCreates(u)
        PROVE  RefInv'
    <2>1. UNCHANGED <<secrets, ref, inst, stale, spec>> /\ todo' = todo \ {u} /\ pc' = "create" /\ cache' = u
      BY <1>4 DEF DoKeeps, DoCreates
    <2>2. NoDanglingReference'
      BY <2>1 DEF RefInv, NoDanglingReference
    <2>3. ASSUME NEW w \in Caches, Visited(w)'
          PROVE  usableSecrets(w)' # {}
      <3>1. usableSecrets(w)' = usableSecrets(w)
        BY <2>1 DEF usableSecrets, SecretsOf
      <3>2. Visited(w)
        BY <1>1, <2>1, <2>3 DEF Visited
      <3> QED
        BY <1>1, <3>1, <3>2 DEF RefInv, Applying
    <2> QED
      BY <1>1, <2>1, <2>2, <2>3 DEF RefInv
  <1>5. ASSUME DoKeeps, NEW u \in todo, NEW n \in Names, DoReplaces(u, n)
        PROVE  RefInv'
    <2>1. UNCHANGED <<ref, inst, stale, spec>> /\ todo' = todo \ {u} /\ pc' = "create" /\ cache' = u
          /\ Marks(n) /\ secrets[n].uid = u
      BY <1>5 DEF DoKeeps, DoReplaces, SecretsOf
    <2>2. NoDanglingReference'
      BY <2>1 DEF RefInv, NoDanglingReference, Marks, Others
    <2>3. ASSUME NEW w \in Caches, Visited(w)'
          PROVE  usableSecrets(w)' # {}
      <3>1. w # u
        BY <2>1, <2>3 DEF Visited
      <3>2. usableSecrets(w)' = usableSecrets(w)
        BY <2>1, <3>1, MarksUsable
      <3>3. Visited(w)
        BY <1>1, <2>1, <2>3 DEF Visited
      <3> QED
        BY <1>1, <3>2, <3>3 DEF RefInv, Applying
    <2> QED
      BY <1>1, <2>1, <2>2, <2>3 DEF RefInv
  <1>6. CASE DoKeeps /\ DoEnds
    <2>1. UNCHANGED <<secrets, ref, inst, stale, spec, todo, cache>> /\ pc' = "patch"
      BY <1>6 DEF DoKeeps, DoEnds
    <2>2. NoDanglingReference'
      BY <2>1 DEF RefInv, NoDanglingReference
    <2>3. ASSUME NEW w \in Caches, Visited(w)'
          PROVE  usableSecrets(w)' # {}
      <3>1. usableSecrets(w)' = usableSecrets(w)
        BY <2>1 DEF usableSecrets, SecretsOf
      <3>2. Visited(w)
        BY <1>1, <2>1, <2>3 DEF Visited
      <3> QED
        BY <1>1, <3>1, <3>2 DEF RefInv, Applying
    <2> QED
      BY <1>1, <2>1, <2>2, <2>3 DEF RefInv
  <1> QED
    BY <1>1, <1>2, <1>3, <1>4, <1>5, <1>6, DoCases

LEMMA CreateRef ==
    ASSUME BaseInv, RefInv, Create
    PROVE  RefInv'
  <1>1. pc = "create" /\ cache \in Caches /\ stale
    BY CreateCases DEF BaseInv, Progress, Applying
  <1>2. CASE Fails /\ UNCHANGED <<userVars, config, life, spec, stale>>
    BY <1>2, FailsRef
  <1>3. ASSUME NEW n \in Names, CreateAdds(n)
        PROVE  RefInv'
    <2>1. UNCHANGED <<ref, inst, stale, spec, todo>> /\ pc' = "sync"
      BY <1>3 DEF CreateAdds, DoKeeps
    <2> PICK u \in Caches : u = cache
      BY <1>1
    <2>2. secrets[n] = None /\ Others(n) /\ n \in usableSecrets(u)'
      BY <1>3 DEF CreateAdds, Adds, usableSecrets, SecretsOf
    <2>3. NoDanglingReference'
      BY <2>1, <2>2 DEF RefInv, NoDanglingReference, Others
    <2>4. ASSUME NEW w \in Caches, Visited(w)'
          PROVE  usableSecrets(w)' # {}
      <3>1. usableSecrets(w) \subseteq usableSecrets(w)'
        BY <2>2 DEF usableSecrets, SecretsOf, Others
      <3>2. w = u \/ Visited(w)
        BY <1>1, <2>1, <2>4 DEF Visited
      <3> QED
        BY <1>1, <2>2, <3>1, <3>2 DEF RefInv, Applying
    <2> QED
      BY <1>1, <2>1, <2>3, <2>4 DEF RefInv
  <1> QED
    BY <1>2, <1>3, CreateCases

LEMMA PatchRef ==
    ASSUME BaseInv, RefInv, Patch
    PROVE  RefInv'
  <1>1. pc = "patch"
    BY PatchCases
  <1>2. CASE Fails /\ UNCHANGED <<userVars, config, life, spec, stale>>
    BY <1>2, FailsRef
  <1>3. ASSUME NEW u \in Caches, NewRef[u] # None
        PROVE  inst[u] # None /\ NewRef[u] \in Names /\ secrets[NewRef[u]] # None /\ secrets[NewRef[u]].uid = u
               /\ ~secrets[NewRef[u]].dirty
    <2>1. inst[u] # None
      BY <1>3, NewRefFacts
    <2>2. usableSecrets(u) # {}
      <3>1. Visited(u)
        BY <1>1, <2>1 DEF BaseInv, Progress, Visited
      <3> QED
        BY <1>1, <3>1 DEF RefInv, Applying
    <2>3. NewRef[u] \in usableSecrets(u)
      BY <2>1, <2>2, NewRefFacts
    <2> QED
      BY <2>1, <2>3 DEF usableSecrets, SecretsOf
  <1>4. ASSUME PatchKeeps, pc' \in {"idle", "cleanup"}, pc' = "cleanup" => inst' = inst
        PROVE  RefInv'
    <2>1. ref' = NewRef /\ secrets' = secrets /\ spec' = spec /\ stale' = ~current
      BY <1>4 DEF PatchKeeps
    <2>2. NoDanglingReference'
      BY <1>3, <2>1 DEF NoDanglingReference
    <2>3. pc' = "cleanup" => InUse(inst)'
      BY <1>3, <1>4, <2>1 DEF InUse
    <2>4. current => inst = spec
      BY DEF BaseInv, Progress
    <2>5. ~stale' => InUse(spec)'
      BY <1>3, <2>1, <2>4 DEF InUse
    <2> QED
      BY <1>4, <2>2, <2>3, <2>5 DEF RefInv, Applying
  <1> QED
    BY <1>2, <1>4, PatchCases DEF Requeue

LEMMA CleanupRef ==
    ASSUME BaseInv, RefInv, Cleanup \/ DeleteAll
    PROVE  RefInv'
  <1>1. TypeOK /\ pc \in {"cleanup", "delete_all"}
    BY CleanupCases, DeleteAllCases DEF BaseInv
  <1>2. CASE Fails /\ UNCHANGED <<userVars, config, life, spec, stale>>
    BY <1>2, FailsRef
  <1>3. ASSUME pc = "cleanup", NEW n \in Names, CleanupDrops(n)
        PROVE  RefInv'
    <2>1. UNCHANGED <<ref, inst, pc, spec, stale>> /\ Others(n) /\ secrets[n] # None /\ unused(n)
      BY <1>3 DEF CleanupDrops, CleanupKeeps, Drops
    <2>2. NoDanglingReference /\ InUse(inst)
      BY <1>3 DEF RefInv
    <2>3. \A u \in Caches : ref[u] # None => ref[u] # n
      BY <2>1, <2>2 DEF NoDanglingReference, InUse, unused, cachesWithSecret
    <2>4. \A u \in Caches : ref[u] # None => ref[u] \in Names /\ secrets'[ref[u]] = secrets[ref[u]]
      BY <2>1, <2>2, <2>3 DEF NoDanglingReference, Others
    <2>5. NoDanglingReference' /\ InUse(inst)'
      BY <2>1, <2>2, <2>4 DEF NoDanglingReference, InUse
    <2>6. ~stale' => InUse(spec)'
      BY <2>1, <2>4 DEF RefInv, InUse
    <2> QED
      BY <1>3, <2>1, <2>5, <2>6 DEF RefInv, Applying
  <1>4. ASSUME pc = "delete_all", NEW n \in Names, DeleteDrops(n)
        PROVE  RefInv'
    <2>1. ref' = NoCaches /\ pc' = "delete_all"
      BY <1>4 DEF BaseInv, ShootInv, DeleteDrops, CleanupKeeps
    <2> QED
      BY <2>1, NoRefs
  <1>5. CASE CleanupEnds \/ DeleteEnds
    <2>1. UNCHANGED <<secrets, ref>> /\ pc' = "idle" /\ UNCHANGED <<spec, stale>>
      BY <1>5 DEF CleanupEnds, DeleteEnds, CleanupKeeps
    <2>2. SpecKept
      BY <1>1, <2>1 DEF SpecKept, TypeOK
    <2> QED
      BY <2>1, <2>2, RefIdle
  <1> QED
    BY <1>1, <1>2, <1>3, <1>4, <1>5, CleanupCases, DeleteAllCases

LEMMA InitRef ==
    ASSUME Init
    PROVE  RefInv
  <1>1. \A u \in Caches : ref[u] = None
    BY NoCachesFacts DEF Init
  <1> QED
    BY <1>1 DEF Init, RefInv, NoDanglingReference, InUse, Applying

LEMMA RefStep ==
    ASSUME BaseInv, RefInv, [Next]_vars, pc = "sync" => Unwanted(inst)
    PROVE  RefInv'
  <1>1. Do => pc = "sync"
    BY DEF Do
  <1> QED
    BY <1>1, OutsideRef, ReconcileRef, DoRef, CreateRef, PatchRef, CleanupRef, RestartRef DEF Next

-----------------------------------------------------------------------------
(* Users who wait.                                                           *)

Waiting == "overlap" \notin Trouble

LEMMA WaitUnwanted ==
    ASSUME BaseInv, WaitInv, pc = "sync"
    PROVE  Unwanted(inst)
  <1>1. inst = spec
    BY DEF WaitInv, BaseInv, Progress, Applying
  <1> QED
    BY <1>1 DEF WaitInv

\* Users act when nothing is labelled and nothing is under way.
LEMMA UserWait ==
    ASSUME BaseInv, WaitInv, UserMayAct, Waiting, UNCHANGED <<kcpVars, memVars, gardenVars, disturbed>>
    PROVE  WaitInv'
  <1>1. pc = "idle" /\ ~stale /\ ~pending /\ config = None /\ life = "alive"
    BY DEF UserMayAct, Waiting, Settled
  <1>2. UNCHANGED <<config, life, spec, stale, pending, pc, secrets>>
    BY DEF kcpVars, memVars, gardenVars
  <1>3. \A n \in Names : ~Labelled(n)
    BY <1>1 DEF WaitInv
  <1>4. \A n \in Names : ~Labelled(n)'
    BY <1>2, <1>3 DEF Labelled
  <1>5. Unwanted(spec)'
    BY <1>4 DEF Unwanted
  <1> QED
    BY <1>1, <1>2, <1>4, <1>5 DEF WaitInv, Applying

\* Steps that label no Secret and leave the configuration where it is.
LEMMA KeepWait ==
    ASSUME WaitInv, UNCHANGED <<want, module, config, spec>>,
           \A n \in Names : Labelled(n)' => Labelled(n) /\ secrets'[n] = secrets[n],
           pc' \in Applying \cup {"cleanup"} => spec = configured /\ config = None /\ current',
           life' = "alive" /\ (stale' \/ pending') => spec = configured /\ config = None,
           \A n \in Names : Labelled(n)' /\ life' = "alive" => stale' \/ pending'
    PROVE  WaitInv'
  <1>1. configured' = configured
    BY DEF configured
  <1>2. \A n \in Names : Labelled(n)' => spec = configured /\ config = None
    BY DEF WaitInv
  <1>3. Unwanted(spec)'
    BY DEF WaitInv, Unwanted
  <1> QED
    BY <1>1, <1>2, <1>3 DEF WaitInv

LEMMA FailsWait ==
    ASSUME BaseInv, WaitInv, Fails, UNCHANGED <<userVars, config, life, spec, stale>>,
           pc \in Applying \cup {"cleanup"} \/ life # "alive"
    PROVE  WaitInv'
  <1>1. UNCHANGED <<want, module, config, spec>> /\ UNCHANGED <<life, stale, secrets>>
        /\ pc' = "idle" /\ pending' = TRUE
    BY DEF Fails, Requeue, userVars, gardenVars
  <1>2. \A n \in Names : Labelled(n)' => Labelled(n) /\ secrets'[n] = secrets[n]
    BY <1>1 DEF Labelled
  <1>3. life' = "alive" => spec = configured /\ config = None
    BY <1>1 DEF WaitInv
  <1> QED
    BY <1>1, <1>2, <1>3, KeepWait DEF Applying

LEMMA DeleteRuntimeWait ==
    ASSUME WaitInv, DeleteRuntime
    PROVE  WaitInv'
  <1>1. UNCHANGED <<want, module, config, spec>> /\ UNCHANGED <<pc, current, secrets>> /\ life' = "deleting"
    BY DEF DeleteRuntime, userVars, memVars, gardenVars
  <1>2. \A n \in Names : Labelled(n)' => Labelled(n) /\ secrets'[n] = secrets[n]
    BY <1>1 DEF Labelled
  <1>3. pc' \in Applying \cup {"cleanup"} => spec = configured /\ config = None /\ current'
    BY <1>1 DEF WaitInv
  <1> QED
    BY <1>1, <1>2, <1>3, KeepWait

LEMMA FetchConfigsWait ==
    ASSUME WaitInv, fetchConfigs
    PROVE  WaitInv'
  <1>1. configured # spec /\ life = "alive" /\ config' = configured
        /\ UNCHANGED <<want, module, life, spec, stale, pending, pc, secrets>>
    BY DEF fetchConfigs, userVars, memVars, gardenVars
  <1>2. configured' = configured
    BY <1>1 DEF configured
  <1>3. \A n \in Names : ~Labelled(n)'
    BY <1>1 DEF WaitInv, Labelled
  <1>4. Unwanted(spec)'
    BY <1>3 DEF Unwanted
  <1>5. pc' \notin Applying \cup {"cleanup"} /\ ~stale' /\ ~pending'
    BY <1>1 DEF WaitInv
  <1> QED
    BY <1>1, <1>2, <1>3, <1>4, <1>5 DEF WaitInv

LEMMA UpdateRuntimeWait ==
    ASSUME WaitInv, updateRuntime
    PROVE  WaitInv'
  <1>1. config # None /\ config' = None /\ UNCHANGED <<want, module, life, pending, pc, secrets>>
        /\ (spec' = config \/ UNCHANGED <<spec, stale>>)
    BY DEF updateRuntime, userVars, gardenVars
  <1>2. configured' = configured /\ config = configured
    BY <1>1 DEF configured, WaitInv
  <1>3. \A n \in Names : ~Labelled(n)'
    BY <1>1 DEF WaitInv, Labelled
  <1>4. Unwanted(spec)'
    BY <1>3 DEF Unwanted
  <1>5. pc' \notin Applying \cup {"cleanup"}
    BY <1>1 DEF WaitInv
  <1>6. life = "alive" => ~stale /\ ~pending
    BY <1>1 DEF WaitInv
  <1> QED
    BY <1>1, <1>2, <1>3, <1>4, <1>5, <1>6 DEF WaitInv

LEMMA ReconcileWait ==
    ASSUME BaseInv, WaitInv, Reconcile
    PROVE  WaitInv'
  <1>1. UNCHANGED <<want, module, config, spec>> /\ UNCHANGED <<life, stale, pending, secrets>> /\ current' = TRUE
    BY DEF Reconcile, userVars
  <1>2. \A n \in Names : Labelled(n)' => Labelled(n) /\ secrets'[n] = secrets[n]
    BY <1>1 DEF Labelled
  <1>3. pc' \in Applying \cup {"cleanup"} => life = "alive" /\ (stale \/ pending)
    BY DEF Reconcile, Applying
  <1>4. pc' \in Applying \cup {"cleanup"} => spec = configured /\ config = None
    BY <1>3 DEF WaitInv
  <1>5. life' = "alive" /\ (stale' \/ pending') => spec = configured /\ config = None
    BY <1>1 DEF WaitInv
  <1>6. \A n \in Names : Labelled(n)' /\ life' = "alive" => stale' \/ pending'
    BY <1>1, <1>2 DEF WaitInv
  <1> QED
    BY <1>1, <1>2, <1>4, <1>5, <1>6, KeepWait

\* Do labels a Secret whose credentials differ from those of the current generation.
LEMMA DoWait ==
    ASSUME BaseInv, WaitInv, Do
    PROVE  WaitInv'
  <1>1. pc = "sync" /\ TypeOK
    BY DoCases DEF BaseInv
  <1>2. spec = configured /\ config = None /\ current /\ stale /\ inst = spec
    BY <1>1 DEF WaitInv, BaseInv, Progress, Applying
  <1>3. CASE Fails /\ UNCHANGED <<userVars, config, life, spec, stale>>
    BY <1>1, <1>3, FailsWait DEF Applying
  <1>4. ASSUME DoKeeps, UNCHANGED secrets
        PROVE  WaitInv'
    <2>1. \A n \in Names : Labelled(n)' => Labelled(n) /\ secrets'[n] = secrets[n]
      BY <1>4 DEF Labelled
    <2>2. UNCHANGED <<want, module, config, spec>> /\ current' /\ stale'
      BY <1>2, <1>4 DEF DoKeeps
    <2> QED
      BY <1>2, <2>1, <2>2, KeepWait
  <1>5. ASSUME DoKeeps, NEW u \in todo, NEW n \in Names, DoReplaces(u, n)
        PROVE  WaitInv'
    <2>1. UNCHANGED <<want, module, config, spec>> /\ current' /\ stale'
      BY <1>2, <1>5 DEF DoKeeps
    <2>2. configured' = configured
      BY <2>1 DEF configured
    <2>3. Marks(n) /\ secrets[n].uid = u /\ secrets[n].data # spec[u]
      BY <1>2, <1>5 DEF DoReplaces, SecretsOf
    <2>4. Unwanted(spec)
      BY DEF WaitInv
    <2>5. Unwanted(spec)'
      <3>1. ASSUME NEW m \in Names, Labelled(m)', spec[secrets'[m].uid] # None
            PROVE  secrets'[m].data # spec[secrets'[m].uid]
        <4>1. CASE m = n
          BY <2>3, <4>1 DEF Marks
        <4>2. CASE m # n
          BY <2>3, <2>4, <3>1, <4>2 DEF Marks, Others, Unwanted, Labelled
        <4> QED
          BY <4>1, <4>2
      <3> QED
        BY <2>1, <3>1 DEF Unwanted
    <2> QED
      BY <1>2, <2>1, <2>2, <2>5 DEF WaitInv
  <1> QED
    BY <1>1, <1>3, <1>4, <1>5, DoCases DEF DoSkips, DoCreates, DoEnds

LEMMA CreateWait ==
    ASSUME BaseInv, WaitInv, Create
    PROVE  WaitInv'
  <1>1. pc = "create"
    BY CreateCases
  <1>2. spec = configured /\ config = None /\ current /\ stale
    BY <1>1 DEF WaitInv, BaseInv, Progress, Applying
  <1>3. CASE Fails /\ UNCHANGED <<userVars, config, life, spec, stale>>
    BY <1>1, <1>3, FailsWait DEF Applying
  <1>4. ASSUME NEW n \in Names, CreateAdds(n)
        PROVE  WaitInv'
    <2>1. UNCHANGED <<want, module, config, spec>> /\ current' /\ stale'
      BY <1>2, <1>4 DEF CreateAdds, DoKeeps
    <2>2. \A m \in Names : Labelled(m)' => Labelled(m) /\ secrets'[m] = secrets[m]
      BY <1>4 DEF CreateAdds, Adds, Others, Labelled
    <2> QED
      BY <1>2, <2>1, <2>2, KeepWait
  <1> QED
    BY <1>3, <1>4, CreateCases

LEMMA PatchWait ==
    ASSUME BaseInv, WaitInv, Patch
    PROVE  WaitInv'
  <1>1. pc = "patch"
    BY PatchCases
  <1>2. spec = configured /\ config = None /\ current
    BY <1>1 DEF WaitInv, Applying
  <1>3. CASE Fails /\ UNCHANGED <<userVars, config, life, spec, stale>>
    BY <1>1, <1>3, FailsWait DEF Applying
  <1>4. ASSUME PatchKeeps, pc' = "idle" \/ current' = current
        PROVE  WaitInv'
    <2>1. UNCHANGED <<want, module, config, spec>> /\ secrets' = secrets /\ pending'
      BY <1>4 DEF PatchKeeps
    <2>2. \A m \in Names : Labelled(m)' => Labelled(m) /\ secrets'[m] = secrets[m]
      BY <2>1 DEF Labelled
    <2> QED
      BY <1>2, <1>4, <2>1, <2>2, KeepWait DEF Applying
  <1> QED
    BY <1>3, <1>4, PatchCases DEF Requeue

\* The end of the cleanup leaves no labelled Secret, and makes the Runtime Ready.
LEMMA CleanupWait ==
    ASSUME BaseInv, WaitInv, Cleanup
    PROVE  WaitInv'
  <1>1. pc = "cleanup" /\ TypeOK
    BY CleanupCases DEF BaseInv
  <1>2. spec = configured /\ config = None /\ current
    BY <1>1 DEF WaitInv
  <1>3. CASE Fails /\ UNCHANGED <<userVars, config, life, spec, stale>>
    BY <1>1, <1>3, FailsWait
  <1>4. ASSUME NEW n \in Names, CleanupDrops(n)
        PROVE  WaitInv'
    <2>1. UNCHANGED <<want, module, config, spec>> /\ UNCHANGED <<current, stale, pending, life>>
      BY <1>4 DEF CleanupDrops, CleanupKeeps
    <2>2. \A m \in Names : Labelled(m)' => Labelled(m) /\ secrets'[m] = secrets[m]
      BY <1>4 DEF CleanupDrops, Drops, Others, Labelled
    <2>3. \A m \in Names : Labelled(m) /\ life = "alive" => stale \/ pending
      BY DEF WaitInv
    <2> QED
      BY <1>2, <2>1, <2>2, <2>3, KeepWait
  <1>5. CASE CleanupEnds
    <2>1. UNCHANGED <<want, module, config, spec>> /\ secrets' = secrets /\ pc' = "idle"
      BY <1>5 DEF CleanupEnds, CleanupKeeps
    <2>2. \A m \in Names : ~Labelled(m)'
      BY <1>5, <2>1 DEF CleanupEnds, unused, Labelled
    <2> QED
      BY <1>2, <2>1, <2>2, KeepWait DEF Applying
  <1> QED
    BY <1>1, <1>3, <1>4, <1>5, CleanupCases

LEMMA DeleteAllWait ==
    ASSUME BaseInv, WaitInv, DeleteAll
    PROVE  WaitInv'
  <1>1. pc = "delete_all" /\ TypeOK /\ life # "alive"
    BY DeleteAllCases DEF BaseInv, ShootInv
  <1>2. CASE Fails /\ UNCHANGED <<userVars, config, life, spec, stale>>
    BY <1>1, <1>2, FailsWait
  <1>3. ASSUME NEW n \in Names, DeleteDrops(n)
        PROVE  WaitInv'
    <2>1. UNCHANGED <<want, module, config, spec>> /\ pc' = pc /\ life' = life
      BY <1>3 DEF DeleteDrops, CleanupKeeps
    <2>2. \A m \in Names : Labelled(m)' => Labelled(m) /\ secrets'[m] = secrets[m]
      BY <1>3 DEF DeleteDrops, Drops, Others, Labelled
    <2> QED
      BY <1>1, <2>1, <2>2, KeepWait DEF Applying
  <1>4. CASE DeleteEnds
    <2>1. UNCHANGED <<want, module, config, spec>> /\ secrets' = secrets /\ pc' = "idle" /\ life' = "gone"
      BY <1>4 DEF DeleteEnds, CleanupKeeps
    <2>2. \A m \in Names : Labelled(m)' => Labelled(m) /\ secrets'[m] = secrets[m]
      BY <2>1 DEF Labelled
    <2> QED
      BY <2>1, <2>2, KeepWait DEF Applying
  <1> QED
    BY <1>1, <1>2, <1>3, <1>4, DeleteAllCases

\* The controller forgets the configuration that it has fetched.
LEMMA RestartWait ==
    ASSUME WaitInv, Restart
    PROVE  WaitInv'
  <1>1. config' = None /\ pc' = "idle" /\ UNCHANGED <<want, module, life, spec, stale, pending, secrets>>
    BY DEF Restart, Requeue, userVars, gardenVars
  <1>2. configured' = configured
    BY <1>1 DEF configured
  <1>3. \A n \in Names : Labelled(n)' => Labelled(n)
    BY <1>1 DEF Labelled
  <1>4. Unwanted(spec)'
    BY <1>1 DEF WaitInv, Unwanted, Labelled
  <1> QED
    BY <1>1, <1>2, <1>3, <1>4 DEF WaitInv, Applying

LEMMA StutterWait ==
    ASSUME WaitInv, UNCHANGED vars
    PROVE  WaitInv'
  <1>1. UNCHANGED <<want, module, config, spec, life, stale, pending, pc, current, secrets>>
    BY DEF vars, userVars, kcpVars, memVars, gardenVars
  <1>2. \A n \in Names : Labelled(n)' => Labelled(n) /\ secrets'[n] = secrets[n]
    BY <1>1 DEF Labelled
  <1>3. pc' \in Applying \cup {"cleanup"} => spec = configured /\ config = None /\ current'
    BY <1>1 DEF WaitInv
  <1>4. life' = "alive" /\ (stale' \/ pending') => spec = configured /\ config = None
    BY <1>1 DEF WaitInv
  <1>5. \A n \in Names : Labelled(n)' /\ life' = "alive" => stale' \/ pending'
    BY <1>1, <1>2 DEF WaitInv
  <1> QED
    BY <1>1, <1>2, <1>3, <1>4, <1>5, KeepWait

LEMMA InitWait ==
    ASSUME Init
    PROVE  WaitInv
  <1>1. \A n \in Names : ~Labelled(n)
    BY DEF Init, Labelled
  <1> QED
    BY <1>1 DEF Init, WaitInv, Unwanted, Applying

LEMMA WaitStep ==
    ASSUME BaseInv, WaitInv, Waiting, [Next]_vars
    PROVE  WaitInv'
  <1>1. CASE (\E u \in Caches : Configure(u)) \/ SwitchModule
    BY <1>1, UserWait DEF Configure, SwitchModule
  <1> QED
    BY <1>1, DeleteRuntimeWait, FetchConfigsWait, UpdateRuntimeWait, ReconcileWait, DoWait, CreateWait, PatchWait,
       CleanupWait, DeleteAllWait, RestartWait, StutterWait DEF Next

-----------------------------------------------------------------------------
(* Users who never return to older credentials.                              *)

Forward == "revert" \notin Trouble

LEMMA AdvanceUnwanted ==
    ASSUME BaseInv, AdvanceInv, pc = "sync"
    PROVE  Unwanted(inst)
  <1>1. Behind(inst)
    BY DEF AdvanceInv
  <1>2. ASSUME NEW n \in Names, secrets[n] # None
        PROVE  secrets[n].data \in Nat /\ inst[secrets[n].uid] \in Nat \cup {None}
    <2>1. secrets[n] \in Secret /\ inst \in Caching
      BY <1>2 DEF BaseInv, TypeOK
    <2> QED
      BY <2>1, SecretFields, CachingFields
  <1> QED
    BY <1>1, <1>2 DEF Unwanted, Behind, Labelled

\* Behind, of the Secrets after a step.
BehindNext(x) ==
    \A n \in Names : secrets'[n] # None /\ x[secrets'[n].uid] # None =>
        /\ secrets'[n].data <= x[secrets'[n].uid]
        /\ secrets'[n].dirty => secrets'[n].data < x[secrets'[n].uid]

\* No Secret is added or labelled.
NothingNew == \A n \in Names : secrets'[n] # None => secrets'[n] = secrets[n]

LEMMA NothingNewFacts ==
    ASSUME NothingNew
    PROVE  /\ \A x : Behind(x) => BehindNext(x)
           /\ \A u \in Caches : SecretsOf(u) = {} => SecretsOf(u)' = {}
  BY DEF NothingNew, Behind, BehindNext, SecretsOf

\* Steps that do not move credentials.
LEMMA KeepAdvance ==
    ASSUME AdvanceInv, NothingNew, UNCHANGED <<want, removed, spec>>, config' = None \/ config' = config,
           pc' \in {"sync", "create"} => pc \in {"sync", "create"} /\ inst' = inst
    PROVE  AdvanceInv'
  <1>1. Behind(want)' /\ Behind(spec)' /\ NotOlder(spec, want)'
    <2>1. BehindNext(want) /\ BehindNext(spec)
      BY NothingNewFacts DEF AdvanceInv
    <2> QED
      BY <2>1 DEF AdvanceInv, Behind, BehindNext, NotOlder
  <1>2. config' # None => Behind(config)' /\ NotOlder(spec, config)' /\ NotOlder(config, want)'
    <2>1. ASSUME config' # None
          PROVE  BehindNext(config) /\ config' = config /\ NotOlder(spec, config) /\ NotOlder(config, want)
      BY <2>1, NothingNewFacts DEF AdvanceInv
    <2> QED
      BY <2>1 DEF Behind, BehindNext, NotOlder
  <1>3. pc' \in {"sync", "create"} => /\ Behind(inst)' /\ NotOlder(inst, spec)' /\ NotOlder(inst, want)'
                                      /\ config' # None => NotOlder(inst, config)'
    <2>1. ASSUME pc' \in {"sync", "create"}
          PROVE  /\ BehindNext(inst) /\ NotOlder(inst, spec) /\ NotOlder(inst, want) /\ inst' = inst
                 /\ config' # None => NotOlder(inst, config) /\ config' = config
      BY <2>1, NothingNewFacts DEF AdvanceInv
    <2> QED
      BY <2>1 DEF Behind, BehindNext, NotOlder
  <1>4. \A u \in Caches \ removed' : want'[u] = None =>
           /\ SecretsOf(u)' = {} /\ spec'[u] = None
           /\ config' # None => config'[u] = None
           /\ pc' \in {"sync", "create"} => inst'[u] = None
    BY NothingNewFacts DEF AdvanceInv
  <1> QED
    BY <1>1, <1>2, <1>3, <1>4 DEF AdvanceInv

\* A user configures a cache for the first time, moves on to newer credentials, or
\* removes the cache for good.
LEMMA WantMoves ==
    ASSUME TypeOK, Forward, NEW u \in Caches, Configure(u)
    PROVE  /\ \A w \in Caches : want'[w] # None =>
                IF want[w] = None THEN w \in Caches \ removed
                ELSE want[w] \in Nat /\ want'[w] \in Nat /\ want[w] <= want'[w]
           /\ \A w \in Caches \ removed' : want'[w] = None => w \in Caches \ removed /\ want[w] = None
  <1>1. want \in [Caches -> Versions \cup {None}] /\ \A w \in Caches : want[w] # None => want[w] \in Nat
    BY CachingFields DEF TypeOK, Caching
  <1>2. u \notin removed
    BY DEF Configure
  <1>3. CASE want[u] = None /\ want' = [want EXCEPT ![u] = 1] /\ UNCHANGED removed
    BY <1>1, <1>2, <1>3, Constants
  <1>4. CASE want[u] # None /\ want' = [want EXCEPT ![u] = @ + 1] /\ UNCHANGED removed
    BY <1>1, <1>2, <1>4, Constants
  <1>5. CASE want[u] # None /\ want' = [want EXCEPT ![u] = None] /\ removed' = removed \cup {u}
    BY <1>1, <1>2, <1>5
  <1> QED
    BY <1>3, <1>4, <1>5 DEF Configure, Forward

LEMMA ConfigureAdvance ==
    ASSUME BaseInv, AdvanceInv, Forward, NEW u \in Caches, Configure(u)
    PROVE  AdvanceInv'
  <1>1. UNCHANGED <<config, spec, pc, inst, secrets>>
    BY DEF Configure, kcpVars, memVars, gardenVars
  <1>2. TypeOK
    BY DEF BaseInv
  <1>3. \A w \in Caches : want'[w] # None =>
           IF want[w] = None THEN w \in Caches \ removed
           ELSE want[w] \in Nat /\ want'[w] \in Nat /\ want[w] <= want'[w]
    BY <1>2, WantMoves
  <1>4. \A w \in Caches \ removed' : want'[w] = None => w \in Caches \ removed /\ want[w] = None
    BY <1>2, WantMoves
  <1>5. ASSUME NEW x \in Caching, NotOlder(x, want), \A w \in Caches \ removed : want[w] = None => x[w] = None
        PROVE  NotOlder(x, want')
    <2>1. ASSUME NEW w \in Caches, x[w] # None, want'[w] # None
          PROVE  x[w] <= want'[w]
      <3>1. want[w] # None /\ want[w] \in Nat /\ want'[w] \in Nat /\ want[w] <= want'[w]
        BY <1>3, <1>5, <2>1
      <3>2. x[w] \in Nat /\ x[w] <= want[w]
        BY <1>5, <2>1, <3>1, CachingFields DEF NotOlder
      <3> QED
        BY <3>1, <3>2
    <2> QED
      BY <2>1 DEF NotOlder
  <1>6. Behind(want)'
    <2>1. ASSUME NEW n \in Names, secrets[n] # None, want'[secrets[n].uid] # None
          PROVE  /\ secrets[n].data <= want'[secrets[n].uid]
                 /\ secrets[n].dirty => secrets[n].data < want'[secrets[n].uid]
      <3>1. secrets[n] \in Secret
        BY <1>2, <2>1 DEF TypeOK
      <3> PICK w \in Caches : w = secrets[n].uid
        BY <3>1, SecretFields
      <3>2. secrets[n].data \in Nat /\ n \in SecretsOf(w)
        BY <2>1, <3>1, SecretFields DEF SecretsOf
      <3>3. want[w] # None
        BY <1>3, <2>1, <3>2 DEF AdvanceInv
      <3>4. want[w] \in Nat /\ want'[w] \in Nat /\ want[w] <= want'[w]
        BY <1>3, <2>1, <3>3
      <3>5. secrets[n].data <= want[w] /\ (secrets[n].dirty => secrets[n].data < want[w])
        BY <2>1, <3>3 DEF AdvanceInv, Behind
      <3> QED
        BY <3>2, <3>4, <3>5
    <2> QED
      BY <1>1, <2>1 DEF Behind
  <1>7. Behind(spec)' /\ NotOlder(spec, want)'
    <2>1. spec \in Caching
      BY <1>2 DEF TypeOK
    <2>2. NotOlder(spec, want')
      BY <1>5, <2>1 DEF AdvanceInv
    <2> QED
      BY <1>1, <2>2 DEF AdvanceInv, Behind, NotOlder
  <1>8. config' # None => Behind(config)' /\ NotOlder(spec, config)' /\ NotOlder(config, want)'
    <2> SUFFICES ASSUME config # None
                 PROVE  Behind(config)' /\ NotOlder(spec, config)' /\ NotOlder(config, want)'
      BY <1>1
    <2>1. config \in Caching
      BY <1>2 DEF TypeOK
    <2>2. NotOlder(config, want')
      BY <1>5, <2>1 DEF AdvanceInv
    <2> QED
      BY <1>1, <2>2 DEF AdvanceInv, Behind, NotOlder
  <1>9. pc' \in {"sync", "create"} => /\ Behind(inst)' /\ NotOlder(inst, spec)' /\ NotOlder(inst, want)'
                                      /\ config' # None => NotOlder(inst, config)'
    <2> SUFFICES ASSUME pc \in {"sync", "create"}
                 PROVE  /\ Behind(inst)' /\ NotOlder(inst, spec)' /\ NotOlder(inst, want)'
                        /\ config' # None => NotOlder(inst, config)'
      BY <1>1
    <2>1. inst \in Caching
      BY <1>2 DEF TypeOK
    <2>2. NotOlder(inst, want')
      BY <1>5, <2>1 DEF AdvanceInv
    <2> QED
      BY <1>1, <2>2 DEF AdvanceInv, Behind, NotOlder
  <1>10. \A w \in Caches \ removed' : want'[w] = None =>
           /\ SecretsOf(w)' = {} /\ spec'[w] = None
           /\ config' # None => config'[w] = None
           /\ pc' \in {"sync", "create"} => inst'[w] = None
    BY <1>1, <1>4 DEF AdvanceInv, SecretsOf
  <1> QED
    BY <1>6, <1>7, <1>8, <1>9, <1>10 DEF AdvanceInv

LEMMA FetchConfigsAdvance ==
    ASSUME BaseInv, AdvanceInv, fetchConfigs
    PROVE  AdvanceInv'
  <1>1. UNCHANGED <<want, removed, spec, pc, inst, secrets>> /\ config' = configured
    BY DEF fetchConfigs, userVars, memVars, gardenVars
  <1>2. want \in Caching /\ \A u \in Caches : want[u] # None => want[u] \in Nat
    BY CachingFields DEF BaseInv, TypeOK
  <1>3. config' = want \/ \A u \in Caches : config'[u] = None
    BY <1>1, NoCachesFacts DEF configured
  <1>4. \A n \in Names : secrets[n] # None => secrets[n].uid \in Caches
    BY SecretFields DEF BaseInv, TypeOK
  <1>5. Behind(config)'
    BY <1>1, <1>3, <1>4 DEF AdvanceInv, Behind
  <1>6. NotOlder(spec, config)' /\ NotOlder(config, want)'
    BY <1>1, <1>2, <1>3 DEF AdvanceInv, NotOlder
  <1>7. pc' \in {"sync", "create"} => NotOlder(inst, config)'
    BY <1>1, <1>3 DEF AdvanceInv, NotOlder
  <1>8. Behind(want)' /\ Behind(spec)' /\ NotOlder(spec, want)'
    BY <1>1 DEF AdvanceInv, Behind, NotOlder
  <1>9. pc' \in {"sync", "create"} => Behind(inst)' /\ NotOlder(inst, spec)' /\ NotOlder(inst, want)'
    BY <1>1 DEF AdvanceInv, Behind, NotOlder
  <1>10. \A u \in Caches \ removed' : want'[u] = None =>
           /\ SecretsOf(u)' = {} /\ spec'[u] = None /\ config'[u] = None
           /\ pc' \in {"sync", "create"} => inst'[u] = None
    BY <1>1, <1>3 DEF AdvanceInv, SecretsOf
  <1> QED
    BY <1>5, <1>6, <1>7, <1>8, <1>9, <1>10 DEF AdvanceInv

LEMMA UpdateRuntimeAdvance ==
    ASSUME AdvanceInv, updateRuntime
    PROVE  AdvanceInv'
  <1>1. UNCHANGED <<want, removed, pc, inst, secrets>> /\ config # None /\ config' = None
        /\ (spec' = config \/ spec' = spec)
    BY DEF updateRuntime, userVars, gardenVars
  <1>2. CASE spec' = spec
    BY <1>1, <1>2, KeepAdvance DEF NothingNew
  <1>3. CASE spec' = config
    <2>1. Behind(want)' /\ Behind(spec)' /\ NotOlder(spec, want)'
      BY <1>1, <1>3 DEF AdvanceInv, Behind, NotOlder
    <2>2. pc' \in {"sync", "create"} => Behind(inst)' /\ NotOlder(inst, spec)' /\ NotOlder(inst, want)'
      BY <1>1, <1>3 DEF AdvanceInv, Behind, NotOlder
    <2>3. \A u \in Caches \ removed' : want'[u] = None =>
             /\ SecretsOf(u)' = {} /\ spec'[u] = None
             /\ pc' \in {"sync", "create"} => inst'[u] = None
      BY <1>1, <1>3 DEF AdvanceInv, SecretsOf
    <2> QED
      BY <1>1, <2>1, <2>2, <2>3 DEF AdvanceInv
  <1> QED
    BY <1>1, <1>2, <1>3

LEMMA ReconcileAdvance ==
    ASSUME BaseInv, AdvanceInv, Reconcile
    PROVE  AdvanceInv'
  <1>1. UNCHANGED <<want, removed, config, spec, secrets>> /\ inst' = spec
    BY DEF Reconcile, userVars
  <1>2. \A u \in Caches : spec[u] # None => spec[u] \in Nat
    BY CachingFields DEF BaseInv, TypeOK
  <1>3. Behind(want)' /\ Behind(spec)' /\ NotOlder(spec, want)'
    BY <1>1 DEF AdvanceInv, Behind, NotOlder
  <1>4. config' # None => Behind(config)' /\ NotOlder(spec, config)' /\ NotOlder(config, want)'
    BY <1>1 DEF AdvanceInv, Behind, NotOlder
  <1>5. Behind(inst)' /\ NotOlder(inst, spec)' /\ NotOlder(inst, want)'
    BY <1>1, <1>2 DEF AdvanceInv, Behind, NotOlder
  <1>6. config' # None => NotOlder(inst, config)'
    BY <1>1 DEF AdvanceInv, NotOlder
  <1>7. \A u \in Caches \ removed' : want'[u] = None =>
           /\ SecretsOf(u)' = {} /\ spec'[u] = None /\ inst'[u] = None
           /\ config' # None => config'[u] = None
    BY <1>1 DEF AdvanceInv, SecretsOf
  <1> QED
    BY <1>3, <1>4, <1>5, <1>6, <1>7 DEF AdvanceInv

\* Do and Create while a caching x is not older than what they apply.
LEMMA MarksBehind ==
    ASSUME BaseInv, NEW x \in Caching, Behind(x), Behind(inst), NotOlder(inst, x),
           NEW n \in Names, NEW u \in Caches, Marks(n), secrets[n].uid = u, secrets[n].data # inst[u], inst[u] # None
    PROVE  BehindNext(x)
  <1>1. secrets[n] \in Secret /\ secrets[n] # None /\ inst \in Caching
    BY DEF BaseInv, TypeOK, Marks
  <1>2. secrets[n].data \in Nat /\ inst[u] \in Nat /\ x[u] \in Nat \cup {None}
    BY <1>1, SecretFields, CachingFields
  <1>3. secrets[n].data < inst[u]
    BY <1>1, <1>2 DEF Behind
  <1>4. x[u] # None => secrets[n].data < x[u]
    BY <1>2, <1>3 DEF NotOlder
  <1>5. ASSUME NEW m \in Names, secrets'[m] # None, x[secrets'[m].uid] # None
        PROVE  /\ secrets'[m].data <= x[secrets'[m].uid]
               /\ secrets'[m].dirty => secrets'[m].data < x[secrets'[m].uid]
    <2>1. CASE m = n
      BY <1>2, <1>4, <1>5, <2>1 DEF Marks
    <2>2. CASE m # n
      BY <1>5, <2>2 DEF Marks, Others, Behind
    <2> QED
      BY <2>1, <2>2
  <1> QED
    BY <1>5 DEF BehindNext

LEMMA AddsBehind ==
    ASSUME NEW x \in Caching, Behind(x), NotOlder(inst, x),
           NEW n \in Names, NEW u \in Caches, Adds(n, u, inst[u]), inst[u] # None
    PROVE  BehindNext(x)
  <1>1. ASSUME NEW m \in Names, secrets'[m] # None, x[secrets'[m].uid] # None
        PROVE  /\ secrets'[m].data <= x[secrets'[m].uid]
               /\ secrets'[m].dirty => secrets'[m].data < x[secrets'[m].uid]
    <2>1. CASE m = n
      BY <1>1, <2>1 DEF Adds, NotOlder
    <2>2. CASE m # n
      BY <1>1, <2>2 DEF Adds, Others, Behind
    <2> QED
      BY <2>1, <2>2
  <1> QED
    BY <1>1 DEF BehindNext

\* While Secrets are written, nothing else moves.
LEMMA WriteAdvance ==
    ASSUME AdvanceInv, UNCHANGED <<want, removed, config, spec, inst>>, pc \in {"sync", "create"},
           BehindNext(want), BehindNext(spec), BehindNext(inst), config # None => BehindNext(config),
           \A u \in Caches \ removed : want[u] = None => SecretsOf(u)' = {}
    PROVE  AdvanceInv'
  <1>1. Behind(want)' /\ Behind(spec)' /\ NotOlder(spec, want)'
    BY DEF AdvanceInv, Behind, BehindNext, NotOlder
  <1>2. config' # None => Behind(config)' /\ NotOlder(spec, config)' /\ NotOlder(config, want)'
    BY DEF AdvanceInv, Behind, BehindNext, NotOlder
  <1>3. /\ Behind(inst)' /\ NotOlder(inst, spec)' /\ NotOlder(inst, want)'
        /\ config' # None => NotOlder(inst, config)'
    BY DEF AdvanceInv, Behind, BehindNext, NotOlder
  <1>4. \A u \in Caches \ removed' : want'[u] = None =>
           /\ SecretsOf(u)' = {} /\ spec'[u] = None /\ inst'[u] = None
           /\ config' # None => config'[u] = None
    BY DEF AdvanceInv
  <1> QED
    BY <1>1, <1>2, <1>3, <1>4 DEF AdvanceInv

LEMMA FailsAdvance ==
    ASSUME AdvanceInv, Fails, UNCHANGED <<userVars, config, life, spec, stale>>
    PROVE  AdvanceInv'
  <1>1. UNCHANGED <<want, removed, spec>> /\ config' = config /\ pc' = "idle" /\ secrets' = secrets
    BY DEF Fails, Requeue, userVars, gardenVars
  <1> QED
    BY <1>1, KeepAdvance DEF NothingNew

LEMMA DoAdvance ==
    ASSUME BaseInv, AdvanceInv, Do
    PROVE  AdvanceInv'
  <1>1. pc = "sync" /\ TypeOK
    BY DoCases DEF BaseInv
  <1>2. CASE Fails /\ UNCHANGED <<userVars, config, life, spec, stale>>
    BY <1>2, FailsAdvance
  <1>3. ASSUME DoKeeps, UNCHANGED secrets
        PROVE  AdvanceInv'
    <2>1. UNCHANGED <<want, removed, spec>> /\ config' = config /\ inst' = inst
      BY <1>3 DEF DoKeeps
    <2> QED
      BY <1>1, <1>3, <2>1, KeepAdvance DEF NothingNew
  <1>4. ASSUME DoKeeps, NEW u \in todo, NEW n \in Names, DoReplaces(u, n)
        PROVE  AdvanceInv'
    <2>1. UNCHANGED <<want, removed, config, spec, inst>>
      BY <1>4 DEF DoKeeps
    <2>2. Marks(n) /\ secrets[n].uid = u /\ secrets[n].data # inst[u]
      BY <1>4 DEF DoReplaces, SecretsOf
    <2>3. u \in Caches /\ inst[u] # None
      BY <1>1 DEF TypeOK, BaseInv, Progress
    <2>4. want \in Caching /\ spec \in Caching /\ inst \in Caching /\ config \in Caching \cup {None}
      BY <1>1 DEF TypeOK
    <2>5. NotOlder(inst, inst)
      BY <2>4, CachingFields DEF NotOlder
    <2>6. BehindNext(want) /\ BehindNext(spec) /\ BehindNext(inst)
      BY <1>1, <2>2, <2>3, <2>4, <2>5, MarksBehind DEF AdvanceInv
    <2>7. config # None => BehindNext(config)
      BY <1>1, <2>2, <2>3, <2>4, MarksBehind DEF AdvanceInv
    <2>8. \A w \in Caches \ removed : want[w] = None => SecretsOf(w)' = {}
      BY <2>2 DEF AdvanceInv, SecretsOf, Marks, Others
    <2> QED
      BY <1>1, <2>1, <2>6, <2>7, <2>8, WriteAdvance
  <1> QED
    BY <1>1, <1>2, <1>3, <1>4, DoCases DEF DoSkips, DoCreates, DoEnds

LEMMA CreateAdvance ==
    ASSUME BaseInv, AdvanceInv, Create
    PROVE  AdvanceInv'
  <1>1. pc = "create" /\ cache \in Caches /\ inst[cache] # None /\ TypeOK
    BY CreateCases DEF BaseInv
  <1>2. CASE Fails /\ UNCHANGED <<userVars, config, life, spec, stale>>
    BY <1>2, FailsAdvance
  <1>3. ASSUME NEW n \in Names, CreateAdds(n)
        PROVE  AdvanceInv'
    <2> PICK u \in Caches : u = cache
      BY <1>1
    <2>1. UNCHANGED <<want, removed, config, spec, inst>>
      BY <1>3 DEF CreateAdds, DoKeeps
    <2>2. Adds(n, u, inst[u]) /\ inst[u] # None
      BY <1>1, <1>3 DEF CreateAdds
    <2>3. want \in Caching /\ spec \in Caching /\ inst \in Caching /\ config \in Caching \cup {None}
      BY <1>1 DEF TypeOK
    <2>4. NotOlder(inst, inst)
      BY <2>3, CachingFields DEF NotOlder
    <2>5. BehindNext(want) /\ BehindNext(spec) /\ BehindNext(inst)
      BY <1>1, <2>2, <2>3, <2>4, AddsBehind DEF AdvanceInv
    <2>6. config # None => BehindNext(config)
      BY <1>1, <2>2, <2>3, AddsBehind DEF AdvanceInv
    <2>7. \A w \in Caches \ removed : want[w] = None => w # u /\ SecretsOf(w) = {}
      BY <1>1, <2>2 DEF AdvanceInv
    <2>8. \A w \in Caches \ removed : want[w] = None => SecretsOf(w)' = {}
      BY <2>2, <2>7 DEF SecretsOf, Adds, Others
    <2> QED
      BY <1>1, <2>1, <2>5, <2>6, <2>8, WriteAdvance
  <1> QED
    BY <1>2, <1>3, CreateCases

\* The other steps of KIM write no credentials.
LEMMA OtherAdvance ==
    ASSUME BaseInv, AdvanceInv,
           SwitchModule \/ DeleteRuntime \/ Patch \/ Cleanup \/ DeleteAll \/ Restart \/ UNCHANGED vars
    PROVE  AdvanceInv'
  <1>1. CASE SwitchModule \/ DeleteRuntime \/ UNCHANGED vars
    <2>1. UNCHANGED <<want, removed, spec>> /\ config' = config /\ UNCHANGED <<pc, inst, secrets>>
      BY <1>1 DEF SwitchModule, DeleteRuntime, vars, userVars, kcpVars, memVars, gardenVars
    <2> QED
      BY <2>1, KeepAdvance DEF NothingNew
  <1>2. CASE Patch
    <2>1. UNCHANGED <<want, removed, spec>> /\ config' = config /\ secrets' = secrets /\ pc' \in {"idle", "cleanup"}
      BY <1>2, PatchCases DEF PatchKeeps, Requeue, Fails, userVars, gardenVars
    <2> QED
      BY <2>1, KeepAdvance DEF NothingNew
  <1>3. CASE Fails /\ UNCHANGED <<userVars, config, life, spec, stale>>
    BY <1>3, FailsAdvance
  <1>4. CASE Cleanup \/ DeleteAll
    <2>1. ASSUME NEW n \in Names, CleanupDrops(n) \/ DeleteDrops(n)
          PROVE  AdvanceInv'
      <3>1. UNCHANGED <<want, removed, spec>> /\ config' = config /\ UNCHANGED <<pc, inst>> /\ Drops(n)
        BY <2>1 DEF CleanupDrops, DeleteDrops, CleanupKeeps
      <3>2. NothingNew
        BY <3>1 DEF Drops, Others, NothingNew
      <3> QED
        BY <3>1, <3>2, KeepAdvance
    <2>2. CASE CleanupEnds \/ DeleteEnds
      <3>1. UNCHANGED <<want, removed, spec>> /\ config' = config /\ pc' = "idle" /\ secrets' = secrets
        BY <2>2 DEF CleanupEnds, DeleteEnds, CleanupKeeps
      <3> QED
        BY <3>1, KeepAdvance DEF NothingNew
    <2>3. TypeOK
      BY DEF BaseInv
    <2> QED
      BY <1>3, <1>4, <2>1, <2>2, <2>3, CleanupCases, DeleteAllCases
  <1>5. CASE Restart
    <2>1. UNCHANGED <<want, removed, spec>> /\ config' = None /\ pc' = "idle" /\ secrets' = secrets
      BY <1>5 DEF Restart, Requeue, userVars, gardenVars
    <2> QED
      BY <2>1, KeepAdvance DEF NothingNew
  <1> QED
    BY <1>1, <1>2, <1>4, <1>5

LEMMA InitAdvance ==
    ASSUME Init
    PROVE  AdvanceInv
  <1>1. \A n \in Names : secrets[n] = None
    BY DEF Init
  <1>2. \A u \in Caches : spec[u] = None /\ want[u] = None
    BY NoCachesFacts DEF Init
  <1> QED
    BY <1>1, <1>2 DEF Init, AdvanceInv, Behind, NotOlder, SecretsOf

LEMMA AdvanceStep ==
    ASSUME BaseInv, AdvanceInv, Forward, [Next]_vars
    PROVE  AdvanceInv'
  BY ConfigureAdvance, FetchConfigsAdvance, UpdateRuntimeAdvance, ReconcileAdvance, DoAdvance, CreateAdvance,
     OtherAdvance DEF Next

-----------------------------------------------------------------------------
(* The references of the shoot.                                              *)

\* The labels on the Secrets, for the users of this instance.
LabelInv == (Waiting => WaitInv) /\ (Forward => AdvanceInv)

\* The labels say which Secrets are out of date, though calls fail, KIM restarts and
\* users disable the module in between.
THEOREM LabelInvariance == Spec => [](BaseInv /\ LabelInv)
  <1>1. Init => BaseInv /\ LabelInv
    BY InitBase, InitWait, InitAdvance DEF LabelInv
  <1>2. BaseInv /\ LabelInv /\ [Next]_vars => BaseInv' /\ LabelInv'
    <2> SUFFICES ASSUME BaseInv, LabelInv, [Next]_vars
                 PROVE  BaseInv' /\ LabelInv'
      OBVIOUS
    <2>1. BaseInv'
      BY BaseStep
    <2>2. Waiting => WaitInv'
      BY WaitStep DEF LabelInv
    <2>3. Forward => AdvanceInv'
      BY AdvanceStep DEF LabelInv
    <2>4. (Waiting' <=> Waiting) /\ (Forward' <=> Forward)
      BY DEF Waiting, Forward
    <2> QED
      BY <2>1, <2>2, <2>3, <2>4 DEF LabelInv
  <1> QED
    BY <1>1, <1>2, PTL DEF Spec

\* The shoot never refers to a Secret that is missing or belongs to another cache,
\* though calls fail and KIM restarts between labelling the old Secret, creating the
\* new one, patching the shoot and deleting what is unused.  Users either wait for a
\* change to be applied, or never return to older credentials: with both, a labelled
\* Secret passes for the cache's own one in GardenSecretSyncer.Do.
THEOREM NoDanglingReferenceAlways ==
    ASSUME Waiting \/ Forward
    PROVE  Spec => []NoDanglingReference
  <1>1. Init => RefInv
    BY InitRef
  <1>2. BaseInv /\ LabelInv /\ RefInv /\ [Next]_vars => RefInv'
    BY RefStep, WaitUnwanted, AdvanceUnwanted DEF LabelInv
  <1>3. RefInv => NoDanglingReference
    BY DEF RefInv
  <1> QED
    BY <1>1, <1>2, <1>3, LabelInvariance, PTL DEF Spec

-----------------------------------------------------------------------------
(* The credentials that the shoot uses.                                      *)

\* Steps of users and of the registry cache controller that leave the Runtime alone.
LEMMA KeepSync ==
    ASSUME SyncInv, UNCHANGED <<spec, stale, pending, pc, inst, todo, cache, secrets, shoot, ref, disturbed>>,
           life' = "alive" => life = "alive"
    PROVE  SyncInv'
  <1>1. NoLeftover'
    BY DEF SyncInv, NoLeftover
  <1>2. \A u \in Caches : usableSecrets(u)' = usableSecrets(u) /\ SecretsOf(u)' = SecretsOf(u)
                          /\ (Visited(u)' <=> Visited(u))
    BY DEF usableSecrets, SecretsOf, Visited
  <1>3. OneUsable => OneUsable'
    BY <1>2 DEF OneUsable
  <1>4. WriteInv => WriteInv'
    BY DEF WriteInv, usableSecrets, SecretsOf, Visited
  <1>5. AppliedInv => AppliedInv'
    BY DEF AppliedInv, Applied, Labelled
  <1> QED
    BY <1>1, <1>3, <1>4, <1>5 DEF SyncInv

LEMMA OutsideSync ==
    ASSUME SyncInv,
           \/ \E u \in Caches : Configure(u)
           \/ SwitchModule \/ DeleteRuntime \/ fetchConfigs \/ UNCHANGED vars
    PROVE  SyncInv'
  <1>1. UNCHANGED <<spec, stale, pending, pc, inst, todo, cache, secrets, shoot, ref, disturbed>>
    BY DEF Configure, SwitchModule, DeleteRuntime, fetchConfigs, vars, userVars, kcpVars, memVars, gardenVars
  <1>2. life' = "alive" => life = "alive"
    BY DEF Configure, SwitchModule, DeleteRuntime, fetchConfigs, vars, kcpVars
  <1> QED
    BY <1>1, <1>2, KeepSync

\* The Runtime is updated when nothing is labelled.
LEMMA UpdateRuntimeSync ==
    ASSUME SyncInv, WaitInv, updateRuntime
    PROVE  SyncInv'
  <1>1. UNCHANGED <<life, pending, pc, inst, todo, cache, secrets, shoot, ref, disturbed>> /\ config # None
    BY DEF updateRuntime, gardenVars
  <1>2. CASE UNCHANGED <<spec, stale>>
    BY <1>1, <1>2, KeepSync
  <1>3. CASE stale' = TRUE
    <2>1. pc' \notin Applying \cup {"cleanup"}
      BY <1>1 DEF WaitInv
    <2>2. \A n \in Names : ~Labelled(n)'
      BY <1>1 DEF WaitInv, Labelled
    <2>3. OneUsable => OneUsable'
      BY <1>1 DEF OneUsable, usableSecrets, SecretsOf
    <2>4. NoLeftover' /\ WriteInv' /\ AppliedInv'
      BY <1>3, <2>1, <2>2 DEF NoLeftover, WriteInv, AppliedInv, Applying
    <2> QED
      BY <1>1, <2>3, <2>4 DEF SyncInv
  <1> QED
    BY <1>2, <1>3 DEF updateRuntime

\* Whatever fails is excluded.
LEMMA DisturbedSync ==
    ASSUME disturbed' = TRUE, NoLeftover'
    PROVE  SyncInv'
  BY DEF SyncInv

LEMMA FailsSync ==
    ASSUME Fails
    PROVE  SyncInv'
  BY DisturbedSync DEF Fails, NoLeftover

LEMMA RestartSync ==
    ASSUME SyncInv, Restart
    PROVE  SyncInv'
  <1>1. UNCHANGED <<spec, stale, pending, secrets>> /\ disturbed' = TRUE
    BY DEF Restart, gardenVars
  <1>2. NoLeftover'
    BY <1>1 DEF SyncInv, NoLeftover
  <1> QED
    BY <1>1, <1>2, DisturbedSync

LEMMA ReconcileSync ==
    ASSUME BaseInv, SyncInv, Reconcile
    PROVE  SyncInv'
  <1>1. UNCHANGED <<life, spec, stale, pending, secrets, disturbed>> /\ inst' = spec /\ pc = "idle"
    BY DEF Reconcile
  <1>2. NoLeftover'
    BY <1>1 DEF SyncInv, NoLeftover
  <1>3. OneUsable => OneUsable'
    BY <1>1 DEF OneUsable, usableSecrets, SecretsOf
  <1>4. CASE life = "alive" /\ stale /\ pc' = "sync" /\ todo' = cachesWithSecret(spec) /\ UNCHANGED <<shoot, ref>>
    <2>1. \A u \in Caches : ~Visited(u)'
      BY <1>1, <1>4 DEF Visited, cachesWithSecret
    <2>2. todo' \subseteq Caches
      BY <1>4 DEF cachesWithSecret
    <2>3. AppliedInv => \A u \in Caches : SecretsOf(u)' = usableSecrets(u)'
      BY <1>1, <1>4 DEF AppliedInv, usableSecrets, SecretsOf, Labelled
    <2>4. AppliedInv => WriteInv'
      BY <1>4, <2>1, <2>2, <2>3 DEF WriteInv
    <2>5. AppliedInv'
      BY <1>1, <1>4 DEF AppliedInv
    <2> QED
      BY <1>1, <1>2, <1>3, <2>4, <2>5 DEF SyncInv
  <1>5. CASE life = "alive" /\ ~stale /\ pc' \in {"idle", "cleanup"} /\ UNCHANGED <<shoot, ref>>
    <2>1. shoot
      BY <1>5 DEF BaseInv, ShootInv
    <2>2. AppliedInv => AppliedInv'
      BY <1>1, <1>5, <2>1 DEF AppliedInv, Applied
    <2>3. WriteInv'
      BY <1>5 DEF WriteInv, Applying
    <2> QED
      BY <1>1, <1>2, <1>3, <2>2, <2>3 DEF SyncInv
  <1>6. CASE pc' = "delete_all" /\ ~shoot'
    <2>1. WriteInv' /\ AppliedInv'
      BY <1>6 DEF WriteInv, AppliedInv, Applying
    <2> QED
      BY <1>1, <1>2, <1>3, <2>1 DEF SyncInv
  <1> QED
    BY <1>4, <1>5, <1>6 DEF Reconcile

LEMMA DoSync ==
    ASSUME BaseInv, SyncInv, Do
    PROVE  SyncInv'
  <1>1. pc = "sync" /\ TypeOK /\ stale
    BY DoCases DEF BaseInv, Progress, Applying
  <1>2. todo \subseteq Caches
    BY <1>1 DEF TypeOK
  <1>3. CASE Fails
    BY <1>3, FailsSync
  <1>4. ASSUME DoKeeps, pc' \in Applying, OneUsable /\ WriteInv => OneUsable' /\ WriteInv'
        PROVE  SyncInv'
    <2>1. stale' /\ disturbed' = disturbed
      BY <1>1, <1>4 DEF DoKeeps
    <2>2. NoLeftover' /\ AppliedInv'
      BY <1>4, <2>1 DEF NoLeftover, AppliedInv, Applying
    <2> QED
      BY <1>4, <2>1, <2>2 DEF SyncInv
  <1>5. ASSUME DoKeeps, UNCHANGED secrets
        PROVE  /\ \A w \in Caches : usableSecrets(w)' = usableSecrets(w) /\ SecretsOf(w)' = SecretsOf(w)
               /\ OneUsable => OneUsable'
               /\ inst' = inst
    BY <1>5 DEF DoKeeps, OneUsable, usableSecrets, SecretsOf
  <1>6. ASSUME DoKeeps, NEW u \in todo, DoSkips(u)
        PROVE  SyncInv'
    <2>1. todo' = todo \ {u} /\ pc' = "sync" /\ secrets' = secrets
      BY <1>1, <1>6 DEF DoSkips
    <2>2. ASSUME OneUsable, WriteInv
          PROVE  WriteInv'
      <3>1. \A w \in todo' : SecretsOf(w)' = usableSecrets(w)'
        BY <1>1, <1>2, <1>5, <1>6, <2>1, <2>2 DEF WriteInv
      <3>2. PICK k \in usableSecrets(u) : secrets[k].data = inst[u]
        BY <1>1, <1>6, <2>2 DEF WriteInv, DoSkips
      <3>3. \A n \in usableSecrets(u) : secrets[n].data = inst[u]
        BY <1>2, <2>2, <3>2 DEF OneUsable
      <3>4. \A w \in Caches : Visited(w)' => Visited(w) \/ w = u
        BY <1>1, <1>5, <1>6, <2>1 DEF Visited
      <3>5. \A w \in Caches : Visited(w)' => \A n \in usableSecrets(w)' : secrets'[n].data = inst'[w]
        BY <1>1, <1>5, <1>6, <2>1, <2>2, <3>3, <3>4 DEF WriteInv, Applying
      <3> QED
        BY <2>1, <3>1, <3>5 DEF WriteInv
    <2> QED
      BY <1>4, <1>5, <1>6, <2>1, <2>2 DEF Applying
  <1>7. ASSUME DoKeeps, NEW u \in todo, DoCreates(u)
        PROVE  SyncInv'
    <2>1. todo' = todo \ {u} /\ pc' = "create" /\ cache' = u /\ secrets' = secrets /\ SecretsOf(u) = {}
      BY <1>7 DEF DoCreates
    <2>2. ASSUME OneUsable, WriteInv
          PROVE  WriteInv'
      <3>1. \A w \in todo' : SecretsOf(w)' = usableSecrets(w)'
        BY <1>1, <1>2, <1>5, <1>7, <2>1, <2>2 DEF WriteInv
      <3>2. usableSecrets(cache)' = {}
        BY <2>1 DEF usableSecrets, SecretsOf
      <3>3. \A w \in Caches : Visited(w)' => Visited(w)
        BY <1>1, <1>5, <1>7, <2>1 DEF Visited
      <3>4. \A w \in Caches : Visited(w)' => \A n \in usableSecrets(w)' : secrets'[n].data = inst'[w]
        BY <1>1, <1>5, <1>7, <2>1, <2>2, <3>3 DEF WriteInv, Applying
      <3> QED
        BY <2>1, <3>1, <3>2, <3>4 DEF WriteInv
    <2> QED
      BY <1>4, <1>5, <1>7, <2>1, <2>2 DEF Applying
  <1>8. ASSUME DoKeeps, NEW u \in todo, NEW k \in Names, DoReplaces(u, k)
        PROVE  SyncInv'
    <2>1. todo' = todo \ {u} /\ pc' = "create" /\ cache' = u /\ k \in SecretsOf(u) /\ Marks(k) /\ inst' = inst
      BY <1>8 DEF DoReplaces, DoKeeps
    <2>2. secrets[k].uid = u
      BY <2>1 DEF SecretsOf
    <2>3. \A w \in Caches : w # u =>
             /\ usableSecrets(w)' = usableSecrets(w) /\ SecretsOf(w)' = SecretsOf(w)
             /\ \A n \in usableSecrets(w) : secrets'[n] = secrets[n]
      BY <2>1, <2>2 DEF Marks, Others, usableSecrets, SecretsOf
    <2>4. usableSecrets(u)' \subseteq usableSecrets(u) \ {k}
      BY <2>1 DEF Marks, Others, usableSecrets, SecretsOf
    <2>5. ASSUME OneUsable, WriteInv
          PROVE  OneUsable' /\ WriteInv'
      <3>1. usableSecrets(u)' = {}
        BY <1>1, <1>2, <2>1, <2>4, <2>5 DEF OneUsable, WriteInv
      <3>2. OneUsable'
        BY <2>3, <2>5, <3>1 DEF OneUsable
      <3>3. usableSecrets(cache)' = {}
        BY <2>1, <3>1 DEF usableSecrets, SecretsOf
      <3>4. \A w \in todo' : SecretsOf(w)' = usableSecrets(w)'
        BY <1>1, <1>2, <2>1, <2>3, <2>5 DEF WriteInv
      <3>5. \A w \in Caches : Visited(w)' => Visited(w) /\ w # u
        BY <1>1, <2>1 DEF Visited
      <3>6. \A w \in Caches : Visited(w)' => \A n \in usableSecrets(w)' : secrets'[n].data = inst'[w]
        BY <1>1, <2>1, <2>3, <2>5, <3>5 DEF WriteInv, Applying
      <3> QED
        BY <2>1, <3>2, <3>3, <3>4, <3>6 DEF WriteInv
    <2> QED
      BY <1>4, <1>8, <2>1, <2>5 DEF Applying
  <1>9. CASE DoKeeps /\ DoEnds
    <2>1. todo' = todo /\ pc' = "patch" /\ secrets' = secrets
      BY <1>9 DEF DoEnds
    <2>2. ASSUME WriteInv
          PROVE  WriteInv'
      <3>1. \A w \in Caches : Visited(w)' => Visited(w)
        BY <1>1, <1>5, <1>9, <2>1 DEF Visited
      <3>2. \A w \in Caches : Visited(w)' => \A n \in usableSecrets(w)' : secrets'[n].data = inst'[w]
        BY <1>1, <1>5, <1>9, <2>1, <2>2, <3>1 DEF WriteInv, Applying
      <3> QED
        BY <2>1, <3>2 DEF WriteInv
    <2> QED
      BY <1>4, <1>5, <1>9, <2>1, <2>2 DEF Applying
  <1> QED
    BY <1>1, <1>3, <1>6, <1>7, <1>8, <1>9, DoCases

LEMMA CreateSync ==
    ASSUME BaseInv, SyncInv, Create
    PROVE  SyncInv'
  <1>1. pc = "create" /\ cache \in Caches /\ stale /\ todo \subseteq Caches
    BY CreateCases DEF BaseInv, Progress, Applying, TypeOK
  <1>2. CASE Fails
    BY <1>2, FailsSync
  <1>3. ASSUME NEW k \in Names, CreateAdds(k)
        PROVE  SyncInv'
    <2> PICK u \in Caches : u = cache
      BY <1>1
    <2>1. Adds(k, u, inst[u]) /\ pc' = "sync" /\ cache' = None /\ todo' = todo
          /\ stale' /\ disturbed' = disturbed /\ inst' = inst
      BY <1>1, <1>3 DEF CreateAdds, DoKeeps
    <2>2. \A w \in Caches : w # u =>
             /\ usableSecrets(w)' = usableSecrets(w) /\ SecretsOf(w)' = SecretsOf(w)
             /\ \A n \in usableSecrets(w) : secrets'[n] = secrets[n]
      BY <2>1 DEF Adds, Others, usableSecrets, SecretsOf
    <2>3. usableSecrets(u)' = usableSecrets(u) \cup {k} /\ SecretsOf(u)' = SecretsOf(u) \cup {k}
          /\ secrets'[k].data = inst[u]
      BY <2>1 DEF Adds, Others, usableSecrets, SecretsOf
    <2>4. ASSUME OneUsable, WriteInv
          PROVE  OneUsable' /\ WriteInv'
      <3>1. usableSecrets(u) = {}
        BY <1>1, <2>4 DEF WriteInv
      <3>2. OneUsable'
        BY <2>2, <2>3, <2>4, <3>1 DEF OneUsable
      <3>3. \A w \in todo' : SecretsOf(w)' = usableSecrets(w)'
        BY <1>1, <2>1, <2>2, <2>3, <2>4 DEF WriteInv
      <3>4. \A w \in Caches : Visited(w)' => Visited(w) \/ w = u
        BY <1>1, <2>1 DEF Visited
      <3>5. \A w \in Caches : Visited(w)' => \A n \in usableSecrets(w)' : secrets'[n].data = inst'[w]
        BY <1>1, <2>1, <2>2, <2>3, <2>4, <3>1, <3>4 DEF WriteInv, Applying
      <3> QED
        BY <2>1, <3>2, <3>3, <3>5 DEF WriteInv
    <2>5. NoLeftover' /\ AppliedInv'
      BY <2>1 DEF NoLeftover, AppliedInv
    <2> QED
      BY <2>1, <2>4, <2>5 DEF SyncInv
  <1> QED
    BY <1>2, <1>3, CreateCases

\* Patch takes the one usable Secret, which holds the credentials of the cache.
LEMMA PatchSync ==
    ASSUME BaseInv, RefInv, WaitInv, SyncInv, Patch
    PROVE  SyncInv'
  <1>1. pc = "patch"
    BY PatchCases
  <1>2. current /\ inst = spec
    BY <1>1 DEF WaitInv, BaseInv, Progress, Applying
  <1>3. CASE Fails
    BY <1>3, FailsSync
  <1>4. ASSUME PatchKeeps, pc' \in {"idle", "cleanup"}, pc' = "cleanup" => inst' = inst
        PROVE  SyncInv'
    <2>1. ref' = NewRef /\ secrets' = secrets /\ spec' = spec /\ stale' = FALSE /\ pending' = TRUE
          /\ disturbed' = disturbed
      BY <1>2, <1>4 DEF PatchKeeps
    <2>2. OneUsable => OneUsable'
      BY <2>1 DEF OneUsable, usableSecrets, SecretsOf
    <2>3. NoLeftover' /\ WriteInv'
      BY <1>4, <2>1 DEF NoLeftover, WriteInv, Applying
    <2>4. ASSUME WriteInv
          PROVE  AppliedInv'
      <3>1. ASSUME NEW u \in Caches
            PROVE  IF inst[u] = None THEN NewRef[u] = None
                   ELSE NewRef[u] \in Names /\ secrets[NewRef[u]].data = inst[u]
        <4>1. CASE inst[u] = None
          BY <4>1, NewRefFacts
        <4>2. CASE inst[u] # None
          <5>1. Visited(u)
            BY <1>1, <4>2 DEF BaseInv, Progress, Visited
          <5>2. usableSecrets(u) # {} /\ \A n \in usableSecrets(u) : secrets[n].data = inst[u]
            BY <1>1, <2>4, <5>1 DEF RefInv, WriteInv, Applying
          <5>3. NewRef[u] \in usableSecrets(u) /\ NewRef[u] \in Names
            BY <4>2, <5>2, NewRefFacts
          <5> QED
            BY <4>2, <5>2, <5>3
        <4> QED
          BY <4>1, <4>2
      <3>2. Applied(spec)' /\ (pc' = "cleanup" => Applied(inst)')
        BY <1>2, <1>4, <2>1, <3>1 DEF Applied
      <3> QED
        BY <2>1, <3>2 DEF AppliedInv
    <2> QED
      BY <2>1, <2>2, <2>3, <2>4 DEF SyncInv
  <1> QED
    BY <1>3, <1>4, PatchCases DEF Requeue

LEMMA CleanupSync ==
    ASSUME BaseInv, RefInv, WaitInv, SyncInv, Cleanup
    PROVE  SyncInv'
  <1>1. pc = "cleanup" /\ TypeOK
    BY CleanupCases DEF BaseInv
  <1>2. inst = spec
    BY <1>1 DEF WaitInv, BaseInv, Progress
  <1>3. CASE Fails
    BY <1>3, FailsSync
  <1>4. ASSUME NEW n \in Names, CleanupDrops(n)
        PROVE  SyncInv'
    <2>1. UNCHANGED <<spec, stale, pending, pc, inst, shoot, ref, disturbed>> /\ Drops(n) /\ secrets[n] # None /\ unused(n)
      BY <1>4 DEF CleanupDrops, CleanupKeeps
    <2>2. NoLeftover'
      BY <2>1 DEF SyncInv, NoLeftover, Drops, Others
    <2>3. OneUsable => OneUsable'
      BY <2>1 DEF OneUsable, usableSecrets, SecretsOf, Drops, Others
    <2>4. WriteInv'
      BY <1>1, <2>1 DEF WriteInv, Applying
    <2>5. \A u \in Caches : ref[u] # None => ref[u] \in Names /\ ref[u] # n
      BY <1>1, <2>1 DEF RefInv, NoDanglingReference, InUse, unused, cachesWithSecret
    <2>6. \A u \in Caches : ref[u] # None => secrets'[ref[u]] = secrets[ref[u]]
      BY <2>1, <2>5 DEF Drops, Others
    <2>7. ASSUME AppliedInv
          PROVE  AppliedInv'
      <3>1. \A u \in Caches : IF inst[u] = None THEN ref[u] = None
                              ELSE ref[u] \in Names /\ secrets[ref[u]].data = inst[u]
        BY <1>1, <2>7 DEF AppliedInv, Applied
      <3>2. Names \subseteq Nat /\ None \notin Nat
        BY Constants
      <3>3. \A u \in Caches : IF inst[u] = None THEN ref[u] = None
                              ELSE ref[u] \in Names /\ secrets'[ref[u]].data = inst[u]
        BY <2>6, <3>1, <3>2
      <3>4. Applied(inst)' /\ Applied(spec)'
        BY <1>2, <2>1, <3>3 DEF Applied
      <3> QED
        BY <1>1, <2>1, <3>4 DEF AppliedInv
    <2> QED
      BY <2>1, <2>2, <2>3, <2>4, <2>7 DEF SyncInv
  <1>5. CASE CleanupEnds
    <2>1. UNCHANGED <<spec, stale, secrets, shoot, ref, disturbed, life>> /\ pc' = "idle"
          /\ \A n \in Names : secrets[n] # None => ~unused(n)
      BY <1>5 DEF CleanupEnds, CleanupKeeps
    <2>2. \A n \in Names : secrets[n] # None => ~secrets[n].dirty /\ secrets[n].uid \in cachesWithSecret(inst)
      BY <2>1 DEF unused
    <2>3. NoLeftover'
      BY <1>2, <2>1, <2>2 DEF NoLeftover, cachesWithSecret
    <2>4. OneUsable => OneUsable'
      BY <2>1 DEF OneUsable, usableSecrets, SecretsOf
    <2>5. WriteInv'
      BY <2>1 DEF WriteInv, Applying
    <2>6. AppliedInv => AppliedInv'
      BY <2>1, <2>2 DEF AppliedInv, Applied, Labelled
    <2> QED
      BY <2>1, <2>3, <2>4, <2>5, <2>6 DEF SyncInv
  <1> QED
    BY <1>1, <1>3, <1>4, <1>5, CleanupCases

LEMMA DeleteAllSync ==
    ASSUME BaseInv, SyncInv, DeleteAll
    PROVE  SyncInv'
  <1>1. pc = "delete_all" /\ TypeOK /\ life # "alive" /\ ~shoot
    BY DeleteAllCases DEF BaseInv, ShootInv
  <1>2. CASE Fails
    BY <1>2, FailsSync
  <1>3. ASSUME CleanupKeeps, NothingNew, SecretType', pending' = pending, pc' \in {"idle", "delete_all"}, life' # "alive"
        PROVE  SyncInv'
    <2>1. UNCHANGED <<spec, stale, shoot, disturbed>>
      BY <1>3 DEF CleanupKeeps
    <2>2. NoLeftover'
      BY <1>3, <2>1 DEF SyncInv, NoLeftover, NothingNew
    <2>3. OneUsable => OneUsable'
      BY <1>3 DEF OneUsable, usableSecrets, SecretsOf, NothingNew
    <2>4. WriteInv' /\ AppliedInv'
      BY <1>1, <1>3, <2>1 DEF WriteInv, AppliedInv, Applying
    <2> QED
      BY <2>1, <2>2, <2>3, <2>4 DEF SyncInv
  <1>4. ASSUME NEW n \in Names, DeleteDrops(n)
        PROVE  SyncInv'
    <2>1. CleanupKeeps /\ SecretType' /\ pending' = pending /\ pc' = "delete_all" /\ life' # "alive"
      BY <1>1, <1>4 DEF DeleteDrops, Drops
    <2>2. NothingNew
      BY <1>4 DEF DeleteDrops, Drops, Others, NothingNew
    <2> QED
      BY <1>3, <2>1, <2>2
  <1>5. CASE DeleteEnds
    <2>1. CleanupKeeps /\ SecretType' /\ NothingNew /\ pending' = pending /\ pc' = "idle" /\ life' # "alive"
      BY <1>1, <1>5 DEF DeleteEnds, SecretType, NothingNew, TypeOK
    <2> QED
      BY <1>3, <2>1
  <1> QED
    BY <1>1, <1>2, <1>4, <1>5, DeleteAllCases

LEMMA InitSync ==
    ASSUME Init
    PROVE  SyncInv
  <1>1. \A n \in Names : secrets[n] = None
    BY DEF Init
  <1>2. \A u \in Caches : spec[u] = None /\ ref[u] = None
    BY NoCachesFacts DEF Init
  <1>3. OneUsable
    BY <1>1 DEF OneUsable, usableSecrets, SecretsOf
  <1>4. NoLeftover /\ WriteInv /\ AppliedInv
    BY <1>1, <1>2 DEF Init, NoLeftover, WriteInv, AppliedInv, Applied, Applying
  <1> QED
    BY <1>3, <1>4 DEF SyncInv

LEMMA SyncStep ==
    ASSUME BaseInv, RefInv, WaitInv, SyncInv, [Next]_vars
    PROVE  SyncInv'
  BY OutsideSync, UpdateRuntimeSync, ReconcileSync, DoSync, CreateSync, PatchSync, CleanupSync, DeleteAllSync,
     RestartSync DEF Next

\* When everything that users configured is applied and no call has failed, the shoot
\* uses these credentials and the Garden cluster holds no Secret of a removed cache:
\* several reconciliations lead there, and disabling the module or returning to older
\* credentials changes nothing.  Users wait for a change to be applied: a change made
\* while one is under way may leave the shoot with the credentials before it.
THEOREM InSyncAlways ==
    ASSUME Waiting
    PROVE  Spec => []InSync
  <1>1. Init => RefInv /\ SyncInv
    BY InitRef, InitSync
  <1>2. BaseInv /\ LabelInv /\ RefInv /\ SyncInv /\ [Next]_vars => RefInv' /\ SyncInv'
    BY RefStep, WaitUnwanted, SyncStep DEF LabelInv
  <1>3. BaseInv /\ SyncInv => InSync
    <2> SUFFICES ASSUME BaseInv, SyncInv, Settled, life = "alive", ~disturbed, NEW u \in Caches
                 PROVE  IF configured[u] = None THEN ref[u] = None /\ SecretsOf(u) = {}
                        ELSE ref[u] \in Names /\ secrets[ref[u]].data = configured[u]
      BY DEF InSync
    <2>1. ~stale /\ ~pending /\ spec = configured
      BY DEF Settled
    <2>2. shoot
      BY DEF BaseInv, ShootInv
    <2>3. Applied(spec)
      BY <2>1, <2>2 DEF SyncInv, AppliedInv
    <2>4. spec[u] = None => SecretsOf(u) = {}
      BY <2>1 DEF SyncInv, NoLeftover, SecretsOf
    <2> QED
      BY <2>1, <2>3, <2>4 DEF Applied
  <1> QED
    BY <1>1, <1>2, <1>3, LabelInvariance, PTL DEF Spec
=============================================================================
