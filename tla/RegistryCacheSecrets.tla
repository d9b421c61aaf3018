------------------------ MODULE RegistryCacheSecrets ------------------------
(***************************************************************************)
(* Credentials of registry caches, for one Runtime.  Users configure       *)
(* caches in their cluster (SKR); the registry cache controller copies the *)
(* configuration into the Runtime; the Runtime controller copies the       *)
(* credentials into Secrets of the Garden cluster, makes the shoot refer   *)
(* to them, and deletes the Secrets that are no longer used.               *)
(*                                                                         *)
(* Garden Secrets are immutable: changed credentials mean a new Secret,    *)
(* and the old one gets a "dirty" label until the shoot has let go of it.  *)
(* Every call to the Garden cluster is a step of its own.                  *)
(***************************************************************************)
EXTENDS Naturals, FiniteSets, FiniteSetsExt

CONSTANTS
    Caches,      \* UIDs of RegistryCacheConfigs in the cluster
    MaxVersion,  \* bound: credentials that users create for a cache
    Names,       \* bound: names of garden Secrets, in the order of a List
    Trouble,     \* what else happens, see Troubles
    None,        \* absent: cache, Secret, reference
    Missing      \* a reference with an empty name

\* "api": calls fail; "restart": KIM restarts; "module": users disable and enable
\* the registry-cache module; "overlap": users do not wait for one change to be
\* applied before they make the next; "revert": users return to older credentials.
Troubles == {"api", "restart", "module", "overlap", "revert"}

ASSUME CacheAssumption ==
    /\ MaxVersion \in Nat \ {0}
    /\ Names \subseteq Nat /\ IsFiniteSet(Names)
    /\ Trouble \subseteq Troubles
    /\ None \notin Nat /\ Missing \notin Nat /\ None # Missing

VARIABLES
    want,     \* the caches and credentials configured in the cluster
    removed,  \* caches whose configuration was deleted; a new one has a new UID
    module,   \* the registry-cache module is enabled
    config,   \* the configuration the registry cache controller has fetched
    life,     \* of the Runtime: "alive", "deleting", "gone"
    spec,     \* spec.caching of the Runtime
    stale,    \* the Runtime's generation is newer than the one applied to the shoot
    pending,  \* the Runtime's state is Pending
    queued,   \* the workqueue of the Runtime controller holds the Runtime
    pc,       \* the step of the reconciliation that runs next
    inst,     \* spec.caching in memory
    current,  \* inst is of the current generation
    todo,     \* caches that GardenSecretSyncer.Do has still to visit
    cache,    \* the cache it creates a Secret for
    secrets,  \* the Secrets of the Runtime in the Garden cluster
    shoot,    \* the shoot exists
    ref,      \* the Secret the shoot refers to for a cache
    disturbed \* ghost: a call to the Garden cluster has failed, or KIM has restarted

userVars == <<want, removed, module>>
kcpVars == <<config, life, spec, stale, pending, queued>>
memVars == <<pc, inst, current, todo, cache>>
gardenVars == <<secrets, shoot, ref>>
vars == <<userVars, kcpVars, memVars, gardenVars, disturbed>>

Versions == 1..MaxVersion

Caching == [Caches -> Versions \cup {None}]

Secret == [uid: Caches, data: Versions, dirty: BOOLEAN]

\* Absent is told from every Secret.
ASSUME NoneAssumption == None \notin Secret

Steps == {"idle", "sync", "create", "patch", "cleanup", "delete_all"}

TypeOK ==
    /\ want \in Caching /\ removed \subseteq Caches /\ module \in BOOLEAN
    /\ config \in Caching \cup {None}
    /\ life \in {"alive", "deleting", "gone"}
    /\ spec \in Caching /\ inst \in Caching
    /\ {stale, pending, queued, current, shoot} \subseteq BOOLEAN
    /\ pc \in Steps /\ todo \subseteq Caches
    /\ cache \in Caches \cup {None}
    /\ pc = "create" => cache \in Caches
    /\ secrets \in [Names -> Secret \cup {None}]
    /\ ref \in [Caches -> Names \cup {None, Missing}]
    /\ disturbed \in BOOLEAN

NoCaches == [u \in Caches |-> None]

Init ==
    /\ want = NoCaches /\ removed = {} /\ module = TRUE
    /\ config = None /\ life = "alive" /\ spec = NoCaches
    /\ stale = FALSE /\ pending = FALSE /\ queued = FALSE
    /\ pc = "idle" /\ inst = NoCaches /\ current = FALSE /\ todo = {} /\ cache = None
    /\ secrets = [n \in Names |-> None] /\ shoot = TRUE /\ ref = NoCaches
    /\ disturbed = FALSE

Fault == "api" \in Trouble

-----------------------------------------------------------------------------
(* Users.                                                                   *)

configured == IF module THEN want ELSE NoCaches

\* Everything the users asked for has been applied.
Settled ==
    /\ pc = "idle" /\ ~queued /\ ~stale /\ ~pending
    /\ config = None /\ spec = configured

UserMayAct == life = "alive" /\ ("overlap" \notin Trouble => Settled)

Configure(u) ==
    /\ UserMayAct /\ u \notin removed
    /\ \/ want[u] = None /\ want' = [want EXCEPT ![u] = 1] /\ UNCHANGED removed
       \/ /\ want[u] # None
          /\ \/ /\ want[u] < MaxVersion
                /\ want' = [want EXCEPT ![u] = @ + 1]
                /\ UNCHANGED removed
             \/ /\ "revert" \in Trouble /\ want[u] > 1
                /\ want' = [want EXCEPT ![u] = @ - 1]
                /\ UNCHANGED removed
             \/ /\ want' = [want EXCEPT ![u] = None]
                /\ removed' = removed \cup {u}
    /\ UNCHANGED <<module, kcpVars, memVars, gardenVars, disturbed>>

SwitchModule ==
    /\ "module" \in Trouble /\ UserMayAct
    /\ module' = ~module
    /\ UNCHANGED <<want, removed, kcpVars, memVars, gardenVars, disturbed>>

DeleteRuntime ==
    /\ life = "alive"
    /\ life' = "deleting" /\ queued' = TRUE
    /\ UNCHANGED <<userVars, config, spec, stale, pending, memVars, gardenVars, disturbed>>

-----------------------------------------------------------------------------
(* The registry cache controller.  An event from the cluster, or the end of  *)
(* ReconcilePeriod, starts it at any time.                                   *)

fetchConfigs ==
    /\ config = None /\ life = "alive"
    /\ configured # spec
    /\ config' = configured
    /\ UNCHANGED <<userVars, life, spec, stale, pending, queued, memVars, gardenVars, disturbed>>

\* Reads the Runtime anew and updates it if the configuration differs; an error
\* is retried from the start.
updateRuntime ==
    /\ config # None
    /\ config' = None
    /\ \/ /\ life # "gone" /\ config # spec
          /\ spec' = config
          /\ stale' = TRUE /\ queued' = TRUE
          /\ current' = FALSE
       \/ /\ life = "gone" \/ config = spec \/ Fault
          /\ UNCHANGED <<spec, stale, queued, current>>
    /\ UNCHANGED <<userVars, life, pending, pc, inst, todo, cache, gardenVars, disturbed>>

-----------------------------------------------------------------------------
(* The Runtime controller.                                                  *)

\* The Runtime is queued again, at once or later.
Requeue ==
    /\ pc' = "idle" /\ inst' = NoCaches /\ current' = FALSE /\ todo' = {} /\ cache' = None
    /\ queued' = TRUE

anyCaches(caching) == DOMAIN caching  \* mutant: caches without credentials too

\* getRegistryCachesWithSecret
cachesWithSecret(caching) == {u \in Caches : caching[u] # None}

SecretsOf(u) == {n \in Names : secrets[n] # None /\ secrets[n].uid = u}

\* sFnInitialize and sFnSelectShootProcessing.
Reconcile ==
    /\ pc = "idle" /\ queued /\ life # "gone"
    /\ inst' = spec /\ current' = TRUE
    /\ queued' = FALSE
    /\ \/ /\ life = "alive" /\ stale
          /\ pc' = "sync" /\ todo' = cachesWithSecret(spec)
          /\ UNCHANGED <<shoot, ref>>
       \/ /\ life = "alive" /\ ~stale
          /\ pc' = IF pending THEN "cleanup" ELSE "idle"
          /\ UNCHANGED <<todo, shoot, ref>>
       \/ /\ life = "deleting" /\ shoot
          /\ shoot' = FALSE /\ ref' = NoCaches      \* some reconciliations later
          /\ pc' = "delete_all" /\ UNCHANGED todo
       \/ /\ life = "deleting" /\ ~shoot
          /\ pc' = "delete_all" /\ UNCHANGED <<todo, shoot, ref>>
    /\ UNCHANGED <<userVars, config, life, spec, stale, pending, secrets, cache, disturbed>>

\* A failing call: the Runtime becomes Pending and is requeued.
Fails ==
    /\ pending' = TRUE /\ disturbed' = TRUE
    /\ Requeue
    /\ UNCHANGED gardenVars

\* The items of a List come in the order of their names, which are random.
First(ns) == Min(ns)
Last(ns) == Max(ns)

skipUnchanged(u, n) == secrets[n].uid = u  \* mutant: any Secret of the cache will do

\* secretDataEqual of a garden Secret and the one that the cache refers to.
secretDataEqual(u, n) == secrets[n].data = inst[u]

\* GardenSecretSyncer.Do for one cache: nothing to do, or no Secret yet, or
\* replaceSecretInGardenCluster, which labels the old Secret first.
Do ==
    /\ pc = "sync"
    /\ \/ \E u \in todo :
            LET found == SecretsOf(u)
                first == First(found)
            IN  /\ todo' = todo \ {u}
                /\ \/ /\ found = {}
                      /\ pc' = "create" /\ cache' = u /\ UNCHANGED secrets
                   \/ /\ found # {} /\ secretDataEqual(u, first)
                      /\ UNCHANGED <<pc, cache, secrets>>
                   \/ /\ found # {} /\ ~secretDataEqual(u, first)
                      /\ secrets' = [secrets EXCEPT ![first] = [@ EXCEPT !.dirty = TRUE]]
                      /\ pc' = "create" /\ cache' = u
                /\ UNCHANGED <<shoot, ref, inst, current, queued, pending, disturbed>>
       \/ /\ todo = {}
          /\ pc' = "patch"
          /\ UNCHANGED <<gardenVars, todo, cache, inst, current, queued, pending, disturbed>>
       \/ Fault /\ Fails
    /\ UNCHANGED <<userVars, config, life, spec, stale>>

\* newGardenSecret and Create.
Create ==
    /\ pc = "create"
    /\ \/ /\ \E n \in Names :
               /\ secrets[n] = None
               /\ secrets' = [secrets EXCEPT ![n] =
                                [uid |-> cache, data |-> inst[cache], dirty |-> FALSE]]
          /\ pc' = "sync" /\ cache' = None
          /\ UNCHANGED <<shoot, ref, todo, inst, current, queued, pending, disturbed>>
       \/ Fault /\ Fails
    /\ UNCHANGED <<userVars, config, life, spec, stale>>

withDirtySecrets(u) == SecretsOf(u)  \* mutant: the dirty label is not looked at

\* GetCacheUIDToSecretNameMap: later items of the List overwrite earlier ones.
usableSecrets(u) == {n \in SecretsOf(u) : ~secrets[n].dirty}

SecretName(u) == IF usableSecrets(u) = {} THEN Missing ELSE Last(usableSecrets(u))

\* sFnPatchExistingShoot.  If the shoot has changed, the Runtime is reconciled
\* again once Gardener is done; if not, the reconciliation goes on.
Patch ==
    LET new == [u \in Caches |-> IF inst[u] = None THEN None ELSE SecretName(u)]
    IN  /\ pc = "patch"
        /\ \/ /\ ref' = new
              /\ stale' = ~current
              /\ pending' = TRUE
              /\ \/ Requeue
                 \/ /\ new = ref /\ pc' = "cleanup"
                    /\ UNCHANGED <<queued, inst, current, todo, cache>>
              /\ UNCHANGED <<secrets, shoot, disturbed>>
           \/ Fault /\ Fails /\ UNCHANGED stale
        /\ UNCHANGED <<userVars, config, life, spec>>

unused(n) == secrets[n].dirty \/ secrets[n].uid \notin cachesWithSecret(inst)

\* sFnCleanupRegistryCacheGardenSecrets: DeleteUnused, one Secret at a time, then
\* the rest of the reconciliation, which makes the Runtime Ready.
Cleanup ==
    /\ pc = "cleanup"
    /\ \/ /\ \E n \in Names :
               secrets[n] # None /\ unused(n) /\ secrets' = [secrets EXCEPT ![n] = None]
          /\ UNCHANGED <<shoot, ref, memVars, queued, pending, disturbed>>
       \/ /\ \A n \in Names : secrets[n] # None => ~unused(n)
          /\ pending' = FALSE
          /\ pc' = "idle" /\ inst' = NoCaches /\ current' = FALSE
          /\ UNCHANGED <<gardenVars, todo, cache, queued, disturbed>>
       \/ Fault /\ Fails
    /\ UNCHANGED <<userVars, config, life, spec, stale>>

deleteFails == Fault /\ life' = "gone" /\ pc' = "idle" /\ queued' = FALSE  \* mutant: goes on
                 /\ inst' = NoCaches /\ current' = FALSE /\ UNCHANGED <<gardenVars, pending, todo, cache, disturbed>>

\* An error of DeleteAll keeps the finalizer.
deleteAllFails == Fault /\ Fails /\ UNCHANGED life

\* DeleteAll, and the finalizer of the Runtime.
DeleteAll ==
    /\ pc = "delete_all"
    /\ \/ /\ \E n \in Names : secrets[n] # None /\ secrets' = [secrets EXCEPT ![n] = None]
          /\ UNCHANGED <<shoot, ref, life, memVars, queued, pending, disturbed>>
       \/ /\ \A n \in Names : secrets[n] = None
          /\ life' = "gone"
          /\ pc' = "idle" /\ inst' = NoCaches /\ current' = FALSE
          /\ UNCHANGED <<gardenVars, todo, cache, queued, pending, disturbed>>
       \/ deleteAllFails
    /\ UNCHANGED <<userVars, config, spec, stale>>

Restart ==
    /\ "restart" \in Trouble /\ life # "gone"
    /\ Requeue
    /\ config' = None /\ disturbed' = TRUE
    /\ UNCHANGED <<userVars, life, spec, stale, pending, gardenVars>>

Next ==
    \/ \E u \in Caches : Configure(u)
    \/ SwitchModule \/ DeleteRuntime
    \/ fetchConfigs \/ updateRuntime
    \/ Reconcile \/ Do \/ Create \/ Patch \/ Cleanup \/ DeleteAll
    \/ Restart

Spec == Init /\ [][Next]_vars

-----------------------------------------------------------------------------
(* Properties.                                                              *)

\* The shoot only ever refers to Secrets that exist and belong to the cache:
\* replacing a Secret, patching the shoot and deleting the old Secret happen in
\* several reconciliations, any of which may fail half way.
NoDanglingReference ==
    \A u \in Caches : ref[u] # None =>
        ref[u] \in Names /\ secrets[ref[u]] # None /\ secrets[ref[u]].uid = u

\* When all is applied, the shoot uses the credentials that users configured, and
\* no Secret of a removed cache is left (as long as no call fails: a failure behind
\* replaceSecretInGardenCluster leaves two usable Secrets).
InSync ==
    Settled /\ life = "alive" /\ ~disturbed =>
        \A u \in Caches :
            IF configured[u] = None
            THEN ref[u] = None /\ SecretsOf(u) = {}
            ELSE ref[u] \in Names /\ secrets[ref[u]].data = configured[u]

\* With the Runtime, all its Secrets are gone from the Garden cluster.
NothingLeft == life = "gone" => \A n \in Names : secrets[n] = None
=============================================================================
