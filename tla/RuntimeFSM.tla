----------------------------- MODULE RuntimeFSM -----------------------------
(***************************************************************************)
(* The Runtime controller: the state machine of                            *)
(* internal/controller/runtime/fsm that reconciles one Runtime CR into a   *)
(* Gardener shoot.  The workqueue never runs two reconciliations of one    *)
(* Runtime at once, so one Runtime is the whole story; what moves between  *)
(* its state functions is everything else: users, Gardener, the            *)
(* GardenerCluster controller, the informer cache, and a restart of KIM.   *)
(*                                                                         *)
(* There is one action per state function (sFn...), more where a function  *)
(* writes several objects.  The Runtime is read from the informer cache    *)
(* and written with the resourceVersion that was read; the shoot is read   *)
(* and patched without a cache.                                            *)
(***************************************************************************)
EXTENDS Naturals, Sequences

CONSTANTS
    MaxGen,      \* bound: generations users create by editing the spec
    MaxWatchLag, \* bound: versions of the Runtime the cache may trail behind
    Dedicated,   \* is dedicated audit logging enabled, globally and for the Runtime?
    Caching,     \* does the Runtime configure registry caches?
    Scenarios,   \* sets of Troubles: what the environment does, in a behaviour, besides
                 \* deletion is one of them
    Gone,        \* the Runtime does not exist
    NoShoot      \* the shoot does not exist

\* "edit": users edit the spec; "force", "suspend": they set annotations; "writeback":
\* the conversion changes the spec in memory (image versions, maxPods) and the Update
\* that removes the force annotation writes it back; "api": calls to API servers fail; "restart": KIM restarts; "gardener": operations of Gardener
\* fail and are repeated; "kubeconfig": the GardenerCluster CR leaves its Ready
\* state; "migrate": Gardener migrates the control plane; "slow": the cache may trail
\* longer than a RequeueAfter delay; "gclag": the cache trails for the GardenerCluster
\* CR too.  With "calm" all of this ceases at some time, which only liveness asks for.
Troubles == {"edit", "api", "restart", "gardener", "kubeconfig", "force", "writeback",
             "suspend", "migrate", "slow", "gclag", "calm"}

ASSUME FSMAssumption ==
    /\ MaxGen \in Nat \ {0} /\ MaxWatchLag \in Nat \ {0}
    /\ {Dedicated, Caching} \subseteq BOOLEAN
    /\ Scenarios \subseteq SUBSET Troubles

VARIABLES
    rt,       \* the Runtime on the KCP API server
    cache,    \* the informer's copy of it
    watch,    \* later versions, not yet delivered to the cache
    queued,   \* the workqueue holds the Runtime
    timer,    \* it will be added again after a delay (RequeueAfter)
    shoot,    \* the shoot on the Gardener API server
    gc,       \* the GardenerCluster CR and ...
    gcCache,  \* ... the informer's copy of it
    admins,   \* the generation whose administrators are bound in the cluster
    pc,       \* the state function that runs next
    inst,     \* systemState.instance
    snap,     \* systemState.snapshot, the status that was read
    fresh,    \* inst carries the current resourceVersion
    sh,       \* systemState.shoot
    shFresh,  \* sh carries the current resourceVersion
    changed,  \* this reconciliation has raised the shoot's generation
    res,      \* the result sFnUpdateStatus was built with
    calm,     \* no more edits, restarts, API errors or infrastructure failures
    trouble   \* what the environment does, constant

kcpVars == <<rt, cache, watch>>
memVars == <<inst, snap, fresh, sh, shFresh, changed, res>>
env == <<calm, trouble>>
vars == <<kcpVars, queued, timer, shoot, gc, gcCache, admins, pc, memVars, env>>

Gens == 0..(MaxGen + 1)

\* Conditions of the status that some state function tests: Provisioned,
\* KubeconfigReady, RegistryCacheConfigured, Deprovisioned.  "other" stands for
\* every reason and status that no test singles out.
Conditions == {"prov", "kube", "cache", "depr"}
Reasons == {"none", "other", "ok", "created", "configured"}

Status == [state: {"", "Pending", "Ready", "Failed", "Terminating"},
           done: BOOLEAN, cond: [Conditions -> Reasons]]

\* w is the last generation that changed a collection: workers or extensions.
Runtime == [gen: Gens, w: Gens, del: BOOLEAN, fin: BOOLEAN, force: BOOLEAN,
            susp: BOOLEAN, st: Status]

\* applied is the runtime-generation annotation (0: none), dirty says that the
\* shoot's generation is above its observedGeneration, op and opState are its
\* last operation ("Retryable": Error, Aborted, or Failed with errors that
\* IsRetryable accepts), binding that it still uses the old SecretBinding.
Shoot == [applied: Gens, w: Gens, audit: BOOLEAN, binding: BOOLEAN,
          dirty: BOOLEAN, op: {"none", "Create", "Reconcile", "Migrate"},
          opState: {"none", "NoSeeds", "Processing", "Retryable", "Fatal", "Succeeded"},
          confirmed: BOOLEAN, del: BOOLEAN]

\* "Not found" is told from every object.
ASSUME AbsentAssumption == Gone \notin Runtime /\ NoShoot \notin Shoot

\* RequeueAfter, Requeue, an error, or none of them.
Results == {"after", "requeue", "error", "stop"}

StateFns == {"take_snapshot", "initialize", "create_shoot", "select", "wait_creation",
    "wait_reconcile", "sync_cache", "patch", "patch_binding", "patch_apply",
    "patch_done", "kubeconfig", "namespace", "bootstrapper", "cleanup_cache",
    "configure_skr", "crb", "migrate", "copy_credentials", "delete_kubeconfig",
    "delete_shoot", "update_status"}

TypeOK ==
    /\ rt \in Runtime \cup {Gone} /\ cache \in Runtime \cup {Gone}
    /\ watch \in Seq(Runtime \cup {Gone})
    /\ queued \in BOOLEAN /\ timer \in BOOLEAN /\ calm \in BOOLEAN /\ trouble \in Scenarios
    /\ shoot \in Shoot \cup {NoShoot} /\ sh \in Shoot \cup {NoShoot}
    /\ gc \in {"none", "new", "ready", "deleting"}
    /\ gcCache \in {"none", "new", "ready", "deleting"}
    /\ admins \in Gens
    /\ pc \in StateFns \cup {"idle"}
    /\ inst \in Runtime \cup {Gone}
    /\ pc # "idle" => inst \in Runtime
    /\ snap \in Status
    /\ fresh \in BOOLEAN /\ shFresh \in BOOLEAN /\ changed \in BOOLEAN
    /\ res \in Results

NoStatus == [state |-> "", done |-> FALSE, cond |-> [c \in Conditions |-> "none"]]

NewRuntime == [gen |-> 1, w |-> 1, del |-> FALSE, fin |-> FALSE, force |-> FALSE,
               susp |-> FALSE, st |-> NoStatus]

\* The value of the annotation that records what a shoot was made from.
runtimeGeneration(r) == r.gen

NewShoot(r) == [applied |-> runtimeGeneration(r), w |-> r.w, audit |-> FALSE, binding |-> FALSE,
                dirty |-> TRUE, op |-> "none", opState |-> "none",
                confirmed |-> FALSE, del |-> FALSE]

\* A Runtime that an earlier version of KIM has made ready.
OldRuntime ==
    [NewRuntime EXCEPT !.fin = TRUE,
        !.st = [state |-> "Ready", done |-> TRUE,
                cond |-> [NoStatus.cond EXCEPT !["prov"] = "configured", !["kube"] = "ok"]]]

OldShoot ==
    [NewShoot(OldRuntime) EXCEPT !.binding = TRUE, !.dirty = FALSE,
        !.op = "Reconcile", !.opState = "Succeeded"]

Init ==
    /\ \/ rt = NewRuntime /\ shoot = NoShoot /\ gc = "none" /\ admins = 0
       \/ rt = OldRuntime /\ shoot = OldShoot /\ gc = "ready" /\ admins = 1
    /\ cache = rt /\ watch = <<>> /\ gcCache = gc
    /\ queued = TRUE /\ timer = FALSE /\ calm = FALSE /\ trouble \in Scenarios
    /\ pc = "idle" /\ inst = Gone /\ snap = NoStatus /\ fresh = FALSE
    /\ sh = NoShoot /\ shFresh = FALSE /\ changed = FALSE /\ res = "stop"

-----------------------------------------------------------------------------
(* The KCP API server and the informer.                                     *)

WriteRuntime(o) ==
    /\ Len(watch) < MaxWatchLag
    /\ rt' = o
    /\ watch' = Append(watch, o)
    /\ UNCHANGED cache

\* The event filter: generation or annotations differ, or the object is deleted.
Triggers(old, new) ==
    \/ new = Gone
    \/ <<old.gen, old.force, old.susp>> # <<new.gen, new.force, new.susp>>

CacheSync ==
    /\ watch # <<>>
    /\ cache' = Head(watch)
    /\ watch' = Tail(watch)
    /\ queued' = (queued \/ Triggers(cache, Head(watch)))
    /\ UNCHANGED <<rt, timer, shoot, gc, gcCache, admins, pc, memVars, env>>

\* Any call may fail until the environment calms down.
Fault == ~calm /\ "api" \in trouble

-----------------------------------------------------------------------------
(* The plumbing of the state machine.                                       *)

Goto(fn) == pc' = fn

ReturnErrorSwallowed(r) ==  \* mutant: an error of the status update is not retried
    /\ pc' = "idle" /\ inst' = Gone /\ snap' = NoStatus /\ fresh' = FALSE
    /\ sh' = NoShoot /\ shFresh' = FALSE /\ changed' = FALSE /\ res' = "stop"
    /\ timer' = (timer \/ r = "after")
    /\ queued' = (queued \/ r = "requeue")

\* The reconciliation ends and its memory is dropped.
Return(r) ==
    /\ pc' = "idle" /\ inst' = Gone /\ snap' = NoStatus /\ fresh' = FALSE
    /\ sh' = NoShoot /\ shFresh' = FALSE /\ changed' = FALSE /\ res' = "stop"
    /\ timer' = (timer \/ r = "after")
    /\ queued' = (queued \/ r \in {"requeue", "error"})

\* updateStatusAndRequeueAfter, updateStatusAndStop, updateStatusAndStopWithError
UpdateStatusAnd(r, st) ==
    /\ inst' = [inst EXCEPT !.st = st]
    /\ res' = r
    /\ Goto("update_status")
    /\ UNCHANGED <<queued, timer, snap, fresh, sh, shFresh, changed>>

\* UpdateStateX with a condition, and with one that nothing tests.
With(state, c, v) ==
    [inst.st EXCEPT !.state = state, !.cond = [@ EXCEPT ![c] = v]]

StateOnly(state) == [inst.st EXCEPT !.state = state]

\* switchState(fn), with the status changed in memory.
Continue(fn, st) ==
    /\ inst' = [inst EXCEPT !.st = st]
    /\ Goto(fn)
    /\ UNCHANGED <<queued, timer, snap, fresh, sh, shFresh, changed, res>>

\* ensureStatusConditionIsSetAndContinue
EnsurePending(c, v, next) ==
    \/ inst.st.state = "Pending" /\ inst.st.cond[c] = v /\ Continue(next, inst.st)
    \/ /\ ~(inst.st.state = "Pending" /\ inst.st.cond[c] = v)
       /\ UpdateStatusAnd("after", With("Pending", c, v))

ReconcileUnchecked ==  \* mutant: NotFound is not looked at
    /\ pc = "idle" /\ queued
    /\ queued' = FALSE
    /\ Goto("take_snapshot")
    /\ inst' = cache /\ snap' = NoStatus
    /\ fresh' = (watch = <<>>)
    /\ UNCHANGED <<kcpVars, timer, shoot, gc, gcCache, admins, sh, shFresh, changed, res, env>>

\* A worker takes the Runtime from the queue and reads it from the cache.
Reconcile ==
    /\ pc = "idle" /\ queued
    /\ queued' = FALSE
    /\ IF cache = Gone
       THEN UNCHANGED <<pc, inst, snap, fresh>>
       ELSE /\ Goto("take_snapshot")
            /\ inst' = cache /\ snap' = cache.st
            /\ fresh' = (watch = <<>>)
    /\ UNCHANGED <<kcpVars, timer, shoot, gc, gcCache, admins, sh, shFresh, changed, res, env>>

sFnTakeSnapshot ==
    /\ pc = "take_snapshot"
    /\ \/ Fault /\ UpdateStatusAnd("after", inst.st)
       \/ /\ sh' = shoot /\ shFresh' = TRUE
          /\ Goto("initialize")
          /\ UNCHANGED <<queued, timer, inst, snap, fresh, changed, res>>
    /\ UNCHANGED <<kcpVars, shoot, gc, gcCache, admins, env>>

noConflictIgnored == rt # Gone  \* mutant: the status is patched, not updated

\* The resourceVersion that was read is still the current one.
noConflict == fresh

\* Nothing is written when the status equals the snapshot; it may still be
\* written when only parts of it that the model leaves out have changed.
sFnUpdateStatus ==
    /\ pc = "update_status"
    /\ \/ inst.st = snap /\ Return(res) /\ UNCHANGED kcpVars
       \/ noConflict /\ WriteRuntime([rt EXCEPT !.st = inst.st]) /\ Return(res)
       \/ (~noConflict \/ Fault) /\ Return("error") /\ UNCHANGED kcpVars
    /\ UNCHANGED <<shoot, gc, gcCache, admins, env>>

-----------------------------------------------------------------------------
(* sFnInitialize and the choice of what to do with the shoot.               *)

\* KcpClient.Update of the Runtime read, changed to o: onOk or, on a conflict
\* or an error, onErr.
UpdateRuntime(o, onOk, onErr) ==
    \/ noConflict /\ WriteRuntime(o) /\ onOk
    \/ (~noConflict \/ Fault) /\ UNCHANGED kcpVars /\ onErr

shootGoneEarly == ~(sh # NoShoot /\ ~sh.del)  \* mutant: a shoot being deleted counts as gone

shootGone == sh = NoShoot

sFnInitialize ==
    /\ pc = "initialize"
    /\ \/ /\ ~inst.del /\ ~inst.fin
          /\ UpdateRuntime([rt EXCEPT !.fin = TRUE], Return("requeue"),
                           UpdateStatusAnd("error", inst.st))
       \/ /\ inst.del /\ ~shootGone
          /\ Continue("delete_kubeconfig", inst.st) /\ UNCHANGED kcpVars
       \/ /\ inst.del /\ shootGone /\ Fault              \* registry cache secrets
          /\ UpdateStatusAnd("after", inst.st) /\ UNCHANGED kcpVars
       \/ /\ inst.del /\ shootGone /\ inst.fin
          /\ UpdateRuntime(Gone, Return("stop"), UpdateStatusAnd("error", inst.st))
       \/ /\ ~inst.del /\ inst.fin /\ sh = NoShoot /\ inst.st.cond["prov"] = "none"
          /\ UpdateStatusAnd("after", With("Pending", "prov", "other"))
          /\ UNCHANGED kcpVars
       \/ /\ ~inst.del /\ inst.fin /\ sh = NoShoot /\ inst.st.cond["prov"] # "none"
          /\ Continue("create_shoot", inst.st) /\ UNCHANGED kcpVars
       \/ /\ ~inst.del /\ inst.fin /\ sh # NoShoot
          /\ Continue("select", inst.st) /\ UNCHANGED kcpVars
    /\ UNCHANGED <<shoot, gc, gcCache, admins, env>>

\* Failures before the shoot is created stop (seed, audit log, OIDC, conversion)
\* or are retried; an error of Create itself may hide a shoot that was created.
sFnCreateShoot ==
    /\ pc = "create_shoot"
    /\ \/ /\ shoot' = NewShoot(inst)
          /\ UpdateStatusAnd("after", With("Pending", "prov", "other"))
       \/ /\ Fault /\ UNCHANGED shoot
          /\ \/ UpdateStatusAnd("stop", With("Failed", "prov", "other"))
             \/ UpdateStatusAnd("after", With("Pending", "prov", "other"))
    /\ UNCHANGED <<kcpVars, gc, gcCache, admins, env>>

shouldPatchOnce ==  \* mutant: the force annotation is not looked at
    ~inst.susp /\ sh.applied < inst.gen

shouldPatchShoot == ~inst.susp /\ (inst.force \/ sh.applied < inst.gen)

shootMidReconcile == sh.dirty \/ sh.opState \in {"NoSeeds", "Processing"}

sFnSelectShootProcessing ==
    /\ pc = "select"
    /\ \/ /\ sh.op = "none" \/ Fault                     \* or unreadable annotation
          /\ Return("after")
       \/ sh.op # "none" /\ shouldPatchShoot /\ Continue("sync_cache", inst.st)
       \/ /\ sh.op # "none" /\ ~shouldPatchShoot
          /\ \/ /\ inst.st.state \in {"Pending", ""}
                /\ \/ sh.op = "Create" /\ Continue("wait_creation", inst.st)
                   \/ sh.op = "Reconcile" /\ Continue("wait_reconcile", inst.st)
                   \/ sh.op = "Migrate" /\ Return("stop")
             \/ /\ inst.st.state \in {"Ready", "Failed"} /\ shootMidReconcile
                /\ \/ sh.op = "Create" /\ Continue("wait_creation", inst.st)
                   \/ sh.op # "Create" /\ Continue("wait_reconcile", inst.st)
             \/ /\ \/ inst.st.state \in {"Ready", "Failed"} /\ ~shootMidReconcile
                   \/ inst.st.state = "Terminating"
                /\ Return("stop")
    /\ UNCHANGED <<kcpVars, shoot, gc, gcCache, admins, env>>

WaitFor(fn, reason) ==
    /\ pc = fn
    /\ \/ /\ sh.opState \in {"Processing", "Retryable"}
          /\ UpdateStatusAnd("after", With("Pending", "prov", "other"))
       \/ sh.opState = "Fatal" /\ UpdateStatusAnd("stop", With("Failed", "prov", "other"))
       \/ sh.opState = "Succeeded" /\ EnsurePending("prov", reason, "kubeconfig")
       \/ /\ sh.opState = "NoSeeds"                      \* a Pending operation
          /\ IF fn = "wait_creation"
             THEN UpdateStatusAnd("stop", With("Failed", "prov", "other"))
             ELSE UpdateStatusAnd("after", With("Pending", "prov", "other"))
    /\ UNCHANGED <<kcpVars, shoot, gc, gcCache, admins, env>>

sFnWaitForShootCreation == WaitFor("wait_creation", "created")

sFnWaitForShootReconcile == WaitFor("wait_reconcile", "configured")

-----------------------------------------------------------------------------
(* Patching the shoot.                                                      *)

\* A failing status update of the caches in the cluster is requeued as it is.
sFnSyncRegistryCacheGardenSecrets ==
    /\ pc = "sync_cache"
    /\ \/ Continue("patch", inst.st)
       \/ /\ Caching /\ Fault
          /\ \/ UpdateStatusAnd("after", With("Pending", "cache", "other"))
             \/ Return("requeue")
    /\ UNCHANGED <<kcpVars, shoot, gc, gcCache, admins, env>>

\* A write to the shoot: its generation rises if the spec changes.
WriteShoot(s, bump, next) ==
    /\ shoot' = [s EXCEPT !.dirty = @ \/ bump]
    /\ shFresh' = FALSE
    /\ changed' = (changed \/ bump)
    /\ Goto(next)
    /\ UNCHANGED <<queued, timer, inst, snap, fresh, sh, res>>

ignoreUpdateError(errors) ==  \* mutant: goes on with the patch after a failed Update
    errors # {} /\ Continue("patch_apply", inst.st)

handleUpdateError(errors) ==
    \/ /\ "retryable" \in errors                         \* conflict, forbidden
       /\ UpdateStatusAnd("after", With("Pending", "prov", "other"))
    \/ "fatal" \in errors /\ UpdateStatusAnd("stop", With("Failed", "prov", "other"))

\* GardenClient.Update of the shoot that was read at the start.
UpdateShoot(s, next) ==
    \/ shFresh /\ WriteShoot(s, TRUE, next)
    \/ ~shFresh /\ UNCHANGED shoot /\ handleUpdateError({"retryable"})
    \/ Fault /\ UNCHANGED shoot /\ handleUpdateError({"retryable", "fatal"})
    \/ Fault /\ shFresh /\ shoot' = [s EXCEPT !.dirty = TRUE] /\ handleUpdateError({"fatal"})

\* Audit log data, structured authentication and conversion, then the Update
\* that replaces the collections which an apply patch cannot shrink.
sFnPatchExistingShoot ==
    /\ pc = "patch"
    /\ \/ sh.w = inst.w /\ Continue("patch_binding", inst.st) /\ UNCHANGED shoot
       \/ /\ sh.w # inst.w
          /\ UpdateShoot([shoot EXCEPT !.w = inst.w], "patch_binding")
       \/ /\ Fault /\ UNCHANGED shoot
          /\ \/ UpdateStatusAnd("stop", With("Failed", "prov", "other"))
             \/ UpdateStatusAnd("after", With("Pending", "prov", "other"))
    /\ UNCHANGED <<kcpVars, gc, gcCache, admins, env>>

\* The Update that replaces SecretBinding by CredentialsBinding.
PatchBinding ==
    /\ pc = "patch_binding"
    /\ \/ ~sh.binding /\ Continue("patch_apply", inst.st) /\ UNCHANGED shoot
       \/ /\ sh.binding
          /\ UpdateShoot([shoot EXCEPT !.binding = FALSE], "patch_apply")
    /\ UNCHANGED <<kcpVars, gc, gcCache, admins, env>>

\* The forced server-side apply, which looks at no resourceVersion.
PatchApply ==
    LET s == [shoot EXCEPT !.applied = runtimeGeneration(inst), !.audit = Dedicated]
    IN  /\ pc = "patch_apply"
        /\ \/ \E bump \in BOOLEAN : WriteShoot(s, bump, "patch_done")
           \/ Fault /\ UNCHANGED shoot /\ handleUpdateError({"retryable", "fatal"})
           \/ Fault /\ shoot' = [s EXCEPT !.dirty = TRUE] /\ handleUpdateError({"fatal"})
        /\ UNCHANGED <<kcpVars, gc, gcCache, admins, env>>

\* handleForceReconciliationAnnotation, whose Update replaces inst by the answer
\* of the API server, then the comparison of the shoot's generations.  The Update is
\* of the whole Runtime in memory, so a spec that the conversion changed (through the
\* pointers that it shares with the shoot) becomes a new generation.
PatchDone ==
    LET go(i) ==
          LET st == [i.st EXCEPT !.state = "Pending", !.cond = [@ EXCEPT !["prov"] = "other"]]
          IN  /\ inst' = [i EXCEPT !.st = st]
              /\ IF changed THEN Goto("update_status") /\ res' = "after"
                            ELSE Goto("kubeconfig") /\ UNCHANGED res
              /\ UNCHANGED <<queued, timer, snap, fresh, sh, shFresh, changed>>
        written(gen) == [rt EXCEPT !.force = FALSE, !.gen = gen]
        gens == {rt.gen} \cup {g \in {rt.gen + 1} : "writeback" \in trouble /\ g <= MaxGen}
    IN  /\ pc = "patch_done"
        /\ \/ ~inst.force /\ go(inst) /\ UNCHANGED kcpVars
           \/ inst.force /\ \E g \in gens : UpdateRuntime(written(g), go(written(g)), Return("requeue"))
        /\ UNCHANGED <<shoot, gc, gcCache, admins, env>>

-----------------------------------------------------------------------------
(* Kubeconfig and the configuration of the cluster.                         *)

gcReadEarly == IF gc = "deleting" THEN "none" ELSE gc  \* mutant: being deleted is deleted

\* KcpClient.Get of the GardenerCluster CR.
gcRead == IF "gclag" \in trouble THEN gcCache ELSE gc

sFnHandleKubeconfig ==
    /\ pc = "kubeconfig"
    /\ \/ /\ Fault \/ (gcRead = "none" /\ gc # "none")   \* AlreadyExists
          /\ UpdateStatusAnd("stop", With("Failed", "kube", "other")) /\ UNCHANGED gc
       \/ /\ gcRead = "none" /\ gc = "none"
          /\ gc' = "new"
          /\ UpdateStatusAnd("after", With("Pending", "kube", "other"))
       \/ gcRead \in {"new", "deleting"} /\ Return("after") /\ UNCHANGED gc
       \/ gcRead = "ready" /\ EnsurePending("kube", "ok", "namespace") /\ UNCHANGED gc
    /\ UNCHANGED <<kcpVars, shoot, gcCache, admins, env>>

\* A step in the cluster that succeeds or leaves the Runtime Pending.
ClusterStep(fn, next) ==
    /\ pc = fn
    /\ \/ Continue(next, StateOnly("Pending"))
       \/ Fault /\ UpdateStatusAnd("after", StateOnly("Pending"))
    /\ UNCHANGED <<kcpVars, shoot, gc, gcCache, admins, env>>

sFnCreateKymaNamespace == ClusterStep("namespace", "bootstrapper")

\* Installation takes several reconciliations and may fail for good.
sFnInitializeRuntimeBootstrapper ==
    \/ ClusterStep("bootstrapper", "cleanup_cache")
    \/ /\ pc = "bootstrapper" /\ Fault
       /\ UpdateStatusAnd("stop", StateOnly("Failed"))
       /\ UNCHANGED <<kcpVars, shoot, gc, gcCache, admins, env>>

sFnCleanupRegistryCacheGardenSecrets ==
    /\ pc = "cleanup_cache"
    /\ \/ ~Caching /\ Continue("configure_skr", inst.st)
       \/ Caching /\ EnsurePending("cache", "ok", "configure_skr")
       \/ Caching /\ Fault /\ UpdateStatusAnd("after", With("Pending", "cache", "other"))
       \/ Caching /\ Fault /\ Return("requeue")
    /\ UNCHANGED <<kcpVars, shoot, gc, gcCache, admins, env>>

sFnConfigureSKR == ClusterStep("configure_skr", "crb")

sFnApplyClusterRoleBindings ==
    /\ pc = "crb"
    /\ \/ /\ admins' = inst.gen
          /\ IF Dedicated
             THEN Continue("migrate", StateOnly("Pending"))
             ELSE UpdateStatusAnd("stop", [StateOnly("Ready") EXCEPT !.done = TRUE])
       \/ /\ Fault /\ UNCHANGED admins
          /\ UpdateStatusAnd("after", StateOnly("Pending"))
    /\ UNCHANGED <<kcpVars, shoot, gc, gcCache, env>>

sFnMigrateToDedicatedAuditLog ==
    /\ pc = "migrate"
    /\ \/ sh.audit /\ Continue("copy_credentials", StateOnly("Ready")) /\ UNCHANGED shoot
       \/ /\ ~sh.audit
          /\ shoot' = [shoot EXCEPT !.audit = TRUE, !.dirty = TRUE]
          /\ UpdateStatusAnd("after", StateOnly("Pending"))
       \/ /\ Fault /\ UNCHANGED shoot
          /\ \/ UpdateStatusAnd("stop", StateOnly("Failed"))
             \/ ~sh.audit /\ UpdateStatusAnd("after", StateOnly("Pending"))
    /\ UNCHANGED <<kcpVars, gc, gcCache, admins, env>>

sFnCopyAuditLogReadCredentials ==
    /\ pc = "copy_credentials"
    /\ \/ UpdateStatusAnd("stop", [StateOnly("Ready") EXCEPT !.done = TRUE])
       \/ Fault /\ UpdateStatusAnd("after", StateOnly("Pending"))
    /\ UNCHANGED <<kcpVars, shoot, gc, gcCache, admins, env>>

-----------------------------------------------------------------------------
(* Deletion.                                                                *)

sFnDeleteKubeconfig ==
    LET deleted == inst.st.state = "Terminating" /\ inst.st.cond["depr"] = "ok"
    IN  /\ pc = "delete_kubeconfig"
        /\ \/ /\ Fault /\ UNCHANGED gc
              /\ UpdateStatusAnd("stop", StateOnly("Failed"))
           \/ /\ gcRead = "none" /\ UNCHANGED gc
              /\ IF deleted
                 THEN Continue("delete_shoot", inst.st)
                 ELSE UpdateStatusAnd("after", With("Terminating", "depr", "ok"))
           \/ gcRead = "deleting" /\ Return("after") /\ UNCHANGED gc
           \/ /\ gcRead \in {"new", "ready"}
              /\ \/ gc' = IF gc = "none" THEN "none" ELSE "deleting"
                 \/ Fault /\ UNCHANGED gc
              /\ UpdateStatusAnd("after", With("Terminating", "depr", "other"))
        /\ UNCHANGED <<kcpVars, shoot, gcCache, admins, env>>

sFnDeleteShoot ==
    /\ pc = "delete_shoot"
    /\ \/ sh.del /\ UpdateStatusAnd("after", inst.st) /\ UNCHANGED shoot
       \/ ~sh.del /\ ~sh.confirmed /\ Fault /\ Return("requeue") /\ UNCHANGED shoot
       \/ /\ ~sh.del
          /\ \/ shoot' = [shoot EXCEPT !.confirmed = TRUE, !.del = TRUE]
             \/ Fault /\ shoot' = [shoot EXCEPT !.confirmed = TRUE]
          /\ UpdateStatusAnd("after", With("Terminating", "depr", "other"))
    /\ UNCHANGED <<kcpVars, gc, gcCache, admins, env>>

-----------------------------------------------------------------------------
(* Users, and the restart of KIM.                                           *)

\* A user writes the Runtime: whatever the controller holds is stale.
UserWrite(o) ==
    /\ ~calm /\ rt # Gone
    /\ WriteRuntime(o)
    /\ fresh' = FALSE
    /\ UNCHANGED <<queued, timer, shoot, gc, gcCache, admins, pc, inst, snap, sh,
                   shFresh, changed, res, env>>

EditRuntime ==
    /\ "edit" \in trouble /\ rt # Gone /\ ~rt.del /\ rt.gen < MaxGen
    /\ \E w \in {rt.w, rt.gen + 1} : UserWrite([rt EXCEPT !.gen = rt.gen + 1, !.w = w])

\* The API server raises the generation when it sets the deletionTimestamp.
DeleteRuntime ==
    /\ rt # Gone /\ ~rt.del
    /\ UserWrite(IF rt.fin THEN [rt EXCEPT !.del = TRUE, !.gen = rt.gen + 1] ELSE Gone)

Annotate ==
    /\ rt # Gone /\ ~rt.del
    /\ \/ "force" \in trouble /\ ~rt.force /\ UserWrite([rt EXCEPT !.force = TRUE])
       \/ "suspend" \in trouble /\ UserWrite([rt EXCEPT !.susp = ~rt.susp])

\* The new process lists the Runtimes again and queues each of them.
Restart ==
    /\ ~calm /\ "restart" \in trouble
    /\ pc' = "idle" /\ inst' = Gone /\ snap' = NoStatus /\ fresh' = FALSE
    /\ sh' = NoShoot /\ shFresh' = FALSE /\ changed' = FALSE /\ res' = "stop"
    /\ cache' = rt /\ watch' = <<>> /\ gcCache' = gc
    /\ timer' = FALSE /\ queued' = (rt # Gone)
    /\ UNCHANGED <<rt, shoot, gc, admins, env>>

TimerFires ==
    /\ timer /\ (watch # <<>> => "slow" \in trouble)
    /\ timer' = FALSE /\ queued' = TRUE
    /\ UNCHANGED <<kcpVars, shoot, gc, gcCache, admins, pc, memVars, env>>

-----------------------------------------------------------------------------
(* Gardener and the GardenerCluster controller, as KIM sees them.           *)

GardenerWrite(s) ==
    /\ shoot' = s
    /\ shFresh' = FALSE
    /\ UNCHANGED <<kcpVars, queued, timer, gc, gcCache, admins, pc, inst, snap, fresh,
                   sh, changed, res, env>>

\* An operation starts and observes the shoot's generation.
GardenerStart ==
    /\ shoot # NoShoot /\ ~shoot.del /\ shoot.opState # "Processing"
    /\ shoot.opState = "Succeeded" =>
         shoot.dirty \/ shoot.op = "Migrate" \/ (~calm /\ "gardener" \in trouble)
    /\ LET creating == shoot.op = "none" \/ (shoot.op = "Create" /\ shoot.opState # "Succeeded")
           started(op) == [shoot EXCEPT !.op = op, !.opState = "Processing", !.dirty = FALSE]
       IN  \/ GardenerWrite(started(IF creating THEN "Create" ELSE "Reconcile"))
           \/ "migrate" \in trouble /\ ~calm /\ ~creating /\ GardenerWrite(started("Migrate"))

GardenerNoSeeds ==
    /\ ~calm /\ "gardener" \in trouble /\ shoot # NoShoot /\ shoot.op = "none"
    /\ GardenerWrite([shoot EXCEPT !.op = "Create", !.opState = "NoSeeds"])

GardenerFinish ==
    /\ shoot # NoShoot /\ shoot.opState = "Processing"
    /\ \/ GardenerWrite([shoot EXCEPT !.opState = "Succeeded"])
       \/ /\ ~calm /\ "gardener" \in trouble
          /\ \E s \in {"Retryable", "Fatal"} :
                GardenerWrite([shoot EXCEPT !.opState = s])

GardenerDelete == shoot # NoShoot /\ shoot.del /\ GardenerWrite(NoShoot)

\* The kubeconfig is created, may have to be created anew, and goes with its CR.
GardenerCluster ==
    /\ \/ gc = "new" /\ gc' = "ready"
       \/ gc = "ready" /\ ~calm /\ "kubeconfig" \in trouble /\ gc' = "new"
       \/ gc = "deleting" /\ gc' = "none"
    /\ UNCHANGED <<kcpVars, queued, timer, shoot, gcCache, admins, pc, memVars, env>>

GcSync ==
    /\ "gclag" \in trouble /\ gcCache # gc
    /\ gcCache' = gc
    /\ UNCHANGED <<kcpVars, queued, timer, shoot, gc, admins, pc, memVars, env>>

\* Between reconciliations: an edit or a failure is never forced, so one in whose
\* course the environment calms down is among those that meet none.
BecomeCalm ==
    /\ "calm" \in trouble /\ ~calm /\ pc = "idle" /\ calm' = TRUE
    /\ UNCHANGED <<kcpVars, queued, timer, shoot, gc, gcCache, admins, pc, memVars, trouble>>

-----------------------------------------------------------------------------
StateFn ==
    \/ sFnTakeSnapshot \/ sFnInitialize \/ sFnCreateShoot \/ sFnSelectShootProcessing
    \/ sFnWaitForShootCreation \/ sFnWaitForShootReconcile
    \/ sFnSyncRegistryCacheGardenSecrets
    \/ sFnPatchExistingShoot \/ PatchBinding \/ PatchApply \/ PatchDone
    \/ sFnHandleKubeconfig \/ sFnCreateKymaNamespace \/ sFnInitializeRuntimeBootstrapper
    \/ sFnCleanupRegistryCacheGardenSecrets \/ sFnConfigureSKR
    \/ sFnApplyClusterRoleBindings \/ sFnMigrateToDedicatedAuditLog
    \/ sFnCopyAuditLogReadCredentials \/ sFnDeleteKubeconfig \/ sFnDeleteShoot
    \/ sFnUpdateStatus

Users == EditRuntime \/ DeleteRuntime \/ Annotate

Gardener == GardenerStart \/ GardenerNoSeeds \/ GardenerFinish \/ GardenerDelete

\* The environment moves when the worker is idle and before each call that reads
\* or patches the shoot, reads the GardenerCluster CR or writes the status.  Its
\* steps at any other point commute with the state functions up to one of these:
\* between two of them each of the Runtime, the shoot, the GardenerCluster CR and the
\* bindings is touched by one function at most.
EnvironmentMoves == {"idle", "take_snapshot", "patch", "patch_binding", "patch_apply",
                     "kubeconfig", "migrate", "delete_shoot", "update_status"}

Environment ==
    /\ pc \in EnvironmentMoves
    /\ \/ TimerFires \/ CacheSync \/ GcSync \/ Users \/ Restart
       \/ Gardener \/ GardenerCluster \/ BecomeCalm

Next == Reconcile \/ StateFn \/ Environment

Spec == Init /\ [][Next]_vars

\* The queue is worked off, timers fire, events arrive, and Gardener and the
\* GardenerCluster controller do their work; nobody owes edits or failures.
FairSpec ==
    /\ Spec
    /\ WF_vars(Reconcile \/ StateFn) /\ WF_vars(TimerFires)
    /\ WF_vars(CacheSync) /\ WF_vars(GcSync)
    /\ WF_vars(GardenerStart) /\ WF_vars(GardenerFinish) /\ WF_vars(GardenerDelete)
    /\ WF_vars(GardenerCluster)

-----------------------------------------------------------------------------
(* Properties.                                                              *)

\* A shoot never outlives its Runtime, and has a Runtime whose finalizer will
\* see to its deletion: sFnInitialize removes the finalizer only when the
\* shoot is gone, although it decides on a cached Runtime.
NoOrphanShoot == shoot # NoShoot => rt # Gone /\ rt.fin

\* When the shoot's annotation says that the current generation is applied, its
\* collections are those of that generation: the Update that replaces them and
\* the patch that writes the annotation fail independently.
AppliedIsComplete ==
    shoot # NoShoot /\ rt # Gone /\ shoot.applied = rt.gen => shoot.w = rt.w

\* Ready is written only for the generation that is applied to the shoot and
\* whose administrators are bound in the cluster, unless the user suspended
\* patching: a write after a missed edit is a conflict.  Only the generation that
\* KIM itself makes, by writing the converted spec back, may be reported Ready
\* before it is applied (PatchDone).
ReadyIsCurrent ==
    [][/\ rt # Gone /\ rt' # Gone /\ rt'.st # rt.st /\ rt'.st.state = "Ready"
       => admins = rt.gen /\ (rt.susp \/ "writeback" \in trouble \/ shoot.applied = rt.gen)]_vars

\* A pending event will wake the controller.
Wakes(i) == Triggers(IF i = 1 THEN cache ELSE watch[i - 1], watch[i])

Scheduled == queued \/ timer \/ pc # "idle" \/ \E i \in 1..Len(watch) : Wakes(i)

\* A Runtime that is not Ready or Failed is always reconciled again, whichever
\* events and requeues a stale cache, a failing call or a restart swallows.
UnfinishedIsScheduled ==
    rt # Gone /\ rt.st.state \notin {"Ready", "Failed"} => Scheduled

\* The GardenerCluster CR is gone before the shoot is deleted, so the kubeconfig
\* controller never meets a cluster without a shoot (sFnDeleteKubeconfig).
KubeconfigDeletedFirst == shoot # NoShoot /\ shoot.del => gc = "none"

phaseBar ==
    IF rt = Gone THEN "gone" ELSE IF rt.del THEN "deleting" ELSE IF rt.fin THEN "owned" ELSE "new"

infraBar == IF shoot = NoShoot THEN "none" ELSE IF shoot.del THEN "leaving" ELSE "live"

accessBar == IF gc = "none" THEN "none" ELSE IF gc = "deleting" THEN "leaving" ELSE "kept"

Lifecycle ==
    INSTANCE RuntimeLifecycle WITH phase <- phaseBar, infra <- infraBar, access <- accessBar

\* The state functions, each deciding on a Runtime and a shoot read earlier, never
\* take the steps of a life out of order: no shoot is made for a Runtime without
\* finalizer or deleted without a request, no GardenerCluster CR outlives its shoot,
\* and the finalizer goes last (sFnInitialize, sFnDeleteKubeconfig, sFnDeleteShoot).
ImplementsLifecycle == Lifecycle!Spec

\* The Runtime is gone, or Failed, or Ready and not being deleted, with its last
\* edit and its force annotation worked off unless patching is suspended.
Settled ==
    \/ rt = Gone
    \/ rt.st.state = "Failed"
    \/ /\ ~rt.del /\ rt.st.state = "Ready"
       /\ rt.susp \/ (shoot.applied = rt.gen /\ ~rt.force)

\* Once nobody edits and nothing fails any more, every Runtime settles: no path
\* through the state functions circles for ever or ends in a stop() too early.
Settles == calm ~> Settled
=============================================================================
