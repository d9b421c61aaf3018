-------------------------- MODULE RuntimeFSMProofs --------------------------
(***************************************************************************)
(* Proofs about RuntimeFSM, for any number of edits, any lag of the        *)
(* informer and any set of scenarios.                                      *)
(***************************************************************************)
EXTENDS RuntimeFSM, TLAPS

-----------------------------------------------------------------------------
(* The inductive invariant.                                                 *)

\* A version of the Runtime that the API server may have held.
Sound(c) ==
    c # Gone => /\ c.del => c.fin
                /\ ~c.del => c.gen <= MaxGen
                /\ c.st.state = "Terminating" => c.del

\* b is a or a later version: what a version says of the finalizer, the deletion
\* and the generation stays true, and a generation has one specification.
Later(a, b) ==
    \/ b = Gone
    \/ /\ a # Gone
       /\ a.fin => b.fin
       /\ a.del => b.del
       /\ a.gen <= b.gen
       /\ a.gen = b.gen => a.w = b.w

\* The versions the informer knows of: its copy and, in order, what is under way.
Nth(c, w, i) == IF i = 0 THEN c ELSE w[i]
Copy(i) == Nth(cache, watch, i)
Copies == 0..Len(watch)

History ==
    /\ Copy(Len(watch)) = rt
    /\ \A i \in Copies : Sound(Copy(i))
    /\ \A i, j \in Copies : i <= j => Later(Copy(i), Copy(j))

\* All but the status is the same.
SameSpec(a, b) ==
    /\ a.gen = b.gen /\ a.w = b.w /\ a.del = b.del /\ a.fin = b.fin
    /\ a.force = b.force /\ a.susp = b.susp

\* State functions before the first write to the shoot.
Unpatched == {"select", "wait_creation", "wait_reconcile", "sync_cache", "patch"}

\* State functions that run with the status that was read.
Unwritten == {"take_snapshot", "initialize", "create_shoot", "patch_binding", "patch_apply",
              "patch_done", "delete_kubeconfig", "delete_shoot"} \cup Unpatched

\* What is in memory is a version of the Runtime, but for the status, and one that
\* the cache held until PatchDone replaces it by what it has written.
Memory ==
    /\ pc # "idle" => Sound(inst) /\ Later(inst, rt)
    /\ pc \in Unwritten => Later(inst, cache)
    /\ fresh => pc # "idle" /\ rt # Gone /\ SameSpec(rt, inst) /\ rt.st = snap
    /\ pc \in {"take_snapshot", "initialize"} /\ fresh => watch = <<>>

\* A finalizer is only ever removed at the end of a deletion.
Released(c) == c # Gone /\ c.fin => c.del

Releases ==
    rt = Gone => /\ \A i \in Copies : Released(Copy(i))
                 /\ pc # "idle" => Released(inst)

\* State functions that deal with a shoot that is there to stay.
LiveFns == {"select", "wait_creation", "wait_reconcile", "sync_cache", "patch",
    "patch_binding", "patch_apply", "patch_done", "kubeconfig", "namespace",
    "bootstrapper", "cleanup_cache", "configure_skr", "crb", "migrate", "copy_credentials"}

Places ==
    /\ pc \in {"initialize", "delete_kubeconfig"} => sh = shoot
    /\ pc = "create_shoot" => shoot = NoShoot /\ inst.fin /\ ~inst.del
    /\ pc \in LiveFns => sh # NoShoot /\ shoot # NoShoot /\ inst.fin /\ ~inst.del
    /\ pc \in {"delete_kubeconfig", "delete_shoot"} =>
         sh # NoShoot /\ inst.del /\ (~sh.del => shoot # NoShoot /\ ~shoot.del)

\* A shoot is only deleted for a Runtime whose deletion every reader has seen.
DeletedOnRequest ==
    shoot # NoShoot /\ shoot.del =>
        /\ cache # Gone => cache.del
        /\ pc # "idle" => inst.del

CoreInv == TypeOK /\ History /\ Memory /\ Releases /\ Places /\ DeletedOnRequest /\ NoOrphanShoot

\* What the shoot was made from is not above a version, and the same if it is equal.
CompleteFor(c) ==
    c # Gone => shoot.applied <= c.gen /\ (shoot.applied = c.gen => shoot.w = c.w)

\* State functions after the last write to the shoot.
Patched == {"patch_done", "kubeconfig", "namespace", "bootstrapper", "cleanup_cache",
            "configure_skr", "crb", "migrate", "copy_credentials"}

AppliedInv ==
    /\ shoot # NoShoot => CompleteFor(cache) /\ (pc # "idle" => CompleteFor(inst))
    /\ pc \in Unpatched => sh.w = shoot.w /\ sh.applied = shoot.applied
    /\ pc \in {"wait_creation", "wait_reconcile"} => inst.susp \/ sh.applied = inst.gen
    /\ pc \in {"patch_binding", "patch_apply"} => shoot.w = inst.w
    /\ pc \in Patched => inst.susp \/ "writeback" \in trouble \/ shoot.applied = inst.gen

IsCurrent == ~inst.del /\ shoot # NoShoot /\ admins = inst.gen
             /\ (inst.susp \/ "writeback" \in trouble \/ shoot.applied = inst.gen)

StatusInv ==
    /\ pc \in Unwritten => inst.st = snap
    /\ pc \in {"kubeconfig", "namespace", "bootstrapper", "cleanup_cache", "configure_skr",
               "crb", "migrate"} => inst.st.state = "Pending"
    /\ pc \in {"migrate", "copy_credentials"} => admins = inst.gen
    /\ pc = "update_status" /\ inst.st.state = "Ready" => inst.st = snap \/ IsCurrent

Inv == CoreInv /\ AppliedInv /\ StatusInv

\* A status that is neither Ready nor Failed: there is work to do.
Unfinished(st) == st.state \notin {"Ready", "Failed"}

NoMigration ==
    /\ shoot # NoShoot => shoot.op # "Migrate"
    /\ sh # NoShoot => sh.op # "Migrate"

\* Without a timer, the work is in the queue or under way, and everybody knows of it.
Awaited ==
    rt # Gone /\ Unfinished(rt.st) /\ ~timer =>
        /\ \A i \in Copies : Copy(i) # Gone => Copy(i).st = rt.st
        /\ pc # "idle" /\ ~queued => snap = rt.st
        /\ queued \/ pc # "idle"

\* A status that leaves work to do is reported with a delay, or is the old one.
ResultFits ==
    pc = "update_status" => /\ res = "stop" => ~Unfinished(inst.st)
                            /\ res \in {"error", "requeue"} => inst.st = snap

Prompt == trouble \cap {"slow", "migrate"} = {}

ScheduleInv == Prompt => NoMigration /\ Awaited /\ ResultFits

\* The order of deletion, when the GardenerCluster CR is not read late.
AccessInv ==
    "gclag" \notin trouble =>
        /\ KubeconfigDeletedFirst
        /\ pc = "delete_shoot" => gc = "none"
        /\ gc # "none" => shoot # NoShoot
        /\ gc = "deleting" => rt # Gone /\ rt.del

-----------------------------------------------------------------------------
LEMMA RuntimeFields ==
    ASSUME NEW r \in Runtime
    PROVE  /\ r # Gone /\ r.gen \in Nat /\ r.w \in Nat /\ r.gen \in Gens /\ r.w \in Gens
           /\ r.del \in BOOLEAN /\ r.fin \in BOOLEAN
           /\ r.force \in BOOLEAN /\ r.susp \in BOOLEAN /\ r.st \in Status
           /\ \A st \in Status : [r EXCEPT !.st = st] \in Runtime
  BY AbsentAssumption, FSMAssumption DEF Runtime, Gens, AbsentAssumption, FSMAssumption

StateNames == {"", "Pending", "Ready", "Failed", "Terminating"}

LEMMA WithType ==
    ASSUME inst \in Runtime, NEW s \in StateNames, NEW c \in Conditions, NEW v \in Reasons
    PROVE  With(s, c, v) \in Status /\ With(s, c, v).state = s
  <1>1. inst.st \in Status
    BY RuntimeFields
  <1>2. inst.st.cond \in [Conditions -> Reasons]
    BY <1>1 DEF Status
  <1>3. [inst.st.cond EXCEPT ![c] = v] \in [Conditions -> Reasons]
    BY <1>2
  <1> QED
    BY <1>1, <1>3 DEF With, Status, StateNames

\* The same for the conditions that the functions for creation and deletion report.
LEMMA WithTypes ==
    ASSUME inst \in Runtime, NEW s \in {"Pending", "Failed", "Terminating"},
           NEW c \in {"prov", "depr"}, NEW v \in {"other", "ok"}
    PROVE  With(s, c, v) \in Status /\ With(s, c, v).state = s
  <1>1. s \in StateNames
    BY DEF StateNames
  <1>2. c \in Conditions
    BY DEF Conditions
  <1>3. v \in Reasons
    BY DEF Reasons
  <1> QED
    BY <1>1, <1>2, <1>3, WithType, Zenon

LEMMA StateOnlyType ==
    ASSUME inst \in Runtime, NEW s \in {"", "Pending", "Ready", "Failed", "Terminating"}
    PROVE  /\ StateOnly(s) \in Status /\ StateOnly(s).state = s
           /\ [StateOnly(s) EXCEPT !.done = TRUE] \in Status
           /\ [StateOnly(s) EXCEPT !.done = TRUE].state = s
  <1>1. inst.st \in Status
    BY RuntimeFields
  <1> QED
    BY <1>1 DEF StateOnly, Status

\* The worker goes on with fn; all it changes in memory is the status.
Goes(fn, st) ==
    /\ pc' = fn /\ inst' \in Runtime /\ SameSpec(inst', inst) /\ inst'.st = st
    /\ UNCHANGED <<snap, fresh, sh, queued, timer>>
    /\ shFresh' \in BOOLEAN /\ changed' \in BOOLEAN /\ res' \in Results

LEMMA SetStatus ==
    ASSUME NEW r \in Runtime, NEW st \in Status
    PROVE  /\ [r EXCEPT !.st = st] \in Runtime /\ [r EXCEPT !.st = st].st = st
           /\ SameSpec([r EXCEPT !.st = st], r)
  BY DEF Runtime, SameSpec

LEMMA ContinueGoes ==
    ASSUME TypeOK, inst \in Runtime, NEW fn, NEW st \in Status, Continue(fn, st)
    PROVE  Goes(fn, st) /\ UNCHANGED <<shFresh, changed, res>>
  BY SetStatus DEF TypeOK, Continue, Goes, Goto

LEMMA UpdateStatusGoes ==
    ASSUME TypeOK, inst \in Runtime, NEW r \in Results, NEW st \in Status, UpdateStatusAnd(r, st)
    PROVE  Goes("update_status", st) /\ res' = r
  BY SetStatus DEF TypeOK, UpdateStatusAnd, Goes, Goto

LEMMA NoStatusType == NoStatus \in Status
  BY DEF NoStatus, Status, Conditions, Reasons

\* The reconciliation ends.
Ends ==
    /\ pc' = "idle" /\ inst' = Gone /\ snap' \in Status /\ fresh' = FALSE
    /\ sh' = NoShoot /\ shFresh' = FALSE /\ changed' = FALSE /\ res' \in Results
    /\ timer' \in BOOLEAN /\ queued' \in BOOLEAN
    /\ (timer => timer') /\ (queued => queued')

LEMMA ReturnEnds ==
    ASSUME TypeOK, NEW r \in Results, Return(r)
    PROVE  Ends /\ (r = "after" => timer') /\ (r \in {"requeue", "error"} => queued')
  BY NoStatusType DEF TypeOK, Return, Ends, Results

GcStates == {"none", "new", "ready", "deleting"}

Configuring == {"kubeconfig", "namespace", "bootstrapper", "cleanup_cache", "configure_skr",
                "crb", "migrate"}

\* What the state functions for a live shoot do to the objects they deal with.
LiveStores ==
    /\ UNCHANGED <<kcpVars, gcCache, env>>
    /\ admins' \in Gens
    /\ gc' = gc \/ (gc = "none" /\ gc' = "new")
    /\ shoot' \in Shoot /\ shoot'.del = shoot.del /\ shoot'.op = shoot.op
    /\ \/ shoot'.applied = shoot.applied /\ shoot'.w = shoot.w
       \/ pc \in Unwritten /\ shoot'.applied \in {shoot.applied, inst.gen} /\ shoot'.w = inst.w

\* How they end,
LiveEnds(r) ==
    /\ Return(r)
    /\ r = "stop" => /\ pc = "select"
                     /\ sh.op = "Migrate" \/ inst.st.state \in {"Ready", "Failed", "Terminating"}

\* and how they go on.
LiveGoes(fn, st) ==
    /\ Goes(fn, st)
    /\ st = inst.st \/ st.state # "Terminating"
    /\ fn \in Unpatched => pc \in Unpatched /\ UNCHANGED shoot
    /\ fn \in {"wait_creation", "wait_reconcile"} => inst.susp \/ sh.applied = inst.gen
    /\ fn \in {"patch_binding", "patch_apply"} => shoot'.w = inst.w
    /\ fn \in Patched => inst.susp \/ "writeback" \in trouble \/ shoot'.applied = inst.gen
    /\ fn \in Unwritten => st = inst.st /\ pc \in Unwritten
    /\ fn \in Configuring => st.state = "Pending"
    /\ fn \in {"migrate", "copy_credentials"} => admins' = inst.gen
    /\ fn = "update_status" => res' = "after" \/ (res' = "stop" /\ st.state \in {"Ready", "Failed"})
    /\ fn = "update_status" /\ st.state = "Ready" =>
         admins' = inst.gen /\ (inst.susp \/ "writeback" \in trouble \/ shoot'.applied = inst.gen)

LiveStep ==
    /\ LiveStores
    /\ \/ \E r \in Results : LiveEnds(r)
       \/ \E fn \in LiveFns \cup {"update_status"}, st \in Status : LiveGoes(fn, st)

LEMMA LiveFacts ==
    ASSUME Inv, pc \in LiveFns
    PROVE  /\ pc # "idle" /\ inst \in Runtime /\ inst.st \in Status /\ inst.gen \in Nat
           /\ inst.gen \in Gens /\ inst.w \in Gens /\ inst.fin /\ ~inst.del
           /\ shoot \in Shoot /\ sh \in Shoot /\ shoot # NoShoot /\ sh # NoShoot /\ ~shoot.del
           /\ shoot.applied <= inst.gen /\ (shoot.applied = inst.gen => shoot.w = inst.w)
           /\ shoot.applied \in Nat
  <1>1. pc # "idle" /\ inst \in Runtime
    BY DEF Inv, CoreInv, TypeOK, LiveFns
  <1>2. shoot \in Shoot /\ sh \in Shoot /\ shoot # NoShoot /\ sh # NoShoot /\ inst.fin /\ ~inst.del
    BY DEF Inv, CoreInv, Places, TypeOK
  <1>3. shoot.applied \in Nat /\ inst # Gone
    BY <1>1, <1>2, AbsentAssumption, FSMAssumption DEF AbsentAssumption, FSMAssumption, Shoot, Gens
  <1> QED
    BY <1>1, <1>2, <1>3, RuntimeFields DEF Inv, CoreInv, DeletedOnRequest, AppliedInv, CompleteFor

LEMMA SelectLive ==
    ASSUME Inv, sFnSelectShootProcessing
    PROVE  LiveStep
  <1>1. pc = "select" /\ pc \in LiveFns /\ TypeOK
    BY DEF sFnSelectShootProcessing, LiveFns, Inv, CoreInv
  <1>2. LiveStores
    BY <1>1, LiveFacts DEF sFnSelectShootProcessing, LiveStores, Inv, CoreInv, TypeOK, kcpVars, env
  <1>3. CASE \E r \in {"after", "stop"} : LiveEnds(r)
    BY <1>2, <1>3 DEF LiveStep, Results
  <1>4. ASSUME shouldPatchShoot, Continue("sync_cache", inst.st)
        PROVE  LiveStep
    <2>1. Goes("sync_cache", inst.st)
      BY <1>1, <1>4, LiveFacts, ContinueGoes
    <2>2. LiveGoes("sync_cache", inst.st)
      BY <1>1, <2>1 DEF LiveGoes, Unpatched, Patched, Unwritten, Configuring, sFnSelectShootProcessing
    <2> QED
      BY <1>2, <2>2, <1>1, LiveFacts DEF LiveStep, LiveFns
  <1>5. ASSUME NEW fn \in {"wait_creation", "wait_reconcile"}, ~shouldPatchShoot, Continue(fn, inst.st)
        PROVE  LiveStep
    <2>1. Goes(fn, inst.st)
      BY <1>1, <1>5, LiveFacts, ContinueGoes
    <2>2. inst.susp \/ sh.applied = inst.gen
      BY <1>1, <1>5, LiveFacts DEF shouldPatchShoot, Inv, AppliedInv, Unpatched
    <2>3. LiveGoes(fn, inst.st)
      BY <1>1, <2>1, <2>2 DEF LiveGoes, Unpatched, Patched, Unwritten, Configuring, sFnSelectShootProcessing
    <2> QED
      BY <1>2, <2>3, <1>1, LiveFacts DEF LiveStep, LiveFns
  <1> QED
    BY <1>1, <1>3, <1>4, <1>5 DEF sFnSelectShootProcessing, LiveEnds

\* A state function that reports Pending or Failed, or that is done.
Report(r, st) ==
    /\ r \in Results /\ st \in Status
    /\ \/ r = "after" /\ st.state = "Pending"
       \/ r = "stop" /\ st.state = "Failed"

LEMMA LiveReports ==
    ASSUME Inv, pc \in LiveFns, LiveStores, NEW r, NEW st, Report(r, st), UpdateStatusAnd(r, st)
    PROVE  LiveStep
  <1>1. Goes("update_status", st) /\ res' = r
    BY LiveFacts, UpdateStatusGoes DEF Inv, CoreInv, Report
  <1>2. LiveGoes("update_status", st)
    BY <1>1 DEF LiveGoes, Unpatched, Patched, Unwritten, Configuring, Report
  <1> QED
    BY <1>2 DEF LiveStep, Report

LEMMA ReportsPending ==
    ASSUME Inv, pc \in LiveFns, LiveStores, NEW c \in Conditions, NEW v \in Reasons,
           UpdateStatusAnd("after", With("Pending", c, v))
    PROVE  LiveStep
  <1>1. With("Pending", c, v) \in Status /\ With("Pending", c, v).state = "Pending"
    BY WithType, LiveFacts DEF StateNames
  <1>2. Report("after", With("Pending", c, v))
    BY <1>1 DEF Report, Results
  <1> QED
    BY <1>2, LiveReports

LEMMA ReportsFailed ==
    ASSUME Inv, pc \in LiveFns, LiveStores, NEW c \in Conditions, NEW v \in Reasons,
           UpdateStatusAnd("stop", With("Failed", c, v))
    PROVE  LiveStep
  <1>1. With("Failed", c, v) \in Status /\ With("Failed", c, v).state = "Failed"
    BY WithType, LiveFacts DEF StateNames
  <1>2. Report("stop", With("Failed", c, v))
    BY <1>1 DEF Report, Results
  <1> QED
    BY <1>2, LiveReports

LEMMA ReportsState ==
    ASSUME Inv, pc \in LiveFns, LiveStores,
           \/ UpdateStatusAnd("after", StateOnly("Pending"))
           \/ UpdateStatusAnd("stop", StateOnly("Failed"))
    PROVE  LiveStep
  <1>1. /\ StateOnly("Pending") \in Status /\ StateOnly("Pending").state = "Pending"
        /\ StateOnly("Failed") \in Status /\ StateOnly("Failed").state = "Failed"
    BY StateOnlyType, LiveFacts
  <1>2. Report("after", StateOnly("Pending")) /\ Report("stop", StateOnly("Failed"))
    BY <1>1 DEF Report, Results
  <1> QED
    BY <1>2, LiveReports

LEMMA ReportsReady ==
    ASSUME Inv, pc \in LiveFns, LiveStores, admins' = inst.gen, inst.susp \/ "writeback" \in trouble \/ shoot'.applied = inst.gen,
           UpdateStatusAnd("stop", [StateOnly("Ready") EXCEPT !.done = TRUE])
    PROVE  LiveStep
  <1> DEFINE st == [StateOnly("Ready") EXCEPT !.done = TRUE]
  <1>1. st \in Status /\ st.state = "Ready" /\ "stop" \in Results
    BY StateOnlyType, LiveFacts DEF Results
  <1>2. UpdateStatusAnd("stop", st)
    OBVIOUS
  <1> HIDE DEF st
  <1>3. Goes("update_status", st) /\ res' = "stop"
    BY <1>1, <1>2, LiveFacts, UpdateStatusGoes DEF Inv, CoreInv
  <1>4. LiveGoes("update_status", st)
    BY <1>1, <1>3 DEF LiveGoes, Unpatched, Patched, Unwritten, Configuring
  <1> QED
    BY <1>1, <1>4 DEF LiveStep

LEMMA LiveReturns ==
    ASSUME LiveStores, NEW r \in Results \ {"stop"}, Return(r)
    PROVE  LiveStep
  <1>1. LiveEnds(r)
    BY DEF LiveEnds
  <1> QED
    BY <1>1 DEF LiveStep

\* A state function that leaves the shoot alone.
LEMMA ShootKept ==
    ASSUME Inv, pc \in LiveFns, UNCHANGED <<kcpVars, shoot, gcCache, env>>,
           admins' \in {admins, inst.gen}, gc' = gc \/ (gc = "none" /\ gc' = "new")
    PROVE  LiveStores
  BY LiveFacts DEF LiveStores, Inv, CoreInv, TypeOK

\* The configuration of the cluster begins, and goes on, Pending.
LEMMA LiveConfigures ==
    ASSUME Inv, pc \in (Configuring \ {"migrate"}) \cup {"wait_creation", "wait_reconcile"},
           UNCHANGED shoot, LiveStores, NEW fn \in Configuring \ {"migrate"}, NEW st \in Status,
           st.state = "Pending", Continue(fn, st)
    PROVE  LiveStep
  <1>1. pc \in LiveFns
    BY DEF LiveFns, Configuring
  <1>2. Goes(fn, st)
    BY <1>1, LiveFacts, ContinueGoes DEF Inv, CoreInv
  <1>3. inst.susp \/ "writeback" \in trouble \/ shoot'.applied = inst.gen
    BY DEF Inv, AppliedInv, Configuring, Patched, Unpatched
  <1>4. LiveGoes(fn, st)
    BY <1>2, <1>3 DEF LiveGoes, Unpatched, Patched, Unwritten, Configuring
  <1> QED
    BY <1>4 DEF LiveStep, LiveFns, Configuring

LEMMA EnsuresLive ==
    ASSUME Inv, pc \in (Configuring \ {"migrate"}) \cup {"wait_creation", "wait_reconcile"},
           UNCHANGED shoot, LiveStores, NEW fn \in Configuring \ {"migrate"},
           NEW c \in Conditions, NEW v \in Reasons, EnsurePending(c, v, fn)
    PROVE  LiveStep
  <1>1. pc \in LiveFns
    BY DEF LiveFns, Configuring
  <1>2. CASE inst.st.state = "Pending" /\ Continue(fn, inst.st)
    BY <1>1, <1>2, LiveFacts, LiveConfigures
  <1>3. CASE UpdateStatusAnd("after", With("Pending", c, v))
    BY <1>1, <1>3, ReportsPending
  <1> QED
    BY <1>2, <1>3 DEF EnsurePending

LEMMA WaitLive ==
    ASSUME Inv, NEW fn \in {"wait_creation", "wait_reconcile"}, NEW v \in Reasons, WaitFor(fn, v)
    PROVE  LiveStep
  <1>1. pc = fn /\ pc \in LiveFns /\ UNCHANGED shoot /\ LiveStores /\ inst \in Runtime
    BY ShootKept, LiveFacts DEF WaitFor, LiveFns
  <1>2. "prov" \in Conditions /\ "other" \in Reasons /\ {"after", "stop"} \subseteq Results
    BY DEF Conditions, Reasons, Results
  <1>3. CASE EnsurePending("prov", v, "kubeconfig")
    BY <1>1, <1>2, <1>3, EnsuresLive DEF Configuring
  <1>4. CASE UpdateStatusAnd("after", With("Pending", "prov", "other"))
    BY <1>1, <1>2, <1>4, ReportsPending
  <1>5. CASE UpdateStatusAnd("stop", With("Failed", "prov", "other"))
    BY <1>1, <1>2, <1>5, ReportsFailed
  <1> QED
    BY <1>3, <1>4, <1>5 DEF WaitFor

LEMMA SyncLive ==
    ASSUME Inv, sFnSyncRegistryCacheGardenSecrets
    PROVE  LiveStep
  <1>1. pc = "sync_cache" /\ pc \in LiveFns /\ UNCHANGED shoot /\ LiveStores /\ inst \in Runtime
    BY ShootKept, LiveFacts DEF sFnSyncRegistryCacheGardenSecrets, LiveFns
  <1>2. CASE Continue("patch", inst.st)
    <2>1. Goes("patch", inst.st)
      BY <1>1, <1>2, LiveFacts, ContinueGoes DEF Inv, CoreInv
    <2>2. LiveGoes("patch", inst.st)
      BY <1>1, <2>1 DEF LiveGoes, Unpatched, Patched, Unwritten, Configuring
    <2> QED
      BY <1>1, <2>2, LiveFacts DEF LiveStep, LiveFns
  <1>3. CASE UpdateStatusAnd("after", With("Pending", "cache", "other"))
    BY <1>1, <1>3, ReportsPending DEF Conditions, Reasons
  <1>4. CASE Return("requeue")
    BY <1>1, <1>4, LiveReturns DEF Results
  <1> QED
    BY <1>2, <1>3, <1>4 DEF sFnSyncRegistryCacheGardenSecrets

\* The writes to the shoot, each with the part of it that it changes.
LEMMA WriteGoes ==
    ASSUME Inv, pc \in LiveFns, NEW s, NEW bump \in BOOLEAN, NEW fn, WriteShoot(s, bump, fn)
    PROVE  Goes(fn, inst.st)
  <1>1. inst' = inst /\ inst \in Runtime
    BY LiveFacts DEF WriteShoot
  <1>2. changed' \in BOOLEAN
    BY DEF WriteShoot, Inv, CoreInv, TypeOK
  <1> QED
    BY <1>1, <1>2 DEF WriteShoot, Goes, SameSpec, Inv, CoreInv, TypeOK, Goto

\* A shoot of which only the collections, the binding, the annotation and what
\* Gardener has yet to reconcile may have changed.
Written(s, gen, w) ==
    /\ s \in Shoot /\ s.del = shoot.del /\ s.op = shoot.op
    /\ s.applied = gen /\ s.w = w

LEMMA WrittenDirty ==
    ASSUME shoot \in Shoot, NEW gen, NEW w, NEW s, Written(s, gen, w), NEW b \in BOOLEAN
    PROVE  /\ Written([s EXCEPT !.dirty = @ \/ b], gen, w)
           /\ Written([s EXCEPT !.dirty = TRUE], gen, w)
  <1>1. s \in Shoot /\ (s.dirty \/ b) \in BOOLEAN
    BY DEF Written, Shoot
  <1>2. [s EXCEPT !.dirty = @ \/ b] \in Shoot /\ [s EXCEPT !.dirty = TRUE] \in Shoot
    BY <1>1 DEF Shoot
  <1> QED
    BY <1>1, <1>2 DEF Written, Shoot

LEMMA HandleUpdateErrorLive ==
    ASSUME Inv, pc \in LiveFns, LiveStores, NEW errors, handleUpdateError(errors)
    PROVE  LiveStep
  BY ReportsPending, ReportsFailed DEF handleUpdateError, Conditions, Reasons

LEMMA UpdateShootLive ==
    ASSUME Inv, pc \in {"patch", "patch_binding"}, NEW s, NEW w \in {shoot.w, inst.w},
           Written(s, shoot.applied, w), NEW fn \in {"patch_binding", "patch_apply"}, w = inst.w,
           UNCHANGED <<kcpVars, gc, gcCache, admins, env>>, UpdateShoot(s, fn)
    PROVE  LiveStep
  <1>1. pc \in LiveFns /\ shoot \in Shoot /\ admins \in Gens
    BY LiveFacts DEF LiveFns, Inv, CoreInv, TypeOK
  <1>2. ASSUME UNCHANGED shoot PROVE LiveStores
    BY <1>1, <1>2, ShootKept
  <1>3. ASSUME Written(shoot', shoot.applied, w) PROVE LiveStores
    BY <1>1, <1>3 DEF LiveStores, Written, Unwritten, Unpatched
  <1>4. CASE shFresh /\ WriteShoot(s, TRUE, fn)
    <2>1. Written(shoot', shoot.applied, w)
      BY <1>1, <1>4, WrittenDirty DEF WriteShoot
    <2>2. Goes(fn, inst.st)
      BY <1>1, <1>4, WriteGoes
    <2>3. LiveGoes(fn, inst.st)
      BY <2>1, <2>2 DEF LiveGoes, Written, Unpatched, Patched, Unwritten, Configuring
    <2> QED
      BY <1>1, <1>3, <2>1, <2>3, LiveFacts DEF LiveStep, LiveFns
  <1>5. CASE UNCHANGED shoot /\ \E errors : handleUpdateError(errors)
    BY <1>1, <1>2, <1>5, HandleUpdateErrorLive
  <1>6. CASE shoot' = [s EXCEPT !.dirty = TRUE] /\ handleUpdateError({"fatal"})
    <2>1. Written(shoot', shoot.applied, w)
      BY <1>1, <1>6, WrittenDirty
    <2> QED
      BY <1>1, <1>3, <1>6, <2>1, HandleUpdateErrorLive
  <1> QED
    BY <1>4, <1>5, <1>6 DEF UpdateShoot

LEMMA PatchLive ==
    ASSUME Inv, sFnPatchExistingShoot
    PROVE  LiveStep
  <1>1. pc = "patch" /\ pc \in LiveFns /\ UNCHANGED <<kcpVars, gc, gcCache, admins, env>>
    BY DEF sFnPatchExistingShoot, LiveFns
  <1>2. shoot \in Shoot /\ inst.w \in Gens /\ sh.w = shoot.w
    BY <1>1, LiveFacts DEF Inv, AppliedInv, Unpatched
  <1>3. CASE sh.w = inst.w /\ Continue("patch_binding", inst.st) /\ UNCHANGED shoot
    <2>1. Goes("patch_binding", inst.st)
      BY <1>1, <1>3, LiveFacts, ContinueGoes DEF Inv, CoreInv
    <2>2. LiveGoes("patch_binding", inst.st)
      BY <1>1, <1>2, <1>3, <2>1 DEF LiveGoes, Unpatched, Patched, Unwritten, Configuring
    <2> QED
      BY <1>1, <1>3, <2>2, LiveFacts, ShootKept DEF LiveStep, LiveFns
  <1>4. CASE UpdateShoot([shoot EXCEPT !.w = inst.w], "patch_binding")
    <2>1. Written([shoot EXCEPT !.w = inst.w], shoot.applied, inst.w)
      BY <1>2 DEF Written, Shoot
    <2> QED
      BY <1>1, <1>4, <2>1, UpdateShootLive
  <1>5. CASE UNCHANGED shoot /\ UpdateStatusAnd("stop", With("Failed", "prov", "other"))
    BY <1>1, <1>5, ShootKept, ReportsFailed DEF Conditions, Reasons
  <1>6. CASE UNCHANGED shoot /\ UpdateStatusAnd("after", With("Pending", "prov", "other"))
    BY <1>1, <1>6, ShootKept, ReportsPending DEF Conditions, Reasons
  <1> QED
    BY <1>3, <1>4, <1>5, <1>6 DEF sFnPatchExistingShoot

LEMMA BindingLive ==
    ASSUME Inv, PatchBinding
    PROVE  LiveStep
  <1>1. pc = "patch_binding" /\ pc \in LiveFns /\ UNCHANGED <<kcpVars, gc, gcCache, admins, env>>
    BY DEF PatchBinding, LiveFns
  <1>2. shoot \in Shoot /\ shoot.w = inst.w
    BY <1>1, LiveFacts DEF Inv, AppliedInv
  <1>3. CASE Continue("patch_apply", inst.st) /\ UNCHANGED shoot
    <2>1. Goes("patch_apply", inst.st)
      BY <1>1, <1>3, LiveFacts, ContinueGoes DEF Inv, CoreInv
    <2>2. LiveGoes("patch_apply", inst.st)
      BY <1>1, <1>2, <1>3, <2>1 DEF LiveGoes, Unpatched, Patched, Unwritten, Configuring
    <2> QED
      BY <1>1, <1>3, <2>2, LiveFacts, ShootKept DEF LiveStep, LiveFns
  <1>4. CASE UpdateShoot([shoot EXCEPT !.binding = FALSE], "patch_apply")
    <2>1. Written([shoot EXCEPT !.binding = FALSE], shoot.applied, inst.w)
      BY <1>2 DEF Written, Shoot
    <2> QED
      BY <1>1, <1>4, <2>1, UpdateShootLive
  <1> QED
    BY <1>3, <1>4 DEF PatchBinding

LEMMA ApplyLive ==
    ASSUME Inv, PatchApply
    PROVE  LiveStep
  <1> DEFINE s == [shoot EXCEPT !.applied = runtimeGeneration(inst), !.audit = Dedicated]
  <1>1. pc = "patch_apply" /\ pc \in LiveFns /\ UNCHANGED <<kcpVars, gc, gcCache, admins, env>>
    BY DEF PatchApply, LiveFns
  <1>2. shoot \in Shoot /\ shoot.w = inst.w /\ inst.gen \in Gens /\ admins \in Gens
    BY <1>1, LiveFacts DEF Inv, AppliedInv, CoreInv, TypeOK
  <1>3. Written(s, inst.gen, inst.w)
    BY <1>2, FSMAssumption DEF Written, Shoot, runtimeGeneration, FSMAssumption
  <1>4. \/ \E bump \in BOOLEAN : WriteShoot(s, bump, "patch_done")
        \/ UNCHANGED shoot /\ handleUpdateError({"retryable", "fatal"})
        \/ shoot' = [s EXCEPT !.dirty = TRUE] /\ handleUpdateError({"fatal"})
    BY DEF PatchApply
  <1> HIDE DEF s
  <1>5. ASSUME Written(shoot', inst.gen, inst.w) PROVE LiveStores
    BY <1>1, <1>2, <1>5 DEF LiveStores, Written, Unwritten, Unpatched
  <1>6. CASE \E bump \in BOOLEAN : WriteShoot(s, bump, "patch_done")
    <2>1. PICK bump \in BOOLEAN : WriteShoot(s, bump, "patch_done")
      BY <1>6
    <2>2. Written(shoot', inst.gen, inst.w)
      BY <1>2, <1>3, <2>1, WrittenDirty DEF WriteShoot
    <2>3. Goes("patch_done", inst.st)
      BY <1>1, <2>1, WriteGoes
    <2>4. LiveGoes("patch_done", inst.st)
      BY <1>1, <2>2, <2>3 DEF LiveGoes, Written, Unpatched, Patched, Unwritten, Configuring
    <2> QED
      BY <1>1, <1>5, <2>2, <2>4, LiveFacts DEF LiveStep, LiveFns
  <1>7. CASE UNCHANGED shoot /\ handleUpdateError({"retryable", "fatal"})
    BY <1>1, <1>7, ShootKept, HandleUpdateErrorLive
  <1>8. CASE shoot' = [s EXCEPT !.dirty = TRUE] /\ handleUpdateError({"fatal"})
    <2>1. Written(shoot', inst.gen, inst.w)
      BY <1>2, <1>3, <1>8, WrittenDirty
    <2> QED
      BY <1>1, <1>5, <1>8, <2>1, HandleUpdateErrorLive
  <1> QED
    BY <1>4, <1>6, <1>7, <1>8

LEMMA KubeconfigLive ==
    ASSUME Inv, sFnHandleKubeconfig
    PROVE  LiveStep
  <1>1. pc = "kubeconfig" /\ pc \in LiveFns /\ UNCHANGED shoot /\ LiveStores
    BY ShootKept DEF sFnHandleKubeconfig, LiveFns
  <1>2. "kube" \in Conditions /\ {"ok", "other"} \subseteq Reasons
    BY DEF Conditions, Reasons
  <1>3. CASE UpdateStatusAnd("stop", With("Failed", "kube", "other"))
    BY <1>1, <1>2, <1>3, ReportsFailed
  <1>4. CASE UpdateStatusAnd("after", With("Pending", "kube", "other"))
    BY <1>1, <1>2, <1>4, ReportsPending
  <1>5. CASE Return("after")
    BY <1>1, <1>5, LiveReturns DEF Results
  <1>6. CASE EnsurePending("kube", "ok", "namespace")
    BY <1>1, <1>2, <1>6, EnsuresLive DEF Configuring
  <1> QED
    BY <1>3, <1>4, <1>5, <1>6 DEF sFnHandleKubeconfig

LEMMA ClusterStepLive ==
    ASSUME Inv, NEW fn \in Configuring \ {"migrate"}, NEW next \in Configuring \ {"migrate"},
           ClusterStep(fn, next)
    PROVE  LiveStep
  <1>1. pc = fn /\ pc \in LiveFns /\ UNCHANGED shoot /\ LiveStores
    BY ShootKept DEF ClusterStep, LiveFns, Configuring
  <1>2. CASE Continue(next, StateOnly("Pending"))
    <2>1. StateOnly("Pending") \in Status /\ StateOnly("Pending").state = "Pending"
      BY <1>1, StateOnlyType, LiveFacts
    <2> QED
      BY <1>1, <1>2, <2>1, LiveConfigures
  <1>3. CASE UpdateStatusAnd("after", StateOnly("Pending"))
    BY <1>1, <1>3, ReportsState
  <1> QED
    BY <1>2, <1>3 DEF ClusterStep

LEMMA BootstrapperLive ==
    ASSUME Inv, sFnInitializeRuntimeBootstrapper
    PROVE  LiveStep
  <1>1. CASE ClusterStep("bootstrapper", "cleanup_cache")
    BY <1>1, ClusterStepLive DEF Configuring
  <1>2. CASE /\ pc = "bootstrapper" /\ UpdateStatusAnd("stop", StateOnly("Failed"))
             /\ UNCHANGED <<kcpVars, shoot, gc, gcCache, admins, env>>
    BY <1>2, ShootKept, ReportsState DEF LiveFns
  <1> QED
    BY <1>1, <1>2 DEF sFnInitializeRuntimeBootstrapper

LEMMA CleanupLive ==
    ASSUME Inv, sFnCleanupRegistryCacheGardenSecrets
    PROVE  LiveStep
  <1>1. pc = "cleanup_cache" /\ pc \in LiveFns /\ UNCHANGED shoot /\ LiveStores
    BY ShootKept DEF sFnCleanupRegistryCacheGardenSecrets, LiveFns
  <1>2. "cache" \in Conditions /\ {"ok", "other"} \subseteq Reasons
    BY DEF Conditions, Reasons
  <1>3. CASE Continue("configure_skr", inst.st)
    <2>1. inst.st \in Status /\ inst.st.state = "Pending"
      BY <1>1, LiveFacts DEF Inv, StatusInv
    <2> QED
      BY <1>1, <1>3, <2>1, LiveConfigures DEF Configuring
  <1>4. CASE EnsurePending("cache", "ok", "configure_skr")
    BY <1>1, <1>2, <1>4, EnsuresLive DEF Configuring
  <1>5. CASE UpdateStatusAnd("after", With("Pending", "cache", "other"))
    BY <1>1, <1>2, <1>5, ReportsPending
  <1>6. CASE Return("requeue")
    BY <1>1, <1>6, LiveReturns DEF Results
  <1> QED
    BY <1>3, <1>4, <1>5, <1>6 DEF sFnCleanupRegistryCacheGardenSecrets

LEMMA BindingsLive ==
    ASSUME Inv, sFnApplyClusterRoleBindings
    PROVE  LiveStep
  <1>1. pc = "crb" /\ pc \in LiveFns /\ UNCHANGED shoot /\ LiveStores
    BY ShootKept DEF sFnApplyClusterRoleBindings, LiveFns
  <1>2. inst.susp \/ "writeback" \in trouble \/ shoot'.applied = inst.gen
    BY <1>1 DEF Inv, AppliedInv, Patched
  <1>3. CASE admins' = inst.gen /\ Continue("migrate", StateOnly("Pending"))
    <2>1. StateOnly("Pending") \in Status /\ StateOnly("Pending").state = "Pending"
      BY <1>1, StateOnlyType, LiveFacts
    <2>2. Goes("migrate", StateOnly("Pending"))
      BY <1>1, <1>3, <2>1, LiveFacts, ContinueGoes DEF Inv, CoreInv
    <2>3. LiveGoes("migrate", StateOnly("Pending"))
      BY <1>2, <1>3, <2>1, <2>2 DEF LiveGoes, Unpatched, Patched, Unwritten, Configuring
    <2> QED
      BY <1>1, <2>1, <2>3 DEF LiveStep, LiveFns
  <1>4. CASE /\ admins' = inst.gen
             /\ UpdateStatusAnd("stop", [StateOnly("Ready") EXCEPT !.done = TRUE])
    BY <1>1, <1>2, <1>4, ReportsReady
  <1>5. CASE UpdateStatusAnd("after", StateOnly("Pending"))
    BY <1>1, <1>5, ReportsState
  <1> QED
    BY <1>3, <1>4, <1>5 DEF sFnApplyClusterRoleBindings

LEMMA MigrateLive ==
    ASSUME Inv, sFnMigrateToDedicatedAuditLog
    PROVE  LiveStep
  <1>1. pc = "migrate" /\ pc \in LiveFns /\ UNCHANGED <<kcpVars, gc, gcCache, admins, env>>
    BY DEF sFnMigrateToDedicatedAuditLog, LiveFns
  <1>2. (inst.susp \/ "writeback" \in trouble \/ shoot.applied = inst.gen) /\ admins = inst.gen /\ shoot \in Shoot /\ admins \in Gens
    BY <1>1, LiveFacts DEF Inv, AppliedInv, StatusInv, Patched, CoreInv, TypeOK
  <1>3. LiveStores
    <2>1. CASE UNCHANGED shoot
      BY <1>1, <2>1, ShootKept
    <2>2. CASE shoot' = [shoot EXCEPT !.audit = TRUE, !.dirty = TRUE]
      <3>1. shoot' \in Shoot /\ shoot'.del = shoot.del /\ shoot'.op = shoot.op
            /\ shoot'.applied = shoot.applied /\ shoot'.w = shoot.w
        BY <1>2, <2>2 DEF Shoot
      <3> QED
        BY <1>1, <1>2, <3>1 DEF LiveStores
    <2> QED
      BY <2>1, <2>2 DEF sFnMigrateToDedicatedAuditLog
  <1>4. CASE Continue("copy_credentials", StateOnly("Ready")) /\ UNCHANGED shoot
    <2>1. StateOnly("Ready") \in Status /\ StateOnly("Ready").state = "Ready"
      BY <1>1, StateOnlyType, LiveFacts
    <2>2. Goes("copy_credentials", StateOnly("Ready"))
      BY <1>1, <1>4, <2>1, LiveFacts, ContinueGoes DEF Inv, CoreInv
    <2>3. LiveGoes("copy_credentials", StateOnly("Ready"))
      BY <1>1, <1>2, <1>4, <2>1, <2>2 DEF LiveGoes, Unpatched, Patched, Unwritten, Configuring
    <2> QED
      BY <1>3, <2>1, <2>3 DEF LiveStep, LiveFns
  <1>5. CASE \/ UpdateStatusAnd("after", StateOnly("Pending"))
             \/ UpdateStatusAnd("stop", StateOnly("Failed"))
    BY <1>1, <1>3, <1>5, ReportsState
  <1> QED
    BY <1>4, <1>5 DEF sFnMigrateToDedicatedAuditLog

LEMMA CredentialsLive ==
    ASSUME Inv, sFnCopyAuditLogReadCredentials
    PROVE  LiveStep
  <1>1. pc = "copy_credentials" /\ pc \in LiveFns /\ UNCHANGED <<shoot, admins>> /\ LiveStores
    BY ShootKept DEF sFnCopyAuditLogReadCredentials, LiveFns
  <1>2. (inst.susp \/ "writeback" \in trouble \/ shoot.applied = inst.gen) /\ admins = inst.gen
    BY <1>1 DEF Inv, AppliedInv, StatusInv, Patched
  <1>3. CASE UpdateStatusAnd("stop", [StateOnly("Ready") EXCEPT !.done = TRUE])
    BY <1>1, <1>2, <1>3, ReportsReady
  <1>4. CASE UpdateStatusAnd("after", StateOnly("Pending"))
    BY <1>1, <1>4, ReportsState
  <1> QED
    BY <1>3, <1>4 DEF sFnCopyAuditLogReadCredentials

LEMMA LiveCore ==
    ASSUME Inv, pc \in LiveFns, LiveStep
    PROVE  CoreInv'
  <1>1. inst \in Runtime /\ pc # "idle" /\ pc \notin {"take_snapshot", "initialize"} /\ inst # Gone
    BY LiveFacts, AbsentAssumption DEF LiveFns, AbsentAssumption
  <1>2. shoot' \in Shoot /\ shoot' # NoShoot /\ shoot # NoShoot /\ ~shoot.del /\ ~shoot'.del
    BY LiveFacts, AbsentAssumption DEF LiveStep, LiveStores, AbsentAssumption
  <1>3. Ends \/ \E fn \in LiveFns \cup {"update_status"}, st \in Status :
                   /\ Goes(fn, st) /\ (st = inst.st \/ st.state # "Terminating")
                   /\ fn \in Unwritten => pc \in Unwritten
    BY ReturnEnds DEF LiveStep, LiveEnds, LiveGoes, Inv, CoreInv
  <1>4. UNCHANGED <<kcpVars, gcCache, env>> /\ admins' \in Gens /\ gc' \in {gc, "new"}
    BY DEF LiveStep, LiveStores
  <1>5. TypeOK'
    <2>1. CASE Ends
      BY <1>1, <1>2, <1>4, <2>1 DEF Inv, CoreInv, TypeOK, Ends, kcpVars, env
    <2>2. CASE \E fn \in LiveFns \cup {"update_status"}, st \in Status : Goes(fn, st)
      BY <1>1, <1>2, <1>4, <2>2 DEF Inv, CoreInv, TypeOK, Goes, LiveFns, StateFns, kcpVars, env
    <2> QED
      BY <1>3, <2>1, <2>2
  <1>6. History' /\ UNCHANGED watch /\ UNCHANGED cache /\ UNCHANGED rt
    BY <1>4 DEF Inv, CoreInv, History, Copy, Copies, kcpVars
  <1>7. Memory'
    <2>1. CASE Ends
      BY <2>1 DEF Memory, Ends, Unwritten, Unpatched
    <2>2. ASSUME NEW fn \in LiveFns \cup {"update_status"}, NEW st \in Status,
                 Goes(fn, st), st = inst.st \/ st.state # "Terminating",
                 fn \in Unwritten => pc \in Unwritten
          PROVE  Memory'
      <3>1. Sound(inst') /\ Later(inst', rt) /\ (fn \in Unwritten => Later(inst', cache))
        BY <1>1, <2>2, AbsentAssumption
        DEF AbsentAssumption, Inv, CoreInv, Memory, Goes, Sound, Later, SameSpec
      <3>2. fresh' => rt # Gone /\ SameSpec(rt, inst') /\ rt.st = snap
        BY <1>1, <2>2 DEF Inv, CoreInv, Memory, Goes, SameSpec
      <3>3. pc' \notin {"take_snapshot", "initialize", "idle"}
        BY <2>2 DEF Goes, LiveFns
      <3> QED
        BY <1>6, <2>2, <3>1, <3>2, <3>3 DEF Memory, Goes, Sound, Later, SameSpec
    <2> QED
      BY <1>3, <2>1, <2>2
  <1>8. Releases'
    BY <1>1, <1>3, <1>6 DEF Inv, CoreInv, Releases, Released, Copy, Copies, Ends, Goes, SameSpec
  <1>9. Places'
    BY <1>1, <1>2, <1>3 DEF Inv, CoreInv, Places, Ends, Goes, SameSpec, LiveFns
  <1>10. DeletedOnRequest' /\ NoOrphanShoot'
    BY <1>1, <1>2, <1>6 DEF Inv, CoreInv, DeletedOnRequest, NoOrphanShoot
  <1> QED
    BY <1>5, <1>6, <1>7, <1>8, <1>9, <1>10 DEF CoreInv

LEMMA LiveInv ==
    ASSUME Inv, pc \in LiveFns, LiveStep
    PROVE  Inv'
  <1>1. CoreInv'
    BY LiveCore
  <1>2. /\ UNCHANGED cache /\ UNCHANGED trouble /\ LiveStores
        /\ shoot' # NoShoot /\ shoot'.applied \in Nat
    BY AbsentAssumption, FSMAssumption
    DEF env, LiveStep, LiveStores, kcpVars, AbsentAssumption, Shoot, FSMAssumption, Gens
  <1>3. /\ inst.gen \in Nat /\ (cache # Gone => cache.gen \in Nat)
        /\ pc \in Unwritten => Later(inst, cache)
    BY LiveFacts, RuntimeFields DEF Inv, CoreInv, Memory, TypeOK
  <1>4. CompleteFor(inst) /\ CompleteFor(cache) /\ shoot.applied \in Nat /\ inst # Gone
    BY LiveFacts, AbsentAssumption DEF Inv, AppliedInv, AbsentAssumption
  <1>5. /\ cache # Gone => shoot'.applied <= cache.gen /\ (shoot'.applied = cache.gen => shoot'.w = cache.w)
        /\ shoot'.applied <= inst.gen /\ (shoot'.applied = inst.gen => shoot'.w = inst.w)
    BY <1>2, <1>3, <1>4 DEF LiveStores, CompleteFor, Later
  <1>6. CASE \E r \in Results : LiveEnds(r)
    <2>1. pc' = "idle"
      BY <1>6 DEF LiveEnds, Return
    <2>2. AppliedInv' /\ StatusInv'
      BY <1>2, <1>5, <2>1 DEF AppliedInv, CompleteFor, StatusInv, Unpatched, Patched, Unwritten
    <2> QED
      BY <1>1, <2>2 DEF Inv
  <1>7. ASSUME NEW fn \in LiveFns \cup {"update_status"}, NEW st \in Status, LiveGoes(fn, st)
        PROVE  Inv'
    <2>1. pc' = fn /\ SameSpec(inst', inst) /\ inst'.st = st /\ sh' = sh /\ snap' = snap
      BY <1>7 DEF LiveGoes, Goes
    <2>2. CompleteFor(cache)' /\ CompleteFor(inst)'
      BY <1>2, <1>5, <2>1 DEF CompleteFor, SameSpec
    <2>3. AppliedInv'
      BY <1>2, <1>7, <2>1, <2>2 DEF AppliedInv, LiveGoes, SameSpec, Inv, Unpatched, Patched
    <2>4. StatusInv'
      BY <1>2, <1>7, <2>1, LiveFacts
      DEF StatusInv, LiveGoes, SameSpec, Inv, Unpatched, Patched, Unwritten, Configuring, IsCurrent
    <2> QED
      BY <1>1, <2>3, <2>4 DEF Inv
  <1> QED
    BY <1>6, <1>7 DEF LiveStep

-----------------------------------------------------------------------------
(* Versions of the Runtime.                                                 *)

LEMMA LaterTransitive ==
    ASSUME NEW a \in Runtime \cup {Gone}, NEW b \in Runtime \cup {Gone},
           NEW c \in Runtime \cup {Gone}, Later(a, b), Later(b, c)
    PROVE  Later(a, c)
  BY RuntimeFields DEF Later

LEMMA CopyType ==
    ASSUME TypeOK, NEW i \in Copies
    PROVE  Copy(i) \in Runtime \cup {Gone}
  BY DEF TypeOK, Copies, Copy, Nth

LEMMA WatchLength ==
    ASSUME TypeOK
    PROVE  Len(watch) \in Nat /\ 0 \in Copies /\ Len(watch) \in Copies /\ Copy(0) = cache
  BY DEF TypeOK, Copies, Copy, Nth

\* The stored Runtime is a later version of every copy.
LEMMA RtIsLatest ==
    ASSUME CoreInv
    PROVE  /\ rt \in Runtime \cup {Gone} /\ Sound(rt) /\ Sound(cache)
           /\ \A i \in Copies : Later(Copy(i), rt)
           /\ Later(cache, rt)
           /\ pc # "idle" => Later(inst, rt)
  <1>1. TypeOK /\ History /\ Memory
    BY DEF CoreInv
  <1>2. Len(watch) \in Nat /\ 0 \in Copies /\ Len(watch) \in Copies /\ Copy(0) = cache
    BY <1>1, WatchLength
  <1>3. \A i \in Copies : i <= Len(watch)
    BY <1>2 DEF Copies
  <1>4. \A i \in Copies : Later(Copy(i), rt)
    BY <1>1, <1>2, <1>3 DEF History
  <1>5. Sound(rt) /\ Sound(cache) /\ Later(cache, rt)
    BY <1>1, <1>2, <1>4 DEF History
  <1>6. pc # "idle" => Later(inst, rt)
    BY <1>1 DEF Memory
  <1> QED
    BY <1>1, <1>4, <1>5, <1>6 DEF TypeOK

LEMMA WriteHistory ==
    ASSUME CoreInv, NEW o \in Runtime \cup {Gone}, Sound(o), Later(rt, o), WriteRuntime(o)
    PROVE  /\ rt' = o /\ cache' = cache /\ watch' \in Seq(Runtime \cup {Gone})
           /\ History'
           /\ \A i \in Copies' : Copy(i)' = o \/ (i \in Copies /\ Copy(i)' = Copy(i))
  <1>1. TypeOK /\ History /\ watch \in Seq(Runtime \cup {Gone}) /\ Len(watch) \in Nat
    BY WatchLength DEF CoreInv, TypeOK
  <1>2. rt' = o /\ cache' = cache /\ watch' = Append(watch, o)
    BY DEF WriteRuntime
  <1>3. /\ watch' \in Seq(Runtime \cup {Gone}) /\ Len(watch') = Len(watch) + 1
        /\ watch'[Len(watch) + 1] = o
        /\ \A i \in 1..Len(watch) : watch'[i] = watch[i]
    BY <1>1, <1>2
  <1>4. \A i \in Copies : i \in Copies' /\ i <= Len(watch) /\ Copy(i)' = Copy(i)
    BY <1>1, <1>2, <1>3 DEF Copy, Copies, Nth
  <1>5. Nth(cache', watch', Len(watch) + 1) = o
    BY <1>1, <1>3 DEF Nth
  <1>6. \A i \in Copies' : i \in Copies \/ i = Len(watch) + 1
    BY <1>1, <1>3 DEF Copies
  <1>7. \A i \in Copies : Sound(Copy(i)) /\ Later(Copy(i), o)
    BY <1>1, CopyType, RtIsLatest, LaterTransitive DEF History
  <1>8. Later(o, o)
    BY RuntimeFields DEF Later
  <1>9. \A i \in Copies' : Sound(Copy(i)')
    BY <1>4, <1>5, <1>6, <1>7 DEF Copy
  <1>10. \A i, j \in Copies' : i <= j => Later(Copy(i)', Copy(j)')
    <2> TAKE i, j \in Copies'
    <2>1. CASE j = Len(watch) + 1
      BY <2>1, <1>4, <1>5, <1>6, <1>7, <1>8 DEF Copy
    <2>2. CASE j \in Copies /\ i \in Copies
      BY <2>2, <1>1, <1>4 DEF History
    <2>3. CASE j \in Copies /\ i = Len(watch) + 1
      BY <2>3, <1>1, <1>4 DEF Copies
    <2> QED
      BY <1>6, <2>1, <2>2, <2>3
  <1>11. Copy(Len(watch))' = rt'
    BY <1>1, <1>2, <1>3, <1>5 DEF Copy
  <1>12. History'
    BY <1>9, <1>10, <1>11 DEF History, Sound, Later
  <1> QED
    BY <1>2, <1>3, <1>4, <1>5, <1>6, <1>12 DEF Copy

\* The informer's copy moves on.
LEMMA SyncHistory ==
    ASSUME CoreInv, watch # <<>>, cache' = Head(watch), watch' = Tail(watch), rt' = rt
    PROVE  /\ cache' \in Runtime \cup {Gone} /\ watch' \in Seq(Runtime \cup {Gone})
           /\ History'
           /\ \A i \in Copies' : i + 1 \in Copies /\ Copy(i)' = Copy(i + 1)
           /\ Later(cache, cache')
  <1>1. TypeOK /\ History /\ watch \in Seq(Runtime \cup {Gone}) /\ Len(watch) \in Nat \ {0}
    BY DEF CoreInv, TypeOK
  <1>2. /\ watch' \in Seq(Runtime \cup {Gone}) /\ Len(watch') = Len(watch) - 1
        /\ cache' = watch[1]
        /\ \A i \in 1..(Len(watch) - 1) : watch'[i] = watch[i + 1]
    BY <1>1
  <1>3. \A i \in Copies' : i \in Nat /\ i + 1 \in Copies /\ Copy(i)' = Copy(i + 1)
    BY <1>1, <1>2 DEF Copies, Copy, Nth
  <1>4. Copy(Len(watch))' = rt
    <2>1. Len(watch') \in Copies' /\ Len(watch') + 1 = Len(watch)
      BY <1>1, <1>2 DEF Copies
    <2>2. Nth(cache', watch', Len(watch')) = Copy(Len(watch))
      BY <2>1, <1>3 DEF Copy
    <2> QED
      BY <1>1, <2>2 DEF History, Copy
  <1>5. \A i \in Copies' : Sound(Copy(i)')
    BY <1>1, <1>3 DEF History
  <1>6. \A i, j \in Copies' : i <= j => Later(Copy(i)', Copy(j)')
    BY <1>1, <1>3 DEF History
  <1>7. History'
    BY <1>4, <1>5, <1>6 DEF History, Sound, Later
  <1>8. Later(cache, cache')
    <2>1. 0 \in Copies /\ 1 \in Copies /\ Copy(0) = cache /\ Copy(1) = cache'
      BY <1>1, <1>2 DEF Copies, Copy, Nth
    <2> QED
      BY <1>1, <2>1 DEF History
  <1> QED
    BY <1>1, <1>2, <1>3, <1>7, <1>8

LEMMA CompleteLater ==
    ASSUME NEW a \in Runtime \cup {Gone}, NEW b \in Runtime \cup {Gone}, shoot \in Shoot,
           CompleteFor(a), Later(a, b)
    PROVE  CompleteFor(b)
  <1>1. shoot.applied \in Nat
    BY FSMAssumption DEF Shoot, Gens, FSMAssumption
  <1> QED
    BY <1>1, RuntimeFields DEF CompleteFor, Later

-----------------------------------------------------------------------------
(* The environment.                                                         *)

LEMMA EndsTypes ==
    ASSUME TypeOK, Ends,
           rt' \in Runtime \cup {Gone}, cache' \in Runtime \cup {Gone},
           watch' \in Seq(Runtime \cup {Gone}), shoot' \in Shoot \cup {NoShoot},
           UNCHANGED <<gc, admins, env>>, gcCache' \in {gcCache, gc}
    PROVE  TypeOK'
  BY DEF TypeOK, Ends, env

\* The end of a reconciliation that wrote the Runtime, or nothing.
LEMMA EndsInv ==
    ASSUME Inv, Ends, UNCHANGED <<kcpVars, shoot, gc, gcCache, admins, env>>
    PROVE  Inv'
  <1>1. TypeOK' /\ pc' = "idle" /\ fresh' = FALSE
    BY EndsTypes DEF Inv, CoreInv, TypeOK, kcpVars, Ends
  <1>2. UNCHANGED rt /\ UNCHANGED cache /\ UNCHANGED watch /\ UNCHANGED shoot
    BY DEF kcpVars
  <1>3. History' /\ Memory' /\ Releases' /\ NoOrphanShoot'
    BY <1>1, <1>2 DEF Inv, CoreInv, History, Copy, Nth, Copies, Memory, Releases, NoOrphanShoot,
                              Unwritten, Unpatched
  <1>4. Places' /\ DeletedOnRequest'
    BY <1>1, <1>2 DEF Inv, CoreInv, Places, LiveFns, DeletedOnRequest
  <1>5. AppliedInv' /\ StatusInv'
    BY <1>1, <1>2 DEF Inv, AppliedInv, StatusInv, CompleteFor, Unpatched, Patched, Unwritten
  <1> QED
    BY <1>1, <1>3, <1>4, <1>5 DEF Inv, CoreInv

LEMMA WriteEndsInv ==
    ASSUME Inv, Ends, UNCHANGED <<shoot, gc, gcCache, admins, env>>,
           NEW o \in Runtime \cup {Gone}, Sound(o), Later(rt, o), WriteRuntime(o),
           o = Gone => shoot = NoShoot /\ \A i \in Copies : Released(Copy(i))
    PROVE  Inv'
  <1>1. /\ rt' = o /\ cache' = cache /\ watch' \in Seq(Runtime \cup {Gone}) /\ History'
        /\ \A i \in Copies' : Copy(i)' = o \/ (i \in Copies /\ Copy(i)' = Copy(i))
    BY WriteHistory DEF Inv
  <1>2. TypeOK' /\ pc' = "idle" /\ fresh' = FALSE
    BY <1>1, EndsTypes DEF Inv, CoreInv, TypeOK, Ends
  <1>3. Releases'
    BY <1>1, <1>2 DEF Releases, Released
  <1>4. NoOrphanShoot'
    BY <1>1 DEF Inv, CoreInv, NoOrphanShoot, Later
  <1>5. Memory' /\ Places' /\ DeletedOnRequest'
    BY <1>1, <1>2 DEF Inv, CoreInv, Places, LiveFns, DeletedOnRequest, Memory, Unwritten, Unpatched
  <1>6. AppliedInv' /\ StatusInv'
    BY <1>1, <1>2 DEF Inv, AppliedInv, StatusInv, CompleteFor, Unpatched, Patched, Unwritten
  <1> QED
    BY <1>1, <1>2, <1>3, <1>4, <1>5, <1>6 DEF Inv, CoreInv

\* Steps that touch nothing that Inv speaks of.
LEMMA AsideInv ==
    ASSUME Inv, UNCHANGED <<kcpVars, shoot, admins, pc, memVars, trouble>>,
           queued' \in BOOLEAN, timer' \in BOOLEAN, calm' \in BOOLEAN,
           gc' \in GcStates, gcCache' \in GcStates
    PROVE  Inv'
  <1> USE DEF kcpVars, memVars
  <1>1. TypeOK'
    BY DEF Inv, CoreInv, TypeOK, GcStates
  <1>2. History' /\ Memory' /\ Releases' /\ NoOrphanShoot'
    BY DEF Inv, CoreInv, History, Copy, Nth, Copies, Memory, Releases, Released, NoOrphanShoot, SameSpec,
           Sound, Later
  <1>3. Places' /\ DeletedOnRequest'
    BY DEF Inv, CoreInv, Places, LiveFns, DeletedOnRequest
  <1>4. AppliedInv' /\ StatusInv'
    BY DEF Inv, AppliedInv, StatusInv, CompleteFor, Unpatched, Patched, Unwritten, IsCurrent
  <1> QED
    BY <1>1, <1>2, <1>3, <1>4 DEF Inv, CoreInv

LEMMA UserWriteInv ==
    ASSUME Inv, NEW o \in Runtime \cup {Gone}, Sound(o), Later(rt, o), UserWrite(o),
           o = Gone => ~rt.fin
    PROVE  Inv'
  <1>1. WriteRuntime(o) /\ rt # Gone /\ fresh' = FALSE /\ UNCHANGED shoot /\ UNCHANGED admins
        /\ UNCHANGED pc /\ UNCHANGED inst /\ UNCHANGED snap /\ UNCHANGED sh
    BY DEF UserWrite
  <1>2. /\ rt' = o /\ cache' = cache /\ watch' \in Seq(Runtime \cup {Gone}) /\ History'
        /\ \A i \in Copies' : Copy(i)' = o \/ (i \in Copies /\ Copy(i)' = Copy(i))
    BY <1>1, WriteHistory DEF Inv
  <1>3. TypeOK'
    <2>1. UNCHANGED <<queued, timer, shoot, gc, gcCache, admins, pc, inst, snap, sh,
                      shFresh, changed, res, calm, trouble>>
      BY DEF UserWrite, env
    <2>2. rt' \in Runtime \cup {Gone} /\ cache' \in Runtime \cup {Gone} /\ fresh' \in BOOLEAN
      BY <1>1, <1>2 DEF Inv, CoreInv, TypeOK
    <2> QED
      BY <1>2, <2>1, <2>2 DEF Inv, CoreInv, TypeOK
  <1>4. Releases'
    <2>1. ASSUME o = Gone
          PROVE  (\A i \in Copies : Released(Copy(i))) /\ (pc # "idle" => Released(inst))
      BY <1>1, <2>1, RtIsLatest DEF Inv, Later, Released
    <2> QED
      BY <1>1, <1>2, <2>1 DEF Releases, Released
  <1>5. NoOrphanShoot'
    BY <1>1, <1>2 DEF Inv, CoreInv, NoOrphanShoot, Later
  <1>0. UNCHANGED trouble /\ (pc # "idle" => Later(inst, o))
    BY <1>2, LaterTransitive DEF UserWrite, env, Inv, CoreInv, TypeOK, Memory
  <1>6. Memory' /\ Places' /\ DeletedOnRequest'
    BY <1>0, <1>1, <1>2 DEF Inv, CoreInv, Places, LiveFns, DeletedOnRequest, Memory, Sound, Later
  <1>7. AppliedInv' /\ StatusInv'
    BY <1>0, <1>1, <1>2
    DEF Inv, AppliedInv, StatusInv, CompleteFor, Unpatched, Patched, Unwritten, IsCurrent
  <1> QED
    BY <1>2, <1>3, <1>4, <1>5, <1>6, <1>7 DEF Inv, CoreInv

\* What users write: a later version, which the event filter lets pass.
UserVersion(o) ==
    /\ o \in Runtime \cup {Gone} /\ Sound(o) /\ Later(rt, o)
    /\ o = Gone => ~rt.fin
    /\ o # Gone => o.fin = rt.fin /\ (o.del => rt.fin) /\ o.st = rt.st
    /\ Triggers(rt, o)

LEMMA UserForms ==
    ASSUME Inv, Users
    PROVE  /\ rt \in Runtime /\ rt # Gone /\ ~rt.del
           /\ \E o : UserWrite(o) /\ UserVersion(o)
  <1>1. rt \in Runtime /\ Sound(rt) /\ rt # Gone /\ ~rt.del /\ MaxGen \in Nat
    BY RtIsLatest, FSMAssumption
    DEF Users, EditRuntime, DeleteRuntime, Annotate, Inv, FSMAssumption
  <1>2. rt.gen \in Nat /\ rt.gen <= MaxGen /\ rt.w \in Gens /\ rt.st.state # "Terminating"
    BY <1>1, RuntimeFields DEF Sound
  <1>3. CASE EditRuntime
    <2>1. PICK w \in {rt.w, rt.gen + 1} : UserWrite([rt EXCEPT !.gen = rt.gen + 1, !.w = w])
      BY <1>3 DEF EditRuntime
    <2> DEFINE o == [rt EXCEPT !.gen = rt.gen + 1, !.w = w]
    <2>2. rt.gen < MaxGen /\ rt.gen + 1 \in Gens /\ w \in Gens
      BY <1>1, <1>2, <1>3, <2>1 DEF EditRuntime, Gens
    <2>3. o \in Runtime /\ o.gen = rt.gen + 1 /\ o.fin = rt.fin /\ o.del = rt.del /\ o.st = rt.st
      BY <1>1, <2>2 DEF Runtime
    <2>4. UserWrite(o)
      BY <2>1
    <2> HIDE DEF o
    <2>5. Sound(o) /\ Later(rt, o) /\ o # Gone
      BY <1>1, <1>2, <2>2, <2>3, AbsentAssumption DEF Sound, Later, AbsentAssumption
    <2>6. Triggers(rt, o)
      BY <1>2, <2>3 DEF Triggers
    <2>7. UserVersion(o)
      BY <1>1, <2>3, <2>5, <2>6 DEF UserVersion
    <2> QED
      BY <1>1, <2>4, <2>7
  <1>4. CASE DeleteRuntime
    <2>1. CASE ~rt.fin /\ UserWrite(Gone)
      <3>1. UserVersion(Gone)
        BY <2>1 DEF UserVersion, Sound, Later, Triggers
      <3> QED
        BY <1>1, <2>1, <3>1
    <2>2. CASE rt.fin /\ UserWrite([rt EXCEPT !.del = TRUE, !.gen = rt.gen + 1])
      <3> DEFINE o == [rt EXCEPT !.del = TRUE, !.gen = rt.gen + 1]
      <3>1. rt.gen + 1 \in Gens
        BY <1>1, <1>2 DEF Gens
      <3>2. o \in Runtime /\ o.gen = rt.gen + 1 /\ o.fin = rt.fin /\ o.del = TRUE /\ o.st = rt.st
        BY <1>1, <3>1 DEF Runtime
      <3>3. UserWrite(o)
        BY <2>2
      <3> HIDE DEF o
      <3>4. Sound(o) /\ Later(rt, o) /\ o # Gone
        BY <1>1, <1>2, <2>2, <3>2, AbsentAssumption DEF Sound, Later, AbsentAssumption
      <3>5. Triggers(rt, o)
        BY <1>2, <3>2 DEF Triggers
      <3>6. UserVersion(o)
        BY <2>2, <3>2, <3>4, <3>5 DEF UserVersion
      <3> QED
        BY <1>1, <3>3, <3>6
    <2> QED
      BY <1>4, <2>1, <2>2 DEF DeleteRuntime
  <1>5. CASE Annotate
    <2>1. rt.susp \in BOOLEAN /\ rt.force \in BOOLEAN /\ (~rt.susp) \in BOOLEAN
      BY <1>1, RuntimeFields
    <2>2. PICK o \in {[rt EXCEPT !.force = TRUE], [rt EXCEPT !.susp = ~rt.susp]} :
            UserWrite(o) /\ (o.force # rt.force \/ o.susp # rt.susp)
      BY <1>1, <1>5, <2>1 DEF Annotate, Runtime
    <2>3. o \in Runtime /\ o.gen = rt.gen /\ o.w = rt.w /\ o.fin = rt.fin /\ o.del = rt.del /\ o.st = rt.st
      BY <1>1, <2>1, <2>2 DEF Runtime
    <2>4. Sound(o) /\ Later(rt, o) /\ o # Gone
      BY <1>1, <1>2, <2>3, AbsentAssumption DEF Sound, Later, AbsentAssumption
    <2>5. Triggers(rt, o)
      BY <2>2 DEF Triggers
    <2>6. UserVersion(o)
      BY <1>1, <2>3, <2>4, <2>5 DEF UserVersion
    <2> QED
      BY <1>1, <2>2, <2>6
  <1> QED
    BY <1>3, <1>4, <1>5 DEF Users

LEMMA UsersInv ==
    ASSUME Inv, Users
    PROVE  Inv'
  <1>1. PICK o : UserWrite(o) /\ UserVersion(o)
    BY UserForms
  <1> QED
    BY <1>1, UserWriteInv DEF UserVersion

LEMMA CacheSyncInv ==
    ASSUME Inv, CacheSync
    PROVE  Inv'
  <1>1. /\ watch # <<>> /\ cache' = Head(watch) /\ watch' = Tail(watch) /\ rt' = rt
        /\ UNCHANGED shoot /\ UNCHANGED admins /\ UNCHANGED pc /\ UNCHANGED inst /\ UNCHANGED snap
        /\ UNCHANGED sh /\ UNCHANGED fresh
    BY DEF CacheSync, memVars
  <1>2. /\ cache' \in Runtime \cup {Gone} /\ watch' \in Seq(Runtime \cup {Gone}) /\ History'
        /\ \A i \in Copies' : i + 1 \in Copies /\ Copy(i)' = Copy(i + 1)
        /\ Later(cache, cache')
    BY <1>1, SyncHistory DEF Inv
  <1>3. TypeOK'
    <2>1. UNCHANGED <<rt, timer, shoot, gc, gcCache, admins, pc, inst, snap, fresh, sh,
                      shFresh, changed, res, calm, trouble>>
      BY DEF CacheSync, env, memVars
    <2>2. queued' \in BOOLEAN
      BY DEF CacheSync, Inv, CoreInv, TypeOK
    <2> QED
      BY <1>2, <2>1, <2>2 DEF Inv, CoreInv, TypeOK
  <1>4. Releases' /\ NoOrphanShoot'
    BY <1>1, <1>2 DEF Inv, CoreInv, Releases, Released, NoOrphanShoot
  <1>5. UNCHANGED trouble /\ UNCHANGED rt /\ (pc \in Unwritten => Later(inst, cache'))
    BY <1>2, LaterTransitive DEF Inv, CoreInv, TypeOK, Memory, CacheSync, env, Unwritten, Unpatched
  <1>6. Memory' /\ Places' /\ DeletedOnRequest'
    BY <1>1, <1>2, <1>5
    DEF Inv, CoreInv, Places, LiveFns, DeletedOnRequest, Memory, Sound, Later, SameSpec
  <1>7. shoot # NoShoot => CompleteFor(cache')
    BY <1>2, CompleteLater DEF Inv, CoreInv, TypeOK, AppliedInv
  <1>8. AppliedInv' /\ StatusInv'
    BY <1>1, <1>2, <1>5, <1>7
    DEF Inv, AppliedInv, StatusInv, CompleteFor, Unpatched, Patched, Unwritten, IsCurrent
  <1> QED
    BY <1>2, <1>3, <1>4, <1>6, <1>8 DEF Inv, CoreInv

LEMMA RestartInv ==
    ASSUME Inv, Restart
    PROVE  Inv'
  <1>1. /\ cache' = rt /\ watch' = <<>> /\ rt' = rt /\ UNCHANGED shoot /\ UNCHANGED admins
        /\ pc' = "idle" /\ fresh' = FALSE
    BY DEF Restart
  <1>2. rt \in Runtime \cup {Gone} /\ Sound(rt) /\ Later(cache, rt)
    BY RtIsLatest DEF Inv
  <1>3. Len(watch') = 0 /\ Copies' = {0} /\ Copy(0)' = rt /\ watch' \in Seq(Runtime \cup {Gone})
    BY <1>1 DEF Copies, Copy, Nth
  <1>4. TypeOK'
    BY <1>1, <1>2, <1>3, NoStatusType DEF Inv, CoreInv, TypeOK, Restart, env, Results
  <1>5. History'
    <2>1. Later(rt, rt)
      BY <1>2, RuntimeFields DEF Later
    <2>2. Nth(cache', watch', Len(watch')) = rt'
      BY <1>1, <1>3 DEF Copy
    <2> QED
      BY <1>2, <1>3, <2>1, <2>2 DEF History, Copy, Sound, Later
  <1>6. Releases' /\ NoOrphanShoot' /\ Memory' /\ Places'
    BY <1>1, <1>3 DEF Inv, CoreInv, Releases, Released, NoOrphanShoot, Memory, Places, LiveFns,
                              Unwritten, Unpatched
  <1>7. DeletedOnRequest'
    BY <1>1, <1>2 DEF Inv, CoreInv, DeletedOnRequest, Later
  <1>8. shoot # NoShoot => CompleteFor(rt)
    BY <1>2, CompleteLater DEF Inv, CoreInv, TypeOK, AppliedInv
  <1>9. AppliedInv' /\ StatusInv'
    BY <1>1, <1>8
    DEF Inv, AppliedInv, StatusInv, CompleteFor, Unpatched, Patched, Unwritten
  <1> QED
    BY <1>4, <1>5, <1>6, <1>7, <1>9 DEF Inv, CoreInv

\* Gardener only writes the operation, or takes away a shoot that is deleted.
LEMMA GardenerInv ==
    ASSUME Inv, pc \in EnvironmentMoves, NEW s, GardenerWrite(s), shoot # NoShoot,
           \/ /\ s \in Shoot /\ s.del = shoot.del /\ s.applied = shoot.applied /\ s.w = shoot.w
           \/ s = NoShoot /\ shoot.del
    PROVE  Inv'
  <1>1. /\ UNCHANGED <<rt, cache, watch, queued, timer, gc, gcCache, admins, pc, inst, snap,
                       fresh, sh, changed, res, calm, trouble>>
        /\ shoot' = s /\ shFresh' = FALSE
    BY DEF GardenerWrite, kcpVars, env
  <1>2. TypeOK'
    <2>1. shoot' \in Shoot \cup {NoShoot} /\ shFresh' \in BOOLEAN
      BY <1>1
    <2> QED
      BY <1>1, <2>1 DEF Inv, CoreInv, TypeOK
  <1>3. History' /\ Memory' /\ Releases' /\ NoOrphanShoot'
    BY <1>1 DEF Inv, CoreInv, History, Copy, Nth, Copies, Memory, Releases, Released, NoOrphanShoot,
                SameSpec, Sound, Later
  <1>4. s = NoShoot => shoot.del /\ pc \notin LiveFns /\ (pc # "idle" => inst.del)
    BY AbsentAssumption DEF Inv, CoreInv, DeletedOnRequest, Places, LiveFns, AbsentAssumption
  <1>5. s # NoShoot => s.del = shoot.del /\ s.applied = shoot.applied /\ s.w = shoot.w
    OBVIOUS
  <1>6. Places'
    BY <1>1, <1>4, <1>5
    DEF Inv, CoreInv, Places, LiveFns, EnvironmentMoves
  <1>9. DeletedOnRequest'
    BY <1>1, <1>5
    DEF Inv, CoreInv, DeletedOnRequest
  <1>7. AppliedInv'
    BY <1>1, <1>4, <1>5
    DEF Inv, AppliedInv, CompleteFor, Unpatched, Patched, LiveFns, EnvironmentMoves
  <1>8. StatusInv'
    BY <1>1, <1>4, <1>5
    DEF Inv, StatusInv, Unpatched, Patched, Unwritten, IsCurrent, LiveFns, EnvironmentMoves
  <1> QED
    BY <1>2, <1>3, <1>6, <1>7, <1>8, <1>9 DEF Inv, CoreInv

LEMMA GardenersInv ==
    ASSUME Inv, pc \in EnvironmentMoves, Gardener
    PROVE  Inv'
  <1>1. shoot \in Shoot /\ shoot # NoShoot
    BY DEF Inv, CoreInv, TypeOK, Gardener, GardenerStart, GardenerNoSeeds, GardenerFinish, GardenerDelete
  <1>2. CASE GardenerDelete
    BY <1>1, <1>2, GardenerInv DEF GardenerDelete
  <1>3. ASSUME NEW op \in {"Create", "Reconcile", "Migrate"}, NEW d \in BOOLEAN,
               NEW ops \in {"NoSeeds", "Processing", "Retryable", "Fatal", "Succeeded"},
               NEW s \in {[shoot EXCEPT !.op = op, !.opState = ops, !.dirty = d],
                          [shoot EXCEPT !.op = op, !.opState = ops],
                          [shoot EXCEPT !.opState = ops]}, GardenerWrite(s)
        PROVE  Inv'
    <2>1. s \in Shoot /\ s.del = shoot.del /\ s.applied = shoot.applied /\ s.w = shoot.w
      BY <1>1, <1>3 DEF Shoot
    <2> QED
      BY <1>1, <1>3, <2>1, GardenerInv
  <1>4. CASE GardenerStart
    BY <1>4, <1>3 DEF GardenerStart
  <1>5. CASE GardenerNoSeeds
    BY <1>5, <1>3 DEF GardenerNoSeeds
  <1>6. CASE GardenerFinish
    BY <1>6, <1>3 DEF GardenerFinish
  <1> QED
    BY <1>2, <1>4, <1>5, <1>6 DEF Gardener

LEMMA EnvironmentInv ==
    ASSUME Inv, Environment
    PROVE  Inv'
  <1>1. CASE TimerFires
    BY <1>1, AsideInv DEF TimerFires, env, Inv, CoreInv, TypeOK, GcStates
  <1>2. CASE GcSync
    BY <1>2, AsideInv DEF GcSync, env, Inv, CoreInv, TypeOK, GcStates
  <1>3. CASE GardenerCluster
    BY <1>3, AsideInv DEF GardenerCluster, env, Inv, CoreInv, TypeOK, GcStates
  <1>4. CASE BecomeCalm
    BY <1>4, AsideInv DEF BecomeCalm, Inv, CoreInv, TypeOK, GcStates
  <1> QED
    BY <1>1, <1>2, <1>3, <1>4, CacheSyncInv, UsersInv, RestartInv, GardenersInv DEF Environment

-----------------------------------------------------------------------------
(* The other state functions.                                               *)

\* A step of the worker that writes no Runtime and goes on.
LEMMA GoesKeeps ==
    ASSUME Inv, pc # "idle", NEW fn \in StateFns \ {"take_snapshot", "initialize"},
           fn \in Unwritten => pc \in Unwritten,
           NEW st \in Status, Goes(fn, st), st.state = "Terminating" => inst.del,
           UNCHANGED <<kcpVars, gcCache, env>>, gc' \in GcStates, admins' \in Gens,
           shoot' \in Shoot \cup {NoShoot}
    PROVE  TypeOK' /\ History' /\ Memory' /\ Releases' /\ UNCHANGED rt /\ UNCHANGED cache
  <1>1. inst \in Runtime /\ inst # Gone /\ inst' \in Runtime /\ inst' # Gone
    BY AbsentAssumption DEF Inv, CoreInv, TypeOK, Goes, AbsentAssumption
  <1>2. UNCHANGED rt /\ UNCHANGED cache /\ UNCHANGED watch
    BY DEF kcpVars
  <1>3. TypeOK'
    BY <1>1, <1>2 DEF Inv, CoreInv, TypeOK, Goes, env, GcStates
  <1>4. History'
    BY <1>2 DEF Inv, CoreInv, History, Copy, Nth, Copies
  <1>5. Releases'
    BY <1>1, <1>2 DEF Inv, CoreInv, Releases, Released, Copy, Nth, Copies, Goes, SameSpec
  <1>6. Memory'
    <2>1. Sound(inst') /\ Later(inst', rt) /\ (fn \in Unwritten => Later(inst', cache))
      BY <1>1 DEF Inv, CoreInv, Memory, Goes, Sound, Later, SameSpec
    <2>2. fresh' => rt # Gone /\ SameSpec(rt, inst') /\ rt.st = snap
      BY <1>1 DEF Inv, CoreInv, Memory, Goes, SameSpec
    <2> QED
      BY <1>2, <2>1, <2>2 DEF Memory, Goes, Sound, Later, SameSpec, StateFns
  <1> QED
    BY <1>2, <1>3, <1>4, <1>5, <1>6

LEMMA WorkerFacts ==
    ASSUME Inv, pc # "idle"
    PROVE  /\ TypeOK /\ inst \in Runtime /\ inst # Gone /\ inst.st \in Status
           /\ gc \in GcStates /\ admins \in Gens
           /\ inst.st.state = "Terminating" => inst.del
  BY AbsentAssumption, RuntimeFields
  DEF Inv, CoreInv, TypeOK, AbsentAssumption, GcStates, Memory, Sound

\* A step that ends in sFnUpdateStatus with nothing but the status changed.
LEMMA ReportInv ==
    ASSUME Inv, pc # "idle", NEW r \in Results, NEW st \in Status, UpdateStatusAnd(r, st),
           st.state = "Terminating" => inst.del, st.state = "Ready" => st = snap,
           UNCHANGED <<kcpVars, shoot, gcCache, admins, env>>, gc' \in GcStates
    PROVE  Inv'
  <1>1. Goes("update_status", st)
    BY WorkerFacts, UpdateStatusGoes
  <1>2. shoot' \in Shoot \cup {NoShoot} /\ admins' \in Gens
    BY DEF Inv, CoreInv, TypeOK
  <1>3. TypeOK' /\ History' /\ Memory' /\ Releases' /\ UNCHANGED rt /\ UNCHANGED cache
    BY <1>1, <1>2, GoesKeeps DEF StateFns, Unwritten, Unpatched
  <1>4. Places' /\ DeletedOnRequest' /\ NoOrphanShoot'
    BY <1>1, <1>3
    DEF Inv, CoreInv, Places, DeletedOnRequest, NoOrphanShoot, Goes, SameSpec, LiveFns
  <1>5. inst # Gone /\ inst' # Gone
    BY <1>1, WorkerFacts, AbsentAssumption DEF Goes, AbsentAssumption
  <1>6. AppliedInv'
    BY <1>1, <1>3, <1>5
    DEF Inv, AppliedInv, CompleteFor, Goes, SameSpec, Unpatched, Patched
  <1>7. StatusInv'
    BY <1>1 DEF Inv, StatusInv, Goes, Unpatched, Unwritten
  <1> QED
    BY <1>3, <1>4, <1>6, <1>7 DEF Inv, CoreInv

LEMMA TakeSnapshotInv ==
    ASSUME Inv, sFnTakeSnapshot
    PROVE  Inv'
  <1>1. pc = "take_snapshot" /\ UNCHANGED <<kcpVars, shoot, gc, gcCache, admins, env>>
        /\ inst.st = snap /\ inst.st \in Status
    BY WorkerFacts DEF sFnTakeSnapshot, Inv, StatusInv, Unwritten
  <1>2. CASE UpdateStatusAnd("after", inst.st)
    BY <1>1, <1>2, WorkerFacts, ReportInv DEF Results
  <1>3. CASE sh' = shoot /\ pc' = "initialize" /\ UNCHANGED <<queued, timer, inst, snap, fresh, changed, res>>
             /\ shFresh' = TRUE
    <2>1. UNCHANGED rt /\ UNCHANGED cache /\ UNCHANGED watch
      BY <1>1 DEF kcpVars
    <2>2. TypeOK'
      BY <1>1, <1>3, <2>1 DEF Inv, CoreInv, TypeOK, StateFns, env
    <2>3. History' /\ Memory' /\ Releases' /\ NoOrphanShoot'
      BY <1>1, <1>3, <2>1
      DEF Inv, CoreInv, History, Memory, Releases, Copy, Nth, Copies, Released, NoOrphanShoot,
          Sound, Later, SameSpec, Unwritten
    <2>4. Places' /\ DeletedOnRequest'
      BY <1>1, <1>3, <2>1 DEF Inv, CoreInv, Places, DeletedOnRequest, LiveFns
    <2>5. AppliedInv' /\ StatusInv'
      BY <1>1, <1>3, <2>1
      DEF Inv, AppliedInv, StatusInv, CompleteFor, Unpatched, Patched, Unwritten
    <2> QED
      BY <2>2, <2>3, <2>4, <2>5 DEF Inv, CoreInv
  <1> QED
    BY <1>2, <1>3 DEF sFnTakeSnapshot, Goto

LEMMA ReconcileInv ==
    ASSUME Inv, Reconcile
    PROVE  Inv'
  <1>1. pc = "idle" /\ queued' = FALSE /\ UNCHANGED <<kcpVars, timer, shoot, gc, gcCache, admins, sh, shFresh,
          changed, res, env>>
    BY DEF Reconcile
  <1>2. UNCHANGED rt /\ UNCHANGED cache /\ UNCHANGED watch
    BY <1>1 DEF kcpVars
  <1>3. CASE UNCHANGED <<pc, inst, snap, fresh>>
    BY <1>1, <1>3, AsideInv DEF memVars, env, Inv, CoreInv, TypeOK, GcStates
  <1>4. CASE /\ cache # Gone /\ pc' = "take_snapshot" /\ inst' = cache /\ snap' = cache.st
             /\ fresh' = (watch = <<>>)
    <2>1. cache \in Runtime /\ Sound(cache) /\ cache.st \in Status /\ cache.gen \in Nat
      BY <1>4, RtIsLatest, RuntimeFields DEF Inv, CoreInv, TypeOK
    <2>2. TypeOK'
      <3>1. fresh' \in BOOLEAN
        BY <1>4
      <3>2. TypeOK
        BY DEF Inv, CoreInv
      <3>3. pc' \in StateFns \cup {"idle"} /\ inst' \in Runtime /\ snap' \in Status
        BY <1>4, <2>1 DEF StateFns
      <3>4. UNCHANGED <<rt, cache, watch, timer, shoot, gc, gcCache, admins, sh, shFresh, changed, res,
                        calm, trouble>>
        BY <1>1, <1>2 DEF env
      <3>5. queued' \in BOOLEAN
        BY <1>1
      <3>6. /\ rt' \in Runtime \cup {Gone} /\ cache' \in Runtime \cup {Gone}
            /\ watch' \in Seq(Runtime \cup {Gone})
            /\ shoot' \in Shoot \cup {NoShoot} /\ sh' \in Shoot \cup {NoShoot}
            /\ gc' \in GcStates /\ gcCache' \in GcStates /\ admins' \in Gens
        BY <3>2, <3>4 DEF TypeOK, GcStates
      <3>7. /\ timer' \in BOOLEAN /\ calm' \in BOOLEAN /\ trouble' \in Scenarios
            /\ shFresh' \in BOOLEAN /\ changed' \in BOOLEAN /\ res' \in Results
        BY <3>2, <3>4 DEF TypeOK
      <3> QED
        BY <3>1, <3>3, <3>5, <3>6, <3>7 DEF TypeOK, GcStates
    <2>3. watch = <<>> => rt = cache
      <3>1. watch = <<>> => Len(watch) = 0
        OBVIOUS
      <3> QED
        BY <3>1 DEF Inv, CoreInv, History, Copy, Nth
    <2>4. History' /\ NoOrphanShoot'
      BY <1>1, <1>2 DEF Inv, CoreInv, History, Copy, Nth, Copies, NoOrphanShoot
    <2>5. Memory'
      <3>1. fresh' => watch = <<>> /\ rt = cache
        BY <1>4, <2>3
      <3>2. Later(cache, cache) /\ SameSpec(cache, cache) /\ Later(cache, rt)
        BY <1>4, <2>1, RtIsLatest DEF Later, SameSpec, Inv
      <3> QED
        BY <1>2, <1>4, <2>1, <3>1, <3>2 DEF Memory, Sound, Later, SameSpec
    <2>6. Releases'
      <3>1. 0 \in Copies /\ Copy(0) = cache
        BY WatchLength DEF Inv, CoreInv
      <3> QED
        BY <1>2, <1>4, <3>1 DEF Inv, CoreInv, Releases, Released, Copy, Nth, Copies
    <2>7. Places' /\ DeletedOnRequest'
      BY <1>1, <1>2, <1>4 DEF Inv, CoreInv, Places, DeletedOnRequest, LiveFns
    <2>8. AppliedInv' /\ StatusInv'
      BY <1>1, <1>2, <1>4
      DEF Inv, AppliedInv, StatusInv, CompleteFor, Unpatched, Patched, Unwritten
    <2> QED
      BY <2>2, <2>4, <2>5, <2>6, <2>7, <2>8 DEF Inv, CoreInv
  <1> QED
    BY <1>3, <1>4 DEF Reconcile, Goto

\* A write of the Runtime by the worker: what it holds is the stored version.
LEMMA FreshFacts ==
    ASSUME Inv, fresh
    PROVE  /\ pc # "idle" /\ rt \in Runtime /\ rt # Gone /\ SameSpec(rt, inst) /\ rt.st = snap
           /\ Sound(rt) /\ rt.st \in Status /\ rt.gen \in Nat
  BY RtIsLatest, RuntimeFields DEF Inv, CoreInv, Memory, TypeOK

LEMMA InitializeInv ==
    ASSUME Inv, sFnInitialize
    PROVE  Inv'
  <1>1. pc = "initialize" /\ UNCHANGED <<shoot, gc, gcCache, admins, env>> /\ inst.st = snap
        /\ sh = shoot /\ TypeOK
    BY DEF sFnInitialize, Inv, StatusInv, Unwritten, CoreInv, Places
  <1>2. inst \in Runtime /\ inst # Gone /\ inst.st \in Status /\ gc \in GcStates /\ admins \in Gens
        /\ (inst.st.state = "Terminating" => inst.del) /\ {"after", "error", "requeue", "stop"} \subseteq Results
    BY <1>1, WorkerFacts DEF Results
  <1>3. shoot \in Shoot \cup {NoShoot}
    BY <1>1 DEF TypeOK
  <1>4. CASE UNCHANGED kcpVars /\ \E r \in {"after", "error"} : UpdateStatusAnd(r, inst.st)
    BY <1>1, <1>2, <1>4, ReportInv
  <1>5. CASE UNCHANGED kcpVars /\ ~inst.del /\ UpdateStatusAnd("after", With("Pending", "prov", "other"))
    <2>1. With("Pending", "prov", "other") \in Status /\ With("Pending", "prov", "other").state = "Pending"
      BY <1>2, WithTypes
    <2> QED
      BY <1>1, <1>2, <1>5, <2>1, ReportInv
  <1>6. CASE noConflict /\ WriteRuntime([rt EXCEPT !.fin = TRUE]) /\ Return("requeue") /\ ~inst.del
    <2>1. rt \in Runtime /\ rt # Gone /\ SameSpec(rt, inst) /\ Sound(rt) /\ rt.gen \in Nat /\ Ends
      BY <1>1, <1>2, <1>6, FreshFacts, ReturnEnds DEF noConflict
    <2> DEFINE o == [rt EXCEPT !.fin = TRUE]
    <2>2. o \in Runtime /\ o.gen = rt.gen /\ o.w = rt.w /\ o.fin = TRUE /\ o.del = rt.del /\ o.st = rt.st
      BY <2>1 DEF Runtime
    <2>3. WriteRuntime(o)
      BY <1>6
    <2> HIDE DEF o
    <2>4. Sound(o) /\ Later(rt, o) /\ o # Gone
      BY <2>1, <2>2, AbsentAssumption DEF Sound, Later, AbsentAssumption
    <2> QED
      BY <1>1, <2>1, <2>2, <2>3, <2>4, WriteEndsInv
  <1>7. CASE noConflict /\ WriteRuntime(Gone) /\ Return("stop") /\ inst.del /\ sh = NoShoot
    <2>1. rt \in Runtime /\ rt # Gone /\ SameSpec(rt, inst) /\ Ends /\ fresh
      BY <1>1, <1>2, <1>7, FreshFacts, ReturnEnds DEF noConflict
    <2>2. watch = <<>>
      BY <1>1, <2>1 DEF Inv, CoreInv, Memory
    <2>3. Len(watch) = 0 /\ Copies = {0}
      BY <2>2 DEF Copies
    <2>4. \A i \in Copies : Copy(i) = rt
      BY <2>3 DEF Inv, CoreInv, History
    <2>5. \A i \in Copies : Released(Copy(i))
      BY <1>7, <2>1, <2>4 DEF Released, SameSpec
    <2>6. Sound(Gone) /\ Later(rt, Gone)
      BY DEF Sound, Later
    <2> QED
      BY <1>1, <1>7, <2>1, <2>5, <2>6, WriteEndsInv
  <1>8. ASSUME NEW fn \in {"delete_kubeconfig", "create_shoot", "select"}, Continue(fn, inst.st),
               UNCHANGED kcpVars,
               \/ fn = "delete_kubeconfig" /\ inst.del /\ sh # NoShoot
               \/ fn = "create_shoot" /\ ~inst.del /\ inst.fin /\ sh = NoShoot
               \/ fn = "select" /\ ~inst.del /\ inst.fin /\ sh # NoShoot
        PROVE  Inv'
    <2>1. Goes(fn, inst.st)
      BY <1>1, <1>2, <1>8, ContinueGoes
    <2>2. TypeOK' /\ History' /\ Memory' /\ Releases' /\ UNCHANGED rt /\ UNCHANGED cache
      BY <1>1, <1>2, <1>3, <1>8, <2>1, GoesKeeps DEF StateFns, Unwritten, Unpatched
    <2>3. DeletedOnRequest' /\ NoOrphanShoot'
      BY <1>1, <2>1, <2>2
      DEF Inv, CoreInv, DeletedOnRequest, NoOrphanShoot, Goes, SameSpec
    <2>4. Places'
      BY <1>1, <1>8, <2>1 DEF Inv, CoreInv, DeletedOnRequest, Places, Goes, SameSpec, LiveFns
    <2>5. AppliedInv'
      BY <1>1, <1>2, <1>8, <2>1, <2>2
      DEF Inv, AppliedInv, CompleteFor, Goes, SameSpec, Unpatched, Patched
    <2>6. StatusInv'
      BY <1>1, <1>8, <2>1 DEF Inv, StatusInv, Goes, Unpatched, Unwritten
    <2> QED
      BY <2>2, <2>3, <2>4, <2>5, <2>6 DEF Inv, CoreInv
  <1> QED
    BY <1>4, <1>5, <1>6, <1>7, <1>8 DEF sFnInitialize, UpdateRuntime, shootGone

LEMMA CreateShootInv ==
    ASSUME Inv, sFnCreateShoot
    PROVE  Inv'
  <1>1. pc = "create_shoot" /\ UNCHANGED <<kcpVars, gc, gcCache, admins, env>> /\ TypeOK
        /\ shoot = NoShoot /\ inst.fin /\ ~inst.del
    BY DEF sFnCreateShoot, Inv, CoreInv, Places
  <1>2. inst \in Runtime /\ inst # Gone /\ inst.gen \in Nat /\ inst.gen \in Gens /\ inst.w \in Gens
        /\ gc \in GcStates /\ admins \in Gens /\ {"after", "stop"} \subseteq Results
    BY <1>1, WorkerFacts, RuntimeFields DEF Results
  <1>3. /\ With("Pending", "prov", "other") \in Status /\ With("Pending", "prov", "other").state = "Pending"
        /\ With("Failed", "prov", "other") \in Status /\ With("Failed", "prov", "other").state = "Failed"
    BY <1>2, WithTypes
  <1>4. CASE UNCHANGED shoot /\ UpdateStatusAnd("stop", With("Failed", "prov", "other"))
    BY <1>1, <1>2, <1>3, <1>4, ReportInv
  <1>5. CASE UNCHANGED shoot /\ UpdateStatusAnd("after", With("Pending", "prov", "other"))
    BY <1>1, <1>2, <1>3, <1>5, ReportInv
  <1>6. CASE shoot' = NewShoot(inst) /\ UpdateStatusAnd("after", With("Pending", "prov", "other"))
    <2>0. NewShoot(inst) \in Shoot
      BY <1>2 DEF NewShoot, Shoot, runtimeGeneration
    <2>1. shoot' \in Shoot /\ shoot' # NoShoot /\ ~shoot'.del /\ shoot'.applied = inst.gen /\ shoot'.w = inst.w
      BY <1>6, <2>0, AbsentAssumption DEF NewShoot, runtimeGeneration, AbsentAssumption
    <2> DEFINE st == With("Pending", "prov", "other")
    <2>2. Goes("update_status", st) /\ st \in Status /\ st.state = "Pending"
      BY <1>1, <1>2, <1>3, <1>6, UpdateStatusGoes
    <2> HIDE DEF st
    <2>3. TypeOK' /\ History' /\ Memory' /\ Releases' /\ UNCHANGED rt /\ UNCHANGED cache
      BY <1>1, <1>2, <2>1, <2>2, GoesKeeps DEF StateFns, Unwritten, Unpatched
    <2>4. rt # Gone /\ rt.fin /\ Later(inst, cache)
      BY <1>1, <1>2, RtIsLatest DEF Inv, CoreInv, Releases, Released, Later, Memory, Unwritten
    <2>5. Places' /\ DeletedOnRequest' /\ NoOrphanShoot'
      BY <2>1, <2>2, <2>3, <2>4 DEF Places, DeletedOnRequest, NoOrphanShoot, Goes, LiveFns
    <2>6. AppliedInv'
      BY <1>2, <2>1, <2>2, <2>3, <2>4
      DEF AppliedInv, CompleteFor, Goes, SameSpec, Unpatched, Patched, Later
    <2>7. StatusInv'
      BY <2>2 DEF StatusInv, Goes, Unpatched, Unwritten
    <2> QED
      BY <2>3, <2>5, <2>6, <2>7 DEF Inv, CoreInv
  <1> QED
    BY <1>4, <1>5, <1>6 DEF sFnCreateShoot

LEMMA DeleteKubeconfigInv ==
    ASSUME Inv, sFnDeleteKubeconfig
    PROVE  Inv'
  <1>1. pc = "delete_kubeconfig" /\ UNCHANGED <<kcpVars, shoot, gcCache, admins, env>> /\ TypeOK
        /\ inst.del /\ inst.st = snap
    BY DEF sFnDeleteKubeconfig, Inv, CoreInv, Places, StatusInv, Unwritten
  <1>2. inst \in Runtime /\ inst # Gone /\ inst.st \in Status /\ {"after", "stop"} \subseteq Results
        /\ gc' \in GcStates /\ admins' \in Gens /\ shoot' \in Shoot \cup {NoShoot}
    BY <1>1, WorkerFacts DEF Results, sFnDeleteKubeconfig, GcStates, TypeOK
  <1>3. StateOnly("Failed") \in Status /\ StateOnly("Failed").state = "Failed"
    BY <1>2, StateOnlyType
  <1>4. ASSUME NEW v \in Reasons
        PROVE  With("Terminating", "depr", v) \in Status /\ With("Terminating", "depr", v).state = "Terminating"
    <2>1. "Terminating" \in StateNames /\ "depr" \in Conditions
      BY DEF StateNames, Conditions
    <2> QED
      BY <1>2, <1>4, <2>1, WithType
  <1>5. CASE UpdateStatusAnd("stop", StateOnly("Failed"))
    BY <1>1, <1>2, <1>3, <1>5, ReportInv
  <1>6. CASE \E v \in {"ok", "other"} : UpdateStatusAnd("after", With("Terminating", "depr", v))
    BY <1>1, <1>2, <1>4, <1>6, ReportInv DEF Reasons
  <1>7. CASE Return("after") /\ UNCHANGED gc
    BY <1>1, <1>2, <1>7, ReturnEnds, EndsInv
  <1>8. CASE Continue("delete_shoot", inst.st) /\ UNCHANGED gc
    <2>1. Goes("delete_shoot", inst.st)
      BY <1>1, <1>2, <1>8, ContinueGoes
    <2>2. TypeOK' /\ History' /\ Memory' /\ Releases' /\ UNCHANGED rt /\ UNCHANGED cache
      BY <1>1, <1>2, <2>1, GoesKeeps DEF StateFns, Unwritten, Unpatched
    <2>3. Places' /\ DeletedOnRequest' /\ NoOrphanShoot'
      BY <1>1, <2>1, <2>2
      DEF Inv, CoreInv, Places, DeletedOnRequest, NoOrphanShoot, Goes, SameSpec, LiveFns
    <2>4. AppliedInv'
      BY <1>1, <1>2, <2>1, <2>2
      DEF Inv, AppliedInv, CompleteFor, Goes, SameSpec, Unpatched, Patched
    <2>5. StatusInv'
      BY <1>1, <2>1 DEF StatusInv, Goes
    <2> QED
      BY <2>2, <2>3, <2>4, <2>5 DEF Inv, CoreInv
  <1> QED
    BY <1>5, <1>6, <1>7, <1>8 DEF sFnDeleteKubeconfig

LEMMA DeleteShootInv ==
    ASSUME Inv, sFnDeleteShoot
    PROVE  Inv'
  <1>1. pc = "delete_shoot" /\ UNCHANGED <<kcpVars, gc, gcCache, admins, env>> /\ TypeOK
        /\ inst.del /\ inst.st = snap /\ (~sh.del => shoot # NoShoot /\ ~shoot.del)
    BY DEF sFnDeleteShoot, Inv, CoreInv, Places, StatusInv, Unwritten
  <1>2. inst \in Runtime /\ inst # Gone /\ inst.st \in Status /\ {"after", "requeue"} \subseteq Results
        /\ gc \in GcStates /\ admins \in Gens
    BY <1>1, WorkerFacts DEF Results
  <1>3. CASE UNCHANGED shoot /\ UpdateStatusAnd("after", inst.st)
    BY <1>1, <1>2, <1>3, ReportInv
  <1>4. CASE UNCHANGED shoot /\ Return("requeue")
    BY <1>1, <1>2, <1>4, ReturnEnds, EndsInv
  <1>5. CASE /\ ~sh.del
             /\ \/ shoot' = [shoot EXCEPT !.confirmed = TRUE, !.del = TRUE]
                \/ shoot' = [shoot EXCEPT !.confirmed = TRUE]
             /\ UpdateStatusAnd("after", With("Terminating", "depr", "other"))
    <2> DEFINE st == With("Terminating", "depr", "other")
    <2>1. st \in Status /\ st.state = "Terminating"
      BY <1>2, WithTypes
    <2>2. UpdateStatusAnd("after", st)
      BY <1>5
    <2> HIDE DEF st
    <2>3. Goes("update_status", st)
      BY <1>1, <1>2, <2>1, <2>2, UpdateStatusGoes
    <2>4. shoot \in Shoot /\ shoot # NoShoot
      BY <1>1, <1>5 DEF TypeOK
    <2>5. shoot' \in Shoot /\ shoot'.applied = shoot.applied /\ shoot'.w = shoot.w
      BY <1>5, <2>4 DEF Shoot
    <2>6. TypeOK' /\ History' /\ Memory' /\ Releases' /\ UNCHANGED rt /\ UNCHANGED cache
      BY <1>1, <1>2, <2>1, <2>3, <2>5, GoesKeeps DEF StateFns, Unwritten, Unpatched
    <2>7. Places' /\ NoOrphanShoot'
      BY <1>1, <2>3, <2>4, <2>6
      DEF Inv, CoreInv, Places, NoOrphanShoot, Goes, LiveFns
    <2>8. DeletedOnRequest'
      BY <1>1, <1>2, <2>3, <2>6
      DEF Inv, CoreInv, DeletedOnRequest, Goes, SameSpec, Memory, Later, Unwritten
    <2>9. AppliedInv'
      BY <1>1, <1>2, <2>3, <2>4, <2>5, <2>6
      DEF Inv, AppliedInv, CompleteFor, Goes, SameSpec, Unpatched, Patched
    <2>10. StatusInv'
      BY <1>1, <2>1, <2>3 DEF StatusInv, Goes, Unpatched, Unwritten
    <2> QED
      BY <2>6, <2>7, <2>8, <2>9, <2>10 DEF Inv, CoreInv
  <1> QED
    BY <1>3, <1>4, <1>5 DEF sFnDeleteShoot

LEMMA UpdateStatusInv ==
    ASSUME Inv, sFnUpdateStatus
    PROVE  Inv'
  <1>1. pc = "update_status" /\ UNCHANGED <<shoot, gc, gcCache, admins, env>> /\ TypeOK
        /\ res \in Results /\ "error" \in Results
    BY DEF sFnUpdateStatus, Inv, CoreInv, TypeOK, Results
  <1>2. CASE UNCHANGED kcpVars /\ \E r \in Results : Return(r)
    BY <1>1, <1>2, ReturnEnds, EndsInv
  <1>3. CASE noConflict /\ WriteRuntime([rt EXCEPT !.st = inst.st]) /\ Return(res)
    <2>1. rt \in Runtime /\ rt # Gone /\ SameSpec(rt, inst) /\ Sound(rt) /\ rt.gen \in Nat /\ Ends
      BY <1>1, <1>3, FreshFacts, ReturnEnds DEF noConflict
    <2>2. inst.st \in Status /\ (inst.st.state = "Terminating" => inst.del)
      BY <1>1, WorkerFacts
    <2> DEFINE o == [rt EXCEPT !.st = inst.st]
    <2>3. o \in Runtime /\ SameSpec(o, rt) /\ o.st = inst.st
      BY <2>1, <2>2, SetStatus
    <2>4. WriteRuntime(o)
      BY <1>3
    <2> HIDE DEF o
    <2>5. Sound(o) /\ Later(rt, o) /\ o # Gone
      BY <2>1, <2>2, <2>3, AbsentAssumption DEF Sound, Later, AbsentAssumption, SameSpec
    <2> QED
      BY <1>1, <2>1, <2>3, <2>4, <2>5, WriteEndsInv
  <1> QED
    BY <1>1, <1>2, <1>3 DEF sFnUpdateStatus

\* What handleForceReconciliationAnnotation leaves in memory is the new version.
PatchedTo(i, st) ==
    /\ inst' = [i EXCEPT !.st = st]
    /\ \/ pc' = "update_status" /\ res' = "after"
       \/ pc' = "kubeconfig" /\ UNCHANGED res
    /\ UNCHANGED <<queued, timer, snap, fresh, sh, shFresh, changed>>

\* What PatchDone may write: the Runtime without the annotation, with the spec that
\* is stored or the one that the conversion has changed.
Unforced(o) ==
    \E g \in {rt.gen, rt.gen + 1} :
        /\ o = [rt EXCEPT !.force = FALSE, !.gen = g]
        /\ g # rt.gen => "writeback" \in trouble /\ g <= MaxGen

LEMMA UnforcedRuntime ==
    ASSUME rt \in Runtime, NEW o, Unforced(o)
    PROVE  /\ o \in Runtime /\ o.w = rt.w /\ o.fin = rt.fin /\ o.del = rt.del
           /\ o.st = rt.st /\ o.susp = rt.susp /\ rt.gen \in Nat /\ o.gen \in Nat
           /\ \/ o.gen = rt.gen
              \/ o.gen = rt.gen + 1 /\ "writeback" \in trouble /\ o.gen <= MaxGen
  <1>1. PICK g \in {rt.gen, rt.gen + 1} :
          /\ o = [rt EXCEPT !.force = FALSE, !.gen = g]
          /\ g # rt.gen => "writeback" \in trouble /\ g <= MaxGen
    BY DEF Unforced
  <1>2. MaxGen \in Nat /\ rt.gen \in Gens /\ g \in Gens
    BY <1>1, FSMAssumption DEF FSMAssumption, Runtime, Gens
  <1>3. /\ o = [gen |-> g, w |-> rt.w, del |-> rt.del, fin |-> rt.fin, force |-> FALSE,
                susp |-> rt.susp, st |-> rt.st]
        /\ rt.w \in Gens /\ rt.del \in BOOLEAN /\ rt.fin \in BOOLEAN /\ rt.susp \in BOOLEAN
        /\ rt.st \in Status
    BY <1>1 DEF Runtime
  <1>4. o \in Runtime
    BY <1>2, <1>3 DEF Runtime
  <1> QED
    BY <1>1, <1>2, <1>3, <1>4 DEF Gens

LEMMA PatchDoneForms ==
    ASSUME Inv, PatchDone
    PROVE  /\ pc = "patch_done" /\ pc \in LiveFns /\ UNCHANGED <<shoot, gc, gcCache, admins, env>>
           /\ \/ PatchedTo(inst, With("Pending", "prov", "other")) /\ UNCHANGED kcpVars
              \/ Return("requeue") /\ UNCHANGED kcpVars
              \/ \E o : /\ Unforced(o) /\ fresh /\ rt \in Runtime /\ WriteRuntime(o)
                        /\ PatchedTo(o, With("Pending", "prov", "other"))
  <1>1. pc = "patch_done" /\ pc \in LiveFns /\ UNCHANGED <<shoot, gc, gcCache, admins, env>>
    BY DEF PatchDone, LiveFns
  <1>2. fresh => rt \in Runtime /\ rt.st = inst.st
    BY <1>1, FreshFacts DEF Inv, StatusInv, Unwritten
  <1> DEFINE st(i) == [i.st EXCEPT !.state = "Pending", !.cond = [@ EXCEPT !["prov"] = "other"]]
  <1>3. CASE ~inst.force
    BY <1>1, <1>3 DEF PatchDone, PatchedTo, With, Goto
  <1>4. CASE inst.force
    <2>1. PICK g \in {rt.gen, rt.gen + 1} :
            /\ g # rt.gen => "writeback" \in trouble /\ g <= MaxGen
            /\ \/ /\ fresh /\ WriteRuntime([rt EXCEPT !.force = FALSE, !.gen = g])
                  /\ LET i == [rt EXCEPT !.force = FALSE, !.gen = g] IN PatchedTo(i, st(i))
               \/ Return("requeue") /\ UNCHANGED kcpVars
      BY <1>1, <1>4 DEF PatchDone, UpdateRuntime, noConflict, PatchedTo, Goto
    <2> DEFINE o == [rt EXCEPT !.force = FALSE, !.gen = g]
    <2>2. Unforced(o)
      BY <2>1 DEF Unforced
    <2>3. rt \in Runtime => o.st = rt.st
      BY <2>2, UnforcedRuntime
    <2>4. fresh => st(o) = With("Pending", "prov", "other")
      BY <1>2, <2>3 DEF With
    <2> HIDE DEF o
    <2> QED
      BY <1>1, <1>2, <2>1, <2>2, <2>4 DEF o
  <1> QED
    BY <1>3, <1>4

LEMMA PatchDoneInv ==
    ASSUME Inv, PatchDone
    PROVE  Inv'
  <1> DEFINE st == With("Pending", "prov", "other")
  <1>1. /\ pc = "patch_done" /\ pc \in LiveFns /\ UNCHANGED <<shoot, gc, gcCache, admins, env>>
        /\ \/ PatchedTo(inst, st) /\ UNCHANGED kcpVars
           \/ Return("requeue") /\ UNCHANGED kcpVars
           \/ \E o : Unforced(o) /\ fresh /\ rt \in Runtime /\ WriteRuntime(o) /\ PatchedTo(o, st)
    BY PatchDoneForms
  <1>2. inst \in Runtime /\ inst # Gone /\ inst.gen \in Nat /\ TypeOK /\ inst.fin /\ ~inst.del
        /\ shoot # NoShoot /\ sh # NoShoot
    BY <1>1, LiveFacts, WorkerFacts
  <1>3. st \in Status /\ st.state = "Pending" /\ {"requeue", "after"} \subseteq Results
    BY <1>2, WithTypes DEF Results
  <1> HIDE DEF st
  <1>4. inst.susp \/ "writeback" \in trouble \/ shoot.applied = inst.gen
    BY <1>1 DEF Inv, AppliedInv, Patched
  <1>5. CASE Return("requeue") /\ UNCHANGED kcpVars
    BY <1>1, <1>2, <1>3, <1>5, ReturnEnds, EndsInv
  <1>6. CASE PatchedTo(inst, st) /\ UNCHANGED kcpVars
    <2>1. PICK fn \in {"update_status", "kubeconfig"} : pc' = fn /\ (fn = "update_status" => res' = "after")
      BY <1>6 DEF PatchedTo
    <2>2. Goes(fn, st)
      BY <1>2, <1>3, <1>6, <2>1, SetStatus DEF PatchedTo, Goes, TypeOK
    <2>3. LiveGoes(fn, st)
      BY <1>1, <1>3, <1>4, <2>1, <2>2 DEF LiveGoes, Unpatched, Patched, Unwritten, Configuring
    <2>4. LiveStores
      BY <1>1, <1>6, ShootKept
    <2> QED
      BY <1>1, <1>3, <2>1, <2>3, <2>4, LiveInv DEF LiveStep, LiveFns
  <1>7. ASSUME NEW o, Unforced(o), fresh, rt \in Runtime, WriteRuntime(o), PatchedTo(o, st)
        PROVE  Inv'
    <2>1. rt \in Runtime /\ rt # Gone /\ SameSpec(rt, inst) /\ Sound(rt) /\ rt.st = snap /\ rt.gen \in Nat
      BY <1>7, FreshFacts
    <2>2. /\ o \in Runtime /\ o.w = rt.w /\ o.fin = rt.fin /\ o.del = rt.del
          /\ o.st = rt.st /\ o.susp = rt.susp /\ o.gen \in Nat
          /\ \/ o.gen = rt.gen
             \/ o.gen = rt.gen + 1 /\ "writeback" \in trouble /\ o.gen <= MaxGen
      BY <1>7, UnforcedRuntime
    <2>3. WriteRuntime(o) /\ PatchedTo(o, st)
      BY <1>7
    <2>4. Sound(o) /\ Later(rt, o) /\ Later(o, o) /\ o # Gone
      BY <2>1, <2>2, AbsentAssumption DEF Sound, Later, AbsentAssumption
    <2>5. /\ rt' = o /\ cache' = cache /\ watch' \in Seq(Runtime \cup {Gone}) /\ History'
      BY <2>2, <2>3, <2>4, WriteHistory DEF Inv
    <2>6. inst' \in Runtime /\ SameSpec(inst', o) /\ inst'.st = st /\ inst' # Gone
      BY <1>3, <2>2, <2>3, SetStatus, AbsentAssumption DEF PatchedTo, AbsentAssumption
    <2>7. pc' \in {"update_status", "kubeconfig"} /\ res' \in Results /\ UNCHANGED <<snap, fresh, sh>>
      BY <1>2, <1>3, <2>3 DEF PatchedTo, TypeOK
    <2>8. TypeOK'
      <3>1. UNCHANGED <<queued, timer, snap, fresh, sh, shFresh, changed, shoot, gc, gcCache, admins,
                        calm, trouble>>
        BY <1>1, <2>3 DEF PatchedTo, env
      <3>2. pc' \in StateFns
        BY <2>7 DEF StateFns
      <3> QED
        BY <1>2, <2>2, <2>5, <2>6, <2>7, <3>1, <3>2 DEF TypeOK
    <2>9. Memory'
      <3>1. Sound(inst') /\ Later(inst', o) /\ pc' \notin Unwritten
        BY <1>3, <2>2, <2>4, <2>6, <2>7 DEF Sound, Later, SameSpec, Unwritten, Unpatched
      <3>2. SameSpec(o, inst') /\ o.st = snap
        BY <2>1, <2>2, <2>6 DEF SameSpec
      <3> QED
        BY <2>4, <2>5, <2>7, <3>1, <3>2 DEF Memory, Sound, Later, SameSpec
    <2>10. Releases' /\ NoOrphanShoot'
      BY <1>1, <2>1, <2>2, <2>4, <2>5 DEF Releases, NoOrphanShoot, Inv, CoreInv
    <2>11. Places' /\ DeletedOnRequest'
      BY <1>1, <1>2, <2>1, <2>2, <2>5, <2>6, <2>7, LiveFacts DEF Places, DeletedOnRequest, LiveFns, SameSpec
    <2>12. AppliedInv'
      <3>1. UNCHANGED trouble /\ UNCHANGED shoot /\ UNCHANGED cache /\ shoot.applied \in Nat
        BY <1>1, <1>2, <2>5, LiveFacts DEF env
      <3>2. /\ CompleteFor(cache) /\ CompleteFor(inst)
            /\ inst.gen = rt.gen /\ inst.w = rt.w /\ inst.susp = rt.susp
        BY <1>1, <1>2, <2>1 DEF Inv, AppliedInv, SameSpec
      <3>3. CompleteFor(inst')
        BY <1>2, <2>1, <2>2, <2>6, <3>1, <3>2 DEF CompleteFor, SameSpec
      <3>4. inst'.susp \/ "writeback" \in trouble \/ shoot.applied = inst'.gen
        BY <1>4, <2>2, <2>6, <3>2 DEF SameSpec
      <3>5. CompleteFor(cache)' /\ CompleteFor(inst)'
        BY <3>1, <3>2, <3>3 DEF CompleteFor
      <3> QED
        BY <2>7, <3>1, <3>4, <3>5 DEF AppliedInv, Unpatched
    <2>13. StatusInv'
      BY <1>3, <2>6, <2>7 DEF StatusInv, Unpatched, Unwritten
    <2> QED
      BY <2>5, <2>8, <2>9, <2>10, <2>11, <2>12, <2>13 DEF Inv, CoreInv
  <1> QED
    BY <1>1, <1>5, <1>6, <1>7

-----------------------------------------------------------------------------
(* Invariance.                                                              *)

LEMMA InitialObjects ==
    /\ 1 \in Gens /\ 0 \in Gens /\ MaxGen \in Nat /\ 1 <= MaxGen
    /\ NewRuntime \in Runtime /\ NewRuntime.gen = 1 /\ NewRuntime.w = 1 /\ ~NewRuntime.del
    /\ NewRuntime.st.state = "" /\ ~NewRuntime.fin
    /\ OldRuntime \in Runtime /\ OldRuntime.gen = 1 /\ OldRuntime.w = 1 /\ ~OldRuntime.del
    /\ OldRuntime.st.state = "Ready" /\ OldRuntime.fin
    /\ OldShoot \in Shoot /\ OldShoot.applied = 1 /\ OldShoot.w = 1 /\ ~OldShoot.del
    /\ OldShoot.op = "Reconcile"
  <1>1. 1 \in Gens /\ 0 \in Gens /\ MaxGen \in Nat /\ 1 <= MaxGen
    BY FSMAssumption DEF Gens, FSMAssumption
  <1>2. NewRuntime \in Runtime /\ NewRuntime.gen = 1 /\ NewRuntime.w = 1 /\ ~NewRuntime.del
        /\ NewRuntime.st.state = "" /\ ~NewRuntime.fin
    BY <1>1, NoStatusType DEF NewRuntime, Runtime, NoStatus
  <1>3. OldRuntime \in Runtime /\ OldRuntime.gen = 1 /\ OldRuntime.w = 1 /\ ~OldRuntime.del
        /\ OldRuntime.st.state = "Ready" /\ OldRuntime.fin
    <2>1. [NoStatus.cond EXCEPT !["prov"] = "configured", !["kube"] = "ok"] \in [Conditions -> Reasons]
      BY DEF NoStatus, Conditions, Reasons
    <2>2. [state |-> "Ready", done |-> TRUE,
           cond |-> [NoStatus.cond EXCEPT !["prov"] = "configured", !["kube"] = "ok"]] \in Status
      BY <2>1 DEF Status
    <2> QED
      BY <1>2, <2>2 DEF OldRuntime, Runtime
  <1>4. OldShoot \in Shoot /\ OldShoot.applied = 1 /\ OldShoot.w = 1 /\ ~OldShoot.del
        /\ OldShoot.op = "Reconcile"
    BY <1>1, <1>3 DEF OldShoot, NewShoot, Shoot, runtimeGeneration
  <1> QED
    BY <1>1, <1>2, <1>3, <1>4

LEMMA InitInv ==
    ASSUME Init
    PROVE  Inv
  <1>1. rt \in {NewRuntime, OldRuntime} /\ cache = rt /\ watch = <<>> /\ pc = "idle" /\ fresh = FALSE
    BY DEF Init
  <1>2. rt \in Runtime /\ rt # Gone /\ rt.gen = 1 /\ rt.w = 1 /\ Sound(rt) /\ Later(rt, rt)
    <2>1. rt \in Runtime /\ rt.gen = 1 /\ rt.w = 1 /\ ~rt.del /\ rt.st.state # "Terminating"
      BY <1>1, InitialObjects
    <2>2. rt # Gone
      BY <2>1, RuntimeFields
    <2>3. MaxGen \in Nat /\ 1 <= MaxGen
      BY InitialObjects
    <2> QED
      BY <2>1, <2>2, <2>3 DEF Sound, Later
  <1>3. (shoot = NoShoot) \/ (shoot = OldShoot /\ rt.fin)
    BY InitialObjects DEF Init
  <1>4. TypeOK
    <2>1. watch \in Seq(Runtime \cup {Gone})
      BY <1>1
    <2>2. shoot \in Shoot \cup {NoShoot} /\ sh = NoShoot
      BY <1>3, InitialObjects DEF Init
    <2>3. gc \in {"none", "new", "ready", "deleting"} /\ gcCache = gc /\ admins \in Gens
      BY InitialObjects DEF Init
    <2>4. inst = Gone /\ snap \in Status /\ res \in Results
      BY NoStatusType DEF Init, Results
    <2>5. queued \in BOOLEAN /\ timer \in BOOLEAN /\ calm \in BOOLEAN /\ trouble \in Scenarios
          /\ fresh \in BOOLEAN /\ shFresh \in BOOLEAN /\ changed \in BOOLEAN
      BY DEF Init
    <2> QED
      BY <1>1, <1>2, <2>1, <2>2, <2>3, <2>4, <2>5 DEF TypeOK
  <1>5. Len(watch) = 0 /\ Copies = {0} /\ Copy(0) = rt
    BY <1>1 DEF Copies, Copy, Nth
  <1>6. History /\ Memory /\ Releases
    BY <1>1, <1>2, <1>5 DEF History, Memory, Releases, Unwritten, Unpatched
  <1>7. Places /\ DeletedOnRequest /\ NoOrphanShoot
    BY <1>1, <1>2, <1>3, InitialObjects DEF Places, LiveFns, DeletedOnRequest, NoOrphanShoot
  <1>8. AppliedInv /\ StatusInv
    <2>1. shoot # NoShoot => shoot.applied = 1 /\ shoot.w = 1
      BY <1>3, InitialObjects
    <2> QED
      BY <1>1, <1>2, <2>1 DEF AppliedInv, CompleteFor, StatusInv, Unpatched, Patched, Unwritten
  <1> QED
    BY <1>4, <1>6, <1>7, <1>8 DEF Inv, CoreInv

\* Every state function for a live shoot is a LiveStep, but PatchDone.
LiveFn ==
    \/ sFnSelectShootProcessing \/ sFnWaitForShootCreation \/ sFnWaitForShootReconcile
    \/ sFnSyncRegistryCacheGardenSecrets \/ sFnPatchExistingShoot \/ PatchBinding \/ PatchApply
    \/ sFnHandleKubeconfig \/ sFnCreateKymaNamespace \/ sFnInitializeRuntimeBootstrapper
    \/ sFnCleanupRegistryCacheGardenSecrets \/ sFnConfigureSKR
    \/ sFnApplyClusterRoleBindings \/ sFnMigrateToDedicatedAuditLog
    \/ sFnCopyAuditLogReadCredentials

LEMMA LiveFnStep ==
    ASSUME Inv, LiveFn
    PROVE  LiveStep /\ pc \in LiveFns
  <1>1. pc \in LiveFns
    BY DEF LiveFn, LiveFns, sFnSelectShootProcessing, sFnWaitForShootCreation, sFnWaitForShootReconcile,
           WaitFor, sFnSyncRegistryCacheGardenSecrets, sFnPatchExistingShoot, PatchBinding, PatchApply,
           sFnHandleKubeconfig, sFnCreateKymaNamespace, sFnInitializeRuntimeBootstrapper, ClusterStep,
           sFnCleanupRegistryCacheGardenSecrets, sFnConfigureSKR, sFnApplyClusterRoleBindings,
           sFnMigrateToDedicatedAuditLog, sFnCopyAuditLogReadCredentials
  <1>2. CASE sFnWaitForShootCreation
    <2>1. WaitFor("wait_creation", "created") /\ "created" \in Reasons
      BY <1>2 DEF sFnWaitForShootCreation, Reasons
    <2> QED
      BY <1>1, <2>1, WaitLive
  <1>3. CASE sFnWaitForShootReconcile
    <2>1. WaitFor("wait_reconcile", "configured") /\ "configured" \in Reasons
      BY <1>3 DEF sFnWaitForShootReconcile, Reasons
    <2> QED
      BY <1>1, <2>1, WaitLive
  <1>4. {"namespace", "bootstrapper", "configure_skr", "crb"} \subseteq Configuring \ {"migrate"}
    BY DEF Configuring
  <1>5. CASE sFnCreateKymaNamespace
    <2>1. ClusterStep("namespace", "bootstrapper")
      BY <1>5 DEF sFnCreateKymaNamespace
    <2> QED
      BY <1>1, <1>4, <2>1, ClusterStepLive
  <1>6. CASE sFnConfigureSKR
    <2>1. ClusterStep("configure_skr", "crb")
      BY <1>6 DEF sFnConfigureSKR
    <2> QED
      BY <1>1, <1>4, <2>1, ClusterStepLive
  <1> QED
    BY <1>1, <1>2, <1>3, <1>5, <1>6, SelectLive, SyncLive, PatchLive, BindingLive, ApplyLive, KubeconfigLive,
       BootstrapperLive, CleanupLive, BindingsLive, MigrateLive, CredentialsLive DEF LiveFn

LEMMA NextInv ==
    ASSUME Inv, [Next]_vars
    PROVE  Inv'
  <1>1. CASE LiveFn
    BY <1>1, LiveFnStep, LiveInv
  <1>2. CASE UNCHANGED vars
    BY <1>2, AsideInv DEF vars, kcpVars, memVars, env, Inv, CoreInv, TypeOK, GcStates
  <1> QED
    BY <1>1, <1>2, ReconcileInv, TakeSnapshotInv, InitializeInv, CreateShootInv, PatchDoneInv,
       DeleteKubeconfigInv, DeleteShootInv, UpdateStatusInv, EnvironmentInv
    DEF Next, StateFn, LiveFn

\* The inductive invariant.
THEOREM Invariance == Spec => []Inv
  <1>1. Init => Inv
    BY InitInv
  <1>2. Inv /\ [Next]_vars => Inv'
    BY NextInv
  <1> QED
    BY <1>1, <1>2, PTL DEF Spec

\* TypeOK holds of every behaviour.
THEOREM FSMTypeCorrect == Spec => []TypeOK
  <1>1. Inv => TypeOK
    BY DEF Inv, CoreInv
  <1> QED
    BY <1>1, Invariance, PTL

\* sFnInitialize gives up the finalizer of a Runtime only when its shoot is gone,
\* and sFnCreateShoot makes no shoot for a Runtime that is.
THEOREM NoOrphanShootAlways == Spec => []NoOrphanShoot
  <1>1. Inv => NoOrphanShoot
    BY DEF Inv, CoreInv
  <1> QED
    BY <1>1, Invariance, PTL

\* The annotation that names a generation vouches for its collections, for any
\* number of edits: the Update that replaces them comes before the patch.
THEOREM AppliedIsCompleteAlways == Spec => []AppliedIsComplete
  <1>1. Inv => AppliedIsComplete
    <2> SUFFICES ASSUME Inv, shoot # NoShoot, rt # Gone, shoot.applied = rt.gen
                 PROVE  shoot.w = rt.w
      BY DEF AppliedIsComplete
    <2>1. shoot \in Shoot /\ rt \in Runtime /\ cache \in Runtime \cup {Gone}
      BY DEF Inv, CoreInv, TypeOK
    <2>2. CompleteFor(cache) /\ Later(cache, rt)
      BY RtIsLatest DEF Inv, AppliedInv
    <2> QED
      BY <2>1, <2>2, CompleteLater DEF CompleteFor
  <1> QED
    BY <1>1, Invariance, PTL

-----------------------------------------------------------------------------
(* What a step does to the Runtime.                                         *)

\* All but sFnUpdateStatus keep the status, which is the one it writes.
LEMMA StatusWriter ==
    ASSUME Inv, [Next]_vars, rt # Gone, rt' # Gone
    PROVE  \/ rt'.st = rt.st
           \/ pc = "update_status" /\ fresh /\ rt'.st = inst.st
              /\ UNCHANGED <<shoot, gc, admins>>
  <1> USE DEF kcpVars
  <1>1. rt \in Runtime
    BY DEF Inv, CoreInv, TypeOK
  <1>2. CASE UNCHANGED vars
    BY <1>2 DEF vars
  <1>3. CASE Reconcile
    BY <1>3 DEF Reconcile
  <1>4. CASE sFnInitialize
    BY <1>1, <1>4 DEF sFnInitialize, UpdateRuntime, WriteRuntime, Runtime
  <1>5. CASE PatchDone
    BY <1>1, <1>5 DEF PatchDone, UpdateRuntime, WriteRuntime, Runtime
  <1>6. CASE sFnUpdateStatus
    BY <1>1, <1>6 DEF sFnUpdateStatus, noConflict, WriteRuntime, Runtime
  <1>7. CASE LiveFn
    BY <1>7, LiveFnStep DEF LiveStep, LiveStores
  <1>8. CASE sFnTakeSnapshot \/ sFnCreateShoot \/ sFnDeleteKubeconfig \/ sFnDeleteShoot
    BY <1>8 DEF sFnTakeSnapshot, sFnCreateShoot, sFnDeleteKubeconfig, sFnDeleteShoot
  <1>9. CASE Users
    BY <1>1, <1>9 DEF Users, EditRuntime, DeleteRuntime, Annotate, UserWrite, WriteRuntime, Runtime
  <1>10. CASE Gardener
    BY <1>10 DEF Gardener, GardenerStart, GardenerNoSeeds, GardenerFinish, GardenerDelete, GardenerWrite
  <1>11. CASE TimerFires \/ CacheSync \/ GcSync \/ Restart \/ GardenerCluster \/ BecomeCalm
    BY <1>11 DEF TimerFires, CacheSync, GcSync, Restart, GardenerCluster, BecomeCalm
  <1> QED
    BY <1>2, <1>3, <1>4, <1>5, <1>6, <1>7, <1>8, <1>9, <1>10, <1>11
    DEF Next, StateFn, LiveFn, Environment

\* A Runtime is made Ready only with its generation applied and its administrators
\* bound: sFnUpdateStatus writes with the resourceVersion the decision was based on.
THEOREM ReadyIsCurrentAlways == Spec => ReadyIsCurrent
  <1>1. ASSUME Inv, [Next]_vars, rt # Gone, rt' # Gone, rt'.st # rt.st, rt'.st.state = "Ready"
        PROVE  admins = rt.gen /\ (rt.susp \/ "writeback" \in trouble \/ shoot.applied = rt.gen)
    <2>1. pc = "update_status" /\ fresh /\ rt'.st = inst.st
      BY <1>1, StatusWriter
    <2>2. rt.st = snap /\ SameSpec(rt, inst)
      BY <1>1, <2>1, FreshFacts
    <2>3. IsCurrent
      BY <1>1, <2>1, <2>2 DEF Inv, StatusInv
    <2> QED
      BY <2>2, <2>3 DEF IsCurrent, SameSpec
  <1>2. Inv /\ [Next]_vars =>
          [/\ rt # Gone /\ rt' # Gone /\ rt'.st # rt.st /\ rt'.st.state = "Ready"
           => admins = rt.gen /\ (rt.susp \/ "writeback" \in trouble \/ shoot.applied = rt.gen)]_vars
    BY <1>1
  <1> QED
    BY <1>2, Invariance, PTL DEF Spec, ReadyIsCurrent

-----------------------------------------------------------------------------
(* The order in which the Runtime, its shoot and its GardenerCluster CR come *)
(* and go, and the abstract specification of it.                             *)

\* The environment's troubles are chosen once.
LEMMA TroubleConstant ==
    ASSUME [Next]_vars
    PROVE  trouble' = trouble
  <1> USE DEF env
  <1>1. CASE UNCHANGED vars
    BY <1>1 DEF vars
  <1>2. CASE Reconcile
    BY <1>2 DEF Reconcile
  <1>3. CASE StateFn
    BY <1>3
    DEF StateFn, sFnTakeSnapshot, sFnInitialize, sFnCreateShoot, sFnSelectShootProcessing,
        sFnWaitForShootCreation, sFnWaitForShootReconcile, WaitFor,
        sFnSyncRegistryCacheGardenSecrets, sFnPatchExistingShoot, PatchBinding, PatchApply, PatchDone,
        sFnHandleKubeconfig, sFnCreateKymaNamespace, sFnInitializeRuntimeBootstrapper, ClusterStep,
        sFnCleanupRegistryCacheGardenSecrets, sFnConfigureSKR, sFnApplyClusterRoleBindings,
        sFnMigrateToDedicatedAuditLog, sFnCopyAuditLogReadCredentials, sFnDeleteKubeconfig,
        sFnDeleteShoot, sFnUpdateStatus
  <1>4. CASE Environment
    BY <1>4
    DEF Environment, TimerFires, CacheSync, GcSync, Users, EditRuntime, DeleteRuntime, Annotate,
        UserWrite, Restart, Gardener, GardenerStart, GardenerNoSeeds, GardenerFinish,
        GardenerDelete, GardenerWrite, GardenerCluster, BecomeCalm
  <1> QED
    BY <1>1, <1>2, <1>3, <1>4 DEF Next

\* The Runtime, the shoot or the CR stays, as far as its life is concerned.
RuntimeStays ==
    rt' = rt \/ (rt # Gone /\ rt' # Gone /\ rt'.fin = rt.fin /\ rt'.del = rt.del)
ShootStays ==
    shoot' = shoot \/ (shoot # NoShoot /\ shoot' # NoShoot /\ shoot'.del = shoot.del)
AccessStays == gc' = gc \/ (gc \in {"new", "ready"} /\ gc' \in {"new", "ready"})

\* What a step does to a life.
StepOfLife ==
    \/ RuntimeStays /\ ShootStays /\ AccessStays
    \/ /\ rt # Gone /\ ~rt.del /\ ~rt.fin /\ rt' # Gone /\ ~rt'.del /\ rt'.fin    \* initialize
       /\ UNCHANGED <<shoot, gc>>
    \/ /\ rt # Gone /\ ~rt.del                                                    \* deletion is requested
       /\ \/ rt.fin /\ rt' # Gone /\ rt'.del
          \/ ~rt.fin /\ rt' = Gone
       /\ UNCHANGED <<shoot, gc>>
    \/ /\ rt # Gone /\ rt.del /\ shoot = NoShoot /\ rt' = Gone                    \* release
       /\ UNCHANGED <<shoot, gc>>
    \/ /\ rt # Gone /\ rt.fin /\ shoot = NoShoot /\ shoot' # NoShoot /\ ~shoot'.del
       /\ UNCHANGED <<rt, gc>>                                                    \* create_shoot
    \/ /\ shoot # NoShoot /\ ~shoot.del /\ gc = "none" /\ gc' = "new"             \* kubeconfig
       /\ UNCHANGED rt /\ ShootStays
    \/ /\ rt # Gone /\ rt.del /\ gc \in {"new", "ready"} /\ gc' = "deleting"      \* delete_kubeconfig
       /\ UNCHANGED <<rt, shoot>>
    \/ gc = "deleting" /\ gc' = "none" /\ UNCHANGED <<rt, shoot>>                 \* by its controller
    \/ /\ rt # Gone /\ rt.del /\ gc = "none" /\ shoot # NoShoot /\ ~shoot.del     \* delete_shoot
       /\ shoot' # NoShoot /\ shoot'.del /\ UNCHANGED <<rt, gc>>
    \/ shoot # NoShoot /\ shoot.del /\ shoot' = NoShoot /\ UNCHANGED <<rt, gc>>   \* by Gardener

\* sFnDeleteShoot is reached only when the CR is gone.
ReachesDeleteShoot == pc' = "delete_shoot" => gc' = "none" /\ (pc = "delete_shoot" \/ gc = "none")

LEMMA LiveLife ==
    ASSUME Inv, LiveFn
    PROVE  StepOfLife /\ ReachesDeleteShoot
  <1>1. LiveStores /\ pc \in LiveFns /\ shoot # NoShoot /\ ~shoot.del
    BY LiveFnStep, LiveFacts DEF LiveStep
  <1>2. pc' # "delete_shoot"
    BY LiveFnStep DEF LiveStep, LiveEnds, Return, LiveGoes, Goes, LiveFns
  <1>3. UNCHANGED rt /\ ShootStays
    BY <1>1, AbsentAssumption DEF LiveStores, kcpVars, ShootStays, AbsentAssumption
  <1>4. gc' = gc \/ (gc = "none" /\ gc' = "new")
    BY <1>1 DEF LiveStores
  <1> QED
    BY <1>1, <1>2, <1>3, <1>4 DEF StepOfLife, ReachesDeleteShoot, RuntimeStays, AccessStays

LEMMA InitializeLife ==
    ASSUME Inv, sFnInitialize
    PROVE  StepOfLife /\ ReachesDeleteShoot
  <1>1. pc = "initialize" /\ UNCHANGED <<shoot, gc>> /\ sh = shoot
    BY DEF sFnInitialize, Inv, CoreInv, Places
  <1>2. pc' # "delete_shoot"
    BY DEF sFnInitialize, UpdateRuntime, Return, UpdateStatusAnd, Continue, Goto
  <1>3. CASE UNCHANGED kcpVars
    BY <1>1, <1>2, <1>3 DEF kcpVars, StepOfLife, ReachesDeleteShoot, RuntimeStays, ShootStays, AccessStays
  <1>4. CASE ~inst.del /\ ~inst.fin /\ noConflict /\ WriteRuntime([rt EXCEPT !.fin = TRUE])
    <2>1. rt \in Runtime /\ rt # Gone /\ ~rt.del /\ ~rt.fin
      BY <1>4, FreshFacts DEF noConflict, SameSpec
    <2>2. [rt EXCEPT !.fin = TRUE] \in Runtime /\ [rt EXCEPT !.fin = TRUE].fin
          /\ ~[rt EXCEPT !.fin = TRUE].del
      BY <2>1 DEF Runtime
    <2>3. rt' = [rt EXCEPT !.fin = TRUE]
      BY <1>4 DEF WriteRuntime
    <2> QED
      BY <1>1, <1>2, <2>1, <2>2, <2>3, AbsentAssumption DEF StepOfLife, ReachesDeleteShoot, AbsentAssumption
  <1>5. CASE inst.del /\ shootGone /\ noConflict /\ WriteRuntime(Gone)
    <2>1. rt # Gone /\ rt.del /\ rt' = Gone /\ shoot = NoShoot
      BY <1>1, <1>5, FreshFacts DEF noConflict, SameSpec, WriteRuntime, shootGone
    <2> QED
      BY <1>1, <1>2, <2>1 DEF StepOfLife, ReachesDeleteShoot
  <1> QED
    BY <1>3, <1>4, <1>5 DEF sFnInitialize, UpdateRuntime

LEMMA CreateShootLife ==
    ASSUME Inv, sFnCreateShoot
    PROVE  StepOfLife /\ ReachesDeleteShoot
  <1>1. pc = "create_shoot" /\ shoot = NoShoot /\ inst.fin /\ ~inst.del /\ UNCHANGED <<rt, gc>>
        /\ inst \in Runtime /\ pc' = "update_status"
    BY WorkerFacts DEF sFnCreateShoot, Inv, CoreInv, Places, kcpVars, UpdateStatusAnd, Goto
  <1>2. rt # Gone /\ rt.fin
    <2>1. Later(inst, rt)
      BY <1>1, RtIsLatest DEF Inv
    <2>2. rt # Gone
      BY <1>1, RuntimeFields DEF Inv, CoreInv, Releases, Released
    <2> QED
      BY <1>1, <2>1, <2>2 DEF Later
  <1>3. CASE shoot' = NewShoot(inst)
    <2>1. NewShoot(inst) \in Shoot /\ ~NewShoot(inst).del
      BY <1>1, RuntimeFields DEF NewShoot, Shoot, runtimeGeneration
    <2> QED
      BY <1>1, <1>2, <1>3, <2>1, AbsentAssumption DEF StepOfLife, ReachesDeleteShoot, AbsentAssumption
  <1>4. CASE UNCHANGED shoot
    BY <1>1, <1>4 DEF StepOfLife, ReachesDeleteShoot, RuntimeStays, ShootStays, AccessStays
  <1> QED
    BY <1>3, <1>4 DEF sFnCreateShoot

LEMMA DeleteKubeconfigLife ==
    ASSUME Inv, sFnDeleteKubeconfig, "gclag" \notin trouble
    PROVE  StepOfLife /\ ReachesDeleteShoot
  <1>1. pc = "delete_kubeconfig" /\ UNCHANGED <<rt, shoot>> /\ gcRead = gc
    BY DEF sFnDeleteKubeconfig, kcpVars, gcRead
  <1>2. rt # Gone /\ rt.del
    <2>1. inst.del /\ sh # NoShoot /\ sh = shoot /\ inst \in Runtime
      BY <1>1, WorkerFacts DEF Inv, CoreInv, Places
    <2>2. rt # Gone /\ Later(inst, rt)
      BY <1>1, <2>1, RtIsLatest DEF Inv, CoreInv, NoOrphanShoot
    <2> QED
      BY <2>1, <2>2 DEF Later
  <1>3. ReachesDeleteShoot
    BY <1>1 DEF sFnDeleteKubeconfig, ReachesDeleteShoot, UpdateStatusAnd, Return, Continue, Goto
  <1>4. gc' = gc \/ (gc \in {"new", "ready"} /\ gc' = "deleting")
    BY <1>1 DEF sFnDeleteKubeconfig
  <1> QED
    BY <1>1, <1>2, <1>3, <1>4 DEF StepOfLife, RuntimeStays, ShootStays, AccessStays

LEMMA DeleteShootLife ==
    ASSUME Inv, AccessInv, sFnDeleteShoot, "gclag" \notin trouble
    PROVE  StepOfLife /\ ReachesDeleteShoot
  <1>1. pc = "delete_shoot" /\ UNCHANGED <<rt, gc>> /\ pc' # "delete_shoot" /\ gc = "none"
    BY DEF sFnDeleteShoot, kcpVars, AccessInv, UpdateStatusAnd, Return, Goto
  <1>2. CASE UNCHANGED shoot
    BY <1>1, <1>2 DEF StepOfLife, ReachesDeleteShoot, RuntimeStays, ShootStays, AccessStays
  <1>3. CASE ~sh.del /\ ~UNCHANGED shoot
    <2>1. shoot \in Shoot /\ shoot # NoShoot /\ ~shoot.del /\ inst.del
      BY <1>1, <1>3 DEF Inv, CoreInv, Places, TypeOK
    <2>2. rt # Gone /\ rt.del
      BY <1>1, <2>1, RtIsLatest DEF Inv, CoreInv, NoOrphanShoot, Later
    <2>3. /\ [shoot EXCEPT !.confirmed = TRUE, !.del = TRUE] \in Shoot
          /\ [shoot EXCEPT !.confirmed = TRUE, !.del = TRUE].del
          /\ [shoot EXCEPT !.confirmed = TRUE] \in Shoot
          /\ [shoot EXCEPT !.confirmed = TRUE].del = shoot.del
      BY <2>1 DEF Shoot
    <2>4. shoot' \in {[shoot EXCEPT !.confirmed = TRUE, !.del = TRUE], [shoot EXCEPT !.confirmed = TRUE]}
      BY <1>3 DEF sFnDeleteShoot
    <2> QED
      BY <1>1, <2>1, <2>2, <2>3, <2>4, AbsentAssumption
      DEF StepOfLife, ReachesDeleteShoot, RuntimeStays, ShootStays, AccessStays, AbsentAssumption
  <1> QED
    BY <1>2, <1>3 DEF sFnDeleteShoot

\* A write of the Runtime that leaves finalizer and deletion alone.
LEMMA KeepsLife ==
    ASSUME Inv, UNCHANGED <<shoot, gc>>, pc' = "delete_shoot" => pc = "delete_shoot" /\ gc = "none",
           RuntimeStays
    PROVE  StepOfLife /\ ReachesDeleteShoot
  BY DEF StepOfLife, ReachesDeleteShoot, ShootStays, AccessStays

LEMMA UsersLife ==
    ASSUME Inv, Users, pc = "delete_shoot" => gc = "none"
    PROVE  StepOfLife /\ ReachesDeleteShoot
  <1>1. PICK o : UserWrite(o) /\ UserVersion(o)
    BY UserForms
  <1>2. rt \in Runtime /\ rt # Gone /\ ~rt.del /\ rt' = o /\ UNCHANGED <<shoot, gc, pc>>
    BY <1>1, UserForms DEF UserWrite, WriteRuntime
  <1>3. ReachesDeleteShoot
    BY <1>2 DEF ReachesDeleteShoot
  <1>4. rt.del \in BOOLEAN /\ rt.fin \in BOOLEAN /\ (o # Gone => o.del \in BOOLEAN)
    BY <1>1, <1>2, RuntimeFields DEF UserVersion
  <1>5. CASE o = Gone \/ o.del
    BY <1>1, <1>2, <1>3, <1>5 DEF StepOfLife, UserVersion
  <1>6. CASE o # Gone /\ ~o.del
    BY <1>1, <1>2, <1>3, <1>4, <1>6 DEF StepOfLife, UserVersion, RuntimeStays, ShootStays, AccessStays
  <1> QED
    BY <1>5, <1>6

LEMMA GardenerLife ==
    ASSUME Inv, Gardener, pc = "delete_shoot" => gc = "none"
    PROVE  StepOfLife /\ ReachesDeleteShoot
  <1>1. shoot \in Shoot /\ shoot # NoShoot /\ UNCHANGED <<rt, gc, pc>>
    BY DEF Gardener, GardenerStart, GardenerNoSeeds, GardenerFinish, GardenerDelete, GardenerWrite,
           Inv, CoreInv, TypeOK, kcpVars
  <1>2. ReachesDeleteShoot
    BY <1>1 DEF ReachesDeleteShoot
  <1>3. CASE GardenerDelete
    BY <1>1, <1>2, <1>3 DEF GardenerDelete, GardenerWrite, StepOfLife
  <1>4. CASE shoot' \in Shoot /\ shoot'.del = shoot.del
    BY <1>1, <1>2, <1>4, AbsentAssumption
    DEF StepOfLife, RuntimeStays, ShootStays, AccessStays, AbsentAssumption
  <1>5. CASE GardenerStart \/ GardenerNoSeeds \/ GardenerFinish
    <2>1. shoot' \in Shoot /\ shoot'.del = shoot.del
      BY <1>1, <1>5 DEF GardenerStart, GardenerNoSeeds, GardenerFinish, GardenerWrite, Shoot
    <2> QED
      BY <1>4, <2>1
  <1> QED
    BY <1>3, <1>5 DEF Gardener

LEMMA LifeSteps ==
    ASSUME Inv, AccessInv, "gclag" \notin trouble, [Next]_vars
    PROVE  StepOfLife /\ ReachesDeleteShoot
  <1>1. pc = "delete_shoot" => gc = "none"
    BY DEF AccessInv
  <1>2. CASE RuntimeStays /\ UNCHANGED <<shoot, gc>> /\ pc' \in {pc, "idle", "take_snapshot", "initialize", "kubeconfig", "update_status"}
    BY <1>1, <1>2, KeepsLife
  <1>3. CASE UNCHANGED vars \/ Reconcile \/ sFnTakeSnapshot
    BY <1>2, <1>3
    DEF vars, kcpVars, Reconcile, sFnTakeSnapshot, UpdateStatusAnd, Goto, RuntimeStays
  <1>4. CASE TimerFires \/ CacheSync \/ GcSync \/ Restart \/ BecomeCalm
    BY <1>2, <1>4 DEF TimerFires, CacheSync, GcSync, Restart, BecomeCalm, kcpVars, RuntimeStays
  <1>5. CASE PatchDone \/ sFnUpdateStatus
    <2>1. /\ pc' \in {"idle", "kubeconfig", "update_status"} /\ UNCHANGED <<shoot, gc>>
          /\ UNCHANGED rt \/ (fresh /\ (Unforced(rt') \/ rt' = [rt EXCEPT !.st = inst.st]))
      BY <1>5
      DEF Unforced, PatchDone, sFnUpdateStatus, UpdateRuntime, WriteRuntime, Return, Goto, kcpVars, noConflict
    <2>2. CASE fresh /\ (Unforced(rt') \/ rt' = [rt EXCEPT !.st = inst.st])
      <3>1. rt \in Runtime /\ rt # Gone /\ inst.st \in Status
        BY <2>2, FreshFacts, WorkerFacts
      <3>2. rt' \in Runtime /\ rt'.fin = rt.fin /\ rt'.del = rt.del
        BY <2>2, <3>1, UnforcedRuntime DEF Runtime
      <3> QED
        BY <1>2, <2>1, <3>1, <3>2, AbsentAssumption DEF RuntimeStays, AbsentAssumption
    <2> QED
      BY <1>2, <2>1, <2>2 DEF RuntimeStays
  <1>6. CASE GardenerCluster
    BY <1>1, <1>6
    DEF GardenerCluster, kcpVars, StepOfLife, ReachesDeleteShoot, RuntimeStays, ShootStays, AccessStays
  <1> QED
    BY <1>1, <1>3, <1>4, <1>5, <1>6, LiveLife, InitializeLife, CreateShootLife, DeleteKubeconfigLife,
       DeleteShootLife, UsersLife, GardenerLife
    DEF Next, StateFn, LiveFn, Environment

LEMMA AccessNext ==
    ASSUME Inv, AccessInv, [Next]_vars
    PROVE  AccessInv'
  <1>1. trouble' = trouble
    BY TroubleConstant
  <1>2. SUFFICES ASSUME "gclag" \notin trouble
                 PROVE  /\ KubeconfigDeletedFirst'
                        /\ pc' = "delete_shoot" => gc' = "none"
                        /\ gc' # "none" => shoot' # NoShoot
                        /\ gc' = "deleting" => rt' # Gone /\ rt'.del
    BY <1>1 DEF AccessInv
  <1>3. StepOfLife /\ ReachesDeleteShoot
    BY <1>2, LifeSteps
  <1>4. /\ KubeconfigDeletedFirst
        /\ gc # "none" => shoot # NoShoot
        /\ gc = "deleting" => rt # Gone /\ rt.del
    BY <1>2 DEF AccessInv
  <1> QED
    BY <1>3, <1>4
    DEF StepOfLife, ReachesDeleteShoot, RuntimeStays, ShootStays, AccessStays, KubeconfigDeletedFirst

\* The invariant with the order of deletion.
THEOREM AccessInvariance == Spec => [](Inv /\ AccessInv)
  <1>1. Init => AccessInv
    <2> SUFFICES ASSUME Init
                 PROVE  AccessInv
      OBVIOUS
    <2>1. pc = "idle" /\ gc \in {"none", "ready"} /\ (gc = "ready" => shoot = OldShoot)
          /\ (gc = "none" => shoot = NoShoot)
      BY DEF Init
    <2>2. ~OldShoot.del /\ OldShoot # NoShoot
      BY InitialObjects, AbsentAssumption DEF AbsentAssumption
    <2> QED
      BY <2>1, <2>2 DEF AccessInv, KubeconfigDeletedFirst
  <1>2. Inv /\ AccessInv /\ [Next]_vars => (Inv /\ AccessInv)'
    BY NextInv, AccessNext
  <1> QED
    BY <1>1, <1>2, InitInv, PTL DEF Spec

\* sFnDeleteKubeconfig goes on to the shoot only when the GardenerCluster CR is gone,
\* if it does not read it from a cache that trails.
THEOREM KubeconfigDeletedFirstAlways ==
    Spec => []("gclag" \notin trouble => KubeconfigDeletedFirst)
  <1>1. AccessInv => ("gclag" \notin trouble => KubeconfigDeletedFirst)
    BY DEF AccessInv
  <1> QED
    BY <1>1, AccessInvariance, PTL

\* Each step of the controller and its environment is a step of the abstract life.
LEMMA LifecycleStep ==
    ASSUME Inv, AccessInv, "gclag" \notin trouble, [Next]_vars
    PROVE  [Lifecycle!Next]_(Lifecycle!vars)
  <1>1. StepOfLife
    BY LifeSteps
  <1>2. NoOrphanShoot /\ Sound(rt) /\ rt \in Runtime \cup {Gone} /\ gc \in GcStates
    BY RtIsLatest DEF Inv, CoreInv, TypeOK, GcStates
  <1>3. /\ rt # Gone => rt.del \in BOOLEAN /\ rt.fin \in BOOLEAN /\ (rt.del => rt.fin)
        /\ shoot # NoShoot => shoot.del \in BOOLEAN
    BY <1>2, RuntimeFields DEF Sound, Inv, CoreInv, TypeOK, Shoot
  <1>4. /\ KubeconfigDeletedFirst
        /\ gc # "none" => shoot # NoShoot
        /\ gc = "deleting" => rt # Gone /\ rt.del
    BY DEF AccessInv
  <1> USE DEF phaseBar, infraBar, accessBar
  <1>5. CASE RuntimeStays /\ ShootStays /\ AccessStays
    <2>1. UNCHANGED phaseBar
      BY <1>5 DEF RuntimeStays
    <2>2. UNCHANGED infraBar
      BY <1>5 DEF ShootStays
    <2>3. UNCHANGED accessBar
      BY <1>5 DEF AccessStays
    <2> QED
      BY <2>1, <2>2, <2>3 DEF Lifecycle!vars
  <1>6. CASE /\ rt # Gone /\ ~rt.del /\ ~rt.fin /\ rt' # Gone /\ ~rt'.del /\ rt'.fin
             /\ UNCHANGED <<shoot, gc>>
    BY <1>6 DEF Lifecycle!Next, Lifecycle!Own
  <1>7. CASE /\ rt # Gone /\ ~rt.del
             /\ \/ rt.fin /\ rt' # Gone /\ rt'.del
                \/ ~rt.fin /\ rt' = Gone
             /\ UNCHANGED <<shoot, gc>>
    BY <1>7 DEF Lifecycle!Next, Lifecycle!RequestDeletion
  <1>8. CASE /\ rt # Gone /\ rt.del /\ shoot = NoShoot /\ rt' = Gone
             /\ UNCHANGED <<shoot, gc>>
    BY <1>4, <1>8 DEF Lifecycle!Next, Lifecycle!Release
  <1>9. CASE /\ rt # Gone /\ rt.fin /\ shoot = NoShoot /\ shoot' # NoShoot /\ ~shoot'.del
             /\ UNCHANGED <<rt, gc>>
    BY <1>4, <1>9 DEF Lifecycle!Next, Lifecycle!Provision, Lifecycle!Owned
  <1>10. CASE /\ shoot # NoShoot /\ ~shoot.del /\ gc = "none" /\ gc' = "new"
              /\ UNCHANGED rt /\ ShootStays
    BY <1>2, <1>10 DEF Lifecycle!Next, Lifecycle!Connect, Lifecycle!Owned, NoOrphanShoot, ShootStays
  <1>11. CASE /\ rt # Gone /\ rt.del /\ gc \in {"new", "ready"} /\ gc' = "deleting"
              /\ UNCHANGED <<rt, shoot>>
    BY <1>11 DEF Lifecycle!Next, Lifecycle!Disconnect
  <1>12. CASE gc = "deleting" /\ gc' = "none" /\ UNCHANGED <<rt, shoot>>
    BY <1>4, <1>12 DEF Lifecycle!Next, Lifecycle!Disconnect
  <1>13. CASE /\ rt # Gone /\ rt.del /\ gc = "none" /\ shoot # NoShoot /\ ~shoot.del
              /\ shoot' # NoShoot /\ shoot'.del /\ UNCHANGED <<rt, gc>>
    BY <1>13 DEF Lifecycle!Next, Lifecycle!Decommission
  <1>14. CASE shoot # NoShoot /\ shoot.del /\ shoot' = NoShoot /\ UNCHANGED <<rt, gc>>
    <2>1. gc = "none" /\ rt # Gone /\ rt.del
      BY <1>2, <1>4, <1>14, RtIsLatest
      DEF KubeconfigDeletedFirst, NoOrphanShoot, Inv, CoreInv, DeletedOnRequest, Later
    <2> QED
      BY <1>14, <2>1 DEF Lifecycle!Next, Lifecycle!Decommission
  <1> QED
    BY <1>1, <1>5, <1>6, <1>7, <1>8, <1>9, <1>10, <1>11, <1>12, <1>13, <1>14 DEF StepOfLife

\* The Runtime controller implements RuntimeLifecycle for any number of edits, any
\* lag of the informer and any failures, if the GardenerCluster CR is not read late.
THEOREM FSMImplementsLifecycle == Spec /\ "gclag" \notin trouble => ImplementsLifecycle
  <1>1. Init => Lifecycle!Init
    <2> SUFFICES ASSUME Init
                 PROVE  Lifecycle!Init
      OBVIOUS
    <2>1. NewRuntime # Gone /\ OldRuntime # Gone /\ OldShoot # NoShoot
      BY InitialObjects, AbsentAssumption DEF AbsentAssumption
    <2> QED
      BY <2>1, InitialObjects DEF Init, Lifecycle!Init, phaseBar, infraBar, accessBar
  <1>2. "gclag" \notin trouble /\ [Next]_vars => ("gclag" \notin trouble)'
    BY TroubleConstant
  <1>3. Inv /\ AccessInv /\ "gclag" \notin trouble /\ [Next]_vars => [Lifecycle!Next]_(Lifecycle!vars)
    BY LifecycleStep
  <1> QED
    BY <1>1, <1>2, <1>3, AccessInvariance, PTL DEF Spec, ImplementsLifecycle, Lifecycle!Spec

-----------------------------------------------------------------------------
(* Nothing that is left to do is forgotten.                                  *)

CopiesAreKnown(o) ==
    \A i \in Copies' : Copy(i)' = o \/ \E j \in Copies : Copy(i)' = Copy(j)

KeepsAwaited ==
    /\ rt' # Gone => rt # Gone /\ rt'.st = rt.st
    /\ CopiesAreKnown(rt')
    /\ timer => timer'
    /\ queued => queued'
    /\ pc' # "idle" => pc # "idle" /\ snap' = snap
    /\ pc' = "idle" => pc = "idle" \/ queued' \/ timer' \/ ~Unfinished(snap)

LEMMA AwaitedKept ==
    ASSUME Inv, Awaited, KeepsAwaited
    PROVE  Awaited'
  <1> SUFFICES ASSUME rt' # Gone, Unfinished(rt'.st), ~timer'
               PROVE  /\ \A i \in Copies' : Copy(i)' # Gone => Copy(i)'.st = rt'.st
                      /\ pc' # "idle" /\ ~queued' => snap' = rt'.st
                      /\ queued' \/ pc' # "idle"
    BY DEF Awaited, Unfinished
  <1>1. rt # Gone /\ Unfinished(rt.st) /\ ~timer /\ rt'.st = rt.st
    BY DEF KeepsAwaited
  <1>2. /\ \A i \in Copies : Copy(i) # Gone => Copy(i).st = rt.st
        /\ pc # "idle" /\ ~queued => snap = rt.st
        /\ queued \/ pc # "idle"
    BY <1>1 DEF Awaited
  <1>3. \A i \in Copies' : Copy(i)' # Gone => Copy(i)'.st = rt'.st
    BY <1>1, <1>2 DEF KeepsAwaited, CopiesAreKnown
  <1>4. pc' # "idle" /\ ~queued' => snap' = rt'.st
    BY <1>1, <1>2 DEF KeepsAwaited
  <1>5. queued' \/ pc' # "idle"
    BY <1>1, <1>2 DEF KeepsAwaited
  <1> QED
    BY <1>3, <1>4, <1>5

LEMMA KnownUnchanged ==
    ASSUME UNCHANGED kcpVars
    PROVE  CopiesAreKnown(rt') /\ UNCHANGED rt /\ UNCHANGED cache /\ UNCHANGED watch
  BY DEF kcpVars, CopiesAreKnown, Copies, Copy, Nth

\* The worker goes on with another state function, and the Runtime is as it was.
LEMMA GoesSchedule ==
    ASSUME Inv, pc # "idle", NoMigration, Awaited, UNCHANGED kcpVars, NEW fn, NEW st, Goes(fn, st),
           fn # "idle", shoot' # NoShoot => shoot'.op # "Migrate",
           fn = "update_status" => /\ res' = "stop" => ~Unfinished(st)
                                   /\ res' \in {"error", "requeue"} => st = snap
    PROVE  NoMigration' /\ Awaited' /\ ResultFits'
  <1>1. KeepsAwaited
    BY KnownUnchanged DEF KeepsAwaited, Goes
  <1> QED
    BY <1>1, AwaitedKept DEF Goes, NoMigration, ResultFits, Unfinished

\* The reconciliation ends with the Runtime as it was, or with its status kept.
LEMMA ReturnSchedule ==
    ASSUME Inv, pc # "idle", NoMigration, Awaited, NEW r \in Results, Return(r),
           shoot' # NoShoot => shoot'.op # "Migrate",
           rt' # Gone => rt # Gone /\ rt'.st = rt.st, CopiesAreKnown(rt'),
           r = "stop" => ~Unfinished(snap)
    PROVE  NoMigration' /\ Awaited' /\ ResultFits'
  <1>1. Ends /\ (r = "after" => timer') /\ (r \in {"requeue", "error"} => queued')
    BY ReturnEnds DEF Inv, CoreInv
  <1>2. KeepsAwaited
    BY <1>1 DEF KeepsAwaited, Ends, Results
  <1> QED
    BY <1>1, <1>2, AwaitedKept DEF Ends, NoMigration, ResultFits

LEMMA LiveSchedule ==
    ASSUME Inv, LiveFn, NoMigration, Awaited
    PROVE  NoMigration' /\ Awaited' /\ ResultFits'
  <1>1. LiveStep /\ pc \in LiveFns /\ pc # "idle"
    BY LiveFnStep, LiveFacts
  <1>2. UNCHANGED kcpVars /\ shoot' # NoShoot /\ shoot'.op # "Migrate" /\ sh.op # "Migrate"
        /\ rt' = rt /\ CopiesAreKnown(rt')
    BY <1>1, LiveFacts, AbsentAssumption, KnownUnchanged
    DEF LiveStep, LiveStores, NoMigration, AbsentAssumption
  <1>3. ASSUME NEW r \in Results, LiveEnds(r)
        PROVE  NoMigration' /\ Awaited' /\ ResultFits'
    <2>1. r = "stop" => ~Unfinished(snap)
      <3> SUFFICES ASSUME r = "stop"
                   PROVE  ~Unfinished(snap)
        OBVIOUS
      <3>1. pc = "select" /\ inst.st.state \in {"Ready", "Failed", "Terminating"}
        BY <1>2, <1>3 DEF LiveEnds
      <3>2. inst.st.state # "Terminating" /\ inst.st = snap
        BY <1>1, <3>1, LiveFacts, WorkerFacts DEF Inv, StatusInv, Unwritten, Unpatched
      <3> QED
        BY <3>1, <3>2 DEF Unfinished
    <2>2. Return(r)
      BY <1>3 DEF LiveEnds
    <2> QED
      BY <1>1, <1>2, <2>1, <2>2, ReturnSchedule
  <1>4. ASSUME NEW fn \in LiveFns \cup {"update_status"}, NEW st \in Status, LiveGoes(fn, st)
        PROVE  NoMigration' /\ Awaited' /\ ResultFits'
    <2>1. Goes(fn, st) /\ fn # "idle"
      BY <1>4 DEF LiveGoes, LiveFns
    <2>2. fn = "update_status" => /\ res' = "stop" => ~Unfinished(st)
                                  /\ res' \in {"error", "requeue"} => st = snap
      BY <1>4 DEF LiveGoes, Unfinished
    <2> QED
      BY <1>1, <1>2, <2>1, <2>2, GoesSchedule
  <1> QED
    BY <1>1, <1>3, <1>4 DEF LiveStep

LEMMA ReportSchedule ==
    ASSUME Inv, pc # "idle", NoMigration, Awaited, UNCHANGED kcpVars,
           NEW r \in Results, NEW st \in Status, UpdateStatusAnd(r, st),
           shoot' # NoShoot => shoot'.op # "Migrate",
           r = "stop" => ~Unfinished(st), r \in {"error", "requeue"} => st = snap
    PROVE  NoMigration' /\ Awaited' /\ ResultFits'
  <1>1. Goes("update_status", st) /\ res' = r
    BY WorkerFacts, UpdateStatusGoes
  <1> QED
    BY <1>1, GoesSchedule

LEMMA ContinueSchedule ==
    ASSUME Inv, pc # "idle", NoMigration, Awaited, UNCHANGED <<kcpVars, shoot>>,
           NEW fn \in StateFns \ {"update_status"}, Continue(fn, inst.st)
    PROVE  NoMigration' /\ Awaited' /\ ResultFits'
  <1>1. Goes(fn, inst.st) /\ fn # "idle"
    BY WorkerFacts, ContinueGoes DEF StateFns
  <1>2. UNCHANGED kcpVars /\ (shoot' # NoShoot => shoot'.op # "Migrate")
    BY DEF NoMigration
  <1> QED
    BY <1>1, <1>2, GoesSchedule

\* Statuses that the state functions for deletion and creation report.
LEMMA WithFits ==
    ASSUME Inv, pc # "idle", NEW s \in {"Pending", "Failed", "Terminating"},
           NEW c \in {"prov", "depr"}, NEW v \in {"other", "ok"}
    PROVE  /\ With(s, c, v) \in Status /\ StateOnly(s) \in Status
           /\ s = "Failed" => ~Unfinished(With(s, c, v)) /\ ~Unfinished(StateOnly(s))
  <1>1. inst \in Runtime /\ c \in Conditions /\ v \in Reasons
    BY WorkerFacts DEF Conditions, Reasons
  <1>2. With(s, c, v) \in Status /\ With(s, c, v).state = s
    BY <1>1, WithTypes, Zenon
  <1>3. StateOnly(s) \in Status /\ StateOnly(s).state = s
    BY <1>1, StateOnlyType
  <1> QED
    BY <1>2, <1>3 DEF Unfinished

LEMMA InitializeSchedule ==
    ASSUME Inv, sFnInitialize, NoMigration, Awaited
    PROVE  NoMigration' /\ Awaited' /\ ResultFits'
  <1>1. pc = "initialize" /\ pc # "idle" /\ UNCHANGED shoot /\ inst.st = snap /\ inst.st \in Status
        /\ (shoot' # NoShoot => shoot'.op # "Migrate")
    BY WorkerFacts DEF sFnInitialize, Inv, StatusInv, Unwritten, NoMigration
  <1>2. Results = {"after", "requeue", "error", "stop"}
    BY DEF Results
  <1>3. CASE noConflict /\ WriteRuntime([rt EXCEPT !.fin = TRUE]) /\ Return("requeue")
    <2> DEFINE o == [rt EXCEPT !.fin = TRUE]
    <2>1. rt \in Runtime /\ rt # Gone /\ Sound(rt) /\ rt.gen \in Nat
      BY <1>3, FreshFacts DEF noConflict
    <2>2. o \in Runtime /\ o.st = rt.st /\ o.gen = rt.gen /\ o.w = rt.w /\ o.del = rt.del /\ o.fin
      BY <2>1 DEF Runtime
    <2>3. WriteRuntime(o)
      BY <1>3
    <2> HIDE DEF o
    <2>4. Sound(o) /\ Later(rt, o)
      BY <2>1, <2>2 DEF Sound, Later
    <2>5. rt' = o /\ CopiesAreKnown(rt')
      BY <2>2, <2>3, <2>4, WriteHistory DEF Inv, CopiesAreKnown
    <2> QED
      BY <1>1, <1>2, <1>3, <2>1, <2>2, <2>5, ReturnSchedule
  <1>4. CASE noConflict /\ WriteRuntime(Gone) /\ Return("stop")
    <2>1. rt' = Gone /\ pc' = "idle" /\ sh' = NoShoot
      BY <1>4 DEF WriteRuntime, Return
    <2> QED
      BY <1>1, <2>1 DEF NoMigration, Awaited, ResultFits
  <1>5. CASE UNCHANGED kcpVars /\ \/ UpdateStatusAnd("error", inst.st)
                                  \/ UpdateStatusAnd("after", inst.st)
                                  \/ UpdateStatusAnd("after", With("Pending", "prov", "other"))
    <2>1. With("Pending", "prov", "other") \in Status
      BY <1>1, WithFits
    <2> QED
      BY <1>1, <1>2, <1>5, <2>1, ReportSchedule
  <1>6. CASE UNCHANGED kcpVars /\ \E fn \in {"delete_kubeconfig", "create_shoot", "select"} : Continue(fn, inst.st)
    BY <1>1, <1>6, ContinueSchedule DEF StateFns
  <1> QED
    BY <1>3, <1>4, <1>5, <1>6 DEF sFnInitialize, UpdateRuntime

LEMMA CreateShootSchedule ==
    ASSUME Inv, sFnCreateShoot, NoMigration, Awaited
    PROVE  NoMigration' /\ Awaited' /\ ResultFits'
  <1>1. pc # "idle" /\ UNCHANGED kcpVars
    BY DEF sFnCreateShoot
  <1>2. shoot' # NoShoot => shoot'.op # "Migrate"
    BY DEF sFnCreateShoot, NewShoot, NoMigration
  <1>3. /\ With("Pending", "prov", "other") \in Status /\ With("Failed", "prov", "other") \in Status
        /\ ~Unfinished(With("Failed", "prov", "other"))
    BY <1>1, WithFits
  <1>4. \/ UpdateStatusAnd("after", With("Pending", "prov", "other"))
        \/ UpdateStatusAnd("stop", With("Failed", "prov", "other"))
    BY DEF sFnCreateShoot
  <1>5. {"after", "stop"} \subseteq Results
    BY DEF Results
  <1> QED
    BY <1>1, <1>2, <1>3, <1>4, <1>5, ReportSchedule

LEMMA DeleteKubeconfigSchedule ==
    ASSUME Inv, sFnDeleteKubeconfig, NoMigration, Awaited
    PROVE  NoMigration' /\ Awaited' /\ ResultFits'
  <1>1. pc # "idle" /\ UNCHANGED <<kcpVars, shoot>> /\ UNCHANGED kcpVars
        /\ (shoot' # NoShoot => shoot'.op # "Migrate")
    BY DEF sFnDeleteKubeconfig, NoMigration
  <1>2. /\ With("Terminating", "depr", "ok") \in Status /\ With("Terminating", "depr", "other") \in Status
        /\ StateOnly("Failed") \in Status /\ ~Unfinished(StateOnly("Failed"))
    BY <1>1, WithFits
  <1>3. {"after", "stop"} \subseteq Results
    BY DEF Results
  <1>4. CASE \/ UpdateStatusAnd("after", With("Terminating", "depr", "ok"))
             \/ UpdateStatusAnd("after", With("Terminating", "depr", "other"))
             \/ UpdateStatusAnd("stop", StateOnly("Failed"))
    BY <1>1, <1>2, <1>3, <1>4, ReportSchedule
  <1>5. CASE Return("after")
    BY <1>1, <1>3, <1>5, KnownUnchanged, ReturnSchedule
  <1>6. CASE Continue("delete_shoot", inst.st)
    BY <1>1, <1>6, ContinueSchedule DEF StateFns
  <1> QED
    BY <1>4, <1>5, <1>6 DEF sFnDeleteKubeconfig

LEMMA DeleteShootSchedule ==
    ASSUME Inv, sFnDeleteShoot, NoMigration, Awaited
    PROVE  NoMigration' /\ Awaited' /\ ResultFits'
  <1>1. pc = "delete_shoot" /\ pc # "idle" /\ UNCHANGED kcpVars /\ inst.st \in Status
    BY WorkerFacts DEF sFnDeleteShoot
  <1>2. shoot' # NoShoot => shoot'.op # "Migrate"
    <2>1. CASE UNCHANGED shoot
      BY <2>1 DEF NoMigration
    <2>2. CASE ~sh.del
      <3>1. shoot \in Shoot /\ shoot # NoShoot
        BY <1>1, <2>2 DEF Inv, CoreInv, TypeOK, Places
      <3> QED
        BY <3>1 DEF sFnDeleteShoot, Shoot, NoMigration
    <2> QED
      BY <2>1, <2>2 DEF sFnDeleteShoot
  <1>3. With("Terminating", "depr", "other") \in Status
    BY <1>1, WithFits
  <1>4. {"after", "requeue"} \subseteq Results
    BY DEF Results
  <1>5. CASE Return("requeue")
    BY <1>1, <1>2, <1>4, <1>5, KnownUnchanged, ReturnSchedule
  <1>6. CASE \/ UpdateStatusAnd("after", inst.st)
             \/ UpdateStatusAnd("after", With("Terminating", "depr", "other"))
    BY <1>1, <1>2, <1>3, <1>4, <1>6, ReportSchedule
  <1> QED
    BY <1>5, <1>6 DEF sFnDeleteShoot

LEMMA TakeSnapshotSchedule ==
    ASSUME Inv, sFnTakeSnapshot, NoMigration, Awaited
    PROVE  NoMigration' /\ Awaited' /\ ResultFits'
  <1>1. pc = "take_snapshot" /\ pc # "idle" /\ UNCHANGED kcpVars /\ UNCHANGED shoot /\ inst.st \in Status
        /\ (shoot' # NoShoot => shoot'.op # "Migrate")
    BY WorkerFacts DEF sFnTakeSnapshot, NoMigration
  <1>2. CASE UpdateStatusAnd("after", inst.st)
    <2>1. "after" \in Results
      BY DEF Results
    <2> QED
      BY <1>1, <1>2, <2>1, ReportSchedule
  <1>3. CASE sh' = shoot /\ pc' = "initialize" /\ UNCHANGED <<queued, timer, snap>>
    <2>1. KeepsAwaited
      BY <1>1, <1>3, KnownUnchanged DEF KeepsAwaited
    <2> QED
      BY <1>1, <1>3, <2>1, AwaitedKept DEF NoMigration, ResultFits
  <1> QED
    BY <1>2, <1>3 DEF sFnTakeSnapshot, Goto

LEMMA PatchDoneSchedule ==
    ASSUME Inv, PatchDone, NoMigration, Awaited
    PROVE  NoMigration' /\ Awaited' /\ ResultFits'
  <1>1. pc # "idle" /\ UNCHANGED shoot /\ (shoot' # NoShoot => shoot'.op # "Migrate")
        /\ "requeue" \in Results
    BY DEF PatchDone, NoMigration, Results
  <1>2. CASE UNCHANGED kcpVars /\ Return("requeue")
    BY <1>1, <1>2, KnownUnchanged, ReturnSchedule
  <1>3. CASE /\ rt' # Gone => rt # Gone /\ rt'.st = rt.st
             /\ CopiesAreKnown(rt')
             /\ \/ pc' = "update_status" /\ res' = "after"
                \/ pc' = "kubeconfig"
             /\ UNCHANGED <<queued, timer, snap, sh>>
    <2>1. KeepsAwaited
      BY <1>1, <1>3 DEF KeepsAwaited
    <2> QED
      BY <1>1, <1>3, <2>1, AwaitedKept DEF NoMigration, ResultFits
  <1>4. ASSUME NEW o, Unforced(o), fresh, rt \in Runtime, WriteRuntime(o),
               PatchedTo(o, With("Pending", "prov", "other"))
        PROVE  NoMigration' /\ Awaited' /\ ResultFits'
    <2>1. rt \in Runtime /\ rt # Gone /\ Sound(rt) /\ rt.gen \in Nat
      BY <1>4, FreshFacts
    <2>2. /\ o \in Runtime /\ o.st = rt.st /\ o.w = rt.w /\ o.del = rt.del /\ o.fin = rt.fin
          /\ o.gen \in Nat /\ (o.gen = rt.gen \/ (o.gen = rt.gen + 1 /\ o.gen <= MaxGen))
      BY <1>4, UnforcedRuntime
    <2>3. WriteRuntime(o)
      BY <1>4
    <2>4. Sound(o) /\ Later(rt, o)
      BY <2>1, <2>2 DEF Sound, Later
    <2>5. rt' = o /\ CopiesAreKnown(rt')
      BY <2>2, <2>3, <2>4, WriteHistory DEF Inv, CopiesAreKnown
    <2>6. /\ \/ pc' = "update_status" /\ res' = "after"
             \/ pc' = "kubeconfig"
          /\ UNCHANGED <<queued, timer, snap, sh>>
      BY <1>4 DEF PatchedTo
    <2> QED
      BY <1>3, <2>1, <2>2, <2>5, <2>6
  <1>5. CASE /\ UNCHANGED kcpVars
             /\ \/ pc' = "update_status" /\ res' = "after"
                \/ pc' = "kubeconfig"
             /\ UNCHANGED <<queued, timer, snap, sh>>
    BY <1>3, <1>5, KnownUnchanged
  <1> QED
    BY <1>2, <1>4, <1>5, PatchDoneForms DEF PatchedTo

LEMMA UpdateStatusSchedule ==
    ASSUME Inv, sFnUpdateStatus, NoMigration, Awaited, ResultFits
    PROVE  NoMigration' /\ Awaited' /\ ResultFits'
  <1>1. pc = "update_status" /\ pc # "idle" /\ UNCHANGED shoot /\ res \in Results /\ "error" \in Results
        /\ (shoot' # NoShoot => shoot'.op # "Migrate") /\ TypeOK
    BY DEF sFnUpdateStatus, NoMigration, Results, Inv, CoreInv, TypeOK
  <1>2. CASE inst.st = snap /\ Return(res) /\ UNCHANGED kcpVars
    <2>1. res = "stop" => ~Unfinished(snap)
      BY <1>1, <1>2 DEF ResultFits
    <2> QED
      BY <1>1, <1>2, <2>1, KnownUnchanged, ReturnSchedule
  <1>3. CASE Return("error") /\ UNCHANGED kcpVars
    BY <1>1, <1>3, KnownUnchanged, ReturnSchedule
  <1>4. CASE noConflict /\ WriteRuntime([rt EXCEPT !.st = inst.st]) /\ Return(res)
    <2> DEFINE o == [rt EXCEPT !.st = inst.st]
    <2>1. rt \in Runtime /\ rt # Gone /\ Sound(rt) /\ rt.gen \in Nat /\ rt.st = snap /\ SameSpec(rt, inst)
      BY <1>4, FreshFacts DEF noConflict
    <2>2. inst.st \in Status /\ (inst.st.state = "Terminating" => inst.del)
      BY <1>1, WorkerFacts
    <2>3. o \in Runtime /\ SameSpec(o, rt) /\ o.st = inst.st
      BY <2>1, <2>2, SetStatus
    <2>4. WriteRuntime(o)
      BY <1>4
    <2> HIDE DEF o
    <2>5. Sound(o) /\ Later(rt, o) /\ o # Gone
      BY <2>1, <2>2, <2>3, AbsentAssumption DEF Sound, Later, AbsentAssumption, SameSpec
    <2>6. rt' = o /\ CopiesAreKnown(rt')
      BY <2>3, <2>4, <2>5, WriteHistory DEF Inv, CopiesAreKnown
    <2>7. Ends /\ (res = "after" => timer') /\ (res \in {"requeue", "error"} => queued')
      BY <1>1, <1>4, ReturnEnds
    <2>8. CASE res \in {"requeue", "error"}
      <3>1. o.st = rt.st
        BY <1>1, <2>1, <2>3, <2>8 DEF ResultFits
      <3> QED
        BY <1>1, <1>4, <2>1, <2>6, <2>8, <3>1, ReturnSchedule
    <2>9. CASE res = "after"
      BY <1>1, <2>7, <2>9 DEF Ends, NoMigration, Awaited, ResultFits
    <2>10. CASE res = "stop"
      <3>1. ~Unfinished(rt'.st)
        BY <1>1, <2>3, <2>6, <2>10 DEF ResultFits
      <3> QED
        BY <1>1, <2>7, <3>1 DEF Ends, NoMigration, Awaited, ResultFits, Unfinished
    <2> QED
      BY <1>1, <2>8, <2>9, <2>10 DEF Results
  <1> QED
    BY <1>2, <1>3, <1>4 DEF sFnUpdateStatus

LEMMA ReconcileSchedule ==
    ASSUME Inv, Reconcile, NoMigration, Awaited
    PROVE  NoMigration' /\ Awaited' /\ ResultFits'
  <1>1. pc = "idle" /\ UNCHANGED <<shoot, sh, timer>> /\ UNCHANGED kcpVars /\ TypeOK /\ Later(cache, rt)
    BY RtIsLatest DEF Reconcile, Inv, CoreInv
  <1>2. UNCHANGED rt /\ UNCHANGED cache /\ UNCHANGED watch
    BY <1>1, KnownUnchanged
  <1>3. NoMigration' /\ ResultFits'
    BY <1>1 DEF Reconcile, Goto, NoMigration, ResultFits
  <1>4. CASE cache = Gone
    BY <1>1, <1>2, <1>3, <1>4 DEF Later, Awaited
  <1>5. CASE cache # Gone
    <2>1. pc' = "take_snapshot" /\ snap' = cache.st
      BY <1>5 DEF Reconcile, Goto
    <2>2. 0 \in Copies /\ Copy(0) = cache
      BY <1>1, WatchLength
    <2>3. Copies' = Copies /\ \A i \in Copies : Copy(i)' = Copy(i)
      BY <1>2 DEF Copies, Copy, Nth
    <2> QED
      BY <1>1, <1>2, <1>3, <1>5, <2>1, <2>2, <2>3 DEF Awaited, Unfinished
  <1> QED
    BY <1>4, <1>5

\* The worker is where it was.
LEMMA AsideSchedule ==
    ASSUME Inv, NoMigration, Awaited, ResultFits,
           UNCHANGED <<pc, inst, snap, sh, res>>, shoot' # NoShoot => shoot'.op # "Migrate",
           timer => timer', queued => queued',
           rt' # Gone => rt # Gone /\ rt'.st = rt.st, CopiesAreKnown(rt')
    PROVE  NoMigration' /\ Awaited' /\ ResultFits'
  <1>1. KeepsAwaited
    BY DEF KeepsAwaited
  <1> QED
    BY <1>1, AwaitedKept DEF NoMigration, ResultFits

LEMMA GardenerSchedule ==
    ASSUME Inv, Gardener, NoMigration, Awaited, ResultFits, "migrate" \notin trouble
    PROVE  NoMigration' /\ Awaited' /\ ResultFits'
  <1>1. shoot \in Shoot /\ UNCHANGED kcpVars /\ UNCHANGED <<pc, inst, snap, sh, res, queued, timer>>
    BY DEF Gardener, GardenerStart, GardenerNoSeeds, GardenerFinish, GardenerDelete, GardenerWrite,
           Inv, CoreInv, TypeOK
  <1>2. shoot.op # "Migrate"
    BY DEF Gardener, GardenerStart, GardenerNoSeeds, GardenerFinish, GardenerDelete, NoMigration
  <1>3. shoot' # NoShoot => shoot'.op # "Migrate"
    <2>1. CASE GardenerStart
      BY <1>1, <2>1 DEF GardenerStart, GardenerWrite, Shoot
    <2>2. CASE GardenerNoSeeds \/ GardenerFinish \/ GardenerDelete
      BY <1>1, <1>2, <2>2 DEF GardenerNoSeeds, GardenerFinish, GardenerDelete, GardenerWrite, Shoot
    <2> QED
      BY <2>1, <2>2 DEF Gardener
  <1> QED
    BY <1>1, <1>3, KnownUnchanged, AsideSchedule

LEMMA EnvironmentSchedule ==
    ASSUME Inv, Environment, NoMigration, Awaited, ResultFits, Prompt
    PROVE  NoMigration' /\ Awaited' /\ ResultFits'
  <1>1. "migrate" \notin trouble /\ "slow" \notin trouble
    BY DEF Prompt
  <1>2. TypeOK /\ watch \in Seq(Runtime \cup {Gone}) /\ rt \in Runtime \cup {Gone}
    BY DEF Inv, CoreInv, TypeOK
  <1>3. CASE TimerFires
    <2>1. watch = <<>> /\ UNCHANGED kcpVars /\ UNCHANGED <<shoot, sh, pc, res, inst, snap>> /\ queued'
      BY <1>1, <1>3 DEF TimerFires, memVars
    <2>2. UNCHANGED rt /\ UNCHANGED cache /\ watch' = <<>>
      BY <2>1, KnownUnchanged
    <2>3. Copies' = {0} /\ Copy(0)' = rt
      <3>1. Len(watch) = 0 /\ Copy(Len(watch)) = rt
        BY <2>1 DEF Inv, CoreInv, History
      <3> QED
        BY <2>1, <2>2, <3>1 DEF Copies, Copy, Nth
    <2> QED
      BY <2>1, <2>2, <2>3 DEF NoMigration, Awaited, ResultFits
  <1>4. CASE CacheSync
    <2>1. watch # <<>> /\ cache' = Head(watch) /\ watch' = Tail(watch) /\ rt' = rt
          /\ UNCHANGED <<pc, inst, snap, sh, res>> /\ UNCHANGED <<shoot, timer>> /\ (queued => queued')
      BY <1>4 DEF CacheSync, memVars
    <2>2. CopiesAreKnown(rt')
      BY <2>1, SyncHistory DEF Inv, CopiesAreKnown
    <2> QED
      BY <2>1, <2>2, AsideSchedule DEF NoMigration
  <1>5. CASE Users
    <2>1. PICK o : UserWrite(o) /\ UserVersion(o)
      BY <1>5, UserForms
    <2>2. rt' = o /\ UNCHANGED <<pc, inst, snap, sh, res>> /\ UNCHANGED <<shoot, timer, queued>>
          /\ WriteRuntime(o) /\ rt # Gone
      BY <2>1 DEF UserWrite, WriteRuntime
    <2>3. CopiesAreKnown(rt')
      BY <2>1, <2>2, WriteHistory DEF Inv, CopiesAreKnown, UserVersion
    <2> QED
      BY <2>1, <2>2, <2>3, AsideSchedule DEF NoMigration, UserVersion
  <1>6. CASE Restart
    <2>1. cache' = rt /\ watch' = <<>> /\ rt' = rt /\ shoot' = shoot /\ pc' = "idle" /\ sh' = NoShoot
          /\ queued' = (rt # Gone)
      BY <1>6 DEF Restart
    <2>2. Copies' = {0} /\ Copy(0)' = rt
      BY <2>1 DEF Copies, Copy, Nth
    <2> QED
      BY <2>1, <2>2 DEF NoMigration, Awaited, ResultFits
  <1>7. CASE GcSync \/ GardenerCluster \/ BecomeCalm
    <2>1. UNCHANGED kcpVars /\ UNCHANGED <<pc, inst, snap, sh, res>> /\ UNCHANGED <<shoot, timer, queued>>
      BY <1>7 DEF GcSync, GardenerCluster, BecomeCalm, memVars
    <2> QED
      BY <2>1, KnownUnchanged, AsideSchedule DEF NoMigration
  <1> QED
    BY <1>1, <1>3, <1>4, <1>5, <1>6, <1>7, GardenerSchedule DEF Environment

\* The invariant with what is queued, timed or under way.
THEOREM ScheduleInvariance == Spec => [](Inv /\ ScheduleInv)
  <1>1. Init => ScheduleInv
    <2> SUFFICES ASSUME Init
                 PROVE  NoMigration /\ Awaited /\ ResultFits
      BY DEF ScheduleInv
    <2>1. pc = "idle" /\ sh = NoShoot /\ shoot \in {NoShoot, OldShoot} /\ cache = rt /\ watch = <<>> /\ queued
      BY DEF Init
    <2>2. Copies = {0} /\ Copy(0) = rt
      BY <2>1 DEF Copies, Copy, Nth
    <2> QED
      BY <2>1, <2>2, InitialObjects DEF NoMigration, Awaited, ResultFits
  <1>2. ASSUME Inv, ScheduleInv, [Next]_vars
        PROVE  ScheduleInv'
    <2>1. trouble' = trouble
      BY <1>2, TroubleConstant
    <2> SUFFICES ASSUME Prompt
                 PROVE  NoMigration' /\ Awaited' /\ ResultFits'
      BY <2>1 DEF ScheduleInv, Prompt
    <2>2. NoMigration /\ Awaited /\ ResultFits
      BY <1>2 DEF ScheduleInv
    <2>3. CASE UNCHANGED vars
      <3>1. UNCHANGED kcpVars /\ UNCHANGED <<pc, inst, snap, sh, res>> /\ UNCHANGED <<shoot, timer, queued>>
        BY <2>3 DEF vars, memVars
      <3> QED
        BY <1>2, <2>2, <3>1, KnownUnchanged, AsideSchedule DEF NoMigration
    <2> QED
      BY <1>2, <2>2, <2>3, LiveSchedule, InitializeSchedule, CreateShootSchedule, DeleteKubeconfigSchedule,
         DeleteShootSchedule, TakeSnapshotSchedule, PatchDoneSchedule, UpdateStatusSchedule,
         ReconcileSchedule, EnvironmentSchedule
      DEF Next, StateFn, LiveFn
  <1> QED
    BY <1>1, <1>2, NextInv, InitInv, PTL DEF Spec

\* No state function ends a reconciliation that leaves work to do without a timer, a
\* place in the queue or an event that brings it back, if the informer does not trail
\* longer than a RequeueAfter delay and Gardener does not migrate the control plane.
THEOREM UnfinishedIsScheduledAlways ==
    Spec => [](trouble \cap {"slow", "migrate"} = {} => UnfinishedIsScheduled)
  <1>1. ScheduleInv => (trouble \cap {"slow", "migrate"} = {} => UnfinishedIsScheduled)
    BY DEF ScheduleInv, Prompt, Awaited, Unfinished, UnfinishedIsScheduled, Scheduled
  <1> QED
    BY <1>1, ScheduleInvariance, PTL
=============================================================================
