---------------------------- MODULE ConfigReload ----------------------------
(***************************************************************************)
(* The ConfigReloadWatcher and the part of the Runtime controller that     *)
(* answers it.  When a shared configuration object changes, the watcher    *)
(* sets the force-reconcile annotation on the Runtimes; the controller     *)
(* converts and patches the shoot, removes the annotation, and configures  *)
(* the runtime bootstrapper in the cluster.  The two write the same        *)
(* Runtimes, the watcher by applying a whole copy of what it has listed.   *)
(*                                                                         *)
(* What the controller does besides (RuntimeFSM) is left out: the shoot    *)
(* and the kubeconfig exist, and the conversion leaves the Runtime's spec  *)
(* as it is (ClusterConfiguration has the case that it does not).          *)
(***************************************************************************)
EXTENDS Naturals, FiniteSets

CONSTANTS
    Runtimes,
    AclRuntimes, \* those for which AclNeedsToBeEnabled holds
    MaxConfig, MaxSpec, \* bounds: changes of each configuration object, edits of each
                 \* Runtime's spec
    Scenarios    \* the Runtimes there are, the changes and edits that are made, and what
                 \* goes wrong: "status": updates of the status fail; "api": other calls do;
                 \* "restart": KIM restarts; "kubeconfig": the GardenerCluster CR may not be
                 \* Ready

ASSUME ReloadAssumption ==
    /\ AclRuntimes \subseteq Runtimes
    /\ MaxConfig \in Nat /\ MaxSpec \in Nat
    /\ Scenarios \subseteq [runtimes: SUBSET Runtimes, changes: 0..MaxConfig, edits: 0..MaxSpec,
                           trouble: SUBSET {"status", "api", "restart", "kubeconfig"}]

\* The ACL ConfigMap, and the objects the bootstrapper is configured from.
Objects == {"acl", "boot"}

VARIABLES
    scenario, \* the one of Scenarios that happens
    config,  \* the version of each configuration object
    seen,    \* ... in KIM's informer cache
    rt,      \* the Runtimes on the API server
    cache,   \* the informer's copies
    event,   \* an undelivered change of r passes the Runtime event filter
    queued,  \* the Runtime workqueue
    timer,   \* r will be added to it after a delay (RequeueAfter)
    pc, inst, fresh, \* per Runtime: the reconciliation's next step, the Runtime
             \* it read, and whether that has the current resourceVersion
    acl,     \* the ACL it converted the shoot with
    next,    \* the state it will write
    applied, \* what is applied to the shoot and the cluster
    wqueue,  \* the watcher's workqueue
    wobj, wleft, wlist, wfresh, wfailed \* the watcher's request, the Runtimes it
             \* still has to annotate, as listed, with the current
             \* resourceVersion; and whether a call failed

rtVars == <<rt, cache, event>>
fsmVars == <<queued, timer, pc, inst, fresh, acl, next, applied>>
watcherVars == <<wqueue, wobj, wleft, wlist, wfresh, wfailed>>
vars == <<scenario, config, seen, rtVars, fsmVars, watcherVars>>

States == {"Ready", "Pending", "Failed"}

Runtime == [force: BOOLEAN, spec: 0..MaxSpec, state: States]

Old == [force |-> FALSE, spec |-> 0, state |-> "Ready"]

TypeOK ==
    /\ scenario \in Scenarios
    /\ config \in [Objects -> 0..MaxConfig] /\ seen \in [Objects -> 0..MaxConfig]
    /\ rt \in [Runtimes -> Runtime] /\ cache \in [Runtimes -> Runtime]
    /\ event \in [Runtimes -> BOOLEAN] /\ queued \in [Runtimes -> BOOLEAN]
    /\ timer \in [Runtimes -> BOOLEAN]
    /\ pc \in [Runtimes -> {"idle", "convert", "patch", "unforce", "bootstrapper", "status"}]
    /\ inst \in [Runtimes -> Runtime] /\ fresh \in [Runtimes -> BOOLEAN]
    /\ acl \in [Runtimes -> 0..MaxConfig]
    /\ next \in [Runtimes -> States]
    /\ applied \in [Runtimes -> [acl: 0..MaxConfig, boot: 0..MaxConfig, spec: 0..MaxSpec]]
    /\ wqueue \subseteq Objects /\ wobj \in Objects \cup {"idle"}
    /\ wleft \subseteq Runtimes /\ (wobj = "idle" => wleft = {})
    /\ wlist \in [Runtimes -> Runtime] /\ wfresh \in [Runtimes -> BOOLEAN]
    /\ wfailed \in BOOLEAN

Init ==
    /\ scenario \in Scenarios
    /\ config = [o \in Objects |-> 0] /\ seen = config
    /\ rt = [r \in Runtimes |-> Old] /\ cache = rt
    /\ event = [r \in Runtimes |-> FALSE] /\ queued = event /\ timer = event
    /\ pc = [r \in Runtimes |-> "idle"] /\ inst = rt /\ fresh = event
    /\ acl = [r \in Runtimes |-> 0] /\ next = [r \in Runtimes |-> "Ready"]
    /\ applied = [r \in Runtimes |-> [acl |-> 0, boot |-> 0, spec |-> 0]]
    /\ wqueue = {} /\ wobj = "idle" /\ wleft = {} /\ wlist = rt
    /\ wfresh = event /\ wfailed = FALSE

Fault == "api" \in scenario.trouble

-----------------------------------------------------------------------------
(* The API server and the informers.                                        *)

\* Every write makes the other holders' resourceVersion stale.
Write(r, o) ==
    /\ rt' = [rt EXCEPT ![r] = o]
    /\ event' = [event EXCEPT ![r] = @ \/ <<o.force, o.spec>> # <<rt[r].force, rt[r].spec>>]
    /\ wfresh' = [wfresh EXCEPT ![r] = FALSE]
    /\ UNCHANGED cache

ChangeConfig(o) ==
    /\ config[o] < scenario.changes
    /\ config' = [config EXCEPT ![o] = @ + 1]
    /\ UNCHANGED <<scenario, seen, rtVars, fsmVars, watcherVars>>

\* ObjectUpdatedPredicate: the cache is updated and the event queues a request.
ObjectUpdated(o) ==
    /\ seen[o] # config[o]
    /\ seen' = [seen EXCEPT ![o] = config[o]]
    /\ wqueue' = wqueue \cup {o}
    /\ UNCHANGED <<scenario, config, rtVars, fsmVars, wobj, wleft, wlist, wfresh, wfailed>>

EditRuntime(r) ==
    /\ r \in scenario.runtimes /\ rt[r].spec < scenario.edits
    /\ Write(r, [rt[r] EXCEPT !.spec = @ + 1])
    /\ fresh' = [fresh EXCEPT ![r] = FALSE]
    /\ UNCHANGED <<scenario, config, seen, queued, timer, pc, inst, acl, next, applied, wqueue, wobj,
                   wleft, wlist, wfailed>>

CacheSync(r) ==
    /\ cache[r] # rt[r] \/ event[r]
    /\ cache' = [cache EXCEPT ![r] = rt[r]]
    /\ queued' = [queued EXCEPT ![r] = @ \/ event[r]]
    /\ event' = [event EXCEPT ![r] = FALSE]
    /\ UNCHANGED <<scenario, config, seen, rt, timer, pc, inst, fresh, acl, next, applied, watcherVars>>

\* The delays are longer than the informer's lag.
TimerFires(r) ==
    /\ timer[r] /\ cache[r] = rt[r]
    /\ timer' = [timer EXCEPT ![r] = FALSE]
    /\ queued' = [queued EXCEPT ![r] = TRUE]
    /\ UNCHANGED <<scenario, config, seen, rtVars, pc, inst, fresh, acl, next, applied, watcherVars>>

-----------------------------------------------------------------------------
(* ConfigReloadWatcher.Reconcile.                                           *)

\* RuntimePredicate, as cmd/main.go defines it.
RuntimePredicate(o, r) == o = "acl" => r \in AclRuntimes

\* Runtimes that already have the annotation are skipped.
toAnnotate(o) == {r \in scenario.runtimes : RuntimePredicate(o, r) /\ ~rt[r].force}

ListRuntimes(o) ==
    /\ wobj = "idle" /\ o \in wqueue
    /\ \/ /\ wobj' = o /\ wleft' = toAnnotate(o)
          /\ wlist' = rt /\ wfresh' = [r \in Runtimes |-> TRUE]
          /\ wqueue' = wqueue \ {o}
       \/ Fault /\ UNCHANGED <<wobj, wleft, wlist, wfresh, wqueue>>
    /\ UNCHANGED <<scenario, config, seen, rtVars, fsmVars, wfailed>>

unversioned(r) == r \in wleft  \* mutant: the copy is applied without its resourceVersion

versionMatches(r) == wfresh[r]

\* The forced apply of the whole listed copy, annotated.
Annotate(r) ==
    /\ r \in wleft
    /\ wleft' = wleft \ {r}
    /\ \/ /\ versionMatches(r)
          /\ Write(r, [rt[r] EXCEPT !.force = TRUE, !.spec = wlist[r].spec])
          /\ fresh' = [fresh EXCEPT ![r] = FALSE] /\ UNCHANGED wfailed
       \/ /\ ~versionMatches(r) \/ Fault
          /\ wfailed' = TRUE /\ UNCHANGED <<rtVars, fresh, wfresh>>
    /\ UNCHANGED <<scenario, config, seen, queued, timer, pc, inst, acl, next, applied, wqueue, wobj, wlist>>

notRetried == {}  \* mutant: the request is not repeated after a failure

\* ErrRuntimeNotificationFailed: the request is queued again.
retried == IF wfailed THEN {wobj} ELSE {}

stopAtFailure == wleft = {} \/ wfailed  \* mutant: the loop ends at the first failure

loopDone == wleft = {}

AnnotateDone ==
    /\ wobj # "idle" /\ loopDone
    /\ wqueue' = wqueue \cup retried
    /\ wobj' = "idle" /\ wfailed' = FALSE
    /\ wlist' = [r \in Runtimes |-> Old] /\ wfresh' = [r \in Runtimes |-> FALSE]
    /\ UNCHANGED <<scenario, config, seen, rtVars, fsmVars, wleft>>

-----------------------------------------------------------------------------
(* The Runtime controller.                                                  *)

Goto(r, step) == pc' = [pc EXCEPT ![r] = step]

\* sFnSelectShootProcessing: a Runtime that is Ready or Failed is processed when
\* Gardener has work left on the shoot.
Reconcile(r) ==
    LET i == cache[r]
        steps == IF i.force \/ applied[r].spec < i.spec THEN {"convert"}
                 ELSE IF i.state = "Pending" THEN {"bootstrapper"}
                 ELSE {"bootstrapper", "idle"}
    IN  /\ pc[r] = "idle" /\ queued[r]
        /\ queued' = [queued EXCEPT ![r] = FALSE]
        /\ \E s \in steps : Goto(r, s)
        /\ inst' = [inst EXCEPT ![r] = i]
        /\ fresh' = [fresh EXCEPT ![r] = cache[r] = rt[r] /\ ~event[r]]
        /\ UNCHANGED <<scenario, config, seen, rtVars, timer, acl, next, applied, watcherVars>>

Finish(r, state) == Goto(r, "status") /\ next' = [next EXCEPT ![r] = state]

\* The ACL is read from the cache.  Without the audit log, the structured-auth
\* ConfigMap or the conversion the Runtime becomes Failed; the options are retried.
Convert(r) ==
    /\ pc[r] = "convert"
    /\ \/ /\ Goto(r, "patch") /\ UNCHANGED next
          /\ acl' = [acl EXCEPT ![r] = seen["acl"]]
       \/ Fault /\ (Finish(r, "Pending") \/ Finish(r, "Failed")) /\ UNCHANGED acl
    /\ UNCHANGED <<scenario, config, seen, rtVars, queued, timer, inst, fresh, applied, watcherVars>>

\* handleUpdateError retries a Conflict and a Forbidden.  Any other error makes the
\* Runtime Failed, its annotation left; the patch may have been made all the same.
Patch(r) ==
    LET patched == applied' = [applied EXCEPT ![r].acl = acl[r], ![r].spec = inst[r].spec]
    IN  /\ pc[r] = "patch"
        /\ \/ Goto(r, "unforce") /\ patched /\ UNCHANGED next
           \/ Fault /\ Finish(r, "Pending") /\ UNCHANGED applied
           \/ Fault /\ Finish(r, "Failed") /\ (patched \/ UNCHANGED applied)
        /\ acl' = [acl EXCEPT ![r] = 0]
        /\ UNCHANGED <<scenario, config, seen, rtVars, queued, timer, inst, fresh, watcherVars>>

\* After the patch the shoot has changed, and the status is updated, or not.
AfterPatch(r) ==
    \/ Goto(r, "bootstrapper") /\ UNCHANGED next
    \/ Finish(r, "Pending")

handleForceReconciliationAnnotation(r) ==
    /\ pc[r] = "unforce"
    /\ \/ ~inst[r].force /\ AfterPatch(r) /\ UNCHANGED <<rtVars, queued, wfresh>>
       \/ /\ inst[r].force /\ fresh[r]
          /\ Write(r, [rt[r] EXCEPT !.force = FALSE])
          /\ AfterPatch(r) /\ UNCHANGED queued
       \/ /\ inst[r].force /\ (~fresh[r] \/ Fault)
          /\ Goto(r, "idle") /\ queued' = [queued EXCEPT ![r] = TRUE]
          /\ UNCHANGED <<rtVars, next, wfresh>>
    /\ UNCHANGED <<scenario, config, seen, timer, inst, fresh, acl, applied, wqueue, wobj, wleft, wlist,
                   wfailed>>

\* sFnHandleKubeconfig: requeueAfter, without an update of the status.
WaitForKubeconfig(r) ==
    /\ "kubeconfig" \in scenario.trouble
    /\ pc[r] = "bootstrapper" /\ Goto(r, "idle")
    /\ timer' = [timer EXCEPT ![r] = TRUE]
    /\ inst' = [inst EXCEPT ![r] = Old] /\ fresh' = [fresh EXCEPT ![r] = FALSE]
    /\ UNCHANGED <<scenario, config, seen, rtVars, queued, acl, next, applied, watcherVars>>

\* Configurator.Configure reads its objects without a cache.
bootstrapperConfig == config["boot"]

ConfigureBootstrapper(r) ==
    /\ pc[r] = "bootstrapper"
    /\ \/ Finish(r, "Ready") /\ applied' = [applied EXCEPT ![r].boot = bootstrapperConfig]
       \/ Fault /\ Finish(r, "Pending") /\ UNCHANGED applied
    /\ UNCHANGED <<scenario, config, seen, rtVars, queued, timer, inst, fresh, acl, watcherVars>>

neverAfter(r) == next[r] \notin States  \* mutant: updateStatusAndStop

\* updateStatusAndRequeueAfter; updateStateFailedWithErrorAndStop does not.
requeueAfter(r) == next[r] = "Pending"

\* Nothing is written when the status is the one that was read.
UpdateStatus(r) ==
    /\ pc[r] = "status" /\ Goto(r, "idle")
    /\ \/ /\ \/ inst[r].state = next[r] /\ UNCHANGED <<rtVars, wfresh>>
             \/ fresh[r] /\ Write(r, [rt[r] EXCEPT !.state = next[r]])
          /\ timer' = [timer EXCEPT ![r] = @ \/ requeueAfter(r)]
          /\ UNCHANGED queued
       \/ /\ ~fresh[r] \/ "status" \in scenario.trouble
          /\ queued' = [queued EXCEPT ![r] = TRUE]
          /\ UNCHANGED <<rtVars, wfresh, timer>>
    /\ next' = [next EXCEPT ![r] = "Ready"]
    /\ fresh' = [fresh EXCEPT ![r] = FALSE]
    /\ inst' = [inst EXCEPT ![r] = Old]
    /\ UNCHANGED <<scenario, config, seen, acl, applied, wqueue, wobj, wleft, wlist, wfailed>>

\* The informers list everything again: the Runtimes are queued, but the
\* configuration objects arrive as Create events, which the predicate ignores.
Restart ==
    /\ "restart" \in scenario.trouble
    /\ seen' = config /\ cache' = rt
    /\ event' = [r \in Runtimes |-> FALSE] /\ queued' = [r \in Runtimes |-> r \in scenario.runtimes]
    /\ timer' = [r \in Runtimes |-> FALSE]
    /\ pc' = [r \in Runtimes |-> "idle"] /\ inst' = [r \in Runtimes |-> Old]
    /\ fresh' = [r \in Runtimes |-> FALSE] /\ acl' = [r \in Runtimes |-> 0]
    /\ next' = [r \in Runtimes |-> "Ready"]
    /\ wqueue' = {} /\ wobj' = "idle" /\ wleft' = {} /\ wfailed' = FALSE
    /\ wlist' = [r \in Runtimes |-> Old] /\ wfresh' = [r \in Runtimes |-> FALSE]
    /\ UNCHANGED <<scenario, config, rt, applied>>

-----------------------------------------------------------------------------
Next ==
    \/ \E o \in Objects : ChangeConfig(o) \/ ObjectUpdated(o) \/ ListRuntimes(o)
    \/ AnnotateDone \/ Restart
    \/ \E r \in Runtimes :
         \/ EditRuntime(r) \/ CacheSync(r) \/ TimerFires(r) \/ Annotate(r) \/ Reconcile(r)
         \/ Convert(r) \/ Patch(r) \/ handleForceReconciliationAnnotation(r)
         \/ WaitForKubeconfig(r) \/ ConfigureBootstrapper(r) \/ UpdateStatus(r)

Spec == Init /\ [][Next]_vars

-----------------------------------------------------------------------------
(* Properties.                                                              *)

\* Nothing is left to do: every event is delivered and every queue is empty.
Quiet ==
    /\ seen = config /\ wqueue = {} /\ wobj = "idle"
    /\ \A r \in Runtimes :
         pc[r] = "idle" /\ ~queued[r] /\ ~timer[r] /\ ~event[r] /\ cache[r] = rt[r]

\* The mechanism works for the bootstrapper: when all is quiet the cluster of
\* every Runtime is configured from the current objects, whichever way the
\* watcher, the controller and users interleave (a Runtime that is skipped
\* because it is annotated already is configured after its annotation goes), and
\* although the watcher's calls, the patch and the configuration itself may fail.
\* A Runtime that such a failure has made Failed is not retried, and the watcher skips
\* it while it has its annotation: it waits for an edit or a restart.  A restart, a
\* kubeconfig that is not ready or a status that cannot be written after the annotation
\* is gone may be the end of it.
BootstrapperCurrent ==
    Quiet /\ {"kubeconfig", "restart", "status"} \cap scenario.trouble = {} =>
        \A r \in scenario.runtimes : rt[r].state # "Failed" => applied[r].boot = config["boot"]

\* The same of the ACL, as the watcher's documentation has it.
AclCurrent == Quiet => \A r \in AclRuntimes \cap scenario.runtimes : applied[r].acl = config["acl"]

\* The watcher applies the whole Runtime it has listed, with force, yet never
\* takes back an edit made since: the resourceVersion goes with the copy.
EditsAreKept == [][\A r \in Runtimes : rt'[r].spec >= rt[r].spec]_vars

\* When all is quiet no Runtime waits: none is annotated or Pending, and its
\* spec is applied (a conflict with the watcher's write is always retried).  Only one
\* that failing calls have made Failed may be left as it is.
NothingForgotten ==
    Quiet => \A r \in Runtimes :
        rt[r] = [Old EXCEPT !.spec = applied[r].spec] \/ (rt[r].state = "Failed" /\ Fault)
=============================================================================
