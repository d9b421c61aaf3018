------------------------ MODULE ConfigReloadProofs --------------------------
(***************************************************************************)
(* Proofs about ConfigReload, for any set of Runtimes, any bounds and any  *)
(* combination of troubles.                                                *)
(***************************************************************************)
EXTENDS ConfigReload, TLAPS

\* The watcher's copy of a Runtime that still has the current resourceVersion
\* has the current spec: every write of the Runtime makes it stale.
CopyIsCurrent == \A r \in Runtimes : wfresh[r] => wlist[r].spec = rt[r].spec

ReloadInv == TypeOK /\ CopyIsCurrent

LEMMA FieldTypes ==
    ASSUME NEW x \in Runtime
    PROVE  x.spec \in 0..MaxSpec /\ x.spec \in Nat /\ MaxSpec \in Nat
  BY ReloadAssumption DEF Runtime, ReloadAssumption

LEMMA ForceExcept ==
    ASSUME NEW x \in Runtime, NEW b \in BOOLEAN, NEW n \in 0..MaxSpec
    PROVE  /\ [x EXCEPT !.force = b] \in Runtime
           /\ [x EXCEPT !.force = b, !.spec = n] \in Runtime
  BY DEF Runtime

LEMMA ScenarioTypes ==
    ASSUME TypeOK
    PROVE  /\ scenario.runtimes \subseteq Runtimes
           /\ scenario.edits \in 0..MaxSpec /\ scenario.changes \in 0..MaxConfig
           /\ MaxConfig \in Nat /\ MaxSpec \in Nat
  BY ReloadAssumption DEF ReloadAssumption, TypeOK

\* A write of r: the types, and what it does to copies.
LEMMA WriteLemma ==
    ASSUME TypeOK, CopyIsCurrent, NEW r \in Runtimes, NEW o \in Runtime, Write(r, o),
           UNCHANGED wlist
    PROVE  /\ rt' \in [Runtimes -> Runtime] /\ cache' \in [Runtimes -> Runtime]
           /\ event' \in [Runtimes -> BOOLEAN] /\ wfresh' \in [Runtimes -> BOOLEAN]
           /\ CopyIsCurrent'
           /\ \A q \in Runtimes : q # r => rt'[q] = rt[q]
           /\ rt'[r] = o
  <1>1. rt' = [rt EXCEPT ![r] = o] /\ wfresh' = [wfresh EXCEPT ![r] = FALSE]
        /\ cache' = cache
    BY DEF Write
  <1>2. event' \in [Runtimes -> BOOLEAN]
    BY DEF Write, TypeOK
  <1>3. CopyIsCurrent'
    BY <1>1 DEF CopyIsCurrent, TypeOK
  <1> QED
    BY <1>1, <1>2, <1>3 DEF TypeOK

LEMMA InitInv == Init => ReloadInv
  <1> SUFFICES ASSUME Init PROVE ReloadInv
    OBVIOUS
  <1>1. 0 \in 0..MaxConfig /\ 0 \in 0..MaxSpec
    BY ReloadAssumption DEF ReloadAssumption
  <1>2. Old \in Runtime
    BY <1>1 DEF Old, Runtime, States
  <1>3. TypeOK
    BY <1>1, <1>2 DEF Init, TypeOK, States
  <1>4. CopyIsCurrent
    BY DEF Init, CopyIsCurrent
  <1> QED
    BY <1>3, <1>4 DEF ReloadInv

\* The Runtimes that a step leaves as they are keep their spec; so does one whose
\* state or annotation is written.  Only an edit changes it, and raises it.
SpecsGrow == \A r \in Runtimes : rt'[r].spec >= rt[r].spec

LEMMA Unwritten ==
    ASSUME TypeOK, CopyIsCurrent, UNCHANGED <<rt, wlist, wfresh>>
    PROVE  CopyIsCurrent' /\ SpecsGrow
  BY DEF CopyIsCurrent, SpecsGrow, TypeOK, Runtime

LEMMA Written ==
    ASSUME TypeOK, CopyIsCurrent, NEW r \in Runtimes, NEW o \in Runtime, Write(r, o),
           UNCHANGED wlist, o.spec >= rt[r].spec
    PROVE  SpecsGrow
  <1>1. \A q \in Runtimes : rt[q].spec \in 0..MaxSpec
    BY DEF TypeOK, Runtime
  <1>2. \A q \in Runtimes : rt[q].spec >= rt[q].spec
    BY <1>1
  <1> QED
    BY <1>2, WriteLemma DEF SpecsGrow

LEMMA StepInv ==
    ASSUME ReloadInv, Next
    PROVE  ReloadInv' /\ SpecsGrow
  <1> USE DEF ReloadInv
  <1>1. ASSUME NEW o \in Objects, ChangeConfig(o)
        PROVE  ReloadInv' /\ SpecsGrow
    <2>1. UNCHANGED <<rt, wlist, wfresh>>
      BY <1>1 DEF ChangeConfig, rtVars, watcherVars
    <2>2. TypeOK'
      BY <1>1, ReloadAssumption
         DEF ChangeConfig, TypeOK, rtVars, fsmVars, watcherVars, ReloadAssumption
    <2> QED
      BY <2>1, <2>2, Unwritten
  <1>2. ASSUME NEW o \in Objects, ObjectUpdated(o)
        PROVE  ReloadInv' /\ SpecsGrow
    <2>1. UNCHANGED <<rt, wlist, wfresh>>
      BY <1>2 DEF ObjectUpdated, rtVars
    <2>2. TypeOK'
      BY <1>2 DEF ObjectUpdated, TypeOK, rtVars, fsmVars
    <2> QED
      BY <2>1, <2>2, Unwritten
  <1>3. ASSUME NEW o \in Objects, ListRuntimes(o)
        PROVE  ReloadInv' /\ SpecsGrow
    <2>1. TypeOK'
      BY <1>3, ScenarioTypes DEF ListRuntimes, TypeOK, rtVars, fsmVars, toAnnotate, Objects
    <2>2. CopyIsCurrent'
      BY <1>3 DEF ListRuntimes, CopyIsCurrent, rtVars, TypeOK
    <2>3. SpecsGrow
      BY <1>3 DEF ListRuntimes, SpecsGrow, rtVars, TypeOK, Runtime
    <2> QED
      BY <2>1, <2>2, <2>3
  <1>4. ASSUME AnnotateDone
        PROVE  ReloadInv' /\ SpecsGrow
    <2>1. Old \in Runtime
      BY ReloadAssumption DEF Old, Runtime, States, ReloadAssumption
    <2>2. TypeOK'
      BY <1>4, <2>1 DEF AnnotateDone, TypeOK, rtVars, fsmVars, loopDone, retried, Objects
    <2>3. CopyIsCurrent'
      BY <1>4 DEF AnnotateDone, CopyIsCurrent, rtVars, TypeOK
    <2>4. SpecsGrow
      BY <1>4 DEF AnnotateDone, SpecsGrow, rtVars, TypeOK, Runtime
    <2> QED
      BY <2>2, <2>3, <2>4
  <1>5. ASSUME Restart
        PROVE  ReloadInv' /\ SpecsGrow
    <2>1. Old \in Runtime /\ 0 \in 0..MaxConfig
      BY ReloadAssumption DEF Old, Runtime, States, ReloadAssumption
    <2>2. queued' \in [Runtimes -> BOOLEAN]
      <3>1. queued' = [r \in Runtimes |-> r \in scenario.runtimes]
        BY <1>5 DEF Restart
      <3>2. \A r \in Runtimes : (r \in scenario.runtimes) \in BOOLEAN
        OBVIOUS
      <3> QED
        BY <3>1, <3>2, Zenon
    <2>5. TypeOK'
      BY <1>5, <2>1, <2>2 DEF Restart, TypeOK, States
    <2>3. CopyIsCurrent'
      BY <1>5 DEF Restart, CopyIsCurrent, TypeOK
    <2>4. SpecsGrow
      BY <1>5 DEF Restart, SpecsGrow, TypeOK, Runtime
    <2> QED
      BY <2>3, <2>4, <2>5
  <1>6. ASSUME NEW r \in Runtimes, EditRuntime(r)
        PROVE  ReloadInv' /\ SpecsGrow
    <2> DEFINE o == [rt[r] EXCEPT !.spec = @ + 1]
    <2>1. rt[r] \in Runtime /\ rt[r].spec < scenario.edits
      BY <1>6 DEF EditRuntime, TypeOK
    <2>2. rt[r].spec + 1 \in 0..MaxSpec /\ rt[r].spec \in Nat
      BY <2>1, FieldTypes, ScenarioTypes
    <2>3. o \in Runtime /\ o.spec >= rt[r].spec
      BY <2>1, <2>2 DEF Runtime
    <2>4. Write(r, o) /\ UNCHANGED wlist
      BY <1>6 DEF EditRuntime
    <2>5. TypeOK'
      BY <1>6, <2>3, <2>4, WriteLemma DEF EditRuntime, TypeOK
    <2> QED
      BY <2>3, <2>4, <2>5, WriteLemma, Written
  <1>7. ASSUME NEW r \in Runtimes, CacheSync(r)
        PROVE  ReloadInv' /\ SpecsGrow
    <2>1. UNCHANGED <<rt, wlist, wfresh>>
      BY <1>7 DEF CacheSync, rtVars, watcherVars
    <2>2. TypeOK'
      BY <1>7 DEF CacheSync, TypeOK, rtVars, fsmVars, watcherVars
    <2> QED
      BY <2>1, <2>2, Unwritten
  <1>8. ASSUME NEW r \in Runtimes, TimerFires(r)
        PROVE  ReloadInv' /\ SpecsGrow
    <2>1. UNCHANGED <<rt, wlist, wfresh>>
      BY <1>8 DEF TimerFires, rtVars, watcherVars
    <2>2. TypeOK'
      BY <1>8 DEF TimerFires, TypeOK, rtVars, fsmVars, watcherVars
    <2> QED
      BY <2>1, <2>2, Unwritten
  <1>9. ASSUME NEW r \in Runtimes, Annotate(r)
        PROVE  ReloadInv' /\ SpecsGrow
    <2> DEFINE o == [rt[r] EXCEPT !.force = TRUE, !.spec = wlist[r].spec]
    <2>1. CASE Write(r, o) /\ versionMatches(r) /\ fresh' = [fresh EXCEPT ![r] = FALSE]
               /\ UNCHANGED wfailed
      <3>1. wlist[r].spec = rt[r].spec
        BY <2>1 DEF CopyIsCurrent, versionMatches
      <3>2. rt[r] \in Runtime /\ rt[r].spec \in 0..MaxSpec /\ rt[r].spec \in Nat
        BY FieldTypes DEF TypeOK
      <3>6. o \in Runtime
        BY <3>1, <3>2, ForceExcept
      <3>3. o \in Runtime /\ o.spec >= rt[r].spec
        BY <3>1, <3>2, <3>6 DEF Runtime
      <3>4. UNCHANGED wlist
        BY <1>9 DEF Annotate
      <3>5. TypeOK'
        BY <1>9, <2>1, <3>3, <3>4, WriteLemma DEF Annotate, TypeOK
      <3> QED
        BY <2>1, <3>3, <3>4, <3>5, WriteLemma, Written
    <2>2. CASE UNCHANGED <<rtVars, fresh, wfresh>> /\ wfailed' = TRUE
      <3>1. UNCHANGED <<rt, wlist, wfresh>>
        BY <1>9, <2>2 DEF Annotate, rtVars
      <3>2. TypeOK'
        BY <1>9, <2>2 DEF Annotate, TypeOK, rtVars
      <3> QED
        BY <3>1, <3>2, Unwritten
    <2> QED
      BY <1>9, <2>1, <2>2 DEF Annotate
  <1>10. ASSUME NEW r \in Runtimes, Reconcile(r)
        PROVE  ReloadInv' /\ SpecsGrow
    <2>1. UNCHANGED <<rt, wlist, wfresh>>
      BY <1>10 DEF Reconcile, rtVars, watcherVars
    <2>2. TypeOK'
      BY <1>10 DEF Reconcile, TypeOK, rtVars, fsmVars, watcherVars, Goto
    <2> QED
      BY <2>1, <2>2, Unwritten
  <1>11. ASSUME NEW r \in Runtimes, Convert(r)
        PROVE  ReloadInv' /\ SpecsGrow
    <2>1. UNCHANGED <<rt, wlist, wfresh>>
      BY <1>11 DEF Convert, rtVars, watcherVars
    <2>2. next' \in [Runtimes -> States] /\ acl' \in [Runtimes -> 0..MaxConfig]
      BY <1>11 DEF Convert, Finish, TypeOK, Objects, States
    <2>3. TypeOK'
      BY <1>11, <2>2 DEF Convert, Finish, TypeOK, rtVars, fsmVars, watcherVars, Goto
    <2> QED
      BY <2>1, <2>3, Unwritten
  <1>12. ASSUME NEW r \in Runtimes, Patch(r)
        PROVE  ReloadInv' /\ SpecsGrow
    <2>0. inst[r].spec \in 0..MaxSpec /\ acl[r] \in 0..MaxConfig /\ 0 \in 0..MaxConfig
      BY FieldTypes, ScenarioTypes DEF TypeOK
    <2>3. applied' \in [Runtimes -> [acl: 0..MaxConfig, boot: 0..MaxConfig, spec: 0..MaxSpec]]
      <3>1. CASE applied' = [applied EXCEPT ![r].acl = acl[r], ![r].spec = inst[r].spec]
        <4>1. applied \in [Runtimes -> [acl: 0..MaxConfig, boot: 0..MaxConfig, spec: 0..MaxSpec]]
          BY DEF TypeOK
        <4>2. [applied[r] EXCEPT !.acl = acl[r], !.spec = inst[r].spec]
                \in [acl: 0..MaxConfig, boot: 0..MaxConfig, spec: 0..MaxSpec]
          BY <2>0, <4>1
        <4>3. applied' = [applied EXCEPT ![r] = [applied[r] EXCEPT !.acl = acl[r], !.spec = inst[r].spec]]
          BY <3>1, <4>1
        <4> QED
          BY <4>1, <4>2, <4>3
      <3>2. CASE UNCHANGED applied
        BY <3>2 DEF TypeOK
      <3> QED
        BY <1>12, <3>1, <3>2 DEF Patch
    <2>1. UNCHANGED <<rt, wlist, wfresh>>
      BY <1>12 DEF Patch, rtVars, watcherVars
    <2>4. next' \in [Runtimes -> States]
      BY <1>12 DEF Patch, Finish, TypeOK, States
    <2>2. TypeOK'
      BY <1>12, <2>0, <2>3, <2>4 DEF Patch, Finish, TypeOK, rtVars, fsmVars, watcherVars, Goto
    <2> QED
      BY <2>1, <2>2, Unwritten
  <1>13. ASSUME NEW r \in Runtimes, handleForceReconciliationAnnotation(r)
         PROVE  ReloadInv' /\ SpecsGrow
    <2> DEFINE o == [rt[r] EXCEPT !.force = FALSE]
    <2>1. CASE Write(r, o) /\ AfterPatch(r) /\ UNCHANGED queued
      <3>1. rt[r] \in Runtime /\ rt[r].spec \in Nat
        BY FieldTypes DEF TypeOK
      <3>5. o \in Runtime
        BY <3>1, ForceExcept, FieldTypes
      <3>2. o \in Runtime /\ o.spec >= rt[r].spec
        BY <3>1, <3>5 DEF Runtime
      <3>3. UNCHANGED wlist
        BY <1>13 DEF handleForceReconciliationAnnotation
      <3>4. TypeOK'
        BY <1>13, <2>1, <3>2, <3>3, WriteLemma
           DEF handleForceReconciliationAnnotation, AfterPatch, Finish, Goto, TypeOK, States
      <3> QED
        BY <2>1, <3>2, <3>3, <3>4, WriteLemma, Written
    <2>2. CASE UNCHANGED <<rtVars, wfresh>>
      <3>1. UNCHANGED <<rt, wlist, wfresh>>
        BY <1>13, <2>2 DEF handleForceReconciliationAnnotation, rtVars
      <3>2. pc' \in [Runtimes -> {"idle", "convert", "patch", "unforce", "bootstrapper", "status"}]
            /\ next' \in [Runtimes -> States]
            /\ queued' \in [Runtimes -> BOOLEAN]
        BY <1>13 DEF handleForceReconciliationAnnotation, AfterPatch, Finish, Goto, TypeOK, States
      <3>3. TypeOK'
        BY <1>13, <2>2, <3>2 DEF handleForceReconciliationAnnotation, TypeOK, rtVars
      <3> QED
        BY <3>1, <3>3, Unwritten
    <2> QED
      BY <1>13, <2>1, <2>2 DEF handleForceReconciliationAnnotation
  <1>14. ASSUME NEW r \in Runtimes, WaitForKubeconfig(r)
        PROVE  ReloadInv' /\ SpecsGrow
    <2>0. Old \in Runtime
      BY ReloadAssumption DEF Old, Runtime, States, ReloadAssumption
    <2>1. UNCHANGED <<rt, wlist, wfresh>>
      BY <1>14 DEF WaitForKubeconfig, rtVars, watcherVars
    <2>2. TypeOK'
      BY <1>14, <2>0 DEF WaitForKubeconfig, TypeOK, rtVars, fsmVars, watcherVars, Goto
    <2> QED
      BY <2>1, <2>2, Unwritten
  <1>15. ASSUME NEW r \in Runtimes, ConfigureBootstrapper(r)
        PROVE  ReloadInv' /\ SpecsGrow
    <2>1. UNCHANGED <<rt, wlist, wfresh>>
      BY <1>15 DEF ConfigureBootstrapper, rtVars, watcherVars
    <2>2. TypeOK'
      <3>1. config["boot"] \in 0..MaxConfig
        BY DEF TypeOK, Objects
      <3>2. applied' \in [Runtimes -> [acl: 0..MaxConfig, boot: 0..MaxConfig, spec: 0..MaxSpec]]
        <4>1. applied \in [Runtimes -> [acl: 0..MaxConfig, boot: 0..MaxConfig, spec: 0..MaxSpec]]
          BY DEF TypeOK
        <4>2. UNCHANGED applied \/ applied' = [applied EXCEPT ![r].boot = config["boot"]]
          BY <1>15 DEF ConfigureBootstrapper, bootstrapperConfig
        <4> QED
          BY <3>1, <4>1, <4>2
      <3> QED
        BY <1>15, <3>2 DEF ConfigureBootstrapper, Finish, TypeOK, States, rtVars, watcherVars, Goto
    <2> QED
      BY <2>1, <2>2, Unwritten
  <1>16. ASSUME NEW r \in Runtimes, UpdateStatus(r)
         PROVE  ReloadInv' /\ SpecsGrow
    <2> DEFINE o == [rt[r] EXCEPT !.state = next[r]]
    <2>0. Old \in Runtime
      BY ReloadAssumption DEF Old, Runtime, States, ReloadAssumption
    <2>1. timer' \in [Runtimes -> BOOLEAN] /\ queued' \in [Runtimes -> BOOLEAN]
      BY <1>16 DEF UpdateStatus, TypeOK, requeueAfter
    <2>2. CASE Write(r, o)
      <3>1. rt[r] \in Runtime /\ rt[r].spec \in Nat /\ next[r] \in States
        BY FieldTypes DEF TypeOK
      <3>2. o \in Runtime /\ o.spec >= rt[r].spec
        BY <3>1 DEF Runtime
      <3>3. UNCHANGED wlist
        BY <1>16 DEF UpdateStatus
      <3>4. TypeOK'
        BY <1>16, <2>0, <2>1, <2>2, <3>2, <3>3, WriteLemma DEF UpdateStatus, Goto, TypeOK, States
      <3> QED
        BY <2>2, <3>2, <3>3, <3>4, WriteLemma, Written
    <2>3. CASE UNCHANGED <<rtVars, wfresh>>
      <3>1. UNCHANGED <<rt, wlist, wfresh>>
        BY <1>16, <2>3 DEF UpdateStatus, rtVars
      <3>2. TypeOK'
        BY <1>16, <2>0, <2>1, <2>3 DEF UpdateStatus, Goto, TypeOK, States, rtVars
      <3> QED
        BY <3>1, <3>2, Unwritten
    <2> QED
      BY <1>16, <2>2, <2>3 DEF UpdateStatus
  <1> QED
    BY <1>1, <1>2, <1>3, <1>4, <1>5, <1>6, <1>7, <1>8, <1>9, <1>10, <1>11, <1>12, <1>13,
       <1>14, <1>15, <1>16 DEF Next

LEMMA StutterInv ==
    ASSUME ReloadInv, UNCHANGED vars
    PROVE  ReloadInv' /\ SpecsGrow
  <1>1. UNCHANGED <<rt, wlist, wfresh>>
    BY DEF vars, rtVars, watcherVars
  <1>2. TypeOK'
    BY DEF ReloadInv, TypeOK, vars, rtVars, fsmVars, watcherVars
  <1> QED
    BY <1>1, <1>2, Unwritten DEF ReloadInv

\* TypeOK holds in every reachable state, and so does CopyIsCurrent: whichever way
\* the watcher's loop and the controller's and the users' writes interleave.
THEOREM ReloadInvariance == Spec => [](TypeOK /\ CopyIsCurrent)
  <1>1. Init => ReloadInv
    BY InitInv
  <1>2. ReloadInv /\ [Next]_vars => ReloadInv'
    BY StepInv, StutterInv
  <1>3. ReloadInv => TypeOK /\ CopyIsCurrent
    BY DEF ReloadInv
  <1> QED
    BY <1>1, <1>2, <1>3, PTL DEF Spec

\* The forced apply of a whole listed Runtime never takes back an edit.
THEOREM EditsAreKeptAlways == Spec => EditsAreKept
  <1>1. ReloadInv /\ [Next]_vars => [\A r \in Runtimes : rt'[r].spec >= rt[r].spec]_vars
    BY StepInv DEF SpecsGrow
  <1>2. TypeOK /\ CopyIsCurrent => ReloadInv
    BY DEF ReloadInv
  <1> QED
    BY <1>1, <1>2, ReloadInvariance, PTL DEF Spec, EditsAreKept

-----------------------------------------------------------------------------
(* Nothing is forgotten.                                                     *)

\* Something makes the controller look at r.
Due(r) == queued[r] \/ timer[r] \/ event[r]

\* Users edit only the Runtimes of the scenario, and the watcher annotates no others.
Untouched(r) ==
    r \notin scenario.runtimes =>
        /\ rt[r] = Old /\ cache[r] = Old /\ applied[r].spec = 0
        /\ pc[r] = "idle" /\ ~Due(r)

\* Specs reach the shoot by way of the cache and the reconciliation.
Order(r) ==
    /\ applied[r].spec <= cache[r].spec /\ inst[r].spec <= cache[r].spec /\ cache[r].spec <= rt[r].spec
    /\ pc[r] # "idle" => applied[r].spec <= inst[r].spec

\* What the cache does not have yet is announced by an event or a timer.
Lag(r) ==
    /\ ~event[r] => cache[r].force = rt[r].force /\ cache[r].spec = rt[r].spec
    /\ cache[r].state # "Pending" /\ rt[r].state = "Pending" => timer[r]

\* A Runtime that is Pending is reconciled again.
PendingIsDue(r) ==
    rt[r].state = "Pending" => /\ pc[r] = "idle" => Due(r)
                               /\ pc[r] # "idle" /\ inst[r].state # "Pending" => Due(r)

\* A reconciliation that read Failed has not to make r Failed again.
FailedSeen(r) == inst[r].state = "Failed" => rt[r].state = "Failed"

\* How far the annotation and the spec have got, if nothing new has come up; a
\* Runtime that is Failed is left as it is.
Stage(r) ==
    ~Due(r) =>
        /\ pc[r] \in {"convert", "patch"} =>
             inst[r].spec = rt[r].spec /\ inst[r].force = rt[r].force /\ FailedSeen(r)
        /\ pc[r] = "unforce" => applied[r].spec = rt[r].spec /\ inst[r].force = rt[r].force
        /\ pc[r] = "bootstrapper" => applied[r].spec = rt[r].spec /\ ~rt[r].force
        /\ pc[r] = "idle" => rt[r].state = "Failed" \/ (applied[r].spec = rt[r].spec /\ ~rt[r].force)
        /\ pc[r] = "status" => \/ next[r] = "Pending"
                               \/ next[r] = "Failed" /\ FailedSeen(r)
                               \/ applied[r].spec = rt[r].spec /\ ~rt[r].force

\* What waits of a Ready Runtime is not behind a status that the cache has not got.
ReadySeen(r) ==
    rt[r].state = "Ready" /\ ~event[r] /\ (rt[r].force \/ applied[r].spec # rt[r].spec) =>
        cache[r].state = "Ready"

\* Only failing calls make a Runtime Failed.
FailedByFault(r) == "Failed" \in {rt[r].state, next[r]} => Fault

-----------------------------------------------------------------------------
(* The bootstrapper's configuration.                                         *)

\* A copy that has the current resourceVersion is as the Runtime is.
Current(r) ==
    fresh[r] /\ pc[r] # "idle" =>
        /\ inst[r].state = rt[r].state /\ inst[r].spec = rt[r].spec
        /\ pc[r] \in {"convert", "patch", "unforce"} => inst[r].force = rt[r].force
        /\ pc[r] \in {"unforce", "bootstrapper"} => applied[r].spec = rt[r].spec
        /\ pc[r] = "bootstrapper" => ~rt[r].force
        /\ pc[r] = "status" => next[r] # "Ready" \/ (applied[r].spec = rt[r].spec /\ ~rt[r].force)

\* The spec of a Ready Runtime that is not applied yet was the last thing written.
LastWritten(r) ==
    ~rt[r].force /\ rt[r].state = "Ready" /\ applied[r].spec # rt[r].spec =>
        /\ cache[r].spec = rt[r].spec => cache[r] = rt[r] /\ ~event[r]
        /\ pc[r] \in {"convert", "patch"} /\ inst[r].spec = rt[r].spec => fresh[r]

\* A reconciliation is bound to configure the bootstrapper of r, or r is Failed.
Owed(r) ==
    \/ rt[r].force
    \/ applied[r].spec # rt[r].spec
    \/ rt[r].state # "Ready" /\ ~(pc[r] = "status" /\ next[r] = "Ready")
    \/ fresh[r] /\ (pc[r] \in {"unforce", "bootstrapper"} \/ (pc[r] = "status" /\ next[r] # "Ready"))

\* The watcher is bound to have r annotated.
Announced(r) ==
    \/ seen["boot"] # config["boot"]
    \/ "boot" \in wqueue
    \/ wobj = "boot" /\ (wfailed \/ r \in wleft)

Lossless == {"kubeconfig", "restart", "status"} \cap scenario.trouble = {}

SeenInv == \A o \in Objects : seen[o] <= config[o]

RuntimeInv(r) ==
    /\ Untouched(r) /\ Order(r) /\ Lag(r) /\ PendingIsDue(r) /\ Stage(r) /\ Current(r)
    /\ LastWritten(r) /\ ReadySeen(r) /\ FailedByFault(r)

WorkInv == SeenInv /\ wleft \subseteq scenario.runtimes /\ \A r \in Runtimes : RuntimeInv(r)

BootInv ==
    Lossless => \A r \in scenario.runtimes : applied[r].boot # config["boot"] => Announced(r) \/ Owed(r)

-----------------------------------------------------------------------------
(* Steps that concern one Runtime.                                           *)

Same(q) ==
    /\ rt'[q] = rt[q] /\ cache'[q] = cache[q] /\ event'[q] = event[q]
    /\ queued'[q] = queued[q] /\ timer'[q] = timer[q] /\ pc'[q] = pc[q] /\ inst'[q] = inst[q]
    /\ fresh'[q] = fresh[q] /\ next'[q] = next[q] /\ applied'[q] = applied[q]

\* A step of r, whose bootstrapper is configured, or still will be.
StepOf(r) ==
    /\ \A q \in Runtimes : q # r => Same(q)
    /\ RuntimeInv(r)'
    /\ Lossless /\ Owed(r) => Owed(r)' \/ applied'[r].boot = config["boot"]
    /\ applied'[r].boot \in {applied[r].boot, config["boot"]}

LEMMA SameRuntime ==
    ASSUME NEW q \in Runtimes, RuntimeInv(q), Same(q), scenario' = scenario
    PROVE  RuntimeInv(q)' /\ (Owed(q) => Owed(q)')
  <1>1. Untouched(q)' /\ Order(q)' /\ Lag(q)'
    BY DEF RuntimeInv, Untouched, Order, Lag, Due, Same
  <1>2. PendingIsDue(q)' /\ Stage(q)'
    BY DEF RuntimeInv, PendingIsDue, Stage, FailedSeen, Due, Same
  <1>3. Current(q)' /\ LastWritten(q)'
    BY DEF RuntimeInv, Current, LastWritten, Same
  <1>4. ReadySeen(q)' /\ FailedByFault(q)'
    BY DEF RuntimeInv, ReadySeen, FailedByFault, Fault, Same
  <1>5. Owed(q) => Owed(q)'
    BY DEF Owed, Same
  <1> QED
    BY <1>1, <1>2, <1>3, <1>4, <1>5 DEF RuntimeInv

LEMMA Fields ==
    ASSUME TypeOK, NEW r \in Runtimes
    PROVE  /\ rt[r] \in Runtime /\ cache[r] \in Runtime /\ inst[r] \in Runtime
           /\ {rt[r].spec, cache[r].spec, inst[r].spec, applied[r].spec} \subseteq Nat
           /\ {rt[r].force, cache[r].force, inst[r].force} \subseteq BOOLEAN
           /\ {rt[r].state, cache[r].state, inst[r].state, next[r]} \subseteq States
           /\ {event[r], queued[r], timer[r], fresh[r]} \subseteq BOOLEAN
           /\ pc[r] \in {"idle", "convert", "patch", "unforce", "bootstrapper", "status"}
  <1>1. rt[r] \in Runtime /\ cache[r] \in Runtime /\ inst[r] \in Runtime
    BY DEF TypeOK
  <1>2. {rt[r].spec, cache[r].spec, inst[r].spec} \subseteq Nat
    BY <1>1, FieldTypes
  <1>3. applied[r].spec \in Nat
    BY DEF TypeOK
  <1>4. {rt[r].force, cache[r].force, inst[r].force} \subseteq BOOLEAN
        /\ {rt[r].state, cache[r].state, inst[r].state} \subseteq States
    BY <1>1 DEF Runtime
  <1> QED
    BY <1>1, <1>2, <1>3, <1>4 DEF TypeOK

\* A write, field by field.
Writes(r, force, spec, state) ==
    /\ rt'[r].force = force /\ rt'[r].spec = spec /\ rt'[r].state = state /\ cache' = cache
    /\ event'[r] <=> (event[r] \/ force # rt[r].force \/ spec # rt[r].spec)
    /\ \A q \in Runtimes : q # r => rt'[q] = rt[q] /\ event'[q] = event[q]

LEMMA WriteFields ==
    ASSUME TypeOK, NEW r \in Runtimes, NEW o, Write(r, o)
    PROVE  Writes(r, o.force, o.spec, o.state)
  <1>1. rt' = [rt EXCEPT ![r] = o] /\ cache' = cache
        /\ event' = [event EXCEPT ![r] = @ \/ <<o.force, o.spec>> # <<rt[r].force, rt[r].spec>>]
    BY DEF Write
  <1>2. rt \in [Runtimes -> Runtime] /\ event \in [Runtimes -> BOOLEAN]
    BY DEF TypeOK
  <1>3. rt'[r] = o /\ \A q \in Runtimes : q # r => rt'[q] = rt[q] /\ event'[q] = event[q]
    BY <1>1, <1>2
  <1>4. event'[r] = (event[r] \/ <<o.force, o.spec>> # <<rt[r].force, rt[r].spec>>)
    BY <1>1, <1>2
  <1>5. <<o.force, o.spec>> # <<rt[r].force, rt[r].spec>> <=> (o.force # rt[r].force \/ o.spec # rt[r].spec)
    OBVIOUS
  <1> QED
    BY <1>1, <1>3, <1>4, <1>5 DEF Writes

\* An edit is announced by its event; whoever holds a copy fails to write.
LEMMA EditStep ==
    ASSUME TypeOK, NEW r \in Runtimes, RuntimeInv(r), EditRuntime(r)
    PROVE  StepOf(r)
  <1>1. /\ r \in scenario.runtimes /\ Write(r, [rt[r] EXCEPT !.spec = @ + 1])
        /\ fresh' = [fresh EXCEPT ![r] = FALSE]
        /\ UNCHANGED <<scenario, config, queued, timer, pc, inst, next, applied>>
    BY DEF EditRuntime
  <1>2. rt[r] \in Runtime /\ rt[r].spec \in Nat
    BY Fields
  <1>3. Writes(r, rt[r].force, rt[r].spec + 1, rt[r].state)
    <2> DEFINE o == [rt[r] EXCEPT !.spec = @ + 1]
    <2>1. o.force = rt[r].force /\ o.spec = rt[r].spec + 1 /\ o.state = rt[r].state
      BY <1>2 DEF Runtime
    <2>2. Writes(r, o.force, o.spec, o.state)
      BY <1>1, WriteFields
    <2> QED
      BY <2>1, <2>2
  <1>4. fresh'[r] = FALSE /\ \A q \in Runtimes : q # r => fresh'[q] = fresh[q]
    BY <1>1 DEF TypeOK
  <1>5. \A q \in Runtimes : q # r => Same(q)
    BY <1>1, <1>3, <1>4 DEF Writes, Same
  <1>6. Due(r)' /\ rt'[r].spec # applied[r].spec /\ rt'[r].spec > inst[r].spec /\ rt'[r].spec > cache[r].spec
        /\ event'[r]
    BY <1>2, <1>3, Fields DEF Writes, Due, RuntimeInv, Order
  <1>7. Untouched(r)' /\ Lag(r)' /\ PendingIsDue(r)' /\ Stage(r)' /\ ReadySeen(r)'
    BY <1>1, <1>3, <1>6 DEF RuntimeInv, Writes, Untouched, Lag, PendingIsDue, Stage, ReadySeen
  <1>10. FailedByFault(r)'
    BY <1>1, <1>3 DEF RuntimeInv, Writes, FailedByFault, Fault
  <1>8. Order(r)'
    BY <1>1, <1>2, <1>3, Fields DEF RuntimeInv, Writes, Order
  <1>9. Current(r)' /\ LastWritten(r)' /\ Owed(r)'
    BY <1>1, <1>3, <1>4, <1>6, Fields DEF Writes, Current, LastWritten, Owed
  <1> QED
    BY <1>1, <1>5, <1>7, <1>8, <1>9, <1>10 DEF StepOf, RuntimeInv

\* The event becomes a request.
LEMMA CacheSyncStep ==
    ASSUME TypeOK, NEW r \in Runtimes, RuntimeInv(r), CacheSync(r)
    PROVE  StepOf(r)
  <1>1. /\ cache[r] # rt[r] \/ event[r]
        /\ cache' = [cache EXCEPT ![r] = rt[r]] /\ queued' = [queued EXCEPT ![r] = @ \/ event[r]]
        /\ event' = [event EXCEPT ![r] = FALSE]
        /\ UNCHANGED <<scenario, config, rt, timer, pc, inst, fresh, next, applied>>
    BY DEF CacheSync
  <1>2. cache'[r] = rt[r] /\ (queued'[r] <=> (queued[r] \/ event[r])) /\ ~event'[r]
    BY <1>1 DEF TypeOK
  <1>3. \A q \in Runtimes : q # r => Same(q)
    BY <1>1 DEF TypeOK, Same
  <1>4. Due(r)' <=> Due(r)
    BY <1>1, <1>2 DEF Due
  <1>5. r \in scenario.runtimes
    BY <1>1 DEF RuntimeInv, Untouched, Due
  <1>6. Untouched(r)' /\ Order(r)' /\ Lag(r)'
    BY <1>1, <1>2, <1>5, Fields DEF RuntimeInv, Untouched, Order, Lag
  <1>7. PendingIsDue(r)' /\ Stage(r)' /\ Current(r)'
    BY <1>1, <1>4 DEF RuntimeInv, PendingIsDue, Stage, FailedSeen, Current
  <1>8. LastWritten(r)' /\ (Owed(r)' <=> Owed(r))
    BY <1>1, <1>2 DEF RuntimeInv, LastWritten, Owed
  <1>9. ReadySeen(r)' /\ FailedByFault(r)'
    BY <1>1, <1>2 DEF RuntimeInv, ReadySeen, FailedByFault, Fault
  <1> QED
    BY <1>1, <1>3, <1>6, <1>7, <1>8, <1>9 DEF StepOf, RuntimeInv

LEMMA TimerFiresStep ==
    ASSUME TypeOK, NEW r \in Runtimes, RuntimeInv(r), TimerFires(r)
    PROVE  StepOf(r)
  <1>1. /\ timer[r] /\ cache[r] = rt[r]
        /\ timer' = [timer EXCEPT ![r] = FALSE] /\ queued' = [queued EXCEPT ![r] = TRUE]
        /\ UNCHANGED <<scenario, config, rt, cache, event, pc, inst, fresh, next, applied>>
    BY DEF TimerFires, rtVars
  <1>2. queued'[r] /\ Due(r)' /\ Due(r)
    BY <1>1 DEF TypeOK, Due
  <1>3. \A q \in Runtimes : q # r => Same(q)
    BY <1>1 DEF TypeOK, Same
  <1>4. r \in scenario.runtimes
    BY <1>2 DEF RuntimeInv, Untouched
  <1>5. Untouched(r)' /\ Order(r)' /\ Lag(r)'
    BY <1>1, <1>4, Fields DEF RuntimeInv, Untouched, Order, Lag
  <1>6. PendingIsDue(r)' /\ Stage(r)' /\ Current(r)'
    BY <1>1, <1>2 DEF RuntimeInv, PendingIsDue, Stage, Current
  <1>7. LastWritten(r)' /\ (Owed(r)' <=> Owed(r))
    BY <1>1 DEF RuntimeInv, LastWritten, Owed
  <1>8. ReadySeen(r)' /\ FailedByFault(r)'
    BY <1>1 DEF RuntimeInv, ReadySeen, FailedByFault, Fault
  <1> QED
    BY <1>1, <1>3, <1>5, <1>6, <1>7, <1>8 DEF StepOf, RuntimeInv

\* The annotation is set, and announced if it was not there.
LEMMA AnnotateStep ==
    ASSUME ReloadInv, WorkInv, NEW r \in Runtimes, Annotate(r)
    PROVE  StepOf(r) /\ (Owed(r)' \/ wfailed') /\ (wfailed => wfailed')
  <1>1. TypeOK /\ CopyIsCurrent /\ RuntimeInv(r) /\ r \in scenario.runtimes
    BY DEF ReloadInv, WorkInv, Annotate
  <1>2. UNCHANGED <<scenario, config, queued, timer, pc, inst, next, applied>>
    BY DEF Annotate
  <1>3. CASE /\ versionMatches(r) /\ fresh' = [fresh EXCEPT ![r] = FALSE] /\ UNCHANGED wfailed
             /\ Write(r, [rt[r] EXCEPT !.force = TRUE, !.spec = wlist[r].spec])
    <2>1. rt[r] \in Runtime /\ rt[r].spec \in Nat
      BY <1>1, Fields
    <2>2. Writes(r, TRUE, rt[r].spec, rt[r].state)
      <3> DEFINE o == [rt[r] EXCEPT !.force = TRUE, !.spec = wlist[r].spec]
      <3>1. o.force = TRUE /\ o.spec = wlist[r].spec /\ o.state = rt[r].state
        BY <2>1 DEF Runtime
      <3>2. Writes(r, o.force, o.spec, o.state)
        BY <1>1, <1>3, WriteFields
      <3>3. wlist[r].spec = rt[r].spec
        BY <1>1, <1>3 DEF CopyIsCurrent, versionMatches
      <3> QED
        BY <3>1, <3>2, <3>3
    <2>3. fresh'[r] = FALSE /\ \A q \in Runtimes : q # r => fresh'[q] = fresh[q]
      BY <1>1, <1>3 DEF TypeOK
    <2>4. \A q \in Runtimes : q # r => Same(q)
      BY <1>2, <2>2, <2>3 DEF Writes, Same
    <2>5. (Due(r) => Due(r)') /\ (~Due(r)' => rt[r].force = TRUE)
      BY <1>1, <1>2, <2>2, Fields DEF Writes, Due
    <2>6. rt'[r].force = TRUE /\ rt'[r].spec = rt[r].spec /\ rt'[r].state = rt[r].state /\ cache' = cache
          /\ (~event'[r] => ~event[r] /\ rt[r].force = TRUE)
      BY <1>1, <2>2, Fields DEF Writes
    <2>7. Untouched(r)' /\ Order(r)' /\ Lag(r)'
      BY <1>1, <1>2, <2>6 DEF RuntimeInv, Untouched, Order, Lag
    <2>8. PendingIsDue(r)' /\ Stage(r)'
      BY <1>1, <1>2, <2>5, <2>6 DEF RuntimeInv, PendingIsDue, Stage, FailedSeen
    <2>9. Current(r)' /\ LastWritten(r)' /\ Owed(r)'
      BY <2>3, <2>6 DEF Current, LastWritten, Owed
    <2>10. ReadySeen(r)' /\ FailedByFault(r)'
      BY <1>1, <1>2, <2>6 DEF RuntimeInv, ReadySeen, FailedByFault, Fault
    <2> QED
      BY <1>2, <1>3, <2>4, <2>7, <2>8, <2>9, <2>10 DEF StepOf, RuntimeInv
  <1>4. CASE wfailed' = TRUE /\ UNCHANGED <<rtVars, fresh, wfresh>>
    <2>1. \A q \in Runtimes : Same(q)
      BY <1>2, <1>4 DEF Same, rtVars
    <2>2. RuntimeInv(r)' /\ (Owed(r) => Owed(r)')
      BY <1>1, <1>2, <2>1, SameRuntime
    <2> QED
      BY <1>2, <1>4, <2>1, <2>2 DEF StepOf
  <1> QED
    BY <1>3, <1>4 DEF Annotate

\* A request is answered unless nothing is left to do.
LEMMA ReconcileStep ==
    ASSUME TypeOK, NEW r \in Runtimes, RuntimeInv(r), Reconcile(r)
    PROVE  StepOf(r)
  <1>1. PICK s \in IF cache[r].force \/ applied[r].spec < cache[r].spec THEN {"convert"}
                   ELSE IF cache[r].state = "Pending" THEN {"bootstrapper"}
                   ELSE {"bootstrapper", "idle"} :
           /\ pc[r] = "idle" /\ queued[r]
           /\ pc' = [pc EXCEPT ![r] = s] /\ queued' = [queued EXCEPT ![r] = FALSE]
           /\ inst' = [inst EXCEPT ![r] = cache[r]]
           /\ fresh' = [fresh EXCEPT ![r] = cache[r] = rt[r] /\ ~event[r]]
           /\ UNCHANGED <<scenario, config, rt, cache, event, timer, next, applied>>
    BY DEF Reconcile, Goto, rtVars
  <1>2. /\ pc'[r] = s /\ inst'[r] = cache[r] /\ ~queued'[r]
        /\ (fresh'[r] <=> (cache[r] = rt[r] /\ ~event[r]))
    BY <1>1 DEF TypeOK
  <1>3. \A q \in Runtimes : q # r => Same(q)
    BY <1>1 DEF TypeOK, Same
  <1>4. /\ s \in {"convert", "bootstrapper", "idle"}
        /\ s # "convert" => ~cache[r].force /\ cache[r].spec <= applied[r].spec
        /\ s = "idle" => cache[r].state # "Pending"
    BY <1>1, Fields
  <1>5. r \in scenario.runtimes
    BY <1>1 DEF RuntimeInv, Untouched, Due
  <1>6. Untouched(r)' /\ Order(r)' /\ Lag(r)'
    BY <1>1, <1>2, <1>5, Fields DEF RuntimeInv, Untouched, Order, Lag
  <1>7. cache[r].state # "Pending" /\ rt[r].state = "Pending" => timer[r]
    BY Fields DEF RuntimeInv, Lag
  <1>8. PendingIsDue(r)'
    BY <1>1, <1>2, <1>4, <1>7 DEF PendingIsDue, Due
  <1>9. s # "convert" /\ (~event[r] \/ cache[r].spec = rt[r].spec) => applied[r].spec = rt[r].spec
    BY <1>4, Fields DEF RuntimeInv, Order, Lag
  <1>10. Stage(r)'
    <2>1. ASSUME ~Due(r)'
          PROVE  /\ ~event[r] /\ ~timer[r]
                 /\ cache[r].force = rt[r].force /\ cache[r].spec = rt[r].spec
      BY <1>1, <2>1 DEF Due, RuntimeInv, Lag
    <2>2. s = "convert" => cache[r].force \/ applied[r].spec # cache[r].spec
      BY <1>1, Fields
    <2>3. ASSUME ~Due(r)', s = "convert", cache[r].state = "Failed"
          PROVE  rt[r].state = "Failed"
      <3>1. rt[r].state # "Pending"
        BY <1>7, <2>1, <2>3
      <3>2. rt[r].state # "Ready"
        BY <2>1, <2>2, <2>3 DEF RuntimeInv, ReadySeen
      <3> QED
        BY <3>1, <3>2, Fields DEF States
    <2> QED
      BY <1>1, <1>2, <1>4, <1>9, <2>1, <2>3 DEF Stage, FailedSeen
  <1>11. Current(r)'
    BY <1>1, <1>2, <1>4, <1>9 DEF Current
  <1>12. LastWritten(r)'
    BY <1>1, <1>2 DEF RuntimeInv, LastWritten
  <1>13. Owed(r) => Owed(r)'
    BY <1>1, <1>2, <1>4 DEF Owed
  <1>14. ReadySeen(r)' /\ FailedByFault(r)'
    BY <1>1 DEF RuntimeInv, ReadySeen, FailedByFault, Fault
  <1> QED
    BY <1>1, <1>3, <1>6, <1>8, <1>10, <1>11, <1>12, <1>13, <1>14 DEF StepOf, RuntimeInv

\* A step that gives up: nothing but the state is written next.
LEMMA GivenUp ==
    ASSUME TypeOK, NEW r \in Runtimes, RuntimeInv(r), pc[r] \in {"convert", "patch"},
           Fault, NEW state \in {"Pending", "Failed"}, Finish(r, state),
           UNCHANGED <<scenario, config, rt, cache, event, queued, timer, inst, fresh, applied>>
    PROVE  StepOf(r)
  <1>1. /\ pc'[r] = "status" /\ next'[r] = state
        /\ \A q \in Runtimes : q # r => pc'[q] = pc[q] /\ next'[q] = next[q]
    BY DEF Finish, Goto, TypeOK
  <1>2. r \in scenario.runtimes /\ (Due(r)' <=> Due(r))
    BY DEF RuntimeInv, Untouched, Due
  <1>3. \A q \in Runtimes : q # r => Same(q)
    BY <1>1 DEF Same
  <1>4. Untouched(r)' /\ Order(r)' /\ Lag(r)'
    BY <1>1, <1>2 DEF RuntimeInv, Untouched, Order, Lag
  <1>5. PendingIsDue(r)' /\ Stage(r)'
    BY <1>1, <1>2 DEF RuntimeInv, PendingIsDue, Stage, FailedSeen
  <1>6. Current(r)' /\ LastWritten(r)' /\ (Owed(r) => Owed(r)')
    BY <1>1 DEF RuntimeInv, Current, LastWritten, Owed
  <1>7. ReadySeen(r)' /\ FailedByFault(r)'
    BY <1>1 DEF RuntimeInv, ReadySeen, FailedByFault, Fault
  <1> QED
    BY <1>3, <1>4, <1>5, <1>6, <1>7 DEF StepOf, RuntimeInv

LEMMA ConvertStep ==
    ASSUME TypeOK, NEW r \in Runtimes, RuntimeInv(r), Convert(r)
    PROVE  StepOf(r)
  <1>1. /\ pc[r] = "convert"
        /\ UNCHANGED <<scenario, config, rt, cache, event, queued, timer, inst, fresh, applied>>
    BY DEF Convert, rtVars
  <1>2. CASE Goto(r, "patch") /\ UNCHANGED next
    <2>1. pc' = [pc EXCEPT ![r] = "patch"]
      BY <1>2 DEF Goto
    <2>2. pc'[r] = "patch" /\ (Due(r)' <=> Due(r))
      BY <1>1, <2>1 DEF TypeOK, Due
    <2>3. \A q \in Runtimes : q # r => Same(q)
      BY <1>1, <1>2, <2>1 DEF TypeOK, Same
    <2>4. Untouched(r)' /\ Order(r)' /\ Lag(r)'
      BY <1>1, <2>2 DEF RuntimeInv, Untouched, Order, Lag
    <2>5. PendingIsDue(r)' /\ Stage(r)'
      BY <1>1, <2>2 DEF RuntimeInv, PendingIsDue, Stage, FailedSeen
    <2>6. Current(r)' /\ LastWritten(r)' /\ (Owed(r) => Owed(r)')
      BY <1>1, <2>2 DEF RuntimeInv, Current, LastWritten, Owed
    <2>7. ReadySeen(r)' /\ FailedByFault(r)'
      BY <1>1, <1>2 DEF RuntimeInv, ReadySeen, FailedByFault, Fault
    <2> QED
      BY <1>1, <2>3, <2>4, <2>5, <2>6, <2>7 DEF StepOf, RuntimeInv
  <1>3. CASE Fault /\ (Finish(r, "Pending") \/ Finish(r, "Failed"))
    BY <1>1, <1>3, GivenUp
  <1> QED
    BY <1>2, <1>3 DEF Convert

LEMMA PatchStep ==
    ASSUME TypeOK, NEW r \in Runtimes, RuntimeInv(r), Patch(r)
    PROVE  StepOf(r)
  <1>1. pc[r] = "patch" /\ UNCHANGED <<scenario, config, rt, cache, event, queued, timer, inst, fresh>>
    BY DEF Patch, rtVars
  <1>2. r \in scenario.runtimes /\ (Due(r)' <=> Due(r))
    BY <1>1 DEF RuntimeInv, Untouched, Due
  <1> DEFINE patched == applied' = [applied EXCEPT ![r].acl = acl[r], ![r].spec = inst[r].spec]
  <1>3. ASSUME patched
        PROVE  /\ applied'[r].spec = inst[r].spec /\ applied'[r].boot = applied[r].boot
               /\ \A q \in Runtimes : q # r => applied'[q] = applied[q]
               /\ applied[r].spec = rt[r].spec => inst[r].spec = rt[r].spec
               /\ inst[r].spec <= cache[r].spec /\ ReadySeen(r)'
    <2>1. /\ applied'[r].spec = inst[r].spec /\ applied'[r].boot = applied[r].boot
          /\ \A q \in Runtimes : q # r => applied'[q] = applied[q]
      BY <1>3 DEF TypeOK
    <2>2. /\ applied[r].spec = rt[r].spec => inst[r].spec = rt[r].spec
          /\ inst[r].spec <= cache[r].spec
      BY <1>1, Fields DEF RuntimeInv, Order
    <2> QED
      BY <1>1, <2>1, <2>2 DEF RuntimeInv, ReadySeen
  <1>4. CASE Goto(r, "unforce") /\ UNCHANGED next /\ patched
    <2>1. pc'[r] = "unforce" /\ \A q \in Runtimes : q # r => pc'[q] = pc[q]
      BY <1>4 DEF Goto, TypeOK
    <2>2. \A q \in Runtimes : q # r => Same(q)
      BY <1>1, <1>3, <1>4, <2>1 DEF Same
    <2>3. Untouched(r)' /\ Lag(r)' /\ PendingIsDue(r)'
      BY <1>1, <1>2, <2>1 DEF RuntimeInv, Untouched, Lag, PendingIsDue
    <2>4. Order(r)'
      BY <1>1, <1>3, <1>4, <2>1, Fields DEF RuntimeInv, Order
    <2>5. Stage(r)' /\ Current(r)'
      BY <1>1, <1>2, <1>3, <1>4, <2>1 DEF RuntimeInv, Stage, FailedSeen, Current
    <2>6. LastWritten(r)'
      BY <1>1, <1>3, <1>4, <2>1 DEF RuntimeInv, LastWritten
    <2>7. Owed(r) => Owed(r)'
      BY <1>1, <1>3, <1>4, <2>1, Fields DEF RuntimeInv, LastWritten, Owed
    <2>8. FailedByFault(r)'
      BY <1>1, <1>4 DEF RuntimeInv, FailedByFault, Fault
    <2> QED
      BY <1>1, <1>3, <1>4, <2>2, <2>3, <2>4, <2>5, <2>6, <2>7, <2>8 DEF StepOf, RuntimeInv
  <1>5. CASE Fault /\ Finish(r, "Failed") /\ patched
    <2>1. /\ pc'[r] = "status" /\ next'[r] = "Failed"
          /\ \A q \in Runtimes : q # r => pc'[q] = pc[q] /\ next'[q] = next[q]
      BY <1>5 DEF Finish, Goto, TypeOK
    <2>2. \A q \in Runtimes : q # r => Same(q)
      BY <1>1, <1>3, <1>5, <2>1 DEF Same
    <2>3. Untouched(r)' /\ Lag(r)' /\ PendingIsDue(r)'
      BY <1>1, <1>2, <2>1 DEF RuntimeInv, Untouched, Lag, PendingIsDue
    <2>4. Order(r)'
      BY <1>1, <1>3, <1>5, <2>1, Fields DEF RuntimeInv, Order
    <2>5. Stage(r)' /\ Current(r)'
      BY <1>1, <1>2, <2>1 DEF RuntimeInv, Stage, FailedSeen, Current
    <2>6. LastWritten(r)'
      BY <1>1, <1>3, <1>5, <2>1 DEF RuntimeInv, LastWritten
    <2>7. Owed(r) => Owed(r)'
      BY <1>1, <1>3, <1>5, <2>1, Fields DEF RuntimeInv, LastWritten, Owed
    <2>8. FailedByFault(r)'
      BY <1>1, <1>5 DEF RuntimeInv, FailedByFault, Fault
    <2> QED
      BY <1>1, <1>3, <1>5, <2>2, <2>3, <2>4, <2>5, <2>6, <2>7, <2>8 DEF StepOf, RuntimeInv
  <1>6. CASE Fault /\ (Finish(r, "Pending") \/ Finish(r, "Failed")) /\ UNCHANGED applied
    BY <1>1, <1>6, GivenUp
  <1> QED
    BY <1>4, <1>5, <1>6 DEF Patch

\* The shoot is patched: the annotation goes only with a copy of the current Runtime.
LEMMA UnforceStep ==
    ASSUME TypeOK, NEW r \in Runtimes, RuntimeInv(r), handleForceReconciliationAnnotation(r)
    PROVE  StepOf(r)
  <1>1. pc[r] = "unforce" /\ UNCHANGED <<scenario, config, timer, inst, fresh, applied>>
    BY DEF handleForceReconciliationAnnotation
  <1>2. r \in scenario.runtimes
    BY <1>1 DEF RuntimeInv, Untouched
  <1>3. ASSUME AfterPatch(r)
        PROVE  /\ \/ pc'[r] = "bootstrapper" /\ next'[r] = next[r]
                  \/ pc'[r] = "status" /\ next'[r] = "Pending"
               /\ \A q \in Runtimes : q # r => pc'[q] = pc[q] /\ next'[q] = next[q]
    BY <1>3 DEF AfterPatch, Finish, Goto, TypeOK
  <1>4. CASE ~inst[r].force /\ AfterPatch(r) /\ UNCHANGED <<rtVars, queued, wfresh>>
    <2>1. UNCHANGED <<rt, cache, event, queued>>
      BY <1>4 DEF rtVars
    <2>2. Due(r)' <=> Due(r)
      BY <1>1, <2>1 DEF Due
    <2>3. \A q \in Runtimes : q # r => Same(q)
      BY <1>1, <1>3, <1>4, <2>1 DEF Same
    <2>4. Untouched(r)' /\ Order(r)' /\ Lag(r)'
      BY <1>1, <1>2, <1>3, <1>4, <2>1, <2>2 DEF RuntimeInv, Untouched, Order, Lag
    <2>5. PendingIsDue(r)' /\ Stage(r)'
      BY <1>1, <1>3, <1>4, <2>1, <2>2, Fields DEF RuntimeInv, PendingIsDue, Stage
    <2>6. Current(r)' /\ LastWritten(r)' /\ (Owed(r) => Owed(r)')
      BY <1>1, <1>3, <1>4, <2>1, Fields DEF RuntimeInv, Current, LastWritten, Owed
    <2>7. ReadySeen(r)' /\ FailedByFault(r)'
      BY <1>1, <1>3, <1>4, <2>1 DEF RuntimeInv, ReadySeen, FailedByFault, Fault
    <2> QED
      BY <1>1, <2>3, <2>4, <2>5, <2>6, <2>7 DEF StepOf, RuntimeInv
  <1>5. CASE inst[r].force /\ fresh[r] /\ Write(r, [rt[r] EXCEPT !.force = FALSE]) /\ AfterPatch(r) /\ UNCHANGED queued
    <2>1. Writes(r, FALSE, rt[r].spec, rt[r].state)
      <3> DEFINE o == [rt[r] EXCEPT !.force = FALSE]
      <3>1. o.force = FALSE /\ o.spec = rt[r].spec /\ o.state = rt[r].state
        BY Fields DEF Runtime
      <3>2. Writes(r, o.force, o.spec, o.state)
        BY <1>5, WriteFields
      <3> QED
        BY <3>1, <3>2
    <2>2. /\ inst[r].spec = rt[r].spec /\ inst[r].state = rt[r].state /\ applied[r].spec = rt[r].spec
          /\ inst[r].force = rt[r].force
      BY <1>1, <1>5 DEF RuntimeInv, Current
    <2>3. event'[r] /\ cache' = cache /\ rt'[r].force = FALSE /\ rt'[r].spec = rt[r].spec /\ rt'[r].state = rt[r].state
      BY <1>5, <2>1, <2>2 DEF Writes
    <2>4. \A q \in Runtimes : q # r => Same(q)
      BY <1>1, <1>3, <1>5, <2>1 DEF Writes, Same
    <2>5. Due(r)'
      BY <2>3 DEF Due
    <2>6. Untouched(r)' /\ Order(r)' /\ Lag(r)'
      BY <1>1, <1>2, <1>3, <1>5, <2>3 DEF RuntimeInv, Untouched, Order, Lag
    <2>7. PendingIsDue(r)' /\ Stage(r)'
      BY <2>5 DEF PendingIsDue, Stage
    <2>8. Current(r)' /\ LastWritten(r)'
      BY <1>1, <1>3, <1>5, <2>2, <2>3 DEF Current, LastWritten
    <2>9. Owed(r)'
      BY <1>1, <1>3, <1>5 DEF Owed
    <2>10. ReadySeen(r)' /\ FailedByFault(r)'
      BY <1>1, <1>3, <1>5, <2>3 DEF RuntimeInv, ReadySeen, FailedByFault, Fault
    <2> QED
      BY <1>1, <2>4, <2>6, <2>7, <2>8, <2>9, <2>10 DEF StepOf, RuntimeInv
  <1>6. CASE /\ inst[r].force /\ Goto(r, "idle") /\ queued' = [queued EXCEPT ![r] = TRUE]
             /\ UNCHANGED <<rtVars, next, wfresh>>
    <2>1. UNCHANGED <<rt, cache, event, next>> /\ pc'[r] = "idle" /\ queued'[r]
          /\ \A q \in Runtimes : q # r => pc'[q] = pc[q] /\ queued'[q] = queued[q]
      BY <1>6 DEF rtVars, Goto, TypeOK
    <2>2. Due(r)'
      BY <2>1 DEF Due
    <2>3. \A q \in Runtimes : q # r => Same(q)
      BY <1>1, <2>1 DEF Same
    <2>4. Untouched(r)' /\ Order(r)' /\ Lag(r)'
      BY <1>1, <1>2, <2>1 DEF RuntimeInv, Untouched, Order, Lag
    <2>5. PendingIsDue(r)' /\ Stage(r)' /\ Current(r)'
      BY <2>1, <2>2 DEF PendingIsDue, Stage, Current
    <2>6. LastWritten(r)' /\ (Owed(r) => Owed(r)')
      BY <1>1, <1>6, <2>1 DEF RuntimeInv, Current, LastWritten, Owed
    <2>7. ReadySeen(r)' /\ FailedByFault(r)'
      BY <1>1, <2>1 DEF RuntimeInv, ReadySeen, FailedByFault, Fault
    <2> QED
      BY <1>1, <2>3, <2>4, <2>5, <2>6, <2>7 DEF StepOf, RuntimeInv
  <1> QED
    BY <1>4, <1>5, <1>6 DEF handleForceReconciliationAnnotation

LEMMA WaitStep ==
    ASSUME TypeOK, NEW r \in Runtimes, RuntimeInv(r), WaitForKubeconfig(r)
    PROVE  StepOf(r)
  <1>1. /\ "kubeconfig" \in scenario.trouble /\ pc[r] = "bootstrapper" /\ pc' = [pc EXCEPT ![r] = "idle"]
        /\ timer' = [timer EXCEPT ![r] = TRUE]
        /\ inst' = [inst EXCEPT ![r] = Old] /\ fresh' = [fresh EXCEPT ![r] = FALSE]
        /\ UNCHANGED <<scenario, config, rt, cache, event, queued, next, applied>>
    BY DEF WaitForKubeconfig, Goto, rtVars
  <1>2. pc'[r] = "idle" /\ timer'[r] /\ inst'[r] = Old /\ fresh'[r] = FALSE
    BY <1>1 DEF TypeOK
  <1>3. Due(r)' /\ r \in scenario.runtimes /\ Old.spec = 0
    BY <1>1, <1>2 DEF Due, RuntimeInv, Untouched, Old
  <1>4. \A q \in Runtimes : q # r => Same(q)
    BY <1>1 DEF TypeOK, Same
  <1>5. Untouched(r)' /\ Order(r)' /\ Lag(r)'
    BY <1>1, <1>2, <1>3, Fields DEF RuntimeInv, Untouched, Order, Lag
  <1>6. PendingIsDue(r)' /\ Stage(r)' /\ Current(r)'
    BY <1>2, <1>3 DEF PendingIsDue, Stage, Current
  <1>7. LastWritten(r)' /\ ~Lossless
    BY <1>1, <1>2 DEF RuntimeInv, LastWritten, Lossless
  <1>8. ReadySeen(r)' /\ FailedByFault(r)'
    BY <1>1 DEF RuntimeInv, ReadySeen, FailedByFault, Fault
  <1> QED
    BY <1>1, <1>4, <1>5, <1>6, <1>7, <1>8 DEF StepOf, RuntimeInv

LEMMA BootstrapperStep ==
    ASSUME TypeOK, NEW r \in Runtimes, RuntimeInv(r), ConfigureBootstrapper(r)
    PROVE  StepOf(r)
  <1>1. /\ pc[r] = "bootstrapper" /\ pc' = [pc EXCEPT ![r] = "status"]
        /\ UNCHANGED <<scenario, config, rt, cache, event, queued, timer, inst, fresh>>
    BY DEF ConfigureBootstrapper, Finish, Goto, rtVars
  <1>2. pc'[r] = "status" /\ (Due(r)' <=> Due(r)) /\ r \in scenario.runtimes
    BY <1>1 DEF TypeOK, Due, RuntimeInv, Untouched
  <1>3. /\ next'[r] \in {"Ready", "Pending"} /\ \A q \in Runtimes : q # r => next'[q] = next[q]
        /\ applied'[r].spec = applied[r].spec /\ \A q \in Runtimes : q # r => applied'[q] = applied[q]
        /\ \/ applied'[r].boot = config["boot"]
           \/ applied'[r].boot = applied[r].boot /\ next'[r] = "Pending"
    <2>1. CASE Finish(r, "Ready") /\ applied' = [applied EXCEPT ![r].boot = bootstrapperConfig]
      BY <2>1 DEF TypeOK, Finish, bootstrapperConfig
    <2>2. CASE Finish(r, "Pending") /\ UNCHANGED applied
      BY <2>2 DEF TypeOK, Finish
    <2> QED
      BY <2>1, <2>2 DEF ConfigureBootstrapper
  <1>4. \A q \in Runtimes : q # r => Same(q)
    BY <1>1, <1>3 DEF TypeOK, Same
  <1>5. Untouched(r)' /\ Order(r)' /\ Lag(r)'
    BY <1>1, <1>2, <1>3 DEF RuntimeInv, Untouched, Order, Lag
  <1>6. PendingIsDue(r)' /\ Stage(r)'
    BY <1>1, <1>2, <1>3 DEF RuntimeInv, PendingIsDue, Stage
  <1>7. Current(r)' /\ LastWritten(r)'
    BY <1>1, <1>2, <1>3 DEF RuntimeInv, Current, LastWritten
  <1>8. Owed(r) => Owed(r)' \/ applied'[r].boot = config["boot"]
    BY <1>1, <1>2, <1>3 DEF Owed
  <1>9. ReadySeen(r)' /\ FailedByFault(r)'
    BY <1>1, <1>3 DEF RuntimeInv, ReadySeen, FailedByFault, Fault
  <1> QED
    BY <1>1, <1>3, <1>4, <1>5, <1>6, <1>7, <1>8, <1>9 DEF StepOf, RuntimeInv

\* Pending is written with a timer, or with what made the write fail.
LEMMA StatusStep ==
    ASSUME TypeOK, NEW r \in Runtimes, RuntimeInv(r), UpdateStatus(r)
    PROVE  StepOf(r)
  <1>1. /\ pc[r] = "status" /\ pc' = [pc EXCEPT ![r] = "idle"] /\ fresh' = [fresh EXCEPT ![r] = FALSE]
        /\ next' = [next EXCEPT ![r] = "Ready"] /\ inst' = [inst EXCEPT ![r] = Old]
        /\ UNCHANGED <<scenario, config, applied>>
    BY DEF UpdateStatus, Goto
  <1>2. pc'[r] = "idle" /\ fresh'[r] = FALSE /\ next'[r] = "Ready" /\ inst'[r] = Old /\ Old.spec = 0
    BY <1>1 DEF TypeOK, Old
  <1>3. \A q \in Runtimes : q # r => pc'[q] = pc[q] /\ fresh'[q] = fresh[q] /\ next'[q] = next[q] /\ inst'[q] = inst[q]
    BY <1>1 DEF TypeOK
  <1>4. r \in scenario.runtimes
    BY <1>1 DEF RuntimeInv, Untouched
  <1>5. CASE inst[r].state = next[r] /\ UNCHANGED <<rtVars, wfresh>> /\ UNCHANGED queued
             /\ timer' = [timer EXCEPT ![r] = @ \/ requeueAfter(r)]
    <2>1. UNCHANGED <<rt, cache, event, queued>> /\ (timer'[r] <=> (timer[r] \/ next[r] = "Pending"))
          /\ \A q \in Runtimes : q # r => timer'[q] = timer[q]
      BY <1>5 DEF rtVars, TypeOK, requeueAfter
    <2>2. \A q \in Runtimes : q # r => Same(q)
      BY <1>1, <1>3, <2>1 DEF Same
    <2>3. Due(r)' <=> Due(r) \/ next[r] = "Pending"
      BY <2>1 DEF Due
    <2>4. Untouched(r)' /\ Order(r)' /\ Lag(r)'
      BY <1>1, <1>2, <1>4, <2>1, Fields DEF RuntimeInv, Untouched, Order, Lag
    <2>5. PendingIsDue(r)' /\ Stage(r)'
      BY <1>1, <1>2, <1>5, <2>1, <2>3, Fields DEF RuntimeInv, PendingIsDue, Stage, FailedSeen, States
    <2>6. Current(r)' /\ LastWritten(r)'
      BY <1>1, <1>2, <2>1 DEF RuntimeInv, Current, LastWritten
    <2>7. Owed(r) => Owed(r)'
      BY <1>1, <1>2, <1>5, <2>1, Fields DEF RuntimeInv, Current, Owed
    <2>8. ReadySeen(r)' /\ FailedByFault(r)'
      BY <1>1, <1>2, <2>1 DEF RuntimeInv, ReadySeen, FailedByFault, Fault
    <2> QED
      BY <1>1, <2>2, <2>4, <2>5, <2>6, <2>7, <2>8 DEF StepOf, RuntimeInv
  <1>6. CASE fresh[r] /\ Write(r, [rt[r] EXCEPT !.state = next[r]]) /\ UNCHANGED queued
             /\ timer' = [timer EXCEPT ![r] = @ \/ requeueAfter(r)]
    <2>1. Writes(r, rt[r].force, rt[r].spec, next[r])
      <3> DEFINE o == [rt[r] EXCEPT !.state = next[r]]
      <3>1. o.force = rt[r].force /\ o.spec = rt[r].spec /\ o.state = next[r]
        BY Fields DEF Runtime
      <3>2. Writes(r, o.force, o.spec, o.state)
        BY <1>6, WriteFields
      <3> QED
        BY <3>1, <3>2
    <2>2. (timer'[r] <=> (timer[r] \/ next[r] = "Pending")) /\ \A q \in Runtimes : q # r => timer'[q] = timer[q]
      BY <1>6 DEF TypeOK, requeueAfter
    <2>3. \A q \in Runtimes : q # r => Same(q)
      BY <1>1, <1>3, <1>6, <2>1, <2>2 DEF Same, Writes
    <2>4. rt'[r].force = rt[r].force /\ rt'[r].spec = rt[r].spec /\ rt'[r].state = next[r] /\ cache' = cache
          /\ (event'[r] <=> event[r]) /\ queued' = queued
      BY <1>6, <2>1 DEF Writes
    <2>5. Due(r)' <=> Due(r) \/ next[r] = "Pending"
      BY <2>2, <2>4 DEF Due
    <2>6. next[r] # "Ready" \/ (applied[r].spec = rt[r].spec /\ ~rt[r].force)
      BY <1>1, <1>6 DEF RuntimeInv, Current
    <2>7. Untouched(r)' /\ Order(r)' /\ Lag(r)'
      BY <1>1, <1>2, <1>4, <2>2, <2>4, Fields DEF RuntimeInv, Untouched, Order, Lag
    <2>8. PendingIsDue(r)' /\ Stage(r)'
      BY <1>1, <1>2, <2>4, <2>5, Fields DEF RuntimeInv, PendingIsDue, Stage, FailedSeen
    <2>9. Current(r)' /\ LastWritten(r)'
      BY <1>1, <1>2, <2>4, <2>6 DEF Current, LastWritten
    <2>10. Owed(r) => Owed(r)'
      BY <1>1, <1>2, <2>4, Fields DEF Owed
    <2>11. ReadySeen(r)' /\ FailedByFault(r)'
      BY <1>1, <1>2, <2>4, <2>6 DEF RuntimeInv, ReadySeen, FailedByFault, Fault
    <2> QED
      BY <1>1, <2>3, <2>7, <2>8, <2>9, <2>10, <2>11 DEF StepOf, RuntimeInv
  <1>7. CASE /\ ~fresh[r] \/ "status" \in scenario.trouble
             /\ queued' = [queued EXCEPT ![r] = TRUE] /\ UNCHANGED <<rtVars, wfresh, timer>>
    <2>1. UNCHANGED <<rt, cache, event, timer>> /\ queued'[r] /\ \A q \in Runtimes : q # r => queued'[q] = queued[q]
      BY <1>7 DEF rtVars, TypeOK
    <2>2. Due(r)'
      BY <2>1 DEF Due
    <2>3. \A q \in Runtimes : q # r => Same(q)
      BY <1>1, <1>3, <2>1 DEF Same
    <2>4. Untouched(r)' /\ Order(r)' /\ Lag(r)'
      BY <1>1, <1>2, <1>4, <2>1, Fields DEF RuntimeInv, Untouched, Order, Lag
    <2>5. PendingIsDue(r)' /\ Stage(r)' /\ Current(r)'
      BY <1>2, <2>2 DEF PendingIsDue, Stage, Current
    <2>6. LastWritten(r)'
      BY <1>1, <1>2, <2>1 DEF RuntimeInv, LastWritten
    <2>7. Lossless /\ Owed(r) => Owed(r)'
      BY <1>1, <1>2, <1>7, <2>1 DEF Owed, Lossless
    <2>8. ReadySeen(r)' /\ FailedByFault(r)'
      BY <1>1, <1>2, <2>1 DEF RuntimeInv, ReadySeen, FailedByFault, Fault
    <2> QED
      BY <1>1, <2>3, <2>4, <2>5, <2>6, <2>7, <2>8 DEF StepOf, RuntimeInv
  <1> QED
    BY <1>5, <1>6, <1>7 DEF UpdateStatus

-----------------------------------------------------------------------------
(* All steps.                                                                *)

\* A step of one Runtime other than the watcher's.
RuntimeStep(r) ==
    \/ EditRuntime(r) \/ CacheSync(r) \/ TimerFires(r) \/ Reconcile(r) \/ Convert(r) \/ Patch(r)
    \/ handleForceReconciliationAnnotation(r) \/ WaitForKubeconfig(r) \/ ConfigureBootstrapper(r)
    \/ UpdateStatus(r)

LEMMA StepOfWork ==
    ASSUME WorkInv, NEW r \in Runtimes, StepOf(r), UNCHANGED <<scenario, config, seen>>,
           wleft' \subseteq scenario.runtimes
    PROVE  WorkInv'
  <1>1. \A q \in Runtimes : RuntimeInv(q)'
    <2>1. ASSUME NEW q \in Runtimes, q # r
          PROVE  RuntimeInv(q)'
      BY <2>1, SameRuntime DEF StepOf, WorkInv
    <2> QED
      BY <2>1 DEF StepOf
  <1> QED
    BY <1>1 DEF WorkInv, SeenInv

LEMMA StepOfBoot ==
    ASSUME WorkInv, BootInv, NEW r \in Runtimes, StepOf(r), UNCHANGED <<scenario, config>>,
           \A q \in Runtimes : Announced(q) => Announced(q)' \/ Owed(q)',
           scenario.runtimes \subseteq Runtimes
    PROVE  BootInv'
  <1>1. ASSUME Lossless, NEW q \in scenario.runtimes, applied'[q].boot # config["boot"]
        PROVE  Announced(q)' \/ Owed(q)'
    <2>1. q \in Runtimes /\ applied[q].boot # config["boot"]
      BY <1>1 DEF StepOf, Same
    <2>2. Announced(q) \/ Owed(q)
      BY <1>1, <2>1 DEF BootInv
    <2>3. Owed(q) => Owed(q)'
      <3>1. CASE q = r
        BY <1>1, <3>1 DEF StepOf
      <3>2. CASE q # r
        BY <2>1, <3>2, SameRuntime DEF StepOf, WorkInv
      <3> QED
        BY <3>1, <3>2
    <2> QED
      BY <2>1, <2>2, <2>3
  <1> QED
    BY <1>1 DEF BootInv, Lossless

LEMMA RuntimeStepInv ==
    ASSUME ReloadInv, WorkInv, NEW r \in Runtimes, RuntimeStep(r)
    PROVE  WorkInv' /\ (BootInv => BootInv')
  <1>1. TypeOK /\ RuntimeInv(r) /\ wleft \subseteq scenario.runtimes /\ scenario.runtimes \subseteq Runtimes
    BY ScenarioTypes DEF ReloadInv, WorkInv
  <1>2. StepOf(r)
    BY <1>1, EditStep, CacheSyncStep, TimerFiresStep, ReconcileStep, ConvertStep, PatchStep, UnforceStep, WaitStep,
       BootstrapperStep, StatusStep DEF RuntimeStep
  <1>3. UNCHANGED <<scenario, config, seen>> /\ UNCHANGED <<wqueue, wobj, wleft, wfailed>>
    BY DEF RuntimeStep, EditRuntime, CacheSync, TimerFires, Reconcile, Convert, Patch,
       handleForceReconciliationAnnotation, WaitForKubeconfig, ConfigureBootstrapper, UpdateStatus, watcherVars
  <1>4. \A q \in Runtimes : Announced(q) => Announced(q)'
    BY <1>3 DEF Announced
  <1> QED
    BY <1>1, <1>2, <1>3, <1>4, StepOfWork, StepOfBoot

LEMMA AnnotateInv ==
    ASSUME ReloadInv, WorkInv, NEW r \in Runtimes, Annotate(r)
    PROVE  WorkInv' /\ (BootInv => BootInv')
  <1>1. StepOf(r) /\ (Owed(r)' \/ wfailed') /\ (wfailed => wfailed')
    BY AnnotateStep
  <1>2. UNCHANGED <<scenario, config, seen>> /\ UNCHANGED <<wqueue, wobj>> /\ wleft' = wleft \ {r}
    BY DEF Annotate
  <1>3. wleft' \subseteq scenario.runtimes /\ scenario.runtimes \subseteq Runtimes
    BY <1>2, ScenarioTypes DEF WorkInv, ReloadInv
  <1>4. \A q \in Runtimes : Announced(q) => Announced(q)' \/ Owed(q)'
    BY <1>1, <1>2 DEF Announced
  <1> QED
    BY <1>1, <1>2, <1>3, <1>4, StepOfWork, StepOfBoot

\* Steps of the configuration objects and of the watcher's loop.
LEMMA OthersInv ==
    ASSUME ReloadInv, WorkInv,
           \/ \E o \in Objects : ChangeConfig(o) \/ ObjectUpdated(o) \/ ListRuntimes(o)
           \/ AnnotateDone \/ UNCHANGED vars
    PROVE  WorkInv' /\ (BootInv => BootInv')
  <1>1. UNCHANGED <<scenario, rt, cache, event, queued, timer, pc, inst, fresh, next, applied>>
    BY DEF ChangeConfig, ObjectUpdated, ListRuntimes, AnnotateDone, vars, rtVars, fsmVars
  <1>2. \A q \in Runtimes : Same(q)
    BY <1>1 DEF Same
  <1>3. \A q \in Runtimes : RuntimeInv(q)' /\ (Owed(q) => Owed(q)')
    BY <1>1, <1>2, SameRuntime DEF WorkInv
  <1>4. config \in [Objects -> Nat] /\ seen \in [Objects -> Nat] /\ scenario.runtimes \subseteq Runtimes
    BY ScenarioTypes DEF ReloadInv, TypeOK
  <1>5. SeenInv'
    BY <1>4 DEF ChangeConfig, ObjectUpdated, ListRuntimes, AnnotateDone, vars, WorkInv, SeenInv
  <1>6. wleft' \subseteq scenario.runtimes
    BY DEF ChangeConfig, ObjectUpdated, ListRuntimes, AnnotateDone, vars, watcherVars, WorkInv, toAnnotate
  <1>7. WorkInv'
    BY <1>1, <1>3, <1>5, <1>6 DEF WorkInv
  <1>8. ASSUME NEW q \in scenario.runtimes, Announced(q)
        PROVE  Announced(q)' \/ Owed(q)'
    <2>1. CASE UNCHANGED vars
      BY <1>8, <2>1 DEF vars, watcherVars, Announced
    <2>2. ASSUME NEW o \in Objects, ChangeConfig(o)
          PROVE  Announced(q)'
      <3>1. config'["boot"] \in {config["boot"], config["boot"] + 1} /\ seen' = seen
            /\ UNCHANGED <<wqueue, wobj, wleft, wfailed>>
        BY <1>4, <2>2 DEF ChangeConfig, watcherVars, Objects
      <3>2. seen["boot"] <= config["boot"] /\ seen["boot"] \in Nat /\ config["boot"] \in Nat
        BY <1>4 DEF WorkInv, SeenInv, Objects
      <3>3. seen["boot"] # config["boot"] => seen["boot"] # config'["boot"]
        BY <3>1, <3>2
      <3> QED
        BY <1>8, <3>1, <3>3 DEF Announced
    <2>3. ASSUME NEW o \in Objects, ObjectUpdated(o)
          PROVE  Announced(q)'
      <3>1. (o = "boot" => "boot" \in wqueue') /\ wqueue \subseteq wqueue' /\ config' = config
            /\ (o # "boot" => seen'["boot"] = seen["boot"]) /\ UNCHANGED <<wobj, wleft, wfailed>>
        BY <1>4, <2>3 DEF ObjectUpdated, Objects
      <3> QED
        BY <1>8, <3>1 DEF Announced
    <2>4. ASSUME NEW o \in Objects, ListRuntimes(o)
          PROVE  Announced(q)' \/ Owed(q)'
      <3>1. CASE UNCHANGED <<wobj, wleft, wlist, wfresh, wqueue>>
        BY <1>8, <2>4, <3>1 DEF ListRuntimes, Announced
      <3>2. CASE wobj' = o /\ wleft' = toAnnotate(o) /\ wqueue' = wqueue \ {o}
        <4>1. UNCHANGED <<seen, config>> /\ wobj = "idle"
          BY <2>4 DEF ListRuntimes
        <4>2. o = "boot" => q \in wleft' \/ rt[q].force
          BY <1>8, <3>2 DEF toAnnotate, RuntimePredicate
        <4> QED
          BY <1>1, <1>8, <3>2, <4>1, <4>2 DEF Announced, Owed
      <3> QED
        BY <2>4, <3>1, <3>2 DEF ListRuntimes
    <2>5. CASE AnnotateDone
      <3>1. wleft = {} /\ wqueue' = wqueue \cup retried /\ UNCHANGED <<seen, config>>
        BY <2>5 DEF AnnotateDone, loopDone
      <3> QED
        BY <1>8, <3>1 DEF Announced, retried
    <2> QED
      BY <2>1, <2>2, <2>3, <2>4, <2>5
  <1>9. ASSUME NEW q \in scenario.runtimes, applied[q].boot = config["boot"], config'["boot"] # config["boot"]
        PROVE  Announced(q)'
    <2>1. PICK o \in Objects : ChangeConfig(o)
      BY <1>9 DEF ObjectUpdated, ListRuntimes, AnnotateDone, vars
    <2>2. config'["boot"] = config["boot"] + 1 /\ seen' = seen
      BY <1>4, <1>9, <2>1 DEF ChangeConfig, Objects
    <2>3. seen["boot"] <= config["boot"] /\ seen["boot"] \in Nat /\ config["boot"] \in Nat
      BY <1>4 DEF WorkInv, SeenInv, Objects
    <2>4. seen'["boot"] # config'["boot"]
      BY <2>2, <2>3
    <2> QED
      BY <2>4 DEF Announced
  <1>10. ASSUME BootInv, Lossless, NEW q \in scenario.runtimes, applied[q].boot # config'["boot"]
         PROVE  Announced(q)' \/ Owed(q)'
    <2>1. CASE applied[q].boot = config["boot"]
      BY <1>9, <1>10, <2>1
    <2>2. CASE applied[q].boot # config["boot"]
      BY <1>3, <1>4, <1>8, <1>10, <2>2 DEF BootInv
    <2> QED
      BY <2>1, <2>2
  <1> QED
    BY <1>1, <1>7, <1>10 DEF BootInv, Lossless

\* A restarted KIM lists everything again.
LEMMA RestartInv ==
    ASSUME ReloadInv, WorkInv, Restart
    PROVE  WorkInv' /\ BootInv'
  <1>1. /\ seen' = config /\ cache' = rt /\ "restart" \in scenario.trouble /\ wleft' = {}
        /\ event' = [r \in Runtimes |-> FALSE] /\ queued' = [r \in Runtimes |-> r \in scenario.runtimes]
        /\ timer' = [r \in Runtimes |-> FALSE]
        /\ pc' = [r \in Runtimes |-> "idle"] /\ inst' = [r \in Runtimes |-> Old]
        /\ fresh' = [r \in Runtimes |-> FALSE] /\ next' = [r \in Runtimes |-> "Ready"]
        /\ UNCHANGED <<scenario, config, rt, applied>>
    BY DEF Restart
  <1>2. ~Lossless'
    BY <1>1 DEF Lossless
  <1>3. ASSUME NEW r \in Runtimes
        PROVE  RuntimeInv(r)'
    <2>1. cache'[r] = rt[r] /\ ~event'[r] /\ ~timer'[r] /\ pc'[r] = "idle" /\ inst'[r] = Old /\ fresh'[r] = FALSE
      BY <1>1
    <2>2. queued'[r] <=> r \in scenario.runtimes
      BY <1>1
    <2>3. Due(r)' <=> r \in scenario.runtimes
      BY <2>1, <2>2 DEF Due
    <2>4. TypeOK /\ RuntimeInv(r) /\ Old.spec = 0
      BY DEF ReloadInv, WorkInv, Old
    <2>5. Untouched(r)' /\ Lag(r)'
      BY <1>1, <2>1, <2>3, <2>4 DEF RuntimeInv, Untouched, Lag
    <2>6. Order(r)'
      BY <1>1, <2>1, <2>4, Fields DEF RuntimeInv, Order
    <2>7. r \notin scenario.runtimes => rt[r].state = "Ready" /\ ~rt[r].force /\ applied[r].spec = rt[r].spec
      BY <2>4 DEF RuntimeInv, Untouched, Old
    <2>8. PendingIsDue(r)' /\ Stage(r)'
      BY <1>1, <2>1, <2>3, <2>7 DEF PendingIsDue, Stage
    <2>9. Current(r)' /\ LastWritten(r)'
      BY <1>1, <2>1 DEF Current, LastWritten
    <2>10. ReadySeen(r)' /\ FailedByFault(r)'
      BY <1>1, <2>1, <2>4 DEF RuntimeInv, ReadySeen, FailedByFault, Fault
    <2> QED
      BY <2>5, <2>6, <2>8, <2>9, <2>10 DEF RuntimeInv
  <1>4. SeenInv'
    BY <1>1 DEF SeenInv, ReloadInv, TypeOK
  <1> QED
    BY <1>1, <1>2, <1>3, <1>4 DEF WorkInv, BootInv

LEMMA InitWork ==
    ASSUME Init
    PROVE  WorkInv /\ BootInv
  <1>1. ASSUME NEW r \in Runtimes
        PROVE  RuntimeInv(r)
    <2>1. /\ rt[r] = Old /\ cache[r] = Old /\ inst[r] = Old /\ applied[r].spec = 0 /\ pc[r] = "idle"
          /\ ~event[r] /\ ~queued[r] /\ ~timer[r] /\ fresh[r] = FALSE /\ next[r] = "Ready"
      BY DEF Init
    <2>2. ~Due(r) /\ Old.spec = 0 /\ Old.state = "Ready" /\ Old.force = FALSE
      BY <2>1 DEF Due, Old
    <2>3. Untouched(r) /\ Order(r) /\ Lag(r) /\ PendingIsDue(r) /\ Stage(r)
      BY <2>1, <2>2 DEF Untouched, Order, Lag, PendingIsDue, Stage
    <2>4. Current(r) /\ LastWritten(r) /\ ReadySeen(r) /\ FailedByFault(r)
      BY <2>1, <2>2 DEF Current, LastWritten, ReadySeen, FailedByFault
    <2> QED
      BY <2>3, <2>4 DEF RuntimeInv
  <1>2. SeenInv /\ wleft \subseteq scenario.runtimes
    BY DEF Init, SeenInv
  <1>3. \A r \in Runtimes : applied[r].boot = config["boot"]
    BY DEF Init, Objects
  <1>4. scenario.runtimes \subseteq Runtimes
    BY InitInv, ScenarioTypes DEF ReloadInv
  <1> QED
    BY <1>1, <1>2, <1>3, <1>4 DEF WorkInv, BootInv

\* Events, timers and requests account for everything that is not applied yet, and
\* the watcher and the controller for every change of the bootstrapper's objects.
THEOREM WorkInvariance == Spec => [](ReloadInv /\ WorkInv /\ BootInv)
  <1>1. Init => ReloadInv /\ WorkInv /\ BootInv
    BY InitInv, InitWork
  <1>2. ReloadInv /\ WorkInv /\ BootInv /\ [Next]_vars => ReloadInv' /\ WorkInv' /\ BootInv'
    <2> SUFFICES ASSUME ReloadInv, WorkInv, BootInv, [Next]_vars
                 PROVE  ReloadInv' /\ WorkInv' /\ BootInv'
      OBVIOUS
    <2>1. ReloadInv'
      BY StepInv, StutterInv
    <2>2. CASE \E r \in Runtimes : RuntimeStep(r)
      BY <2>1, <2>2, RuntimeStepInv
    <2>3. CASE \E r \in Runtimes : Annotate(r)
      BY <2>1, <2>3, AnnotateInv
    <2>4. CASE Restart
      BY <2>1, <2>4, RestartInv
    <2>5. CASE \/ \E o \in Objects : ChangeConfig(o) \/ ObjectUpdated(o) \/ ListRuntimes(o)
               \/ AnnotateDone \/ UNCHANGED vars
      BY <2>1, <2>5, OthersInv
    <2> QED
      BY <2>2, <2>3, <2>4, <2>5 DEF Next, RuntimeStep
  <1> QED
    BY <1>1, <1>2, PTL DEF Spec

\* When all is quiet no Runtime is annotated or Pending and every spec is applied:
\* whatever conflicts, is retried or restarts between the events, the annotation's
\* removal and the status, something is left that has the Runtime reconciled again.
\* The exception is one whose conversion or patch failed for good.
THEOREM NothingForgottenAlways == Spec => []NothingForgotten
  <1>1. ReloadInv /\ WorkInv => NothingForgotten
    <2> SUFFICES ASSUME ReloadInv, WorkInv, Quiet, NEW r \in Runtimes,
                        ~(rt[r].state = "Failed" /\ Fault)
                 PROVE  rt[r] = [Old EXCEPT !.spec = applied[r].spec]
      BY DEF NothingForgotten
    <2>1. pc[r] = "idle" /\ ~Due(r) /\ TypeOK /\ RuntimeInv(r)
      BY DEF Quiet, Due, ReloadInv, WorkInv
    <2>9. rt[r].state # "Failed"
      BY <2>1 DEF RuntimeInv, FailedByFault
    <2>2. rt[r].state # "Pending" /\ ~rt[r].force /\ applied[r].spec = rt[r].spec
      BY <2>1, <2>9 DEF RuntimeInv, PendingIsDue, Stage
    <2>3. rt[r] \in Runtime /\ rt[r].state = "Ready" /\ rt[r].force = FALSE
      BY <2>1, <2>2, <2>9, Fields DEF States
    <2>4. Old \in Runtime /\ Old.force = FALSE /\ Old.state = "Ready" /\ rt[r].spec \in 0..MaxSpec
      BY <2>3, ReloadAssumption DEF Old, Runtime, States
    <2>5. ASSUME NEW o \in Runtime, NEW n \in 0..MaxSpec
          PROVE  /\ [o EXCEPT !.spec = n] \in Runtime
                 /\ [o EXCEPT !.spec = n].spec = n
                 /\ [o EXCEPT !.spec = n].force = o.force
                 /\ [o EXCEPT !.spec = n].state = o.state
      BY DEF Runtime
    <2>6. ASSUME NEW o \in Runtime, NEW p \in Runtime,
                 o.force = p.force, o.spec = p.spec, o.state = p.state
          PROVE  o = p
      BY <2>6 DEF Runtime
    <2> DEFINE o == [Old EXCEPT !.spec = rt[r].spec]
    <2>7. o \in Runtime /\ o.spec = rt[r].spec /\ o.force = rt[r].force /\ o.state = rt[r].state
      BY <2>3, <2>4, <2>5
    <2> HIDE DEF o
    <2>8. rt[r] = o
      BY <2>3, <2>6, <2>7
    <2> QED
      BY <2>2, <2>8 DEF o
  <1> QED
    BY <1>1, WorkInvariance, PTL

\* A change of the bootstrapper's objects reaches the cluster of every Runtime, also
\* of one that the watcher skips, fails to annotate, or annotates while a reconciliation
\* runs: the annotation, the pending status or the copy that the reconciliation holds
\* sees to it until the bootstrapper is configured or the Runtime is Failed.
THEOREM BootstrapperCurrentAlways == Spec => []BootstrapperCurrent
  <1>1. ReloadInv /\ WorkInv /\ BootInv => BootstrapperCurrent
    <2> SUFFICES ASSUME ReloadInv, WorkInv, BootInv, Quiet, Lossless, NEW r \in scenario.runtimes,
                        rt[r].state # "Failed", applied[r].boot # config["boot"]
                 PROVE  FALSE
      BY DEF BootstrapperCurrent, Lossless
    <2>1. r \in Runtimes
      BY ScenarioTypes DEF ReloadInv
    <2>2. ~Announced(r)
      BY DEF Quiet, Announced
    <2>3. pc[r] = "idle" /\ ~Due(r) /\ RuntimeInv(r)
      BY <2>1 DEF Quiet, Due, WorkInv
    <2>4. rt[r].state # "Pending" /\ ~rt[r].force /\ applied[r].spec = rt[r].spec
      BY <2>3 DEF RuntimeInv, PendingIsDue, Stage
    <2>6. rt[r].state = "Ready"
      BY <2>1, <2>4, Fields DEF ReloadInv, States
    <2>5. ~Owed(r)
      BY <2>3, <2>4, <2>6 DEF Owed
    <2> QED
      BY <2>2, <2>5 DEF BootInv
  <1> QED
    BY <1>1, WorkInvariance, PTL
=============================================================================
