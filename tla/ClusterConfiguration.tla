------------------------ MODULE ClusterConfiguration ------------------------
(***************************************************************************)
(* The part of a reconciliation that works inside the Kyma cluster (SKR):  *)
(* the runtime bootstrapper, the kyma-provisioning-info ConfigMap, the     *)
(* OpenIDConnect resources and the cluster role bindings of the            *)
(* administrators.  Each of them is several calls to the cluster, any of   *)
(* which may fail, be executed without an answer, or be the last before a  *)
(* restart; users of the cluster change the same objects.                  *)
(*                                                                         *)
(* RuntimeFSM has the states before these, the lag of the caches and the   *)
(* waiting for Gardener, which is done here by the next reconciliation;    *)
(* ConfigReload has the watcher's own steps; RegistryCacheSecrets and      *)
(* AuditLogPool what stands between and after the steps below.  Here the   *)
(* kubeconfig is there and dedicated audit logging is off.                 *)
(***************************************************************************)
EXTENDS Naturals, Sequences, FiniteSets, SequencesExt

CONSTANTS
    Users,        \* names in bindings
    Issuers,      \* of tokens, with their client IDs
    DefaultTenant, \* ... the one of DefaultSharedIASTenant
    Undefined,    \* an entry of additionalOidcConfig without client ID or issuer;
                  \* <<Undefined>> also stands for a missing field
    Specs,        \* the values of the Runtime's administrators and additionalOidcConfig
    Parts,        \* the objects Configure copies, in their order
    Docs,         \* the number of documents in the manifests
    DeploymentAt, \* ... which of them is the Deployment
    MaxEdits, MaxKcp, MaxFaults, MaxTamper, \* bounds: edits of the Runtime, changes of the
                  \* control plane's objects, failing calls and restarts, users' changes
    Trouble       \* "label": new manifests may keep the version label; "share": users add
                  \* subjects to bindings; "deploy": the Deployment may fail to progress

ASSUME ClusterAssumption ==
    /\ DefaultTenant \in Issuers /\ Undefined \notin Issuers
    /\ Specs \subseteq [admins: Seq(Users), oidc: Seq(Issuers \cup {Undefined})]
    /\ Parts \in Seq(STRING) /\ Parts # <<>>
    /\ Docs \in Nat \ {0} /\ DeploymentAt \in 1..Docs
    /\ {MaxEdits, MaxKcp, MaxFaults, MaxTamper} \subseteq Nat
    /\ Trouble \subseteq {"label", "share", "deploy"}

Part == 1..Len(Parts)
Manifests == [content: Nat, label: Nat]  \* label: app.kubernetes.io/version
NoObject == [content |-> 0, label |-> 0]

\* Cluster role bindings have generated names: they are counted by what they say.
Bindings == [managed: BOOLEAN, users: (SUBSET Users) \ {{}}]

VARIABLES
    spec,      \* the Runtime: its generation, annotation and what is specified
    status,    \* its state, and the generation that was written for
    applied,   \* the generation in the shoot's annotation
    kcp,       \* the bootstrapper's configuration and manifests in the control plane
    extension, \* the shoot has the OIDC extension enabled
    conf, docs, deployed, info, oidc, bindings, \* the cluster: the copied configuration,
               \* the applied documents, the Deployment's status, the provisioning info,
               \* the managed OpenIDConnect resources by their id, the bindings
    queued,    \* a reconciliation is requested
    pc, inst, mem, \* the reconciliation: its next step, the Runtime it read and its
               \* local variables
    changes, faults, tamper, \* counters for the bounds
    touched, swallowed, shared, \* history: what users changed since the last step that
               \* looks at it; OpenIDConnect resources whose Create failed and was not
               \* reported; whether a binding was ever given a second subject
    unfinished, refused \* history: the last reconciliation that got as far as the
               \* cluster has not written its status; the last patch of the shoot failed
               \* with an error that is not retried

kcpVars == <<spec, status, applied, kcp, extension, changes>>
skrVars == <<conf, docs, deployed, info, oidc, bindings>>
history == <<tamper, touched, shared, unfinished, refused>>
vars == <<kcpVars, skrVars, queued, pc, inst, mem, faults, history, swallowed>>

Steps == {"idle", "patch", "status", "configure", "apply", "info", "install", "skr", "oidc_delete",
          "oidc_create", "crb", "crb_delete", "crb_create"}

States == {"", "Pending", "Ready", "Failed"}

\* forced: the annotation force-kyma-reconciliation.  Whatever changes a Runtime
\* gives it another generation or the annotation: two that are equal have the same
\* resourceVersion.
AtGen(g, f) ==
    {[gen |-> g, admins |-> s.admins, oidc |-> s.oidc, forced |-> f] : s \in Specs}
Runtime == UNION {AtGen(g, f) : g \in 0..MaxEdits, f \in BOOLEAN}

None == [b \in Bindings |-> 0]

\* What Configure and InstallationInfo read; the place in a loop; the state to be
\* written; the bindings to delete, which are known by name and counted here by what
\* they say by now, and whether one of them is gone; the administrators, by their
\* place, for whom one is to be created.  History: late, the users who were added to
\* a binding that is to be deleted.
Memory == [want: [Part -> Nat], manifests: Manifests, ix: Nat, state: States,
           removed: [Bindings -> Nat], gone: BOOLEAN, late: SUBSET Users,
           missing: SUBSET Nat]
NoMem == [want |-> [p \in Part |-> 0], manifests |-> NoObject, ix |-> 0, state |-> "",
          removed |-> None, gone |-> FALSE, late |-> {}, missing |-> {}]

TypeOK ==
    /\ spec \in Runtime /\ inst \in Runtime
    /\ status \in [state: States, gen: 0..MaxEdits] /\ applied \in 0..MaxEdits
    /\ kcp \in [conf: [Part -> Nat], manifests: Manifests]
    /\ extension \in BOOLEAN /\ queued \in BOOLEAN /\ pc \in Steps /\ mem \in Memory
    /\ conf \in [Part -> Nat] /\ docs \in [1..Docs -> Manifests]
    /\ deployed \in [ready: BOOLEAN, progressing: BOOLEAN]
    /\ info \in 0..MaxEdits
    /\ \A id \in DOMAIN oidc : oidc[id] \in Issuers
    /\ bindings \in [Bindings -> Nat]
    /\ changes \in 0..MaxKcp /\ faults \in 0..MaxFaults /\ tamper \in 0..MaxTamper
    /\ touched \subseteq {"oidc", "crb"} /\ shared \in BOOLEAN /\ swallowed \subseteq Nat
    /\ unfinished \in BOOLEAN /\ refused \in BOOLEAN

\* A new cluster: a binding of its own and nothing of KIM's.
Init ==
    /\ spec \in AtGen(0, FALSE) /\ inst = spec
    /\ status = [state |-> "", gen |-> 0] /\ applied = 0
    /\ kcp = [conf |-> [p \in Part |-> 1], manifests |-> [content |-> 1, label |-> 1]]
    /\ extension \in BOOLEAN
    /\ conf = [p \in Part |-> 0] /\ docs = [d \in 1..Docs |-> NoObject]
    /\ deployed = [ready |-> FALSE, progressing |-> FALSE]
    /\ info = 0 /\ oidc = <<>>
    /\ \E u \in Users : bindings = [None EXCEPT ![[managed |-> FALSE, users |-> {u}]] = 1]
    /\ queued = TRUE /\ pc = "idle" /\ mem = NoMem
    /\ changes = 0 /\ faults = 0 /\ tamper = 0
    /\ touched = {} /\ swallowed = {} /\ shared = FALSE
    /\ unfinished = FALSE /\ refused = FALSE

-----------------------------------------------------------------------------
(* What every step is made of, and how a reconciliation begins and ends.    *)

Goto(step, m) == pc' = step /\ mem' = m /\ UNCHANGED <<status, queued>>

\* updateStatusAndRequeueAfter, updateStatusAndStop.
Return(state) == Goto("status", [NoMem EXCEPT !.state = state])

Retry == Return("Pending")

\* An error, or requeue(): the status is not written.
Requeue == pc' = "idle" /\ mem' = NoMem /\ queued' = TRUE /\ UNCHANGED status

\* A call that fails, before or after it was executed.
Fault == faults < MaxFaults /\ faults' = faults + 1

Done == UNCHANGED faults

Keep == UNCHANGED <<spec, applied, kcp, extension, changes, inst, tamper, shared, unfinished,
                    refused>>

neverAgain(state) == FALSE  \* mutant: a failed step is not tried again

requeues(state) == state = "Pending"

\* The status of a Runtime that was changed in the meantime is not written (a
\* conflict), which is an error like any other failure of the call.
sFnUpdateStatus ==
    LET written == [state |-> mem.state, gen |-> inst.gen]
        write == inst = spec /\ status' = written /\ unfinished' = FALSE
    IN  /\ pc = "status" /\ pc' = "idle" /\ mem' = NoMem
        /\ \/ Done /\ write /\ queued' = (queued \/ requeues(mem.state))
           \/ Done /\ inst # spec /\ queued' = TRUE /\ UNCHANGED <<status, unfinished>>
           \/ Fault /\ queued' = TRUE /\ (write \/ UNCHANGED <<status, unfinished>>)
        /\ UNCHANGED <<spec, applied, kcp, extension, changes, inst, tamper, shared, refused,
                       skrVars, touched, swallowed>>

shouldPatchShoot == spec.forced \/ applied < spec.gen

\* sFnTakeSnapshot and sFnSelectShootProcessing: a Runtime that is Ready or Failed
\* is not worked on again, in particular not after a restart, unless Gardener is
\* still at work on its shoot.
Reconcile ==
    /\ pc = "idle" /\ queued
    /\ queued' = FALSE /\ inst' = spec
    /\ \/ shouldPatchShoot /\ pc' = "patch" /\ UNCHANGED unfinished
       \/ ~shouldPatchShoot /\ pc' = "configure" /\ unfinished' = TRUE
       \/ ~shouldPatchShoot /\ status.state \in {"Ready", "Failed"} /\ UNCHANGED <<pc, unfinished>>
    /\ UNCHANGED <<kcpVars, skrVars, mem, faults, tamper, touched, shared, refused, swallowed>>

\* The Update that removes the annotation writes the whole Runtime, in which the
\* conversion may have changed image versions or maxPods: then the generation rises.
\* Its event requests a reconciliation.
handleForceReconciliationAnnotation ==
    /\ inst = spec
    /\ \E g \in {spec.gen, spec.gen + 1} \cap 0..MaxEdits :
         spec' = [gen |-> g, admins |-> spec.admins, oidc |-> spec.oidc, forced |-> FALSE]
    /\ inst' = spec'

\* Only Conflict and Forbidden are retried.  Without a change of the shoot the
\* reconciliation goes on and does not write Pending before.
sFnPatchExistingShoot ==
    /\ pc = "patch"
    /\ \/ /\ Fault /\ Retry
          /\ UNCHANGED <<spec, inst, applied, unfinished, refused>>
       \/ /\ Fault /\ Return("Failed") /\ refused' = TRUE
          /\ \/ UNCHANGED <<applied, unfinished>>
             \/ applied' = inst.gen /\ unfinished' = TRUE
          /\ UNCHANGED <<spec, inst>>
       \/ /\ applied' = inst.gen /\ unfinished' = TRUE /\ refused' = FALSE
          /\ \/ /\ Done /\ ~inst.forced /\ (Goto("configure", mem) \/ Retry)
                /\ UNCHANGED <<spec, inst>>
             \/ /\ Done /\ inst.forced /\ handleForceReconciliationAnnotation
                /\ \/ pc' = "configure" /\ mem' = mem
                   \/ pc' = "status" /\ mem' = [NoMem EXCEPT !.state = "Pending"]
                /\ queued' = TRUE /\ UNCHANGED status
             \/ /\ Done /\ inst.forced /\ inst # spec /\ Requeue
                /\ UNCHANGED <<spec, inst>>
             \/ /\ Fault /\ inst.forced /\ Requeue
                /\ handleForceReconciliationAnnotation \/ UNCHANGED <<spec, inst>>
    /\ UNCHANGED <<kcp, extension, changes, skrVars, tamper, touched, shared, swallowed>>

-----------------------------------------------------------------------------
(* The runtime bootstrapper.                                                *)

\* Configure reads the objects in the control plane ...
Configure ==
    /\ pc = "configure"
    /\ \/ Done /\ Goto("apply", [mem EXCEPT !.want = kcp.conf, !.ix = 1])
       \/ Fault /\ Retry
    /\ Keep /\ UNCHANGED <<skrVars, touched, swallowed>>

\* ... and applies those that differ in the cluster, one after the other.
applyResourcesToRuntimeCluster ==
    LET i == mem.ix
        copied == [conf EXCEPT ![i] = mem.want[i]]
    IN  /\ pc = "apply"
        /\ \/ /\ Done /\ conf' = copied
              /\ IF i < Len(Parts) THEN Goto("apply", [mem EXCEPT !.ix = i + 1])
                                   ELSE Goto("info", NoMem)
           \/ Fault /\ Retry /\ conf' \in {conf, copied}
        /\ Keep /\ UNCHANGED <<docs, deployed, info, oidc, bindings, touched, swallowed>>

neverUpdated(m) == FALSE  \* mutant: a ready Deployment is not upgraded

isDeploymentToBeUpdated(m) == docs[DeploymentAt].label # m.label

NotInstalled == docs[DeploymentAt] = NoObject

\* The status NotStarted or UpgradeNeeded.
toBeInstalled(m) ==
    \/ NotInstalled
    \/ deployed.ready /\ isDeploymentToBeUpdated(m)

\* sFnInitializeRuntimeBootstrapper on what InstallationInfo finds.
InstallationInfo ==
    LET m == kcp.manifests
    IN  /\ pc = "info"
        /\ \/ Fault /\ Retry
           \/ /\ Done /\ toBeInstalled(m)
              /\ Goto("install", [mem EXCEPT !.manifests = m, !.ix = 1])
           \/ /\ Done /\ ~toBeInstalled(m)
              /\ \/ deployed.ready /\ Goto("skr", mem)                        \* Ready
                 \/ ~deployed.ready /\ deployed.progressing /\ Retry          \* InProgress
                 \/ /\ ~deployed.ready /\ ~deployed.progressing               \* Failed
                    /\ Return("Failed")
        /\ Keep /\ UNCHANGED <<skrVars, touched, swallowed>>

\* The object is created, or patched by a forced apply.  The Deployment controller
\* reports progress on a new Deployment before the requeue delay has passed.
applyObject(d) ==
    /\ docs' = [docs EXCEPT ![d] = mem.manifests]
    /\ deployed' = IF d = DeploymentAt
                   THEN [ready |-> deployed.ready /\ ~NotInstalled, progressing |-> TRUE]
                   ELSE deployed

\* ApplyManifests stops at the first error; what it applied remains.
ApplyManifests ==
    /\ pc = "install"
    /\ \/ /\ Done /\ applyObject(mem.ix)
          /\ IF mem.ix < Docs THEN Goto("install", [mem EXCEPT !.ix = @ + 1]) ELSE Retry
       \/ /\ Fault /\ Retry
          /\ applyObject(mem.ix) \/ UNCHANGED <<docs, deployed>>
    /\ Keep /\ UNCHANGED <<conf, info, oidc, bindings, touched, swallowed>>

-----------------------------------------------------------------------------
(* Provisioning info and OpenIDConnect resources.                           *)

asSpecified(rt) == rt.oidc  \* mutant: an incomplete entry is not replaced

\* additionalOidcEmptyOrUndefined: what the resources are made of.
oidcConfigs(rt) ==
    IF Undefined \in Range(rt.oidc) THEN <<DefaultTenant>> ELSE rt.oidc

\* The ConfigMap kyma-provisioning-info, as the generation it is made from.
applyKymaProvisioningInfoCM == info' = inst.gen

sFnConfigureSKR ==
    /\ pc = "skr"
    /\ \/ /\ Done /\ applyKymaProvisioningInfoCM
          /\ Goto(IF extension THEN "oidc_delete" ELSE "crb", mem)
       \/ Fault /\ Retry /\ (applyKymaProvisioningInfoCM \/ UNCHANGED info)
    /\ Keep /\ UNCHANGED <<conf, docs, deployed, oidc, bindings, touched, swallowed>>

Without(f, ids) == [id \in DOMAIN f \ ids |-> f[id]]

keepExisting == oidc' = oidc  \* mutant: resources that are not created again stay

\* DeleteAllOf of the resources with KIM's label.
deleteExistingKymaOpenIDConnectResources == oidc' = Without(oidc, DOMAIN oidc)

OidcDelete ==
    /\ pc = "oidc_delete"
    /\ \/ /\ Done /\ deleteExistingKymaOpenIDConnectResources
          /\ touched' = touched \ {"oidc"} /\ swallowed' = {}
          /\ IF oidcConfigs(inst) = <<>> THEN Goto("crb", mem)
                                         ELSE Goto("oidc_create", [mem EXCEPT !.ix = 1])
       \/ /\ Fault /\ \E ids \in SUBSET DOMAIN oidc : oidc' = Without(oidc, ids)
          /\ Retry /\ UNCHANGED <<touched, swallowed>>
    /\ Keep /\ UNCHANGED <<conf, docs, deployed, info, bindings>>

createOpenIDConnectResource(id) ==
    oidc' = [i \in DOMAIN oidc \cup {id} |-> IF i = id THEN oidcConfigs(inst)[id] ELSE oidc[i]]

\* The error of one Create is overwritten by the outcome of the next.
recreateOpenIDConnectResources ==
    LET last == mem.ix = Len(oidcConfigs(inst))
        goOn(failed) ==
          \/ ~last /\ Goto("oidc_create", [mem EXCEPT !.ix = @ + 1])
          \/ last /\ failed /\ Retry
          \/ last /\ ~failed /\ Goto("crb", NoMem)
    IN  /\ pc = "oidc_create"
        /\ \/ /\ Done /\ createOpenIDConnectResource(mem.ix) /\ goOn(FALSE)
              /\ UNCHANGED swallowed
           \/ /\ Fault /\ goOn(TRUE)
              /\ createOpenIDConnectResource(mem.ix) \/ UNCHANGED oidc
              /\ swallowed' = IF last THEN swallowed ELSE swallowed \cup {mem.ix}
        /\ Keep /\ UNCHANGED <<conf, docs, deployed, info, bindings, touched>>

-----------------------------------------------------------------------------
(* Cluster role bindings.                                                   *)

admins(rt) == Range(rt.admins)

revokeShared(b, rt) ==  \* mutant: a binding with another user in it is removed
    b.managed /\ ~(b.users \subseteq admins(rt))

getRemoved(b, rt) == b.managed /\ b.users \cap admins(rt) = {}

HasBinding(u) == \E b \in Bindings : bindings[b] > 0 /\ u \in b.users

newContainsAdmin(u) == \E b \in Bindings : bindings[b] > 0 /\ b.managed /\ u \in b.users

\* mutant: any binding of the user will do
missingAny(rt) == {i \in DOMAIN rt.admins : ~HasBinding(rt.admins[i])}

getMissing(rt) == {i \in DOMAIN rt.admins : ~newContainsAdmin(rt.admins[i])}

\* The list of bindings, and what is to be deleted and created.
sFnApplyClusterRoleBindings ==
    /\ pc = "crb"
    /\ \/ /\ Done
          /\ Goto("crb_delete",
                  [mem EXCEPT !.removed = [b \in Bindings |->
                                             IF getRemoved(b, inst) THEN bindings[b] ELSE 0],
                              !.missing = getMissing(inst)])
          /\ touched' = touched \ {"crb"}
       \/ Fault /\ Retry /\ UNCHANGED touched
    /\ Keep /\ UNCHANGED <<skrVars, swallowed>>

Less(f, b) == [f EXCEPT ![b] = @ - 1]

\* Each is deleted by its name, whatever it says by now; one that is gone already is
\* an error.
newDelCRBs ==
    /\ pc = "crb_delete"
    /\ \/ /\ Done /\ mem.removed = None /\ ~mem.gone
          /\ Goto("crb_create", mem) /\ UNCHANGED bindings
       \/ Done /\ mem.gone /\ Retry /\ UNCHANGED bindings
       \/ \E b \in {c \in Bindings : mem.removed[c] > 0} :
            \/ /\ Done /\ bindings' = Less(bindings, b)
               /\ Goto("crb_delete", [mem EXCEPT !.removed = Less(@, b)])
            \/ Fault /\ Retry /\ bindings' \in {bindings, Less(bindings, b)}
    /\ Keep /\ UNCHANGED <<conf, docs, deployed, info, oidc, touched, swallowed>>

toAdminClusterRoleBinding(u) == [managed |-> TRUE, users |-> {u}]

newAddCRBs ==
    /\ pc = "crb_create"
    /\ \/ Done /\ mem.missing = {} /\ Return("Ready") /\ UNCHANGED bindings
       \/ \E i \in mem.missing :
            LET b == toAdminClusterRoleBinding(inst.admins[i])
                created == [bindings EXCEPT ![b] = @ + 1]
            IN  /\ \A j \in mem.missing : i <= j
                /\ \/ /\ Done /\ bindings' = created
                      /\ Goto("crb_create", [mem EXCEPT !.missing = @ \ {i}])
                   \/ Fault /\ Retry /\ bindings' \in {bindings, created}
    /\ Keep /\ UNCHANGED <<conf, docs, deployed, info, oidc, touched, swallowed>>

-----------------------------------------------------------------------------
(* Users of the Runtime and of the cluster, the operators of the control    *)
(* plane, the Deployment controller, and the restart of KIM.                *)

EditRuntime ==
    /\ spec.gen < MaxEdits
    /\ spec' \in AtGen(spec.gen + 1, spec.forced)
    /\ queued' = TRUE
    /\ UNCHANGED <<status, applied, kcp, extension, changes, skrVars, pc, inst, mem, faults,
                   history, swallowed>>

\* The configuration reload watcher then annotates the Runtime, unless it has the
\* annotation.
ChangeKcp ==
    /\ changes < MaxKcp /\ changes' = changes + 1
    /\ \/ \E p \in Part : kcp' = [kcp EXCEPT !.conf[p] = @ + 1]
       \/ kcp' = [kcp EXCEPT !.manifests = [content |-> @.content + 1, label |-> @.label + 1]]
       \/ "label" \in Trouble /\ kcp' = [kcp EXCEPT !.manifests.content = @ + 1]
    /\ spec' = [spec EXCEPT !.forced = TRUE] /\ queued' = (queued \/ ~spec.forced)
    /\ UNCHANGED <<status, applied, extension, skrVars, pc, inst, mem, faults, history, swallowed>>

Tamper(what) ==
    /\ tamper < MaxTamper /\ tamper' = tamper + 1
    /\ touched' = touched \cup {what}
    /\ UNCHANGED <<kcpVars, conf, docs, deployed, info, queued, pc, inst, faults, swallowed,
                   unfinished, refused>>

\* A user is added to one of the bindings that say b.
Extended(f, b, u) == [Less(f, b) EXCEPT ![[b EXCEPT !.users = @ \cup {u}]] = @ + 1]

\* KIM does not watch the cluster.  The binding may be one that it is about to delete.
TamperBindings ==
    /\ Tamper("crb") /\ UNCHANGED oidc
    /\ \E b \in Bindings, listed \in BOOLEAN :
         /\ IF listed THEN mem.removed[b] > 0 ELSE bindings[b] > mem.removed[b]
         /\ \/ /\ bindings' = Less(bindings, b) /\ UNCHANGED shared
               /\ mem' = IF listed THEN [mem EXCEPT !.removed = Less(@, b), !.gone = TRUE]
                                   ELSE mem
            \/ /\ "share" \in Trouble /\ shared' = TRUE
               /\ \E u \in Users \ b.users :
                    /\ bindings' = Extended(bindings, b, u)
                    /\ mem' = IF listed THEN [mem EXCEPT !.removed = Extended(@, b, u),
                                                         !.late = @ \cup {u}]
                                        ELSE mem

TamperOidc ==
    /\ Tamper("oidc") /\ UNCHANGED <<bindings, shared, mem>>
    /\ \E id \in DOMAIN oidc : oidc' = Without(oidc, {id})

\* external: pods become ready, are lost, or do not start in time.
DeploymentReady ==
    /\ ~NotInstalled /\ deployed.progressing /\ ~deployed.ready
    /\ deployed' = [deployed EXCEPT !.ready = TRUE]
    /\ UNCHANGED <<kcpVars, conf, docs, info, oidc, bindings, queued, pc, inst, mem, faults,
                   history, swallowed>>

DeploymentFails ==
    /\ ~NotInstalled /\ "deploy" \in Trouble /\ tamper < MaxTamper /\ tamper' = tamper + 1
    /\ deployed' = [ready |-> FALSE, progressing |-> FALSE]
    /\ UNCHANGED <<kcpVars, conf, docs, info, oidc, bindings, queued, pc, inst, mem, faults,
                   touched, shared, unfinished, refused, swallowed>>

Restart ==
    /\ Fault
    /\ pc' = "idle" /\ queued' = TRUE /\ mem' = NoMem
    /\ UNCHANGED <<kcpVars, skrVars, inst, history, swallowed>>

ReconcileStep ==
    \/ Reconcile \/ sFnPatchExistingShoot \/ sFnUpdateStatus
    \/ Configure \/ applyResourcesToRuntimeCluster \/ InstallationInfo \/ ApplyManifests
    \/ sFnConfigureSKR \/ OidcDelete \/ recreateOpenIDConnectResources
    \/ sFnApplyClusterRoleBindings \/ newDelCRBs \/ newAddCRBs

Next ==
    \/ ReconcileStep
    \/ EditRuntime \/ ChangeKcp \/ TamperBindings \/ TamperOidc
    \/ DeploymentReady \/ DeploymentFails \/ Restart

Spec == Init /\ [][Next]_vars

\* A queued request is worked on and a timer fires; pods that can start do.
FairSpec == Spec /\ WF_vars(ReconcileStep) /\ WF_vars(DeploymentReady)

-----------------------------------------------------------------------------
(* Properties.                                                              *)

\* The Runtime is reported Ready for its current specification, nothing is due, and
\* the last reconciliation was not cut off.  One that was, by a restart or by a failing
\* write of its status, is made up for if the stored status is Pending.  If it is Ready
\* or Failed, Reconcile stops, and nothing is claimed of the cluster.
Quiet ==
    /\ ~spec.forced /\ ~unfinished
    /\ status = [state |-> "Ready", gen |-> spec.gen]

Bound == {u \in Users : newContainsAdmin(u)}

\* When a Runtime is Ready and no user has changed the bindings since they were
\* listed, every administrator has a binding of KIM's, no binding of KIM's is
\* without an administrator, and, unless users added subjects, nobody else has
\* one: whatever failed or was cut off between the List, the deletions and the
\* creations of this and of earlier reconciliations.
AdministratorsBound ==
    Quiet /\ "crb" \notin touched =>
        /\ admins(spec) \subseteq Bound
        /\ \A b \in Bindings : b.managed /\ bindings[b] > 0 => b.users \cap admins(spec) # {}
        /\ ~shared => Bound = admins(spec)

\* When a Runtime with the OIDC extension is Ready, the managed OpenIDConnect
\* resources are those of its specification (or the default tenant's), in number
\* and content, but for those whose Create failed without being reported.
IssuersTrusted ==
    Quiet /\ extension /\ "oidc" \notin touched =>
        LET l == oidcConfigs(spec)
        IN  /\ DOMAIN oidc \subseteq DOMAIN l
            /\ DOMAIN l \ DOMAIN oidc \subseteq swallowed
            /\ \A id \in DOMAIN oidc : oidc[id] = l[id]

\* What the retry message of sFnConfigureSKR says: a failure to create a resource
\* is retried, so that none is missing once the Runtime is Ready.
NoIssuerMissing ==
    Quiet /\ extension /\ "oidc" \notin touched => DOMAIN oidc = DOMAIN oidcConfigs(spec)

\* When a Runtime is Ready, the bootstrapper's configuration is that of the
\* control plane and every document of the current manifests has been applied,
\* although only the Deployment's version label is compared: the Deployment is
\* the last document, so that an installation cut off before it is repeated.
BootstrapperInstalled ==
    Quiet => /\ conf = kcp.conf
             /\ \A d \in 1..Docs : docs[d] = kcp.manifests
             /\ info = spec.gen

\* No step of KIM takes the last binding from a user who is an administrator both
\* in the Runtime it works on and in the current one, unless the user was added to a
\* binding between its listing and its deletion, and none touches a binding that is
\* not KIM's.
AccessKept ==
    [][UNCHANGED tamper =>
         /\ \A u \in (admins(inst) \cap admins(spec)) \ mem.late :
              HasBinding(u) => HasBinding(u)'
         /\ \A b \in Bindings : ~b.managed => bindings'[b] = bindings[b]]_vars

\* Once edits, changes and faults have ended, the Runtime is Ready for its last
\* specification, or Failed because the Deployment does not progress or Gardener
\* refused the patch, or its last reconciliation was cut off without a trace in the
\* stored status.
Configured ==
    <>[](\/ Quiet
         \/ pc = "idle" /\ status.state = "Failed" /\ (refused \/ ~deployed.progressing)
         \/ pc = "idle" /\ status.state \in {"Ready", "Failed"} /\ unfinished)

=============================================================================
