# TLA+ models of the Kyma Infrastructure Manager

Kyma Infrastructure Manager (KIM) is a set of Kubernetes controllers that run in
the Kyma Control Plane (KCP).  They turn `Runtime` resources into Gardener shoots,
keep a kubeconfig Secret per cluster, and configure the cluster.  The code is
almost all control: every reconciliation reads a few objects, some of them from an
informer cache that trails the API server, decides, and writes one object at a
time.  The models keep that control and reduce the data (manifests, credentials,
names) to what the properties tell apart.

To run one configuration: `tlc -config RuntimeFSM_failures.cfg MCRuntimeFSM`; to
check the proofs: `tlapm AuditLogPoolProofs.tla` (and the other `...Proofs` modules).  `PROJECT.json` lists components,
runs, mutants, the mapping of definitions to source lines, findings and hazards.

## 1. Inventory

Two facts about the process shape everything.

* The client for the KCP cluster is the manager's: `Get` and `List` are served by
  informer caches, writes go to the API server with the resourceVersion that was
  read, and a stale one is refused with a conflict.  The client for the garden
  cluster is uncached.
* A workqueue never hands one object to two workers at once.  Different objects are
  reconciled in parallel (25 workers each for Runtimes and GardenerClusters).

| Part | State | Operations | Interacts with | Hard behaviour | Correct when |
|---|---|---|---|---|---|
| Runtime controller, `internal/controller/runtime/fsm` | the Runtime and its status, the shoot, the GardenerCluster CR, memory of one reconciliation | some twenty state functions `sFn...` | users, Gardener, GardenerCluster controller, audit log pool, registry cache | stale Runtime, several writes per function, failure at each, restart | no shoot outlives its Runtime, Ready tells the truth, no Runtime is forgotten |
| Audit log pool, `pkg/auditlog` | AuditLog CRs: reservation label, assignment, orphaned mark, state | reserve, claim, direct claim, look up, release | all Runtime workers, KALM (the audit log manager) | contention, lookups in a stale cache | a CR belongs to one Runtime, a shoot logs to its own CR |
| GardenerCluster controller, `internal/controller/kubeconfig` | GardenerCluster CR, kubeconfig Secret, requeue time | create, rotate, forced rotation, delete | Gardener, users, the Runtime controller | time, truncation, stale Secret, restart | no expired kubeconfig, Secrets go with their CR |
| Registry cache, `internal/controller/registrycache`, `internal/registrycache` | configs in the cluster, copy in the Runtime, Secrets in the garden, references in the shoot | fetch, sync (mark dirty, create), patch, clean up, delete all | users of the cluster, the Runtime controller | a change takes several calls and reconciliations | references name existing Secrets, with the current credentials |
| Config reload watcher, `internal/controller/configreload` | versions of shared ConfigMaps and Secrets, force annotation | list, annotate each, retry | operators, the Runtime controller | change during a reconciliation, annotation consumed early, restart | every Runtime ends up with the current configuration |
| Runtime bootstrapper, `internal/rtbootstrapper` | configuration objects, manifests and a Deployment in the cluster | validate, configure, look at the Deployment, apply | the Runtime controller, the reload watcher | one call per object, only a label is compared | installed and configured from current objects |
| Cluster role bindings and OIDC resources, in `fsm` | objects in the cluster | list, compare, delete, create | the Runtime controller, users of the cluster | delete-then-create, lost answers, shared error variables | administrators and issuers of the latest spec, access never lost on the way |
| Shoot converter and extenders, `pkg/gardener/shoot` | none of their own: they read the shoot | build the manifest for creation or patch | Runtime controller, Gardener | every patch depends on those before it; two writes | nothing in the shoot is taken back, patching is idempotent |
| Zones and networking, `hyperscaler` | none | compute subnets | converter | arithmetic | subnets disjoint, within the node network |
| Shoot details | a ConfigMap in the cluster | write | Runtime controller | | contents of the current Runtime |
| Structured authentication | a ConfigMap in the garden | create or update | Runtime controller | read then write | contents match spec |
| Status manager of registry caches, runtime watcher, metrics, start-up | display state, events, gauges | | | | |

## 2. Modules

| Module | Models |
|---|---|
| `RuntimeFSM` | one Runtime's reconciliation: one action per state function |
| `RuntimeLifecycle` | the abstract promise about a Runtime, its shoot and its kubeconfig |
| `RuntimeFSMProofs` | theorems about `RuntimeFSM`, the refinement among them |
| `AuditLogPool` | several Runtimes, the pool, KALM, the cache |
| `AuditLogOwnership` | the abstract promise of the pool |
| `AuditLogPoolProofs` | theorems about `AuditLogPool` |
| `KubeconfigRotation` | the GardenerCluster controller, with a clock |
| `KubeconfigRotationProofs` | theorems about `KubeconfigRotation` |
| `RegistryCacheSecrets` | credentials from the cluster to the shoot |
| `RegistryCacheSecretsProofs` | theorems about `RegistryCacheSecrets` |
| `ConfigReload` | the watcher composed with the consuming half of the Runtime controller |
| `ConfigReloadProofs` | theorems about `ConfigReload` |
| `HyperscalerZones` | subnets per zone, infrastructure and control plane configuration: operators |
| `HyperscalerZonesProofs` | theorem about the subnets |
| `ProviderExtender` | worker pools, zones, images, pod limits: operators over Runtime and shoot |
| `ExtensionsExtender` | extensions, DNS and Kubernetes version: operators |
| `ShootPatching` | a shoot over a series of edits and patches, composing the three |
| `ShootPatchingProofs` | theorems about `ShootPatching`, with the lemmas on the operators of the three |
| `ClusterConfiguration` | what a reconciliation does inside the cluster, call by call |
| `ClusterConfigurationProofs` | theorems about `ClusterConfiguration` |
| `MC...` | instances for TLC |

### RuntimeFSM and RuntimeLifecycle

`rt` is the Runtime on the API server, `cache` and `watch` the informer.
`inst`, `snap`, `sh` are the fields of `systemState`; `pc` is the next state
function.  A write succeeds only when `fresh` (the copy is the current version).
Where a function writes several objects it is split at the writes:
`sFnPatchExistingShoot` into the Update of the collections, `PatchBinding`,
`PatchApply` and `PatchDone`.  The spec is the number of its generation, plus the
last generation that changed a collection (workers, extensions), since those go to
the shoot by a different call.  The shoot is the generation annotation, its
collections, whether Gardener has observed its last change (`dirty`) and its last
operation.  Users edit, delete and annotate; Gardener starts and finishes
operations; the GardenerCluster controller makes and deletes kubeconfigs.
Conditions are reduced to the four that code tests.  `Scenarios` lists sets of
disturbances; a behaviour has one of them, `trouble`.  The environment moves while the
worker is idle and before the calls listed in `EnvironmentMoves`: the ones that read or write what the
environment writes, and the point between an apply without changes and the cluster, where
a restart makes a difference.  At the other points, a step of the environment can be moved
to one of these.

The removal of the force annotation is an Update of the whole Runtime in memory, whose
spec the conversion may have changed through pointers that it shares with the shoot
(image versions in `provider.go`, pod limits in `maxpods.go`).  With `"writeback"`,
`PatchDone` may therefore make a new generation.

`RuntimeLifecycle` has the phase of the Runtime, of the shoot and of the GardenerCluster
CR and the seven steps of a life: own, provision, connect, request deletion, disconnect,
decommission, release.  The mapping reads them off the stored objects; state functions,
caches and conditions are invisible.

### AuditLogPool and AuditLogOwnership

Every CR carries its reservation label, `AssignedToRuntimeID`, the orphaned mark,
KALM's state and a resourceVersion.  Each provider operation is split into its
cached reads (`...Lookup`, `...Find`) and its Update, between which other Runtimes,
KALM and the informer move.  `config[r]` is the CR whose data is in the shoot.
`AuditLogOwnership` has three actions, Reserve, Claim, Release, and no cache or
resourceVersion; the mapping reads owner and stage off the stored CRs.

### KubeconfigRotation

`now` is a clock in ticks, `Second` ticks a second.  A reconciliation takes its
time once (`start`), Gardener issues the kubeconfig at another, and the annotation
is cut to seconds (`Format`).  Time passes during a reconciliation (up to
`Timeout`) and while a CR is queued (up to `Slack`).  CR and Secret are cached
separately.  The constants stand for the rotation threshold (95 % of the rotation
period) and the expiration; `RotationAssumption` states the margin between them that
`NeverExpired` needs, and that a reconciliation (seconds) takes no longer than the
threshold (hours).  The Runtime controller deletes a shoot after its
GardenerCluster CR and creates the CR after the shoot, which is `KubeconfigDeletedFirst`
of `RuntimeFSM`; so does the environment here.

### RegistryCacheSecrets

Credentials are version numbers; garden Secrets are names in the order a List
returns them, and a generated name may be any free one.  Syncing is one step per
call (mark dirty, create), then the shoot is patched with the usable Secrets, and
unused ones are deleted in a later state function.

### ConfigReload

The watcher's loop lists Runtimes from the cache and applies the annotation with
the resourceVersion it has read, one Runtime per step.  The Runtime controller
appears with the steps that read configuration: the conversion reads the ACL, the
patch applies it, the annotation is removed, and only then the bootstrapper is
configured.  `Scenarios` lists sets of disturbances; a behaviour has one of them.
Failing status updates (`"status"`) are told from other failing calls (`"api"`), since
only after the former a Runtime whose annotation is gone may still say Ready.  A failing
conversion or patch has two outcomes: Pending and a retry (a Conflict, a Forbidden, patch
options that cannot be had), or Failed and no retry, with the annotation left
(`handleUpdateError`, errors of the conversion, the audit log and the structured
authentication ConfigMap).  The watcher skips a Runtime in the latter state.

### HyperscalerZones, ProviderExtender, ExtensionsExtender, ShootPatching

The converter is a pure function, but of the Runtime *and* of the shoot: a patch
generates zones only if the workers have new ones, keeps the order of the pools in
the shoot, takes over image versions that Gardener has raised, merges extensions by
type into the list it finds.  So the operators (the first three modules) are put
into a state machine (the fourth) in which every patch starts from what the ones
before left behind.

An address is a number and a network an address with a prefix length.
`generateZone` gives the subnets per provider, `generatorAccepts` the error returns.
`Size` stands for the powers of two, so that nothing but their ratio is used.
What operators add to the infrastructure configuration of AWS or Azure is, for the whole
configuration, one of two `Settings`: those that `NewInfrastructureConfigForPatch` copies,
and the others, which it overwrites (the CIDR of the VPC) or has no field for.
`less` and `sortWorkersToShootOrder` keep the comparison the code hands to
`sort.Slice`, which looks at the unsorted pools, and the insertion sort that Go does
for up to twelve of them.  `alignWorker`, `setMachineImage`, `reduceWorkerMaxPods` are the
per-worker functions; `mergeExtension` is a round of the loop in `newExtensionsExtender`.

In `ShootPatching`, `ConvertPatch` reads the shoot and converts;
`UpdateCollections` is the Update of workers and registry caches with a
resourceVersion; `ApplyPatch` the forced apply without one, which adds to lists but
removes nothing.  Gardener's admission (`Admit`), its upgrades and reordered zones,
operators and shoots older than KIM are the environment.  `settled` marks that the
last conversion was of the present Runtime and reached the shoot.

### ClusterConfiguration

From `sFnInitializeRuntimeBootstrapper` to `sFnApplyClusterRoleBindings`, with one
step per call to the cluster, and what decides whether a reconciliation gets there:
`Reconcile` (`sFnSelectShootProcessing`, which stops for a Ready or Failed Runtime whose
generation is applied, unless Gardener is at work), `sFnPatchExistingShoot`, which goes on
into the cluster without writing Pending when the shoot has not changed, and
`sFnUpdateStatus`.  In the cluster, `Configure` reads the objects in the control plane,
`applyResourcesToRuntimeCluster` copies them one by one, `InstallationInfo` looks at the
Deployment, `ApplyManifests` applies documents in order, then the OpenIDConnect
resources are deleted (`OidcDelete`) and created one by one, and bindings are listed,
deleted and created.  Each call may fail, or be executed although its answer is an
error; a restart may follow any of them.  `unfinished` records that the last reconciliation
that got to the cluster has not written its status.  Bindings have generated names and are
counted by what they say; those to be deleted (`mem.removed`) are known by their names, so
they stay marked when a user changes them, and `mem.late` records who was added to one.
`RuntimeFSM` has these functions as single steps that
succeed or fail; this module is their inside.

## 3. Runs

Passing runs and what they establish:

| Run | Properties | In words |
|---|---|---|
| `pool_contention` | `ConfigIsOwn`, `OrphanedOnlyOnDeletion`, `IInv`, `ImplementsOwnership` | two Runtimes race for two CRs with a cache one event behind and Updates that fail, with or without effect; ownership is never taken over |
| `fsm_failures` | `TypeOK`, `NoOrphanShoot`, `AppliedIsComplete`, `UnfinishedIsScheduled`, `KubeconfigDeletedFirst`, `ImplementsLifecycle` | the longest chain of functions (registry caches, audit log migration); users edit and delete while calls fail, KIM restarts, Gardener operations fail or kubeconfigs are made anew, or force a reconciliation that writes the spec back, with restarts |
| `fsm_ready` | `ReadyIsCurrent` | either Gardener operations fail and are repeated and users suspend patching, or the control plane migrates, kubeconfigs are made anew and the GardenerCluster CR comes from a stale cache |
| `fsm_settles` | `Settles` | liveness with edits, deletion and forced reconciliations that may write the spec back, see below |
| `rotation_faults` | `TypeOK`, `NeverExpired`, `SecretGoesWithCluster`, `ReadyHasKubeconfig`, `SyncNotAfterIssue`, `ForcedIsRotated` | either stale Secrets, a restart and forced rotations (the timing), or failing calls, CRs and shoots deleted and created anew (the errors) |
| `cache_faults` | `TypeOK`, `NoDanglingReference`, `NothingLeft`, `InSync` | failing calls, restarts, module off and on; credentials arrive, old ones too |
| `reload_faults` | `TypeOK`, `BootstrapperCurrent`, `NothingForgotten`, `EditsAreKept` | changes at any moment for two Runtimes; failing calls for one, with two changes or with an edit; failing calls and status updates, waiting and restarts for one |
| `shoot_edits` | `TypeOK`, `ZonesCovered`, `PodsFit`, `PatchIsStable`, `ExtensionsFollow`, `NothingTakenBack`, `ConfigKept` | up to three changes of a shoot of any provider; each scenario pairs providers with what happens: pools and failing writes, operators, reordered zones, shoots older than KIM, dual stack, images against upgrades, extensions |
| `cluster_faults` | `TypeOK`, `AdministratorsBound`, `IssuersTrusted`, `BootstrapperInstalled`, `AccessKept`, `Configured` | one edit, one change in the control plane, one by a user of the cluster, one failing call or restart, anywhere; with liveness |

The properties that hold only under a condition say so: `NeverExpired`,
`BootstrapperCurrent` and `InSync` speak of the scenarios named in their comments, `NothingTakenBack` and
`ConfigKept` of image versions and operators' settings without `"race"`,
`IssuersTrusted` sets aside the resources that `cluster_oidc` shows to go missing.
`AdministratorsBound`, `IssuersTrusted` and `BootstrapperInstalled` speak of a Ready Runtime
whose last reconciliation came to its end (`~unfinished`), also if earlier ones did not,
and `AccessKept` of users who were not added to a binding in the course of its deletion.
`BootstrapperCurrent` and `NothingForgotten` set aside Runtimes that a failing call made
Failed, and `ReadyIsCurrent`, for what is applied, the generations that KIM makes itself.

Three runs end in a counterexample: they state what a document of the repository says
and show how the code departs from it.

| Run | What happens |
|---|---|
| `pool_release` | a CR stays claimed by a Runtime that is gone, for instance when the flag was switched off before the deletion |
| `reload_acl` | an ACL change that falls between the conversion of the shoot and the removal of the annotation never reaches the shoot |
| `cluster_oidc` | of two OpenIDConnect resources the first fails to be created and the second succeeds: the error is overwritten, and the Runtime is Ready without its first issuer |

### Departures

The passing runs leave out the disturbances under which the code is known not to
keep a property.  Each line below was found with TLC by the change of constants in
the second column, or by the formula there; none is kept as a run.  Where a property
excludes a disturbance itself (`"race" \notin events`, `~disturbed`), the formula is the
property without that condition.

| What happens | How to see it |
|---|---|
| a cache that trails longer than a requeue delay leaves a Pending Runtime unscheduled | `UnfinishedIsScheduled`, `RuntimeFSM`, `Scenarios = {{"slow"}}` |
| a Pending Runtime whose control plane migrates is not looked at again | `UnfinishedIsScheduled`, `Scenarios = {{"migrate"}}` |
| a GardenerCluster CR that is not in the cache survives its Runtime | `ImplementsLifecycle`, `Scenarios = {{"gclag"}}` |
| Ready is written while Gardener has not observed the last patch, as the last operation is the one before | `[][rt'.st.state = "Ready" /\ rt.st.state # "Ready" => ~shoot.dirty]_vars`, `Scenarios = {{}}` |
| the administrators of an edit are not bound when the kubeconfig was not ready after the patch | `rt.st.state = "Ready" /\ ~Scheduled => admins = rt.gen`, `Scenarios = {{"kubeconfig"}}` |
| a Runtime reserves a second CR because its reservation is not in the cache | `crs[c].label = r /\ crs[d].label = r => c = d` in `AuditLogPool` |
| a shoot goes back to the shared audit log because the assignment is not in the cache | `[][config[r] # NoCR => config'[r] # NoCR]_vars` |
| the loser of a race for a CR is Failed and does not try another | weak fairness of `ReconcileStep` and `pc[r] = "reserve_update" ~> ...` |
| a request for rotation is acknowledged although the old kubeconfig stays | `ForcedIsRotated`, `KubeconfigRotation`, `Scenarios = {{"seclag"}}` |
| a cluster is Ready with an emptied Secret | `ReadyHasKubeconfig`, likewise |
| a restart leaves the Secret of a deleted CR | `SecretGoesWithCluster`, `Scenarios = {{"delete", "restart"}}` |
| changes in quick succession leave older credentials in the shoot | `InSync`, `RegistryCacheSecrets`, `Trouble = {"overlap"}` |
| so does a failure behind a replacement, which leaves two usable Secrets | `InSync` without `~disturbed`, `Trouble = {"api"}` |
| a reference without a name, after a failure and a return to old credentials | `NoDanglingReference`, `Trouble = {"revert", "overlap", "api"}` |
| bootstrapper settings are lost while a kubeconfig is waited for | `BootstrapperCurrent`, `ConfigReload`, a scenario with `trouble = {"kubeconfig"}` |
| so they are when the status cannot be written after the annotation is gone: the Runtime still says Ready, and the next reconciliation stops before the bootstrapper | `BootstrapperCurrent`, `trouble = {"status"}` |
| a change made while KIM is down is not noticed | `BootstrapperCurrent`, `trouble = {"restart"}` |
| a conversion or patch that fails for another reason than Conflict or Forbidden leaves the Runtime Failed with its force annotation, and the watcher skips it from then on | `NothingForgotten` without the disjunct on Failed, `trouble = {"api"}` |
| Ready is written for a generation that is not applied, after a forced reconciliation wrote the converted spec back; the next reconciliation applies it | `ReadyIsCurrent` without `"writeback"`, `RuntimeFSM`, `Scenarios = {{"force", "writeback"}}` |
| operators' settings that are not copied are lost when the configuration is generated anew: the CIDR of AWS's VPC (`provider_test.go:790` compares it before and after), and what KIM's copy of Azure's type has no field for | `"other" \in shoot.infra.tuned => "other" \in shoot'.infra.tuned` as an action property, `ShootPatching`, `On({"aws"}, {"pools", "operator"})` |
| on AWS a zone that stays gets other subnets when a pool with an earlier zone is removed or the pools' zones change order (`provider_test.go:636` has it that they should not change): all are generated anew in the order of the workers' zones | `NetworkingZonesKept`, `ShootPatching`, `On({"aws"}, {"pools"})` |
| a dual-stack shoot on AWS loses the load balancer controller when a zone is added, as the configuration for a patch is made without it | `shoot.infra.dualStack => shoot.cp.loadBalancerController`, `On({"aws"}, {"pools", "dual"})` |
| GCP's control plane is moved to another zone after Gardener stored the zones of the first pool in another order | `ConfigKept`, `On({"gcp"}, {"pools", "reorder"})` |
| so it is when the first pool has no zones and another pool's first zone changes | `ConfigKept` without `MainPoolHasZones`, `<<>>` among `ZoneLists`, `On({"gcp"}, {"pools"})` |
| an image version is lowered when Gardener upgrades it between KIM's read of the shoot and its forced apply | `NothingTakenBack`, `On({"openstack"}, {"images", "upgrade", "race"})` |
| an installation that is cut off is taken for complete if the Deployment is not the last document | `BootstrapperInstalled`, `ClusterConfiguration`, `DeploymentAt = 1` |
| new manifests with the old version label are not applied | `BootstrapperInstalled`, `Trouble = {"label"}` |
| a Deployment that fails blocks the manifests that would repair it, as an upgrade is looked for only when it is ready | `<>[]Quiet`, `Trouble = {"deploy"}`, `MaxKcp = 1` |
| every reconciliation withdraws all OpenIDConnect resources for the time between the deletion and the creations | `[][extension /\ oidc # <<>> => oidc' # <<>>]_vars` |
| a pass over the cluster that a restart or a failing status write cuts off is not made up for if the stored state is Ready, as it is after a forced reconciliation or an edit that leaves the shoot as it is: bindings, OpenIDConnect resources (all of them, behind the deletion) or the bootstrapper's objects stay as they were at that moment | `AdministratorsBound`, `IssuersTrusted`, `BootstrapperInstalled` without `~unfinished` in `Quiet`, the constants of `cluster_faults` |
| a user who is added to a binding after it was listed for deletion loses it again, though an administrator of the specification | `AccessKept` without `mem.late`, the constants of `cluster_faults` |
| a removed administrator keeps access if users added a second subject, still an administrator, to the binding | `AdministratorsBound` without `~shared`, `Trouble = {"share"}` |

Every property of a passing run has a mutant in `PROJECT.json`: a definition is
replaced by a plausible mistake (defined next to it and marked `mutant`) and the
property must then fail.

### Bounds

* `MaxGen = 2`: a Runtime as created and one edit, in the scenarios with `"edit"` (deletion
  is a third generation).  The scenarios of a run pair an edit with one or two
  disturbances each; the theorems hold for all of them together.
  What can go wrong with an edit is that it is missed by a reconciliation in
  progress, or that two calls apply different generations; two suffice for both.
* `MaxWatchLag = 1` in passing runs: a stale copy is refused whatever its age, so
  one undelivered version is enough to be stale.  For the pool the theorems hold for
  any lag.
* Two Runtimes and two CRs: contention is between two; a second CR is needed for a
  Runtime to hold two.  One region, so that Runtimes and CRs are symmetric: that a CR
  serves the region of its Runtime is left to the theorem, which holds for any regions.
* `MaxTime` covers at least one rotation period after the first rotation, with
  durations whose ratios leave the margin of `RotationAssumption` barely satisfied.
* `MaxVersion = 3`, four names: two replacements of one Secret while an old one is
  still there.
* `MaxConfig`, `MaxSpec`: two changes of a configuration object, one of which falls
  into the reconciliation that the other caused, with one Runtime and failing calls; one
  change of each object for two Runtimes; one change and one concurrent edit with failing
  calls, and with everything that goes wrong.
* `MaxEdits = 3` and `MaxVersion = 3` in `ShootPatching`: a pool can be added, given another
  zone and removed, with a patch after each; five zones, so that the fourth of AWS, from
  which on subnets are smaller, and one more are reached.  A scenario names the
  providers and the events it is about, because events of unrelated parts of the
  manifest (pools, images, extensions) do not meet in any formula of the code.
* One edit, one change in the control plane, one by a user of the cluster and
  `MaxFaults = 1` in `ClusterConfiguration`: a failure at any call, with the specification
  changed before or after it.  An edit may replace all administrators, which it takes for a
  user to be added to a binding that is about to be deleted.  Two documents and two
  configuration objects, as a prefix has to be told from the whole; the theorems hold
  for any numbers.
* The environment calms down (`"calm"`) only in the liveness run: calm behaviours
  are among the others as far as safety goes.

Deadlock is not checked: a system with nothing to do stops, and bounded users stop.

### Fairness

`FairSpec` of `RuntimeFSM` assumes that workers take queued Runtimes and finish
(`WF` of `Reconcile \/ StateFn`; every call has a context and returns), that timers
fire, watch events arrive, and that Gardener and the GardenerCluster controller
finish what they start.  Nothing is assumed of users, restarts or errors.
A generation that KIM makes by writing the spec back counts as an edit for `Settles`; the
bound on generations ends it, and in the code that the conversion has nothing to change in
a spec that it has written.  `Settles` says: once edits, failing calls and failing operations have stopped
(`calm`), the Runtime is gone, Failed, or Ready with its last edit and its force
annotation worked off.

`FairSpec` of `ClusterConfiguration` assumes the same of the worker (`WF` of
`ReconcileStep`: queued requests are taken, calls return, requeue timers fire) and that a
Deployment that progresses becomes ready.  Edits, faults and restarts are bounded and not
fair.  The Deployment controller is assumed to report progress before KIM's requeue after
30 seconds.  `Configured` says that the Runtime ends up Ready for its last specification,
or Failed with a Deployment that does not progress or a patch that was refused for good,
or that its last pass over the cluster was cut off with Ready or Failed stored; this is
where a dropped retry in any of the calls would show.

## 4. Proofs

`AuditLogPoolProofs` proves, for any set of Runtimes and CRs, any regions and any
lag of the cache:

* `Invariance`: `Spec => []IInv`;
* `ConfigIsOwnAlways`: a shoot's dedicated configuration is that of a CR of its own
  Runtime, in its region;
* `OrphanedOnlyOnDeletionAlways`: only a deleted Runtime's CR is orphaned;
* `PoolImplementsOwnership`: `Spec => Ownership!Spec`.

They rest on `PoolAssumption` only (`NoRuntime` and `NoCR` are not elements of the
sets; CRs start unassigned).

The argument.  Neither property is inductive, because decisions are made on copies.
`IInv` adds what makes a copy trustworthy: every copy in the cache, in the watch or
in the hands of a worker is a `VersionOf` the stored CR, that is, not newer, equal if
it has the same resourceVersion, and right about the owner if it names one
(ownership never changes once set).  `CandInv` says what a worker has established
about the copy it is about to write.  An accepted Update has the current
resourceVersion, so the copy is the stored CR, and what was established holds of it.
`PoolStep` states once what any write may do to a stored CR; `StoreIsPoolStep` and
`UpdateIsPoolStep` show that each write is such a step, `PoolStepInv` that such a step
preserves the invariants on all copies.  `Frame` confines each action to its own
Runtime.  The refinement follows from the same lemmas: of all actions only the four
Updates change owner or stage, and each is the abstract action of its kind.

TLC checks all four formulas in `pool_contention`.

`RuntimeFSMProofs` proves, for any number of edits, any lag of the informer and any set of
scenarios, from `FSMAssumption` and `AbsentAssumption` (what stands for "no object" is
no object):

* `FSMTypeCorrect`, `NoOrphanShootAlways`, `AppliedIsCompleteAlways` and the action property
  `ReadyIsCurrentAlways`, all four from `Invariance`: `Spec => []Inv`, in every scenario;
* `KubeconfigDeletedFirstAlways` and the refinement `FSMImplementsLifecycle`, in scenarios
  without `"gclag"`;
* `UnfinishedIsScheduledAlways`, in scenarios without `"slow"` and `"migrate"`.

The excluded disturbances are those of the table of departures: with them the formulas are
false.  `Inv` has three layers.  `History` orders the versions that the informer knows of:
from one to the next the finalizer is not taken away except with the Runtime, a deletion is
not taken back, the generation does not fall and determines the collections (`Later`).
`Memory` ties the worker's copy to them: it is an earlier or the stored version of the
Runtime, one that the cache held until `PatchDone` puts its own in its place, and if `fresh`
it is the stored one but for the status.  This is what makes a decision on an old copy safe:
whatever an old version says of finalizer and deletion still holds.  `Places` says which
state function may be entered with which shoot (in `create_shoot` there is none, and the
finalizer is set), `Releases` and `DeletedOnRequest` that a finalizer or a shoot goes only
for a deletion that every reader has seen; with these `NoOrphanShoot` is inductive.
`AppliedInv` follows the two writes of a patch: until the annotation is written the
collections may be ahead of it, never behind; a generation that the write-back makes has
the collections of the one before.  `StatusInv` says from where on a status in
memory is not the one that was read; a Ready in memory is an old one or has been earned,
where what is earned is the applied generation, unless `PatchDone` has made another.
The fifteen functions for a live shoot are all a `LiveStep`, which is what the invariants
are shown to survive; the others are treated one by one.

For the refinement, `StepOfLife` lists what a step may do to Runtime, shoot and CR; each
action is shown to be such a step, and each such step to be one of `RuntimeLifecycle` or a
stutter.  It needs `AccessInv`, that `delete_shoot` is entered without a CR.  For
`UnfinishedIsScheduled`, `ScheduleInv` says that without a timer the status of an unfinished
Runtime is known to every copy (so that no reader takes it for finished), and that a
function that stops leaves a finished status.

`KubeconfigRotationProofs` proves, from `RotationAssumption` and `NoneAssumption`, for any
durations, lags and numbers of requests and restarts:

* `RotationTypeCorrect`, `SyncNotAfterIssueAlways` and the action property
  `ForcedIsRotatedAlways`, from `RotationInvariance`;
* `SecretGoesWithClusterAlways` and `ReadyHasKubeconfigAlways`, from `EventInvariance`;
* `NeverExpiredAlways`, from `TimingInvariance`.

`BaseInv` says what a reconciliation in each of its steps has in hand, and that a copy of
the Secret with the current version is the Secret.  `EventInv` is about events: the
GardenerCluster is quiet only if the cache, the worker and the API server agree on whether
there is a CR, because every difference is under way (`Announced`) or queued.  `TimingInv`
is the timetable, in terms of the age of the kubeconfig: the timer fires at most
`Threshold + Timeout` after it was issued, a request that waits was made by `Late` (which
grows with each restart), the reconciliation that serves it starts `Slack` later at most,
and a kubeconfig that is not renewed by a reconciliation that has got to its end was
younger than `Threshold` at its start.  Two things make this more than a sum.  Caches
trail: a reconciliation may decide on an older Secret, which only errs towards rotating
(`Older`: no version of the Secret anybody holds was synced after the present kubeconfig
was issued).  And `nextRequeue` is computed from the last sync before this rotation.  The margin in
`RotationAssumption` is then what is needed.

`RegistryCacheSecretsProofs` proves, from `CacheAssumption` and `NoneAssumption`, for any
caches, credentials and names:

* `CacheTypeCorrect` and `NothingLeftAlways`, with all troubles;
* `NoDanglingReferenceAlways`, if `"overlap"` or `"revert"` is not among the troubles;
* `InSyncAlways`, without `"overlap"`.

A reference dangles if a Secret labelled dirty again holds what its cache asks for:
`GardenSecretSyncer.Do` then creates none, and the labelled one is neither usable nor kept.
`LabelInv` excludes that for two different reasons.  Users who wait (`WaitInv`) see every
label gone before they change anything.  Users who never return to older credentials
(`AdvanceInv`) make sure that labelled Secrets hold older ones than any copy of the
configuration on its way to the shoot.  With neither the property is false, as the table of
departures has it; the proof shows that it takes both disturbances.  `RefInv` carries
through the steps that a cache visited by `Do` has a usable Secret.  `SyncInv` adds for
`InSync` that without failing calls a cache has one usable Secret.

`ConfigReloadProofs` proves, for any Runtimes and any scenarios, from `ReloadAssumption`:

* `ReloadInvariance`: the type invariant and `CopyIsCurrent`;
* `EditsAreKeptAlways`: the watcher, which applies a whole Runtime with force, never takes
  back an edit;
* `NothingForgottenAlways` and `BootstrapperCurrentAlways`, from `WorkInvariance`.

The watcher's copy may be old when it is applied.  `CopyIsCurrent` says that a listed copy
whose version is still the stored one (`wfresh`) has the stored specification; an accepted
apply then writes back the specification that is there, and a stale copy is refused.

`WorkInv` says of every Runtime that, unless an event, the queue or a timer has it
reconciled again, the annotation and the specification have got as far as the step of the
reconciliation implies (`Stage`), that what the cache does not have is announced (`Lag`),
and that a Pending Runtime is due (`PendingIsDue`).  A Failed Runtime is not, so a
reconciliation that nothing follows may leave it only as Failed as it found it
(`FailedSeen`), a Ready Runtime with something left to do must be known as Ready to the
cache (`ReadySeen`; one that read an older Failed and ends in Failed would write nothing and
leave it Ready), and only failing calls make a Runtime Failed (`FailedByFault`).  `Current` and `LastWritten` are about
conflicts: a copy that can still be written is as the Runtime is, and if a Ready Runtime
has a specification that is not applied, that edit was the last write.  `BootInv` is the
hand-over behind `BootstrapperCurrent`: a Runtime without the current settings is
announced by the watcher (a change not seen, queued or being worked off) or owed them by a
reconciliation (`Owed`: annotated, edited, Pending or Failed, or with a copy that will make
it so).

`ClusterConfigurationProofs` proves, from `ClusterAssumption`, for any users, issuers,
specifications, numbers of documents and objects, and any bounds on edits, faults and
restarts:

* `TypeCorrect`: `Spec => []TypeOK`;
* `AdministratorsBoundAlways`;
* `AccessKeptAlways`, an action property;
* `IssuersTrustedAlways`;
* `BootstrapperInstalledAlways`, if `DeploymentAt = Docs` and `"label"` is not among the
  troubles; nothing in the code sees to either, and without one of them it is false.

`SafeInv` is the inductive invariant.  `AdministratorsBound` speaks of the end of a
reconciliation, so the invariant has to carry what the List
established through the deletions and creations that follow: `TrackInv` says that, unless
a user changed the bindings since, every administrator has a binding or is about to get
one, and KIM's bindings without an administrator are exactly those still to be deleted,
or gone once the deletions are over.  A reconciliation may end anywhere without a trace in
the status; `WorkInv` says that it is then recorded as `unfinished`, until one that gets to
its end writes its status for the Runtime it has read.  `RemovedInv` says that no binding to
be deleted has an administrator of the copy among its subjects but those added `late`, which
gives `AccessKept`; `MarkInv` that what is marked for deletion is still there, whatever
users have done to it.
`SingleInv` says that as long as nobody has shared a binding each has one subject, which
turns "somebody in the binding is an administrator" into "everybody is".  `ReadyInv`
holds the conclusion from the status write until the next event.  `LoopInv` bounds the
positions in the loops; `TypeOK` is not inductive without it.

`OidcInv` adds for the issuers that, from the DeleteAllOf on, the resources are those
specified up to the place in the loop, but for the swallowed ones.  `BootInv` adds for the
bootstrapper that, unless the control plane has changed and a reconciliation is queued, the
configuration is copied up to the place in the loop (`ConfInv`), and an order on the documents
(`DocsInv`): none is older than the Deployment, as it is applied last, and none newer than the
manifests, which are told by their label.  So a Deployment with the current label has only
current documents beside it, also when an earlier installation was cut off half way
and the manifests have changed since.

`HyperscalerZonesProofs` proves from `SizeAssumption` (a prefix one bit longer halves a
network):

* `GeneratedSubnetsFit`: for every node network and list of zones that a generator
  accepts, the subnets of AWS, Azure, Alicloud and GDCH are within the network and disjoint.

The generators only check that the first address of a subnet is in the network, and
the network may be written with any of its addresses (`10.250.7.0/16`).  The argument is
alignment: every subnet begins at a multiple of its size, which divides the size of the
network, so a subnet that begins inside ends inside (`AlignedInside`).  Disjointness is
arithmetic on places in units of the smallest subnet (`AwsApart`), where the three large
zones of AWS meet the small ones from the fourth on.  `ZonesCovered` checks the same on one
network together with the zones that a series of patches asks for.

`ShootPatchingProofs` proves, from `SizeAssumption`, `ProviderAssumption`,
`ExtensionsAssumption` and `ShootAssumption`, for every provider, any lists of pools, zones
and images, any networks, any number of edits and patches and all events together:

* `ShootTypeCorrect`, `ZonesCoveredAlways`, `PodsFitAlways`, `PatchIsStableAlways` and
  `ExtensionsFollowAlways`, from `InvAlways`: `Spec => []Inv`;
* the action properties `NothingTakenBackAlways` and `ConfigKeptAlways`.

The converter's loops are folds over lists, and what a fold computes takes an induction.
The library's induction theorems have an operator as a parameter, which the provers cannot
instantiate, so the induction is done with sets: `Least` (a set of numbers has a least
element) follows from the library's `WFMin`, whose parameters are sets, and gives `Upwards`
and `Downwards` for the set of places up to which something holds.
`FoldExists` shows that the function which the folds of the community modules choose exists,
and `LeftSteps` and `RightSteps` turn a fold into a sequence of steps.  On these rest the
lemmas on each loop:

* `SortIs`: the comparison that `sortWorkersToShootOrder` hands to `sort.Slice` looks at the
  unsorted pools, so the insertion sort does not sort; it reverses every longest run of
  pools each of which comes before its predecessor in the shoot.  This is a permutation
  (`SortedPools`) that leaves the main pool in front (`SortMain`), and a sort by the order
  that the sort before has left in the shoot has the same result (`SortStable`).
* `CapIs`: `ApplyMaxPodsWithTotalCap` brings the sum under the limit unless it returns an
  excess, which is an error, and cuts a pool only if all behind it are down to one pod.
* `AlignedAgrees` and `AgreedStays`: pools that were aligned with the shoot and stored agree
  with it, and what agrees is not changed by the next alignment.
* `ForPatchIs`, `ApplyOnIs`: what a patch and an apply make of the extension of each type.
* `ConfigForPatchIs`: the zones of the shoot and of the Runtime have subnets after the
  conversion if those of the shoot had them before; `GeneratedSubnetsFit` gives the rest.

None of the properties is inductive, because a patch takes two writes and others write to
the shoot between them.  `Inv` has `Good` for the stored shoot (its zones are covered, its
limits fit, extensions are well-formed, and unless zones are reordered the main pool is in front), and for the time of a
patch how far the shoot can be from the copy that was read and from the manifest:
`Patching` (both are good, and the manifest grows from the copy), `Updating` (before the
Update the shoot has the pools and zones of the copy) and `Applying` (after it those of the
manifest, so that the apply brings no zone without its subnets; and the manifest has all of
KIM's extensions that the shoot has, so that the apply, which removes none, leaves none
over).  `Following` and `Reached` are for `PatchIsStable`: unless the Runtime is edited
meanwhile, a patch ends in a shoot with which the Runtime `Agrees`, and such a shoot is a
fixed point of the conversion (`StableIs`).  Users' edits, changes by others (`Touched`)
and KIM's four steps are each shown to keep all of it.  The invariant was checked by TLC on
the instance of `shoot_edits` before it was proved.

As the model of the sort is Go's for up to twelve pools, so far go the theorems that depend
on the order of pools.  The proof has about 6000 obligations and takes some ten minutes.

All invariants and action properties that the passing runs check are now proved; the
inductive invariants were checked by TLC on the instances of the runs first.
Trying to prove them corrected the model in these places.

* `BootstrapperCurrent` was claimed for failing status updates too; the invariant could not
  be closed there, and TLC found the behaviour that is now in the table of departures.
* `NeverExpired` was claimed for CRs that are deleted and created anew, which may meet the
  Secret of their predecessor before they are reconciled; and `RotationAssumption` did not
  say that a reconciliation is shorter than the rotation period.
* `ConfigKept` was claimed for main pools without zones, and TLC found that GCP's control
  plane then follows the first zone of another pool.
* What stands for a missing object (`Gone`, `None`) was not assumed to be none.
* Three type invariants had an implication that took in the conjuncts behind it.

Only model-checked: liveness (`Settles`, `Configured`), as the prover has no support for
fairness, and the formulas in the table of departures, which are false.

## 5. Plan

1. Done: the modules above; the theorems of section 4.
2. What would come next: the order of the pools for more than twelve of them, which takes a
   model of Go's pattern-defeating quicksort with a comparison that is no order; the
   structured authentication ConfigMap, if a second writer is ever added.

## 6. Not modelled

* Extenders that copy a field of the Runtime or a constant into the manifest (labels,
  tolerations, feature gates, maintenance window, networking, purpose, seed selector,
  gVisor): no state and no dependence on the shoot.
* Structured authentication: a ConfigMap in the garden with one writer per Runtime that
  KIM does not read back.
* The validation of the bootstrapper's configuration, flags and file parsing: done once
  at start, and the process does not start if it fails.
* Registry cache status conditions, metrics, logs: no decision reads them.
* The runtime watcher: it only wakes the registry cache controller, which the model
  lets run at any time.
* The shared audit log configuration: a lookup in a map that is loaded at start.
* The table of Gardener's error codes: whether an error can be retried is a choice of
  the model.
* Gardener, KALM, the API servers, informers and the Deployment controller: modelled as
  KIM sees them, marked external in the mapping.
* `hack/credentialbindings`, a one-off script; generated deep copies.
