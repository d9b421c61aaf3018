---------------------------- MODULE ShootPatching ----------------------------
(***************************************************************************)
(* A shoot over a series of edits of its Runtime: what the converter makes *)
(* of the Runtime and of the shoot as it is, and how                       *)
(* sFnPatchExistingShoot brings that to Gardener, in two writes (an Update *)
(* that replaces collections, then an apply of the whole manifest) either  *)
(* of which may fail.  Every patch starts from what the ones before left   *)
(* behind; meanwhile Gardener upgrades versions and operators change the   *)
(* shoot.                                                                  *)
(***************************************************************************)
EXTENDS ProviderExtender, ExtensionsExtender, FiniteSets

CONSTANTS
    FirstPools,  \* pools a Runtime may be created with, each a sequence of worker pools
    PoolChoices, \* worker pools users add
    ZoneLists,   \* zones users give a pool
    Images,      \* images users give a pool
    Scenarios,   \* what a behaviour is about: [clouds, events], one of these
    MaxVersion,  \* bound: versions of Kubernetes and of machine images
    MaxEdits     \* bound: changes to the Runtime or, by others, to the shoot

\* Users change "pools", "images", "wants"; Gardener upgrades ("upgrade") and may
\* store the zones of a pool in another order ("reorder"); operators change the
\* configuration of the infrastructure and add extensions ("operator"); calls fail
\* ("api"); others write the shoot between KIM's read and its write ("race"); the
\* shoot dates from before zones and custom domains ("legacy"), or has "dual" stack.
Events == {"pools", "images", "wants", "upgrade", "reorder", "operator", "api", "race",
           "legacy", "dual"}

Strategy == "AutoRollingUpdate"

Worker(images, strategies) ==
    [name: STRING, zones: Seq(Nat), image: images, pods: Nat \cup {None}, strategy: strategies]

\* A worker pool in the spec of a Runtime.
WorkerPool == Worker(Image \cup {None}, {Strategy, None})

Infrastructure ==
    [zones: Seq([name: Nat, tuned: BOOLEAN,
                 nets: [{"workers"} -> Network] \cup
                       [{"workers", "public", "internal"} -> Network]]),
     dualStack: BOOLEAN, tuned: SUBSET Settings]

\* A shoot; Gardener leaves no pool without a strategy.
Manifest(strategies) ==
    [workers: Seq(Worker(Image, strategies)),
     infra: Infrastructure, cp: [zone: Nat, loadBalancerController: BOOLEAN],
     extensions: Seq([type: Known \cup {"foreign"}, enabled: BOOLEAN, config: Nat]),
     dns: 0..1, version: 1..MaxVersion]

NamesDiffer(workers) ==
    \A i, j \in 1..Len(workers) : workers[i].name = workers[j].name => i = j

ASSUME ShootAssumption ==
    /\ Scenarios \subseteq [clouds: SUBSET Providers, events: SUBSET Events]
    /\ MaxVersion \in Nat /\ DefaultVersion <= MaxVersion /\ MaxEdits \in Nat
    /\ FirstPools \subseteq Seq(WorkerPool) /\ \A pools \in FirstPools : NamesDiffer(pools)
    /\ PoolChoices \subseteq WorkerPool /\ ZoneLists \subseteq Seq(Nat)
    /\ Images \subseteq Image \cup {None}
    /\ None \notin Infrastructure \cup Manifest({Strategy, None}) \cup {Strategy}

VARIABLES
    rt,       \* spec.shoot.provider of the Runtime, see ProviderExtender
    want,     \* the rest of what is asked for, see ExtensionsExtender
    shoot,    \* the shoot in Gardener, None before it is created
    pc,       \* the step of the reconciliation
    read,     \* s.shoot: the shoot as read
    new,      \* the converted manifest
    events,   \* what happens, constant
    edits,    \* changes so far
    settled,  \* ghost: patched, and nothing edited since the conversion
    given     \* ghost: zones with the subnets they have got

memVars == <<pc, read, new>>
vars == <<rt, want, shoot, memVars, events, edits, settled, given>>

\* Gardener's admission sets the update strategy of a pool that has none.
Admit(workers) ==
    [i \in 1..Len(workers) |->
        [workers[i] EXCEPT !.strategy = IF @ = None THEN Strategy ELSE @]]

NoWants == [egress |-> FALSE, ingress |-> FALSE, acl |-> FALSE, nvidia |-> FALSE,
            caches |-> 0, audit |-> 0, version |-> 0]

Init ==
    /\ \E s \in Scenarios :
         /\ events = s.events
         /\ rt \in [provider: s.clouds, workers: FirstPools, dualStack: {"dual" \in s.events}]
    /\ want = NoWants /\ shoot = None
    /\ pc = "idle" /\ read = None /\ new = None
    /\ edits = 0 /\ settled = FALSE /\ given = {}

Subnets(s) == {<<z.name, z.nets>> : z \in ToSet(s.infra.zones)}

\* Every write of the shoot goes through here.
Store(s) == shoot' = s /\ given' = given \cup Subnets(s)

-----------------------------------------------------------------------------
(* Users.                                                                   *)

Edit(event) ==
    /\ event \in events /\ edits < MaxEdits
    /\ edits' = edits + 1 /\ settled' = FALSE
    /\ UNCHANGED <<shoot, memVars, events, given>>

PoolNames == {rt.workers[i].name : i \in 1..Len(rt.workers)}

\* The main pool is always the first and cannot be removed.
AddPool ==
    /\ \E w \in PoolChoices, i \in 2..(Len(rt.workers) + 1) :
         /\ w.name \notin PoolNames
         /\ rt' = [rt EXCEPT !.workers = InsertAt(@, i, w)]
    /\ Edit("pools") /\ UNCHANGED want

RemovePool ==
    /\ \E i \in 2..Len(rt.workers) : rt' = [rt EXCEPT !.workers = RemoveAt(@, i)]
    /\ Edit("pools") /\ UNCHANGED want

SetZones ==
    /\ \E i \in 1..Len(rt.workers), zones \in ZoneLists :
         /\ zones # rt.workers[i].zones
         /\ rt' = [rt EXCEPT !.workers[i].zones = zones]
    /\ Edit("pools") /\ UNCHANGED want

SetImage ==
    /\ \E i \in 1..Len(rt.workers), image \in Images :
         /\ image # rt.workers[i].image
         /\ rt' = [rt EXCEPT !.workers[i].image = image]
    /\ Edit("images") /\ UNCHANGED want

SetVersion ==
    /\ \E v \in 0..MaxVersion : v # want.version /\ want' = [want EXCEPT !.version = v]
    /\ Edit("images") /\ UNCHANGED rt

\* The audit log tenant changes with the migration to a dedicated one.
SetWants ==
    /\ \/ \E f \in {"egress", "ingress", "acl", "nvidia"} : want' = [want EXCEPT ![f] = ~@]
       \/ want' = [want EXCEPT !.caches = 1 - @]
       \/ want.audit < 2 /\ want' = [want EXCEPT !.audit = @ + 1]
    /\ Edit("wants") /\ UNCHANGED rt

-----------------------------------------------------------------------------
(* Gardener and operators.                                                  *)

\* A change of the shoot by somebody else.
Change(event, s) ==
    /\ event \in events /\ edits < MaxEdits
    /\ shoot # None /\ (pc # "idle" => "race" \in events)
    /\ edits' = edits + 1
    /\ Store(s)
    /\ UNCHANGED <<rt, want, memVars, events, settled>>

Upgrade ==
    \/ /\ shoot # None /\ shoot.version < MaxVersion
       /\ Change("upgrade", [shoot EXCEPT !.version = @ + 1])
    \/ /\ shoot # None
       /\ \E i \in 1..Len(shoot.workers) :
            /\ shoot.workers[i].image.version < MaxVersion
            /\ Change("upgrade", [shoot EXCEPT !.workers[i].image.version = @ + 1])

ReorderZones ==
    /\ shoot # None
    /\ \E i \in 1..Len(shoot.workers) :
         /\ Len(shoot.workers[i].zones) > 1
         /\ Change("reorder", [shoot EXCEPT !.workers[i].zones = Reverse(@)])

Tune ==
    \/ /\ shoot # None
       /\ \E c \in Settings \ shoot.infra.tuned :
            Change("operator", [shoot EXCEPT !.infra.tuned = @ \cup {c}])
    \/ /\ shoot # None
       /\ \E i \in 1..Len(shoot.infra.zones) :
            /\ ~shoot.infra.zones[i].tuned
            /\ Change("operator", [shoot EXCEPT !.infra.zones[i].tuned = TRUE])

Foreign == Extension("foreign", TRUE, 1)

AddExtension ==
    /\ shoot # None /\ ~Contains(shoot.extensions, Foreign)
    /\ Change("operator", [shoot EXCEPT !.extensions = Append(@, Foreign)])

-----------------------------------------------------------------------------
(* sFnCreateShoot and sFnPatchExistingShoot.  A conversion that fails       *)
(* leaves everything as it is.                                              *)

Fault == "api" \in events

CreateShoot ==
    /\ shoot = None /\ "legacy" \notin events /\ createAccepts(rt)
    /\ LET p == ProviderForCreate(rt)
       IN  Store([workers |-> Admit(p.workers), infra |-> p.infra, cp |-> p.cp,
                  extensions |-> ExtensionsForCreate(rt.provider, want),
                  dns |-> DNSForCreate, version |-> KubernetesVersion(want, 0)])
    /\ UNCHANGED <<rt, want, memVars, events, edits, settled>>

\* A shoot that was made before KIM: Azure without zones, DNS without providers.
LegacyShoot ==
    /\ shoot = None /\ "legacy" \in events /\ createAccepts(rt)
    /\ LET p == ProviderForCreate(rt)
       IN  Store([workers |-> Admit(p.workers), cp |-> p.cp,
                  infra |-> IF rt.provider = "azure" THEN [p.infra EXCEPT !.zones = <<>>]
                            ELSE p.infra,
                  extensions |-> <<Extension("dns", TRUE, 0)>>,
                  dns |-> 0, version |-> KubernetesVersion(want, 0)])
    /\ UNCHANGED <<rt, want, memVars, events, edits, settled>>

Convert(r, w, s) ==
    LET p == ProviderForPatch(r, s)
    IN  [workers |-> p.workers, infra |-> p.infra, cp |-> p.cp,
         extensions |-> ExtensionsForPatch(r.provider, w, s.extensions),
         dns |-> DNSForPatch(s.dns), version |-> KubernetesVersion(w, s.version)]

ConvertPatch ==
    /\ pc = "idle" /\ shoot # None /\ patchAccepts(rt, shoot)
    /\ read' = shoot /\ new' = Convert(rt, want, shoot)
    /\ pc' = "update" /\ settled' = TRUE
    /\ UNCHANGED <<rt, want, shoot, events, edits, given>>

\* registrycache.HasRegistryCacheCountChanged: a first cache is no change.
HasRegistryCacheCountChanged ==
    /\ Find(read.extensions, "registry-cache") # 0
    /\ existingExtension(read.extensions, "registry-cache").config
         # existingExtension(new.extensions, "registry-cache").config

\* mutant: the configuration of the zones is left to the apply that follows
withoutConfig(s) == [s EXCEPT !.workers = Admit(new.workers)]

withWorkers(s) ==
    [s EXCEPT !.workers = Admit(new.workers), !.infra = new.infra, !.cp = new.cp]

\* The collections are replaced by an Update, which conflicts if the shoot has
\* changed since it was read.
UpdateCollections ==
    LET workersChanged == read.workers # new.workers
        replaced == IF workersChanged THEN withWorkers(read) ELSE read
    IN  /\ pc = "update"
        /\ \/ /\ ~workersChanged /\ ~HasRegistryCacheCountChanged
              /\ pc' = "apply" /\ UNCHANGED <<read, new, shoot, settled, given>>
           \/ /\ workersChanged \/ HasRegistryCacheCountChanged
              /\ shoot = read
              /\ Store(IF HasRegistryCacheCountChanged
                       THEN [replaced EXCEPT !.extensions = new.extensions] ELSE replaced)
              /\ pc' = "apply" /\ UNCHANGED <<read, new, settled>>
           \/ /\ (workersChanged \/ HasRegistryCacheCountChanged) /\ (shoot # read \/ Fault)
              /\ pc' = "idle" /\ read' = None /\ new' = None /\ settled' = FALSE
              /\ UNCHANGED <<shoot, given>>
        /\ UNCHANGED <<rt, want, events, edits>>

\* An apply adds to a list and changes its members, but removes none.
Applied(list) ==
    FoldLeft(LAMBDA l, e : mergeExtension(l, e.type, e, FALSE), list, new.extensions)

\* The forced apply of the manifest, without a resourceVersion.  Gardener refuses
\* an older version of Kubernetes.
ApplyPatch ==
    /\ pc = "apply"
    /\ \/ /\ new.version >= shoot.version
          /\ Store([new EXCEPT !.workers = Admit(@), !.extensions = Applied(shoot.extensions)])
          /\ UNCHANGED settled
       \/ /\ Fault \/ new.version < shoot.version
          /\ settled' = FALSE /\ UNCHANGED <<shoot, given>>
    /\ pc' = "idle" /\ read' = None /\ new' = None
    /\ UNCHANGED <<rt, want, events, edits>>

Next ==
    \/ AddPool \/ RemovePool \/ SetZones \/ SetImage \/ SetVersion \/ SetWants
    \/ Upgrade \/ ReorderZones \/ Tune \/ AddExtension
    \/ CreateShoot \/ LegacyShoot \/ ConvertPatch \/ UpdateCollections \/ ApplyPatch

Spec == Init /\ [][Next]_vars

-----------------------------------------------------------------------------
(* Properties.                                                              *)

TypeOK ==
    /\ rt \in [provider: Providers, workers: Seq(WorkerPool), dualStack: BOOLEAN]
    /\ want \in [egress: BOOLEAN, ingress: BOOLEAN, acl: BOOLEAN, nvidia: BOOLEAN,
                 caches: 0..1, audit: 0..2, version: 0..MaxVersion]
    /\ shoot \in Manifest({Strategy}) \cup {None} /\ read \in Manifest({Strategy}) \cup {None}
    /\ new \in Manifest({Strategy, None}) \cup {None}
    /\ pc \in {"idle", "update", "apply"} /\ events \in SUBSET Events
    /\ (pc = "idle" <=> read = None) /\ (pc = "idle" <=> new = None) /\ (pc # "idle" => shoot # None)
    /\ edits \in 0..MaxEdits /\ settled \in BOOLEAN

Exists == shoot # None

Legacy == isAzureLiteSetup(rt.provider, shoot.infra)

\* However the pools change, every zone a worker of the shoot may run in has its
\* subnets, and subnets never overlap or leave the node network.  A patch generates
\* them only for zones that are new to the shoot's workers, so a write that brings
\* the workers without the zones is never made up for.
ZonesCovered ==
    Exists /\ HasZones(rt.provider) /\ ~Legacy =>
        /\ ToSet(ZonesOf(shoot.workers)) \subseteq {z.name : z \in ToSet(shoot.infra.zones)}
        /\ SubnetsFit(shoot.infra.zones, NodeCIDR)

\* The pools' pod limits fit into the pod network, and a pool gives way only when
\* those behind it in the shoot have been cut to one pod (ApplyMaxPodsWithTotalCap),
\* also after a pool has been removed or the order has changed.
PodsFit ==
    Exists /\ PodsCIDR # None =>
        /\ sumMaxPods(shoot.workers) <= MaxPodsFromCIDR(PodsCIDR)
        /\ settled /\ pc = "idle" =>
             \A i \in 1..Len(shoot.workers) :
                LET w == shoot.workers[i]
                    asked == ApplyPerNodeMaxPodsCap(rt.workers[IndexByName(rt.workers, w.name)]).pods
                IN  w.pods # asked =>
                      /\ w.pods \in 1..asked
                      /\ \A j \in (i + 1)..Len(shoot.workers) : shoot.workers[j].pods \in {0, 1, None}

\* Once a Runtime has been patched, patching it again changes nothing, whatever
\* Gardener has upgraded or reordered and operators have changed since: no worker is
\* rolled because of a forced reconciliation.
PatchIsStable ==
    Exists /\ settled /\ pc = "idle" => Convert(rt, want, shoot) = shoot

\* After a patch the extensions are those that the Runtime asks for, each of them
\* once, whatever the shoot had before.
Enabled(t) == existingExtension(shoot.extensions, t).enabled

ExtensionsFollow ==
    Exists =>
        /\ \A i, j \in 1..Len(shoot.extensions) :
             shoot.extensions[i].type = shoot.extensions[j].type => i = j
        /\ settled /\ pc = "idle" =>
             /\ Enabled("nvidia") = want.nvidia
             /\ Enabled("acl") = AclNeedsToBeEnabled(rt.provider, want)
             /\ (Find(shoot.extensions, "registry-cache") # 0) = (want.caches > 0)
             /\ FilterGlobal => Enabled("filter") = want.egress
             /\ existingExtension(shoot.extensions, "auditlog").config = want.audit

Same(w, v) == w.name = v.name

\* A step of KIM or of others never takes away a zone of a pool that stays, and KIM
\* keeps their order, nor an older version of an image or of Kubernetes, nor an
\* extension that somebody else has added.
NothingTakenBack ==
    [][shoot # None =>
        /\ \A w \in ToSet(shoot.workers), v \in ToSet(shoot'.workers) : Same(w, v) =>
             /\ ToSet(w.zones) \subseteq ToSet(v.zones)
             /\ "race" \notin events =>
                  /\ pc # "idle" => IsPrefix(w.zones, v.zones)
                  /\ w.image.name = v.image.name => w.image.version <= v.image.version
        /\ shoot.version <= shoot'.version
        /\ Contains(shoot.extensions, Foreign) => Contains(shoot'.extensions, Foreign)
      ]_vars

\* Zones are optional; the zone of GCP's control plane is the first one of all pools.
MainPoolHasZones ==
    /\ \A pools \in FirstPools : pools # <<>> /\ pools[1].zones # <<>>
    /\ <<>> \notin ZoneLists

\* What operators have set in the infrastructure configuration survives, for AWS and
\* Azure, the configuration being generated anew, if it is among the settings that
\* NewInfrastructureConfigForPatch copies (the CIDR of AWS's VPC is not); GCP's control
\* plane stays in its zone, if the main pool always has zones and Gardener does not
\* store them in an order of its own; a shoot of Azure without zones never gets any.
ConfigKept ==
    [][shoot # None =>
        /\ rt.provider \in {"aws", "azure"} /\ "race" \notin events =>
             /\ "copied" \in shoot.infra.tuned => "copied" \in shoot'.infra.tuned
             /\ shoot.infra.dualStack => shoot'.infra.dualStack
             /\ \A z \in ToSet(shoot.infra.zones), y \in ToSet(shoot'.infra.zones) :
                  z.name = y.name /\ z.tuned => y.tuned
        /\ "reorder" \notin events /\ MainPoolHasZones => shoot'.cp.zone = shoot.cp.zone
        /\ Legacy => [shoot'.infra EXCEPT !.tuned = shoot.infra.tuned] = shoot.infra
      ]_vars

\* A zone keeps the subnets it has been given, as the tests of the provider extender
\* have it for the removal of a pool.
NetworkingZonesKept == Exists => given = Subnets(shoot)
=============================================================================
