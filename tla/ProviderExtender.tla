-------------------------- MODULE ProviderExtender --------------------------
(***************************************************************************)
(* The provider section of the shoot manifest: worker pools with their     *)
(* zones, images and pod limits, and the infrastructure and control plane  *)
(* configuration.  A patch is a function of the Runtime and of what is in  *)
(* the shoot already, so that one patch depends on those before it.        *)
(*                                                                         *)
(* A worker pool is its name, zones, image (None if the Runtime names      *)
(* none, version 0 if it names no version), pod limit and update strategy  *)
(* (None if not set).  The provider configuration of AWS workers and the   *)
(* machine controller manager's defaults are the same for all pools, and   *)
(* left out.                                                               *)
(***************************************************************************)
EXTENDS HyperscalerZones, SequencesExt

CONSTANTS
    None,         \* not set
    NodeCIDR,     \* networking.nodes of the Runtime
    PodsCIDR,     \* networking.pods of the Runtime, or None
    DefaultImage  \* machineImage.defaultName and .defaultVersion of converter_config.json

Image == [name: STRING, version: Nat]

ASSUME ProviderAssumption ==
    /\ NodeCIDR \in Network
    /\ PodsCIDR \in Bits \cup {None} /\ None \notin Nat \cup Image
    /\ DefaultImage \in Image /\ DefaultImage.version # 0

-----------------------------------------------------------------------------
(* Zones.                                                                   *)

ZonesOf(workers) == FlattenSeq([i \in 1..Len(workers) |-> workers[i].zones])

AppendNew(zones, more) ==
    FoldLeft(LAMBDA s, z : IF Contains(s, z) THEN s ELSE Append(s, z), zones, more)

getNetworkingZonesFromWorkers(workers) == AppendNew(<<>>, ZonesOf(workers))

newZonesAdded(existing, new) ==
    FoldLeft(LAMBDA s, z : IF Contains(existing, z) THEN s ELSE Append(s, z), <<>>, new)

isAzureLiteSetup(provider, infra) == provider = "azure" /\ infra.zones = <<>>

-----------------------------------------------------------------------------
(* Order.                                                                   *)

IndexByName(workers, name) ==
    IF \E i \in 1..Len(workers) : workers[i].name = name
    THEN CHOOSE i \in 1..Len(workers) : workers[i].name = name
    ELSE 0

\* The comparison of sort.Slice.  It looks at the pools as they were before the
\* sort; a pool that is not in the shoot counts as the last if it is the left one,
\* and if it is the right one nothing is less.
less(runtimeWorkers, shootWorkers, i, j) ==
    LET index1 == IndexByName(shootWorkers, runtimeWorkers[i].name)
        index2 == IndexByName(shootWorkers, runtimeWorkers[j].name)
    IN  index2 > (IF index1 = 0 THEN Len(runtimeWorkers) + 2 ELSE index1)

\* sort.Slice sorts up to twelve elements by insertion: an element moves
\* down as long as the comparison of the neighbouring positions says so.
sortWorkersToShootOrder(runtimeWorkers, shootWorkers) ==
    LET falls(i, j) == \A k \in (j + 1)..i : less(runtimeWorkers, shootWorkers, k, k - 1)
        target(i) == CHOOSE j \in 1..i : falls(i, j) /\ \A k \in 1..(j - 1) : ~falls(i, k)
        insert(s, i) == InsertAt(RemoveAt(s, i), target(i), s[i])
    IN  FoldLeftDomain(insert, runtimeWorkers, runtimeWorkers)

-----------------------------------------------------------------------------
(* Configuration of the infrastructure and the control plane.               *)

\* mutant: what is in the configuration is not carried over
neverKept(provider) == FALSE

keptOnPatch(provider) == provider \in {"aws", "azure"}

getConfig(provider, zones, dualStack, existing) ==
    [infra |-> IF existing # None /\ keptOnPatch(provider)
               THEN NewInfrastructureConfigForPatch(provider, NodeCIDR, zones, existing)
               ELSE NewInfrastructureConfig(provider, NodeCIDR, zones,
                                            dualStack /\ provider = "aws" /\ existing = None),
     cp    |-> NewControlPlaneConfig(provider, zones, dualStack /\ existing = None)]

mergedWorkerZones(fromShoot, fromRuntime) ==
    fromShoot \o newZonesAdded(fromShoot, fromRuntime)

patchNeedsConfig(provider, workers, shoot) ==
    /\ newZonesAdded(getNetworkingZonesFromWorkers(shoot.workers),
                     getNetworkingZonesFromWorkers(workers)) # <<>>
    /\ ~isAzureLiteSetup(provider, shoot.infra)

zonesForPatch(workers, shoot) ==
    mergedWorkerZones(getNetworkingZonesFromWorkers(shoot.workers),
                      getNetworkingZonesFromWorkers(workers))

configForPatch(provider, workers, shoot) ==
    IF patchNeedsConfig(provider, workers, shoot)
    THEN getConfig(provider, zonesForPatch(workers, shoot), FALSE, shoot.infra)
    ELSE [infra |-> shoot.infra, cp |-> shoot.cp]

-----------------------------------------------------------------------------
(* Images and pod limits.                                                   *)

\* mutant: an image without a version is taken as it is
imageWithoutDefault(w) == w

setMachineImage(w) ==
    [w EXCEPT !.image =
        IF @ = None THEN DefaultImage
        ELSE IF @.version = 0 THEN [@ EXCEPT !.version = DefaultImage.version] ELSE @]

MaxPodsFromCIDR(bits) == IF bits >= 31 THEN Size[bits] ELSE Size[bits] - 2

ApplyPerNodeMaxPodsCap(w) ==
    IF w.pods # None /\ w.pods > MaxPodsFromCIDR(24)
    THEN [w EXCEPT !.pods = MaxPodsFromCIDR(24)] ELSE w

\* mutant: a pool may be left without any pod
reduceToZero(w, excess) ==
    IF w.pods = None THEN 0 ELSE IF excess < w.pods THEN excess ELSE w.pods

reduceWorkerMaxPods(w, excess) ==
    IF w.pods = None \/ w.pods <= 1 THEN 0
    ELSE IF excess < w.pods - 1 THEN excess ELSE w.pods - 1

sumMaxPods(workers) ==
    FoldLeft(LAMBDA n, w : IF w.pods = None THEN n ELSE n + w.pods, 0, workers)

\* The pools with what is left of the excess, from the last pool backwards.
ApplyMaxPodsWithTotalCap(workers, totalIPs) ==
    FoldRight(LAMBDA w, acc :
                LET r == reduceWorkerMaxPods(w, acc.excess)
                IN  [workers |-> <<IF r = 0 THEN w ELSE [w EXCEPT !.pods = @ - r]>> \o acc.workers,
                     excess |-> acc.excess - r],
              workers,
              [workers |-> <<>>,
               excess |-> IF sumMaxPods(workers) > totalIPs THEN sumMaxPods(workers) - totalIPs ELSE 0])

setWorkerSettings(workers) ==
    LET capped == [i \in 1..Len(workers) |-> ApplyPerNodeMaxPodsCap(workers[i])]
    IN  IF PodsCIDR = None THEN [workers |-> capped, excess |-> 0]
        ELSE ApplyMaxPodsWithTotalCap(capped, MaxPodsFromCIDR(PodsCIDR))

-----------------------------------------------------------------------------
(* What the shoot has already.                                              *)

alignWorkerZonesForExtension(zones, existing) ==
    IF zones = existing THEN zones ELSE AppendNew(existing, zones)

\* mutant: the version in the Runtime or in the configuration is taken as it is
imageAsGiven(image, existing) == image

alignWorkerMachineImageVersion(image, existing) ==
    IF image.name = existing.name /\ image.version < existing.version THEN existing ELSE image

\* mutant: the update strategy that Gardener has set is not taken over
alignWithoutStrategy(w, existing) ==
    [w EXCEPT !.zones = alignWorkerZonesForExtension(@, existing.zones),
              !.image = alignWorkerMachineImageVersion(@, existing.image)]

alignWorker(w, existing) ==
    [w EXCEPT !.strategy = IF @ = None THEN existing.strategy ELSE @,
              !.zones = alignWorkerZonesForExtension(@, existing.zones),
              !.image = alignWorkerMachineImageVersion(@, existing.image)]

alignWorkersWithGardener(workers, existing) ==
    [i \in 1..Len(workers) |->
        LET k == IndexByName(existing, workers[i].name)
        IN  IF k = 0 THEN workers[i] ELSE alignWorker(workers[i], existing[k])]

-----------------------------------------------------------------------------
(* The extenders.  rt is the Runtime's provider section: the provider, the  *)
(* pools (the main pool first) and whether dual stack is asked for.         *)

WithImages(workers) == [i \in 1..Len(workers) |-> setMachineImage(workers[i])]

SortedWorkers(rt, shoot) == sortWorkersToShootOrder(rt.workers, shoot.workers)

createAccepts(rt) ==
    /\ configAccepts(rt.provider, NodeCIDR, getNetworkingZonesFromWorkers(rt.workers))
    /\ setWorkerSettings(WithImages(rt.workers)).excess = 0

ProviderForCreate(rt) ==
    LET config == getConfig(rt.provider, getNetworkingZonesFromWorkers(rt.workers),
                            rt.dualStack, None)
    IN  [workers |-> setWorkerSettings(WithImages(rt.workers)).workers,
         infra |-> config.infra, cp |-> config.cp]

patchAccepts(rt, shoot) ==
    LET sorted == SortedWorkers(rt, shoot)
    IN  /\ patchNeedsConfig(rt.provider, sorted, shoot)
             => configAccepts(rt.provider, NodeCIDR, zonesForPatch(sorted, shoot))
        /\ setWorkerSettings(WithImages(sorted)).excess = 0

ProviderForPatch(rt, shoot) ==
    LET sorted == SortedWorkers(rt, shoot)
        config == configForPatch(rt.provider, sorted, shoot)
    IN  [workers |-> alignWorkersWithGardener(setWorkerSettings(WithImages(sorted)).workers,
                                              shoot.workers),
         infra |-> config.infra, cp |-> config.cp]
=============================================================================
