-------------------------- MODULE HyperscalerZones --------------------------
(***************************************************************************)
(* Infrastructure and control plane configuration per hyperscaler: which   *)
(* part of the node network every zone gets.  Pure functions; what fails   *)
(* in the code is what the operators ...Accepts leave out.                 *)
(*                                                                         *)
(* An address is a natural number, a network its first address and the     *)
(* length of its prefix.  Zone names are numbers, as Azure's are.  What    *)
(* an operator may have set is reduced to "tuned": of a zone (elastic IP,  *)
(* NAT gateway, endpoints) whether something is; of the rest which of the  *)
(* two kinds, the settings that the patch copies or the others.            *)
(***************************************************************************)
EXTENDS Integers, Sequences

CONSTANT Size  \* Size[b] is the number of addresses of a network with prefix /b

Bits == 2..32

ASSUME SizeAssumption ==
    /\ Size \in [Bits -> Nat \ {0}] /\ Size[32] = 1
    /\ \A b \in 2..31 : Size[b] = 2 * Size[b + 1]

Providers == {"aws", "azure", "alicloud", "gdch", "gcp", "openstack"}

\* "copied": ID and endpoints of the VPC, tags to ignore and ECR access (AWS);
\* resource group, VNet, endpoints, NAT gateway and workers (Azure).  "other": the
\* CIDR of the VPC, which is overwritten, and what the code has no field for.
Settings == {"copied", "other"}

Network == [addr: Nat, bits: Bits]

Net(a, b) == [addr |-> a, bits |-> b]

Masked(a, b) == a - (a % Size[b])

\* An address that begins with a zero byte does not survive big.Int.Bytes.
ContainsAddr(cidr, a) == a >= Size[8] /\ Masked(a, cidr.bits) = Masked(cidr.addr, cidr.bits)

Distinct(zones) == \A i, j \in 1..Len(zones) : zones[i] = zones[j] => i = j

-----------------------------------------------------------------------------
(* AWS: three subnets a zone, large ones for the first three zones.         *)

\* Steps of delta from the zone's base to its subnets.
awsOffsets(i) ==
    IF i <= 3 THEN [workers |-> 0, public |-> 2, internal |-> 3]
    ELSE [workers |-> 0, public |-> 1, internal |-> 2]

awsDelta(cidr, i) == Size[cidr.bits + (IF i <= 3 THEN 4 ELSE 6)]

\* What the running base is when the loop comes to zone i.
awsBase(cidr, i) ==
    LET first == Masked(cidr.addr, cidr.bits + 3)
    IN  IF i <= 4 THEN first + 4 * (i - 1) * Size[cidr.bits + 4]
        ELSE first + 12 * Size[cidr.bits + 4] + 3 * (i - 4) * Size[cidr.bits + 6]

awsBits(cidr, i) ==
    IF i <= 3 THEN [workers |-> cidr.bits + 3, public |-> cidr.bits + 4, internal |-> cidr.bits + 4]
    ELSE [workers |-> cidr.bits + 6, public |-> cidr.bits + 6, internal |-> cidr.bits + 6]

generateAWSZone(cidr, i) ==
    [r \in {"workers", "public", "internal"} |->
        Net(awsBase(cidr, i) + awsOffsets(i)[r] * awsDelta(cidr, i), awsBits(cidr, i)[r])]

-----------------------------------------------------------------------------
(* Azure, Alicloud and GDCH: one subnet a zone.                             *)

generateAzureZone(cidr, i) ==
    [r \in {"workers"} |->
        Net(Masked(cidr.addr, cidr.bits + 3) + (i - 1) * Size[cidr.bits + 3], cidr.bits + 3)]

\* Zones of GDCH share the whole network, so their size depends on their number.
subnetShiftForZoneCount(n) == n - 1

generateGDCHZone(cidr, n, i) ==
    LET bits == cidr.bits + subnetShiftForZoneCount(n)
    IN  [r \in {"workers"} |-> Net(Masked(cidr.addr, cidr.bits) + (i - 1) * Size[bits], bits)]

-----------------------------------------------------------------------------
generateZone(provider, cidr, n, i) ==
    CASE provider = "aws" -> generateAWSZone(cidr, i)
      [] provider = "gdch" -> generateGDCHZone(cidr, n, i)
      [] OTHER -> generateAzureZone(cidr, i)

HasZones(provider) == provider \in {"aws", "azure", "alicloud", "gdch"}

ZoneCount(provider) ==
    CASE provider = "aws" -> 1..8 [] provider = "gdch" -> 1..3 [] OTHER -> 0..8

PrefixAccepted(provider, cidr, n) ==
    IF provider = "gdch" THEN cidr.bits + subnetShiftForZoneCount(n) <= 32
    ELSE cidr.bits \in 16..24

\* The error returns of the generators; GDCH does not look whether a subnet is
\* in the network, and names are checked for Azure only.
generatorAccepts(provider, cidr, zones) ==
    /\ Len(zones) \in ZoneCount(provider)
    /\ PrefixAccepted(provider, cidr, Len(zones))
    /\ Distinct(zones)
    /\ provider = "azure" => \A i \in 1..Len(zones) : zones[i] \in 1..8
    /\ provider # "gdch" =>
         \A i \in 1..Len(zones) :
            LET nets == generateZone(provider, cidr, Len(zones), i)
            IN  \A r \in DOMAIN nets : ContainsAddr(cidr, nets[r].addr)

generateZones(provider, cidr, zones) ==
    [i \in 1..Len(zones) |->
        [name |-> zones[i], nets |-> generateZone(provider, cidr, Len(zones), i),
         tuned |-> FALSE]]

NewInfrastructureConfig(provider, cidr, zones, dualStack) ==
    [zones |-> IF HasZones(provider) THEN generateZones(provider, cidr, zones) ELSE <<>>,
     dualStack |-> dualStack, tuned |-> {}]

\* AWS and Azure: what a zone of that name had is carried over, and field by field
\* some of the rest.
NewInfrastructureConfigForPatch(provider, cidr, zones, existing) ==
    LET new == NewInfrastructureConfig(provider, cidr, zones, existing.dualStack)
        had(z) == \E i \in 1..Len(existing.zones) :
                      existing.zones[i].name = z.name /\ existing.zones[i].tuned
    IN  [zones |-> [i \in 1..Len(new.zones) |-> [new.zones[i] EXCEPT !.tuned = had(new.zones[i])]],
         dualStack |-> existing.dualStack, tuned |-> existing.tuned \ {"other"}]

\* Only GCP's names a zone; only AWS knows dual stack.
NewControlPlaneConfig(provider, zones, dualStack) ==
    [zone |-> IF provider = "gcp" THEN zones[1] ELSE 0,
     loadBalancerController |-> dualStack /\ provider = "aws"]

configAccepts(provider, cidr, zones) ==
    /\ HasZones(provider) => generatorAccepts(provider, cidr, zones)
    /\ provider = "gcp" => zones # <<>>

-----------------------------------------------------------------------------
Disjoint(p, q) == p.addr + Size[p.bits] <= q.addr \/ q.addr + Size[q.bits] <= p.addr

Inside(p, cidr) ==
    /\ Masked(cidr.addr, cidr.bits) <= p.addr
    /\ p.addr + Size[p.bits] <= Masked(cidr.addr, cidr.bits) + Size[cidr.bits]

\* Subnets of different zones, or of one zone with different roles, have no
\* address in common and lie in the node network, whichever address of the
\* network the configured prefix begins with (generateAWSZones and the others).
SubnetsFit(zones, cidr) ==
    \A i, j \in 1..Len(zones) :
        \A r \in DOMAIN zones[i].nets, q \in DOMAIN zones[j].nets :
            /\ Inside(zones[i].nets[r], cidr)
            /\ i # j \/ r # q => Disjoint(zones[i].nets[r], zones[j].nets[q])
=============================================================================
