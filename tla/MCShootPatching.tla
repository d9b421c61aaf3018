-------------------------- MODULE MCShootPatching --------------------------
(***************************************************************************)
(* Instances of ShootPatching for TLC.                                     *)
(***************************************************************************)
EXTENDS ShootPatching

MCSize == [b \in Bits |-> 2^(32 - b)]

\* 10.250.0.0/16
MCNodeCIDR == [addr |-> 10 * 2^24 + 250 * 2^16, bits |-> 16]

MCDefaultImage == [name |-> "gardenlinux", version |-> 2]

Pool(name, zones, pods) ==
    [name |-> name, zones |-> zones, image |-> None, pods |-> pods, strategy |-> None]

MCFirstPools ==
    {<<Pool("main", <<1>>, 4)>>,
     <<Pool("main", <<2, 1>>, 4), Pool("a", <<3>>, 3), Pool("b", <<4, 2>>, 2)>>}

MCPoolChoices == {Pool("a", <<3, 1>>, 3), Pool("b", <<2>>, 2), Pool("c", <<4>>, None)}

MCZoneLists == {<<1>>, <<1, 2>>, <<5>>}

MCImages ==
    {None, [name |-> "gardenlinux", version |-> 0], [name |-> "gardenlinux", version |-> 1],
     [name |-> "ubuntu", version |-> 1]}

On(c, e) == [clouds |-> c, events |-> e]

MCScenarios ==
    {On({"azure", "gdch", "gcp"}, {"pools", "api"}),
     On({"aws"}, {"pools", "operator", "dual"}),
     On({"azure"}, {"pools", "operator", "legacy"}),
     On({"gcp"}, {"pools", "reorder"}),
     On({"openstack"}, {"images", "upgrade", "api", "race"}),
     On({"alicloud"}, {"images", "upgrade"}),
     On({"aws", "gcp"}, {"wants", "operator", "api", "race"}),
     On({"azure"}, {"wants", "legacy"})}
=============================================================================
