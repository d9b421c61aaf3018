-------------------------- MODULE RuntimeLifecycle --------------------------
(***************************************************************************)
(* What the Runtime controller promises about the life of a Runtime, its   *)
(* shoot and its GardenerCluster CR, without caches, versions, conditions  *)
(* or state functions: a shoot is made for a Runtime that KIM has taken    *)
(* charge of, access to it only while it is there, and all of it goes in   *)
(* the opposite order, at the user's request and never otherwise.          *)
(***************************************************************************)

VARIABLES
    phase,  \* the Runtime: "new", "owned" by KIM's finalizer, "deleting", "gone"
    infra,  \* the shoot: "none", "live", "leaving"
    access  \* the GardenerCluster CR: "none", "kept", "leaving"

vars == <<phase, infra, access>>

Owned == phase \in {"owned", "deleting"}

\* A new Runtime, or one from before.
Init ==
    \/ phase = "new" /\ infra = "none" /\ access = "none"
    \/ phase = "owned" /\ infra = "live" /\ access = "kept"

Own ==
    /\ phase = "new" /\ phase' = "owned"
    /\ UNCHANGED <<infra, access>>

\* A Runtime that KIM has not taken charge of goes at once.
RequestDeletion ==
    /\ \/ phase = "new" /\ phase' = "gone"
       \/ phase = "owned" /\ phase' = "deleting"
    /\ UNCHANGED <<infra, access>>

\* KIM may not have seen the request yet.
Provision ==
    /\ Owned /\ infra = "none" /\ access = "none"
    /\ infra' = "live"
    /\ UNCHANGED <<phase, access>>

Connect ==
    /\ Owned /\ infra = "live" /\ access = "none"
    /\ access' = "kept"
    /\ UNCHANGED <<phase, infra>>

Disconnect ==
    /\ \/ phase = "deleting" /\ access = "kept" /\ access' = "leaving"
       \/ phase = "deleting" /\ access = "leaving" /\ access' = "none"
    /\ UNCHANGED <<phase, infra>>

Decommission ==
    /\ phase = "deleting" /\ access = "none"
    /\ \/ infra = "live" /\ infra' = "leaving"
       \/ infra = "leaving" /\ infra' = "none"
    /\ UNCHANGED <<phase, access>>

Release ==
    /\ phase = "deleting" /\ infra = "none" /\ access = "none"
    /\ phase' = "gone"
    /\ UNCHANGED <<infra, access>>

Next ==
    \/ Own \/ RequestDeletion \/ Provision \/ Connect \/ Disconnect \/ Decommission \/ Release

Spec == Init /\ [][Next]_vars
=============================================================================
