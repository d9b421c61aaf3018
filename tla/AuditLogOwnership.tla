-------------------------- MODULE AuditLogOwnership --------------------------
(***************************************************************************)
(* What the pool of AuditLog CRs promises (docs/adr/004): a CR goes        *)
(* Available -> Reserved -> Claimed -> Orphaned, for one Runtime only and  *)
(* never back.  A Runtime that already has a shoot may go from Available   *)
(* to Claimed at once (docs/adr/006).                                      *)
(***************************************************************************)
CONSTANTS Runtimes, CRs, NoRuntime

VARIABLES owner, stage

Available == "available"
Reserved  == "reserved"
Claimed   == "claimed"
Orphaned  == "orphaned"

Init ==
    /\ owner = [c \in CRs |-> NoRuntime]
    /\ stage = [c \in CRs |-> Available]

Reserve(r, c) ==
    /\ stage[c] = Available
    /\ owner' = [owner EXCEPT ![c] = r]
    /\ stage' = [stage EXCEPT ![c] = Reserved]

Claim(r, c) ==
    /\ \/ stage[c] = Reserved /\ owner[c] = r
       \/ stage[c] = Available
    /\ owner' = [owner EXCEPT ![c] = r]
    /\ stage' = [stage EXCEPT ![c] = Claimed]

Release(r, c) ==
    /\ stage[c] = Claimed /\ owner[c] = r
    /\ stage' = [stage EXCEPT ![c] = Orphaned]
    /\ UNCHANGED owner

\* A step moves one CR to another stage.
Next ==
    \E c \in CRs :
        /\ stage[c] # stage'[c]
        /\ \E r \in Runtimes : Reserve(r, c) \/ Claim(r, c) \/ Release(r, c)

Spec == Init /\ [][Next]_<<owner, stage>>
=============================================================================
