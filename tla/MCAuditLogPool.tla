---------------------------- MODULE MCAuditLogPool ----------------------------
(***************************************************************************)
(* Two Runtimes contending for two AuditLog CRs.                           *)
(***************************************************************************)
EXTENDS AuditLogPool, TLC

CONSTANTS r1, r2, c1, c2

MCRuntimes == {r1, r2}
MCCRs == {c1, c2}

\* One region: Runtimes and CRs are interchangeable, so symmetry is sound.
OneRegionOf == [r \in MCRuntimes |-> "eu"]
OneRegionsOf == [c \in MCCRs |-> {"eu"}]
Symmetry == Permutations(MCRuntimes) \cup Permutations(MCCRs)
=============================================================================
