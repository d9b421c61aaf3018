---------------------------- MODULE AuditLogPool ----------------------------
(***************************************************************************)
(* The pool of AuditLog custom resources (pkg/auditlog) as it is used by   *)
(* the reconciliations of several Runtimes at once.                        *)
(*                                                                         *)
(* A CR is reserved for a Runtime by a label (light lock), claimed by      *)
(* spec.assignedToRuntimeID (heavy lock) and released by spec.orphaned.    *)
(* Every List goes to the informer cache of the manager's client, which    *)
(* trails the API server by the events still in "watch"; every Update      *)
(* carries the resourceVersion of the copy it was computed from and is     *)
(* refused when the API server holds a newer one.  The List calls and the  *)
(* Update of one provider operation are separate steps, so other Runtimes, *)
(* the AuditLog manager (KALM) and the cache may move between them.        *)
(***************************************************************************)
EXTENDS Naturals, Sequences

CONSTANTS
    Runtimes,     \* Runtime CRs, identified by their runtime-id label
    CRs,          \* AuditLog CRs of the pool
    RegionOf,     \* RegionOf[r]: spec.shoot.region of Runtime r
    RegionsOf,    \* RegionsOf[c]: spec.regions of AuditLog c
    InitStates,   \* status.state values a CR may have when the run starts
    NoRuntime,    \* the empty runtime ID
    NoCR,         \* no AuditLog CR (nil)
    MaxWatchLag,  \* bound: events the cache may trail behind
    ApiErrors     \* may an Update fail for a reason other than a conflict?

States == {"Pending", "RegistrationReady", "SiemApproved", "Assigned", "Orphaned"}

ASSUME PoolAssumption ==
    /\ NoRuntime \notin Runtimes
    /\ NoCR \notin CRs
    /\ InitStates \subseteq {"Pending", "RegistrationReady", "SiemApproved"}
    /\ MaxWatchLag \in Nat \ {0}
    /\ ApiErrors \in BOOLEAN

VARIABLES
    crs,      \* AuditLog objects on the API server
    cache,    \* the informer's copies of them
    watch,    \* events not yet delivered to the cache, oldest first
    enabled,  \* spec.auditLogAccessEnabled of each Runtime
    stale,    \* the Runtime's generation is newer than the one applied to the shoot
    deleted,  \* the Runtime has a deletionTimestamp
    phase,    \* "creating": no shoot yet; "running": shoot exists; "gone"
    queued,   \* the controller's workqueue holds the Runtime
    pc,       \* where the Runtime's reconciliation is inside the provider
    wanted,   \* enabled, as read at the start of the reconciliation
    cand,     \* the in-memory copy the next Update sends
    config    \* the CR whose data went into the shoot's audit log configuration

vars == <<crs, cache, watch, enabled, stale, deleted, phase, queued, pc,
          wanted, cand, config>>

poolVars == <<crs, cache, watch>>
userVars == <<enabled, deleted>>

Owner == Runtimes \cup {NoRuntime}

AuditLog == [label: Owner, assigned: Owner, orphaned: BOOLEAN,
             state: States, rv: Nat]

\* A named copy of an AuditLog object, held by a reconciliation or by a watch event.
Copy == [cr: CRs, obj: AuditLog]

Steps == {"idle", "create_shoot", "delete_shoot",
          "reserve_lookup", "reserve_find", "reserve_update",
          "claim_find", "claim_update",
          "patch_assigned", "patch_reserved",
          "direct_assigned", "direct_reserved", "direct_find", "direct_update",
          "release_find", "release_update"}

\* The steps that send an Update of the copy in cand.
UpdateSteps == {"reserve_update", "claim_update", "direct_update", "release_update"}

TypeOK ==
    /\ crs \in [CRs -> AuditLog]
    /\ cache \in [CRs -> AuditLog]
    /\ watch \in Seq(Copy)
    /\ enabled \in [Runtimes -> BOOLEAN]
    /\ stale \in [Runtimes -> BOOLEAN]
    /\ deleted \in [Runtimes -> BOOLEAN]
    /\ phase \in [Runtimes -> {"creating", "running", "gone"}]
    /\ queued \in [Runtimes -> BOOLEAN]
    /\ pc \in [Runtimes -> Steps]
    /\ wanted \in [Runtimes -> BOOLEAN]
    /\ cand \in [Runtimes -> Copy \cup {NoCR}]
    /\ \A r \in Runtimes : pc[r] \in UpdateSteps => cand[r] \in Copy
    /\ config \in [Runtimes -> CRs \cup {NoCR}]

Fresh(s) == [label |-> NoRuntime, assigned |-> NoRuntime, orphaned |-> FALSE,
             state |-> s, rv |-> 0]

Init ==
    /\ \E s \in [CRs -> InitStates] : crs = [c \in CRs |-> Fresh(s[c])]
    /\ cache = crs
    /\ watch = <<>>
    /\ enabled \in [Runtimes -> BOOLEAN]
    /\ stale = [r \in Runtimes |-> FALSE]
    /\ deleted = [r \in Runtimes |-> FALSE]
    /\ phase \in [Runtimes -> {"creating", "running"}]
    \* a shoot created before the feature existed was created without it
    /\ \A r \in Runtimes : phase[r] = "running" => ~enabled[r]
    /\ queued = [r \in Runtimes |-> TRUE]
    /\ pc = [r \in Runtimes |-> "idle"]
    /\ wanted = [r \in Runtimes |-> FALSE]
    /\ cand = [r \in Runtimes |-> NoCR]
    /\ config = [r \in Runtimes |-> NoCR]

-----------------------------------------------------------------------------
(* API server and informer cache.                                          *)

\* The API server stores o as the next version of c and emits a watch event.
Store(c, o) ==
    LET new == [o EXCEPT !.rv = crs[c].rv + 1]
    IN  /\ Len(watch) < MaxWatchLag
        /\ crs' = [crs EXCEPT ![c] = new]
        /\ watch' = Append(watch, [cr |-> c, obj |-> new])
        /\ UNCHANGED cache

AcceptedAnyway(r) == cand[r] # NoCR  \* mutant: the resourceVersion is not compared

\* client.Update of r's copy, changed to o.  It succeeds only on the version
\* the copy was read at; an answer may also be an error with the write lost or
\* applied.  An Update that changes nothing creates no new version.
Accepted(r) == crs[cand[r].cr].rv = cand[r].obj.rv

UpdateOk(r, o) ==
    /\ Accepted(r)
    /\ IF o = cand[r].obj THEN UNCHANGED poolVars ELSE Store(cand[r].cr, o)

UpdateErr(r, o) ==
    \/ ~Accepted(r) /\ UNCHANGED poolVars
    \/ ApiErrors /\ UNCHANGED poolVars
    \/ ApiErrors /\ Accepted(r) /\ o # cand[r].obj /\ Store(cand[r].cr, o)

CacheSync ==
    /\ watch # <<>>
    /\ cache' = [cache EXCEPT ![Head(watch).cr] = Head(watch).obj]
    /\ watch' = Tail(watch)
    /\ UNCHANGED <<crs, enabled, stale, deleted, phase, queued, pc, wanted, cand, config>>

-----------------------------------------------------------------------------
(* Lists, all served from the cache.  The order of a cached List is not     *)
(* specified, so "the first item" is any member of the set.                 *)

findAuditLogCRUnclaimed(r) ==  \* mutant: the label selector matches an absent label
    {c \in CRs : cache[c].label \in {r, NoRuntime}}

findAuditLogCRByReservation(r) == {c \in CRs : cache[c].label = r}

findAuditLogCRAssigned(r) ==  \* mutant: an assignment to another Runtime counts
    {c \in CRs : cache[c].assigned \in Runtimes /\ r \in Runtimes}

findAuditLogCRByRuntimeID(r) == {c \in CRs : cache[c].assigned = r}

findAvailableAuditLogCR(region) ==
    {c \in CRs : /\ cache[c].state \in {"SiemApproved", "RegistrationReady"}
                 /\ cache[c].assigned = NoRuntime
                 /\ cache[c].label = NoRuntime
                 /\ region \in RegionsOf[c]}

Goto(r, step) == pc' = [pc EXCEPT ![r] = step]

\* The reconciliation is over; its in-memory state is dropped.
Return(r) ==
    /\ Goto(r, "idle")
    /\ cand' = [cand EXCEPT ![r] = NoCR]
    /\ wanted' = [wanted EXCEPT ![r] = FALSE]

\* A copy of c, as the cache has it, goes to the Update of the given step.
TakeCopy(r, c, step) ==
    /\ cand' = [cand EXCEPT ![r] = [cr |-> c, obj |-> cache[c]]]
    /\ Goto(r, step)
    /\ UNCHANGED <<queued, wanted, config>>

\* The reconciliation takes the data of c.  It patches the shoot and is
\* requeued; with the shoot's configuration already that of c it may also stop.
Use(r, c) ==
    /\ config' = [config EXCEPT ![r] = c]
    /\ \/ queued' = [queued EXCEPT ![r] = TRUE]
       \/ config[r] = c /\ UNCHANGED queued
    /\ Return(r)

\* UpdateStateFailed and updateStatusAndStop: the Runtime is reconciled again
\* only if an event has queued it meanwhile.
FailAndStop(r) == Return(r) /\ UNCHANGED <<queued, config>>

-----------------------------------------------------------------------------
\* A worker takes r from the workqueue; sFnInitialize and
\* sFnSelectShootProcessing choose what the reconciliation does.
Dispatch(r) ==
    /\ pc[r] = "idle" /\ queued[r] /\ phase[r] # "gone"
    /\ queued' = [queued EXCEPT ![r] = FALSE]
    /\ wanted' = [wanted EXCEPT ![r] = enabled[r] /\ stale[r] /\ phase[r] = "running"]
    /\ \/ /\ deleted[r] /\ phase[r] = "creating"
          /\ phase' = [phase EXCEPT ![r] = "gone"]   \* finalizer removed, pool not touched
          /\ UNCHANGED <<stale, pc>>
       \/ /\ deleted[r] /\ phase[r] = "running"
          /\ Goto(r, IF enabled[r] THEN "release_find" ELSE "delete_shoot")
          /\ UNCHANGED <<stale, phase>>
       \/ /\ ~deleted[r] /\ phase[r] = "creating"
          /\ Goto(r, IF enabled[r] THEN "reserve_lookup" ELSE "create_shoot")
          /\ stale' = [stale EXCEPT ![r] = FALSE]
          /\ UNCHANGED phase
       \/ /\ ~deleted[r] /\ phase[r] = "running" /\ stale[r]
          /\ Goto(r, "patch_assigned")
          /\ stale' = [stale EXCEPT ![r] = FALSE]
          /\ UNCHANGED phase
       \/ /\ ~deleted[r] /\ phase[r] = "running" /\ ~stale[r]
          /\ Goto(r, IF enabled[r] THEN "claim_find" ELSE "idle")
          /\ UNCHANGED <<stale, phase>>
    /\ UNCHANGED <<poolVars, userVars, cand, config>>

-----------------------------------------------------------------------------
(* sFnCreateShoot: Phase 1, reserveAuditLogCR, then the shoot.              *)

ReserveLookup(r) ==
    /\ pc[r] = "reserve_lookup"
    /\ Goto(r, IF findAuditLogCRByReservation(r) = {}
               THEN "reserve_find" ELSE "create_shoot")
    /\ UNCHANGED <<poolVars, userVars, stale, phase, queued, wanted, cand, config>>

ReserveFind(r) ==
    LET available == findAvailableAuditLogCR(RegionOf[r])
    IN  /\ pc[r] = "reserve_find"
        /\ \/ available = {} /\ FailAndStop(r)
           \/ \E c \in available : TakeCopy(r, c, "reserve_update")
        /\ UNCHANGED <<poolVars, userVars, stale, phase>>

ReserveUpdate(r) ==
    LET o == [cand[r].obj EXCEPT !.label = r]
    IN  /\ pc[r] = "reserve_update"
        /\ \/ /\ UpdateOk(r, o)
              /\ Goto(r, "create_shoot")
              /\ UNCHANGED <<queued, wanted, cand, config>>
           \/ UpdateErr(r, o) /\ FailAndStop(r)
        /\ UNCHANGED <<userVars, stale, phase>>

\* The rest of sFnCreateShoot: the shoot is created, or the creation fails and
\* is requeued, or it fails for good.
CreateShoot(r) ==
    /\ pc[r] = "create_shoot"
    /\ Return(r)
    /\ \/ /\ phase' \in {phase, [phase EXCEPT ![r] = "running"]}
          /\ queued' = [queued EXCEPT ![r] = TRUE]
       \/ UNCHANGED <<phase, queued>>
    /\ UNCHANGED <<poolVars, userVars, stale, config>>

-----------------------------------------------------------------------------
(* sFnMigrateToDedicatedAuditLog: Phase 2, claimAndGetDedicatedAuditLogData. *)

ClaimFind(r) ==
    LET reserved == findAuditLogCRByReservation(r)
    IN  /\ pc[r] = "claim_find"
        /\ \/ reserved = {} /\ FailAndStop(r)
           \/ \E c \in reserved : cache[c].assigned = r /\ Use(r, c)
           \/ \E c \in reserved : cache[c].assigned # r /\ TakeCopy(r, c, "claim_update")
        /\ UNCHANGED <<poolVars, userVars, stale, phase>>

ClaimUpdate(r) ==
    LET o == [cand[r].obj EXCEPT !.assigned = r]
    IN  /\ pc[r] = "claim_update"
        /\ \/ UpdateOk(r, o) /\ Use(r, cand[r].cr)
           \/ UpdateErr(r, o) /\ FailAndStop(r)
        /\ UNCHANGED <<userVars, stale, phase>>

-----------------------------------------------------------------------------
(* sFnPatchExistingShoot: resolveAuditLogData, then ClaimAuditLog, which     *)
(* repeats both lookups of GetDedicatedAuditLogData(claim = false).         *)

Lookup(r, step, found, otherwise) ==
    /\ pc[r] = step
    /\ \/ \E c \in found : Use(r, c)
       \/ found = {} /\ Goto(r, otherwise) /\ UNCHANGED <<queued, wanted, cand, config>>
    /\ UNCHANGED <<poolVars, userVars, stale, phase>>

PatchAssigned(r) ==
    Lookup(r, "patch_assigned", findAuditLogCRByRuntimeID(r), "patch_reserved")

\* A Runtime that wants no CR and has none gets the shared configuration.
UseShared(r) ==
    /\ config' = [config EXCEPT ![r] = NoCR]
    /\ queued' = [queued EXCEPT ![r] = TRUE]
    /\ Return(r)

PatchReserved(r) ==
    \/ wanted[r] /\ Lookup(r, "patch_reserved", findAuditLogCRByReservation(r), "direct_assigned")
    \/ /\ ~wanted[r] /\ pc[r] = "patch_reserved"
       /\ LET reserved == findAuditLogCRByReservation(r)
          IN  (\E c \in reserved : Use(r, c)) \/ (reserved = {} /\ UseShared(r))
       /\ UNCHANGED <<poolVars, userVars, stale, phase>>

DirectAssigned(r) ==
    Lookup(r, "direct_assigned", findAuditLogCRByRuntimeID(r), "direct_reserved")

DirectReserved(r) ==
    Lookup(r, "direct_reserved", findAuditLogCRByReservation(r), "direct_find")

\* A failed claim leaves the shoot unpatched: its generation stays behind.
PatchFailed(r) ==
    /\ FailAndStop(r)
    /\ stale' = [stale EXCEPT ![r] = TRUE]

DirectFind(r) ==
    LET available == findAvailableAuditLogCR(RegionOf[r])
    IN  /\ pc[r] = "direct_find"
        /\ \/ available = {} /\ PatchFailed(r)
           \/ \E c \in available : TakeCopy(r, c, "direct_update") /\ UNCHANGED stale
        /\ UNCHANGED <<poolVars, userVars, phase>>

DirectUpdate(r) ==
    LET o == [cand[r].obj EXCEPT !.assigned = r, !.label = r]
    IN  /\ pc[r] = "direct_update"
        /\ \/ UpdateOk(r, o) /\ Use(r, cand[r].cr) /\ UNCHANGED stale
           \/ UpdateErr(r, o) /\ PatchFailed(r)
        /\ UNCHANGED <<userVars, phase>>

-----------------------------------------------------------------------------
(* sFnDeleteShoot: ReleaseDedicated, then the deletion of the shoot.        *)

\* releaseAuditLogCR skips a CR that KALM has not yet moved to Assigned.
ReleaseFind(r) ==
    LET assigned == findAuditLogCRByRuntimeID(r)
    IN  /\ pc[r] = "release_find"
        /\ \/ \E c \in assigned :
                cache[c].state = "Assigned" /\ TakeCopy(r, c, "release_update")
           \/ /\ assigned = {} \/ \E c \in assigned : cache[c].state # "Assigned"
              /\ Goto(r, "delete_shoot")
              /\ UNCHANGED <<queued, wanted, cand, config>>
        /\ UNCHANGED <<poolVars, userVars, stale, phase>>

\* The error of a release is logged and the deletion goes on.
ReleaseUpdate(r) ==
    LET o == [cand[r].obj EXCEPT !.orphaned = TRUE]
    IN  /\ pc[r] = "release_update"
        /\ UpdateOk(r, o) \/ UpdateErr(r, o)
        /\ Goto(r, "delete_shoot")
        /\ UNCHANGED <<userVars, stale, phase, queued, wanted, cand, config>>

\* The deletion is requeued until Gardener has removed the shoot.
DeleteShoot(r) ==
    /\ pc[r] = "delete_shoot"
    /\ Return(r)
    /\ phase' \in {phase, [phase EXCEPT ![r] = "gone"]}
    /\ queued' = [queued EXCEPT ![r] = TRUE]
    /\ UNCHANGED <<poolVars, userVars, stale, config>>

-----------------------------------------------------------------------------
(* Users and KALM.                                                          *)

\* An edit of the Runtime's spec raises its generation and queues the Runtime.
EditRuntime(r) ==
    /\ phase[r] # "gone" /\ ~deleted[r]
    /\ \E b \in BOOLEAN : enabled' = [enabled EXCEPT ![r] = b]
    /\ stale' = [stale EXCEPT ![r] = TRUE]
    /\ queued' = [queued EXCEPT ![r] = TRUE]
    /\ UNCHANGED <<poolVars, deleted, phase, pc, wanted, cand, config>>

DeleteRuntime(r) ==
    /\ phase[r] # "gone" /\ ~deleted[r]
    /\ deleted' = [deleted EXCEPT ![r] = TRUE]
    /\ queued' = [queued EXCEPT ![r] = TRUE]
    /\ UNCHANGED <<poolVars, enabled, stale, phase, pc, wanted, cand, config>>

\* KALM moves a CR along its life cycle.
KalmNext(o) ==
    CASE o.state = "Pending" -> {"RegistrationReady"}
      [] o.state = "RegistrationReady" -> {"SiemApproved"}
      [] o.state = "SiemApproved" /\ o.assigned # NoRuntime -> {"Assigned"}
      [] o.state = "Assigned" /\ o.orphaned -> {"Orphaned"}
      [] OTHER -> {}

Kalm(c) ==
    /\ \E s \in KalmNext(crs[c]) : Store(c, [crs[c] EXCEPT !.state = s])
    /\ UNCHANGED <<userVars, stale, phase, queued, pc, wanted, cand, config>>

-----------------------------------------------------------------------------
ReconcileStep(r) ==
    \/ Dispatch(r)
    \/ ReserveLookup(r) \/ ReserveFind(r) \/ ReserveUpdate(r) \/ CreateShoot(r)
    \/ ClaimFind(r) \/ ClaimUpdate(r)
    \/ PatchAssigned(r) \/ PatchReserved(r)
    \/ DirectAssigned(r) \/ DirectReserved(r) \/ DirectFind(r) \/ DirectUpdate(r)
    \/ ReleaseFind(r) \/ ReleaseUpdate(r) \/ DeleteShoot(r)

Next ==
    \/ \E r \in Runtimes : ReconcileStep(r) \/ EditRuntime(r) \/ DeleteRuntime(r)
    \/ \E c \in CRs : Kalm(c)
    \/ CacheSync

Spec == Init /\ [][Next]_vars

-----------------------------------------------------------------------------
(* Properties.                                                              *)

\* The promise of docs/adr/004, read off the CRs on the API server.
ownerBar == [c \in CRs |-> crs[c].label]

stageBar ==
    [c \in CRs |-> IF crs[c].orphaned THEN "orphaned"
                   ELSE IF crs[c].assigned # NoRuntime THEN "claimed"
                   ELSE IF crs[c].label # NoRuntime THEN "reserved"
                   ELSE "available"]

Ownership == INSTANCE AuditLogOwnership WITH owner <- ownerBar, stage <- stageBar

\* Whatever the interleaving of Runtimes, KALM and a trailing cache, a CR is
\* only ever reserved, claimed and released by one Runtime, in that order, and
\* is never taken over or given back (reserveAuditLogCR, ClaimAuditLog,
\* claimAndGetDedicatedAuditLogData and releaseAuditLogCR write through the
\* resourceVersion they read).
ImplementsOwnership == Ownership!Spec

\* The CR whose tenant and credentials are put into a shoot is one that the API
\* server holds for that Runtime and that serves its region, although it was
\* looked up in the cache; so no two shoots log into the same tenant.
ConfigIsOwn ==
    \A r \in Runtimes : config[r] # NoCR =>
        /\ crs[config[r]].label = r
        /\ RegionOf[r] \in RegionsOf[config[r]]

\* A CR is orphaned, which starts the retention period after which its logs are
\* destroyed, only when the Runtime it is assigned to is being deleted.
OrphanedOnlyOnDeletion ==
    \A c \in CRs : crs[c].orphaned =>
        \E r \in Runtimes : crs[c].assigned = r /\ deleted[r]

-----------------------------------------------------------------------------
(* The inductive invariant behind the three properties above.               *)

\* o is an earlier version of s, or s itself; what o says about the owner of the
\* CR still holds in s.
VersionOf(o, s) ==
    /\ o.rv <= s.rv
    /\ o.rv = s.rv => o = s
    /\ o.label # NoRuntime => s.label = o.label
    /\ o.assigned # NoRuntime => s.assigned = o.assigned

\* Only the Runtime that reserved a CR claims it; only a claimed CR is orphaned.
WellOwned(o) ==
    /\ o.assigned # NoRuntime => o.label = o.assigned
    /\ o.orphaned => o.assigned # NoRuntime

PoolInv ==
    \A c \in CRs :
        /\ WellOwned(crs[c])
        /\ crs[c].label # NoRuntime => RegionOf[crs[c].label] \in RegionsOf[c]
        /\ VersionOf(cache[c], crs[c]) /\ WellOwned(cache[c])

WatchInv ==
    \A i \in 1..Len(watch) :
        VersionOf(watch[i].obj, crs[watch[i].cr]) /\ WellOwned(watch[i].obj)

\* The copy an Update is about to send.
CandInv ==
    \A r \in Runtimes :
        /\ pc[r] \in UpdateSteps =>
             VersionOf(cand[r].obj, crs[cand[r].cr]) /\ WellOwned(cand[r].obj)
        /\ pc[r] \in {"reserve_update", "direct_update"} =>
             /\ cand[r].obj.label = NoRuntime /\ cand[r].obj.assigned = NoRuntime
             /\ RegionOf[r] \in RegionsOf[cand[r].cr]
        /\ pc[r] = "claim_update" =>
             cand[r].obj.label = r /\ cand[r].obj.assigned # r
        /\ pc[r] = "release_update" => cand[r].obj.assigned = r
        /\ pc[r] \in {"release_find", "release_update"} => deleted[r]

\* Every copy of a CR that the cache, the watch or a reconciliation holds is an
\* earlier version of the CR that agrees with it on the owner, so a provider
\* operation whose Update is accepted has decided on the truth; and only the
\* Runtime that reserved a CR claims it.
IInv ==
    TypeOK /\ PoolInv /\ WatchInv /\ CandInv /\ ConfigIsOwn /\ OrphanedOnlyOnDeletion

-----------------------------------------------------------------------------
(* A claim of the design documents that the code does not keep.             *)

\* docs/adr/004 (implementation), "When a runtime is deleted, the claimed
\* AuditLogCR must be released": once the Runtime is gone, no CR stays claimed.
ReleasedWhenGone ==
    \A r \in Runtimes, c \in CRs :
        phase[r] = "gone" /\ crs[c].assigned = r => crs[c].orphaned
=============================================================================
