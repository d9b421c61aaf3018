------------------------- MODULE AuditLogPoolProofs -------------------------
(***************************************************************************)
(* Proofs about AuditLogPool for any set of Runtimes, of CRs and of        *)
(* regions, and any lag of the cache: the inductive invariant IInv, the    *)
(* safety properties it implies, and that the pool implements              *)
(* AuditLogOwnership.                                                      *)
(***************************************************************************)
EXTENDS AuditLogPool, TLAPS

\* o is claimed by a Runtime with a deletionTimestamp.
OrphanAllowed(o) == \E r \in Runtimes : o.assigned = r /\ deleted[r]

\* n is a next version of CR c that keeps every owner already recorded, and
\* orphans it only if its owner is being deleted.
NextVersion(c, n) ==
    /\ n \in AuditLog
    /\ n.rv = crs[c].rv + 1
    /\ crs[c].label # NoRuntime => n.label = crs[c].label
    /\ crs[c].assigned # NoRuntime => n.assigned = crs[c].assigned
    /\ WellOwned(n)
    /\ n.label # NoRuntime => RegionOf[n.label] \in RegionsOf[c]
    /\ crs[c].orphaned => n.orphaned
    /\ n.orphaned => crs[c].orphaned \/ OrphanAllowed(crs[c])

PoolWrite(c, n) ==
    /\ NextVersion(c, n)
    /\ crs' = [crs EXCEPT ![c] = n]
    /\ watch' = Append(watch, [cr |-> c, obj |-> n])
    /\ cache' = cache

PoolStep == UNCHANGED poolVars \/ \E c \in CRs, n \in AuditLog : PoolWrite(c, n)

PoolType ==
    /\ crs \in [CRs -> AuditLog]
    /\ cache \in [CRs -> AuditLog]
    /\ watch \in Seq(Copy)

\* Being an earlier version of a CR survives the next write to it: reads that
\* are already in flight stay sound (informer cache and resourceVersion).
LEMMA VersionOfNext ==
    ASSUME NEW o \in AuditLog, NEW c \in CRs, NEW n, crs \in [CRs -> AuditLog],
           NextVersion(c, n), VersionOf(o, crs[c])
    PROVE  VersionOf(o, n)
<1>1. o.rv \in Nat /\ crs[c].rv \in Nat /\ n.rv = crs[c].rv + 1
  BY DEF AuditLog, NextVersion
<1>2. o.rv < n.rv
  BY <1>1 DEF VersionOf
<1> QED
  BY <1>1, <1>2 DEF VersionOf, NextVersion

\* A write by any client preserves what the cache, the undelivered watch events
\* and the copies in flight say about the CRs.
LEMMA PoolStepInv ==
    ASSUME PoolType, PoolInv, WatchInv, PoolStep
    PROVE  /\ PoolType' /\ PoolInv' /\ WatchInv'
           /\ \A c \in CRs, o \in AuditLog :
                VersionOf(o, crs[c]) => VersionOf(o, crs'[c])
<1>1. CASE UNCHANGED poolVars
  <2>1. crs' = crs /\ cache' = cache /\ watch' = watch
    BY <1>1 DEF poolVars
  <2>2. PoolType' /\ PoolInv' /\ WatchInv'
    BY <2>1 DEF PoolType, PoolInv, WatchInv
  <2> QED BY <2>1, <2>2
<1>2. ASSUME NEW c \in CRs, NEW n \in AuditLog, PoolWrite(c, n)
      PROVE  /\ PoolType' /\ PoolInv' /\ WatchInv'
             /\ \A d \in CRs, o \in AuditLog :
                  VersionOf(o, crs[d]) => VersionOf(o, crs'[d])
  <2>1. /\ NextVersion(c, n)
        /\ crs' = [crs EXCEPT ![c] = n]
        /\ watch' = Append(watch, [cr |-> c, obj |-> n])
        /\ cache' = cache
    BY <1>2 DEF PoolWrite
  <2>2. [cr |-> c, obj |-> n] \in Copy
    BY DEF Copy
  <2>3. PoolType'
    BY <2>1, <2>2 DEF PoolType
  <2>4. crs'[c] = n /\ \A d \in CRs : d # c => crs'[d] = crs[d]
    BY <2>1 DEF PoolType
  <2>5. ASSUME NEW d \in CRs, NEW o \in AuditLog, VersionOf(o, crs[d])
        PROVE  VersionOf(o, crs'[d])
    <3>1. CASE d = c
      BY <2>1, <2>4, <2>5, <3>1, VersionOfNext DEF PoolType
    <3>2. CASE d # c
      BY <2>4, <2>5, <3>2
    <3> QED BY <3>1, <3>2
  <2>6. PoolInv'
    <3> SUFFICES ASSUME NEW d \in CRs
                 PROVE  /\ WellOwned(crs'[d])
                        /\ crs'[d].label # NoRuntime => RegionOf[crs'[d].label] \in RegionsOf[d]
                        /\ VersionOf(cache'[d], crs'[d]) /\ WellOwned(cache'[d])
      BY DEF PoolInv
    <3>1. VersionOf(cache'[d], crs'[d]) /\ WellOwned(cache'[d])
      BY <2>1, <2>5 DEF PoolInv, PoolType
    <3>2. CASE d = c
      BY <2>1, <2>4, <3>1, <3>2 DEF NextVersion
    <3>3. CASE d # c
      BY <2>4, <3>1, <3>3 DEF PoolInv
    <3> QED BY <3>2, <3>3
  <2>7. VersionOf(n, n)
    BY DEF VersionOf, AuditLog
  <2>8. WatchInv'
    <3> SUFFICES ASSUME NEW i \in 1..Len(watch')
                 PROVE  /\ VersionOf(watch'[i].obj, crs'[watch'[i].cr])
                        /\ WellOwned(watch'[i].obj)
      BY DEF WatchInv
    <3>1. CASE i \in 1..Len(watch)
      <4>1. watch'[i] = watch[i] /\ watch[i] \in Copy
        BY <2>1, <3>1 DEF PoolType
      <4>2. watch[i].cr \in CRs /\ watch[i].obj \in AuditLog
        BY <4>1 DEF Copy
      <4> QED BY <2>5, <3>1, <4>1, <4>2 DEF WatchInv
    <3>2. CASE i = Len(watch) + 1
      <4>1. watch'[i] = [cr |-> c, obj |-> n]
        BY <2>1, <3>2 DEF PoolType
      <4> QED BY <2>1, <2>4, <2>7, <4>1 DEF NextVersion
    <3>3. Len(watch') = Len(watch) + 1 /\ Len(watch) \in Nat
      BY <2>1 DEF PoolType
    <3> QED BY <3>1, <3>2, <3>3
  <2> QED BY <2>3, <2>5, <2>6, <2>8
<1> QED
  BY <1>1, <1>2 DEF PoolStep

-----------------------------------------------------------------------------
(* Writes: each Update, and KALM, is a PoolStep.                            *)

\* Storing an object that keeps the recorded owners is a pool step.
LEMMA StoreIsPoolStep ==
    ASSUME PoolType, NEW c \in CRs, NEW o \in AuditLog, Store(c, o),
           crs[c].label # NoRuntime => o.label = crs[c].label,
           crs[c].assigned # NoRuntime => o.assigned = crs[c].assigned,
           WellOwned(o),
           o.label # NoRuntime => RegionOf[o.label] \in RegionsOf[c],
           crs[c].orphaned => o.orphaned,
           o.orphaned => crs[c].orphaned \/ OrphanAllowed(crs[c])
    PROVE  PoolStep
<1> DEFINE n == [o EXCEPT !.rv = crs[c].rv + 1]
<1>1. crs[c].rv \in Nat
  BY DEF PoolType, AuditLog
<1>2. n \in AuditLog
  BY <1>1 DEF AuditLog
<1>3. /\ n.rv = crs[c].rv + 1 /\ n.label = o.label
      /\ n.assigned = o.assigned /\ n.orphaned = o.orphaned
  BY DEF AuditLog
<1>4. NextVersion(c, n)
  BY <1>2, <1>3 DEF NextVersion, WellOwned
<1>5. PoolWrite(c, n)
  BY <1>4 DEF Store, PoolWrite
<1> QED
  BY <1>2, <1>5 DEF PoolStep

\* So is an Update, whatever its answer: if it is applied at all, the copy it
\* was computed from is the current version.
LEMMA UpdateIsPoolStep ==
    ASSUME PoolType, NEW r \in Runtimes, cand[r] \in Copy,
           VersionOf(cand[r].obj, crs[cand[r].cr]),
           NEW o \in AuditLog, UpdateOk(r, o) \/ UpdateErr(r, o),
           cand[r].obj.label # NoRuntime => o.label = cand[r].obj.label,
           cand[r].obj.assigned # NoRuntime => o.assigned = cand[r].obj.assigned,
           WellOwned(o),
           o.label # NoRuntime => RegionOf[o.label] \in RegionsOf[cand[r].cr],
           cand[r].obj.orphaned => o.orphaned,
           o.orphaned => cand[r].obj.orphaned \/ OrphanAllowed(cand[r].obj)
    PROVE  PoolStep
<1>1. cand[r].cr \in CRs
  BY DEF Copy
<1>2. CASE UNCHANGED poolVars
  BY <1>2 DEF PoolStep
<1>3. CASE Accepted(r) /\ Store(cand[r].cr, o)
  <2>1. crs[cand[r].cr] = cand[r].obj
    BY <1>3 DEF Accepted, VersionOf
  <2> QED
    BY <1>1, <1>3, <2>1, StoreIsPoolStep
<1> QED
  BY <1>2, <1>3 DEF UpdateOk, UpdateErr

\* reserveAuditLogCR sends a copy it has seen without an owner, now labelled r.
LEMMA ReserveObject ==
    ASSUME IInv, NEW r \in Runtimes, pc[r] = "reserve_update"
    PROVE  LET o == [cand[r].obj EXCEPT !.label = r]
           IN  /\ cand[r] \in Copy /\ o \in AuditLog /\ WellOwned(o) /\ o.label = r
               /\ o.assigned = NoRuntime /\ o.orphaned = cand[r].obj.orphaned
               /\ cand[r].obj.label = NoRuntime /\ cand[r].obj.assigned = NoRuntime
               /\ RegionOf[r] \in RegionsOf[cand[r].cr]
<1>1. cand[r] \in Copy /\ cand[r].obj \in AuditLog
  BY DEF IInv, TypeOK, UpdateSteps, Copy
<1>2. /\ cand[r].obj.label = NoRuntime /\ cand[r].obj.assigned = NoRuntime
      /\ WellOwned(cand[r].obj) /\ RegionOf[r] \in RegionsOf[cand[r].cr]
  BY DEF IInv, CandInv, UpdateSteps
<1> QED
  BY <1>1, <1>2 DEF AuditLog, Owner, WellOwned

\* The claim of Phase 2 sends a copy already labelled r, now assigned to r.
LEMMA ClaimObject ==
    ASSUME IInv, NEW r \in Runtimes, pc[r] = "claim_update"
    PROVE  LET o == [cand[r].obj EXCEPT !.assigned = r]
           IN  /\ cand[r] \in Copy /\ o \in AuditLog /\ WellOwned(o) /\ o.label = r
               /\ o.assigned = r /\ o.orphaned = cand[r].obj.orphaned
               /\ cand[r].obj.label = r /\ cand[r].obj.assigned = NoRuntime
               /\ RegionOf[r] \in RegionsOf[cand[r].cr]
<1>1. cand[r] \in Copy /\ cand[r].obj \in AuditLog /\ cand[r].cr \in CRs
  BY DEF IInv, TypeOK, UpdateSteps, Copy
<1>2. /\ cand[r].obj.label = r /\ cand[r].obj.assigned # r
      /\ WellOwned(cand[r].obj) /\ VersionOf(cand[r].obj, crs[cand[r].cr])
  BY DEF IInv, CandInv, UpdateSteps
<1>3. cand[r].obj.assigned = NoRuntime /\ r # NoRuntime
  BY <1>2, PoolAssumption DEF WellOwned
<1>4. RegionOf[r] \in RegionsOf[cand[r].cr]
  BY <1>1, <1>2, <1>3 DEF IInv, PoolInv, VersionOf
<1> QED
  BY <1>1, <1>2, <1>3, <1>4 DEF AuditLog, Owner, WellOwned

\* ClaimAuditLog sends a copy it has seen without an owner, labelled and assigned.
LEMMA DirectObject ==
    ASSUME IInv, NEW r \in Runtimes, pc[r] = "direct_update"
    PROVE  LET o == [cand[r].obj EXCEPT !.assigned = r, !.label = r]
           IN  /\ cand[r] \in Copy /\ o \in AuditLog /\ WellOwned(o) /\ o.label = r
               /\ o.assigned = r /\ o.orphaned = cand[r].obj.orphaned
               /\ cand[r].obj.label = NoRuntime /\ cand[r].obj.assigned = NoRuntime
               /\ RegionOf[r] \in RegionsOf[cand[r].cr]
<1>1. cand[r] \in Copy /\ cand[r].obj \in AuditLog
  BY DEF IInv, TypeOK, UpdateSteps, Copy
<1>2. /\ cand[r].obj.label = NoRuntime /\ cand[r].obj.assigned = NoRuntime
      /\ WellOwned(cand[r].obj) /\ RegionOf[r] \in RegionsOf[cand[r].cr]
  BY DEF IInv, CandInv, UpdateSteps
<1>3. r # NoRuntime
  BY PoolAssumption
<1> QED
  BY <1>1, <1>2, <1>3 DEF AuditLog, Owner, WellOwned

\* releaseAuditLogCR sends a copy assigned to r, now orphaned.
LEMMA ReleaseObject ==
    ASSUME IInv, NEW r \in Runtimes, pc[r] = "release_update"
    PROVE  LET o == [cand[r].obj EXCEPT !.orphaned = TRUE]
           IN  /\ cand[r] \in Copy /\ o \in AuditLog /\ WellOwned(o) /\ o.label = r
               /\ o.assigned = r /\ o.orphaned
               /\ cand[r].obj.label = r /\ cand[r].obj.assigned = r
               /\ RegionOf[r] \in RegionsOf[cand[r].cr]
<1>1. cand[r] \in Copy /\ cand[r].obj \in AuditLog /\ cand[r].cr \in CRs
  BY DEF IInv, TypeOK, UpdateSteps, Copy
<1>2. /\ cand[r].obj.assigned = r
      /\ WellOwned(cand[r].obj) /\ VersionOf(cand[r].obj, crs[cand[r].cr])
  BY DEF IInv, CandInv, UpdateSteps
<1>3. cand[r].obj.label = r /\ r # NoRuntime
  BY <1>2, PoolAssumption DEF WellOwned
<1>4. RegionOf[r] \in RegionsOf[cand[r].cr]
  BY <1>1, <1>2, <1>3 DEF IInv, PoolInv, VersionOf
<1> QED
  BY <1>1, <1>2, <1>3, <1>4 DEF AuditLog, Owner, WellOwned

-----------------------------------------------------------------------------
(* The inductive step, part by part.                                        *)

Writes(r) == ReserveUpdate(r) \/ ClaimUpdate(r) \/ DirectUpdate(r) \/ ReleaseUpdate(r)

\* Every step except the delivery of a watch event writes the pool, if at all,
\* in a way that keeps the recorded owners.
LEMMA NextIsPoolStep ==
    ASSUME IInv, Next, ~CacheSync
    PROVE  PoolStep
<1>1. PoolType /\ PoolInv
  BY DEF IInv, TypeOK, PoolType
<1>2. ASSUME NEW r \in Runtimes, ReserveUpdate(r) PROVE PoolStep
  <2> DEFINE o == [cand[r].obj EXCEPT !.label = r]
  <2>1. pc[r] = "reserve_update" /\ (UpdateOk(r, o) \/ UpdateErr(r, o))
    BY <1>2 DEF ReserveUpdate
  <2>2. VersionOf(cand[r].obj, crs[cand[r].cr])
    BY <2>1 DEF IInv, CandInv, UpdateSteps
  <2>3. /\ cand[r] \in Copy /\ o \in AuditLog /\ WellOwned(o) /\ o.label = r
        /\ cand[r].obj.label # NoRuntime => o.label = cand[r].obj.label
        /\ cand[r].obj.assigned # NoRuntime => o.assigned = cand[r].obj.assigned
        /\ RegionOf[r] \in RegionsOf[cand[r].cr]
    BY <2>1, ReserveObject
  <2>4. o.orphaned = cand[r].obj.orphaned
    BY <2>1, ReserveObject
  <2> HIDE DEF o
  <2> QED
    BY <1>1, <2>1, <2>2, <2>3, <2>4, UpdateIsPoolStep
<1>3. ASSUME NEW r \in Runtimes, ClaimUpdate(r) PROVE PoolStep
  <2> DEFINE o == [cand[r].obj EXCEPT !.assigned = r]
  <2>1. pc[r] = "claim_update" /\ (UpdateOk(r, o) \/ UpdateErr(r, o))
    BY <1>3 DEF ClaimUpdate
  <2>2. VersionOf(cand[r].obj, crs[cand[r].cr])
    BY <2>1 DEF IInv, CandInv, UpdateSteps
  <2>3. /\ cand[r] \in Copy /\ o \in AuditLog /\ WellOwned(o) /\ o.label = r
        /\ cand[r].obj.label # NoRuntime => o.label = cand[r].obj.label
        /\ cand[r].obj.assigned # NoRuntime => o.assigned = cand[r].obj.assigned
        /\ RegionOf[r] \in RegionsOf[cand[r].cr]
    BY <2>1, ClaimObject
  <2>4. o.orphaned = cand[r].obj.orphaned
    BY <2>1, ClaimObject
  <2> HIDE DEF o
  <2> QED
    BY <1>1, <2>1, <2>2, <2>3, <2>4, UpdateIsPoolStep
<1>4. ASSUME NEW r \in Runtimes, DirectUpdate(r) PROVE PoolStep
  <2> DEFINE o == [cand[r].obj EXCEPT !.assigned = r, !.label = r]
  <2>1. pc[r] = "direct_update" /\ (UpdateOk(r, o) \/ UpdateErr(r, o))
    BY <1>4 DEF DirectUpdate
  <2>2. VersionOf(cand[r].obj, crs[cand[r].cr])
    BY <2>1 DEF IInv, CandInv, UpdateSteps
  <2>3. /\ cand[r] \in Copy /\ o \in AuditLog /\ WellOwned(o) /\ o.label = r
        /\ cand[r].obj.label # NoRuntime => o.label = cand[r].obj.label
        /\ cand[r].obj.assigned # NoRuntime => o.assigned = cand[r].obj.assigned
        /\ RegionOf[r] \in RegionsOf[cand[r].cr]
    BY <2>1, DirectObject
  <2>4. o.orphaned = cand[r].obj.orphaned
    BY <2>1, DirectObject
  <2> HIDE DEF o
  <2> QED
    BY <1>1, <2>1, <2>2, <2>3, <2>4, UpdateIsPoolStep
<1>5. ASSUME NEW r \in Runtimes, ReleaseUpdate(r) PROVE PoolStep
  <2> DEFINE o == [cand[r].obj EXCEPT !.orphaned = TRUE]
  <2>1. pc[r] = "release_update" /\ (UpdateOk(r, o) \/ UpdateErr(r, o))
    BY <1>5 DEF ReleaseUpdate
  <2>2. VersionOf(cand[r].obj, crs[cand[r].cr])
    BY <2>1 DEF IInv, CandInv, UpdateSteps
  <2>3. /\ cand[r] \in Copy /\ o \in AuditLog /\ WellOwned(o) /\ o.label = r
        /\ cand[r].obj.label # NoRuntime => o.label = cand[r].obj.label
        /\ cand[r].obj.assigned # NoRuntime => o.assigned = cand[r].obj.assigned
        /\ RegionOf[r] \in RegionsOf[cand[r].cr]
    BY <2>1, ReleaseObject
  <2>4. o.orphaned /\ OrphanAllowed(cand[r].obj)
    BY <2>1, ReleaseObject DEF IInv, CandInv, OrphanAllowed
  <2> HIDE DEF o
  <2> QED
    BY <1>1, <2>1, <2>2, <2>3, <2>4, UpdateIsPoolStep
<1>6. ASSUME NEW c \in CRs, Kalm(c) PROVE PoolStep
  <2>1. PICK s \in KalmNext(crs[c]) : Store(c, [crs[c] EXCEPT !.state = s])
    BY <1>6 DEF Kalm
  <2>2. s \in States
    BY <2>1 DEF KalmNext, States
  <2>3. crs[c] \in AuditLog
    BY <1>1 DEF PoolType
  <2> DEFINE o == [crs[c] EXCEPT !.state = s]
  <2>4. /\ o \in AuditLog /\ o.label = crs[c].label
        /\ o.assigned = crs[c].assigned /\ o.orphaned = crs[c].orphaned
    BY <2>2, <2>3 DEF AuditLog
  <2>5. WellOwned(o) /\ (o.label # NoRuntime => RegionOf[o.label] \in RegionsOf[c])
    BY <1>1, <2>4 DEF PoolInv, WellOwned
  <2> HIDE DEF o
  <2>6. Store(c, o)
    BY <2>1 DEF o
  <2> QED
    BY <1>1, <2>4, <2>5, <2>6, StoreIsPoolStep
<1>7. ASSUME NEW r \in Runtimes,
             (ReconcileStep(r) /\ ~Writes(r)) \/ EditRuntime(r) \/ DeleteRuntime(r)
      PROVE  UNCHANGED poolVars
  BY <1>7 DEF ReconcileStep, Writes, EditRuntime, DeleteRuntime, Dispatch,
     ReserveLookup, ReserveFind, CreateShoot, ClaimFind, Lookup, PatchAssigned,
     PatchReserved, DirectAssigned, DirectReserved, DirectFind, ReleaseFind, DeleteShoot
<1> QED
  BY <1>2, <1>3, <1>4, <1>5, <1>6, <1>7 DEF Next, Writes, PoolStep

\* Delivering a watch event keeps the cache an earlier version of the API server.
LEMMA CacheSyncInv ==
    ASSUME IInv, CacheSync
    PROVE  PoolType' /\ PoolInv' /\ WatchInv'
<1>1. /\ watch \in Seq(Copy) /\ watch # <<>> /\ crs \in [CRs -> AuditLog]
      /\ cache \in [CRs -> AuditLog] /\ crs' = crs /\ watch' = Tail(watch)
      /\ cache' = [cache EXCEPT ![Head(watch).cr] = Head(watch).obj]
  BY DEF IInv, TypeOK, CacheSync
<1>2. Head(watch) = watch[1] /\ 1 \in 1..Len(watch) /\ Head(watch) \in Copy
  BY <1>1
<1>3. Head(watch).cr \in CRs /\ Head(watch).obj \in AuditLog
  BY <1>2 DEF Copy
<1>4. PoolType'
  BY <1>1, <1>3 DEF PoolType
<1>5. VersionOf(Head(watch).obj, crs[Head(watch).cr]) /\ WellOwned(Head(watch).obj)
  BY <1>2 DEF IInv, WatchInv
<1>6. PoolInv'
  BY <1>1, <1>3, <1>5 DEF IInv, PoolInv
<1>7. WatchInv'
  <2> SUFFICES ASSUME NEW i \in 1..Len(watch')
               PROVE  VersionOf(watch'[i].obj, crs'[watch'[i].cr]) /\ WellOwned(watch'[i].obj)
    BY DEF WatchInv
  <2>1. i + 1 \in 1..Len(watch) /\ watch'[i] = watch[i + 1]
    BY <1>1
  <2> QED
    BY <1>1, <2>1 DEF IInv, WatchInv
<1> QED
  BY <1>4, <1>6, <1>7

\* The pool part of the invariant is kept by every step.
LEMMA PoolNext ==
    ASSUME IInv, [Next]_vars
    PROVE  /\ PoolType' /\ PoolInv' /\ WatchInv'
           /\ \A c \in CRs, o \in AuditLog :
                VersionOf(o, crs[c]) => VersionOf(o, crs'[c])
<1>1. PoolType /\ PoolInv /\ WatchInv
  BY DEF IInv, TypeOK, PoolType
<1>2. CASE CacheSync
  <2>1. crs' = crs
    BY <1>2 DEF CacheSync
  <2> QED
    BY <1>2, <2>1, CacheSyncInv
<1>3. CASE ~CacheSync
  <2>1. PoolStep
    BY <1>3, NextIsPoolStep DEF PoolStep, poolVars, vars
  <2> QED
    BY <1>1, <2>1, PoolStepInv
<1> QED
  BY <1>2, <1>3

\* Control state and in-memory copies keep their types.
LEMMA TypeNext ==
    ASSUME IInv, [Next]_vars
    PROVE  TypeOK'
<1>1. PoolType'
  BY PoolNext
<1>2. TypeOK
  BY DEF IInv
<1> DEFINE C == /\ queued' \in [Runtimes -> BOOLEAN]
                /\ pc' \in [Runtimes -> Steps]
                /\ wanted' \in [Runtimes -> BOOLEAN]
                /\ cand' \in [Runtimes -> Copy \cup {NoCR}]
                /\ \A r \in Runtimes : pc'[r] \in UpdateSteps => cand'[r] \in Copy
                /\ config' \in [Runtimes -> CRs \cup {NoCR}]
<1> DEFINE T == /\ enabled' \in [Runtimes -> BOOLEAN]
                /\ stale' \in [Runtimes -> BOOLEAN]
                /\ deleted' \in [Runtimes -> BOOLEAN]
                /\ phase' \in [Runtimes -> {"creating", "running", "gone"}]
                /\ C
<1>3. ASSUME NEW r \in Runtimes, NEW c \in CRs, NEW step \in UpdateSteps,
             TakeCopy(r, c, step)
      PROVE  C
  <2>1. [cr |-> c, obj |-> cache[c]] \in Copy
    BY <1>2 DEF TypeOK, Copy
  <2> QED
    BY <1>2, <1>3, <2>1 DEF TakeCopy, Goto, TypeOK, Steps, UpdateSteps
<1>4. ASSUME NEW r \in Runtimes, NEW c \in CRs, Use(r, c) PROVE C
  BY <1>2, <1>4 DEF Use, Return, Goto, TypeOK, Steps, UpdateSteps
<1>5. ASSUME NEW r \in Runtimes, FailAndStop(r) \/ UseShared(r) PROVE C
  BY <1>2, <1>5 DEF FailAndStop, UseShared, Return, Goto, TypeOK, Steps, UpdateSteps
<1>6. ASSUME NEW r \in Runtimes, NEW step \in Steps \ UpdateSteps, Goto(r, step),
             UNCHANGED <<queued, wanted, cand, config>>
      PROVE  C
  BY <1>2, <1>6 DEF Goto, TypeOK
<1>7. ASSUME NEW r \in Runtimes, Dispatch(r) PROVE T
  BY <1>2, <1>7 DEF Dispatch, TypeOK, Goto, Steps, UpdateSteps, userVars
<1>8. ASSUME NEW r \in Runtimes, CreateShoot(r) \/ DeleteShoot(r) PROVE T
  BY <1>2, <1>8 DEF CreateShoot, DeleteShoot, TypeOK, Goto, Steps, UpdateSteps,
     userVars, Return
<1>9. ASSUME NEW r \in Runtimes,
             \/ ReserveLookup(r) \/ ReserveFind(r) \/ ClaimFind(r) \/ ReleaseFind(r)
             \/ DirectFind(r) \/ PatchAssigned(r) \/ PatchReserved(r)
             \/ DirectAssigned(r) \/ DirectReserved(r)
      PROVE  T
  <2>1. /\ "reserve_update" \in UpdateSteps /\ "claim_update" \in UpdateSteps
        /\ "direct_update" \in UpdateSteps /\ "release_update" \in UpdateSteps
        /\ {"create_shoot", "reserve_find", "idle", "direct_assigned", "delete_shoot",
            "patch_reserved", "direct_reserved", "direct_find"} \subseteq Steps \ UpdateSteps
    BY DEF UpdateSteps, Steps
  <2>2. \A c : /\ c \in findAvailableAuditLogCR(RegionOf[r]) => c \in CRs
               /\ c \in findAuditLogCRByReservation(r) => c \in CRs
               /\ c \in findAuditLogCRByRuntimeID(r) => c \in CRs
    BY DEF findAvailableAuditLogCR, findAuditLogCRByReservation, findAuditLogCRByRuntimeID
  <2>3. UNCHANGED <<enabled, deleted, phase>> /\ stale' \in [Runtimes -> BOOLEAN]
    BY <1>2, <1>9 DEF TypeOK, userVars, ReserveLookup, ReserveFind, ClaimFind, ReleaseFind,
       DirectFind, PatchFailed, PatchAssigned, PatchReserved, DirectAssigned,
       DirectReserved, Lookup
  <2>4. CASE ReserveLookup(r) \/ ReserveFind(r)
    BY <1>2, <1>3, <1>5, <1>6, <2>1, <2>2, <2>3, <2>4
       DEF ReserveLookup, ReserveFind, TypeOK
  <2>5. CASE ClaimFind(r) \/ ReleaseFind(r)
    BY <1>2, <1>3, <1>4, <1>5, <1>6, <2>1, <2>2, <2>3, <2>5
       DEF ClaimFind, ReleaseFind, TypeOK
  <2>6. CASE DirectFind(r)
    BY <1>2, <1>3, <1>5, <2>1, <2>2, <2>3, <2>6 DEF DirectFind, PatchFailed, TypeOK
  <2>7. CASE PatchAssigned(r) \/ PatchReserved(r) \/ DirectAssigned(r) \/ DirectReserved(r)
    BY <1>2, <1>4, <1>5, <1>6, <2>1, <2>2, <2>3, <2>7
       DEF PatchAssigned, PatchReserved, DirectAssigned, DirectReserved, Lookup, TypeOK
  <2> QED
    BY <1>9, <2>4, <2>5, <2>6, <2>7
<1>10. ASSUME NEW r \in Runtimes, Writes(r) PROVE T
  <2>1. cand[r] \in Copy /\ cand[r].cr \in CRs
    BY <1>2, <1>10 DEF Writes, TypeOK, UpdateSteps, Copy, ReserveUpdate, ClaimUpdate,
       DirectUpdate, ReleaseUpdate
  <2>2. CASE ReserveUpdate(r)
    BY <1>2, <2>1, <2>2 DEF ReserveUpdate, TypeOK, Goto, Steps, UpdateSteps, userVars,
       FailAndStop, Return
  <2>3. CASE ClaimUpdate(r)
    BY <1>2, <2>1, <2>3 DEF ClaimUpdate, TypeOK, Goto, Steps, UpdateSteps, userVars,
       FailAndStop, Return, Use
  <2>4. CASE DirectUpdate(r)
    BY <1>2, <2>1, <2>4 DEF DirectUpdate, TypeOK, Goto, Steps, UpdateSteps, userVars,
       FailAndStop, PatchFailed, Return, Use
  <2>5. CASE ReleaseUpdate(r)
    BY <1>2, <2>1, <2>5 DEF ReleaseUpdate, TypeOK, Goto, Steps, UpdateSteps, userVars
  <2> QED
    BY <1>10, <2>2, <2>3, <2>4, <2>5 DEF Writes
<1>11. ASSUME NEW r \in Runtimes, EditRuntime(r) \/ DeleteRuntime(r) PROVE T
  BY <1>2, <1>11 DEF EditRuntime, DeleteRuntime, TypeOK
<1>12. ASSUME (\E c \in CRs : Kalm(c)) \/ CacheSync \/ UNCHANGED vars PROVE T
  BY <1>2, <1>12 DEF Kalm, CacheSync, vars, TypeOK, userVars
<1>13. T
  BY <1>7, <1>8, <1>9, <1>10, <1>11, <1>12 DEF Next, ReconcileStep, Writes
<1> QED
  BY <1>1, <1>13 DEF TypeOK, PoolType

\* A deletionTimestamp is never removed, and only r's own reconciliation moves
\* r's control state.
LEMMA Frame ==
    ASSUME TypeOK, [Next]_vars, NEW s \in Runtimes
    PROVE  /\ deleted[s] => deleted'[s]
           /\ \/ pc'[s] = pc[s] /\ cand'[s] = cand[s] /\ config'[s] = config[s]
              \/ ReconcileStep(s)
<1>1. ASSUME NEW r \in Runtimes, EditRuntime(r) \/ DeleteRuntime(r)
      PROVE  (deleted[s] => deleted'[s]) /\ UNCHANGED <<pc, cand, config>>
  BY <1>1 DEF EditRuntime, DeleteRuntime, TypeOK
<1>2. ASSUME (\E c \in CRs : Kalm(c)) \/ CacheSync \/ UNCHANGED vars
      PROVE  UNCHANGED <<deleted, pc, cand, config>>
  BY <1>2 DEF Kalm, CacheSync, vars, userVars
<1>3. ASSUME NEW r \in Runtimes, ReconcileStep(r), r # s
      PROVE  pc'[s] = pc[s] /\ cand'[s] = cand[s] /\ config'[s] = config[s]
  BY <1>3 DEF ReconcileStep, Dispatch, ReserveLookup, ReserveFind, ReserveUpdate,
     CreateShoot, ClaimFind, ClaimUpdate, Lookup, PatchAssigned, PatchReserved,
     DirectAssigned, DirectReserved, DirectFind, DirectUpdate, ReleaseFind, ReleaseUpdate,
     DeleteShoot, TypeOK, Goto, Return, Use, UseShared, FailAndStop, PatchFailed, TakeCopy
<1>4. ASSUME NEW r \in Runtimes, ReconcileStep(r)
      PROVE  deleted' = deleted
  BY <1>4 DEF ReconcileStep, Dispatch, ReserveLookup, ReserveFind, ReserveUpdate,
     CreateShoot, ClaimFind, ClaimUpdate, Lookup, PatchAssigned, PatchReserved,
     DirectAssigned, DirectReserved, DirectFind, DirectUpdate, ReleaseFind, ReleaseUpdate,
     DeleteShoot, userVars
<1> QED
  BY <1>1, <1>2, <1>3, <1>4 DEF Next

CandOk(r) ==
    /\ pc[r] \in UpdateSteps =>
         VersionOf(cand[r].obj, crs[cand[r].cr]) /\ WellOwned(cand[r].obj)
    /\ pc[r] \in {"reserve_update", "direct_update"} =>
         /\ cand[r].obj.label = NoRuntime /\ cand[r].obj.assigned = NoRuntime
         /\ RegionOf[r] \in RegionsOf[cand[r].cr]
    /\ pc[r] = "claim_update" =>
         cand[r].obj.label = r /\ cand[r].obj.assigned # r
    /\ pc[r] = "release_update" => cand[r].obj.assigned = r
    /\ pc[r] \in {"release_find", "release_update"} => deleted[r]

\* The copy a reconciliation holds stays a version of its CR, with the owner
\* the code tested, until the Update that sends it.
LEMMA CandNext ==
    ASSUME IInv, [Next]_vars
    PROVE  CandInv'
<1> SUFFICES ASSUME NEW s \in Runtimes PROVE CandOk(s)'
  BY DEF CandInv, CandOk
<1>1. TypeOK /\ PoolInv /\ CandOk(s)
  BY DEF IInv, CandInv, CandOk
<1>2. CASE pc'[s] = pc[s] /\ cand'[s] = cand[s] /\ config'[s] = config[s]
  <2>1. pc[s] \in UpdateSteps => cand[s].cr \in CRs /\ cand[s].obj \in AuditLog
    BY <1>1 DEF TypeOK, Copy
  <2>2. deleted[s] => deleted'[s]
    BY <1>1, Frame
  <2>3. pc[s] \in UpdateSteps => VersionOf(cand[s].obj, crs'[cand[s].cr])
    BY <1>1, <2>1, PoolNext DEF CandOk
  <2> QED
    BY <1>1, <1>2, <2>2, <2>3 DEF CandOk
<1>3. CASE pc'[s] \notin UpdateSteps \cup {"release_find"}
  BY <1>3 DEF CandOk, UpdateSteps
<1>4. ASSUME NEW c \in CRs, NEW step, TakeCopy(s, c, step), UNCHANGED crs
      PROVE  /\ pc'[s] = step /\ cand'[s].cr = c /\ cand'[s].obj = cache[c]
             /\ VersionOf(cand'[s].obj, crs'[cand'[s].cr]) /\ WellOwned(cand'[s].obj)
  BY <1>1, <1>4 DEF TakeCopy, Goto, TypeOK, PoolInv
<1>5. CASE Dispatch(s)
  <2>1. pc'[s] = "release_find" => deleted'[s]
    BY <1>1, <1>5 DEF Dispatch, Goto, TypeOK, userVars
  <2>2. pc'[s] \notin UpdateSteps
    BY <1>1, <1>5 DEF Dispatch, Goto, TypeOK, UpdateSteps
  <2> QED BY <2>1, <2>2 DEF CandOk, UpdateSteps
<1>6. CASE ReserveFind(s)
  <2>1. UNCHANGED crs
    BY <1>6 DEF ReserveFind, poolVars
  <2>2. CASE FailAndStop(s)
    BY <1>1, <1>3, <2>2 DEF FailAndStop, Return, Goto, TypeOK, UpdateSteps
  <2>3. ASSUME NEW c \in findAvailableAuditLogCR(RegionOf[s]), TakeCopy(s, c, "reserve_update")
        PROVE  CandOk(s)'
    BY <1>4, <2>1, <2>3 DEF findAvailableAuditLogCR, CandOk, UpdateSteps
  <2> QED BY <1>6, <2>2, <2>3 DEF ReserveFind
<1>7. CASE DirectFind(s)
  <2>1. UNCHANGED crs
    BY <1>7 DEF DirectFind, poolVars
  <2>2. CASE FailAndStop(s)
    BY <1>1, <1>3, <2>2 DEF FailAndStop, Return, Goto, TypeOK, UpdateSteps
  <2>3. ASSUME NEW c \in findAvailableAuditLogCR(RegionOf[s]), TakeCopy(s, c, "direct_update")
        PROVE  CandOk(s)'
    BY <1>4, <2>1, <2>3 DEF findAvailableAuditLogCR, CandOk, UpdateSteps
  <2> QED BY <1>7, <2>2, <2>3 DEF DirectFind, PatchFailed
<1>8. CASE ClaimFind(s)
  <2>1. UNCHANGED crs
    BY <1>8 DEF ClaimFind, poolVars
  <2>2. CASE Return(s)
    BY <1>1, <1>3, <2>2 DEF Return, Goto, TypeOK, UpdateSteps
  <2>3. ASSUME NEW c \in findAuditLogCRByReservation(s), cache[c].assigned # s,
               TakeCopy(s, c, "claim_update")
        PROVE  CandOk(s)'
    BY <1>4, <2>1, <2>3 DEF findAuditLogCRByReservation, CandOk, UpdateSteps
  <2> QED BY <1>8, <2>2, <2>3 DEF ClaimFind, FailAndStop, Use
<1>9. CASE ReleaseFind(s)
  <2>1. UNCHANGED <<crs, deleted>> /\ deleted[s]
    BY <1>1, <1>9 DEF ReleaseFind, poolVars, userVars, CandOk
  <2>2. CASE Goto(s, "delete_shoot")
    BY <1>1, <1>3, <2>2 DEF Goto, TypeOK, UpdateSteps
  <2>3. ASSUME NEW c \in findAuditLogCRByRuntimeID(s), TakeCopy(s, c, "release_update")
        PROVE  CandOk(s)'
    BY <1>4, <2>1, <2>3 DEF findAuditLogCRByRuntimeID, CandOk, UpdateSteps
  <2> QED BY <1>9, <2>2, <2>3 DEF ReleaseFind
<1>10. ASSUME ReserveLookup(s) \/ CreateShoot(s) \/ DeleteShoot(s) \/ Writes(s)
              \/ PatchAssigned(s) \/ PatchReserved(s) \/ DirectAssigned(s) \/ DirectReserved(s)
       PROVE  pc'[s] \notin UpdateSteps \cup {"release_find"}
  BY <1>1, <1>10 DEF ReserveLookup, CreateShoot, DeleteShoot, Writes, ReserveUpdate,
     ClaimUpdate, DirectUpdate, ReleaseUpdate, PatchAssigned, PatchReserved,
     DirectAssigned, DirectReserved, Lookup, Goto, Return, Use, UseShared, FailAndStop,
     PatchFailed, TypeOK, UpdateSteps
<1> QED
  BY <1>1, <1>2, <1>3, <1>5, <1>6, <1>7, <1>8, <1>9, <1>10, Frame DEF ReconcileStep, Writes

\* A label once on the API server stays, and a copy of the CR whose label or
\* assignment names r proves that the CR is r's.
LEMMA LabelStays ==
    ASSUME IInv, [Next]_vars, NEW c \in CRs
    PROVE  /\ crs[c].label # NoRuntime => crs'[c].label = crs[c].label
           /\ \A r \in Runtimes :
                cache[c].label = r \/ cache[c].assigned = r => crs[c].label = r
<1>1. crs[c] \in AuditLog /\ cache[c] \in AuditLog
  BY DEF IInv, TypeOK
<1>2. VersionOf(crs[c], crs[c])
  BY <1>1 DEF VersionOf, AuditLog
<1>3. VersionOf(crs[c], crs'[c])
  BY <1>1, <1>2, PoolNext
<1>4. VersionOf(cache[c], crs[c]) /\ WellOwned(cache[c])
  BY DEF IInv, PoolInv
<1> QED
  BY <1>3, <1>4, PoolAssumption DEF VersionOf, WellOwned

\* The successful write of r's copy leaves a CR labelled r.
LEMMA UpdateLabels ==
    ASSUME IInv, NEW r \in Runtimes, cand[r] \in Copy,
           VersionOf(cand[r].obj, crs[cand[r].cr]),
           NEW o \in AuditLog, o.label = r, UpdateOk(r, o)
    PROVE  crs'[cand[r].cr].label = r
<1>1. cand[r].cr \in CRs /\ crs \in [CRs -> AuditLog]
  BY DEF IInv, TypeOK, Copy
<1>2. CASE o = cand[r].obj
  <2>1. crs' = crs /\ crs[cand[r].cr] = cand[r].obj
    BY <1>2 DEF UpdateOk, Accepted, VersionOf, poolVars
  <2> QED BY <1>2, <2>1
<1>3. CASE o # cand[r].obj
  <2> DEFINE n == [o EXCEPT !.rv = crs[cand[r].cr].rv + 1]
  <2>1. n.label = r
    BY DEF AuditLog
  <2>2. crs'[cand[r].cr] = n
    BY <1>1, <1>3 DEF UpdateOk, Store
  <2> QED BY <2>1, <2>2
<1> QED BY <1>2, <1>3

\* A reconciliation puts into its shoot only the data of a CR that is its own.
LEMMA ConfigNext ==
    ASSUME IInv, [Next]_vars
    PROVE  ConfigIsOwn'
<1> SUFFICES ASSUME NEW s \in Runtimes, config'[s] # NoCR
             PROVE  crs'[config'[s]].label = s /\ RegionOf[s] \in RegionsOf[config'[s]]
  BY DEF ConfigIsOwn
<1>1. TypeOK /\ TypeOK' /\ PoolInv'
  BY TypeNext, PoolNext DEF IInv
<1>2. config'[s] \in CRs /\ s # NoRuntime
  BY <1>1, PoolAssumption DEF TypeOK
<1>3. SUFFICES crs'[config'[s]].label = s
  BY <1>1, <1>2 DEF PoolInv
<1>4. CASE config'[s] = config[s]
  <2>1. crs[config[s]].label = s
    BY <1>4 DEF IInv, ConfigIsOwn
  <2> QED BY <1>2, <1>4, <2>1, LabelStays
<1>5. ASSUME NEW c \in CRs, Use(s, c), crs[c].label = s
      PROVE  crs'[config'[s]].label = s
  <2>1. config'[s] = c
    BY <1>1, <1>5 DEF Use, TypeOK
  <2> QED BY <1>2, <1>5, <2>1, LabelStays
<1>6. CASE ClaimFind(s)
  BY <1>1, <1>4, <1>5, <1>6, LabelStays DEF ClaimFind, FailAndStop, TakeCopy,
     findAuditLogCRByReservation
<1>7. ASSUME NEW found, found \in {findAuditLogCRByRuntimeID(s), findAuditLogCRByReservation(s)},
             NEW c \in found, Use(s, c)
      PROVE  crs'[config'[s]].label = s
  <2>1. c \in CRs /\ (cache[c].label = s \/ cache[c].assigned = s)
    BY <1>7 DEF findAuditLogCRByReservation, findAuditLogCRByRuntimeID
  <2> QED BY <1>5, <1>7, <2>1, LabelStays
<1>8. CASE PatchAssigned(s) \/ DirectAssigned(s) \/ DirectReserved(s)
  BY <1>4, <1>7, <1>8 DEF PatchAssigned, DirectAssigned, DirectReserved, Lookup
<1>9. CASE PatchReserved(s)
  <2>1. UseShared(s) => config'[s] = NoCR
    BY <1>1 DEF UseShared, TypeOK
  <2> QED BY <1>4, <1>7, <1>9, <2>1 DEF PatchReserved, Lookup
<1>10. CASE ClaimUpdate(s)
  <2> DEFINE o == [cand[s].obj EXCEPT !.assigned = s]
  <2>1. pc[s] = "claim_update" /\ (FailAndStop(s) \/ (UpdateOk(s, o) /\ Use(s, cand[s].cr)))
    BY <1>10 DEF ClaimUpdate
  <2>2. cand[s] \in Copy /\ o \in AuditLog /\ o.label = s
    BY <2>1, ClaimObject
  <2>3. VersionOf(cand[s].obj, crs[cand[s].cr])
    BY <2>1 DEF IInv, CandInv, UpdateSteps
  <2>4. Use(s, cand[s].cr) => config'[s] = cand[s].cr
    BY <1>1 DEF Use, TypeOK
  <2> HIDE DEF o
  <2> QED BY <1>4, <2>1, <2>2, <2>3, <2>4, UpdateLabels DEF FailAndStop
<1>11. CASE DirectUpdate(s)
  <2> DEFINE o == [cand[s].obj EXCEPT !.assigned = s, !.label = s]
  <2>1. pc[s] = "direct_update" /\ (FailAndStop(s) \/ (UpdateOk(s, o) /\ Use(s, cand[s].cr)))
    BY <1>11 DEF DirectUpdate, PatchFailed
  <2>2. cand[s] \in Copy /\ o \in AuditLog /\ o.label = s
    BY <2>1, DirectObject
  <2>3. VersionOf(cand[s].obj, crs[cand[s].cr])
    BY <2>1 DEF IInv, CandInv, UpdateSteps
  <2>4. Use(s, cand[s].cr) => config'[s] = cand[s].cr
    BY <1>1 DEF Use, TypeOK
  <2> HIDE DEF o
  <2> QED BY <1>4, <2>1, <2>2, <2>3, <2>4, UpdateLabels DEF FailAndStop
<1>12. ASSUME Dispatch(s) \/ ReserveLookup(s) \/ ReserveFind(s) \/ ReserveUpdate(s)
              \/ CreateShoot(s) \/ DirectFind(s) \/ ReleaseFind(s) \/ ReleaseUpdate(s)
              \/ DeleteShoot(s)
       PROVE  config' = config
  BY <1>12 DEF Dispatch, ReserveLookup, ReserveFind, ReserveUpdate, CreateShoot,
     DirectFind, ReleaseFind, ReleaseUpdate, DeleteShoot, TakeCopy, FailAndStop, PatchFailed
<1> QED
  BY <1>1, <1>4, <1>6, <1>8, <1>9, <1>10, <1>11, <1>12, Frame DEF ReconcileStep

\* A CR is orphaned only by a Runtime with a deletionTimestamp, which stays.
LEMMA OrphanNext ==
    ASSUME IInv, [Next]_vars
    PROVE  OrphanedOnlyOnDeletion'
<1> SUFFICES ASSUME NEW c \in CRs, crs'[c].orphaned
             PROVE  \E r \in Runtimes : crs'[c].assigned = r /\ deleted'[r]
  BY DEF OrphanedOnlyOnDeletion
<1>1. TypeOK /\ PoolType
  BY DEF IInv, TypeOK, PoolType
<1>2. crs'[c].orphaned => crs[c].orphaned \/ OrphanAllowed(crs[c])
  <2>1. CASE CacheSync
    BY <2>1 DEF CacheSync
  <2>2. CASE ~CacheSync
    <3>1. PoolStep
      BY <2>2, NextIsPoolStep DEF PoolStep, poolVars, vars
    <3> QED BY <1>1, <3>1 DEF PoolStep, PoolWrite, NextVersion, poolVars, PoolType
  <2> QED BY <2>1, <2>2
<1>3. PICK r \in Runtimes : crs[c].assigned = r /\ deleted[r]
  BY <1>2 DEF IInv, OrphanedOnlyOnDeletion, OrphanAllowed
<1>4. crs[c] \in AuditLog /\ VersionOf(crs[c], crs[c])
  BY <1>1 DEF TypeOK, VersionOf, AuditLog
<1>5. VersionOf(crs[c], crs'[c])
  BY <1>4, PoolNext
<1>6. crs'[c].assigned = r /\ deleted'[r]
  BY <1>1, <1>3, <1>5, Frame, PoolAssumption DEF VersionOf
<1> QED BY <1>6

-----------------------------------------------------------------------------
(* The theorems.                                                            *)

\* The invariant holds initially: no CR has an owner, the cache is current and
\* no reconciliation holds a copy.
LEMMA InitInv == Init => IInv
<1> SUFFICES ASSUME Init PROVE IInv
  OBVIOUS
<1>1. PICK st \in [CRs -> InitStates] : crs = [c \in CRs |-> Fresh(st[c])]
  BY DEF Init
<1>2. \A c \in CRs : /\ crs[c] \in AuditLog /\ crs[c].label = NoRuntime
                     /\ crs[c].assigned = NoRuntime /\ crs[c].orphaned = FALSE
                     /\ crs[c].rv = 0
  BY <1>1, PoolAssumption DEF Fresh, AuditLog, Owner, States
<1>3. crs \in [CRs -> AuditLog] /\ cache = crs /\ watch = <<>>
  BY <1>1, <1>2 DEF Init
<1>4. \A r \in Runtimes : pc[r] = "idle"
  BY DEF Init
<1>5. TypeOK
  BY <1>3, <1>4 DEF Init, TypeOK, Steps, UpdateSteps
<1>6. PoolInv /\ WatchInv /\ OrphanedOnlyOnDeletion
  BY <1>2, <1>3 DEF PoolInv, WatchInv, OrphanedOnlyOnDeletion, WellOwned, VersionOf
<1>7. CandInv
  BY <1>4 DEF CandInv, UpdateSteps
<1>8. ConfigIsOwn
  BY DEF Init, ConfigIsOwn
<1> QED BY <1>5, <1>6, <1>7, <1>8 DEF IInv

\* IInv, and with it the type invariant, holds in every reachable state for any
\* number of Runtimes, CRs and regions and any lag of the informer cache.
THEOREM Invariance == Spec => []IInv
<1>1. Init => IInv
  BY InitInv
<1>2. IInv /\ [Next]_vars => IInv'
  BY TypeNext, PoolNext, CandNext, ConfigNext, OrphanNext DEF IInv
<1> QED BY <1>1, <1>2, PTL DEF Spec

\* No shoot ever logs into the tenant of a CR that is not its own or that does
\* not serve its region (GetDedicatedAuditLogData, ClaimAuditLog).
THEOREM ConfigIsOwnAlways == Spec => []ConfigIsOwn
<1>1. IInv => ConfigIsOwn
  BY DEF IInv
<1> QED BY <1>1, Invariance, PTL

\* No CR is given to destruction while its Runtime is alive (releaseAuditLogCR).
THEOREM OrphanedOnlyOnDeletionAlways == Spec => []OrphanedOnlyOnDeletion
<1>1. IInv => OrphanedOnlyOnDeletion
  BY DEF IInv
<1> QED BY <1>1, Invariance, PTL

\* The owner and stage of a CR on the API server.
LEMMA BarOf ==
    ASSUME NEW c \in CRs
    PROVE  /\ ownerBar[c] = crs[c].label
           /\ stageBar[c] = IF crs[c].orphaned THEN "orphaned"
                            ELSE IF crs[c].assigned # NoRuntime THEN "claimed"
                            ELSE IF crs[c].label # NoRuntime THEN "reserved"
                            ELSE "available"
BY DEF ownerBar, stageBar

\* A write to one CR leaves owner and stage of the others alone.
LEMMA BarWrite ==
    ASSUME crs \in [CRs -> AuditLog], NEW c \in CRs, NEW n,
           crs' = [crs EXCEPT ![c] = n]
    PROVE  /\ ownerBar' = [ownerBar EXCEPT ![c] = n.label]
           /\ stageBar' = [stageBar EXCEPT ![c] =
                             IF n.orphaned THEN "orphaned"
                             ELSE IF n.assigned # NoRuntime THEN "claimed"
                             ELSE IF n.label # NoRuntime THEN "reserved"
                             ELSE "available"]
BY DEF ownerBar, stageBar

\* Each next version of a CR is a Reserve, a Claim, a Release or no change.
LEMMA WriteRefines ==
    ASSUME IInv, NEW c \in CRs, NEW n \in AuditLog, PoolWrite(c, n)
    PROVE  [Ownership!Next]_<<ownerBar, stageBar>>
<1> DEFINE S(o) == IF o.orphaned THEN "orphaned"
                   ELSE IF o.assigned # NoRuntime THEN "claimed"
                   ELSE IF o.label # NoRuntime THEN "reserved"
                   ELSE "available"
<1>1. /\ NextVersion(c, n) /\ crs' = [crs EXCEPT ![c] = n]
      /\ crs \in [CRs -> AuditLog] /\ WellOwned(crs[c]) /\ WellOwned(n)
  BY DEF IInv, TypeOK, PoolWrite, NextVersion, PoolInv
<1>2. /\ ownerBar' = [ownerBar EXCEPT ![c] = n.label]
      /\ stageBar' = [stageBar EXCEPT ![c] = S(n)]
      /\ ownerBar[c] = crs[c].label /\ stageBar[c] = S(crs[c])
      /\ ownerBar = [d \in CRs |-> ownerBar[d]] /\ stageBar = [d \in CRs |-> stageBar[d]]
  BY <1>1, BarWrite, BarOf DEF ownerBar, stageBar
<1>3. n.label \in Owner /\ n.assigned \in Owner /\ crs[c].label \in Owner
  BY <1>1 DEF AuditLog
<1>4. CASE S(n) = S(crs[c])
  <2>1. n.label = crs[c].label
    BY <1>1, <1>4 DEF NextVersion, WellOwned
  <2>2. ownerBar' = ownerBar /\ stageBar' = stageBar
    BY <1>2, <1>4, <2>1
  <2> QED BY <2>2
<1>5. CASE S(n) = "reserved" /\ S(crs[c]) # "reserved"
  <2>1. S(crs[c]) = "available" /\ n.label \in Runtimes
    BY <1>1, <1>3, <1>5 DEF NextVersion, WellOwned, Owner
  <2>2. Ownership!Reserve(n.label, c)
    BY <1>2, <1>5, <2>1 DEF Ownership!Reserve, Ownership!Available, Ownership!Reserved
  <2>5. stageBar[c] # stageBar'[c]
    BY <1>2, <1>5
  <2> QED BY <2>1, <2>2, <2>5 DEF Ownership!Next
<1>6. CASE S(n) = "claimed" /\ S(crs[c]) # "claimed"
  <2>1. /\ n.label \in Runtimes
        /\ \/ S(crs[c]) = "available"
           \/ S(crs[c]) = "reserved" /\ crs[c].label = n.label
    BY <1>1, <1>3, <1>6 DEF NextVersion, WellOwned, Owner
  <2>2. Ownership!Claim(n.label, c)
    BY <1>2, <1>6, <2>1
       DEF Ownership!Claim, Ownership!Available, Ownership!Reserved, Ownership!Claimed
  <2>5. stageBar[c] # stageBar'[c]
    BY <1>2, <1>6
  <2> QED BY <2>1, <2>2, <2>5 DEF Ownership!Next
<1>7. CASE S(n) = "orphaned" /\ S(crs[c]) # "orphaned"
  <2>1. crs[c].assigned \in Runtimes /\ ~crs[c].orphaned
    BY <1>1, <1>7 DEF NextVersion, OrphanAllowed
  <2>2. S(crs[c]) = "claimed" /\ crs[c].label = crs[c].assigned /\ n.label = crs[c].label
    BY <1>1, <2>1, PoolAssumption DEF NextVersion, WellOwned
  <2>3. ownerBar' = ownerBar
    BY <1>2, <2>2
  <2>4. Ownership!Release(n.label, c)
    BY <1>2, <1>7, <2>2, <2>3 DEF Ownership!Release, Ownership!Claimed, Ownership!Orphaned
  <2>5. stageBar[c] # stageBar'[c]
    BY <1>2, <1>7
  <2> QED BY <2>1, <2>2, <2>4, <2>5 DEF Ownership!Next
<1>8. CASE S(n) = "available"
  BY <1>1, <1>4, <1>8 DEF NextVersion, WellOwned
<1> QED BY <1>4, <1>5, <1>6, <1>7, <1>8

\* The pool, with its cached lists and its optimistic writes, implements the
\* ownership protocol of docs/adr/004: a CR goes available, reserved, claimed,
\* orphaned, for one Runtime and never back.
THEOREM PoolImplementsOwnership == Spec => ImplementsOwnership
<1>1. Init => Ownership!Init
  <2> SUFFICES ASSUME Init PROVE Ownership!Init
    OBVIOUS
  <2>1. PICK st \in [CRs -> InitStates] : crs = [c \in CRs |-> Fresh(st[c])]
    BY DEF Init
  <2>2. \A c \in CRs : /\ crs[c].label = NoRuntime /\ crs[c].orphaned = FALSE
                       /\ crs[c].assigned = NoRuntime
    BY <2>1 DEF Fresh
  <2> QED BY <2>2 DEF Ownership!Init, ownerBar, stageBar, Ownership!Available
<1>2. IInv /\ [Next]_vars => [Ownership!Next]_<<ownerBar, stageBar>>
  <2> SUFFICES ASSUME IInv, [Next]_vars PROVE [Ownership!Next]_<<ownerBar, stageBar>>
    OBVIOUS
  <2>1. CASE crs' = crs
    BY <2>1 DEF ownerBar, stageBar
  <2>2. CASE crs' # crs
    <3>1. PoolStep
      BY <2>2, NextIsPoolStep DEF CacheSync, vars
    <3>2. PICK c \in CRs, n \in AuditLog : PoolWrite(c, n)
      BY <2>2, <3>1 DEF PoolStep, poolVars
    <3> QED BY <3>2, WriteRefines
  <2> QED BY <2>1, <2>2
<1> QED BY <1>1, <1>2, Invariance, PTL DEF Spec, ImplementsOwnership, Ownership!Spec
=============================================================================
