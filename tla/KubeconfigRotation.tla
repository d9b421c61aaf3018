------------------------- MODULE KubeconfigRotation -------------------------
(***************************************************************************)
(* The GardenerCluster controller (internal/controller/kubeconfig): it     *)
(* keeps, for one GardenerCluster CR, a Secret with a kubeconfig of the    *)
(* shoot, and replaces the kubeconfig before it expires or when a user     *)
(* asks for it by an annotation.                                           *)
(*                                                                         *)
(* The CR and the Secret are read from the informer cache, each with a     *)
(* watch of its own, and written with the resourceVersion that was read.   *)
(* Time is counted in ticks; the last-sync annotation keeps whole seconds. *)
(***************************************************************************)
EXTENDS Naturals, Sequences

CONSTANTS
    Second,      \* ticks in a second, the resolution of the last-sync annotation
    Threshold,   \* rotationPeriodRatio * rotationPeriod
    Expiration,  \* life time of a kubeconfig
    Timeout,     \* gardenerRequestTimeout: the longest reconciliation
    Slack,       \* the longest a queued CR waits for a worker
    MaxTime,     \* bound: when the clock stops
    MaxForce,    \* bound: rotations that users ask for
    MaxRestarts, \* bound: restarts of KIM
    MaxWatchLag, \* bound: versions a cache may trail behind
    Scenarios,   \* sets of Troubles; what goes wrong in a behaviour is one of them
    None         \* nil: no object, no annotation, no timer

\* "api": calls fail; "seclag": the cache trails for Secrets too; "delete": the CR
\* is deleted and created anew; "shoot": so is the shoot.
Troubles == {"api", "seclag", "delete", "shoot", "restart"}

ASSUME RotationAssumption ==
    /\ {Second, Threshold, Expiration, MaxWatchLag} \subseteq Nat \ {0}
    /\ {Timeout, Slack, MaxTime, MaxForce, MaxRestarts} \subseteq Nat
    \* the margin that the rotation leaves for delays and restarts
    /\ Threshold + 2 * Timeout + Slack + MaxRestarts * (Timeout + Slack) < Expiration
    \* seconds and hours: a reconciliation ends before its kubeconfig is due again
    /\ Timeout <= Threshold
    /\ Scenarios \subseteq SUBSET Troubles

VARIABLES
    now,      \* the clock
    cl,       \* the GardenerCluster CR on the API server
    clCache,  \* the informer's copy of it
    clWatch,  \* later versions, not yet delivered to the cache
    sec,      \* the Secret on the API server
    secCache, \* the informer's copy of it
    secWatch, \* later versions, not yet delivered to the cache
    shoot,    \* the shoot exists
    asked,    \* how many rotations users have asked for
    restarts, \* how often KIM has restarted
    trouble,  \* what goes wrong, constant
    queued,   \* the workqueue holds the CR
    since,    \* when the queue got it, or when its reconciliation started
    timer,    \* when it will be queued again (RequeueAfter)
    pc,       \* the step of the reconciliation that runs next
    inst,     \* cluster, the CR in memory
    fresh,    \* inst carries the current resourceVersion
    copy,     \* secret, the Secret in memory
    secFresh, \* copy carries the current resourceVersion
    start,    \* now, as read at the start of the reconciliation
    fetched,  \* kubeconfig, as fetched from Gardener
    res       \* the error that is returned once the status is persisted

clVars == <<cl, clCache, clWatch>>
secVars == <<sec, secCache, secWatch>>
queueVars == <<queued, since, timer>>
memVars == <<inst, fresh, copy, secFresh, start, fetched, res>>
vars == <<now, clVars, secVars, shoot, asked, restarts, trouble, queueVars, pc, memVars>>

Time == 0..MaxTime

\* at is when Gardener issued it, ep how many rotations had been asked for by then.
Kubeconfig == [at: Time, ep: 0..MaxForce]

Secret == [data: Kubeconfig \cup {None}, sync: Time \cup {None}]

Cluster == [force: BOOLEAN, state: {"", "Ready", "Error"}]

\* nil is told from everything else.
ASSUME NoneAssumption == None \notin Nat \cup Kubeconfig \cup Secret \cup Cluster

\* What Reconcile returns after the status update, in the order of its branches.
Results == {"error", "stop", "requeue"}

Steps == {"idle", "delete_secret", "fetch", "remove_kubeconfig",
          "update_secret", "create_secret", "remove_annotation", "persist"}

TypeOK ==
    /\ now \in Time
    /\ cl \in Cluster \cup {None} /\ clCache \in Cluster \cup {None}
    /\ clWatch \in Seq(Cluster \cup {None})
    /\ sec \in Secret \cup {None} /\ secCache \in Secret \cup {None}
    /\ secWatch \in Seq(Secret \cup {None})
    /\ shoot \in BOOLEAN /\ asked \in 0..MaxForce /\ restarts \in 0..MaxRestarts
    /\ trouble \in Scenarios
    /\ queued \in BOOLEAN /\ since \in Time /\ timer \in Nat \cup {None}
    /\ pc \in Steps
    /\ inst \in Cluster \cup {None}
    /\ pc \notin {"idle", "delete_secret"} => inst \in Cluster
    /\ copy \in Secret \cup {None}
    /\ fresh \in BOOLEAN /\ secFresh \in BOOLEAN
    /\ start \in Time /\ fetched \in Kubeconfig \cup {None} /\ res \in Results

NewCluster == [force |-> FALSE, state |-> ""]

Init ==
    /\ now = 0
    /\ cl = NewCluster /\ clCache = cl /\ clWatch = <<>>
    /\ sec = None /\ secCache = None /\ secWatch = <<>>
    /\ shoot = TRUE /\ asked = 0 /\ restarts = 0 /\ trouble \in Scenarios
    /\ queued = TRUE /\ since = 0 /\ timer = None
    /\ pc = "idle" /\ inst = None /\ fresh = FALSE /\ copy = None /\ secFresh = FALSE
    /\ start = 0 /\ fetched = None /\ res = "stop"

-----------------------------------------------------------------------------
(* The API server and the informers.                                        *)

WriteCluster(o) ==
    /\ Len(clWatch) < MaxWatchLag
    /\ cl' = o
    /\ clWatch' = Append(clWatch, o)
    /\ UNCHANGED clCache

WriteSecret(o) ==
    /\ sec' = o
    /\ IF "seclag" \in trouble
       THEN /\ Len(secWatch) < MaxWatchLag
            /\ secWatch' = Append(secWatch, o)
            /\ UNCHANGED secCache
       ELSE secCache' = o /\ UNCHANGED secWatch

\* The CR goes to the queue, if it is not there yet.
Enqueue ==
    /\ queued' = TRUE
    /\ since' = IF queued \/ pc # "idle" THEN since ELSE now

\* The event filter of SetupWithManager: the CR is created, deleted, or its
\* annotations differ.
Triggers(old, new) == old = None \/ new = None \/ old.force # new.force

ClusterSync ==
    /\ clWatch # <<>>
    /\ clCache' = Head(clWatch)
    /\ clWatch' = Tail(clWatch)
    /\ IF Triggers(clCache, Head(clWatch)) THEN Enqueue ELSE UNCHANGED <<queued, since>>
    /\ UNCHANGED <<now, cl, secVars, shoot, asked, restarts, timer, pc, memVars>>

SecretSync ==
    /\ secWatch # <<>>
    /\ secCache' = Head(secWatch)
    /\ secWatch' = Tail(secWatch)
    /\ UNCHANGED <<now, clVars, sec, shoot, asked, restarts, queueVars, pc, memVars>>

Fault == "api" \in trouble

-----------------------------------------------------------------------------
(* When to rotate.                                                          *)

FormatUp(t) == t - (t % Second) + Second  \* mutant: rounds up

\* The last-sync annotation holds RFC 3339, which has no fractions of a second.
Format(t) == t - (t % Second)

\* findLastSyncTime: without an annotation, the zero time.
overdue(s, t) == ~(s # None /\ s.sync # None /\ t < s.sync + Threshold)

missingSyncIsKept ==  \* mutant: a Secret without a last sync is left alone
    ~(copy # None /\ (copy.sync = None \/ start < copy.sync + Threshold))

secretNeedsToBeRotated == overdue(copy, start)

requeueInFull == Threshold  \* mutant: the age of the kubeconfig is not looked at

nextRequeue ==
    IF overdue(copy, start) THEN Threshold ELSE copy.sync + Threshold - start

-----------------------------------------------------------------------------
(* Reconcile.                                                               *)

\* The reconciliation ends with one of its results; its memory is dropped.
Return(r) ==
    /\ pc' = "idle" /\ inst' = None /\ fresh' = FALSE /\ copy' = None /\ secFresh' = FALSE
    /\ start' = 0 /\ fetched' = None /\ res' = "stop"
    /\ queued' = (queued \/ r = "error")
    /\ since' = now
    /\ timer' = IF r = "requeue" /\ (timer = None \/ now + nextRequeue < timer)
                THEN now + nextRequeue ELSE timer

Goto(step) == pc' = step

\* UpdateConditionForReadyState or UpdateConditionForErrorState, then
\* persistStatusChange and a return of r.
PersistAnd(r, state) ==
    /\ inst' = [inst EXCEPT !.state = state]
    /\ res' = r
    /\ Goto("persist")
    /\ UNCHANGED <<queueVars, fresh, copy, secFresh, start, fetched>>

ReconcileUnchecked ==  \* mutant: NotFound is not told from other results
    /\ pc = "idle" /\ queued
    /\ queued' = FALSE /\ since' = now /\ start' = now
    /\ inst' = clCache
    /\ fresh' = (clWatch = <<>>)
    /\ copy' = secCache
    /\ secFresh' = (secWatch = <<>>)
    /\ Goto("fetch")
    /\ UNCHANGED <<now, clVars, secVars, shoot, asked, restarts, timer, fetched, res>>

\* Get of the CR and getSecret, both served from the cache.
Reconcile ==
    /\ pc = "idle" /\ queued
    /\ queued' = FALSE /\ since' = now /\ start' = now
    /\ inst' = clCache
    /\ fresh' = (clWatch = <<>>)
    /\ \/ /\ clCache = None
          /\ Goto("delete_secret")
          /\ UNCHANGED <<copy, secFresh, res>>
       \/ /\ clCache # None
          /\ copy' = secCache
          /\ secFresh' = (secWatch = <<>>)
          /\ Goto("fetch")
          /\ UNCHANGED res
    /\ UNCHANGED <<now, clVars, secVars, shoot, asked, restarts, timer, fetched>>

deleteErrorIgnored ==  \* mutant: the error of the deletion is dropped
    /\ pc = "delete_secret"
    /\ \/ secCache = None /\ UNCHANGED secVars /\ Return("stop")
       \/ secCache # None /\ WriteSecret(None) /\ Return("stop")
       \/ Fault /\ UNCHANGED secVars /\ Return("stop")
    /\ UNCHANGED <<now, clVars, shoot, asked, restarts>>

\* Lists the Secrets of the CR in the cache; a Secret that is gone when it is
\* deleted is an error.
deleteKubeconfigSecret ==
    /\ pc = "delete_secret"
    /\ \/ secCache = None /\ UNCHANGED secVars /\ Return("stop")
       \/ secCache # None /\ sec # None /\ WriteSecret(None) /\ Return("stop")
       \/ secCache # None /\ sec = None /\ UNCHANGED secVars /\ Return("error")
       \/ Fault /\ UNCHANGED secVars /\ Return("error")
    /\ UNCHANGED <<now, clVars, shoot, asked, restarts>>

\* KubeconfigProvider.Fetch, and the choice of handleKubeconfig.  "Not found" ends
\* the reconciliation of the CR for good; so does, as the code tests only the kind
\* of the error, a Secret that is not found by a later Update.
Fetch ==
    /\ pc = "fetch"
    /\ \/ /\ shoot
          /\ fetched' = [at |-> now, ep |-> asked]
          /\ \/ inst.force /\ Goto("remove_kubeconfig") /\ UNCHANGED <<inst, res>>
             \/ /\ ~inst.force /\ ~secretNeedsToBeRotated
                /\ inst' = [inst EXCEPT !.state = "Ready"] /\ res' = "requeue"
                /\ Goto("persist")
             \/ /\ ~inst.force /\ secretNeedsToBeRotated
                /\ Goto(IF copy = None THEN "create_secret" ELSE "update_secret")
                /\ UNCHANGED <<inst, res>>
          /\ UNCHANGED <<queueVars, fresh, copy, secFresh, start>>
       \/ ~shoot /\ PersistAnd("stop", "Error")
       \/ Fault /\ PersistAnd("error", "Error")
    /\ UNCHANGED <<now, clVars, secVars, shoot, asked, restarts>>

\* An Update of the Secret in memory, changed to o: onOk, or the status Error.
UpdateSecret(o, onOk) ==
    \/ secFresh /\ sec # None /\ (IF o = copy THEN UNCHANGED secVars ELSE WriteSecret(o)) /\ onOk
    \/ sec = None /\ UNCHANGED secVars /\ PersistAnd("stop", "Error")
    \/ ~secFresh /\ sec # None /\ UNCHANGED secVars /\ PersistAnd("error", "Error")
    \/ Fault /\ UNCHANGED secVars /\ PersistAnd("error", "Error")

keepKubeconfig(s) == s  \* mutant: the old kubeconfig stays until it is replaced

withoutKubeconfig(s) == [s EXCEPT !.data = None, !.sync = None]

removeKubeconfig ==
    LET next == Goto("remove_annotation") /\ UNCHANGED <<queueVars, memVars>>
    IN  /\ pc = "remove_kubeconfig"
        /\ \/ copy = None /\ UNCHANGED secVars /\ next
           \/ copy # None /\ UpdateSecret(withoutKubeconfig(copy), next)
        /\ UNCHANGED <<now, clVars, shoot, asked, restarts>>

\* Its own Get of the CR, from the cache, and an Update; the CR in memory keeps
\* its resourceVersion.
removeForceRotationAnnotation ==
    LET o == [clCache EXCEPT !.force = FALSE]
    IN  /\ pc = "remove_annotation"
        /\ \/ /\ clCache # None /\ clWatch = <<>>
              /\ IF o = clCache
                 THEN UNCHANGED <<clVars, fresh>>
                 ELSE WriteCluster(o) /\ fresh' = FALSE
              /\ res' = "requeue" /\ Goto("persist")
              /\ UNCHANGED <<queueVars, inst, copy, secFresh, start, fetched>>
           \/ /\ clCache = None \/ clWatch # <<>> \/ Fault
              /\ Return("error") /\ UNCHANGED clVars
        /\ UNCHANGED <<now, secVars, shoot, asked, restarts>>

newSync == [data |-> fetched, sync |-> Format(start)]

updateExistingSecret ==
    /\ pc = "update_secret"
    /\ UpdateSecret(newSync, PersistAnd("requeue", "Ready"))
    /\ UNCHANGED <<now, clVars, shoot, asked, restarts>>

createNewSecret ==
    /\ pc = "create_secret"
    /\ \/ sec = None /\ WriteSecret(newSync) /\ PersistAnd("requeue", "Ready")
       \/ /\ sec # None \/ Fault                         \* AlreadyExists
          /\ UNCHANGED secVars /\ PersistAnd("error", "Error")
    /\ UNCHANGED <<now, clVars, shoot, asked, restarts>>

\* The status always differs, in its transition time.  On the way out of an error
\* a failure of the update is ignored; otherwise it is the error that is returned.
persistStatusChange ==
    /\ pc = "persist"
    /\ \/ fresh /\ WriteCluster([cl EXCEPT !.state = inst.state]) /\ Return(res)
       \/ /\ ~fresh \/ Fault
          /\ UNCHANGED clVars
          /\ Return(IF res = "requeue" THEN "error" ELSE res)
    /\ UNCHANGED <<now, secVars, shoot, asked, restarts>>

-----------------------------------------------------------------------------
(* Everything else.                                                         *)

UserWrite(o) == WriteCluster(o) /\ fresh' = FALSE

ForceRotation ==
    /\ cl # None /\ ~cl.force /\ asked < MaxForce
    /\ UserWrite([cl EXCEPT !.force = TRUE])
    /\ asked' = asked + 1
    /\ UNCHANGED <<now, secVars, shoot, restarts, queueVars, pc, inst, copy, secFresh, start, fetched, res>>

\* sFnDeleteKubeconfig, and sFnHandleKubeconfig, which comes after the shoot.
DeleteOrCreate ==
    /\ "delete" \in trouble
    /\ cl = None => shoot
    /\ UserWrite(IF cl = None THEN NewCluster ELSE None)
    /\ UNCHANGED <<now, secVars, shoot, asked, restarts, queueVars, pc, inst, copy, secFresh, start,
                   fetched, res>>

\* sFnDeleteShoot, which comes after the deletion of the CR (KubeconfigDeletedFirst
\* of RuntimeFSM), and sFnCreateShoot of a Runtime with the same name.
ShootChanges ==
    /\ "shoot" \in trouble /\ cl = None
    /\ shoot' = ~shoot
    /\ UNCHANGED <<now, clVars, secVars, asked, restarts, queueVars, pc, memVars>>

TimerFires ==
    /\ timer # None /\ now >= timer
    /\ timer' = None
    /\ Enqueue
    /\ UNCHANGED <<now, clVars, secVars, shoot, asked, restarts, pc, memVars>>

\* The new process lists the CRs and queues each of them.
Restart ==
    /\ "restart" \in trouble /\ restarts < MaxRestarts
    /\ restarts' = restarts + 1
    /\ pc' = "idle" /\ inst' = None /\ fresh' = FALSE /\ copy' = None /\ secFresh' = FALSE
    /\ start' = 0 /\ fetched' = None /\ res' = "stop"
    /\ clCache' = cl /\ clWatch' = <<>> /\ secCache' = sec /\ secWatch' = <<>>
    /\ queued' = (cl # None) /\ since' = now /\ timer' = None
    /\ UNCHANGED <<now, cl, sec, shoot, asked>>

\* Events arrive within a tick, timers fire when they are due, workers take a CR
\* from the queue in time, and a reconciliation ends with its context.
Tick ==
    /\ now < MaxTime
    /\ clWatch = <<>> /\ secWatch = <<>>
    /\ timer # None => now < timer
    /\ queued /\ pc = "idle" => now < since + Slack
    /\ pc # "idle" => now < start + Timeout
    /\ now' = now + 1
    /\ UNCHANGED <<clVars, secVars, shoot, asked, restarts, queueVars, pc, memVars>>

ReconcileStep ==
    \/ Reconcile \/ deleteKubeconfigSecret \/ Fetch \/ removeKubeconfig
    \/ updateExistingSecret \/ createNewSecret
    \/ removeForceRotationAnnotation \/ persistStatusChange

Next ==
    /\ \/ ReconcileStep
       \/ ClusterSync \/ SecretSync \/ TimerFires \/ Tick
       \/ ForceRotation \/ DeleteOrCreate \/ ShootChanges \/ Restart
    /\ UNCHANGED trouble

Spec == Init /\ [][Next]_vars

-----------------------------------------------------------------------------
(* Properties.                                                              *)

\* While its CR exists, the Secret never holds an expired kubeconfig: the times
\* at which the CR is requeued (nextRequeue, with the last sync read before this
\* rotation) and at which a reconciliation finds the rotation due fit together,
\* although one is computed before the Secret is written and the other from a
\* truncated annotation.  Calls must work, caches may trail and KIM may restart; a CR
\* that is deleted and created anew may meet an old Secret before it is reconciled.
NeverExpired ==
    cl # None /\ sec # None /\ sec.data # None /\ trouble \cap {"api", "delete"} = {}
    => now < sec.data.at + Expiration

\* The annotation never makes a kubeconfig look younger than it is, and there is
\* one exactly when there is a kubeconfig, whatever goes wrong: findLastSyncTime
\* reads a time that was taken before the fetch and cut to seconds.
SyncNotAfterIssue ==
    sec # None =>
        /\ sec.sync = None <=> sec.data = None
        /\ sec.data # None => sec.sync <= sec.data.at

\* Nothing is running, queued or about to be queued by an event.
Quiet == pc = "idle" /\ ~queued /\ clWatch = <<>>

\* The Secret goes with its CR, even when the CR is deleted while a
\* reconciliation is about to create the Secret (deleteKubeconfigSecret), and
\* though calls fail; a restart would lose the request to delete it.
SecretGoesWithCluster ==
    cl = None /\ Quiet /\ trouble \cap {"restart", "seclag"} = {} => sec = None

\* The force annotation is taken away only once no kubeconfig from before the
\* request is left (removeKubeconfig, then removeForceRotationAnnotation), whatever
\* fails or is deleted and created anew in between, as long as the Secret is cached.
ForcedIsRotated ==
    [][cl # None /\ cl' # None /\ cl.force /\ ~cl'.force /\ "seclag" \notin trouble
       => sec = None \/ sec.data = None \/ sec.data.ep = asked]_vars

\* A CR that is Ready, which sFnHandleKubeconfig waits for, and left alone until
\* its next rotation, has a kubeconfig (the Secret in the cache being the current one).
ReadyHasKubeconfig ==
    cl # None /\ cl.state = "Ready" /\ Quiet /\ "seclag" \notin trouble
    => sec # None /\ sec.data # None
=============================================================================
