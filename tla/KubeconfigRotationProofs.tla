---------------------- MODULE KubeconfigRotationProofs ----------------------
(***************************************************************************)
(* Proofs about KubeconfigRotation, for any durations that satisfy         *)
(* RotationAssumption and any number of requests, restarts and versions    *)
(* that a cache trails behind.                                             *)
(***************************************************************************)
EXTENDS KubeconfigRotation, TLAPS

-----------------------------------------------------------------------------
(* The inductive invariants.                                                *)

\* The i-th of the versions a cache knows of: its copy, then what is under way.
Nth(c, w, i) == IF i = 0 THEN c ELSE w[i]

\* The last version under way is the stored one.
Chains ==
    /\ Nth(clCache, clWatch, Len(clWatch)) = cl
    /\ Nth(secCache, secWatch, Len(secWatch)) = sec

\* Whether there is a CR and what its annotation says is the same.
Alike(a, b) == (a = None <=> b = None) /\ (a # None /\ b # None => a.force = b.force)

\* What a reconciliation holds, and what it has done so far.
Memory ==
    /\ start <= now
    /\ fresh => pc # "idle" /\ Alike(cl, inst)
    /\ pc \in {"update_secret", "create_secret"} =>
         fetched # None /\ start <= fetched.at /\ overdue(copy, start)
    /\ pc = "create_secret" => copy = None
    /\ pc = "update_secret" => copy # None
    /\ pc \in {"remove_kubeconfig", "remove_annotation"} => inst.force
    /\ pc \in {"fetch", "remove_kubeconfig", "update_secret", "create_secret"} /\ secFresh => copy = sec
    /\ pc = "remove_annotation" /\ secFresh => sec = None \/ sec.data = None

\* Without "seclag" nobody ever sees an old Secret.
Cached ==
    "seclag" \notin trouble =>
        /\ secWatch = <<>>
        /\ pc \notin {"idle", "delete_secret"} => secFresh

BaseInv == TypeOK /\ Chains /\ Memory /\ Cached /\ SyncNotAfterIssue

\* An event under way will differ from what the cache has shown.
Announced == \E i \in 0..Len(clWatch) : ~Alike(Nth(clCache, clWatch, i), cl)

\* A reconciliation that was started for another kind of CR is repeated.
Informed ==
    /\ pc = "delete_secret" => clCache = None \/ queued
    /\ pc \notin {"idle", "delete_secret"} => clCache # None \/ queued

DeletionInv ==
    cl = None /\ sec # None /\ trouble \cap {"restart", "seclag"} = {}
    => queued \/ Announced \/ pc = "delete_secret"

HasKubeconfig == sec # None /\ sec.data # None

\* The CR is created after the shoot and deleted before it.
ShootThere == ~shoot => cl = None

ReadyIsBacked ==
    cl # None /\ cl.state = "Ready" /\ ~HasKubeconfig => queued \/ Announced \/ pc # "idle"

\* What a status update without a kubeconfig leads to.
PersistIsBacked ==
    pc = "persist" =>
        \/ HasKubeconfig
        \/ res = "error"
        \/ res = "requeue" /\ ~fresh
        \/ res = "stop" /\ inst.state = "Error" /\ (cl # None => cl.state # "Ready")

ReadyInv == "seclag" \notin trouble => ShootThere /\ ReadyIsBacked /\ PersistIsBacked

EventInv == Informed /\ DeletionInv /\ ReadyInv

\* Every version of the Secret that somebody holds or will see.
Versions == {sec, secCache, copy} \cup {secWatch[i] : i \in 1..Len(secWatch)}

\* The reconciliation's start or, between two of them, the present.
Began == IF pc = "idle" THEN now ELSE start

\* What a kubeconfig may have aged by when its CR is queued.
Late == Threshold + Timeout + restarts * (Timeout + Slack)

\* Calls work, and the CR stays.
Calm == trouble \cap {"api", "delete"} = {}

Stays ==
    /\ cl # None /\ clCache # None /\ (\A i \in 1..Len(clWatch) : clWatch[i] # None)
    /\ shoot

\* Once there is a Secret, it stays too.
SecretStays ==
    /\ pc # "delete_secret"
    /\ sec = None => secCache = None /\ secWatch = <<>> /\ copy = None

\* A CR at rest has a timer, and neither it, the queue nor a reconciliation is late.
Scheduled ==
    /\ pc = "idle" => queued \/ timer # None
    /\ pc = "persist" => res # "stop"
    /\ pc # "idle" => now <= start + Timeout
    /\ pc = "idle" /\ queued => now <= since + Slack
    /\ timer # None => now <= timer /\ timer <= Began + Threshold + Timeout

Past == \A v \in Versions : v # None /\ v.sync # None => v.sync <= Began

Older == HasKubeconfig => \A v \in Versions : v # None /\ v.sync # None => v.sync <= sec.data.at

\* All of it in terms of the age of the kubeconfig.
Aging ==
    HasKubeconfig =>
        /\ timer # None => timer <= sec.data.at + Threshold + Timeout
        /\ pc = "idle" /\ queued => since <= sec.data.at + Late
        /\ pc # "idle" => start <= sec.data.at + Late + Slack
        /\ secWatch # <<>> => now <= sec.data.at + Timeout
        /\ pc # "idle" /\ ~secFresh => start <= sec.data.at + Timeout
        /\ pc \in {"remove_annotation", "persist"} => start <= sec.data.at + Threshold
        /\ pc = "persist" /\ res = "requeue" /\ fresh /\ overdue(copy, start) => start <= sec.data.at

Timely == Stays /\ SecretStays /\ Scheduled /\ Past /\ Older /\ Aging

TimingInv == Calm => Timely

-----------------------------------------------------------------------------
(* Facts about the operators.                                                *)

LEMMA Durations ==
    /\ Second \in Nat \ {0} /\ Threshold \in Nat \ {0} /\ Expiration \in Nat \ {0}
    /\ Timeout \in Nat /\ Slack \in Nat /\ MaxTime \in Nat /\ MaxForce \in Nat /\ MaxRestarts \in Nat
    /\ Timeout <= Threshold
    /\ Threshold + 2 * Timeout + Slack + MaxRestarts * (Timeout + Slack) < Expiration
  BY RotationAssumption DEF RotationAssumption

LEMMA NoneIsNoTime == \A t \in Nat : t # None
  BY NoneAssumption DEF NoneAssumption

\* The annotation is cut to seconds.
LEMMA FormatFacts ==
    ASSUME NEW t \in Time
    PROVE  Format(t) \in Time /\ Format(t) <= t
  <1>1. t \in Nat /\ Second \in Nat \ {0} /\ MaxTime \in Nat
    BY Durations DEF Time
  <1>2. t % Second \in Nat /\ t % Second <= t
    BY <1>1
  <1> QED
    BY <1>1, <1>2 DEF Format, Time

LEMMA KubeconfigFields ==
    ASSUME NEW k \in Kubeconfig
    PROVE  k # None /\ k.at \in Time /\ k.at \in Nat
  BY NoneAssumption, Durations DEF NoneAssumption, Kubeconfig, Time

LEMMA SecretFields ==
    ASSUME NEW s \in Secret
    PROVE  /\ s # None /\ s.data \in Kubeconfig \cup {None} /\ s.sync \in Time \cup {None}
           /\ s.sync # None => s.sync \in Nat
  BY NoneAssumption, Durations DEF NoneAssumption, Secret, Time

LEMMA ClusterFields ==
    ASSUME NEW c \in Cluster
    PROVE  /\ c # None /\ c.force \in BOOLEAN
           /\ \A s \in {"", "Ready", "Error"} :
                [c EXCEPT !.state = s] \in Cluster /\ [c EXCEPT !.state = s].force = c.force
                /\ [c EXCEPT !.state = s].state = s
           /\ \A f \in BOOLEAN :
                [c EXCEPT !.force = f] \in Cluster /\ [c EXCEPT !.force = f].force = f
                /\ [c EXCEPT !.force = f].state = c.state
  BY NoneAssumption DEF NoneAssumption, Cluster

LEMMA NewClusterFacts == NewCluster \in Cluster /\ NewCluster # None /\ NewCluster.state = ""
  <1>1. NewCluster \in Cluster /\ NewCluster.state = ""
    BY DEF NewCluster, Cluster
  <1> QED
    BY <1>1, ClusterFields

LEMMA NewSyncFacts ==
    ASSUME TypeOK, fetched # None
    PROVE  /\ newSync \in Secret /\ newSync # None /\ newSync.data = fetched /\ newSync.data # None
           /\ newSync.sync # None /\ newSync.sync = Format(start) /\ newSync.sync <= start
           /\ newSync.sync \in Nat
  <1>1. start \in Time /\ fetched \in Kubeconfig
    BY DEF TypeOK
  <1>2. Format(start) \in Time /\ Format(start) <= start /\ Format(start) \in Nat
    BY <1>1, FormatFacts, Durations DEF Time
  <1>3. newSync \in Secret
    BY <1>1, <1>2 DEF newSync, Secret
  <1>4. newSync.data = fetched /\ newSync.sync = Format(start)
    BY DEF newSync
  <1> QED
    BY <1>2, <1>3, <1>4, SecretFields, NoneIsNoTime

LEMMA EmptiedFacts ==
    ASSUME NEW s \in Secret
    PROVE  /\ withoutKubeconfig(s) \in Secret /\ withoutKubeconfig(s) # None
           /\ withoutKubeconfig(s).data = None /\ withoutKubeconfig(s).sync = None
  <1>1. withoutKubeconfig(s) \in Secret /\ withoutKubeconfig(s).data = None /\ withoutKubeconfig(s).sync = None
    BY DEF withoutKubeconfig, Secret
  <1> QED
    BY <1>1, SecretFields

\* The delay until the next rotation.
LEMMA NextRequeueFacts ==
    ASSUME TypeOK
    PROVE  /\ nextRequeue \in Nat
           /\ overdue(copy, start) => nextRequeue = Threshold
           /\ ~overdue(copy, start) =>
                /\ copy # None /\ copy.sync # None /\ copy.sync \in Nat /\ start < copy.sync + Threshold
                /\ nextRequeue = copy.sync + Threshold - start
  <1>1. start \in Nat /\ Threshold \in Nat /\ copy \in Secret \cup {None}
    BY Durations DEF TypeOK, Time
  <1>2. ASSUME ~overdue(copy, start)
        PROVE  copy # None /\ copy.sync # None /\ copy.sync \in Nat /\ start < copy.sync + Threshold
    BY <1>1, <1>2, SecretFields DEF overdue
  <1> QED
    BY <1>1, <1>2 DEF nextRequeue

-----------------------------------------------------------------------------
(* Types.                                                                    *)

LEMMA WriteClusterType ==
    ASSUME TypeOK, NEW o \in Cluster \cup {None}, WriteCluster(o)
    PROVE  /\ cl' = o /\ clCache' = clCache /\ clWatch' = Append(clWatch, o)
           /\ clWatch' \in Seq(Cluster \cup {None})
  BY DEF TypeOK, WriteCluster

LEMMA WriteSecretType ==
    ASSUME TypeOK, NEW o \in Secret \cup {None}, WriteSecret(o)
    PROVE  /\ sec' = o /\ secCache' \in {secCache, o} /\ secWatch' \in Seq(Secret \cup {None})
           /\ \/ "seclag" \in trouble /\ secCache' = secCache /\ secWatch' = Append(secWatch, o)
              \/ "seclag" \notin trouble /\ secCache' = o /\ secWatch' = secWatch
  BY DEF TypeOK, WriteSecret

ClusterTypes == cl \in Cluster \cup {None} /\ clCache \in Cluster \cup {None} /\ clWatch \in Seq(Cluster \cup {None})
SecretTypes == sec \in Secret \cup {None} /\ secCache \in Secret \cup {None} /\ secWatch \in Seq(Secret \cup {None})

LEMMA ReturnType ==
    ASSUME TypeOK, NEW r \in Results, Return(r), ClusterTypes', SecretTypes',
           UNCHANGED <<now, shoot, asked, restarts, trouble>>
    PROVE  TypeOK'
  <1>1. now \in Time /\ 0 \in Time /\ now \in Nat /\ nextRequeue \in Nat
    BY Durations, NextRequeueFacts DEF TypeOK, Time
  <1>2. timer' \in Nat \cup {None}
    BY <1>1 DEF TypeOK, Return
  <1>3. queued' \in BOOLEAN /\ since' \in Time
    BY <1>1 DEF TypeOK, Return
  <1>4. pc' = "idle" /\ inst' = None /\ fresh' = FALSE /\ copy' = None /\ secFresh' = FALSE
        /\ start' = 0 /\ fetched' = None /\ res' = "stop"
    BY DEF Return
  <1> QED
    BY <1>1, <1>2, <1>3, <1>4 DEF TypeOK, ClusterTypes, SecretTypes, Steps, Results

LEMMA PersistType ==
    ASSUME TypeOK, inst \in Cluster, NEW r \in Results, NEW s \in {"", "Ready", "Error"}, PersistAnd(r, s),
           ClusterTypes', SecretTypes', UNCHANGED <<now, shoot, asked, restarts, trouble>>
    PROVE  TypeOK'
  <1>1. inst' \in Cluster /\ pc' = "persist" /\ res' = r
    BY ClusterFields DEF PersistAnd, Goto
  <1>2. UNCHANGED <<queued, since, timer, fresh, copy, secFresh, start, fetched>>
    BY DEF PersistAnd, queueVars
  <1> QED
    BY <1>1, <1>2 DEF TypeOK, ClusterTypes, SecretTypes, Steps

-----------------------------------------------------------------------------
(* What is stored and what is under way.                                     *)

ClusterChain == Nth(clCache, clWatch, Len(clWatch)) = cl
SecretChain == Nth(secCache, secWatch, Len(secWatch)) = sec

LEMMA ClusterKept ==
    ASSUME BaseInv, UNCHANGED clVars
    PROVE  ClusterTypes' /\ ClusterChain' /\ UNCHANGED cl /\ UNCHANGED clCache /\ UNCHANGED clWatch
  <1>1. UNCHANGED cl /\ UNCHANGED clCache /\ UNCHANGED clWatch
    BY DEF clVars
  <1> QED
    BY <1>1 DEF BaseInv, TypeOK, ClusterTypes, Chains, ClusterChain, Nth

LEMMA ClusterWritten ==
    ASSUME BaseInv, NEW o \in Cluster \cup {None}, WriteCluster(o)
    PROVE  ClusterTypes' /\ ClusterChain' /\ cl' = o /\ clCache' = clCache
  <1>1. TypeOK
    BY DEF BaseInv
  <1>2. cl' = o /\ clCache' = clCache /\ clWatch' = Append(clWatch, o) /\ clWatch' \in Seq(Cluster \cup {None})
    BY <1>1, WriteClusterType
  <1>3. Len(clWatch') = Len(clWatch) + 1 /\ clWatch'[Len(clWatch) + 1] = o /\ Len(clWatch) \in Nat
    BY <1>1, <1>2 DEF TypeOK
  <1>4. ClusterChain'
    BY <1>2, <1>3 DEF ClusterChain, Nth
  <1> QED
    BY <1>1, <1>2, <1>4 DEF ClusterTypes, TypeOK

LEMMA SecretKept ==
    ASSUME BaseInv, UNCHANGED secVars
    PROVE  /\ SecretTypes' /\ SecretChain' /\ UNCHANGED sec /\ UNCHANGED secCache /\ UNCHANGED secWatch
           /\ "seclag" \notin trouble => secWatch' = <<>>
           /\ SyncNotAfterIssue'
  <1>1. UNCHANGED sec /\ UNCHANGED secCache /\ UNCHANGED secWatch
    BY DEF secVars
  <1> QED
    BY <1>1 DEF BaseInv, TypeOK, SecretTypes, Chains, SecretChain, Nth, Cached, SyncNotAfterIssue

LEMMA SecretWritten ==
    ASSUME BaseInv, NEW o \in Secret \cup {None}, WriteSecret(o)
    PROVE  /\ SecretTypes' /\ SecretChain' /\ sec' = o
           /\ "seclag" \notin trouble => secWatch' = <<>>
  <1>1. TypeOK /\ ("seclag" \notin trouble => secWatch = <<>>)
    BY DEF BaseInv, Cached
  <1>2. sec' = o /\ secCache' \in {secCache, o} /\ secWatch' \in Seq(Secret \cup {None})
    BY <1>1, WriteSecretType
  <1>3. CASE "seclag" \in trouble
    <2>1. secWatch' = Append(secWatch, o) /\ secCache' = secCache
      BY <1>1, <1>3, WriteSecretType
    <2>2. Len(secWatch') = Len(secWatch) + 1 /\ secWatch'[Len(secWatch) + 1] = o /\ Len(secWatch) \in Nat
      BY <1>1, <2>1 DEF TypeOK
    <2>3. SecretChain'
      BY <1>2, <2>2 DEF SecretChain, Nth
    <2> QED
      BY <1>1, <1>2, <1>3, <2>3 DEF SecretTypes, TypeOK
  <1>4. CASE "seclag" \notin trouble
    <2>1. secWatch' = <<>> /\ secCache' = o
      BY <1>1, <1>4, WriteSecretType
    <2>2. SecretChain'
      BY <1>2, <2>1 DEF SecretChain, Nth
    <2> QED
      BY <1>1, <1>2, <2>1, <2>2 DEF SecretTypes, TypeOK
  <1> QED
    BY <1>3, <1>4

\* The annotation of a Secret that is written fits its kubeconfig.
LEMMA WrittenFits ==
    ASSUME TypeOK, Memory, pc \in {"update_secret", "create_secret"}, sec' = newSync
    PROVE  SyncNotAfterIssue' /\ HasKubeconfig'
  <1>1. fetched # None /\ start <= fetched.at /\ fetched \in Kubeconfig /\ start \in Nat
    BY Durations DEF Memory, TypeOK, Time
  <1>2. /\ newSync # None /\ newSync.data = fetched /\ newSync.data # None
        /\ newSync.sync # None /\ newSync.sync <= start /\ newSync.sync \in Nat /\ fetched.at \in Nat
    BY <1>1, NewSyncFacts, KubeconfigFields
  <1> QED
    BY <1>1, <1>2 DEF SyncNotAfterIssue, HasKubeconfig

Rest == <<now, shoot, asked, restarts, trouble>>

LEMMA ReturnBase ==
    ASSUME BaseInv, NEW r \in Results, Return(r), ClusterTypes', ClusterChain', SecretTypes', SecretChain',
           SyncNotAfterIssue', "seclag" \notin trouble => secWatch' = <<>>, UNCHANGED Rest
    PROVE  BaseInv'
  <1>1. TypeOK' /\ now' = now /\ trouble' = trouble
    BY ReturnType DEF BaseInv, Rest
  <1>2. pc' = "idle" /\ fresh' = FALSE /\ start' = 0 /\ now \in Nat
    BY Durations DEF Return, BaseInv, TypeOK, Time
  <1>3. Memory' /\ Cached'
    BY <1>1, <1>2 DEF Memory, Cached
  <1> QED
    BY <1>1, <1>3 DEF BaseInv, Chains, ClusterChain, SecretChain

LEMMA PersistBase ==
    ASSUME BaseInv, pc \notin {"idle", "delete_secret"}, NEW r \in Results, NEW s \in {"", "Ready", "Error"},
           PersistAnd(r, s), UNCHANGED clVars, SecretTypes', SecretChain', SyncNotAfterIssue',
           "seclag" \notin trouble => secWatch' = <<>>, UNCHANGED Rest
    PROVE  BaseInv'
  <1>1. ClusterTypes' /\ ClusterChain' /\ cl' = cl /\ inst \in Cluster /\ inst # None
    BY ClusterKept, ClusterFields DEF BaseInv, TypeOK
  <1>2. TypeOK' /\ now' = now /\ trouble' = trouble
    BY <1>1, PersistType DEF BaseInv, Rest
  <1>3. pc' = "persist" /\ inst'.force = inst.force /\ inst' # None
        /\ UNCHANGED <<fresh, secFresh, start>>
    <2>1. inst' = [inst EXCEPT !.state = s]
      BY DEF PersistAnd
    <2>2. inst' \in Cluster /\ inst'.force = inst.force
      <3>1. inst \in Cluster /\ s \in {"", "Ready", "Error"}
        BY <1>1
      <3>2. [inst EXCEPT !.state = s] \in Cluster /\ [inst EXCEPT !.state = s].force = inst.force
        BY <3>1 DEF Cluster
      <3> QED
        BY <2>1, <3>2
    <2> QED
      BY <2>2, ClusterFields DEF PersistAnd, Goto
  <1>4. fresh => Alike(cl', inst')
    BY <1>1, <1>3 DEF BaseInv, Memory, Alike
  <1>5. Memory' /\ Cached'
    BY <1>2, <1>3, <1>4 DEF BaseInv, Memory, Cached, Alike
  <1> QED
    BY <1>1, <1>2, <1>5 DEF BaseInv, Chains, ClusterChain, SecretChain

LEMMA ReconcileBase ==
    ASSUME BaseInv, Reconcile, UNCHANGED trouble
    PROVE  BaseInv'
  <1>1. TypeOK /\ Chains /\ pc = "idle" /\ UNCHANGED clVars /\ UNCHANGED secVars /\ UNCHANGED Rest
    BY DEF Reconcile, BaseInv, Rest
  <1>2. ClusterTypes' /\ ClusterChain' /\ UNCHANGED cl /\ UNCHANGED clCache /\ UNCHANGED clWatch
    BY <1>1, ClusterKept
  <1>3. /\ SecretTypes' /\ SecretChain' /\ UNCHANGED sec /\ UNCHANGED secCache /\ UNCHANGED secWatch
        /\ ("seclag" \notin trouble => secWatch' = <<>>)
        /\ SyncNotAfterIssue'
    BY <1>1, SecretKept
  <1>4. queued' = FALSE /\ since' = now /\ start' = now /\ inst' = clCache /\ fresh' = (clWatch = <<>>)
        /\ UNCHANGED <<timer, fetched, res>>
    BY DEF Reconcile
  <1>5. \/ clCache = None /\ pc' = "delete_secret" /\ UNCHANGED <<copy, secFresh>>
        \/ clCache # None /\ pc' = "fetch" /\ copy' = secCache /\ secFresh' = (secWatch = <<>>)
    BY DEF Reconcile, Goto
  <1>6. copy' \in Secret \cup {None} /\ secFresh' \in BOOLEAN /\ fresh' \in BOOLEAN /\ pc' \in Steps
    BY <1>1, <1>4, <1>5 DEF TypeOK, Steps
  <1>7. TypeOK'
    BY <1>1, <1>2, <1>3, <1>4, <1>5, <1>6 DEF TypeOK, Rest, ClusterTypes, SecretTypes
  <1>8. /\ clWatch = <<>> => clCache = cl
        /\ secWatch = <<>> => secCache = sec
    BY <1>1 DEF Chains, Nth
  <1>9. Memory'
    <2>1. start' <= now'
      BY <1>1, <1>4, Durations DEF Rest, TypeOK, Time
    <2>2. fresh' => Alike(cl', inst')
      BY <1>2, <1>4, <1>8 DEF Alike
    <2> QED
      BY <1>3, <1>5, <1>8, <2>1, <2>2 DEF Memory, Alike
  <1>10. Cached'
    BY <1>1, <1>3, <1>5 DEF Cached, BaseInv, Rest
  <1> QED
    BY <1>2, <1>3, <1>7, <1>9, <1>10 DEF BaseInv, Chains, ClusterChain, SecretChain

LEMMA DeleteSecretBase ==
    ASSUME BaseInv, deleteKubeconfigSecret, UNCHANGED trouble
    PROVE  BaseInv'
  <1>1. UNCHANGED clVars /\ UNCHANGED Rest /\ ClusterTypes' /\ ClusterChain'
    BY ClusterKept DEF deleteKubeconfigSecret, Rest
  <1>2. PICK r \in {"stop", "error"} : Return(r)
    BY DEF deleteKubeconfigSecret
  <1>3. r \in Results
    BY DEF Results
  <1>4. /\ SecretTypes' /\ SecretChain' /\ SyncNotAfterIssue'
        /\ ("seclag" \notin trouble => secWatch' = <<>>)
    <2>1. CASE UNCHANGED secVars
      BY <2>1, SecretKept
    <2>2. CASE WriteSecret(None)
      BY <2>2, SecretWritten DEF SyncNotAfterIssue
    <2> QED
      BY <2>1, <2>2 DEF deleteKubeconfigSecret
  <1> QED
    BY <1>1, <1>2, <1>3, <1>4, ReturnBase

LEMMA TailFacts ==
    ASSUME NEW S, NEW w \in Seq(S), w # <<>>
    PROVE  /\ Len(w) \in Nat \ {0} /\ Head(w) = w[1] /\ Head(w) \in S /\ Tail(w) \in Seq(S)
           /\ Len(Tail(w)) = Len(w) - 1
           /\ \A i \in 1..(Len(w) - 1) : Tail(w)[i] = w[i + 1]
  OBVIOUS

LEMMA FetchBase ==
    ASSUME BaseInv, Fetch, UNCHANGED trouble
    PROVE  BaseInv'
  <1>1. pc = "fetch" /\ UNCHANGED clVars /\ UNCHANGED secVars /\ UNCHANGED Rest /\ TypeOK /\ inst \in Cluster
        /\ Memory /\ Cached
    BY DEF Fetch, Rest, BaseInv, TypeOK
  <1>2. ClusterTypes' /\ ClusterChain' /\ UNCHANGED cl /\ UNCHANGED clCache /\ UNCHANGED clWatch
    BY <1>1, ClusterKept
  <1>3. /\ SecretTypes' /\ SecretChain' /\ UNCHANGED sec /\ UNCHANGED secCache /\ UNCHANGED secWatch
        /\ ("seclag" \notin trouble => secWatch' = <<>>)
        /\ SyncNotAfterIssue'
    BY <1>1, SecretKept
  <1>4. CASE PersistAnd("stop", "Error") \/ PersistAnd("error", "Error")
    BY <1>1, <1>3, <1>4, PersistBase DEF Results
  <1>5. CASE /\ fetched' = [at |-> now, ep |-> asked]
             /\ \/ inst.force /\ Goto("remove_kubeconfig") /\ UNCHANGED <<inst, res>>
                \/ /\ ~inst.force /\ ~secretNeedsToBeRotated
                   /\ inst' = [inst EXCEPT !.state = "Ready"] /\ res' = "requeue"
                   /\ Goto("persist")
                \/ /\ ~inst.force /\ secretNeedsToBeRotated
                   /\ Goto(IF copy = None THEN "create_secret" ELSE "update_secret")
                   /\ UNCHANGED <<inst, res>>
             /\ UNCHANGED <<queueVars, fresh, copy, secFresh, start>>
    <2>1. UNCHANGED <<queued, since, timer, fresh, copy, secFresh, start>>
          /\ UNCHANGED <<now, shoot, asked, restarts, trouble>>
      BY <1>1, <1>5 DEF queueVars, Rest
    <2>2. fetched' \in Kubeconfig /\ fetched' # None /\ fetched'.at = now
      <3>1. now \in Time /\ asked \in 0..MaxForce
        BY <1>1 DEF TypeOK
      <3>2. fetched' \in Kubeconfig /\ fetched'.at = now
        BY <1>5, <3>1 DEF Kubeconfig
      <3> QED
        BY <3>2, KubeconfigFields
    <2>3. inst' \in Cluster /\ inst'.force = inst.force /\ res' \in Results
      <3>1. [inst EXCEPT !.state = "Ready"] \in Cluster /\ [inst EXCEPT !.state = "Ready"].force = inst.force
        BY <1>1, ClusterFields
      <3>2. res \in Results
        BY <1>1 DEF TypeOK
      <3> QED
        BY <1>1, <1>5, <3>1, <3>2 DEF Results
    <2>4. inst # None /\ inst' # None
      BY <1>1, <2>3, ClusterFields
    <2>5. \/ inst.force /\ pc' = "remove_kubeconfig"
          \/ pc' = "persist"
          \/ overdue(copy, start) /\ copy = None /\ pc' = "create_secret"
          \/ overdue(copy, start) /\ copy # None /\ pc' = "update_secret"
      BY <1>5 DEF Goto, secretNeedsToBeRotated
    <2>6. pc' \in Steps /\ pc' \notin {"idle", "delete_secret", "fetch", "remove_annotation"}
      BY <2>5 DEF Steps
    <2>7. TypeOK'
      BY <1>1, <1>2, <1>3, <2>1, <2>2, <2>3, <2>6 DEF TypeOK, ClusterTypes, SecretTypes
    <2>8. fresh' => Alike(cl', inst')
      BY <1>1, <1>2, <2>1, <2>3, <2>4 DEF Memory, Alike
    <2>9. secFresh' => copy' = sec'
      BY <1>1, <1>3, <2>1 DEF Memory
    <2>10. start <= now
      BY <1>1 DEF Memory
    <2>11. Memory'
      BY <2>1, <2>2, <2>3, <2>5, <2>6, <2>8, <2>9, <2>10 DEF Memory, overdue
    <2>12. Cached'
      BY <1>1, <1>3, <2>1 DEF Cached
    <2> QED
      BY <1>2, <1>3, <2>7, <2>11, <2>12 DEF BaseInv, Chains, ClusterChain, SecretChain
  <1> QED
    BY <1>4, <1>5 DEF Fetch

\* The ways in which an Update of the Secret fails.
UpdateFails == \E r \in {"stop", "error"} : UNCHANGED secVars /\ PersistAnd(r, "Error")

LEMMA UpdateFailsBase ==
    ASSUME BaseInv, UpdateFails, pc \notin {"idle", "delete_secret"}, UNCHANGED clVars, UNCHANGED Rest
    PROVE  BaseInv'
  <1>1. PICK r \in {"stop", "error"} : UNCHANGED secVars /\ PersistAnd(r, "Error")
    BY DEF UpdateFails
  <1>2. r \in Results
    BY DEF Results
  <1> QED
    BY <1>1, <1>2, SecretKept, PersistBase

LEMMA RemoveKubeconfigBase ==
    ASSUME BaseInv, removeKubeconfig, UNCHANGED trouble
    PROVE  BaseInv'
  <1>1. pc = "remove_kubeconfig" /\ UNCHANGED clVars /\ UNCHANGED Rest /\ TypeOK /\ inst \in Cluster /\ inst.force
        /\ Memory /\ Cached /\ copy \in Secret \cup {None}
    BY DEF removeKubeconfig, Rest, BaseInv, TypeOK, Memory
  <1>2. ClusterTypes' /\ ClusterChain' /\ UNCHANGED cl /\ UNCHANGED clCache /\ UNCHANGED clWatch
    BY <1>1, ClusterKept
  <1>3. CASE UpdateFails
    BY <1>1, <1>3, UpdateFailsBase
  <1>4. CASE /\ Goto("remove_annotation") /\ UNCHANGED <<queueVars, memVars>>
             /\ \/ copy = None /\ UNCHANGED secVars
                \/ /\ copy # None /\ secFresh
                   /\ \/ withoutKubeconfig(copy) = copy /\ UNCHANGED secVars
                      \/ WriteSecret(withoutKubeconfig(copy))
    <2>1. UNCHANGED <<queued, since, timer, inst, fresh, copy, secFresh, start, fetched, res>>
          /\ UNCHANGED <<now, shoot, asked, restarts, trouble>> /\ pc' = "remove_annotation"
      BY <1>1, <1>4 DEF queueVars, memVars, Rest, Goto
    <2>2. /\ SecretTypes' /\ SecretChain' /\ SyncNotAfterIssue'
          /\ ("seclag" \notin trouble => secWatch' = <<>>)
          /\ secFresh => sec' = None \/ sec'.data = None
      <3>1. CASE copy = None /\ UNCHANGED secVars
        <4>1. secFresh => copy = sec
          BY <1>1 DEF Memory
        <4> QED
          BY <3>1, <4>1, SecretKept
      <3>2. CASE copy # None /\ secFresh /\ withoutKubeconfig(copy) = copy /\ UNCHANGED secVars
        <4>1. copy \in Secret /\ copy = sec
          BY <1>1, <3>2 DEF Memory
        <4>2. withoutKubeconfig(copy).data = None
          BY <4>1, EmptiedFacts
        <4> QED
          BY <3>2, <4>1, <4>2, SecretKept
      <3>3. CASE copy # None /\ WriteSecret(withoutKubeconfig(copy))
        <4>1. copy \in Secret
          BY <1>1, <3>3
        <4>2. /\ withoutKubeconfig(copy) \in Secret /\ withoutKubeconfig(copy).data = None
              /\ withoutKubeconfig(copy).sync = None
          BY <4>1, EmptiedFacts
        <4>3. SecretTypes' /\ SecretChain' /\ sec' = withoutKubeconfig(copy)
              /\ ("seclag" \notin trouble => secWatch' = <<>>)
          BY <3>3, <4>2, SecretWritten
        <4> QED
          BY <4>2, <4>3 DEF SyncNotAfterIssue
      <3> QED
        BY <1>4, <3>1, <3>2, <3>3
    <2>3. TypeOK'
      BY <1>1, <1>2, <2>1, <2>2 DEF TypeOK, ClusterTypes, SecretTypes, Steps
    <2>4. Memory'
      <3>1. start <= now /\ (fresh => Alike(cl, inst))
        BY <1>1 DEF Memory
      <3>2. fresh' => Alike(cl', inst')
        BY <1>2, <2>1, <3>1 DEF Alike
      <3> QED
        BY <1>1, <2>1, <2>2, <3>1, <3>2 DEF Memory
    <2>5. Cached'
      BY <1>1, <2>1, <2>2 DEF Cached
    <2> QED
      BY <1>2, <2>2, <2>3, <2>4, <2>5 DEF BaseInv, Chains, ClusterChain, SecretChain
  <1> QED
    BY <1>3, <1>4 DEF removeKubeconfig, UpdateSecret, UpdateFails

\* The Secret gets its new kubeconfig, or the attempt fails.
LEMMA WriteSyncBase ==
    ASSUME BaseInv, pc \in {"update_secret", "create_secret"}, UNCHANGED clVars, UNCHANGED Rest,
           WriteSecret(newSync), PersistAnd("requeue", "Ready")
    PROVE  BaseInv'
  <1>1. TypeOK /\ Memory /\ fetched # None
    BY DEF BaseInv, Memory
  <1>2. newSync \in Secret
    BY <1>1, NewSyncFacts
  <1>3. SecretTypes' /\ SecretChain' /\ sec' = newSync /\ ("seclag" \notin trouble => secWatch' = <<>>)
    BY <1>2, SecretWritten
  <1>4. SyncNotAfterIssue'
    BY <1>1, <1>3, WrittenFits
  <1>5. "requeue" \in Results /\ pc \notin {"idle", "delete_secret"}
    BY DEF Results
  <1> QED
    BY <1>3, <1>4, <1>5, PersistBase

LEMMA UpdateBase ==
    ASSUME BaseInv, updateExistingSecret, UNCHANGED trouble
    PROVE  BaseInv'
  <1>1. pc = "update_secret" /\ UNCHANGED clVars /\ UNCHANGED Rest
    BY DEF updateExistingSecret, Rest
  <1>2. CASE UpdateFails
    BY <1>1, <1>2, UpdateFailsBase
  <1>3. CASE UNCHANGED secVars /\ PersistAnd("requeue", "Ready")
    BY <1>1, <1>3, SecretKept, PersistBase DEF Results
  <1>4. CASE WriteSecret(newSync) /\ PersistAnd("requeue", "Ready")
    BY <1>1, <1>4, WriteSyncBase
  <1> QED
    BY <1>2, <1>3, <1>4 DEF updateExistingSecret, UpdateSecret, UpdateFails

LEMMA CreateBase ==
    ASSUME BaseInv, createNewSecret, UNCHANGED trouble
    PROVE  BaseInv'
  <1>1. pc = "create_secret" /\ UNCHANGED clVars /\ UNCHANGED Rest
    BY DEF createNewSecret, Rest
  <1>2. CASE UpdateFails
    BY <1>1, <1>2, UpdateFailsBase
  <1>3. CASE WriteSecret(newSync) /\ PersistAnd("requeue", "Ready")
    BY <1>1, <1>3, WriteSyncBase
  <1> QED
    BY <1>2, <1>3 DEF createNewSecret, UpdateFails

LEMMA RemoveAnnotationBase ==
    ASSUME BaseInv, removeForceRotationAnnotation, UNCHANGED trouble
    PROVE  BaseInv'
  <1>1. pc = "remove_annotation" /\ UNCHANGED secVars /\ UNCHANGED Rest /\ TypeOK /\ Memory /\ Cached
    BY DEF removeForceRotationAnnotation, Rest, BaseInv
  <1>2. /\ SecretTypes' /\ SecretChain' /\ UNCHANGED sec /\ UNCHANGED secCache /\ UNCHANGED secWatch
        /\ ("seclag" \notin trouble => secWatch' = <<>>)
        /\ SyncNotAfterIssue'
    BY <1>1, SecretKept
  <1>3. CASE Return("error") /\ UNCHANGED clVars
    BY <1>1, <1>2, <1>3, ClusterKept, ReturnBase DEF Results
  <1>4. CASE /\ clCache # None /\ clWatch = <<>>
             /\ \/ UNCHANGED <<clVars, fresh>>
                \/ WriteCluster([clCache EXCEPT !.force = FALSE]) /\ fresh' = FALSE
             /\ res' = "requeue" /\ Goto("persist")
             /\ UNCHANGED <<queueVars, inst, copy, secFresh, start, fetched>>
    <2>1. UNCHANGED <<queued, since, timer, inst, copy, secFresh, start, fetched>>
          /\ UNCHANGED <<now, shoot, asked, restarts, trouble>> /\ pc' = "persist" /\ res' = "requeue"
      BY <1>1, <1>4 DEF queueVars, Rest, Goto
    <2>2. [clCache EXCEPT !.force = FALSE] \in Cluster
      BY <1>1, <1>4 DEF TypeOK, Cluster
    <2>3. ClusterTypes' /\ ClusterChain' /\ (fresh' => fresh /\ cl' = cl) /\ fresh' \in BOOLEAN
      <3>1. CASE UNCHANGED <<clVars, fresh>>
        BY <1>1, <3>1, ClusterKept DEF TypeOK
      <3>2. CASE WriteCluster([clCache EXCEPT !.force = FALSE]) /\ fresh' = FALSE
        BY <2>2, <3>2, ClusterWritten
      <3> QED
        BY <1>4, <3>1, <3>2
    <2>4. TypeOK'
      BY <1>1, <1>2, <2>1, <2>3 DEF TypeOK, ClusterTypes, SecretTypes, Steps, Results
    <2>5. Memory'
      <3>1. start <= now /\ (fresh => Alike(cl, inst))
        BY <1>1 DEF Memory
      <3>2. fresh' => Alike(cl', inst')
        BY <2>1, <2>3, <3>1 DEF Alike
      <3> QED
        BY <2>1, <3>1, <3>2 DEF Memory
    <2>6. Cached'
      BY <1>1, <1>2, <2>1 DEF Cached
    <2> QED
      BY <1>2, <2>3, <2>4, <2>5, <2>6 DEF BaseInv, Chains, ClusterChain, SecretChain
  <1> QED
    BY <1>3, <1>4 DEF removeForceRotationAnnotation

LEMMA PersistStatusBase ==
    ASSUME BaseInv, persistStatusChange, UNCHANGED trouble
    PROVE  BaseInv'
  <1>1. pc = "persist" /\ UNCHANGED secVars /\ UNCHANGED Rest /\ TypeOK /\ Memory /\ inst \in Cluster
        /\ res \in Results
    BY DEF persistStatusChange, Rest, BaseInv, TypeOK
  <1>2. /\ SecretTypes' /\ SecretChain'
        /\ ("seclag" \notin trouble => secWatch' = <<>>)
        /\ SyncNotAfterIssue'
    BY <1>1, SecretKept
  <1>3. CASE fresh /\ WriteCluster([cl EXCEPT !.state = inst.state]) /\ Return(res)
    <2>1. cl # None /\ cl \in Cluster /\ inst.state \in {"", "Ready", "Error"}
      BY <1>1, <1>3, ClusterFields DEF Memory, Alike, TypeOK, Cluster
    <2>2. [cl EXCEPT !.state = inst.state] \in Cluster
      BY <2>1 DEF Cluster
    <2>3. ClusterTypes' /\ ClusterChain'
      BY <1>3, <2>2, ClusterWritten
    <2> QED
      BY <1>1, <1>2, <1>3, <2>3, ReturnBase
  <1>4. CASE UNCHANGED clVars /\ Return(IF res = "requeue" THEN "error" ELSE res)
    <2>1. (IF res = "requeue" THEN "error" ELSE res) \in Results
      BY <1>1 DEF Results
    <2> QED
      BY <1>1, <1>2, <1>4, <2>1, ClusterKept, ReturnBase
  <1> QED
    BY <1>3, <1>4 DEF persistStatusChange

\* Steps that leave the reconciliation's memory alone.
LEMMA SameMemory ==
    ASSUME BaseInv, UNCHANGED <<pc, inst, copy, secFresh, start, fetched, res>>,
           UNCHANGED sec, fresh' => fresh /\ cl' = cl, now' \in Time, now <= now'
    PROVE  Memory'
  <1>1. UNCHANGED pc /\ UNCHANGED inst /\ UNCHANGED copy /\ UNCHANGED secFresh /\ UNCHANGED start
        /\ UNCHANGED fetched /\ UNCHANGED sec
    OBVIOUS
  <1>2. start' <= now'
    BY <1>1, Durations DEF BaseInv, Memory, TypeOK, Time
  <1>3. fresh' => pc' # "idle" /\ Alike(cl', inst')
    BY <1>1 DEF BaseInv, Memory, Alike
  <1>4. overdue(copy, start)' = overdue(copy, start)
    BY <1>1 DEF overdue
  <1> QED
    BY <1>1, <1>2, <1>3, <1>4 DEF BaseInv, Memory

LEMMA EnqueueType ==
    ASSUME TypeOK, Enqueue
    PROVE  queued' = TRUE /\ since' \in Time
  BY DEF TypeOK, Enqueue

LEMMA ClusterSyncBase ==
    ASSUME BaseInv, ClusterSync, UNCHANGED trouble
    PROVE  BaseInv'
  <1>1. /\ clWatch # <<>> /\ clCache' = Head(clWatch) /\ clWatch' = Tail(clWatch) /\ cl' = cl
        /\ UNCHANGED secVars /\ UNCHANGED <<now, shoot, asked, restarts, trouble>> /\ UNCHANGED timer
        /\ UNCHANGED <<pc, inst, fresh, copy, secFresh, start, fetched, res>>
    BY DEF ClusterSync, memVars
  <1>2. TypeOK /\ Chains /\ Cached /\ clWatch \in Seq(Cluster \cup {None})
    BY DEF BaseInv, TypeOK
  <1>3. queued' \in BOOLEAN /\ since' \in Time
    BY <1>2, EnqueueType DEF ClusterSync, TypeOK
  <1>4. /\ SecretTypes' /\ SecretChain' /\ UNCHANGED sec /\ UNCHANGED secCache /\ UNCHANGED secWatch
        /\ SyncNotAfterIssue'
    BY <1>1, SecretKept
  <1>5. /\ Len(clWatch) \in Nat \ {0} /\ Head(clWatch) = clWatch[1] /\ Head(clWatch) \in Cluster \cup {None}
        /\ Tail(clWatch) \in Seq(Cluster \cup {None}) /\ Len(Tail(clWatch)) = Len(clWatch) - 1
        /\ \A i \in 1..(Len(clWatch) - 1) : Tail(clWatch)[i] = clWatch[i + 1]
    BY <1>1, <1>2, TailFacts
  <1>6. ClusterChain'
    <2>1. clWatch[Len(clWatch)] = cl
      BY <1>2, <1>5 DEF Chains, Nth
    <2>2. CASE Len(clWatch) = 1
      BY <1>1, <1>5, <2>1, <2>2 DEF ClusterChain, Nth
    <2>3. CASE Len(clWatch) # 1
      <3>1. Len(clWatch) - 1 \in 1..(Len(clWatch) - 1) /\ Len(clWatch) - 1 # 0 /\ (Len(clWatch) - 1) + 1 = Len(clWatch)
        BY <1>5, <2>3
      <3>2. Tail(clWatch)[Len(clWatch) - 1] = clWatch[Len(clWatch)]
        BY <1>5, <3>1
      <3> QED
        BY <1>1, <1>5, <2>1, <3>1, <3>2 DEF ClusterChain, Nth
    <2> QED
      BY <2>2, <2>3
  <1>7. TypeOK'
    BY <1>1, <1>2, <1>3, <1>4, <1>5 DEF TypeOK, SecretTypes
  <1>8. now \in Time /\ now <= now
    BY <1>2, Durations DEF TypeOK, Time
  <1>9. Memory'
    BY <1>1, <1>4, <1>8, SameMemory
  <1>10. Cached'
    BY <1>1, <1>2, <1>4 DEF Cached
  <1> QED
    BY <1>4, <1>6, <1>7, <1>9, <1>10 DEF BaseInv, Chains, ClusterChain, SecretChain

LEMMA SecretSyncBase ==
    ASSUME BaseInv, SecretSync, UNCHANGED trouble
    PROVE  BaseInv'
  <1>1. /\ secWatch # <<>> /\ secCache' = Head(secWatch) /\ secWatch' = Tail(secWatch) /\ sec' = sec
        /\ UNCHANGED clVars /\ UNCHANGED <<now, shoot, asked, restarts, trouble>>
        /\ UNCHANGED <<queued, since, timer>>
        /\ UNCHANGED <<pc, inst, fresh, copy, secFresh, start, fetched, res>>
    BY DEF SecretSync, memVars, queueVars
  <1>2. TypeOK /\ Chains /\ Cached /\ secWatch \in Seq(Secret \cup {None}) /\ SyncNotAfterIssue
    BY DEF BaseInv, TypeOK
  <1>3. ClusterTypes' /\ ClusterChain' /\ UNCHANGED cl
    BY <1>1, ClusterKept
  <1>4. /\ Len(secWatch) \in Nat \ {0} /\ Head(secWatch) = secWatch[1] /\ Head(secWatch) \in Secret \cup {None}
        /\ Tail(secWatch) \in Seq(Secret \cup {None}) /\ Len(Tail(secWatch)) = Len(secWatch) - 1
        /\ \A i \in 1..(Len(secWatch) - 1) : Tail(secWatch)[i] = secWatch[i + 1]
    BY <1>1, <1>2, TailFacts
  <1>5. SecretChain'
    <2>1. secWatch[Len(secWatch)] = sec
      BY <1>2, <1>4 DEF Chains, Nth
    <2>2. CASE Len(secWatch) = 1
      BY <1>1, <1>4, <2>1, <2>2 DEF SecretChain, Nth
    <2>3. CASE Len(secWatch) # 1
      <3>1. Len(secWatch) - 1 \in 1..(Len(secWatch) - 1) /\ Len(secWatch) - 1 # 0 /\ (Len(secWatch) - 1) + 1 = Len(secWatch)
        BY <1>4, <2>3
      <3>2. Tail(secWatch)[Len(secWatch) - 1] = secWatch[Len(secWatch)]
        BY <1>4, <3>1
      <3> QED
        BY <1>1, <1>4, <2>1, <3>1, <3>2 DEF SecretChain, Nth
    <2> QED
      BY <2>2, <2>3
  <1>6. TypeOK'
    BY <1>1, <1>2, <1>3, <1>4 DEF TypeOK, ClusterTypes
  <1>7. now \in Time /\ now <= now
    BY <1>2, Durations DEF TypeOK, Time
  <1>8. Memory'
    BY <1>1, <1>3, <1>7, SameMemory
  <1>9. Cached'
    BY <1>1, <1>2 DEF Cached
  <1>10. SyncNotAfterIssue'
    BY <1>1, <1>2 DEF SyncNotAfterIssue
  <1> QED
    BY <1>3, <1>5, <1>6, <1>8, <1>9, <1>10 DEF BaseInv, Chains, ClusterChain, SecretChain

LEMMA UserBase ==
    ASSUME BaseInv, NEW o \in Cluster \cup {None}, UserWrite(o), UNCHANGED secVars, asked' \in 0..MaxForce,
           UNCHANGED <<now, shoot, restarts, trouble>>, UNCHANGED queueVars,
           UNCHANGED <<pc, inst, copy, secFresh, start, fetched, res>>
    PROVE  BaseInv'
  <1>1. WriteCluster(o) /\ fresh' = FALSE /\ TypeOK /\ Cached
    BY DEF UserWrite, BaseInv
  <1>2. ClusterTypes' /\ ClusterChain'
    BY <1>1, ClusterWritten
  <1>3. /\ SecretTypes' /\ SecretChain' /\ UNCHANGED sec /\ UNCHANGED secCache /\ UNCHANGED secWatch
        /\ SyncNotAfterIssue'
    BY SecretKept
  <1>4. UNCHANGED <<queued, since, timer>>
    BY DEF queueVars
  <1>5. TypeOK'
    BY <1>1, <1>2, <1>3, <1>4 DEF TypeOK, ClusterTypes, SecretTypes
  <1>6. now \in Time /\ now <= now
    BY <1>1, Durations DEF TypeOK, Time
  <1>7. Memory'
    BY <1>1, <1>3, <1>6, SameMemory
  <1>8. Cached'
    BY <1>1, <1>3 DEF Cached
  <1> QED
    BY <1>2, <1>3, <1>5, <1>7, <1>8 DEF BaseInv, Chains, ClusterChain, SecretChain

LEMMA ForceBase ==
    ASSUME BaseInv, ForceRotation, UNCHANGED trouble
    PROVE  BaseInv'
  <1>1. cl \in Cluster /\ asked' \in 0..MaxForce
    <2>1. cl \in Cluster \cup {None} /\ asked \in 0..MaxForce
      BY DEF BaseInv, TypeOK
    <2>2. cl # None /\ asked < MaxForce /\ asked' = asked + 1
      BY DEF ForceRotation
    <2> QED
      BY <2>1, <2>2, Durations
  <1>2. [cl EXCEPT !.force = TRUE] \in Cluster
    BY <1>1 DEF Cluster
  <1>3. UserWrite([cl EXCEPT !.force = TRUE]) /\ UNCHANGED secVars /\ UNCHANGED queueVars
        /\ UNCHANGED <<now, shoot, restarts, trouble>>
        /\ UNCHANGED <<pc, inst, copy, secFresh, start, fetched, res>>
    BY DEF ForceRotation
  <1> QED
    BY <1>1, <1>2, <1>3, UserBase

LEMMA DeleteOrCreateBase ==
    ASSUME BaseInv, DeleteOrCreate, UNCHANGED trouble
    PROVE  BaseInv'
  <1>1. (IF cl = None THEN NewCluster ELSE None) \in Cluster \cup {None}
    BY DEF NewCluster, Cluster
  <1>2. UserWrite(IF cl = None THEN NewCluster ELSE None) /\ UNCHANGED secVars /\ UNCHANGED queueVars
        /\ UNCHANGED <<now, shoot, restarts, trouble>> /\ asked' = asked /\ asked \in 0..MaxForce
        /\ UNCHANGED <<pc, inst, copy, secFresh, start, fetched, res>>
    BY DEF DeleteOrCreate, BaseInv, TypeOK
  <1> QED
    BY <1>1, <1>2, UserBase

\* Steps that only the clock, the queue and the shoot see.
LEMMA OutsideBase ==
    ASSUME BaseInv, UNCHANGED clVars, UNCHANGED secVars, UNCHANGED <<asked, restarts, trouble, pc>>,
           UNCHANGED memVars, now' \in Time, now <= now', shoot' \in BOOLEAN,
           queued' \in BOOLEAN, since' \in Time, timer' \in Nat \cup {None}
    PROVE  BaseInv'
  <1>1. UNCHANGED <<inst, fresh, copy, secFresh, start, fetched, res>> /\ TypeOK /\ Cached
    BY DEF memVars, BaseInv
  <1>2. ClusterTypes' /\ ClusterChain' /\ UNCHANGED cl
    BY ClusterKept
  <1>3. /\ SecretTypes' /\ SecretChain' /\ UNCHANGED sec /\ UNCHANGED secWatch
        /\ SyncNotAfterIssue'
    BY SecretKept
  <1>4. TypeOK'
    BY <1>1, <1>2, <1>3 DEF TypeOK, ClusterTypes, SecretTypes
  <1>5. Memory'
    BY <1>1, <1>2, <1>3, SameMemory
  <1>6. Cached'
    BY <1>1, <1>3 DEF Cached
  <1> QED
    BY <1>2, <1>3, <1>4, <1>5, <1>6 DEF BaseInv, Chains, ClusterChain, SecretChain

LEMMA ElseBase ==
    ASSUME BaseInv, ShootChanges \/ TimerFires \/ Tick, UNCHANGED trouble
    PROVE  BaseInv'
  <1>1. TypeOK /\ now \in Time /\ now <= now /\ now \in Nat
    BY Durations DEF BaseInv, TypeOK, Time
  <1>2. CASE ShootChanges
    <2>1. UNCHANGED clVars /\ UNCHANGED secVars /\ UNCHANGED <<asked, restarts, trouble, pc>> /\ UNCHANGED memVars
          /\ UNCHANGED <<now, queued, since, timer>> /\ shoot' \in BOOLEAN
      BY <1>1, <1>2 DEF ShootChanges, queueVars, TypeOK
    <2> QED
      BY <1>1, <2>1, OutsideBase DEF TypeOK
  <1>3. CASE TimerFires
    <2>1. UNCHANGED clVars /\ UNCHANGED secVars /\ UNCHANGED <<asked, restarts, trouble, pc>> /\ UNCHANGED memVars
          /\ UNCHANGED <<now, shoot>> /\ timer' = None /\ Enqueue
      BY <1>3 DEF TimerFires
    <2>2. queued' = TRUE /\ since' \in Time
      BY <1>1, <2>1, EnqueueType
    <2> QED
      BY <1>1, <2>1, <2>2, OutsideBase DEF TypeOK
  <1>4. CASE Tick
    <2>1. UNCHANGED clVars /\ UNCHANGED secVars /\ UNCHANGED <<asked, restarts, trouble, pc>> /\ UNCHANGED memVars
          /\ UNCHANGED <<shoot, queued, since, timer>> /\ now' = now + 1 /\ now < MaxTime
      BY <1>4 DEF Tick, queueVars
    <2>2. now' \in Time /\ now <= now'
      BY <1>1, <2>1, Durations DEF Time
    <2> QED
      BY <1>1, <2>1, <2>2, OutsideBase DEF TypeOK
  <1> QED
    BY <1>2, <1>3, <1>4

LEMMA RestartBase ==
    ASSUME BaseInv, Restart, UNCHANGED trouble
    PROVE  BaseInv'
  <1>1. /\ restarts < MaxRestarts /\ restarts' = restarts + 1
        /\ pc' = "idle" /\ inst' = None /\ fresh' = FALSE /\ copy' = None /\ secFresh' = FALSE
        /\ start' = 0 /\ fetched' = None /\ res' = "stop"
        /\ clCache' = cl /\ clWatch' = <<>> /\ secCache' = sec /\ secWatch' = <<>>
        /\ queued' = (cl # None) /\ since' = now /\ timer' = None
        /\ UNCHANGED <<now, cl, sec, shoot, asked>> /\ trouble' = trouble
    BY DEF Restart
  <1>2. TypeOK /\ SyncNotAfterIssue /\ 0 \in Time /\ now \in Nat
    BY Durations DEF BaseInv, TypeOK, Time
  <1>3. restarts' \in 0..MaxRestarts /\ clWatch' \in Seq(Cluster \cup {None}) /\ secWatch' \in Seq(Secret \cup {None})
        /\ queued' \in BOOLEAN
    BY <1>1, <1>2, Durations DEF TypeOK
  <1>4. TypeOK'
    BY <1>1, <1>2, <1>3 DEF TypeOK, Steps, Results
  <1>5. Chains'
    BY <1>1 DEF Chains, Nth
  <1>6. Memory' /\ Cached'
    BY <1>1, <1>2 DEF Memory, Cached
  <1>7. SyncNotAfterIssue'
    BY <1>1, <1>2 DEF SyncNotAfterIssue
  <1> QED
    BY <1>4, <1>5, <1>6, <1>7 DEF BaseInv

LEMMA InitBase ==
    ASSUME Init
    PROVE  BaseInv
  <1>1. 0 \in Time /\ MaxForce \in Nat /\ MaxRestarts \in Nat
    BY Durations DEF Time
  <1>2. NewCluster \in Cluster
    BY DEF NewCluster, Cluster
  <1>3. TypeOK
    <2>1. /\ now = 0 /\ cl = NewCluster /\ clCache = NewCluster /\ clWatch = <<>>
          /\ sec = None /\ secCache = None /\ secWatch = <<>> /\ shoot = TRUE /\ asked = 0 /\ restarts = 0
          /\ trouble \in Scenarios
      BY DEF Init
    <2>2. /\ queued = TRUE /\ since = 0 /\ timer = None /\ pc = "idle" /\ inst = None /\ fresh = FALSE
          /\ copy = None /\ secFresh = FALSE /\ start = 0 /\ fetched = None /\ res = "stop"
      BY DEF Init
    <2>3. clWatch \in Seq(Cluster \cup {None}) /\ secWatch \in Seq(Secret \cup {None})
      BY <2>1
    <2>4. asked \in 0..MaxForce /\ restarts \in 0..MaxRestarts
      BY <1>1, <2>1
    <2> QED
      BY <1>1, <1>2, <2>1, <2>2, <2>3, <2>4 DEF TypeOK, Steps, Results
  <1>4. Chains /\ Memory /\ Cached /\ SyncNotAfterIssue
    BY DEF Init, Chains, Nth, Memory, Cached, SyncNotAfterIssue
  <1> QED
    BY <1>3, <1>4 DEF BaseInv

LEMMA StutterBase ==
    ASSUME BaseInv, UNCHANGED vars
    PROVE  BaseInv'
  <1>1. UNCHANGED clVars /\ UNCHANGED secVars /\ UNCHANGED <<asked, restarts, trouble, pc>> /\ UNCHANGED memVars
        /\ UNCHANGED <<now, shoot, queued, since, timer>>
    BY DEF vars, queueVars
  <1>2. now \in Time /\ now <= now
    BY Durations DEF BaseInv, TypeOK, Time
  <1> QED
    BY <1>1, <1>2, OutsideBase DEF BaseInv, TypeOK

\* The types, the caches, the memory of the reconciliation and the annotation of the
\* Secret fit together in every reachable state, whatever goes wrong.
THEOREM RotationInvariance == Spec => []BaseInv
  <1>1. Init => BaseInv
    BY InitBase
  <1>2. BaseInv /\ [Next]_vars => BaseInv'
    BY ReconcileBase, DeleteSecretBase, FetchBase, RemoveKubeconfigBase, UpdateBase, CreateBase,
       RemoveAnnotationBase, PersistStatusBase, ClusterSyncBase, SecretSyncBase, ForceBase, DeleteOrCreateBase,
       ElseBase, RestartBase, StutterBase DEF Next, ReconcileStep
  <1> QED
    BY <1>1, <1>2, PTL DEF Spec

\* Every variable of the kubeconfig controller keeps its type.
THEOREM RotationTypeCorrect == Spec => []TypeOK
  <1>1. BaseInv => TypeOK
    BY DEF BaseInv
  <1> QED
    BY <1>1, RotationInvariance, PTL

\* The last-sync annotation never makes a kubeconfig look younger than it is, and it
\* is there exactly when the kubeconfig is: overdue, which rotates by the annotation,
\* is never late by what was read before the fetch or cut from the time.
THEOREM SyncNotAfterIssueAlways == Spec => []SyncNotAfterIssue
  <1>1. BaseInv => SyncNotAfterIssue
    BY DEF BaseInv
  <1> QED
    BY <1>1, RotationInvariance, PTL

\* Only removeForceRotationAnnotation takes the annotation away.
LEMMA AnnotationRemoved ==
    ASSUME BaseInv, [Next]_vars, cl # None, cl' # None, cl.force, ~cl'.force
    PROVE  pc = "remove_annotation"
  <1>1. cl' # cl
    OBVIOUS
  <1>2. cl \in Cluster
    BY DEF BaseInv, TypeOK
  <1>3. CASE persistStatusChange
    <2>1. cl' = [cl EXCEPT !.state = inst.state]
      BY <1>1, <1>3 DEF persistStatusChange, WriteCluster, clVars
    <2> QED
      BY <1>2, <2>1 DEF Cluster
  <1>4. CASE ForceRotation
    BY <1>4 DEF ForceRotation
  <1>5. CASE DeleteOrCreate
    BY <1>5 DEF DeleteOrCreate, UserWrite, WriteCluster
  <1>6. CASE removeForceRotationAnnotation
    BY <1>6 DEF removeForceRotationAnnotation
  <1>7. CASE \/ Reconcile \/ deleteKubeconfigSecret \/ Fetch \/ removeKubeconfig
             \/ updateExistingSecret \/ createNewSecret
    BY <1>1, <1>7 DEF Reconcile, deleteKubeconfigSecret, Fetch, removeKubeconfig, updateExistingSecret,
                      createNewSecret, clVars
  <1>8. CASE ClusterSync \/ SecretSync \/ TimerFires \/ Tick \/ ShootChanges \/ Restart \/ UNCHANGED vars
    BY <1>1, <1>8 DEF ClusterSync, SecretSync, TimerFires, Tick, ShootChanges, Restart, vars, clVars
  <1> QED
    BY <1>3, <1>4, <1>5, <1>6, <1>7, <1>8 DEF Next, ReconcileStep

\* A request for a rotation is taken away only once no kubeconfig from before it is
\* left: removeKubeconfig has emptied the Secret that the cache showed, and nobody but
\* the reconciliation itself writes it.
THEOREM ForcedIsRotatedAlways == Spec => ForcedIsRotated
  <1>1. BaseInv /\ [Next]_vars =>
          [cl # None /\ cl' # None /\ cl.force /\ ~cl'.force /\ "seclag" \notin trouble
           => sec = None \/ sec.data = None \/ sec.data.ep = asked]_vars
    <2> SUFFICES ASSUME BaseInv, [Next]_vars, cl # None, cl' # None, cl.force, ~cl'.force, "seclag" \notin trouble
                 PROVE  sec = None \/ sec.data = None
      OBVIOUS
    <2>1. pc = "remove_annotation"
      BY AnnotationRemoved
    <2> QED
      BY <2>1 DEF BaseInv, Memory, Cached
  <1> QED
    BY <1>1, RotationInvariance, PTL DEF Spec, ForcedIsRotated

-----------------------------------------------------------------------------
(* Events: nothing that happens to the CR goes unnoticed.                    *)

LEMMA UnseenIsAnnounced ==
    ASSUME TypeOK, (cl = None /\ clCache # None) \/ (cl # None /\ clCache = None)
    PROVE  Announced
  <1>1. 0 \in 0..Len(clWatch)
    BY DEF TypeOK
  <1>2. ~Alike(Nth(clCache, clWatch, 0), cl)
    BY DEF Nth, Alike
  <1> QED
    BY <1>1, <1>2 DEF Announced

LEMMA AnnouncedSame ==
    ASSUME UNCHANGED clVars
    PROVE  Announced' = Announced
  <1>1. UNCHANGED cl /\ UNCHANGED clCache /\ UNCHANGED clWatch
    BY DEF clVars
  <1> QED
    BY <1>1 DEF Announced, Alike, Nth

LEMMA AnnouncedWrite ==
    ASSUME BaseInv, NEW o \in Cluster \cup {None}, WriteCluster(o)
    PROVE  /\ ~Alike(cl, o) => Announced'
           /\ Alike(cl, o) /\ Announced => Announced'
  <1>1. TypeOK /\ Nth(clCache, clWatch, Len(clWatch)) = cl
    BY DEF BaseInv, Chains
  <1>2. cl' = o /\ clCache' = clCache /\ clWatch' = Append(clWatch, o)
    BY <1>1, WriteClusterType
  <1>3. Len(clWatch) \in Nat /\ Len(clWatch') = Len(clWatch) + 1
        /\ \A i \in 1..Len(clWatch) : clWatch'[i] = clWatch[i]
    BY <1>1, <1>2 DEF TypeOK
  <1>4. \A i \in 0..Len(clWatch) : i \in 0..Len(clWatch') /\ Nth(clCache', clWatch', i) = Nth(clCache, clWatch, i)
    BY <1>2, <1>3 DEF Nth
  <1>5. ASSUME ~Alike(cl, o)
        PROVE  Announced'
    <2>1. Len(clWatch) \in 0..Len(clWatch') /\ Nth(clCache', clWatch', Len(clWatch)) = cl
      BY <1>1, <1>3, <1>4
    <2>2. ~Alike(Nth(clCache', clWatch', Len(clWatch)), cl')
      BY <1>2, <1>5, <2>1
    <2> QED
      BY <2>1, <2>2 DEF Announced
  <1>6. ASSUME Alike(cl, o), Announced
        PROVE  Announced'
    <2>1. PICK i \in 0..Len(clWatch) : ~Alike(Nth(clCache, clWatch, i), cl)
      BY <1>6 DEF Announced
    <2>2. i \in 0..Len(clWatch') /\ Nth(clCache', clWatch', i) = Nth(clCache, clWatch, i)
      BY <1>4
    <2>3. ~Alike(Nth(clCache', clWatch', i), cl')
      BY <1>2, <1>6, <2>1, <2>2 DEF Alike
    <2> QED
      BY <2>2, <2>3 DEF Announced
  <1> QED
    BY <1>5, <1>6

\* When the cache catches up, an event that was announced queues the CR or is still to come.
LEMMA AnnouncedSync ==
    ASSUME BaseInv, ClusterSync, Announced
    PROVE  queued' \/ Announced'
  <1>1. clWatch # <<>> /\ clCache' = Head(clWatch) /\ clWatch' = Tail(clWatch) /\ cl' = cl
        /\ clWatch \in Seq(Cluster \cup {None})
    BY DEF ClusterSync, BaseInv, TypeOK
  <1>2. /\ Len(clWatch) \in Nat \ {0} /\ Head(clWatch) = clWatch[1]
        /\ Len(Tail(clWatch)) = Len(clWatch) - 1
        /\ \A i \in 1..(Len(clWatch) - 1) : Tail(clWatch)[i] = clWatch[i + 1]
    BY <1>1, TailFacts
  <1>3. PICK i \in 0..Len(clWatch) : ~Alike(Nth(clCache, clWatch, i), cl)
    BY DEF Announced
  <1>4. CASE i = 0
    <2>1. CASE Triggers(clCache, Head(clWatch))
      BY <2>1 DEF ClusterSync, Enqueue
    <2>2. CASE ~Triggers(clCache, Head(clWatch))
      <3>1. clCache # None /\ clCache' # None /\ clCache.force = clCache'.force
        BY <1>1, <2>2 DEF Triggers
      <3>2. ~Alike(clCache, cl)
        BY <1>3, <1>4 DEF Nth
      <3>3. ~Alike(clCache', cl')
        BY <1>1, <3>1, <3>2 DEF Alike
      <3>4. 0 \in 0..Len(clWatch')
        BY <1>1, <1>2
      <3>5. ~Alike(Nth(clCache', clWatch', 0), cl')
        BY <3>3 DEF Nth
      <3> QED
        BY <3>4, <3>5 DEF Announced
    <2> QED
      BY <2>1, <2>2
  <1>5. CASE i # 0
    <2>1. i - 1 \in 0..Len(clWatch') /\ i \in Nat
      BY <1>1, <1>2, <1>5
    <2>2. Nth(clCache', clWatch', i - 1) = clWatch[i]
      <3>1. CASE i = 1
        BY <1>1, <1>2, <3>1 DEF Nth
      <3>2. CASE i # 1
        <4>1. i - 1 \in 1..(Len(clWatch) - 1) /\ (i - 1) + 1 = i /\ i - 1 # 0
          BY <1>2, <1>5, <3>2
        <4>2. Tail(clWatch)[i - 1] = clWatch[i]
          BY <1>2, <4>1
        <4> QED
          BY <1>1, <4>1, <4>2 DEF Nth
      <3> QED
        BY <3>1, <3>2
    <2>3. ~Alike(clWatch[i], cl)
      BY <1>3, <1>5 DEF Nth
    <2>4. ~Alike(Nth(clCache', clWatch', i - 1), cl')
      BY <1>1, <2>2, <2>3
    <2> QED
      BY <2>1, <2>4 DEF Announced
  <1> QED
    BY <1>4, <1>5

\* Steps within a reconciliation of a CR that was there.
LEMMA WithinEvents ==
    ASSUME BaseInv, EventInv, UNCHANGED clVars, UNCHANGED Rest, queued' = queued,
           pc \notin {"idle", "delete_secret"}, pc' \notin {"idle", "delete_secret"},
           "seclag" \notin trouble => PersistIsBacked'
    PROVE  EventInv'
  <1>1. UNCHANGED cl /\ UNCHANGED clCache /\ trouble' = trouble /\ shoot' = shoot
    BY DEF clVars, Rest
  <1>2. clCache # None \/ queued
    BY DEF EventInv, Informed
  <1>3. Informed'
    BY <1>1, <1>2 DEF Informed
  <1>4. cl = None => queued \/ Announced
    BY <1>2, UnseenIsAnnounced DEF BaseInv
  <1>5. DeletionInv'
    BY <1>1, <1>4, AnnouncedSame DEF DeletionInv
  <1>6. ReadyInv'
    BY <1>1 DEF EventInv, ReadyInv, ShootThere, ReadyIsBacked
  <1> QED
    BY <1>3, <1>5, <1>6 DEF EventInv

\* A reconciliation that ends with the CR in the queue.
LEMMA RequeuedEvents ==
    ASSUME queued', pc' = "idle", "seclag" \notin trouble' => ShootThere'
    PROVE  EventInv'
  BY DEF EventInv, Informed, DeletionInv, ReadyInv, ReadyIsBacked, PersistIsBacked

LEMMA FetchEvents ==
    ASSUME BaseInv, EventInv, Fetch, UNCHANGED trouble
    PROVE  EventInv'
  <1>1. pc = "fetch" /\ UNCHANGED clVars /\ UNCHANGED secVars /\ UNCHANGED Rest /\ TypeOK /\ Memory /\ Cached
        /\ inst \in Cluster
    BY DEF Fetch, Rest, BaseInv, TypeOK
  <1>2. queued' = queued /\ pc' \notin {"idle", "delete_secret"}
    BY DEF Fetch, PersistAnd, Goto, queueVars
  <1>3. ASSUME "seclag" \notin trouble
        PROVE  PersistIsBacked'
    <2>1. copy = sec /\ sec' = sec /\ cl' = cl
      BY <1>1, <1>3 DEF Memory, Cached, secVars, clVars
    <2>2. CASE ~overdue(copy, start)
      <3>1. copy # None /\ copy.sync # None
        BY <1>1, <2>2, NextRequeueFacts
      <3>2. sec.data # None
        BY <2>1, <3>1 DEF BaseInv, SyncNotAfterIssue
      <3> QED
        BY <2>1, <3>1, <3>2 DEF PersistIsBacked, HasKubeconfig
    <2>3. CASE ~shoot /\ PersistAnd("stop", "Error")
      <3>1. inst'.state = "Error" /\ res' = "stop"
        BY <1>1, <2>3 DEF PersistAnd, Cluster
      <3>2. cl = None
        BY <1>3, <2>3 DEF EventInv, ReadyInv, ShootThere
      <3> QED
        BY <2>1, <3>1, <3>2 DEF PersistIsBacked
    <2>4. CASE PersistAnd("error", "Error")
      BY <2>4 DEF PersistAnd, PersistIsBacked
    <2>5. CASE pc' # "persist"
      BY <2>5 DEF PersistIsBacked
    <2> QED
      BY <2>2, <2>3, <2>4, <2>5 DEF Fetch, secretNeedsToBeRotated, Goto
  <1> QED
    BY <1>1, <1>2, <1>3, WithinEvents

\* An Update that fails with the Secret in the cache being the stored one is repeated.
LEMMA UpdateFailsEvents ==
    ASSUME BaseInv, UNCHANGED secVars, "seclag" \notin trouble,
           pc \in {"remove_kubeconfig", "update_secret"}, copy # None,
           \/ sec = None /\ PersistAnd("stop", "Error")
           \/ PersistAnd("error", "Error")
    PROVE  PersistIsBacked'
  <1>1. copy = sec
    BY DEF BaseInv, Memory, Cached
  <1> QED
    BY <1>1 DEF PersistAnd, PersistIsBacked

LEMMA RemoveKubeconfigEvents ==
    ASSUME BaseInv, EventInv, removeKubeconfig, UNCHANGED trouble
    PROVE  EventInv'
  <1>1. pc = "remove_kubeconfig" /\ UNCHANGED clVars /\ UNCHANGED Rest
    BY DEF removeKubeconfig, Rest
  <1>2. queued' = queued /\ pc' \notin {"idle", "delete_secret"}
    BY DEF removeKubeconfig, UpdateSecret, PersistAnd, Goto, queueVars
  <1>3. ASSUME "seclag" \notin trouble
        PROVE  PersistIsBacked'
    <2>1. CASE pc' = "remove_annotation"
      BY <2>1 DEF PersistIsBacked
    <2>2. CASE /\ copy # None /\ UNCHANGED secVars
               /\ (sec = None /\ PersistAnd("stop", "Error")) \/ PersistAnd("error", "Error")
      BY <1>1, <1>3, <2>2, UpdateFailsEvents
    <2> QED
      BY <2>1, <2>2 DEF removeKubeconfig, UpdateSecret, Goto
  <1> QED
    BY <1>1, <1>2, <1>3, WithinEvents

LEMMA WriteEvents ==
    ASSUME BaseInv, EventInv, updateExistingSecret \/ createNewSecret, UNCHANGED trouble
    PROVE  EventInv'
  <1>1. pc \in {"update_secret", "create_secret"} /\ UNCHANGED clVars /\ UNCHANGED Rest /\ TypeOK /\ Memory
    BY DEF updateExistingSecret, createNewSecret, Rest, BaseInv
  <1>2. queued' = queued /\ pc' \notin {"idle", "delete_secret"}
    BY DEF updateExistingSecret, createNewSecret, UpdateSecret, PersistAnd, Goto, queueVars
  <1>3. ASSUME "seclag" \notin trouble
        PROVE  PersistIsBacked'
    <2>1. CASE WriteSecret(newSync)
      <3>1. HasKubeconfig'
        BY <1>1, <2>1, WrittenFits DEF WriteSecret
      <3> QED
        BY <3>1 DEF PersistIsBacked
    <2>2. CASE updateExistingSecret /\ newSync = copy /\ secFresh /\ UNCHANGED secVars
      <3>1. sec' = sec /\ sec = copy
        BY <1>1, <2>2 DEF updateExistingSecret, Memory, secVars
      <3>2. HasKubeconfig'
        BY <1>1, <2>2, <3>1, WrittenFits
      <3> QED
        BY <3>2 DEF PersistIsBacked
    <2>3. CASE /\ pc = "update_secret" /\ UNCHANGED secVars
               /\ (sec = None /\ PersistAnd("stop", "Error")) \/ PersistAnd("error", "Error")
      <3>1. copy # None
        BY <1>1, <2>3 DEF Memory
      <3> QED
        BY <1>1, <1>3, <2>3, <3>1, UpdateFailsEvents
    <2>4. CASE PersistAnd("error", "Error")
      BY <2>4 DEF PersistAnd, PersistIsBacked
    <2> QED
      BY <2>1, <2>2, <2>3, <2>4 DEF updateExistingSecret, createNewSecret, UpdateSecret
  <1> QED
    BY <1>1, <1>2, <1>3, WithinEvents

LEMMA ReconcileEvents ==
    ASSUME BaseInv, EventInv, Reconcile, UNCHANGED trouble
    PROVE  EventInv'
  <1>1. UNCHANGED clVars /\ UNCHANGED secVars /\ UNCHANGED Rest /\ TypeOK
    BY DEF Reconcile, Rest, BaseInv
  <1>2. UNCHANGED cl /\ UNCHANGED clCache /\ UNCHANGED sec /\ shoot' = shoot /\ trouble' = trouble
    BY <1>1 DEF clVars, secVars, Rest
  <1>3. (clCache = None /\ pc' = "delete_secret") \/ (clCache # None /\ pc' = "fetch")
    BY DEF Reconcile, Goto
  <1>4. Informed'
    BY <1>2, <1>3 DEF Informed
  <1>5. DeletionInv'
    <2>1. cl = None /\ clCache # None => Announced'
      BY <1>1, UnseenIsAnnounced, AnnouncedSame
    <2> QED
      BY <1>2, <1>3, <2>1 DEF DeletionInv
  <1>6. ReadyInv'
    BY <1>2, <1>3 DEF EventInv, ReadyInv, ShootThere, ReadyIsBacked, PersistIsBacked
  <1> QED
    BY <1>4, <1>5, <1>6 DEF EventInv

LEMMA DeleteSecretEvents ==
    ASSUME BaseInv, EventInv, deleteKubeconfigSecret, UNCHANGED trouble
    PROVE  EventInv'
  <1>1. pc = "delete_secret" /\ UNCHANGED clVars /\ UNCHANGED Rest /\ TypeOK /\ Chains /\ Cached
    BY DEF deleteKubeconfigSecret, Rest, BaseInv
  <1>2. UNCHANGED cl /\ shoot' = shoot /\ trouble' = trouble
    BY <1>1 DEF clVars, Rest
  <1>3. "seclag" \notin trouble => ShootThere'
    BY <1>2 DEF EventInv, ReadyInv, ShootThere
  <1>4. CASE Return("error")
    BY <1>2, <1>3, <1>4, RequeuedEvents DEF Return
  <1>5. CASE /\ Return("stop")
             /\ \/ secCache = None /\ UNCHANGED secVars
                \/ WriteSecret(None)
    <2>1. pc' = "idle" /\ queued' = queued
      BY <1>1, <1>5 DEF Return, TypeOK
    <2>2. Informed'
      BY <2>1 DEF Informed
    <2>3. "seclag" \notin trouble => sec' = None
      <3>1. "seclag" \notin trouble => secCache = sec
        BY <1>1 DEF Cached, Chains, Nth
      <3> QED
        BY <1>5, <3>1 DEF WriteSecret, secVars
    <2>4. DeletionInv'
      BY <1>2, <2>3 DEF DeletionInv
    <2>5. "seclag" \notin trouble => ReadyIsBacked'
      <3>1. clCache = None \/ queued
        BY <1>1 DEF EventInv, Informed
      <3>2. cl # None => queued \/ Announced'
        BY <1>1, <3>1, UnseenIsAnnounced, AnnouncedSame
      <3> QED
        BY <1>2, <2>1, <3>2 DEF ReadyIsBacked
    <2>6. PersistIsBacked'
      BY <2>1 DEF PersistIsBacked
    <2> QED
      BY <1>2, <1>3, <2>2, <2>4, <2>5, <2>6 DEF EventInv, ReadyInv
  <1> QED
    BY <1>4, <1>5 DEF deleteKubeconfigSecret

LEMMA RemoveAnnotationEvents ==
    ASSUME BaseInv, EventInv, removeForceRotationAnnotation, UNCHANGED trouble
    PROVE  EventInv'
  <1>1. pc = "remove_annotation" /\ UNCHANGED secVars /\ UNCHANGED Rest /\ TypeOK /\ Memory /\ Chains
    BY DEF removeForceRotationAnnotation, Rest, BaseInv
  <1>2. shoot' = shoot /\ trouble' = trouble /\ UNCHANGED sec
    BY <1>1 DEF Rest, secVars
  <1>3. CASE Return("error") /\ UNCHANGED clVars
    <2>1. "seclag" \notin trouble => ShootThere'
      BY <1>2, <1>3 DEF EventInv, ReadyInv, ShootThere, clVars
    <2> QED
      BY <1>2, <1>3, <2>1, RequeuedEvents DEF Return
  <1>4. CASE /\ clCache # None /\ clWatch = <<>>
             /\ IF [clCache EXCEPT !.force = FALSE] = clCache
                THEN UNCHANGED <<clVars, fresh>>
                ELSE WriteCluster([clCache EXCEPT !.force = FALSE]) /\ fresh' = FALSE
             /\ res' = "requeue" /\ Goto("persist")
             /\ UNCHANGED <<queueVars, inst, copy, secFresh, start, fetched>>
    <2>1. pc' = "persist" /\ res' = "requeue" /\ queued' = queued
      BY <1>4 DEF Goto, queueVars
    <2>2. cl = clCache /\ cl # None /\ cl \in Cluster
      BY <1>1, <1>4 DEF Chains, Nth, TypeOK
    <2>3. [clCache EXCEPT !.force = FALSE] # None /\ [clCache EXCEPT !.force = FALSE].force = FALSE
      BY <2>2, NoneAssumption DEF NoneAssumption, Cluster
    <2>4. cl' # None /\ clCache' = clCache
      BY <1>4, <2>2, <2>3 DEF clVars, WriteCluster
    <2>5. ~fresh'
      <3>1. CASE [clCache EXCEPT !.force = FALSE] = clCache
        <4>1. cl.force = FALSE /\ inst.force /\ fresh' = fresh
          BY <1>1, <1>4, <2>2, <2>3, <3>1 DEF Memory
        <4>2. fresh => Alike(cl, inst) /\ inst # None
          BY <1>1, <2>2 DEF Memory, Alike
        <4> QED
          BY <2>2, <4>1, <4>2 DEF Alike
      <3>2. CASE [clCache EXCEPT !.force = FALSE] # clCache
        BY <1>4, <3>2
      <3> QED
        BY <3>1, <3>2
    <2>6. Informed'
      BY <1>4, <2>1, <2>4 DEF Informed
    <2>7. DeletionInv'
      BY <2>4 DEF DeletionInv
    <2>8. ReadyInv'
      BY <1>2, <2>1, <2>2, <2>4, <2>5 DEF EventInv, ReadyInv, ShootThere, ReadyIsBacked, PersistIsBacked
    <2> QED
      BY <2>6, <2>7, <2>8 DEF EventInv
  <1> QED
    BY <1>3, <1>4 DEF removeForceRotationAnnotation

LEMMA PersistStatusEvents ==
    ASSUME BaseInv, EventInv, persistStatusChange, UNCHANGED trouble
    PROVE  EventInv'
  <1>1. pc = "persist" /\ UNCHANGED secVars /\ UNCHANGED Rest /\ TypeOK /\ Memory /\ inst \in Cluster
        /\ res \in Results
    BY DEF persistStatusChange, Rest, BaseInv, TypeOK
  <1>2. shoot' = shoot /\ trouble' = trouble /\ UNCHANGED sec
    BY <1>1 DEF Rest, secVars
  <1>3. pc' = "idle" /\ (queued => queued')
    BY DEF persistStatusChange, Return
  <1>4. Informed' /\ PersistIsBacked'
    BY <1>3 DEF Informed, PersistIsBacked
  <1>5. CASE fresh /\ WriteCluster([cl EXCEPT !.state = inst.state]) /\ Return(res)
    <2>1. cl # None /\ cl \in Cluster /\ inst.state \in {"", "Ready", "Error"}
      BY <1>1, <1>5, ClusterFields DEF Memory, Alike, TypeOK, Cluster
    <2>2. /\ [cl EXCEPT !.state = inst.state] \in Cluster /\ [cl EXCEPT !.state = inst.state] # None
          /\ [cl EXCEPT !.state = inst.state].state = inst.state
      BY <2>1, NoneAssumption DEF NoneAssumption, Cluster
    <2>3. cl' # None /\ cl'.state = inst.state
      BY <1>5, <2>2 DEF WriteCluster
    <2>4. DeletionInv'
      BY <2>3 DEF DeletionInv
    <2>5. ASSUME "seclag" \notin trouble
          PROVE  ShootThere' /\ ReadyIsBacked'
      <3>1. ShootThere'
        BY <1>2, <2>1, <2>5 DEF EventInv, ReadyInv, ShootThere
      <3>2. HasKubeconfig \/ res = "error" \/ inst.state = "Error"
        BY <1>1, <1>5, <2>5 DEF EventInv, ReadyInv, PersistIsBacked
      <3>3. res = "error" => queued'
        BY <1>5 DEF Return
      <3> QED
        BY <1>2, <2>3, <3>1, <3>2, <3>3 DEF ReadyIsBacked, HasKubeconfig
    <2> QED
      BY <1>2, <1>4, <2>4, <2>5 DEF EventInv, ReadyInv
  <1>6. CASE UNCHANGED clVars /\ Return(IF res = "requeue" THEN "error" ELSE res)
    <2>1. UNCHANGED cl /\ Announced' = Announced
      BY <1>6, AnnouncedSame DEF clVars
    <2>2. res \in {"requeue", "error"} => queued'
      BY <1>6 DEF Return
    <2>3. DeletionInv'
      BY <1>1, <1>2, <1>3, <2>1 DEF EventInv, DeletionInv
    <2>4. "seclag" \notin trouble => ShootThere' /\ ReadyIsBacked'
      BY <1>1, <1>2, <2>1, <2>2 DEF EventInv, ReadyInv, ShootThere, ReadyIsBacked, PersistIsBacked, HasKubeconfig
    <2> QED
      BY <1>2, <1>4, <2>3, <2>4 DEF EventInv, ReadyInv
  <1> QED
    BY <1>5, <1>6 DEF persistStatusChange

LEMMA ClusterSyncEvents ==
    ASSUME BaseInv, EventInv, ClusterSync, UNCHANGED trouble
    PROVE  EventInv'
  <1>1. /\ clCache' = Head(clWatch) /\ cl' = cl /\ sec' = sec
        /\ UNCHANGED <<shoot, trouble, pc, inst, fresh, res>>
    BY DEF ClusterSync, memVars, secVars
  <1>2. (queued => queued') /\ (Announced => queued' \/ Announced')
    <2>1. queued => queued'
      BY DEF ClusterSync, Enqueue
    <2> QED
      BY <2>1, AnnouncedSync
  <1>3. (clCache = None \/ clCache' = None) => queued'
    BY <1>1 DEF ClusterSync, Triggers, Enqueue
  <1>4. Informed'
    BY <1>1, <1>2, <1>3 DEF EventInv, Informed
  <1>5. DeletionInv'
    BY <1>1, <1>2 DEF EventInv, DeletionInv
  <1>6. "seclag" \notin trouble => ShootThere' /\ ReadyIsBacked' /\ PersistIsBacked'
    BY <1>1, <1>2 DEF EventInv, ReadyInv, ShootThere, ReadyIsBacked, PersistIsBacked, HasKubeconfig
  <1> QED
    BY <1>1, <1>4, <1>5, <1>6 DEF EventInv, ReadyInv

LEMMA UserEvents ==
    ASSUME BaseInv, EventInv, NEW o \in Cluster \cup {None}, UserWrite(o), UNCHANGED secVars, ~Alike(cl, o),
           UNCHANGED <<shoot, trouble>>, UNCHANGED queueVars, UNCHANGED <<pc, inst, res>>,
           o # None => shoot, cl # None /\ o # None => o.state = cl.state, cl = None /\ o # None => o.state = ""
    PROVE  EventInv'
  <1>1. WriteCluster(o) /\ fresh' = FALSE
    BY DEF UserWrite
  <1>2. Announced' /\ cl' = o /\ clCache' = clCache /\ sec' = sec /\ queued' = queued
    BY <1>1, AnnouncedWrite DEF WriteCluster, secVars, queueVars
  <1>3. Informed' /\ DeletionInv'
    BY <1>2 DEF EventInv, Informed, DeletionInv
  <1>4. "seclag" \notin trouble => ShootThere' /\ ReadyIsBacked' /\ PersistIsBacked'
    BY <1>1, <1>2 DEF EventInv, ReadyInv, ShootThere, ReadyIsBacked, PersistIsBacked, HasKubeconfig
  <1> QED
    BY <1>3, <1>4 DEF EventInv, ReadyInv

LEMMA ForceEvents ==
    ASSUME BaseInv, EventInv, ForceRotation, UNCHANGED trouble
    PROVE  EventInv'
  <1>1. cl \in Cluster /\ cl # None /\ ~cl.force
    BY DEF ForceRotation, BaseInv, TypeOK
  <1> DEFINE o == [cl EXCEPT !.force = TRUE]
  <1>2. o \in Cluster /\ o # None /\ o.state = cl.state /\ o.force
    BY <1>1, NoneAssumption DEF NoneAssumption, Cluster
  <1>3. UserWrite(o) /\ UNCHANGED secVars /\ UNCHANGED queueVars /\ UNCHANGED <<shoot, trouble>>
        /\ UNCHANGED <<pc, inst, res>>
    BY DEF ForceRotation
  <1> HIDE DEF o
  <1>4. ~Alike(cl, o)
    BY <1>1, <1>2 DEF Alike
  <1>5. CASE shoot
    BY <1>1, <1>2, <1>3, <1>4, <1>5, UserEvents
  <1>6. CASE ~shoot
    <2>1. "seclag" \in trouble
      BY <1>1, <1>6 DEF EventInv, ReadyInv, ShootThere
    <2>2. cl' = o /\ clCache' = clCache /\ queued' = queued /\ trouble' = trouble
      BY <1>3 DEF UserWrite, WriteCluster, queueVars
    <2> QED
      BY <1>2, <1>3, <2>1, <2>2 DEF EventInv, Informed, DeletionInv, ReadyInv
  <1> QED
    BY <1>5, <1>6

LEMMA DeleteOrCreateEvents ==
    ASSUME BaseInv, EventInv, DeleteOrCreate, UNCHANGED trouble
    PROVE  EventInv'
  <1> DEFINE o == IF cl = None THEN NewCluster ELSE None
  <1>1. NewCluster \in Cluster /\ NewCluster # None /\ NewCluster.state = ""
    BY NewClusterFacts
  <1>2. o \in Cluster \cup {None} /\ (cl = None <=> o # None) /\ (o # None => o.state = "" /\ shoot)
    BY <1>1 DEF DeleteOrCreate
  <1>3. UserWrite(o) /\ UNCHANGED secVars /\ UNCHANGED queueVars /\ UNCHANGED <<shoot, trouble>>
        /\ UNCHANGED <<pc, inst, res>>
    BY DEF DeleteOrCreate
  <1> HIDE DEF o
  <1>4. ~Alike(cl, o)
    BY <1>2 DEF Alike
  <1> QED
    BY <1>2, <1>3, <1>4, UserEvents

\* Steps that take nothing from the queue.
LEMMA OutsideEvents ==
    ASSUME EventInv, UNCHANGED clVars, sec' = sec, UNCHANGED <<trouble, pc>>, UNCHANGED memVars,
           queued => queued', shoot' = shoot \/ cl = None
    PROVE  EventInv'
  <1>1. UNCHANGED cl /\ UNCHANGED clCache /\ Announced' = Announced /\ UNCHANGED <<inst, fresh, res>>
    BY AnnouncedSame DEF clVars, memVars
  <1>2. Informed' /\ DeletionInv'
    BY <1>1 DEF EventInv, Informed, DeletionInv
  <1>3. "seclag" \notin trouble => ShootThere' /\ ReadyIsBacked' /\ PersistIsBacked'
    BY <1>1 DEF EventInv, ReadyInv, ShootThere, ReadyIsBacked, PersistIsBacked, HasKubeconfig
  <1> QED
    BY <1>2, <1>3 DEF EventInv, ReadyInv

LEMMA ElseEvents ==
    ASSUME EventInv, SecretSync \/ ShootChanges \/ TimerFires \/ Tick \/ UNCHANGED vars, UNCHANGED trouble
    PROVE  EventInv'
  <1>1. UNCHANGED clVars /\ sec' = sec /\ UNCHANGED <<trouble, pc>> /\ UNCHANGED memVars
    BY DEF SecretSync, ShootChanges, TimerFires, Tick, vars, secVars
  <1>2. (queued => queued') /\ (shoot' = shoot \/ cl = None)
    BY DEF SecretSync, ShootChanges, TimerFires, Tick, vars, queueVars, Enqueue
  <1> QED
    BY <1>1, <1>2, OutsideEvents

LEMMA RestartEvents ==
    ASSUME BaseInv, EventInv, Restart, UNCHANGED trouble
    PROVE  EventInv'
  <1>1. pc' = "idle" /\ queued' = (cl # None) /\ UNCHANGED <<cl, sec, shoot, trouble>> /\ "restart" \in trouble
    BY DEF Restart
  <1>2. Informed' /\ DeletionInv' /\ PersistIsBacked'
    BY <1>1 DEF Informed, DeletionInv, PersistIsBacked
  <1>3. "seclag" \notin trouble => ShootThere' /\ ReadyIsBacked'
    BY <1>1 DEF EventInv, ReadyInv, ShootThere, ReadyIsBacked
  <1> QED
    BY <1>1, <1>2, <1>3 DEF EventInv, ReadyInv

LEMMA InitEvents ==
    ASSUME Init
    PROVE  EventInv
  <1>1. cl # None /\ cl.state = "" /\ shoot /\ pc = "idle"
    BY NewClusterFacts DEF Init
  <1> QED
    BY <1>1 DEF EventInv, Informed, DeletionInv, ReadyInv, ShootThere, ReadyIsBacked, PersistIsBacked

\* As long as the CR on the API server differs from one a reconciliation started for,
\* the CR is queued or an event that will queue it is under way.
THEOREM EventInvariance == Spec => [](BaseInv /\ EventInv)
  <1>1. Init => EventInv
    BY InitEvents
  <1>2. BaseInv /\ EventInv /\ [Next]_vars => EventInv'
    <2>1. ASSUME EventInv, UNCHANGED vars
          PROVE  EventInv'
      <3>1. UNCHANGED trouble
        BY <2>1 DEF vars
      <3> QED
        BY <2>1, <3>1, ElseEvents
    <2> QED
      BY <2>1, ReconcileEvents, DeleteSecretEvents, FetchEvents, RemoveKubeconfigEvents, WriteEvents,
         RemoveAnnotationEvents, PersistStatusEvents, ClusterSyncEvents, ForceEvents, DeleteOrCreateEvents,
         ElseEvents, RestartEvents DEF Next, ReconcileStep
  <1> QED
    BY <1>1, <1>2, RotationInvariance, PTL DEF Spec

\* Nothing under way means nothing announced.
LEMMA QuietKnows ==
    ASSUME BaseInv, Quiet
    PROVE  ~Announced /\ ~queued /\ pc = "idle"
  <1>1. clWatch = <<>> /\ clCache = cl
    BY DEF Quiet, BaseInv, Chains, Nth
  <1>2. \A i \in 0..Len(clWatch) : Nth(clCache, clWatch, i) = cl
    BY <1>1 DEF Nth
  <1>3. Alike(cl, cl)
    BY DEF Alike
  <1> QED
    BY <1>2, <1>3 DEF Announced, Quiet

\* The Secret goes with its CR, also when the CR is deleted while a reconciliation is
\* about to create the Secret, and though calls fail: the event of the deletion is
\* under way or has queued the CR until deleteKubeconfigSecret has succeeded.
THEOREM SecretGoesWithClusterAlways == Spec => []SecretGoesWithCluster
  <1>1. BaseInv /\ EventInv => SecretGoesWithCluster
    BY QuietKnows DEF EventInv, DeletionInv, SecretGoesWithCluster
  <1> QED
    BY <1>1, EventInvariance, PTL

\* A CR that is Ready and left alone has a kubeconfig: whatever empties the Secret
\* ends in another reconciliation before the CR comes to rest.
THEOREM ReadyHasKubeconfigAlways == Spec => []ReadyHasKubeconfig
  <1>1. BaseInv /\ EventInv => ReadyHasKubeconfig
    BY QuietKnows DEF EventInv, ReadyInv, ReadyIsBacked, HasKubeconfig, ReadyHasKubeconfig
  <1> QED
    BY <1>1, EventInvariance, PTL

-----------------------------------------------------------------------------
(* Time: the kubeconfig is replaced before it expires.                       *)

LEMMA LateFacts ==
    ASSUME TypeOK
    PROVE  /\ Late \in Nat /\ Threshold + Timeout <= Late
           /\ Late + Timeout + Slack < Expiration
  <1> DEFINE X == Timeout + Slack
  <1>1. X \in Nat /\ restarts \in Nat /\ restarts <= MaxRestarts
    BY Durations DEF TypeOK
  <1>2. X = Timeout + Slack
    OBVIOUS
  <1> HIDE DEF X
  <1>3. PICK d \in Nat : MaxRestarts = restarts + d
    <2>1. MaxRestarts - restarts \in Nat /\ MaxRestarts = restarts + (MaxRestarts - restarts)
      BY <1>1, Durations
    <2> QED
      BY <2>1
  <1>4. MaxRestarts * X = restarts * X + d * X
    BY <1>1, <1>3
  <1>5. restarts * X \in Nat /\ d * X \in Nat
    BY <1>1
  <1>6. restarts * X <= MaxRestarts * X
    BY <1>4, <1>5
  <1>7. Late = Threshold + Timeout + restarts * X
    BY <1>2 DEF Late
  <1>8. Threshold + 2 * Timeout + Slack + MaxRestarts * X < Expiration /\ MaxRestarts * X \in Nat
    BY <1>1, <1>2, Durations
  <1> QED
    BY <1>5, <1>6, <1>7, <1>8, Durations

\* A restart costs at most another wait for a worker and another reconciliation.
LEMMA LateAfterRestart ==
    ASSUME TypeOK, restarts' = restarts + 1
    PROVE  Late' = Late + Timeout + Slack
  <1> DEFINE X == Timeout + Slack
  <1>1. X \in Nat /\ restarts \in Nat
    BY Durations DEF TypeOK
  <1>2. X = Timeout + Slack
    OBVIOUS
  <1> HIDE DEF X
  <1>3. (restarts + 1) * X = restarts * X + X /\ restarts * X \in Nat
    BY <1>1
  <1>4. Late = Threshold + Timeout + restarts * X /\ Late' = Threshold + Timeout + (restarts + 1) * X
    BY <1>2 DEF Late
  <1> QED
    BY <1>1, <1>2, <1>3, <1>4, Durations

Numbers ==
    /\ now \in Nat /\ since \in Nat /\ start \in Nat /\ start <= now
    /\ timer # None => timer \in Nat
    /\ Began \in Nat /\ Began <= now
    /\ HasKubeconfig => sec.data.at \in Nat

LEMMA NumberTypes ==
    ASSUME BaseInv
    PROVE  Numbers
  <1>1. now \in Nat /\ since \in Nat /\ start \in Nat /\ start <= now /\ timer \in Nat \cup {None}
        /\ sec \in Secret \cup {None}
    BY Durations DEF BaseInv, TypeOK, Memory, Time
  <1>2. HasKubeconfig => sec.data.at \in Nat
    <2>1. HasKubeconfig => sec \in Secret /\ sec.data \in Kubeconfig
      BY <1>1, SecretFields DEF HasKubeconfig
    <2> QED
      BY <2>1, KubeconfigFields
  <1> QED
    BY <1>1, <1>2 DEF Numbers, Began

LEMMA VersionsType ==
    ASSUME BaseInv, NEW v \in Versions, v # None, v.sync # None
    PROVE  v.sync \in Nat
  <1>1. v \in Secret
    BY DEF BaseInv, TypeOK, Versions
  <1> QED
    BY <1>1, SecretFields

LEMMA VersionsSame ==
    ASSUME UNCHANGED <<sec, secCache, secWatch>>, copy' = copy \/ copy' = None \/ copy' = secCache
    PROVE  Versions' \subseteq Versions \cup {None}
  BY DEF Versions

\* Steps that leave the Secret as it is.
LEMMA PastKept ==
    ASSUME BaseInv, Past, Older, sec' = sec, Versions' \subseteq Versions \cup {None},
           Began' \in Nat, Began <= Began'
    PROVE  Past' /\ Older'
  <1>1. \A v \in Versions' : v # None => v \in Versions
    OBVIOUS
  <1>2. Began \in Nat
    BY NumberTypes DEF Numbers
  <1>3. ASSUME NEW v \in Versions', v # None, v.sync # None
        PROVE  v.sync <= Began'
    <2>1. v \in Versions
      BY <1>1, <1>3
    <2>2. v.sync \in Nat /\ v.sync <= Began
      BY <1>3, <2>1, VersionsType DEF Past
    <2> QED
      BY <1>2, <2>2
  <1>4. Older'
    BY <1>1 DEF Older, HasKubeconfig
  <1> QED
    BY <1>3, <1>4 DEF Past

\* How old a kubeconfig may be at any moment.
LEMMA AgeBound ==
    ASSUME BaseInv, Scheduled, Aging, HasKubeconfig
    PROVE  now <= sec.data.at + Late + Timeout + Slack
  <1>1. /\ now \in Nat /\ since \in Nat /\ start \in Nat /\ (timer # None => timer \in Nat)
        /\ sec.data.at \in Nat
    BY NumberTypes DEF Numbers
  <1>2. Late \in Nat /\ Threshold + Timeout <= Late /\ Timeout \in Nat /\ Slack \in Nat /\ Threshold \in Nat
    BY LateFacts, Durations DEF BaseInv
  <1>3. CASE pc # "idle"
    <2>1. now <= start + Timeout /\ start <= sec.data.at + Late + Slack
      BY <1>3 DEF Scheduled, Aging
    <2> QED
      BY <1>1, <1>2, <2>1
  <1>4. CASE pc = "idle" /\ queued
    <2>1. now <= since + Slack /\ since <= sec.data.at + Late
      BY <1>4 DEF Scheduled, Aging
    <2> QED
      BY <1>1, <1>2, <2>1
  <1>5. CASE pc = "idle" /\ ~queued
    <2>1. timer # None /\ now <= timer /\ timer <= sec.data.at + Threshold + Timeout
      BY <1>5 DEF Scheduled, Aging
    <2> QED
      BY <1>1, <1>2, <2>1
  <1> QED
    BY <1>3, <1>4, <1>5

-----------------------------------------------------------------------------

LEMMA StaysKept ==
    ASSUME Stays, UNCHANGED clVars, shoot' = shoot
    PROVE  Stays'
  <1>1. UNCHANGED cl /\ UNCHANGED clCache /\ UNCHANGED clWatch
    BY DEF clVars
  <1> QED
    BY <1>1 DEF Stays

LEMMA StaysWritten ==
    ASSUME BaseInv, Stays, NEW o \in Cluster, WriteCluster(o), shoot' = shoot
    PROVE  Stays'
  <1>1. cl' = o /\ clCache' = clCache /\ clWatch' = Append(clWatch, o) /\ o # None
        /\ clWatch \in Seq(Cluster \cup {None})
    BY WriteClusterType, ClusterFields DEF BaseInv, TypeOK
  <1>2. Len(clWatch) \in Nat /\ Len(clWatch') = Len(clWatch) + 1 /\ clWatch'[Len(clWatch) + 1] = o
        /\ \A i \in 1..Len(clWatch) : clWatch'[i] = clWatch[i]
    BY <1>1
  <1>3. ASSUME NEW i \in 1..Len(clWatch')
        PROVE  clWatch'[i] # None
    <2>1. i \in 1..Len(clWatch) \/ i = Len(clWatch) + 1
      BY <1>2
    <2> QED
      BY <1>1, <1>2, <2>1 DEF Stays
  <1> QED
    BY <1>1, <1>3 DEF Stays

\* A reconciliation that ends in an error has not taken long since its kubeconfig was
\* young enough.
LEMMA ReturnErrorTimely ==
    ASSUME BaseInv, Timely, Return("error"), UNCHANGED secVars, UNCHANGED Rest,
           pc \in {"remove_annotation", "persist"}
    PROVE  SecretStays' /\ Scheduled' /\ Past' /\ Older' /\ Aging'
  <1>1. /\ pc' = "idle" /\ copy' = None /\ queued' = TRUE /\ since' = now /\ timer' = timer
        /\ now' = now /\ restarts' = restarts
    BY DEF Return, Rest
  <1>2. UNCHANGED <<sec, secCache, secWatch>>
    BY DEF secVars
  <1>3. Numbers /\ Late \in Nat /\ Threshold + Timeout <= Late /\ Timeout \in Nat /\ Slack \in Nat /\ Threshold \in Nat
    BY NumberTypes, LateFacts, Durations DEF BaseInv
  <1>4. Late' = Late /\ Began' = now /\ Began = start
    BY <1>1 DEF Late, Began
  <1>5. SecretStays'
    BY <1>1, <1>2 DEF Timely, SecretStays
  <1>6. Past' /\ Older'
    BY <1>1, <1>2, <1>3, <1>4, VersionsSame, PastKept DEF Timely, Numbers
  <1>7. Scheduled'
    <2>1. now <= now + Slack
      BY <1>3 DEF Numbers
    <2>2. timer # None => now <= timer /\ timer <= now + Threshold + Timeout
      <3>1. timer # None => now <= timer /\ timer <= start + Threshold + Timeout
        BY <1>4 DEF Timely, Scheduled
      <3> QED
        BY <1>3, <3>1 DEF Numbers
    <2> QED
      BY <1>1, <1>4, <2>1, <2>2 DEF Scheduled
  <1>8. Aging'
    <2> SUFFICES ASSUME HasKubeconfig
                 PROVE  Aging'
      BY <1>2 DEF Aging, HasKubeconfig
    <2>1. /\ timer # None => timer <= sec.data.at + Threshold + Timeout
          /\ start <= sec.data.at + Threshold /\ now <= start + Timeout
          /\ secWatch # <<>> => now <= sec.data.at + Timeout
      BY DEF Timely, Scheduled, Aging
    <2>2. now <= sec.data.at + Late
      BY <1>3, <2>1 DEF Numbers
    <2> QED
      BY <1>1, <1>2, <1>4, <2>1, <2>2 DEF Aging
  <1> QED
    BY <1>5, <1>6, <1>7, <1>8

\* Steps within a reconciliation that leave the Secret as it is.
LEMMA WithinTimely ==
    ASSUME BaseInv, Timely, UNCHANGED secVars, UNCHANGED Rest, UNCHANGED queueVars, Stays',
           UNCHANGED <<copy, secFresh, start>>,
           pc \notin {"idle", "delete_secret"}, pc' \notin {"idle", "delete_secret"},
           pc' = "persist" => res' # "stop",
           HasKubeconfig /\ pc' \in {"remove_annotation", "persist"} => start <= sec.data.at + Threshold,
           HasKubeconfig /\ pc' = "persist" /\ res' = "requeue" /\ fresh' /\ overdue(copy, start)
             => start <= sec.data.at
    PROVE  Timely'
  <1>1. UNCHANGED <<sec, secCache, secWatch>> /\ UNCHANGED <<queued, since, timer>>
        /\ now' = now /\ restarts' = restarts
    BY DEF secVars, queueVars, Rest
  <1>2. Late' = Late /\ Began' = start /\ Began = start /\ overdue(copy, start)' = overdue(copy, start)
    BY <1>1 DEF Late, Began, overdue
  <1>3. Numbers
    BY NumberTypes
  <1>4. SecretStays'
    BY <1>1 DEF Timely, SecretStays
  <1>5. Past' /\ Older'
    BY <1>1, <1>2, <1>3, VersionsSame, PastKept DEF Timely, Numbers
  <1>6. Scheduled'
    BY <1>1, <1>2 DEF Timely, Scheduled
  <1>7. Aging'
    <2> SUFFICES ASSUME HasKubeconfig
                 PROVE  Aging'
      BY <1>1 DEF Aging, HasKubeconfig
    <2>1. /\ timer # None => timer <= sec.data.at + Threshold + Timeout
          /\ start <= sec.data.at + Late + Slack
          /\ secWatch # <<>> => now <= sec.data.at + Timeout
          /\ ~secFresh => start <= sec.data.at + Timeout
      BY DEF Timely, Aging
    <2> QED
      BY <1>1, <1>2, <2>1 DEF Aging
  <1> QED
    BY <1>4, <1>5, <1>6, <1>7 DEF Timely

LEMMA FetchTimely ==
    ASSUME BaseInv, Timely, Calm, Fetch, UNCHANGED trouble
    PROVE  Timely'
  <1>1. pc = "fetch" /\ UNCHANGED clVars /\ UNCHANGED secVars /\ UNCHANGED Rest /\ TypeOK
    BY DEF Fetch, Rest, BaseInv
  <1>2. shoot /\ ~Fault
    BY DEF Timely, Stays, Calm, Fault
  <1>3. /\ UNCHANGED queueVars /\ UNCHANGED <<copy, secFresh, start>>
        /\ \/ pc' \in {"remove_kubeconfig", "create_secret", "update_secret"}
           \/ pc' = "persist" /\ res' = "requeue" /\ ~overdue(copy, start)
    BY <1>2 DEF Fetch, Goto, secretNeedsToBeRotated
  <1>4. Stays'
    BY <1>1, StaysKept DEF Timely, Rest
  <1>5. HasKubeconfig /\ ~overdue(copy, start) => start <= sec.data.at + Threshold
    <2> SUFFICES ASSUME HasKubeconfig, ~overdue(copy, start)
                 PROVE  start <= sec.data.at + Threshold
      OBVIOUS
    <2>1. copy # None /\ copy.sync # None /\ copy.sync \in Nat /\ start < copy.sync + Threshold
      BY <1>1, NextRequeueFacts
    <2>2. copy \in Versions
      BY DEF Versions
    <2>3. copy.sync <= sec.data.at
      BY <2>1, <2>2 DEF Timely, Older
    <2>4. start \in Nat /\ sec.data.at \in Nat /\ Threshold \in Nat
      BY NumberTypes, Durations DEF Numbers
    <2> QED
      BY <2>1, <2>3, <2>4
  <1> QED
    BY <1>1, <1>3, <1>4, <1>5, WithinTimely

\* An Update or a Create that fails did not know the Secret, which is young then.
LEMMA FailedWriteTimely ==
    ASSUME BaseInv, Timely, UNCHANGED clVars, UNCHANGED secVars, UNCHANGED Rest,
           pc \in {"remove_kubeconfig", "update_secret", "create_secret"},
           HasKubeconfig => ~secFresh,
           \/ PersistAnd("error", "Error")
           \/ Goto("remove_annotation") /\ UNCHANGED <<queueVars, memVars>>
    PROVE  Timely'
  <1>1. /\ UNCHANGED queueVars /\ UNCHANGED <<copy, secFresh, start>>
        /\ \/ pc' = "persist" /\ res' = "error"
           \/ pc' = "remove_annotation"
    BY DEF PersistAnd, Goto, memVars
  <1>2. Stays'
    BY StaysKept DEF Timely, Rest
  <1>3. HasKubeconfig => start <= sec.data.at + Threshold
    <2>1. HasKubeconfig => start <= sec.data.at + Timeout
      BY DEF Timely, Aging
    <2>2. start \in Nat /\ (HasKubeconfig => sec.data.at \in Nat) /\ Threshold \in Nat /\ Timeout \in Nat
          /\ Timeout <= Threshold
      BY NumberTypes, Durations DEF Numbers
    <2> QED
      BY <2>1, <2>2
  <1> QED
    BY <1>1, <1>2, <1>3, WithinTimely

\* The Secret as it is after a write, and the versions known then.
LEMMA VersionsWritten ==
    ASSUME BaseInv, NEW o \in Secret, WriteSecret(o), copy' = copy
    PROVE  sec' = o /\ Versions' \subseteq Versions \cup {o}
  <1>1. TypeOK
    BY DEF BaseInv
  <1>2. sec' = o /\ secCache' \in {secCache, o}
    BY <1>1, WriteSecretType
  <1>3. \A i \in 1..Len(secWatch') : secWatch'[i] \in {secWatch[j] : j \in 1..Len(secWatch)} \cup {o}
    <2>1. CASE secWatch' = secWatch
      BY <2>1
    <2>2. CASE secWatch' = Append(secWatch, o)
      <3>1. Len(secWatch) \in Nat /\ Len(secWatch') = Len(secWatch) + 1 /\ secWatch'[Len(secWatch) + 1] = o
            /\ \A i \in 1..Len(secWatch) : secWatch'[i] = secWatch[i]
        BY <1>1, <2>2 DEF TypeOK
      <3> QED
        BY <3>1
    <2> QED
      BY <1>1, <2>1, <2>2, WriteSecretType
  <1> QED
    BY <1>2, <1>3 DEF Versions

\* The new kubeconfig is issued after the start of the reconciliation that stores it.
LEMMA NewKubeconfigTimely ==
    ASSUME BaseInv, Timely, UNCHANGED clVars, UNCHANGED Rest, PersistAnd("requeue", "Ready"),
           pc \in {"update_secret", "create_secret"},
           WriteSecret(newSync) \/ (UNCHANGED secVars /\ sec = newSync)
    PROVE  Timely'
  <1>1. /\ UNCHANGED <<queued, since, timer>> /\ UNCHANGED <<copy, secFresh, start>>
        /\ pc' = "persist" /\ res' = "requeue" /\ now' = now /\ restarts' = restarts
    BY DEF PersistAnd, Goto, queueVars, Rest
  <1>2. Stays'
    BY StaysKept DEF Timely, Rest
  <1>3. fetched # None /\ start <= fetched.at /\ fetched \in Kubeconfig /\ TypeOK
    BY DEF BaseInv, TypeOK, Memory
  <1>4. /\ newSync \in Secret /\ newSync # None /\ newSync.data = fetched /\ newSync.data # None
        /\ newSync.sync # None /\ newSync.sync <= start /\ newSync.sync \in Nat
    BY <1>3, NewSyncFacts
  <1>5. sec' = newSync /\ Versions' \subseteq Versions \cup {newSync}
    <2>1. CASE WriteSecret(newSync)
      BY <1>1, <1>4, <2>1, VersionsWritten
    <2>2. CASE UNCHANGED secVars /\ sec = newSync
      BY <1>1, <2>2 DEF Versions, secVars
    <2> QED
      BY <2>1, <2>2
  <1>6. sec'.data.at \in Nat /\ start <= sec'.data.at /\ sec'.data.at = fetched.at
    BY <1>3, <1>4, <1>5, KubeconfigFields
  <1>7. Numbers /\ Late \in Nat /\ Timeout \in Nat /\ Slack \in Nat /\ Threshold \in Nat
    BY <1>3, NumberTypes, LateFacts, Durations
  <1>8. Late' = Late /\ Began' = start /\ Began = start
    BY <1>1 DEF Late, Began
  <1>9. SecretStays'
    BY <1>1, <1>4, <1>5 DEF SecretStays
  <1>10. ASSUME NEW v \in Versions', v # None, v.sync # None
         PROVE  v.sync \in Nat /\ v.sync <= start
    <2>1. CASE v \in Versions
      BY <1>8, <1>10, <2>1, VersionsType DEF Timely, Past
    <2>2. CASE v = newSync
      BY <1>4, <2>2
    <2> QED
      BY <1>5, <1>10, <2>1, <2>2
  <1>11. Past'
    BY <1>8, <1>10 DEF Past
  <1>12. Older'
    <2>1. ASSUME NEW v \in Versions', v # None, v.sync # None
          PROVE  v.sync <= sec'.data.at
      <3>1. v.sync \in Nat /\ v.sync <= start /\ start \in Nat
        BY <1>7, <1>10, <2>1 DEF Numbers
      <3> QED
        BY <1>6, <3>1
    <2> QED
      BY <2>1 DEF Older
  <1>13. Scheduled'
    BY <1>1, <1>8 DEF Timely, Scheduled
  <1>14. Aging'
    <2>1. timer # None => timer <= sec'.data.at + Threshold + Timeout
      <3>1. timer # None => timer \in Nat /\ timer <= start + Threshold + Timeout
        BY <1>7, <1>8 DEF Timely, Scheduled, Numbers
      <3> QED
        BY <1>6, <1>7, <3>1 DEF Numbers
    <2>2. now <= sec'.data.at + Timeout
      <3>1. now <= start + Timeout /\ now \in Nat
        BY <1>7 DEF Timely, Scheduled, Numbers
      <3> QED
        BY <1>6, <1>7, <3>1 DEF Numbers
    <2>3. start <= sec'.data.at + Late + Slack /\ start <= sec'.data.at + Timeout /\ start <= sec'.data.at + Threshold
      BY <1>6, <1>7 DEF Numbers
    <2> QED
      BY <1>1, <1>6, <1>8, <2>1, <2>2, <2>3 DEF Aging
  <1> QED
    BY <1>2, <1>9, <1>11, <1>12, <1>13, <1>14 DEF Timely

LEMMA RemoveKubeconfigTimely ==
    ASSUME BaseInv, Timely, Calm, removeKubeconfig, UNCHANGED trouble
    PROVE  Timely'
  <1>1. pc = "remove_kubeconfig" /\ UNCHANGED clVars /\ UNCHANGED Rest /\ ~Fault
    BY DEF removeKubeconfig, Rest, Calm, Fault
  <1>2. (secFresh => copy = sec) /\ copy \in Secret \cup {None} /\ sec \in Secret \cup {None} /\ TypeOK
    BY <1>1 DEF BaseInv, Memory, TypeOK
  <1>3. sec = None => copy = None
    BY DEF Timely, SecretStays
  <1>4. CASE copy = None /\ UNCHANGED secVars /\ Goto("remove_annotation") /\ UNCHANGED <<queueVars, memVars>>
    <2>1. HasKubeconfig => ~secFresh
      BY <1>2, <1>4 DEF HasKubeconfig
    <2> QED
      BY <1>1, <1>4, <2>1, FailedWriteTimely
  <1>5. CASE ~secFresh /\ UNCHANGED secVars /\ PersistAnd("error", "Error")
    BY <1>1, <1>5, FailedWriteTimely
  <1>6. CASE /\ copy # None /\ secFresh /\ Goto("remove_annotation") /\ UNCHANGED <<queueVars, memVars>>
             /\ IF withoutKubeconfig(copy) = copy THEN UNCHANGED secVars ELSE WriteSecret(withoutKubeconfig(copy))
    <2>1. /\ UNCHANGED <<queued, since, timer>> /\ UNCHANGED <<copy, secFresh, start>>
          /\ pc' = "remove_annotation" /\ now' = now
      BY <1>1, <1>6 DEF Goto, queueVars, memVars, Rest
    <2> DEFINE o == withoutKubeconfig(copy)
    <2>2. o \in Secret /\ o # None /\ o.data = None /\ o.sync = None
      BY <1>2, <1>6, EmptiedFacts
    <2>3. sec' = o /\ Versions' \subseteq Versions \cup {o}
      <3>1. CASE WriteSecret(o)
        BY <2>1, <2>2, <3>1, VersionsWritten
      <3>2. CASE UNCHANGED secVars /\ o = copy
        BY <1>2, <1>6, <2>1, <3>2 DEF Versions, secVars
      <3> QED
        BY <1>6, <3>1, <3>2
    <2> HIDE DEF o
    <2>4. Began' = Began
      BY <1>1, <2>1 DEF Began
    <2>5. Stays'
      BY <1>1, StaysKept DEF Timely, Rest
    <2>6. SecretStays' /\ Older' /\ Aging'
      BY <2>1, <2>2, <2>3 DEF SecretStays, Older, Aging, HasKubeconfig
    <2>7. Past'
      BY <2>2, <2>3, <2>4 DEF Timely, Past
    <2>8. Scheduled'
      BY <1>1, <2>1, <2>4 DEF Timely, Scheduled
    <2> QED
      BY <2>5, <2>6, <2>7, <2>8 DEF Timely
  <1> QED
    BY <1>1, <1>3, <1>4, <1>5, <1>6 DEF removeKubeconfig, UpdateSecret

LEMMA WriteTimely ==
    ASSUME BaseInv, Timely, Calm, updateExistingSecret \/ createNewSecret, UNCHANGED trouble
    PROVE  Timely'
  <1>1. pc \in {"update_secret", "create_secret"} /\ UNCHANGED clVars /\ UNCHANGED Rest /\ ~Fault
    BY DEF updateExistingSecret, createNewSecret, Rest, Calm, Fault
  <1>2. (secFresh => copy = sec) /\ (pc = "update_secret" => copy # None) /\ (pc = "create_secret" => copy = None)
    BY <1>1 DEF BaseInv, Memory
  <1>3. sec = None => copy = None
    BY DEF Timely, SecretStays
  <1>4. CASE WriteSecret(newSync) /\ PersistAnd("requeue", "Ready")
    BY <1>1, <1>4, NewKubeconfigTimely
  <1>5. CASE secFresh /\ newSync = copy /\ UNCHANGED secVars /\ PersistAnd("requeue", "Ready")
    BY <1>1, <1>2, <1>5, NewKubeconfigTimely
  <1>6. CASE /\ UNCHANGED secVars /\ PersistAnd("error", "Error")
             /\ ~secFresh \/ (pc = "create_secret" /\ sec # None)
    <2>1. HasKubeconfig => ~secFresh
      BY <1>2, <1>6
    <2> QED
      BY <1>1, <1>6, <2>1, FailedWriteTimely
  <1> QED
    BY <1>1, <1>2, <1>3, <1>4, <1>5, <1>6 DEF updateExistingSecret, createNewSecret, UpdateSecret

LEMMA RemoveAnnotationTimely ==
    ASSUME BaseInv, Timely, Calm, removeForceRotationAnnotation, UNCHANGED trouble
    PROVE  Timely'
  <1>1. pc = "remove_annotation" /\ UNCHANGED secVars /\ UNCHANGED Rest /\ TypeOK /\ Memory /\ Chains
    BY DEF removeForceRotationAnnotation, Rest, BaseInv
  <1>2. CASE Return("error") /\ UNCHANGED clVars
    <2>1. Stays'
      BY <1>1, <1>2, StaysKept DEF Timely, Rest
    <2> QED
      BY <1>1, <1>2, <2>1, ReturnErrorTimely DEF Timely
  <1>3. CASE /\ clCache # None /\ clWatch = <<>>
             /\ IF [clCache EXCEPT !.force = FALSE] = clCache
                THEN UNCHANGED <<clVars, fresh>>
                ELSE WriteCluster([clCache EXCEPT !.force = FALSE]) /\ fresh' = FALSE
             /\ res' = "requeue" /\ Goto("persist")
             /\ UNCHANGED <<queueVars, inst, copy, secFresh, start, fetched>>
    <2>1. /\ pc' = "persist" /\ res' = "requeue" /\ UNCHANGED queueVars /\ UNCHANGED <<copy, secFresh, start>>
      BY <1>3 DEF Goto
    <2>2. cl = clCache /\ cl # None /\ clCache \in Cluster
      BY <1>1, <1>3 DEF Chains, Nth, TypeOK
    <2>3. [clCache EXCEPT !.force = FALSE] \in Cluster /\ [clCache EXCEPT !.force = FALSE].force = FALSE
      BY <2>2 DEF Cluster
    <2>4. Stays'
      <3>1. CASE UNCHANGED <<clVars, fresh>>
        BY <1>1, <3>1, StaysKept DEF Timely, Rest
      <3>2. CASE WriteCluster([clCache EXCEPT !.force = FALSE])
        BY <1>1, <2>3, <3>2, StaysWritten DEF Timely, Rest
      <3> QED
        BY <1>3, <3>1, <3>2
    <2>5. ~fresh'
      <3>1. CASE [clCache EXCEPT !.force = FALSE] = clCache
        <4>1. cl.force = FALSE /\ inst.force /\ fresh' = fresh
          BY <1>1, <1>3, <2>2, <2>3, <3>1 DEF Memory
        <4>2. fresh => Alike(cl, inst) /\ inst # None
          BY <1>1, <2>2 DEF Memory, Alike
        <4> QED
          BY <2>2, <4>1, <4>2 DEF Alike
      <3>2. CASE [clCache EXCEPT !.force = FALSE] # clCache
        BY <1>3, <3>2
      <3> QED
        BY <3>1, <3>2
    <2>6. HasKubeconfig => start <= sec.data.at + Threshold
      BY <1>1 DEF Timely, Aging
    <2> QED
      BY <1>1, <2>1, <2>4, <2>5, <2>6, WithinTimely
  <1> QED
    BY <1>2, <1>3 DEF removeForceRotationAnnotation

\* The timer that is set at the end fits the kubeconfig, although nextRequeue looks at
\* the Secret as it was at the start.
LEMMA ReturnRequeueTimely ==
    ASSUME BaseInv, Timely, Return("requeue"), UNCHANGED secVars, UNCHANGED Rest,
           pc = "persist", res = "requeue", fresh
    PROVE  SecretStays' /\ Scheduled' /\ Past' /\ Older' /\ Aging'
  <1>1. /\ pc' = "idle" /\ copy' = None /\ queued' = queued /\ since' = now
        /\ now' = now /\ restarts' = restarts /\ TypeOK
        /\ timer' = IF timer = None \/ now + nextRequeue < timer THEN now + nextRequeue ELSE timer
    BY DEF Return, Rest, BaseInv, TypeOK
  <1>2. UNCHANGED <<sec, secCache, secWatch>>
    BY DEF secVars
  <1>3. /\ Numbers /\ Late \in Nat /\ Threshold + Timeout <= Late /\ Timeout \in Nat /\ Slack \in Nat
        /\ Threshold \in Nat /\ nextRequeue \in Nat
    BY <1>1, NumberTypes, LateFacts, NextRequeueFacts, Durations
  <1>4. Late' = Late /\ Began' = now /\ Began = start
    BY <1>1 DEF Late, Began
  <1>5. SecretStays'
    BY <1>1, <1>2 DEF Timely, SecretStays
  <1>6. Past' /\ Older'
    BY <1>1, <1>2, <1>3, <1>4, VersionsSame, PastKept DEF Timely, Numbers
  <1>7. copy \in Versions
    BY DEF Versions
  <1>8. nextRequeue <= Threshold
    <2>1. CASE overdue(copy, start)
      BY <1>1, <1>3, <2>1, NextRequeueFacts
    <2>2. CASE ~overdue(copy, start)
      <3>1. copy # None /\ copy.sync # None /\ copy.sync \in Nat /\ nextRequeue = copy.sync + Threshold - start
        BY <1>1, <2>2, NextRequeueFacts
      <3>2. copy.sync <= start
        BY <1>4, <1>7, <3>1 DEF Timely, Past
      <3> QED
        BY <1>3, <3>1, <3>2 DEF Numbers
    <2> QED
      BY <2>1, <2>2
  <1>9. HasKubeconfig => now + nextRequeue <= sec.data.at + Threshold + Timeout
    <2> SUFFICES ASSUME HasKubeconfig
                 PROVE  now + nextRequeue <= sec.data.at + Threshold + Timeout
      OBVIOUS
    <2>1. now <= start + Timeout /\ now \in Nat /\ start \in Nat /\ sec.data.at \in Nat
      BY <1>3 DEF Timely, Scheduled, Numbers
    <2>2. CASE overdue(copy, start)
      <3>1. nextRequeue = Threshold /\ start <= sec.data.at
        BY <1>1, <2>2, NextRequeueFacts DEF Timely, Aging
      <3> QED
        BY <1>3, <2>1, <3>1
    <2>3. CASE ~overdue(copy, start)
      <3>1. copy # None /\ copy.sync # None /\ copy.sync \in Nat /\ nextRequeue = copy.sync + Threshold - start
        BY <1>1, <2>3, NextRequeueFacts
      <3>2. copy.sync <= sec.data.at
        BY <1>7, <3>1 DEF Timely, Older
      <3> QED
        BY <1>3, <2>1, <3>1, <3>2
    <2> QED
      BY <2>2, <2>3
  <1>10. now + nextRequeue \in Nat /\ now <= now + nextRequeue /\ now + nextRequeue <= now + Threshold + Timeout
         /\ now + nextRequeue # None
    <2>1. now + nextRequeue \in Nat /\ now <= now + nextRequeue /\ now + nextRequeue <= now + Threshold + Timeout
      BY <1>3, <1>8 DEF Numbers
    <2> QED
      BY <2>1, NoneIsNoTime
  <1>11. timer' = now + nextRequeue \/ (timer' = timer /\ timer # None)
    BY <1>1
  <1>12. Scheduled'
    <2>1. timer' # None
      BY <1>10, <1>11
    <2>2. now <= timer' /\ timer' <= now + Threshold + Timeout
      <3>1. timer # None => now <= timer /\ timer <= start + Threshold + Timeout /\ timer \in Nat
        BY <1>3, <1>4 DEF Timely, Scheduled, Numbers
      <3>2. CASE timer' = now + nextRequeue
        BY <1>10, <3>2
      <3>3. CASE timer' = timer /\ timer # None
        BY <1>3, <3>1, <3>3 DEF Numbers
      <3> QED
        BY <1>11, <3>2, <3>3
    <2>3. now <= now + Slack
      BY <1>3 DEF Numbers
    <2> QED
      BY <1>1, <1>4, <2>1, <2>2, <2>3 DEF Scheduled
  <1>13. Aging'
    <2> SUFFICES ASSUME HasKubeconfig
                 PROVE  Aging'
      BY <1>2 DEF Aging, HasKubeconfig
    <2>1. /\ timer # None => timer <= sec.data.at + Threshold + Timeout
          /\ start <= sec.data.at + Threshold /\ now <= start + Timeout
          /\ secWatch # <<>> => now <= sec.data.at + Timeout
      BY DEF Timely, Scheduled, Aging
    <2>2. now <= sec.data.at + Late
      BY <1>3, <2>1 DEF Numbers
    <2>3. timer' <= sec.data.at + Threshold + Timeout
      BY <1>9, <1>11, <2>1
    <2> QED
      BY <1>1, <1>2, <1>4, <2>1, <2>2, <2>3 DEF Aging
  <1> QED
    BY <1>5, <1>6, <1>12, <1>13

LEMMA PersistStatusTimely ==
    ASSUME BaseInv, Timely, Calm, persistStatusChange, UNCHANGED trouble
    PROVE  Timely'
  <1>1. pc = "persist" /\ UNCHANGED secVars /\ UNCHANGED Rest /\ res \in {"error", "requeue"} /\ ~Fault
        /\ inst \in Cluster
    BY DEF persistStatusChange, Rest, BaseInv, TypeOK, Results, Timely, Scheduled, Calm, Fault
  <1>2. Stays'
    <2>1. CASE UNCHANGED clVars
      BY <1>1, <2>1, StaysKept DEF Timely, Rest
    <2>2. CASE WriteCluster([cl EXCEPT !.state = inst.state])
      <3>1. cl \in Cluster /\ inst.state \in {"", "Ready", "Error"}
        BY <1>1 DEF BaseInv, TypeOK, Timely, Stays, Cluster
      <3>2. [cl EXCEPT !.state = inst.state] \in Cluster
        BY <3>1 DEF Cluster
      <3> QED
        BY <1>1, <2>2, <3>2, StaysWritten DEF Timely, Rest
    <2> QED
      BY <2>1, <2>2 DEF persistStatusChange
  <1>3. CASE Return("error")
    BY <1>1, <1>2, <1>3, ReturnErrorTimely DEF Timely
  <1>4. CASE Return("requeue") /\ res = "requeue" /\ fresh
    BY <1>1, <1>2, <1>4, ReturnRequeueTimely DEF Timely
  <1> QED
    BY <1>1, <1>3, <1>4 DEF persistStatusChange

LEMMA ReconcileTimely ==
    ASSUME BaseInv, Timely, Reconcile, UNCHANGED trouble
    PROVE  Timely'
  <1>1. pc = "idle" /\ queued /\ UNCHANGED clVars /\ UNCHANGED secVars /\ UNCHANGED Rest
    BY DEF Reconcile, Rest
  <1>2. /\ pc' = "fetch" /\ copy' = secCache /\ secFresh' = (secWatch = <<>>) /\ start' = now
        /\ timer' = timer /\ now' = now /\ restarts' = restarts
    BY DEF Reconcile, Timely, Stays, Goto
  <1>3. UNCHANGED <<sec, secCache, secWatch>>
    BY <1>1 DEF secVars
  <1>4. Numbers /\ Late \in Nat /\ Timeout \in Nat /\ Slack \in Nat
    BY NumberTypes, LateFacts, Durations DEF BaseInv
  <1>5. Late' = Late /\ Began' = now /\ Began = now
    BY <1>1, <1>2 DEF Late, Began
  <1>6. Stays'
    BY <1>1, StaysKept DEF Timely, Rest
  <1>7. SecretStays'
    BY <1>2, <1>3 DEF Timely, SecretStays
  <1>8. Past' /\ Older'
    BY <1>2, <1>3, <1>4, <1>5, VersionsSame, PastKept DEF Timely, Numbers
  <1>9. Scheduled'
    <2>1. now <= now + Timeout
      BY <1>4 DEF Numbers
    <2> QED
      BY <1>2, <1>5, <2>1 DEF Timely, Scheduled
  <1>10. Aging'
    <2> SUFFICES ASSUME HasKubeconfig
                 PROVE  Aging'
      BY <1>3 DEF Aging, HasKubeconfig
    <2>1. /\ timer # None => timer <= sec.data.at + Threshold + Timeout
          /\ since <= sec.data.at + Late /\ now <= since + Slack
          /\ secWatch # <<>> => now <= sec.data.at + Timeout
      BY <1>1 DEF Timely, Scheduled, Aging
    <2>2. now <= sec.data.at + Late + Slack
      BY <1>4, <2>1 DEF Numbers
    <2> QED
      BY <1>2, <1>3, <1>5, <2>1, <2>2 DEF Aging
  <1> QED
    BY <1>6, <1>7, <1>8, <1>9, <1>10 DEF Timely

\* Events and timers put the CR in the queue, where a timer's time has not passed yet.
LEMMA EnqueueTimely ==
    ASSUME BaseInv, Timely, UNCHANGED secVars, UNCHANGED Rest, Stays', UNCHANGED pc, UNCHANGED memVars,
           \/ Enqueue /\ timer' \in {timer, None}
           \/ UNCHANGED <<queued, since, timer>>
    PROVE  Timely'
  <1>1. UNCHANGED <<fresh, copy, secFresh, start, res>> /\ UNCHANGED <<sec, secCache, secWatch>>
        /\ now' = now /\ restarts' = restarts
    BY DEF memVars, secVars, Rest
  <1>2. Numbers /\ Late \in Nat /\ Threshold + Timeout <= Late /\ Timeout \in Nat /\ Slack \in Nat /\ Threshold \in Nat
    BY NumberTypes, LateFacts, Durations DEF BaseInv
  <1>3. Late' = Late /\ Began' = Began /\ overdue(copy, start)' = overdue(copy, start)
    BY <1>1 DEF Late, Began, overdue
  <1>4. /\ timer' \in {timer, None}
        /\ pc = "idle" => queued' \/ timer' # None
        /\ pc = "idle" /\ queued' => (queued /\ since' = since) \/ (~queued /\ since' = now)
    <2>1. CASE Enqueue /\ timer' \in {timer, None}
      BY <2>1 DEF Enqueue
    <2>2. CASE UNCHANGED <<queued, since, timer>>
      BY <2>2 DEF Timely, Scheduled
    <2> QED
      BY <2>1, <2>2
  <1>5. SecretStays'
    BY <1>1 DEF Timely, SecretStays
  <1>6. Past' /\ Older'
    BY <1>1, <1>2, <1>3, VersionsSame, PastKept DEF Timely, Numbers
  <1>7. Scheduled'
    <2>1. now <= now + Slack
      BY <1>2 DEF Numbers
    <2>2. timer' # None => now <= timer' /\ timer' <= Began + Threshold + Timeout
      BY <1>4 DEF Timely, Scheduled
    <2>3. pc = "idle" /\ queued' => now <= since' + Slack
      BY <1>4, <2>1 DEF Timely, Scheduled
    <2> QED
      BY <1>1, <1>3, <1>4, <2>2, <2>3 DEF Timely, Scheduled
  <1>8. Aging'
    <2> SUFFICES ASSUME HasKubeconfig
                 PROVE  Aging'
      BY <1>1 DEF Aging, HasKubeconfig
    <2>1. timer' # None => timer' <= sec.data.at + Threshold + Timeout
      BY <1>4 DEF Timely, Aging
    <2>2. pc = "idle" /\ queued' => since' <= sec.data.at + Late
      <3>1. CASE pc = "idle" /\ queued' /\ queued /\ since' = since
        BY <3>1 DEF Timely, Aging
      <3>2. CASE pc = "idle" /\ queued' /\ ~queued /\ since' = now
        <4>1. timer # None /\ now <= timer /\ timer <= sec.data.at + Threshold + Timeout
          BY <3>2 DEF Timely, Scheduled, Aging
        <4> QED
          BY <1>2, <3>2, <4>1 DEF Numbers
      <3> QED
        BY <1>4, <3>1, <3>2
    <2> QED
      BY <1>1, <1>3, <2>1, <2>2 DEF Timely, Aging
  <1> QED
    BY <1>5, <1>6, <1>7, <1>8 DEF Timely

LEMMA ClusterSyncTimely ==
    ASSUME BaseInv, Timely, ClusterSync, UNCHANGED trouble
    PROVE  Timely'
  <1>1. /\ clWatch # <<>> /\ clCache' = Head(clWatch) /\ clWatch' = Tail(clWatch) /\ cl' = cl
        /\ UNCHANGED secVars /\ UNCHANGED Rest /\ UNCHANGED timer /\ UNCHANGED pc /\ UNCHANGED memVars
        /\ (Enqueue \/ UNCHANGED <<queued, since>>)
    BY DEF ClusterSync, Rest
  <1>2. /\ Len(clWatch) \in Nat \ {0} /\ Head(clWatch) = clWatch[1]
        /\ Len(Tail(clWatch)) = Len(clWatch) - 1
        /\ \A i \in 1..(Len(clWatch) - 1) : Tail(clWatch)[i] = clWatch[i + 1]
    BY <1>1, TailFacts DEF BaseInv, TypeOK
  <1>3. Stays'
    <2>1. \A i \in 1..Len(clWatch) : clWatch[i] # None
      BY DEF Timely, Stays
    <2>2. 1 \in 1..Len(clWatch) /\ \A i \in 1..(Len(clWatch) - 1) : i + 1 \in 1..Len(clWatch)
      BY <1>2
    <2>3. clCache' # None /\ \A i \in 1..Len(clWatch') : clWatch'[i] # None
      BY <1>1, <1>2, <2>1, <2>2
    <2> QED
      BY <1>1, <2>3 DEF Timely, Stays, Rest
  <1> QED
    BY <1>1, <1>3, EnqueueTimely

LEMMA TimerFiresTimely ==
    ASSUME BaseInv, Timely, TimerFires, UNCHANGED trouble
    PROVE  Timely'
  <1>1. UNCHANGED secVars /\ UNCHANGED clVars /\ UNCHANGED Rest /\ timer' = None /\ UNCHANGED pc
        /\ UNCHANGED memVars /\ Enqueue
    BY DEF TimerFires, Rest
  <1>2. Stays'
    BY <1>1, StaysKept DEF Timely, Rest
  <1> QED
    BY <1>1, <1>2, EnqueueTimely

LEMMA SecretSyncTimely ==
    ASSUME BaseInv, Timely, SecretSync, UNCHANGED trouble
    PROVE  Timely'
  <1>1. /\ secWatch # <<>> /\ secCache' = Head(secWatch) /\ secWatch' = Tail(secWatch) /\ sec' = sec
        /\ UNCHANGED clVars /\ UNCHANGED <<now, shoot, restarts, queued, since, timer, pc>>
        /\ UNCHANGED <<fresh, copy, secFresh, start, res>>
    BY DEF SecretSync, queueVars, memVars
  <1>2. /\ Len(secWatch) \in Nat \ {0} /\ Head(secWatch) = secWatch[1]
        /\ Len(Tail(secWatch)) = Len(secWatch) - 1
        /\ \A i \in 1..(Len(secWatch) - 1) : Tail(secWatch)[i] = secWatch[i + 1]
    BY <1>1, TailFacts DEF BaseInv, TypeOK
  <1>3. Late' = Late /\ Began' = Began /\ overdue(copy, start)' = overdue(copy, start)
    BY <1>1 DEF Late, Began, overdue
  <1>4. Stays'
    BY <1>1, StaysKept DEF Timely
  <1>5. SecretStays'
    BY <1>1 DEF Timely, SecretStays
  <1>6. Versions' \subseteq Versions \cup {None}
    <2>1. secCache' \in Versions
      BY <1>1, <1>2 DEF Versions
    <2>2. \A i \in 1..Len(secWatch') : secWatch'[i] \in Versions
      <3>1. \A i \in 1..(Len(secWatch) - 1) : i + 1 \in 1..Len(secWatch)
        BY <1>2
      <3> QED
        BY <1>1, <1>2, <3>1 DEF Versions
    <2>3. sec' \in Versions /\ copy' \in Versions
      BY <1>1 DEF Versions
    <2> QED
      BY <2>1, <2>2, <2>3 DEF Versions
  <1>7. Past' /\ Older'
    <2>1. Began \in Nat /\ Began <= Began
      BY NumberTypes DEF Numbers
    <2> QED
      BY <1>1, <1>3, <1>6, <2>1, PastKept DEF Timely
  <1>8. Scheduled'
    BY <1>1, <1>3 DEF Timely, Scheduled
  <1>9. Aging'
    BY <1>1, <1>3 DEF Timely, Aging, HasKubeconfig
  <1> QED
    BY <1>4, <1>5, <1>7, <1>8, <1>9 DEF Timely

LEMMA TickTimely ==
    ASSUME BaseInv, Timely, Tick, UNCHANGED trouble
    PROVE  Timely'
  <1>1. /\ clWatch = <<>> /\ secWatch = <<>> /\ now' = now + 1
        /\ timer # None => now < timer
        /\ queued /\ pc = "idle" => now < since + Slack
        /\ pc # "idle" => now < start + Timeout
    BY DEF Tick
  <1>2. UNCHANGED clVars /\ UNCHANGED <<sec, secCache, secWatch>>
        /\ UNCHANGED <<shoot, restarts, queued, since, timer, pc, fresh, copy, secFresh, start, res>>
    BY DEF Tick, secVars, queueVars, memVars
  <1>3. Numbers /\ Timeout \in Nat /\ Slack \in Nat /\ Threshold \in Nat
    BY NumberTypes, Durations DEF BaseInv
  <1>4. Began' \in Nat /\ Began <= Began'
    BY <1>1, <1>2, <1>3 DEF Numbers, Began
  <1>5. Late' = Late /\ overdue(copy, start)' = overdue(copy, start)
    BY <1>2 DEF Late, overdue
  <1>6. Stays'
    BY <1>2, StaysKept DEF Timely
  <1>7. SecretStays'
    BY <1>2 DEF Timely, SecretStays
  <1>8. Past' /\ Older'
    BY <1>2, <1>4, VersionsSame, PastKept DEF Timely
  <1>9. Scheduled'
    <2>1. /\ timer # None => now + 1 <= timer
          /\ queued /\ pc = "idle" => now + 1 <= since + Slack
          /\ pc # "idle" => now + 1 <= start + Timeout
      BY <1>1, <1>3 DEF Numbers
    <2>2. timer # None => timer <= Began' + Threshold + Timeout
      <3>1. timer # None => timer \in Nat /\ timer <= Began + Threshold + Timeout
        BY <1>3 DEF Timely, Scheduled, Numbers
      <3> QED
        BY <1>3, <1>4, <3>1 DEF Numbers
    <2> QED
      BY <1>1, <1>2, <2>1, <2>2 DEF Timely, Scheduled
  <1>10. Aging'
    BY <1>1, <1>2, <1>5 DEF Timely, Aging, HasKubeconfig
  <1> QED
    BY <1>6, <1>7, <1>8, <1>9, <1>10 DEF Timely

LEMMA ForceTimely ==
    ASSUME BaseInv, Timely, ForceRotation, UNCHANGED trouble
    PROVE  Timely'
  <1>1. UserWrite([cl EXCEPT !.force = TRUE]) /\ cl \in Cluster
    BY DEF ForceRotation, BaseInv, TypeOK
  <1>2. [cl EXCEPT !.force = TRUE] \in Cluster
    BY <1>1 DEF Cluster
  <1>3. UNCHANGED <<sec, secCache, secWatch>> /\ fresh' = FALSE
        /\ UNCHANGED <<now, shoot, restarts, queued, since, timer, pc, copy, secFresh, start, res>>
    BY DEF ForceRotation, UserWrite, secVars, queueVars
  <1>4. Stays'
    BY <1>1, <1>2, <1>3, StaysWritten DEF Timely, UserWrite
  <1>5. Late' = Late /\ Began' = Began /\ Began \in Nat /\ Began <= Began
    BY <1>3, NumberTypes DEF Late, Began, Numbers
  <1>6. SecretStays'
    BY <1>3 DEF Timely, SecretStays
  <1>7. Past' /\ Older'
    BY <1>3, <1>5, VersionsSame, PastKept DEF Timely
  <1>8. Scheduled'
    BY <1>3, <1>5 DEF Timely, Scheduled
  <1>9. Aging'
    BY <1>3, <1>5 DEF Timely, Aging, HasKubeconfig
  <1> QED
    BY <1>4, <1>6, <1>7, <1>8, <1>9 DEF Timely

LEMMA RestartTimely ==
    ASSUME BaseInv, Timely, Restart, UNCHANGED trouble
    PROVE  Timely'
  <1>1. /\ restarts' = restarts + 1 /\ pc' = "idle" /\ copy' = None
        /\ clCache' = cl /\ clWatch' = <<>> /\ secCache' = sec /\ secWatch' = <<>>
        /\ queued' = TRUE /\ since' = now /\ timer' = None
        /\ UNCHANGED <<now, cl, sec, shoot>>
    BY DEF Restart, Timely, Stays
  <1>2. Numbers /\ Timeout \in Nat /\ Slack \in Nat
    BY NumberTypes, Durations
  <1>3. Began' = now /\ Late' = Late + Timeout + Slack
    BY <1>1, LateAfterRestart DEF Began, BaseInv
  <1>4. Stays'
    <2>1. Len(clWatch') = 0
      BY <1>1
    <2> QED
      BY <1>1, <2>1 DEF Timely, Stays
  <1>5. SecretStays'
    BY <1>1 DEF SecretStays
  <1>6. Versions' \subseteq Versions \cup {None}
    <2>1. Len(secWatch') = 0
      BY <1>1
    <2> QED
      BY <1>1, <2>1 DEF Versions
  <1>7. Past' /\ Older'
    BY <1>1, <1>2, <1>3, <1>6, PastKept DEF Timely, Numbers
  <1>8. Scheduled'
    <2>1. now <= now + Slack
      BY <1>2 DEF Numbers
    <2> QED
      BY <1>1, <2>1 DEF Scheduled
  <1>9. Aging'
    <2> SUFFICES ASSUME HasKubeconfig
                 PROVE  Aging'
      BY <1>1 DEF Aging, HasKubeconfig
    <2>1. now <= sec.data.at + Late + Timeout + Slack
      BY AgeBound DEF Timely
    <2>2. now <= sec.data.at + (Late + Timeout + Slack)
      BY <1>2, <2>1, LateFacts DEF Numbers, BaseInv
    <2> QED
      BY <1>1, <1>3, <2>2 DEF Aging
  <1> QED
    BY <1>4, <1>5, <1>7, <1>8, <1>9 DEF Timely

LEMMA StutterTimely ==
    ASSUME BaseInv, Timely, UNCHANGED vars
    PROVE  Timely'
  <1>1. UNCHANGED secVars /\ UNCHANGED clVars /\ UNCHANGED Rest /\ UNCHANGED pc /\ UNCHANGED memVars
        /\ UNCHANGED <<queued, since, timer>>
    BY DEF vars, queueVars, Rest
  <1>2. Stays'
    BY <1>1, StaysKept DEF Timely, Rest
  <1> QED
    BY <1>1, <1>2, EnqueueTimely

LEMMA InitTimely ==
    ASSUME Init
    PROVE  Timely
  <1>1. /\ now = 0 /\ cl # None /\ clCache # None /\ clWatch = <<>> /\ shoot
        /\ sec = None /\ secCache = None /\ secWatch = <<>> /\ copy = None
        /\ queued /\ since = 0 /\ timer = None /\ pc = "idle" /\ start = 0
    BY NewClusterFacts DEF Init
  <1>2. 0 <= 0 + Slack /\ Len(clWatch) = 0 /\ Len(secWatch) = 0
    BY <1>1, Durations
  <1>3. Stays /\ SecretStays
    BY <1>1, <1>2 DEF Stays, SecretStays
  <1>4. Scheduled
    BY <1>1, <1>2 DEF Scheduled
  <1>5. Past
    BY <1>1, <1>2 DEF Past, Versions
  <1>6. Older /\ Aging
    BY <1>1 DEF Older, Aging, HasKubeconfig
  <1> QED
    BY <1>3, <1>4, <1>5, <1>6 DEF Timely

\* When calls work and the CR stays, neither the timer, the queue nor a reconciliation
\* lets the kubeconfig grow older than its life time allows.
THEOREM TimingInvariance == Spec => [](BaseInv /\ TimingInv)
  <1>1. Init => TimingInv
    BY InitTimely DEF TimingInv
  <1>2. BaseInv /\ TimingInv /\ [Next]_vars => TimingInv'
    <2> SUFFICES ASSUME BaseInv, Timely, Calm, [Next]_vars
                 PROVE  Timely'
      <3>1. [Next]_vars => trouble' = trouble
        BY DEF Next, vars
      <3> QED
        BY <3>1 DEF TimingInv, Calm
    <2>1. ~DeleteOrCreate /\ ~ShootChanges /\ ~deleteKubeconfigSecret
      BY DEF DeleteOrCreate, ShootChanges, deleteKubeconfigSecret, Calm, Timely, Stays, SecretStays
    <2> QED
      BY <2>1, ReconcileTimely, FetchTimely, RemoveKubeconfigTimely, WriteTimely, RemoveAnnotationTimely,
         PersistStatusTimely, ClusterSyncTimely, SecretSyncTimely, TimerFiresTimely, TickTimely, ForceTimely,
         RestartTimely, StutterTimely DEF Next, ReconcileStep
  <1> QED
    BY <1>1, <1>2, RotationInvariance, PTL DEF Spec

\* While its CR exists and calls work, the Secret never holds an expired kubeconfig:
\* RotationAssumption's margin pays for the truncated annotation, the nextRequeue that
\* looks at the Secret of the start, the wait for a worker, stale caches and restarts.
THEOREM NeverExpiredAlways == Spec => []NeverExpired
  <1>1. BaseInv /\ TimingInv => NeverExpired
    <2> SUFFICES ASSUME BaseInv, Timely, HasKubeconfig
                 PROVE  now < sec.data.at + Expiration
      BY DEF NeverExpired, TimingInv, Calm, HasKubeconfig
    <2>1. now <= sec.data.at + Late + Timeout + Slack
      BY AgeBound DEF Timely
    <2>2. Late + Timeout + Slack < Expiration /\ Late \in Nat /\ Timeout \in Nat /\ Slack \in Nat
          /\ Expiration \in Nat /\ now \in Nat /\ sec.data.at \in Nat
      BY LateFacts, Durations, NumberTypes DEF BaseInv, Numbers
    <2> QED
      BY <2>1, <2>2
  <1> QED
    BY <1>1, TimingInvariance, PTL
=============================================================================
