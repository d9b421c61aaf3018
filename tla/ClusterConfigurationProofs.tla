--------------------- MODULE ClusterConfigurationProofs ---------------------
(***************************************************************************)
(* Proofs about ClusterConfiguration, for any users, issuers and values of *)
(* the Runtime's specification, any number of edits, changes, faults and   *)
(* users' changes, any documents and any combination of troubles.          *)
(***************************************************************************)
EXTENDS ClusterConfiguration, TLAPS

\* Where a loop is, it is inside what it goes through.
LoopInv ==
    /\ pc = "apply" => mem.ix \in Part
    /\ pc = "install" => mem.ix \in 1..Docs
    /\ pc = "oidc_create" => mem.ix \in DOMAIN oidcConfigs(inst)
    /\ pc \in {"crb_delete", "crb_create"} => mem.missing \subseteq DOMAIN inst.admins

\* The bindings that are to be deleted are among those that exist.
MarkInv == \A b \in Bindings : mem.removed[b] <= bindings[b]

-----------------------------------------------------------------------------
(* Types of the operators.                                                  *)

LEMMA ConstTypes ==
    /\ MaxEdits \in Nat /\ MaxKcp \in Nat /\ MaxFaults \in Nat /\ MaxTamper \in Nat
    /\ Docs \in Nat /\ 1 \in 1..Docs /\ DeploymentAt \in 1..Docs
    /\ Len(Parts) \in Nat /\ 1 \in Part /\ Part = 1..Len(Parts)
  <1>1. Parts \in Seq(STRING) /\ Parts # <<>>
    BY ClusterAssumption DEF ClusterAssumption
  <1>2. Len(Parts) \in Nat /\ Len(Parts) # 0
    BY <1>1
  <1> QED
    BY <1>2, ClusterAssumption DEF ClusterAssumption, Part

LEMMA RuntimeType ==
    ASSUME NEW x \in Runtime
    PROVE  /\ x.gen \in 0..MaxEdits /\ x.admins \in Seq(Users)
           /\ x.oidc \in Seq(Issuers \cup {Undefined}) /\ x.forced \in BOOLEAN
           /\ \A g \in 0..MaxEdits, f \in BOOLEAN :
                [gen |-> g, admins |-> x.admins, oidc |-> x.oidc, forced |-> f] \in Runtime
  <1>1. PICK g \in 0..MaxEdits, f \in BOOLEAN : x \in AtGen(g, f)
    BY DEF Runtime
  <1>2. PICK s \in Specs :
          x = [gen |-> g, admins |-> s.admins, oidc |-> s.oidc, forced |-> f]
    BY <1>1 DEF AtGen
  <1>3. s.admins \in Seq(Users) /\ s.oidc \in Seq(Issuers \cup {Undefined})
    BY ClusterAssumption DEF ClusterAssumption
  <1>4. ASSUME NEW h \in 0..MaxEdits, NEW e \in BOOLEAN
        PROVE  [gen |-> h, admins |-> x.admins, oidc |-> x.oidc, forced |-> e] \in Runtime
    <2>1. [gen |-> h, admins |-> x.admins, oidc |-> x.oidc, forced |-> e] \in AtGen(h, e)
      BY <1>2 DEF AtGen
    <2> QED
      BY <2>1 DEF Runtime
  <1> QED
    BY <1>2, <1>3, <1>4

LEMMA OidcConfigsType ==
    ASSUME NEW x \in Runtime
    PROVE  oidcConfigs(x) \in Seq(Issuers)
  <1>1. x.oidc \in Seq(Issuers \cup {Undefined})
    BY RuntimeType
  <1>2. CASE Undefined \in Range(x.oidc)
    <2>1. DefaultTenant \in Issuers
      BY ClusterAssumption DEF ClusterAssumption
    <2> QED
      BY <1>2, <2>1 DEF oidcConfigs
  <1>3. CASE Undefined \notin Range(x.oidc)
    <2>1. \A i \in 1..Len(x.oidc) : x.oidc[i] \in Issuers
      BY <1>1, <1>3 DEF Range
    <2>2. x.oidc \in Seq(Issuers)
      BY <1>1, <2>1
    <2> QED
      BY <1>3, <2>2 DEF oidcConfigs
  <1> QED
    BY <1>2, <1>3

LEMMA NoMemType == NoMem \in Memory
  <1>1. None \in [Bindings -> Nat]
    BY DEF None
  <1>2. NoObject \in Manifests
    BY DEF NoObject, Manifests
  <1> QED
    BY <1>1, <1>2 DEF NoMem, Memory, States

LEMMA MemType ==
    ASSUME NEW m \in Memory
    PROVE  /\ m.want \in [Part -> Nat] /\ m.manifests \in Manifests /\ m.ix \in Nat
           /\ m.removed \in [Bindings -> Nat] /\ m.missing \subseteq Nat
           /\ m.state \in States /\ m.late \subseteq Users
           /\ \A i \in Nat : [m EXCEPT !.ix = i] \in Memory
           /\ \A w \in [Part -> Nat], i \in Nat : [m EXCEPT !.want = w, !.ix = i] \in Memory
           /\ \A o \in Manifests, i \in Nat : [m EXCEPT !.manifests = o, !.ix = i] \in Memory
           /\ \A s \in SUBSET Nat : [m EXCEPT !.missing = s] \in Memory
           /\ \A r \in [Bindings -> Nat] : [m EXCEPT !.removed = r] \in Memory
           /\ \A r \in [Bindings -> Nat], s \in SUBSET Nat :
                [m EXCEPT !.removed = r, !.missing = s] \in Memory
  BY DEF Memory

LEMMA NextIx ==
    ASSUME NEW m \in Memory
    PROVE  [m EXCEPT !.ix = m.ix + 1] \in Memory
  <1>1. m.ix + 1 \in Nat
    BY DEF Memory
  <1>2. \A i \in Nat : [m EXCEPT !.ix = i] \in Memory
    BY MemType
  <1> QED
    BY <1>1, <1>2

\* The binding that is created for an administrator, and the counts of bindings.
LEMMA BindingType ==
    /\ \A u \in Users : toAdminClusterRoleBinding(u) \in Bindings
    /\ \A f \in [Bindings -> Nat], b \in Bindings :
         /\ [f EXCEPT ![b] = @ + 1] \in [Bindings -> Nat]
         /\ f[b] > 0 => [f EXCEPT ![b] = @ - 1] \in [Bindings -> Nat]
  <1>1. \A u \in Users : toAdminClusterRoleBinding(u) \in Bindings
    BY DEF toAdminClusterRoleBinding, Bindings
  <1>2. ASSUME NEW f \in [Bindings -> Nat], NEW b \in Bindings
        PROVE  /\ [f EXCEPT ![b] = @ + 1] \in [Bindings -> Nat]
               /\ f[b] > 0 => [f EXCEPT ![b] = @ - 1] \in [Bindings -> Nat]
    <2>1. f[b] \in Nat
      OBVIOUS
    <2>2. f[b] + 1 \in Nat /\ (f[b] > 0 => f[b] - 1 \in Nat)
      BY <2>1
    <2> QED
      BY <2>2
  <1> QED
    BY <1>1, <1>2

LEMMA LessIs ==
    ASSUME NEW f \in [Bindings -> Nat], NEW b \in Bindings
    PROVE  /\ f[b] > 0 => Less(f, b) \in [Bindings -> Nat]
           /\ Less(f, b)[b] = f[b] - 1
           /\ \A c \in Bindings : c # b => Less(f, b)[c] = f[c]
  BY BindingType DEF Less

\* What a binding says after a user was added to it.
Grown(b, u) == [b EXCEPT !.users = @ \cup {u}]

LEMMA ExtendedIs ==
    ASSUME NEW f \in [Bindings -> Nat], NEW b \in Bindings, f[b] > 0,
           NEW u \in Users, u \notin b.users
    PROVE  /\ Grown(b, u) \in Bindings /\ Grown(b, u) # b
           /\ Grown(b, u).managed = b.managed /\ Grown(b, u).users = b.users \cup {u}
           /\ Extended(f, b, u) \in [Bindings -> Nat]
           /\ Extended(f, b, u)[b] = f[b] - 1
           /\ Extended(f, b, u)[Grown(b, u)] = f[Grown(b, u)] + 1
           /\ \A c \in Bindings : c \notin {b, Grown(b, u)} => Extended(f, b, u)[c] = f[c]
  <1>1. /\ Grown(b, u) \in Bindings /\ Grown(b, u).managed = b.managed
        /\ Grown(b, u).users = b.users \cup {u}
    BY DEF Grown, Bindings
  <1>2. Grown(b, u) # b
    BY <1>1
  <1>3. Less(f, b) \in [Bindings -> Nat] /\ Less(f, b)[b] = f[b] - 1
        /\ \A c \in Bindings : c # b => Less(f, b)[c] = f[c]
    BY LessIs
  <1>4. Extended(f, b, u) = [Less(f, b) EXCEPT ![Grown(b, u)] = @ + 1]
    BY DEF Extended, Grown
  <1>5. Extended(f, b, u) \in [Bindings -> Nat]
    BY <1>1, <1>3, <1>4, BindingType
  <1> QED
    BY <1>1, <1>2, <1>3, <1>4, <1>5

LEMMA GotoType ==
    ASSUME TypeOK, NEW step \in Steps, NEW m \in Memory, Goto(step, m)
    PROVE  /\ pc' = step /\ pc' \in Steps /\ mem' = m /\ mem' \in Memory
           /\ status' \in [state: States, gen: 0..MaxEdits] /\ queued' \in BOOLEAN
  BY DEF Goto, TypeOK

\* Returning is going on to the write of the status, with an empty memory.
LEMMA ReturnIs ==
    ASSUME NEW state \in States, Return(state)
    PROVE  /\ pc' = "status" /\ mem' \in Memory /\ mem'.state = state /\ mem'.removed = None
           /\ UNCHANGED <<status, queued>>
           /\ \E m \in Memory : Goto("status", m)
  <1>1. [NoMem EXCEPT !.state = state] \in Memory
        /\ [NoMem EXCEPT !.state = state].state = state
        /\ [NoMem EXCEPT !.state = state].removed = None
    <2>1. NoMem \in Memory /\ NoMem.removed = None
      BY NoMemType DEF NoMem
    <2> QED
      BY <2>1 DEF Memory
  <1> QED
    BY <1>1 DEF Return, Goto

LEMMA FaultType ==
    ASSUME TypeOK, Done \/ Fault
    PROVE  faults' \in 0..MaxFaults
  <1>1. faults \in 0..MaxFaults /\ MaxFaults \in Nat
    BY ConstTypes DEF TypeOK
  <1> QED
    BY <1>1 DEF Done, Fault

\* A step of KIM in the cluster ends by going on or by returning.
Ends == \E step \in Steps \ {"idle"}, m \in Memory : Goto(step, m)

LEMMA KimType ==
    ASSUME TypeOK, Keep, Done \/ Fault, Ends,
           conf' \in [Part -> Nat], docs' \in [1..Docs -> Manifests],
           deployed' \in [ready: BOOLEAN, progressing: BOOLEAN], info' \in 0..MaxEdits,
           \A id \in DOMAIN oidc' : oidc'[id] \in Issuers, bindings' \in [Bindings -> Nat],
           touched' \subseteq touched, swallowed' \subseteq Nat
    PROVE  TypeOK'
  <1>1. faults' \in 0..MaxFaults
    BY FaultType
  <1>2. /\ pc' \in Steps /\ mem' \in Memory
        /\ status' \in [state: States, gen: 0..MaxEdits] /\ queued' \in BOOLEAN
    BY GotoType DEF Ends
  <1> QED
    BY <1>1, <1>2 DEF TypeOK, Keep

LEMMA NothingMarked ==
    ASSUME bindings' \in [Bindings -> Nat], mem'.removed = None
    PROVE  MarkInv'
  BY DEF MarkInv, None

LEMMA MarksKept ==
    ASSUME MarkInv, UNCHANGED bindings, mem'.removed = mem.removed
    PROVE  MarkInv'
  BY DEF MarkInv

LEMMA Returned ==
    ASSUME NEW state \in States, Return(state)
    PROVE  Ends /\ LoopInv'
  <1>1. pc' = "status" /\ \E m \in Memory : Goto("status", m)
    BY ReturnIs
  <1> QED
    BY <1>1 DEF Ends, LoopInv, Steps

LEMMA RetryEnds ==
    ASSUME Retry
    PROVE  Ends /\ LoopInv'
  <1>1. Return("Pending") /\ "Pending" \in States
    BY DEF Retry, States
  <1> QED
    BY <1>1, Returned

LEMMA ReturnMarks ==
    ASSUME bindings' \in [Bindings -> Nat], Retry \/ Return("Failed") \/ Return("Ready")
    PROVE  MarkInv'
  <1>1. mem'.removed = None
    BY ReturnIs DEF Retry, States
  <1> QED
    BY <1>1, NothingMarked

-----------------------------------------------------------------------------
(* Type correctness.                                                        *)

Typed == TypeOK /\ LoopInv /\ MarkInv

\* The steps before the List leave the bindings and the marks alone.
LEMMA EarlyMarks ==
    ASSUME Typed, \/ Configure \/ applyResourcesToRuntimeCluster \/ InstallationInfo
                  \/ ApplyManifests \/ sFnConfigureSKR \/ OidcDelete
                  \/ recreateOpenIDConnectResources
    PROVE  MarkInv'
  <1>1. UNCHANGED bindings /\ bindings' \in [Bindings -> Nat] /\ mem \in Memory /\ MarkInv
    <2>1. UNCHANGED bindings
      BY DEF Configure, applyResourcesToRuntimeCluster, InstallationInfo, ApplyManifests,
         sFnConfigureSKR, OidcDelete, recreateOpenIDConnectResources, skrVars
    <2> QED
      BY <2>1 DEF Typed, TypeOK
  <1>2. ASSUME NEW step, NEW m, Goto(step, m), m.removed = mem.removed \/ m = NoMem
        PROVE  MarkInv'
    <2>1. mem' = m /\ NoMem.removed = None
      BY <1>2 DEF Goto, NoMem
    <2>2. mem'.removed = mem.removed \/ mem'.removed = None
      BY <1>2, <2>1
    <2> QED
      BY <1>1, <2>2, NothingMarked, MarksKept
  <1>3. \A w, i : [mem EXCEPT !.want = w, !.ix = i].removed = mem.removed
    BY <1>1 DEF Memory
  <1>4. \A o, i : [mem EXCEPT !.manifests = o, !.ix = i].removed = mem.removed
    BY <1>1 DEF Memory
  <1>5. \A i : [mem EXCEPT !.ix = i].removed = mem.removed
    BY <1>1 DEF Memory
  <1>6. CASE Retry \/ Return("Failed")
    BY <1>1, <1>6, ReturnMarks
  <1>7. CASE Configure
    BY <1>2, <1>3, <1>6, <1>7 DEF Configure
  <1>8. CASE applyResourcesToRuntimeCluster
    BY <1>2, <1>5, <1>6, <1>8 DEF applyResourcesToRuntimeCluster
  <1>9. CASE InstallationInfo
    BY <1>2, <1>4, <1>6, <1>9 DEF InstallationInfo
  <1>10. CASE ApplyManifests
    BY <1>2, <1>5, <1>6, <1>10 DEF ApplyManifests
  <1>11. CASE sFnConfigureSKR
    BY <1>2, <1>6, <1>11 DEF sFnConfigureSKR
  <1>12. CASE OidcDelete
    BY <1>2, <1>5, <1>6, <1>12 DEF OidcDelete
  <1>13. CASE recreateOpenIDConnectResources
    BY <1>2, <1>5, <1>6, <1>13 DEF recreateOpenIDConnectResources
  <1> QED
    BY <1>7, <1>8, <1>9, <1>10, <1>11, <1>12, <1>13

LEMMA BootstrapperTyped ==
    ASSUME Typed, \/ Configure \/ applyResourcesToRuntimeCluster \/ InstallationInfo
                  \/ ApplyManifests
    PROVE  Typed'
  <1> USE DEF Typed
  <1>m. MarkInv'
    BY EarlyMarks
  <1>0. /\ conf \in [Part -> Nat] /\ docs \in [1..Docs -> Manifests]
        /\ deployed \in [ready: BOOLEAN, progressing: BOOLEAN] /\ info \in 0..MaxEdits
        /\ \A id \in DOMAIN oidc : oidc[id] \in Issuers
        /\ bindings \in [Bindings -> Nat] /\ swallowed \subseteq Nat /\ mem \in Memory
        /\ kcp.conf \in [Part -> Nat] /\ kcp.manifests \in Manifests
    BY DEF TypeOK
  <1>1. CASE Configure
    <2>1. Ends /\ LoopInv'
      <3>1. CASE Goto("apply", [mem EXCEPT !.want = kcp.conf, !.ix = 1])
        <4>1. [mem EXCEPT !.want = kcp.conf, !.ix = 1] \in Memory
          BY <1>0, MemType
        <4>2. mem'.ix = 1 /\ pc' = "apply"
          BY <3>1, <1>0 DEF Goto, Memory
        <4> QED
          BY <3>1, <4>1, <4>2, ConstTypes DEF Ends, Steps, LoopInv
      <3> QED
        BY <1>1, <3>1, RetryEnds DEF Configure
    <2> QED
      BY <1>0, <1>1, <2>1, <1>m, KimType DEF Configure, skrVars
  <1>2. CASE applyResourcesToRuntimeCluster
    <2>1. mem.ix \in Part /\ mem.want[mem.ix] \in Nat
      BY <1>0, <1>2, MemType DEF applyResourcesToRuntimeCluster, LoopInv
    <2>2. conf' \in [Part -> Nat]
      BY <1>0, <1>2, <2>1 DEF applyResourcesToRuntimeCluster
    <2>3. Ends /\ LoopInv'
      <3>1. CASE mem.ix < Len(Parts) /\ Goto("apply", [mem EXCEPT !.ix = mem.ix + 1])
        <4>1. [mem EXCEPT !.ix = mem.ix + 1] \in Memory
          BY <1>0, NextIx
        <4>2. mem'.ix = mem.ix + 1 /\ pc' = "apply"
          BY <3>1, <1>0 DEF Goto, Memory
        <4>3. mem'.ix \in Part
          BY <2>1, <3>1, <4>2, ConstTypes
        <4> QED
          BY <3>1, <4>1, <4>2, <4>3 DEF Ends, Steps, LoopInv
      <3>2. CASE Goto("info", NoMem)
        BY <3>2, NoMemType DEF Ends, Steps, LoopInv, Goto
      <3> QED
        BY <1>2, <3>1, <3>2, RetryEnds DEF applyResourcesToRuntimeCluster
    <2>4. UNCHANGED <<docs, deployed, info, oidc, bindings, touched, swallowed>>
          /\ Keep /\ (Done \/ Fault)
      BY <1>2 DEF applyResourcesToRuntimeCluster
    <2> QED
      BY <1>0, <2>2, <2>3, <2>4, <1>m, KimType
  <1>3. CASE InstallationInfo
    <2>1. Ends /\ LoopInv'
      <3>1. CASE Goto("install", [mem EXCEPT !.manifests = kcp.manifests, !.ix = 1])
        <4>1. [mem EXCEPT !.manifests = kcp.manifests, !.ix = 1] \in Memory
          BY <1>0, MemType
        <4>2. mem'.ix = 1 /\ pc' = "install"
          BY <3>1, <1>0 DEF Goto, Memory
        <4> QED
          BY <3>1, <4>1, <4>2, ConstTypes DEF Ends, Steps, LoopInv
      <3>2. CASE Goto("skr", mem)
        BY <1>0, <3>2 DEF Ends, Steps, LoopInv, Goto
      <3>3. CASE Return("Failed")
        BY <3>3, Returned DEF Ends, States
      <3> QED
        BY <1>3, <3>1, <3>2, <3>3, RetryEnds DEF InstallationInfo
    <2> QED
      BY <1>0, <1>3, <2>1, <1>m, KimType DEF InstallationInfo, skrVars
  <1>4. CASE ApplyManifests
    <2>1. mem.ix \in 1..Docs /\ mem.manifests \in Manifests
      BY <1>0, <1>4, MemType DEF ApplyManifests, LoopInv
    <2>2. docs' \in [1..Docs -> Manifests]
      BY <1>0, <1>4, <2>1 DEF ApplyManifests, applyObject
    <2>3. deployed' \in [ready: BOOLEAN, progressing: BOOLEAN]
      <3>1. [ready |-> deployed.ready /\ ~NotInstalled, progressing |-> TRUE]
              \in [ready: BOOLEAN, progressing: BOOLEAN]
        OBVIOUS
      <3> QED
        BY <1>0, <1>4, <3>1 DEF ApplyManifests, applyObject
    <2>4. Ends /\ LoopInv'
      <3>1. CASE mem.ix < Docs /\ Goto("install", [mem EXCEPT !.ix = @ + 1])
        <4>1. [mem EXCEPT !.ix = @ + 1] \in Memory
          BY <1>0, NextIx
        <4>2. mem'.ix = mem.ix + 1 /\ pc' = "install"
          BY <3>1, <1>0 DEF Goto, Memory
        <4>3. mem'.ix \in 1..Docs
          BY <2>1, <3>1, <4>2, ConstTypes
        <4> QED
          BY <3>1, <4>1, <4>2, <4>3 DEF Ends, Steps, LoopInv
      <3> QED
        BY <1>4, <3>1, RetryEnds DEF ApplyManifests
    <2>5. UNCHANGED <<conf, info, oidc, bindings, touched, swallowed>>
          /\ Keep /\ (Done \/ Fault)
      BY <1>4 DEF ApplyManifests
    <2> QED
      BY <1>0, <2>2, <2>3, <2>4, <2>5, <1>m, KimType
  <1> QED
    BY <1>1, <1>2, <1>3, <1>4

LEMMA OidcTyped ==
    ASSUME Typed, sFnConfigureSKR \/ OidcDelete \/ recreateOpenIDConnectResources
    PROVE  Typed'
  <1> USE DEF Typed
  <1>m. MarkInv'
    BY EarlyMarks
  <1>0. /\ conf \in [Part -> Nat] /\ docs \in [1..Docs -> Manifests]
        /\ deployed \in [ready: BOOLEAN, progressing: BOOLEAN] /\ info \in 0..MaxEdits
        /\ \A id \in DOMAIN oidc : oidc[id] \in Issuers
        /\ bindings \in [Bindings -> Nat] /\ swallowed \subseteq Nat /\ mem \in Memory
        /\ inst \in Runtime
    BY DEF TypeOK
  <1>1. CASE sFnConfigureSKR
    <2>1. info' \in 0..MaxEdits
      BY <1>0, <1>1, RuntimeType DEF sFnConfigureSKR, applyKymaProvisioningInfoCM
    <2>2. Ends /\ LoopInv'
      <3>1. CASE Goto(IF extension THEN "oidc_delete" ELSE "crb", mem)
        <4>1. (IF extension THEN "oidc_delete" ELSE "crb") \in Steps \ {"idle"}
          BY DEF Steps
        <4>2. pc' \in {"oidc_delete", "crb"}
          BY <3>1 DEF Goto
        <4> QED
          BY <1>0, <3>1, <4>1, <4>2 DEF Ends, LoopInv
      <3> QED
        BY <1>1, <3>1, RetryEnds DEF sFnConfigureSKR
    <2>3. UNCHANGED <<conf, docs, deployed, oidc, bindings, touched, swallowed>>
          /\ Keep /\ (Done \/ Fault)
      BY <1>1 DEF sFnConfigureSKR
    <2> QED
      BY <1>0, <2>1, <2>2, <2>3, <1>m, KimType
  <1>2. CASE OidcDelete
    <2>1. \A id \in DOMAIN oidc' : oidc'[id] \in Issuers
      <3>1. \A ids : \A id \in DOMAIN Without(oidc, ids) : Without(oidc, ids)[id] \in Issuers
        BY <1>0 DEF Without
      <3> QED
        BY <1>2, <3>1 DEF OidcDelete, deleteExistingKymaOpenIDConnectResources
    <2>2. Ends /\ LoopInv'
      <3>1. CASE Goto("crb", mem)
        BY <1>0, <3>1 DEF Ends, Steps, LoopInv, Goto
      <3>2. CASE oidcConfigs(inst) # <<>> /\ Goto("oidc_create", [mem EXCEPT !.ix = 1])
        <4>1. [mem EXCEPT !.ix = 1] \in Memory
          BY <1>0 DEF Memory
        <4>2. mem'.ix = 1 /\ pc' = "oidc_create"
          BY <3>2, <1>0 DEF Goto, Memory
        <4>3. oidcConfigs(inst) \in Seq(Issuers)
          BY <1>0, OidcConfigsType
        <4>4. 1 \in DOMAIN oidcConfigs(inst)
          BY <3>2, <4>3
        <4>5. UNCHANGED inst
          BY <1>2 DEF OidcDelete, Keep
        <4>6. 1 \in DOMAIN oidcConfigs(inst')
          BY <4>4, <4>5
        <4> QED
          BY <3>2, <4>1, <4>2, <4>6 DEF Ends, Steps, LoopInv
      <3> QED
        BY <1>2, <3>1, <3>2, RetryEnds DEF OidcDelete
    <2>3. UNCHANGED <<conf, docs, deployed, info, bindings>>
          /\ Keep /\ (Done \/ Fault) /\ touched' \subseteq touched /\ swallowed' \subseteq Nat
      BY <1>0, <1>2 DEF OidcDelete
    <2> QED
      BY <1>0, <2>1, <2>2, <2>3, <1>m, KimType
  <1>3. CASE recreateOpenIDConnectResources
    <2>0. mem.ix \in DOMAIN oidcConfigs(inst) /\ oidcConfigs(inst) \in Seq(Issuers)
      BY <1>0, <1>3, OidcConfigsType DEF recreateOpenIDConnectResources, LoopInv
    <2>1. \A id \in DOMAIN oidc' : oidc'[id] \in Issuers
      <3>1. oidcConfigs(inst)[mem.ix] \in Issuers
        BY <2>0
      <3>2. CASE createOpenIDConnectResource(mem.ix)
        BY <1>0, <3>1, <3>2 DEF createOpenIDConnectResource
      <3>3. CASE UNCHANGED oidc
        BY <1>0, <3>3
      <3> QED
        BY <1>3, <3>2, <3>3 DEF recreateOpenIDConnectResources
    <2>2. Ends /\ LoopInv'
      <3>1. CASE mem.ix # Len(oidcConfigs(inst)) /\ Goto("oidc_create", [mem EXCEPT !.ix = @ + 1])
        <4>1. [mem EXCEPT !.ix = @ + 1] \in Memory
          BY <1>0, NextIx
        <4>2. mem'.ix = mem.ix + 1 /\ pc' = "oidc_create"
          BY <3>1, <1>0 DEF Goto, Memory
        <4>3. mem.ix + 1 \in DOMAIN oidcConfigs(inst)
          BY <2>0, <3>1
        <4>4. UNCHANGED inst
          BY <1>3 DEF recreateOpenIDConnectResources, Keep
        <4>5. mem.ix + 1 \in DOMAIN oidcConfigs(inst')
          BY <4>3, <4>4
        <4> QED
          BY <3>1, <4>1, <4>2, <4>5 DEF Ends, Steps, LoopInv
      <3>2. CASE Goto("crb", NoMem)
        BY <3>2, NoMemType DEF Ends, Steps, LoopInv, Goto
      <3> QED
        BY <1>3, <3>1, <3>2, RetryEnds DEF recreateOpenIDConnectResources
    <2>3. UNCHANGED <<conf, docs, deployed, info, bindings, touched>>
          /\ Keep /\ (Done \/ Fault)
      BY <1>3 DEF recreateOpenIDConnectResources
    <2>4. swallowed' \subseteq Nat
      <3>1. mem.ix \in Nat
        BY <1>0, MemType
      <3> QED
        BY <1>0, <1>3, <3>1 DEF recreateOpenIDConnectResources
    <2> QED
      BY <1>0, <2>1, <2>2, <2>3, <2>4, <1>m, KimType
  <1> QED
    BY <1>1, <1>2, <1>3

LEMMA BindingsTyped ==
    ASSUME Typed, sFnApplyClusterRoleBindings \/ newDelCRBs \/ newAddCRBs
    PROVE  Typed'
  <1> USE DEF Typed
  <1>0. /\ conf \in [Part -> Nat] /\ docs \in [1..Docs -> Manifests]
        /\ deployed \in [ready: BOOLEAN, progressing: BOOLEAN] /\ info \in 0..MaxEdits
        /\ \A id \in DOMAIN oidc : oidc[id] \in Issuers
        /\ bindings \in [Bindings -> Nat] /\ swallowed \subseteq Nat /\ mem \in Memory
        /\ inst \in Runtime /\ inst.admins \in Seq(Users)
    BY RuntimeType DEF TypeOK
  <1>1. CASE sFnApplyClusterRoleBindings
    <2> DEFINE rem == [b \in Bindings |-> IF getRemoved(b, inst) THEN bindings[b] ELSE 0]
               m == [mem EXCEPT !.removed = rem, !.missing = getMissing(inst)]
    <2>1. Ends /\ LoopInv'
      <3>1. CASE Goto("crb_delete", m)
        <4>1. rem \in [Bindings -> Nat]
          BY <1>0
        <4>2. getMissing(inst) \subseteq DOMAIN inst.admins /\ DOMAIN inst.admins \subseteq Nat
          BY <1>0 DEF getMissing
        <4>3. m \in Memory /\ m.missing = getMissing(inst)
          BY <1>0, <4>1, <4>2 DEF Memory
        <4>4. UNCHANGED inst
          BY <1>1 DEF sFnApplyClusterRoleBindings, Keep
        <4>5. LoopInv'
          BY <3>1, <4>2, <4>3, <4>4 DEF Goto, LoopInv
        <4> QED
          BY <3>1, <4>3, <4>5 DEF Ends, Steps
      <3> QED
        BY <1>1, <3>1, RetryEnds DEF sFnApplyClusterRoleBindings
    <2>2. MarkInv'
      <3>1. CASE Goto("crb_delete", m)
        <4>1. mem'.removed = rem
          BY <1>0, <3>1 DEF Goto, Memory
        <4>2. UNCHANGED bindings
          BY <1>1 DEF sFnApplyClusterRoleBindings, skrVars
        <4>3. \A b \in Bindings : rem[b] <= bindings[b]
          BY <1>0
        <4> QED
          BY <4>1, <4>2, <4>3 DEF MarkInv
      <3>2. CASE Retry
        BY <1>0, <1>1, <3>2, ReturnMarks DEF sFnApplyClusterRoleBindings, skrVars
      <3> QED
        BY <1>1, <3>1, <3>2 DEF sFnApplyClusterRoleBindings
    <2> QED
      BY <1>0, <1>1, <2>1, <2>2, KimType DEF sFnApplyClusterRoleBindings, skrVars
  <1>2. CASE newDelCRBs
    <2>0. mem.missing \subseteq DOMAIN inst.admins /\ UNCHANGED inst
      BY <1>2 DEF newDelCRBs, LoopInv, Keep
    <2>1. mem.removed \in [Bindings -> Nat]
          /\ \A b \in Bindings : mem.removed[b] > 0 => bindings[b] > 0
      <3>1. mem.removed \in [Bindings -> Nat]
        BY <1>0, MemType
      <3>2. ASSUME NEW b \in Bindings, mem.removed[b] > 0 PROVE bindings[b] > 0
        <4>1. mem.removed[b] <= bindings[b] /\ mem.removed[b] \in Nat /\ bindings[b] \in Nat
          BY <1>0, <3>1 DEF MarkInv
        <4> QED
          BY <3>2, <4>1
      <3> QED
        BY <3>1, <3>2
    <2>2. bindings' \in [Bindings -> Nat]
      <3>1. ASSUME NEW b \in Bindings, mem.removed[b] > 0
            PROVE  Less(bindings, b) \in [Bindings -> Nat]
        BY <1>0, <2>1, <3>1, LessIs
      <3> QED
        BY <1>0, <1>2, <3>1 DEF newDelCRBs
    <2>3. Ends /\ LoopInv' /\ MarkInv'
      <3>1. CASE Goto("crb_create", mem) /\ UNCHANGED bindings
        <4>1. mem'.removed = mem.removed
          BY <3>1 DEF Goto
        <4> QED
          BY <1>0, <2>0, <3>1, <4>1, MarksKept DEF Ends, Steps, LoopInv, Goto
      <3>2. ASSUME NEW b \in Bindings, mem.removed[b] > 0, bindings' = Less(bindings, b),
                   Goto("crb_delete", [mem EXCEPT !.removed = Less(@, b)])
            PROVE  Ends /\ LoopInv' /\ MarkInv'
        <4> DEFINE r == Less(mem.removed, b)
                   m == [mem EXCEPT !.removed = r]
        <4>1. r \in [Bindings -> Nat] /\ r[b] = mem.removed[b] - 1
              /\ \A c \in Bindings : c # b => r[c] = mem.removed[c]
          BY <2>1, <3>2, LessIs
        <4>2. bindings'[b] = bindings[b] - 1
              /\ \A c \in Bindings : c # b => bindings'[c] = bindings[c]
          BY <1>0, <3>2, LessIs
        <4>3. Goto("crb_delete", m)
          BY <3>2
        <4> HIDE DEF r
        <4>4. m \in Memory /\ m.missing = mem.missing /\ m.removed = r
          BY <1>0, <4>1 DEF Memory
        <4> HIDE DEF m
        <4>5. LoopInv'
          BY <2>0, <4>3, <4>4 DEF LoopInv, Goto
        <4>6. MarkInv'
          <5>1. mem'.removed = r
            BY <4>3, <4>4 DEF Goto
          <5>2. ASSUME NEW c \in Bindings PROVE r[c] <= bindings'[c]
            <6>1. mem.removed[c] <= bindings[c] /\ mem.removed[c] \in Nat /\ bindings[c] \in Nat
              BY <1>0, <2>1 DEF MarkInv
            <6>2. CASE c = b
              BY <4>1, <4>2, <6>1, <6>2
            <6>3. CASE c # b
              BY <4>1, <4>2, <6>1, <6>3
            <6> QED
              BY <6>2, <6>3
          <5> QED
            BY <5>1, <5>2 DEF MarkInv
        <4> QED
          BY <4>3, <4>4, <4>5, <4>6 DEF Ends, Steps
      <3>3. CASE Retry
        BY <2>2, <3>3, RetryEnds, ReturnMarks
      <3> QED
        BY <1>2, <3>1, <3>2, <3>3 DEF newDelCRBs
    <2>4. UNCHANGED <<conf, docs, deployed, info, oidc, touched, swallowed>>
          /\ Keep /\ (Done \/ Fault)
      BY <1>2 DEF newDelCRBs
    <2> QED
      BY <1>0, <2>2, <2>3, <2>4, KimType
  <1>3. CASE newAddCRBs
    <2>0. mem.missing \subseteq DOMAIN inst.admins /\ UNCHANGED inst
      BY <1>3 DEF newAddCRBs, LoopInv, Keep
    <2>1. bindings' \in [Bindings -> Nat]
      <3>1. \A i \in mem.missing : toAdminClusterRoleBinding(inst.admins[i]) \in Bindings
        BY <1>0, <2>0, BindingType
      <3>2. \A i \in mem.missing : LET b == toAdminClusterRoleBinding(inst.admins[i])
                                   IN  [bindings EXCEPT ![b] = @ + 1] \in [Bindings -> Nat]
        BY <1>0, <3>1, BindingType
      <3> QED
        BY <1>0, <1>3, <3>2 DEF newAddCRBs
    <2>2. Ends /\ LoopInv'
      <3>1. CASE Return("Ready")
        BY <3>1, Returned DEF Ends, States
      <3>2. ASSUME NEW i \in mem.missing, Goto("crb_create", [mem EXCEPT !.missing = @ \ {i}])
            PROVE  Ends /\ LoopInv'
        <4>1. [mem EXCEPT !.missing = @ \ {i}] \in Memory
              /\ [mem EXCEPT !.missing = @ \ {i}].missing = mem.missing \ {i}
          BY <1>0 DEF Memory
        <4>2. LoopInv'
          BY <2>0, <3>2, <4>1 DEF LoopInv, Goto
        <4> QED
          BY <3>2, <4>1, <4>2 DEF Ends, Steps
      <3> QED
        BY <1>3, <3>1, <3>2, RetryEnds DEF newAddCRBs
    <2>3. UNCHANGED <<conf, docs, deployed, info, oidc, touched, swallowed>>
          /\ Keep /\ (Done \/ Fault)
      BY <1>3 DEF newAddCRBs
    <2>4. MarkInv'
      <3>1. CASE Retry \/ Return("Ready")
        BY <2>1, <3>1, ReturnMarks
      <3>2. ASSUME NEW i \in mem.missing, Goto("crb_create", [mem EXCEPT !.missing = @ \ {i}]),
                   bindings' = [bindings EXCEPT ![toAdminClusterRoleBinding(inst.admins[i])] = @ + 1]
            PROVE  MarkInv'
        <4>1. mem'.removed = mem.removed
          BY <1>0, <3>2 DEF Goto, Memory
        <4>2. \A b \in Bindings : bindings[b] <= bindings'[b] /\ bindings[b] \in Nat
          BY <1>0, <3>2
        <4>3. mem.removed \in [Bindings -> Nat]
          BY <1>0, MemType
        <4>4. ASSUME NEW b \in Bindings PROVE mem.removed[b] <= bindings'[b]
          BY <2>1, <4>2, <4>3 DEF MarkInv
        <4> QED
          BY <4>1, <4>4 DEF MarkInv
      <3> QED
        BY <1>3, <3>1, <3>2 DEF newAddCRBs
    <2> QED
      BY <1>0, <2>1, <2>2, <2>3, <2>4, KimType
  <1> QED
    BY <1>1, <1>2, <1>3

LEMMA InitTyped == Init => Typed
  <1> SUFFICES ASSUME Init PROVE Typed
    OBVIOUS
  <1>0. 0 \in 0..MaxEdits /\ 0 \in 0..MaxKcp /\ 0 \in 0..MaxFaults /\ 0 \in 0..MaxTamper
    BY ConstTypes
  <1>1. spec \in Runtime /\ inst \in Runtime
    <2>1. spec \in AtGen(0, FALSE) /\ inst = spec
      BY DEF Init
    <2>2. spec \in Runtime
      <3>1. \A g \in 0..MaxEdits, f \in BOOLEAN : AtGen(g, f) \subseteq Runtime
        BY DEF Runtime
      <3> QED
        BY <1>0, <2>1, <3>1
    <2> QED
      BY <2>1, <2>2
  <1>2. NoObject \in Manifests /\ [content |-> 1, label |-> 1] \in Manifests
    BY DEF NoObject, Manifests
  <1>3. bindings \in [Bindings -> Nat]
    <2>1. None \in [Bindings -> Nat]
      BY DEF None
    <2>2. PICK u \in Users : bindings = [None EXCEPT ![[managed |-> FALSE, users |-> {u}]] = 1]
      BY DEF Init
    <2> QED
      BY <2>1, <2>2
  <1>4. DOMAIN oidc = {}
    <2>1. oidc = <<>>
      BY DEF Init
    <2> QED
      BY <2>1
  <1>5. kcp \in [conf: [Part -> Nat], manifests: Manifests]
    <2>1. kcp = [conf |-> [p \in Part |-> 1], manifests |-> [content |-> 1, label |-> 1]]
      BY DEF Init
    <2> QED
      BY <1>2, <2>1
  <1>8. conf \in [Part -> Nat] /\ docs \in [1..Docs -> Manifests]
    <2>1. conf = [p \in Part |-> 0] /\ docs = [d \in 1..Docs |-> NoObject]
      BY DEF Init
    <2> QED
      BY <1>2, <2>1
  <1>9. status \in [state: States, gen: 0..MaxEdits] /\ info \in 0..MaxEdits
        /\ applied \in 0..MaxEdits /\ unfinished \in BOOLEAN /\ refused \in BOOLEAN
        /\ deployed \in [ready: BOOLEAN, progressing: BOOLEAN]
    <2>1. status = [state |-> "", gen |-> 0] /\ info = 0 /\ applied = 0
          /\ unfinished = FALSE /\ refused = FALSE
          /\ deployed = [ready |-> FALSE, progressing |-> FALSE]
      BY DEF Init
    <2> QED
      BY <1>0, <2>1 DEF States
  <1>10. extension \in BOOLEAN /\ queued \in BOOLEAN /\ pc \in Steps /\ mem \in Memory
         /\ changes \in 0..MaxKcp /\ faults \in 0..MaxFaults /\ tamper \in 0..MaxTamper
         /\ touched \subseteq {"oidc", "crb"} /\ shared \in BOOLEAN /\ swallowed \subseteq Nat
    <2>1. extension \in BOOLEAN /\ queued = TRUE /\ pc = "idle" /\ mem = NoMem /\ changes = 0
          /\ faults = 0 /\ tamper = 0 /\ touched = {} /\ shared = FALSE /\ swallowed = {}
      BY DEF Init
    <2> QED
      BY <1>0, <2>1, NoMemType DEF Steps
  <1>6. TypeOK
    BY <1>1, <1>3, <1>4, <1>5, <1>8, <1>9, <1>10 DEF TypeOK
  <1>7. LoopInv
    BY DEF Init, LoopInv
  <1>11. MarkInv
    <2>1. mem.removed = None
      BY DEF Init, NoMem
    <2> QED
      BY <1>3, <2>1 DEF MarkInv, None
  <1> QED
    BY <1>6, <1>7, <1>11 DEF Typed

\* The Update that removes the annotation.
LEMMA UnforcedType ==
    ASSUME TypeOK, handleForceReconciliationAnnotation
    PROVE  spec' \in Runtime /\ inst' \in Runtime
  <1>1. PICK g \in {spec.gen, spec.gen + 1} \cap 0..MaxEdits :
          spec' = [gen |-> g, admins |-> spec.admins, oidc |-> spec.oidc, forced |-> FALSE]
    BY DEF handleForceReconciliationAnnotation
  <1>2. spec \in Runtime /\ g \in 0..MaxEdits /\ inst' = spec'
    BY DEF handleForceReconciliationAnnotation, TypeOK
  <1> QED
    BY <1>1, <1>2, RuntimeType

\* How the patch ends: to the cluster, to the write of the status, or at once.
LEMMA PatchEnds ==
    ASSUME Typed, sFnPatchExistingShoot
    PROVE  /\ \/ pc' = "configure" /\ mem' = mem
              \/ pc' = "status" /\ mem' \in Memory /\ mem'.removed = None
                 /\ mem'.state \in {"Pending", "Failed"}
              \/ pc' = "idle" /\ mem' = NoMem
           /\ UNCHANGED status /\ queued' \in BOOLEAN
  <1>0. queued \in BOOLEAN
    BY DEF Typed, TypeOK
  <1>1. ASSUME Retry \/ Return("Failed")
        PROVE  /\ pc' = "status" /\ mem' \in Memory /\ mem'.removed = None
               /\ mem'.state \in {"Pending", "Failed"} /\ UNCHANGED <<status, queued>>
    <2>1. CASE Return("Failed")
      BY <2>1, ReturnIs DEF States
    <2>2. CASE Return("Pending")
      BY <2>2, ReturnIs DEF States
    <2> QED
      BY <1>1, <2>1, <2>2 DEF Retry
  <1>2. CASE pc' = "status" /\ mem' = [NoMem EXCEPT !.state = "Pending"] /\ UNCHANGED status
             /\ queued' = TRUE
    <2>1. NoMem \in Memory /\ NoMem.removed = None
      BY NoMemType DEF NoMem
    <2>2. mem' \in Memory /\ mem'.removed = None /\ mem'.state = "Pending"
      BY <1>2, <2>1 DEF Memory, States
    <2> QED
      BY <1>2, <2>2
  <1>3. CASE Goto("configure", mem)
    BY <1>0, <1>3 DEF Goto
  <1>4. CASE Requeue
    BY <1>4 DEF Requeue
  <1>5. CASE pc' = "configure" /\ mem' = mem /\ queued' = TRUE /\ UNCHANGED status
    BY <1>5
  <1> QED
    BY <1>0, <1>1, <1>2, <1>3, <1>4, <1>5 DEF sFnPatchExistingShoot

LEMMA PatchTyped ==
    ASSUME Typed, sFnPatchExistingShoot
    PROVE  Typed'
  <1> USE DEF Typed
  <1>1. spec' \in Runtime /\ inst' \in Runtime
    <2>1. UNCHANGED <<spec, inst>> \/ handleForceReconciliationAnnotation
      BY DEF sFnPatchExistingShoot
    <2> QED
      BY <2>1, UnforcedType DEF TypeOK
  <1>2. applied' \in 0..MaxEdits /\ unfinished' \in BOOLEAN /\ refused' \in BOOLEAN
    <2>1. inst.gen \in 0..MaxEdits /\ applied \in 0..MaxEdits /\ unfinished \in BOOLEAN
          /\ refused \in BOOLEAN
      BY RuntimeType DEF TypeOK
    <2>2. applied' \in {applied, inst.gen} /\ unfinished' \in {unfinished, TRUE}
          /\ refused' \in {refused, TRUE, FALSE}
      BY DEF sFnPatchExistingShoot
    <2> QED
      BY <2>1, <2>2
  <1>3. faults' \in 0..MaxFaults
    BY FaultType DEF sFnPatchExistingShoot
  <1>4. /\ \/ pc' = "configure" /\ mem' = mem
           \/ pc' = "status" /\ mem' \in Memory /\ mem'.removed = None
           \/ pc' = "idle" /\ mem' = NoMem
        /\ UNCHANGED status /\ queued' \in BOOLEAN
    BY PatchEnds
  <1>5. UNCHANGED <<kcp, extension, changes, conf, docs, deployed, info, oidc, bindings,
                    tamper, touched, shared, swallowed>>
    BY DEF sFnPatchExistingShoot, skrVars
  <1>6. pc' \in Steps /\ mem' \in Memory
    <2>1. mem \in Memory
      BY DEF TypeOK
    <2> QED
      BY <1>4, <2>1, NoMemType DEF Steps
  <1>7. TypeOK'
    BY <1>1, <1>2, <1>3, <1>4, <1>5, <1>6 DEF TypeOK
  <1>8. LoopInv'
    BY <1>4 DEF LoopInv
  <1>9. MarkInv'
    <2>0. NoMem.removed = None
      BY DEF NoMem
    <2>1. mem'.removed = mem.removed \/ mem'.removed = None
      BY <1>4, <2>0
    <2>2. bindings' \in [Bindings -> Nat]
      BY <1>7 DEF TypeOK
    <2> QED
      BY <1>5, <2>1, <2>2, NothingMarked, MarksKept
  <1> QED
    BY <1>7, <1>8, <1>9

LEMMA StatusTyped ==
    ASSUME Typed, sFnUpdateStatus
    PROVE  Typed'
  <1> USE DEF Typed
  <1>1. status' \in [state: States, gen: 0..MaxEdits] /\ unfinished' \in BOOLEAN
        /\ queued' \in BOOLEAN
    <2>1. mem.state \in States /\ inst.gen \in 0..MaxEdits /\ queued \in BOOLEAN
          /\ unfinished \in BOOLEAN /\ status \in [state: States, gen: 0..MaxEdits]
      BY RuntimeType, MemType DEF TypeOK
    <2>2. /\ status' = status \/ status' = [state |-> mem.state, gen |-> inst.gen]
          /\ unfinished' = unfinished \/ unfinished' = FALSE
          /\ queued' = TRUE \/ queued' = (queued \/ mem.state = "Pending")
      BY DEF sFnUpdateStatus, requeues
    <2>3. (queued \/ mem.state = "Pending") \in BOOLEAN
      OBVIOUS
    <2>4. queued' \in BOOLEAN /\ unfinished' \in BOOLEAN
      BY <2>1, <2>2, <2>3, Zenon
    <2>5. status' \in [state: States, gen: 0..MaxEdits]
      BY <2>1, <2>2
    <2> QED
      BY <2>4, <2>5
  <1>2. pc' = "idle" /\ mem' = NoMem /\ (Done \/ Fault)
        /\ UNCHANGED <<spec, applied, kcp, extension, changes, inst, tamper, shared, refused,
                       conf, docs, deployed, info, oidc, bindings, touched, swallowed>>
    BY DEF sFnUpdateStatus, skrVars
  <1>3. faults' \in 0..MaxFaults
    BY <1>2, FaultType
  <1>4. TypeOK'
    BY <1>1, <1>2, <1>3, NoMemType DEF TypeOK, Steps
  <1>5. LoopInv'
    BY <1>2 DEF LoopInv
  <1>6. MarkInv'
    BY <1>2, <1>4, NothingMarked DEF TypeOK, NoMem
  <1> QED
    BY <1>4, <1>5, <1>6

\* A user's change to a binding: one that is to be deleted remains marked.
LEMMA TamperedMarks ==
    ASSUME Typed, TamperBindings
    PROVE  /\ bindings' \in [Bindings -> Nat] /\ shared' \in BOOLEAN /\ mem' \in Memory
           /\ mem'.ix = mem.ix /\ mem'.missing = mem.missing /\ MarkInv'
  <1>0. /\ bindings \in [Bindings -> Nat] /\ shared \in BOOLEAN /\ mem \in Memory
        /\ mem.removed \in [Bindings -> Nat] /\ mem.late \subseteq Users
        /\ \A c \in Bindings : /\ mem.removed[c] <= bindings[c]
                               /\ mem.removed[c] \in Nat /\ bindings[c] \in Nat
    BY MemType DEF Typed, TypeOK, MarkInv
  <1>1. PICK b \in Bindings, listed \in BOOLEAN :
          /\ IF listed THEN mem.removed[b] > 0 ELSE bindings[b] > mem.removed[b]
          /\ \/ /\ bindings' = Less(bindings, b) /\ UNCHANGED shared
                /\ mem' = IF listed THEN [mem EXCEPT !.removed = Less(@, b), !.gone = TRUE]
                                    ELSE mem
             \/ /\ shared' = TRUE
                /\ \E u \in Users \ b.users :
                     /\ bindings' = Extended(bindings, b, u)
                     /\ mem' = IF listed THEN [mem EXCEPT !.removed = Extended(@, b, u),
                                                          !.late = @ \cup {u}]
                                         ELSE mem
    BY DEF TamperBindings
  <1>2. bindings[b] > 0 /\ (listed => mem.removed[b] > 0)
    <2>1. mem.removed[b] <= bindings[b] /\ mem.removed[b] \in Nat /\ bindings[b] \in Nat
      BY <1>0
    <2>2. (listed /\ mem.removed[b] > 0) \/ (~listed /\ bindings[b] > mem.removed[b])
      BY <1>1
    <2> QED
      BY <2>1, <2>2
  <1>3. CASE bindings' = Less(bindings, b) /\ UNCHANGED shared
             /\ mem' = IF listed THEN [mem EXCEPT !.removed = Less(@, b), !.gone = TRUE] ELSE mem
    <2>1. /\ bindings' \in [Bindings -> Nat] /\ bindings'[b] = bindings[b] - 1
          /\ \A c \in Bindings : c # b => bindings'[c] = bindings[c]
      BY <1>0, <1>2, <1>3, LessIs
    <2>2. CASE listed
      <3> DEFINE r == Less(mem.removed, b)
      <3>1. /\ r \in [Bindings -> Nat] /\ r[b] = mem.removed[b] - 1
            /\ \A c \in Bindings : c # b => r[c] = mem.removed[c]
        BY <1>0, <1>2, <2>2, LessIs
      <3>2. mem' = [mem EXCEPT !.removed = r, !.gone = TRUE]
        BY <1>3, <2>2
      <3> HIDE DEF r
      <3>3. mem' \in Memory /\ mem'.ix = mem.ix /\ mem'.missing = mem.missing
            /\ mem'.removed = r
        BY <1>0, <3>1, <3>2 DEF Memory
      <3>4. \A c \in Bindings : r[c] <= bindings'[c]
        BY <1>0, <2>1, <3>1
      <3> QED
        BY <1>0, <1>3, <2>1, <3>3, <3>4 DEF MarkInv
    <2>3. CASE ~listed
      <3>1. \A c \in Bindings : mem.removed[c] <= bindings'[c]
        BY <1>0, <1>1, <2>1, <2>3
      <3> QED
        BY <1>0, <1>3, <2>1, <2>3, <3>1 DEF MarkInv
    <2> QED
      BY <2>2, <2>3
  <1>4. ASSUME NEW u \in Users, u \notin b.users, shared' = TRUE,
               bindings' = Extended(bindings, b, u),
               mem' = IF listed THEN [mem EXCEPT !.removed = Extended(@, b, u), !.late = @ \cup {u}]
                                ELSE mem
        PROVE  /\ bindings' \in [Bindings -> Nat] /\ shared' \in BOOLEAN /\ mem' \in Memory
               /\ mem'.ix = mem.ix /\ mem'.missing = mem.missing /\ MarkInv'
    <2> DEFINE e == Grown(b, u)
    <2>1. /\ bindings' \in [Bindings -> Nat] /\ bindings'[b] = bindings[b] - 1
          /\ e \in Bindings /\ e # b /\ bindings'[e] = bindings[e] + 1
          /\ \A c \in Bindings : c \notin {b, e} => bindings'[c] = bindings[c]
      BY <1>0, <1>2, <1>4, ExtendedIs
    <2>2. CASE listed
      <3> DEFINE r == Extended(mem.removed, b, u)
      <3>1. /\ r \in [Bindings -> Nat] /\ r[b] = mem.removed[b] - 1
            /\ r[e] = mem.removed[e] + 1
            /\ \A c \in Bindings : c \notin {b, e} => r[c] = mem.removed[c]
        BY <1>0, <1>2, <1>4, <2>2, ExtendedIs
      <3>2. mem' = [mem EXCEPT !.removed = r, !.late = @ \cup {u}]
        BY <1>4, <2>2
      <3> HIDE DEF r, e
      <3>3. mem' \in Memory /\ mem'.ix = mem.ix /\ mem'.missing = mem.missing
            /\ mem'.removed = r
        BY <1>0, <3>1, <3>2 DEF Memory
      <3>4. \A c \in Bindings : r[c] <= bindings'[c]
        BY <1>0, <2>1, <3>1
      <3> QED
        BY <1>4, <2>1, <3>3, <3>4 DEF MarkInv
    <2>3. CASE ~listed
      <3> HIDE DEF e
      <3>1. \A c \in Bindings : mem.removed[c] <= bindings'[c]
        BY <1>0, <1>1, <2>1, <2>3
      <3> QED
        BY <1>0, <1>4, <2>1, <2>3, <3>1 DEF MarkInv
    <2> QED
      BY <2>2, <2>3
  <1> QED
    BY <1>1, <1>3, <1>4

\* The steps of others leave the reconciliation and the history of types alone.
LEMMA OthersTyped ==
    ASSUME Typed, \/ Reconcile \/ EditRuntime \/ ChangeKcp \/ TamperBindings \/ TamperOidc
                  \/ DeploymentReady \/ DeploymentFails \/ Restart \/ UNCHANGED vars
    PROVE  Typed'
  <1> USE DEF Typed
  <1>0. /\ changes \in 0..MaxKcp /\ faults \in 0..MaxFaults /\ tamper \in 0..MaxTamper
        /\ MaxKcp \in Nat /\ MaxFaults \in Nat /\ MaxTamper \in Nat /\ MaxEdits \in Nat
        /\ kcp \in [conf: [Part -> Nat], manifests: Manifests]
        /\ spec \in Runtime /\ spec.gen \in 0..MaxEdits /\ spec.forced \in BOOLEAN
    BY ConstTypes, RuntimeType DEF TypeOK
  <1>1. CASE Reconcile
    <2>1. pc' \in {"patch", "configure", "idle"} /\ unfinished' \in BOOLEAN
      BY <1>1 DEF Reconcile, TypeOK
    <2>2. TypeOK'
      BY <1>1, <2>1 DEF Reconcile, TypeOK, Steps, kcpVars, skrVars
    <2>3. LoopInv'
      BY <2>1 DEF LoopInv
    <2>4. MarkInv'
      BY <1>1, MarksKept DEF Reconcile, skrVars
    <2> QED
      BY <2>2, <2>3, <2>4
  <1>2. CASE EditRuntime
    <2>1. spec' \in Runtime
      <3>1. spec.gen + 1 \in 0..MaxEdits
        BY <1>0, <1>2 DEF EditRuntime
      <3>2. \A g \in 0..MaxEdits, f \in BOOLEAN : AtGen(g, f) \subseteq Runtime
        BY DEF Runtime
      <3> QED
        BY <1>0, <1>2, <3>1, <3>2 DEF EditRuntime
    <2>2. TypeOK'
      BY <1>2, <2>1 DEF EditRuntime, TypeOK, skrVars, history
    <2>3. LoopInv'
      BY <1>2 DEF EditRuntime, LoopInv
    <2>4. MarkInv'
      BY <1>2, MarksKept DEF EditRuntime, skrVars
    <2> QED
      BY <2>2, <2>3, <2>4
  <1>3. CASE ChangeKcp
    <2>1. changes' \in 0..MaxKcp
      BY <1>0, <1>3 DEF ChangeKcp
    <2>2. kcp' \in [conf: [Part -> Nat], manifests: Manifests]
      <3>1. ASSUME NEW q \in Part, kcp' = [kcp EXCEPT !.conf[q] = @ + 1]
            PROVE  kcp' \in [conf: [Part -> Nat], manifests: Manifests]
        <4>1. kcp.conf \in [Part -> Nat] /\ kcp.conf[q] + 1 \in Nat
          BY <1>0
        <4>2. [kcp.conf EXCEPT ![q] = @ + 1] \in [Part -> Nat]
          BY <4>1
        <4>3. kcp' = [kcp EXCEPT !.conf = [kcp.conf EXCEPT ![q] = @ + 1]]
          BY <1>0, <3>1
        <4> QED
          BY <1>0, <4>2, <4>3
      <3>2. CASE kcp' = [kcp EXCEPT !.manifests =
                           [content |-> @.content + 1, label |-> @.label + 1]]
        BY <1>0, <3>2 DEF Manifests
      <3>3. CASE kcp' = [kcp EXCEPT !.manifests.content = @ + 1]
        BY <1>0, <3>3 DEF Manifests
      <3> QED
        BY <1>3, <3>1, <3>2, <3>3 DEF ChangeKcp
    <2>5. spec' \in Runtime
      <3>1. spec' = [spec EXCEPT !.forced = TRUE]
        BY <1>3 DEF ChangeKcp
      <3>2. PICK g \in 0..MaxEdits, f \in BOOLEAN : spec \in AtGen(g, f)
        BY <1>0 DEF Runtime
      <3>3. PICK s \in Specs :
              spec = [gen |-> g, admins |-> s.admins, oidc |-> s.oidc, forced |-> f]
        BY <3>2 DEF AtGen
      <3>4. spec' = [gen |-> g, admins |-> s.admins, oidc |-> s.oidc, forced |-> TRUE]
        BY <3>1, <3>3
      <3>5. spec' \in AtGen(g, TRUE)
        BY <3>4 DEF AtGen
      <3>6. \A h \in 0..MaxEdits, e \in BOOLEAN : AtGen(h, e) \subseteq Runtime
        BY DEF Runtime
      <3> QED
        BY <3>5, <3>6
    <2>3. TypeOK'
      BY <1>3, <2>1, <2>2, <2>5 DEF ChangeKcp, TypeOK, skrVars, history
    <2>4. LoopInv'
      BY <1>3 DEF ChangeKcp, LoopInv
    <2>6. MarkInv'
      BY <1>3, MarksKept DEF ChangeKcp, skrVars
    <2> QED
      BY <2>3, <2>4, <2>6
  <1>4. ASSUME NEW what \in {"oidc", "crb"}, Tamper(what), bindings' \in [Bindings -> Nat],
               \A id \in DOMAIN oidc' : oidc'[id] \in Issuers, shared' \in BOOLEAN,
               mem' \in Memory, mem'.ix = mem.ix, mem'.missing = mem.missing, MarkInv'
        PROVE  Typed'
    <2>1. tamper' \in 0..MaxTamper
      BY <1>0, <1>4 DEF Tamper
    <2>2. TypeOK'
      BY <1>4, <2>1 DEF Tamper, TypeOK, kcpVars
    <2>3. LoopInv'
      BY <1>4 DEF Tamper, LoopInv
    <2> QED
      BY <1>4, <2>2, <2>3
  <1>5. CASE TamperBindings
    <2>1. bindings' \in [Bindings -> Nat] /\ shared' \in BOOLEAN /\ mem' \in Memory
          /\ mem'.ix = mem.ix /\ mem'.missing = mem.missing /\ MarkInv'
      BY <1>5, TamperedMarks
    <2>2. \A id \in DOMAIN oidc' : oidc'[id] \in Issuers
      BY <1>5 DEF TamperBindings, TypeOK
    <2>3. Tamper("crb")
      BY <1>5 DEF TamperBindings
    <2> QED
      BY <1>4, <2>1, <2>2, <2>3
  <1>6. CASE TamperOidc
    <2>1. \A id \in DOMAIN oidc' : oidc'[id] \in Issuers
      BY <1>6 DEF TamperOidc, Without, TypeOK
    <2>2. Tamper("oidc") /\ bindings' \in [Bindings -> Nat] /\ shared' \in BOOLEAN
          /\ mem' \in Memory /\ UNCHANGED mem
      BY <1>6 DEF TamperOidc, TypeOK
    <2>3. MarkInv'
      BY <1>6, <2>2, MarksKept DEF TamperOidc
    <2> QED
      BY <1>4, <2>1, <2>2, <2>3
  <1>7. CASE DeploymentReady \/ DeploymentFails
    <2>1. tamper' \in 0..MaxTamper
      BY <1>0, <1>7 DEF DeploymentReady, DeploymentFails, history
    <2>2. deployed' \in [ready: BOOLEAN, progressing: BOOLEAN]
      <3>1. deployed \in [ready: BOOLEAN, progressing: BOOLEAN]
        BY DEF TypeOK
      <3>2. CASE deployed' = [deployed EXCEPT !.ready = TRUE]
        BY <3>1, <3>2
      <3>3. CASE deployed' = [ready |-> FALSE, progressing |-> FALSE]
        BY <3>3
      <3> QED
        BY <1>7, <3>2, <3>3 DEF DeploymentReady, DeploymentFails
    <2>3. TypeOK'
      BY <1>7, <2>1, <2>2 DEF DeploymentReady, DeploymentFails, TypeOK, kcpVars, history
    <2>4. LoopInv'
      BY <1>7 DEF DeploymentReady, DeploymentFails, LoopInv
    <2>5. MarkInv'
      BY <1>7, MarksKept DEF DeploymentReady, DeploymentFails
    <2> QED
      BY <2>3, <2>4, <2>5
  <1>8. CASE Restart
    <2>1. faults' \in 0..MaxFaults
      BY <1>8, FaultType DEF Restart
    <2>2. TypeOK'
      BY <1>8, <2>1, NoMemType DEF Restart, TypeOK, Steps, kcpVars, skrVars, history
    <2>3. LoopInv'
      BY <1>8 DEF Restart, LoopInv
    <2>4. MarkInv'
      BY <1>8, <2>2, NothingMarked DEF Restart, TypeOK, NoMem
    <2> QED
      BY <2>2, <2>3, <2>4
  <1>9. CASE UNCHANGED vars
    <2>1. TypeOK'
      BY <1>9 DEF vars, TypeOK, kcpVars, skrVars, history
    <2>2. LoopInv'
      BY <1>9 DEF vars, LoopInv
    <2>3. MarkInv'
      BY <1>9, MarksKept DEF vars, skrVars
    <2> QED
      BY <2>1, <2>2, <2>3
  <1> QED
    BY <1>1, <1>2, <1>3, <1>5, <1>6, <1>7, <1>8, <1>9

LEMMA StepTyped == Typed /\ [Next]_vars => Typed'
  <1> SUFFICES ASSUME Typed, [Next]_vars PROVE Typed'
    OBVIOUS
  <1> QED
    BY BootstrapperTyped, OidcTyped, BindingsTyped, PatchTyped, StatusTyped, OthersTyped
       DEF Next, ReconcileStep

\* Every reachable state is of its type, whatever the constants are; in particular
\* an OpenIDConnect resource is never made of an entry without client ID or issuer.
THEOREM TypeCorrect == Spec => []TypeOK
  <1>1. Init => Typed
    BY InitTyped
  <1>2. Typed /\ [Next]_vars => Typed'
    BY StepTyped
  <1>3. Typed => TypeOK
    BY DEF Typed
  <1> QED
    BY <1>1, <1>2, <1>3, PTL DEF Spec

-----------------------------------------------------------------------------
(* The bindings of administrators.                                          *)

\* The steps in the cluster, and a Runtime that is about to be reported Ready.
Cluster == Steps \ {"idle", "patch", "status"}

Reports == pc = "status" /\ mem.state = "Ready"

\* A reconciliation that got as far as the cluster is unfinished until its status is
\* written.
WorkInv == pc \in Cluster \/ Reports => unfinished

\* Only bindings of KIM's are deleted, and none with an administrator in it who was
\* not added after the List.
RemovedInv ==
    pc = "crb_delete" =>
        \A b \in Bindings : mem.removed[b] > 0 =>
            /\ b.managed /\ b.users \cap admins(inst) \subseteq mem.late
            /\ "crb" \notin touched => getRemoved(b, inst)

\* Between the List and the end of the reconciliation: every administrator has a
\* binding or is due to get one, and what has to go is about to go or gone.
Covered ==
    \A u \in admins(inst) : newContainsAdmin(u) \/ \E i \in mem.missing : inst.admins[i] = u

TrackInv ==
    "crb" \notin touched =>
        /\ pc = "crb_delete" =>
             Covered /\ \A b \in Bindings : getRemoved(b, inst) => mem.removed[b] = bindings[b]
        /\ pc = "crb_create" =>
             Covered /\ \A b \in Bindings : getRemoved(b, inst) => bindings[b] = 0

SingleInv == ~shared => \A b \in Bindings : bindings[b] > 0 => \E u \in Users : b.users = {u}

BoundFor(rt) ==
    /\ admins(rt) \subseteq Bound
    /\ \A b \in Bindings : getRemoved(b, rt) => bindings[b] = 0

ReadyInv ==
    "crb" \notin touched => (Quiet => BoundFor(spec)) /\ (Reports => BoundFor(inst))

\* The status is never of a later generation than the Runtime's.
WrittenInv == status.gen <= spec.gen

SafeInv == Typed /\ WorkInv /\ RemovedInv /\ TrackInv /\ SingleInv /\ ReadyInv

LEMMA InitSafe == Init => SafeInv /\ WrittenInv
  <1> SUFFICES ASSUME Init PROVE SafeInv /\ WrittenInv
    OBVIOUS
  <1>1. Typed
    BY InitTyped
  <1>2. pc = "idle" /\ status = [state |-> "", gen |-> 0]
    BY DEF Init
  <1>3. ~Quiet /\ ~Reports
    BY <1>2 DEF Quiet, Reports
  <1>4. WorkInv /\ RemovedInv /\ TrackInv /\ ReadyInv
    BY <1>2, <1>3 DEF WorkInv, RemovedInv, TrackInv, ReadyInv, Cluster
  <1>6. WrittenInv
    <2>1. spec \in AtGen(0, FALSE)
      BY DEF Init
    <2>2. spec.gen = 0
      BY <2>1 DEF AtGen
    <2>3. status.gen = 0
      BY <1>2
    <2> QED
      BY <2>2, <2>3 DEF WrittenInv
  <1>5. SingleInv
    <2>1. PICK u \in Users : bindings = [None EXCEPT ![[managed |-> FALSE, users |-> {u}]] = 1]
      BY DEF Init
    <2>2. \A b \in Bindings : b # [managed |-> FALSE, users |-> {u}] => bindings[b] = 0
      BY <2>1 DEF None
    <2> QED
      BY <2>2 DEF SingleInv
  <1> QED
    BY <1>1, <1>4, <1>5, <1>6 DEF SafeInv

\* What is claimed of a Runtime depends on it and on the bindings alone.
LEMMA BoundKept ==
    ASSUME NEW x, UNCHANGED bindings, BoundFor(x)
    PROVE  BoundFor(x)'  \/ x' # x
  BY DEF BoundFor, Bound, newContainsAdmin, getRemoved, admins

\* Steps that leave the bindings alone, are not at work on them, and do not end a
\* reconciliation with success.
LEMMA Elsewhere ==
    ASSUME SafeInv, Typed', WorkInv', UNCHANGED <<bindings, shared>>,
           pc' \notin {"crb_delete", "crb_create"}, ~Reports',
           Quiet' => Quiet /\ UNCHANGED spec, "crb" \in touched => "crb" \in touched' \/ ~Quiet'
    PROVE  SafeInv'
  <1>1. RemovedInv' /\ TrackInv'
    BY DEF RemovedInv, TrackInv
  <1>2. SingleInv'
    BY DEF SafeInv, SingleInv
  <1>3. ReadyInv'
    BY BoundKept DEF SafeInv, ReadyInv
  <1> QED
    BY <1>1, <1>2, <1>3 DEF SafeInv

\* During the work in the cluster the Runtime is not quiet.
LEMMA AtWork ==
    ASSUME WorkInv, pc \in Cluster, Keep
    PROVE  unfinished' /\ ~Quiet' /\ WorkInv'
  BY DEF WorkInv, Keep, Quiet

LEMMA RetryReports ==
    ASSUME Retry \/ Return("Failed")
    PROVE  ~Reports' /\ pc' = "status" /\ UNCHANGED <<status, queued>>
  <1>1. CASE Return("Pending")
    BY <1>1, ReturnIs DEF States, Reports
  <1>2. CASE Return("Failed")
    BY <1>2, ReturnIs DEF States, Reports
  <1> QED
    BY <1>1, <1>2 DEF Retry

LEMMA GotoReports ==
    ASSUME NEW step, NEW m, Goto(step, m), step # "status"
    PROVE  ~Reports' /\ pc' = step
  BY DEF Goto, Reports

LEMMA EarlySafe ==
    ASSUME SafeInv, \/ Configure \/ applyResourcesToRuntimeCluster \/ InstallationInfo
                    \/ ApplyManifests \/ sFnConfigureSKR \/ OidcDelete
                    \/ recreateOpenIDConnectResources
    PROVE  SafeInv'
  <1>1. Typed'
    BY BootstrapperTyped, OidcTyped DEF SafeInv
  <1>2. UNCHANGED <<bindings, shared>> /\ pc \in Cluster /\ Keep
    BY DEF Configure, applyResourcesToRuntimeCluster, InstallationInfo, ApplyManifests,
       sFnConfigureSKR, OidcDelete, recreateOpenIDConnectResources, Keep, skrVars, Cluster, Steps
  <1>3. unfinished' /\ ~Quiet' /\ WorkInv'
    BY <1>2, AtWork DEF SafeInv
  <1>4. ~Reports' /\ pc' \notin {"crb_delete", "crb_create"}
    <2>1. CASE Configure
      BY <2>1, RetryReports, GotoReports DEF Configure
    <2>2. CASE applyResourcesToRuntimeCluster
      BY <2>2, RetryReports, GotoReports DEF applyResourcesToRuntimeCluster
    <2>3. CASE InstallationInfo
      BY <2>3, RetryReports, GotoReports DEF InstallationInfo
    <2>4. CASE ApplyManifests
      BY <2>4, RetryReports, GotoReports DEF ApplyManifests
    <2>5. CASE sFnConfigureSKR
      BY <2>5, RetryReports, GotoReports DEF sFnConfigureSKR
    <2>6. CASE OidcDelete
      BY <2>6, RetryReports, GotoReports DEF OidcDelete
    <2>7. CASE recreateOpenIDConnectResources
      BY <2>7, RetryReports, GotoReports DEF recreateOpenIDConnectResources
    <2> QED
      BY <2>1, <2>2, <2>3, <2>4, <2>5, <2>6, <2>7
  <1> QED
    BY <1>1, <1>2, <1>3, <1>4, Elsewhere

\* A reconciliation begins, and patches the shoot: what is Ready and whole remains
\* so until the cluster is touched.
LEMMA BeginQuiet ==
    ASSUME Typed, Reconcile \/ sFnPatchExistingShoot
    PROVE  /\ pc' \in {"idle", "patch", "configure", "status"} /\ ~Reports'
           /\ pc' = "configure" => unfinished'
           /\ Quiet' => Quiet /\ UNCHANGED spec
           /\ UNCHANGED <<touched, shared, kcp, extension, swallowed>>
           /\ UNCHANGED <<conf, docs, deployed, info, oidc, bindings>>
  <1>1. CASE Reconcile
    <2>1. UNCHANGED <<spec, status, kcp, extension>>
      BY <1>1 DEF Reconcile, kcpVars
    <2>2. UNCHANGED <<conf, docs, deployed, info, oidc, bindings>>
      BY <1>1 DEF Reconcile, skrVars
    <2>3. UNCHANGED <<touched, shared, swallowed>>
      BY <1>1 DEF Reconcile
    <2>4. pc' = pc \/ pc' = "patch" \/ pc' = "configure"
      BY <1>1 DEF Reconcile
    <2>5. pc = "idle"
      BY <1>1 DEF Reconcile
    <2>6. UNCHANGED unfinished \/ unfinished' = TRUE
      BY <1>1, Zenon DEF Reconcile
    <2>7. pc' = "configure" => unfinished' = TRUE
      BY <1>1, <2>5 DEF Reconcile
    <2>8. Quiet' => Quiet
      BY <2>1, <2>6 DEF Quiet
    <2> QED
      BY <2>1, <2>2, <2>3, <2>4, <2>5, <2>7, <2>8 DEF Reports
  <1>2. CASE sFnPatchExistingShoot
    <2>1. /\ pc' \in {"idle", "configure", "status"} /\ UNCHANGED status
          /\ pc' = "status" => mem'.state \in {"Pending", "Failed"}
      BY <1>2, PatchEnds
    <2>2. UNCHANGED <<spec, unfinished>> \/ unfinished' = TRUE
      BY <1>2 DEF sFnPatchExistingShoot
    <2>3. pc' = "configure" => unfinished'
      <3>1. ASSUME Retry \/ Return("Failed") PROVE pc' # "configure"
        BY <3>1, RetryReports
      <3> QED
        BY <1>2, <3>1 DEF sFnPatchExistingShoot
    <2> QED
      BY <1>2, <2>1, <2>2, <2>3 DEF sFnPatchExistingShoot, Quiet, Reports, skrVars
  <1> QED
    BY <1>1, <1>2

LEMMA BeginSafe ==
    ASSUME SafeInv, Reconcile \/ sFnPatchExistingShoot
    PROVE  SafeInv'
  <1>1. Typed'
    BY OthersTyped, PatchTyped DEF SafeInv
  <1>2. /\ pc' \in {"idle", "patch", "configure", "status"} /\ ~Reports'
        /\ pc' = "configure" => unfinished'
        /\ Quiet' => Quiet /\ UNCHANGED spec
        /\ UNCHANGED <<touched, shared, bindings>>
    BY BeginQuiet DEF SafeInv
  <1>3. WorkInv'
    BY <1>2 DEF WorkInv, Cluster
  <1> QED
    BY <1>1, <1>2, <1>3, Elsewhere

\* The status is written for the Runtime that was worked on, if it has not changed.
LEMMA StatusQuiet ==
    ASSUME sFnUpdateStatus, Quiet'
    PROVE  (Reports /\ inst = spec) \/ Quiet
  <1>1. CASE UNCHANGED <<status, unfinished>>
    BY <1>1 DEF sFnUpdateStatus, Quiet
  <1>2. CASE inst = spec /\ status' = [state |-> mem.state, gen |-> inst.gen]
    <2>1. mem.state = "Ready"
      BY <1>2 DEF Quiet
    <2> QED
      BY <1>2, <2>1 DEF sFnUpdateStatus, Reports
  <1> QED
    BY <1>1, <1>2 DEF sFnUpdateStatus

LEMMA StatusSafe ==
    ASSUME SafeInv, sFnUpdateStatus
    PROVE  SafeInv'
  <1>1. Typed'
    BY StatusTyped DEF SafeInv
  <1>2. pc' = "idle" /\ UNCHANGED <<spec, inst, bindings, shared, touched>>
    BY DEF sFnUpdateStatus, skrVars
  <1>3. WorkInv' /\ RemovedInv' /\ TrackInv'
    BY <1>2 DEF WorkInv, RemovedInv, TrackInv, Reports, Cluster
  <1>4. SingleInv'
    BY <1>2 DEF SafeInv, SingleInv
  <1>5. ReadyInv'
    <2>1. ASSUME "crb" \notin touched, Quiet' PROVE BoundFor(spec)
      BY <2>1, StatusQuiet DEF SafeInv, ReadyInv
    <2>2. BoundFor(spec) => BoundFor(spec)'
      BY <1>2, BoundKept
    <2>3. ~Reports'
      BY <1>2 DEF Reports
    <2> QED
      BY <1>2, <2>1, <2>2, <2>3 DEF ReadyInv
  <1> QED
    BY <1>1, <1>3, <1>4, <1>5 DEF SafeInv

LEMMA ListSafe ==
    ASSUME SafeInv, sFnApplyClusterRoleBindings
    PROVE  SafeInv'
  <1> DEFINE rem == [b \in Bindings |-> IF getRemoved(b, inst) THEN bindings[b] ELSE 0]
             m == [mem EXCEPT !.removed = rem, !.missing = getMissing(inst)]
  <1>1. Typed' /\ UNCHANGED <<spec, inst, bindings, shared>> /\ pc \in Cluster /\ Keep
    BY BindingsTyped DEF SafeInv, sFnApplyClusterRoleBindings, Keep, skrVars, Cluster, Steps
  <1>0. ~Quiet' /\ WorkInv'
    BY <1>1, AtWork DEF SafeInv
  <1>2. CASE Retry
    BY <1>0, <1>1, <1>2, RetryReports, Elsewhere
  <1>3. CASE Goto("crb_delete", m)
    <2>1. pc' = "crb_delete" /\ mem' = m
      BY <1>3 DEF Goto
    <2>0. ~Reports'
      BY <2>1 DEF Reports
    <2>2. mem'.removed = rem /\ mem'.missing = getMissing(inst)
      BY <2>1 DEF SafeInv, Typed, TypeOK, Memory
    <2>3. ReadyInv'
      BY <1>0, <2>0 DEF ReadyInv
    <2>4. SingleInv'
      BY <1>1 DEF SafeInv, SingleInv
    <2>5. RemovedInv'
      <3>1. \A b \in Bindings : mem'.removed[b] > 0 => getRemoved(b, inst)
        BY <2>2
      <3>2. \A b \in Bindings : getRemoved(b, inst) =>
              getRemoved(b, inst)' /\ b.managed /\ b.users \cap admins(inst)' = {}
        BY <1>1 DEF getRemoved, admins
      <3> QED
        BY <3>1, <3>2 DEF RemovedInv
    <2>6. \A b \in Bindings : getRemoved(b, inst) => mem'.removed[b] = bindings[b]
      BY <2>2
    <2>7. ASSUME NEW u \in admins(inst)
          PROVE  newContainsAdmin(u) \/ \E i \in getMissing(inst) : inst.admins[i] = u
      BY <2>7 DEF admins, Range, getMissing
    <2>8. Covered'
      BY <1>1, <2>2, <2>7 DEF Covered, admins, newContainsAdmin
    <2>9. TrackInv'
      BY <1>1, <2>1, <2>6, <2>8 DEF TrackInv, getRemoved, admins
    <2> QED
      BY <1>0, <1>1, <2>3, <2>4, <2>5, <2>9 DEF SafeInv
  <1> QED
    BY <1>2, <1>3 DEF sFnApplyClusterRoleBindings

LEMMA DeleteSafe ==
    ASSUME SafeInv, newDelCRBs
    PROVE  SafeInv'
  <1>1. Typed' /\ UNCHANGED <<spec, inst, shared, touched>> /\ pc = "crb_delete" /\ Keep
    BY BindingsTyped DEF SafeInv, newDelCRBs, Keep
  <1>0. ~Quiet' /\ WorkInv'
    BY <1>1, AtWork DEF SafeInv, Cluster, Steps
  <1>2. /\ bindings \in [Bindings -> Nat] /\ mem.removed \in [Bindings -> Nat] /\ mem \in Memory
    BY MemType DEF SafeInv, Typed, TypeOK
  <1>3. \A b \in Bindings : mem.removed[b] > 0 =>
          /\ b.managed /\ b.users \cap admins(inst) \subseteq mem.late
          /\ "crb" \notin touched => getRemoved(b, inst)
    BY <1>1 DEF SafeInv, RemovedInv
  <1>4. \A b \in Bindings : bindings'[b] > 0 => bindings[b] > 0
    <2>1. CASE UNCHANGED bindings
      BY <2>1
    <2>2. ASSUME NEW b \in Bindings, bindings' = Less(bindings, b)
          PROVE  \A c \in Bindings : bindings'[c] > 0 => bindings[c] > 0
      <3>1. bindings'[b] = bindings[b] - 1
            /\ \A c \in Bindings : c # b => bindings'[c] = bindings[c]
        BY <1>2, <2>2, LessIs
      <3> QED
        BY <1>2, <3>1
    <2> QED
      BY <2>1, <2>2 DEF newDelCRBs
  <1>5. SingleInv'
    BY <1>1, <1>4 DEF SafeInv, SingleInv
  <1>6. CASE Retry
    <2>1. pc' = "status" /\ ~Reports'
      BY <1>6, RetryReports
    <2>2. RemovedInv' /\ TrackInv' /\ ReadyInv'
      BY <1>0, <2>1 DEF RemovedInv, TrackInv, ReadyInv
    <2> QED
      BY <1>0, <1>1, <1>5, <2>2 DEF SafeInv
  <1>7. CASE mem.removed = None /\ Goto("crb_create", mem) /\ UNCHANGED bindings
    <2>1. pc' = "crb_create" /\ mem' = mem /\ ~Reports'
      BY <1>7, GotoReports DEF Goto
    <2>2. \A b \in Bindings : mem.removed[b] = 0
      BY <1>7 DEF None
    <2>3. "crb" \notin touched =>
            Covered /\ \A b \in Bindings : getRemoved(b, inst) => bindings[b] = 0
      BY <1>1, <2>2 DEF SafeInv, TrackInv
    <2>4. TrackInv'
      BY <1>1, <1>7, <2>1, <2>3
         DEF TrackInv, Covered, admins, newContainsAdmin, getRemoved
    <2>5. RemovedInv' /\ ReadyInv'
      BY <1>0, <2>1 DEF RemovedInv, ReadyInv
    <2> QED
      BY <1>0, <1>1, <1>5, <2>4, <2>5 DEF SafeInv
  <1>8. ASSUME NEW b \in Bindings, mem.removed[b] > 0, bindings' = Less(bindings, b),
               Goto("crb_delete", [mem EXCEPT !.removed = Less(@, b)])
        PROVE  SafeInv'
    <2>1. pc' = "crb_delete" /\ ~Reports'
      BY <1>8, GotoReports
    <2>2. mem'.removed = Less(mem.removed, b) /\ mem'.missing = mem.missing
          /\ mem'.late = mem.late
      BY <1>2, <1>8 DEF Goto, Memory
    <2>8. /\ mem'.removed[b] = mem.removed[b] - 1 /\ bindings'[b] = bindings[b] - 1
          /\ \A c \in Bindings : c # b => /\ mem'.removed[c] = mem.removed[c]
                                         /\ bindings'[c] = bindings[c]
      BY <1>2, <1>8, <2>2, LessIs
    <2>3. RemovedInv'
      <3>1. \A c \in Bindings : mem'.removed[c] > 0 => mem.removed[c] > 0
        BY <1>2, <1>8, <2>8
      <3>2. \A c \in Bindings : getRemoved(c, inst) => getRemoved(c, inst)'
        BY <1>1 DEF getRemoved, admins
      <3>3. admins(inst)' = admins(inst)
        BY <1>1 DEF admins
      <3> QED
        BY <1>1, <1>3, <2>2, <3>1, <3>2, <3>3 DEF RemovedInv
    <2>4. ASSUME Covered, "crb" \notin touched PROVE Covered'
      <3>1. b.managed /\ b.users \cap admins(inst) = {}
        BY <1>3, <1>8, <2>4 DEF getRemoved
      <3>2. ASSUME NEW u \in admins(inst), newContainsAdmin(u) PROVE newContainsAdmin(u)'
        <4>1. PICK c \in Bindings : bindings[c] > 0 /\ c.managed /\ u \in c.users
          BY <3>2 DEF newContainsAdmin
        <4>2. c # b
          BY <3>1, <3>2, <4>1
        <4>3. bindings'[c] = bindings[c]
          BY <2>8, <4>2
        <4> QED
          BY <4>1, <4>3 DEF newContainsAdmin
      <3> QED
        BY <1>1, <2>2, <2>4, <3>2 DEF Covered, admins
    <2>5. ASSUME \A c \in Bindings : getRemoved(c, inst) => mem.removed[c] = bindings[c]
          PROVE  \A c \in Bindings : getRemoved(c, inst) => mem'.removed[c] = bindings'[c]
      BY <2>5, <2>8
    <2>6. TrackInv'
      BY <1>1, <2>1, <2>4, <2>5 DEF SafeInv, TrackInv, getRemoved, admins
    <2>7. ReadyInv'
      BY <1>0, <2>1 DEF ReadyInv
    <2> QED
      BY <1>0, <1>1, <1>5, <2>3, <2>6, <2>7 DEF SafeInv
  <1> QED
    BY <1>6, <1>7, <1>8 DEF newDelCRBs

LEMMA CreateSafe ==
    ASSUME SafeInv, newAddCRBs
    PROVE  SafeInv'
  <1>1. Typed' /\ UNCHANGED <<spec, inst, shared, touched>> /\ pc = "crb_create" /\ Keep
    BY BindingsTyped DEF SafeInv, newAddCRBs, Keep
  <1>0. unfinished' /\ ~Quiet' /\ WorkInv'
    BY <1>1, AtWork DEF SafeInv, Cluster, Steps
  <1>2. /\ bindings \in [Bindings -> Nat] /\ mem \in Memory /\ inst \in Runtime
        /\ mem.missing \subseteq DOMAIN inst.admins
    BY <1>1 DEF SafeInv, Typed, TypeOK, LoopInv
  <1>3. "crb" \notin touched =>
          Covered /\ \A b \in Bindings : getRemoved(b, inst) => bindings[b] = 0
    BY <1>1 DEF SafeInv, TrackInv
  <1>5. CASE mem.missing = {} /\ Return("Ready") /\ UNCHANGED bindings
    <2>1. pc' = "status"
      BY <1>5, ReturnIs DEF States
    <2>2. RemovedInv' /\ TrackInv'
      BY <2>1 DEF RemovedInv, TrackInv
    <2>3. SingleInv'
      BY <1>1, <1>5 DEF SafeInv, SingleInv
    <2>4. ASSUME "crb" \notin touched PROVE BoundFor(inst)
      <3>1. \A u \in admins(inst) : newContainsAdmin(u)
        BY <1>3, <1>5, <2>4 DEF Covered
      <3>2. admins(inst) \subseteq Users
        <4>1. inst.admins \in Seq(Users)
          BY <1>2, RuntimeType
        <4> QED
          BY <4>1 DEF admins, Range
      <3> QED
        BY <1>3, <2>4, <3>1, <3>2 DEF BoundFor, Bound
    <2>5. BoundFor(inst) => BoundFor(inst)'
      BY <1>1, <1>5, BoundKept
    <2>6. ReadyInv'
      BY <1>0, <1>1, <2>4, <2>5 DEF ReadyInv
    <2> QED
      BY <1>0, <1>1, <2>2, <2>3, <2>6 DEF SafeInv
  <1>6. ASSUME NEW i \in mem.missing,
               \/ bindings' = bindings
               \/ bindings' = [bindings EXCEPT ![toAdminClusterRoleBinding(inst.admins[i])] = @ + 1]
        PROVE  SingleInv'
    <2>1. inst.admins[i] \in Users
      BY <1>2, RuntimeType
    <2>2. toAdminClusterRoleBinding(inst.admins[i]).users = {inst.admins[i]}
      BY DEF toAdminClusterRoleBinding
    <2>3. \A b \in Bindings : b # toAdminClusterRoleBinding(inst.admins[i]) =>
            bindings'[b] = bindings[b]
      BY <1>2, <1>6
    <2> QED
      BY <1>1, <2>1, <2>2, <2>3 DEF SafeInv, SingleInv
  <1>7. ASSUME SingleInv', Retry
        PROVE  SafeInv'
    <2>1. pc' = "status" /\ ~Reports'
      BY <1>7, RetryReports
    <2>2. RemovedInv' /\ TrackInv' /\ ReadyInv'
      BY <1>0, <2>1 DEF RemovedInv, TrackInv, ReadyInv
    <2> QED
      BY <1>0, <1>1, <1>7, <2>2 DEF SafeInv
  <1>8. ASSUME NEW i \in mem.missing, SingleInv',
               bindings' = [bindings EXCEPT ![toAdminClusterRoleBinding(inst.admins[i])] = @ + 1],
               Goto("crb_create", [mem EXCEPT !.missing = @ \ {i}])
        PROVE  SafeInv'
    <2> DEFINE u == inst.admins[i]
               b == toAdminClusterRoleBinding(u)
    <2>1. pc' = "crb_create" /\ ~Reports'
      BY <1>8, GotoReports
    <2>2. mem'.missing = mem.missing \ {i}
      BY <1>2, <1>8 DEF Goto, Memory
    <2>3. u \in Users /\ u \in admins(inst)
      BY <1>2, RuntimeType DEF admins, Range
    <2>4. b \in Bindings /\ b.managed /\ b.users = {u}
      BY <2>3, BindingType DEF toAdminClusterRoleBinding
    <2>5. bindings'[b] = bindings[b] + 1 /\ bindings'[b] > 0
      BY <1>2, <1>8, <2>4
    <2>6. \A c \in Bindings : c # b => bindings'[c] = bindings[c]
      BY <1>2, <1>8
    <2>7. ASSUME NEW v \in Users, v = u PROVE newContainsAdmin(v)'
      BY <2>4, <2>5, <2>7 DEF newContainsAdmin
    <2>8. ASSUME NEW v, newContainsAdmin(v) PROVE newContainsAdmin(v)'
      BY <2>4, <2>5, <2>6, <2>8 DEF newContainsAdmin
    <2>9. ASSUME Covered PROVE Covered'
      <3>1. ASSUME NEW v \in admins(inst)
            PROVE  newContainsAdmin(v)' \/ \E j \in mem.missing \ {i} : inst.admins[j] = v
        <4>1. CASE v = u
          BY <2>3, <2>7, <4>1
        <4>2. CASE v # u
          BY <2>8, <2>9, <4>2 DEF Covered
        <4> QED
          BY <4>1, <4>2
      <3> HIDE DEF u, b
      <3>2. admins(inst') = admins(inst)
        BY <1>1
      <3> QED
        BY <1>1, <2>2, <3>1, <3>2 DEF Covered
    <2>10. ASSUME \A c \in Bindings : getRemoved(c, inst) => bindings[c] = 0
           PROVE  \A c \in Bindings : getRemoved(c, inst) => bindings'[c] = 0
      <3>1. ~getRemoved(b, inst)
        BY <2>3, <2>4 DEF getRemoved
      <3> QED
        BY <2>6, <2>10, <3>1
    <2>11. TrackInv'
      <3> HIDE DEF u, b
      <3> QED
        BY <1>1, <1>3, <2>1, <2>9, <2>10 DEF TrackInv, getRemoved, admins
    <2>12. RemovedInv' /\ ReadyInv'
      BY <1>0, <2>1 DEF RemovedInv, ReadyInv
    <2> QED
      BY <1>0, <1>1, <1>8, <2>11, <2>12 DEF SafeInv
  <1>9. SingleInv'
    <2>1. CASE bindings' = bindings
      BY <1>1, <2>1 DEF SafeInv, SingleInv
    <2> QED
      BY <1>6, <2>1 DEF newAddCRBs
  <1> QED
    BY <1>5, <1>7, <1>8, <1>9 DEF newAddCRBs

\* Users who change bindings leave alone what KIM has read and where it is.
LEMMA TamperedMem ==
    ASSUME Typed, TamperBindings
    PROVE  /\ mem'.ix = mem.ix /\ mem'.state = mem.state /\ mem'.want = mem.want
           /\ mem'.manifests = mem.manifests
  <1>1. mem \in Memory
    BY DEF Typed, TypeOK
  <1>2. ASSUME NEW r, mem' = [mem EXCEPT !.removed = r, !.gone = TRUE]
        PROVE  /\ mem'.ix = mem.ix /\ mem'.state = mem.state /\ mem'.want = mem.want
               /\ mem'.manifests = mem.manifests
    BY <1>1, <1>2 DEF Memory
  <1>3. ASSUME NEW r, NEW l, mem' = [mem EXCEPT !.removed = r, !.late = l]
        PROVE  /\ mem'.ix = mem.ix /\ mem'.state = mem.state /\ mem'.want = mem.want
               /\ mem'.manifests = mem.manifests
    BY <1>1, <1>3 DEF Memory
  <1>4. \/ mem' = mem
        \/ \E b \in Bindings : mem' = [mem EXCEPT !.removed = Less(@, b), !.gone = TRUE]
        \/ \E b \in Bindings, u \in Users :
             mem' = [mem EXCEPT !.removed = Extended(@, b, u), !.late = @ \cup {u}]
    BY Zenon DEF TamperBindings
  <1> QED
    BY <1>2, <1>3, <1>4

\* Nothing that happens outside makes a Runtime quiet or reported.
LEMMA OthersQuiet ==
    ASSUME Typed, WrittenInv,
           \/ EditRuntime \/ ChangeKcp \/ TamperBindings \/ TamperOidc
           \/ DeploymentReady \/ DeploymentFails \/ UNCHANGED vars
    PROVE  /\ Quiet' => Quiet /\ UNCHANGED spec
           /\ Reports' = Reports /\ UNCHANGED unfinished
           /\ mem'.ix = mem.ix /\ mem'.want = mem.want /\ mem'.manifests = mem.manifests
           /\ UNCHANGED <<inst, pc, conf, docs, info, extension, swallowed>>
           /\ (UNCHANGED kcp /\ spec'.forced = spec.forced) \/ spec'.forced
  <1>0. spec \in Runtime /\ spec.gen \in Nat /\ status.gen <= spec.gen
    BY RuntimeType, ConstTypes DEF Typed, TypeOK, WrittenInv
  <1>1. CASE EditRuntime
    <2>1. spec'.gen = spec.gen + 1 /\ spec'.forced = spec.forced
      BY <1>1 DEF EditRuntime, AtGen
    <2>2. UNCHANGED <<status, kcp, extension, inst, pc, mem, swallowed>>
      BY <1>1 DEF EditRuntime
    <2>3. UNCHANGED <<conf, docs, info, unfinished>>
      BY <1>1 DEF EditRuntime, skrVars, history
    <2>4. ~Quiet'
      <3>1. status.gen \in Nat
        BY DEF Typed, TypeOK
      <3>2. status'.gen # spec'.gen
        BY <1>0, <2>1, <2>2, <3>1
      <3> QED
        BY <3>2 DEF Quiet
    <2> QED
      BY <2>1, <2>2, <2>3, <2>4 DEF Reports
  <1>2. CASE ChangeKcp
    <2>1. spec'.forced = TRUE
      <3>1. spec' = [spec EXCEPT !.forced = TRUE]
        BY <1>2 DEF ChangeKcp
      <3>2. PICK g \in 0..MaxEdits, f \in BOOLEAN : spec \in AtGen(g, f)
        BY <1>0 DEF Runtime
      <3> QED
        BY <3>1, <3>2 DEF AtGen
    <2>2. UNCHANGED <<extension, inst, pc, mem, swallowed>>
      BY <1>2 DEF ChangeKcp
    <2>3. UNCHANGED <<conf, docs, info, unfinished>>
      BY <1>2 DEF ChangeKcp, skrVars, history
    <2> QED
      BY <2>1, <2>2, <2>3 DEF Reports, Quiet
  <1>3. CASE TamperBindings
    <2>1. UNCHANGED <<spec, status, kcp, extension, conf, docs, info, pc, inst, swallowed, unfinished>>
      BY <1>3 DEF TamperBindings, Tamper, kcpVars
    <2> QED
      BY <1>3, <2>1, TamperedMem DEF Quiet, Reports
  <1>4. CASE TamperOidc
    <2>1. UNCHANGED <<spec, status, kcp, extension, conf, docs, info, pc, inst, swallowed, unfinished,
                      mem>>
      BY <1>4 DEF TamperOidc, Tamper, kcpVars
    <2> QED
      BY <2>1 DEF Quiet, Reports
  <1>5. CASE DeploymentReady \/ DeploymentFails \/ UNCHANGED vars
    <2>1. UNCHANGED <<spec, status, kcp, extension, conf, docs, info, pc, inst, swallowed, unfinished,
                      mem>>
      BY <1>5 DEF DeploymentReady, DeploymentFails, vars, kcpVars, skrVars, history
    <2> QED
      BY <2>1 DEF Quiet, Reports
  <1> QED
    BY <1>1, <1>2, <1>3, <1>4, <1>5

\* Steps that leave the bindings and KIM's own variables alone.
LEMMA StaysPut ==
    ASSUME SafeInv, Typed', UNCHANGED <<inst, bindings, shared, pc, mem, unfinished>>,
           touched \subseteq touched', Quiet' => Quiet /\ UNCHANGED spec
    PROVE  SafeInv'
  <1>0. Reports' = Reports
    BY DEF Reports
  <1>1. SingleInv' /\ WorkInv'
    BY <1>0 DEF SafeInv, SingleInv, WorkInv
  <1>2. RemovedInv'
    BY DEF SafeInv, RemovedInv, getRemoved, admins
  <1>3. TrackInv'
    BY DEF SafeInv, TrackInv, Covered, newContainsAdmin, getRemoved, admins
  <1>4. ReadyInv'
    BY <1>0, BoundKept DEF SafeInv, ReadyInv
  <1> QED
    BY <1>1, <1>2, <1>3, <1>4 DEF SafeInv

\* A binding that is to be deleted may gain a subject on the way.
LEMMA TamperedRemoved ==
    ASSUME SafeInv, TamperBindings
    PROVE  RemovedInv'
  <1> SUFFICES ASSUME pc = "crb_delete", NEW c \in Bindings, mem'.removed[c] > 0
               PROVE  c.managed /\ c.users \cap admins(inst) \subseteq mem'.late
    <2>1. "crb" \in touched' /\ UNCHANGED <<pc, inst>>
      BY DEF TamperBindings, Tamper
    <2> QED
      BY <2>1 DEF RemovedInv, admins
  <1>0. /\ mem \in Memory /\ mem.removed \in [Bindings -> Nat]
        /\ \A d \in Bindings : mem.removed[d] \in Nat
    BY MemType DEF SafeInv, Typed, TypeOK
  <1>1. \A d \in Bindings : mem.removed[d] > 0 =>
          d.managed /\ d.users \cap admins(inst) \subseteq mem.late
    BY DEF SafeInv, RemovedInv
  <1>2. CASE mem' = mem
    BY <1>1, <1>2
  <1>3. ASSUME NEW b \in Bindings, mem.removed[b] > 0,
               mem' = [mem EXCEPT !.removed = Less(@, b), !.gone = TRUE]
        PROVE  c.managed /\ c.users \cap admins(inst) \subseteq mem'.late
    <2>1. mem'.removed = Less(mem.removed, b) /\ mem'.late = mem.late
      BY <1>0, <1>3 DEF Memory
    <2>2. mem.removed[c] > 0
      <3>1. CASE c = b
        BY <1>3, <3>1
      <3>2. CASE c # b
        BY <1>0, <2>1, <3>2, LessIs
      <3> QED
        BY <3>1, <3>2
    <2> QED
      BY <1>1, <2>1, <2>2
  <1>4. ASSUME NEW b \in Bindings, NEW u \in Users \ b.users, mem.removed[b] > 0,
               mem' = [mem EXCEPT !.removed = Extended(@, b, u), !.late = @ \cup {u}]
        PROVE  c.managed /\ c.users \cap admins(inst) \subseteq mem'.late
    <2>1. mem'.removed = Extended(mem.removed, b, u) /\ mem'.late = mem.late \cup {u}
      BY <1>0, <1>4 DEF Memory
    <2>2. CASE c = Grown(b, u)
      <3>1. c.managed = b.managed /\ c.users = b.users \cup {u}
        BY <1>0, <1>4, <2>2, ExtendedIs
      <3>2. b.managed /\ b.users \cap admins(inst) \subseteq mem.late
        BY <1>1, <1>4
      <3> QED
        BY <2>1, <3>1, <3>2
    <2>3. CASE c # Grown(b, u)
      <3>1. mem.removed[c] > 0
        <4>1. CASE c = b
          BY <1>4, <4>1
        <4>2. CASE c # b
          BY <1>0, <1>4, <2>1, <2>3, <4>2, ExtendedIs
        <4> QED
          BY <4>1, <4>2
      <3> QED
        BY <1>1, <2>1, <3>1
    <2> QED
      BY <2>2, <2>3
  <1>5. \/ mem' = mem
        \/ \E b \in Bindings :
             mem.removed[b] > 0 /\ mem' = [mem EXCEPT !.removed = Less(@, b), !.gone = TRUE]
        \/ \E b \in Bindings : \E u \in Users \ b.users :
             /\ mem.removed[b] > 0
             /\ mem' = [mem EXCEPT !.removed = Extended(@, b, u), !.late = @ \cup {u}]
    BY Zenon DEF TamperBindings
  <1> QED
    BY <1>2, <1>3, <1>4, <1>5

LEMMA TamperedSafe ==
    ASSUME SafeInv, WrittenInv, TamperBindings
    PROVE  SafeInv'
  <1>0. Typed'
    BY OthersTyped DEF SafeInv
  <1>1. "crb" \in touched' /\ UNCHANGED pc
    BY DEF TamperBindings, Tamper
  <1>2. TrackInv' /\ ReadyInv'
    BY <1>1 DEF TrackInv, ReadyInv
  <1>3. WorkInv'
    <2>1. Reports' = Reports /\ UNCHANGED <<unfinished, pc>>
      BY OthersQuiet DEF SafeInv
    <2> QED
      BY <2>1 DEF SafeInv, WorkInv
  <1>4. SingleInv'
    <2>1. CASE shared' = TRUE
      BY <2>1 DEF SingleInv
    <2>2. ASSUME NEW b \in Bindings, bindings' = Less(bindings, b), UNCHANGED shared
          PROVE  SingleInv'
      <3>1. bindings \in [Bindings -> Nat] /\ \A c \in Bindings : bindings[c] \in Nat
        BY DEF SafeInv, Typed, TypeOK
      <3>2. \A c \in Bindings : bindings'[c] > 0 => bindings[c] > 0
        BY <2>2, <3>1, LessIs
      <3> QED
        BY <2>2, <3>2 DEF SafeInv, SingleInv
    <2> QED
      BY <2>1, <2>2 DEF TamperBindings
  <1> QED
    BY <1>0, <1>2, <1>3, <1>4, TamperedRemoved DEF SafeInv

LEMMA OthersSafe ==
    ASSUME SafeInv, WrittenInv,
           \/ EditRuntime \/ ChangeKcp \/ TamperBindings \/ TamperOidc
           \/ DeploymentReady \/ DeploymentFails \/ Restart \/ UNCHANGED vars
    PROVE  SafeInv'
  <1>0. Typed'
    BY OthersTyped DEF SafeInv
  <1>1. CASE \/ EditRuntime \/ ChangeKcp \/ TamperOidc
             \/ DeploymentReady \/ DeploymentFails \/ UNCHANGED vars
    <2>1. UNCHANGED <<inst, pc, unfinished>> /\ (Quiet' => Quiet /\ UNCHANGED spec)
      BY <1>1, OthersQuiet DEF SafeInv
    <2>2. UNCHANGED <<bindings, shared, mem>> /\ touched \subseteq touched'
      BY <1>1 DEF EditRuntime, ChangeKcp, TamperOidc, Tamper, DeploymentReady, DeploymentFails,
         vars, skrVars, history
    <2> QED
      BY <1>0, <2>1, <2>2, StaysPut
  <1>2. CASE TamperBindings
    BY <1>2, TamperedSafe
  <1>3. CASE Restart
    <2>1. UNCHANGED <<spec, status, bindings, shared, unfinished, touched>> /\ pc' = "idle"
      BY <1>3 DEF Restart, kcpVars, skrVars, history
    <2>2. Quiet' = Quiet /\ ~Reports'
      BY <2>1 DEF Quiet, Reports
    <2>3. WorkInv'
      BY <2>1, <2>2 DEF WorkInv, Cluster
    <2> QED
      BY <1>0, <2>1, <2>2, <2>3, Elsewhere
  <1> QED
    BY <1>1, <1>2, <1>3

LEMMA WrittenStays ==
    ASSUME WrittenInv, UNCHANGED <<spec, status>>
    PROVE  WrittenInv'
  BY DEF WrittenInv

LEMMA StepWritten == Typed /\ WrittenInv /\ [Next]_vars => WrittenInv'
  <1> SUFFICES ASSUME Typed, WrittenInv, [Next]_vars PROVE WrittenInv'
    OBVIOUS
  <1>0. spec \in Runtime /\ spec.gen \in Nat /\ status.gen \in Nat
    BY RuntimeType, ConstTypes DEF Typed, TypeOK
  <1>1. CASE \/ Configure \/ applyResourcesToRuntimeCluster \/ InstallationInfo \/ ApplyManifests
             \/ sFnConfigureSKR \/ OidcDelete \/ recreateOpenIDConnectResources
             \/ sFnApplyClusterRoleBindings \/ newDelCRBs \/ newAddCRBs
    <2>1. UNCHANGED spec
      BY <1>1 DEF Configure, applyResourcesToRuntimeCluster, InstallationInfo, ApplyManifests,
         sFnConfigureSKR, OidcDelete, recreateOpenIDConnectResources,
         sFnApplyClusterRoleBindings, newDelCRBs, newAddCRBs, Keep
    <2>2. UNCHANGED status
      BY <1>1 DEF Configure, applyResourcesToRuntimeCluster, InstallationInfo, ApplyManifests,
         sFnConfigureSKR, OidcDelete, recreateOpenIDConnectResources,
         sFnApplyClusterRoleBindings, newDelCRBs, newAddCRBs, Retry, Return, Goto
    <2> QED
      BY <2>1, <2>2, WrittenStays
  <1>2. CASE sFnPatchExistingShoot
    <2>1. UNCHANGED status
      BY <1>2, PatchEnds
    <2>2. UNCHANGED spec \/ handleForceReconciliationAnnotation
      BY <1>2 DEF sFnPatchExistingShoot
    <2>3. ASSUME handleForceReconciliationAnnotation
          PROVE  spec'.gen \in {spec.gen, spec.gen + 1}
      BY <2>3 DEF handleForceReconciliationAnnotation
    <2> QED
      BY <1>0, <2>1, <2>2, <2>3 DEF WrittenInv
  <1>3. CASE sFnUpdateStatus
    <2>1. /\ UNCHANGED spec
          /\ UNCHANGED status \/ (inst = spec /\ status' = [state |-> mem.state, gen |-> inst.gen])
      BY <1>3 DEF sFnUpdateStatus
    <2> QED
      BY <1>0, <2>1 DEF WrittenInv
  <1>4. CASE EditRuntime
    <2>1. spec'.gen = spec.gen + 1 /\ UNCHANGED status
      BY <1>4 DEF EditRuntime, AtGen
    <2> QED
      BY <1>0, <2>1 DEF WrittenInv
  <1>5. CASE ChangeKcp
    <2>1. PICK g \in 0..MaxEdits, f \in BOOLEAN : spec \in AtGen(g, f)
      BY <1>0 DEF Runtime
    <2>2. spec' = [spec EXCEPT !.forced = TRUE] /\ UNCHANGED status
      BY <1>5 DEF ChangeKcp
    <2>3. spec'.gen = spec.gen
      BY <2>1, <2>2 DEF AtGen
    <2> QED
      BY <2>2, <2>3 DEF WrittenInv
  <1>6. CASE \/ Reconcile \/ TamperBindings \/ TamperOidc
             \/ DeploymentReady \/ DeploymentFails \/ Restart \/ UNCHANGED vars
    BY <1>6, WrittenStays DEF Reconcile, TamperBindings, TamperOidc, Tamper, DeploymentReady,
       DeploymentFails, Restart, vars, kcpVars
  <1> QED
    BY <1>1, <1>2, <1>3, <1>4, <1>5, <1>6 DEF Next, ReconcileStep

\* What the theorems below are proved from.
Safe == SafeInv /\ WrittenInv

LEMMA StepSafe == Safe /\ [Next]_vars => Safe'
  <1> SUFFICES ASSUME SafeInv, WrittenInv, [Next]_vars PROVE SafeInv' /\ WrittenInv'
    BY DEF Safe
  <1>1. WrittenInv'
    BY StepWritten DEF SafeInv
  <1>2. SafeInv'
    BY BeginSafe, StatusSafe, EarlySafe, ListSafe, DeleteSafe, CreateSafe, OthersSafe
       DEF Next, ReconcileStep
  <1> QED
    BY <1>1, <1>2

\* Whatever fails between the List of the bindings, the deletions and the
\* creations, a Runtime that is reported Ready by its last reconciliation has the
\* bindings of its administrators and no others of KIM's, unless users changed them
\* since the List.
THEOREM AdministratorsBoundAlways == Spec => []AdministratorsBound
  <1>1. SafeInv => AdministratorsBound
    <2> SUFFICES ASSUME SafeInv, Quiet, "crb" \notin touched
                 PROVE  /\ admins(spec) \subseteq Bound
                        /\ \A b \in Bindings : b.managed /\ bindings[b] > 0 =>
                             b.users \cap admins(spec) # {}
                        /\ ~shared => Bound = admins(spec)
      BY DEF AdministratorsBound
    <2>1. /\ admins(spec) \subseteq Bound
          /\ \A b \in Bindings : getRemoved(b, spec) => bindings[b] = 0
      BY DEF SafeInv, ReadyInv, BoundFor
    <2>2. \A b \in Bindings : b.managed /\ bindings[b] > 0 => b.users \cap admins(spec) # {}
      <3>1. \A b \in Bindings : bindings[b] \in Nat
        BY DEF SafeInv, Typed, TypeOK
      <3> QED
        BY <2>1, <3>1 DEF getRemoved
    <2>3. ASSUME ~shared, NEW u \in Bound PROVE u \in admins(spec)
      <3>1. PICK b \in Bindings : bindings[b] > 0 /\ b.managed /\ u \in b.users
        BY DEF Bound, newContainsAdmin
      <3>2. \E v \in Users : b.users = {v}
        BY <2>3, <3>1 DEF SafeInv, SingleInv
      <3> QED
        BY <2>2, <3>1, <3>2
    <2> QED
      BY <2>1, <2>2, <2>3
  <1>2. Init => Safe
    BY InitSafe DEF Safe
  <1>3. Safe => AdministratorsBound
    BY <1>1 DEF Safe
  <1> QED
    BY <1>2, <1>3, StepSafe, PTL DEF Spec

\* A binding is never taken from somebody who is an administrator before and after
\* an edit, unless the user was added to it between its listing and its deletion, and
\* a binding of somebody else's is never touched by KIM.
THEOREM AccessKeptAlways == Spec => AccessKept
  <1> DEFINE Kept == /\ \A u \in (admins(inst) \cap admins(spec)) \ mem.late :
                          HasBinding(u) => HasBinding(u)'
                     /\ \A b \in Bindings : ~b.managed => bindings'[b] = bindings[b]
  <1>1. ASSUME SafeInv, Next, UNCHANGED tamper PROVE Kept
    <2>0. bindings \in [Bindings -> Nat] /\ tamper \in 0..MaxTamper
      BY <1>1 DEF SafeInv, Typed, TypeOK
    <2>1. CASE UNCHANGED bindings
      BY <2>1 DEF HasBinding
    <2>2. CASE newDelCRBs
      <3>1. ASSUME NEW b \in Bindings, mem.removed[b] > 0,
                   bindings' = Less(bindings, b)
            PROVE  Kept
        <4>1. b.managed /\ b.users \cap admins(inst) \subseteq mem.late
          BY <1>1, <2>2, <3>1 DEF SafeInv, RemovedInv, newDelCRBs
        <4>2. \A c \in Bindings : c # b => bindings'[c] = bindings[c]
          BY <2>0, <3>1, LessIs
        <4>3. ASSUME NEW u \in admins(inst), u \notin mem.late, HasBinding(u) PROVE HasBinding(u)'
          BY <4>1, <4>2, <4>3 DEF HasBinding
        <4> QED
          BY <4>1, <4>2, <4>3
      <3> QED
        BY <2>1, <2>2, <3>1 DEF newDelCRBs
    <2>3. CASE newAddCRBs
      <3>1. ASSUME NEW u, bindings' = [bindings EXCEPT ![toAdminClusterRoleBinding(u)] = @ + 1]
            PROVE  Kept
        <4>1. \A c \in Bindings : bindings[c] > 0 => bindings'[c] > 0
          BY <2>0, <3>1
        <4>2. \A c \in Bindings : ~c.managed => c # toAdminClusterRoleBinding(u)
          BY DEF toAdminClusterRoleBinding
        <4>3. \A c \in Bindings : ~c.managed => bindings'[c] = bindings[c]
          BY <2>0, <3>1, <4>2
        <4> QED
          BY <4>1, <4>3 DEF HasBinding
      <3> QED
        BY <2>1, <2>3, <3>1 DEF newAddCRBs
    <2>4. CASE TamperBindings
      <3>1. tamper' = tamper + 1
        BY <2>4 DEF TamperBindings, Tamper
      <3> QED
        BY <1>1, <2>0, <3>1
    <2>5. UNCHANGED bindings \/ newDelCRBs \/ newAddCRBs \/ TamperBindings
      BY <1>1 DEF Next, ReconcileStep, Reconcile, sFnPatchExistingShoot, sFnUpdateStatus,
         Configure, applyResourcesToRuntimeCluster, InstallationInfo, ApplyManifests, sFnConfigureSKR, OidcDelete,
         recreateOpenIDConnectResources, sFnApplyClusterRoleBindings, EditRuntime, ChangeKcp,
         TamperOidc, DeploymentReady, DeploymentFails, Restart, skrVars
    <2> QED
      BY <2>1, <2>2, <2>3, <2>4, <2>5
  <1>2. Safe /\ [Next]_vars => [UNCHANGED tamper => Kept]_vars
    BY <1>1 DEF Safe
  <1>3. Init => Safe
    BY InitSafe DEF Safe
  <1> QED
    BY <1>2, <1>3, StepSafe, PTL DEF Spec, AccessKept

-----------------------------------------------------------------------------
(* The OpenIDConnect resources.                                             *)

Crb == {"crb", "crb_delete", "crb_create"}

\* The resources are those of the Runtime with these ids, but for those whose
\* Create failed unreported.
Trusted(rt, ids) ==
    /\ DOMAIN oidc \subseteq ids
    /\ ids \ DOMAIN oidc \subseteq swallowed
    /\ \A id \in DOMAIN oidc : oidc[id] = oidcConfigs(rt)[id]

\* From the DeleteAllOf on the resources are a growing part of those specified.
OidcInv ==
    extension /\ "oidc" \notin touched =>
        /\ pc = "oidc_create" => Trusted(inst, 1..(mem.ix - 1))
        /\ pc \in Crb \/ Reports => Trusted(inst, DOMAIN oidcConfigs(inst))
        /\ Quiet => Trusted(spec, DOMAIN oidcConfigs(spec))

LEMMA InstKept ==
    ASSUME UNCHANGED <<inst, oidc, swallowed>>
    PROVE  /\ oidcConfigs(inst)' = oidcConfigs(inst)
           /\ Trusted(inst, DOMAIN oidcConfigs(inst)) =>
                Trusted(inst, DOMAIN oidcConfigs(inst))'
           /\ mem'.ix = mem.ix /\ Trusted(inst, 1..(mem.ix - 1)) =>
                Trusted(inst, 1..(mem.ix - 1))'
  <1>1. oidcConfigs(inst)' = oidcConfigs(inst)
    BY DEF oidcConfigs
  <1> QED
    BY <1>1 DEF Trusted

LEMMA SpecKept ==
    ASSUME UNCHANGED <<spec, oidc, swallowed>>
    PROVE  Trusted(spec, DOMAIN oidcConfigs(spec)) => Trusted(spec, DOMAIN oidcConfigs(spec))'
  <1>1. oidcConfigs(spec)' = oidcConfigs(spec)
    BY DEF oidcConfigs
  <1> QED
    BY <1>1 DEF Trusted

\* Steps before the resources are created, and reconciliations that give up.
LEMMA OidcBefore ==
    ASSUME pc' \notin {"oidc_create"} \cup Crb, ~Reports', ~Quiet'
    PROVE  OidcInv'
  BY DEF OidcInv

\* Steps that have nothing to do with the resources.
LEMMA OidcStays ==
    ASSUME OidcInv, UNCHANGED <<oidc, swallowed, extension>>,
           "oidc" \in touched => "oidc" \in touched',
           pc' \notin {"oidc_create"} \cup Crb \/ (UNCHANGED <<pc, inst>> /\ mem'.ix = mem.ix),
           Reports' => Reports /\ UNCHANGED inst,
           Quiet' => Quiet /\ UNCHANGED spec
    PROVE  OidcInv'
  <1> SUFFICES ASSUME extension, "oidc" \notin touched
               PROVE  /\ pc' = "oidc_create" => Trusted(inst, 1..(mem.ix - 1))'
                      /\ pc' \in Crb => Trusted(inst, DOMAIN oidcConfigs(inst))'
                      /\ Reports' => Trusted(inst, DOMAIN oidcConfigs(inst))'
                      /\ Quiet' => Trusted(spec, DOMAIN oidcConfigs(spec))'
    BY DEF OidcInv
  <1>1. ASSUME pc' = "oidc_create" PROVE Trusted(inst, 1..(mem.ix - 1))'
    BY <1>1, InstKept DEF OidcInv
  <1>2. ASSUME pc' \in Crb PROVE Trusted(inst, DOMAIN oidcConfigs(inst))'
    BY <1>2, InstKept DEF OidcInv
  <1>3. ASSUME Reports' PROVE Trusted(inst, DOMAIN oidcConfigs(inst))'
    BY <1>3, InstKept DEF OidcInv
  <1>4. ASSUME Quiet' PROVE Trusted(spec, DOMAIN oidcConfigs(spec))'
    BY <1>4, SpecKept DEF OidcInv
  <1> QED
    BY <1>1, <1>2, <1>3, <1>4

LEMMA OidcBegin ==
    ASSUME Typed, OidcInv, Reconcile \/ sFnPatchExistingShoot
    PROVE  OidcInv'
  <1>1. pc' \notin {"oidc_create"} \cup Crb
    BY BeginQuiet DEF Crb
  <1> QED
    BY <1>1, BeginQuiet, OidcStays

LEMMA OidcStatus ==
    ASSUME OidcInv, sFnUpdateStatus
    PROVE  OidcInv'
  <1>1. UNCHANGED <<spec, inst, oidc, swallowed, extension, touched>> /\ pc' = "idle"
    BY DEF sFnUpdateStatus, skrVars
  <1>2. ~Reports'
    BY <1>1 DEF Reports
  <1>3. ASSUME extension, "oidc" \notin touched, Quiet'
        PROVE  Trusted(spec, DOMAIN oidcConfigs(spec))'
    <2>1. Trusted(spec, DOMAIN oidcConfigs(spec))
      BY <1>3, StatusQuiet DEF OidcInv
    <2> QED
      BY <1>1, <2>1, SpecKept
  <1> QED
    BY <1>1, <1>2, <1>3 DEF OidcInv, Crb

LEMMA OidcEarly ==
    ASSUME SafeInv, OidcInv, \/ Configure \/ applyResourcesToRuntimeCluster
                             \/ InstallationInfo \/ ApplyManifests \/ sFnConfigureSKR
    PROVE  OidcInv'
  <1>0. ~Quiet'
    <2>1. pc \in Cluster /\ Keep
      BY DEF Configure, applyResourcesToRuntimeCluster, InstallationInfo, ApplyManifests,
         sFnConfigureSKR, Cluster, Steps
    <2> QED
      BY <2>1, AtWork DEF SafeInv
  <1>1. ASSUME Retry \/ Return("Failed") PROVE OidcInv'
    BY <1>0, <1>1, RetryReports, OidcBefore DEF Crb
  <1>2. ASSUME NEW step \in {"apply", "info", "install", "skr", "oidc_delete"}, NEW m, Goto(step, m)
        PROVE  OidcInv'
    <2>1. ~Reports' /\ pc' = step
      BY <1>2, GotoReports
    <2> QED
      BY <1>0, <2>1, OidcBefore DEF Crb
  <1>3. CASE Configure
    BY <1>1, <1>2, <1>3 DEF Configure
  <1>4. CASE applyResourcesToRuntimeCluster
    BY <1>1, <1>2, <1>4 DEF applyResourcesToRuntimeCluster
  <1>5. CASE InstallationInfo
    BY <1>1, <1>2, <1>5 DEF InstallationInfo
  <1>6. CASE ApplyManifests
    BY <1>1, <1>2, <1>6 DEF ApplyManifests
  <1>7. CASE sFnConfigureSKR
    <2>1. CASE extension
      BY <1>1, <1>2, <1>7, <2>1 DEF sFnConfigureSKR
    <2>2. CASE ~extension
      BY <1>7, <2>2 DEF sFnConfigureSKR, Keep, OidcInv
    <2> QED
      BY <2>1, <2>2
  <1> QED
    BY <1>3, <1>4, <1>5, <1>6, <1>7

LEMMA OidcConfigsDomain ==
    ASSUME NEW x \in Runtime
    PROVE  /\ Len(oidcConfigs(x)) \in Nat
           /\ DOMAIN oidcConfigs(x) = 1..Len(oidcConfigs(x))
           /\ oidcConfigs(x) = <<>> <=> Len(oidcConfigs(x)) = 0
  <1>1. oidcConfigs(x) \in Seq(Issuers)
    BY OidcConfigsType
  <1> QED
    BY <1>1

LEMMA OidcDeleted ==
    ASSUME SafeInv, OidcInv, OidcDelete
    PROVE  OidcInv'
  <1>0. ~Quiet'
    BY AtWork DEF OidcDelete, Cluster, Steps, SafeInv
  <1>1. CASE Retry
    BY <1>0, <1>1, OidcBefore, RetryReports DEF Crb
  <1>2. ASSUME ~Retry
        PROVE  OidcInv'
    <2>1. /\ DOMAIN oidc' = {} /\ UNCHANGED inst
          /\ \/ oidcConfigs(inst) = <<>> /\ pc' = "crb"
             \/ pc' = "oidc_create" /\ mem' = [mem EXCEPT !.ix = 1]
      BY <1>2 DEF OidcDelete, deleteExistingKymaOpenIDConnectResources, Without, Goto, Keep
    <2>2. oidcConfigs(inst)' = oidcConfigs(inst)
      BY <2>1 DEF oidcConfigs
    <2>3. CASE oidcConfigs(inst) = <<>> /\ pc' = "crb"
      <3>1. DOMAIN oidcConfigs(inst) = {}
        <4>1. inst \in Runtime
          BY DEF SafeInv, Typed, TypeOK
        <4>2. DOMAIN oidcConfigs(inst) = 1..0
          BY <2>3, <4>1, OidcConfigsDomain
        <4> QED
          BY <4>2
      <3>2. DOMAIN oidcConfigs(inst)' = {}
        BY <2>2, <3>1
      <3> QED
        BY <1>0, <2>1, <2>2, <2>3, <3>2 DEF OidcInv, Trusted
    <2>4. CASE pc' = "oidc_create" /\ mem' = [mem EXCEPT !.ix = 1]
      <3>1. mem'.ix = 1
        BY <2>4 DEF SafeInv, Typed, TypeOK, Memory
      <3>2. 1..(mem'.ix - 1) = {}
        BY <3>1
      <3> QED
        BY <1>0, <2>1, <2>2, <2>4, <3>2 DEF OidcInv, Trusted, Crb, Reports
    <2> QED
      BY <2>1, <2>3, <2>4
  <1> QED
    BY <1>1, <1>2

\* A Create that succeeds adds the next resource; one that fails without being
\* the last is remembered as swallowed; the last that fails is retried.
LEMMA OidcCreated ==
    ASSUME SafeInv, OidcInv, recreateOpenIDConnectResources
    PROVE  OidcInv'
  <1>0. ~Quiet'
    BY AtWork DEF recreateOpenIDConnectResources, Cluster, Steps, SafeInv
  <1>1. CASE Retry
    BY <1>0, <1>1, OidcBefore, RetryReports DEF Crb
  <1> DEFINE ix == mem.ix
             l == oidcConfigs(inst)
  <1>2. ASSUME ~Retry, extension, "oidc" \notin touched
        PROVE  OidcInv'
    <2>1. Trusted(inst, 1..(ix - 1)) /\ ix \in DOMAIN l /\ pc = "oidc_create"
      BY <1>2 DEF recreateOpenIDConnectResources, OidcInv, SafeInv, Typed, LoopInv
    <2>2. Len(l) \in Nat /\ DOMAIN l = 1..Len(l)
      BY OidcConfigsDomain DEF SafeInv, Typed, TypeOK
    <2>3. UNCHANGED inst /\ l' = oidcConfigs(inst)
      <3>1. UNCHANGED inst
        BY DEF recreateOpenIDConnectResources, Keep
      <3> QED
        BY <3>1 DEF oidcConfigs
    <2> HIDE DEF l
    <2>4. /\ createOpenIDConnectResource(ix) \/ UNCHANGED oidc
          /\ swallowed \subseteq swallowed'
          /\ \/ createOpenIDConnectResource(ix)
             \/ ix \in swallowed' /\ UNCHANGED oidc
          /\ \/ ix # Len(l) /\ pc' = "oidc_create" /\ mem' = [mem EXCEPT !.ix = ix + 1]
             \/ ix = Len(l) /\ pc' = "crb"
      BY <1>2, <2>1 DEF recreateOpenIDConnectResources, Goto, l
    <2>5. (1..(ix - 1)) \cup {ix} = 1..ix /\ ix \notin 1..(ix - 1) /\ ix \in Nat
      BY <2>1, <2>2
    <2>6. /\ DOMAIN oidc \subseteq 1..(ix - 1)
          /\ (1..(ix - 1)) \ DOMAIN oidc \subseteq swallowed
          /\ \A id \in DOMAIN oidc : oidc[id] = l[id]
      BY <2>1 DEF Trusted, l
    <2>7. /\ DOMAIN oidc' \subseteq 1..ix
          /\ (1..ix) \ DOMAIN oidc' \subseteq swallowed'
          /\ \A id \in DOMAIN oidc' : oidc'[id] = l[id]
      <3>1. CASE createOpenIDConnectResource(ix)
        <4>1. oidc' = [i \in DOMAIN oidc \cup {ix} |-> IF i = ix THEN l[ix] ELSE oidc[i]]
          BY <3>1 DEF createOpenIDConnectResource, l
        <4> HIDE DEF ix
        <4> QED
          BY <2>4, <2>5, <2>6, <4>1
      <3>2. CASE ix \in swallowed' /\ UNCHANGED oidc
        BY <2>4, <2>5, <2>6, <3>2
      <3> QED
        BY <2>4, <3>1, <3>2
    <2>9. CASE ix # Len(l) /\ pc' = "oidc_create" /\ mem' = [mem EXCEPT !.ix = ix + 1]
      <3>1. mem'.ix = ix + 1
        BY <2>9 DEF SafeInv, Typed, TypeOK, Memory
      <3>2. 1..(mem'.ix - 1) = 1..ix
        BY <2>5, <3>1
      <3>3. Trusted(inst, 1..(mem.ix - 1))'
        BY <2>3, <2>7, <3>2 DEF Trusted, l
      <3> QED
        BY <1>0, <2>9, <3>3 DEF OidcInv, Crb, Reports
    <2>10. CASE ix = Len(l) /\ pc' = "crb"
      <3>1. Trusted(inst, DOMAIN oidcConfigs(inst))'
        BY <2>2, <2>3, <2>7, <2>10 DEF Trusted, l
      <3> QED
        BY <1>0, <2>10, <3>1 DEF OidcInv
    <2> QED
      BY <2>4, <2>9, <2>10
  <1>3. CASE ~(extension /\ "oidc" \notin touched)
    BY <1>3 DEF recreateOpenIDConnectResources, Keep, OidcInv
  <1> QED
    BY <1>1, <1>2, <1>3

\* The steps on the bindings.
CrbStep == sFnApplyClusterRoleBindings \/ newDelCRBs \/ newAddCRBs

LEMMA CrbEffect ==
    ASSUME CrbStep
    PROVE  /\ pc \in Crb /\ Keep
           /\ UNCHANGED <<conf, docs, deployed, info, oidc, swallowed>>
           /\ "oidc" \in touched => "oidc" \in touched'
           /\ \/ pc' \in Crb
              \/ pc' = "status"
  <1>0. ASSUME Retry \/ Return("Ready") PROVE pc' = "status"
    BY <1>0 DEF Retry, Return, Goto
  <1>1. CASE sFnApplyClusterRoleBindings
    BY <1>0, <1>1 DEF sFnApplyClusterRoleBindings, Crb, Goto, skrVars
  <1>2. CASE newDelCRBs
    BY <1>0, <1>2 DEF newDelCRBs, Crb, Goto
  <1>3. CASE newAddCRBs
    BY <1>0, <1>3 DEF newAddCRBs, Crb, Goto
  <1> QED
    BY <1>1, <1>2, <1>3 DEF CrbStep

LEMMA CrbAtWork ==
    ASSUME SafeInv, CrbStep
    PROVE  ~Quiet'
  <1>1. pc \in Cluster /\ Keep
    BY CrbEffect DEF Crb, Cluster, Steps
  <1> QED
    BY <1>1, AtWork DEF SafeInv

LEMMA OidcCrb ==
    ASSUME SafeInv, OidcInv, CrbStep
    PROVE  OidcInv'
  <1>1. /\ pc \in Crb /\ Keep /\ UNCHANGED <<oidc, swallowed>> /\ pc' # "oidc_create"
        /\ "oidc" \in touched => "oidc" \in touched'
    BY CrbEffect DEF Crb
  <1> SUFFICES ASSUME extension, "oidc" \notin touched
               PROVE  OidcInv'
    BY <1>1 DEF OidcInv, Keep
  <1>2. Trusted(inst, DOMAIN oidcConfigs(inst)) /\ UNCHANGED inst
    BY <1>1 DEF OidcInv, Keep
  <1>3. Trusted(inst, DOMAIN oidcConfigs(inst))'
    BY <1>1, <1>2, InstKept
  <1> QED
    BY <1>1, <1>3, CrbAtWork DEF OidcInv

LEMMA OidcOthers ==
    ASSUME Typed, WrittenInv, OidcInv,
                    \/ EditRuntime \/ ChangeKcp \/ TamperBindings \/ TamperOidc
                    \/ DeploymentReady \/ DeploymentFails \/ Restart \/ UNCHANGED vars
    PROVE  OidcInv'
  <1>1. CASE TamperOidc
    BY <1>1 DEF TamperOidc, Tamper, OidcInv
  <1>2. CASE Restart
    <2>1. UNCHANGED <<spec, status, unfinished, oidc, swallowed, extension, touched>> /\ pc' = "idle"
      BY <1>2 DEF Restart, kcpVars, skrVars, history
    <2>2. Quiet' = Quiet /\ ~Reports' /\ pc' \notin {"oidc_create"} \cup Crb
      BY <2>1 DEF Quiet, Reports, Crb
    <2> QED
      BY <2>1, <2>2, OidcStays
  <1>3. CASE \/ EditRuntime \/ ChangeKcp \/ TamperBindings
             \/ DeploymentReady \/ DeploymentFails \/ UNCHANGED vars
    <2>1. UNCHANGED oidc /\ ("oidc" \in touched => "oidc" \in touched')
      BY <1>3 DEF EditRuntime, ChangeKcp, TamperBindings, Tamper, DeploymentReady,
         DeploymentFails, vars, skrVars, history
    <2> QED
      BY <1>3, <2>1, OthersQuiet, OidcStays
  <1> QED
    BY <1>1, <1>2, <1>3

\* A Runtime with the OIDC extension that its last reconciliation reported Ready trusts the issuers of its
\* specification and no others, but for those whose Create failed before another one
\* succeeded: resources of an earlier specification or of a reconciliation that was
\* cut off never remain.
THEOREM IssuersTrustedAlways == Spec => []IssuersTrusted
  <1>1. Init => Safe /\ OidcInv
    <2> SUFFICES ASSUME Init PROVE OidcInv
      BY InitSafe DEF Safe
    <2>1. pc = "idle" /\ status = [state |-> "", gen |-> 0]
      BY DEF Init
    <2>2. ~Quiet /\ ~Reports
      BY <2>1 DEF Quiet, Reports
    <2> QED
      BY <2>1, <2>2 DEF OidcInv, Crb
  <1>2. Safe /\ OidcInv /\ [Next]_vars => (Safe /\ OidcInv)'
    <2> SUFFICES ASSUME Safe, OidcInv, [Next]_vars PROVE OidcInv'
      BY StepSafe
    <2>1. SafeInv /\ WrittenInv /\ Typed
      BY DEF Safe, SafeInv
    <2> QED
      BY <2>1, OidcBegin, OidcStatus, OidcEarly, OidcDeleted, OidcCreated, OidcCrb, OidcOthers
         DEF Next, ReconcileStep, CrbStep
  <1>3. OidcInv => IssuersTrusted
    BY DEF OidcInv, IssuersTrusted, Trusted
  <1> QED
    BY <1>1, <1>2, <1>3, PTL DEF Spec
-----------------------------------------------------------------------------
(* The runtime bootstrapper and the provisioning info.                      *)

Late == {"oidc_delete", "oidc_create"} \cup Crb

\* The reconciliation has come that far, or has ended, and nothing has changed in
\* the control plane since it removed the annotation.
Past(steps) == ~spec.forced /\ (pc \in steps \/ Reports \/ Quiet)

\* The configuration is copied part by part.
ConfInv ==
    /\ pc = "apply" /\ ~spec.forced =>
         mem.want = kcp.conf /\ \A p \in Part : p < mem.ix => conf[p] = kcp.conf[p]
    /\ Past({"info", "install", "skr"} \cup Late) => conf = kcp.conf

\* A document is that of the manifests with its label, none is older than the
\* Deployment, which is applied last, and none is newer than what is being applied.
DocsInv ==
    /\ kcp.manifests.label = kcp.manifests.content
    /\ \A d \in 1..Docs :
         /\ docs[d].label = docs[d].content
         /\ docs[DeploymentAt].content <= docs[d].content
         /\ docs[d].content <= kcp.manifests.content

InstallInv ==
    pc = "install" =>
        /\ mem.manifests.label = mem.manifests.content
        /\ mem.manifests.content <= kcp.manifests.content
        /\ \A d \in 1..Docs :
             docs[d].content <= mem.manifests.content /\ (d < mem.ix => docs[d] = mem.manifests)

\* A Deployment with the current label has been applied after all the others.
InstalledInv == Past({"skr"} \cup Late) => \A d \in 1..Docs : docs[d] = kcp.manifests

InfoInv ==
    /\ pc \in Late \/ Reports => info = inst.gen
    /\ Quiet => info = spec.gen

BootInv == ConfInv /\ DocsInv /\ InstallInv /\ InstalledInv /\ InfoInv

\* The Deployment is the last of the documents, and new manifests have a new label.
Labelled == DeploymentAt = Docs /\ "label" \notin Trouble

LEMMA DocsType ==
    ASSUME Typed
    PROVE  /\ docs \in [1..Docs -> Manifests] /\ kcp.manifests \in Manifests
           /\ mem.manifests \in Manifests /\ mem.ix \in Nat
           /\ kcp.conf \in [Part -> Nat] /\ conf \in [Part -> Nat] /\ mem.want \in [Part -> Nat]
  BY DEF Typed, TypeOK, Memory

LEMMA DocsKept ==
    ASSUME DocsInv, UNCHANGED <<docs, kcp>>
    PROVE  DocsInv'
  BY DEF DocsInv

Outside == {"idle", "patch", "configure", "status"}

\* A reconciliation that begins or gives up.
LEMMA BootAgain ==
    ASSUME DocsInv', pc' \in Outside, ~Reports', ~Quiet'
    PROVE  BootInv'
  BY DEF BootInv, ConfInv, InstallInv, InstalledInv, InfoInv, Past, Late, Crb, Outside

LEMMA BootEnds ==
    ASSUME DocsInv', ~Quiet', Retry \/ Return("Failed")
    PROVE  BootInv'
  BY RetryReports, BootAgain DEF Outside

\* Steps outside the cluster: what is quiet is as it was.
LEMMA BootRests ==
    ASSUME BootInv, pc' \in Outside, ~Reports', UNCHANGED <<kcp, conf, docs, info>>,
           Quiet' => Quiet /\ UNCHANGED spec
    PROVE  BootInv'
  <1>1. DocsInv'
    BY DocsKept DEF BootInv
  <1>2. CASE ~Quiet'
    BY <1>1, <1>2, BootAgain
  <1>3. CASE Quiet'
    <2>1. Quiet /\ UNCHANGED spec /\ ~spec.forced
      BY <1>3 DEF Quiet
    <2>2. conf = kcp.conf /\ (\A d \in 1..Docs : docs[d] = kcp.manifests) /\ info = spec.gen
      BY <2>1 DEF BootInv, ConfInv, InstalledInv, InfoInv, Past
    <2>3. ConfInv' /\ InstalledInv'
      BY <2>2 DEF ConfInv, InstalledInv, Outside
    <2>4. InstallInv' /\ InfoInv'
      BY <2>1, <2>2 DEF InstallInv, InfoInv, Outside, Late, Crb
    <2> QED
      BY <1>1, <2>3, <2>4 DEF BootInv
  <1> QED
    BY <1>2, <1>3

LEMMA BeginBoot ==
    ASSUME Typed, BootInv, Reconcile \/ sFnPatchExistingShoot
    PROVE  BootInv'
  BY BeginQuiet, BootRests DEF Outside

\* The status is written: what was about to be reported is quiet now.
LEMMA StatusBoot ==
    ASSUME BootInv, sFnUpdateStatus
    PROVE  BootInv'
  <1>1. UNCHANGED <<spec, inst, kcp>> /\ UNCHANGED <<conf, docs, info>> /\ pc' = "idle"
    BY DEF sFnUpdateStatus, skrVars
  <1>2. ~Reports' /\ pc' \in Outside
    BY <1>1 DEF Reports, Outside
  <1>3. DocsInv'
    BY <1>1, DocsKept DEF BootInv
  <1>4. CASE ~Quiet'
    BY <1>2, <1>3, <1>4, BootAgain
  <1>5. CASE Quiet'
    <2>1. ((Reports /\ inst = spec) \/ Quiet) /\ ~spec.forced
      BY <1>1, <1>5, StatusQuiet DEF Quiet
    <2>2. conf = kcp.conf /\ (\A d \in 1..Docs : docs[d] = kcp.manifests) /\ info = spec.gen
      BY <2>1 DEF BootInv, ConfInv, InstalledInv, InfoInv, Past
    <2>3. ConfInv' /\ InstalledInv'
      BY <1>1, <2>2 DEF ConfInv, InstalledInv
    <2>4. InstallInv' /\ InfoInv'
      BY <1>1, <1>2, <2>2 DEF InstallInv, InfoInv, Late, Crb
    <2> QED
      BY <1>3, <2>3, <2>4 DEF BootInv
  <1> QED
    BY <1>4, <1>5

\* The steps on the bootstrapper are at work.
LEMMA BootAtWork ==
    ASSUME SafeInv, \/ Configure \/ applyResourcesToRuntimeCluster \/ InstallationInfo
                    \/ ApplyManifests \/ sFnConfigureSKR \/ OidcDelete
                    \/ recreateOpenIDConnectResources
    PROVE  ~Quiet' /\ UNCHANGED <<spec, kcp, inst>>
  <1>1. pc \in Cluster /\ Keep
    BY DEF Configure, applyResourcesToRuntimeCluster, InstallationInfo, ApplyManifests,
       sFnConfigureSKR, OidcDelete, recreateOpenIDConnectResources, Cluster, Steps
  <1>2. ~Quiet'
    BY <1>1, AtWork DEF SafeInv
  <1> QED
    BY <1>1, <1>2 DEF Keep

LEMMA ConfigureBoot ==
    ASSUME SafeInv, BootInv, Configure
    PROVE  BootInv'
  <1>0. ~Quiet' /\ UNCHANGED <<spec, kcp>>
    BY BootAtWork
  <1>1. DocsInv'
    BY <1>0, DocsKept DEF Configure, skrVars, BootInv
  <1>3. CASE Configure /\ Retry
    BY <1>0, <1>1, <1>3, BootEnds
  <1>4. CASE Configure /\ Goto("apply", [mem EXCEPT !.want = kcp.conf, !.ix = 1])
    <2>1. pc' = "apply" /\ ~Reports'
      BY <1>4, GotoReports
    <2>2. mem'.want = kcp.conf /\ mem'.ix = 1
      BY <1>4 DEF Goto, SafeInv, Typed, TypeOK, Memory
    <2>3. \A p \in Part : ~(p < mem'.ix)
      BY <2>2, ConstTypes
    <2> QED
      BY <1>0, <1>1, <2>1, <2>2, <2>3 DEF BootInv, ConfInv, InstallInv, InstalledInv, InfoInv,
         Past, Late, Crb
  <1> QED
    BY <1>3, <1>4 DEF Configure

LEMMA ApplyBoot ==
    ASSUME SafeInv, BootInv, applyResourcesToRuntimeCluster
    PROVE  BootInv'
  <1> DEFINE i == mem.ix
  <1>0. ~Quiet' /\ UNCHANGED <<spec, kcp>>
    BY BootAtWork
  <1>1. DocsInv'
    BY <1>0, DocsKept DEF applyResourcesToRuntimeCluster, BootInv
  <1>2. CASE Retry
    BY <1>0, <1>1, <1>2, BootEnds
  <1>3. ASSUME ~Retry
        PROVE  BootInv'
    <2>1. /\ pc = "apply" /\ conf' = [conf EXCEPT ![i] = mem.want[i]]
          /\ \/ i < Len(Parts) /\ pc' = "apply" /\ mem' = [mem EXCEPT !.ix = i + 1]
             \/ ~(i < Len(Parts)) /\ pc' = "info"
      BY <1>3 DEF applyResourcesToRuntimeCluster, Goto
    <2>2. i \in 1..Len(Parts) /\ Part = 1..Len(Parts) /\ Len(Parts) \in Nat
      BY <2>1, ConstTypes DEF SafeInv, Typed, LoopInv
    <2>3. kcp.conf \in [Part -> Nat] /\ conf \in [Part -> Nat]
      BY DocsType DEF SafeInv
    <2>4. ASSUME ~spec.forced
          PROVE  mem.want = kcp.conf /\ \A p \in Part : p <= i => conf'[p] = kcp.conf[p]
      <3>1. mem.want = kcp.conf /\ \A p \in Part : p < i => conf[p] = kcp.conf[p]
        BY <2>1, <2>4 DEF BootInv, ConfInv
      <3> QED
        BY <2>1, <2>2, <2>3, <3>1
    <2>5. conf' \in [Part -> Nat]
      BY <2>1, <2>2, <2>3, DocsType DEF SafeInv
    <2>6. ~Reports'
      BY <2>1 DEF Reports
    <2>7. CASE i < Len(Parts) /\ pc' = "apply" /\ mem' = [mem EXCEPT !.ix = i + 1]
      <3>1. mem'.want = mem.want /\ mem'.ix = i + 1
        BY <2>7 DEF SafeInv, Typed, TypeOK, Memory
      <3>2. ConfInv'
        BY <1>0, <2>1, <2>2, <2>4, <2>6, <2>7, <3>1 DEF ConfInv, Past, Late, Crb
      <3> QED
        BY <1>0, <1>1, <2>6, <2>7, <3>2 DEF BootInv, InstallInv, InstalledInv, InfoInv, Past, Late, Crb
    <2>8. CASE ~(i < Len(Parts)) /\ pc' = "info"
      <3>1. ~spec.forced => \A p \in Part : conf'[p] = kcp.conf[p]
        BY <2>2, <2>4, <2>8
      <3>2. ~spec.forced => conf' = kcp.conf
        BY <2>3, <2>5, <3>1
      <3>3. ConfInv'
        BY <1>0, <2>1, <2>6, <2>8, <3>2 DEF ConfInv, Past
      <3> QED
        BY <1>0, <1>1, <2>6, <2>8, <3>3 DEF BootInv, InstallInv, InstalledInv, InfoInv, Past, Late, Crb
    <2> QED
      BY <2>1, <2>7, <2>8
  <1> QED
    BY <1>2, <1>3

\* A Deployment with the label of the control plane's manifests is applied from
\* them, and so is every document.
LEMMA LabelTells ==
    ASSUME Typed, DocsInv, docs[DeploymentAt].label = kcp.manifests.label
    PROVE  \A d \in 1..Docs : docs[d] = kcp.manifests
  <1>1. \A d \in 1..Docs : docs[d] \in Manifests
    BY DocsType
  <1>2. kcp.manifests \in Manifests /\ DeploymentAt \in 1..Docs
    BY DocsType, ConstTypes
  <1>3. docs[DeploymentAt].content = kcp.manifests.content
    BY <1>2 DEF DocsInv
  <1> QED
    BY <1>1, <1>2, <1>3 DEF DocsInv, Manifests

LEMMA InfoBoot ==
    ASSUME SafeInv, BootInv, InstallationInfo
    PROVE  BootInv'
  <1>0. ~Quiet' /\ UNCHANGED <<spec, kcp>>
    BY BootAtWork
  <1>1. DocsInv' /\ UNCHANGED <<conf, docs>> /\ pc = "info"
    BY <1>0, DocsKept DEF InstallationInfo, skrVars, BootInv
  <1>2. CASE Retry \/ Return("Failed")
    BY <1>0, <1>1, <1>2, BootEnds
  <1>3. CASE Goto("install", [mem EXCEPT !.manifests = kcp.manifests, !.ix = 1])
    <2>1. pc' = "install" /\ ~Reports'
      BY <1>3, GotoReports
    <2>2. mem'.manifests = kcp.manifests /\ mem'.ix = 1
      BY <1>3 DEF Goto, SafeInv, Typed, TypeOK, Memory
    <2>3. ConfInv'
      BY <1>0, <1>1, <2>1 DEF BootInv, ConfInv, Past
    <2>4. kcp.manifests.content \in Nat /\ \A d \in 1..Docs : ~(d < mem'.ix)
      BY <2>2, DocsType, ConstTypes DEF SafeInv, Manifests
    <2>5. InstallInv'
      BY <1>0, <1>1, <2>2, <2>4 DEF BootInv, DocsInv, InstallInv
    <2> QED
      BY <1>0, <1>1, <2>1, <2>3, <2>5 DEF BootInv, InstalledInv, InfoInv, Past, Late, Crb
  <1>4. CASE Goto("skr", mem) /\ ~toBeInstalled(kcp.manifests) /\ deployed.ready
    <2>1. pc' = "skr" /\ ~Reports'
      BY <1>4, GotoReports
    <2>2. \A d \in 1..Docs : docs[d] = kcp.manifests
      BY <1>4, LabelTells DEF toBeInstalled, isDeploymentToBeUpdated, SafeInv, BootInv
    <2>3. ConfInv'
      BY <1>0, <1>1, <2>1 DEF BootInv, ConfInv, Past
    <2> QED
      BY <1>0, <1>1, <2>1, <2>2, <2>3 DEF BootInv, InstallInv, InstalledInv, InfoInv, Past, Late, Crb
  <1> QED
    BY <1>2, <1>3, <1>4 DEF InstallationInfo

\* The documents after one of them has been applied: when it is the Deployment,
\* all the others are of the same manifests already.
LEMMA Applying ==
    ASSUME Labelled, SafeInv, BootInv, pc = "install", applyObject(mem.ix), UNCHANGED kcp
    PROVE  /\ DocsInv'
           /\ \A d \in 1..Docs : /\ docs'[d].content <= mem.manifests.content
                                 /\ d <= mem.ix => docs'[d] = mem.manifests
  <1> DEFINE i == mem.ix
             m == mem.manifests
  <1>1. /\ docs \in [1..Docs -> Manifests] /\ i \in 1..Docs /\ m \in Manifests
        /\ Docs \in Nat /\ kcp.manifests \in Manifests
    BY DocsType, ConstTypes DEF SafeInv, Typed, LoopInv
  <1>2. docs' = [docs EXCEPT ![i] = m]
    BY DEF applyObject
  <1>3. /\ m.label = m.content /\ m.content <= kcp.manifests.content
        /\ \A d \in 1..Docs : docs[d].content <= m.content /\ (d < i => docs[d] = m)
    BY DEF BootInv, InstallInv
  <1>4. /\ m.content \in Nat /\ kcp.manifests.content \in Nat
        /\ \A d \in 1..Docs : docs[d].content \in Nat /\ docs'[d].content \in Nat
    BY <1>1, <1>2 DEF Manifests
  <1> HIDE DEF i, m
  <1>5. \A d \in 1..Docs : docs'[d].content <= m.content /\ (d <= i => docs'[d] = m)
    BY <1>1, <1>2, <1>3, <1>4
  <1>6. \A d \in 1..Docs : docs'[d].label = docs'[d].content
    BY <1>1, <1>2, <1>3 DEF BootInv, DocsInv
  <1>7. \A d \in 1..Docs : docs'[Docs].content <= docs'[d].content
    <2>1. CASE i = Docs
      BY <1>1, <1>4, <1>5, <2>1
    <2>2. CASE i # Docs
      <3>1. docs'[Docs] = docs[Docs] /\ Docs \in 1..Docs
        BY <1>1, <1>2, <2>2
      <3>2. \A d \in 1..Docs : docs[Docs].content <= docs[d].content
        BY DEF BootInv, DocsInv, Labelled
      <3> QED
        BY <1>1, <1>2, <1>3, <3>1, <3>2
    <2> QED
      BY <2>1, <2>2
  <1>8. \A d \in 1..Docs : docs'[d].content <= kcp.manifests.content
    BY <1>3, <1>4, <1>5
  <1>9. DocsInv'
    BY <1>6, <1>7, <1>8 DEF DocsInv, BootInv, Labelled
  <1> QED
    BY <1>5, <1>9 DEF i, m

LEMMA ManifestsBoot ==
    ASSUME Labelled, SafeInv, BootInv, ApplyManifests
    PROVE  BootInv'
  <1>0. ~Quiet' /\ UNCHANGED <<spec, kcp>>
    BY BootAtWork
  <1>1. pc = "install" /\ UNCHANGED conf /\ (applyObject(mem.ix) \/ UNCHANGED docs)
    BY DEF ApplyManifests
  <1>2. DocsInv'
    BY <1>0, <1>1, Applying, DocsKept DEF BootInv
  <1>3. CASE Retry
    BY <1>0, <1>2, <1>3, BootEnds
  <1>4. CASE applyObject(mem.ix) /\ Goto("install", [mem EXCEPT !.ix = @ + 1])
    <2>1. pc' = "install" /\ ~Reports'
      BY <1>4, GotoReports
    <2>2. mem'.manifests = mem.manifests /\ mem'.ix = mem.ix + 1 /\ mem.ix \in Nat
      BY <1>4 DEF Goto, SafeInv, Typed, TypeOK, Memory
    <2>3. ConfInv'
      BY <1>0, <1>1, <2>1 DEF BootInv, ConfInv, Past
    <2>4. \A d \in 1..Docs : /\ docs'[d].content <= mem.manifests.content
                             /\ d <= mem.ix => docs'[d] = mem.manifests
      BY <1>0, <1>1, <1>4, Applying
    <2>5. \A d \in 1..Docs : d < mem'.ix => d <= mem.ix
      BY <2>2
    <2>6. InstallInv'
      BY <1>0, <1>1, <2>2, <2>4, <2>5 DEF BootInv, InstallInv
    <2> QED
      BY <1>0, <1>2, <2>1, <2>3, <2>6 DEF BootInv, InstalledInv, InfoInv, Past, Late, Crb
  <1> QED
    BY <1>3, <1>4 DEF ApplyManifests

\* From the provisioning info on nothing of the bootstrapper changes.
LEMMA LateBoot ==
    ASSUME BootInv, pc \in {"skr"} \cup Late, pc' \in {"status"} \cup Late, ~Quiet',
           UNCHANGED <<spec, kcp, conf, docs, inst>>, info' = inst.gen
    PROVE  BootInv'
  <1>1. pc' \notin {"apply", "install"}
    BY DEF Late, Crb
  <1>2. DocsInv' /\ InstallInv'
    BY <1>1, DocsKept DEF BootInv, InstallInv
  <1>3. ~spec.forced => conf = kcp.conf /\ \A d \in 1..Docs : docs[d] = kcp.manifests
    BY DEF BootInv, ConfInv, InstalledInv, Past
  <1>4. ConfInv' /\ InstalledInv'
    BY <1>1, <1>3 DEF ConfInv, InstalledInv, Past
  <1>5. InfoInv'
    BY DEF InfoInv
  <1> QED
    BY <1>2, <1>4, <1>5 DEF BootInv

LEMMA SkrBoot ==
    ASSUME SafeInv, BootInv, sFnConfigureSKR \/ OidcDelete \/ recreateOpenIDConnectResources
    PROVE  BootInv'
  <1>0. ~Quiet' /\ UNCHANGED <<spec, kcp, inst>>
    BY BootAtWork
  <1>1. UNCHANGED <<conf, docs>>
    BY DEF sFnConfigureSKR, OidcDelete, recreateOpenIDConnectResources
  <1>2. CASE Retry
    BY <1>0, <1>1, <1>2, BootEnds, DocsKept DEF BootInv
  <1>3. ASSUME ~Retry
        PROVE  BootInv'
    <2>1. CASE sFnConfigureSKR
      <3>1. pc = "skr" /\ pc' \in Late /\ info' = inst.gen
        BY <1>3, <2>1 DEF sFnConfigureSKR, applyKymaProvisioningInfoCM, Goto, Late, Crb
      <3> QED
        BY <1>0, <1>1, <3>1, LateBoot
    <2>2. CASE OidcDelete
      <3>1. pc \in Late /\ pc' \in Late /\ UNCHANGED info
        BY <1>3, <2>2 DEF OidcDelete, Goto, Late, Crb
      <3>2. info' = inst.gen
        BY <3>1 DEF BootInv, InfoInv
      <3> QED
        BY <1>0, <1>1, <3>1, <3>2, LateBoot
    <2>3. CASE recreateOpenIDConnectResources
      <3>1. pc \in Late /\ pc' \in Late /\ UNCHANGED info
        BY <1>3, <2>3 DEF recreateOpenIDConnectResources, Goto, Late, Crb
      <3>2. info' = inst.gen
        BY <3>1 DEF BootInv, InfoInv
      <3> QED
        BY <1>0, <1>1, <3>1, <3>2, LateBoot
    <2> QED
      BY <2>1, <2>2, <2>3
  <1> QED
    BY <1>2, <1>3

LEMMA CrbBoot ==
    ASSUME SafeInv, BootInv, CrbStep
    PROVE  BootInv'
  <1>1. pc \in Late /\ UNCHANGED <<kcp, conf, docs, info, inst, spec>>
        /\ pc' \in {"status"} \cup Late
    BY CrbEffect DEF Keep, Late
  <1>2. info' = inst.gen
    BY <1>1 DEF BootInv, InfoInv
  <1> QED
    BY <1>1, <1>2, CrbAtWork, LateBoot

\* New manifests are newer than all that has been applied.
LEMMA KcpBoot ==
    ASSUME Labelled, SafeInv, BootInv, ChangeKcp
    PROVE  DocsInv' /\ InstallInv'
  <1>1. UNCHANGED <<docs, pc, mem>>
    BY DEF ChangeKcp, skrVars
  <1>2. /\ kcp \in [conf: [Part -> Nat], manifests: Manifests]
        /\ kcp.manifests.content \in Nat /\ kcp.manifests.label \in Nat
        /\ mem.manifests.content \in Nat /\ \A d \in 1..Docs : docs[d].content \in Nat
    BY DocsType DEF SafeInv, Typed, TypeOK, Manifests
  <1>3. \/ kcp'.manifests = kcp.manifests
        \/ /\ kcp'.manifests.content = kcp.manifests.content + 1
           /\ kcp'.manifests.label = kcp.manifests.label + 1
    <2>1. CASE \E p \in Part : kcp' = [kcp EXCEPT !.conf[p] = @ + 1]
      BY <1>2, <2>1
    <2>2. CASE kcp' = [kcp EXCEPT !.manifests = [content |-> @.content + 1, label |-> @.label + 1]]
      BY <1>2, <2>2
    <2> QED
      BY <2>1, <2>2 DEF ChangeKcp, Labelled
  <1>4. /\ kcp'.manifests.label = kcp'.manifests.content
        /\ kcp.manifests.content <= kcp'.manifests.content
        /\ kcp'.manifests.content \in Nat
    BY <1>2, <1>3 DEF BootInv, DocsInv
  <1>5. DocsInv'
    BY <1>1, <1>2, <1>4 DEF BootInv, DocsInv
  <1>6. InstallInv'
    BY <1>1, <1>2, <1>4 DEF BootInv, InstallInv
  <1> QED
    BY <1>5, <1>6

LEMMA OthersBoot ==
    ASSUME Labelled, SafeInv, WrittenInv, BootInv,
           \/ EditRuntime \/ ChangeKcp \/ TamperBindings \/ TamperOidc
           \/ DeploymentReady \/ DeploymentFails \/ Restart \/ UNCHANGED vars
    PROVE  BootInv'
  <1>1. CASE Restart
    <2>1. /\ UNCHANGED <<spec, status, unfinished, kcp, conf, docs, info>>
          /\ pc' = "idle"
      BY <1>1 DEF Restart, kcpVars, skrVars, history
    <2>2. Quiet' = Quiet /\ ~Reports' /\ pc' \in Outside
      BY <2>1 DEF Quiet, Reports, Outside
    <2> QED
      BY <2>1, <2>2, BootRests
  <1>2. CASE ~Restart
    <2>1. /\ Quiet' => Quiet /\ UNCHANGED spec
          /\ Reports' = Reports
          /\ mem'.ix = mem.ix /\ mem'.want = mem.want /\ mem'.manifests = mem.manifests
          /\ UNCHANGED <<inst, pc, conf, docs, info>>
          /\ (UNCHANGED kcp /\ spec'.forced = spec.forced) \/ spec'.forced
      BY <1>2, OthersQuiet DEF SafeInv
    <2>2. InfoInv'
      BY <2>1 DEF BootInv, InfoInv
    <2>3. ConfInv' /\ InstalledInv'
      <3>1. CASE UNCHANGED kcp /\ spec'.forced = spec.forced
        <4>1. \A steps : Past(steps)' => Past(steps)
          BY <2>1, <3>1 DEF Past
        <4> QED
          BY <2>1, <3>1, <4>1 DEF BootInv, ConfInv, InstalledInv
      <3>2. CASE spec'.forced
        BY <3>2 DEF ConfInv, InstalledInv, Past
      <3> QED
        BY <2>1, <3>1, <3>2
    <2>4. DocsInv' /\ InstallInv'
      <3>1. CASE ChangeKcp
        BY <3>1, KcpBoot
      <3>2. CASE ~ChangeKcp
        <4>1. UNCHANGED kcp
          BY <1>2, <3>2 DEF EditRuntime, TamperBindings, TamperOidc, Tamper, DeploymentReady,
             DeploymentFails, vars, kcpVars
        <4> QED
          BY <2>1, <4>1, DocsKept DEF BootInv, InstallInv
      <3> QED
        BY <3>1, <3>2
    <2> QED
      BY <2>2, <2>3, <2>4 DEF BootInv
  <1> QED
    BY <1>1, <1>2

LEMMA InitBoot ==
    ASSUME Init
    PROVE  BootInv
  <1>1. pc = "idle" /\ status = [state |-> "", gen |-> 0]
    BY DEF Init
  <1>5. ~Quiet /\ ~Reports
    BY <1>1 DEF Quiet, Reports
  <1>2. kcp.manifests.label = 1 /\ kcp.manifests.content = 1
    BY DEF Init
  <1>3. \A d \in 1..Docs : docs[d].label = 0 /\ docs[d].content = 0
    BY DEF Init, NoObject
  <1>4. DocsInv
    BY <1>2, <1>3, ConstTypes DEF DocsInv
  <1> QED
    BY <1>1, <1>4, <1>5 DEF BootInv, ConfInv, InstallInv, InstalledInv, InfoInv, Past, Late, Crb

\* A Runtime that its last reconciliation reported Ready, and that is not annotated
\* again, has the bootstrapper of the control plane: its
\* configuration, every document of its manifests and the provisioning info, although
\* InstallationInfo looks at the Deployment's label alone.  This rests on the order of
\* the documents and on a new label for new manifests; nothing in the code sees to
\* either.
THEOREM BootstrapperInstalledAlways ==
    ASSUME DeploymentAt = Docs, "label" \notin Trouble
    PROVE  Spec => []BootstrapperInstalled
  <1>0. Labelled
    BY DEF Labelled
  <1>1. Init => Safe /\ BootInv
    BY InitSafe, InitBoot DEF Safe
  <1>2. Safe /\ BootInv /\ [Next]_vars => (Safe /\ BootInv)'
    <2> SUFFICES ASSUME Safe, BootInv, [Next]_vars PROVE BootInv'
      BY StepSafe
    <2>1. SafeInv /\ WrittenInv /\ Typed
      BY DEF Safe, SafeInv
    <2> QED
      BY <1>0, <2>1, BeginBoot, StatusBoot, ConfigureBoot, ApplyBoot, InfoBoot, ManifestsBoot,
         SkrBoot, CrbBoot, OthersBoot DEF Next, ReconcileStep, CrbStep
  <1>3. BootInv => BootstrapperInstalled
    BY DEF BootInv, ConfInv, InstalledInv, InfoInv, Past, Quiet, BootstrapperInstalled
  <1> QED
    BY <1>1, <1>2, <1>3, PTL DEF Spec
=============================================================================
