------------------------ MODULE ShootPatchingProofs ------------------------
(***************************************************************************)
(* Proofs about ShootPatching, for every provider, any lists of worker     *)
(* pools and extensions, any networks, any number of edits, patches and    *)
(* changes by others, and any combination of troubles.  The order is:      *)
(*   - loops over lists: a fold is a sequence of steps, and what is true   *)
(*     before the first one and kept by each is true after the last one;   *)
(*   - the operators of ProviderExtender, one after the other: zones, the  *)
(*     sort of the pools, the cut of the pod limits, the alignment with    *)
(*     the shoot, and the configuration of the infrastructure;             *)
(*   - the operators of ExtensionsExtender;                                *)
(*   - the conversion of a Runtime as a whole;                             *)
(*   - the inductive invariant Inv, kept by every action;                  *)
(*   - the theorems.                                                       *)
(***************************************************************************)
EXTENDS ShootPatching, HyperscalerZonesProofs, FiniteSetTheorems, SequenceTheorems, TLAPS

-----------------------------------------------------------------------------
(* Loops over lists.                                                       *)

\* A set of numbers that is not empty has a least one.
LEMMA Least ==
    ASSUME NEW S \in SUBSET Nat, S # {}
    PROVE  \E m \in S : \A n \in S : m <= n
<1>1. IsWellFoundedOn({p \in Nat \X Nat : p[1] < p[2]}, Nat)
  BY NatLessThanWellFounded DEF OpToRel
<1>2. PICK x \in S : \A y \in S : ~(<<y, x>> \in {p \in Nat \X Nat : p[1] < p[2]})
  BY <1>1, WFMin
<1>3. \A y \in S : x <= y
  <2> TAKE y \in S
  <2>1. x \in Nat /\ y \in Nat /\ <<y, x>> \in Nat \X Nat /\ <<y, x>>[1] = y /\ <<y, x>>[2] = x
    OBVIOUS
  <2>2. ~(y < x)
    BY <1>2, <2>1
  <2> QED BY <2>1, <2>2
<1> QED BY <1>3

LEMMA SetInduction ==
    ASSUME NEW S \in SUBSET Nat, 0 \in S, \A n \in S : n + 1 \in S
    PROVE  Nat \subseteq S
<1> SUFFICES ASSUME Nat \ S # {} PROVE FALSE
  OBVIOUS
<1>1. PICK m \in Nat \ S : \A n \in Nat \ S : m <= n
  BY Least
<1>2. m # 0 /\ m - 1 \in Nat /\ m - 1 \notin Nat \ S
  BY <1>1
<1> QED BY <1>2

LEMMA MinOf ==
    ASSUME NEW n \in Nat, NEW s \in SUBSET (1..n), s # {}
    PROVE  Min(s) \in s /\ \A y \in s : Min(s) <= y
<1>1. \E m \in s : \A y \in s : m <= y
  BY Least
<1> QED BY <1>1 DEF Min

LEMMA MaxOf ==
    ASSUME NEW n \in Nat, NEW s \in SUBSET (1..n), s # {}
    PROVE  Max(s) \in s /\ \A y \in s : Max(s) >= y
<1> DEFINE U == {m \in Nat : \A y \in s : m >= y}
<1>1. n \in U
  OBVIOUS
<1>2. PICK m \in U : \A k \in U : m <= k
  BY <1>1, Least
<1>3. m \in s
  <2> SUFFICES ASSUME m \notin s PROVE FALSE
    OBVIOUS
  <2>1. \A y \in s : m - 1 >= y
    BY <1>2
  <2>2. m - 1 \in Nat
    <3>1. PICK y \in s : TRUE
      OBVIOUS
    <3> QED BY <1>2, <2>1, <3>1
  <2> QED BY <1>2, <2>1, <2>2
<1> QED BY <1>2, <1>3 DEF Max

LEMMA MaxUpto ==
    ASSUME NEW k \in Nat, k # 0
    PROVE  Max(1..k) = k /\ (1..k) \ {k} = 1..(k - 1)
  BY DEF Max

LEMMA MinFrom ==
    ASSUME NEW k \in Nat, NEW n \in Nat, k <= n
    PROVE  Min(k..n) = k /\ (k..n) \ {k} = (k + 1)..n
  BY DEF Min

\* A choice of a member for every subset of 1..n, and a function by recursion over
\* these subsets.
Chooser(n, C) ==
    /\ C \in [(SUBSET (1..n)) \ {{}} -> 1..n]
    /\ \A s \in (SUBSET (1..n)) \ {{}} : C[s] \in s

Folder(n, V, base, C, G, g) ==
    /\ g \in [SUBSET (1..n) -> V]
    /\ \A s \in SUBSET (1..n) : g[s] = IF s = {} THEN base ELSE G[<<C[s], g[s \ {C[s]}]>>]

LEMMA FoldExists ==
    ASSUME NEW n \in Nat, NEW V, NEW base \in V,
           NEW C, Chooser(n, C), NEW G \in [(1..n) \X V -> V]
    PROVE  \E g : Folder(n, V, base, C, G, g)
<1> USE DEF Chooser
<1> DEFINE D == 1..n
           Rule(g, s) == IF s = {} THEN base ELSE G[<<C[s], g[s \ {C[s]}]>>]
           Good(g, k) == \A s \in SUBSET D : Cardinality(s) <= k => g[s] = Rule(g, s)
           P == {k \in Nat : \E g \in [SUBSET D -> V] : Good(g, k)}
<1>1. \A s \in SUBSET D : IsFiniteSet(s) /\ Cardinality(s) \in 0..n
  <2> TAKE s \in SUBSET D
  <2>1. IsFiniteSet(D) /\ Cardinality(D) = n
    BY FS_Interval
  <2>2. IsFiniteSet(s) /\ Cardinality(s) <= Cardinality(D)
    BY <2>1, FS_Subset
  <2>3. Cardinality(s) \in Nat
    BY <2>2, FS_CardinalityType
  <2> QED BY <2>1, <2>2, <2>3
<1>2. \A s \in (SUBSET D) \ {{}} : /\ Cardinality(s \ {C[s]}) = Cardinality(s) - 1
                                   /\ s \ {C[s]} \in SUBSET D
  <2> TAKE s \in (SUBSET D) \ {{}}
  <2>1. C[s] \in s /\ IsFiniteSet(s)
    BY <1>1
  <2> QED BY <2>1, FS_RemoveElement
<1>3. 0 \in P
  <2>1. [s \in SUBSET D |-> base] \in [SUBSET D -> V]
    OBVIOUS
  <2>2. \A s \in SUBSET D : Cardinality(s) <= 0 => s = {}
    BY <1>1, FS_EmptySet
  <2>3. Good([s \in SUBSET D |-> base], 0)
    BY <2>2
  <2> QED BY <2>1, <2>3
<1>4. ASSUME NEW k \in P PROVE k + 1 \in P
  <2>1. PICK g \in [SUBSET D -> V] : Good(g, k)
    BY <1>4
  <2> DEFINE f == [s \in SUBSET D |-> Rule(g, s)]
  <2>2. f \in [SUBSET D -> V]
    BY <1>2, <2>1
  <2>3. \A s \in SUBSET D : Cardinality(s) <= k => f[s] = g[s]
    BY <2>1
  <2>4. \A s \in SUBSET D : Cardinality(s) <= k + 1 => f[s] = Rule(f, s)
    <3> TAKE s \in SUBSET D
    <3> HAVE Cardinality(s) <= k + 1
    <3>1. CASE s = {}
      BY <3>1
    <3>2. CASE s # {}
      <4>1. s \in (SUBSET D) \ {{}}
        BY <3>2
      <4>2. s \ {C[s]} \in SUBSET D /\ Cardinality(s \ {C[s]}) = Cardinality(s) - 1
        BY <1>2, <4>1
      <4>2a. Cardinality(s) \in Nat /\ k \in Nat
        BY <1>1
      <4>2b. Cardinality(s \ {C[s]}) <= k
        BY <4>2, <4>2a
      <4>3. f[s \ {C[s]}] = g[s \ {C[s]}]
        <5> HIDE DEF f
        <5> QED BY <2>3, <4>2, <4>2b
      <4> QED BY <3>2, <4>3
    <3> QED BY <3>1, <3>2
  <2>5. Good(f, k + 1) /\ k + 1 \in Nat
    <3> HIDE DEF f, Rule
    <3> QED BY <2>4
  <2> HIDE DEF f, Good
  <2> QED BY <2>2, <2>5
<1> HIDE DEF Rule
<1>5. P \in SUBSET Nat
  OBVIOUS
<1> HIDE DEF P
<1>6. n \in P
  BY <1>3, <1>4, <1>5, SetInduction
<1>7. PICK g \in [SUBSET D -> V] : Good(g, n)
  BY <1>6 DEF P
<1>8. \A s \in SUBSET D : g[s] = Rule(g, s)
  BY <1>1, <1>7
<1> QED BY <1>7, <1>8 DEF Rule, Folder

\* What such a function is at the intervals from 1.
LeftRule(n, V, G, g) ==
    \A s \in SUBSET (1..n) :
        s # {} /\ g[s \ {Max(s)}] \in V => g[s] = G[<<Max(s), g[s \ {Max(s)}]>>]

LeftStepped(n, V, base, G, end, h) ==
    /\ h \in [0..n -> V] /\ h[0] = base /\ h[n] = end
    /\ \A k \in 1..n : h[k] = G[<<k, h[k - 1]>>]

LEMMA LeftSteps ==
    ASSUME NEW n \in Nat, NEW V, NEW base \in V, NEW G \in [(1..n) \X V -> V], NEW g,
           g[{}] = base,
           LeftRule(n, V, G, g)
    PROVE  \E h : LeftStepped(n, V, base, G, g[1..n], h)
<1> USE DEF LeftRule
<1> DEFINE P == {k \in Nat : k <= n => g[1..k] \in V}
<1>1. \A k \in 1..n : g[1..(k - 1)] \in V => /\ g[1..k] = G[<<k, g[1..(k - 1)]>>]
                                             /\ g[1..k] \in V
  <2> TAKE k \in 1..n
  <2> HAVE g[1..(k - 1)] \in V
  <2>1. 1..k \in SUBSET (1..n) /\ 1..k # {} /\ Max(1..k) = k /\ (1..k) \ {k} = 1..(k - 1)
    <3> HIDE DEF LeftRule
    <3>1. k \in Nat \ {0} /\ 1..k \in SUBSET (1..n) /\ 1..k # {}
      OBVIOUS
    <3>2. (1..k) \ {k} = 1..(k - 1)
      OBVIOUS
    <3>3. Max(1..k) = k
      BY <3>1, MaxUpto
    <3> QED BY <3>1, <3>2, <3>3
  <2>2. g[1..k] = G[<<k, g[1..(k - 1)]>>]
    BY <2>1
  <2> QED BY <2>2
<1>2. 1..0 = {}
  OBVIOUS
<1>3. 0 \in P
  BY <1>2
<1>4. ASSUME NEW k \in P PROVE k + 1 \in P
  <2>1. ASSUME k + 1 <= n PROVE g[1..(k + 1)] \in V
    <3>1. k + 1 \in 1..n /\ (k + 1) - 1 = k /\ g[1..k] \in V
      BY <1>4, <2>1
    <3>2. g[1..((k + 1) - 1)] \in V
      BY <3>1
    <3> QED BY <1>1, <3>1, <3>2
  <2> QED BY <2>1
<1> P \in SUBSET Nat
  OBVIOUS
<1>5. \A k \in 0..n : g[1..k] \in V
  <2> HIDE DEF P
  <2>1. Nat \subseteq P
    BY <1>3, <1>4, SetInduction
  <2> QED BY <2>1 DEF P
<1>6. /\ [k \in 0..n |-> g[1..k]] \in [0..n -> V]
      /\ \A k \in 1..n : k \in 0..n /\ k - 1 \in 0..n
  BY <1>5
<1>7. \A k \in 1..n : g[1..k] = G[<<k, g[1..(k - 1)]>>]
  BY <1>1, <1>5, <1>6
<1> DEFINE h == [k \in 0..n |-> g[1..k]]
<1>8. h \in [0..n -> V] /\ h[0] = base /\ h[n] = g[1..n]
  BY <1>2, <1>5
<1>9. \A k \in 1..n : h[k] = G[<<k, h[k - 1]>>]
  BY <1>6, <1>7
<1> HIDE DEF h
<1> QED BY <1>8, <1>9 DEF LeftStepped

\* The same at the intervals to n.
RightRule(n, V, G, g) ==
    \A s \in SUBSET (1..n) :
        s # {} /\ g[s \ {Min(s)}] \in V => g[s] = G[<<Min(s), g[s \ {Min(s)}]>>]

RightStepped(n, V, base, G, end, h) ==
    /\ h \in [1..(n + 1) -> V] /\ h[n + 1] = base /\ h[1] = end
    /\ \A k \in 1..n : h[k] = G[<<k, h[k + 1]>>]

LEMMA RightSteps ==
    ASSUME NEW n \in Nat, NEW V, NEW base \in V, NEW G \in [(1..n) \X V -> V], NEW g,
           g[{}] = base,
           RightRule(n, V, G, g)
    PROVE  \E h : RightStepped(n, V, base, G, g[1..n], h)
<1> USE DEF RightRule
<1> DEFINE P == {k \in Nat : k <= n => g[(n + 1 - k)..n] \in V}
<1>1. \A k \in 1..n : g[(k + 1)..n] \in V => /\ g[k..n] = G[<<k, g[(k + 1)..n]>>]
                                             /\ g[k..n] \in V
  <2> TAKE k \in 1..n
  <2> HAVE g[(k + 1)..n] \in V
  <2>1. k..n \in SUBSET (1..n) /\ k..n # {} /\ Min(k..n) = k /\ (k..n) \ {k} = (k + 1)..n
    <3>1. k \in Nat /\ k <= n /\ k \in k..n /\ k..n \in SUBSET (1..n)
      OBVIOUS
    <3>2. Min(k..n) = k /\ (k..n) \ {k} = (k + 1)..n
      BY <3>1, MinFrom
    <3> QED BY <3>1, <3>2
  <2>2. g[k..n] = G[<<k, g[(k + 1)..n]>>]
    BY <2>1
  <2> QED BY <2>2
<1>2. (n + 1)..n = {} /\ n + 1 - 0 = n + 1
  OBVIOUS
<1>3. 0 \in P
  BY <1>2
<1>4. ASSUME NEW k \in P PROVE k + 1 \in P
  <2>1. CASE k + 1 <= n
    <3>1. n - k \in 1..n /\ (n - k) + 1 = n + 1 - k /\ n + 1 - (k + 1) = n - k
          /\ g[(n + 1 - k)..n] \in V
      BY <1>4, <2>1
    <3>2. g[(n - k)..n] \in V
      BY <1>1, <3>1
    <3> QED BY <3>1, <3>2
  <2> QED BY <2>1
<1> P \in SUBSET Nat
  OBVIOUS
<1>5. \A k \in 1..(n + 1) : g[k..n] \in V
  <2> TAKE k \in 1..(n + 1)
  <2> HIDE DEF P
  <2>1. Nat \subseteq P
    BY <1>3, <1>4, SetInduction
  <2>2. n + 1 - k \in P /\ n + 1 - k <= n /\ n + 1 - (n + 1 - k) = k
    BY <2>1
  <2> QED BY <2>2 DEF P
<1>6. /\ [k \in 1..(n + 1) |-> g[k..n]] \in [1..(n + 1) -> V]
      /\ \A k \in 1..n : k \in 1..(n + 1) /\ k + 1 \in 1..(n + 1)
      /\ 1 \in 1..(n + 1) /\ n + 1 \in 1..(n + 1)
  BY <1>5
<1>7. \A k \in 1..n : g[k..n] = G[<<k, g[(k + 1)..n]>>]
  BY <1>1, <1>5, <1>6
<1> DEFINE h == [k \in 1..(n + 1) |-> g[k..n]]
<1>8. h \in [1..(n + 1) -> V] /\ h[n + 1] = base /\ h[1] = g[1..n]
  BY <1>2, <1>5, <1>6
<1>9. \A k \in 1..n : h[k] = G[<<k, h[k + 1]>>]
  BY <1>6, <1>7
<1> HIDE DEF h
<1> QED BY <1>8, <1>9 DEF RightStepped

MaxChooser(n) == [s \in (SUBSET (1..n)) \ {{}} |-> Max(s)]
MinChooser(n) == [s \in (SUBSET (1..n)) \ {{}} |-> Min(s)]

LEMMA MaxChooserIs ==
    ASSUME NEW n \in Nat
    PROVE  Chooser(n, MaxChooser(n))
<1>1. \A s \in (SUBSET (1..n)) \ {{}} : Max(s) \in s /\ Max(s) \in 1..n
  BY MaxOf
<1> QED BY <1>1 DEF Chooser, MaxChooser

LEMMA MinChooserIs ==
    ASSUME NEW n \in Nat
    PROVE  Chooser(n, MinChooser(n))
<1>1. \A s \in (SUBSET (1..n)) \ {{}} : Min(s) \in s /\ Min(s) \in 1..n
  BY MinOf
<1> QED BY <1>1 DEF Chooser, MinChooser

LeftFolded(n, V, base, G, g) ==
    /\ g \in [SUBSET (1..n) -> V] /\ g[{}] = base
    /\ \A s \in SUBSET (1..n) :
         s # {} => /\ Max(s) \in 1..n /\ <<Max(s), g[s \ {Max(s)}]>> \in (1..n) \X V
                   /\ g[s] = G[<<Max(s), g[s \ {Max(s)}]>>]

RightFolded(n, V, base, G, g) ==
    /\ g \in [SUBSET (1..n) -> V] /\ g[{}] = base
    /\ \A s \in SUBSET (1..n) :
         s # {} => /\ Min(s) \in 1..n /\ <<Min(s), g[s \ {Min(s)}]>> \in (1..n) \X V
                   /\ g[s] = G[<<Min(s), g[s \ {Min(s)}]>>]

LEMMA LeftFoldExists ==
    ASSUME NEW n \in Nat, NEW V, NEW base \in V, NEW G \in [(1..n) \X V -> V]
    PROVE  \E g : LeftFolded(n, V, base, G, g)
<1>1. Chooser(n, MaxChooser(n))
  BY MaxChooserIs
<1>2. PICK g : Folder(n, V, base, MaxChooser(n), G, g)
  BY <1>1, FoldExists
<1>3. g[{}] = base
  BY <1>2 DEF Folder
<1>4. ASSUME NEW s \in SUBSET (1..n), s # {}
      PROVE  /\ Max(s) \in 1..n /\ <<Max(s), g[s \ {Max(s)}]>> \in (1..n) \X V
             /\ g[s] = G[<<Max(s), g[s \ {Max(s)}]>>]
  <2>1. MaxChooser(n)[s] = Max(s) /\ Max(s) \in 1..n
    BY <1>1, <1>4 DEF Chooser, MaxChooser
  <2> QED BY <1>2, <1>4, <2>1 DEF Folder
<1> QED BY <1>2, <1>3, <1>4 DEF LeftFolded, Folder

LEMMA RightFoldExists ==
    ASSUME NEW n \in Nat, NEW V, NEW base \in V, NEW G \in [(1..n) \X V -> V]
    PROVE  \E g : RightFolded(n, V, base, G, g)
<1>1. Chooser(n, MinChooser(n))
  BY MinChooserIs
<1>2. PICK g : Folder(n, V, base, MinChooser(n), G, g)
  BY <1>1, FoldExists
<1>3. g[{}] = base
  BY <1>2 DEF Folder
<1>4. ASSUME NEW s \in SUBSET (1..n), s # {}
      PROVE  /\ Min(s) \in 1..n /\ <<Min(s), g[s \ {Min(s)}]>> \in (1..n) \X V
             /\ g[s] = G[<<Min(s), g[s \ {Min(s)}]>>]
  <2>1. MinChooser(n)[s] = Min(s) /\ Min(s) \in 1..n
    BY <1>1, <1>4 DEF Chooser, MinChooser
  <2> QED BY <1>2, <1>4, <2>1 DEF Folder
<1> QED BY <1>2, <1>3, <1>4 DEF RightFolded, Folder


\* Induction over the steps of a fold.
LEMMA Upwards ==
    ASSUME NEW n \in Nat, NEW S, 0 \in S, \A k \in 1..n : k - 1 \in S => k \in S
    PROVE  \A k \in 0..n : k \in S
<1> DEFINE P == {k \in Nat : k <= n => k \in S}
<1>1. P \in SUBSET Nat /\ 0 \in P
  OBVIOUS
<1>2. ASSUME NEW k \in P PROVE k + 1 \in P
  <2>1. CASE k + 1 <= n
    <3>1. k + 1 \in 1..n /\ (k + 1) - 1 = k /\ k \in S
      BY <2>1
    <3> QED BY <3>1
  <2> QED BY <2>1
<1> HIDE DEF P
<1>3. Nat \subseteq P
  BY <1>1, <1>2, SetInduction
<1> QED BY <1>3 DEF P

LEMMA Downwards ==
    ASSUME NEW n \in Nat, NEW S, n + 1 \in S, \A k \in 1..n : k + 1 \in S => k \in S
    PROVE  \A k \in 1..(n + 1) : k \in S
<1> DEFINE T == {k \in Nat : n + 1 - k \in S}
<1>1. 0 \in T
  OBVIOUS
<1>2. ASSUME NEW k \in 1..n, k - 1 \in T PROVE k \in T
  <2>1. n + 1 - k \in 1..n /\ (n + 1 - k) + 1 = n + 1 - (k - 1) /\ k \in Nat
    OBVIOUS
  <2>2. n + 1 - (k - 1) \in S
    BY <1>2
  <2>3. n + 1 - k \in S
    BY <2>1, <2>2
  <2> QED BY <2>1, <2>3
<1> HIDE DEF T
<1>3. \A k \in 0..n : k \in T
  BY <1>1, <1>2, Upwards
<1> TAKE k \in 1..(n + 1)
<1>4. n + 1 - k \in 0..n /\ n + 1 - (n + 1 - k) = k
  OBVIOUS
<1>5. n + 1 - k \in T
  BY <1>3, <1>4
<1> QED BY <1>4, <1>5 DEF T

-----------------------------------------------------------------------------
(* Zones (AppendNew, newZonesAdded, getNetworkingZonesFromWorkers).        *)

Extends(s, t) == Len(s) <= Len(t) /\ \A i \in 1..Len(s) : t[i] = s[i]

LEMMA ContainsIs ==
    ASSUME NEW Z, NEW s \in Seq(Z), NEW z
    PROVE  /\ Contains(s, z) <=> z \in ToSet(s)
           /\ ToSet(s) \subseteq Z
  BY DEF Contains, ToSet

LEMMA ExtendsPrefix ==
    ASSUME NEW Z, NEW s \in Seq(Z), NEW t \in Seq(Z), Extends(s, t)
    PROVE  IsPrefix(s, t)
<1>1. Len(s) \in Nat /\ Len(t) \in Nat /\ Len(s) <= Len(t)
  BY DEF Extends
<1>2. SubSeq(s, 1, Len(s)) = SubSeq(t, 1, Len(s))
  BY <1>1 DEF Extends
<1> QED BY <1>1, <1>2 DEF IsPrefix

LEMMA AppendIs ==
    ASSUME NEW Z, NEW s \in Seq(Z), NEW z \in Z
    PROVE  /\ Append(s, z) \in Seq(Z) /\ Extends(s, Append(s, z))
           /\ ToSet(Append(s, z)) = ToSet(s) \cup {z}
<1>1. DOMAIN Append(s, z) = 1..(Len(s) + 1) /\ DOMAIN s = 1..Len(s) /\ Len(s) \in Nat
  OBVIOUS
<1>2. Append(s, z)[Len(s) + 1] = z /\ \A i \in 1..Len(s) : Append(s, z)[i] = s[i]
  OBVIOUS
<1>3. ToSet(Append(s, z)) = ToSet(s) \cup {z}
  BY <1>1, <1>2 DEF ToSet
<1> QED BY <1>1, <1>2, <1>3 DEF Extends

LEMMA AppendNewSteps ==
    ASSUME NEW Z, NEW zones \in Seq(Z), NEW more \in Seq(Z)
    PROVE  \E h \in [0..Len(more) -> Seq(Z)] :
              /\ h[0] = zones /\ h[Len(more)] = AppendNew(zones, more)
              /\ \A k \in 1..Len(more) :
                   h[k] = IF Contains(h[k - 1], more[k]) THEN h[k - 1]
                          ELSE Append(h[k - 1], more[k])
<1> DEFINE n == Len(more)
           V == Seq(Z)
           op(s, z) == IF Contains(s, z) THEN s ELSE Append(s, z)
           G == [p \in (1..n) \X V |-> op(p[2], more[p[1]])]
           Is(g) == g = [s \in SUBSET (1..n) |->
                           IF s = {} THEN zones ELSE op(g[s \ {Max(s)}], more[Max(s)])]
<1>1. n \in Nat /\ DOMAIN more = 1..n /\ \A i \in 1..n : more[i] \in Z
  OBVIOUS
<1>2. zones \in V /\ G \in [(1..n) \X V -> V]
  BY <1>1
<1>3. \A i \in 1..n, v \in V : <<i, v>> \in (1..n) \X V /\ G[<<i, v>>] = op(v, more[i])
  <2> HIDE DEF op, V
  <2> QED OBVIOUS
<1> HIDE DEF n, V, G, op
<1>4. PICK g : LeftFolded(n, V, zones, G, g)
  BY <1>1, <1>2, LeftFoldExists
<1>5. Is(g)
  BY <1>3, <1>4 DEF LeftFolded
<1>6. PICK f : Is(f) /\ AppendNew(zones, more) = f[1..n]
  BY <1>1, <1>5 DEF AppendNew, FoldLeft, MapThenFoldSet, op
<1>7. f[{}] = zones
  BY <1>6
<1>8. LeftRule(n, V, G, f)
  <2> SUFFICES ASSUME NEW s \in SUBSET (1..n), s # {}, f[s \ {Max(s)}] \in V
               PROVE  f[s] = G[<<Max(s), f[s \ {Max(s)}]>>]
    BY DEF LeftRule
  <2>1. Max(s) \in 1..n
    BY <1>4 DEF LeftFolded
  <2>2. f[s] = op(f[s \ {Max(s)}], more[Max(s)])
    BY <1>6
  <2> QED BY <1>3, <2>1, <2>2
<1>9. PICK h : LeftStepped(n, V, zones, G, f[1..n], h)
  BY <1>1, <1>2, <1>7, <1>8, LeftSteps
<1>10. \A k \in 1..n : k - 1 \in 0..n
  BY <1>1
<1>11. \A k \in 1..n : h[k] = op(h[k - 1], more[k])
  BY <1>3, <1>9, <1>10 DEF LeftStepped
<1> QED BY <1>6, <1>9, <1>11 DEF LeftStepped, op, n, V

StartsWith(s, x) == s # <<>> /\ s[1] = x

LEMMA AppendNewIs ==
    ASSUME NEW Z, NEW zones \in Seq(Z), NEW more \in Seq(Z)
    PROVE  /\ AppendNew(zones, more) \in Seq(Z)
           /\ ToSet(AppendNew(zones, more)) = ToSet(zones) \cup ToSet(more)
           /\ Extends(zones, AppendNew(zones, more))
           /\ ToSet(more) \subseteq ToSet(zones) => AppendNew(zones, more) = zones
           /\ zones = <<>> /\ more # <<>> => StartsWith(AppendNew(zones, more), more[1])
<1> DEFINE n == Len(more)
           had(k) == {more[i] : i \in 1..k}
<1>1. PICK h \in [0..n -> Seq(Z)] :
        /\ h[0] = zones /\ h[n] = AppendNew(zones, more)
        /\ \A k \in 1..n : h[k] = IF Contains(h[k - 1], more[k]) THEN h[k - 1]
                                  ELSE Append(h[k - 1], more[k])
  BY AppendNewSteps
<1>2. n \in Nat /\ \A k \in 1..n : /\ k - 1 \in 0..n /\ k \in 0..n /\ more[k] \in Z
                                   /\ had(k) = had(k - 1) \cup {more[k]}
  OBVIOUS
<1>3. ASSUME NEW k \in 1..n
      PROVE  /\ h[k - 1] \in Seq(Z) /\ Extends(h[k - 1], h[k])
             /\ ToSet(h[k]) = ToSet(h[k - 1]) \cup {more[k]}
  <2>1. h[k - 1] \in Seq(Z) /\ more[k] \in Z
    BY <1>2
  <2>2. CASE Contains(h[k - 1], more[k])
    <3>1. h[k] = h[k - 1] /\ more[k] \in ToSet(h[k - 1])
      BY <1>1, <2>1, <2>2, ContainsIs
    <3> QED BY <2>1, <3>1 DEF Extends
  <2>3. CASE ~Contains(h[k - 1], more[k])
    <3>1. h[k] = Append(h[k - 1], more[k])
      BY <1>1, <2>3
    <3> QED BY <2>1, <3>1, AppendIs
  <2> QED BY <2>2, <2>3
<1> DEFINE S == {k \in 0..n : ToSet(h[k]) = ToSet(zones) \cup had(k) /\ Extends(zones, h[k])}
<1>4. 0 \in S
  <2>1. had(0) = {} /\ Extends(zones, zones) /\ 0 \in 0..n
    BY <1>2 DEF Extends
  <2> QED BY <1>1, <2>1
<1>5. ASSUME NEW k \in 1..n, k - 1 \in S PROVE k \in S
  <2>0. /\ ToSet(h[k - 1]) = ToSet(zones) \cup had(k - 1)
        /\ ToSet(h[k]) = ToSet(h[k - 1]) \cup {more[k]}
    BY <1>3, <1>5
  <2>1. ToSet(h[k]) = ToSet(zones) \cup had(k)
    <3>1. had(k) = had(k - 1) \cup {more[k]}
      <4>1. 1..k = (1..(k - 1)) \cup {k}
        BY <1>2
      <4> QED BY <4>1
    <3> HIDE DEF had
    <3> QED BY <2>0, <3>1
  <2>2. Extends(zones, h[k - 1]) /\ Extends(h[k - 1], h[k]) /\ h[k - 1] \in Seq(Z)
    BY <1>3, <1>5
  <2>3. Extends(zones, h[k])
    BY <2>2, <1>1, <1>2 DEF Extends
  <2> QED BY <2>1, <2>3, <1>2
<1>6. n \in S
  <2> HIDE DEF S, n
  <2>1. \A k \in 0..n : k \in S
    BY <1>2, <1>4, <1>5, Upwards
  <2> QED BY <1>2, <2>1
<1>7. ToSet(h[n]) = ToSet(zones) \cup ToSet(more) /\ Extends(zones, h[n]) /\ h[n] \in Seq(Z)
  <2>1. had(n) = ToSet(more)
    BY DEF ToSet
  <2> QED BY <1>2, <1>6, <2>1 DEF S
<1>8. ASSUME ToSet(more) \subseteq ToSet(zones) PROVE h[n] = zones
  <2> DEFINE E == {k \in 0..n : h[k] = zones}
  <2>1. 0 \in E
    BY <1>1, <1>2
  <2>2. ASSUME NEW k \in 1..n, k - 1 \in E PROVE k \in E
    <3>1. more[k] \in ToSet(zones)
      BY <1>8 DEF ToSet
    <3>2. Contains(h[k - 1], more[k])
      BY <2>2, <3>1, <1>2, ContainsIs
    <3> QED BY <1>1, <1>2, <2>2, <3>2
  <2>3. n \in E
    <3> HIDE DEF E, n
    <3>1. \A k \in 0..n : k \in E
      BY <1>2, <2>1, <2>2, Upwards
    <3> QED BY <1>2, <3>1
  <2> QED BY <2>3 DEF E
<1>9. ASSUME zones = <<>>, more # <<>> PROVE h[n] # <<>> /\ h[n][1] = more[1]
  <2> DEFINE E == {k \in 0..n : k >= 1 => Len(h[k]) >= 1 /\ h[k][1] = more[1]}
  <2>1. 0 \in E
    BY <1>2
  <2>2. ASSUME NEW k \in 1..n, k - 1 \in E PROVE k \in E
    <3>1. CASE k = 1
      <4>1. h[0] = <<>> /\ ~Contains(<<>>, more[1]) /\ k - 1 = 0
        BY <1>1, <1>9, <3>1 DEF Contains
      <4>2. h[1] = Append(<<>>, more[1])
        BY <1>1, <3>1, <4>1
      <4> QED BY <1>2, <3>1, <4>2
    <3>2. CASE k # 1
      <4>1. Len(h[k - 1]) >= 1 /\ h[k - 1][1] = more[1]
        BY <2>2, <3>2
      <4>2. Extends(h[k - 1], h[k]) /\ h[k - 1] \in Seq(Z) /\ h[k] \in Seq(Z)
        BY <1>2, <1>3
      <4> QED BY <1>2, <4>1, <4>2 DEF Extends
    <3> QED BY <3>1, <3>2
  <2>3. n \in E
    <3> HIDE DEF E, n
    <3>1. \A k \in 0..n : k \in E
      BY <1>2, <2>1, <2>2, Upwards
    <3> QED BY <1>2, <3>1
  <2>4. n >= 1 /\ Len(h[n]) >= 1 /\ h[n][1] = more[1]
    BY <1>2, <1>9, <2>3 DEF E
  <2> QED BY <2>4
<1> QED BY <1>1, <1>7, <1>8, <1>9 DEF StartsWith

LEMMA EmptyIs ==
    ASSUME NEW Z, NEW s \in Seq(Z)
    PROVE  s = <<>> <=> ToSet(s) = {}
<1>1. DOMAIN s = 1..Len(s) /\ Len(s) \in Nat /\ (s # <<>> => 1 \in DOMAIN s)
  OBVIOUS
<1>2. s = <<>> => DOMAIN s = {}
  OBVIOUS
<1> QED BY <1>1, <1>2 DEF ToSet

LEMMA NewZonesAddedSteps ==
    ASSUME NEW Z, NEW zones \in Seq(Z), NEW more \in Seq(Z)
    PROVE  \E h \in [0..Len(more) -> Seq(Z)] :
              /\ h[0] = <<>> /\ h[Len(more)] = newZonesAdded(zones, more)
              /\ \A k \in 1..Len(more) :
                   h[k] = IF Contains(zones, more[k]) THEN h[k - 1]
                          ELSE Append(h[k - 1], more[k])
<1> DEFINE n == Len(more)
           V == Seq(Z)
           op(s, z) == IF Contains(zones, z) THEN s ELSE Append(s, z)
           G == [p \in (1..n) \X V |-> op(p[2], more[p[1]])]
           Is(g) == g = [s \in SUBSET (1..n) |->
                           IF s = {} THEN <<>> ELSE op(g[s \ {Max(s)}], more[Max(s)])]
<1>1. n \in Nat /\ DOMAIN more = 1..n /\ \A i \in 1..n : more[i] \in Z
  OBVIOUS
<1>2. <<>> \in V /\ G \in [(1..n) \X V -> V]
  BY <1>1
<1>3. \A i \in 1..n, v \in V : <<i, v>> \in (1..n) \X V /\ G[<<i, v>>] = op(v, more[i])
  <2> HIDE DEF op, V
  <2> QED OBVIOUS
<1> HIDE DEF n, V, G, op
<1>4. PICK g : LeftFolded(n, V, <<>>, G, g)
  BY <1>1, <1>2, LeftFoldExists
<1>5. Is(g)
  BY <1>3, <1>4 DEF LeftFolded
<1>6. PICK f : Is(f) /\ newZonesAdded(zones, more) = f[1..n]
  BY <1>1, <1>5 DEF newZonesAdded, FoldLeft, MapThenFoldSet, op
<1>7. f[{}] = <<>>
  BY <1>6
<1>8. LeftRule(n, V, G, f)
  <2> SUFFICES ASSUME NEW s \in SUBSET (1..n), s # {}, f[s \ {Max(s)}] \in V
               PROVE  f[s] = G[<<Max(s), f[s \ {Max(s)}]>>]
    BY DEF LeftRule
  <2>1. Max(s) \in 1..n
    BY <1>4 DEF LeftFolded
  <2>2. f[s] = op(f[s \ {Max(s)}], more[Max(s)])
    BY <1>6
  <2> QED BY <1>3, <2>1, <2>2
<1>9. PICK h : LeftStepped(n, V, <<>>, G, f[1..n], h)
  BY <1>1, <1>2, <1>7, <1>8, LeftSteps
<1>10. \A k \in 1..n : k - 1 \in 0..n
  BY <1>1
<1>11. \A k \in 1..n : h[k] = op(h[k - 1], more[k])
  BY <1>3, <1>9, <1>10 DEF LeftStepped
<1> QED BY <1>6, <1>9, <1>11 DEF LeftStepped, op, n, V

LEMMA NewZonesAddedIs ==
    ASSUME NEW Z, NEW zones \in Seq(Z), NEW more \in Seq(Z)
    PROVE  /\ newZonesAdded(zones, more) \in Seq(Z)
           /\ ToSet(newZonesAdded(zones, more)) = ToSet(more) \ ToSet(zones)
           /\ newZonesAdded(zones, more) = <<>> <=> ToSet(more) \subseteq ToSet(zones)
<1> DEFINE n == Len(more)
           had(k) == {more[i] : i \in 1..k}
<1>1. PICK h \in [0..n -> Seq(Z)] :
        /\ h[0] = <<>> /\ h[n] = newZonesAdded(zones, more)
        /\ \A k \in 1..n : h[k] = IF Contains(zones, more[k]) THEN h[k - 1]
                                  ELSE Append(h[k - 1], more[k])
  BY NewZonesAddedSteps
<1>2. n \in Nat /\ \A k \in 1..n : /\ k - 1 \in 0..n /\ k \in 0..n /\ more[k] \in Z
                                   /\ had(k) = had(k - 1) \cup {more[k]}
  OBVIOUS
<1> DEFINE S == {k \in 0..n : ToSet(h[k]) = had(k) \ ToSet(zones)}
<1>4. 0 \in S
  <2>1. had(0) = {} /\ ToSet(<<>>) = {} /\ 0 \in 0..n
    BY <1>2 DEF ToSet
  <2> QED BY <1>1, <2>1
<1>5. ASSUME NEW k \in 1..n, k - 1 \in S PROVE k \in S
  <2>1. h[k - 1] \in Seq(Z) /\ more[k] \in Z
    BY <1>2
  <2>2. CASE Contains(zones, more[k])
    <3>1. h[k] = h[k - 1] /\ more[k] \in ToSet(zones)
      BY <1>1, <2>1, <2>2, ContainsIs
    <3> QED BY <1>2, <1>5, <3>1
  <2>3. CASE ~Contains(zones, more[k])
    <3>1. h[k] = Append(h[k - 1], more[k]) /\ more[k] \notin ToSet(zones)
      BY <1>1, <2>3, ContainsIs
    <3>2. ToSet(h[k]) = ToSet(h[k - 1]) \cup {more[k]}
      BY <2>1, <3>1, AppendIs
    <3>3. ToSet(h[k - 1]) = had(k - 1) \ ToSet(zones) /\ had(k) = had(k - 1) \cup {more[k]}
      BY <1>2, <1>5
    <3>4. ToSet(h[k]) = had(k) \ ToSet(zones)
      <4> HIDE DEF had, n
      <4> QED BY <3>1, <3>2, <3>3
    <3> QED BY <1>2, <3>4
  <2> QED BY <2>2, <2>3
<1>6. n \in S
  <2> HIDE DEF S, n
  <2>1. \A k \in 0..n : k \in S
    BY <1>2, <1>4, <1>5, Upwards
  <2> QED BY <1>2, <2>1
<1>7. ToSet(h[n]) = ToSet(more) \ ToSet(zones) /\ h[n] \in Seq(Z)
  <2>1. had(n) = ToSet(more)
    BY DEF ToSet
  <2> QED BY <1>2, <1>6, <2>1 DEF S
<1>8. h[n] = <<>> <=> ToSet(h[n]) = {}
  BY <1>7, EmptyIs
<1> QED BY <1>1, <1>7, <1>8

\* Concatenation of the sequences of a sequence.
LEMMA FlattenSteps ==
    ASSUME NEW Z, NEW seqs \in Seq(Seq(Z)), seqs # <<>>
    PROVE  \E f : /\ FlattenSeq(seqs) = f[Len(seqs)]
                  /\ f[1] = seqs[1]
                  /\ \A k \in 2..Len(seqs) : f[k] = f[k - 1] \o seqs[k]
<1> DEFINE n == Len(seqs)
           V == Seq(Z)
           G == [p \in (1..n) \X V |-> p[2] \o seqs[p[1]]]
           Is(g) == g = [i \in 1..n |-> IF i = 1 THEN seqs[i] ELSE g[i - 1] \o seqs[i]]
<1>1. n \in Nat /\ n # 0 /\ \A i \in 1..n : seqs[i] \in V
  OBVIOUS
<1>2. <<>> \in V /\ G \in [(1..n) \X V -> V]
  BY <1>1
<1>3. \A i \in 1..n, v \in V : <<i, v>> \in (1..n) \X V /\ G[<<i, v>>] = v \o seqs[i]
  <2> HIDE DEF V
  <2> QED OBVIOUS
<1>3a. \A v \in V : <<>> \o v = v
  OBVIOUS
<1> HIDE DEF n, V, G
<1>4. PICK g : LeftFolded(n, V, <<>>, G, g)
  BY <1>1, <1>2, LeftFoldExists
<1>5. g[{}] = <<>> /\ LeftRule(n, V, G, g)
  BY <1>4 DEF LeftRule, LeftFolded
<1>6. PICK h : LeftStepped(n, V, <<>>, G, g[1..n], h)
  BY <1>1, <1>2, <1>5, LeftSteps
<1>7. \A k \in 1..n : k - 1 \in 0..n /\ k \in 0..n /\ (k # 1 => k - 1 \in 1..n)
  BY <1>1
<1>8. \A k \in 1..n : h[k] = h[k - 1] \o seqs[k] /\ h[k] \in V
  BY <1>3, <1>6, <1>7 DEF LeftStepped
<1>9. h[0] = <<>> /\ 1 \in 1..n
  BY <1>1, <1>6 DEF LeftStepped
<1>10. h[1] = seqs[1]
  <2>1. 1 - 1 = 0
    OBVIOUS
  <2>2. h[1] = h[0] \o seqs[1]
    BY <1>8, <1>9, <2>1
  <2> QED BY <1>1, <1>3a, <1>9, <2>2
<1> DEFINE e == [i \in 1..n |-> h[i]]
<1>11. Is(e)
  <2>1. ASSUME NEW i \in 1..n PROVE e[i] = IF i = 1 THEN seqs[i] ELSE e[i - 1] \o seqs[i]
    <3>1. CASE i = 1
      BY <3>1, <1>10
    <3>2. CASE i # 1
      <4>1. e[i] = h[i] /\ e[i - 1] = h[i - 1]
        BY <1>7, <3>2
      <4> QED BY <1>8, <3>2, <4>1
    <3> QED BY <3>1, <3>2
  <2> QED BY <2>1
<1> HIDE DEF e
<1>12. PICK f : Is(f) /\ FlattenSeq(seqs) = f[n]
  BY <1>1, <1>11 DEF FlattenSeq, n
<1>13. f[1] = seqs[1] /\ \A k \in 2..n : f[k] = f[k - 1] \o seqs[k]
  <2>1. \A k \in 2..n : k \in 1..n /\ k # 1
    BY <1>1
  <2> QED BY <1>9, <1>12, <2>1
<1> QED BY <1>12, <1>13 DEF n

LEMMA ConcatIs ==
    ASSUME NEW Z, NEW s \in Seq(Z), NEW t \in Seq(Z)
    PROVE  s \o t \in Seq(Z) /\ Extends(s, s \o t) /\ ToSet(s \o t) = ToSet(s) \cup ToSet(t)
<1>1. /\ s \o t \in Seq(Z) /\ Len(s) \in Nat /\ Len(t) \in Nat /\ Len(s \o t) = Len(s) + Len(t)
      /\ \A i \in 1..Len(s) : (s \o t)[i] = s[i]
      /\ \A i \in 1..Len(t) : (s \o t)[Len(s) + i] = t[i]
  OBVIOUS
<1>2. DOMAIN s = 1..Len(s) /\ DOMAIN t = 1..Len(t) /\ DOMAIN (s \o t) = 1..(Len(s) + Len(t))
  BY <1>1
<1>3. ToSet(s) \cup ToSet(t) \subseteq ToSet(s \o t)
  <2>1. \A i \in 1..Len(s) : i \in DOMAIN (s \o t)
    BY <1>1, <1>2
  <2>2. \A i \in 1..Len(t) : Len(s) + i \in DOMAIN (s \o t)
    BY <1>1, <1>2
  <2> QED BY <1>1, <1>2, <2>1, <2>2 DEF ToSet
<1>4. ToSet(s \o t) \subseteq ToSet(s) \cup ToSet(t)
  <2>1. ASSUME NEW i \in DOMAIN (s \o t) PROVE (s \o t)[i] \in ToSet(s) \cup ToSet(t)
    <3>1. CASE i <= Len(s)
      <4>1. i \in 1..Len(s)
        BY <1>1, <1>2, <3>1
      <4> QED BY <1>1, <1>2, <4>1 DEF ToSet
    <3>2. CASE ~(i <= Len(s))
      <4>1. i - Len(s) \in 1..Len(t) /\ Len(s) + (i - Len(s)) = i
        BY <1>1, <1>2, <3>2
      <4>2. (s \o t)[i] = t[i - Len(s)]
        BY <1>1, <4>1
      <4> QED BY <1>2, <4>1, <4>2 DEF ToSet
    <3> QED BY <3>1, <3>2
  <2> QED BY <2>1 DEF ToSet
<1> QED BY <1>1, <1>3, <1>4 DEF Extends

\* The zones of the first pools.
LEMMA FlattenIs ==
    ASSUME NEW Z, NEW seqs \in Seq(Seq(Z))
    PROVE  /\ FlattenSeq(seqs) \in Seq(Z)
           /\ ToSet(FlattenSeq(seqs)) = UNION {ToSet(seqs[i]) : i \in 1..Len(seqs)}
           /\ (seqs # <<>> => Extends(seqs[1], FlattenSeq(seqs)))
<1> DEFINE n == Len(seqs)
           all(k) == UNION {ToSet(seqs[i]) : i \in 1..k}
<1>1. n \in Nat /\ \A i \in 1..n : seqs[i] \in Seq(Z)
  OBVIOUS
<1>2. CASE seqs = <<>>
  <2>1. FlattenSeq(seqs) = <<>> /\ n = 0
    BY <1>2 DEF FlattenSeq
  <2>2. ToSet(<<>>) = {} /\ <<>> \in Seq(Z)
    BY DEF ToSet
  <2>3. all(n) = {}
    BY <2>1
  <2> QED BY <1>2, <2>1, <2>2, <2>3
<1>3. CASE seqs # <<>>
  <2>1. PICK f : /\ FlattenSeq(seqs) = f[n] /\ f[1] = seqs[1]
                 /\ \A k \in 2..n : f[k] = f[k - 1] \o seqs[k]
    BY <1>3, FlattenSteps
  <2>2. n >= 1 /\ seqs[1] \in Seq(Z)
    BY <1>1, <1>3
  <2> DEFINE S == {k \in 0..n : k >= 1 => /\ f[k] \in Seq(Z) /\ ToSet(f[k]) = all(k)
                                          /\ Extends(seqs[1], f[k])}
  <2>3. 0 \in S
    BY <1>1
  <2>4. ASSUME NEW k \in 1..n, k - 1 \in S PROVE k \in S
    <3>1. CASE k = 1
      <4>1. all(1) = ToSet(seqs[1])
        BY <2>2
      <4>2. Extends(seqs[1], seqs[1])
        BY <2>2 DEF Extends
      <4> QED BY <2>1, <2>2, <3>1, <4>1, <4>2
    <3>2. CASE k # 1
      <4>1. /\ f[k - 1] \in Seq(Z) /\ ToSet(f[k - 1]) = all(k - 1) /\ Extends(seqs[1], f[k - 1])
            /\ k \in 2..n /\ k \in 0..n
        BY <1>1, <2>4, <3>2
      <4>2. f[k] = f[k - 1] \o seqs[k] /\ seqs[k] \in Seq(Z)
        BY <1>1, <2>1, <4>1
      <4>3. /\ f[k] \in Seq(Z) /\ Extends(f[k - 1], f[k])
            /\ ToSet(f[k]) = ToSet(f[k - 1]) \cup ToSet(seqs[k])
        BY <4>1, <4>2, ConcatIs
      <4>4. all(k) = all(k - 1) \cup ToSet(seqs[k])
        <5>1. 1..k = (1..(k - 1)) \cup {k}
          BY <4>1
        <5> QED BY <5>1
      <4>5. Extends(seqs[1], f[k])
        <5>1. Len(seqs[1]) \in Nat /\ Len(f[k - 1]) \in Nat /\ Len(f[k]) \in Nat
          BY <2>2, <4>1, <4>3
        <5>2. Len(seqs[1]) <= Len(f[k - 1]) /\ Len(f[k - 1]) <= Len(f[k])
          BY <4>1, <4>3 DEF Extends
        <5>3. \A i \in 1..Len(seqs[1]) : i \in 1..Len(f[k - 1])
          BY <5>1, <5>2
        <5>4. \A i \in 1..Len(seqs[1]) : f[k][i] = seqs[1][i]
          BY <4>1, <4>3, <5>3 DEF Extends
        <5>5. Len(seqs[1]) <= Len(f[k])
          BY <5>1, <5>2
        <5> QED BY <5>4, <5>5 DEF Extends
      <4>6. ToSet(f[k]) = all(k)
        <5> HIDE DEF all
        <5> QED BY <4>1, <4>3, <4>4
      <4> QED BY <4>1, <4>3, <4>5, <4>6
    <3> QED BY <3>1, <3>2
  <2>5. n \in S
    <3> HIDE DEF S, n
    <3>1. \A k \in 0..n : k \in S
      BY <1>1, <2>3, <2>4, Upwards
    <3> QED BY <1>1, <3>1
  <2>6. f[n] \in Seq(Z) /\ ToSet(f[n]) = all(n) /\ Extends(seqs[1], f[n])
    BY <2>2, <2>5
  <2> QED BY <2>1, <2>6
<1> QED BY <1>2, <1>3

LEMMA PoolFields ==
    ASSUME NEW w \in WorkerPool
    PROVE  /\ w.name \in STRING /\ w.zones \in Seq(Nat) /\ w.image \in Image \cup {None}
           /\ w.pods \in Nat \cup {None} /\ w.strategy \in {Strategy, None}
  BY DEF WorkerPool, Worker

\* The zones that some pool of the list has.
ZonesIn(workers) == UNION {ToSet(workers[i].zones) : i \in 1..Len(workers)}

LEMMA ZonesOfIs ==
    ASSUME NEW workers \in Seq(WorkerPool)
    PROVE  /\ ZonesOf(workers) \in Seq(Nat) /\ ToSet(ZonesOf(workers)) = ZonesIn(workers)
           /\ workers # <<>> => Extends(workers[1].zones, ZonesOf(workers))
<1> DEFINE seqs == [i \in 1..Len(workers) |-> workers[i].zones]
<1>0. \A i \in 1..Len(workers) : workers[i] \in WorkerPool
  OBVIOUS
<1>1. \A i \in 1..Len(workers) : workers[i].zones \in Seq(Nat)
  BY <1>0, PoolFields
<1>2. /\ seqs \in Seq(Seq(Nat)) /\ Len(seqs) = Len(workers) /\ Len(workers) \in Nat
      /\ \A i \in 1..Len(workers) : seqs[i] = workers[i].zones
  BY <1>1
<1>3. workers # <<>> => seqs # <<>> /\ seqs[1] = workers[1].zones
  <2> HIDE DEF seqs
  <2>1. workers # <<>> => Len(workers) >= 1
    OBVIOUS
  <2> QED BY <1>2, <2>1
<1> HIDE DEF seqs
<1>4. {ToSet(seqs[i]) : i \in 1..Len(seqs)} = {ToSet(workers[i].zones) : i \in 1..Len(workers)}
  BY <1>2
<1>5. ZonesOf(workers) = FlattenSeq(seqs)
  BY DEF ZonesOf, seqs
<1>6. /\ FlattenSeq(seqs) \in Seq(Nat)
      /\ ToSet(FlattenSeq(seqs)) = UNION {ToSet(seqs[i]) : i \in 1..Len(seqs)}
      /\ seqs # <<>> => Extends(seqs[1], FlattenSeq(seqs))
  BY <1>2, FlattenIs
<1> QED BY <1>3, <1>4, <1>5, <1>6 DEF ZonesIn

LEMMA NetworkingZonesIs ==
    ASSUME NEW workers \in Seq(WorkerPool)
    PROVE  /\ getNetworkingZonesFromWorkers(workers) \in Seq(Nat)
           /\ ToSet(getNetworkingZonesFromWorkers(workers)) = ZonesIn(workers)
           /\ workers # <<>> /\ workers[1].zones # <<>> =>
                /\ getNetworkingZonesFromWorkers(workers) # <<>>
                /\ getNetworkingZonesFromWorkers(workers)[1] = workers[1].zones[1]
<1> DEFINE zones == ZonesOf(workers)
<1>1. zones \in Seq(Nat) /\ ToSet(zones) = ZonesIn(workers) /\ <<>> \in Seq(Nat)
  BY ZonesOfIs
<1>2. ToSet(<<>>) = {}
  BY DEF ToSet
<1>3. ASSUME workers # <<>>, workers[1].zones # <<>>
      PROVE  zones # <<>> /\ zones[1] = workers[1].zones[1]
  <2>1. Extends(workers[1].zones, zones)
    BY <1>3, ZonesOfIs
  <2>2. workers[1].zones \in Seq(Nat) /\ Len(workers[1].zones) >= 1
    <3>1. workers[1] \in WorkerPool
      BY <1>3
    <3>2. workers[1].zones \in Seq(Nat)
      BY <3>1 DEF WorkerPool, Worker
    <3> QED BY <1>3, <3>2
  <2> HIDE DEF zones
  <2>3. Len(zones) >= 1 /\ zones[1] = workers[1].zones[1]
    BY <1>1, <2>1, <2>2 DEF Extends
  <2> QED BY <1>1, <2>3
<1> HIDE DEF zones
<1>4. /\ AppendNew(<<>>, zones) \in Seq(Nat)
      /\ ToSet(AppendNew(<<>>, zones)) = ToSet(<<>>) \cup ToSet(zones)
  <2>1. \A e \in Seq(Nat) : /\ AppendNew(e, zones) \in Seq(Nat)
                            /\ ToSet(AppendNew(e, zones)) = ToSet(e) \cup ToSet(zones)
    BY <1>1, AppendNewIs
  <2> QED BY <1>1, <2>1
<1>5. zones # <<>> => AppendNew(<<>>, zones) # <<>> /\ AppendNew(<<>>, zones)[1] = zones[1]
  <2> DEFINE e == <<>>
  <2>1. e \in Seq(Nat) /\ e = <<>>
    OBVIOUS
  <2> HIDE DEF e
  <2>2. zones # <<>> /\ e = <<>> => StartsWith(AppendNew(e, zones), zones[1])
    BY <1>1, <2>1, AppendNewIs
  <2> QED BY <2>1, <2>2 DEF StartsWith
<1> QED BY <1>1, <1>2, <1>3, <1>4, <1>5 DEF getNetworkingZonesFromWorkers, zones

LEMMA MergedZonesIs ==
    ASSUME NEW fromShoot \in Seq(Nat), NEW fromRuntime \in Seq(Nat)
    PROVE  /\ mergedWorkerZones(fromShoot, fromRuntime) \in Seq(Nat)
           /\ ToSet(mergedWorkerZones(fromShoot, fromRuntime))
                = ToSet(fromShoot) \cup ToSet(fromRuntime)
           /\ Extends(fromShoot, mergedWorkerZones(fromShoot, fromRuntime))
<1> DEFINE added == newZonesAdded(fromShoot, fromRuntime)
<1>1. added \in Seq(Nat) /\ ToSet(added) = ToSet(fromRuntime) \ ToSet(fromShoot)
  BY NewZonesAddedIs
<1> HIDE DEF added
<1>2. /\ fromShoot \o added \in Seq(Nat) /\ Extends(fromShoot, fromShoot \o added)
      /\ ToSet(fromShoot \o added) = ToSet(fromShoot) \cup ToSet(added)
  BY <1>1, ConcatIs
<1> QED BY <1>1, <1>2 DEF mergedWorkerZones, added

-----------------------------------------------------------------------------
(* Other operators of SequencesExt.                                        *)

LEMMA ConcatAt ==
    ASSUME NEW W, NEW s \in Seq(W), NEW t \in Seq(W)
    PROVE  /\ s \o t \in Seq(W) /\ Len(s \o t) = Len(s) + Len(t)
           /\ \A p \in 1..(Len(s) + Len(t)) :
                (s \o t)[p] = IF p <= Len(s) THEN s[p] ELSE t[p - Len(s)]
  OBVIOUS

LEMMA SubSeqAt ==
    ASSUME NEW W, NEW s \in Seq(W), NEW a \in 1..(Len(s) + 1), NEW b \in (a - 1)..Len(s)
    PROVE  /\ SubSeq(s, a, b) \in Seq(W) /\ Len(SubSeq(s, a, b)) = b - a + 1
           /\ \A p \in 1..(b - a + 1) : SubSeq(s, a, b)[p] = s[a + p - 1]
<1>1. \A i \in a..b : s[i] \in W
  OBVIOUS
<1> QED BY <1>1

LEMMA RemoveAtIs ==
    ASSUME NEW W, NEW s \in Seq(W), NEW i \in 1..Len(s)
    PROVE  /\ RemoveAt(s, i) \in Seq(W) /\ Len(RemoveAt(s, i)) = Len(s) - 1
           /\ \A p \in 1..(Len(s) - 1) : RemoveAt(s, i)[p] = IF p < i THEN s[p] ELSE s[p + 1]
<1> DEFINE a == SubSeq(s, 1, i - 1)
           b == SubSeq(s, i + 1, Len(s))
<1>1. Len(s) \in Nat /\ i \in Nat
  OBVIOUS
<1>2. a \in Seq(W) /\ Len(a) = i - 1 /\ \A p \in 1..(i - 1) : a[p] = s[p]
  BY <1>1, SubSeqAt
<1>3. /\ b \in Seq(W) /\ Len(b) = Len(s) - i
      /\ \A p \in 1..(Len(s) - i) : b[p] = s[i + p]
  <2>1. i + 1 \in 1..(Len(s) + 1) /\ Len(s) \in ((i + 1) - 1)..Len(s)
    BY <1>1
  <2>2. /\ b \in Seq(W) /\ Len(b) = Len(s) - (i + 1) + 1
        /\ \A p \in 1..(Len(s) - (i + 1) + 1) : b[p] = s[(i + 1) + p - 1]
    BY <2>1, SubSeqAt
  <2> HIDE DEF b
  <2>3. Len(s) - (i + 1) + 1 = Len(s) - i
    BY <1>1
  <2>4. \A p \in 1..(Len(s) - i) : (i + 1) + p - 1 = i + p
    BY <1>1
  <2> QED BY <2>2, <2>3, <2>4
<1>4. RemoveAt(s, i) = a \o b
  BY DEF RemoveAt
<1> HIDE DEF a, b
<1>5. /\ a \o b \in Seq(W) /\ Len(a \o b) = Len(s) - 1
      /\ \A p \in 1..(Len(s) - 1) : (a \o b)[p] = IF p <= i - 1 THEN a[p] ELSE b[p - (i - 1)]
  <2>1. Len(a) + Len(b) = Len(s) - 1
    BY <1>1, <1>2, <1>3
  <2>2. /\ a \o b \in Seq(W) /\ Len(a \o b) = Len(a) + Len(b)
        /\ \A p \in 1..(Len(a) + Len(b)) :
             (a \o b)[p] = IF p <= Len(a) THEN a[p] ELSE b[p - Len(a)]
    BY <1>2, <1>3, ConcatAt
  <2> QED BY <1>2, <2>1, <2>2
<1>6. \A p \in 1..(Len(s) - 1) : /\ p <= i - 1 => a[p] = s[p] /\ p < i
                                 /\ ~(p <= i - 1) => b[p - (i - 1)] = s[p + 1] /\ ~(p < i)
  <2> TAKE p \in 1..(Len(s) - 1)
  <2>1. p <= i - 1 => a[p] = s[p] /\ p < i
    BY <1>1, <1>2
  <2>2. ASSUME ~(p <= i - 1) PROVE b[p - (i - 1)] = s[p + 1] /\ ~(p < i)
    <3>1. p - (i - 1) \in 1..(Len(s) - i) /\ i + (p - (i - 1)) = p + 1
      BY <1>1, <2>2
    <3> QED BY <1>1, <1>3, <2>2, <3>1
  <2> QED BY <2>1, <2>2
<1> QED BY <1>4, <1>5, <1>6

LEMMA InsertAtIs ==
    ASSUME NEW W, NEW s \in Seq(W), NEW j \in 1..(Len(s) + 1), NEW w \in W
    PROVE  /\ InsertAt(s, j, w) \in Seq(W) /\ Len(InsertAt(s, j, w)) = Len(s) + 1
           /\ \A p \in 1..(Len(s) + 1) :
                InsertAt(s, j, w)[p] = IF p < j THEN s[p] ELSE IF p = j THEN w ELSE s[p - 1]
<1> DEFINE a == SubSeq(s, 1, j - 1)
           b == SubSeq(s, j, Len(s))
           c == a \o <<w>>
<1>1. Len(s) \in Nat /\ j \in Nat
  OBVIOUS
<1>2. a \in Seq(W) /\ Len(a) = j - 1 /\ \A p \in 1..(j - 1) : a[p] = s[p]
  BY <1>1, SubSeqAt
<1>3. /\ b \in Seq(W) /\ Len(b) = Len(s) - j + 1
      /\ \A p \in 1..(Len(s) - j + 1) : b[p] = s[j + p - 1]
  <2>1. Len(s) \in (j - 1)..Len(s)
    BY <1>1
  <2> QED BY <2>1, SubSeqAt
<1>4. InsertAt(s, j, w) = c \o b
  BY DEF InsertAt
<1> HIDE DEF a, b
<1>5. c \in Seq(W) /\ Len(c) = j /\ c[j] = w /\ \A p \in 1..(j - 1) : c[p] = s[p]
  BY <1>1, <1>2
<1> HIDE DEF c
<1>6. /\ c \o b \in Seq(W) /\ Len(c \o b) = Len(s) + 1
      /\ \A p \in 1..(Len(s) + 1) : (c \o b)[p] = IF p <= j THEN c[p] ELSE b[p - j]
  <2>1. Len(c) + Len(b) = Len(s) + 1
    BY <1>1, <1>3, <1>5
  <2>2. /\ c \o b \in Seq(W) /\ Len(c \o b) = Len(c) + Len(b)
        /\ \A p \in 1..(Len(c) + Len(b)) :
             (c \o b)[p] = IF p <= Len(c) THEN c[p] ELSE b[p - Len(c)]
    BY <1>3, <1>5, ConcatAt
  <2> QED BY <1>5, <2>1, <2>2
<1>7. \A p \in 1..(Len(s) + 1) : /\ p < j => c[p] = s[p] /\ p <= j
                                 /\ p > j => b[p - j] = s[p - 1] /\ ~(p <= j)
  <2> TAKE p \in 1..(Len(s) + 1)
  <2>1. p < j => c[p] = s[p] /\ p <= j
    BY <1>1, <1>5
  <2>2. ASSUME p > j PROVE b[p - j] = s[p - 1] /\ ~(p <= j)
    <3>1. p - j \in 1..(Len(s) - j + 1) /\ j + (p - j) - 1 = p - 1
      BY <1>1, <2>2
    <3> QED BY <1>1, <1>3, <2>2, <3>1
  <2> QED BY <2>1, <2>2
<1> QED BY <1>1, <1>4, <1>5, <1>6, <1>7

-----------------------------------------------------------------------------
(* The sort of the pools (sortWorkersToShootOrder).                        *)

\* An element that moves down.
MoveDown(s, i, j) ==
    [p \in 1..Len(s) |-> IF p = j THEN s[i] ELSE IF j < p /\ p <= i THEN s[p - 1] ELSE s[p]]

LEMMA MoveIs ==
    ASSUME NEW W, NEW s \in Seq(W), NEW i \in 1..Len(s), NEW j \in 1..i
    PROVE  /\ InsertAt(RemoveAt(s, i), j, s[i]) = MoveDown(s, i, j)
           /\ MoveDown(s, i, j) \in Seq(W) /\ Len(MoveDown(s, i, j)) = Len(s)
<1> DEFINE n == Len(s)
           r == RemoveAt(s, i)
           m == InsertAt(r, j, s[i])
<1>1. n \in Nat /\ i \in Nat /\ j \in Nat /\ i >= 1 /\ i <= n /\ j >= 1 /\ j <= i /\ s[i] \in W
  OBVIOUS
<1>2. /\ r \in Seq(W) /\ Len(r) = n - 1
      /\ \A p \in 1..(n - 1) : r[p] = IF p < i THEN s[p] ELSE s[p + 1]
  BY RemoveAtIs
<1> HIDE DEF r
<1>3. /\ m \in Seq(W) /\ Len(m) = n
      /\ \A p \in 1..n : m[p] = IF p < j THEN r[p] ELSE IF p = j THEN s[i] ELSE r[p - 1]
  <2>1. j \in 1..(Len(r) + 1) /\ Len(r) + 1 = n
    BY <1>1, <1>2
  <2>2. /\ m \in Seq(W) /\ Len(m) = Len(r) + 1
        /\ \A p \in 1..(Len(r) + 1) :
             m[p] = IF p < j THEN r[p] ELSE IF p = j THEN s[i] ELSE r[p - 1]
    <3>1. \A w \in W :
            /\ InsertAt(r, j, w) \in Seq(W) /\ Len(InsertAt(r, j, w)) = Len(r) + 1
            /\ \A p \in 1..(Len(r) + 1) :
                 InsertAt(r, j, w)[p] = IF p < j THEN r[p] ELSE IF p = j THEN w ELSE r[p - 1]
      BY <1>2, <2>1, InsertAtIs
    <3> QED BY <1>1, <3>1
  <2> HIDE DEF m
  <2> QED BY <2>1, <2>2
<1> HIDE DEF m
<1>4. \A p \in 1..n : m[p] = MoveDown(s, i, j)[p]
  <2> TAKE p \in 1..n
  <2>1. p < j => p \in 1..(n - 1) /\ p < i
    BY <1>1
  <2>2. p > j => /\ p - 1 \in 1..(n - 1) /\ (p - 1) + 1 = p
                 /\ (p - 1 < i <=> p <= i)
    BY <1>1
  <2>3. MoveDown(s, i, j)[p] = IF p = j THEN s[i] ELSE IF j < p /\ p <= i THEN s[p - 1] ELSE s[p]
    BY DEF MoveDown
  <2>4. m[p] = IF p < j THEN s[p] ELSE IF p = j THEN s[i] ELSE IF p <= i THEN s[p - 1] ELSE s[p]
    BY <1>2, <1>3, <2>1, <2>2
  <2> QED BY <1>1, <2>3, <2>4
<1>5. DOMAIN MoveDown(s, i, j) = 1..n /\ DOMAIN m = 1..n
  BY <1>3 DEF MoveDown
<1>6. m = MoveDown(s, i, j)
  BY <1>3, <1>4, <1>5 DEF MoveDown
<1> QED BY <1>3, <1>6 DEF m, r, n

\* The pools that come before the one in front of them, as the comparison of
\* sortWorkersToShootOrder has it, and where an insertion puts pool i.
Ascending(runtimeWorkers, shootWorkers) ==
    {k \in 2..Len(runtimeWorkers) : less(runtimeWorkers, shootWorkers, k, k - 1)}

Falls(A, i, j) == \A k \in (j + 1)..i : k \in A

SortTrace(W, n, A, h) ==
    /\ h \in [0..n -> Seq(W)]
    /\ \A i \in 1..n : \E j \in 1..i :
         /\ Falls(A, i, j) /\ (j = 1 \/ j \notin A)
         /\ h[i - 1] \in Seq(W) /\ Len(h[i - 1]) = n /\ h[i] = MoveDown(h[i - 1], i, j)

LEMMA SortSteps ==
    ASSUME NEW W, NEW rw \in Seq(W), NEW sw
    PROVE  \E h : /\ SortTrace(W, Len(rw), Ascending(rw, sw), h)
                 /\ h[0] = rw /\ h[Len(rw)] = sortWorkersToShootOrder(rw, sw)
<1> DEFINE n == Len(rw)
           A == Ascending(rw, sw)
           V == {s \in Seq(W) : Len(s) = n}
           sq == [i \in DOMAIN rw |-> i]
           falls(i, j) == \A k \in (j + 1)..i : less(rw, sw, k, k - 1)
           target(i) == CHOOSE j \in 1..i : falls(i, j) /\ \A k \in 1..(j - 1) : ~falls(i, k)
           op(s, i) == InsertAt(RemoveAt(s, i), target(i), s[i])
           G == [p \in (1..n) \X V |-> op(p[2], p[1])]
           Is(g) == g = [s \in SUBSET (1..n) |->
                           IF s = {} THEN rw ELSE op(g[s \ {Max(s)}], sq[Max(s)])]
           Is2(g) == g = [s \in SUBSET (DOMAIN sq) |->
                            IF s = {} THEN rw ELSE op(g[s \ {Max(s)}], sq[Max(s)])]
<1>1. n \in Nat /\ DOMAIN rw = 1..n /\ DOMAIN sq = 1..n /\ \A i \in 1..n : sq[i] = i
  OBVIOUS
<1>2. ASSUME NEW i \in 1..n
      PROVE  target(i) \in 1..i /\ falls(i, target(i)) /\ \A k \in 1..(target(i) - 1) : ~falls(i, k)
  <2> DEFINE J == {j \in 1..i : falls(i, j)}
  <2>1. i \in J /\ J \in SUBSET Nat
    <3>1. (i + 1)..i = {} /\ i \in 1..i
      OBVIOUS
    <3> QED BY <3>1
  <2> HIDE DEF falls
  <2>2. PICK m \in J : \A j \in J : m <= j
    <3> HIDE DEF J
    <3> QED BY <2>1, Least
  <2>3. m \in 1..i /\ falls(i, m) /\ \A k \in 1..(m - 1) : ~falls(i, k)
    BY <2>2
  <2> QED BY <2>3
<1>3. ASSUME NEW i \in 1..n
      PROVE  /\ target(i) \in 1..i /\ Falls(A, i, target(i))
             /\ target(i) = 1 \/ target(i) \notin A
  <2> DEFINE t == target(i)
  <2>1. t \in 1..i /\ falls(i, t) /\ \A k \in 1..(t - 1) : ~falls(i, k)
    BY <1>2
  <2> HIDE DEF t
  <2>2. Falls(A, i, t)
    BY <1>1, <2>1 DEF Falls, Ascending
  <2>3. ASSUME t # 1, t \in A PROVE FALSE
    <3>1. t - 1 \in 1..(t - 1) /\ t \in Nat
      BY <2>1, <2>3
    <3>2. less(rw, sw, t, t - 1)
      BY <2>3 DEF Ascending
    <3>3. \A k \in ((t - 1) + 1)..i : k = t \/ k \in (t + 1)..i
      BY <2>1
    <3>4. falls(i, t - 1)
      BY <2>1, <3>2, <3>3
    <3> QED BY <2>1, <3>1, <3>4
  <2> QED BY <2>1, <2>2, <2>3 DEF t
<1> HIDE DEF target
<1>4. ASSUME NEW i \in 1..n, NEW s \in V
      PROVE  op(s, i) = MoveDown(s, i, target(i)) /\ op(s, i) \in V
  <2>1. s \in Seq(W) /\ Len(s) = n /\ i \in 1..Len(s) /\ target(i) \in 1..i
    BY <1>3
  <2> QED BY <2>1, MoveIs
<1>5. rw \in V /\ \A s \in V : s \in Seq(W) /\ Len(s) = n
  OBVIOUS
<1> HIDE DEF n, V, op, A
<1>6. G \in [(1..n) \X V -> V]
  BY <1>4
<1>7. \A i \in 1..n, v \in V : <<i, v>> \in (1..n) \X V /\ G[<<i, v>>] = op(v, sq[i])
  BY <1>1
<1> HIDE DEF G, sq
<1>8. PICK g : LeftFolded(n, V, rw, G, g)
  BY <1>1, <1>5, <1>6, LeftFoldExists
<1>9. Is(g)
  BY <1>7, <1>8 DEF LeftFolded
<1>9a. Is2(g)
  BY <1>1, <1>9
<1>9b. sortWorkersToShootOrder(rw, sw) = (CHOOSE f : Is2(f))[DOMAIN sq]
  BY DEF sortWorkersToShootOrder, FoldLeftDomain, FoldLeft, MapThenFoldSet, op, target, sq
<1>9c. Is2(CHOOSE f : Is2(f))
  BY <1>9a
<1>10. PICK f : Is(f) /\ sortWorkersToShootOrder(rw, sw) = f[1..n]
  BY <1>1, <1>9b, <1>9c
<1>11. f[{}] = rw
  BY <1>10
<1>12. LeftRule(n, V, G, f)
  <2> SUFFICES ASSUME NEW s \in SUBSET (1..n), s # {}, f[s \ {Max(s)}] \in V
               PROVE  f[s] = G[<<Max(s), f[s \ {Max(s)}]>>]
    BY DEF LeftRule
  <2>1. Max(s) \in 1..n
    BY <1>8 DEF LeftFolded
  <2>2. f[s] = op(f[s \ {Max(s)}], sq[Max(s)])
    BY <1>10
  <2> QED BY <1>7, <2>1, <2>2
<1>13. PICK h : LeftStepped(n, V, rw, G, f[1..n], h)
  BY <1>1, <1>5, <1>6, <1>11, <1>12, LeftSteps
<1>14. \A k \in 1..n : k - 1 \in 0..n
  BY <1>1
<1>15. ASSUME NEW i \in 1..n
       PROVE  \E j \in 1..i : /\ Falls(A, i, j) /\ (j = 1 \/ j \notin A)
                              /\ h[i - 1] \in V /\ h[i] = MoveDown(h[i - 1], i, j)
  <2>0. h[i - 1] \in V /\ h[i] = G[<<i, h[i - 1]>>]
    BY <1>13, <1>14 DEF LeftStepped
  <2>1. h[i - 1] \in V /\ h[i] = op(h[i - 1], i)
    BY <1>1, <1>7, <2>0
  <2> QED BY <1>3, <1>4, <2>1
<1>16. h \in [0..n -> Seq(W)] /\ h[0] = rw /\ h[n] = sortWorkersToShootOrder(rw, sw)
  <2>1. h \in [0..n -> V]
    BY <1>13 DEF LeftStepped
  <2> QED BY <1>5, <1>10, <1>13, <2>1 DEF LeftStepped
<1>17. \A i \in 1..n : \E j \in 1..i :
          /\ Falls(A, i, j) /\ (j = 1 \/ j \notin A)
          /\ h[i - 1] \in Seq(W) /\ Len(h[i - 1]) = n /\ h[i] = MoveDown(h[i - 1], i, j)
  BY <1>5, <1>15
<1> QED BY <1>16, <1>17 DEF n, A, SortTrace

\* A longest run of pools, among the first i, each of which comes before its predecessor.
Run(A, b, e, i) ==
    /\ b \in 1..i /\ e \in b..i /\ Falls(A, e, b)
    /\ b = 1 \/ b \notin A
    /\ e = i \/ e + 1 \notin A

LEMMA RunExists ==
    ASSUME NEW A, NEW i \in Nat, NEW p \in 1..i
    PROVE  \E b, e \in 1..i : Run(A, b, e, i) /\ p \in b..e
<1> DEFINE J == {j \in 1..p : Falls(A, p, j)}
           E == {e \in p..i : e = i \/ e + 1 \notin A}
<1>1. p \in J /\ J \in SUBSET Nat
  BY DEF Falls
<1>2. i \in E /\ E \in SUBSET Nat
  OBVIOUS
<1>3. PICK b \in J : \A j \in J : b <= j
  <2> HIDE DEF J
  <2> QED BY <1>1, Least
<1>4. PICK e \in E : \A j \in E : e <= j
  <2> HIDE DEF E
  <2> QED BY <1>2, Least
<1>5. b \in 1..p /\ Falls(A, p, b) /\ e \in p..i /\ (e = i \/ e + 1 \notin A)
  BY <1>3, <1>4
<1>6. b = 1 \/ b \notin A
  <2> SUFFICES ASSUME b # 1, b \in A PROVE FALSE
    OBVIOUS
  <2>1. b - 1 \in 1..p /\ \A k \in ((b - 1) + 1)..p : k = b \/ k \in (b + 1)..p
    BY <1>5
  <2>2. b - 1 \in J
    BY <1>5, <2>1 DEF Falls
  <2> QED BY <1>3, <1>5, <2>2
<1>7. \A k \in (p + 1)..e : k \in A
  <2> TAKE k \in (p + 1)..e
  <2>1. k - 1 \in p..i /\ k - 1 < e /\ (k - 1) + 1 = k /\ k - 1 # i
    BY <1>5
  <2>2. k - 1 \notin E
    BY <1>4, <2>1
  <2> QED BY <2>1, <2>2
<1>8. Falls(A, e, b)
  <2>1. \A k \in (b + 1)..e : k \in (b + 1)..p \/ k \in (p + 1)..e
    BY <1>5
  <2> QED BY <1>5, <1>7, <2>1 DEF Falls
<1>9. b \in 1..i /\ e \in 1..i /\ e \in b..i /\ p \in b..e
  BY <1>5
<1> QED BY <1>5, <1>6, <1>8, <1>9 DEF Run

LEMMA RunUnique ==
    ASSUME NEW A, NEW i \in Nat, NEW p \in 1..i,
           NEW b \in 1..i, NEW e \in 1..i, Run(A, b, e, i), p \in b..e,
           NEW c \in 1..i, NEW f \in 1..i, Run(A, c, f, i), p \in c..f
    PROVE  b = c /\ e = f
<1>1. ~(b < c)
  <2> SUFFICES ASSUME b < c PROVE FALSE
    OBVIOUS
  <2>1. c \in (b + 1)..e
    OBVIOUS
  <2> QED BY <2>1 DEF Run, Falls
<1>2. ~(c < b)
  <2> SUFFICES ASSUME c < b PROVE FALSE
    OBVIOUS
  <2>1. b \in (c + 1)..f
    OBVIOUS
  <2> QED BY <2>1 DEF Run, Falls
<1>3. ~(e < f)
  <2> SUFFICES ASSUME e < f PROVE FALSE
    OBVIOUS
  <2>1. e + 1 \in (c + 1)..f /\ e # i
    OBVIOUS
  <2> QED BY <2>1 DEF Run, Falls
<1>4. ~(f < e)
  <2> SUFFICES ASSUME f < e PROVE FALSE
    OBVIOUS
  <2>1. f + 1 \in (b + 1)..e /\ f # i
    OBVIOUS
  <2> QED BY <2>1 DEF Run, Falls
<1> QED BY <1>1, <1>2, <1>3, <1>4

\* What the sort does: every such run is reversed.
Place(A, n) ==
    [p \in 1..n |->
        CHOOSE q \in 1..n : \E b, e \in 1..n : Run(A, b, e, n) /\ p \in b..e /\ q = b + e - p]

LEMMA PlaceInRun ==
    ASSUME NEW A, NEW n \in Nat, NEW b \in 1..n, NEW e \in 1..n, Run(A, b, e, n), NEW p \in b..e
    PROVE  p \in 1..n /\ Place(A, n)[p] = b + e - p /\ b + e - p \in b..e
<1>1. p \in 1..n /\ b + e - p \in 1..n /\ b + e - p \in b..e
  OBVIOUS
<1> DEFINE Q(q) == \E c, f \in 1..n : Run(A, c, f, n) /\ p \in c..f /\ q = c + f - p
<1>2. Q(b + e - p)
  BY <1>1
<1>3. \A q \in 1..n : Q(q) => q = b + e - p
  BY <1>1, RunUnique
<1>4. Place(A, n)[p] = CHOOSE q \in 1..n : Q(q)
  BY <1>1 DEF Place
<1> HIDE DEF Q
<1>5. (CHOOSE q \in 1..n : Q(q)) = b + e - p
  BY <1>1, <1>2, <1>3
<1> QED BY <1>1, <1>4, <1>5

LEMMA PlaceIs ==
    ASSUME NEW A, NEW n \in Nat
    PROVE  /\ \A p \in 1..n : Place(A, n)[p] \in 1..n /\ Place(A, n)[Place(A, n)[p]] = p
           /\ \A k \in 2..n : k \in A <=> Place(A, n)[k] < Place(A, n)[k - 1]
           /\ n >= 1 /\ 2 \notin A => Place(A, n)[1] = 1
<1>1. ASSUME NEW p \in 1..n
      PROVE  Place(A, n)[p] \in 1..n /\ Place(A, n)[Place(A, n)[p]] = p
  <2>1. PICK b, e \in 1..n : Run(A, b, e, n) /\ p \in b..e
    BY RunExists
  <2>2. Place(A, n)[p] = b + e - p /\ b + e - p \in b..e /\ b + e - p \in 1..n
    BY <2>1, PlaceInRun
  <2>3. Place(A, n)[b + e - p] = b + e - (b + e - p)
    BY <2>1, <2>2, PlaceInRun
  <2> QED BY <2>2, <2>3
<1>2. ASSUME NEW k \in 2..n
      PROVE  k \in A <=> Place(A, n)[k] < Place(A, n)[k - 1]
  <2>1. k \in 1..n /\ k - 1 \in 1..n
    OBVIOUS
  <2>2. PICK b, e \in 1..n : Run(A, b, e, n) /\ k \in b..e
    BY <2>1, RunExists
  <2>3. Place(A, n)[k] = b + e - k /\ b + e - k \in b..e
    BY <2>2, PlaceInRun
  <2>4. PICK c, f \in 1..n : Run(A, c, f, n) /\ k - 1 \in c..f
    BY <2>1, RunExists
  <2>5. Place(A, n)[k - 1] = c + f - (k - 1) /\ c + f - (k - 1) \in c..f
    BY <2>4, PlaceInRun
  <2>6. CASE k \in A
    <3>1. b # k
      BY <2>2, <2>6 DEF Run
    <3>2. k - 1 \in b..e
      BY <2>2, <3>1
    <3>3. b = c /\ e = f
      BY <2>1, <2>2, <2>4, <3>2, RunUnique
    <3> QED BY <2>3, <2>5, <2>6, <3>3
  <2>7. CASE k \notin A
    <3>1. ~(b < k)
      <4>1. b < k => k \in (b + 1)..e
        BY <2>2
      <4> QED BY <2>2, <2>7, <4>1 DEF Run, Falls
    <3>2. ~(f > k - 1)
      <4>1. f > k - 1 => k \in (c + 1)..f
        BY <2>4
      <4> QED BY <2>4, <2>7, <4>1 DEF Run, Falls
    <3> QED BY <2>2, <2>3, <2>4, <2>5, <2>7, <3>1, <3>2
  <2> QED BY <2>6, <2>7
<1>3. ASSUME n >= 1, 2 \notin A PROVE Place(A, n)[1] = 1
  <2>1. 1 \in 1..n /\ 1 \in 1..1
    BY <1>3
  <2>2. Run(A, 1, 1, n)
    BY <1>3, <2>1 DEF Run, Falls
  <2>3. Place(A, n)[1] = 1 + 1 - 1
    BY <2>1, <2>2, PlaceInRun
  <2> QED BY <2>3
<1> QED BY <1>1, <1>2, <1>3

LEMMA SortIs ==
    ASSUME NEW W, NEW rw \in Seq(W), NEW sw
    PROVE  /\ sortWorkersToShootOrder(rw, sw) \in Seq(W)
           /\ Len(sortWorkersToShootOrder(rw, sw)) = Len(rw)
           /\ \A p \in 1..Len(rw) : sortWorkersToShootOrder(rw, sw)[p]
                                      = rw[Place(Ascending(rw, sw), Len(rw))[p]]
<1> DEFINE n == Len(rw)
           A == Ascending(rw, sw)
           Good(s, i) == /\ Len(s) = n
                         /\ \A p \in 1..n : p > i => s[p] = rw[p]
                         /\ \A b, e \in 1..i : \A p \in b..e :
                              Run(A, b, e, i) => s[p] = rw[b + e - p]
<1>0. PICK h : SortTrace(W, n, A, h) /\ h[0] = rw /\ h[n] = sortWorkersToShootOrder(rw, sw)
  BY SortSteps
<1>1. /\ h \in [0..n -> Seq(W)]
      /\ h[0] = rw /\ h[n] = sortWorkersToShootOrder(rw, sw)
      /\ \A i \in 1..n : \E j \in 1..i :
           /\ Falls(A, i, j) /\ (j = 1 \/ j \notin A)
           /\ h[i - 1] \in Seq(W) /\ Len(h[i - 1]) = n /\ h[i] = MoveDown(h[i - 1], i, j)
  <2> HIDE DEF n, A
  <2> QED BY <1>0 DEF SortTrace
<1>2. n \in Nat
  OBVIOUS
<1> DEFINE S == {i \in 0..n : Good(h[i], i)}
<1>3. 0 \in S
  BY <1>1, <1>2
<1>4. ASSUME NEW i \in 1..n, i - 1 \in S PROVE i \in S
  <2>1. PICK j \in 1..i :
          /\ Falls(A, i, j) /\ (j = 1 \/ j \notin A)
          /\ h[i - 1] \in Seq(W) /\ Len(h[i - 1]) = n /\ h[i] = MoveDown(h[i - 1], i, j)
    BY <1>1
  <2> DEFINE s == h[i - 1]
  <2>2. Good(s, i - 1)
    BY <1>4
  <2> HIDE DEF A, n, s, S
  <2>3. Len(h[i]) = n /\ s \in Seq(W) /\ Len(s) = n
    <3>1. i \in 1..Len(s) /\ s \in Seq(W) /\ Len(s) = n
      BY <2>1 DEF s
    <3> QED BY <2>1, <3>1, MoveIs DEF s
  <2>4. \A p \in 1..n : h[i][p] = IF p = j THEN s[i]
                                  ELSE IF j < p /\ p <= i THEN s[p - 1] ELSE s[p]
    BY <2>1, <2>3 DEF MoveDown, s
  <2>5. ASSUME NEW p \in 1..n, p > i PROVE h[i][p] = rw[p]
    <3>1. p # j /\ ~(j < p /\ p <= i) /\ p > i - 1
      BY <2>5
    <3>2. h[i][p] = s[p]
      BY <2>4, <3>1
    <3> QED BY <2>2, <3>1, <3>2
  <2>6. ASSUME NEW b \in 1..i, NEW e \in 1..i, NEW p \in b..e, Run(A, b, e, i)
        PROVE  h[i][p] = rw[b + e - p]
    <3>1. p \in 1..n /\ i \in 1..n
      BY <1>2
    <3>2. CASE e = i
      <4>1. b = j
        <5>1. ~(b < j)
          <6>1. b < j => j \in (b + 1)..i /\ j # 1
            OBVIOUS
          <6> QED BY <2>1, <2>6, <3>2, <6>1 DEF Run, Falls
        <5>2. ~(j < b)
          <6>1. j < b => b \in (j + 1)..i /\ b # 1
            OBVIOUS
          <6> QED BY <2>1, <2>6, <6>1 DEF Run, Falls
        <5> QED BY <5>1, <5>2
      <4>2. CASE p = j
        <5>1. h[i][p] = s[i]
          BY <2>4, <3>1, <4>2
        <5>2. s[i] = rw[i]
          <6>1. i > i - 1
            OBVIOUS
          <6> QED BY <2>2, <3>1, <6>1
        <5>3. b + e - p = i
          BY <3>2, <4>1, <4>2
        <5> QED BY <5>1, <5>2, <5>3
      <4>3. CASE p # j
        <5>1. j < p /\ p <= i /\ p - 1 \in j..(i - 1) /\ j \in 1..(i - 1) /\ i - 1 \in 1..(i - 1)
          BY <3>2, <4>1, <4>3
        <5>2. h[i][p] = s[p - 1]
          BY <2>4, <3>1, <5>1
        <5>3. Run(A, j, i - 1, i - 1)
          BY <2>1, <5>1 DEF Run, Falls
        <5>4. s[p - 1] = rw[j + (i - 1) - (p - 1)]
          BY <2>2, <5>1, <5>3
        <5>5. j + (i - 1) - (p - 1) = b + e - p
          BY <3>2, <4>1
        <5> QED BY <5>2, <5>4, <5>5
      <4> QED BY <4>2, <4>3
    <3>3. CASE e # i
      <4>1. e + 1 \notin A /\ e + 1 \in 1..i
        BY <2>6, <3>3 DEF Run
      <4>2. e < j
        <5>1. ~(e < j) => e + 1 \in (j + 1)..i
          BY <4>1
        <5> QED BY <2>1, <4>1, <5>1 DEF Falls
      <4>3. p # j /\ ~(j < p /\ p <= i) /\ b \in 1..(i - 1) /\ e \in 1..(i - 1)
        BY <2>6, <4>1, <4>2
      <4>4. h[i][p] = s[p]
        BY <2>4, <3>1, <4>3
      <4>5. Run(A, b, e, i - 1)
        BY <2>6, <4>1, <4>3 DEF Run
      <4> QED BY <2>2, <4>3, <4>4, <4>5
    <3> QED BY <3>2, <3>3
  <2>7. Good(h[i], i)
    BY <2>3, <2>5, <2>6
  <2>8. i \in 0..n
    BY <1>2
  <2> HIDE DEF Good
  <2> QED BY <2>7, <2>8 DEF S
<1>5. n \in S
  <2> HIDE DEF S, n
  <2>1. \A k \in 0..n : k \in S
    BY <1>2, <1>3, <1>4, Upwards
  <2> QED BY <1>2, <2>1
<1>6. Good(h[n], n) /\ h[n] \in Seq(W)
  BY <1>1, <1>2, <1>5
<1>7. ASSUME NEW p \in 1..n PROVE h[n][p] = rw[Place(A, n)[p]]
  <2> HIDE DEF A
  <2>1. PICK b, e \in 1..n : Run(A, b, e, n) /\ p \in b..e
    BY <1>2, RunExists
  <2>2. Place(A, n)[p] = b + e - p
    BY <1>2, <2>1, PlaceInRun
  <2>3. h[n][p] = rw[b + e - p]
    BY <1>6, <2>1
  <2> QED BY <2>2, <2>3
<1> QED BY <1>1, <1>6, <1>7

LEMMA IndexIs ==
    ASSUME NEW W, NEW ws \in Seq(W), NEW name
    PROVE  /\ IndexByName(ws, name) \in 0..Len(ws)
           /\ IndexByName(ws, name) # 0 => ws[IndexByName(ws, name)].name = name
           /\ IndexByName(ws, name) = 0 => \A i \in 1..Len(ws) : ws[i].name # name
           /\ NamesDiffer(ws) =>
                \A i \in 1..Len(ws) : ws[i].name = name => IndexByName(ws, name) = i
<1>1. Len(ws) \in Nat
  OBVIOUS
<1>2. CASE \E i \in 1..Len(ws) : ws[i].name = name
  <2>1. IndexByName(ws, name) \in 1..Len(ws) /\ ws[IndexByName(ws, name)].name = name
    BY <1>2 DEF IndexByName
  <2>2. ASSUME NamesDiffer(ws), NEW i \in 1..Len(ws), ws[i].name = name
        PROVE  IndexByName(ws, name) = i
    BY <2>1, <2>2 DEF NamesDiffer
  <2> QED BY <1>1, <2>1, <2>2
<1>3. CASE ~\E i \in 1..Len(ws) : ws[i].name = name
  <2>1. IndexByName(ws, name) = 0
    BY <1>3 DEF IndexByName
  <2> QED BY <1>1, <1>3, <2>1
<1> QED BY <1>2, <1>3

LEMMA SortedPools ==
    ASSUME NEW rw \in Seq(WorkerPool), NEW sw, NamesDiffer(rw)
    PROVE  LET W == sortWorkersToShootOrder(rw, sw)
           IN  /\ W \in Seq(WorkerPool) /\ Len(W) = Len(rw) /\ NamesDiffer(W)
               /\ \A p \in 1..Len(rw) : \E q \in 1..Len(rw) : W[p] = rw[q]
               /\ \A q \in 1..Len(rw) : \E p \in 1..Len(rw) : W[p] = rw[q]
               /\ ZonesIn(W) = ZonesIn(rw)
<1> DEFINE W == sortWorkersToShootOrder(rw, sw)
           n == Len(rw)
           q == Place(Ascending(rw, sw), n)
<1>1. n \in Nat
  OBVIOUS
<1>2. W \in Seq(WorkerPool) /\ Len(W) = n /\ \A p \in 1..n : W[p] = rw[q[p]]
  BY SortIs
<1>3. \A p \in 1..n : q[p] \in 1..n /\ q[q[p]] = p
  BY <1>1, PlaceIs
<1> HIDE DEF W, q, n
<1>4. NamesDiffer(W)
  <2> SUFFICES ASSUME NEW i \in 1..n, NEW j \in 1..n, W[i].name = W[j].name PROVE i = j
    BY <1>2 DEF NamesDiffer
  <2>1. q[i] = q[j]
    BY <1>2, <1>3 DEF NamesDiffer, n
  <2> QED BY <1>3, <2>1
<1>5. \A p \in 1..n : \E k \in 1..n : W[p] = rw[k]
  BY <1>2, <1>3
<1>6. \A k \in 1..n : \E p \in 1..n : W[p] = rw[k]
  BY <1>2, <1>3
<1>7. ZonesIn(W) = ZonesIn(rw)
  <2>1. {ToSet(W[i].zones) : i \in 1..n} = {ToSet(rw[i].zones) : i \in 1..n}
    <3> DEFINE of(i) == ToSet(W[i].zones)
               had(i) == ToSet(rw[i].zones)
    <3>1. \A i \in 1..n : \E k \in 1..n : of(i) = had(k)
      BY <1>5
    <3>2. \A k \in 1..n : \E i \in 1..n : of(i) = had(k)
      BY <1>6
    <3> HIDE DEF of, had
    <3>3. {of(i) : i \in 1..n} = {had(i) : i \in 1..n}
      BY <3>1, <3>2
    <3> QED BY <3>3 DEF of, had
  <2> QED BY <1>2, <2>1 DEF ZonesIn, n
<1> QED BY <1>2, <1>4, <1>5, <1>6, <1>7 DEF W, n

\* A sort by the order that a sort has left changes nothing.
LEMMA SortStable ==
    ASSUME NEW rw \in Seq(WorkerPool), NEW sw, NamesDiffer(rw), NEW X, NEW tw \in Seq(X),
           Len(tw) = Len(rw),
           \A p \in 1..Len(rw) : tw[p].name = sortWorkersToShootOrder(rw, sw)[p].name
    PROVE  sortWorkersToShootOrder(rw, tw) = sortWorkersToShootOrder(rw, sw)
<1> DEFINE W == sortWorkersToShootOrder(rw, sw)
           U == sortWorkersToShootOrder(rw, tw)
           n == Len(rw)
           A == Ascending(rw, sw)
           B == Ascending(rw, tw)
           q == Place(A, n)
<1>1. n \in Nat
  OBVIOUS
<1>2. W \in Seq(WorkerPool) /\ Len(W) = n /\ \A p \in 1..n : W[p] = rw[q[p]]
  BY SortIs
<1>3. U \in Seq(WorkerPool) /\ Len(U) = n /\ \A p \in 1..n : U[p] = rw[Place(B, n)[p]]
  BY SortIs
<1>4. /\ \A p \in 1..n : q[p] \in 1..n /\ q[q[p]] = p
      /\ \A k \in 2..n : k \in A <=> q[k] < q[k - 1]
  BY <1>1, PlaceIs
<1>5. NamesDiffer(W)
  BY SortedPools
<1>6. ASSUME NEW k \in 1..n PROVE IndexByName(tw, rw[k].name) = q[k]
  <2>1. q[k] \in 1..n /\ W[q[k]] = rw[k]
    <3> HIDE DEF W, q, n
    <3> QED BY <1>2, <1>4
  <2>2. tw[q[k]].name = rw[k].name
    BY <2>1
  <2>3. NamesDiffer(tw)
    BY <1>2, <1>5 DEF NamesDiffer
  <2> HIDE DEF q
  <2> QED BY <2>1, <2>2, <2>3, IndexIs
<1>7. A = B
  <2>1. A \subseteq 2..n /\ B \subseteq 2..n
    BY DEF Ascending
  <2>2. ASSUME NEW k \in 2..n PROVE k \in B <=> q[k] < q[k - 1]
    <3>1. k \in 1..n /\ k - 1 \in 1..n
      BY <1>1
    <3>2. IndexByName(tw, rw[k].name) = q[k] /\ IndexByName(tw, rw[k - 1].name) = q[k - 1]
      BY <1>6, <3>1
    <3>3. q[k] \in 1..n /\ q[k - 1] \in 1..n
      BY <1>4, <3>1
    <3> HIDE DEF q
    <3>4. less(rw, tw, k, k - 1) <=> q[k] < q[k - 1]
      BY <3>2, <3>3 DEF less
    <3> QED BY <3>4 DEF Ascending
  <2> HIDE DEF A, B, q, n
  <2> QED BY <1>4, <2>1, <2>2
<1>8. \A p \in 1..n : U[p] = W[p]
  <2> HIDE DEF A, B, W, U
  <2> QED BY <1>2, <1>3, <1>7
<1>9. U = W
  <2> HIDE DEF W, U, n
  <2> QED BY <1>2, <1>3, <1>8
<1> QED BY <1>9

\* The main pool stays in front.
LEMMA SortMain ==
    ASSUME NEW rw \in Seq(WorkerPool), rw # <<>>, NEW X, NEW sw \in Seq(X), sw # <<>>,
           NamesDiffer(sw), sw[1].name = rw[1].name
    PROVE  sortWorkersToShootOrder(rw, sw)[1] = rw[1]
<1>1. 1 \in 1..Len(rw) /\ 1 \in 1..Len(sw) /\ Len(rw) \in Nat /\ Len(rw) >= 1
  OBVIOUS
<1>2. IndexByName(sw, rw[1].name) = 1
  BY <1>1, IndexIs
<1>3. 2 \notin Ascending(rw, sw)
  <2>1. IndexByName(sw, rw[2].name) \in 0..Len(sw) /\ Len(sw) \in Nat
    BY IndexIs
  <2>2. ~less(rw, sw, 2, 1)
    BY <1>1, <1>2, <2>1 DEF less
  <2>3. 2 - 1 = 1
    OBVIOUS
  <2> QED BY <2>2, <2>3 DEF Ascending
<1>4. Place(Ascending(rw, sw), Len(rw))[1] = 1
  BY <1>1, <1>3, PlaceIs
<1> QED BY <1>1, <1>4, SortIs

-----------------------------------------------------------------------------
(* The pod limits (ApplyMaxPodsWithTotalCap).                              *)

LEMMA SumSteps ==
    ASSUME NEW ws \in Seq(WorkerPool)
    PROVE  \E h \in [0..Len(ws) -> Nat] :
              /\ h[0] = 0 /\ h[Len(ws)] = sumMaxPods(ws)
              /\ \A k \in 1..Len(ws) :
                   h[k] = IF ws[k].pods = None THEN h[k - 1] ELSE h[k - 1] + ws[k].pods
<1> DEFINE n == Len(ws)
           op(s, w) == IF w.pods = None THEN s ELSE s + w.pods
           G == [p \in (1..n) \X Nat |-> op(p[2], ws[p[1]])]
           Is(g) == g = [s \in SUBSET (1..n) |->
                           IF s = {} THEN 0 ELSE op(g[s \ {Max(s)}], ws[Max(s)])]
<1>1. n \in Nat /\ DOMAIN ws = 1..n /\ \A i \in 1..n : ws[i] \in WorkerPool
  OBVIOUS
<1>2. \A i \in 1..n : ws[i].pods \in Nat \cup {None}
  BY <1>1, PoolFields
<1>3. \A i \in 1..n, v \in Nat : op(v, ws[i]) \in Nat
  BY <1>2
<1> HIDE DEF n, op
<1>4. 0 \in Nat /\ G \in [(1..n) \X Nat -> Nat]
  BY <1>3
<1>5. \A i \in 1..n, v \in Nat : <<i, v>> \in (1..n) \X Nat /\ G[<<i, v>>] = op(v, ws[i])
  OBVIOUS
<1> HIDE DEF G
<1>6. PICK g : LeftFolded(n, Nat, 0, G, g)
  BY <1>1, <1>4, LeftFoldExists
<1>7. Is(g)
  BY <1>5, <1>6 DEF LeftFolded
<1>8. PICK f : Is(f) /\ sumMaxPods(ws) = f[1..n]
  BY <1>1, <1>7 DEF sumMaxPods, FoldLeft, MapThenFoldSet, op
<1>9. f[{}] = 0
  BY <1>8
<1>10. LeftRule(n, Nat, G, f)
  <2>1. ASSUME NEW s \in SUBSET (1..n), s # {}, f[s \ {Max(s)}] \in Nat
        PROVE  f[s] = G[<<Max(s), f[s \ {Max(s)}]>>]
    <3>1. Max(s) \in 1..n
      BY <1>6, <2>1 DEF LeftFolded
    <3>2. f[s] = op(f[s \ {Max(s)}], ws[Max(s)])
      BY <1>8, <2>1
    <3> QED BY <1>5, <2>1, <3>1, <3>2
  <2> QED BY <2>1 DEF LeftRule
<1>11. PICK h : LeftStepped(n, Nat, 0, G, f[1..n], h)
  BY <1>1, <1>4, <1>9, <1>10, LeftSteps
<1>12. \A k \in 1..n : k - 1 \in 0..n
  BY <1>1
<1>13. \A k \in 1..n : h[k] = op(h[k - 1], ws[k])
  BY <1>5, <1>11, <1>12 DEF LeftStepped
<1> QED BY <1>8, <1>11, <1>13 DEF LeftStepped, op, n

\* The sum depends on the pod limits only.
LEMMA SumSame ==
    ASSUME NEW ws \in Seq(WorkerPool), NEW vs \in Seq(WorkerPool), Len(ws) = Len(vs),
           \A i \in 1..Len(ws) : ws[i].pods = vs[i].pods
    PROVE  sumMaxPods(ws) = sumMaxPods(vs)
<1> DEFINE n == Len(ws)
<1>1. PICK h \in [0..n -> Nat] :
        /\ h[0] = 0 /\ h[n] = sumMaxPods(ws)
        /\ \A k \in 1..n : h[k] = IF ws[k].pods = None THEN h[k - 1] ELSE h[k - 1] + ws[k].pods
  BY SumSteps
<1>2. PICK g \in [0..n -> Nat] :
        /\ g[0] = 0 /\ g[n] = sumMaxPods(vs)
        /\ \A k \in 1..n : g[k] = IF vs[k].pods = None THEN g[k - 1] ELSE g[k - 1] + vs[k].pods
  <2>1. PICK g \in [0..Len(vs) -> Nat] :
          /\ g[0] = 0 /\ g[Len(vs)] = sumMaxPods(vs)
          /\ \A k \in 1..Len(vs) :
               g[k] = IF vs[k].pods = None THEN g[k - 1] ELSE g[k - 1] + vs[k].pods
    BY SumSteps
  <2>2. Len(vs) = n
    OBVIOUS
  <2> HIDE DEF n
  <2> QED BY <2>1, <2>2
<1> DEFINE S == {k \in 0..n : h[k] = g[k]}
<1>3. n \in Nat /\ 0 \in S
  BY <1>1, <1>2
<1>4. ASSUME NEW k \in 1..n, k - 1 \in S PROVE k \in S
  <2>1. h[k - 1] = g[k - 1] /\ k \in 0..n
    BY <1>3, <1>4
  <2>2. h[k] = IF ws[k].pods = None THEN h[k - 1] ELSE h[k - 1] + ws[k].pods
    BY <1>1
  <2>3. g[k] = IF vs[k].pods = None THEN g[k - 1] ELSE g[k - 1] + vs[k].pods
    BY <1>2
  <2>4. ws[k].pods = vs[k].pods
    OBVIOUS
  <2>5. h[k] = g[k]
    BY <2>1, <2>2, <2>3, <2>4
  <2> QED BY <2>1, <2>5
<1>5. n \in S
  <2> HIDE DEF S, n
  <2>1. \A k \in 0..n : k \in S
    BY <1>3, <1>4, Upwards
  <2> QED BY <1>3, <2>1
<1> QED BY <1>1, <1>2, <1>5

\* What differs in two pools is at most the pod limit.
ButForPods(w, v) ==
    w.name = v.name /\ w.zones = v.zones /\ w.image = v.image /\ w.strategy = v.strategy

Cut(w, excess) ==
    LET r == reduceWorkerMaxPods(w, excess) IN IF r = 0 THEN w ELSE [w EXCEPT !.pods = @ - r]

LEMMA CutIs ==
    ASSUME NEW w \in WorkerPool, NEW excess \in Nat
    PROVE  LET r == reduceWorkerMaxPods(w, excess)
               c == Cut(w, excess)
           IN  /\ r \in Nat /\ r <= excess /\ c \in WorkerPool /\ ButForPods(c, w)
               /\ w.pods = None => r = 0 /\ c.pods = None
               /\ w.pods # None => /\ w.pods \in Nat /\ c.pods \in Nat /\ c.pods = w.pods - r
                                   /\ r # 0 => c.pods \in 1..w.pods
                                   /\ r < excess => c.pods \in {0, 1}
<1>0. None \notin Nat
  BY ProviderAssumption DEF ProviderAssumption
<1>1. w.pods \in Nat \cup {None}
  BY PoolFields
<1> DEFINE r == reduceWorkerMaxPods(w, excess)
<1>2. /\ r \in Nat /\ r <= excess /\ (w.pods = None => r = 0)
      /\ w.pods # None => /\ w.pods \in Nat /\ w.pods - r \in Nat
                          /\ r # 0 => w.pods - r \in 1..w.pods
                          /\ r < excess => w.pods - r \in {0, 1}
  BY <1>0, <1>1 DEF reduceWorkerMaxPods
<1> HIDE DEF r
<1>3. CASE r = 0
  <2>1. Cut(w, excess) = w
    BY <1>3 DEF Cut, r
  <2> QED BY <1>2, <1>3, <2>1 DEF ButForPods, r
<1>4. CASE r # 0
  <2>1. Cut(w, excess) = [w EXCEPT !.pods = w.pods - r]
    BY <1>4 DEF Cut, r
  <2>2. w.pods # None
    BY <1>2, <1>4
  <2>3. /\ [w EXCEPT !.pods = w.pods - r] \in WorkerPool
        /\ [w EXCEPT !.pods = w.pods - r].pods = w.pods - r
        /\ ButForPods([w EXCEPT !.pods = w.pods - r], w)
    BY <1>2, <2>2 DEF WorkerPool, Worker, ButForPods
  <2> QED BY <1>2, <1>4, <2>1, <2>2, <2>3 DEF r
<1> QED BY <1>3, <1>4

CapOp(w, acc) == [workers |-> <<Cut(w, acc.excess)>> \o acc.workers,
                  excess |-> acc.excess - reduceWorkerMaxPods(w, acc.excess)]

Acc == [workers: Seq(WorkerPool), excess: Nat]

LEMMA CapSteps ==
    ASSUME NEW ws \in Seq(WorkerPool), NEW total \in Nat
    PROVE  LET excess == IF sumMaxPods(ws) > total THEN sumMaxPods(ws) - total ELSE 0
           IN  \E h \in [1..(Len(ws) + 1) -> Acc] :
                 /\ h[Len(ws) + 1] = [workers |-> <<>>, excess |-> excess]
                 /\ h[1] = ApplyMaxPodsWithTotalCap(ws, total)
                 /\ \A k \in 1..Len(ws) : h[k] = CapOp(ws[k], h[k + 1])
<1> DEFINE n == Len(ws)
           excess == IF sumMaxPods(ws) > total THEN sumMaxPods(ws) - total ELSE 0
           base == [workers |-> <<>>, excess |-> excess]
           op(w, acc) == CapOp(w, acc)
           G == [p \in (1..n) \X Acc |-> op(ws[p[1]], p[2])]
           Is(g) == g = [s \in SUBSET (1..n) |->
                           IF s = {} THEN base ELSE op(ws[Min(s)], g[s \ {Min(s)}])]
<1>1. n \in Nat /\ DOMAIN ws = 1..n /\ \A i \in 1..n : ws[i] \in WorkerPool
  OBVIOUS
<1>2. sumMaxPods(ws) \in Nat
  <2>1. PICK h \in [0..n -> Nat] : h[n] = sumMaxPods(ws)
    BY SumSteps
  <2> QED BY <1>1, <2>1
<1>3. base \in Acc
  <2>1. excess \in Nat
    BY <1>2
  <2> HIDE DEF excess
  <2> QED BY <2>1 DEF Acc
<1>4. ASSUME NEW w \in WorkerPool, NEW a \in Acc PROVE CapOp(w, a) \in Acc
  <2>1. a.workers \in Seq(WorkerPool) /\ a.excess \in Nat
    BY DEF Acc
  <2>2. Cut(w, a.excess) \in WorkerPool /\ a.excess - reduceWorkerMaxPods(w, a.excess) \in Nat
    <3>1. \A x \in Nat : /\ reduceWorkerMaxPods(w, x) \in Nat /\ reduceWorkerMaxPods(w, x) <= x
                         /\ Cut(w, x) \in WorkerPool
      BY CutIs
    <3>2. \A x \in Nat : x - reduceWorkerMaxPods(w, x) \in Nat
      BY <3>1
    <3> QED BY <2>1, <3>1, <3>2
  <2>3. <<Cut(w, a.excess)>> \o a.workers \in Seq(WorkerPool)
    BY <2>1, <2>2
  <2> QED BY <2>2, <2>3 DEF CapOp, Acc
<1> HIDE DEF n, base, op, excess
<1>5. G \in [(1..n) \X Acc -> Acc]
  BY <1>1, <1>4 DEF op
<1>6. \A i \in 1..n, v \in Acc : <<i, v>> \in (1..n) \X Acc /\ G[<<i, v>>] = op(ws[i], v)
  <2> HIDE DEF Acc
  <2> QED OBVIOUS
<1> HIDE DEF G
<1>7. PICK g : RightFolded(n, Acc, base, G, g)
  BY <1>1, <1>3, <1>5, RightFoldExists
<1>8. Is(g)
  BY <1>6, <1>7 DEF RightFolded
<1>9. PICK f : Is(f) /\ ApplyMaxPodsWithTotalCap(ws, total) = f[1..n]
  <2>1. ApplyMaxPodsWithTotalCap(ws, total) = (CHOOSE f : Is(f))[1..n]
    BY <1>1 DEF ApplyMaxPodsWithTotalCap, FoldRight, MapThenFoldSet, op, base, excess, CapOp, Cut
  <2>2. Is(CHOOSE f : Is(f))
    <3> HIDE DEF Is
    <3> QED BY <1>8
  <2> QED BY <2>1, <2>2
<1>10. f[{}] = base
  BY <1>9
<1>11. RightRule(n, Acc, G, f)
  <2> SUFFICES ASSUME NEW s \in SUBSET (1..n), s # {}, f[s \ {Min(s)}] \in Acc
               PROVE  f[s] = G[<<Min(s), f[s \ {Min(s)}]>>]
    BY DEF RightRule
  <2>1. Min(s) \in 1..n
    BY <1>7 DEF RightFolded
  <2>2. f[s] = op(ws[Min(s)], f[s \ {Min(s)}])
    BY <1>9
  <2> QED BY <1>6, <2>1, <2>2
<1>12. PICK h : RightStepped(n, Acc, base, G, f[1..n], h)
  BY <1>1, <1>3, <1>5, <1>10, <1>11, RightSteps
<1>13. \A k \in 1..n : k + 1 \in 1..(n + 1)
  BY <1>1
<1>14. \A k \in 1..n : h[k] = op(ws[k], h[k + 1])
  BY <1>6, <1>12, <1>13 DEF RightStepped
<1> QED BY <1>9, <1>12, <1>14 DEF RightStepped, op, n, base, excess

\* The excess that is left when the loop comes to a pool, from the last one backwards.
LEMMA CapTrace ==
    ASSUME NEW ws \in Seq(WorkerPool), NEW total \in Nat
    PROVE  LET n == Len(ws)
               R == ApplyMaxPodsWithTotalCap(ws, total)
           IN  \E x \in [1..(n + 1) -> Nat] :
                 /\ x[n + 1] = IF sumMaxPods(ws) > total THEN sumMaxPods(ws) - total ELSE 0
                 /\ x[1] = R.excess
                 /\ \A k \in 1..n : x[k] = x[k + 1] - reduceWorkerMaxPods(ws[k], x[k + 1])
                 /\ R.workers \in Seq(WorkerPool) /\ Len(R.workers) = n
                 /\ \A k \in 1..n : R.workers[k] = Cut(ws[k], x[k + 1])
<1> DEFINE n == Len(ws)
           R == ApplyMaxPodsWithTotalCap(ws, total)
           excess == IF sumMaxPods(ws) > total THEN sumMaxPods(ws) - total ELSE 0
<1>1. PICK h \in [1..(n + 1) -> Acc] :
        /\ h[n + 1] = [workers |-> <<>>, excess |-> excess] /\ h[1] = R
        /\ \A k \in 1..n : h[k] = CapOp(ws[k], h[k + 1])
  BY CapSteps
<1> HIDE DEF R, excess
<1>2. n \in Nat /\ \A i \in 1..n : ws[i] \in WorkerPool /\ i + 1 \in 1..(n + 1) /\ i \in 1..(n + 1)
  OBVIOUS
<1> HIDE DEF n
<1> DEFINE x == [k \in 1..(n + 1) |-> h[k].excess]
<1>3. \A k \in 1..(n + 1) : h[k].workers \in Seq(WorkerPool) /\ h[k].excess \in Nat
  BY <1>1 DEF Acc
<1>4. \A k \in 1..n : /\ h[k].workers = <<Cut(ws[k], h[k + 1].excess)>> \o h[k + 1].workers
                      /\ h[k].excess = h[k + 1].excess
                                         - reduceWorkerMaxPods(ws[k], h[k + 1].excess)
  <2> TAKE k \in 1..n
  <2>1. h[k] = CapOp(ws[k], h[k + 1])
    BY <1>1
  <2> QED BY <2>1 DEF CapOp
<1>5. x \in [1..(n + 1) -> Nat] /\ \A k \in 1..(n + 1) : x[k] = h[k].excess
  BY <1>3
<1> HIDE DEF x
<1> DEFINE S == {k \in 1..(n + 1) : /\ Len(h[k].workers) = n + 1 - k
                                    /\ \A j \in k..n : h[k].workers[j - k + 1] = Cut(ws[j], x[j + 1])}
<1>6. n + 1 \in S
  <2>1. h[n + 1].workers = <<>>
    BY <1>1
  <2> QED BY <1>2, <2>1
<1>7. ASSUME NEW k \in 1..n, k + 1 \in S PROVE k \in S
  <2> DEFINE u == h[k + 1].workers
             c == Cut(ws[k], x[k + 1])
  <2>1. h[k].workers = <<c>> \o u /\ k \in 1..(n + 1)
    BY <1>2, <1>4, <1>5
  <2>2. /\ u \in Seq(WorkerPool) /\ Len(u) = n - k
        /\ \A j \in (k + 1)..n : u[j - (k + 1) + 1] = Cut(ws[j], x[j + 1])
    BY <1>2, <1>3, <1>7
  <2> HIDE DEF u, c
  <2>3. c \in WorkerPool
    <3>1. ws[k] \in WorkerPool /\ x[k + 1] \in Nat
      BY <1>2, <1>5
    <3> QED BY <3>1, CutIs DEF c
  <2>4. /\ Len(<<c>> \o u) = 1 + (n - k) /\ (<<c>> \o u)[1] = c
        /\ \A m \in 1..(n - k) : (<<c>> \o u)[1 + m] = u[m]
    BY <2>2, <2>3
  <2>5. Len(h[k].workers) = n + 1 - k
    BY <1>2, <2>1, <2>4
  <2>6. ASSUME NEW j \in k..n PROVE h[k].workers[j - k + 1] = Cut(ws[j], x[j + 1])
    <3>1. CASE j = k
      <4>1. j - k + 1 = 1
        BY <3>1
      <4> QED BY <2>1, <2>4, <3>1, <4>1 DEF c
    <3>2. CASE j # k
      <4>1. j \in (k + 1)..n /\ j - k \in 1..(n - k) /\ j - k + 1 = 1 + (j - k)
            /\ j - (k + 1) + 1 = j - k
        BY <1>2, <3>2
      <4>2. u[j - k] = Cut(ws[j], x[j + 1])
        BY <2>2, <4>1
      <4> QED BY <2>1, <2>4, <4>1, <4>2
    <3> QED BY <3>1, <3>2
  <2> QED BY <2>1, <2>5, <2>6
<1>8. 1 \in S
  <2> HIDE DEF S
  <2>1. \A k \in 1..(n + 1) : k \in S
    BY <1>2, <1>6, <1>7, Downwards
  <2> QED BY <1>2, <2>1
<1>9. R.workers \in Seq(WorkerPool) /\ Len(R.workers) = n
  <2>1. n + 1 - 1 = n /\ 1 \in 1..(n + 1)
    BY <1>2
  <2> QED BY <1>1, <1>3, <1>8, <2>1
<1>10. \A k \in 1..n : R.workers[k] = Cut(ws[k], x[k + 1])
  <2> TAKE k \in 1..n
  <2>1. k - 1 + 1 = k
    BY <1>2
  <2> QED BY <1>1, <1>8, <2>1
<1>11. x[n + 1] = excess /\ x[1] = R.excess
  BY <1>1, <1>2, <1>5
<1>12. \A k \in 1..n : x[k] = x[k + 1] - reduceWorkerMaxPods(ws[k], x[k + 1])
  BY <1>2, <1>4, <1>5
<1> QED BY <1>5, <1>9, <1>10, <1>11, <1>12 DEF R, n, excess

LEMMA CapIs ==
    ASSUME NEW ws \in Seq(WorkerPool), NEW total \in Nat
    PROVE  LET n == Len(ws)
               R == ApplyMaxPodsWithTotalCap(ws, total)
           IN  /\ R.workers \in Seq(WorkerPool) /\ Len(R.workers) = n
               /\ \A i \in 1..n : ButForPods(R.workers[i], ws[i])
               /\ R.excess = 0 => sumMaxPods(R.workers) <= total
               /\ \A i \in 1..n : R.workers[i].pods # ws[i].pods =>
                    /\ R.workers[i].pods \in 1..ws[i].pods
                    /\ \A j \in (i + 1)..n : R.workers[j].pods \in {0, 1, None}
<1> DEFINE n == Len(ws)
           R == ApplyMaxPodsWithTotalCap(ws, total)
           excess == IF sumMaxPods(ws) > total THEN sumMaxPods(ws) - total ELSE 0
           red(k, y) == reduceWorkerMaxPods(ws[k], y)
<1>1. PICK x \in [1..(n + 1) -> Nat] :
         /\ x[n + 1] = excess /\ x[1] = R.excess
         /\ \A k \in 1..n : x[k] = x[k + 1] - red(k, x[k + 1])
         /\ R.workers \in Seq(WorkerPool) /\ Len(R.workers) = n
         /\ \A k \in 1..n : R.workers[k] = Cut(ws[k], x[k + 1])
  BY CapTrace
<1> HIDE DEF R
<1>2. n \in Nat /\ \A i \in 1..n : /\ ws[i] \in WorkerPool /\ i + 1 \in 1..(n + 1)
                                   /\ i \in 1..(n + 1) /\ i \in 0..n /\ i - 1 \in 0..n
  OBVIOUS
<1>3. \A k \in 1..n :
        LET r == red(k, x[k + 1])
            c == R.workers[k]
        IN  /\ r \in Nat /\ r <= x[k + 1] /\ ButForPods(c, ws[k])
            /\ ws[k].pods = None => r = 0 /\ c.pods = None
            /\ ws[k].pods # None => /\ ws[k].pods \in Nat /\ c.pods \in Nat /\ c.pods = ws[k].pods - r
                                    /\ r # 0 => c.pods \in 1..ws[k].pods
                                    /\ r < x[k + 1] => c.pods \in {0, 1}
  <2> TAKE k \in 1..n
  <2>1. ws[k] \in WorkerPool /\ x[k + 1] \in Nat /\ R.workers[k] = Cut(ws[k], x[k + 1])
    BY <1>1, <1>2
  <2> DEFINE w == ws[k]
             y == x[k + 1]
             c == R.workers[k]
             r == reduceWorkerMaxPods(w, y)
  <2>2. w \in WorkerPool /\ y \in Nat /\ c = Cut(w, y) /\ red(k, x[k + 1]) = r
    BY <2>1
  <2> HIDE DEF w, y, c
  <2>3. /\ r \in Nat /\ r <= y /\ ButForPods(c, w)
        /\ w.pods = None => r = 0 /\ c.pods = None
        /\ w.pods # None => /\ w.pods \in Nat /\ c.pods \in Nat /\ c.pods = w.pods - r
                            /\ r # 0 => c.pods \in 1..w.pods
                            /\ r < y => c.pods \in {0, 1}
    BY <2>2, CutIs
  <2> HIDE DEF r, red
  <2> QED BY <2>2, <2>3 DEF w, y, c
<1> HIDE DEF n, excess, red
<1>4. ASSUME R.excess = 0 PROVE sumMaxPods(R.workers) <= total
  <2>1. PICK s \in [0..n -> Nat] :
          /\ s[0] = 0 /\ s[n] = sumMaxPods(ws)
          /\ \A k \in 1..n : s[k] = IF ws[k].pods = None THEN s[k - 1] ELSE s[k - 1] + ws[k].pods
    BY SumSteps DEF n
  <2>2. PICK t \in [0..n -> Nat] :
          /\ t[0] = 0 /\ t[n] = sumMaxPods(R.workers)
          /\ \A k \in 1..n : t[k] = IF R.workers[k].pods = None THEN t[k - 1]
                                    ELSE t[k - 1] + R.workers[k].pods
    <3>1. \A vs \in Seq(WorkerPool) : \E t \in [0..Len(vs) -> Nat] :
            /\ t[0] = 0 /\ t[Len(vs)] = sumMaxPods(vs)
            /\ \A k \in 1..Len(vs) : t[k] = IF vs[k].pods = None THEN t[k - 1]
                                            ELSE t[k - 1] + vs[k].pods
      BY SumSteps
    <3> QED BY <1>1, <3>1
  <2> DEFINE S == {k \in 0..n : t[k] + x[k + 1] = s[k]}
  <2>3. 0 \in S
    BY <1>1, <1>2, <1>4, <2>1, <2>2
  <2>4. ASSUME NEW k \in 1..n, k - 1 \in S PROVE k \in S
    <3>1. t[k - 1] + x[k] = s[k - 1]
      <4>1. (k - 1) + 1 = k
        BY <1>2
      <4> QED BY <2>4, <4>1
    <3>2. /\ t[k - 1] \in Nat /\ x[k] \in Nat /\ s[k - 1] \in Nat /\ x[k + 1] \in Nat
          /\ k \in 0..n /\ red(k, x[k + 1]) \in Nat /\ x[k] = x[k + 1] - red(k, x[k + 1])
      BY <1>1, <1>2, <1>3, <2>1, <2>2
    <3>3. CASE ws[k].pods = None
      <4>1. t[k] = t[k - 1] /\ s[k] = s[k - 1] /\ red(k, x[k + 1]) = 0
        BY <1>3, <2>1, <2>2, <3>3
      <4>2. x[k] = x[k + 1]
        BY <3>2, <4>1
      <4> QED BY <3>1, <3>2, <4>1, <4>2
    <3>4. CASE ws[k].pods # None
      <4>1. /\ ws[k].pods \in Nat /\ R.workers[k].pods \in Nat
            /\ R.workers[k].pods = ws[k].pods - red(k, x[k + 1])
        BY <1>3, <3>4
      <4>2. R.workers[k].pods # None
        BY <4>1, ProviderAssumption DEF ProviderAssumption
      <4>3. t[k] = t[k - 1] + R.workers[k].pods /\ s[k] = s[k - 1] + ws[k].pods
        BY <2>1, <2>2, <3>4, <4>2
      <4>4. t[k] + x[k + 1] = s[k]
        <5>1. \A t0, x0, s0, y, p, d, m \in Nat :
                t0 + x0 = s0 /\ x0 = y - d /\ m = p - d => (t0 + m) + y = s0 + p
          OBVIOUS
        <5> DEFINE t0 == t[k - 1]
                   x0 == x[k]
                   s0 == s[k - 1]
                   y == x[k + 1]
                   p == ws[k].pods
                   m == R.workers[k].pods
                   d == red(k, x[k + 1])
        <5>2. /\ t0 \in Nat /\ x0 \in Nat /\ s0 \in Nat /\ y \in Nat /\ p \in Nat /\ d \in Nat
              /\ m \in Nat /\ t0 + x0 = s0 /\ x0 = y - d /\ m = p - d
          <6> HIDE DEF red
          <6> QED BY <3>1, <3>2, <4>1
        <5>3. t[k] = t0 + m /\ s[k] = s0 + p /\ x[k + 1] = y
          BY <4>3
        <5> HIDE DEF t0, x0, s0, y, p, m, d
        <5>4. (t0 + m) + y = s0 + p
          BY <5>1, <5>2
        <5> QED BY <5>3, <5>4
      <4> QED BY <3>2, <4>4
    <3> QED BY <3>3, <3>4
  <2>5. n \in S
    <3> HIDE DEF S
    <3>1. \A k \in 0..n : k \in S
      BY <1>2, <2>3, <2>4, Upwards
    <3> QED BY <1>2, <3>1
  <2>6. t[n] + excess = s[n] /\ s[n] = sumMaxPods(ws) /\ t[n] \in Nat /\ s[n] \in Nat
    BY <1>1, <1>2, <2>1, <2>2, <2>5
  <2>7. t[n] <= total
    BY <2>6 DEF excess
  <2> QED BY <2>2, <2>7
<1>5. ASSUME NEW i \in 1..n, R.workers[i].pods # ws[i].pods
      PROVE  /\ R.workers[i].pods \in 1..ws[i].pods
             /\ \A j \in (i + 1)..n : R.workers[j].pods \in {0, 1, None}
  <2>0. /\ ws[i].pods = None => R.workers[i].pods = None
        /\ ws[i].pods # None => /\ ws[i].pods \in Nat
                                /\ R.workers[i].pods = ws[i].pods - red(i, x[i + 1])
    BY <1>3
  <2>1. ws[i].pods # None /\ red(i, x[i + 1]) # 0
    BY <1>5, <2>0
  <2>2. R.workers[i].pods \in 1..ws[i].pods
    BY <1>3, <2>1
  <2>3. x[i + 1] > 0
    BY <1>1, <1>2, <1>3, <2>1
  <2> DEFINE S == {j \in 0..n : j >= i => x[j + 1] > 0}
  <2>4. 0 \in S
    BY <1>2
  <2>5. ASSUME NEW j \in 1..n, j - 1 \in S PROVE j \in S
    <3>1. CASE j = i
      BY <1>2, <2>3, <3>1
    <3>2. CASE j > i
      <4>1. x[j] > 0
        <5>1. (j - 1) + 1 = j /\ j - 1 >= i
          BY <1>2, <3>2
        <5> QED BY <2>5, <5>1
      <4>2. x[j] = x[j + 1] - red(j, x[j + 1]) /\ x[j + 1] \in Nat /\ red(j, x[j + 1]) \in Nat
            /\ x[j] \in Nat /\ j \in 0..n
        BY <1>1, <1>2, <1>3
      <4>3. x[j + 1] > 0
        BY <4>1, <4>2
      <4> QED BY <4>2, <4>3
    <3>3. CASE j < i
      BY <1>2, <3>3
    <3> QED BY <1>2, <3>1, <3>2, <3>3
  <2>6. \A j \in 0..n : j \in S
    <3> HIDE DEF S
    <3> QED BY <1>2, <2>4, <2>5, Upwards
  <2>7. ASSUME NEW j \in (i + 1)..n PROVE R.workers[j].pods \in {0, 1, None}
    <3>1. j \in 1..n /\ j - 1 \in 0..n /\ j - 1 >= i /\ (j - 1) + 1 = j
      BY <1>2
    <3>2. x[j] > 0
      BY <2>6, <3>1
    <3>3. x[j] = x[j + 1] - red(j, x[j + 1]) /\ x[j + 1] \in Nat /\ red(j, x[j + 1]) \in Nat
      BY <1>1, <1>2, <1>3, <3>1
    <3>4. red(j, x[j + 1]) < x[j + 1]
      BY <3>2, <3>3
    <3> QED BY <1>3, <3>1, <3>4
  <2> QED BY <2>2, <2>7
<1> QED BY <1>1, <1>3, <1>4, <1>5 DEF R, n

-----------------------------------------------------------------------------
(* The settings of the pools and their alignment with the shoot.           *)

FullPool == Worker(Image, {Strategy, None})

ShootPool == Worker(Image, {Strategy})

LEMMA PoolTypes ==
    /\ ShootPool \subseteq FullPool /\ FullPool \subseteq WorkerPool
    /\ \A w \in WorkerPool : w.image \in Image => w \in FullPool
    /\ \A w \in FullPool : w.strategy # None => w \in ShootPool
    /\ \A w \in FullPool : w.image \in Image
    /\ \A w \in ShootPool : w.strategy = Strategy
    /\ Strategy # None /\ None \notin Image
<1>1. ShootPool \subseteq FullPool /\ FullPool \subseteq WorkerPool
  BY DEF ShootPool, FullPool, WorkerPool, Worker
<1>2. \A w \in WorkerPool : w.image \in Image => w \in FullPool
  BY DEF FullPool, WorkerPool, Worker
<1>3. \A w \in FullPool : w.strategy # None => w \in ShootPool
  BY DEF FullPool, ShootPool, Worker
<1>4. \A w \in FullPool : w.image \in Image
  BY DEF FullPool, Worker
<1>5. \A w \in ShootPool : w.strategy = Strategy
  BY DEF ShootPool, Worker
<1>6. Strategy # None /\ None \notin Image
  BY ProviderAssumption, ShootAssumption DEF ProviderAssumption, ShootAssumption
<1> QED BY <1>1, <1>2, <1>3, <1>4, <1>5, <1>6

LEMMA SeqTypes ==
    /\ \A s \in Seq(ShootPool) : s \in Seq(FullPool) /\ s \in Seq(WorkerPool)
    /\ \A s \in Seq(FullPool) : s \in Seq(WorkerPool)
<1> HIDE DEF ShootPool, FullPool, WorkerPool
<1> QED BY PoolTypes

LEMMA ImageIs ==
    ASSUME NEW w \in WorkerPool
    PROVE  /\ setMachineImage(w) \in FullPool
           /\ setMachineImage(w).name = w.name /\ setMachineImage(w).zones = w.zones
           /\ setMachineImage(w).pods = w.pods /\ setMachineImage(w).strategy = w.strategy
<1> DEFINE im == IF w.image = None THEN DefaultImage
                 ELSE IF w.image.version = 0 THEN [w.image EXCEPT !.version = DefaultImage.version]
                 ELSE w.image
<1>1. im \in Image
  BY PoolFields, ProviderAssumption DEF ProviderAssumption, Image
<1>2. setMachineImage(w) = [w EXCEPT !.image = im]
  BY DEF setMachineImage
<1> HIDE DEF im
<1> QED BY <1>1, <1>2 DEF FullPool, WorkerPool, Worker

LEMMA WithImagesIs ==
    ASSUME NEW ws \in Seq(WorkerPool)
    PROVE  /\ WithImages(ws) \in Seq(FullPool) /\ Len(WithImages(ws)) = Len(ws)
           /\ \A i \in 1..Len(ws) : WithImages(ws)[i] = setMachineImage(ws[i])
<1>1. \A i \in 1..Len(ws) : ws[i] \in WorkerPool /\ setMachineImage(ws[i]) \in FullPool
  BY ImageIs
<1> QED BY <1>1 DEF WithImages

LEMMA MaxPodsType ==
    ASSUME NEW b \in Bits
    PROVE  MaxPodsFromCIDR(b) \in Nat
<1>1. b \in Nat /\ Size[b] \in Nat \ {0}
  BY SizeType DEF Bits
<1>2. CASE b >= 31
  BY <1>1, <1>2 DEF MaxPodsFromCIDR
<1>3. CASE ~(b >= 31)
  <2>1. b \in 2..31 /\ b + 1 \in Bits
    BY <1>3 DEF Bits
  <2>2. Size[b] = 2 * Size[b + 1] /\ Size[b + 1] \in Nat \ {0}
    BY <2>1, SizeType, SizeAssumption DEF SizeAssumption
  <2> QED BY <1>3, <2>2 DEF MaxPodsFromCIDR
<1> QED BY <1>2, <1>3

LEMMA NodeCapIs ==
    ASSUME NEW w \in WorkerPool
    PROVE  ApplyPerNodeMaxPodsCap(w) \in WorkerPool /\ ButForPods(ApplyPerNodeMaxPodsCap(w), w)
<1>1. MaxPodsFromCIDR(24) \in Nat
  BY MaxPodsType DEF Bits
<1> QED BY <1>1 DEF ApplyPerNodeMaxPodsCap, ButForPods, WorkerPool, Worker

LEMMA SettingsIs ==
    ASSUME NEW ws \in Seq(WorkerPool)
    PROVE  LET R == setWorkerSettings(ws)
           IN  /\ R.workers \in Seq(WorkerPool) /\ Len(R.workers) = Len(ws)
               /\ \A i \in 1..Len(ws) : ButForPods(R.workers[i], ws[i])
               /\ PodsCIDR # None =>
                    /\ R.excess = 0 => sumMaxPods(R.workers) <= MaxPodsFromCIDR(PodsCIDR)
                    /\ \A i \in 1..Len(ws) :
                         LET asked == ApplyPerNodeMaxPodsCap(ws[i]).pods
                         IN  R.workers[i].pods # asked =>
                               /\ R.workers[i].pods \in 1..asked
                               /\ \A j \in (i + 1)..Len(ws) : R.workers[j].pods \in {0, 1, None}
<1> DEFINE R == setWorkerSettings(ws)
           n == Len(ws)
           capped == [i \in 1..Len(ws) |-> ApplyPerNodeMaxPodsCap(ws[i])]
<1>1. n \in Nat /\ \A i \in 1..n : ws[i] \in WorkerPool
  OBVIOUS
<1>2. \A i \in 1..n : /\ ApplyPerNodeMaxPodsCap(ws[i]) \in WorkerPool
                      /\ ButForPods(ApplyPerNodeMaxPodsCap(ws[i]), ws[i])
  BY <1>1, NodeCapIs
<1>3. /\ capped \in Seq(WorkerPool) /\ Len(capped) = n
      /\ \A i \in 1..n : capped[i] = ApplyPerNodeMaxPodsCap(ws[i])
  BY <1>1, <1>2
<1>4. R = IF PodsCIDR = None THEN [workers |-> capped, excess |-> 0]
          ELSE ApplyMaxPodsWithTotalCap(capped, MaxPodsFromCIDR(PodsCIDR))
  BY DEF setWorkerSettings
<1> HIDE DEF R, capped, n
<1>5. CASE PodsCIDR = None
  <2>1. R.workers = capped
    BY <1>4, <1>5
  <2> QED BY <1>2, <1>3, <1>5, <2>1 DEF R, n
<1>6. CASE PodsCIDR # None
  <2> DEFINE total == MaxPodsFromCIDR(PodsCIDR)
             Q == ApplyMaxPodsWithTotalCap(capped, total)
  <2>1. total \in Nat
    BY <1>6, MaxPodsType, ProviderAssumption DEF ProviderAssumption
  <2> HIDE DEF total
  <2>2. /\ Q.workers \in Seq(WorkerPool) /\ Len(Q.workers) = Len(capped)
        /\ \A i \in 1..Len(capped) : ButForPods(Q.workers[i], capped[i])
        /\ Q.excess = 0 => sumMaxPods(Q.workers) <= total
        /\ \A i \in 1..Len(capped) : Q.workers[i].pods # capped[i].pods =>
             /\ Q.workers[i].pods \in 1..capped[i].pods
             /\ \A j \in (i + 1)..Len(capped) : Q.workers[j].pods \in {0, 1, None}
    BY <1>3, <2>1, CapIs
  <2>3. R = Q
    BY <1>4, <1>6 DEF total
  <2> HIDE DEF Q
  <2>4. \A i \in 1..n : ButForPods(R.workers[i], ws[i])
    <3> TAKE i \in 1..n
    <3>1. ButForPods(R.workers[i], capped[i]) /\ ButForPods(capped[i], ws[i])
      BY <1>2, <1>3, <2>2, <2>3
    <3> QED BY <3>1 DEF ButForPods
  <2>5. \A i \in 1..n : R.workers[i].pods # ApplyPerNodeMaxPodsCap(ws[i]).pods =>
             /\ R.workers[i].pods \in 1..ApplyPerNodeMaxPodsCap(ws[i]).pods
             /\ \A j \in (i + 1)..n : R.workers[j].pods \in {0, 1, None}
    BY <1>3, <2>2, <2>3
  <2>6. R.workers \in Seq(WorkerPool) /\ Len(R.workers) = n
        /\ (R.excess = 0 => sumMaxPods(R.workers) <= MaxPodsFromCIDR(PodsCIDR))
    BY <1>3, <2>2, <2>3 DEF total
  <2> QED BY <2>4, <2>5, <2>6 DEF R, n
<1> QED BY <1>5, <1>6

\* What setMachineImage and setWorkerSettings make of the pools.
Prepared(ws) == setWorkerSettings(WithImages(ws)).workers

LEMMA PreparedIs ==
    ASSUME NEW ws \in Seq(WorkerPool)
    PROVE  LET B == Prepared(ws)
           IN  /\ B \in Seq(FullPool) /\ Len(B) = Len(ws)
               /\ \A i \in 1..Len(ws) : B[i].name = ws[i].name /\ B[i].zones = ws[i].zones
               /\ PodsCIDR # None =>
                    /\ setWorkerSettings(WithImages(ws)).excess = 0
                         => sumMaxPods(B) <= MaxPodsFromCIDR(PodsCIDR)
                    /\ \A i \in 1..Len(ws) :
                         LET asked == ApplyPerNodeMaxPodsCap(ws[i]).pods
                         IN  B[i].pods # asked =>
                               /\ B[i].pods \in 1..asked
                               /\ \A j \in (i + 1)..Len(ws) : B[j].pods \in {0, 1, None}
<1> DEFINE B == Prepared(ws)
           vs == WithImages(ws)
           R == setWorkerSettings(vs)
           n == Len(ws)
<1>1. vs \in Seq(FullPool) /\ Len(vs) = n /\ \A i \in 1..n : vs[i] = setMachineImage(ws[i])
  BY WithImagesIs
<1>2. vs \in Seq(WorkerPool) /\ n \in Nat /\ \A i \in 1..n : ws[i] \in WorkerPool /\ vs[i] \in FullPool
  <2> HIDE DEF vs
  <2> QED BY <1>1, SeqTypes
<1> HIDE DEF vs
<1>3. /\ R.workers \in Seq(WorkerPool) /\ Len(R.workers) = Len(vs)
      /\ \A i \in 1..Len(vs) : ButForPods(R.workers[i], vs[i])
      /\ PodsCIDR # None =>
           /\ R.excess = 0 => sumMaxPods(R.workers) <= MaxPodsFromCIDR(PodsCIDR)
           /\ \A i \in 1..Len(vs) :
                R.workers[i].pods # ApplyPerNodeMaxPodsCap(vs[i]).pods =>
                  /\ R.workers[i].pods \in 1..ApplyPerNodeMaxPodsCap(vs[i]).pods
                  /\ \A j \in (i + 1)..Len(vs) : R.workers[j].pods \in {0, 1, None}
  BY <1>2, SettingsIs
<1>4. B = R.workers
  BY DEF Prepared, vs
<1> HIDE DEF R, B, n
<1>5. \A i \in 1..n : /\ B[i].name = ws[i].name /\ B[i].zones = ws[i].zones
                      /\ B[i] \in FullPool
                      /\ ApplyPerNodeMaxPodsCap(vs[i]).pods = ApplyPerNodeMaxPodsCap(ws[i]).pods
  <2> TAKE i \in 1..n
  <2>1. ButForPods(B[i], vs[i]) /\ B[i] \in WorkerPool
    BY <1>1, <1>3, <1>4
  <2>2. /\ vs[i].name = ws[i].name /\ vs[i].zones = ws[i].zones /\ vs[i].pods = ws[i].pods
        /\ ws[i] \in WorkerPool /\ vs[i] \in WorkerPool
    BY <1>1, <1>2, ImageIs, PoolTypes
  <2>3. B[i].image \in Image
    BY <1>2, <2>1, PoolTypes DEF ButForPods
  <2>4. ApplyPerNodeMaxPodsCap(vs[i]).pods = ApplyPerNodeMaxPodsCap(ws[i]).pods
    BY <2>2 DEF ApplyPerNodeMaxPodsCap, WorkerPool, Worker
  <2> QED BY <2>1, <2>2, <2>3, <2>4, PoolTypes DEF ButForPods
<1>6. B \in Seq(FullPool) /\ Len(B) = n
  <2>1. Len(B) = n /\ B \in Seq(WorkerPool)
    BY <1>1, <1>3, <1>4
  <2>2. \A i \in 1..Len(B) : B[i] \in FullPool
    BY <1>5, <2>1
  <2> QED BY <2>1, <2>2
<1>7. PodsCIDR # None =>
           /\ setWorkerSettings(WithImages(ws)).excess = 0
                => sumMaxPods(B) <= MaxPodsFromCIDR(PodsCIDR)
           /\ \A i \in 1..n :
                B[i].pods # ApplyPerNodeMaxPodsCap(ws[i]).pods =>
                  /\ B[i].pods \in 1..ApplyPerNodeMaxPodsCap(ws[i]).pods
                  /\ \A j \in (i + 1)..n : B[j].pods \in {0, 1, None}
  <2>1. setWorkerSettings(WithImages(ws)).excess = R.excess
    BY DEF R, vs
  <2> QED BY <1>1, <1>3, <1>4, <1>5, <2>1
<1> QED BY <1>5, <1>6, <1>7 DEF B, n

LEMMA AlignZonesIs ==
    ASSUME NEW zones \in Seq(Nat), NEW existing \in Seq(Nat)
    PROVE  LET z == alignWorkerZonesForExtension(zones, existing)
           IN  /\ z \in Seq(Nat) /\ ToSet(z) = ToSet(existing) \cup ToSet(zones)
               /\ Extends(existing, z)
<1>1. CASE zones = existing
  <2>1. alignWorkerZonesForExtension(zones, existing) = existing
    BY <1>1 DEF alignWorkerZonesForExtension
  <2>2. Extends(existing, existing)
    BY DEF Extends
  <2> QED BY <1>1, <2>1, <2>2
<1>2. CASE zones # existing
  <2>1. alignWorkerZonesForExtension(zones, existing) = AppendNew(existing, zones)
    BY <1>2 DEF alignWorkerZonesForExtension
  <2> QED BY <2>1, AppendNewIs
<1> QED BY <1>1, <1>2

LEMMA AlignZonesKept ==
    ASSUME NEW zones \in Seq(Nat), NEW existing \in Seq(Nat), ToSet(zones) \subseteq ToSet(existing)
    PROVE  alignWorkerZonesForExtension(zones, existing) = existing
  BY AppendNewIs DEF alignWorkerZonesForExtension

\* An image stays or gets newer, and what has been aligned stays.
LEMMA AlignImageIs ==
    ASSUME NEW image \in Image, NEW existing \in Image
    PROVE  LET m == alignWorkerMachineImageVersion(image, existing)
           IN  /\ m \in Image
               /\ m.name = existing.name => existing.version <= m.version
               /\ alignWorkerMachineImageVersion(image, m) = m
  BY DEF alignWorkerMachineImageVersion, Image

LEMMA AlignWorkerIs ==
    ASSUME NEW w \in FullPool, NEW e \in ShootPool
    PROVE  LET a == alignWorker(w, e)
           IN  /\ a \in ShootPool /\ a.name = w.name /\ a.pods = w.pods
               /\ a.zones = alignWorkerZonesForExtension(w.zones, e.zones)
               /\ a.image = alignWorkerMachineImageVersion(w.image, e.image)
<1> DEFINE z == alignWorkerZonesForExtension(w.zones, e.zones)
           m == alignWorkerMachineImageVersion(w.image, e.image)
           s == IF w.strategy = None THEN e.strategy ELSE w.strategy
<1>1. w.zones \in Seq(Nat) /\ e.zones \in Seq(Nat) /\ w.image \in Image /\ e.image \in Image
  BY DEF FullPool, ShootPool, Worker
<1>2. z \in Seq(Nat) /\ m \in Image /\ s \in {Strategy}
  BY <1>1, AlignZonesIs, AlignImageIs DEF FullPool, ShootPool, Worker
<1>3. alignWorker(w, e) = [w EXCEPT !.strategy = s, !.zones = z, !.image = m]
  BY DEF alignWorker
<1> HIDE DEF z, m, s
<1>4. /\ [w EXCEPT !.strategy = s, !.zones = z, !.image = m] \in ShootPool
      /\ [w EXCEPT !.strategy = s, !.zones = z, !.image = m].name = w.name
      /\ [w EXCEPT !.strategy = s, !.zones = z, !.image = m].pods = w.pods
      /\ [w EXCEPT !.strategy = s, !.zones = z, !.image = m].zones = z
      /\ [w EXCEPT !.strategy = s, !.zones = z, !.image = m].image = m
  BY <1>2 DEF FullPool, ShootPool, Worker
<1> QED BY <1>3, <1>4 DEF z, m

\* Pools aligned with those of the shoot.
LEMMA AlignedIs ==
    ASSUME NEW B \in Seq(FullPool), NEW sw \in Seq(ShootPool)
    PROVE  LET a == alignWorkersWithGardener(B, sw)
           IN  /\ a \in Seq(FullPool) /\ Len(a) = Len(B)
               /\ \A i \in 1..Len(B) :
                    LET k == IndexByName(sw, B[i].name)
                    IN  /\ a[i].name = B[i].name /\ a[i].pods = B[i].pods
                        /\ k \in 0..Len(sw)
                        /\ k = 0 => a[i] = B[i]
                        /\ k # 0 => /\ a[i] = alignWorker(B[i], sw[k]) /\ a[i] \in ShootPool
                                    /\ sw[k] \in ShootPool /\ sw[k].name = B[i].name
<1> DEFINE a == alignWorkersWithGardener(B, sw)
           n == Len(B)
           k(i) == IndexByName(sw, B[i].name)
           v(i) == IF k(i) = 0 THEN B[i] ELSE alignWorker(B[i], sw[k(i)])
<1>1. n \in Nat /\ \A i \in 1..n : B[i] \in FullPool
  OBVIOUS
<1>2. a = [i \in 1..n |-> v(i)]
  BY DEF alignWorkersWithGardener
<1>3. ASSUME NEW i \in 1..n
      PROVE  /\ v(i).name = B[i].name /\ v(i).pods = B[i].pods
             /\ k(i) \in 0..Len(sw) /\ v(i) \in FullPool
             /\ k(i) = 0 => v(i) = B[i]
             /\ k(i) # 0 => /\ v(i) = alignWorker(B[i], sw[k(i)]) /\ v(i) \in ShootPool
                            /\ sw[k(i)] \in ShootPool /\ sw[k(i)].name = B[i].name
  <2>1. k(i) \in 0..Len(sw) /\ (k(i) # 0 => sw[k(i)].name = B[i].name)
    BY IndexIs
  <2> HIDE DEF k
  <2>2. CASE k(i) = 0
    BY <1>1, <2>1, <2>2
  <2>3. CASE k(i) # 0
    <3>1. sw[k(i)] \in ShootPool /\ B[i] \in FullPool
      BY <1>1, <2>1, <2>3
    <3>2. /\ alignWorker(B[i], sw[k(i)]) \in ShootPool
          /\ alignWorker(B[i], sw[k(i)]).name = B[i].name
          /\ alignWorker(B[i], sw[k(i)]).pods = B[i].pods
      BY <3>1, AlignWorkerIs
    <3> QED BY <2>1, <2>3, <3>1, <3>2, PoolTypes
  <2> QED BY <2>2, <2>3
<1> HIDE DEF k, v, a, n
<1>4. a \in Seq(FullPool) /\ Len(a) = n /\ \A i \in 1..n : a[i] = v(i)
  BY <1>1, <1>2, <1>3
<1> QED BY <1>3, <1>4 DEF a, k, n

LEMMA AdmitIs ==
    ASSUME NEW ws \in Seq(FullPool)
    PROVE  /\ Admit(ws) \in Seq(ShootPool) /\ Len(Admit(ws)) = Len(ws)
           /\ \A i \in 1..Len(ws) :
                /\ Admit(ws)[i].name = ws[i].name /\ Admit(ws)[i].zones = ws[i].zones
                /\ Admit(ws)[i].image = ws[i].image /\ Admit(ws)[i].pods = ws[i].pods
                /\ ws[i] \in ShootPool => Admit(ws)[i] = ws[i]
<1> DEFINE v(w) == [w EXCEPT !.strategy = IF w.strategy = None THEN Strategy ELSE w.strategy]
<1>1. ASSUME NEW w \in FullPool
      PROVE  /\ v(w) \in ShootPool
             /\ v(w).name = w.name /\ v(w).zones = w.zones /\ v(w).image = w.image
             /\ v(w).pods = w.pods /\ (w \in ShootPool => v(w) = w)
  <2>1. None # Strategy
    BY PoolTypes
  <2> QED BY <2>1 DEF FullPool, ShootPool, Worker
<1>2. Admit(ws) = [i \in 1..Len(ws) |-> v(ws[i])]
  BY DEF Admit
<1>3. \A i \in 1..Len(ws) : ws[i] \in FullPool
  OBVIOUS
<1> HIDE DEF v
<1>4. /\ Admit(ws) \in Seq(ShootPool) /\ Len(Admit(ws)) = Len(ws)
      /\ \A i \in 1..Len(ws) : Admit(ws)[i] = v(ws[i])
  BY <1>1, <1>2, <1>3
<1> QED BY <1>1, <1>3, <1>4

\* The pools of a shoot agree with what the Runtime's have become.
Agrees(B, sw) ==
    /\ Len(sw) = Len(B)
    /\ \A i \in 1..Len(B) :
         /\ sw[i].name = B[i].name /\ sw[i].pods = B[i].pods
         /\ ToSet(B[i].zones) \subseteq ToSet(sw[i].zones)
         /\ alignWorkerMachineImageVersion(B[i].image, sw[i].image) = sw[i].image

\* What is agreed on, an alignment leaves as it is.
LEMMA AgreedStays ==
    ASSUME NEW B \in Seq(FullPool), NEW sw \in Seq(ShootPool), NamesDiffer(sw), Agrees(B, sw)
    PROVE  alignWorkersWithGardener(B, sw) = sw
<1> DEFINE a == alignWorkersWithGardener(B, sw)
           n == Len(B)
<1>1. /\ a \in Seq(FullPool) /\ Len(a) = n
      /\ \A i \in 1..n : LET k == IndexByName(sw, B[i].name)
                         IN  k # 0 => a[i] = alignWorker(B[i], sw[k])
  BY AlignedIs
<1>2. n \in Nat /\ Len(sw) = n /\ \A i \in 1..n : B[i] \in FullPool /\ sw[i] \in ShootPool
  BY DEF Agrees
<1> HIDE DEF a
<1>3. ASSUME NEW i \in 1..n PROVE a[i] = sw[i]
  <2>1. IndexByName(sw, B[i].name) = i
    BY <1>2, IndexIs DEF Agrees
  <2>2. a[i] = alignWorker(B[i], sw[i])
    BY <1>1, <1>2, <2>1
  <2> DEFINE w == B[i]
             e == sw[i]
  <2>3. /\ w \in FullPool /\ e \in ShootPool /\ e.name = w.name /\ e.pods = w.pods
        /\ ToSet(w.zones) \subseteq ToSet(e.zones)
        /\ alignWorkerMachineImageVersion(w.image, e.image) = e.image
    BY <1>2 DEF Agrees
  <2> HIDE DEF w, e
  <2>4. w.zones \in Seq(Nat) /\ e.zones \in Seq(Nat)
    BY <2>3 DEF FullPool, ShootPool, Worker
  <2>5. alignWorkerZonesForExtension(w.zones, e.zones) = e.zones
    BY <2>3, <2>4, AlignZonesKept
  <2>6. /\ alignWorker(w, e) \in ShootPool /\ alignWorker(w, e).name = e.name
        /\ alignWorker(w, e).pods = e.pods /\ alignWorker(w, e).zones = e.zones
        /\ alignWorker(w, e).image = e.image
    BY <2>3, <2>5, AlignWorkerIs
  <2> DEFINE v == alignWorker(w, e)
  <2>7. v = e
    <3>1. v \in ShootPool /\ v.name = e.name /\ v.pods = e.pods /\ v.zones = e.zones /\ v.image = e.image
      BY <2>6
    <3>2. v.strategy = e.strategy
      BY <2>3, <3>1, PoolTypes
    <3> HIDE DEF v
    <3>3. ASSUME NEW u \in ShootPool
          PROVE  u = [name |-> u.name, zones |-> u.zones, image |-> u.image, pods |-> u.pods,
                      strategy |-> u.strategy]
      BY DEF ShootPool, Worker
    <3>4. v = [name |-> v.name, zones |-> v.zones, image |-> v.image, pods |-> v.pods,
               strategy |-> v.strategy]
      BY <3>1, <3>3
    <3>5. e = [name |-> e.name, zones |-> e.zones, image |-> e.image, pods |-> e.pods,
               strategy |-> e.strategy]
      BY <2>3, <3>3
    <3> QED BY <3>1, <3>2, <3>4, <3>5
  <2> QED BY <2>2, <2>7 DEF w, e
<1>4. a = sw
  <2> HIDE DEF n
  <2>1. DOMAIN a = 1..n /\ DOMAIN sw = 1..n
    BY <1>1, <1>2
  <2> QED BY <1>1, <1>2, <1>3, <2>1
<1> QED BY <1>4 DEF a

\* An alignment brings agreement.
LEMMA AlignedAgrees ==
    ASSUME NEW B \in Seq(FullPool), NEW sw \in Seq(ShootPool)
    PROVE  Agrees(B, Admit(alignWorkersWithGardener(B, sw)))
<1> DEFINE a == alignWorkersWithGardener(B, sw)
           n == Len(B)
           t == Admit(a)
<1>1. /\ a \in Seq(FullPool) /\ Len(a) = n
      /\ \A i \in 1..n : LET k == IndexByName(sw, B[i].name)
                         IN  /\ a[i].name = B[i].name /\ a[i].pods = B[i].pods
                             /\ k = 0 => a[i] = B[i]
                             /\ k # 0 => a[i] = alignWorker(B[i], sw[k]) /\ sw[k] \in ShootPool
  BY AlignedIs
<1> HIDE DEF a
<1>2. /\ t \in Seq(ShootPool) /\ Len(t) = Len(a)
      /\ \A i \in 1..Len(a) : /\ t[i].name = a[i].name /\ t[i].zones = a[i].zones
                              /\ t[i].image = a[i].image /\ t[i].pods = a[i].pods
  BY <1>1, AdmitIs
<1>3. n \in Nat /\ \A i \in 1..n : B[i] \in FullPool
  OBVIOUS
<1> HIDE DEF t, n
<1>4. ASSUME NEW i \in 1..n
      PROVE  /\ ToSet(B[i].zones) \subseteq ToSet(a[i].zones)
             /\ alignWorkerMachineImageVersion(B[i].image, a[i].image) = a[i].image
  <2> DEFINE k == IndexByName(sw, B[i].name)
             w == B[i]
             e == sw[k]
  <2>1. w \in FullPool
    BY <1>3
  <2>2. w.zones \in Seq(Nat) /\ w.image \in Image
    BY <2>1 DEF FullPool, Worker
  <2>3. CASE k = 0
    <3>1. a[i] = w
      BY <1>1, <2>3
    <3>2. alignWorkerMachineImageVersion(w.image, w.image) = w.image
      BY DEF alignWorkerMachineImageVersion
    <3> QED BY <3>1, <3>2
  <2>4. CASE k # 0
    <3>1. a[i] = alignWorker(w, e) /\ e \in ShootPool
      BY <1>1, <2>4
    <3> HIDE DEF w, e, k
    <3>2. /\ a[i].zones = alignWorkerZonesForExtension(w.zones, e.zones)
          /\ a[i].image = alignWorkerMachineImageVersion(w.image, e.image)
      BY <2>1, <3>1, AlignWorkerIs
    <3>3. e.zones \in Seq(Nat) /\ e.image \in Image
      BY <3>1 DEF ShootPool, Worker
    <3>4. /\ ToSet(w.zones) \subseteq ToSet(a[i].zones)
          /\ alignWorkerMachineImageVersion(w.image, a[i].image) = a[i].image
      BY <2>2, <3>2, <3>3, AlignZonesIs, AlignImageIs
    <3> QED BY <3>4 DEF w
  <2> QED BY <2>3, <2>4
<1> QED BY <1>1, <1>2, <1>4 DEF Agrees, t, n, a

-----------------------------------------------------------------------------
(* The extensions (newExtensionsExtender, mergeExtension, server-side apply).*)

ExtensionTypes == Known \cup {"foreign"}

ExtensionType == [type: ExtensionTypes, enabled: BOOLEAN, config: Nat]

TypesDiffer(list) == \A i, j \in 1..Len(list) : list[i].type = list[j].type => i = j

WellFormed(list) == list \in Seq(ExtensionType) /\ TypesDiffer(list)

LEMMA NoExtensionIs ==
    /\ NoExtension \notin ExtensionType
    /\ NoExtension.type = "" /\ NoExtension.enabled = FALSE /\ NoExtension.config = 0
    /\ \A t, on, c : /\ Extension(t, on, c).type = t /\ Extension(t, on, c).enabled = on
                     /\ Extension(t, on, c).config = c
    /\ \A t \in ExtensionTypes, on \in BOOLEAN, c \in Nat : Extension(t, on, c) \in ExtensionType
  BY DEF NoExtension, Extension, ExtensionType, ExtensionTypes, Known

LEMMA FindIs ==
    ASSUME NEW list, WellFormed(list), NEW t
    PROVE  /\ Find(list, t) \in 0..Len(list)
           /\ Find(list, t) # 0 => /\ list[Find(list, t)].type = t
                                   /\ list[Find(list, t)] \in ExtensionType
           /\ Find(list, t) = 0 => \A i \in 1..Len(list) : list[i].type # t
           /\ \A i \in 1..Len(list) : list[i].type = t => Find(list, t) = i
<1>1. Len(list) \in Nat /\ \A i \in 1..Len(list) : list[i] \in ExtensionType
  BY DEF WellFormed
<1>2. CASE \E i \in 1..Len(list) : list[i].type = t
  <2>1. PICK i \in 1..Len(list) : list[i].type = t
    BY <1>2
  <2>2. \A j \in 1..(i - 1) : list[j].type # t
    BY <1>1, <2>1 DEF WellFormed, TypesDiffer
  <2>3. \E k \in 1..Len(list) : list[k].type = t /\ \A j \in 1..(k - 1) : list[j].type # t
    BY <2>1, <2>2
  <2>4. Find(list, t) = CHOOSE k \in 1..Len(list) :
                          list[k].type = t /\ \A j \in 1..(k - 1) : list[j].type # t
    BY <1>2 DEF Find
  <2>5. Find(list, t) \in 1..Len(list) /\ list[Find(list, t)].type = t
    BY <2>3, <2>4
  <2>6. \A k \in 1..Len(list) : list[k].type = t => Find(list, t) = k
    BY <2>5 DEF WellFormed, TypesDiffer
  <2> QED BY <1>1, <2>5, <2>6
<1>3. CASE ~\E i \in 1..Len(list) : list[i].type = t
  <2>1. Find(list, t) = 0
    BY <1>3 DEF Find
  <2> QED BY <1>1, <1>3, <2>1
<1> QED BY <1>2, <1>3

LEMMA LookIs ==
    ASSUME NEW list, WellFormed(list), NEW t
    PROVE  /\ existingExtension(list, t) = NoExtension <=> Find(list, t) = 0
           /\ existingExtension(list, t) # NoExtension =>
                /\ existingExtension(list, t).type = t /\ existingExtension(list, t) \in ExtensionType
                /\ existingExtension(list, t) = list[Find(list, t)]
           /\ existingExtension(list, t) = NoExtension =>
                \A i \in 1..Len(list) : list[i].type # t
           /\ \A i \in 1..Len(list) : list[i].type = t => existingExtension(list, t) = list[i]
<1>1. CASE Find(list, t) = 0
  <2>1. existingExtension(list, t) = NoExtension
    BY <1>1 DEF existingExtension
  <2> QED BY <1>1, <2>1, FindIs
<1>2. CASE Find(list, t) # 0
  <2>1. existingExtension(list, t) = list[Find(list, t)]
    BY <1>2 DEF existingExtension
  <2>2. existingExtension(list, t) # NoExtension
    <3>1. list[Find(list, t)] \in ExtensionType
      BY <1>2, FindIs
    <3> QED BY <2>1, <3>1, NoExtensionIs
  <2> QED BY <1>2, <2>1, <2>2, FindIs
<1> QED BY <1>1, <1>2

\* What one round of the loop in newExtensionsExtender does to the extension of any type.
AfterMerge(list, t, ext, remove, u) ==
    IF u # t THEN existingExtension(list, u)
    ELSE IF ext # NoExtension THEN ext
    ELSE IF remove THEN NoExtension ELSE existingExtension(list, t)

Mergeable(ext, t) == ext = NoExtension \/ (ext \in ExtensionType /\ ext.type = t)

LEMMA LookAt ==
    ASSUME NEW list, WellFormed(list), NEW i \in 1..Len(list)
    PROVE  existingExtension(list, list[i].type) = list[i]
  BY LookIs

LEMMA LookNone ==
    ASSUME NEW list, NEW u, \A i \in 1..Len(list) : list[i].type # u
    PROVE  existingExtension(list, u) = NoExtension
<1>1. Find(list, u) = 0
  BY DEF Find
<1> QED BY <1>1 DEF existingExtension

LEMMA MergeIs ==
    ASSUME NEW list, WellFormed(list), NEW t, NEW ext, Mergeable(ext, t), NEW remove \in BOOLEAN
    PROVE  LET m == mergeExtension(list, t, ext, remove)
           IN  /\ WellFormed(m)
               /\ \A u : existingExtension(m, u) = AfterMerge(list, t, ext, remove, u)
               /\ AfterMerge(list, t, ext, remove, t) = existingExtension(list, t) => m = list
<1> DEFINE m == mergeExtension(list, t, ext, remove)
           k == Find(list, t)
           n == Len(list)
           now(u) == AfterMerge(list, t, ext, remove, u)
<1>1. /\ n \in Nat /\ list \in Seq(ExtensionType) /\ TypesDiffer(list)
      /\ \A i \in 1..n : list[i] \in ExtensionType
  BY DEF WellFormed
<1>2. /\ k \in 0..n /\ (k # 0 => list[k].type = t)
      /\ \A i \in 1..n : list[i].type = t => i = k
  BY FindIs
<1>0. /\ ext # NoExtension /\ k = 0 => m = Append(list, ext)
      /\ ext # NoExtension /\ k # 0 => m = ReplaceAt(list, k, ext)
      /\ ext = NoExtension /\ remove /\ k # 0 => m = RemoveAt(list, k)
      /\ ext = NoExtension /\ ~(remove /\ k # 0) => m = list
  <2>1. m = mergeAt(list, k, ext, remove)
    BY DEF mergeExtension
  <2> QED BY <2>1 DEF mergeAt
<1>9. ext # NoExtension => ext \in ExtensionType /\ ext.type = t
  BY DEF Mergeable
<1> HIDE DEF k, n, m
<1>3. ASSUME NEW u PROVE \A i \in 1..n : list[i].type = u => existingExtension(list, u) = list[i]
  BY LookIs DEF n
<1>4. ASSUME NEW u, \A i \in 1..n : list[i].type # u PROVE existingExtension(list, u) = NoExtension
  BY <1>4, LookNone DEF n
<1>5. CASE ext # NoExtension /\ k = 0
  <2>1. m = Append(list, ext) /\ ext \in ExtensionType /\ ext.type = t
    BY <1>0, <1>9, <1>5
  <2>2. /\ m \in Seq(ExtensionType) /\ Len(m) = n + 1 /\ m[n + 1] = ext
        /\ \A i \in 1..n : m[i] = list[i]
    BY <1>1, <2>1 DEF n
  <2>3. \A i \in 1..n : list[i].type # t
    BY <1>1, <1>2, <1>5
  <2>4. \A i \in 1..(n + 1) : i \in 1..n \/ i = n + 1
    BY <1>1
  <2>5. WellFormed(m)
    BY <1>1, <2>1, <2>2, <2>3, <2>4 DEF WellFormed, TypesDiffer, n
  <2>6. ASSUME NEW u PROVE existingExtension(m, u) = now(u)
    <3>1. CASE u = t
      <4>1. n + 1 \in 1..Len(m) /\ m[n + 1].type = u /\ now(u) = m[n + 1]
        BY <1>1, <1>5, <2>1, <2>2, <3>1 DEF AfterMerge
      <4> HIDE DEF now
      <4> QED BY <2>5, <4>1, LookAt
    <3>2. CASE u # t
      <4>1. now(u) = existingExtension(list, u)
        BY <3>2 DEF AfterMerge
      <4>2. CASE \E i \in 1..n : list[i].type = u
        <5>1. PICK i \in 1..n : list[i].type = u
          BY <4>2
        <5>2. i \in 1..Len(m) /\ m[i].type = u /\ now(u) = m[i]
          BY <1>1, <1>3, <2>2, <4>1, <5>1
        <5> HIDE DEF now
        <5> QED BY <2>5, <5>2, LookAt
      <4>3. CASE \A i \in 1..n : list[i].type # u
        <5>1. now(u) = NoExtension
          BY <1>4, <4>1, <4>3
        <5>2. \A i \in 1..Len(m) : m[i].type # u
          BY <2>1, <2>2, <2>4, <3>2, <4>3
        <5> HIDE DEF now
        <5> QED BY <2>5, <5>1, <5>2, LookNone
      <4> QED BY <4>2, <4>3
    <3> QED BY <3>1, <3>2
  <2>7. now(t) # existingExtension(list, t)
    BY <1>4, <1>5, <2>3 DEF AfterMerge
  <2> QED BY <2>5, <2>6, <2>7 DEF m
<1>6. CASE ext # NoExtension /\ k # 0
  <2>1. m = [list EXCEPT ![k] = ext] /\ ext \in ExtensionType /\ ext.type = t /\ k \in 1..n
    BY <1>0, <1>9, <1>1, <1>2, <1>6 DEF ReplaceAt
  <2>2. /\ m \in Seq(ExtensionType) /\ Len(m) = n /\ m[k] = ext
        /\ \A i \in 1..n : i # k => m[i] = list[i]
    BY <1>1, <2>1 DEF n
  <2>3. \A i \in 1..n : m[i].type = list[i].type
    BY <1>2, <1>6, <2>1, <2>2
  <2>5. WellFormed(m)
    BY <1>1, <2>2, <2>3 DEF WellFormed, TypesDiffer, n
  <2>6. ASSUME NEW u PROVE existingExtension(m, u) = now(u)
    <3>1. CASE u = t
      <4>1. k \in 1..Len(m) /\ m[k].type = u /\ now(u) = m[k]
        BY <1>6, <2>1, <2>2, <3>1 DEF AfterMerge
      <4> HIDE DEF now
      <4> QED BY <2>5, <4>1, LookAt
    <3>2. CASE u # t
      <4>1. now(u) = existingExtension(list, u)
        BY <3>2 DEF AfterMerge
      <4>2. CASE \E i \in 1..n : list[i].type = u
        <5>1. PICK i \in 1..n : list[i].type = u
          BY <4>2
        <5>2. i \in 1..Len(m) /\ m[i].type = u /\ now(u) = m[i]
          BY <1>2, <1>3, <1>6, <2>2, <2>3, <3>2, <4>1, <5>1
        <5> HIDE DEF now
        <5> QED BY <2>5, <5>2, LookAt
      <4>3. CASE \A i \in 1..n : list[i].type # u
        <5>1. now(u) = NoExtension
          BY <1>4, <4>1, <4>3
        <5>2. \A i \in 1..Len(m) : m[i].type # u
          BY <2>2, <2>3, <4>3
        <5> HIDE DEF now
        <5> QED BY <2>5, <5>1, <5>2, LookNone
      <4> QED BY <4>2, <4>3
    <3> QED BY <3>1, <3>2
  <2>7. now(t) = existingExtension(list, t) => m = list
    <3>1. existingExtension(list, t) = list[k]
      BY <1>2, <1>3, <1>6, <2>1
    <3>2. now(t) = ext
      BY <1>6 DEF AfterMerge
    <3> HIDE DEF now
    <3> QED BY <1>1, <2>1, <3>1, <3>2
  <2> QED BY <2>5, <2>6, <2>7 DEF m
<1>7. CASE ext = NoExtension /\ remove /\ k # 0
  <2>1. m = RemoveAt(list, k) /\ k \in 1..n
    BY <1>0, <1>1, <1>2, <1>7
  <2>2. /\ m \in Seq(ExtensionType) /\ Len(m) = n - 1
        /\ \A i \in 1..(n - 1) : m[i] = IF i < k THEN list[i] ELSE list[i + 1]
    BY <1>1, <2>1, RemoveAtIs DEF n
  <2> DEFINE old(i) == IF i < k THEN i ELSE i + 1
  <2>3. \A i \in 1..(n - 1) : old(i) \in 1..n /\ old(i) # k /\ m[i] = list[old(i)]
    BY <1>1, <2>1, <2>2
  <2>4. \A i, j \in 1..(n - 1) : old(i) = old(j) => i = j
    BY <1>1, <2>1
  <2>5. \A i \in 1..n : i # k => \E j \in 1..(n - 1) : old(j) = i
    <3> TAKE i \in 1..n
    <3> HAVE i # k
    <3>1. i < k => i \in 1..(n - 1) /\ old(i) = i
      BY <1>1, <2>1
    <3>2. i > k => i - 1 \in 1..(n - 1) /\ old(i - 1) = i
      BY <1>1, <2>1
    <3> HIDE DEF old
    <3> QED BY <2>1, <3>1, <3>2
  <2> HIDE DEF old
  <2>6. WellFormed(m)
    BY <1>1, <2>2, <2>3, <2>4 DEF WellFormed, TypesDiffer, n
  <2>7. \A i \in 1..Len(m) : m[i].type # t
    BY <1>2, <2>2, <2>3
  <2>8. ASSUME NEW u PROVE existingExtension(m, u) = now(u)
    <3>1. CASE u = t
      <4>1. now(u) = NoExtension
        BY <1>7, <3>1 DEF AfterMerge
      <4> HIDE DEF now
      <4> QED BY <2>7, <3>1, <4>1, LookNone
    <3>2. CASE u # t
      <4>1. now(u) = existingExtension(list, u)
        BY <3>2 DEF AfterMerge
      <4>2. CASE \E i \in 1..n : list[i].type = u
        <5>1. PICK i \in 1..n : list[i].type = u
          BY <4>2
        <5>2. PICK j \in 1..(n - 1) : old(j) = i
          BY <1>2, <1>7, <2>5, <3>2, <5>1
        <5>3. j \in 1..Len(m) /\ m[j].type = u /\ now(u) = m[j]
          BY <1>3, <2>2, <2>3, <4>1, <5>1, <5>2
        <5> HIDE DEF now
        <5> QED BY <2>6, <5>3, LookAt
      <4>3. CASE \A i \in 1..n : list[i].type # u
        <5>1. now(u) = NoExtension
          BY <1>4, <4>1, <4>3
        <5>2. \A i \in 1..Len(m) : m[i].type # u
          BY <2>2, <2>3, <4>3
        <5> HIDE DEF now
        <5> QED BY <2>6, <5>1, <5>2, LookNone
      <4> QED BY <4>2, <4>3
    <3> QED BY <3>1, <3>2
  <2>9. now(t) # existingExtension(list, t)
    <3>1. existingExtension(list, t) = list[k] /\ list[k] \in ExtensionType
      BY <1>1, <1>2, <1>3, <1>7, <2>1
    <3>2. now(t) = NoExtension
      BY <1>7 DEF AfterMerge
    <3> QED BY <3>1, <3>2, NoExtensionIs
  <2> QED BY <2>6, <2>8, <2>9 DEF m
<1>8. CASE ext = NoExtension /\ ~(remove /\ k # 0)
  <2>1. m = list
    BY <1>0, <1>8
  <2>2. ASSUME NEW u PROVE existingExtension(list, u) = now(u)
    <3>1. CASE u = t /\ remove
      <4>1. \A i \in 1..n : list[i].type # t
        BY <1>1, <1>2, <1>8, <3>1
      <4> QED BY <1>4, <1>8, <3>1, <4>1 DEF AfterMerge
    <3>2. CASE ~(u = t /\ remove)
      BY <1>8, <3>2 DEF AfterMerge
    <3> QED BY <3>1, <3>2
  <2> HIDE DEF now
  <2>3. WellFormed(m) /\ \A u : existingExtension(m, u) = now(u)
    BY <2>1, <2>2
  <2> QED BY <2>1, <2>3 DEF now, m
<1> QED BY <1>5, <1>6, <1>7, <1>8

Want == [egress: BOOLEAN, ingress: BOOLEAN, acl: BOOLEAN, nvidia: BOOLEAN,
         caches: 0..1, audit: 0..2, version: 0..MaxVersion]

\* What a patch makes of the extension of a type, x if the shoot has one.
Patched(provider, w, t, x) ==
    CASE t = "auditlog" -> (IF w.audit = 0 THEN x ELSE NewAuditLogExtension(w))
      [] t = "filter" -> (IF FilterGlobal THEN NewNetworkFilterExtension(w) ELSE x)
      [] t = "dns" -> (IF x # NoExtension /\ x.config = 0 THEN x ELSE buildDNSExtension)
      [] t = "registry-cache" -> NewRegistryCacheExtension(w)
      [] t = "acl" -> (IF AclNeedsToBeEnabled(provider, w) THEN NewApiServerACLExtension(TRUE)
                       ELSE IF x = NoExtension THEN NoExtension
                       ELSE NewApiServerACLExtension(FALSE))
      [] t = "nvidia" -> (IF w.nvidia THEN Extension("nvidia", TRUE, 0)
                          ELSE IF x = NoExtension THEN NoExtension
                          ELSE Extension("nvidia", FALSE, 0))
      [] OTHER -> x

LEMMA EntriesAre ==
    ASSUME NEW provider, NEW w \in Want
    PROVE  /\ Mergeable(NewAuditLogExtension(w), "auditlog")
           /\ Mergeable(NewNetworkFilterExtension(w), "filter")
           /\ Mergeable(buildDNSExtension, "dns") /\ buildDNSExtension # NoExtension
           /\ Mergeable(NewRegistryCacheExtension(w), "registry-cache")
           /\ Mergeable(NewApiServerACLExtension(TRUE), "acl")
           /\ Mergeable(NewApiServerACLExtension(FALSE), "acl")
           /\ Mergeable(Extension("nvidia", TRUE, 0), "nvidia")
           /\ Mergeable(Extension("nvidia", FALSE, 0), "nvidia")
           /\ Mergeable(Extension("cert", TRUE, 0), "cert")
           /\ Mergeable(Extension("oidc", TRUE, 0), "oidc")
<1>1. /\ w.egress \in BOOLEAN /\ w.ingress \in BOOLEAN /\ w.audit \in Nat /\ w.caches \in Nat
      /\ {"auditlog", "filter", "dns", "registry-cache", "acl", "nvidia", "cert", "oidc"}
           \subseteq ExtensionTypes
  BY DEF Want, ExtensionTypes, Known
<1>2. \A t \in ExtensionTypes, on \in BOOLEAN, c \in Nat : Mergeable(Extension(t, on, c), t)
  BY NoExtensionIs DEF Mergeable
<1>3. \A t : Mergeable(NoExtension, t)
  BY DEF Mergeable
<1>4. Mergeable(NewAuditLogExtension(w), "auditlog")
  BY <1>1, <1>2, <1>3 DEF NewAuditLogExtension
<1>5. Mergeable(NewNetworkFilterExtension(w), "filter")
  BY <1>1, <1>2, <1>3 DEF NewNetworkFilterExtension
<1>6. Mergeable(buildDNSExtension, "dns") /\ buildDNSExtension # NoExtension
  <2>1. Mergeable(buildDNSExtension, "dns")
    BY <1>1, <1>2 DEF buildDNSExtension
  <2>2. buildDNSExtension # NoExtension
    BY DEF buildDNSExtension, NoExtension, Extension
  <2> QED BY <2>1, <2>2
<1>7. Mergeable(NewRegistryCacheExtension(w), "registry-cache")
  BY <1>1, <1>2, <1>3 DEF NewRegistryCacheExtension
<1>8. Mergeable(NewApiServerACLExtension(TRUE), "acl") /\ Mergeable(NewApiServerACLExtension(FALSE), "acl")
  BY <1>1, <1>2 DEF NewApiServerACLExtension
<1> QED BY <1>1, <1>2, <1>4, <1>5, <1>6, <1>7, <1>8

LEMMA Round ==
    ASSUME NEW list, WellFormed(list), NEW t, NEW ext, Mergeable(ext, t), NEW remove \in BOOLEAN,
           NEW p,
           p = IF ext # NoExtension THEN ext
               ELSE IF remove THEN NoExtension ELSE existingExtension(list, t)
    PROVE  LET m == mergeExtension(list, t, ext, remove)
           IN  /\ WellFormed(m)
               /\ \A u : existingExtension(m, u) = IF u = t THEN p ELSE existingExtension(list, u)
               /\ p = existingExtension(list, t) => m = list
<1> DEFINE m == mergeExtension(list, t, ext, remove)
<1>1. /\ WellFormed(m)
      /\ \A u : existingExtension(m, u) = AfterMerge(list, t, ext, remove, u)
      /\ AfterMerge(list, t, ext, remove, t) = existingExtension(list, t) => m = list
  BY MergeIs
<1>2. \A u : AfterMerge(list, t, ext, remove, u) = IF u = t THEN p ELSE existingExtension(list, u)
  BY DEF AfterMerge
<1> HIDE DEF m
<1> QED BY <1>1, <1>2 DEF m

\* Every extension is computed from what the shoot has of its type, and a list in
\* which that changes nothing is left as it is (newExtensionsExtender).
LEMMA ForPatchIs ==
    ASSUME NEW provider, NEW w \in Want, NEW list, WellFormed(list)
    PROVE  LET m == ExtensionsForPatch(provider, w, list)
           IN  /\ WellFormed(m)
               /\ \A u : existingExtension(m, u)
                           = Patched(provider, w, u, existingExtension(list, u))
               /\ (\A u : Patched(provider, w, u, existingExtension(list, u))
                            = existingExtension(list, u)) => m = list
<1> DEFINE L(l, u) == existingExtension(l, u)
           P(u) == Patched(provider, w, u, L(list, u))
           e1 == NewAuditLogExtension(w)
           l1 == mergeExtension(list, "auditlog", e1, FALSE)
           e2 == NewNetworkFilterExtension(w)
           l2 == mergeExtension(l1, "filter", e2, FALSE)
           e3 == dnsExtensionForPatch(l2)
           l3 == mergeExtension(l2, "dns", e3, FALSE)
           e4 == NewRegistryCacheExtension(w)
           l4 == mergeExtension(l3, "registry-cache", e4, TRUE)
           e5 == aclForPatch(provider, w, l4)
           l5 == mergeExtension(l4, "acl", e5, FALSE)
           e6 == nvidiaForPatch(w, l5)
           l6 == mergeExtension(l5, "nvidia", e6, FALSE)
<1>0. ExtensionsForPatch(provider, w, list) = l6
  BY DEF ExtensionsForPatch
<1> HIDE DEF l1, l2, l3, l4, l5, l6, L
<1>1. /\ WellFormed(l1)
      /\ \A u : L(l1, u) = IF u = "auditlog" THEN P(u) ELSE L(list, u)
      /\ P("auditlog") = L(list, "auditlog") => l1 = list
  <2>3. Mergeable(e1, "auditlog")
    BY EntriesAre
  <2>4. P("auditlog") = IF e1 # NoExtension THEN e1 ELSE L(list, "auditlog")
    BY DEF Patched, NewAuditLogExtension, NoExtension, Extension, L
  <2>5. P("auditlog") = IF e1 # NoExtension THEN e1
                  ELSE IF FALSE THEN NoExtension ELSE L(list, "auditlog")
    BY <2>4
  <2> HIDE DEF P, e1
  <2>6. /\ WellFormed(l1)
        /\ \A u : L(l1, u) = IF u = "auditlog" THEN P("auditlog") ELSE L(list, u)
        /\ P("auditlog") = L(list, "auditlog") => l1 = list
    BY <2>3, <2>5, Round DEF l1, L
  <2> QED BY <2>6
<1>2. /\ WellFormed(l2)
      /\ \A u : L(l2, u) = IF u = "filter" THEN P(u) ELSE L(l1, u)
      /\ P("filter") = L(l1, "filter") => l2 = l1
  <2>0. WellFormed(l1) /\ L(l1, "filter") = L(list, "filter")
    BY <1>1
  <2>3. Mergeable(e2, "filter")
    BY EntriesAre
  <2>4. P("filter") = IF e2 # NoExtension THEN e2 ELSE L(l1, "filter")
    BY <2>0 DEF Patched, NewNetworkFilterExtension, NoExtension, Extension, L
  <2>5. P("filter") = IF e2 # NoExtension THEN e2
                  ELSE IF FALSE THEN NoExtension ELSE L(l1, "filter")
    BY <2>0, <2>4
  <2> HIDE DEF P, e2
  <2>6. /\ WellFormed(l2)
        /\ \A u : L(l2, u) = IF u = "filter" THEN P("filter") ELSE L(l1, u)
        /\ P("filter") = L(l1, "filter") => l2 = l1
    BY <2>0, <2>3, <2>5, Round DEF l2, L
  <2> QED BY <2>6
<1>3. /\ WellFormed(l3)
      /\ \A u : L(l3, u) = IF u = "dns" THEN P(u) ELSE L(l2, u)
      /\ P("dns") = L(l2, "dns") => l3 = l2
  <2>0. WellFormed(l2) /\ L(l2, "dns") = L(list, "dns")
    BY <1>1, <1>2
  <2>1. Find(l2, "dns") = 0 <=> L(l2, "dns") = NoExtension
    BY <2>0, LookIs DEF L
  <2>2. L(l2, "dns") # NoExtension => L(l2, "dns") \in ExtensionType /\ L(l2, "dns").type = "dns"
    BY <2>0, LookIs DEF L
  <2>3. Mergeable(e3, "dns")
    BY <2>1, <2>2, EntriesAre DEF dnsExtensionForPatch, Mergeable, L
  <2>4. P("dns") = e3 /\ e3 # NoExtension
    BY <2>0, <2>1, EntriesAre DEF Patched, dnsExtensionForPatch, L
  <2>5. P("dns") = IF e3 # NoExtension THEN e3
                  ELSE IF FALSE THEN NoExtension ELSE L(l2, "dns")
    BY <2>0, <2>4
  <2> HIDE DEF P, e3
  <2>6. /\ WellFormed(l3)
        /\ \A u : L(l3, u) = IF u = "dns" THEN P("dns") ELSE L(l2, u)
        /\ P("dns") = L(l2, "dns") => l3 = l2
    BY <2>0, <2>3, <2>5, Round DEF l3, L
  <2> QED BY <2>6
<1>4. /\ WellFormed(l4)
      /\ \A u : L(l4, u) = IF u = "registry-cache" THEN P(u) ELSE L(l3, u)
      /\ P("registry-cache") = L(l3, "registry-cache") => l4 = l3
  <2>0. WellFormed(l3) /\ L(l3, "registry-cache") = L(list, "registry-cache")
    BY <1>1, <1>2, <1>3
  <2>3. Mergeable(e4, "registry-cache")
    BY EntriesAre
  <2>4. P("registry-cache") = e4
    BY DEF Patched
  <2>5. P("registry-cache") = IF e4 # NoExtension THEN e4
                  ELSE IF TRUE THEN NoExtension ELSE L(l3, "registry-cache")
    BY <2>0, <2>4
  <2> HIDE DEF P, e4
  <2>6. /\ WellFormed(l4)
        /\ \A u : L(l4, u) = IF u = "registry-cache" THEN P("registry-cache") ELSE L(l3, u)
        /\ P("registry-cache") = L(l3, "registry-cache") => l4 = l3
    BY <2>0, <2>3, <2>5, Round DEF l4, L
  <2> QED BY <2>6
<1>5. /\ WellFormed(l5)
      /\ \A u : L(l5, u) = IF u = "acl" THEN P(u) ELSE L(l4, u)
      /\ P("acl") = L(l4, "acl") => l5 = l4
  <2>0. WellFormed(l4) /\ L(l4, "acl") = L(list, "acl")
    BY <1>1, <1>2, <1>3, <1>4
  <2>1. Find(l4, "acl") = 0 <=> L(l4, "acl") = NoExtension
    BY <2>0, LookIs DEF L
  <2>3. Mergeable(e5, "acl")
    BY EntriesAre DEF aclForPatch, Mergeable
  <2>4. P("acl") = e5 /\ (e5 = NoExtension => L(l4, "acl") = NoExtension)
    <3>1. P("acl") = e5
      BY <2>0, <2>1 DEF Patched, aclForPatch, L
    <3>2. e5 = NoExtension => Find(l4, "acl") = 0
      BY DEF aclForPatch, NewApiServerACLExtension, NoExtension, Extension
    <3> QED BY <2>1, <3>1, <3>2
  <2>5. P("acl") = IF e5 # NoExtension THEN e5
                  ELSE IF FALSE THEN NoExtension ELSE L(l4, "acl")
    BY <2>0, <2>4
  <2> HIDE DEF P, e5
  <2>6. /\ WellFormed(l5)
        /\ \A u : L(l5, u) = IF u = "acl" THEN P("acl") ELSE L(l4, u)
        /\ P("acl") = L(l4, "acl") => l5 = l4
    BY <2>0, <2>3, <2>5, Round DEF l5, L
  <2> QED BY <2>6
<1>6. /\ WellFormed(l6)
      /\ \A u : L(l6, u) = IF u = "nvidia" THEN P(u) ELSE L(l5, u)
      /\ P("nvidia") = L(l5, "nvidia") => l6 = l5
  <2>0. WellFormed(l5) /\ L(l5, "nvidia") = L(list, "nvidia")
    BY <1>1, <1>2, <1>3, <1>4, <1>5
  <2>1. Find(l5, "nvidia") = 0 <=> L(l5, "nvidia") = NoExtension
    BY <2>0, LookIs DEF L
  <2>3. Mergeable(e6, "nvidia")
    BY EntriesAre DEF nvidiaForPatch, Mergeable
  <2>4. P("nvidia") = e6 /\ (e6 = NoExtension => L(l5, "nvidia") = NoExtension)
    <3>1. P("nvidia") = e6
      BY <2>0, <2>1 DEF Patched, nvidiaForPatch, L
    <3>2. e6 = NoExtension => Find(l5, "nvidia") = 0
      BY DEF nvidiaForPatch, NoExtension, Extension
    <3> QED BY <2>1, <3>1, <3>2
  <2>5. P("nvidia") = IF e6 # NoExtension THEN e6
                  ELSE IF FALSE THEN NoExtension ELSE L(l5, "nvidia")
    BY <2>0, <2>4
  <2> HIDE DEF P, e6
  <2>6. /\ WellFormed(l6)
        /\ \A u : L(l6, u) = IF u = "nvidia" THEN P("nvidia") ELSE L(l5, u)
        /\ P("nvidia") = L(l5, "nvidia") => l6 = l5
    BY <2>0, <2>3, <2>5, Round DEF l6, L
  <2> QED BY <2>6
<1>7. \A u : L(l6, u) = P(u)
  <2>1. \A u : u \notin {"auditlog", "filter", "dns", "registry-cache", "acl", "nvidia"}
               => P(u) = L(list, u)
    BY DEF Patched
  <2> HIDE DEF P
  <2> QED BY <1>1, <1>2, <1>3, <1>4, <1>5, <1>6, <2>1
<1>8. (\A u : P(u) = L(list, u)) => l6 = list
  <2> HIDE DEF P
  <2> QED BY <1>1, <1>2, <1>3, <1>4, <1>5, <1>6
<1> QED BY <1>0, <1>6, <1>7, <1>8 DEF L

\* An apply of a list of extensions to the one that is there.
ApplyOn(list, exts) == FoldLeft(LAMBDA l, e : mergeExtension(l, e.type, e, FALSE), list, exts)

Lists == {l \in Seq(ExtensionType) : TypesDiffer(l)}

LEMMA ListsAre == \A l : WellFormed(l) <=> l \in Lists
  BY DEF WellFormed, Lists

LEMMA EntryMerges ==
    ASSUME NEW l, WellFormed(l), NEW e \in ExtensionType
    PROVE  /\ WellFormed(mergeExtension(l, e.type, e, FALSE))
           /\ \A u : existingExtension(mergeExtension(l, e.type, e, FALSE), u)
                       = IF u = e.type THEN e ELSE existingExtension(l, u)
<1>1. e # NoExtension /\ Mergeable(e, e.type)
  BY NoExtensionIs DEF Mergeable
<1> DEFINE t == e.type
<1>3. Mergeable(e, t)
  BY <1>1
<1> HIDE DEF t
<1>4. \A r \in BOOLEAN : /\ WellFormed(mergeExtension(l, t, e, r))
                        /\ \A u : existingExtension(mergeExtension(l, t, e, r), u)
                                    = AfterMerge(l, t, e, r, u)
  BY <1>3, MergeIs
<1>2. /\ WellFormed(mergeExtension(l, t, e, FALSE))
      /\ \A u : existingExtension(mergeExtension(l, t, e, FALSE), u)
                  = AfterMerge(l, t, e, FALSE, u)
  BY <1>4
<1> QED BY <1>1, <1>2 DEF AfterMerge, t

LEMMA ApplySteps ==
    ASSUME NEW list \in Lists, NEW exts \in Seq(ExtensionType)
    PROVE  \E h \in [0..Len(exts) -> Lists] :
              /\ h[0] = list /\ h[Len(exts)] = ApplyOn(list, exts)
              /\ \A k \in 1..Len(exts) :
                   h[k] = mergeExtension(h[k - 1], exts[k].type, exts[k], FALSE)
<1> DEFINE n == Len(exts)
           V == Lists
           op(s, z) == mergeExtension(s, z.type, z, FALSE)
           G == [p \in (1..n) \X V |-> op(p[2], exts[p[1]])]
           Is(g) == g = [s \in SUBSET (1..n) |->
                           IF s = {} THEN list ELSE op(g[s \ {Max(s)}], exts[Max(s)])]
<1>1. n \in Nat /\ DOMAIN exts = 1..n /\ \A i \in 1..n : exts[i] \in ExtensionType
  OBVIOUS
<1>0. \A v \in V, i \in 1..n : op(v, exts[i]) \in V
  BY <1>1, EntryMerges, ListsAre
<1>3. \A i \in 1..n, v \in V : <<i, v>> \in (1..n) \X V /\ G[<<i, v>>] = op(v, exts[i])
  <2> HIDE DEF op, V
  <2> QED OBVIOUS
<1>2. list \in V /\ G \in [(1..n) \X V -> V]
  <2> HIDE DEF op, n
  <2> QED BY <1>0, <1>1
<1> HIDE DEF n, V, G, op
<1>4. PICK g : LeftFolded(n, V, list, G, g)
  BY <1>1, <1>2, LeftFoldExists
<1>5. Is(g)
  BY <1>3, <1>4 DEF LeftFolded
<1>6. PICK f : Is(f) /\ ApplyOn(list, exts) = f[1..n]
  BY <1>1, <1>5 DEF ApplyOn, FoldLeft, MapThenFoldSet, op
<1>7. f[{}] = list
  BY <1>6
<1>8. LeftRule(n, V, G, f)
  <2> SUFFICES ASSUME NEW s \in SUBSET (1..n), s # {}, f[s \ {Max(s)}] \in V
               PROVE  f[s] = G[<<Max(s), f[s \ {Max(s)}]>>]
    BY DEF LeftRule
  <2>1. Max(s) \in 1..n
    BY <1>4 DEF LeftFolded
  <2>2. f[s] = op(f[s \ {Max(s)}], exts[Max(s)])
    BY <1>6
  <2> QED BY <1>3, <2>1, <2>2
<1>9. PICK h : LeftStepped(n, V, list, G, f[1..n], h)
  BY <1>1, <1>2, <1>7, <1>8, LeftSteps
<1>10. \A k \in 1..n : k - 1 \in 0..n
  BY <1>1
<1>11. \A k \in 1..n : h[k] = op(h[k - 1], exts[k])
  BY <1>3, <1>9, <1>10 DEF LeftStepped
<1> QED BY <1>6, <1>9, <1>11 DEF LeftStepped, op, n, V

\* An apply brings every extension that it names and keeps all others.
LEMMA ApplyOnIs ==
    ASSUME NEW list, WellFormed(list), NEW exts, WellFormed(exts)
    PROVE  /\ WellFormed(ApplyOn(list, exts))
           /\ \A u : existingExtension(ApplyOn(list, exts), u)
                       = IF existingExtension(exts, u) # NoExtension THEN existingExtension(exts, u)
                         ELSE existingExtension(list, u)
<1> DEFINE n == Len(exts)
           L(l, u) == existingExtension(l, u)
           some(k, u) == \E i \in 1..k : exts[i].type = u
<1>1. /\ n \in Nat /\ exts \in Seq(ExtensionType) /\ list \in Lists
      /\ \A i \in 1..n : exts[i] \in ExtensionType
  BY ListsAre DEF WellFormed
<1>2. PICK h \in [0..n -> Lists] :
        /\ h[0] = list /\ h[n] = ApplyOn(list, exts)
        /\ \A k \in 1..n : h[k] = mergeExtension(h[k - 1], exts[k].type, exts[k], FALSE)
  BY <1>1, ApplySteps
<1> DEFINE Q(k) == \A u : L(h[k], u) = IF some(k, u) THEN L(exts, u) ELSE L(list, u)
           S == {k \in 0..n : Q(k)}
<1>3. \A i \in 1..n : L(exts, exts[i].type) = exts[i]
  BY LookAt
<1>4. Q(0)
  <2>1. \A u : ~some(0, u)
    OBVIOUS
  <2> HIDE DEF L, some
  <2> QED BY <1>2, <2>1
<1>5. ASSUME NEW k \in 1..n, Q(k - 1) PROVE Q(k)
  <2> DEFINE e == exts[k]
  <2>1. k - 1 \in 0..n /\ WellFormed(h[k - 1]) /\ e \in ExtensionType
    BY <1>1, <1>2, ListsAre
  <2>2. \A u : L(h[k], u) = IF u = e.type THEN e ELSE L(h[k - 1], u)
    BY <1>2, <2>1, EntryMerges
  <2>3. \A u : some(k, u) <=> some(k - 1, u) \/ u = e.type
    BY <1>1
  <2>4. e = L(exts, e.type)
    BY <1>3
  <2> HIDE DEF L, some, e
  <2> QED BY <1>5, <2>2, <2>3, <2>4
<1>6. \A k \in 0..n : k \in S
  <2>1. 0 \in S /\ \A k \in 1..n : k - 1 \in S => k \in S
    <3> HIDE DEF Q
    <3> QED BY <1>1, <1>4, <1>5
  <2> HIDE DEF S, n
  <2> QED BY <1>1, <2>1, Upwards
<1>7. Q(n)
  <2> HIDE DEF Q
  <2> QED BY <1>1, <1>6
<1>8. \A u : some(n, u) <=> L(exts, u) # NoExtension
  <2>1. \A u : some(n, u) => L(exts, u) # NoExtension
    <3> TAKE u
    <3> HAVE some(n, u)
    <3>1. PICK i \in 1..n : exts[i].type = u
      OBVIOUS
    <3>2. L(exts, u) \in ExtensionType
      BY <1>1, <1>3, <3>1
    <3> HIDE DEF L
    <3> QED BY <3>2, NoExtensionIs
  <2>2. \A u : ~some(n, u) => L(exts, u) = NoExtension
    BY LookNone
  <2> QED BY <2>1, <2>2
<1>9. WellFormed(h[n])
  BY <1>1, <1>2, ListsAre
<1> HIDE DEF L, some, n
<1> QED BY <1>2, <1>7, <1>8, <1>9 DEF L

LEMMA AppliedIs ==
    ASSUME NEW list, TRUE
    PROVE  Applied(list) = ApplyOn(list, new.extensions)
  BY DEF Applied, ApplyOn

LEMMA Keeps ==
    ASSUME NEW list, WellFormed(list), NEW t, NEW ext, Mergeable(ext, t)
    PROVE  LET m == mergeExtension(list, t, ext, FALSE)
           IN  /\ WellFormed(m)
               /\ \A u : u # t \/ ext = NoExtension => existingExtension(m, u) = existingExtension(list, u)
<1>1. \A r \in BOOLEAN : /\ WellFormed(mergeExtension(list, t, ext, r))
                         /\ \A u : existingExtension(mergeExtension(list, t, ext, r), u)
                                     = AfterMerge(list, t, ext, r, u)
  BY MergeIs
<1>2. /\ WellFormed(mergeExtension(list, t, ext, FALSE))
      /\ \A u : existingExtension(mergeExtension(list, t, ext, FALSE), u)
                                     = AfterMerge(list, t, ext, FALSE, u)
  BY <1>1
<1> QED BY <1>2 DEF AfterMerge

\* What is true of the extensions of every shoot: the ones of others are as they
\* were added, a registry cache has caches, and without an audit log tenant there
\* is no audit log extension.
ListOk(list, w) ==
    /\ WellFormed(list)
    /\ existingExtension(list, "foreign") \in {NoExtension, Foreign}
    /\ \/ existingExtension(list, "registry-cache") = NoExtension
       \/ existingExtension(list, "registry-cache").config > 0
    /\ w.audit = 0 => existingExtension(list, "auditlog") = NoExtension

LEMMA EmptyListIs ==
    ASSUME NEW e \in Seq(ExtensionType), Len(e) = 0
    PROVE  WellFormed(e) /\ \A u : existingExtension(e, u) = NoExtension
<1>1. WellFormed(e)
  BY DEF WellFormed, TypesDiffer
<1>2. \A u : existingExtension(e, u) = NoExtension
  BY LookNone
<1> QED BY <1>1, <1>2

LEMMA ForCreateIs ==
    ASSUME NEW provider, NEW w \in Want
    PROVE  ListOk(ExtensionsForCreate(provider, w), w)
<1> DEFINE L(l, u) == existingExtension(l, u)
           l0 == <<>>
           e1 == NewNetworkFilterExtension(w)
           l1 == mergeExtension(l0, "filter", e1, FALSE)
           e2 == Extension("cert", TRUE, 0)
           l2 == mergeExtension(l1, "cert", e2, FALSE)
           e3 == buildDNSExtension
           l3 == mergeExtension(l2, "dns", e3, FALSE)
           e4 == Extension("oidc", TRUE, 0)
           l4 == mergeExtension(l3, "oidc", e4, FALSE)
           e5 == NewAuditLogExtension(w)
           l5 == mergeExtension(l4, "auditlog", e5, FALSE)
           e6 == aclForCreate(provider, w)
           l6 == mergeExtension(l5, "acl", e6, FALSE)
           e7 == nvidiaForCreate(w)
           l7 == mergeExtension(l6, "nvidia", e7, FALSE)
<1>0. ExtensionsForCreate(provider, w) = l7
  BY DEF ExtensionsForCreate
<1>1. /\ Mergeable(e1, "filter") /\ Mergeable(e2, "cert") /\ Mergeable(e3, "dns")
      /\ Mergeable(e4, "oidc") /\ Mergeable(e5, "auditlog")
  BY EntriesAre
<1>2. Mergeable(e6, "acl")
  <2>1. Mergeable(NewApiServerACLExtension(TRUE), "acl") /\ Mergeable(NoExtension, "acl")
    BY EntriesAre DEF Mergeable
  <2> QED BY <2>1 DEF aclForCreate
<1>3. Mergeable(e7, "nvidia")
  <2>1. Mergeable(Extension("nvidia", TRUE, 0), "nvidia") /\ Mergeable(NoExtension, "nvidia")
    BY EntriesAre DEF Mergeable
  <2> QED BY <2>1 DEF nvidiaForCreate
<1>4. w.audit = 0 => e5 = NoExtension
  BY DEF NewAuditLogExtension
<1>5. WellFormed(l0) /\ \A u : L(l0, u) = NoExtension
  <2>1. l0 \in Seq(ExtensionType) /\ Len(l0) = 0
    OBVIOUS
  <2> HIDE DEF l0
  <2> QED BY <2>1, EmptyListIs
<1> HIDE DEF L, l0, e1, e2, e3, e4, e5, e6, e7, l1, l2, l3, l4, l5, l6, l7
<1>6. WellFormed(l1) /\ \A u : u # "filter" => L(l1, u) = NoExtension
  <2>1. WellFormed(l1) /\ \A u : u # "filter" => L(l1, u) = L(l0, u)
    <3>1. WellFormed(l0) /\ Mergeable(e1, "filter")
      BY <1>1, <1>5
    <3>2. LET m == mergeExtension(l0, "filter", e1, FALSE)
          IN  /\ WellFormed(m)
              /\ \A u : u # "filter" \/ e1 = NoExtension => existingExtension(m, u) = existingExtension(l0, u)
      BY <3>1, Keeps
    <3> QED BY <3>2 DEF l1, L
  <2> QED BY <1>5, <2>1
<1>7. WellFormed(l2) /\ \A u : u \notin {"filter", "cert"} => L(l2, u) = NoExtension
  <2>0. WellFormed(l1)
    BY <1>6
  <2>1. WellFormed(l2) /\ \A u : u # "cert" => L(l2, u) = L(l1, u)
    BY <1>1, <2>0, Keeps DEF l2, L
  <2> QED BY <1>6, <2>1
<1>8. WellFormed(l3) /\ \A u : u \notin {"filter", "cert", "dns"} => L(l3, u) = NoExtension
  <2>0. WellFormed(l2)
    BY <1>7
  <2>1. WellFormed(l3) /\ \A u : u # "dns" => L(l3, u) = L(l2, u)
    BY <1>1, <2>0, Keeps DEF l3, L
  <2> QED BY <1>7, <2>1
<1>9. WellFormed(l4) /\ \A u : u \notin {"filter", "cert", "dns", "oidc"} => L(l4, u) = NoExtension
  <2>0. WellFormed(l3)
    BY <1>8
  <2>1. WellFormed(l4) /\ \A u : u # "oidc" => L(l4, u) = L(l3, u)
    BY <1>1, <2>0, Keeps DEF l4, L
  <2> QED BY <1>8, <2>1
<1>10. /\ WellFormed(l5)
       /\ \A u : u \notin {"filter", "cert", "dns", "oidc"} /\ (u # "auditlog" \/ w.audit = 0)
                 => L(l5, u) = NoExtension
  <2>1. WellFormed(l5) /\ \A u : u # "auditlog" \/ e5 = NoExtension => L(l5, u) = L(l4, u)
    <3>1. WellFormed(l4) /\ Mergeable(e5, "auditlog")
      BY <1>1, <1>9
    <3>2. LET m == mergeExtension(l4, "auditlog", e5, FALSE)
          IN  /\ WellFormed(m)
              /\ \A u : u # "auditlog" \/ e5 = NoExtension => existingExtension(m, u) = existingExtension(l4, u)
      BY <3>1, Keeps
    <3> QED BY <3>2 DEF l5, L
  <2> QED BY <1>4, <1>9, <2>1
<1>11. /\ WellFormed(l6)
       /\ \A u : u \notin {"filter", "cert", "dns", "oidc", "acl"} /\ (u # "auditlog" \/ w.audit = 0)
                 => L(l6, u) = NoExtension
  <2>0. WellFormed(l5)
    BY <1>10
  <2>1. WellFormed(l6) /\ \A u : u # "acl" => L(l6, u) = L(l5, u)
    BY <1>2, <2>0, Keeps DEF l6, L
  <2> QED BY <1>10, <2>1
<1>12. /\ WellFormed(l7)
       /\ L(l7, "foreign") = NoExtension /\ L(l7, "registry-cache") = NoExtension
       /\ w.audit = 0 => L(l7, "auditlog") = NoExtension
  <2>0. WellFormed(l6)
    BY <1>11
  <2>1. WellFormed(l7) /\ \A u : u # "nvidia" => L(l7, u) = L(l6, u)
    BY <1>3, <2>0, Keeps DEF l7, L
  <2> QED BY <1>11, <2>1
<1> QED BY <1>0, <1>12 DEF ListOk, L

LEMMA LegacyListIs ==
    ASSUME NEW w
    PROVE  ListOk(<<Extension("dns", TRUE, 0)>>, w)
<1> DEFINE d == Extension("dns", TRUE, 0)
           l == <<d>>
<1>1. d \in ExtensionType /\ d.type = "dns"
  BY DEF Extension, ExtensionType, ExtensionTypes, Known
<1> HIDE DEF d
<1>2. l \in Seq(ExtensionType) /\ Len(l) = 1 /\ \A i \in 1..Len(l) : i = 1 /\ l[i].type = "dns"
  BY <1>1
<1> HIDE DEF l
<1>3. WellFormed(l)
  BY <1>2 DEF WellFormed, TypesDiffer
<1>4. \A u : u # "dns" => existingExtension(l, u) = NoExtension
  BY <1>2, LookNone
<1>5. ListOk(l, w)
  BY <1>3, <1>4 DEF ListOk
<1> QED BY <1>5 DEF l, d

LEMMA ForPatchOk ==
    ASSUME NEW provider, NEW w \in Want, NEW list, ListOk(list, w)
    PROVE  ListOk(ExtensionsForPatch(provider, w, list), w)
<1> DEFINE m == ExtensionsForPatch(provider, w, list)
           L(l, u) == existingExtension(l, u)
<1>1. WellFormed(list)
  BY DEF ListOk
<1>2. WellFormed(m) /\ \A u : L(m, u) = Patched(provider, w, u, L(list, u))
  BY <1>1, ForPatchIs
<1> HIDE DEF m, L
<1>3. L(m, "foreign") = L(list, "foreign") /\ (w.audit = 0 => L(m, "auditlog") = L(list, "auditlog"))
  BY <1>2 DEF Patched
<1>4. L(m, "registry-cache") = NewRegistryCacheExtension(w)
  BY <1>2 DEF Patched
<1>5. L(m, "registry-cache") = NoExtension \/ L(m, "registry-cache").config > 0
  <2>1. CASE w.caches = 0
    BY <1>4, <2>1 DEF NewRegistryCacheExtension
  <2>2. CASE w.caches # 0
    <3>1. w.caches \in 0..1
      BY DEF Want
    <3>2. L(m, "registry-cache") = Extension("registry-cache", TRUE, w.caches)
      BY <1>4, <2>2 DEF NewRegistryCacheExtension
    <3>3. L(m, "registry-cache").config = w.caches
      BY <3>2 DEF Extension
    <3> QED BY <2>2, <3>1, <3>3
  <2> QED BY <2>1, <2>2
<1> QED BY <1>2, <1>3, <1>5 DEF ListOk, m, L

LEMMA ApplyOk ==
    ASSUME NEW w, NEW list, ListOk(list, w), NEW exts, ListOk(exts, w)
    PROVE  ListOk(ApplyOn(list, exts), w)
<1> DEFINE L(l, u) == existingExtension(l, u)
<1>1. WellFormed(list) /\ WellFormed(exts)
  BY DEF ListOk
<1>2. /\ WellFormed(ApplyOn(list, exts))
      /\ \A u : L(ApplyOn(list, exts), u) = IF L(exts, u) # NoExtension THEN L(exts, u) ELSE L(list, u)
  BY <1>1, ApplyOnIs
<1>3. \A u : L(ApplyOn(list, exts), u) = L(exts, u) \/ (L(exts, u) = NoExtension /\ L(ApplyOn(list, exts), u) = L(list, u))
  <2> HIDE DEF L
  <2> QED BY <1>2
<1> HIDE DEF L
<1> QED BY <1>2, <1>3 DEF ListOk, L

LEMMA ForeignIs ==
    ASSUME NEW w, NEW list, ListOk(list, w)
    PROVE  /\ Contains(list, Foreign) <=> existingExtension(list, "foreign") # NoExtension
           /\ ~Contains(list, Foreign) =>
                /\ ListOk(Append(list, Foreign), w)
                /\ \A u : u # "foreign" => existingExtension(Append(list, Foreign), u)
                                             = existingExtension(list, u)
<1> DEFINE L(l, u) == existingExtension(l, u)
           n == Len(list)
           m == Append(list, Foreign)
<1>1. /\ WellFormed(list) /\ n \in Nat /\ list \in Seq(ExtensionType) /\ TypesDiffer(list)
      /\ L(list, "foreign") \in {NoExtension, Foreign}
      /\ \A i \in 1..n : list[i] \in ExtensionType
  BY DEF ListOk, WellFormed
<1>2. Foreign \in ExtensionType /\ Foreign.type = "foreign"
  BY DEF Foreign, Extension, ExtensionType, ExtensionTypes
<1>3. Contains(list, Foreign) <=> \E i \in 1..n : list[i] = Foreign
  <2>1. Contains(list, Foreign) <=> Foreign \in ToSet(list)
    BY <1>1, ContainsIs
  <2> QED BY <1>1, <2>1 DEF ToSet
<1>4. Contains(list, Foreign) => L(list, "foreign") # NoExtension
  <2> HAVE Contains(list, Foreign)
  <2>1. PICK i \in 1..n : list[i] = Foreign
    BY <1>3
  <2>2. L(list, "foreign") = Foreign
    BY <1>1, <1>2, <2>1, LookAt
  <2> HIDE DEF L
  <2> QED BY <1>2, <2>2, NoExtensionIs
<1>5. L(list, "foreign") # NoExtension => Contains(list, Foreign)
  <2> HAVE L(list, "foreign") # NoExtension
  <2>1. L(list, "foreign") = list[Find(list, "foreign")] /\ Find(list, "foreign") \in 1..n
    BY <1>1, LookIs, FindIs
  <2> HIDE DEF L
  <2> QED BY <1>1, <1>3, <2>1
<1>6. ASSUME ~Contains(list, Foreign)
      PROVE  ListOk(m, w) /\ \A u : u # "foreign" => L(m, u) = L(list, u)
  <2>1. L(list, "foreign") = NoExtension
    BY <1>5, <1>6
  <2>2. Find(list, "foreign") = 0
    BY <1>1, <2>1, LookIs
  <2>3. m = mergeExtension(list, "foreign", Foreign, FALSE)
    <3>1. mergeExtension(list, "foreign", Foreign, FALSE) = mergeAt(list, 0, Foreign, FALSE)
      BY <2>2 DEF mergeExtension
    <3>2. Foreign # NoExtension
      BY <1>2, NoExtensionIs
    <3> QED BY <3>1, <3>2 DEF mergeAt
  <2> HIDE DEF m, L
  <2>4. /\ WellFormed(mergeExtension(list, Foreign.type, Foreign, FALSE))
        /\ \A u : L(mergeExtension(list, Foreign.type, Foreign, FALSE), u)
                    = IF u = Foreign.type THEN Foreign ELSE L(list, u)
    BY <1>1, <1>2, EntryMerges DEF L
  <2>5. WellFormed(m) /\ \A u : L(m, u) = IF u = "foreign" THEN Foreign ELSE L(list, u)
    BY <1>2, <2>3, <2>4
  <2> QED BY <2>5 DEF ListOk, L
<1> QED BY <1>4, <1>5, <1>6

\* A patch of these extensions would change none of them.
Fixed(provider, w, list) ==
    \A u : Patched(provider, w, u, existingExtension(list, u)) = existingExtension(list, u)

LEMMA PatchedTwice ==
    ASSUME NEW provider, NEW w \in Want, NEW u, NEW x
    PROVE  Patched(provider, w, u, Patched(provider, w, u, x)) = Patched(provider, w, u, x)
<1> DEFINE y == Patched(provider, w, u, x)
<1>1. CASE u = "dns"
  <2>1. y = IF x # NoExtension /\ x.config = 0 THEN x ELSE buildDNSExtension
    BY <1>1 DEF Patched
  <2>2. Patched(provider, w, u, y) = IF y # NoExtension /\ y.config = 0 THEN y ELSE buildDNSExtension
    BY <1>1 DEF Patched
  <2> HIDE DEF y
  <2> QED BY <2>1, <2>2 DEF y
<1>2. CASE u = "acl"
  <2>1. NewApiServerACLExtension(FALSE) # NoExtension
    BY DEF NewApiServerACLExtension, NoExtension, Extension
  <2>2. y = IF AclNeedsToBeEnabled(provider, w) THEN NewApiServerACLExtension(TRUE)
            ELSE IF x = NoExtension THEN NoExtension ELSE NewApiServerACLExtension(FALSE)
    BY <1>2 DEF Patched
  <2>3. Patched(provider, w, u, y)
          = IF AclNeedsToBeEnabled(provider, w) THEN NewApiServerACLExtension(TRUE)
            ELSE IF y = NoExtension THEN NoExtension ELSE NewApiServerACLExtension(FALSE)
    BY <1>2 DEF Patched
  <2> HIDE DEF y
  <2>4. Patched(provider, w, u, y) = y
    BY <2>1, <2>2, <2>3
  <2> QED BY <2>4 DEF y
<1>3. CASE u = "nvidia"
  <2>1. Extension("nvidia", FALSE, 0) # NoExtension
    BY DEF NoExtension, Extension
  <2>2. y = IF w.nvidia THEN Extension("nvidia", TRUE, 0)
            ELSE IF x = NoExtension THEN NoExtension ELSE Extension("nvidia", FALSE, 0)
    BY <1>3 DEF Patched
  <2>3. Patched(provider, w, u, y)
          = IF w.nvidia THEN Extension("nvidia", TRUE, 0)
            ELSE IF y = NoExtension THEN NoExtension ELSE Extension("nvidia", FALSE, 0)
    BY <1>3 DEF Patched
  <2> HIDE DEF y
  <2>4. Patched(provider, w, u, y) = y
    BY <2>1, <2>2, <2>3
  <2> QED BY <2>4 DEF y
<1>4. CASE u \notin {"dns", "acl", "nvidia"}
  BY <1>4 DEF Patched
<1> QED BY <1>1, <1>2, <1>3, <1>4

\* A list has no extension of KIM's that the other one is without.
Covers(exts, list) ==
    \A u : existingExtension(list, u) # NoExtension
             => existingExtension(exts, u) # NoExtension \/ u = "foreign"

LEMMA FixedAfter ==
    ASSUME NEW provider, NEW w \in Want, NEW list, WellFormed(list), NEW had, WellFormed(had),
           Covers(ExtensionsForPatch(provider, w, had), list)
    PROVE  Fixed(provider, w, ApplyOn(list, ExtensionsForPatch(provider, w, had)))
<1> DEFINE L(l, u) == existingExtension(l, u)
           P(u, x) == Patched(provider, w, u, x)
           m == ExtensionsForPatch(provider, w, had)
           a == ApplyOn(list, m)
<1>1. WellFormed(m) /\ \A u : L(m, u) = P(u, L(had, u))
  BY ForPatchIs
<1>2. \A u : P(u, L(m, u)) = L(m, u)
  <2>1. \A u, x : P(u, P(u, x)) = P(u, x)
    BY PatchedTwice
  <2> HIDE DEF P, L, m
  <2> QED BY <1>1, <2>1
<1>3. \A x : P("foreign", x) = x
  BY DEF Patched
<1>4. \A u : L(list, u) # NoExtension => L(m, u) # NoExtension \/ u = "foreign"
  BY DEF Covers
<1> HIDE DEF m
<1>5. \A u : L(a, u) = IF L(m, u) # NoExtension THEN L(m, u) ELSE L(list, u)
  BY <1>1, ApplyOnIs
<1> HIDE DEF P, L
<1>6. \A u : L(a, u) = L(m, u) \/ u = "foreign"
  BY <1>4, <1>5
<1>7. \A u : P(u, L(a, u)) = L(a, u)
  BY <1>2, <1>3, <1>6
<1> QED BY <1>7 DEF Fixed, P, L, m

\* What one patch leaves out, unless the registry cache is to go, the shoot has not had.
LEMMA PatchCovers ==
    ASSUME NEW provider, NEW w \in Want, NEW had, ListOk(had, w), NEW list, Covers(had, list),
           \/ Find(had, "registry-cache") = 0
           \/ existingExtension(had, "registry-cache").config
                = existingExtension(ExtensionsForPatch(provider, w, had), "registry-cache").config
    PROVE  Covers(ExtensionsForPatch(provider, w, had), list)
<1> DEFINE L(l, u) == existingExtension(l, u)
           P(u, x) == Patched(provider, w, u, x)
           m == ExtensionsForPatch(provider, w, had)
<1>1. WellFormed(had)
  BY DEF ListOk
<1>2. \A u : L(m, u) = P(u, L(had, u))
  BY <1>1, ForPatchIs
<1>3. L(had, "registry-cache") # NoExtension => L(m, "registry-cache") # NoExtension
  <2> HAVE L(had, "registry-cache") # NoExtension
  <2>1. Find(had, "registry-cache") # 0
    BY <1>1, LookIs
  <2>2. L(had, "registry-cache").config > 0
    BY DEF ListOk
  <2>3. L(m, "registry-cache").config > 0
    BY <2>1, <2>2
  <2> HIDE DEF L, m
  <2>4. NoExtension.config = 0
    BY DEF NoExtension, Extension
  <2> QED BY <2>3, <2>4
<1>4. \A u : u # "registry-cache" /\ L(had, u) # NoExtension => P(u, L(had, u)) # NoExtension
  <2> DEFINE No == NoExtension
  <2>1. \A t, on, c : t # "" => Extension(t, on, c) # No
    BY DEF Extension, NoExtension
  <2>2. /\ w.audit # 0 => NewAuditLogExtension(w) # No
        /\ FilterGlobal => NewNetworkFilterExtension(w) # No
        /\ buildDNSExtension # No /\ NewApiServerACLExtension(TRUE) # No
        /\ NewApiServerACLExtension(FALSE) # No
    BY <2>1 DEF NewAuditLogExtension, NewNetworkFilterExtension, buildDNSExtension,
                NewApiServerACLExtension
  <2>3. Extension("nvidia", TRUE, 0) # No /\ Extension("nvidia", FALSE, 0) # No
    BY <2>1
  <2>4. \A u, x : u # "registry-cache" /\ x # No => P(u, x) # No
    <3> HIDE DEF No
    <3> QED BY <2>2, <2>3 DEF Patched, No
  <2> HIDE DEF P, L
  <2> QED BY <2>4
<1>5. \A u : L(list, u) # NoExtension => L(had, u) # NoExtension \/ u = "foreign"
  BY DEF Covers
<1> HIDE DEF P, L, m
<1>6. \A u : L(had, u) # NoExtension => L(m, u) # NoExtension
  BY <1>2, <1>3, <1>4
<1>7. \A u : L(list, u) # NoExtension => L(m, u) # NoExtension \/ u = "foreign"
  BY <1>5, <1>6
<1> QED BY <1>7 DEF Covers, L, m

\* The extensions that a patch has no more to change are those the Runtime asks for.
LEMMA FixedMeans ==
    ASSUME NEW provider, NEW w \in Want, NEW list, ListOk(list, w), Fixed(provider, w, list)
    PROVE  /\ existingExtension(list, "nvidia").enabled = w.nvidia
           /\ existingExtension(list, "acl").enabled = AclNeedsToBeEnabled(provider, w)
           /\ (Find(list, "registry-cache") # 0) = (w.caches > 0)
           /\ FilterGlobal => existingExtension(list, "filter").enabled = w.egress
           /\ existingExtension(list, "auditlog").config = w.audit
<1> DEFINE L(u) == existingExtension(list, u)
<1>1. \A u : L(u) = Patched(provider, w, u, L(u))
  BY DEF Fixed
<1>2. /\ w.egress \in BOOLEAN /\ w.nvidia \in BOOLEAN /\ w.caches \in Nat /\ w.audit \in Nat
      /\ AclNeedsToBeEnabled(provider, w) \in BOOLEAN
  BY ExtensionsAssumption DEF Want, AclNeedsToBeEnabled, ExtensionsAssumption
<1>3. w.audit = 0 => L("auditlog") = NoExtension
  BY DEF ListOk
<1>4. (L("registry-cache") = NoExtension) <=> (Find(list, "registry-cache") = 0)
  BY LookIs DEF ListOk
<1> HIDE DEF L
<1>5. L("nvidia").enabled = w.nvidia
  <2>1. L("nvidia") = IF w.nvidia THEN Extension("nvidia", TRUE, 0)
                      ELSE IF L("nvidia") = NoExtension THEN NoExtension
                      ELSE Extension("nvidia", FALSE, 0)
    BY <1>1 DEF Patched
  <2>2. /\ NoExtension.enabled = FALSE /\ Extension("nvidia", TRUE, 0).enabled = TRUE
        /\ Extension("nvidia", FALSE, 0).enabled = FALSE
    BY DEF NoExtension, Extension
  <2> QED BY <1>2, <2>1, <2>2
<1>6. L("acl").enabled = AclNeedsToBeEnabled(provider, w)
  <2>1. L("acl") = IF AclNeedsToBeEnabled(provider, w) THEN NewApiServerACLExtension(TRUE)
                   ELSE IF L("acl") = NoExtension THEN NoExtension
                   ELSE NewApiServerACLExtension(FALSE)
    BY <1>1 DEF Patched
  <2>2. /\ NoExtension.enabled = FALSE /\ NewApiServerACLExtension(TRUE).enabled = TRUE
        /\ NewApiServerACLExtension(FALSE).enabled = FALSE
    BY DEF NoExtension, Extension, NewApiServerACLExtension
  <2> QED BY <1>2, <2>1, <2>2
<1>7. (Find(list, "registry-cache") # 0) = (w.caches > 0)
  <2>1. L("registry-cache") = NewRegistryCacheExtension(w)
    BY <1>1 DEF Patched
  <2>2. NewRegistryCacheExtension(w) = NoExtension <=> w.caches = 0
    BY DEF NewRegistryCacheExtension, NoExtension, Extension
  <2>3. w.caches > 0 <=> w.caches # 0
    BY <1>2
  <2> QED BY <1>4, <2>1, <2>2, <2>3
<1>8. FilterGlobal => L("filter").enabled = w.egress
  <2> HAVE FilterGlobal
  <2>1. L("filter") = NewNetworkFilterExtension(w)
    BY <1>1 DEF Patched
  <2> QED BY <2>1 DEF NewNetworkFilterExtension, Extension
<1>9. L("auditlog").config = w.audit
  <2>1. CASE w.audit = 0
    <3>1. NoExtension.config = 0
      BY DEF NoExtension, Extension
    <3> QED BY <1>3, <2>1, <3>1
  <2>2. CASE w.audit # 0
    <3>1. L("auditlog") = Extension("auditlog", TRUE, w.audit)
      BY <1>1, <2>2 DEF Patched, NewAuditLogExtension
    <3> QED BY <3>1 DEF Extension
  <2> QED BY <2>1, <2>2
<1> QED BY <1>5, <1>6, <1>7, <1>8, <1>9 DEF L

-----------------------------------------------------------------------------
(* The configuration of the infrastructure and of the control plane.       *)

Zone ==
    [name: Nat, tuned: BOOLEAN,
     nets: [{"workers"} -> Network] \cup [{"workers", "public", "internal"} -> Network]]

ControlPlane == [zone: Nat, loadBalancerController: BOOLEAN]

Names(infra) == {infra.zones[i].name : i \in 1..Len(infra.zones)}

ZonesDiffer(infra) ==
    \A i, j \in 1..Len(infra.zones) : infra.zones[i].name = infra.zones[j].name => i = j

LEMMA InfraType ==
    ASSUME NEW I
    PROVE  I \in Infrastructure <=>
             I \in [zones: Seq(Zone), dualStack: BOOLEAN, tuned: SUBSET Settings]
  BY DEF Infrastructure, Zone

LEMMA NetsAre ==
    ASSUME NEW provider \in Providers, HasZones(provider), NEW cidr \in Network,
           NEW zones \in Seq(Nat), generatorAccepts(provider, cidr, zones), NEW i \in 1..Len(zones)
    PROVE  generateZone(provider, cidr, Len(zones), i)
             \in [{"workers"} -> Network] \cup [{"workers", "public", "internal"} -> Network]
<1> DEFINE n == Len(zones)
<1>1. n \in Nat /\ n \in ZoneCount(provider) /\ PrefixAccepted(provider, cidr, n) /\ i \in 1..n
  BY DEF generatorAccepts
<1> HIDE DEF n
<1>2. CASE provider = "aws"
  <2>1. generateZone(provider, cidr, n, i) = generateAWSZone(cidr, i)
    BY <1>2 DEF generateZone
  <2>2. cidr.bits \in 16..24 /\ i \in 1..8
    <3>1. cidr.bits \in 16..24
      BY <1>1, <1>2 DEF PrefixAccepted
    <3>2. n \in 1..8
      BY <1>1, <1>2 DEF ZoneCount
    <3> QED BY <1>1, <3>1, <3>2
  <2>3. \A r \in {"workers", "public", "internal"} : generateAWSZone(cidr, i)[r] \in Network
    BY <2>2, AwsNets DEF Roles
  <2>4. generateAWSZone(cidr, i) \in [{"workers", "public", "internal"} -> Network]
    <3>1. \E F : generateAWSZone(cidr, i) = [r \in {"workers", "public", "internal"} |-> F[r]]
      <4> DEFINE f == [r \in {"workers", "public", "internal"} |->
                         Net(awsBase(cidr, i) + awsOffsets(i)[r] * awsDelta(cidr, i), awsBits(cidr, i)[r])]
      <4>1. generateAWSZone(cidr, i) = f
        BY DEF generateAWSZone
      <4>2. f = [r \in {"workers", "public", "internal"} |-> f[r]]
        OBVIOUS
      <4> HIDE DEF f
      <4> QED BY <4>1, <4>2
    <3> QED BY <2>3, <3>1
  <2> QED BY <2>1, <2>4 DEF n
<1>3. CASE provider = "gdch"
  <2>1. generateZone(provider, cidr, n, i) = generateGDCHZone(cidr, n, i)
    BY <1>3 DEF generateZone
  <2>2. n \in 1..3 /\ cidr.bits + n - 1 <= 32
    <3>1. n \in 1..3 /\ cidr.bits + (n - 1) <= 32 /\ cidr.bits \in Nat
      BY <1>1, <1>3, PrefixType DEF PrefixAccepted, ZoneCount, subnetShiftForZoneCount
    <3> QED BY <3>1
  <2>3. generateGDCHZone(cidr, n, i)["workers"] \in Network
    BY <1>1, <2>2, GdchNets
  <2>4. generateGDCHZone(cidr, n, i) \in [{"workers"} -> Network]
    BY <2>3 DEF generateGDCHZone
  <2> QED BY <2>1, <2>4 DEF n
<1>4. CASE provider \in {"azure", "alicloud"}
  <2>1. generateZone(provider, cidr, n, i) = generateAzureZone(cidr, i)
    BY <1>4 DEF generateZone
  <2>2. cidr.bits \in 16..24 /\ i \in 1..8
    <3>1. cidr.bits \in 16..24
      BY <1>1, <1>4 DEF PrefixAccepted
    <3>2. n \in 0..8
      BY <1>1, <1>4 DEF ZoneCount
    <3> QED BY <1>1, <3>1, <3>2
  <2>3. generateAzureZone(cidr, i)["workers"] \in Network
    BY <2>2, AzureNets
  <2>4. generateAzureZone(cidr, i) \in [{"workers"} -> Network]
    BY <2>3 DEF generateAzureZone
  <2> QED BY <2>1, <2>4 DEF n
<1> QED BY <1>2, <1>3, <1>4 DEF HasZones

LEMMA GeneratedIs ==
    ASSUME NEW provider \in Providers, HasZones(provider), NEW zones \in Seq(Nat),
           generatorAccepts(provider, NodeCIDR, zones)
    PROVE  LET g == generateZones(provider, NodeCIDR, zones)
           IN  /\ g \in Seq(Zone) /\ Len(g) = Len(zones)
               /\ \A i \in 1..Len(zones) : g[i].name = zones[i]
               /\ \A i, j \in 1..Len(g) : g[i].name = g[j].name => i = j
               /\ SubnetsFit(g, NodeCIDR)
<1> DEFINE g == generateZones(provider, NodeCIDR, zones)
           n == Len(zones)
           z(i) == [name |-> zones[i], nets |-> generateZone(provider, NodeCIDR, n, i), tuned |-> FALSE]
<1>1. NodeCIDR \in Network /\ n \in Nat /\ \A i \in 1..n : zones[i] \in Nat
  BY ProviderAssumption DEF ProviderAssumption
<1>2. g = [i \in 1..n |-> z(i)]
  BY DEF generateZones
<1>3. \A i \in 1..n : z(i) \in Zone /\ z(i).name = zones[i]
  <2> TAKE i \in 1..n
  <2>1. generateZone(provider, NodeCIDR, n, i)
          \in [{"workers"} -> Network] \cup [{"workers", "public", "internal"} -> Network]
    BY <1>1, NetsAre
  <2> QED BY <1>1, <2>1 DEF Zone
<1>4. \A i, j \in 1..n : zones[i] = zones[j] => i = j
  BY DEF generatorAccepts, Distinct
<1>5. SubnetsFit(g, NodeCIDR)
  BY <1>1, GeneratedSubnetsFit
<1> HIDE DEF z
<1>6. /\ g \in Seq(Zone) /\ Len(g) = n
      /\ \A i \in 1..n : g[i].name = zones[i]
  BY <1>1, <1>2, <1>3
<1> HIDE DEF g, n
<1> QED BY <1>4, <1>5, <1>6 DEF g, n

LEMMA SubnetsSame ==
    ASSUME NEW S, NEW g \in Seq(S), NEW R, NEW h \in Seq(R), Len(g) = Len(h),
           \A i \in 1..Len(g) : g[i].nets = h[i].nets, SubnetsFit(g, NodeCIDR)
    PROVE  SubnetsFit(h, NodeCIDR)
  BY DEF SubnetsFit

\* A new configuration: the zones it is for, each once, with subnets that fit.
Made(provider, infra, zones) ==
    /\ infra \in Infrastructure /\ ZonesDiffer(infra)
    /\ HasZones(provider) => /\ Len(infra.zones) = Len(zones)
                             /\ \A i \in 1..Len(zones) : infra.zones[i].name = zones[i]
                             /\ SubnetsFit(infra.zones, NodeCIDR)

LEMMA NewConfigIs ==
    ASSUME NEW provider \in Providers, NEW zones \in Seq(Nat),
           configAccepts(provider, NodeCIDR, zones), NEW dual \in BOOLEAN
    PROVE  LET I == NewInfrastructureConfig(provider, NodeCIDR, zones, dual)
           IN  Made(provider, I, zones) /\ I.dualStack = dual
<1> DEFINE g == generateZones(provider, NodeCIDR, zones)
           e == <<>>
           zs == IF HasZones(provider) THEN g ELSE e
           I == NewInfrastructureConfig(provider, NodeCIDR, zones, dual)
<1>1. I = [zones |-> zs, dualStack |-> dual, tuned |-> {}]
  BY DEF NewInfrastructureConfig
<1>2. e \in Seq(Zone) /\ Len(e) = 0
  OBVIOUS
<1>3. HasZones(provider) =>
        /\ g \in Seq(Zone) /\ Len(g) = Len(zones)
        /\ \A i \in 1..Len(zones) : g[i].name = zones[i]
        /\ \A i, j \in 1..Len(g) : g[i].name = g[j].name => i = j
        /\ SubnetsFit(g, NodeCIDR)
  BY GeneratedIs DEF configAccepts
<1> HIDE DEF g, e
<1>4. zs \in Seq(Zone) /\ \A i, j \in 1..Len(zs) : zs[i].name = zs[j].name => i = j
  BY <1>2, <1>3
<1>5. HasZones(provider) => zs = g
  OBVIOUS
<1> HIDE DEF zs, I
<1>6. I.zones = zs /\ I.dualStack = dual /\ I \in Infrastructure
  BY <1>1, <1>4, InfraType
<1> QED BY <1>3, <1>4, <1>5, <1>6 DEF Made, ZonesDiffer, I

\* What operators have set survives, if it is copied (AWS and Azure).
KeptInfra(provider, old, infra) ==
    provider \in {"aws", "azure"} =>
        /\ "copied" \in old.tuned => "copied" \in infra.tuned
        /\ old.dualStack => infra.dualStack
        /\ \A z \in ToSet(old.zones), y \in ToSet(infra.zones) : z.name = y.name /\ z.tuned => y.tuned

LEMMA ForPatchConfigIs ==
    ASSUME NEW provider \in Providers, NEW zones \in Seq(Nat),
           configAccepts(provider, NodeCIDR, zones), NEW existing \in Infrastructure
    PROVE  LET I == NewInfrastructureConfigForPatch(provider, NodeCIDR, zones, existing)
           IN  Made(provider, I, zones) /\ KeptInfra(provider, existing, I)
<1> DEFINE I == NewInfrastructureConfigForPatch(provider, NodeCIDR, zones, existing)
           N == NewInfrastructureConfig(provider, NodeCIDR, zones, existing.dualStack)
           had(z) == \E i \in 1..Len(existing.zones) :
                        existing.zones[i].name = z.name /\ existing.zones[i].tuned
           t(i) == [N.zones[i] EXCEPT !.tuned = had(N.zones[i])]
           zs == [i \in 1..Len(N.zones) |-> t(i)]
<1>1. /\ existing.dualStack \in BOOLEAN /\ existing.tuned \in SUBSET Settings /\ existing.zones \in Seq(Zone)
  BY InfraType
<1>2. Made(provider, N, zones) /\ N.dualStack = existing.dualStack
  BY <1>1, NewConfigIs
<1>3. I = [zones |-> zs, dualStack |-> existing.dualStack, tuned |-> existing.tuned \ {"other"}]
  BY DEF NewInfrastructureConfigForPatch
<1> HIDE DEF N
<1>4. N.zones \in Seq(Zone) /\ Len(N.zones) \in Nat /\ \A i \in 1..Len(N.zones) : N.zones[i] \in Zone
  BY <1>2, InfraType DEF Made
<1>5. \A i \in 1..Len(N.zones) : /\ t(i) \in Zone /\ t(i).name = N.zones[i].name
                                 /\ t(i).nets = N.zones[i].nets /\ t(i).tuned = had(N.zones[i])
  <2>1. \A z : had(z) \in BOOLEAN
    OBVIOUS
  <2> HIDE DEF had
  <2> QED BY <1>4, <2>1 DEF Zone
<1>6. \A i \in 1..Len(N.zones) : had(t(i)) = had(N.zones[i])
  <2> HIDE DEF t
  <2> QED BY <1>5
<1> HIDE DEF t, had
<1>7. /\ zs \in Seq(Zone) /\ Len(zs) = Len(N.zones)
      /\ \A i \in 1..Len(zs) : /\ zs[i].name = N.zones[i].name /\ zs[i].nets = N.zones[i].nets
                               /\ zs[i].tuned = had(zs[i])
  BY <1>4, <1>5, <1>6
<1> HIDE DEF zs, I
<1>8. I.zones = zs /\ I \in Infrastructure
  BY <1>1, <1>3, <1>7, InfraType
<1>9. SubnetsFit(N.zones, NodeCIDR) => SubnetsFit(zs, NodeCIDR)
  BY <1>4, <1>7, SubnetsSame
<1>10. ZonesDiffer(I)
  <2>1. \A i, j \in 1..Len(N.zones) : N.zones[i].name = N.zones[j].name => i = j
    BY <1>2 DEF Made, ZonesDiffer
  <2> QED BY <1>7, <1>8, <2>1 DEF ZonesDiffer
<1>11. HasZones(provider) => /\ Len(I.zones) = Len(zones)
                             /\ \A i \in 1..Len(zones) : I.zones[i].name = zones[i]
                             /\ SubnetsFit(I.zones, NodeCIDR)
  <2> HAVE HasZones(provider)
  <2>1. /\ Len(N.zones) = Len(zones) /\ SubnetsFit(N.zones, NodeCIDR)
        /\ \A i \in 1..Len(zones) : N.zones[i].name = zones[i]
    BY <1>2 DEF Made
  <2> QED BY <1>7, <1>8, <1>9, <2>1
<1>12. KeptInfra(provider, existing, I)
  <2>1. I.tuned = existing.tuned \ {"other"} /\ I.dualStack = existing.dualStack
    BY <1>3
  <2>2. ASSUME NEW z \in ToSet(existing.zones), NEW y \in ToSet(I.zones), z.name = y.name, z.tuned
        PROVE  y.tuned
    <3>1. PICK i \in 1..Len(existing.zones) : z = existing.zones[i]
      BY <1>1 DEF ToSet
    <3>2. PICK j \in 1..Len(zs) : y = zs[j]
      BY <1>7, <1>8 DEF ToSet
    <3>3. had(y)
      BY <2>2, <3>1 DEF had
    <3> QED BY <1>7, <3>2, <3>3
  <2> QED BY <2>1, <2>2 DEF KeptInfra
<1> QED BY <1>8, <1>10, <1>11, <1>12 DEF Made, I

\* The zones have their subnets, unless the shoot is one of Azure's without zones.
Covered(provider, infra, zones) ==
    HasZones(provider) /\ ~isAzureLiteSetup(provider, infra) =>
        zones \subseteq Names(infra) /\ SubnetsFit(infra.zones, NodeCIDR)

LEMMA MadeCovers ==
    ASSUME NEW provider, NEW infra, NEW zones \in Seq(Nat), Made(provider, infra, zones)
    PROVE  Covered(provider, infra, ToSet(zones))
  BY DEF Made, Covered, Names, ToSet

LEMMA ControlPlaneIs ==
    ASSUME NEW provider, NEW zones \in Seq(Nat), configAccepts(provider, NodeCIDR, zones),
           NEW dual \in BOOLEAN
    PROVE  LET cp == NewControlPlaneConfig(provider, zones, dual)
           IN  cp \in ControlPlane /\ cp.zone = IF provider = "gcp" THEN zones[1] ELSE 0
<1>1. provider = "gcp" => zones[1] \in Nat
  BY DEF configAccepts
<1>2. (dual /\ provider = "aws") \in BOOLEAN
  OBVIOUS
<1> DEFINE l == dual /\ provider = "aws"
           z == IF provider = "gcp" THEN zones[1] ELSE 0
<1>3. NewControlPlaneConfig(provider, zones, dual) = [zone |-> z, loadBalancerController |-> l]
  BY DEF NewControlPlaneConfig
<1>4. z \in Nat /\ l \in BOOLEAN
  BY <1>1
<1> HIDE DEF z, l
<1>5. /\ [zone |-> z, loadBalancerController |-> l] \in ControlPlane
      /\ [zone |-> z, loadBalancerController |-> l].zone = z
  BY <1>4 DEF ControlPlane
<1> QED BY <1>3, <1>5 DEF z

LEMMA CreateConfigIs ==
    ASSUME NEW provider \in Providers, NEW zones \in Seq(Nat),
           configAccepts(provider, NodeCIDR, zones), NEW dual \in BOOLEAN
    PROVE  LET c == getConfig(provider, zones, dual, None)
           IN  /\ c.infra \in Infrastructure /\ ZonesDiffer(c.infra)
               /\ Covered(provider, c.infra, ToSet(zones))
               /\ c.cp \in ControlPlane
               /\ c.cp.zone = IF provider = "gcp" THEN zones[1] ELSE 0
<1> DEFINE c == getConfig(provider, zones, dual, None)
           d == dual /\ provider = "aws" /\ None = None
           b == dual /\ None = None
<1>1. /\ c.infra = NewInfrastructureConfig(provider, NodeCIDR, zones, d)
      /\ c.cp = NewControlPlaneConfig(provider, zones, b)
  BY DEF getConfig
<1>2. d \in BOOLEAN /\ b \in BOOLEAN
  OBVIOUS
<1> HIDE DEF c, d, b
<1>3. Made(provider, c.infra, zones)
  BY <1>1, <1>2, NewConfigIs
<1>4. c.cp \in ControlPlane /\ c.cp.zone = IF provider = "gcp" THEN zones[1] ELSE 0
  BY <1>1, <1>2, ControlPlaneIs
<1> QED BY <1>3, <1>4, MadeCovers DEF c, Made

LEMMA PatchConfigIs ==
    ASSUME NEW provider \in Providers, NEW zones \in Seq(Nat),
           configAccepts(provider, NodeCIDR, zones), NEW existing \in Infrastructure
    PROVE  LET c == getConfig(provider, zones, FALSE, existing)
           IN  /\ c.infra \in Infrastructure /\ ZonesDiffer(c.infra)
               /\ Covered(provider, c.infra, ToSet(zones)) /\ KeptInfra(provider, existing, c.infra)
               /\ c.cp \in ControlPlane
               /\ c.cp.zone = IF provider = "gcp" THEN zones[1] ELSE 0
<1> DEFINE c == getConfig(provider, zones, FALSE, existing)
           d == FALSE /\ provider = "aws" /\ existing = None
           b == FALSE /\ existing = None
<1>0. existing # None
  BY ShootAssumption DEF ShootAssumption
<1>1. /\ c.infra = IF existing # None /\ keptOnPatch(provider)
                   THEN NewInfrastructureConfigForPatch(provider, NodeCIDR, zones, existing)
                   ELSE NewInfrastructureConfig(provider, NodeCIDR, zones, d)
      /\ c.cp = NewControlPlaneConfig(provider, zones, b)
  BY DEF getConfig
<1>2. d \in BOOLEAN /\ b \in BOOLEAN
  OBVIOUS
<1> HIDE DEF c, d, b
<1>3. Made(provider, c.infra, zones) /\ KeptInfra(provider, existing, c.infra)
  <2>1. CASE keptOnPatch(provider)
    BY <1>0, <1>1, <2>1, ForPatchConfigIs
  <2>2. CASE ~keptOnPatch(provider)
    <3>1. Made(provider, c.infra, zones)
      BY <1>1, <1>2, <2>2, NewConfigIs
    <3> QED BY <2>2, <3>1 DEF KeptInfra, keptOnPatch
  <2> QED BY <2>1, <2>2
<1>4. c.cp \in ControlPlane /\ c.cp.zone = IF provider = "gcp" THEN zones[1] ELSE 0
  BY <1>1, <1>2, ControlPlaneIs
<1> QED BY <1>3, <1>4, MadeCovers DEF c, Made

\* Only a zone that no pool of the shoot has asks for a new configuration.
LEMMA NeedsConfigIs ==
    ASSUME NEW provider, NEW ws \in Seq(WorkerPool), NEW s, s.workers \in Seq(WorkerPool)
    PROVE  patchNeedsConfig(provider, ws, s) <=>
             ~(ZonesIn(ws) \subseteq ZonesIn(s.workers)) /\ ~isAzureLiteSetup(provider, s.infra)
<1> DEFINE zs == getNetworkingZonesFromWorkers(s.workers)
           zr == getNetworkingZonesFromWorkers(ws)
<1>1. zs \in Seq(Nat) /\ ToSet(zs) = ZonesIn(s.workers)
  BY NetworkingZonesIs
<1>2. zr \in Seq(Nat) /\ ToSet(zr) = ZonesIn(ws)
  BY NetworkingZonesIs
<1> HIDE DEF zs, zr
<1>3. newZonesAdded(zs, zr) = <<>> <=> ToSet(zr) \subseteq ToSet(zs)
  BY <1>1, <1>2, NewZonesAddedIs
<1> QED BY <1>1, <1>2, <1>3 DEF patchNeedsConfig, zs, zr

\* The configuration after a conversion: every zone of the shoot and of the Runtime
\* is covered if those of the shoot have been.
LEMMA ConfigForPatchIs ==
    ASSUME NEW provider \in Providers, NEW ws \in Seq(WorkerPool), NEW s,
           s.workers \in Seq(WorkerPool), s.infra \in Infrastructure, ZonesDiffer(s.infra),
           s.cp \in ControlPlane, Covered(provider, s.infra, ZonesIn(s.workers)),
           patchNeedsConfig(provider, ws, s) => configAccepts(provider, NodeCIDR, zonesForPatch(ws, s))
    PROVE  LET c == configForPatch(provider, ws, s)
           IN  /\ c.infra \in Infrastructure /\ ZonesDiffer(c.infra) /\ c.cp \in ControlPlane
               /\ Covered(provider, c.infra, ZonesIn(s.workers) \cup ZonesIn(ws))
               /\ provider \in {"aws", "azure"} =>
                    KeptInfra(provider, s.infra, c.infra) \/ c.infra = s.infra
               /\ isAzureLiteSetup(provider, s.infra) => c.infra = s.infra
               /\ provider # "gcp" => c.cp.zone \in {0, s.cp.zone}
               /\ s.workers # <<>> /\ s.workers[1].zones # <<>> /\ s.cp.zone = s.workers[1].zones[1]
                    => c.cp.zone = s.cp.zone \/ provider # "gcp"
               /\ ZonesIn(ws) \subseteq ZonesIn(s.workers) => c.infra = s.infra /\ c.cp = s.cp
<1> DEFINE c == configForPatch(provider, ws, s)
           zs == getNetworkingZonesFromWorkers(s.workers)
           zr == getNetworkingZonesFromWorkers(ws)
           zones == zonesForPatch(ws, s)
<1>1. /\ zs \in Seq(Nat) /\ ToSet(zs) = ZonesIn(s.workers)
      /\ s.workers # <<>> /\ s.workers[1].zones # <<>> => zs # <<>> /\ zs[1] = s.workers[1].zones[1]
  BY NetworkingZonesIs
<1>2. zr \in Seq(Nat) /\ ToSet(zr) = ZonesIn(ws)
  BY NetworkingZonesIs
<1> HIDE DEF zs, zr
<1>3. zones \in Seq(Nat) /\ ToSet(zones) = ToSet(zs) \cup ToSet(zr) /\ Extends(zs, zones)
  BY <1>1, <1>2, MergedZonesIs DEF zonesForPatch, zs, zr
<1>5. patchNeedsConfig(provider, ws, s) <=>
        ~(ZonesIn(ws) \subseteq ZonesIn(s.workers)) /\ ~isAzureLiteSetup(provider, s.infra)
  BY NeedsConfigIs
<1> HIDE DEF zones
<1>6. CASE patchNeedsConfig(provider, ws, s)
  <2>1. c = getConfig(provider, zones, FALSE, s.infra)
    BY <1>6 DEF configForPatch, zones
  <2>2. configAccepts(provider, NodeCIDR, zones)
    BY <1>6 DEF zones
  <2>3. /\ c.infra \in Infrastructure /\ ZonesDiffer(c.infra)
        /\ Covered(provider, c.infra, ToSet(zones)) /\ KeptInfra(provider, s.infra, c.infra)
        /\ c.cp \in ControlPlane
        /\ c.cp.zone = IF provider = "gcp" THEN zones[1] ELSE 0
    <3> DEFINE old == s.infra
    <3>1. old \in Infrastructure
      OBVIOUS
    <3>2. c = getConfig(provider, zones, FALSE, old)
      BY <2>1
    <3> HIDE DEF old, c
    <3>3. zones \in Seq(Nat)
      BY <1>3
    <3>4. LET g == getConfig(provider, zones, FALSE, old)
          IN  /\ g.infra \in Infrastructure /\ ZonesDiffer(g.infra)
              /\ Covered(provider, g.infra, ToSet(zones)) /\ KeptInfra(provider, old, g.infra)
              /\ g.cp \in ControlPlane
              /\ g.cp.zone = IF provider = "gcp" THEN zones[1] ELSE 0
      BY <2>2, <3>1, <3>3, PatchConfigIs
    <3> QED BY <3>2, <3>4 DEF old
  <2>4. s.workers # <<>> /\ s.workers[1].zones # <<>> => zones[1] = s.workers[1].zones[1]
    <3>1. zs # <<>> => Len(zs) \in Nat /\ Len(zs) >= 1 /\ zones[1] = zs[1]
      BY <1>1, <1>3 DEF Extends
    <3> QED BY <1>1, <3>1
  <2>5. ToSet(zones) = ZonesIn(s.workers) \cup ZonesIn(ws)
    BY <1>1, <1>2, <1>3
  <2> HIDE DEF c
  <2> QED BY <1>5, <1>6, <2>3, <2>4, <2>5 DEF c
<1>7. CASE ~patchNeedsConfig(provider, ws, s)
  <2>1. c.infra = s.infra /\ c.cp = s.cp
    BY <1>7 DEF configForPatch
  <2>2. Covered(provider, s.infra, ZonesIn(s.workers) \cup ZonesIn(ws))
    <3>1. CASE isAzureLiteSetup(provider, s.infra)
      BY <3>1 DEF Covered
    <3>2. CASE ZonesIn(ws) \subseteq ZonesIn(s.workers)
      <4>1. ZonesIn(s.workers) \cup ZonesIn(ws) = ZonesIn(s.workers)
        BY <3>2
      <4> QED BY <4>1
    <3> QED BY <1>5, <1>7, <3>1, <3>2
  <2> HIDE DEF c
  <2> QED BY <2>1, <2>2 DEF c
<1> QED BY <1>6, <1>7

-----------------------------------------------------------------------------
(* The pools of a patch.                                                   *)

\* The worker pools that a patch brings.
PatchedPools(rw, sw) == alignWorkersWithGardener(Prepared(sortWorkersToShootOrder(rw, sw)), sw)

\* Pools of the same name keep their zones in their order, and no image gets older.
Grown(sw, a) ==
    \A i \in 1..Len(sw), j \in 1..Len(a) : sw[i].name = a[j].name =>
        /\ Extends(sw[i].zones, a[j].zones) /\ ToSet(sw[i].zones) \subseteq ToSet(a[j].zones)
        /\ sw[i].image.name = a[j].image.name => sw[i].image.version <= a[j].image.version

LEMMA SumOfNat ==
    ASSUME NEW ws \in Seq(WorkerPool)
    PROVE  sumMaxPods(ws) \in Nat
<1>1. PICK h \in [0..Len(ws) -> Nat] : h[Len(ws)] = sumMaxPods(ws)
  BY SumSteps
<1> QED BY <1>1

LEMMA SortedPrepared ==
    ASSUME NEW rw \in Seq(WorkerPool), NamesDiffer(rw), NEW sw \in Seq(ShootPool)
    PROVE  LET W == sortWorkersToShootOrder(rw, sw)
               B == Prepared(W)
           IN  /\ W \in Seq(WorkerPool) /\ Len(W) = Len(rw) /\ NamesDiffer(W)
               /\ \A p \in 1..Len(rw) : \E q \in 1..Len(rw) : W[p] = rw[q]
               /\ ZonesIn(W) = ZonesIn(rw)
               /\ B \in Seq(FullPool) /\ B \in Seq(WorkerPool) /\ Len(B) = Len(rw) /\ NamesDiffer(B)
               /\ \A i \in 1..Len(rw) : B[i].name = W[i].name /\ B[i].zones = W[i].zones
<1> DEFINE W == sortWorkersToShootOrder(rw, sw)
           B == Prepared(W)
<1>1. /\ W \in Seq(WorkerPool) /\ Len(W) = Len(rw) /\ NamesDiffer(W)
      /\ \A p \in 1..Len(rw) : \E q \in 1..Len(rw) : W[p] = rw[q]
      /\ ZonesIn(W) = ZonesIn(rw)
  BY SortedPools
<1> HIDE DEF W
<1>2. B \in Seq(FullPool) /\ Len(B) = Len(W) /\ \A i \in 1..Len(W) : B[i].name = W[i].name /\ B[i].zones = W[i].zones
  BY <1>1, PreparedIs
<1> HIDE DEF B
<1>3. NamesDiffer(B)
  BY <1>1, <1>2 DEF NamesDiffer
<1>4. B \in Seq(WorkerPool)
  BY <1>2, SeqTypes
<1> QED BY <1>1, <1>2, <1>3, <1>4 DEF B, W

LEMMA PatchedPoolsAre ==
    ASSUME NEW rw \in Seq(WorkerPool), NamesDiffer(rw), NEW sw \in Seq(ShootPool), NamesDiffer(sw)
    PROVE  LET W == sortWorkersToShootOrder(rw, sw)
               a == PatchedPools(rw, sw)
           IN  /\ a \in Seq(FullPool) /\ Len(a) = Len(rw) /\ NamesDiffer(a)
               /\ Grown(sw, a)
               /\ ZonesIn(a) \subseteq ZonesIn(sw) \cup ZonesIn(W)
               /\ sumMaxPods(a) = sumMaxPods(Prepared(W))
<1> DEFINE W == sortWorkersToShootOrder(rw, sw)
           B == Prepared(W)
           a == PatchedPools(rw, sw)
           k(i) == IndexByName(sw, B[i].name)
<1>1. /\ W \in Seq(WorkerPool) /\ Len(W) = Len(rw) /\ B \in Seq(FullPool) /\ B \in Seq(WorkerPool)
      /\ Len(B) = Len(rw) /\ NamesDiffer(B)
      /\ \A i \in 1..Len(rw) : B[i].name = W[i].name /\ B[i].zones = W[i].zones
  BY SortedPrepared
<1>0. a = alignWorkersWithGardener(B, sw)
  BY DEF PatchedPools
<1> HIDE DEF W, B, a
<1>2. /\ a \in Seq(FullPool) /\ Len(a) = Len(B)
      /\ \A i \in 1..Len(B) :
           /\ a[i].name = B[i].name /\ a[i].pods = B[i].pods
           /\ k(i) \in 0..Len(sw)
           /\ k(i) = 0 => a[i] = B[i]
           /\ k(i) # 0 => /\ a[i] = alignWorker(B[i], sw[k(i)]) /\ a[i] \in ShootPool
                          /\ sw[k(i)] \in ShootPool /\ sw[k(i)].name = B[i].name
  BY <1>0, <1>1, AlignedIs
<1>3. NamesDiffer(a)
  BY <1>1, <1>2 DEF NamesDiffer
<1>4. \A i \in 1..Len(sw), j \in 1..Len(B) : sw[i].name = B[j].name => k(j) = i
  BY IndexIs
<1>5. /\ Len(sw) \in Nat /\ Len(B) \in Nat /\ \A i \in 1..Len(sw) : sw[i] \in ShootPool
      /\ \A i \in 1..Len(B) : B[i] \in FullPool
  BY <1>1
<1>6. \A i \in 1..Len(B) : k(i) # 0 =>
        /\ k(i) \in 1..Len(sw)
        /\ a[i].zones = alignWorkerZonesForExtension(B[i].zones, sw[k(i)].zones)
        /\ a[i].image = alignWorkerMachineImageVersion(B[i].image, sw[k(i)].image)
  <2> HIDE DEF k
  <2> TAKE i \in 1..Len(B)
  <2> HAVE k(i) # 0
  <2>1. k(i) \in 1..Len(sw) /\ a[i] = alignWorker(B[i], sw[k(i)]) /\ sw[k(i)] \in ShootPool
    BY <1>2, <1>5
  <2>2. B[i] \in FullPool
    BY <1>5
  <2> QED BY <2>1, <2>2, AlignWorkerIs
<1> HIDE DEF k
<1>7. \A i \in 1..Len(B) : k(i) # 0 =>
        /\ ToSet(a[i].zones) = ToSet(sw[k(i)].zones) \cup ToSet(B[i].zones)
        /\ Extends(sw[k(i)].zones, a[i].zones)
        /\ sw[k(i)].image.name = a[i].image.name => sw[k(i)].image.version <= a[i].image.version
  <2> TAKE i \in 1..Len(B)
  <2> HAVE k(i) # 0
  <2> DEFINE bz == B[i].zones
             ez == sw[k(i)].zones
             bm == B[i].image
             em == sw[k(i)].image
  <2>1. bz \in Seq(Nat) /\ ez \in Seq(Nat) /\ bm \in Image /\ em \in Image
    <3>1. B[i] \in FullPool /\ sw[k(i)] \in ShootPool
      BY <1>5, <1>6
    <3> QED BY <3>1 DEF FullPool, ShootPool, Worker
  <2>2. a[i].zones = alignWorkerZonesForExtension(bz, ez) /\ a[i].image = alignWorkerMachineImageVersion(bm, em)
    BY <1>6
  <2> HIDE DEF bz, ez, bm, em
  <2>3. ToSet(a[i].zones) = ToSet(ez) \cup ToSet(bz) /\ Extends(ez, a[i].zones)
    BY <2>1, <2>2, AlignZonesIs
  <2>4. em.name = a[i].image.name => em.version <= a[i].image.version
    <3>1. LET m == alignWorkerMachineImageVersion(bm, em)
          IN  m.name = em.name => em.version <= m.version
      BY <2>1, AlignImageIs
    <3> QED BY <2>2, <3>1
  <2> QED BY <2>3, <2>4 DEF bz, ez, bm, em
<1>8. Grown(sw, a)
  <2> SUFFICES ASSUME NEW i \in 1..Len(sw), NEW j \in 1..Len(a), sw[i].name = a[j].name
               PROVE  /\ Extends(sw[i].zones, a[j].zones) /\ ToSet(sw[i].zones) \subseteq ToSet(a[j].zones)
                      /\ sw[i].image.name = a[j].image.name => sw[i].image.version <= a[j].image.version
    BY DEF Grown
  <2>1. j \in 1..Len(B) /\ k(j) = i /\ k(j) # 0
    BY <1>2, <1>4, <1>5
  <2>2. /\ ToSet(a[j].zones) = ToSet(sw[k(j)].zones) \cup ToSet(B[j].zones)
        /\ Extends(sw[k(j)].zones, a[j].zones)
        /\ sw[k(j)].image.name = a[j].image.name => sw[k(j)].image.version <= a[j].image.version
    BY <1>7, <2>1
  <2> QED BY <2>1, <2>2
<1>9. ZonesIn(a) \subseteq ZonesIn(sw) \cup ZonesIn(W)
  <2> SUFFICES ASSUME NEW i \in 1..Len(a), NEW z \in ToSet(a[i].zones)
               PROVE  z \in ZonesIn(sw) \cup ZonesIn(W)
    BY DEF ZonesIn
  <2>1. i \in 1..Len(B) /\ i \in 1..Len(W) /\ B[i].zones = W[i].zones
    BY <1>1, <1>2
  <2>2. CASE k(i) = 0
    BY <1>2, <2>1, <2>2 DEF ZonesIn
  <2>3. CASE k(i) # 0
    <3>1. z \in ToSet(sw[k(i)].zones) \/ z \in ToSet(B[i].zones)
      BY <1>7, <2>1, <2>3
    <3>2. k(i) \in 1..Len(sw)
      BY <1>6, <2>1, <2>3
    <3> QED BY <2>1, <3>1, <3>2 DEF ZonesIn
  <2> QED BY <2>2, <2>3
<1>10. sumMaxPods(a) = sumMaxPods(B)
  <2>1. a \in Seq(WorkerPool)
    BY <1>2, SeqTypes
  <2> QED BY <1>1, <1>2, <2>1, SumSame
<1> QED BY <1>1, <1>2, <1>3, <1>8, <1>9, <1>10 DEF a, W, B

\* The main pool stays the first.
LEMMA MainStays ==
    ASSUME NEW rw \in Seq(WorkerPool), NamesDiffer(rw), rw # <<>>,
           NEW sw \in Seq(ShootPool), NamesDiffer(sw), sw # <<>>, sw[1].name = rw[1].name
    PROVE  LET a == PatchedPools(rw, sw)
           IN  a # <<>> /\ a[1].name = rw[1].name /\ Extends(sw[1].zones, a[1].zones)
<1> DEFINE W == sortWorkersToShootOrder(rw, sw)
           B == Prepared(W)
           a == PatchedPools(rw, sw)
<1>1. W[1] = rw[1]
  BY SortMain
<1>2. /\ B \in Seq(FullPool) /\ Len(B) = Len(rw)
      /\ \A i \in 1..Len(rw) : B[i].name = W[i].name
  BY SortedPrepared
<1>3. a \in Seq(FullPool) /\ Len(a) = Len(rw) /\ Grown(sw, a)
  BY PatchedPoolsAre
<1>4. \A i \in 1..Len(B) : a[i].name = B[i].name
  BY <1>2, AlignedIs DEF PatchedPools
<1> HIDE DEF W, B, a
<1>5. 1 \in 1..Len(rw) /\ 1 \in 1..Len(sw)
  OBVIOUS
<1>6. a[1].name = rw[1].name /\ a # <<>> /\ 1 \in 1..Len(a)
  BY <1>1, <1>2, <1>3, <1>4, <1>5
<1>7. Extends(sw[1].zones, a[1].zones)
  BY <1>3, <1>5, <1>6 DEF Grown
<1> QED BY <1>6, <1>7 DEF a

\* What a patch has brought, the next one finds agreed on.
LEMMA PatchedAgree ==
    ASSUME NEW rw \in Seq(WorkerPool), NamesDiffer(rw), NEW sw \in Seq(ShootPool)
    PROVE  LET t == Admit(PatchedPools(rw, sw))
           IN  Agrees(Prepared(sortWorkersToShootOrder(rw, t)), t)
<1> DEFINE W == sortWorkersToShootOrder(rw, sw)
           B == Prepared(W)
           t == Admit(PatchedPools(rw, sw))
<1>1. /\ B \in Seq(FullPool) /\ Len(B) = Len(rw)
      /\ \A i \in 1..Len(rw) : B[i].name = W[i].name
  BY SortedPrepared
<1>2. Agrees(B, t)
  BY <1>1, AlignedAgrees DEF PatchedPools
<1>3. t \in Seq(ShootPool)
  BY <1>1, AlignedIs, AdmitIs DEF PatchedPools
<1> HIDE DEF B, t
<1>4. Len(t) = Len(rw) /\ \A p \in 1..Len(rw) : t[p].name = W[p].name
  BY <1>1, <1>2 DEF Agrees
<1>5. sortWorkersToShootOrder(rw, t) = W
  BY <1>3, <1>4, SortStable
<1> QED BY <1>2, <1>5 DEF B, t

\* And it finds nothing to do.
LEMMA AgreedPools ==
    ASSUME NEW rw \in Seq(WorkerPool), NamesDiffer(rw), NEW sw \in Seq(ShootPool), NamesDiffer(sw),
           Agrees(Prepared(sortWorkersToShootOrder(rw, sw)), sw)
    PROVE  /\ PatchedPools(rw, sw) = sw
           /\ ZonesIn(sortWorkersToShootOrder(rw, sw)) \subseteq ZonesIn(sw)
<1> DEFINE W == sortWorkersToShootOrder(rw, sw)
           B == Prepared(W)
<1>1. /\ B \in Seq(FullPool) /\ Len(B) = Len(rw) /\ Len(W) = Len(rw)
      /\ \A i \in 1..Len(rw) : B[i].zones = W[i].zones
  BY SortedPrepared
<1>2. PatchedPools(rw, sw) = sw
  BY <1>1, AgreedStays DEF PatchedPools
<1> HIDE DEF W, B
<1>3. ZonesIn(W) \subseteq ZonesIn(sw)
  <2>1. Agrees(B, sw)
    BY DEF W, B
  <2> SUFFICES ASSUME NEW i \in 1..Len(W), NEW z \in ToSet(W[i].zones) PROVE z \in ZonesIn(sw)
    BY DEF ZonesIn
  <2>2. i \in 1..Len(sw) /\ z \in ToSet(sw[i].zones)
    BY <1>1, <2>1 DEF Agrees
  <2> QED BY <2>2 DEF ZonesIn
<1> QED BY <1>2, <1>3 DEF W

-----------------------------------------------------------------------------
(* The conversion as a whole.                                              *)

RuntimeSpec == [provider: Providers, workers: Seq(WorkerPool), dualStack: BOOLEAN]

LEMMA ManifestIs ==
    /\ \A s \in Manifest({Strategy}) :
         /\ s.workers \in Seq(ShootPool) /\ s.workers \in Seq(FullPool) /\ s.workers \in Seq(WorkerPool)
         /\ s.infra \in Infrastructure /\ s.cp \in ControlPlane
         /\ s.extensions \in Seq(ExtensionType) /\ s.dns \in 0..1 /\ s.version \in 1..MaxVersion
    /\ \A s \in Manifest({Strategy, None}) :
         /\ s.workers \in Seq(FullPool) /\ s.workers \in Seq(WorkerPool)
         /\ s.infra \in Infrastructure /\ s.cp \in ControlPlane
         /\ s.extensions \in Seq(ExtensionType) /\ s.dns \in 0..1 /\ s.version \in 1..MaxVersion
<1>1. /\ \A s \in Manifest({Strategy}) :
           /\ s.workers \in Seq(ShootPool)
           /\ s.infra \in Infrastructure /\ s.cp \in ControlPlane
           /\ s.extensions \in Seq(ExtensionType) /\ s.dns \in 0..1 /\ s.version \in 1..MaxVersion
      /\ \A s \in Manifest({Strategy, None}) :
           /\ s.workers \in Seq(FullPool)
           /\ s.infra \in Infrastructure /\ s.cp \in ControlPlane
           /\ s.extensions \in Seq(ExtensionType) /\ s.dns \in 0..1 /\ s.version \in 1..MaxVersion
  BY DEF Manifest, ShootPool, FullPool, ControlPlane, ExtensionType, ExtensionTypes
<1> QED BY <1>1, SeqTypes

LEMMA ManifestMade ==
    ASSUME NEW infra \in Infrastructure, NEW cp \in ControlPlane, NEW exts \in Seq(ExtensionType),
           NEW dns \in 0..1, NEW version \in 1..MaxVersion
    PROVE  /\ \A ws \in Seq(ShootPool) :
                [workers |-> ws, infra |-> infra, cp |-> cp, extensions |-> exts, dns |-> dns,
                 version |-> version] \in Manifest({Strategy})
           /\ \A ws \in Seq(FullPool) :
                [workers |-> ws, infra |-> infra, cp |-> cp, extensions |-> exts, dns |-> dns,
                 version |-> version] \in Manifest({Strategy, None})
  BY DEF Manifest, ShootPool, FullPool, ControlPlane, ExtensionType, ExtensionTypes

LEMMA ManifestParts ==
    ASSUME NEW s \in Manifest({Strategy})
    PROVE  s = [workers |-> s.workers, infra |-> s.infra, cp |-> s.cp, extensions |-> s.extensions,
                dns |-> s.dns, version |-> s.version]
  BY DEF Manifest

\* What is true of every manifest for a Runtime, in Gardener or converted.
ShootOk(provider, w, s) ==
    /\ NamesDiffer(s.workers)
    /\ ZonesDiffer(s.infra) /\ Covered(provider, s.infra, ZonesIn(s.workers))
    /\ PodsCIDR # None => sumMaxPods(s.workers) <= MaxPodsFromCIDR(PodsCIDR)
    /\ ListOk(s.extensions, w)
    /\ provider # "gcp" => s.cp.zone = 0

\* The main pool is the first, and GCP's control plane is in its first zone.
Headed(r, s) ==
    /\ r.workers # <<>> /\ s.workers # <<>> /\ s.workers[1].name = r.workers[1].name
    /\ s.workers[1].zones # <<>>
    /\ r.provider = "gcp" => s.cp.zone = s.workers[1].zones[1]

LEMMA VersionIs ==
    ASSUME NEW w \in Want, NEW current \in 0..MaxVersion
    PROVE  /\ KubernetesVersion(w, current) \in 1..MaxVersion
           /\ requestedVersion(w) <= KubernetesVersion(w, current)
           /\ requestedVersion(w) <= current => KubernetesVersion(w, current) = current
<1>1. w.version \in 0..MaxVersion /\ MaxVersion \in Nat /\ DefaultVersion \in Nat \ {0} /\ DefaultVersion <= MaxVersion
  BY ShootAssumption, ExtensionsAssumption DEF Want, ShootAssumption, ExtensionsAssumption
<1>2. requestedVersion(w) \in 1..MaxVersion
  BY <1>1 DEF requestedVersion
<1> QED BY <1>1, <1>2 DEF KubernetesVersion

LEMMA DnsIs ==
    ASSUME NEW d \in 0..1
    PROVE  DNSForPatch(d) = d /\ DNSForCreate \in 0..1
  BY ExtensionsAssumption DEF DNSForPatch, DNSForCreate, ExtensionsAssumption

LEMMA KeptSame ==
    ASSUME NEW provider, NEW I \in Infrastructure, ZonesDiffer(I)
    PROVE  KeptInfra(provider, I, I)
<1>1. I.zones \in Seq(Zone)
  BY InfraType
<1>2. \A z, y \in ToSet(I.zones) : z.name = y.name => z = y
  BY <1>1 DEF ToSet, ZonesDiffer
<1> QED BY <1>2 DEF KeptInfra

LEMMA ConvertIs ==
    ASSUME NEW r \in RuntimeSpec, NamesDiffer(r.workers), NEW w \in Want,
           NEW s \in Manifest({Strategy}), ShootOk(r.provider, w, s), patchAccepts(r, s)
    PROVE  LET n == Convert(r, w, s)
           IN  /\ n \in Manifest({Strategy, None}) /\ ShootOk(r.provider, w, n)
               /\ n.workers = PatchedPools(r.workers, s.workers)
               /\ n.extensions = ExtensionsForPatch(r.provider, w, s.extensions)
               /\ Grown(s.workers, n.workers) /\ KeptInfra(r.provider, s.infra, n.infra)
               /\ isAzureLiteSetup(r.provider, s.infra) => n.infra = s.infra
               /\ Headed(r, s) => Headed(r, n) /\ n.cp.zone = s.cp.zone
               /\ r.provider # "gcp" => n.cp.zone = s.cp.zone
               /\ requestedVersion(w) <= n.version
<1> DEFINE p == r.provider
           rw == r.workers
           sw == s.workers
           W == sortWorkersToShootOrder(rw, sw)
           c == configForPatch(p, W, s)
           a == PatchedPools(rw, sw)
           x == ExtensionsForPatch(p, w, s.extensions)
           v == KubernetesVersion(w, s.version)
           n == Convert(r, w, s)
<1>1. n = [workers |-> a, infra |-> c.infra, cp |-> c.cp, extensions |-> x,
           dns |-> DNSForPatch(s.dns), version |-> v]
  BY DEF Convert, ProviderForPatch, SortedWorkers, PatchedPools, Prepared
<1>2. /\ p \in Providers /\ rw \in Seq(WorkerPool)
      /\ sw \in Seq(ShootPool) /\ sw \in Seq(WorkerPool)
      /\ s.infra \in Infrastructure /\ s.cp \in ControlPlane /\ s.dns \in 0..1
      /\ s.version \in 0..MaxVersion
  <2>1. p \in Providers /\ rw \in Seq(WorkerPool)
    BY DEF RuntimeSpec
  <2>2. /\ sw \in Seq(ShootPool) /\ sw \in Seq(WorkerPool)
        /\ s.infra \in Infrastructure /\ s.cp \in ControlPlane /\ s.dns \in 0..1
        /\ s.version \in 1..MaxVersion
    BY ManifestIs
  <2> QED BY <2>1, <2>2
<1>3. /\ NamesDiffer(sw) /\ ZonesDiffer(s.infra) /\ Covered(p, s.infra, ZonesIn(sw))
      /\ ListOk(s.extensions, w) /\ (p # "gcp" => s.cp.zone = 0)
  BY DEF ShootOk
<1>4. /\ patchNeedsConfig(p, W, s) => configAccepts(p, NodeCIDR, zonesForPatch(W, s))
      /\ setWorkerSettings(WithImages(W)).excess = 0
  BY DEF patchAccepts, SortedWorkers
<1>5. ListOk(x, w) /\ x \in Seq(ExtensionType)
  <2>1. ListOk(x, w)
    BY <1>3, ForPatchOk
  <2> QED BY <2>1 DEF ListOk, WellFormed
<1>6. v \in 1..MaxVersion /\ requestedVersion(w) <= v /\ DNSForPatch(s.dns) \in 0..1
  BY <1>2, VersionIs, DnsIs
<1> HIDE DEF p, rw, x, v
<1>7. W \in Seq(WorkerPool) /\ ZonesIn(W) = ZonesIn(rw)
  BY <1>2, SortedPrepared DEF rw
<1>8. /\ a \in Seq(FullPool) /\ NamesDiffer(a) /\ Grown(sw, a)
      /\ ZonesIn(a) \subseteq ZonesIn(sw) \cup ZonesIn(W)
      /\ sumMaxPods(a) = sumMaxPods(Prepared(W))
  BY <1>2, <1>3, PatchedPoolsAre DEF rw
<1>9. PodsCIDR # None => sumMaxPods(a) <= MaxPodsFromCIDR(PodsCIDR)
  <2>1. PodsCIDR # None => sumMaxPods(Prepared(W)) <= MaxPodsFromCIDR(PodsCIDR)
    <3> HIDE DEF W
    <3> QED BY <1>4, <1>7, PreparedIs
  <2> QED BY <1>8, <2>1
<1> HIDE DEF W, a
<1>10. /\ c.infra \in Infrastructure /\ ZonesDiffer(c.infra) /\ c.cp \in ControlPlane
       /\ Covered(p, c.infra, ZonesIn(sw) \cup ZonesIn(W))
       /\ p \in {"aws", "azure"} => KeptInfra(p, s.infra, c.infra) \/ c.infra = s.infra
       /\ isAzureLiteSetup(p, s.infra) => c.infra = s.infra
       /\ p # "gcp" => c.cp.zone \in {0, s.cp.zone}
       /\ sw # <<>> /\ sw[1].zones # <<>> /\ s.cp.zone = sw[1].zones[1]
            => c.cp.zone = s.cp.zone \/ p # "gcp"
  BY <1>2, <1>3, <1>4, <1>7, ConfigForPatchIs
<1> HIDE DEF c
<1>11. KeptInfra(p, s.infra, c.infra)
  BY <1>2, <1>3, <1>10, KeptSame DEF KeptInfra
<1>12. Covered(p, c.infra, ZonesIn(a))
  BY <1>8, <1>10 DEF Covered
<1>13. n \in Manifest({Strategy, None})
  <2> DEFINE i == c.infra
             q == c.cp
             d == DNSForPatch(s.dns)
  <2>1. i \in Infrastructure /\ q \in ControlPlane /\ d \in 0..1
    BY <1>6, <1>10
  <2>2. n = [workers |-> a, infra |-> i, cp |-> q, extensions |-> x, dns |-> d, version |-> v]
    BY <1>1
  <2> HIDE DEF i, q, d, n
  <2>3. x \in Seq(ExtensionType) /\ v \in 1..MaxVersion /\ a \in Seq(FullPool)
    BY <1>5, <1>6, <1>8
  <2>4. [workers |-> a, infra |-> i, cp |-> q, extensions |-> x, dns |-> d, version |-> v]
          \in Manifest({Strategy, None})
    BY <2>1, <2>3, ManifestMade
  <2> QED BY <2>2, <2>4
<1>14. /\ n.workers = a /\ n.infra = c.infra /\ n.cp = c.cp /\ n.extensions = x /\ n.version = v
  BY <1>1
<1>15. p # "gcp" => c.cp.zone = 0 /\ c.cp.zone = s.cp.zone
  BY <1>3, <1>10
<1> HIDE DEF n
<1>16. ShootOk(p, w, n)
  BY <1>5, <1>8, <1>9, <1>10, <1>12, <1>14, <1>15 DEF ShootOk
<1>17. ASSUME Headed(r, s) PROVE Headed(r, n) /\ n.cp.zone = s.cp.zone
  <2>1. /\ rw # <<>> /\ sw # <<>> /\ sw[1].name = rw[1].name /\ sw[1].zones # <<>>
        /\ p = "gcp" => s.cp.zone = sw[1].zones[1]
    BY <1>17 DEF Headed, rw, p
  <2>2. a # <<>> /\ a[1].name = rw[1].name /\ Extends(sw[1].zones, a[1].zones)
    BY <1>2, <1>3, <2>1, MainStays DEF rw, a
  <2>3. sw[1].zones \in Seq(Nat) /\ a[1].zones \in Seq(Nat)
    <3>1. sw[1] \in ShootPool /\ a[1] \in FullPool
      BY <1>2, <1>8, <2>1, <2>2
    <3> QED BY <3>1 DEF ShootPool, FullPool, Worker
  <2>4. a[1].zones # <<>> /\ a[1].zones[1] = sw[1].zones[1]
    <3> DEFINE y == sw[1].zones
               z == a[1].zones
    <3>1. y \in Seq(Nat) /\ z \in Seq(Nat) /\ y # <<>> /\ Extends(y, z)
      BY <2>1, <2>2, <2>3
    <3> HIDE DEF y, z
    <3>2. Len(y) >= 1 /\ Len(y) <= Len(z) /\ Len(y) \in Nat /\ Len(z) \in Nat
      BY <3>1 DEF Extends
    <3>3. 1 \in 1..Len(y) /\ z # <<>>
      BY <3>1, <3>2
    <3>4. z[1] = y[1]
      BY <3>1, <3>3 DEF Extends
    <3> QED BY <3>3, <3>4 DEF y, z
  <2>5. c.cp.zone = s.cp.zone
    BY <1>10, <1>15, <2>1
  <2> QED BY <1>14, <2>1, <2>2, <2>4, <2>5 DEF Headed, rw, p
<1> QED BY <1>6, <1>8, <1>10, <1>11, <1>13, <1>14, <1>15, <1>16, <1>17 DEF n, p, rw, a, x

\* A manifest as Gardener takes it, with other extensions, DNS providers and version.
Stored(n, exts, dns, version) ==
    [workers |-> Admit(n.workers), infra |-> n.infra, cp |-> n.cp, extensions |-> exts,
     dns |-> dns, version |-> version]

LEMMA StoredIs ==
    ASSUME NEW r, NEW provider, NEW w, NEW n \in Manifest({Strategy, None}),
           ShootOk(provider, w, n), NEW exts, ListOk(exts, w), NEW dns \in 0..1,
           NEW version \in 1..MaxVersion
    PROVE  LET s == Stored(n, exts, dns, version)
           IN  /\ s \in Manifest({Strategy}) /\ ShootOk(provider, w, s)
               /\ Headed(r, n) => Headed(r, s)
<1> DEFINE ws == n.workers
           t == Admit(ws)
           s == Stored(n, exts, dns, version)
<1>1. ws \in Seq(FullPool) /\ ws \in Seq(WorkerPool) /\ n.infra \in Infrastructure /\ n.cp \in ControlPlane
  BY ManifestIs
<1>2. /\ NamesDiffer(ws) /\ ZonesDiffer(n.infra) /\ Covered(provider, n.infra, ZonesIn(ws))
      /\ PodsCIDR # None => sumMaxPods(ws) <= MaxPodsFromCIDR(PodsCIDR)
      /\ provider # "gcp" => n.cp.zone = 0
  BY DEF ShootOk
<1> HIDE DEF ws
<1>3. /\ t \in Seq(ShootPool) /\ Len(t) = Len(ws)
      /\ \A i \in 1..Len(ws) : t[i].name = ws[i].name /\ t[i].zones = ws[i].zones /\ t[i].pods = ws[i].pods
  BY <1>1, AdmitIs
<1>4. /\ s.workers = t /\ s.infra = n.infra /\ s.cp = n.cp /\ s.extensions = exts
  BY DEF Stored, ws
<1>5. s \in Manifest({Strategy})
  <2> DEFINE i == n.infra
             q == n.cp
  <2>1. i \in Infrastructure /\ q \in ControlPlane /\ exts \in Seq(ExtensionType)
    BY <1>1 DEF ListOk, WellFormed
  <2>2. s = [workers |-> t, infra |-> i, cp |-> q, extensions |-> exts, dns |-> dns, version |-> version]
    BY DEF Stored, ws
  <2> HIDE DEF i, q, s, t
  <2>3. [workers |-> t, infra |-> i, cp |-> q, extensions |-> exts, dns |-> dns, version |-> version]
          \in Manifest({Strategy})
    BY <1>3, <2>1, ManifestMade
  <2> QED BY <2>2, <2>3
<1> HIDE DEF t, s
<1>6. NamesDiffer(t)
  BY <1>2, <1>3 DEF NamesDiffer
<1>7. ZonesIn(t) = ZonesIn(ws)
  BY <1>3 DEF ZonesIn
<1>8. sumMaxPods(t) = sumMaxPods(ws)
  <2>1. t \in Seq(WorkerPool)
    BY <1>3, SeqTypes
  <2> QED BY <1>1, <1>3, <2>1, SumSame
<1>9. ShootOk(provider, w, s)
  BY <1>2, <1>4, <1>6, <1>7, <1>8 DEF ShootOk
<1>10. Headed(r, n) => Headed(r, s)
  <2> HAVE Headed(r, n)
  <2>1. ws # <<>> => 1 \in 1..Len(ws) /\ t # <<>>
    BY <1>1, <1>3
  <2> QED BY <1>3, <1>4, <2>1 DEF Headed, ws
<1> QED BY <1>5, <1>9, <1>10 DEF s

\* The manifests that CreateShoot and LegacyShoot store.
Created(r, w) ==
    LET p == ProviderForCreate(r)
    IN  [workers |-> Admit(p.workers), infra |-> p.infra, cp |-> p.cp,
         extensions |-> ExtensionsForCreate(r.provider, w),
         dns |-> DNSForCreate, version |-> KubernetesVersion(w, 0)]

CreatedBefore(r, w) ==
    LET p == ProviderForCreate(r)
    IN  [workers |-> Admit(p.workers), cp |-> p.cp,
         infra |-> IF r.provider = "azure" THEN [p.infra EXCEPT !.zones = <<>>] ELSE p.infra,
         extensions |-> <<Extension("dns", TRUE, 0)>>,
         dns |-> 0, version |-> KubernetesVersion(w, 0)]

LEMMA ForCreateOk ==
    ASSUME NEW r \in RuntimeSpec, NamesDiffer(r.workers), NEW w \in Want, createAccepts(r),
           NEW exts, ListOk(exts, w), NEW dns \in 0..1
    PROVE  LET p == ProviderForCreate(r)
               n == [workers |-> p.workers, infra |-> p.infra, cp |-> p.cp, extensions |-> exts,
                     dns |-> dns, version |-> KubernetesVersion(w, 0)]
           IN  /\ n \in Manifest({Strategy, None}) /\ ShootOk(r.provider, w, n)
               /\ r.workers # <<>> /\ r.workers[1].zones # <<>> => Headed(r, n)
<1> DEFINE p == ProviderForCreate(r)
           rw == r.workers
           B == Prepared(rw)
           zones == getNetworkingZonesFromWorkers(rw)
           c == getConfig(r.provider, zones, r.dualStack, None)
           v == KubernetesVersion(w, 0)
           n == [workers |-> p.workers, infra |-> p.infra, cp |-> p.cp, extensions |-> exts,
                 dns |-> dns, version |-> v]
<1>1. r.provider \in Providers /\ rw \in Seq(WorkerPool) /\ r.dualStack \in BOOLEAN
  BY DEF RuntimeSpec
<1>2. p.workers = B /\ p.infra = c.infra /\ p.cp = c.cp
  BY DEF ProviderForCreate, Prepared
<1>3. configAccepts(r.provider, NodeCIDR, zones) /\ setWorkerSettings(WithImages(rw)).excess = 0
  BY DEF createAccepts
<1>4. v \in 1..MaxVersion
  <2>1. 0 \in 0..MaxVersion
    BY ShootAssumption DEF ShootAssumption
  <2> QED BY <2>1, VersionIs
<1>5. exts \in Seq(ExtensionType)
  BY DEF ListOk, WellFormed
<1>6. /\ B \in Seq(FullPool) /\ Len(B) = Len(rw)
      /\ \A i \in 1..Len(rw) : B[i].name = rw[i].name /\ B[i].zones = rw[i].zones
      /\ PodsCIDR # None => sumMaxPods(B) <= MaxPodsFromCIDR(PodsCIDR)
  BY <1>1, <1>3, PreparedIs
<1>7. /\ zones \in Seq(Nat) /\ ToSet(zones) = ZonesIn(rw)
      /\ rw # <<>> /\ rw[1].zones # <<>> => zones[1] = rw[1].zones[1]
  BY <1>1, NetworkingZonesIs
<1> HIDE DEF zones
<1>8. /\ c.infra \in Infrastructure /\ ZonesDiffer(c.infra)
      /\ Covered(r.provider, c.infra, ToSet(zones))
      /\ c.cp \in ControlPlane
      /\ c.cp.zone = IF r.provider = "gcp" THEN zones[1] ELSE 0
  <2> DEFINE pr == r.provider
             du == r.dualStack
  <2>1. pr \in Providers /\ du \in BOOLEAN /\ configAccepts(pr, NodeCIDR, zones)
    BY <1>1, <1>3
  <2> HIDE DEF pr, du
  <2>2. LET g == getConfig(pr, zones, du, None)
        IN  /\ g.infra \in Infrastructure /\ ZonesDiffer(g.infra)
            /\ Covered(pr, g.infra, ToSet(zones))
            /\ g.cp \in ControlPlane
            /\ g.cp.zone = IF pr = "gcp" THEN zones[1] ELSE 0
    BY <1>7, <2>1, CreateConfigIs
  <2> QED BY <2>2 DEF pr, du
<1> HIDE DEF p, B, c, v
<1>9. n.workers = B /\ n.infra = c.infra /\ n.cp = c.cp /\ n.extensions = exts
  BY <1>2
<1>10. n \in Manifest({Strategy, None})
  <2> DEFINE i == c.infra
             q == c.cp
  <2>1. i \in Infrastructure /\ q \in ControlPlane
    BY <1>8
  <2>2. n = [workers |-> B, infra |-> i, cp |-> q, extensions |-> exts, dns |-> dns, version |-> v]
    BY <1>2
  <2> HIDE DEF i, q, n
  <2>3. [workers |-> B, infra |-> i, cp |-> q, extensions |-> exts, dns |-> dns, version |-> v]
          \in Manifest({Strategy, None})
    BY <1>4, <1>5, <1>6, <2>1, ManifestMade
  <2> QED BY <2>2, <2>3
<1> HIDE DEF n
<1>11. NamesDiffer(B)
  BY <1>6 DEF NamesDiffer
<1>12. ZonesIn(B) = ZonesIn(rw)
  BY <1>6 DEF ZonesIn
<1>13. ShootOk(r.provider, w, n)
  BY <1>6, <1>7, <1>8, <1>9, <1>11, <1>12 DEF ShootOk
<1>14. rw # <<>> /\ rw[1].zones # <<>> => Headed(r, n)
  <2> HAVE rw # <<>> /\ rw[1].zones # <<>>
  <2>1. 1 \in 1..Len(rw) /\ B # <<>>
    BY <1>1, <1>6
  <2>2. B[1].name = rw[1].name /\ B[1].zones = rw[1].zones
    BY <1>6, <2>1
  <2>3. r.provider = "gcp" => c.cp.zone = rw[1].zones[1]
    BY <1>7, <1>8
  <2> QED BY <1>9, <2>1, <2>2, <2>3 DEF Headed
<1> QED BY <1>10, <1>13, <1>14 DEF n, p, v

LEMMA CreatedIs ==
    ASSUME NEW r \in RuntimeSpec, NamesDiffer(r.workers), NEW w \in Want, createAccepts(r)
    PROVE  LET s == Created(r, w)
           IN  /\ s \in Manifest({Strategy}) /\ ShootOk(r.provider, w, s)
               /\ r.workers # <<>> /\ r.workers[1].zones # <<>> => Headed(r, s)
<1> DEFINE p == ProviderForCreate(r)
           x == ExtensionsForCreate(r.provider, w)
           d == DNSForCreate
           v == KubernetesVersion(w, 0)
           n == [workers |-> p.workers, infra |-> p.infra, cp |-> p.cp, extensions |-> x,
                 dns |-> d, version |-> v]
<1>1. ListOk(x, w) /\ d \in 0..1
  BY ForCreateIs, DnsIs
<1>2. v \in 1..MaxVersion
  <2>1. 0 \in 0..MaxVersion
    BY ShootAssumption DEF ShootAssumption
  <2> QED BY <2>1, VersionIs
<1> HIDE DEF x, d
<1>3. /\ n \in Manifest({Strategy, None}) /\ ShootOk(r.provider, w, n)
      /\ r.workers # <<>> /\ r.workers[1].zones # <<>> => Headed(r, n)
  BY <1>1, ForCreateOk
<1>4. Created(r, w) = Stored(n, x, d, v)
  BY DEF Created, Stored, x, d
<1> DEFINE pr == r.provider
<1> HIDE DEF n, v, pr
<1>5. LET s == Stored(n, x, d, v)
      IN  /\ s \in Manifest({Strategy}) /\ ShootOk(pr, w, s)
          /\ Headed(r, n) => Headed(r, s)
  <2>1. ShootOk(pr, w, n)
    BY <1>3 DEF pr
  <2> QED BY <1>1, <1>2, <1>3, <2>1, StoredIs
<1> QED BY <1>3, <1>4, <1>5 DEF pr

LEMMA CreatedBeforeIs ==
    ASSUME NEW r \in RuntimeSpec, NamesDiffer(r.workers), NEW w \in Want, createAccepts(r)
    PROVE  LET s == CreatedBefore(r, w)
           IN  /\ s \in Manifest({Strategy}) /\ ShootOk(r.provider, w, s)
               /\ r.workers # <<>> /\ r.workers[1].zones # <<>> => Headed(r, s)
<1> DEFINE p == ProviderForCreate(r)
           x == <<Extension("dns", TRUE, 0)>>
           v == KubernetesVersion(w, 0)
           n == [workers |-> p.workers, infra |-> p.infra, cp |-> p.cp, extensions |-> x,
                 dns |-> 0, version |-> v]
           s == CreatedBefore(r, w)
           I == IF r.provider = "azure" THEN [p.infra EXCEPT !.zones = <<>>] ELSE p.infra
<1>1. ListOk(x, w) /\ 0 \in 0..1
  <2>1. ListOk(x, w)
    BY LegacyListIs
  <2> QED BY <2>1
<1>2. v \in 1..MaxVersion
  <2>1. 0 \in 0..MaxVersion
    BY ShootAssumption DEF ShootAssumption
  <2> QED BY <2>1, VersionIs
<1>0. s = [workers |-> Admit(p.workers), cp |-> p.cp, infra |-> I, extensions |-> x,
           dns |-> 0, version |-> v]
  BY DEF CreatedBefore
<1> HIDE DEF x
<1>3. /\ n \in Manifest({Strategy, None}) /\ ShootOk(r.provider, w, n)
      /\ r.workers # <<>> /\ r.workers[1].zones # <<>> => Headed(r, n)
  BY <1>1, ForCreateOk
<1> DEFINE pr == r.provider
           m == [n EXCEPT !.infra = I]
<1>4. n.infra = p.infra /\ p.infra \in Infrastructure
  BY <1>3, ManifestIs
<1>5. I \in Infrastructure /\ (I = p.infra \/ (pr = "azure" /\ I.zones = <<>>))
  <2> DEFINE old == p.infra
             e == <<>>
  <2>1. e \in Seq(Zone) /\ old \in [zones: Seq(Zone), dualStack: BOOLEAN, tuned: SUBSET Settings]
    BY <1>4, InfraType
  <2> HIDE DEF old, e
  <2>2. /\ [old EXCEPT !.zones = e] \in [zones: Seq(Zone), dualStack: BOOLEAN, tuned: SUBSET Settings]
        /\ [old EXCEPT !.zones = e].zones = e
    BY <2>1
  <2>3. [old EXCEPT !.zones = e] \in Infrastructure
    BY <2>2, InfraType
  <2> QED BY <1>4, <2>2, <2>3 DEF old, e
<1>6. /\ m.workers = n.workers /\ m.infra = I /\ m.cp = n.cp /\ m.extensions = n.extensions
      /\ m \in Manifest({Strategy, None})
  BY <1>3, <1>5 DEF Manifest
<1>7. s = Stored(m, x, 0, v)
  BY <1>0 DEF Stored
<1> HIDE DEF n, v, pr, m, I, s, p
<1>8. ShootOk(pr, w, m)
  <2>1. ShootOk(pr, w, n)
    BY <1>3 DEF pr
  <2>2. CASE I = p.infra
    BY <1>4, <1>6, <2>1, <2>2 DEF ShootOk
  <2>3. CASE pr = "azure" /\ I.zones = <<>>
    <3>1. ZonesDiffer(I) /\ Covered(pr, I, ZonesIn(m.workers))
      BY <2>3 DEF ZonesDiffer, Covered, isAzureLiteSetup
    <3> QED BY <1>6, <2>1, <3>1 DEF ShootOk
  <2> QED BY <1>5, <2>2, <2>3
<1>9. Headed(r, n) => Headed(r, m)
  BY <1>6 DEF Headed
<1>10. /\ Stored(m, x, 0, v) \in Manifest({Strategy}) /\ ShootOk(pr, w, Stored(m, x, 0, v))
       /\ Headed(r, m) => Headed(r, Stored(m, x, 0, v))
  BY <1>1, <1>2, <1>6, <1>8, StoredIs
<1> QED BY <1>3, <1>7, <1>9, <1>10 DEF pr, s

\* A shoot that agrees with the Runtime is not changed by another conversion.
LEMMA StableIs ==
    ASSUME NEW r \in RuntimeSpec, NamesDiffer(r.workers), NEW w \in Want,
           NEW s \in Manifest({Strategy}), ShootOk(r.provider, w, s),
           Agrees(Prepared(sortWorkersToShootOrder(r.workers, s.workers)), s.workers),
           Fixed(r.provider, w, s.extensions), requestedVersion(w) <= s.version
    PROVE  Convert(r, w, s) = s
<1> DEFINE p == r.provider
           rw == r.workers
           sw == s.workers
           W == sortWorkersToShootOrder(rw, sw)
           c == configForPatch(p, W, s)
<1>1. Convert(r, w, s)
        = [workers |-> PatchedPools(rw, sw), infra |-> c.infra, cp |-> c.cp,
           extensions |-> ExtensionsForPatch(p, w, s.extensions),
           dns |-> DNSForPatch(s.dns), version |-> KubernetesVersion(w, s.version)]
  BY DEF Convert, ProviderForPatch, SortedWorkers, PatchedPools, Prepared
<1>2. rw \in Seq(WorkerPool)
  BY DEF RuntimeSpec
<1>3. /\ sw \in Seq(ShootPool) /\ sw \in Seq(WorkerPool) /\ s.dns \in 0..1 /\ s.version \in 1..MaxVersion
      /\ s.infra \in Infrastructure /\ s.cp \in ControlPlane
  BY ManifestIs
<1>4. NamesDiffer(sw) /\ ListOk(s.extensions, w)
  BY DEF ShootOk
<1>5. PatchedPools(rw, sw) = sw /\ ZonesIn(W) \subseteq ZonesIn(sw)
  BY <1>2, <1>3, <1>4, AgreedPools
<1>6. W \in Seq(WorkerPool)
  BY <1>2, <1>3, SortedPrepared
<1>7. c.infra = s.infra /\ c.cp = s.cp
  <2>1. ~patchNeedsConfig(p, W, s)
    <3> HIDE DEF W, p
    <3> QED BY <1>3, <1>5, <1>6, NeedsConfigIs
  <2> QED BY <2>1 DEF configForPatch
<1>8. ExtensionsForPatch(p, w, s.extensions) = s.extensions
  BY <1>4, ForPatchIs DEF ListOk, Fixed
<1>9. DNSForPatch(s.dns) = s.dns
  BY <1>3, DnsIs
<1>10. KubernetesVersion(w, s.version) = s.version
  <2>1. s.version \in 0..MaxVersion
    BY <1>3
  <2> QED BY <2>1, VersionIs
<1> HIDE DEF p, rw, W, c
<1>11. Convert(r, w, s) = [workers |-> s.workers, infra |-> s.infra, cp |-> s.cp,
                           extensions |-> s.extensions, dns |-> s.dns, version |-> s.version]
  BY <1>1, <1>5, <1>7, <1>8, <1>9, <1>10
<1> QED BY <1>11, ManifestParts

-----------------------------------------------------------------------------
(* The inductive invariant.                                                *)

\* Others may write to the shoot between the read and the write of a patch.
Race == "race" \in events

\* The main pool can be told from the order in which the shoot has its pools.
MainKept == MainPoolHasZones /\ "reorder" \notin events

RuntimeOk ==
    /\ NamesDiffer(rt.workers)
    /\ MainPoolHasZones => rt.workers # <<>> /\ rt.workers[1].zones # <<>>

Good(s) == ShootOk(rt.provider, want, s) /\ (MainKept => Headed(rt, s))

SameZones(ws, vs) ==
    /\ Len(ws) = Len(vs)
    /\ \A i \in 1..Len(ws) : ws[i].name = vs[i].name /\ ToSet(ws[i].zones) = ToSet(vs[i].zones)

\* What holds between the read of the shoot, the manifest made of it and the shoot
\* as it is, in the course of a patch.
Patching ==
    /\ Good(read) /\ Good(new)
    /\ Grown(read.workers, new.workers) /\ KeptInfra(rt.provider, read.infra, new.infra)
    /\ isAzureLiteSetup(rt.provider, shoot.infra)
         => [new.infra EXCEPT !.tuned = shoot.infra.tuned] = shoot.infra
    /\ MainKept => shoot.cp.zone = new.cp.zone /\ read.cp.zone = new.cp.zone
    /\ existingExtension(new.extensions, "foreign") = existingExtension(read.extensions, "foreign")

Updating ==
    /\ SameZones(shoot.workers, read.workers)
    /\ Covers(read.extensions, shoot.extensions)
    /\ ~HasRegistryCacheCountChanged => Covers(new.extensions, read.extensions)
    /\ ~Race => shoot = read

Applying ==
    /\ SameZones(shoot.workers, new.workers)
    /\ Covers(new.extensions, shoot.extensions)
    /\ ~Race => shoot.workers = Admit(new.workers) /\ shoot.infra \in {read.infra, new.infra}

\* The manifest is what the Runtime still asks for.
Following ==
    /\ new.workers = PatchedPools(rt.workers, read.workers)
    /\ new.extensions = ExtensionsForPatch(rt.provider, want, read.extensions)
    /\ requestedVersion(want) <= new.version

\* The shoot is what the Runtime asks for.
Reached ==
    /\ Agrees(Prepared(sortWorkersToShootOrder(rt.workers, shoot.workers)), shoot.workers)
    /\ Fixed(rt.provider, want, shoot.extensions)
    /\ requestedVersion(want) <= shoot.version

\* The strengthening of the properties that every step keeps.  A shoot is Good: its
\* zones are covered and its limits fit.  Between the read and the apply of a patch
\* Good is not enough, as others change the shoot meanwhile: Patching, Updating and
\* Applying say how far the shoot can be from what was read and from the manifest.
\* Following and Reached say that a patch, if nobody edits the Runtime meanwhile, ends
\* where the next conversion changes nothing.
Inv ==
    /\ TypeOK /\ RuntimeOk
    /\ shoot = None => ~settled
    /\ shoot # None => Good(shoot)
    /\ pc # "idle" => Patching
    /\ pc = "update" => Updating
    /\ pc = "apply" => Applying
    /\ settled => IF pc = "idle" THEN Reached ELSE Following

LEMMA NoneIs ==
    /\ None \notin Manifest({Strategy}) /\ None \notin Manifest({Strategy, None})
    /\ Manifest({Strategy}) \subseteq Manifest({Strategy, None})
<1>1. None \notin Manifest({Strategy, None})
  BY ShootAssumption DEF ShootAssumption
<1>2. Manifest({Strategy}) \subseteq Manifest({Strategy, None})
  <2> SUFFICES ASSUME NEW s \in Manifest({Strategy}) PROVE s \in Manifest({Strategy, None})
    OBVIOUS
  <2> DEFINE ws == s.workers
             i == s.infra
             q == s.cp
             x == s.extensions
             d == s.dns
             v == s.version
  <2>1. /\ ws \in Seq(FullPool) /\ i \in Infrastructure /\ q \in ControlPlane
        /\ x \in Seq(ExtensionType) /\ d \in 0..1 /\ v \in 1..MaxVersion
    BY ManifestIs
  <2>2. s = [workers |-> ws, infra |-> i, cp |-> q, extensions |-> x, dns |-> d, version |-> v]
    BY ManifestParts
  <2> HIDE DEF ws, i, q, x, d, v
  <2>3. [workers |-> ws, infra |-> i, cp |-> q, extensions |-> x, dns |-> d, version |-> v]
          \in Manifest({Strategy, None})
    BY <2>1, ManifestMade
  <2> QED BY <2>2, <2>3
<1> QED BY <1>1, <1>2

LEMMA TypesAre ==
    ASSUME TypeOK
    PROVE  /\ rt \in RuntimeSpec /\ want \in Want
           /\ shoot # None => shoot \in Manifest({Strategy})
           /\ pc # "idle" => read \in Manifest({Strategy}) /\ new \in Manifest({Strategy, None}) /\ shoot # None
           /\ pc = "idle" => read = None /\ new = None
           /\ pc \in {"idle", "update", "apply"} /\ events \subseteq Events /\ edits \in 0..MaxEdits
           /\ settled \in BOOLEAN
<1>1. rt \in RuntimeSpec /\ want \in Want
  BY DEF TypeOK, RuntimeSpec, Want
<1>2. /\ shoot # None => shoot \in Manifest({Strategy})
      /\ pc # "idle" => read \in Manifest({Strategy}) /\ new \in Manifest({Strategy, None}) /\ shoot # None
      /\ pc = "idle" => read = None /\ new = None
  <2> HIDE DEF Manifest
  <2> QED BY DEF TypeOK
<1>3. /\ pc \in {"idle", "update", "apply"} /\ events \subseteq Events /\ edits \in 0..MaxEdits
      /\ settled \in BOOLEAN
  BY DEF TypeOK
<1> QED BY <1>1, <1>2, <1>3

LEMMA InvInit ==
    ASSUME Init
    PROVE  Inv
<1>1. PICK s \in Scenarios : /\ events = s.events
                             /\ rt \in [provider: s.clouds, workers: FirstPools,
                                        dualStack: {"dual" \in s.events}]
  BY DEF Init
<1>2. s.clouds \subseteq Providers /\ s.events \subseteq Events
  BY ShootAssumption DEF ShootAssumption
<1>3. /\ rt.workers \in FirstPools /\ rt.provider \in Providers /\ rt.dualStack \in BOOLEAN
      /\ rt = [provider |-> rt.provider, workers |-> rt.workers, dualStack |-> rt.dualStack]
  <2> DEFINE B == {"dual" \in s.events}
  <2>1. B \subseteq BOOLEAN
    OBVIOUS
  <2> HIDE DEF B
  <2>2. rt \in [provider: s.clouds, workers: FirstPools, dualStack: B]
    BY <1>1 DEF B
  <2> QED BY <1>2, <2>1, <2>2
<1>4. rt.workers \in Seq(WorkerPool) /\ NamesDiffer(rt.workers)
  BY <1>3, ShootAssumption DEF ShootAssumption
<1>5. rt \in [provider: Providers, workers: Seq(WorkerPool), dualStack: BOOLEAN]
  BY <1>3, <1>4
<1>6. want \in [egress: BOOLEAN, ingress: BOOLEAN, acl: BOOLEAN, nvidia: BOOLEAN,
                caches: 0..1, audit: 0..2, version: 0..MaxVersion]
  BY ShootAssumption DEF Init, NoWants, ShootAssumption
<1>7. /\ shoot = None /\ pc = "idle" /\ read = None /\ new = None /\ edits = 0 /\ settled = FALSE
  BY DEF Init
<1>8. TypeOK
  <2>1. 0 \in 0..MaxEdits
    BY ShootAssumption DEF ShootAssumption
  <2>2. events \in SUBSET Events
    BY <1>1, <1>2
  <2> HIDE DEF Manifest
  <2> QED BY <1>5, <1>6, <1>7, <2>1, <2>2 DEF TypeOK
<1>9. RuntimeOk
  BY <1>3, <1>4 DEF RuntimeOk, MainPoolHasZones
<1> QED BY <1>7, <1>8, <1>9 DEF Inv

-----------------------------------------------------------------------------
\* Users: the provider and the main pool stay, and there is no way back from an
\* audit log tenant.
Edited ==
    /\ rt' \in RuntimeSpec /\ RuntimeOk' /\ rt'.provider = rt.provider
    /\ rt.workers # <<>> => rt'.workers # <<>> /\ rt'.workers[1].name = rt.workers[1].name
    /\ want' \in Want /\ (want'.audit = 0 => want.audit = 0)

LEMMA EditedKeeps ==
    ASSUME Inv, Edited, NEW event, Edit(event)
    PROVE  Inv'
<1>1. /\ settled' = FALSE /\ edits' = edits + 1 /\ edits < MaxEdits
      /\ shoot' = shoot /\ pc' = pc /\ read' = read /\ new' = new /\ events' = events
  BY DEF Edit, memVars
<1>2. TypeOK /\ edits \in 0..MaxEdits /\ MaxEdits \in Nat
  BY ShootAssumption DEF Inv, TypeOK, ShootAssumption
<1>3. TypeOK'
  <2>1. edits' \in 0..MaxEdits
    BY <1>1, <1>2
  <2>2. /\ rt' \in [provider: Providers, workers: Seq(WorkerPool), dualStack: BOOLEAN]
        /\ want' \in [egress: BOOLEAN, ingress: BOOLEAN, acl: BOOLEAN, nvidia: BOOLEAN,
                      caches: 0..1, audit: 0..2, version: 0..MaxVersion]
    BY DEF Edited, RuntimeSpec, Want
  <2> QED BY <1>1, <1>2, <2>1, <2>2 DEF TypeOK
<1>4. MainKept' = MainKept /\ Race' = Race
  BY <1>1 DEF MainKept, Race
<1>5. ASSUME NEW s, Good(s)
      PROVE  ShootOk(rt'.provider, want', s) /\ (MainKept => Headed(rt', s))
  <2>1. ShootOk(rt.provider, want, s) /\ (MainKept => Headed(rt, s))
    BY <1>5 DEF Good
  <2>2. ShootOk(rt'.provider, want', s)
    BY <2>1 DEF ShootOk, ListOk, Edited
  <2>3. MainKept => Headed(rt', s)
    BY <2>1 DEF Headed, Edited
  <2> QED BY <2>2, <2>3
<1>6. shoot # None => Good(shoot)'
  BY <1>1, <1>4, <1>5 DEF Inv, Good
<1>7. ASSUME pc # "idle" PROVE Patching'
  <2>1. Patching
    BY <1>7 DEF Inv
  <2>2. Good(read)' /\ Good(new)'
    BY <1>1, <1>4, <1>5, <2>1 DEF Patching, Good
  <2>3. rt'.provider = rt.provider
    BY DEF Edited
  <2> QED BY <1>1, <1>4, <2>1, <2>2, <2>3 DEF Patching
<1>8. pc = "update" => Updating'
  BY <1>1, <1>4 DEF Inv, Updating, HasRegistryCacheCountChanged
<1>9. pc = "apply" => Applying'
  BY <1>1, <1>4 DEF Inv, Applying
<1> QED BY <1>1, <1>3, <1>6, <1>7, <1>8, <1>9 DEF Inv, Edited

LEMMA PoolsEdited ==
    ASSUME Inv, NEW ws \in Seq(WorkerPool), NamesDiffer(ws), rt' = [rt EXCEPT !.workers = ws],
           rt.workers # <<>> => ws # <<>> /\ ws[1].name = rt.workers[1].name,
           MainPoolHasZones => ws # <<>> /\ ws[1].zones # <<>>, want' = want
    PROVE  Edited
<1>1. rt \in RuntimeSpec /\ want \in Want
  BY TypesAre DEF Inv
<1>2. rt' \in RuntimeSpec /\ rt'.workers = ws /\ rt'.provider = rt.provider
  BY <1>1 DEF RuntimeSpec
<1>3. RuntimeOk'
  BY <1>2 DEF RuntimeOk
<1> QED BY <1>1, <1>2, <1>3 DEF Edited

\* A pool changes but for its name.
LEMMA PoolEdited ==
    ASSUME Inv, NEW i \in 1..Len(rt.workers), NEW w \in WorkerPool, w.name = rt.workers[i].name,
           MainPoolHasZones /\ i = 1 => w.zones # <<>>,
           rt' = [rt EXCEPT !.workers = [rt.workers EXCEPT ![i] = w]], want' = want
    PROVE  Edited
<1> DEFINE ws == rt.workers
           vs == [ws EXCEPT ![i] = w]
<1>1. rt \in RuntimeSpec /\ NamesDiffer(ws) /\ (MainPoolHasZones => ws # <<>> /\ ws[1].zones # <<>>)
  BY TypesAre DEF Inv, RuntimeOk
<1>2. ws \in Seq(WorkerPool)
  BY <1>1 DEF RuntimeSpec
<1>3. w.name = ws[i].name /\ i \in 1..Len(ws)
  OBVIOUS
<1> HIDE DEF ws
<1>4. /\ vs \in Seq(WorkerPool) /\ Len(vs) = Len(ws) /\ Len(ws) \in Nat
      /\ \A j \in 1..Len(ws) : vs[j] = IF j = i THEN w ELSE ws[j]
  BY <1>2, <1>3
<1> HIDE DEF vs
<1>5. NamesDiffer(vs)
  BY <1>1, <1>3, <1>4 DEF NamesDiffer
<1>6. ws # <<>> /\ vs # <<>> /\ 1 \in 1..Len(ws)
  BY <1>2, <1>3, <1>4
<1>7. vs[1].name = ws[1].name
  BY <1>3, <1>4, <1>6
<1>8. MainPoolHasZones => vs[1].zones # <<>>
  BY <1>1, <1>4, <1>6
<1>9. rt' = [rt EXCEPT !.workers = vs]
  BY DEF vs, ws
<1>10. rt.workers # <<>> => vs # <<>> /\ vs[1].name = rt.workers[1].name
  BY <1>6, <1>7 DEF ws
<1> QED BY <1>4, <1>5, <1>6, <1>8, <1>9, <1>10, PoolsEdited

LEMMA InvSetZones ==
    ASSUME Inv, SetZones
    PROVE  Inv'
<1>1. PICK i \in 1..Len(rt.workers), zones \in ZoneLists : rt' = [rt EXCEPT !.workers[i].zones = zones]
  BY DEF SetZones
<1> DEFINE w == [rt.workers[i] EXCEPT !.zones = zones]
<1>2. rt \in RuntimeSpec
  BY TypesAre DEF Inv
<1>3. rt.workers \in Seq(WorkerPool)
  BY <1>2 DEF RuntimeSpec
<1>4. rt.workers[i] \in WorkerPool /\ zones \in Seq(Nat)
  BY <1>3, ShootAssumption DEF ShootAssumption
<1>5. w \in WorkerPool /\ w.name = rt.workers[i].name /\ w.zones = zones
  BY <1>4 DEF WorkerPool, Worker
<1>6. rt' = [rt EXCEPT !.workers = [rt.workers EXCEPT ![i] = w]]
  BY <1>1, <1>2 DEF RuntimeSpec
<1>7. MainPoolHasZones /\ i = 1 => w.zones # <<>>
  BY <1>5 DEF MainPoolHasZones
<1>8. want' = want /\ Edit("pools")
  BY DEF SetZones
<1> HIDE DEF w
<1>9. Edited
  BY <1>5, <1>6, <1>7, <1>8, PoolEdited
<1> QED BY <1>8, <1>9, EditedKeeps

LEMMA InvSetImage ==
    ASSUME Inv, SetImage
    PROVE  Inv'
<1>1. PICK i \in 1..Len(rt.workers), image \in Images : rt' = [rt EXCEPT !.workers[i].image = image]
  BY DEF SetImage
<1> DEFINE w == [rt.workers[i] EXCEPT !.image = image]
<1>2. rt \in RuntimeSpec /\ (MainPoolHasZones => rt.workers[1].zones # <<>>)
  BY TypesAre DEF Inv, RuntimeOk
<1>3. rt.workers \in Seq(WorkerPool)
  BY <1>2 DEF RuntimeSpec
<1>4. rt.workers[i] \in WorkerPool /\ image \in Image \cup {None}
  BY <1>3, ShootAssumption DEF ShootAssumption
<1>5. w \in WorkerPool /\ w.name = rt.workers[i].name /\ w.zones = rt.workers[i].zones
  BY <1>4 DEF WorkerPool, Worker
<1>6. rt' = [rt EXCEPT !.workers = [rt.workers EXCEPT ![i] = w]]
  BY <1>1, <1>2 DEF RuntimeSpec
<1>7. MainPoolHasZones /\ i = 1 => w.zones # <<>>
  BY <1>2, <1>5
<1>8. want' = want /\ Edit("images")
  BY DEF SetImage
<1> HIDE DEF w
<1>9. Edited
  BY <1>5, <1>6, <1>7, <1>8, PoolEdited
<1> QED BY <1>8, <1>9, EditedKeeps

LEMMA InvAddPool ==
    ASSUME Inv, AddPool
    PROVE  Inv'
<1>1. PICK w \in PoolChoices, i \in 2..(Len(rt.workers) + 1) :
         w.name \notin PoolNames /\ rt' = [rt EXCEPT !.workers = InsertAt(@, i, w)]
  BY DEF AddPool
<1> DEFINE ws == rt.workers
           vs == InsertAt(ws, i, w)
<1>2. /\ rt \in RuntimeSpec /\ NamesDiffer(ws)
      /\ MainPoolHasZones => ws # <<>> /\ ws[1].zones # <<>>
  BY TypesAre DEF Inv, RuntimeOk
<1>3. ws \in Seq(WorkerPool)
  BY <1>2 DEF RuntimeSpec
<1>4. w \in WorkerPool /\ \A k \in 1..Len(ws) : ws[k].name # w.name
  BY <1>1, ShootAssumption DEF ShootAssumption, PoolNames
<1>5. i \in 2..(Len(ws) + 1)
  OBVIOUS
<1> HIDE DEF ws
<1>6. Len(ws) \in Nat /\ i \in 1..(Len(ws) + 1)
  BY <1>3, <1>5
<1>7. /\ vs \in Seq(WorkerPool) /\ Len(vs) = Len(ws) + 1
      /\ \A p \in 1..(Len(ws) + 1) :
           vs[p] = IF p < i THEN ws[p] ELSE IF p = i THEN w ELSE ws[p - 1]
  BY <1>3, <1>4, <1>6, InsertAtIs
<1>8. rt' = [rt EXCEPT !.workers = vs]
  BY <1>1 DEF vs, ws
<1> HIDE DEF vs
<1>9. NamesDiffer(vs)
  <2> SUFFICES ASSUME NEW p \in 1..Len(vs), NEW q \in 1..Len(vs), vs[p].name = vs[q].name
               PROVE  p = q
    BY DEF NamesDiffer
  <2> DEFINE o(x) == IF x < i THEN x ELSE x - 1
  <2>1. \A x \in 1..Len(vs) : x # i => o(x) \in 1..Len(ws) /\ vs[x] = ws[o(x)]
    BY <1>5, <1>6, <1>7
  <2>2. \A x \in 1..Len(vs) : x = i => vs[x].name = w.name
    BY <1>7
  <2>3. \A x \in 1..Len(vs) : x # i => vs[x].name # w.name
    BY <1>4, <2>1
  <2>4. CASE p = i \/ q = i
    BY <2>2, <2>3, <2>4
  <2>5. CASE p # i /\ q # i
    <3>1. o(p) = o(q)
      <4>1. o(p) \in 1..Len(ws) /\ o(q) \in 1..Len(ws) /\ vs[p] = ws[o(p)] /\ vs[q] = ws[o(q)]
        BY <2>1, <2>5
      <4> HIDE DEF o
      <4> QED BY <1>2, <4>1 DEF NamesDiffer
    <3> QED BY <1>6, <1>7, <2>5, <3>1
  <2> QED BY <2>4, <2>5
<1>10. ws # <<>> => vs # <<>> /\ vs[1] = ws[1]
  <2> HAVE ws # <<>>
  <2>1. Len(ws) >= 1
    BY <1>3
  <2> QED BY <1>5, <1>6, <1>7, <2>1
<1>11. want' = want /\ Edit("pools")
  BY DEF AddPool
<1>12. /\ rt.workers # <<>> => vs # <<>> /\ vs[1].name = rt.workers[1].name
       /\ MainPoolHasZones => vs # <<>> /\ vs[1].zones # <<>>
  BY <1>2, <1>10 DEF ws
<1>13. Edited
  BY <1>7, <1>8, <1>9, <1>11, <1>12, PoolsEdited
<1> QED BY <1>11, <1>13, EditedKeeps

LEMMA InvRemovePool ==
    ASSUME Inv, RemovePool
    PROVE  Inv'
<1>1. PICK i \in 2..Len(rt.workers) : rt' = [rt EXCEPT !.workers = RemoveAt(@, i)]
  BY DEF RemovePool
<1> DEFINE ws == rt.workers
           vs == RemoveAt(ws, i)
<1>2. /\ rt \in RuntimeSpec /\ NamesDiffer(ws)
      /\ MainPoolHasZones => ws # <<>> /\ ws[1].zones # <<>>
  BY TypesAre DEF Inv, RuntimeOk
<1>3. ws \in Seq(WorkerPool)
  BY <1>2 DEF RuntimeSpec
<1>4. i \in 2..Len(ws)
  OBVIOUS
<1> HIDE DEF ws
<1>5. Len(ws) \in Nat /\ i \in 1..Len(ws)
  BY <1>3, <1>4
<1>6. /\ vs \in Seq(WorkerPool) /\ Len(vs) = Len(ws) - 1
      /\ \A p \in 1..(Len(ws) - 1) : vs[p] = IF p < i THEN ws[p] ELSE ws[p + 1]
  BY <1>3, <1>5, RemoveAtIs
<1>7. rt' = [rt EXCEPT !.workers = vs]
  BY <1>1 DEF vs, ws
<1> HIDE DEF vs
<1>8. NamesDiffer(vs)
  <2> SUFFICES ASSUME NEW p \in 1..Len(vs), NEW q \in 1..Len(vs), vs[p].name = vs[q].name
               PROVE  p = q
    BY DEF NamesDiffer
  <2> DEFINE o(x) == IF x < i THEN x ELSE x + 1
  <2>1. \A x \in 1..Len(vs) : o(x) \in 1..Len(ws) /\ vs[x] = ws[o(x)]
    BY <1>5, <1>6
  <2>2. o(p) = o(q)
    BY <1>2, <2>1 DEF NamesDiffer
  <2> QED BY <1>5, <1>6, <2>2
<1>9. ws # <<>> /\ vs # <<>> /\ vs[1] = ws[1]
  BY <1>3, <1>4, <1>5, <1>6
<1>10. want' = want /\ Edit("pools")
  BY DEF RemovePool
<1>11. /\ rt.workers # <<>> => vs # <<>> /\ vs[1].name = rt.workers[1].name
       /\ MainPoolHasZones => vs # <<>> /\ vs[1].zones # <<>>
  BY <1>2, <1>9 DEF ws
<1>12. Edited
  BY <1>6, <1>7, <1>8, <1>10, <1>11, PoolsEdited
<1> QED BY <1>10, <1>12, EditedKeeps

LEMMA WantEdited ==
    ASSUME Inv, rt' = rt, want' \in Want, want'.audit = 0 => want.audit = 0
    PROVE  Edited
<1>1. rt \in RuntimeSpec /\ RuntimeOk
  BY TypesAre DEF Inv
<1> QED BY <1>1 DEF Edited, RuntimeOk

LEMMA InvSetVersion ==
    ASSUME Inv, SetVersion
    PROVE  Inv'
<1>1. PICK v \in 0..MaxVersion : want' = [want EXCEPT !.version = v]
  BY DEF SetVersion
<1>2. want \in Want /\ rt' = rt /\ Edit("images")
  BY TypesAre DEF Inv, SetVersion
<1>3. want' \in Want /\ want'.audit = want.audit
  BY <1>1, <1>2 DEF Want
<1>4. Edited
  BY <1>2, <1>3, WantEdited
<1> QED BY <1>2, <1>4, EditedKeeps

LEMMA InvSetWants ==
    ASSUME Inv, SetWants
    PROVE  Inv'
<1>1. want \in Want /\ rt' = rt /\ Edit("wants")
  BY TypesAre DEF Inv, SetWants
<1>2. want' \in Want /\ (want'.audit = 0 => want.audit = 0)
  <2>1. ASSUME NEW f \in {"egress", "ingress", "acl", "nvidia"}, want' = [want EXCEPT ![f] = ~@]
        PROVE  want' \in Want /\ want'.audit = want.audit
    BY <1>1, <2>1 DEF Want
  <2>2. CASE want' = [want EXCEPT !.caches = 1 - @]
    BY <1>1, <2>2 DEF Want
  <2>3. CASE want.audit < 2 /\ want' = [want EXCEPT !.audit = @ + 1]
    BY <1>1, <2>3 DEF Want
  <2> QED BY <2>1, <2>2, <2>3 DEF SetWants
<1>3. Edited
  BY <1>1, <1>2, WantEdited
<1> QED BY <1>1, <1>3, EditedKeeps

-----------------------------------------------------------------------------
\* Others: the pools and the zones stay, images and versions get newer, operators
\* add to the configuration and to the extensions.
PoolsTouched(ws, vs) ==
    /\ Len(vs) = Len(ws)
    /\ \A i \in 1..Len(ws) :
         /\ vs[i].name = ws[i].name /\ vs[i].pods = ws[i].pods
         /\ ToSet(vs[i].zones) = ToSet(ws[i].zones)
         /\ "reorder" \notin events => vs[i].zones = ws[i].zones
         /\ vs[i].image.name = ws[i].image.name /\ ws[i].image.version <= vs[i].image.version

InfraTouched(I, J) ==
    /\ J.dualStack = I.dualStack /\ I.tuned \subseteq J.tuned
    /\ Len(J.zones) = Len(I.zones)
    /\ \A i \in 1..Len(I.zones) :
         /\ J.zones[i].name = I.zones[i].name /\ J.zones[i].nets = I.zones[i].nets
         /\ I.zones[i].tuned => J.zones[i].tuned

ListTouched(l, m) ==
    /\ \A w : ListOk(l, w) => ListOk(m, w)
    /\ \A u : u # "foreign" => existingExtension(m, u) = existingExtension(l, u)
    /\ existingExtension(l, "foreign") # NoExtension => existingExtension(m, "foreign") # NoExtension

Touched(s, t) ==
    /\ s \in Manifest({Strategy}) /\ t \in Manifest({Strategy})
    /\ PoolsTouched(s.workers, t.workers) /\ InfraTouched(s.infra, t.infra)
    /\ ListTouched(s.extensions, t.extensions)
    /\ t.cp = s.cp /\ s.version <= t.version

LEMMA AlignTouched ==
    ASSUME NEW b \in Image, NEW m \in Image, NEW n \in Image,
           alignWorkerMachineImageVersion(b, m) = m, n.name = m.name, m.version <= n.version
    PROVE  alignWorkerMachineImageVersion(b, n) = n
<1>1. /\ b.version \in Nat /\ m.version \in Nat /\ n.version \in Nat
      /\ b = [name |-> b.name, version |-> b.version]
      /\ m = [name |-> m.name, version |-> m.version]
      /\ n = [name |-> n.name, version |-> n.version]
  BY DEF Image
<1>2. b.name = m.name /\ b.version <= m.version
  BY <1>1 DEF alignWorkerMachineImageVersion
<1>3. CASE b.version < n.version
  BY <1>2, <1>3 DEF alignWorkerMachineImageVersion
<1>4. CASE ~(b.version < n.version)
  <2>1. b.version = n.version
    BY <1>1, <1>2, <1>4
  <2>2. b = n
    BY <1>1, <1>2, <2>1
  <2> QED BY <1>4, <2>2 DEF alignWorkerMachineImageVersion
<1> QED BY <1>3, <1>4

LEMMA AgreesTouched ==
    ASSUME NEW rw \in Seq(WorkerPool), NamesDiffer(rw), NEW sw \in Seq(ShootPool),
           NEW tw \in Seq(ShootPool), PoolsTouched(sw, tw),
           Agrees(Prepared(sortWorkersToShootOrder(rw, sw)), sw)
    PROVE  Agrees(Prepared(sortWorkersToShootOrder(rw, tw)), tw)
<1> DEFINE W == sortWorkersToShootOrder(rw, sw)
           B == Prepared(W)
<1>1. /\ B \in Seq(FullPool) /\ Len(B) = Len(rw) /\ Len(rw) \in Nat
      /\ \A i \in 1..Len(rw) : B[i].name = W[i].name
  BY SortedPrepared
<1> HIDE DEF B
<1>2. Agrees(B, sw)
  BY DEF B
<1>3. Len(tw) = Len(rw) /\ \A p \in 1..Len(rw) : tw[p].name = W[p].name
  BY <1>1, <1>2 DEF Agrees, PoolsTouched
<1>4. sortWorkersToShootOrder(rw, tw) = W
  BY <1>3, SortStable
<1>5. Agrees(B, tw)
  <2>1. \A i \in 1..Len(B) : alignWorkerMachineImageVersion(B[i].image, tw[i].image) = tw[i].image
    <3> TAKE i \in 1..Len(B)
    <3>1. i \in 1..Len(sw) /\ i \in 1..Len(tw)
      BY <1>1, <1>2, <1>3 DEF Agrees
    <3>2. B[i] \in FullPool /\ sw[i] \in FullPool /\ tw[i] \in FullPool
      BY <1>1, <3>1, PoolTypes
    <3>3. B[i].image \in Image /\ sw[i].image \in Image /\ tw[i].image \in Image
      BY <3>2, PoolTypes
    <3>4. alignWorkerMachineImageVersion(B[i].image, sw[i].image) = sw[i].image
      BY <1>2 DEF Agrees
    <3>5. tw[i].image.name = sw[i].image.name /\ sw[i].image.version <= tw[i].image.version
      BY <3>1 DEF PoolsTouched
    <3> QED BY <3>3, <3>4, <3>5, AlignTouched
  <2> QED BY <1>1, <1>2, <2>1 DEF Agrees, PoolsTouched
<1> QED BY <1>4, <1>5 DEF B

LEMMA OkTouched ==
    ASSUME NEW provider, NEW w, NEW s, NEW t, Touched(s, t), ShootOk(provider, w, s)
    PROVE  ShootOk(provider, w, t)
<1> DEFINE sw == s.workers
           tw == t.workers
           I == s.infra
           J == t.infra
<1>1. sw \in Seq(WorkerPool) /\ tw \in Seq(WorkerPool) /\ I \in Infrastructure /\ J \in Infrastructure
  BY ManifestIs DEF Touched
<1>2. PoolsTouched(sw, tw) /\ InfraTouched(I, J) /\ ListTouched(s.extensions, t.extensions)
      /\ t.cp = s.cp
  BY DEF Touched
<1>3. /\ NamesDiffer(sw) /\ ZonesDiffer(I) /\ Covered(provider, I, ZonesIn(sw))
      /\ PodsCIDR # None => sumMaxPods(sw) <= MaxPodsFromCIDR(PodsCIDR)
      /\ ListOk(s.extensions, w)
      /\ provider # "gcp" => s.cp.zone = 0
  BY DEF ShootOk
<1> HIDE DEF sw, tw, I, J
<1>4. NamesDiffer(tw)
  BY <1>2, <1>3 DEF NamesDiffer, PoolsTouched
<1>5. ZonesDiffer(J)
  BY <1>2, <1>3 DEF ZonesDiffer, InfraTouched
<1>6. sumMaxPods(tw) = sumMaxPods(sw)
  BY <1>1, <1>2, SumSame DEF PoolsTouched
<1>7. Covered(provider, J, ZonesIn(tw))
  <2>1. ZonesIn(tw) = ZonesIn(sw)
    BY <1>2 DEF ZonesIn, PoolsTouched
  <2>2. Names(J) = Names(I)
    BY <1>2 DEF Names, InfraTouched
  <2>3. I.zones \in Seq(Zone) /\ J.zones \in Seq(Zone)
    BY <1>1, InfraType
  <2>4. J.zones = <<>> <=> I.zones = <<>>
    BY <1>2, <2>3 DEF InfraTouched
  <2>5. ASSUME SubnetsFit(I.zones, NodeCIDR) PROVE SubnetsFit(J.zones, NodeCIDR)
    <3> DEFINE g == I.zones
               h == J.zones
    <3>1. g \in Seq(Zone) /\ h \in Seq(Zone) /\ SubnetsFit(g, NodeCIDR)
      BY <2>3, <2>5
    <3>2. Len(g) = Len(h) /\ \A i \in 1..Len(g) : g[i].nets = h[i].nets
      BY <1>2 DEF InfraTouched
    <3> HIDE DEF g, h
    <3>3. SubnetsFit(h, NodeCIDR)
      BY <3>1, <3>2, SubnetsSame
    <3> QED BY <3>3 DEF h
  <2> QED BY <1>3, <2>1, <2>2, <2>4, <2>5 DEF Covered, isAzureLiteSetup
<1>8. ListOk(t.extensions, w)
  BY <1>2, <1>3 DEF ListTouched
<1> QED BY <1>2, <1>3, <1>4, <1>5, <1>6, <1>7, <1>8 DEF ShootOk, sw, tw, I, J

LEMMA HeadedTouched ==
    ASSUME NEW r, NEW s, NEW t, Touched(s, t), "reorder" \notin events, Headed(r, s)
    PROVE  Headed(r, t)
<1>1. s.workers \in Seq(ShootPool) /\ t.workers \in Seq(ShootPool)
  BY ManifestIs DEF Touched
<1>2. PoolsTouched(s.workers, t.workers) /\ t.cp = s.cp
  BY DEF Touched
<1>3. s.workers # <<>>
  BY DEF Headed
<1>4. 1 \in 1..Len(s.workers) /\ t.workers # <<>>
  BY <1>1, <1>2, <1>3 DEF PoolsTouched
<1>5. t.workers[1].name = s.workers[1].name /\ t.workers[1].zones = s.workers[1].zones
  BY <1>2, <1>4 DEF PoolsTouched
<1> QED BY <1>2, <1>4, <1>5 DEF Headed

LEMMA FixedTouched ==
    ASSUME NEW provider, NEW w, NEW l, NEW m, ListTouched(l, m), Fixed(provider, w, l)
    PROVE  Fixed(provider, w, m)
<1> SUFFICES ASSUME NEW u
             PROVE  Patched(provider, w, u, existingExtension(m, u)) = existingExtension(m, u)
  BY DEF Fixed
<1>1. CASE u = "foreign"
  BY <1>1 DEF Patched
<1>2. CASE u # "foreign"
  BY <1>2 DEF Fixed, ListTouched
<1> QED BY <1>1, <1>2

LEMMA TouchedKeeps ==
    ASSUME Inv, shoot # None, Touched(shoot, shoot'), pc # "idle" => Race, edits' \in 0..MaxEdits,
           UNCHANGED <<rt, want, pc, read, new, events, settled>>
    PROVE  Inv'
<1>1. rt' = rt /\ want' = want /\ pc' = pc /\ read' = read /\ new' = new /\ events' = events
      /\ settled' = settled
  OBVIOUS
<1>2. TypeOK /\ RuntimeOk /\ Good(shoot)
  BY DEF Inv
<1>3. shoot' \in Manifest({Strategy}) /\ shoot' # None
  BY NoneIs DEF Touched
<1>4. TypeOK'
  <2> HIDE DEF Manifest
  <2> QED BY <1>1, <1>2, <1>3 DEF TypeOK
<1>5. RuntimeOk'
  BY <1>1, <1>2 DEF RuntimeOk
<1>6. MainKept' = MainKept /\ Race' = Race
  BY <1>1 DEF MainKept, Race
<1>7. Good(shoot)'
  <2>1. ShootOk(rt.provider, want, shoot')
    BY <1>2, OkTouched DEF Good
  <2>2. MainKept => Headed(rt, shoot')
    BY <1>2, HeadedTouched DEF Good, MainKept
  <2> QED BY <1>1, <1>6, <2>1, <2>2 DEF Good
<1>8. PoolsTouched(shoot.workers, shoot'.workers) /\ InfraTouched(shoot.infra, shoot'.infra)
      /\ ListTouched(shoot.extensions, shoot'.extensions) /\ shoot'.cp = shoot.cp
  BY DEF Touched
<1>9. ASSUME pc # "idle" PROVE Patching'
  <2>1. Patching
    BY <1>9 DEF Inv
  <2>2. Good(read)' /\ Good(new)'
    BY <1>1, <1>6, <2>1 DEF Patching, Good
  <2>3. ASSUME isAzureLiteSetup(rt.provider, shoot'.infra)
        PROVE  [new.infra EXCEPT !.tuned = shoot'.infra.tuned] = shoot'.infra
    <3> DEFINE I == shoot.infra
               J == shoot'.infra
               N == new.infra
    <3>1. I \in Infrastructure /\ J \in Infrastructure
      BY ManifestIs DEF Touched
    <3>2. N \in Infrastructure
      BY <1>2, <1>9, TypesAre, ManifestIs
    <3>3. InfraTouched(I, J)
      BY <1>8
    <3>4. J.zones = <<>>
      BY <2>3 DEF isAzureLiteSetup
    <3>5. rt.provider = "azure"
      BY <2>3 DEF isAzureLiteSetup
    <3>6. isAzureLiteSetup(rt.provider, I) => [N EXCEPT !.tuned = I.tuned] = I
      BY <2>1 DEF Patching
    <3> HIDE DEF I, J, N
    <3>7. I.zones \in Seq(Zone) /\ J.zones \in Seq(Zone)
      BY <3>1, InfraType
    <3>8. I.zones = <<>>
      BY <3>3, <3>4, <3>7 DEF InfraTouched
    <3>9. [N EXCEPT !.tuned = I.tuned] = I
      BY <3>5, <3>6, <3>8 DEF isAzureLiteSetup
    <3>10. N.zones = I.zones /\ N.dualStack = I.dualStack
      BY <3>2, <3>9 DEF Infrastructure
    <3>11. J.zones = I.zones /\ J.dualStack = I.dualStack
      BY <3>3, <3>4, <3>8 DEF InfraTouched
    <3>12. [N EXCEPT !.tuned = J.tuned] = J
      BY <3>1, <3>2, <3>10, <3>11 DEF Infrastructure
    <3> QED BY <3>12 DEF I, J, N
  <2> QED BY <1>1, <1>6, <1>8, <2>1, <2>2, <2>3 DEF Patching
<1>10. \A e : Covers(e, shoot.extensions) => Covers(e, shoot'.extensions)
  BY <1>8 DEF Covers, ListTouched
<1>11. \A ws : SameZones(shoot.workers, ws) => SameZones(shoot'.workers, ws)
  BY <1>8 DEF SameZones, PoolsTouched
<1>12. ASSUME pc = "update" PROVE Updating'
  <2>1. Updating /\ Race
    BY <1>12 DEF Inv
  <2> QED BY <1>1, <1>6, <1>10, <1>11, <2>1 DEF Updating, HasRegistryCacheCountChanged
<1>13. ASSUME pc = "apply" PROVE Applying'
  <2>1. Applying /\ Race
    BY <1>13 DEF Inv
  <2> QED BY <1>1, <1>6, <1>10, <1>11, <2>1 DEF Applying
<1>14. ASSUME settled, pc # "idle" PROVE Following'
  <2>1. Following
    BY <1>14 DEF Inv
  <2> QED BY <1>1, <2>1 DEF Following
<1>15. ASSUME settled, pc = "idle" PROVE Reached'
  <2>1. Reached
    BY <1>15 DEF Inv
  <2>2. /\ shoot.workers \in Seq(ShootPool) /\ shoot'.workers \in Seq(ShootPool)
        /\ shoot.version \in 1..MaxVersion /\ shoot'.version \in 1..MaxVersion
        /\ shoot.version <= shoot'.version
    BY ManifestIs DEF Touched
  <2>3. rt.workers \in Seq(WorkerPool) /\ NamesDiffer(rt.workers)
    BY <1>2, TypesAre DEF RuntimeSpec, RuntimeOk
  <2>4. Agrees(Prepared(sortWorkersToShootOrder(rt.workers, shoot'.workers)), shoot'.workers)
    BY <1>8, <2>1, <2>2, <2>3, AgreesTouched DEF Reached
  <2>5. Fixed(rt.provider, want, shoot'.extensions)
    BY <1>8, <2>1, FixedTouched DEF Reached
  <2>6. requestedVersion(want) \in Nat /\ MaxVersion \in Nat
    BY <1>2, TypesAre, ShootAssumption, ExtensionsAssumption
       DEF Want, requestedVersion, ShootAssumption, ExtensionsAssumption
  <2>7. requestedVersion(want) <= shoot'.version
    BY <2>1, <2>2, <2>6 DEF Reached
  <2> QED BY <1>1, <2>4, <2>5, <2>7 DEF Reached
<1> QED BY <1>1, <1>3, <1>4, <1>5, <1>7, <1>9, <1>12, <1>13, <1>14, <1>15 DEF Inv

LEMMA ManifestWith ==
    ASSUME NEW s \in Manifest({Strategy})
    PROVE  /\ \A v \in 1..MaxVersion : LET t == [s EXCEPT !.version = v] IN
                /\ t \in Manifest({Strategy}) /\ t.version = v
                /\ t.workers = s.workers /\ t.infra = s.infra /\ t.cp = s.cp /\ t.extensions = s.extensions
           /\ \A ws \in Seq(ShootPool) : LET t == [s EXCEPT !.workers = ws] IN
                /\ t \in Manifest({Strategy}) /\ t.workers = ws
                /\ t.version = s.version /\ t.infra = s.infra /\ t.cp = s.cp /\ t.extensions = s.extensions
           /\ \A I \in Infrastructure : LET t == [s EXCEPT !.infra = I] IN
                /\ t \in Manifest({Strategy}) /\ t.infra = I
                /\ t.version = s.version /\ t.workers = s.workers /\ t.cp = s.cp /\ t.extensions = s.extensions
           /\ \A x \in Seq(ExtensionType) : LET t == [s EXCEPT !.extensions = x] IN
                /\ t \in Manifest({Strategy}) /\ t.extensions = x
                /\ t.version = s.version /\ t.workers = s.workers /\ t.cp = s.cp /\ t.infra = s.infra
<1> DEFINE ws == s.workers
           i == s.infra
           q == s.cp
           x == s.extensions
           d == s.dns
           v == s.version
<1>1. /\ ws \in Seq(ShootPool) /\ i \in Infrastructure /\ q \in ControlPlane
      /\ x \in Seq(ExtensionType) /\ d \in 0..1 /\ v \in 1..MaxVersion
  BY ManifestIs
<1>2. s = [workers |-> ws, infra |-> i, cp |-> q, extensions |-> x, dns |-> d, version |-> v]
  BY ManifestParts
<1> HIDE DEF ws, i, q, x, d, v
<1>3. ASSUME NEW v1 \in 1..MaxVersion
      PROVE  LET t == [s EXCEPT !.version = v1] IN
                /\ t \in Manifest({Strategy}) /\ t.version = v1
                /\ t.workers = ws /\ t.infra = i /\ t.cp = q /\ t.extensions = x
  <2>1. [s EXCEPT !.version = v1]
          = [workers |-> ws, infra |-> i, cp |-> q, extensions |-> x, dns |-> d, version |-> v1]
    BY <1>2
  <2>2. [workers |-> ws, infra |-> i, cp |-> q, extensions |-> x, dns |-> d, version |-> v1]
          \in Manifest({Strategy})
    BY <1>1, ManifestMade
  <2> HIDE DEF Manifest
  <2> QED BY <2>1, <2>2
<1>4. ASSUME NEW w1 \in Seq(ShootPool)
      PROVE  LET t == [s EXCEPT !.workers = w1] IN
                /\ t \in Manifest({Strategy}) /\ t.workers = w1
                /\ t.version = v /\ t.infra = i /\ t.cp = q /\ t.extensions = x
  <2>1. [s EXCEPT !.workers = w1]
          = [workers |-> w1, infra |-> i, cp |-> q, extensions |-> x, dns |-> d, version |-> v]
    BY <1>2
  <2>2. [workers |-> w1, infra |-> i, cp |-> q, extensions |-> x, dns |-> d, version |-> v]
          \in Manifest({Strategy})
    BY <1>1, ManifestMade
  <2> HIDE DEF Manifest
  <2> QED BY <2>1, <2>2
<1>5. ASSUME NEW i1 \in Infrastructure
      PROVE  LET t == [s EXCEPT !.infra = i1] IN
                /\ t \in Manifest({Strategy}) /\ t.infra = i1
                /\ t.version = v /\ t.workers = ws /\ t.cp = q /\ t.extensions = x
  <2>1. [s EXCEPT !.infra = i1]
          = [workers |-> ws, infra |-> i1, cp |-> q, extensions |-> x, dns |-> d, version |-> v]
    BY <1>2
  <2>2. [workers |-> ws, infra |-> i1, cp |-> q, extensions |-> x, dns |-> d, version |-> v]
          \in Manifest({Strategy})
    BY <1>1, ManifestMade
  <2> HIDE DEF Manifest
  <2> QED BY <2>1, <2>2
<1>6. ASSUME NEW x1 \in Seq(ExtensionType)
      PROVE  LET t == [s EXCEPT !.extensions = x1] IN
                /\ t \in Manifest({Strategy}) /\ t.extensions = x1
                /\ t.version = v /\ t.workers = ws /\ t.cp = q /\ t.infra = i
  <2>1. [s EXCEPT !.extensions = x1]
          = [workers |-> ws, infra |-> i, cp |-> q, extensions |-> x1, dns |-> d, version |-> v]
    BY <1>2
  <2>2. [workers |-> ws, infra |-> i, cp |-> q, extensions |-> x1, dns |-> d, version |-> v]
          \in Manifest({Strategy})
    BY <1>1, ManifestMade
  <2> HIDE DEF Manifest
  <2> QED BY <2>1, <2>2
<1> QED BY <1>3, <1>4, <1>5, <1>6 DEF ws, i, q, x, v

LEMMA TouchedSame ==
    /\ \A ws \in Seq(ShootPool) : PoolsTouched(ws, ws)
    /\ \A I \in Infrastructure : InfraTouched(I, I)
    /\ \A l : ListTouched(l, l)
    /\ \A v \in 1..MaxVersion : v <= v
<1>1. ASSUME NEW ws \in Seq(ShootPool) PROVE PoolsTouched(ws, ws)
  <2>1. ASSUME NEW i \in 1..Len(ws) PROVE ws[i].image.version <= ws[i].image.version
    <3>1. ws[i] \in FullPool
      BY PoolTypes
    <3>2. ws[i].image \in Image
      BY <3>1, PoolTypes
    <3> QED BY <3>2 DEF Image
  <2> QED BY <2>1 DEF PoolsTouched
<1>2. \A I \in Infrastructure : InfraTouched(I, I)
  BY DEF InfraTouched
<1>3. \A l : ListTouched(l, l)
  BY DEF ListTouched
<1>4. \A v \in 1..MaxVersion : v <= v
  BY ShootAssumption DEF ShootAssumption
<1> QED BY <1>1, <1>2, <1>3, <1>4

LEMMA PoolTouched ==
    ASSUME NEW ws \in Seq(ShootPool), NEW i \in 1..Len(ws), NEW w \in ShootPool,
           w.name = ws[i].name, w.pods = ws[i].pods, ToSet(w.zones) = ToSet(ws[i].zones),
           "reorder" \notin events => w.zones = ws[i].zones,
           w.image.name = ws[i].image.name, ws[i].image.version <= w.image.version
    PROVE  [ws EXCEPT ![i] = w] \in Seq(ShootPool) /\ PoolsTouched(ws, [ws EXCEPT ![i] = w])
<1> DEFINE vs == [ws EXCEPT ![i] = w]
<1>1. /\ vs \in Seq(ShootPool) /\ Len(vs) = Len(ws)
      /\ \A j \in 1..Len(ws) : vs[j] = IF j = i THEN w ELSE ws[j]
  OBVIOUS
<1>2. PoolsTouched(ws, ws)
  BY TouchedSame
<1> HIDE DEF vs
<1>3. PoolsTouched(ws, vs)
  BY <1>1, <1>2 DEF PoolsTouched
<1> QED BY <1>1, <1>3 DEF vs

LEMMA ChangeKeeps ==
    ASSUME Inv, NEW event, NEW t, Change(event, t), Touched(shoot, t)
    PROVE  Inv'
<1>1. /\ shoot # None /\ shoot' = t /\ (pc # "idle" => Race) /\ edits < MaxEdits
      /\ edits' = edits + 1
      /\ UNCHANGED <<rt, want, pc, read, new, events, settled>>
  BY DEF Change, Store, memVars, Race
<1>2. edits' \in 0..MaxEdits
  BY <1>1, ShootAssumption, TypesAre DEF Inv, ShootAssumption
<1>3. Touched(shoot, shoot')
  BY <1>1
<1> QED BY <1>1, <1>2, <1>3, TouchedKeeps

LEMMA ShootIs ==
    ASSUME Inv, shoot # None
    PROVE  /\ shoot \in Manifest({Strategy}) /\ shoot.workers \in Seq(ShootPool)
           /\ shoot.infra \in Infrastructure /\ shoot.extensions \in Seq(ExtensionType)
           /\ shoot.version \in 1..MaxVersion
  BY TypesAre, ManifestIs DEF Inv

\* The four changes.
LEMMA UpgradeTouches ==
    ASSUME Inv, Upgrade
    PROVE  \E t : Change("upgrade", t) /\ Touched(shoot, t)
<1>1. CASE shoot # None /\ shoot.version < MaxVersion /\ Change("upgrade", [shoot EXCEPT !.version = @ + 1])
  <2> DEFINE v == shoot.version + 1
             t == [shoot EXCEPT !.version = v]
  <2>1. shoot \in Manifest({Strategy}) /\ v \in 1..MaxVersion /\ shoot.version <= v
    BY <1>1, ShootIs, ShootAssumption DEF ShootAssumption
  <2>2. Change("upgrade", t)
    BY <1>1
  <2> HIDE DEF v
  <2>3. /\ t \in Manifest({Strategy}) /\ t.version = v
        /\ t.workers = shoot.workers /\ t.infra = shoot.infra /\ t.cp = shoot.cp
        /\ t.extensions = shoot.extensions
    BY <2>1, ManifestWith
  <2> HIDE DEF t
  <2>4. Touched(shoot, t)
    BY <1>1, <2>1, <2>3, ShootIs, TouchedSame DEF Touched
  <2> QED BY <2>2, <2>4
<1>2. ASSUME shoot # None, NEW i \in 1..Len(shoot.workers), shoot.workers[i].image.version < MaxVersion,
             Change("upgrade", [shoot EXCEPT !.workers[i].image.version = @ + 1])
      PROVE  \E t : Change("upgrade", t) /\ Touched(shoot, t)
  <2> DEFINE ws == shoot.workers
             m == ws[i].image
             n == [m EXCEPT !.version = @ + 1]
             w == [ws[i] EXCEPT !.image = n]
             vs == [ws EXCEPT ![i] = w]
             t == [shoot EXCEPT !.workers = vs]
  <2>1. shoot \in Manifest({Strategy}) /\ ws \in Seq(ShootPool)
    BY <1>2, ShootIs
  <2>2. ws[i] \in ShootPool
    BY <2>1
  <2>3. m \in Image
    BY <2>2, PoolTypes
  <2>4. n \in Image /\ n.name = m.name /\ m.version <= n.version
    BY <2>3 DEF Image
  <2>5. /\ w \in ShootPool /\ w.name = ws[i].name /\ w.pods = ws[i].pods /\ w.zones = ws[i].zones
        /\ w.image = n
    <3> HIDE DEF n
    <3> QED BY <2>2, <2>4 DEF ShootPool, Worker
  <2>6. t = [shoot EXCEPT !.workers[i].image.version = @ + 1]
    BY <2>1, <2>2, <2>3 DEF Manifest, Worker, ShootPool, Image
  <2>7. vs \in Seq(ShootPool) /\ PoolsTouched(ws, vs)
    <3> HIDE DEF ws, w, n
    <3>1. i \in 1..Len(ws)
      BY DEF ws
    <3> QED BY <2>1, <2>4, <2>5, <3>1, PoolTouched
  <2>8. Change("upgrade", t)
    BY <1>2, <2>6
  <2> HIDE DEF vs
  <2>9. /\ t \in Manifest({Strategy}) /\ t.workers = vs
        /\ t.version = shoot.version /\ t.infra = shoot.infra /\ t.cp = shoot.cp
        /\ t.extensions = shoot.extensions
    BY <2>1, <2>7, ManifestWith
  <2> HIDE DEF t
  <2>10. Touched(shoot, t)
    BY <1>2, <2>1, <2>7, <2>9, ShootIs, TouchedSame DEF Touched
  <2> QED BY <2>8, <2>10
<1> QED BY <1>1, <1>2 DEF Upgrade

LEMMA ReverseIs ==
    ASSUME NEW Z, NEW s \in Seq(Z)
    PROVE  Reverse(s) \in Seq(Z) /\ ToSet(Reverse(s)) = ToSet(s)
<1> DEFINE r == Reverse(s)
<1>1. /\ Len(s) \in Nat /\ DOMAIN s = 1..Len(s) /\ DOMAIN r = 1..Len(s)
      /\ \A i \in 1..Len(s) : r[i] = s[Len(s) - i + 1]
  BY DEF Reverse
<1>2. \A i \in 1..Len(s) : Len(s) - i + 1 \in 1..Len(s) /\ Len(s) - (Len(s) - i + 1) + 1 = i
  BY <1>1
<1>3. r \in Seq(Z)
  BY <1>1, <1>2 DEF Reverse
<1> HIDE DEF r
<1>4. ToSet(r) = ToSet(s)
  BY <1>1, <1>2 DEF ToSet
<1> QED BY <1>3, <1>4 DEF r

LEMMA ReorderTouches ==
    ASSUME Inv, ReorderZones
    PROVE  \E t : Change("reorder", t) /\ Touched(shoot, t)
<1>1. shoot # None
  BY DEF ReorderZones
<1>2. PICK i \in 1..Len(shoot.workers) :
        Change("reorder", [shoot EXCEPT !.workers[i].zones = Reverse(@)])
  BY DEF ReorderZones
<1> DEFINE ws == shoot.workers
           z == Reverse(ws[i].zones)
           w == [ws[i] EXCEPT !.zones = z]
           vs == [ws EXCEPT ![i] = w]
           t == [shoot EXCEPT !.workers = vs]
<1>3. shoot \in Manifest({Strategy}) /\ ws \in Seq(ShootPool) /\ "reorder" \in events
  BY <1>1, <1>2, ShootIs DEF Change
<1>4. ws[i] \in ShootPool
  BY <1>3
<1>5. ws[i].zones \in Seq(Nat)
  BY <1>4 DEF ShootPool, Worker
<1>6. z \in Seq(Nat) /\ ToSet(z) = ToSet(ws[i].zones)
  BY <1>5, ReverseIs
<1>7. t = [shoot EXCEPT !.workers[i].zones = Reverse(@)]
  BY <1>3, <1>4 DEF Manifest, Worker, ShootPool
<1> HIDE DEF z
<1>8. /\ w \in ShootPool /\ w.name = ws[i].name /\ w.pods = ws[i].pods /\ w.zones = z
      /\ w.image = ws[i].image
  BY <1>4, <1>6 DEF ShootPool, Worker
<1>9. ws[i].image.version <= w.image.version
  <2>1. w.image \in Image
    BY <1>8, PoolTypes
  <2> QED BY <1>8, <2>1 DEF Image
<1>10. vs \in Seq(ShootPool) /\ PoolsTouched(ws, vs)
  <2> HIDE DEF ws, w
  <2>1. i \in 1..Len(ws)
    BY DEF ws
  <2> QED BY <1>3, <1>6, <1>8, <1>9, <2>1, PoolTouched
<1>11. Change("reorder", t)
  BY <1>2, <1>7
<1> HIDE DEF vs
<1>12. /\ t \in Manifest({Strategy}) /\ t.workers = vs
       /\ t.version = shoot.version /\ t.infra = shoot.infra /\ t.cp = shoot.cp
       /\ t.extensions = shoot.extensions
  BY <1>3, <1>10, ManifestWith
<1> HIDE DEF t
<1>13. Touched(shoot, t)
  BY <1>1, <1>3, <1>10, <1>12, ShootIs, TouchedSame DEF Touched
<1> QED BY <1>11, <1>13

LEMMA InfraChanged ==
    ASSUME Inv, shoot # None, NEW I \in Infrastructure, InfraTouched(shoot.infra, I)
    PROVE  Touched(shoot, [shoot EXCEPT !.infra = I])
<1> DEFINE t == [shoot EXCEPT !.infra = I]
<1>1. shoot \in Manifest({Strategy})
  BY ShootIs
<1>2. /\ t \in Manifest({Strategy}) /\ t.infra = I
      /\ t.version = shoot.version /\ t.workers = shoot.workers /\ t.cp = shoot.cp
      /\ t.extensions = shoot.extensions
  BY <1>1, ManifestWith
<1> HIDE DEF t
<1>3. Touched(shoot, t)
  BY <1>1, <1>2, ShootIs, TouchedSame DEF Touched
<1> QED BY <1>3 DEF t

LEMMA TuneTouches ==
    ASSUME Inv, Tune
    PROVE  \E t : Change("operator", t) /\ Touched(shoot, t)
<1>0. shoot # None
  BY DEF Tune
<1> DEFINE I == shoot.infra
<1>1. shoot \in Manifest({Strategy}) /\ I \in Infrastructure
  BY <1>0, ShootIs
<1>2. ASSUME NEW c \in Settings, Change("operator", [shoot EXCEPT !.infra.tuned = @ \cup {c}])
      PROVE  \E t : Change("operator", t) /\ Touched(shoot, t)
  <2> DEFINE J == [I EXCEPT !.tuned = @ \cup {c}]
  <2>1. J \in Infrastructure /\ InfraTouched(I, J)
    <3>1. J \in Infrastructure /\ J.tuned = I.tuned \cup {c} /\ J.zones = I.zones /\ J.dualStack = I.dualStack
      BY <1>1 DEF Infrastructure
    <3> HIDE DEF J
    <3> QED BY <3>1 DEF InfraTouched
  <2>2. Change("operator", [shoot EXCEPT !.infra = J])
    BY <1>1, <1>2 DEF Manifest, Infrastructure
  <2> HIDE DEF J
  <2> QED BY <1>0, <2>1, <2>2, InfraChanged
<1>3. ASSUME NEW i \in 1..Len(shoot.infra.zones),
             Change("operator", [shoot EXCEPT !.infra.zones[i].tuned = TRUE])
      PROVE  \E t : Change("operator", t) /\ Touched(shoot, t)
  <2> DEFINE zs == I.zones
             z == [zs[i] EXCEPT !.tuned = TRUE]
             ys == [zs EXCEPT ![i] = z]
             J == [I EXCEPT !.zones = ys]
  <2>1. I \in [zones: Seq(Zone), dualStack: BOOLEAN, tuned: SUBSET Settings]
    BY <1>1, InfraType
  <2>2. zs \in Seq(Zone) /\ zs[i] \in Zone
    BY <2>1
  <2>3. z \in Zone /\ z.name = zs[i].name /\ z.nets = zs[i].nets /\ z.tuned = TRUE
    BY <2>2 DEF Zone
  <2>4. [shoot EXCEPT !.infra = J] = [shoot EXCEPT !.infra.zones[i].tuned = TRUE]
    BY <1>1, <2>1, <2>2 DEF Manifest
  <2>5. /\ ys \in Seq(Zone) /\ Len(ys) = Len(zs)
        /\ \A j \in 1..Len(zs) : ys[j] = IF j = i THEN z ELSE zs[j]
    <3> HIDE DEF zs, z
    <3>1. i \in 1..Len(zs)
      BY DEF zs
    <3> QED BY <2>2, <2>3, <3>1
  <2>6. /\ J \in [zones: Seq(Zone), dualStack: BOOLEAN, tuned: SUBSET Settings]
        /\ J.zones = ys /\ J.tuned = I.tuned /\ J.dualStack = I.dualStack
    <3> HIDE DEF ys
    <3> QED BY <2>1, <2>5
  <2>7. InfraTouched(I, J)
    <3> HIDE DEF ys, J, z
    <3> QED BY <2>3, <2>5, <2>6 DEF InfraTouched
  <2>8. J \in Infrastructure
    <3> HIDE DEF J
    <3> QED BY <2>6, InfraType
  <2>9. Change("operator", [shoot EXCEPT !.infra = J])
    BY <1>3, <2>4
  <2> HIDE DEF J
  <2> QED BY <1>0, <2>7, <2>8, <2>9, InfraChanged
<1> QED BY <1>2, <1>3 DEF Tune

LEMMA ExtensionTouches ==
    ASSUME Inv, AddExtension
    PROVE  \E t : Change("operator", t) /\ Touched(shoot, t)
<1> DEFINE l == shoot.extensions
           x == Append(l, Foreign)
           t == [shoot EXCEPT !.extensions = x]
<1>1. shoot # None /\ ~Contains(l, Foreign) /\ Change("operator", t)
  BY DEF AddExtension
<1>2. shoot \in Manifest({Strategy}) /\ ListOk(l, want)
  BY <1>1, ShootIs DEF Inv, Good, ShootOk
<1>3. ASSUME NEW w, ListOk(l, w)
      PROVE  /\ ListOk(x, w) /\ existingExtension(l, "foreign") = NoExtension
             /\ \A u : u # "foreign" => existingExtension(x, u) = existingExtension(l, u)
  <2> HIDE DEF l
  <2> QED BY <1>1, <1>3, ForeignIs
<1>4. x \in Seq(ExtensionType)
  BY <1>2, <1>3 DEF ListOk, WellFormed
<1>5. ListTouched(l, x)
  <2> HIDE DEF l, x
  <2> QED BY <1>2, <1>3 DEF ListTouched
<1> HIDE DEF x
<1>6. /\ t \in Manifest({Strategy}) /\ t.extensions = x
      /\ t.version = shoot.version /\ t.workers = shoot.workers /\ t.cp = shoot.cp
      /\ t.infra = shoot.infra
  BY <1>2, <1>4, ManifestWith
<1>7. Change("operator", t)
  BY <1>1
<1> HIDE DEF t
<1>8. Touched(shoot, t)
  BY <1>1, <1>2, <1>5, <1>6, ShootIs, TouchedSame DEF Touched
<1> QED BY <1>7, <1>8

-----------------------------------------------------------------------------
\* KIM: a step after which no patch is under way.
LEMMA IdleKeeps ==
    ASSUME Inv, UNCHANGED <<rt, want, events, edits>>, pc' = "idle", read' = None, new' = None,
           shoot' \in Manifest({Strategy}), ShootOk(rt.provider, want, shoot'),
           MainKept => Headed(rt, shoot'), settled' \in BOOLEAN, settled' => Reached'
    PROVE  Inv'
<1>1. TypeOK /\ RuntimeOk
  BY DEF Inv
<1>2. shoot' # None
  BY NoneIs
<1>3. TypeOK'
  <2> HIDE DEF Manifest
  <2> QED BY <1>1 DEF TypeOK
<1>4. RuntimeOk' /\ MainKept' = MainKept
  BY <1>1 DEF RuntimeOk, MainKept
<1>5. Good(shoot)'
  BY <1>4 DEF Good
<1> QED BY <1>2, <1>3, <1>4, <1>5 DEF Inv

LEMMA FailedKeeps ==
    ASSUME Inv, shoot # None, UNCHANGED <<rt, want, events, edits, shoot>>, pc' = "idle",
           read' = None, new' = None, settled' = FALSE
    PROVE  Inv'
<1>1. shoot' \in Manifest({Strategy})
  BY ShootIs
<1>2. ShootOk(rt.provider, want, shoot') /\ (MainKept => Headed(rt, shoot'))
  BY DEF Inv, Good
<1> QED BY <1>1, <1>2, IdleKeeps

LEMMA InvCreate ==
    ASSUME Inv, CreateShoot \/ LegacyShoot
    PROVE  Inv'
<1>1. /\ shoot = None /\ createAccepts(rt) /\ shoot' \in {Created(rt, want), CreatedBefore(rt, want)}
      /\ UNCHANGED <<rt, want, pc, read, new, events, edits, settled>>
  BY DEF CreateShoot, LegacyShoot, Created, CreatedBefore, Store, memVars
<1>2. /\ rt \in RuntimeSpec /\ want \in Want /\ settled = FALSE /\ RuntimeOk
      /\ pc = "idle" /\ read = None /\ new = None
  BY <1>1, TypesAre DEF Inv
<1>3. NamesDiffer(rt.workers) /\ (MainKept => rt.workers # <<>> /\ rt.workers[1].zones # <<>>)
  BY <1>2 DEF RuntimeOk, MainKept
<1>4. /\ shoot' \in Manifest({Strategy}) /\ ShootOk(rt.provider, want, shoot')
      /\ rt.workers # <<>> /\ rt.workers[1].zones # <<>> => Headed(rt, shoot')
  BY <1>1, <1>2, <1>3, CreatedIs, CreatedBeforeIs
<1>5. settled' = FALSE /\ pc' = "idle" /\ read' = None /\ new' = None
  BY <1>1, <1>2
<1>6. MainKept => Headed(rt, shoot')
  BY <1>3, <1>4
<1> QED BY <1>1, <1>4, <1>5, <1>6, IdleKeeps

LEMMA CoversSame == \A l : Covers(l, l)
  BY DEF Covers

LEMMA SameZonesSame == \A ws : SameZones(ws, ws)
  BY DEF SameZones

LEMMA InvConvert ==
    ASSUME Inv, ConvertPatch
    PROVE  Inv'
<1> DEFINE n == Convert(rt, want, shoot)
<1>1. /\ pc = "idle" /\ shoot # None /\ patchAccepts(rt, shoot) /\ read' = shoot
      /\ new' = Convert(rt, want, shoot) /\ pc' = "update" /\ settled' = TRUE
      /\ UNCHANGED <<rt, want, shoot, events, edits>>
  BY DEF ConvertPatch
<1>2. /\ TypeOK /\ RuntimeOk /\ rt \in RuntimeSpec /\ want \in Want
      /\ ShootOk(rt.provider, want, shoot) /\ (MainKept => Headed(rt, shoot))
      /\ NamesDiffer(rt.workers)
  BY <1>1, TypesAre DEF Inv, Good, RuntimeOk
<1>3. shoot \in Manifest({Strategy})
  BY <1>1, ShootIs
<1>4. /\ n \in Manifest({Strategy, None}) /\ ShootOk(rt.provider, want, n)
      /\ n.workers = PatchedPools(rt.workers, shoot.workers)
      /\ n.extensions = ExtensionsForPatch(rt.provider, want, shoot.extensions)
      /\ Grown(shoot.workers, n.workers) /\ KeptInfra(rt.provider, shoot.infra, n.infra)
      /\ isAzureLiteSetup(rt.provider, shoot.infra) => n.infra = shoot.infra
      /\ Headed(rt, shoot) => Headed(rt, n) /\ n.cp.zone = shoot.cp.zone
      /\ requestedVersion(want) <= n.version
  BY <1>1, <1>2, <1>3, ConvertIs
<1>5. new' = n
  BY <1>1
<1> HIDE DEF n
<1>6. TypeOK'
  <2>1. n # None
    BY <1>4, NoneIs
  <2> HIDE DEF Manifest
  <2> QED BY <1>1, <1>2, <1>3, <1>4, <1>5, <2>1 DEF TypeOK
<1>7. RuntimeOk' /\ MainKept' = MainKept
  BY <1>1, <1>2 DEF RuntimeOk, MainKept
<1>8. Good(shoot)' /\ Good(read)' /\ Good(new)'
  BY <1>1, <1>2, <1>4, <1>5, <1>7 DEF Good
<1>9. shoot.infra \in Infrastructure
  BY <1>1, ShootIs
<1>10. isAzureLiteSetup(rt.provider, shoot.infra)
         => [n.infra EXCEPT !.tuned = shoot.infra.tuned] = shoot.infra
  BY <1>4, <1>9 DEF Infrastructure
<1>11. ListOk(shoot.extensions, want) /\ WellFormed(shoot.extensions)
  BY <1>2 DEF ShootOk, ListOk
<1>12. existingExtension(n.extensions, "foreign") = existingExtension(shoot.extensions, "foreign")
  <2>1. existingExtension(n.extensions, "foreign")
          = Patched(rt.provider, want, "foreign", existingExtension(shoot.extensions, "foreign"))
    BY <1>2, <1>4, <1>11, ForPatchIs
  <2> QED BY <2>1 DEF Patched
<1>13. Patching'
  BY <1>1, <1>2, <1>4, <1>5, <1>7, <1>8, <1>10, <1>12 DEF Patching
<1>14. Updating'
  <2>1. ASSUME ~HasRegistryCacheCountChanged' PROVE Covers(n.extensions, shoot.extensions)
    <3>1. \/ Find(shoot.extensions, "registry-cache") = 0
          \/ existingExtension(shoot.extensions, "registry-cache").config
               = existingExtension(n.extensions, "registry-cache").config
      BY <1>1, <1>5, <2>1 DEF HasRegistryCacheCountChanged
    <3> QED BY <1>2, <1>4, <1>11, <3>1, CoversSame, PatchCovers
  <2> QED BY <1>1, <1>5, <2>1, CoversSame, SameZonesSame DEF Updating
<1>15. Following'
  BY <1>1, <1>4, <1>5 DEF Following
<1> QED BY <1>1, <1>6, <1>7, <1>8, <1>13, <1>14, <1>15 DEF Inv

\* An apply follows.
LEMMA ApplyFollows ==
    ASSUME Inv, pc # "idle", pc' = "apply", UNCHANGED <<rt, want, events, edits, read, new, settled>>,
           shoot' \in Manifest({Strategy}), ShootOk(rt.provider, want, shoot'),
           MainKept => Headed(rt, shoot') /\ shoot'.cp.zone = new.cp.zone,
           isAzureLiteSetup(rt.provider, shoot'.infra)
             => [new.infra EXCEPT !.tuned = shoot'.infra.tuned] = shoot'.infra,
           SameZones(shoot'.workers, new.workers), Covers(new.extensions, shoot'.extensions),
           ~Race => shoot'.workers = Admit(new.workers) /\ shoot'.infra \in {read.infra, new.infra}
    PROVE  Inv'
<1>1. TypeOK /\ RuntimeOk /\ Patching /\ (settled => Following)
  BY DEF Inv
<1>2. shoot' # None
  BY NoneIs
<1>3. TypeOK'
  <2>1. read' # None /\ new' # None /\ pc' \in {"idle", "update", "apply"} /\ pc' # "idle"
    BY <1>1 DEF TypeOK
  <2> HIDE DEF Manifest
  <2> QED BY <1>1, <1>2, <2>1 DEF TypeOK
<1>4. RuntimeOk' /\ MainKept' = MainKept /\ Race' = Race
  BY <1>1 DEF RuntimeOk, MainKept, Race
<1>5. Good(shoot)' /\ Good(read)' /\ Good(new)'
  BY <1>1, <1>4 DEF Good, Patching
<1>6. Patching'
  BY <1>1, <1>4, <1>5 DEF Patching
<1>7. Applying'
  BY <1>4 DEF Applying
<1>8. settled => Following'
  BY <1>1 DEF Following
<1> QED BY <1>2, <1>3, <1>4, <1>5, <1>6, <1>7, <1>8 DEF Inv

LEMMA PatchTypes ==
    ASSUME Inv, pc # "idle"
    PROVE  /\ shoot # None /\ shoot \in Manifest({Strategy}) /\ read \in Manifest({Strategy})
           /\ new \in Manifest({Strategy, None}) /\ rt \in RuntimeSpec /\ want \in Want
           /\ Patching /\ Good(shoot) /\ Good(read) /\ Good(new)
           /\ ListOk(shoot.extensions, want) /\ ListOk(read.extensions, want) /\ ListOk(new.extensions, want)
<1>1. /\ shoot # None /\ shoot \in Manifest({Strategy}) /\ read \in Manifest({Strategy})
      /\ new \in Manifest({Strategy, None}) /\ rt \in RuntimeSpec /\ want \in Want
  BY TypesAre DEF Inv
<1>2. Patching /\ Good(shoot) /\ Good(read) /\ Good(new)
  BY <1>1 DEF Inv, Patching
<1> QED BY <1>1, <1>2 DEF Good, ShootOk

\* What the Update writes: the manifest's pools with their configuration, or those
\* that were read if they are the same.
LEMMA InvUpdate ==
    ASSUME Inv, UpdateCollections
    PROVE  Inv'
<1> DEFINE changed == read.workers # new.workers
           H == HasRegistryCacheCountChanged
           replaced == IF changed THEN withWorkers(read) ELSE read
           t == IF H THEN [replaced EXCEPT !.extensions = new.extensions] ELSE replaced
<1>1. pc = "update" /\ UNCHANGED <<rt, want, events, edits>>
  BY DEF UpdateCollections
<1>2. /\ shoot # None /\ shoot \in Manifest({Strategy}) /\ read \in Manifest({Strategy})
      /\ new \in Manifest({Strategy, None}) /\ rt \in RuntimeSpec /\ want \in Want
      /\ Patching /\ Good(shoot) /\ Good(read) /\ Good(new)
      /\ ListOk(read.extensions, want) /\ ListOk(new.extensions, want)
  BY <1>1, PatchTypes
<1>3. Updating
  BY <1>1 DEF Inv
<1>4. \/ ~changed /\ ~H /\ pc' = "apply" /\ UNCHANGED <<read, new, shoot, settled>>
      \/ (changed \/ H) /\ shoot = read /\ shoot' = t /\ pc' = "apply" /\ UNCHANGED <<read, new, settled>>
      \/ pc' = "idle" /\ read' = None /\ new' = None /\ settled' = FALSE /\ UNCHANGED shoot
  BY DEF UpdateCollections, Store
<1>5. /\ read.workers \in Seq(ShootPool) /\ new.workers \in Seq(FullPool)
      /\ read.infra \in Infrastructure /\ new.infra \in Infrastructure
      /\ read.dns \in 0..1 /\ read.version \in 1..MaxVersion
      /\ read.extensions \in Seq(ExtensionType) /\ new.extensions \in Seq(ExtensionType)
  BY <1>2, ManifestIs
<1>6. ~changed => Admit(new.workers) = read.workers
  <2> DEFINE ws == read.workers
             a == Admit(ws)
  <2>1. ws \in Seq(ShootPool) /\ ws \in Seq(FullPool)
    BY <1>5, SeqTypes
  <2> HIDE DEF ws
  <2>2. a \in Seq(ShootPool) /\ Len(a) = Len(ws) /\ \A i \in 1..Len(ws) : a[i] = ws[i]
    BY <2>1, AdmitIs
  <2> HIDE DEF a
  <2>3. a = ws
    BY <2>1, <2>2
  <2> QED BY <2>3 DEF a, ws
<1>7. /\ ShootOk(rt.provider, want, shoot) /\ (MainKept => Headed(rt, shoot))
      /\ ShootOk(rt.provider, want, read) /\ (MainKept => Headed(rt, read))
      /\ ShootOk(rt.provider, want, new) /\ (MainKept => Headed(rt, new))
  BY <1>2 DEF Good
<1>8. /\ SameZones(shoot.workers, read.workers) /\ Covers(read.extensions, shoot.extensions)
      /\ ~H => Covers(new.extensions, read.extensions)
      /\ ~Race => shoot = read
  BY <1>3 DEF Updating
<1>9. /\ isAzureLiteSetup(rt.provider, shoot.infra)
            => [new.infra EXCEPT !.tuned = shoot.infra.tuned] = shoot.infra
      /\ MainKept => shoot.cp.zone = new.cp.zone /\ read.cp.zone = new.cp.zone
  BY <1>2 DEF Patching
<1>10. CASE ~changed /\ ~H /\ pc' = "apply" /\ UNCHANGED <<read, new, shoot, settled>>
  <2>1. shoot' = shoot /\ pc # "idle"
    BY <1>1, <1>10
  <2>2. Covers(new.extensions, shoot.extensions)
    BY <1>8, <1>10 DEF Covers
  <2>3. SameZones(shoot.workers, new.workers)
    BY <1>8, <1>10
  <2>4. ~Race => shoot.workers = Admit(new.workers) /\ shoot.infra \in {read.infra, new.infra}
    BY <1>6, <1>8, <1>10
  <2>5. UNCHANGED <<rt, want, events, edits, read, new, settled>>
    BY <1>1, <1>10
  <2> HIDE DEF changed, H
  <2> QED BY <1>2, <1>7, <1>9, <1>10, <2>1, <2>2, <2>3, <2>4, <2>5, ApplyFollows
<1>11. CASE (changed \/ H) /\ shoot = read /\ shoot' = t /\ pc' = "apply" /\ UNCHANGED <<read, new, settled>>
  <2> DEFINE x == IF H THEN new.extensions ELSE read.extensions
  <2>1. ListOk(x, want) /\ x \in Seq(ExtensionType) /\ Covers(new.extensions, x)
    BY <1>2, <1>5, <1>8, CoversSame
  <2> DEFINE d == read.dns
             v == read.version
  <2>2. changed => t = Stored(new, x, d, v)
    BY <1>2 DEF withWorkers, Stored, Manifest
  <2>3. ~changed => t = [read EXCEPT !.extensions = x]
    BY <1>2 DEF Manifest
  <2>4. d \in 0..1 /\ v \in 1..MaxVersion
    BY <1>5
  <2>5. shoot' = t /\ shoot = read
    BY <1>11
  <2> HIDE DEF t, x, d, v
  <2>6. CASE changed
    <3>1. t = Stored(new, x, d, v)
      BY <2>2, <2>6
    <3>2. LET s == Stored(new, x, d, v)
          IN  /\ s \in Manifest({Strategy}) /\ ShootOk(rt.provider, want, s)
              /\ Headed(rt, new) => Headed(rt, s)
      BY <1>2, <1>7, <2>1, <2>4, StoredIs
    <3>3. t.workers = Admit(new.workers) /\ t.infra = new.infra /\ t.cp = new.cp /\ t.extensions = x
      BY <3>1 DEF Stored
    <3>4. SameZones(t.workers, new.workers)
      BY <1>5, <3>3, AdmitIs DEF SameZones
    <3>5. [new.infra EXCEPT !.tuned = new.infra.tuned] = new.infra
      BY <1>5 DEF Infrastructure
    <3>6. /\ t \in Manifest({Strategy}) /\ ShootOk(rt.provider, want, t)
          /\ MainKept => Headed(rt, t) /\ t.cp.zone = new.cp.zone
      BY <1>7, <3>1, <3>2, <3>3
    <3>7. UNCHANGED <<rt, want, events, edits, read, new, settled>> /\ pc # "idle" /\ pc' = "apply"
      BY <1>1, <1>11
    <3>8. /\ isAzureLiteSetup(rt.provider, t.infra) => [new.infra EXCEPT !.tuned = t.infra.tuned] = t.infra
          /\ Covers(new.extensions, t.extensions)
          /\ ~Race => t.workers = Admit(new.workers) /\ t.infra \in {read.infra, new.infra}
      BY <2>1, <3>3, <3>5
    <3> QED BY <2>5, <3>4, <3>6, <3>7, <3>8, ApplyFollows
  <2>7. CASE ~changed
    <3>1. t = [read EXCEPT !.extensions = x]
      BY <2>3, <2>7
    <3>2. /\ t \in Manifest({Strategy}) /\ t.extensions = x
          /\ t.version = read.version /\ t.workers = read.workers /\ t.cp = read.cp
          /\ t.infra = read.infra
      BY <1>2, <2>1, <3>1, ManifestWith
    <3>3. ShootOk(rt.provider, want, t)
      BY <1>7, <2>1, <3>2 DEF ShootOk
    <3>4. MainKept => Headed(rt, t) /\ t.cp.zone = new.cp.zone
      BY <1>7, <1>9, <3>2 DEF Headed
    <3>5. t.workers = Admit(new.workers) /\ SameZones(t.workers, new.workers)
      BY <1>6, <2>7, <3>2, SameZonesSame
    <3>6. UNCHANGED <<rt, want, events, edits, read, new, settled>> /\ pc # "idle" /\ pc' = "apply"
      BY <1>1, <1>11
    <3>7. /\ isAzureLiteSetup(rt.provider, t.infra) => [new.infra EXCEPT !.tuned = t.infra.tuned] = t.infra
          /\ Covers(new.extensions, t.extensions)
          /\ ~Race => t.workers = Admit(new.workers) /\ t.infra \in {read.infra, new.infra}
      BY <1>9, <2>1, <2>5, <3>2, <3>5
    <3> QED BY <2>5, <3>2, <3>3, <3>4, <3>5, <3>6, <3>7, ApplyFollows
  <2> QED BY <2>6, <2>7
<1>12. CASE pc' = "idle" /\ read' = None /\ new' = None /\ settled' = FALSE /\ UNCHANGED shoot
  BY <1>1, <1>2, <1>12, FailedKeeps
<1> QED BY <1>4, <1>10, <1>11, <1>12

LEMMA InvApply ==
    ASSUME Inv, ApplyPatch
    PROVE  Inv'
<1>1. pc = "apply" /\ pc' = "idle" /\ read' = None /\ new' = None /\ UNCHANGED <<rt, want, events, edits>>
  BY DEF ApplyPatch
<1>2. /\ shoot # None /\ shoot \in Manifest({Strategy}) /\ read \in Manifest({Strategy})
      /\ new \in Manifest({Strategy, None}) /\ rt \in RuntimeSpec /\ want \in Want
      /\ Good(read) /\ Good(new) /\ NamesDiffer(rt.workers)
      /\ ListOk(shoot.extensions, want) /\ ListOk(read.extensions, want) /\ ListOk(new.extensions, want)
  BY <1>1, PatchTypes DEF Inv, RuntimeOk
<1>3. Applying /\ (settled => Following) /\ settled \in BOOLEAN
  BY <1>1, TypesAre DEF Inv
<1> DEFINE x == ApplyOn(shoot.extensions, new.extensions)
           d == new.dns
           v == new.version
           t == Stored(new, x, d, v)
<1>4. \/ shoot' = t /\ settled' = settled
      \/ shoot' = shoot /\ settled' = FALSE
  <2>1. [new EXCEPT !.workers = Admit(@), !.extensions = Applied(shoot.extensions)] = t
    <3> DEFINE a == Admit(new.workers)
               y == Applied(shoot.extensions)
    <3>1. y = x
      BY AppliedIs
    <3> DEFINE i == new.infra
               q == new.cp
               l == new.extensions
               ws == new.workers
    <3>2. new = [workers |-> ws, infra |-> i, cp |-> q, extensions |-> l, dns |-> d, version |-> v]
      BY <1>2 DEF Manifest
    <3> HIDE DEF a, y, i, q, d, v, l, ws, x
    <3> DEFINE m == [new EXCEPT !.workers = a]
    <3>3. m = [workers |-> a, infra |-> i, cp |-> q, extensions |-> l, dns |-> d, version |-> v]
      BY <3>2
    <3>4. [new EXCEPT !.workers = a, !.extensions = y] = [m EXCEPT !.extensions = y]
      OBVIOUS
    <3> HIDE DEF m
    <3>5. [m EXCEPT !.extensions = y]
            = [workers |-> a, infra |-> i, cp |-> q, extensions |-> y, dns |-> d, version |-> v]
      BY <3>3
    <3> QED BY <3>1, <3>4, <3>5 DEF Stored, a, y, i, q
  <2> QED BY <2>1 DEF ApplyPatch, Store
<1>5. CASE shoot' = shoot /\ settled' = FALSE
  BY <1>1, <1>2, <1>5, FailedKeeps
<1>6. CASE shoot' = t /\ settled' = settled
  <2>1. ListOk(x, want)
    BY <1>2, ApplyOk
  <2>2. d \in 0..1 /\ v \in 1..MaxVersion /\ read.workers \in Seq(ShootPool)
    BY <1>2, ManifestIs
  <2>3. /\ t.workers = Admit(new.workers) /\ t.extensions = x /\ t.version = v
    BY DEF Stored
  <2> HIDE DEF x, d, v
  <2>4. t \in Manifest({Strategy}) /\ ShootOk(rt.provider, want, t) /\ (Headed(rt, new) => Headed(rt, t))
    BY <1>2, <2>1, <2>2, StoredIs DEF Good
  <2>5. MainKept => Headed(rt, t)
    BY <1>2, <2>4 DEF Good
  <2> HIDE DEF t
  <2>6. ASSUME settled PROVE Reached'
    <3>1. /\ new.workers = PatchedPools(rt.workers, read.workers)
          /\ new.extensions = ExtensionsForPatch(rt.provider, want, read.extensions)
          /\ requestedVersion(want) <= v
      BY <1>3, <2>6 DEF Following, v
    <3>2. rt.workers \in Seq(WorkerPool)
      BY <1>2 DEF RuntimeSpec
    <3>3. Agrees(Prepared(sortWorkersToShootOrder(rt.workers, t.workers)), t.workers)
      BY <1>2, <2>2, <2>3, <3>1, <3>2, PatchedAgree
    <3>4. WellFormed(shoot.extensions) /\ WellFormed(read.extensions)
      BY <1>2 DEF ListOk
    <3>5. Covers(ExtensionsForPatch(rt.provider, want, read.extensions), shoot.extensions)
      BY <1>3, <3>1 DEF Applying
    <3>6. Fixed(rt.provider, want, x)
      BY <1>2, <3>1, <3>4, <3>5, FixedAfter DEF x
    <3> QED BY <1>1, <1>6, <2>3, <3>1, <3>3, <3>6 DEF Reached
  <2> QED BY <1>1, <1>3, <1>6, <2>4, <2>5, <2>6, IdleKeeps
<1> QED BY <1>4, <1>5, <1>6

-----------------------------------------------------------------------------
LEMMA InvNext ==
    ASSUME Inv, [Next]_vars
    PROVE  Inv'
<1>1. CASE Upgrade
  BY <1>1, UpgradeTouches, ChangeKeeps
<1>2. CASE ReorderZones
  BY <1>2, ReorderTouches, ChangeKeeps
<1>3. CASE Tune
  BY <1>3, TuneTouches, ChangeKeeps
<1>4. CASE AddExtension
  BY <1>4, ExtensionTouches, ChangeKeeps
<1>5. CASE AddPool \/ RemovePool \/ SetZones \/ SetImage \/ SetVersion \/ SetWants
  BY <1>5, InvAddPool, InvRemovePool, InvSetZones, InvSetImage, InvSetVersion, InvSetWants
<1>6. CASE CreateShoot \/ LegacyShoot \/ ConvertPatch \/ UpdateCollections \/ ApplyPatch
  BY <1>6, InvCreate, InvConvert, InvUpdate, InvApply
<1>7. CASE UNCHANGED vars
  <2>1. /\ rt' = rt /\ want' = want /\ shoot' = shoot /\ pc' = pc /\ read' = read /\ new' = new
        /\ events' = events /\ edits' = edits /\ settled' = settled
    BY <1>7 DEF vars, memVars
  <2> QED BY <2>1 DEF Inv, TypeOK, RuntimeOk, Good, MainKept, Race, Patching, Updating, Applying,
               Following, Reached, HasRegistryCacheCountChanged
<1> QED BY <1>1, <1>2, <1>3, <1>4, <1>5, <1>6, <1>7 DEF Next

\* The ways in which a shoot changes.
ByOthers == Touched(shoot, shoot') /\ (pc # "idle" => Race)

ByUpdate ==
    /\ pc = "update" /\ shoot = read /\ shoot'.workers = Admit(new.workers)
    /\ shoot'.version = read.version /\ shoot'.extensions \in {read.extensions, new.extensions}
    /\ \/ shoot'.infra = new.infra /\ shoot'.cp = new.cp
       \/ shoot'.infra = read.infra /\ shoot'.cp = read.cp

ByApply ==
    /\ pc = "apply" /\ shoot'.workers = Admit(new.workers)
    /\ shoot'.infra = new.infra /\ shoot'.cp = new.cp
    /\ shoot'.extensions = ApplyOn(shoot.extensions, new.extensions)
    /\ shoot.version <= shoot'.version

LEMMA UpdateIs ==
    ASSUME Inv, UpdateCollections
    PROVE  shoot' = shoot \/ ByUpdate
<1> DEFINE changed == read.workers # new.workers
           H == HasRegistryCacheCountChanged
           replaced == IF changed THEN withWorkers(read) ELSE read
           t == IF H THEN [replaced EXCEPT !.extensions = new.extensions] ELSE replaced
<1>1. pc = "update" /\ (shoot' = shoot \/ (shoot = read /\ shoot' = t))
  BY DEF UpdateCollections, Store
<1>2. read \in Manifest({Strategy}) /\ new \in Manifest({Strategy, None})
  BY <1>1, PatchTypes
<1>3. read.workers \in Seq(ShootPool) /\ new.extensions \in Seq(ExtensionType)
      /\ read.extensions \in Seq(ExtensionType)
  BY <1>2, ManifestIs
<1> DEFINE x == IF H THEN new.extensions ELSE read.extensions
<1>4. x \in {read.extensions, new.extensions} /\ x \in Seq(ExtensionType)
  BY <1>3
<1>5. changed => t = Stored(new, x, read.dns, read.version)
  BY <1>2 DEF withWorkers, Stored, Manifest
<1>6. ~changed => t = [read EXCEPT !.extensions = x]
  BY <1>2 DEF Manifest
<1>7. ~changed => Admit(new.workers) = read.workers
  <2> DEFINE ws == read.workers
             a == Admit(ws)
  <2>1. ws \in Seq(ShootPool) /\ ws \in Seq(FullPool)
    BY <1>3, SeqTypes
  <2> HIDE DEF ws
  <2>2. a \in Seq(ShootPool) /\ Len(a) = Len(ws) /\ \A i \in 1..Len(ws) : a[i] = ws[i]
    BY <2>1, AdmitIs
  <2> HIDE DEF a
  <2>3. a = ws
    BY <2>1, <2>2
  <2> QED BY <2>3 DEF a, ws
<1> HIDE DEF t, x
<1>8. /\ t.workers = Admit(new.workers) /\ t.version = read.version /\ t.extensions = x
      /\ \/ t.infra = new.infra /\ t.cp = new.cp
         \/ t.infra = read.infra /\ t.cp = read.cp
  <2>1. CASE changed
    <3> HIDE DEF changed
    <3>1. t = Stored(new, x, read.dns, read.version)
      BY <1>5, <2>1
    <3> QED BY <3>1 DEF Stored
  <2>2. CASE ~changed
    <3> HIDE DEF changed
    <3>0. t = [read EXCEPT !.extensions = x]
      BY <1>6, <2>2
    <3>1. /\ t.extensions = x /\ t.version = read.version /\ t.workers = read.workers
          /\ t.cp = read.cp /\ t.infra = read.infra
      BY <1>2, <1>4, <3>0, ManifestWith
    <3> QED BY <1>7, <2>2, <3>1
  <2> QED BY <2>1, <2>2
<1> QED BY <1>1, <1>4, <1>8 DEF ByUpdate

LEMMA ApplyIs ==
    ASSUME Inv, ApplyPatch
    PROVE  shoot' = shoot \/ ByApply
<1>1. pc = "apply"
  BY DEF ApplyPatch
<1>2. new \in Manifest({Strategy, None})
  BY <1>1, PatchTypes
<1>3. shoot \in Manifest({Strategy}) /\ new.version \in 1..MaxVersion /\ MaxVersion \in Nat
  BY <1>1, <1>2, PatchTypes, ManifestIs, ShootAssumption DEF ShootAssumption
<1>4. shoot.version \in 1..MaxVersion
  BY <1>3, ManifestIs
<1> DEFINE t == [new EXCEPT !.workers = Admit(@), !.extensions = Applied(shoot.extensions)]
<1>5. /\ t.workers = Admit(new.workers) /\ t.extensions = Applied(shoot.extensions)
      /\ t.infra = new.infra /\ t.cp = new.cp /\ t.version = new.version
  BY <1>2 DEF Manifest
<1>6. shoot' = shoot \/ (shoot' = t /\ shoot.version <= new.version)
  BY <1>3, <1>4 DEF ApplyPatch, Store
<1> HIDE DEF t
<1> QED BY <1>1, <1>5, <1>6, AppliedIs DEF ByApply

LEMMA StepIs ==
    ASSUME Inv, [Next]_vars, shoot # None
    PROVE  shoot' = shoot \/ ByOthers \/ ByUpdate \/ ByApply
<1>1. ASSUME NEW event, NEW t, Change(event, t), Touched(shoot, t) PROVE ByOthers
  BY <1>1 DEF Change, Store, ByOthers, Race
<1>2. CASE Upgrade \/ ReorderZones \/ Tune \/ AddExtension
  BY <1>1, <1>2, UpgradeTouches, ReorderTouches, TuneTouches, ExtensionTouches
<1>3. CASE AddPool \/ RemovePool \/ SetZones \/ SetImage \/ SetVersion \/ SetWants
  <2>1. \E event : Edit(event)
    BY <1>3 DEF AddPool, RemovePool, SetZones, SetImage, SetVersion, SetWants
  <2> QED BY <2>1 DEF Edit
<1>4. CASE CreateShoot \/ LegacyShoot
  BY <1>4 DEF CreateShoot, LegacyShoot
<1>5. CASE ConvertPatch
  BY <1>5 DEF ConvertPatch
<1>6. CASE UpdateCollections \/ ApplyPatch
  BY <1>6, UpdateIs, ApplyIs
<1>7. CASE UNCHANGED vars
  BY <1>7 DEF vars
<1> QED BY <1>2, <1>3, <1>4, <1>5, <1>6, <1>7 DEF Next

\* What a step may do to the pools.
Stay(ws, vs) ==
    \A i \in 1..Len(ws), j \in 1..Len(vs) : ws[i].name = vs[j].name =>
        /\ ToSet(ws[i].zones) \subseteq ToSet(vs[j].zones)
        /\ ~Race => /\ pc # "idle" => Extends(ws[i].zones, vs[j].zones)
                    /\ ws[i].image.name = vs[j].image.name
                         => ws[i].image.version <= vs[j].image.version

LEMMA StaySame ==
    ASSUME NEW ws \in Seq(ShootPool), NamesDiffer(ws)
    PROVE  Stay(ws, ws)
<1> SUFFICES ASSUME NEW i \in 1..Len(ws), NEW j \in 1..Len(ws), ws[i].name = ws[j].name
             PROVE  Extends(ws[i].zones, ws[j].zones) /\ i = j /\ ws[i].image.version <= ws[j].image.version
  BY DEF Stay
<1>1. i = j
  BY DEF NamesDiffer
<1>2. ws[i] \in FullPool /\ ws[i] \in WorkerPool
  BY PoolTypes
<1>3. ws[i].image \in Image /\ ws[i].zones \in Seq(Nat)
  BY <1>2, PoolTypes, PoolFields
<1>4. ws[i].image.version <= ws[i].image.version
  BY <1>3 DEF Image
<1>5. Extends(ws[i].zones, ws[i].zones)
  BY <1>3 DEF Extends
<1> QED BY <1>1, <1>4, <1>5

LEMMA PoolsStay ==
    ASSUME Inv, [Next]_vars, shoot # None
    PROVE  Stay(shoot.workers, shoot'.workers)
<1>1. shoot.workers \in Seq(ShootPool) /\ NamesDiffer(shoot.workers)
  BY ShootIs DEF Inv, Good, ShootOk
<1>2. CASE shoot' = shoot
  BY <1>1, <1>2, StaySame
<1>3. CASE ByOthers
  <2>1. PoolsTouched(shoot.workers, shoot'.workers) /\ (pc # "idle" => Race)
    BY <1>3 DEF ByOthers, Touched
  <2> SUFFICES ASSUME NEW i \in 1..Len(shoot.workers), NEW j \in 1..Len(shoot'.workers),
                      shoot.workers[i].name = shoot'.workers[j].name
               PROVE  /\ ToSet(shoot.workers[i].zones) \subseteq ToSet(shoot'.workers[j].zones)
                      /\ shoot.workers[i].image.version <= shoot'.workers[j].image.version
    BY <2>1 DEF Stay
  <2>2. i = j
    BY <1>1, <2>1 DEF NamesDiffer, PoolsTouched
  <2> QED BY <2>1, <2>2 DEF PoolsTouched
<1>4. ASSUME pc # "idle"
      PROVE  /\ new.workers \in Seq(FullPool) /\ NamesDiffer(new.workers)
             /\ Grown(read.workers, new.workers)
             /\ Len(Admit(new.workers)) = Len(new.workers)
             /\ \A i \in 1..Len(new.workers) :
                  /\ Admit(new.workers)[i].name = new.workers[i].name
                  /\ Admit(new.workers)[i].zones = new.workers[i].zones
                  /\ Admit(new.workers)[i].image = new.workers[i].image
  <2>1. new \in Manifest({Strategy, None}) /\ Patching /\ Good(new)
    BY <1>4, PatchTypes
  <2>2. new.workers \in Seq(FullPool)
    BY <2>1, ManifestIs
  <2> QED BY <2>1, <2>2, AdmitIs DEF Good, ShootOk, Patching
<1>5. CASE ByUpdate
  <2>1. shoot = read /\ shoot'.workers = Admit(new.workers) /\ pc # "idle"
    BY <1>5 DEF ByUpdate
  <2> DEFINE ws == read.workers
             ns == new.workers
             vs == Admit(new.workers)
  <2>2. Grown(ws, ns)
    BY <1>4, <2>1
  <2>3. Len(vs) = Len(ns) /\ \A i \in 1..Len(ns) : /\ vs[i].name = ns[i].name
                                                 /\ vs[i].zones = ns[i].zones
                                                 /\ vs[i].image = ns[i].image
    BY <1>4, <2>1
  <2> HIDE DEF ws, ns, vs
  <2>4. Stay(ws, vs)
    BY <2>2, <2>3 DEF Grown, Stay
  <2> QED BY <2>1, <2>4 DEF ws, vs
<1>6. CASE ByApply
  <2>1. shoot'.workers = Admit(new.workers) /\ pc = "apply"
    BY <1>6 DEF ByApply
  <2>2. /\ SameZones(shoot.workers, new.workers)
        /\ ~Race => shoot.workers = Admit(new.workers)
    BY <2>1 DEF Inv, Applying
  <2>3. CASE ~Race
    BY <1>1, <2>1, <2>2, <2>3, StaySame
  <2>4. CASE Race
    <3> SUFFICES ASSUME NEW i \in 1..Len(shoot.workers), NEW j \in 1..Len(shoot'.workers),
                        shoot.workers[i].name = shoot'.workers[j].name
                 PROVE  ToSet(shoot.workers[i].zones) \subseteq ToSet(shoot'.workers[j].zones)
      BY <2>4 DEF Stay
    <3>1. i \in 1..Len(new.workers) /\ j \in 1..Len(new.workers) /\ new.workers[i].name = new.workers[j].name
      BY <1>4, <2>1, <2>2 DEF SameZones
    <3>2. i = j
      BY <1>4, <2>1, <3>1 DEF NamesDiffer
    <3> QED BY <1>4, <2>1, <2>2, <3>1, <3>2 DEF SameZones
  <2> QED BY <2>3, <2>4
<1> QED BY <1>2, <1>3, <1>5, <1>6, StepIs

LEMMA VersionStays ==
    ASSUME Inv, [Next]_vars, shoot # None
    PROVE  shoot.version <= shoot'.version
<1>1. shoot.version \in 1..MaxVersion
  BY ShootIs
<1>2. shoot.version <= shoot.version
  BY <1>1, TouchedSame
<1> QED BY <1>2, StepIs DEF ByOthers, ByUpdate, ByApply, Touched

LEMMA ForeignStays ==
    ASSUME Inv, [Next]_vars, shoot # None, Contains(shoot.extensions, Foreign)
    PROVE  Contains(shoot'.extensions, Foreign)
<1> DEFINE L(l) == existingExtension(l, "foreign")
<1>1. ListOk(shoot.extensions, want)
  BY DEF Inv, Good, ShootOk
<1>2. L(shoot.extensions) # NoExtension
  BY <1>1, ForeignIs
<1>3. ListOk(shoot'.extensions, want) /\ L(shoot'.extensions) # NoExtension
  <2>1. CASE shoot' = shoot
    BY <1>1, <1>2, <2>1
  <2>2. CASE ByOthers
    BY <1>1, <1>2, <2>2 DEF ByOthers, Touched, ListTouched
  <2>3. CASE ByUpdate
    <3>1. pc # "idle" /\ shoot = read /\ shoot'.extensions \in {read.extensions, new.extensions}
      BY <2>3 DEF ByUpdate
    <3>2. L(new.extensions) = L(read.extensions)
      BY <3>1, PatchTypes DEF Patching
    <3>3. ListOk(read.extensions, want) /\ ListOk(new.extensions, want)
      BY <3>1, PatchTypes
    <3> QED BY <1>2, <3>1, <3>2, <3>3
  <2>4. CASE ByApply
    <3>1. pc # "idle" /\ shoot'.extensions = ApplyOn(shoot.extensions, new.extensions)
      BY <2>4 DEF ByApply
    <3>2. ListOk(shoot.extensions, want) /\ ListOk(new.extensions, want)
      BY <3>1, PatchTypes
    <3>3. L(ApplyOn(shoot.extensions, new.extensions))
            = IF L(new.extensions) # NoExtension THEN L(new.extensions) ELSE L(shoot.extensions)
      BY <3>2, ApplyOnIs DEF ListOk
    <3>4. ListOk(ApplyOn(shoot.extensions, new.extensions), want)
      BY <3>2, ApplyOk
    <3> QED BY <1>2, <3>1, <3>3, <3>4
  <2> QED BY <2>1, <2>2, <2>3, <2>4, StepIs
<1> QED BY <1>3, ForeignIs

\* What a step may do to the configuration of the infrastructure.
LEMMA TouchedKept ==
    ASSUME NEW provider, NEW I \in Infrastructure, NEW J \in Infrastructure, InfraTouched(I, J),
           ZonesDiffer(I)
    PROVE  /\ KeptInfra(provider, I, J)
           /\ I.zones = <<>> => [J EXCEPT !.tuned = I.tuned] = I
<1>1. I.zones \in Seq(Zone) /\ J.zones \in Seq(Zone)
  BY InfraType
<1>2. ASSUME NEW z \in ToSet(I.zones), NEW y \in ToSet(J.zones), z.name = y.name, z.tuned
      PROVE  y.tuned
  <2>1. PICK i \in 1..Len(I.zones) : z = I.zones[i]
    BY <1>1 DEF ToSet
  <2>2. PICK j \in 1..Len(J.zones) : y = J.zones[j]
    BY <1>1 DEF ToSet
  <2>3. j \in 1..Len(I.zones) /\ J.zones[j].name = I.zones[j].name
    BY <2>2 DEF InfraTouched
  <2>4. i = j
    BY <1>2, <2>1, <2>2, <2>3 DEF ZonesDiffer
  <2> QED BY <1>2, <2>1, <2>2, <2>4 DEF InfraTouched
<1>3. KeptInfra(provider, I, J)
  BY <1>2 DEF KeptInfra, InfraTouched
<1>4. ASSUME I.zones = <<>> PROVE [J EXCEPT !.tuned = I.tuned] = I
  <2>1. J.zones = <<>>
    BY <1>1, <1>4 DEF InfraTouched
  <2>2. J.zones = I.zones /\ J.dualStack = I.dualStack
    BY <1>4, <2>1 DEF InfraTouched
  <2> QED BY <2>2 DEF Infrastructure
<1> QED BY <1>3, <1>4

LEMMA InfraStays ==
    ASSUME Inv, [Next]_vars, shoot # None
    PROVE  /\ ~Race => KeptInfra(rt.provider, shoot.infra, shoot'.infra)
           /\ MainKept => shoot'.cp.zone = shoot.cp.zone
           /\ isAzureLiteSetup(rt.provider, shoot.infra)
                => [shoot'.infra EXCEPT !.tuned = shoot.infra.tuned] = shoot.infra
<1>1. shoot.infra \in Infrastructure /\ ZonesDiffer(shoot.infra)
  BY ShootIs DEF Inv, Good, ShootOk
<1>2. KeptInfra(rt.provider, shoot.infra, shoot.infra)
  BY <1>1, KeptSame
<1>3. [shoot.infra EXCEPT !.tuned = shoot.infra.tuned] = shoot.infra
  BY <1>1 DEF Infrastructure
<1>4. CASE shoot' = shoot
  BY <1>2, <1>3, <1>4
<1>5. CASE ByOthers
  <2>1. shoot'.infra \in Infrastructure /\ InfraTouched(shoot.infra, shoot'.infra) /\ shoot'.cp = shoot.cp
    BY <1>5, ManifestIs DEF ByOthers, Touched
  <2> QED BY <1>1, <2>1, TouchedKept DEF isAzureLiteSetup
<1>6. ASSUME pc # "idle"
      PROVE  /\ KeptInfra(rt.provider, read.infra, new.infra)
             /\ isAzureLiteSetup(rt.provider, shoot.infra)
                  => [new.infra EXCEPT !.tuned = shoot.infra.tuned] = shoot.infra
             /\ MainKept => shoot.cp.zone = new.cp.zone /\ read.cp.zone = new.cp.zone
  BY <1>6, PatchTypes DEF Patching
<1>7. CASE ByUpdate
  <2>1. pc # "idle" /\ shoot = read
    BY <1>7 DEF ByUpdate
  <2>2. CASE shoot'.infra = new.infra /\ shoot'.cp = new.cp
    BY <1>6, <2>1, <2>2
  <2>3. CASE shoot'.infra = read.infra /\ shoot'.cp = read.cp
    BY <1>2, <1>3, <2>1, <2>3
  <2> QED BY <1>7, <2>2, <2>3 DEF ByUpdate
<1>8. CASE ByApply
  <2>1. pc = "apply" /\ shoot'.infra = new.infra /\ shoot'.cp = new.cp
    BY <1>8 DEF ByApply
  <2>2. ~Race => shoot.infra \in {read.infra, new.infra}
    BY <2>1 DEF Inv, Applying
  <2> QED BY <1>2, <1>6, <2>1, <2>2
<1> QED BY <1>4, <1>5, <1>7, <1>8, StepIs

-----------------------------------------------------------------------------
LEMMA ShootPoolsAre ==
    ASSUME Inv, [Next]_vars, shoot # None
    PROVE  shoot.workers \in Seq(ShootPool) /\ shoot'.workers \in Seq(ShootPool)
<1>1. shoot.workers \in Seq(ShootPool)
  BY ShootIs
<1>2. pc # "idle" => Admit(new.workers) \in Seq(ShootPool)
  <2> HAVE pc # "idle"
  <2>1. new.workers \in Seq(FullPool)
    BY PatchTypes, ManifestIs
  <2> QED BY <2>1, AdmitIs
<1>3. ByOthers => shoot'.workers \in Seq(ShootPool)
  BY ManifestIs DEF ByOthers, Touched
<1> QED BY <1>1, <1>2, <1>3, StepIs DEF ByUpdate, ByApply

LEMMA InvAlways == Spec => []Inv
<1>1. Init => Inv
  BY InvInit
<1>2. Inv /\ [Next]_vars => Inv'
  BY InvNext
<1> QED BY <1>1, <1>2, PTL DEF Spec

\* The Runtime, the shoot, the copy that a patch has read and the manifest that it has
\* made of it (runtime_fsm_patch_shoot.go) keep their types.
THEOREM ShootTypeCorrect == Spec => []TypeOK
<1>1. Inv => TypeOK
  BY DEF Inv
<1> QED BY <1>1, InvAlways, PTL

\* Every zone of a worker of the shoot has its subnets, which neither overlap nor leave
\* the node network, however pools and zones come and go between the read of the shoot
\* and the Update and the apply of sFnPatchExistingShoot, and whichever of the two
\* fails.
THEOREM ZonesCoveredAlways == Spec => []ZonesCovered
<1>1. Inv => ZonesCovered
  <2> SUFFICES ASSUME Inv, Exists, HasZones(rt.provider), ~Legacy
               PROVE  /\ ToSet(ZonesOf(shoot.workers)) \subseteq {z.name : z \in ToSet(shoot.infra.zones)}
                      /\ SubnetsFit(shoot.infra.zones, NodeCIDR)
    BY DEF ZonesCovered
  <2>1. shoot # None
    BY DEF Exists
  <2>2. Covered(rt.provider, shoot.infra, ZonesIn(shoot.workers))
    BY <2>1 DEF Inv, Good, ShootOk
  <2>3. shoot.workers \in Seq(WorkerPool) /\ shoot.infra \in Infrastructure
    BY <2>1, ShootIs, ManifestIs
  <2>4. shoot.infra.zones \in Seq(Zone)
    BY <2>3, InfraType
  <2>5. ToSet(ZonesOf(shoot.workers)) = ZonesIn(shoot.workers)
    BY <2>3, ZonesOfIs
  <2>6. Names(shoot.infra) \subseteq {z.name : z \in ToSet(shoot.infra.zones)}
    BY <2>4 DEF Names, ToSet
  <2> QED BY <2>2, <2>5, <2>6 DEF Covered, Legacy
<1> QED BY <1>1, InvAlways, PTL

\* ApplyMaxPodsWithTotalCap keeps the sum of the pod limits inside the pod network for
\* every list of pools, and a pool is cut only after all pools behind it.
THEOREM PodsFitAlways == Spec => []PodsFit
<1>1. Inv => PodsFit
  <2> SUFFICES ASSUME Inv, shoot # None, PodsCIDR # None PROVE PodsFit
    BY DEF PodsFit, Exists
  <2> DEFINE sw == shoot.workers
             rw == rt.workers
             n == Len(sw)
             asked(i) == ApplyPerNodeMaxPodsCap(rw[IndexByName(rw, sw[i].name)]).pods
  <2>1. sumMaxPods(sw) <= MaxPodsFromCIDR(PodsCIDR)
    BY DEF Inv, Good, ShootOk
  <2>2. ASSUME settled, pc = "idle", NEW i \in 1..n, sw[i].pods # asked(i)
        PROVE  /\ sw[i].pods \in 1..asked(i)
               /\ \A j \in (i + 1)..n : sw[j].pods \in {0, 1, None}
    <3> DEFINE W == sortWorkersToShootOrder(rw, sw)
               B == Prepared(W)
               cap(k) == ApplyPerNodeMaxPodsCap(W[k]).pods
    <3>1. rw \in Seq(WorkerPool) /\ NamesDiffer(rw) /\ sw \in Seq(ShootPool)
      BY TypesAre, ShootIs DEF Inv, RuntimeOk, RuntimeSpec
    <3>2. Agrees(B, sw)
      BY <2>2 DEF Inv, Reached
    <3>3. i \in 1..Len(sw) /\ sw[i].pods # asked(i)
      BY <2>2
    <3> HIDE DEF sw, rw
    <3>4. /\ W \in Seq(WorkerPool) /\ Len(W) = Len(rw) /\ Len(B) = Len(rw)
          /\ \A p \in 1..Len(rw) : \E q \in 1..Len(rw) : W[p] = rw[q]
          /\ \A k \in 1..Len(rw) : B[k].name = W[k].name
      BY <3>1, SortedPrepared
    <3> HIDE DEF W
    <3>5. \A k \in 1..Len(W) : B[k].pods # cap(k) =>
            /\ B[k].pods \in 1..cap(k)
            /\ \A j \in (k + 1)..Len(W) : B[j].pods \in {0, 1, None}
      BY <3>4, PreparedIs
    <3> HIDE DEF B, cap
    <3>6. /\ Len(sw) = Len(W) /\ Len(W) \in Nat
          /\ \A k \in 1..Len(W) : sw[k].name = W[k].name /\ sw[k].pods = B[k].pods
      BY <3>2, <3>4 DEF Agrees
    <3>7. asked(i) = cap(i)
      <4>1. PICK q \in 1..Len(rw) : W[i] = rw[q]
        BY <3>3, <3>4, <3>6
      <4>2. rw[q].name = sw[i].name
        BY <3>3, <3>6, <4>1
      <4>3. IndexByName(rw, sw[i].name) = q
        BY <3>1, <4>2, IndexIs
      <4> QED BY <4>1, <4>3 DEF cap
    <3> HIDE DEF asked
    <3>8. B[i].pods # cap(i) /\ sw[i].pods = B[i].pods /\ i \in 1..Len(W)
      BY <3>3, <3>6, <3>7
    <3>9. /\ B[i].pods \in 1..cap(i)
          /\ \A j \in (i + 1)..Len(W) : B[j].pods \in {0, 1, None}
      BY <3>5, <3>8
    <3>10. \A j \in (i + 1)..Len(W) : j \in 1..Len(W)
      BY <3>6, <3>8
    <3> QED BY <3>6, <3>7, <3>8, <3>9, <3>10
  <2> HIDE DEF n, asked
  <2>3. settled /\ pc = "idle" =>
          \A i \in 1..n : sw[i].pods # asked(i) =>
             /\ sw[i].pods \in 1..asked(i)
             /\ \A j \in (i + 1)..n : sw[j].pods \in {0, 1, None}
    BY <2>2
  <2> QED BY <2>1, <2>3 DEF PodsFit, n, asked
<1> QED BY <1>1, InvAlways, PTL

\* After a patch the converter gives the shoot back as it is, although it sorts the
\* pools, cuts their limits, aligns them and computes zones and extensions anew: the
\* chain of the extenders is idempotent, and upgrades, a new order and changes by
\* operators keep it so.
THEOREM PatchIsStableAlways == Spec => []PatchIsStable
<1>1. Inv => PatchIsStable
  <2> SUFFICES ASSUME Inv, shoot # None, settled, pc = "idle"
               PROVE  Convert(rt, want, shoot) = shoot
    BY DEF PatchIsStable, Exists
  <2>1. rt \in RuntimeSpec /\ want \in Want /\ NamesDiffer(rt.workers)
    BY TypesAre DEF Inv, RuntimeOk
  <2>2. shoot \in Manifest({Strategy}) /\ ShootOk(rt.provider, want, shoot)
    BY ShootIs DEF Inv, Good
  <2>3. Reached
    BY DEF Inv
  <2> QED BY <2>1, <2>2, <2>3, StableIs DEF Reached
<1> QED BY <1>1, InvAlways, PTL

\* After a patch the extensions are those of the Runtime, each once: the Update and the
\* server-side apply of newExtensionsExtender's list leave nothing over.
THEOREM ExtensionsFollowAlways == Spec => []ExtensionsFollow
<1>1. Inv => ExtensionsFollow
  <2> SUFFICES ASSUME Inv, shoot # None PROVE ExtensionsFollow
    BY DEF ExtensionsFollow, Exists
  <2>1. want \in Want /\ ListOk(shoot.extensions, want)
    BY TypesAre DEF Inv, Good, ShootOk
  <2>2. \A i, j \in 1..Len(shoot.extensions) :
          shoot.extensions[i].type = shoot.extensions[j].type => i = j
    BY <2>1 DEF ListOk, WellFormed, TypesDiffer
  <2>3. ASSUME settled, pc = "idle"
        PROVE  /\ existingExtension(shoot.extensions, "nvidia").enabled = want.nvidia
               /\ existingExtension(shoot.extensions, "acl").enabled = AclNeedsToBeEnabled(rt.provider, want)
               /\ (Find(shoot.extensions, "registry-cache") # 0) = (want.caches > 0)
               /\ FilterGlobal => existingExtension(shoot.extensions, "filter").enabled = want.egress
               /\ existingExtension(shoot.extensions, "auditlog").config = want.audit
    <3>1. Fixed(rt.provider, want, shoot.extensions)
      BY <2>3 DEF Inv, Reached
    <3> QED BY <2>1, <3>1, FixedMeans
  <2> QED BY <2>2, <2>3 DEF ExtensionsFollow, Enabled
<1> QED BY <1>1, InvAlways, PTL

\* No step takes away a zone of a pool that stays, an extension of somebody else or a
\* newer Kubernetes version, and unless somebody writes between the read of the shoot
\* and its Update, no patch changes the order of the zones or takes an image back
\* (alignWorkersWithGardener).
THEOREM NothingTakenBackAlways == Spec => NothingTakenBack
<1>1. ASSUME Inv, [Next]_vars, shoot # None
      PROVE  /\ \A w \in ToSet(shoot.workers), v \in ToSet(shoot'.workers) : Same(w, v) =>
                  /\ ToSet(w.zones) \subseteq ToSet(v.zones)
                  /\ "race" \notin events =>
                       /\ pc # "idle" => IsPrefix(w.zones, v.zones)
                       /\ w.image.name = v.image.name => w.image.version <= v.image.version
             /\ shoot.version <= shoot'.version
             /\ Contains(shoot.extensions, Foreign) => Contains(shoot'.extensions, Foreign)
  <2>2. ASSUME NEW w \in ToSet(shoot.workers), NEW v \in ToSet(shoot'.workers), Same(w, v)
        PROVE  /\ ToSet(w.zones) \subseteq ToSet(v.zones)
               /\ "race" \notin events =>
                    /\ pc # "idle" => IsPrefix(w.zones, v.zones)
                    /\ w.image.name = v.image.name => w.image.version <= v.image.version
    <3>1. Stay(shoot.workers, shoot'.workers)
      BY <1>1, PoolsStay
    <3>2. shoot.workers \in Seq(ShootPool) /\ shoot'.workers \in Seq(ShootPool)
      BY <1>1, ShootPoolsAre
    <3>3. PICK i \in 1..Len(shoot.workers) : w = shoot.workers[i]
      BY <3>2 DEF ToSet
    <3>4. PICK j \in 1..Len(shoot'.workers) : v = shoot'.workers[j]
      BY <3>2 DEF ToSet
    <3>5. w.name = v.name
      BY <2>2 DEF Same
    <3>6. /\ ToSet(w.zones) \subseteq ToSet(v.zones)
          /\ ~Race => /\ pc # "idle" => Extends(w.zones, v.zones)
                      /\ w.image.name = v.image.name => w.image.version <= v.image.version
      BY <3>1, <3>3, <3>4, <3>5 DEF Stay
    <3>7. w \in WorkerPool /\ v \in WorkerPool
      BY <3>2, <3>3, <3>4, PoolTypes
    <3>8. w.zones \in Seq(Nat) /\ v.zones \in Seq(Nat)
      BY <3>7, PoolFields
    <3>9. Extends(w.zones, v.zones) => IsPrefix(w.zones, v.zones)
      BY <3>8, ExtendsPrefix
    <3> QED BY <3>6, <3>9 DEF Race
  <2> QED BY <1>1, <2>2, VersionStays, ForeignStays
<1> QED BY <1>1, InvAlways, PTL DEF Spec, NothingTakenBack

\* The settings of operators in the infrastructure configuration of AWS and Azure that
\* the code copies, the zone of GCP's control plane and Azure's shoots without zones
\* survive every patch (NewProviderExtenderPatchOperation), under the conditions that
\* ConfigKept names.
THEOREM ConfigKeptAlways == Spec => ConfigKept
<1>1. ASSUME Inv, [Next]_vars, shoot # None
      PROVE  /\ rt.provider \in {"aws", "azure"} /\ "race" \notin events =>
                  /\ "copied" \in shoot.infra.tuned => "copied" \in shoot'.infra.tuned
                  /\ shoot.infra.dualStack => shoot'.infra.dualStack
                  /\ \A z \in ToSet(shoot.infra.zones), y \in ToSet(shoot'.infra.zones) :
                       z.name = y.name /\ z.tuned => y.tuned
             /\ "reorder" \notin events /\ MainPoolHasZones => shoot'.cp.zone = shoot.cp.zone
             /\ Legacy => [shoot'.infra EXCEPT !.tuned = shoot.infra.tuned] = shoot.infra
  <2>1. /\ ~Race => KeptInfra(rt.provider, shoot.infra, shoot'.infra)
        /\ MainKept => shoot'.cp.zone = shoot.cp.zone
        /\ isAzureLiteSetup(rt.provider, shoot.infra)
             => [shoot'.infra EXCEPT !.tuned = shoot.infra.tuned] = shoot.infra
    BY <1>1, InfraStays
  <2> QED BY <2>1 DEF KeptInfra, Race, MainKept, Legacy
<1> QED BY <1>1, InvAlways, PTL DEF Spec, ConfigKept
=============================================================================
