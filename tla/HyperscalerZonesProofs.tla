----------------------- MODULE HyperscalerZonesProofs -----------------------
(***************************************************************************)
(* The subnets that the generators of HyperscalerZones make fit: for every *)
(* node network and every list of zones they accept, whichever address of  *)
(* the network its prefix is written with.                                 *)
(*                                                                         *)
(* Every subnet begins at a multiple of its own size.  As sizes divide one *)
(* another, a subnet whose first address is in the network, which is all   *)
(* the code checks, is in it as a whole.                                   *)
(***************************************************************************)
EXTENDS HyperscalerZones, TLAPS

LEMMA DivMod ==
    ASSUME NEW a \in Nat, NEW s \in Nat \ {0}
    PROVE  /\ a \div s \in Nat
           /\ a - (a % s) = s * (a \div s)
           /\ s * (a \div s) <= a /\ a < s * (a \div s) + s
  <1>1. a % s \in 0..(s - 1) /\ a = s * (a \div s) + (a % s) /\ a \div s \in Nat
    OBVIOUS
  <1>2. s * (a \div s) \in Nat
    BY <1>1
  <1> QED
    BY <1>1, <1>2

LEMMA Monotone ==
    ASSUME NEW u \in Nat \ {0}, NEW x \in Nat, NEW y \in Nat, x <= y
    PROVE  u * x <= u * y
  OBVIOUS

LEMMA Cancel ==
    ASSUME NEW u \in Nat \ {0}, NEW x \in Nat, NEW y \in Nat, u * x < u * y
    PROVE  x < y
  OBVIOUS

LEMMA SizeType ==
    ASSUME NEW b \in Bits
    PROVE  Size[b] \in Nat \ {0}
  BY SizeAssumption DEF SizeAssumption

LEMMA PrefixType ==
    ASSUME NEW p \in Network
    PROVE  p.bits \in Nat
  BY DEF Network, Bits

LEMMA MaskedIs ==
    ASSUME NEW a \in Nat, NEW b \in Bits
    PROVE  /\ a \div Size[b] \in Nat
           /\ Masked(a, b) = Size[b] * (a \div Size[b])
           /\ Masked(a, b) \in Nat /\ Masked(a, b) <= a /\ a < Masked(a, b) + Size[b]
  <1>1. Size[b] \in Nat \ {0}
    BY SizeType
  <1>2. /\ a \div Size[b] \in Nat
        /\ a - (a % Size[b]) = Size[b] * (a \div Size[b])
        /\ Size[b] * (a \div Size[b]) <= a /\ a < Size[b] * (a \div Size[b]) + Size[b]
    BY <1>1, DivMod
  <1>3. Size[b] * (a \div Size[b]) \in Nat
    BY <1>1, <1>2
  <1> QED
    BY <1>2, <1>3 DEF Masked

\* Four more bits make a sixteenth of a network, and so on.
LEMMA Ratios ==
    ASSUME NEW b \in 2..26
    PROVE  /\ b \in Bits /\ b + 3 \in Bits /\ b + 4 \in Bits /\ b + 6 \in Bits
           /\ Size[b + 6] \in Nat \ {0}
           /\ Size[b + 4] = 4 * Size[b + 6]
           /\ Size[b + 3] = 8 * Size[b + 6]
           /\ Size[b] = 64 * Size[b + 6]
  <1>1. b \in Bits /\ b + 3 \in Bits /\ b + 4 \in Bits /\ b + 6 \in Bits
    BY DEF Bits
  <1>2. \A k \in 0..5 : Size[b + k] = 2 * Size[b + k + 1]
    <2> SUFFICES ASSUME NEW k \in 0..5
                 PROVE  Size[b + k] = 2 * Size[b + k + 1]
      OBVIOUS
    <2>1. b + k \in 2..31
      OBVIOUS
    <2> QED
      BY <2>1, SizeAssumption DEF SizeAssumption
  <1>3. \A k \in 0..6 : Size[b + k] \in Nat \ {0}
    BY SizeType DEF Bits
  <1>4. /\ Size[b] = 2 * Size[b + 1] /\ Size[b + 1] = 2 * Size[b + 2]
        /\ Size[b + 2] = 2 * Size[b + 3] /\ Size[b + 3] = 2 * Size[b + 4]
        /\ Size[b + 4] = 2 * Size[b + 5] /\ Size[b + 5] = 2 * Size[b + 6]
    <2>1. /\ Size[b + 0] = 2 * Size[b + 0 + 1] /\ Size[b + 1] = 2 * Size[b + 1 + 1]
          /\ Size[b + 2] = 2 * Size[b + 2 + 1] /\ Size[b + 3] = 2 * Size[b + 3 + 1]
          /\ Size[b + 4] = 2 * Size[b + 4 + 1] /\ Size[b + 5] = 2 * Size[b + 5 + 1]
      BY <1>2
    <2>2. /\ b + 0 = b /\ b + 0 + 1 = b + 1 /\ b + 1 + 1 = b + 2 /\ b + 2 + 1 = b + 3
          /\ b + 3 + 1 = b + 4 /\ b + 4 + 1 = b + 5 /\ b + 5 + 1 = b + 6
      OBVIOUS
    <2> QED
      BY <2>1, <2>2
  <1>5. /\ Size[b + 1] \in Nat /\ Size[b + 2] \in Nat /\ Size[b + 3] \in Nat
        /\ Size[b + 4] \in Nat /\ Size[b + 5] \in Nat /\ Size[b + 6] \in Nat \ {0}
    BY <1>3
  <1> QED
    BY <1>1, <1>4, <1>5

\* A subnet that begins at a multiple of its size, in a network whose size is a
\* multiple too, does not end outside if it does not begin outside.
LEMMA AlignedInside ==
    ASSUME NEW cidr \in Network, NEW p \in Network, NEW k \in Nat, NEW m \in Nat,
           p.addr = Size[p.bits] * k, Size[cidr.bits] = Size[p.bits] * m,
           ContainsAddr(cidr, p.addr)
    PROVE  Inside(p, cidr)
  <1> DEFINE t == Size[p.bits]
             S == Size[cidr.bits]
             Q == cidr.addr \div S
             M == Masked(cidr.addr, cidr.bits)
  <1>1. cidr.bits \in Bits /\ p.bits \in Bits /\ cidr.addr \in Nat /\ p.addr \in Nat
    BY DEF Network
  <1>2. t \in Nat \ {0} /\ S \in Nat \ {0}
    BY <1>1, SizeType
  <1>3. Q \in Nat /\ M = S * Q /\ M \in Nat
    BY <1>1, MaskedIs
  <1>4. M <= p.addr /\ p.addr < M + S
    <2>1. Masked(p.addr, cidr.bits) = M
      BY DEF ContainsAddr
    <2> QED
      BY <2>1, <1>1, MaskedIs
  <1> HIDE DEF t, S, Q, M
  <1>5. p.addr = t * k /\ S = t * m
    BY DEF t, S
  <1>6. m * Q \in Nat /\ M = t * (m * Q) /\ M + S = t * (m * Q + m)
    <2>1. (t * m) * Q = t * (m * Q) /\ m * Q \in Nat
      BY <1>2, <1>3
    <2>2. t * (m * Q + m) = t * (m * Q) + t * m
      BY <1>2, <2>1
    <2> QED
      BY <2>1, <2>2, <1>3, <1>5
  <1>7. k < m * Q + m
    <2>1. t * k < t * (m * Q + m)
      BY <1>4, <1>5, <1>6
    <2> QED
      BY <2>1, <1>2, <1>6, Cancel
  <1>8. t * (k + 1) <= t * (m * Q + m)
    <2>1. k + 1 <= m * Q + m /\ k + 1 \in Nat /\ m * Q + m \in Nat
      BY <1>7, <1>6
    <2> QED
      BY <2>1, <1>2, Monotone
  <1>9. t * (k + 1) = p.addr + t
    BY <1>2, <1>5
  <1> QED
    BY <1>4, <1>6, <1>8, <1>9 DEF Inside, t, S, M

\* Networks measured in units of one size.
LEMMA UnitsDisjoint ==
    ASSUME NEW u \in Nat \ {0}, NEW p \in Network, NEW q \in Network,
           NEW x \in Nat, NEW l \in Nat, NEW y \in Nat, NEW n \in Nat,
           p.addr = u * x, Size[p.bits] = u * l, q.addr = u * y, Size[q.bits] = u * n,
           x + l <= y \/ y + n <= x
    PROVE  Disjoint(p, q)
  <1>1. u * x + u * l = u * (x + l) /\ u * y + u * n = u * (y + n)
    OBVIOUS
  <1>2. x + l <= y => u * (x + l) <= u * y
    BY Monotone
  <1>3. y + n <= x => u * (y + n) <= u * x
    BY Monotone
  <1> QED
    BY <1>1, <1>2, <1>3 DEF Disjoint

-----------------------------------------------------------------------------
(* AWS: in units of the smallest subnets, a zone's subnets begin and end at *)
(* these places, counted from the first subnet's.                           *)

awsPlace(i, r) ==
    IF i <= 3 THEN 16 * (i - 1) + (CASE r = "workers" -> 0 [] r = "public" -> 8
                                     [] r = "internal" -> 12)
    ELSE 48 + 3 * (i - 4) + (CASE r = "workers" -> 0 [] r = "public" -> 1
                               [] r = "internal" -> 2)

awsLength(i, r) == IF i <= 3 THEN (IF r = "workers" THEN 8 ELSE 4) ELSE 1

Roles == {"workers", "public", "internal"}

\* Places are multiples of lengths, and do not overlap.
LEMMA AwsPlaces ==
    ASSUME NEW i \in 1..8, NEW r \in Roles
    PROVE  /\ awsPlace(i, r) \in Nat /\ awsLength(i, r) \in {1, 4, 8}
           /\ awsLength(i, r) = 8 => awsPlace(i, r) = 8 * (2 * (i - 1))
           /\ awsLength(i, r) = 4 =>
                awsPlace(i, r) = 4 * (4 * (i - 1) + (IF r = "public" THEN 2 ELSE 3))
  BY DEF awsPlace, awsLength, Roles

LEMMA AwsApart ==
    ASSUME NEW i \in 1..8, NEW j \in 1..8, NEW r \in Roles, NEW q \in Roles, i # j \/ r # q
    PROVE  \/ awsPlace(i, r) + awsLength(i, r) <= awsPlace(j, q)
           \/ awsPlace(j, q) + awsLength(j, q) <= awsPlace(i, r)
  BY DEF awsPlace, awsLength, Roles

\* What generateAWSZone makes, in those units.
LEMMA AwsNets ==
    ASSUME NEW cidr \in Network, cidr.bits \in 16..24, NEW i \in 1..8, NEW r \in Roles
    PROVE  LET u == Size[cidr.bits + 6]
               x == 8 * (cidr.addr \div Size[cidr.bits + 3]) + awsPlace(i, r)
               net == generateAWSZone(cidr, i)[r]
           IN  /\ net \in Network /\ x \in Nat
               /\ net.addr = u * x /\ Size[net.bits] = u * awsLength(i, r)
  <1> DEFINE b == cidr.bits
             u == Size[b + 6]
             d == cidr.addr \div Size[b + 3]
             first == Masked(cidr.addr, b + 3)
             net == generateAWSZone(cidr, i)[r]
  <1>1. b \in 2..26 /\ b \in Nat /\ cidr.addr \in Nat
    BY DEF Network
  <1>2. /\ b + 3 \in Bits /\ b + 4 \in Bits /\ b + 6 \in Bits
        /\ u \in Nat \ {0} /\ Size[b + 4] = 4 * u /\ Size[b + 3] = 8 * u
    BY <1>1, Ratios
  <1>3. d \in Nat /\ first = Size[b + 3] * d /\ first \in Nat
    BY <1>1, <1>2, MaskedIs
  <1>4. net = Net(awsBase(cidr, i) + awsOffsets(i)[r] * awsDelta(cidr, i), awsBits(cidr, i)[r])
    BY DEF generateAWSZone, Roles
  <1>5. awsBase(cidr, i) = first + (IF i <= 3 THEN 16 * (i - 1) ELSE 48 + 3 * (i - 4)) * u
    <2>1. CASE i <= 3
      <3>1. awsBase(cidr, i) = first + 4 * (i - 1) * (4 * u)
        BY <2>1, <1>2 DEF awsBase
      <3>2. 4 * (i - 1) * (4 * u) = 16 * (i - 1) * u
        BY <1>2, i \in {1, 2, 3, 4, 5, 6, 7, 8}
      <3> QED
        BY <2>1, <3>1, <3>2
    <2>2. CASE i = 4
      <3>1. awsBase(cidr, i) = first + 4 * (i - 1) * (4 * u)
        BY <2>2, <1>2 DEF awsBase
      <3> QED
        BY <2>2, <3>1, <1>2
    <2>3. CASE i > 4
      <3>1. awsBase(cidr, i) = first + 12 * (4 * u) + 3 * (i - 4) * u
        BY <2>3, <1>2 DEF awsBase
      <3>2. 12 * (4 * u) + 3 * (i - 4) * u = (48 + 3 * (i - 4)) * u
        BY <1>2, i \in {1, 2, 3, 4, 5, 6, 7, 8}
      <3>3. 3 * (i - 4) * u \in Int /\ 12 * (4 * u) \in Int
        BY <1>2
      <3> QED
        BY <2>3, <3>1, <3>2, <3>3, <1>3
    <2> QED
      BY <2>1, <2>2, <2>3
  <1>6. awsOffsets(i)[r] * awsDelta(cidr, i) =
          (awsPlace(i, r) - (IF i <= 3 THEN 16 * (i - 1) ELSE 48 + 3 * (i - 4))) * u
    <2>1. CASE i <= 3
      <3>1. awsDelta(cidr, i) = 4 * u
        BY <2>1, <1>2 DEF awsDelta
      <3>2. awsOffsets(i)[r] = IF r = "workers" THEN 0 ELSE IF r = "public" THEN 2 ELSE 3
        BY <2>1 DEF awsOffsets, Roles
      <3>3. awsPlace(i, r) - 16 * (i - 1) = 4 * awsOffsets(i)[r]
        BY <2>1, <3>2 DEF awsPlace, Roles
      <3> QED
        BY <2>1, <3>1, <3>2, <3>3, <1>2
    <2>2. CASE i > 3
      <3>1. awsDelta(cidr, i) = u
        BY <2>2, <1>2 DEF awsDelta
      <3>2. awsOffsets(i)[r] = IF r = "workers" THEN 0 ELSE IF r = "public" THEN 1 ELSE 2
        BY <2>2 DEF awsOffsets, Roles
      <3>3. awsPlace(i, r) - (48 + 3 * (i - 4)) = awsOffsets(i)[r]
        BY <2>2, <3>2 DEF awsPlace, Roles
      <3> QED
        BY <2>2, <3>1, <3>3
    <2> QED
      BY <2>1, <2>2
  <1>7. awsPlace(i, r) \in Nat
    BY AwsPlaces
  <1>8. net.addr = u * (8 * d + awsPlace(i, r))
    <2> DEFINE c == IF i <= 3 THEN 16 * (i - 1) ELSE 48 + 3 * (i - 4)
    <2>1. c \in Nat
      OBVIOUS
    <2>2. net.addr = (8 * u) * d + c * u + (awsPlace(i, r) - c) * u
      BY <1>2, <1>3, <1>4, <1>5, <1>6 DEF Net
    <2> HIDE DEF c, net, u, d
    <2>3. (8 * u) * d + c * u + (awsPlace(i, r) - c) * u = u * (8 * d + awsPlace(i, r))
      BY <1>2, <1>3, <1>7, <2>1
    <2> QED
      BY <2>2, <2>3
  <1>9. net.bits \in Bits /\ Size[net.bits] = u * awsLength(i, r)
    <2>1. net.bits = IF i <= 3 THEN (IF r = "workers" THEN b + 3 ELSE b + 4) ELSE b + 6
      BY <1>4 DEF Net, awsBits, Roles
    <2> QED
      BY <2>1, <1>2 DEF awsLength
  <1>10. net \in Network
    <2>1. u * (8 * d + awsPlace(i, r)) \in Nat
      BY <1>2, <1>3, <1>7
    <2> QED
      BY <2>1, <1>4, <1>8, <1>9 DEF Net, Network
  <1> QED
    BY <1>3, <1>7, <1>8, <1>9, <1>10

LEMMA AwsInside ==
    ASSUME NEW cidr \in Network, cidr.bits \in 16..24, NEW i \in 1..8, NEW r \in Roles,
           ContainsAddr(cidr, generateAWSZone(cidr, i)[r].addr)
    PROVE  Inside(generateAWSZone(cidr, i)[r], cidr)
  <1> DEFINE u == Size[cidr.bits + 6]
             d == cidr.addr \div Size[cidr.bits + 3]
             net == generateAWSZone(cidr, i)[r]
             l == awsLength(i, r)
             x == 8 * d + awsPlace(i, r)
  <1>1. net \in Network /\ x \in Nat /\ net.addr = u * x /\ Size[net.bits] = u * l
    BY AwsNets
  <1>2. u \in Nat \ {0} /\ Size[cidr.bits] = 64 * u /\ d \in Nat
    <2>1. cidr.bits \in 2..26 /\ cidr.addr \in Nat
      BY DEF Network
    <2> QED
      BY <2>1, Ratios, MaskedIs
  <1>3. \E k \in Nat, m \in Nat : x = l * k /\ 64 = l * m
    <2>1. CASE l = 8
      <3>1. x = 8 * (d + 2 * (i - 1)) /\ d + 2 * (i - 1) \in Nat
        BY <2>1, <1>2, AwsPlaces
      <3> QED
        BY <2>1, <3>1, 64 = 8 * 8
    <2>2. CASE l = 4
      <3> DEFINE k == 2 * d + 4 * (i - 1) + (IF r = "public" THEN 2 ELSE 3)
      <3>1. x = 4 * k /\ k \in Nat
        BY <2>2, <1>2, AwsPlaces
      <3> QED
        BY <2>2, <3>1, 64 = 4 * 16
    <2>3. CASE l = 1
      BY <2>3, <1>1, x = 1 * x, 64 = 1 * 64
    <2> QED
      BY <2>1, <2>2, <2>3, AwsPlaces
  <1>4. PICK k \in Nat, m \in Nat : x = l * k /\ 64 = l * m
    BY <1>3
  <1>5. l \in Nat
    BY AwsPlaces
  <1> HIDE DEF u, d, net, l, x
  <1>6. net.addr = Size[net.bits] * k /\ Size[cidr.bits] = Size[net.bits] * m
    <2>1. u * (l * k) = (u * l) * k /\ 64 * u = (u * l) * m
      BY <1>2, <1>4, <1>5
    <2> QED
      BY <2>1, <1>1, <1>2, <1>4
  <1>7. ContainsAddr(cidr, net.addr)
    BY DEF net
  <1>8. Inside(net, cidr)
    BY <1>1, <1>6, <1>7, AlignedInside
  <1> QED
    BY <1>8 DEF net

LEMMA AwsDisjoint ==
    ASSUME NEW cidr \in Network, cidr.bits \in 16..24, NEW i \in 1..8, NEW j \in 1..8,
           NEW r \in Roles, NEW q \in Roles, i # j \/ r # q
    PROVE  Disjoint(generateAWSZone(cidr, i)[r], generateAWSZone(cidr, j)[q])
  <1> DEFINE u == Size[cidr.bits + 6]
             d == 8 * (cidr.addr \div Size[cidr.bits + 3])
             net(k, o) == generateAWSZone(cidr, k)[o]
  <1>1. \A k \in 1..8, o \in Roles :
          /\ net(k, o) \in Network /\ d + awsPlace(k, o) \in Nat
          /\ net(k, o).addr = u * (d + awsPlace(k, o))
          /\ Size[net(k, o).bits] = u * awsLength(k, o)
    BY AwsNets
  <1>2. u \in Nat \ {0} /\ d \in Nat
    <2>1. cidr.bits \in 2..26 /\ cidr.addr \in Nat
      BY DEF Network
    <2>2. u \in Nat \ {0} /\ cidr.bits + 3 \in Bits
      BY <2>1, Ratios
    <2>3. cidr.addr \div Size[cidr.bits + 3] \in Nat
      BY <2>1, <2>2, MaskedIs
    <2> QED
      BY <2>2, <2>3
  <1>3. /\ awsLength(i, r) \in Nat /\ awsLength(j, q) \in Nat
        /\ awsPlace(i, r) \in Nat /\ awsPlace(j, q) \in Nat
    BY AwsPlaces
  <1> HIDE DEF u, d, net
  <1>4. \/ d + awsPlace(i, r) + awsLength(i, r) <= d + awsPlace(j, q)
        \/ d + awsPlace(j, q) + awsLength(j, q) <= d + awsPlace(i, r)
    BY <1>2, <1>3, AwsApart
  <1>5. Disjoint(net(i, r), net(j, q))
    <2>1. /\ net(i, r) \in Network /\ net(j, q) \in Network
          /\ d + awsPlace(i, r) \in Nat /\ d + awsPlace(j, q) \in Nat
          /\ net(i, r).addr = u * (d + awsPlace(i, r)) /\ Size[net(i, r).bits] = u * awsLength(i, r)
          /\ net(j, q).addr = u * (d + awsPlace(j, q)) /\ Size[net(j, q).bits] = u * awsLength(j, q)
      BY <1>1
    <2> QED
      BY <2>1, <1>2, <1>3, <1>4, UnitsDisjoint
  <1> QED
    BY <1>5 DEF net

-----------------------------------------------------------------------------
(* Azure and Alicloud, and GDCH: subnets of one size, side by side.         *)

LEMMA AzureNets ==
    ASSUME NEW cidr \in Network, cidr.bits \in 16..24, NEW i \in 1..8
    PROVE  LET net == generateAzureZone(cidr, i)["workers"]
               x == (cidr.addr \div Size[cidr.bits + 3]) + i - 1
           IN  /\ net \in Network /\ x \in Nat /\ net.bits = cidr.bits + 3
               /\ net.addr = Size[cidr.bits + 3] * x
               /\ Size[cidr.bits + 3] \in Nat \ {0}
               /\ Size[cidr.bits] = Size[cidr.bits + 3] * 8
  <1> DEFINE t == Size[cidr.bits + 3]
             d == cidr.addr \div t
             net == generateAzureZone(cidr, i)["workers"]
  <1>1. cidr.bits \in 2..26 /\ cidr.addr \in Nat
    BY DEF Network
  <1>2. cidr.bits + 3 \in Bits /\ t \in Nat \ {0} /\ Size[cidr.bits] = t * 8
    BY <1>1, Ratios
  <1>3. d \in Nat /\ Masked(cidr.addr, cidr.bits + 3) = t * d
    BY <1>1, <1>2, MaskedIs
  <1>4. net = Net(t * d + (i - 1) * t, cidr.bits + 3)
    BY <1>3 DEF generateAzureZone
  <1> HIDE DEF t, d
  <1>5. t * d + (i - 1) * t = t * (d + i - 1) /\ d + i - 1 \in Nat
    BY <1>2, <1>3
  <1>6. t * (d + i - 1) \in Nat
    BY <1>2, <1>5
  <1> QED
    BY <1>2, <1>4, <1>5, <1>6 DEF Net, Network, t, d

LEMMA AzureInside ==
    ASSUME NEW cidr \in Network, cidr.bits \in 16..24, NEW i \in 1..8,
           ContainsAddr(cidr, generateAzureZone(cidr, i)["workers"].addr)
    PROVE  Inside(generateAzureZone(cidr, i)["workers"], cidr)
  BY AzureNets, AlignedInside

LEMMA AzureDisjoint ==
    ASSUME NEW cidr \in Network, cidr.bits \in 16..24, NEW i \in 1..8, NEW j \in 1..8, i # j
    PROVE  Disjoint(generateAzureZone(cidr, i)["workers"], generateAzureZone(cidr, j)["workers"])
  <1> DEFINE t == Size[cidr.bits + 3]
             d == cidr.addr \div t
             net(k) == generateAzureZone(cidr, k)["workers"]
  <1>1. \A k \in 1..8 : /\ net(k) \in Network /\ d + k - 1 \in Nat /\ t \in Nat \ {0}
                        /\ net(k).addr = t * (d + k - 1) /\ Size[net(k).bits] = t
    BY AzureNets
  <1>2. t = t * 1 /\ d \in Nat
    <2>1. cidr.bits + 3 \in Bits /\ cidr.addr \in Nat
      BY DEF Network, Bits
    <2>2. t \in Nat \ {0}
      BY <2>1, SizeType
    <2>3. d \in Nat
      BY <2>1, MaskedIs
    <2>4. t = t * 1
      BY <2>2
    <2> QED
      BY <2>3, <2>4
  <1> HIDE DEF t, d, net
  <1>3. (d + i - 1) + 1 <= d + j - 1 \/ (d + j - 1) + 1 <= d + i - 1
    BY <1>2
  <1>4. Disjoint(net(i), net(j))
    <2>1. /\ t \in Nat \ {0} /\ net(i) \in Network /\ net(j) \in Network
          /\ d + i - 1 \in Nat /\ d + j - 1 \in Nat
          /\ net(i).addr = t * (d + i - 1) /\ Size[net(i).bits] = t * 1
          /\ net(j).addr = t * (d + j - 1) /\ Size[net(j).bits] = t * 1
      BY <1>1, <1>2
    <2> QED
      BY <1>3, <2>1, UnitsDisjoint
  <1> QED
    BY <1>4 DEF net

\* One, two or three zones take the whole network, its halves or three quarters.
LEMMA GdchNets ==
    ASSUME NEW cidr \in Network, NEW n \in 1..3, cidr.bits + n - 1 <= 32
    PROVE  \E d \in Nat :
             LET t == Size[cidr.bits + n - 1]
             IN  /\ t \in Nat \ {0} /\ Masked(cidr.addr, cidr.bits) = t * d
                 /\ t * n <= Size[cidr.bits]
                 /\ \A i \in 1..n :
                      LET net == generateGDCHZone(cidr, n, i)["workers"]
                      IN  /\ net \in Network /\ Size[net.bits] = t
                          /\ net.addr = t * (d + i - 1)
  <1> DEFINE b == cidr.bits
             t == Size[b + n - 1]
             m == CASE n = 1 -> 1 [] n = 2 -> 2 [] n = 3 -> 4
             Q == cidr.addr \div Size[b]
             net(i) == generateGDCHZone(cidr, n, i)["workers"]
  <1>1. b \in Bits /\ b \in Nat /\ cidr.addr \in Nat /\ b + n - 1 \in Bits
    BY DEF Network, Bits
  <1>2. t \in Nat \ {0} /\ Size[b] \in Nat \ {0}
    BY <1>1, SizeType
  <1>3. Size[b] = t * m /\ m \in Nat /\ n <= m
    <2>1. CASE n = 1
      BY <2>1, <1>1, <1>2
    <2>2. CASE n = 2
      <3>1. b \in 2..31 /\ b + n - 1 = b + 1
        BY <2>2, <1>1 DEF Bits
      <3>2. Size[b] = 2 * Size[b + 1]
        BY <3>1, SizeAssumption DEF SizeAssumption
      <3> QED
        BY <2>2, <3>1, <3>2, <1>2
    <2>3. CASE n = 3
      <3>1. b \in 2..31 /\ b + 1 \in 2..31 /\ b + n - 1 = b + 1 + 1 /\ b + 1 \in Bits
        BY <2>3, <1>1 DEF Bits
      <3>2. Size[b] = 2 * Size[b + 1] /\ Size[b + 1] = 2 * Size[b + 1 + 1]
        BY <3>1, SizeAssumption DEF SizeAssumption
      <3>3. Size[b + 1] \in Nat
        BY <3>1, SizeType
      <3> QED
        BY <2>3, <3>1, <3>2, <3>3, <1>2
    <2> QED
      BY <2>1, <2>2, <2>3
  <1>4. Q \in Nat /\ Masked(cidr.addr, b) = Size[b] * Q
    BY <1>1, MaskedIs
  <1>5. \A i \in 1..n : net(i) = Net(Masked(cidr.addr, b) + (i - 1) * t, b + n - 1)
    <2>1. b + (n - 1) = b + n - 1
      BY <1>1
    <2> QED
      BY <2>1 DEF generateGDCHZone, subnetShiftForZoneCount
  <1> HIDE DEF t, m, Q, net
  <1>6. Masked(cidr.addr, b) = t * (m * Q) /\ m * Q \in Nat
    BY <1>2, <1>3, <1>4
  <1>7. ASSUME NEW i \in 1..n
        PROVE  net(i) \in Network /\ net(i).addr = t * (m * Q + i - 1) /\ Size[net(i).bits] = t
    <2>1. t * (m * Q) + (i - 1) * t = t * (m * Q + i - 1) /\ m * Q + i - 1 \in Nat
      BY <1>2, <1>6
    <2>2. t * (m * Q + i - 1) \in Nat
      BY <1>2, <2>1
    <2> QED
      BY <1>1, <1>5, <1>6, <2>1, <2>2 DEF Net, Network, t
  <1>8. t * n <= t * m
    BY <1>2, <1>3, Monotone
  <1>9. \A i \in 1..n : /\ net(i) \in Network /\ Size[net(i).bits] = t
                        /\ net(i).addr = t * (m * Q + i - 1)
    BY <1>7
  <1> QED
    BY <1>2, <1>3, <1>6, <1>8, <1>9 DEF t, net

LEMMA GdchFit ==
    ASSUME NEW cidr \in Network, NEW n \in 1..3, cidr.bits + n - 1 <= 32,
           NEW i \in 1..n, NEW j \in 1..n
    PROVE  /\ Inside(generateGDCHZone(cidr, n, i)["workers"], cidr)
           /\ i # j => Disjoint(generateGDCHZone(cidr, n, i)["workers"],
                                generateGDCHZone(cidr, n, j)["workers"])
  <1> DEFINE t == Size[cidr.bits + n - 1]
             net(k) == generateGDCHZone(cidr, n, k)["workers"]
             M == Masked(cidr.addr, cidr.bits)
             S == Size[cidr.bits]
  <1>1. PICK d \in Nat :
          /\ t \in Nat \ {0} /\ M = t * d /\ t * n <= S
          /\ \A k \in 1..n : /\ net(k) \in Network /\ Size[net(k).bits] = t
                             /\ net(k).addr = t * (d + k - 1)
    BY GdchNets
  <1>2. S \in Nat \ {0}
    BY SizeType DEF Network
  <1> HIDE DEF t, net, M, S
  <1>3. Inside(net(i), cidr)
    <2>1. t * d <= t * (d + i - 1)
      BY <1>1, Monotone
    <2>2. t * (d + i - 1) + t = t * d + t * i /\ t * i <= t * n /\ t * d \in Nat /\ t * i \in Nat
          /\ t * n \in Nat
      <3>1. t * (d + i - 1) + t = t * d + t * i
        BY <1>1
      <3> QED
        BY <3>1, <1>1, Monotone
    <2>3. t * d + t * i <= t * d + S
      BY <2>2, <1>1, <1>2
    <2> QED
      BY <2>1, <2>2, <2>3, <1>1 DEF Inside, M, S
  <1>4. i # j => Disjoint(net(i), net(j))
    <2>1. i # j => (d + i - 1) + 1 <= d + j - 1 \/ (d + j - 1) + 1 <= d + i - 1
      BY <1>1
    <2>2. t = t * 1 /\ d + i - 1 \in Nat /\ d + j - 1 \in Nat
      BY <1>1
    <2>3. /\ t \in Nat \ {0} /\ net(i) \in Network /\ net(j) \in Network
          /\ net(i).addr = t * (d + i - 1) /\ Size[net(i).bits] = t * 1
          /\ net(j).addr = t * (d + j - 1) /\ Size[net(j).bits] = t * 1
      BY <1>1, <2>2
    <2> QED
      BY <2>1, <2>2, <2>3, UnitsDisjoint
  <1> QED
    BY <1>3, <1>4 DEF net

-----------------------------------------------------------------------------
\* Whatever node network and zones the generators of AWS, Azure, Alicloud and GDCH
\* accept, the subnets they make do not overlap and lie within the network: the
\* code only checks where a subnet begins, and for GDCH not even that.
THEOREM GeneratedSubnetsFit ==
    ASSUME NEW provider \in Providers, HasZones(provider), NEW cidr \in Network,
           NEW zones \in Seq(Nat), generatorAccepts(provider, cidr, zones)
    PROVE  SubnetsFit(generateZones(provider, cidr, zones), cidr)
  <1> DEFINE n == Len(zones)
             nets(i) == generateZone(provider, cidr, n, i)
             all == generateZones(provider, cidr, zones)
  <1>1. n \in Nat /\ n \in ZoneCount(provider) /\ PrefixAccepted(provider, cidr, n)
    BY DEF generatorAccepts
  <1>2. provider # "gdch" => \A i \in 1..n : \A r \in DOMAIN nets(i) :
                               ContainsAddr(cidr, nets(i)[r].addr)
    BY DEF generatorAccepts
  <1>3. \A i \in 1..n : all[i].nets = nets(i)
    BY DEF generateZones
  <1>4. Len(all) = n
    BY <1>1 DEF generateZones
  <1> HIDE DEF all, n, nets
  <1>5. \A i, j \in 1..n : \A r \in DOMAIN nets(i), q \in DOMAIN nets(j) :
          Inside(nets(i)[r], cidr) /\ (i # j \/ r # q => Disjoint(nets(i)[r], nets(j)[q]))
    <2>1. CASE provider = "aws"
      <3>1. cidr.bits \in 16..24 /\ n \in 1..8
        BY <2>1, <1>1 DEF PrefixAccepted, ZoneCount
      <3>2. \A i \in 1..n : nets(i) = generateAWSZone(cidr, i) /\ DOMAIN nets(i) = Roles
        BY <2>1 DEF nets, generateZone, generateAWSZone, Roles
      <3> SUFFICES ASSUME NEW i \in 1..n, NEW j \in 1..n,
                          NEW r \in DOMAIN nets(i), NEW q \in DOMAIN nets(j)
                   PROVE  /\ Inside(nets(i)[r], cidr)
                          /\ i # j \/ r # q => Disjoint(nets(i)[r], nets(j)[q])
        OBVIOUS
      <3>3. /\ i \in 1..8 /\ j \in 1..8 /\ r \in Roles /\ q \in Roles
            /\ nets(i) = generateAWSZone(cidr, i) /\ nets(j) = generateAWSZone(cidr, j)
        BY <3>1, <3>2
      <3>4. ContainsAddr(cidr, nets(i)[r].addr)
        BY <2>1, <1>2
      <3>5. Inside(nets(i)[r], cidr)
        BY <3>1, <3>3, <3>4, AwsInside
      <3>6. i # j \/ r # q => Disjoint(nets(i)[r], nets(j)[q])
        BY <3>1, <3>3, AwsDisjoint
      <3> QED
        BY <3>5, <3>6
    <2>2. CASE provider = "gdch"
      <3>1. n \in 1..3 /\ cidr.bits + (n - 1) <= 32 /\ cidr.bits \in Nat
        <4>1. ZoneCount("gdch") = 1..3
          BY DEF ZoneCount
        <4>2. PrefixAccepted("gdch", cidr, n) => cidr.bits + (n - 1) <= 32
          BY DEF PrefixAccepted, subnetShiftForZoneCount
        <4>3. ZoneCount(provider) = 1..3 /\ PrefixAccepted("gdch", cidr, n)
          BY <2>2, <1>1, <4>1
        <4>4. cidr.bits \in Nat
          BY PrefixType
        <4> QED
          BY <1>1, <4>2, <4>3, <4>4
      <3>2. cidr.bits + n - 1 <= 32
        BY <3>1
      <3>3. \A i \in 1..n : nets(i) = generateGDCHZone(cidr, n, i) /\ DOMAIN nets(i) = {"workers"}
        BY <2>2 DEF nets, generateZone, generateGDCHZone
      <3> QED
        BY <3>1, <3>2, <3>3, GdchFit
    <2>3. CASE provider \notin {"aws", "gdch"}
      <3>1. cidr.bits \in 16..24 /\ n \in 0..8
        BY <2>3, <1>1 DEF PrefixAccepted, ZoneCount
      <3>2. \A i \in 1..n : nets(i) = generateAzureZone(cidr, i) /\ DOMAIN nets(i) = {"workers"}
        BY <2>3 DEF nets, generateZone, generateAzureZone
      <3> SUFFICES ASSUME NEW i \in 1..n, NEW j \in 1..n,
                          NEW r \in DOMAIN nets(i), NEW q \in DOMAIN nets(j)
                   PROVE  /\ Inside(nets(i)[r], cidr)
                          /\ i # j \/ r # q => Disjoint(nets(i)[r], nets(j)[q])
        OBVIOUS
      <3>3. /\ i \in 1..8 /\ j \in 1..8 /\ r = "workers" /\ q = "workers"
            /\ nets(i) = generateAzureZone(cidr, i) /\ nets(j) = generateAzureZone(cidr, j)
        BY <3>1, <3>2
      <3>4. ContainsAddr(cidr, nets(i)[r].addr)
        BY <2>3, <1>2
      <3>5. Inside(nets(i)[r], cidr)
        BY <3>1, <3>3, <3>4, AzureInside
      <3>6. i # j \/ r # q => Disjoint(nets(i)[r], nets(j)[q])
        BY <3>1, <3>3, AzureDisjoint
      <3> QED
        BY <3>5, <3>6
    <2> QED
      BY <2>1, <2>2, <2>3
  <1>6. \A i, j \in 1..Len(all) : \A r \in DOMAIN all[i].nets, q \in DOMAIN all[j].nets :
          /\ Inside(all[i].nets[r], cidr)
          /\ i # j \/ r # q => Disjoint(all[i].nets[r], all[j].nets[q])
    BY <1>3, <1>4, <1>5
  <1> QED
    BY <1>6 DEF SubnetsFit, all
=============================================================================
