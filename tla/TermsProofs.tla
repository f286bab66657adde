----------------------------- MODULE TermsProofs -----------------------------
(***************************************************************************)
(* Addresses, terms and their comparison, for lists of every length and    *)
(* networks of every size, over every set of packets.                      *)
(*                                                                         *)
(* Addresses: taking an excluded network out of one that holds it leaves   *)
(* exactly the rest, and collapsing a list keeps what it covers, loses no  *)
(* comment, and ends with as few entries as that can be written with.      *)
(*                                                                         *)
(* Ports: collapsing a port list changes nothing but its form and takes    *)
(* two passes, and what it is for comes out: a comparison with the result  *)
(* is sound, and where no ranges share an end it is exact.  What a pass    *)
(* has kept and what it has still to look at are the ports asked for,      *)
(* because both are ordered by lower end: that is what lets a branch look  *)
(* at ret_ports[-1] alone.  A pass leaves its result separated, and a      *)
(* separated list goes through a pass unchanged: that is why a third pass  *)
(* is never begun.                                                         *)
(*                                                                         *)
(* Terms: what a comparison of two terms is good for; that the check of a  *)
(* packet agrees with the check for shading, and leaves no term unreported *)
(* that decides the packet.                                                *)
(*                                                                         *)
(* Shading: what flattening makes of a term's lists however the            *)
(* comparisons come, that a term which is reported is unreachable, and     *)
(* that a check which passes has overlooked no simple term.                *)
(***************************************************************************)
EXTENDS NacAddr, PortList, Shading, AclCheck,
        FiniteSetTheorems, SequenceTheorems, WellFoundedInduction, TLAPS

-----------------------------------------------------------------------------
(* Numbers *)

\* A set of numbers has a least one.
LEMMA LeastNumber ==
  ASSUME NEW S, S \subseteq Nat, S # {}
  PROVE  \E least \in S : \A n \in S : least <= n
<1> DEFINE Less == OpToRel(<, Nat)
<1>1. PICK least \in S : \A n \in S : <<n, least>> \notin Less
  <2> HIDE DEF Less
  <2>1. IsWellFoundedOn(Less, Nat)
    BY NatLessThanWellFounded DEF Less
  <2> QED
    BY <2>1, WFMin
<1>2. \A pair \in Nat \X Nat : pair[1] < pair[2] => pair \in Less
  BY Zenon DEF OpToRel
<1> HIDE DEF Less
<1>3. \A n \in S : least <= n
  <2> SUFFICES ASSUME NEW n \in S PROVE ~(n < least)
    OBVIOUS
  <2> QED
    BY <1>1, <1>2, <<n, least>> \in Nat \X Nat
<1> QED
  BY <1>3

\* Induction, for a set of numbers.
LEMMA AllNumbers ==
  ASSUME NEW S, 0 \in S, \A n \in Nat : n \in S => n + 1 \in S
  PROVE  Nat \subseteq S
<1> SUFFICES ASSUME Nat \ S # {} PROVE FALSE
  OBVIOUS
<1>1. PICK least \in Nat \ S : \A n \in Nat \ S : least <= n
  BY LeastNumber
<1>2. least # 0 /\ least - 1 \in Nat
  BY <1>1
<1>3. least - 1 \in S
  BY <1>1, <1>2
<1> QED
  BY <1>1, <1>2, <1>3

-----------------------------------------------------------------------------
(* Sorting *)

\* The relation puts any two elements of the set in one order.
Orders(less, set) ==
  /\ \A x \in set : <<x, x>> \notin less
  /\ \A x, y \in set : x # y => <<x, y>> \in less \/ <<y, x>> \in less
  /\ \A x, y, z \in set : <<x, y>> \in less /\ <<y, z>> \in less => <<x, z>> \in less

\* Every place of a sorted set holds one element, every element has a place, and
\* they are in order.
LEMMA InOrderSorts ==
  ASSUME NEW set, IsFiniteSet(set), NEW less, Orders(less, set)
  PROVE  /\ InOrder(set, less) \in [1..Cardinality(set) -> set]
         /\ \A x \in set : \E k \in 1..Cardinality(set) : InOrder(set, less)[k] = x
         /\ \A i, j \in 1..Cardinality(set) :
              i < j => <<InOrder(set, less)[i], InOrder(set, less)[j]>> \in less
<1> DEFINE Below(x) == {y \in set : <<y, x>> \in less}
           N == Cardinality(set)
           rank == [x \in set |-> Cardinality(Below(x)) + 1]
<1>1. N \in Nat
  BY FS_CardinalityType
<1>2. ASSUME NEW x \in set
      PROVE  IsFiniteSet(Below(x)) /\ Cardinality(Below(x)) \in Nat /\ Cardinality(Below(x)) < N
  <2>1. Below(x) \subseteq set /\ Below(x) # set
    BY DEF Orders
  <2> HIDE DEF Below
  <2>2. IsFiniteSet(Below(x)) /\ Cardinality(Below(x)) <= N /\ Cardinality(Below(x)) # N
    BY <2>1, FS_Subset, Zenon
  <2>3. Cardinality(Below(x)) \in Nat
    BY <2>2, FS_CardinalityType
  <2> HIDE DEF N
  <2> QED
    BY <1>1, <2>2, <2>3
<1>3. ASSUME NEW x \in set, NEW y \in set, <<x, y>> \in less
      PROVE  rank[x] < rank[y]
  <2>1. Below(x) \subseteq Below(y)
    BY <1>3 DEF Orders
  <2>2. Below(x) # Below(y)
    BY <1>3 DEF Orders
  <2> HIDE DEF Below
  <2>3. /\ Cardinality(Below(x)) <= Cardinality(Below(y))
        /\ Cardinality(Below(x)) # Cardinality(Below(y))
    BY <1>2, <2>1, <2>2, FS_Subset, Zenon
  <2> QED
    BY <1>2, <2>3
<1>4. rank \in [set -> 1..N]
  <2> HIDE DEF Below, N
  <2> QED
    BY <1>1, <1>2
<1>5. ASSUME NEW x \in set, NEW y \in set, rank[x] = rank[y]
      PROVE  x = y
  <2> HIDE DEF rank, N
  <2>1. rank[x] \in Nat
    BY <1>4
  <2>2. <<x, y>> \notin less /\ <<y, x>> \notin less
    BY <1>3, <1>5, <2>1
  <2> QED
    BY <2>2 DEF Orders
<1>6. rank \in Surjection(set, 1..N)
  <2> HIDE DEF rank
  <2>1. IsFiniteSet(1..N) /\ Cardinality(1..N) = N
    BY <1>1, FS_Interval
  <2>2. rank \in Injection(set, 1..N)
    BY <1>4, <1>5, Zenon DEF Injection, IsInjective
  <2>3. Cardinality(1..N) = Cardinality(set)
    BY <2>1
  <2> HIDE DEF N
  <2> QED
    BY <2>1, <2>2, <2>3, FS_Injection
<1>7. \A k \in 1..N : \E x \in set : rank[x] = k
  <2> HIDE DEF rank, N
  <2> QED
    BY <1>6 DEF Surjection
<1> DEFINE pick(k) == CHOOSE y \in set : Cardinality(Below(y)) = k - 1
           sorted == [k \in 1..N |-> pick(k)]
<1>8. ASSUME NEW k \in 1..N
      PROVE  sorted[k] \in set /\ rank[sorted[k]] = k
  <2>1. PICK x \in set : rank[x] = k
    BY <1>7
  <2>2. Cardinality(Below(x)) = k - 1
    <3> HIDE DEF Below, N
    <3> QED
      BY <1>1, <1>2, <2>1
  <2>3. pick(k) \in set /\ Cardinality(Below(pick(k))) = k - 1
    <3> HIDE DEF Below
    <3> QED
      BY <2>2
  <2>4. sorted[k] = pick(k)
    <3> HIDE DEF pick, N
    <3> QED
      OBVIOUS
  <2> HIDE DEF Below, N, sorted, pick
  <2> QED
    BY <1>1, <1>2, <2>3, <2>4
<1>9. sorted \in [1..N -> set]
  <2> HIDE DEF pick, N
  <2> QED
    BY <1>8
<1>10. ASSUME NEW x \in set PROVE \E k \in 1..N : sorted[k] = x
  <2> HIDE DEF rank, sorted, N
  <2> QED
    BY <1>4, <1>5, <1>8
<1>11. ASSUME NEW i \in 1..N, NEW j \in 1..N, i < j
       PROVE  <<sorted[i], sorted[j]>> \in less
  <2>1. i \in Nat /\ j \in Nat /\ i # j
    BY <1>11
  <2> HIDE DEF rank, sorted, N
  <2>2. ~(rank[sorted[j]] < rank[sorted[i]])
    BY <1>8, <1>11, <2>1
  <2>3. sorted[i] # sorted[j]
    BY <1>8, <2>1
  <2> QED
    BY <1>3, <1>8, <2>2, <2>3 DEF Orders
<1>12. sorted = InOrder(set, less)
  BY DEF InOrder
<1> HIDE DEF sorted
<1> QED
  BY <1>9, <1>10, <1>11, <1>12

-----------------------------------------------------------------------------
(* Powers of two *)

LEMMA Scales ==
  ASSUME NEW a \in Nat, NEW b \in Nat, NEW s \in Nat \ {0}
  PROVE  /\ a <= b => a * s <= b * s
         /\ a < b <=> a * s + s <= b * s
<1>1. ASSUME NEW c \in Nat, NEW d \in Nat, c <= d PROVE c * s <= d * s
  <2>1. PICK e \in Nat : d = c + e
    BY <1>1, d - c \in Nat
  <2>2. d * s = c * s + e * s
    BY <2>1
  <2>3. e * s >= 0 /\ c * s \in Nat /\ e * s \in Nat
    OBVIOUS
  <2> QED
    BY <2>2, <2>3
<1>2. (a + 1) * s = a * s + s /\ a * s \in Nat /\ b * s \in Nat
  OBVIOUS
<1>3. a + 1 <= b => (a + 1) * s <= b * s
  BY <1>1
<1>4. b <= a => b * s <= a * s
  BY <1>1
<1>5. a < b => a * s + s <= b * s
  BY <1>2, <1>3
<1>6. a * s + s <= b * s => a < b
  BY <1>2, <1>4
<1> QED
  BY <1>1, <1>5, <1>6

\* What is left of a number when a multiple is taken from it.
LEMMA Remainders ==
  ASSUME NEW h \in Nat, NEW d \in Nat \ {0}, NEW r \in Nat, r < d
  PROVE  (h * d + r) % d = r
<1> DEFINE x == h * d + r
           q == x \div d
           m == x % d
<1>1. x \in Nat /\ h * d \in Nat
  OBVIOUS
<1>2. q \in Nat /\ m \in Nat /\ m < d /\ x = q * d + m
  <2> HIDE DEF x
  <2> QED
    BY <1>1
<1> HIDE DEF q, m
<1>3. h * d + r = q * d + m /\ q * d \in Nat
  BY <1>2
<1>4. ~(h < q)
  BY <1>1, <1>2, <1>3, Scales
<1>5. ~(q < h)
  BY <1>1, <1>2, <1>3, Scales
<1>6. h = q
  BY <1>2, <1>4, <1>5
<1>7. m = r
  BY <1>1, <1>2, <1>3, <1>6
<1> QED
  BY <1>7 DEF m

LEMMA PowerType ==
  ASSUME NEW v \in Versions, NEW k \in 0..Bits[v]
  PROVE  2 ^ k \in Nat \ {0}
<1> DEFINE S == {n \in Nat : n <= Bits[v] => 2 ^ n \in Nat \ {0}}
<1>0. Bits[v] \in Nat
  BY BitsAssumption
<1>1. 0 \in S
  BY PowersAssumption
<1>2. ASSUME NEW n \in Nat, n \in S PROVE n + 1 \in S
  <2>1. CASE n + 1 <= Bits[v]
    <3>1. n \in 0..Bits[v] /\ 2 ^ n \in Nat \ {0}
      BY <1>0, <1>2, <2>1
    <3>2. 2 ^ (n + 1) = 2 * 2 ^ n
      BY <3>1, PowersAssumption
    <3> QED
      BY <3>1, <3>2
  <2> QED
    BY <2>1
<1>3. Nat \subseteq S
  <2> HIDE DEF S
  <2> QED
    BY <1>1, <1>2, AllNumbers
<1> QED
  BY <1>0, <1>3

LEMMA PowersMultiply ==
  ASSUME NEW v \in Versions, NEW j \in Nat, NEW d \in Nat, j + d <= Bits[v]
  PROVE  2 ^ (j + d) = 2 ^ d * 2 ^ j
<1> DEFINE S == {n \in Nat : j + n <= Bits[v] => 2 ^ (j + n) = 2 ^ n * 2 ^ j}
<1>0. Bits[v] \in Nat /\ j \in 0..Bits[v] /\ 2 ^ j \in Nat
  BY BitsAssumption, PowerType
<1>1. 0 \in S
  <2>1. 2 ^ (j + 0) = 1 * 2 ^ j
    BY <1>0
  <2> QED
    BY <2>1, PowersAssumption
<1>2. ASSUME NEW n \in Nat, n \in S PROVE n + 1 \in S
  <2>1. CASE j + (n + 1) <= Bits[v]
    <3>1. n \in 0..Bits[v] /\ j + n \in 0..Bits[v] /\ (j + n) + 1 = j + (n + 1)
      BY <1>0, <2>1
    <3>2. 2 ^ (j + (n + 1)) = 2 * 2 ^ (j + n) /\ 2 ^ (n + 1) = 2 * 2 ^ n
      BY <3>1, PowersAssumption
    <3>3. 2 ^ n \in Nat /\ 2 ^ (j + n) = 2 ^ n * 2 ^ j
      BY <1>2, <3>1, PowerType
    <3> QED
      BY <1>0, <3>2, <3>3
  <2> QED
    BY <2>1
<1>3. Nat \subseteq S
  <2> HIDE DEF S
  <2> QED
    BY <1>1, <1>2, AllNumbers
<1> QED
  BY <1>3

-----------------------------------------------------------------------------
(* Networks *)

\* The networks of a length: every multiple of the size that leaves room for it.
LEMMA NetworkForm ==
  ASSUME NEW n \in Networks
  PROVE  /\ n \in Blocks
         /\ \E k \in 0..Bits[n.version], i \in Nat :
              n.size = 2 ^ k /\ n.first = i * n.size
         /\ n.size # 0
         /\ n.first + n.size <= 2 ^ Bits[n.version]
<1>1. PICK v \in Versions : n \in
        UNION {{[version |-> v, first |-> i * 2 ^ k, size |-> 2 ^ k] :
                  i \in 0..(2 ^ (Bits[v] - k) - 1)} : k \in 0..Bits[v]}
  BY DEF Networks
<1>2. PICK k \in 0..Bits[v] : n \in
        {[version |-> v, first |-> i * 2 ^ k, size |-> 2 ^ k] :
           i \in 0..(2 ^ (Bits[v] - k) - 1)}
  BY <1>1
<1>3. PICK i \in 0..(2 ^ (Bits[v] - k) - 1) :
        n = [version |-> v, first |-> i * 2 ^ k, size |-> 2 ^ k]
  BY <1>2
<1> DEFINE s == 2 ^ k
           r == 2 ^ (Bits[v] - k)
<1>4. /\ Bits[v] \in Nat /\ k \in Nat /\ Bits[v] - k \in 0..Bits[v]
      /\ s \in Nat \ {0} /\ r \in Nat \ {0}
  BY BitsAssumption, PowerType
<1>5. r * s = 2 ^ Bits[v]
  <2>1. k + (Bits[v] - k) = Bits[v]
    BY <1>4
  <2>2. 2 ^ (k + (Bits[v] - k)) = 2 ^ (Bits[v] - k) * 2 ^ k
    BY <1>4, <2>1, PowersMultiply
  <2> QED
    BY <2>1, <2>2
<1> HIDE DEF s, r
<1>6. i \in Nat /\ i < r
  BY <1>4 DEF r
<1>7. i * s + s <= r * s
  BY <1>4, <1>6, Scales
<1>8. n = [version |-> v, first |-> i * s, size |-> s]
  BY <1>3 DEF s
<1>9. i * s \in Nat
  BY <1>4, <1>6
<1>10. n \in Blocks
  BY <1>4, <1>8, <1>9 DEF Blocks
<1>11. n.version = v /\ n.size = s /\ n.first = i * s
  BY <1>8
<1> QED
  BY <1>4, <1>5, <1>6, <1>7, <1>10, <1>11 DEF s

LEMMA FormsNetwork ==
  ASSUME NEW n \in Blocks, NEW k \in 0..Bits[n.version], NEW i \in Nat,
         n.size = 2 ^ k, n.first = i * n.size, n.first + n.size <= 2 ^ Bits[n.version]
  PROVE  n \in Networks
<1> DEFINE v == n.version
           s == 2 ^ k
           r == 2 ^ (Bits[v] - k)
<1>4. /\ v \in Versions
      /\ Bits[v] \in Nat /\ k \in Nat /\ Bits[v] - k \in 0..Bits[v]
      /\ s \in Nat \ {0} /\ r \in Nat \ {0}
  BY BitsAssumption, PowerType DEF Blocks
<1>5. r * s = 2 ^ Bits[v]
  <2>1. k + (Bits[v] - k) = Bits[v]
    BY <1>4
  <2>2. 2 ^ (k + (Bits[v] - k)) = 2 ^ (Bits[v] - k) * 2 ^ k
    BY <1>4, <2>1, PowersMultiply
  <2> QED
    BY <2>1, <2>2
<1>6. n = [version |-> v, first |-> i * s, size |-> s]
  BY DEF Blocks
<1>7. i * s + s <= r * s
  BY <1>5
<1> HIDE DEF s, r, v
<1>8. i < r
  BY <1>4, <1>7, Scales
<1>9. i \in 0..(r - 1)
  BY <1>4, <1>8
<1> DEFINE row == {[version |-> v, first |-> j * s, size |-> s] : j \in 0..(r - 1)}
<1>10. n \in row
  BY <1>6, <1>9
<1> DEFINE square(w) ==
      UNION {{[version |-> w, first |-> j * 2 ^ l, size |-> 2 ^ l] :
                j \in 0..(2 ^ (Bits[w] - l) - 1)} : l \in 0..Bits[w]}
<1>11. row = {[version |-> v, first |-> j * 2 ^ k, size |-> 2 ^ k] :
                j \in 0..(2 ^ (Bits[v] - k) - 1)}
  BY DEF r, s
<1>12. n \in square(v)
  <2> HIDE DEF row
  <2> QED
    BY <1>10, <1>11 DEF v
<1>13. Networks = UNION {square(w) : w \in Versions}
  BY DEF Networks
<1> HIDE DEF square
<1> QED
  BY <1>4, <1>12, <1>13

\* Of two sizes the larger one is a multiple of the smaller one, and at least
\* twice as large when they differ.
LEMMA SizesDivide ==
  ASSUME NEW n \in Networks, NEW m \in Networks, n.version = m.version, n.size <= m.size
  PROVE  /\ \E q \in Nat \ {0} : m.size = q * n.size
         /\ n.size # m.size => 2 * n.size <= m.size
<1> DEFINE v == n.version
<1>1. PICK j \in 0..Bits[v], i \in Nat : n.size = 2 ^ j /\ n.first = i * n.size
  BY NetworkForm
<1>2. PICK k \in 0..Bits[v], h \in Nat : m.size = 2 ^ k /\ m.first = h * m.size
  BY NetworkForm
<1>3. v \in Versions /\ Bits[v] \in Nat
  BY NetworkForm, BitsAssumption DEF Blocks
<1>4. /\ n.size \in Nat \ {0} /\ m.size \in Nat \ {0}
  BY NetworkForm DEF Blocks
<1>5. ASSUME NEW a \in 0..Bits[v], NEW b \in 0..Bits[v], a < b
      PROVE  \E q \in Nat \ {0} : 2 ^ b = q * 2 ^ a /\ 2 * 2 ^ a <= 2 ^ b
  <2>1. /\ b - a \in Nat \ {0} /\ (b - a) - 1 \in 0..Bits[v] /\ a + (b - a) = b
        /\ b - a \in 0..Bits[v] /\ ((b - a) - 1) + 1 = b - a
    BY <1>3, <1>5
  <2>2. 2 ^ (a + (b - a)) = 2 ^ (b - a) * 2 ^ a
    BY <1>3, <2>1, PowersMultiply
  <2>3. 2 ^ (((b - a) - 1) + 1) = 2 * 2 ^ ((b - a) - 1)
    BY <1>3, <2>1, PowersAssumption
  <2>4. 2 ^ ((b - a) - 1) \in Nat \ {0} /\ 2 ^ a \in Nat \ {0} /\ 2 ^ (b - a) \in Nat \ {0}
    BY <1>3, <2>1, PowerType
  <2>5. 2 <= 2 ^ (b - a)
    BY <2>1, <2>3, <2>4
  <2>6. 2 * 2 ^ a <= 2 ^ (b - a) * 2 ^ a
    BY <2>4, <2>5, Scales
  <2> QED
    BY <2>1, <2>2, <2>4, <2>6
<1>6. CASE k < j
  <2>1. 2 * m.size <= n.size
    BY <1>1, <1>2, <1>5, <1>6
  <2> QED
    BY <1>4, <2>1
<1>7. CASE j = k
  <2>1. m.size = 1 * n.size
    BY <1>1, <1>2, <1>4, <1>7
  <2> QED
    BY <1>1, <1>2, <1>7, <2>1
<1>8. CASE j < k
  BY <1>1, <1>2, <1>5, <1>8
<1> QED
  BY <1>3, <1>6, <1>7, <1>8

\* n lies wholly before m, in numbers of one version.
Left(n, m) == n.first + n.size <= m.first

\* Two networks are one inside the other or apart.
LEMMA NestedOrApart ==
  ASSUME NEW n \in Networks, NEW m \in Networks, n.version = m.version, n.size <= m.size
  PROVE  In(n, m) \/ Left(n, m) \/ Left(m, n)
<1>1. PICK i \in Nat : n.first = i * n.size
  BY NetworkForm
<1>2. PICK j \in Nat : m.first = j * m.size
  BY NetworkForm
<1>3. PICK q \in Nat \ {0} : m.size = q * n.size
  BY SizesDivide
<1> DEFINE s == n.size
<1>4. n \in Blocks /\ m \in Blocks /\ s \in Nat \ {0}
  BY NetworkForm DEF Blocks
<1>5. j * q \in Nat /\ (j + 1) * q \in Nat /\ (j + 1) * q = j * q + q
  OBVIOUS
<1>6. m.first = (j * q) * s
  BY <1>2, <1>3, <1>4
<1>7. m.first + m.size = ((j + 1) * q) * s
  BY <1>3, <1>4, <1>5, <1>6
<1>8. n.first + s = i * s + s
  BY <1>1
<1> HIDE DEF s
<1>9. CASE i < j * q
  BY <1>4, <1>5, <1>6, <1>8, <1>9, Scales DEF Left, s
<1>10. CASE (j + 1) * q <= i
  BY <1>1, <1>4, <1>5, <1>7, <1>10, Scales DEF Left, s
<1>11. CASE j * q <= i /\ i < (j + 1) * q
  <2>1. m.first <= n.first
    BY <1>1, <1>4, <1>5, <1>6, <1>11, Scales DEF s
  <2>2. n.first + n.size <= m.first + m.size
    BY <1>4, <1>5, <1>7, <1>8, <1>11, Scales DEF s
  <2> QED
    BY <2>1, <2>2 DEF In
<1> QED
  BY <1>5, <1>9, <1>10, <1>11

\* The supernet of a network that is not everything: twice the size, with the
\* network as its lower or its upper half.
LEMMA SupernetForm ==
  ASSUME NEW n \in Networks, n.size # 2 ^ Bits[n.version]
  PROVE  /\ Supernet(n) \in Networks
         /\ Supernet(n).version = n.version
         /\ Supernet(n).size = 2 * n.size
         /\ Supernet(n).first \in Nat
         /\ Supernet(n).first = n.first \/ Supernet(n).first + n.size = n.first
         /\ UpperHalf(Supernet(n)) =
              [version |-> n.version, first |-> Supernet(n).first + n.size, size |-> n.size]
<1> DEFINE v == n.version
           s == n.size
           p == Supernet(n)
<1>1. PICK k \in 0..Bits[v], i \in Nat : s = 2 ^ k /\ n.first = i * s
  BY NetworkForm
<1>2. n \in Blocks /\ s \in Nat \ {0} /\ n.first \in Nat /\ n.first + s <= 2 ^ Bits[v]
  BY NetworkForm DEF Blocks
<1>3. v \in Versions /\ Bits[v] \in Nat /\ Bits[v] \in 0..Bits[v]
  BY <1>2, BitsAssumption DEF Blocks
<1>4. k + 1 \in 0..Bits[v] /\ 2 * s = 2 ^ (k + 1)
  BY <1>1, <1>3, PowersAssumption
<1>5. p = [version |-> v, first |-> n.first - (n.first % (2 * s)), size |-> 2 * s]
  BY <1>2 DEF Supernet, Blocks
<1>6. PICK h \in Nat : i = 2 * h \/ i = 2 * h + 1
  <2>1. i = 2 * (i \div 2) + (i % 2) /\ i \div 2 \in Nat /\ i % 2 \in 0..1
    OBVIOUS
  <2> QED
    BY <2>1
<1>7. h * (2 * s) \in Nat /\ 2 * s \in Nat \ {0}
  BY <1>2
<1>8. n.first = h * (2 * s) \/ n.first = h * (2 * s) + s
  <2>1. CASE i = 2 * h
    BY <1>1, <1>2, <2>1
  <2>2. CASE i = 2 * h + 1
    <3>1. (2 * h + 1) * s = h * (2 * s) + s
      BY <1>2
    <3> QED
      BY <1>1, <2>2, <3>1
  <2> QED
    BY <1>6, <2>1, <2>2
<1>9. n.first - (n.first % (2 * s)) = h * (2 * s)
  <2> DEFINE d == 2 * s
  <2>1. d \in Nat \ {0} /\ h * d \in Nat /\ s \in Nat /\ s < d
    BY <1>2
  <2> HIDE DEF d
  <2>2. (h * d + 0) % d = 0 /\ (h * d + s) % d = s
    <3>1. 0 \in Nat /\ 0 < d /\ h \in Nat
      BY <2>1
    <3> HIDE DEF s
    <3>2. (h * d + 0) % d = 0
      BY <2>1, <3>1, Remainders
    <3>3. (h * d + s) % d = s
      BY <2>1, <3>1, Remainders
    <3> QED
      BY <3>2, <3>3
  <2>3. n.first = h * d + 0 \/ n.first = h * d + s
    BY <1>8, <2>1 DEF d
  <2>4. n.first - (n.first % d) = h * d
    BY <2>1, <2>2, <2>3
  <2> QED
    BY <2>4 DEF d
<1>10. p.first = h * (2 * s) /\ p.size = 2 * s /\ p.version = v
  BY <1>5, <1>9
<1>11. p \in Blocks
  BY <1>3, <1>5, <1>7, <1>9 DEF Blocks
<1>12. p.first + p.size <= 2 ^ Bits[v]
  <2>1. (k + 1) + (Bits[v] - (k + 1)) = Bits[v] /\ Bits[v] - (k + 1) \in Nat
    BY <1>3, <1>4
  <2>2. 2 ^ ((k + 1) + (Bits[v] - (k + 1))) = 2 ^ (Bits[v] - (k + 1)) * 2 ^ (k + 1)
    <3>1. k + 1 \in Nat /\ (k + 1) + (Bits[v] - (k + 1)) <= Bits[v]
      BY <1>3, <1>4, <2>1
    <3> QED
      BY <1>3, <2>1, <3>1, PowersMultiply
  <2> DEFINE r == 2 ^ (Bits[v] - (k + 1))
             d == 2 * s
  <2>3. 2 ^ Bits[v] = r * d /\ r \in Nat
    BY <1>3, <1>4, <2>1, <2>2, PowerType
  <2>4. h * d < r * d
    BY <1>2, <1>7, <1>8, <2>3
  <2> HIDE DEF r, d
  <2>5. h < r
    BY <1>7, <2>3, <2>4, Scales DEF d
  <2>6. h * d + d <= r * d
    BY <1>7, <2>3, <2>5, Scales DEF d
  <2> QED
    BY <1>10, <2>3, <2>6 DEF d
<1>13. p \in Networks
  BY <1>4, <1>7, <1>10, <1>11, <1>12, FormsNetwork
<1>14. UpperHalf(p) = [version |-> v, first |-> p.first + s, size |-> s]
  <2>1. (2 * s) \div 2 = s
    BY <1>2
  <2> HIDE DEF p, v, s
  <2> QED
    BY <1>10, <2>1 DEF UpperHalf
<1> QED
  BY <1>7, <1>8, <1>10, <1>13, <1>14

\* The other half of a network's supernet is a network, with the same supernet.
LEMMA OtherHalf ==
  ASSUME NEW n \in Networks, n.size # 2 ^ Bits[n.version]
  PROVE  \E z \in Networks :
           /\ z.version = n.version /\ z.size = n.size
           /\ Supernet(z) = Supernet(n)
           /\ \/ /\ n.first = Supernet(n).first
                 /\ z.first = n.first + n.size
              \/ /\ n.first = Supernet(n).first + n.size
                 /\ z.first = Supernet(n).first
<1> DEFINE v == n.version
           s == n.size
           p == Supernet(n)
<1>1. PICK k \in 0..Bits[v], i \in Nat : s = 2 ^ k /\ n.first = i * s
  BY NetworkForm
<1>2. n \in Blocks /\ s \in Nat \ {0} /\ n.first \in Nat
  BY NetworkForm DEF Blocks
<1>3. /\ p \in Networks /\ p.version = v /\ p.size = 2 * s /\ p.first \in Nat
      /\ p.first = n.first \/ p.first + s = n.first
      /\ p.first + p.size <= 2 ^ Bits[v]
  BY SupernetForm, NetworkForm
<1>4. ASSUME NEW z \in Networks, z.version = v, z.size = s,
             z.first = p.first \/ z.first = p.first + s
      PROVE  Supernet(z) = p
  <2> DEFINE q == Supernet(z)
  <2>1. /\ q \in Networks /\ q.version = v /\ q.size = 2 * s /\ q.first \in Nat
        /\ q.first = z.first \/ q.first + s = z.first
    BY <1>4, SupernetForm
  <2>2. In(q, p) \/ Left(q, p) \/ Left(p, q)
    BY <1>2, <1>3, <2>1, NestedOrApart
  <2>3. q.first = p.first
    BY <1>2, <1>3, <1>4, <2>1, <2>2 DEF In, Left
  <2>4. q \in Blocks /\ p \in Blocks
    BY <1>3, <2>1, NetworkForm
  <2> QED
    BY <1>3, <2>1, <2>3, <2>4 DEF Blocks
<1>5. CASE n.first = p.first
  <2> DEFINE z == [version |-> v, first |-> n.first + s, size |-> s]
  <2>1. z.first = (i + 1) * s
    BY <1>1, <1>2
  <2>2. z \in Networks
    <3>1. z \in Blocks /\ z.first + z.size <= 2 ^ Bits[v] /\ i + 1 \in Nat
      BY <1>2, <1>3, <1>5 DEF Blocks
    <3> QED
      BY <1>1, <2>1, <3>1, FormsNetwork
  <2> QED
    BY <1>4, <1>5, <2>2
<1>6. CASE n.first = p.first + s
  <2> DEFINE z == [version |-> v, first |-> p.first, size |-> s]
  <2>1. PICK j \in Nat : i = j + 1
    <3>1. i # 0
      BY <1>1, <1>2, <1>3, <1>6
    <3> QED
      BY <3>1, i - 1 \in Nat
  <2>2. (j + 1) * s = j * s + s /\ j * s \in Nat
    BY <1>2
  <2>3. p.first + s = j * s + s
    BY <1>1, <1>6, <2>1, <2>2
  <2>4. p.first = j * s
    <3> HIDE DEF p, s
    <3> QED
      BY <1>2, <1>3, <2>2, <2>3
  <2>5. p.first + s <= 2 ^ Bits[v]
    <3>1. n.first + s <= 2 ^ Bits[v]
      BY NetworkForm
    <3>2. Bits[v] \in 0..Bits[v] /\ v \in Versions
      BY <1>2, BitsAssumption DEF Blocks
    <3>3. 2 ^ Bits[v] \in Nat
      BY <3>2, PowerType
    <3> HIDE DEF p, v, s
    <3> QED
      BY <1>2, <1>3, <1>6, <3>1, <3>3
  <2>6. z \in Blocks
    BY <1>2, <1>3 DEF Blocks
  <2>7. z \in Networks
    BY <1>1, <2>4, <2>5, <2>6, FormsNetwork
  <2> QED
    BY <1>4, <1>6, <2>7
<1> QED
  BY <1>3, <1>5, <1>6

\* The numbers of a network, one by one.
LEMMA NumbersAre ==
  ASSUME NEW n \in Networks
  PROVE  /\ n.version \in Versions /\ n.first \in Nat /\ n.size \in Nat \ {0}
         /\ \A w, a : <<w, a>> \in Numbers(n) <=>
              w = n.version /\ a \in Nat /\ n.first <= a /\ a < n.first + n.size
         /\ \A c \in Numbers(n) : c = <<c[1], c[2]>>
<1>1. n \in Blocks /\ n.size # 0
  BY NetworkForm
<1> QED
  BY <1>1 DEF Blocks, Numbers

\* Networks without a common number.
Apart(n, m) == n.version # m.version \/ Left(n, m) \/ Left(m, n)

LEMMA ApartIsDisjoint ==
  ASSUME NEW n \in Networks, NEW m \in Networks
  PROVE  /\ Apart(n, m) <=> Numbers(n) \cap Numbers(m) = {}
         /\ Apart(n, m) \/ (n.size <= m.size /\ In(n, m)) \/ (m.size <= n.size /\ In(m, n))
<1>1. /\ n.first \in Nat /\ n.size \in Nat \ {0} /\ m.first \in Nat /\ m.size \in Nat \ {0}
  BY NumbersAre
<1>2. Apart(n, m) => Numbers(n) \cap Numbers(m) = {}
  <2> SUFFICES ASSUME Apart(n, m), NEW c \in Numbers(n), c \in Numbers(m) PROVE FALSE
    OBVIOUS
  <2>1. c = <<c[1], c[2]>>
    BY NumbersAre
  <2> QED
    BY <1>1, <2>1, NumbersAre DEF Apart, Left
<1>3. Apart(n, m) \/ (n.size <= m.size /\ In(n, m)) \/ (m.size <= n.size /\ In(m, n))
  BY <1>1, NestedOrApart DEF Apart
<1>4. In(n, m) => <<n.version, n.first>> \in Numbers(n) \cap Numbers(m)
  BY <1>1, NumbersAre DEF In
<1>5. In(m, n) => <<m.version, m.first>> \in Numbers(n) \cap Numbers(m)
  BY <1>1, NumbersAre DEF In
<1> QED
  BY <1>2, <1>3, <1>4, <1>5

\* One network is in another when its numbers are.
LEMMA InIsSubset ==
  ASSUME NEW n \in Networks, NEW m \in Networks
  PROVE  /\ In(n, m) <=> Numbers(n) \subseteq Numbers(m)
         /\ In(n, m) => n.size <= m.size
         /\ In(n, m) /\ n.size = m.size => n = m
         /\ In(n, m) /\ n # m => n.size < m.size
<1>1. /\ n.first \in Nat /\ n.size \in Nat \ {0} /\ m.first \in Nat /\ m.size \in Nat \ {0}
      /\ n \in Blocks /\ m \in Blocks
  BY NumbersAre, NetworkForm
<1>2. In(n, m) => Numbers(n) \subseteq Numbers(m)
  <2> SUFFICES ASSUME In(n, m), NEW c \in Numbers(n) PROVE c \in Numbers(m)
    OBVIOUS
  <2>1. c = <<c[1], c[2]>>
    BY NumbersAre
  <2> QED
    BY <1>1, <2>1, NumbersAre DEF In
<1>3. ASSUME Numbers(n) \subseteq Numbers(m) PROVE In(n, m)
  <2>1. /\ <<n.version, n.first>> \in Numbers(n)
        /\ <<n.version, n.first + n.size - 1>> \in Numbers(n)
    BY <1>1, NumbersAre
  <2>2. /\ n.version = m.version /\ m.first <= n.first
        /\ n.first + n.size - 1 < m.first + m.size
    BY <1>3, <2>1, NumbersAre
  <2> QED
    BY <1>1, <2>2 DEF In
<1>4. In(n, m) => n.size <= m.size
  BY <1>1 DEF In
<1>5. In(n, m) /\ n.size = m.size => n = m
  <2> SUFFICES ASSUME In(n, m), n.size = m.size PROVE n = m
    OBVIOUS
  <2>1. n.version = m.version /\ n.first = m.first
    BY <1>1 DEF In
  <2> QED
    BY <1>1, <2>1 DEF Blocks
<1> QED
  BY <1>1, <1>2, <1>3, <1>4, <1>5

\* A network of one number.
LEMMA SingleNumber ==
  ASSUME NEW n \in Networks, NEW c \in Numbers(n)
  PROVE  \E z \in Networks : Numbers(z) = {c} /\ In(z, n) /\ z.version = n.version
<1> DEFINE a == c[2]
           z == [version |-> n.version, first |-> a, size |-> 1]
<1>1. /\ n.version \in Versions /\ n.first \in Nat /\ n.size \in Nat
      /\ c = <<n.version, a>> /\ a \in Nat
      /\ n.first <= a /\ a < n.first + n.size
  BY NumbersAre
<1>2. Bits[n.version] \in Nat /\ n.first + n.size <= 2 ^ Bits[n.version]
  BY <1>1, NetworkForm, BitsAssumption
<1>3. z \in Networks
  <2>1. z \in Blocks /\ z.size = 2 ^ 0 /\ z.first = a * z.size /\ 0 \in 0..Bits[n.version]
    BY <1>1, <1>2, PowersAssumption DEF Blocks
  <2>2. 2 ^ Bits[n.version] \in Nat
    BY <1>1, <1>2, PowerType
  <2>3. z.first + z.size <= 2 ^ Bits[z.version]
    BY <1>1, <1>2, <2>2
  <2> QED
    BY <1>1, <2>1, <2>3, FormsNetwork
<1>4. Numbers(z) = {<<n.version, i>> : i \in a..(a + 1 - 1)}
  BY DEF Numbers
<1>5. a..(a + 1 - 1) = {a}
  BY <1>1
<1>6. In(z, n)
  BY <1>1 DEF In
<1> QED
  BY <1>1, <1>3, <1>4, <1>5, <1>6

-----------------------------------------------------------------------------
(* Taking a network out of one that holds it *)

LEMMA PrecedesOrders ==
  /\ \A x \in Networks : ~Precedes(x, x)
  /\ \A x, y \in Networks : x # y => Precedes(x, y) \/ Precedes(y, x)
  /\ \A x, y, z \in Networks : Precedes(x, y) /\ Precedes(y, z) => Precedes(x, z)
  /\ \A x, y \in Networks : Precedes(x, y) => ~Precedes(y, x)
<1>1. ASSUME NEW x \in Networks
      PROVE  x \in Blocks /\ x.version \in Nat /\ x.first \in Nat /\ x.size \in Nat
  <2>1. x \in Blocks
    BY NetworkForm
  <2> QED
    BY <2>1 DEF Blocks, Versions
<1>2. ASSUME NEW x \in Networks, NEW y \in Networks, x # y
      PROVE  x.version # y.version \/ x.first # y.first \/ x.size # y.size
  BY <1>1, <1>2 DEF Blocks
<1> QED
  BY <1>1, <1>2 DEF Precedes

\* There are finitely many networks inside one.
LEMMA InsideIsFinite ==
  ASSUME NEW m \in Networks, NEW S, S \subseteq Networks, \A n \in S : In(n, m)
  PROVE  IsFiniteSet(S)
<1> DEFINE top == m.first + m.size
           pair == [n \in S |-> <<n.first, n.size>>]
           pairs == (0..top) \X (0..top)
<1>1. m.first \in Nat /\ m.size \in Nat
  BY NumbersAre
<1>2. ASSUME NEW n \in S
      PROVE  n \in Blocks /\ n.version = m.version /\ n.first \in 0..top /\ n.size \in 0..top
  <2>1. n \in Blocks /\ n.first \in Nat /\ n.size \in Nat
    BY NetworkForm, NumbersAre
  <2> QED
    BY <1>1, <2>1 DEF In
<1>3. pair \in Injection(S, pairs)
  <2>1. pair \in [S -> pairs]
    BY <1>2
  <2>2. ASSUME NEW x \in S, NEW y \in S, pair[x] = pair[y] PROVE x = y
    BY <1>2, <2>2 DEF Blocks
  <2> HIDE DEF pair, pairs
  <2> QED
    BY <2>1, <2>2, Zenon DEF Injection, IsInjective
<1>4. IsFiniteSet(pairs)
  <2>1. IsFiniteSet(0..top)
    BY <1>1, FS_Interval
  <2> QED
    BY <2>1, FS_Product
<1> HIDE DEF pair, pairs
<1> QED
  BY <1>3, <1>4, FS_Injection

\* AddressExclude gives networks, which hold every number of m that is not of x
\* and no other: the halves are enough, and none reaches into x.
LEMMA AddressExcludeIsExact ==
  ASSUME NEW m \in Networks, NEW x \in Networks, In(x, m)
  PROVE  /\ AddressExclude(m, x) \in Seq(Networks)
         /\ UNION {Numbers(AddressExclude(m, x)[k]) : k \in DOMAIN AddressExclude(m, x)}
              = Numbers(m) \ Numbers(x)
<1> DEFINE rest == {n \in Networks :
                     /\ In(n, m) /\ n # m
                     /\ Numbers(n) \cap Numbers(x) = {}
                     /\ In(x, Supernet(n))}
           less == {p \in rest \X rest : Precedes(p[1], p[2])}
           parts == InOrder(rest, less)
           N == Cardinality(rest)
<1>1. IsFiniteSet(rest) /\ N \in Nat
  <2>1. IsFiniteSet(rest)
    BY InsideIsFinite
  <2> QED
    BY <2>1, FS_CardinalityType
<1>2. Orders(less, rest)
  <2>1. rest \subseteq Networks
    OBVIOUS
  <2>2. \A y, z \in rest : <<y, z>> \in less <=> Precedes(y, z)
    <3> HIDE DEF rest
    <3> QED
      OBVIOUS
  <2> HIDE DEF rest, less
  <2> QED
    BY <2>1, <2>2, PrecedesOrders DEF Orders
<1>3. /\ parts \in [1..N -> rest]
      /\ \A n \in rest : \E k \in 1..N : parts[k] = n
  <2> HIDE DEF rest, less
  <2> QED
    BY <1>1, <1>2, InOrderSorts
<1>4. AddressExclude(m, x) = parts
  BY DEF AddressExclude
<1>5. parts \in Seq(Networks) /\ DOMAIN parts = 1..N
  <2>1. parts \in [1..N -> Networks]
    <3>1. rest \subseteq Networks
      OBVIOUS
    <3> HIDE DEF rest, parts, N
    <3> QED
      BY <1>3, <3>1
  <2> HIDE DEF rest, parts, N
  <2> QED
    BY <1>1, <2>1
<1>6. \A k \in DOMAIN parts : parts[k] \in rest
  <2> HIDE DEF rest, parts, N
  <2> QED
    BY <1>3, <1>5
<1>7. ASSUME NEW n \in rest PROVE Numbers(n) \subseteq Numbers(m) \ Numbers(x)
  BY InIsSubset
<1>8. ASSUME NEW c \in Numbers(m), c \notin Numbers(x)
      PROVE  \E n \in rest : c \in Numbers(n)
  <2> DEFINE near == {n \in Networks : In(n, m) /\ c \in Numbers(n) /\ Apart(n, x)}
             gaps == {m.size - n.size : n \in near}
  <2>1. /\ m.size \in Nat /\ m.version \in Versions /\ x.size \in Nat \ {0}
        /\ m.first + m.size <= 2 ^ Bits[m.version] /\ m.first \in Nat
    BY NumbersAre, NetworkForm
  <2>2. \A n \in near : /\ n \in Networks /\ n.size \in Nat \ {0} /\ n.size <= m.size
                        /\ n.version = m.version
    BY NumbersAre, InIsSubset DEF In
  <2>3. near # {}
    <3>1. PICK z \in Networks : Numbers(z) = {c} /\ In(z, m)
      BY SingleNumber
    <3>2. Apart(z, x)
      BY <1>8, <3>1, ApartIsDisjoint
    <3>3. z \in near
      BY <3>1, <3>2
    <3> QED
      BY <3>3
  <2>4. gaps \subseteq Nat /\ gaps # {}
    <3> HIDE DEF near
    <3> QED
      BY <2>1, <2>2, <2>3
  <2>5. PICK gap \in gaps : \A g \in gaps : gap <= g
    <3> HIDE DEF gaps
    <3> QED
      BY <2>4, LeastNumber
  <2>6. PICK n \in near : gap = m.size - n.size
    OBVIOUS
  <2>7. \A z \in near : z.size <= n.size
    <3> SUFFICES ASSUME NEW z \in near PROVE z.size <= n.size
      OBVIOUS
    <3>1. m.size - n.size <= m.size - z.size
      <4> HIDE DEF near
      <4> QED
        BY <2>5, <2>6
    <3> HIDE DEF near, gaps
    <3> QED
      BY <2>1, <2>2, <3>1
  <2>8. In(n, m) /\ c \in Numbers(n) /\ Apart(n, x) /\ n \in Networks
    OBVIOUS
  <2> HIDE DEF near, gaps
  <2>9. Numbers(n) \cap Numbers(x) = {}
    BY <2>8, ApartIsDisjoint
  <2>10. n # m
    <3>1. Numbers(x) \subseteq Numbers(m)
      BY InIsSubset
    <3>2. <<x.version, x.first>> \in Numbers(x)
      BY NumbersAre
    <3> QED
      BY <2>9, <3>1, <3>2
  <2>11. n.size < m.size
    BY <2>8, <2>10, InIsSubset
  <2>12. n.size # 2 ^ Bits[n.version]
    <3>1. Bits[m.version] \in 0..Bits[m.version]
      BY <2>1, BitsAssumption
    <3>2. 2 ^ Bits[m.version] \in Nat
      BY <2>1, <3>1, PowerType
    <3> QED
      BY <2>1, <2>2, <2>8, <2>11, <3>2
  <2> DEFINE p == Supernet(n)
  <2>13. p \in Networks /\ p.size = 2 * n.size /\ Numbers(n) \subseteq Numbers(p)
    <3>1. /\ p \in Networks /\ p.version = n.version /\ p.size = 2 * n.size /\ p.first \in Nat
          /\ p.first = n.first \/ p.first + n.size = n.first
      BY <2>8, <2>12, SupernetForm
    <3>2. n.first \in Nat /\ n.size \in Nat
      BY <2>8, NumbersAre
    <3> HIDE DEF p
    <3>3. In(n, p)
      BY <3>1, <3>2 DEF In
    <3> QED
      BY <2>8, <3>1, <3>3, InIsSubset
  <2> HIDE DEF p
  <2>14. c \in Numbers(p) /\ p.size \in Nat /\ n.size < p.size /\ n.size \in Nat \ {0}
    BY <2>2, <2>8, <2>13
  <2>15. In(p, m)
    <3>1. ~Apart(p, m)
      BY <2>13, <2>14, ApartIsDisjoint
    <3>2. CASE In(m, p)
      <4>1. 2 * n.size <= m.size
        BY <2>2, <2>8, <2>11, SizesDivide
      <4>2. m.size = p.size
        BY <2>1, <2>13, <2>14, <3>2, <4>1, InIsSubset
      <4>3. m = p
        BY <2>13, <3>2, <4>2, InIsSubset
      <4> QED
        BY <3>2, <4>3
    <3> QED
      BY <2>13, <3>1, <3>2, ApartIsDisjoint
  <2>16. ~Apart(p, x)
    <3> SUFFICES ASSUME Apart(p, x) PROVE FALSE
      OBVIOUS
    <3>1. p \in near
      BY <2>13, <2>14, <2>15 DEF near
    <3> QED
      BY <2>7, <2>14, <3>1
  <2>17. In(x, p)
    <3>1. ~In(p, x)
      BY <1>8, <2>13, <2>14, InIsSubset
    <3> QED
      BY <2>13, <2>16, <3>1, ApartIsDisjoint
  <2>18. n \in rest
    BY <2>8, <2>9, <2>10, <2>17 DEF p
  <2> QED
    BY <2>8, <2>18
<1>9. UNION {Numbers(parts[k]) : k \in DOMAIN parts} = Numbers(m) \ Numbers(x)
  <2> HIDE DEF rest, parts, N
  <2>1. ASSUME NEW c \in Numbers(m) \ Numbers(x)
        PROVE  \E k \in DOMAIN parts : c \in Numbers(parts[k])
    BY <1>3, <1>5, <1>8
  <2> QED
    BY <1>6, <1>7, <2>1
<1> HIDE DEF parts
<1> QED
  BY <1>4, <1>5, <1>9

-----------------------------------------------------------------------------
(* Lists *)

\* What FlattenSeq's function is, up to a place.
Flattens(joined, ls, n) ==
  joined = [i \in 1..n |-> IF i = 1 THEN ls[i] ELSE joined[i - 1] \o ls[i]]

\* A flattened list holds the elements of its lists and no other.
LEMMA FlattenHolds ==
  ASSUME NEW S, NEW ls \in Seq(Seq(S))
  PROVE  /\ FlattenSeq(ls) \in Seq(S)
         /\ \A e : (\E k \in DOMAIN FlattenSeq(ls) : FlattenSeq(ls)[k] = e) <=>
                   (\E i \in DOMAIN ls : \E k \in DOMAIN ls[i] : ls[i][k] = e)
<1> DEFINE N == Len(ls)
           Good(joined, i) ==
             /\ joined[i] \in Seq(S)
             /\ \A e : (\E k \in DOMAIN joined[i] : joined[i][k] = e) <=>
                       (\E j \in 1..i : \E k \in DOMAIN ls[j] : ls[j][k] = e)
           some == {n \in Nat : \E joined : Flattens(joined, ls, n)}
<1>1. N \in Nat /\ DOMAIN ls = 1..N /\ \A i \in 1..N : ls[i] \in Seq(S)
  OBVIOUS
<1>2. Nat \subseteq some
  <2>1. 0 \in some
    <3>1. Flattens([i \in 1..0 |-> {}], ls, 0)
      BY DEF Flattens
    <3> QED
      BY <3>1
  <2>2. ASSUME NEW n \in Nat, n \in some PROVE n + 1 \in some
    <3>1. PICK joined : Flattens(joined, ls, n)
      BY <2>2
    <3> DEFINE more == [i \in 1..(n + 1) |->
                          IF i = n + 1
                          THEN IF i = 1 THEN ls[i] ELSE joined[i - 1] \o ls[i]
                          ELSE joined[i]]
    <3>2. \A i \in 1..n : joined[i] = IF i = 1 THEN ls[i] ELSE joined[i - 1] \o ls[i]
      BY <3>1, Zenon DEF Flattens
    <3>3. \A i \in 1..(n + 1) : i # 1 => i - 1 \in 1..(n + 1) /\ i - 1 # n + 1
      OBVIOUS
    <3>4. \A i \in 1..(n + 1) :
            more[i] = IF i = 1 THEN ls[i] ELSE more[i - 1] \o ls[i]
      <4> SUFFICES ASSUME NEW i \in 1..(n + 1)
                   PROVE  more[i] = IF i = 1 THEN ls[i] ELSE more[i - 1] \o ls[i]
        OBVIOUS
      <4>1. i # 1 => more[i - 1] = joined[i - 1]
        BY <3>3
      <4>2. CASE i = n + 1
        BY <4>1, <4>2
      <4>3. CASE i # n + 1
        <5>1. i \in 1..n
          BY <4>3
        <5> QED
          BY <3>2, <4>1, <4>3, <5>1
      <4> QED
        BY <4>2, <4>3
    <3>5. Flattens(more, ls, n + 1)
      <4>1. more = [i \in 1..(n + 1) |-> more[i]]
        OBVIOUS
      <4> HIDE DEF more
      <4> QED
        BY <3>4, <4>1, Zenon DEF Flattens
    <3> HIDE DEF more
    <3> QED
      BY <3>5
  <2> HIDE DEF some
  <2> QED
    BY <2>1, <2>2, AllNumbers
<1>3. ASSUME NEW joined, Flattens(joined, ls, N)
      PROVE  \A i \in 1..N : Good(joined, i)
  <2> DEFINE good == {n \in Nat : n \in 1..N => Good(joined, n)}
  <2>1. \A i \in 1..N : joined[i] = IF i = 1 THEN ls[i] ELSE joined[i - 1] \o ls[i]
    BY <1>3, Zenon DEF Flattens
  <2>2. 0 \in good
    OBVIOUS
  <2>3. ASSUME NEW n \in Nat, n \in good PROVE n + 1 \in good
    <3> HIDE DEF Good
    <3> SUFFICES ASSUME n + 1 \in 1..N PROVE Good(joined, n + 1)
      OBVIOUS
    <3> USE DEF Good
    <3>1. CASE n = 0
      <4>1. joined[1] = ls[1] /\ 1 \in 1..N /\ 1..1 = {1}
        BY <1>1, <2>1, <3>1
      <4> QED
        BY <1>1, <3>1, <4>1
    <3>2. CASE n # 0
      <4>1. n \in 1..N /\ n + 1 \in 1..N /\ n + 1 # 1 /\ (n + 1) - 1 = n
        BY <1>1, <3>2
      <4>2. Good(joined, n)
        BY <2>3, <4>1
      <4>3. joined[n + 1] = joined[n] \o ls[n + 1]
        BY <2>1, <4>1
      <4> DEFINE a == joined[n]
                 b == ls[n + 1]
                 c == joined[n + 1]
      <4>4. a \in Seq(S) /\ b \in Seq(S) /\ c = a \o b
        BY <1>1, <4>1, <4>2, <4>3
      <4>5. \A j : j \in 1..(n + 1) <=> (j \in 1..n \/ j = n + 1)
        OBVIOUS
      <4>6. \A e : (\E j \in 1..n : \E k \in DOMAIN ls[j] : ls[j][k] = e) <=>
                   (\E k \in DOMAIN a : a[k] = e)
        BY <4>2
      <4>7. \A e : (\E j \in 1..(n + 1) : \E k \in DOMAIN ls[j] : ls[j][k] = e) <=>
                   (\E k \in DOMAIN a : a[k] = e) \/ (\E k \in DOMAIN b : b[k] = e)
        <5> HIDE DEF a
        <5> QED
          BY <4>5, <4>6
      <4> HIDE DEF a, b
      <4>8. /\ c \in Seq(S) /\ Len(c) = Len(a) + Len(b)
            /\ \A k \in 1..Len(a) : c[k] = a[k]
            /\ \A k \in 1..Len(b) : c[Len(a) + k] = b[k]
        <5> HIDE DEF c
        <5> QED
          BY <4>4
      <4>9. /\ DOMAIN a = 1..Len(a) /\ DOMAIN b = 1..Len(b) /\ DOMAIN c = 1..Len(c)
            /\ Len(a) \in Nat /\ Len(b) \in Nat /\ Len(c) \in Nat
        <5> HIDE DEF c
        <5> QED
          BY <4>4, <4>8
      <4> HIDE DEF c
      <4>10. \A k \in DOMAIN c : (\E i \in DOMAIN a : a[i] = c[k]) \/ (\E i \in DOMAIN b : b[i] = c[k])
        <5> SUFFICES ASSUME NEW k \in DOMAIN c
                     PROVE  (\E i \in DOMAIN a : a[i] = c[k]) \/ (\E i \in DOMAIN b : b[i] = c[k])
          OBVIOUS
        <5>1. k \in 1..Len(a) \/ (k - Len(a) \in 1..Len(b) /\ k = Len(a) + (k - Len(a)))
          BY <4>8, <4>9
        <5> QED
          BY <4>8, <4>9, <5>1
      <4>11. \A i \in DOMAIN a : \E k \in DOMAIN c : c[k] = a[i]
        BY <4>8, <4>9
      <4>12. \A i \in DOMAIN b : \E k \in DOMAIN c : c[k] = b[i]
        <5> SUFFICES ASSUME NEW i \in DOMAIN b PROVE \E k \in DOMAIN c : c[k] = b[i]
          OBVIOUS
        <5>1. Len(a) + i \in DOMAIN c
          BY <4>8, <4>9
        <5> QED
          BY <4>8, <4>9, <5>1
      <4>13. \A e : (\E k \in DOMAIN c : c[k] = e) <=>
                    (\E k \in DOMAIN a : a[k] = e) \/ (\E k \in DOMAIN b : b[k] = e)
        BY <4>10, <4>11, <4>12, Zenon
      <4>14. \A e : (\E k \in DOMAIN c : c[k] = e) <=>
                    (\E j \in 1..(n + 1) : \E k \in DOMAIN ls[j] : ls[j][k] = e)
        BY <4>7, <4>13, Zenon
      <4> QED
        BY <4>8, <4>14, Zenon DEF c
    <3> QED
      BY <3>1, <3>2
  <2>4. Nat \subseteq good
    <3> HIDE DEF good
    <3> QED
      BY <2>2, <2>3, AllNumbers
  <2> HIDE DEF Good
  <2> QED
    BY <1>1, <2>4
<1>4. CASE N = 0
  BY <1>1, <1>4 DEF FlattenSeq
<1>5. CASE N # 0
  <2> DEFINE joined == CHOOSE f : Flattens(f, ls, N)
  <2>1. FlattenSeq(ls) = joined[N]
    BY <1>5 DEF FlattenSeq, Flattens
  <2>2. Flattens(joined, ls, N)
    BY <1>1, <1>2
  <2>3. N \in 1..N
    BY <1>1, <1>5
  <2> HIDE DEF joined
  <2>4. Good(joined, N)
    <3> HIDE DEF Good
    <3> QED
      BY <1>3, <2>2, <2>3
  <2> QED
    BY <1>1, <2>1, <2>4
<1> QED
  BY <1>4, <1>5

LEMMA RemainingIsExact ==
  ASSUME NEW a \in Addresses, NEW x \in Networks
  PROVE  /\ Remaining(a, x) \in Seq(Addresses)
         /\ Covered(Remaining(a, x)) = Numbers(a.net) \ Numbers(x)
<1>1. a.net \in Networks
  BY DEF Addresses
<1>2. CASE In(a.net, x)
  <2>1. Remaining(a, x) = <<>> /\ Numbers(a.net) \subseteq Numbers(x)
    BY <1>1, <1>2, InIsSubset DEF Remaining
  <2> QED
    BY <2>1 DEF Covered
<1>3. CASE ~In(a.net, x) /\ In(x, a.net)
  <2> DEFINE parts == AddressExclude(a.net, x)
             left == Parts(a.net, x)
  <2>1. /\ parts \in Seq(Networks)
        /\ UNION {Numbers(parts[k]) : k \in DOMAIN parts} = Numbers(a.net) \ Numbers(x)
    BY <1>1, <1>3, AddressExcludeIsExact
  <2>2. left = [k \in DOMAIN parts |-> [net |-> parts[k], text |-> <<>>]]
    BY DEF Parts
  <2> HIDE DEF parts, left
  <2>3. Len(parts) \in Nat /\ DOMAIN parts = 1..Len(parts)
    BY <2>1
  <2>4. \A k \in DOMAIN parts : parts[k] \in Networks
    BY <2>1
  <2>5. left \in [1..Len(parts) -> Addresses]
    BY <2>2, <2>3, <2>4 DEF Addresses
  <2>6. left \in Seq(Addresses)
    BY <2>3, <2>5
  <2>7. Covered(left) = UNION {Numbers(parts[k]) : k \in DOMAIN parts}
    BY <2>2 DEF Covered
  <2>8. Remaining(a, x) = left
    BY <1>3 DEF Remaining, left
  <2> QED
    BY <2>1, <2>6, <2>7, <2>8
<1>4. CASE ~In(a.net, x) /\ ~In(x, a.net)
  <2>1. Numbers(a.net) \cap Numbers(x) = {}
    BY <1>1, <1>4, ApartIsDisjoint
  <2>2. Remaining(a, x) = <<a>>
    BY <1>4 DEF Remaining
  <2>3. Covered(<<a>>) = Numbers(a.net)
    BY DEF Covered
  <2> QED
    BY <2>1, <2>2, <2>3
<1> QED
  BY <1>2, <1>3, <1>4

\* A number is of a list when it is of one of its addresses.
LEMMA CoveredBy ==
  ASSUME NEW l
  PROVE  \A c : c \in Covered(l) <=> \E k \in DOMAIN l : c \in Numbers(l[k].net)
BY DEF Covered

\* Taking a network out of a list takes its numbers out, and no other.
LEMMA RemoveIsExact ==
  ASSUME NEW l \in Seq(Addresses), NEW x \in Networks
  PROVE  /\ RemoveAddressFromList(l, x) \in Seq(Addresses)
         /\ Covered(RemoveAddressFromList(l, x)) = Covered(l) \ Numbers(x)
<1> DEFINE ls == [k \in DOMAIN l |-> Remaining(l[k], x)]
           joined == FlattenSeq(ls)
<1>1. Len(l) \in Nat /\ DOMAIN l = 1..Len(l) /\ \A k \in DOMAIN l : l[k] \in Addresses
  OBVIOUS
<1>2. ASSUME NEW k \in DOMAIN l
      PROVE  ls[k] \in Seq(Addresses) /\ Covered(ls[k]) = Numbers(l[k].net) \ Numbers(x)
  BY <1>1, RemainingIsExact
<1>3. DOMAIN ls = DOMAIN l
  OBVIOUS
<1>4. ls \in Seq(Seq(Addresses))
  <2>1. ls \in [1..Len(l) -> Seq(Addresses)]
    BY <1>1, <1>2
  <2> HIDE DEF ls
  <2> QED
    BY <1>1, <2>1
<1> HIDE DEF ls
<1>5. /\ joined \in Seq(Addresses)
      /\ \A e : (\E k \in DOMAIN joined : joined[k] = e) <=>
                (\E i \in DOMAIN ls : \E k \in DOMAIN ls[i] : ls[i][k] = e)
  BY <1>4, FlattenHolds
<1> HIDE DEF joined
<1>6. ASSUME NEW c
      PROVE  c \in Covered(joined) <=> \E i \in DOMAIN ls : c \in Covered(ls[i])
  <2>1. c \in Covered(joined) <=> \E k \in DOMAIN joined : c \in Numbers(joined[k].net)
    BY CoveredBy
  <2>2. \A i \in DOMAIN ls :
          c \in Covered(ls[i]) <=> \E k \in DOMAIN ls[i] : c \in Numbers(ls[i][k].net)
    BY CoveredBy
  <2>3. ASSUME NEW k \in DOMAIN joined, c \in Numbers(joined[k].net)
        PROVE  \E i \in DOMAIN ls : c \in Covered(ls[i])
    <3>1. PICK i \in DOMAIN ls : \E h \in DOMAIN ls[i] : ls[i][h] = joined[k]
      BY <1>5, Zenon
    <3> QED
      BY <2>2, <2>3, <3>1
  <2>4. ASSUME NEW i \in DOMAIN ls, c \in Covered(ls[i])
        PROVE  \E k \in DOMAIN joined : c \in Numbers(joined[k].net)
    <3>1. PICK h \in DOMAIN ls[i] : c \in Numbers(ls[i][h].net)
      BY <2>2, <2>4
    <3>2. PICK k \in DOMAIN joined : joined[k] = ls[i][h]
      BY <1>5, Zenon
    <3> QED
      BY <3>1, <3>2
  <2> QED
    BY <2>1, <2>3, <2>4
<1>7. \A c : c \in Covered(joined) <=> c \in Covered(l) \ Numbers(x)
  BY <1>2, <1>3, <1>6, CoveredBy
<1>8. RemoveAddressFromList(l, x) = joined
  BY DEF RemoveAddressFromList, joined, ls
<1> QED
  BY <1>5, <1>7, <1>8

\* Sorting puts no address before one that comes before it, and loses none.
LEMMA SortKeeps ==
  ASSUME NEW l \in Seq(Addresses)
  PROVE  /\ SortAddrList(l) \in Seq(Addresses)
         /\ DOMAIN SortAddrList(l) = DOMAIN l
         /\ \A j \in DOMAIN l : \E k \in DOMAIN l : SortAddrList(l)[k] = l[j]
         /\ \A k \in DOMAIN l : \E j \in DOMAIN l : SortAddrList(l)[k] = l[j]
         /\ \A j, k \in DOMAIN l : j < k => ~Before(SortAddrList(l)[k], SortAddrList(l)[j])
<1> DEFINE places == DOMAIN l
           sooner == {p \in places \X places : Sooner(l, p[1], p[2])}
           order == InOrder(places, sooner)
           sorted == SortAddrList(l)
<1>1. /\ Len(l) \in Nat /\ places = 1..Len(l)
      /\ \A k \in places : l[k] \in Addresses /\ l[k].net \in Networks
  <2>1. \A k \in places : l[k] \in Addresses
    OBVIOUS
  <2> QED
    BY <2>1 DEF Addresses
<1>2. IsFiniteSet(places) /\ Cardinality(places) = Len(l)
  BY <1>1, FS_Interval
<1>3. \A i, j \in places : <<i, j>> \in sooner <=> Sooner(l, i, j)
  OBVIOUS
<1>4. Orders(sooner, places)
  <2> HIDE DEF sooner
  <2>1. \A i \in places : i \in Nat
    BY <1>1
  <2>2. \A i \in places : ~Sooner(l, i, i)
    BY <1>1, <2>1, PrecedesOrders DEF Sooner, Before
  <2>3. \A i, j \in places : i # j => Sooner(l, i, j) \/ Sooner(l, j, i)
    BY <1>1, <2>1, PrecedesOrders DEF Sooner, Before
  <2>4. ASSUME NEW i \in places, NEW j \in places, NEW k \in places,
               Sooner(l, i, j), Sooner(l, j, k)
        PROVE  Sooner(l, i, k)
    <3> HIDE DEF places
    <3> DEFINE a == l[i].net
               b == l[j].net
               c == l[k].net
    <3>1. a \in Networks /\ b \in Networks /\ c \in Networks
      BY <1>1
    <3> HIDE DEF a, b, c
    <3>2. /\ a = b \/ (Precedes(a, b) /\ ~Precedes(b, a)) \/ (Precedes(b, a) /\ ~Precedes(a, b))
          /\ b = c \/ (Precedes(b, c) /\ ~Precedes(c, b)) \/ (Precedes(c, b) /\ ~Precedes(b, c))
          /\ ~Precedes(b, b)
          /\ Precedes(a, b) /\ Precedes(b, c) => Precedes(a, c) /\ ~Precedes(c, a)
      BY <3>1, PrecedesOrders
    <3>3. /\ Precedes(a, b) \/ (~Precedes(b, a) /\ i < j)
          /\ Precedes(b, c) \/ (~Precedes(c, b) /\ j < k)
      BY <2>4 DEF Sooner, Before, a, b, c
    <3>4. i < j /\ j < k => i < k
      BY <2>1
    <3>5. Precedes(a, c) \/ (~Precedes(c, a) /\ i < k)
      BY <3>2, <3>3, <3>4
    <3> QED
      BY <3>5 DEF Sooner, Before, a, c
  <2> HIDE DEF places
  <2> QED
    BY <1>3, <2>2, <2>3, <2>4 DEF Orders
<1>5. /\ order \in [places -> places]
      /\ \A i \in places : \E k \in places : order[k] = i
      /\ \A j, k \in places : j < k => <<order[j], order[k]>> \in sooner
  <2> HIDE DEF sooner
  <2>1. 1..Cardinality(places) = places
    BY <1>1, <1>2
  <2> HIDE DEF places
  <2> QED
    BY <1>2, <1>4, <2>1, InOrderSorts
<1>6. sorted = [k \in places |-> l[order[k]]]
  BY DEF SortAddrList
<1> HIDE DEF order, sooner, sorted
<1>7. sorted \in [1..Len(l) -> Addresses]
  BY <1>1, <1>5, <1>6
<1>8. sorted \in Seq(Addresses) /\ DOMAIN sorted = places
  <2>1. sorted \in Seq(Addresses)
    BY <1>1, <1>7
  <2> QED
    BY <1>6, <2>1
<1>9. \A k \in places : order[k] \in places /\ sorted[k] = l[order[k]]
  BY <1>5, <1>6
<1>10. ASSUME NEW j \in places, NEW k \in places, j < k
       PROVE  ~Before(sorted[k], sorted[j])
  <2>1. Sooner(l, order[j], order[k])
    BY <1>3, <1>5, <1>9, <1>10
  <2>2. ~Before(l[order[k]], l[order[j]])
    <3>1. l[order[j]].net \in Networks /\ l[order[k]].net \in Networks
      BY <1>1, <1>9
    <3> HIDE DEF places
    <3> QED
      BY <2>1, <3>1, PrecedesOrders DEF Sooner, Before
  <2> QED
    BY <1>9, <2>2
<1> HIDE DEF places
<1>11. \A j \in places : \E k \in places : sorted[k] = l[j]
  BY <1>5, <1>9
<1> QED
  BY <1>8, <1>9, <1>10, <1>11 DEF sorted, places

-----------------------------------------------------------------------------
(* The invariant *)

AddressLists == Seq(Addresses)

\* An address of the list, the text of a part of its own, holds the network of a.
HeldIn(a, l) == \E k \in DOMAIN l : In(a.net, l[k].net) /\ PartOf(a.text, l[k].text)

\* What a pass has kept, r, and what it has still to look at, t, are what it was
\* asked for.
Holding(r, t, l) ==
  /\ Covered(r) \cup Covered(t) = Covered(l)
  /\ \A j \in DOMAIN l : HeldIn(l[j], r) \/ HeldIn(l[j], t)

\* n comes wholly before m.
Ahead(n, m) == n.version < m.version \/ (n.version = m.version /\ Left(n, m))

Ascending(r) == \A j, k \in DOMAIN r : j < k => Ahead(r[j].net, r[k].net)

Sorted(t) == \A j, k \in DOMAIN t : j < k => ~Before(t[k], t[j])

\* What was kept is apart and in order, what is left is in order and no part of
\* it comes before what was kept last.
Arranged(r, t) ==
  /\ Ascending(r)
  /\ Sorted(t)
  /\ r # <<>> => \A k \in DOMAIN t : ~Before(t[k], r[Len(r)])

\* The list has no two halves of a network side by side.
NoHalves(l) ==
  \A j, k \in DOMAIN l : k = j + 1 => l[k].net # UpperHalf(Supernet(l[j].net))

Types ==
  /\ pc \in Collapsing \cup {"remove", "done"}
  /\ superset \in AddressLists /\ excludes \in AddressLists /\ todo \in AddressLists
  /\ ret \in AddressLists /\ asked \in AddressLists
  /\ optimized \in BOOLEAN

Difference == Covered(args.superset) \ Covered(args.excludes)

\* What the lists hold at each place of AddressListExclude.
Stages ==
  /\ pc = "collapse superset" => asked = args.superset /\ excludes = args.excludes
  /\ pc = "collapse excludes" => /\ asked = args.excludes
                                 /\ Covered(superset) = Covered(args.superset)
  /\ pc = "remove" => Covered(superset) \ Covered(excludes) = Difference
  /\ pc = "collapse result" => Covered(asked) = Difference
  /\ pc = "done" => Covered(superset) = Difference

Pass ==
  /\ Holding(ret, todo, asked)
  /\ Arranged(ret, todo)
  /\ optimized \/ NoHalves(ret)

AInv ==
  /\ Types
  /\ pc \in Collapsing => Pass
  /\ Stages

-----------------------------------------------------------------------------
(* The turns of a pass *)

LEMMA AddressFacts ==
  ASSUME NEW a \in Addresses
  PROVE  /\ a.net \in Networks /\ a.text \in Seq(Pieces)
         /\ a = [net |-> a.net, text |-> a.text]
         /\ a.net.version \in Nat /\ a.net.first \in Nat /\ a.net.size \in Nat \ {0}
<1>1. a.net \in Networks
  BY DEF Addresses
<1>2. a.net.version \in Nat /\ a.net.first \in Nat /\ a.net.size \in Nat \ {0}
  BY <1>1, NumbersAre DEF Versions
<1> QED
  BY <1>1, <1>2 DEF Addresses

\* A text is part of itself.
LEMMA PartOfItself ==
  ASSUME NEW x \in Seq(Pieces)
  PROVE  PartOf(x, x)
<1>1. 0 \in 0..(Len(x) - Len(x)) /\ \A i \in 1..Len(x) : x[0 + i] = x[i]
  OBVIOUS
<1> QED
  BY <1>1 DEF PartOf

\* One text in another, and that in a third.
LEMMA PartOfPart ==
  ASSUME NEW x \in Seq(Pieces), NEW y \in Seq(Pieces), NEW z \in Seq(Pieces),
         PartOf(x, y), PartOf(y, z)
  PROVE  PartOf(x, z)
<1>1. PICK j \in 0..(Len(y) - Len(x)) : \A i \in 1..Len(x) : y[j + i] = x[i]
  BY DEF PartOf
<1>2. PICK k \in 0..(Len(z) - Len(y)) : \A i \in 1..Len(y) : z[k + i] = y[i]
  BY DEF PartOf
<1>3. Len(x) \in Nat /\ Len(y) \in Nat /\ Len(z) \in Nat
  OBVIOUS
<1>4. k + j \in 0..(Len(z) - Len(x))
  BY <1>1, <1>2, <1>3
<1>5. ASSUME NEW i \in 1..Len(x) PROVE z[(k + j) + i] = x[i]
  <2>1. j + i \in 1..Len(y) /\ k + (j + i) = (k + j) + i
    BY <1>1, <1>2, <1>3
  <2> QED
    BY <1>1, <1>2, <2>1
<1> QED
  BY <1>4, <1>5 DEF PartOf

\* AddComment keeps the network, the text that was there and the one it adds.
LEMMA CommentAdded ==
  ASSUME NEW a \in Addresses, NEW text \in Seq(Pieces)
  PROVE  /\ AddComment(a, text) \in Addresses
         /\ AddComment(a, text).net = a.net
         /\ PartOf(a.text, AddComment(a, text).text)
         /\ PartOf(text, AddComment(a, text).text)
<1> DEFINE b == AddComment(a, text)
           own == a.text
<1>1. own \in Seq(Pieces) /\ a.net \in Networks /\ a = [net |-> a.net, text |-> own]
  BY AddressFacts
<1>2. CASE own = <<>>
  <2>1. b = [net |-> a.net, text |-> text]
    BY <1>1, <1>2 DEF AddComment
  <2>2. 0 \in 0..(Len(text) - Len(<<>>)) /\ \A i \in 1..Len(<<>>) : text[0 + i] = <<>>[i]
    OBVIOUS
  <2>3. PartOf(<<>>, text)
    BY <2>2 DEF PartOf
  <2> HIDE DEF b
  <2> QED
    BY <1>1, <1>2, <2>1, <2>3, PartOfItself DEF Addresses, b
<1>3. CASE own # <<>> /\ PartOf(text, own)
  <2>1. b = a
    BY <1>3 DEF AddComment
  <2> QED
    BY <1>1, <1>3, <2>1, PartOfItself
<1>4. CASE own # <<>> /\ ~PartOf(text, own)
  <2> DEFINE both == own \o <<Comma>> \o text
  <2>1. b = [net |-> a.net, text |-> both]
    BY <1>1, <1>4 DEF AddComment
  <2>2. /\ both \in Seq(Pieces) /\ Len(own) \in Nat /\ Len(text) \in Nat
        /\ Len(both) = Len(own) + 1 + Len(text)
        /\ \A i \in 1..Len(own) : both[i] = own[i]
        /\ \A i \in 1..Len(text) : both[(Len(own) + 1) + i] = text[i]
    BY <1>1, NacAddrAssumption
  <2> HIDE DEF both, b, own
  <2>3. PartOf(own, both)
    <3>1. 0 \in 0..(Len(both) - Len(own)) /\ \A i \in 1..Len(own) : both[0 + i] = own[i]
      BY <2>2
    <3> QED
      BY <3>1 DEF PartOf
  <2>4. PartOf(text, both)
    <3>1. Len(own) + 1 \in 0..(Len(both) - Len(text))
      BY <2>2
    <3> QED
      BY <2>2, <3>1 DEF PartOf
  <2>5. b \in Addresses /\ b.net = a.net /\ b.text = both
    BY <1>1, <2>1, <2>2 DEF Addresses
  <2> QED
    BY <2>3, <2>4, <2>5 DEF b, own
<1> QED
  BY <1>2, <1>3, <1>4

\* One network in another, and that in a third.
LEMMA InTrans ==
  ASSUME NEW x \in Networks, NEW y \in Networks, NEW z \in Networks, In(x, y), In(y, z)
  PROVE  In(x, z)
BY InIsSubset

\* The first address of a list and the rest of it.
LEMMA HeadAndTail ==
  ASSUME NEW t \in AddressLists, t # <<>>
  PROVE  /\ Head(t) \in Addresses /\ Tail(t) \in AddressLists
         /\ 1 \in DOMAIN t /\ Head(t) = t[1]
         /\ \A k \in DOMAIN Tail(t) : k \in Nat \ {0} /\ k + 1 \in DOMAIN t /\ Tail(t)[k] = t[k + 1]
         /\ Covered(t) = Numbers(Head(t).net) \cup Covered(Tail(t))
         /\ \A x : HeldIn(x, t) <=> \/ In(x.net, Head(t).net) /\ PartOf(x.text, Head(t).text)
                                    \/ HeldIn(x, Tail(t))
         /\ Sorted(t) => Sorted(Tail(t))
         /\ Sorted(t) => \A k \in DOMAIN Tail(t) : ~Before(Tail(t)[k], Head(t))
<1> DEFINE a == Head(t)
           r == Tail(t)
<1>1. /\ a \in Addresses /\ r \in AddressLists /\ a = t[1]
      /\ Len(t) \in Nat \ {0} /\ DOMAIN t = 1..Len(t) /\ DOMAIN r = 1..(Len(t) - 1)
      /\ \A k \in 1..(Len(t) - 1) : r[k] = t[k + 1]
  BY DEF AddressLists
<1> HIDE DEF a, r
<1>2. \A k \in DOMAIN r : k \in Nat \ {0} /\ k + 1 \in DOMAIN t /\ r[k] = t[k + 1]
  BY <1>1
<1>3. \A k \in DOMAIN t : k = 1 \/ (k - 1 \in DOMAIN r /\ t[k] = r[k - 1])
  <2> SUFFICES ASSUME NEW k \in DOMAIN t, k # 1
               PROVE  k - 1 \in DOMAIN r /\ t[k] = r[k - 1]
    OBVIOUS
  <2>1. k - 1 \in 1..(Len(t) - 1) /\ (k - 1) + 1 = k
    BY <1>1
  <2> QED
    BY <1>1, <2>1
<1>4. 1 \in DOMAIN t
  BY <1>1
<1>5. Covered(t) = Numbers(a.net) \cup Covered(r)
  <2>1. ASSUME NEW c, c \in Covered(t) PROVE c \in Numbers(a.net) \cup Covered(r)
    <3>1. PICK k \in DOMAIN t : c \in Numbers(t[k].net)
      BY <2>1, CoveredBy
    <3> QED
      BY <1>1, <1>3, <3>1, CoveredBy
  <2>2. ASSUME NEW c, c \in Numbers(a.net) \cup Covered(r) PROVE c \in Covered(t)
    BY <1>1, <1>2, <1>4, <2>2, CoveredBy
  <2> QED
    BY <2>1, <2>2
<1>6. \A x : HeldIn(x, t) <=> \/ In(x.net, a.net) /\ PartOf(x.text, a.text)
                              \/ HeldIn(x, r)
  BY <1>1, <1>2, <1>3, <1>4 DEF HeldIn
<1>7. Sorted(t) => Sorted(r)
  <2> SUFFICES ASSUME Sorted(t), NEW j \in DOMAIN r, NEW k \in DOMAIN r, j < k
               PROVE  ~Before(r[k], r[j])
    BY DEF Sorted
  <2>1. j + 1 < k + 1
    BY <1>2
  <2> QED
    BY <1>2, <2>1 DEF Sorted
<1>8. Sorted(t) => \A k \in DOMAIN r : ~Before(r[k], a)
  <2> SUFFICES ASSUME Sorted(t), NEW k \in DOMAIN r PROVE ~Before(r[k], a)
    OBVIOUS
  <2>1. 1 < k + 1
    BY <1>2
  <2> QED
    BY <1>1, <1>2, <1>4, <2>1 DEF Sorted
<1> QED
  BY <1>1, <1>2, <1>4, <1>5, <1>6, <1>7, <1>8 DEF a, r

\* The address is kept beside the others.
LEMMA Appended ==
  ASSUME NEW r \in AddressLists, NEW a \in Addresses
  PROVE  /\ Append(r, a) \in AddressLists /\ Append(r, a) # <<>>
         /\ Len(Append(r, a)) = Len(r) + 1 /\ Len(r) \in Nat /\ DOMAIN r = 1..Len(r)
         /\ Append(r, a)[Len(r) + 1] = a
         /\ \A k \in DOMAIN r : Append(r, a)[k] = r[k]
         /\ \A k \in DOMAIN Append(r, a) : k \in DOMAIN r \/ k = Len(r) + 1
         /\ DOMAIN r \subseteq DOMAIN Append(r, a) /\ Len(r) + 1 \in DOMAIN Append(r, a)
         /\ Covered(Append(r, a)) = Covered(r) \cup Numbers(a.net)
         /\ \A x : HeldIn(x, Append(r, a)) <=>
                     HeldIn(x, r) \/ (In(x.net, a.net) /\ PartOf(x.text, a.text))
<1> DEFINE s == Append(r, a)
<1>1. /\ s \in AddressLists /\ Len(s) = Len(r) + 1 /\ Len(r) \in Nat
      /\ DOMAIN r = 1..Len(r) /\ DOMAIN s = 1..(Len(r) + 1)
      /\ s[Len(r) + 1] = a /\ \A k \in 1..Len(r) : s[k] = r[k]
  BY DEF AddressLists
<1> HIDE DEF s
<1>2. /\ \A k \in DOMAIN r : s[k] = r[k]
      /\ \A k \in DOMAIN s : k \in DOMAIN r \/ k = Len(r) + 1
      /\ DOMAIN r \subseteq DOMAIN s /\ Len(r) + 1 \in DOMAIN s
  BY <1>1
<1>3. s # <<>>
  BY <1>1
<1>4. \A c : c \in Covered(s) <=> c \in Covered(r) \/ c \in Numbers(a.net)
  BY <1>1, <1>2, CoveredBy
<1>5. \A x : HeldIn(x, s) <=>
               HeldIn(x, r) \/ (In(x.net, a.net) /\ PartOf(x.text, a.text))
  BY <1>1, <1>2 DEF HeldIn
<1> QED
  BY <1>1, <1>2, <1>3, <1>4, <1>5 DEF s

\* First and Separate lose nothing.
LEMMA KeepHolds ==
  ASSUME NEW r \in AddressLists, NEW t \in AddressLists, t # <<>>,
         NEW l, Holding(r, t, l)
  PROVE  Holding(Append(r, Head(t)), Tail(t), l)
BY HeadAndTail, Appended DEF Holding

\* What a network is ahead of.
LEMMA AheadFacts ==
  ASSUME NEW x \in Networks, NEW y \in Networks, NEW z \in Networks
  PROVE  /\ Ahead(x, y) /\ Ahead(y, z) => Ahead(x, z)
         /\ Ahead(x, y) => ~Ahead(y, x) /\ Precedes(x, y) /\ x # y /\ Apart(x, y)
         /\ Apart(x, y) => Ahead(x, y) \/ Ahead(y, x)
<1>1. /\ x.version \in Nat /\ x.first \in Nat /\ x.size \in Nat \ {0}
      /\ y.version \in Nat /\ y.first \in Nat /\ y.size \in Nat \ {0}
      /\ z.version \in Nat /\ z.first \in Nat /\ z.size \in Nat \ {0}
  BY NumbersAre DEF Versions
<1> QED
  BY <1>1 DEF Ahead, Left, Precedes, Apart

\* The address kept last is ahead of the next one that is neither part of it nor
\* before it.
LEMMA NextIsAhead ==
  ASSUME NEW x \in Networks, NEW y \in Networks, ~Precedes(y, x), ~In(y, x)
  PROVE  Ahead(x, y)
<1>1. /\ x.version \in Nat /\ x.first \in Nat /\ x.size \in Nat \ {0}
      /\ y.version \in Nat /\ y.first \in Nat /\ y.size \in Nat \ {0}
  BY NumbersAre DEF Versions
<1>2. Apart(x, y) \/ (x.size <= y.size /\ In(x, y))
  BY ApartIsDisjoint
<1>3. ~In(x, y)
  <2> SUFFICES ASSUME In(x, y) PROVE FALSE
    OBVIOUS
  <2>1. x.version = y.version /\ y.first = x.first /\ x.size <= y.size
    BY <1>1 DEF In, Precedes
  <2>2. x.size = y.size
    BY <1>1, <2>1 DEF Precedes
  <2>3. In(y, x)
    BY <1>1, <2>1, <2>2 DEF In
  <2> QED
    BY <2>3
<1> QED
  BY <1>1, <1>2, <1>3 DEF Ahead, Apart, Left, Precedes

LEMMA KeepArranges ==
  ASSUME NEW r \in AddressLists, NEW t \in AddressLists, t # <<>>, Arranged(r, t),
         r # <<>> => ~In(Head(t).net, r[Len(r)].net)
  PROVE  Arranged(Append(r, Head(t)), Tail(t))
<1> DEFINE a == Head(t)
           s == Append(r, a)
           n == Len(r)
<1>1. /\ a \in Addresses /\ Tail(t) \in AddressLists /\ a = t[1] /\ 1 \in DOMAIN t
      /\ Sorted(Tail(t)) /\ \A k \in DOMAIN Tail(t) : ~Before(Tail(t)[k], a)
  BY HeadAndTail DEF Arranged
<1>2. /\ s \in AddressLists /\ Len(s) = n + 1 /\ n \in Nat /\ DOMAIN r = 1..n
      /\ s[n + 1] = a /\ \A k \in DOMAIN r : s[k] = r[k]
      /\ \A k \in DOMAIN s : k \in DOMAIN r \/ k = n + 1
  <2> HIDE DEF a
  <2> QED
    BY <1>1, Appended
<1>3. \A k \in DOMAIN r : r[k] \in Addresses /\ r[k].net \in Networks
  <2>1. \A k \in DOMAIN r : r[k] \in Addresses
    BY DEF AddressLists
  <2> QED
    BY <2>1, AddressFacts
<1>4. a.net \in Networks
  BY <1>1, AddressFacts
<1> HIDE DEF a, s
<1>5. ASSUME NEW j \in DOMAIN r PROVE Ahead(r[j].net, a.net)
  <2>1. r # <<>> /\ n \in DOMAIN r
    BY <1>2, <1>5
  <2>2. Ahead(r[n].net, a.net)
    <3>1. ~Precedes(a.net, r[n].net)
      BY <1>1, <2>1 DEF Arranged, Before
    <3>2. ~In(a.net, r[n].net)
      BY <2>1 DEF a
    <3> QED
      BY <1>3, <1>4, <2>1, <3>1, <3>2, NextIsAhead
  <2>3. CASE j = n
    BY <2>2, <2>3
  <2>4. CASE j # n
    <3>1. j < n
      BY <1>2, <2>4
    <3>2. Ahead(r[j].net, r[n].net)
      BY <2>1, <3>1 DEF Arranged, Ascending
    <3> QED
      BY <1>3, <1>4, <2>1, <2>2, <3>2, AheadFacts
  <2> QED
    BY <2>3, <2>4
<1>6. Ascending(s)
  <2> SUFFICES ASSUME NEW j \in DOMAIN s, NEW k \in DOMAIN s, j < k
               PROVE  Ahead(s[j].net, s[k].net)
    BY DEF Ascending
  <2>1. j \in DOMAIN r
    BY <1>2
  <2>2. CASE k \in DOMAIN r
    BY <1>2, <2>1, <2>2 DEF Arranged, Ascending
  <2>3. CASE k = n + 1
    BY <1>2, <1>5, <2>1, <2>3
  <2> QED
    BY <1>2, <2>2, <2>3
<1>7. s[Len(s)] = a
  BY <1>2
<1> QED
  BY <1>1, <1>6, <1>7 DEF Arranged, a, s

\* The address kept last takes in the next one: Subsume and Merge.  It keeps its
\* first number, and is never made smaller.
Grown(r, new) == [r EXCEPT ![Len(r)] = new]

LEMMA GrownFacts ==
  ASSUME NEW r \in AddressLists, r # <<>>, NEW new \in Addresses
  PROVE  /\ Grown(r, new) \in AddressLists
         /\ Len(Grown(r, new)) = Len(r) /\ Len(r) \in DOMAIN r /\ DOMAIN r = 1..Len(r) /\ Len(r) \in Nat
         /\ DOMAIN Grown(r, new) = DOMAIN r
         /\ Grown(r, new)[Len(r)] = new
         /\ \A k \in DOMAIN r : k # Len(r) => Grown(r, new)[k] = r[k]
         /\ \A k \in DOMAIN r : r[k] \in Addresses
<1> DEFINE s == Grown(r, new)
           n == Len(r)
<1>1. n \in Nat \ {0} /\ DOMAIN r = 1..n /\ \A k \in DOMAIN r : r[k] \in Addresses
  BY DEF AddressLists
<1>2. n \in DOMAIN r
  BY <1>1
<1>3. DOMAIN s = DOMAIN r
  BY DEF Grown
<1>4. \A k \in DOMAIN r : s[k] = IF k = n THEN new ELSE r[k]
  BY DEF Grown
<1>5. s = [k \in DOMAIN r |-> s[k]]
  BY DEF Grown
<1> HIDE DEF s
<1>6. s \in [1..n -> Addresses]
  <2>1. \A k \in DOMAIN r : s[k] \in Addresses
    BY <1>1, <1>4
  <2> HIDE DEF n
  <2> QED
    BY <1>1, <1>5, <2>1
<1>7. s \in AddressLists /\ Len(s) = n
  <2> HIDE DEF n
  <2> QED
    BY <1>1, <1>6 DEF AddressLists
<1> QED
  BY <1>1, <1>2, <1>3, <1>4, <1>7 DEF s

LEMMA GrowHolds ==
  ASSUME NEW r \in AddressLists, r # <<>>, NEW t \in AddressLists, t # <<>>,
         NEW l \in AddressLists, Holding(r, t, l), NEW new \in Addresses,
         In(r[Len(r)].net, new.net), In(Head(t).net, new.net),
         Numbers(new.net) = Numbers(r[Len(r)].net) \cup Numbers(Head(t).net),
         PartOf(r[Len(r)].text, new.text), PartOf(Head(t).text, new.text)
  PROVE  Holding(Grown(r, new), Tail(t), l)
<1> DEFINE a == Head(t)
           n == Len(r)
           s == Grown(r, new)
<1>1. /\ DOMAIN s = DOMAIN r /\ s[n] = new /\ n \in DOMAIN r
      /\ \A k \in DOMAIN r : k # n => s[k] = r[k]
      /\ \A k \in DOMAIN r : r[k] \in Addresses
  BY GrownFacts
<1>2. /\ a \in Addresses /\ Tail(t) \in AddressLists
      /\ Covered(t) = Numbers(a.net) \cup Covered(Tail(t))
      /\ \A x : HeldIn(x, t) <=> \/ In(x.net, a.net) /\ PartOf(x.text, a.text)
                                 \/ HeldIn(x, Tail(t))
  BY HeadAndTail
<1>3. /\ a.net \in Networks /\ new.net \in Networks
      /\ \A k \in DOMAIN r : r[k].net \in Networks
      /\ \A j \in DOMAIN l : l[j].net \in Networks /\ l[j].text \in Seq(Pieces)
      /\ a.text \in Seq(Pieces) /\ new.text \in Seq(Pieces)
      /\ \A k \in DOMAIN r : r[k].text \in Seq(Pieces)
  <2>1. \A j \in DOMAIN l : l[j] \in Addresses
    BY DEF AddressLists
  <2> HIDE DEF a
  <2> QED
    BY <1>1, <1>2, <2>1, AddressFacts
<1> HIDE DEF a, n, s
<1>4. Numbers(new.net) = Numbers(r[n].net) \cup Numbers(a.net)
  BY DEF n, a
<1>5. \A c : c \in Covered(s) <=> c \in Covered(r) \/ c \in Numbers(a.net)
  <2>1. ASSUME NEW c, c \in Covered(s) PROVE c \in Covered(r) \/ c \in Numbers(a.net)
    <3>1. PICK k \in DOMAIN r : c \in Numbers(s[k].net)
      BY <1>1, <2>1, CoveredBy
    <3> QED
      BY <1>1, <1>4, <3>1, CoveredBy
  <2>2. ASSUME NEW c, c \in Covered(r) PROVE c \in Covered(s)
    <3>1. PICK k \in DOMAIN r : c \in Numbers(r[k].net)
      BY <2>2, CoveredBy
    <3>2. c \in Numbers(s[k].net)
      BY <1>1, <1>4, <3>1
    <3> QED
      BY <1>1, <3>2, CoveredBy
  <2>3. ASSUME NEW c, c \in Numbers(a.net) PROVE c \in Covered(s)
    BY <1>1, <1>4, <2>3, CoveredBy
  <2> QED
    BY <2>1, <2>2, <2>3
<1>6. Covered(s) \cup Covered(Tail(t)) = Covered(r) \cup Covered(t)
  BY <1>2, <1>5
<1>7. ASSUME NEW j \in DOMAIN l PROVE HeldIn(l[j], s) \/ HeldIn(l[j], Tail(t))
  <2> DEFINE x == l[j]
  <2>1. HeldIn(x, r) \/ HeldIn(x, t)
    BY DEF Holding
  <2>2. x.net \in Networks /\ x.text \in Seq(Pieces)
    BY <1>3
  <2> HIDE DEF x
  <2>3. /\ In(r[n].net, new.net) /\ In(a.net, new.net)
       /\ PartOf(r[n].text, new.text) /\ PartOf(a.text, new.text)
    BY DEF n, a
  <2>4. CASE HeldIn(x, r)
    <3>1. PICK k \in DOMAIN r : In(x.net, r[k].net) /\ PartOf(x.text, r[k].text)
      BY <2>4 DEF HeldIn
    <3>2. CASE k = n
      <4>1. In(x.net, new.net)
        BY <1>3, <2>2, <2>3, <3>1, <3>2, InTrans
      <4>2. PartOf(x.text, new.text)
        BY <1>3, <2>2, <2>3, <3>1, <3>2, PartOfPart
      <4> QED
        BY <1>1, <4>1, <4>2 DEF HeldIn, x
    <3>3. CASE k # n
      BY <1>1, <3>1, <3>3 DEF HeldIn, x
    <3> QED
      BY <3>2, <3>3
  <2>5. CASE In(x.net, a.net) /\ PartOf(x.text, a.text)
    <3>1. In(x.net, new.net)
      BY <1>3, <2>2, <2>3, <2>5, InTrans
    <3>2. PartOf(x.text, new.text)
      BY <1>3, <2>2, <2>3, <2>5, PartOfPart
    <3> QED
      BY <1>1, <3>1, <3>2 DEF HeldIn, x
  <2> QED
    BY <1>2, <2>1, <2>4, <2>5 DEF x
<1> QED
  BY <1>6, <1>7 DEF Holding, s

LEMMA GrowArranges ==
  ASSUME NEW r \in AddressLists, r # <<>>, NEW t \in AddressLists, t # <<>>,
         Arranged(r, t), NEW new \in Addresses,
         new.net.version = r[Len(r)].net.version, new.net.first = r[Len(r)].net.first,
         r[Len(r)].net.size <= new.net.size
  PROVE  Arranged(Grown(r, new), Tail(t))
<1> DEFINE n == Len(r)
           s == Grown(r, new)
           u == Tail(t)
<1>1. /\ s \in AddressLists /\ Len(s) = n /\ n \in Nat /\ DOMAIN r = 1..n
      /\ DOMAIN s = DOMAIN r /\ s[n] = new /\ n \in DOMAIN r
      /\ \A k \in DOMAIN r : k # n => s[k] = r[k]
      /\ \A k \in DOMAIN r : r[k] \in Addresses
  BY GrownFacts
<1>2. /\ u \in AddressLists /\ Sorted(u)
      /\ \A k \in DOMAIN u : k + 1 \in DOMAIN t /\ u[k] = t[k + 1]
  BY HeadAndTail DEF Arranged
<1>3. /\ \A k \in DOMAIN r : r[k].net \in Networks
      /\ \A k \in DOMAIN u : u[k].net \in Networks
      /\ new.net \in Networks
  <2>1. \A k \in DOMAIN u : u[k] \in Addresses
    <3> HIDE DEF u
    <3> QED
      BY <1>2 DEF AddressLists
  <2> HIDE DEF u
  <2> QED
    BY <1>1, <2>1, AddressFacts
<1>4. \A k \in DOMAIN u : ~Precedes(u[k].net, r[n].net)
  BY <1>2 DEF Arranged, Before
<1> HIDE DEF s, u
<1>5. /\ new.net.version = r[n].net.version /\ new.net.first = r[n].net.first
      /\ r[n].net.size <= new.net.size
  OBVIOUS
<1> HIDE DEF n
<1>6. Ascending(s)
  <2> SUFFICES ASSUME NEW j \in DOMAIN r, NEW k \in DOMAIN r, j < k
               PROVE  Ahead(s[j].net, s[k].net)
    BY <1>1 DEF Ascending
  <2>1. j # n /\ Ahead(r[j].net, r[k].net)
    BY <1>1 DEF Arranged, Ascending
  <2>2. CASE k = n
    <3>1. Ahead(r[j].net, new.net)
      BY <1>5, <2>1, <2>2 DEF Ahead, Left
    <3> QED
      BY <1>1, <2>1, <2>2, <3>1
  <2> QED
    BY <1>1, <2>1, <2>2
<1>7. ASSUME NEW k \in DOMAIN u PROVE ~Before(u[k], s[n])
  <2> DEFINE x == u[k].net
             y == r[n].net
             z == new.net
  <2>1. x \in Networks /\ y \in Networks /\ z \in Networks /\ ~Precedes(x, y)
        /\ z.version = y.version /\ z.first = y.first /\ y.size <= z.size
    BY <1>1, <1>3, <1>4, <1>5
  <2> HIDE DEF x, y, z
  <2>2. x.size \in Nat /\ y.size \in Nat /\ z.size \in Nat
    BY <2>1, NumbersAre
  <2>3. ~Precedes(x, z)
    BY <2>1, <2>2 DEF Precedes
  <2> QED
    BY <1>1, <2>3 DEF Before, x, z
<1> QED
  BY <1>1, <1>2, <1>6, <1>7 DEF Arranged, s, u

\* Merge: the address kept last is the lower half of the supernet.
LEMMA MergeFacts ==
  ASSUME NEW x \in Networks, NEW y \in Networks, y = UpperHalf(Supernet(x)), ~In(y, x)
  PROVE  LET p == Supernet(x)
         IN /\ p \in Networks
            /\ p.version = x.version /\ p.first = x.first /\ x.size <= p.size
            /\ In(x, p) /\ In(y, p)
            /\ Numbers(p) = Numbers(x) \cup Numbers(y)
<1> DEFINE p == Supernet(x)
<1>1. /\ x.version \in Versions /\ x.first \in Nat /\ x.size \in Nat \ {0} /\ y.size \in Nat \ {0}
  BY NumbersAre
<1>2. x.size # 2 ^ Bits[x.version]
  <2> SUFFICES ASSUME x.size = 2 ^ Bits[x.version] PROVE FALSE
    OBVIOUS
  <2>1. p = x
    BY DEF Supernet
  <2> DEFINE h == x.size \div 2
  <2>2. y.version = x.version /\ y.first = x.first + h /\ y.size = h
    BY <2>1 DEF UpperHalf
  <2>3. h \in Nat /\ h + h <= x.size
    BY <1>1
  <2> HIDE DEF h
  <2>4. In(y, x)
    BY <1>1, <2>2, <2>3 DEF In
  <2> QED
    BY <2>4
<1>3. /\ p \in Networks /\ p.version = x.version /\ p.size = 2 * x.size /\ p.first \in Nat
      /\ p.first = x.first \/ p.first + x.size = x.first
      /\ y = [version |-> x.version, first |-> p.first + x.size, size |-> x.size]
  BY <1>2, SupernetForm
<1> HIDE DEF p
<1>4. y.version = x.version /\ y.first = p.first + x.size /\ y.size = x.size
  BY <1>3
<1>5. p.first = x.first
  <2> SUFFICES ASSUME p.first + x.size = x.first PROVE FALSE
    BY <1>3
  <2>1. In(y, x)
    BY <1>1, <1>4 DEF In
  <2> QED
    BY <2>1
<1>6. In(x, p) /\ In(y, p) /\ x.size <= p.size
  BY <1>1, <1>3, <1>4, <1>5 DEF In
<1>7. ASSUME NEW c, c \in Numbers(p) PROVE c \in Numbers(x) \/ c \in Numbers(y)
  <2>1. c = <<c[1], c[2]>>
    BY <1>3, <1>7, NumbersAre
  <2>2. c[1] = p.version /\ c[2] \in Nat /\ p.first <= c[2] /\ c[2] < p.first + p.size
    BY <1>3, <1>7, <2>1, NumbersAre
  <2>3. c[2] < x.first + x.size \/ (y.first <= c[2] /\ c[2] < y.first + y.size)
    BY <1>1, <1>3, <1>4, <1>5, <2>2
  <2> QED
    BY <1>3, <1>4, <1>5, <2>1, <2>2, <2>3, NumbersAre
<1>8. Numbers(x) \subseteq Numbers(p) /\ Numbers(y) \subseteq Numbers(p)
  BY <1>3, <1>6, InIsSubset
<1> QED
  BY <1>3, <1>5, <1>6, <1>7, <1>8 DEF p

-----------------------------------------------------------------------------
(* A list that is apart, in order and without halves side by side is shortest *)

\* The places of two addresses that share a number are the same.
LEMMA SharedPlace ==
  ASSUME NEW r \in AddressLists, Ascending(r), NEW j \in DOMAIN r, NEW k \in DOMAIN r,
         ~Apart(r[j].net, r[k].net)
  PROVE  j = k
<1>1. j \in Nat /\ k \in Nat
  BY DEF AddressLists
<1>2. r[j].net \in Networks /\ r[k].net \in Networks
  <2>1. r[j] \in Addresses /\ r[k] \in Addresses
    BY DEF AddressLists
  <2> QED
    BY <2>1, AddressFacts
<1>3. ~(j < k)
  BY <1>2, AheadFacts DEF Ascending
<1>4. ~(k < j)
  <2>1. k < j => Apart(r[k].net, r[j].net)
    BY <1>2, AheadFacts DEF Ascending
  <2> QED
    BY <1>2, <2>1, ApartIsDisjoint
<1> QED
  BY <1>1, <1>3, <1>4

\* Two halves of a network in such a list are side by side.
LEMMA HalvesAreAdjacent ==
  ASSUME NEW r \in AddressLists, Ascending(r), NEW j \in DOMAIN r, NEW k \in DOMAIN r,
         r[j].net.version = r[k].net.version,
         r[j].net.first + r[j].net.size = r[k].net.first
  PROVE  k = j + 1
<1> DEFINE x == r[j].net
           y == r[k].net
<1>1. /\ j \in Nat /\ k \in Nat /\ DOMAIN r = 1..Len(r) /\ Len(r) \in Nat
      /\ \A i \in DOMAIN r : r[i] \in Addresses
  BY DEF AddressLists
<1>2. \A i \in DOMAIN r : r[i].net \in Networks
  BY <1>1, AddressFacts
<1>3. /\ x.version \in Nat /\ x.first \in Nat /\ x.size \in Nat \ {0}
      /\ y.version \in Nat /\ y.first \in Nat /\ y.size \in Nat \ {0}
      /\ x \in Networks /\ y \in Networks
  BY <1>2, NumbersAre DEF Versions
<1>4. x.version = y.version /\ x.first + x.size = y.first
  OBVIOUS
<1> HIDE DEF x, y
<1>5. Ahead(x, y)
  BY <1>3, <1>4 DEF Ahead, Left
<1>6. j < k
  <2>1. j # k
    BY <1>3, <1>5, AheadFacts DEF x, y
  <2>2. ~(k < j)
    BY <1>3, <1>5, AheadFacts DEF Ascending, x, y
  <2> QED
    BY <1>1, <2>1, <2>2
<1>7. ASSUME j + 1 < k PROVE FALSE
  <2> DEFINE z == r[j + 1].net
  <2>1. j + 1 \in DOMAIN r /\ j < j + 1
    BY <1>1, <1>7
  <2>2. Ahead(x, z) /\ Ahead(z, y)
    BY <1>7, <2>1 DEF Ascending, x, y
  <2>3. z.version \in Nat /\ z.first \in Nat /\ z.size \in Nat \ {0}
    BY <1>2, <2>1, NumbersAre DEF Versions
  <2> HIDE DEF z
  <2> QED
    BY <1>3, <1>4, <2>2, <2>3 DEF Ahead, Left
<1> QED
  BY <1>1, <1>6, <1>7

\* No network that the list holds wholly is larger than one of the list inside it.
LEMMA NoLarger ==
  ASSUME NEW r \in AddressLists, Ascending(r), NoHalves(r),
         NEW j \in DOMAIN r, NEW m \in Networks, Numbers(m) \subseteq Covered(r),
         In(r[j].net, m)
  PROVE  m = r[j].net
<1> SUFFICES ASSUME m # r[j].net PROVE FALSE
  OBVIOUS
<1>1. \A i \in DOMAIN r : r[i].net \in Networks
  <2>1. \A i \in DOMAIN r : r[i] \in Addresses
    BY DEF AddressLists
  <2> QED
    BY <2>1, AddressFacts
\* What meets m is inside it.
<1>2. ASSUME NEW i \in DOMAIN r, ~Apart(r[i].net, m)
      PROVE  In(r[i].net, m) /\ r[i].net # m
  <2>1. ASSUME In(m, r[i].net) PROVE FALSE
    <3>1. In(r[j].net, r[i].net)
      BY <1>1, <2>1, InTrans
    <3>2. ~Apart(r[j].net, r[i].net)
      <4>1. <<r[j].net.version, r[j].net.first>> \in Numbers(r[j].net)
        BY <1>1, NumbersAre
      <4> QED
        BY <1>1, <3>1, <4>1, InIsSubset, ApartIsDisjoint
    <3>3. i = j
      BY <3>2, SharedPlace
    <3>4. r[j].net.size \in Nat /\ m.size \in Nat
      BY <1>1, NumbersAre
    <3>5. r[j].net.size = m.size
      BY <1>1, <2>1, <3>3, <3>4, InIsSubset
    <3> QED
      BY <1>1, <3>5, InIsSubset
  <2>2. In(r[i].net, m)
    BY <1>1, <1>2, <2>1, ApartIsDisjoint
  <2>3. r[i].net # m
    BY <1>1, <2>1, <2>2
  <2> QED
    BY <2>2, <2>3
\* The smallest of them.
<1> DEFINE inside == {i \in DOMAIN r : In(r[i].net, m)}
           sizes == {r[i].net.size : i \in inside}
<1>3. PICK i \in inside : \A h \in inside : r[i].net.size <= r[h].net.size
  <2>1. sizes \subseteq Nat /\ sizes # {}
    BY <1>1, NumbersAre
  <2>2. PICK least \in sizes : \A s \in sizes : least <= s
    <3> HIDE DEF sizes
    <3> QED
      BY <2>1, LeastNumber
  <2> QED
    BY <2>2
<1> DEFINE q == r[i].net
           p == Supernet(q)
<1>4. q \in Networks /\ In(q, m) /\ q # m
  <2>1. ~Apart(q, m)
    <3>1. <<q.version, q.first>> \in Numbers(q)
      BY <1>1, NumbersAre
    <3> QED
      BY <1>1, <3>1, InIsSubset, ApartIsDisjoint
  <2> QED
    BY <1>1, <1>2, <2>1
<1>5. i \in DOMAIN r /\ \A h \in DOMAIN r : In(r[h].net, m) => q.size <= r[h].net.size
  BY <1>3
<1> HIDE DEF q, p, inside, sizes
<1>6. q.size < m.size /\ q.size \in Nat \ {0} /\ m.size \in Nat /\ q.version = m.version
  BY <1>4, InIsSubset, NumbersAre DEF In
<1>7. q.size # 2 ^ Bits[q.version]
  <2>1. m.first + m.size <= 2 ^ Bits[m.version] /\ m.first \in Nat /\ m.version \in Versions
    BY NetworkForm, NumbersAre
  <2>2. Bits[m.version] \in 0..Bits[m.version]
    BY <2>1, BitsAssumption
  <2>3. 2 ^ Bits[m.version] \in Nat
    BY <2>1, <2>2, PowerType
  <2> QED
    BY <1>6, <2>1, <2>3
<1>8. PICK z \in Networks :
           /\ z.version = q.version /\ z.size = q.size
           /\ Supernet(z) = p
           /\ \/ /\ q.first = p.first
                 /\ z.first = q.first + q.size
              \/ /\ q.first = p.first + q.size
                 /\ z.first = p.first
  BY <1>4, <1>7, OtherHalf DEF p
<1>9. p \in Networks /\ p.version = q.version /\ p.size = 2 * q.size /\ p.first \in Nat
  BY <1>4, <1>7, SupernetForm DEF p
<1>10. In(q, p) /\ In(z, p) /\ Apart(q, z)
  <2>1. q.first \in Nat
    BY <1>4, NumbersAre
  <2> QED
    BY <1>6, <1>8, <1>9, <2>1 DEF In, Apart, Left
<1>11. In(p, m)
  <2>1. 2 * q.size <= m.size
    BY <1>4, <1>6, SizesDivide
  <2>2. ~Apart(p, m)
    <3>1. <<q.version, q.first>> \in Numbers(q)
      BY <1>4, NumbersAre
    <3> QED
      BY <1>4, <1>9, <1>10, <3>1, InIsSubset, ApartIsDisjoint
  <2>3. CASE In(m, p)
    <3>1. m.size = p.size
      BY <1>6, <1>9, <2>1, <2>3, InIsSubset
    <3>2. m = p
      BY <1>9, <2>3, <3>1, InIsSubset
    <3> QED
      BY <2>3, <3>2
  <2> QED
    BY <1>9, <2>2, <2>3, ApartIsDisjoint
\* The other half is of the list, too.
<1> DEFINE c == <<z.version, z.first>>
<1>12. c \in Numbers(z) /\ c \in Numbers(m)
  <2>1. c \in Numbers(z)
    BY NumbersAre
  <2> HIDE DEF c
  <2> QED
    BY <1>9, <1>10, <1>11, <2>1, InIsSubset
<1>13. PICK h \in DOMAIN r : c \in Numbers(r[h].net)
  BY <1>12, CoveredBy
<1> HIDE DEF c
<1> DEFINE w == r[h].net
<1>14. w \in Networks /\ ~Apart(w, m) /\ ~Apart(z, w)
  BY <1>1, <1>12, <1>13, ApartIsDisjoint
<1>15. In(w, m) /\ q.size <= w.size
  <2>1. In(w, m)
    BY <1>2, <1>14
  <2> QED
    BY <1>5, <2>1
<1>16. h # i
  <2> SUFFICES ASSUME h = i PROVE FALSE
    OBVIOUS
  <2>1. w = q
    BY DEF q
  <2> QED
    BY <1>10, <1>14, <2>1, ApartIsDisjoint
<1>17. Apart(q, w)
  BY <1>5, <1>16, SharedPlace DEF q
<1> HIDE DEF w
<1>18. w.size \in Nat \ {0} /\ z.size \in Nat \ {0}
  BY <1>14, NumbersAre
<1>19. In(z, w) \/ z = w
  <2>1. CASE w.size <= z.size /\ In(w, z)
    <3>1. w.size = z.size
      BY <1>6, <1>8, <1>15, <1>18, <2>1
    <3> QED
      BY <1>14, <2>1, <3>1, InIsSubset
  <2> QED
    BY <1>14, <2>1, ApartIsDisjoint
<1>20. w = z
  <2> SUFFICES ASSUME w # z PROVE FALSE
    OBVIOUS
  <2>1. In(z, w) /\ z.size < w.size
    BY <1>14, <1>19, InIsSubset
  <2>2. 2 * z.size <= w.size
    <3>1. z.version = w.version
      BY <2>1 DEF In
    <3> QED
      BY <1>14, <1>18, <2>1, <3>1, SizesDivide
  <2>3. ~Apart(p, w)
    <3>1. Numbers(z) \subseteq Numbers(p)
      BY <1>9, <1>10, InIsSubset
    <3> QED
      BY <1>9, <1>12, <1>13, <1>14, <3>1, ApartIsDisjoint DEF w
  <2>4. In(p, w)
    <3>1. CASE w.size <= p.size /\ In(w, p)
      <4>1. w.size = p.size
        BY <1>6, <1>8, <1>9, <1>18, <2>2, <3>1
      <4> QED
        BY <1>9, <1>14, <3>1, <4>1, InIsSubset
    <3> QED
      BY <1>9, <1>14, <2>3, <3>1, ApartIsDisjoint
  <2>5. In(q, w)
    BY <1>4, <1>9, <1>10, <1>14, <2>4, InTrans
  <2>6. <<q.version, q.first>> \in Numbers(q)
    BY <1>4, NumbersAre
  <2> QED
    BY <1>4, <1>14, <1>17, <2>5, <2>6, InIsSubset, ApartIsDisjoint
\* The lower half comes first, and the upper one right after it.
<1>21. UpperHalf(p) = [version |-> q.version, first |-> p.first + q.size, size |-> q.size]
  BY <1>4, <1>7, SupernetForm DEF p
<1>22. z \in Blocks /\ q \in Blocks
  BY <1>4, NetworkForm
<1>23. CASE q.first = p.first /\ z.first = q.first + q.size
  <2>1. h = i + 1
    BY <1>5, <1>8, <1>20, <1>23, HalvesAreAdjacent DEF q, w
  <2>2. z = UpperHalf(p)
    <3>1. z = [version |-> z.version, first |-> z.first, size |-> z.size]
      BY <1>22 DEF Blocks
    <3> QED
      BY <1>8, <1>21, <1>23, <3>1
  <2> QED
    BY <1>5, <1>20, <2>1, <2>2 DEF NoHalves, w, q, p
<1>24. CASE q.first = p.first + q.size /\ z.first = p.first
  <2>1. i = h + 1
    <3>1. z.version = q.version /\ z.first + z.size = q.first
      BY <1>8, <1>24
    <3> QED
      BY <1>5, <1>20, <3>1, HalvesAreAdjacent DEF q, w
  <2>2. q = UpperHalf(p)
    <3>1. q = [version |-> q.version, first |-> q.first, size |-> q.size]
      BY <1>22 DEF Blocks
    <3> QED
      BY <1>21, <1>24, <3>1
  <2>3. q = UpperHalf(Supernet(w))
    BY <1>8, <1>20, <2>2
  <2> QED
    BY <1>5, <2>1, <2>3 DEF NoHalves, w, q
<1> QED
  BY <1>8, <1>23, <1>24

LEMMA ListIsShortest ==
  ASSUME NEW r \in AddressLists, Ascending(r), NoHalves(r)
  PROVE  {r[k].net : k \in DOMAIN r} = LargestNetworks(Covered(r))
<1> DEFINE C == Covered(r)
           inside == {n \in Networks : Numbers(n) \subseteq C}
<1>1. \A i \in DOMAIN r : r[i].net \in Networks
  <2>1. \A i \in DOMAIN r : r[i] \in Addresses
    BY DEF AddressLists
  <2> QED
    BY <2>1, AddressFacts
<1>2. LargestNetworks(C) = {n \in inside : \A m \in inside : In(n, m) => m = n}
  BY DEF LargestNetworks
<1>3. ASSUME NEW k \in DOMAIN r PROVE r[k].net \in LargestNetworks(C)
  <2>1. r[k].net \in inside
    BY <1>1 DEF Covered
  <2>2. \A m \in inside : In(r[k].net, m) => m = r[k].net
    BY NoLarger
  <2> HIDE DEF inside
  <2> QED
    BY <1>2, <2>1, <2>2
<1>4. ASSUME NEW n \in LargestNetworks(C) PROVE \E k \in DOMAIN r : n = r[k].net
  <2>1. n \in Networks /\ Numbers(n) \subseteq C /\ \A m \in inside : In(n, m) => m = n
    BY <1>2
  <2>2. <<n.version, n.first>> \in Numbers(n)
    BY <2>1, NumbersAre
  <2>3. PICK k \in DOMAIN r : <<n.version, n.first>> \in Numbers(r[k].net)
    BY <2>1, <2>2, CoveredBy
  <2>4. ~Apart(n, r[k].net)
    BY <1>1, <2>1, <2>2, <2>3, ApartIsDisjoint
  <2>5. CASE In(n, r[k].net)
    <3>1. r[k].net \in inside
      BY <1>1 DEF Covered
    <3> QED
      BY <2>1, <2>5, <3>1
  <2>6. CASE In(r[k].net, n)
    BY <2>1, <2>6, NoLarger
  <2> QED
    BY <1>1, <2>1, <2>4, <2>5, <2>6, ApartIsDisjoint
<1> QED
  BY <1>3, <1>4

-----------------------------------------------------------------------------
(* The specification *)

\* A collapse begins with everything in todo.
LEMMA CollapseBegins ==
  ASSUME NEW l \in AddressLists
  PROVE  /\ SortAddrList(l) \in AddressLists
         /\ Holding(<<>>, SortAddrList(l), l)
         /\ Arranged(<<>>, SortAddrList(l))
         /\ NoHalves(<<>>)
<1> DEFINE t == SortAddrList(l)
<1>1. /\ t \in AddressLists /\ DOMAIN t = DOMAIN l
      /\ \A j \in DOMAIN l : \E k \in DOMAIN l : t[k] = l[j]
      /\ \A k \in DOMAIN l : \E j \in DOMAIN l : t[k] = l[j]
      /\ \A j, k \in DOMAIN l : j < k => ~Before(t[k], t[j])
  BY SortKeeps DEF AddressLists
<1> HIDE DEF t
<1>2. \A c : c \in Covered(t) <=> c \in Covered(l)
  <2>1. ASSUME NEW c, c \in Covered(t) PROVE c \in Covered(l)
    <3>1. PICK k \in DOMAIN t : c \in Numbers(t[k].net)
      BY <2>1, CoveredBy
    <3>2. PICK j \in DOMAIN l : t[k] = l[j]
      BY <1>1
    <3> QED
      BY <3>1, <3>2, CoveredBy
  <2>2. ASSUME NEW c, c \in Covered(l) PROVE c \in Covered(t)
    <3>1. PICK j \in DOMAIN l : c \in Numbers(l[j].net)
      BY <2>2, CoveredBy
    <3>2. PICK k \in DOMAIN t : t[k] = l[j]
      BY <1>1
    <3> QED
      BY <3>1, <3>2, CoveredBy
  <2> QED
    BY <2>1, <2>2
<1>3. Covered(<<>>) = {}
  BY DEF Covered
<1>4. ASSUME NEW j \in DOMAIN l PROVE HeldIn(l[j], t)
  <2>1. PICK k \in DOMAIN t : t[k] = l[j]
    BY <1>1
  <2>2. l[j].net \in Networks /\ l[j].text \in Seq(Pieces)
    <3>1. l[j] \in Addresses
      BY DEF AddressLists
    <3> QED
      BY <3>1, AddressFacts
  <2>3. In(l[j].net, l[j].net) /\ PartOf(l[j].text, l[j].text)
    BY <2>2, InIsSubset, PartOfItself
  <2> QED
    BY <2>1, <2>3 DEF HeldIn
<1>5. Holding(<<>>, t, l)
  BY <1>2, <1>3, <1>4 DEF Holding
<1>6. Ascending(<<>>) /\ NoHalves(<<>>)
  BY DEF Ascending, NoHalves
<1>7. Sorted(t)
  BY <1>1 DEF Sorted
<1> QED
  BY <1>1, <1>5, <1>6, <1>7 DEF Arranged, t

\* So does the next pass, with what the last one has kept.
LEMMA PassBegins ==
  ASSUME NEW r \in AddressLists, NEW l, Holding(r, <<>>, l), Ascending(r)
  PROVE  /\ Holding(<<>>, r, l)
         /\ Arranged(<<>>, r)
         /\ NoHalves(<<>>)
<1>1. Covered(<<>>) = {} /\ \A x : ~HeldIn(x, <<>>)
  BY DEF Covered, HeldIn
<1>2. Holding(<<>>, r, l)
  BY <1>1 DEF Holding
<1>3. Ascending(<<>>) /\ NoHalves(<<>>)
  BY DEF Ascending, NoHalves
<1>4. Sorted(r)
  <2> SUFFICES ASSUME NEW j \in DOMAIN r, NEW k \in DOMAIN r, j < k
               PROVE  ~Before(r[k], r[j])
    BY DEF Sorted
  <2>1. r[j].net \in Networks /\ r[k].net \in Networks
    <3>1. r[j] \in Addresses /\ r[k] \in Addresses
      BY DEF AddressLists
    <3> QED
      BY <3>1, AddressFacts
  <2>2. Precedes(r[j].net, r[k].net)
    BY <2>1, AheadFacts DEF Ascending
  <2> QED
    BY <2>1, <2>2, PrecedesOrders DEF Before
<1> QED
  BY <1>2, <1>3, <1>4 DEF Arranged

\* What a pass that is over holds.
LEMMA CollapsedHolds ==
  ASSUME Types, pc \in Collapsing => Pass, Collapsed
  PROVE  /\ Covered(ret) = Covered(asked)
         /\ \A j \in DOMAIN asked : HeldIn(asked[j], ret)
         /\ Ascending(ret) /\ NoHalves(ret)
<1>1. Pass /\ todo = <<>> /\ ~optimized
  BY DEF Collapsed
<1>2. Covered(<<>>) = {} /\ \A x : ~HeldIn(x, <<>>)
  BY DEF Covered, HeldIn
<1> QED
  BY <1>1, <1>2 DEF Pass, Holding, Arranged

LEMMA AInvInit == AInit => AInv
<1> SUFFICES ASSUME AInit PROVE AInv
  OBVIOUS
<1>1. superset \in AddressLists /\ excludes \in AddressLists
  BY NacAddrAssumption DEF AInit, AddressLists
<1>2. <<>> \in AddressLists
  BY DEF AddressLists
<1>3. Types
  BY <1>1, <1>2, CollapseBegins DEF AInit, Types, Collapsing
<1>4. Pass
  BY <1>1, CollapseBegins DEF AInit, Pass
<1>5. Stages
  BY DEF AInit, Stages
<1> QED
  BY <1>3, <1>4, <1>5 DEF AInv

\* A turn of the loop: what it makes of ret.
LEMMA TurnKeepsAInv ==
  ASSUME AInv, Turn, ret' \in AddressLists, optimized' \in BOOLEAN,
         Holding(ret', Tail(todo), asked), Arranged(ret', Tail(todo)),
         optimized' \/ NoHalves(ret')
  PROVE  AInv'
<1>1. pc' = pc /\ todo' = Tail(todo) /\ asked' = asked /\ superset' = superset
      /\ excludes' = excludes /\ args' = args /\ pc \in Collapsing
  BY DEF Turn
<1>2. Tail(todo) \in AddressLists
  BY HeadAndTail DEF AInv, Types, Turn
<1>3. Types'
  BY <1>1, <1>2 DEF AInv, Types
<1>4. Pass'
  BY <1>1 DEF Pass
<1>5. Stages'
  BY <1>1 DEF AInv, Stages, Difference
<1> QED
  BY <1>3, <1>4, <1>5 DEF AInv

LEMMA FirstKeepsAInv == AInv /\ First => AInv'
<1> SUFFICES ASSUME AInv, First PROVE AInv'
  OBVIOUS
<1>1. /\ Turn /\ ret = <<>> /\ ret' = <<Address>> /\ optimized' = optimized
      /\ todo \in AddressLists /\ todo # <<>> /\ ret \in AddressLists /\ optimized \in BOOLEAN
      /\ Holding(ret, todo, asked) /\ Arranged(ret, todo)
  BY DEF First, Turn, AInv, Types, Pass
<1>2. Address \in Addresses
  BY <1>1, HeadAndTail DEF Address
<1>3. ret' = Append(ret, Head(todo))
  BY <1>1 DEF Address
<1>4. Holding(ret', Tail(todo), asked) /\ Arranged(ret', Tail(todo))
  BY <1>1, <1>3, KeepHolds, KeepArranges
<1>5. ret' \in AddressLists
  BY <1>1, <1>2 DEF AddressLists
<1>6. NoHalves(<<Address>>)
  BY DEF NoHalves
<1> QED
  BY <1>1, <1>4, <1>5, <1>6, TurnKeepsAInv

LEMMA SeparateKeepsAInv == AInv /\ Separate => AInv'
<1> SUFFICES ASSUME AInv, Separate PROVE AInv'
  OBVIOUS
<1>1. /\ Turn /\ ret # <<>> /\ ~In(Head(todo).net, ret[Len(ret)].net)
      /\ Head(todo).net # UpperHalf(Supernet(ret[Len(ret)].net))
      /\ ret' = Append(ret, Head(todo)) /\ optimized' = optimized
      /\ todo \in AddressLists /\ todo # <<>> /\ ret \in AddressLists /\ optimized \in BOOLEAN
      /\ Holding(ret, todo, asked) /\ Arranged(ret, todo)
      /\ optimized \/ NoHalves(ret)
  BY DEF Separate, IsUpperHalf, LastKept, Address, Turn, AInv, Types, Pass
<1> DEFINE a == Head(todo)
           n == Len(ret)
<1>2. a \in Addresses
  BY <1>1, HeadAndTail
<1>3. Holding(ret', Tail(todo), asked) /\ Arranged(ret', Tail(todo))
  BY <1>1, KeepHolds, KeepArranges
<1> HIDE DEF a
<1>4. /\ ret' \in AddressLists /\ n \in Nat /\ DOMAIN ret = 1..n
      /\ ret'[n + 1] = a /\ \A k \in DOMAIN ret : ret'[k] = ret[k]
      /\ \A k \in DOMAIN ret' : k \in DOMAIN ret \/ k = n + 1
  <2>1. ret' = Append(ret, a) /\ ret \in AddressLists
    BY <1>1 DEF a
  <2>2. /\ Append(ret, a) \in AddressLists /\ n \in Nat /\ DOMAIN ret = 1..n
        /\ Append(ret, a)[n + 1] = a /\ \A k \in DOMAIN ret : Append(ret, a)[k] = ret[k]
        /\ \A k \in DOMAIN Append(ret, a) : k \in DOMAIN ret \/ k = n + 1
    BY <1>2, <2>1, Appended
  <2> HIDE DEF n
  <2> QED
    BY <2>1, <2>2
<1>5. ASSUME NoHalves(ret) PROVE NoHalves(ret')
  <2> SUFFICES ASSUME NEW j \in DOMAIN ret', NEW k \in DOMAIN ret', k = j + 1
               PROVE  ret'[k].net # UpperHalf(Supernet(ret'[j].net))
    BY DEF NoHalves
  <2>1. j \in DOMAIN ret
    BY <1>4
  <2>2. CASE k \in DOMAIN ret
    BY <1>4, <1>5, <2>1, <2>2 DEF NoHalves
  <2>3. CASE k = n + 1
    <3>1. j = n
      BY <1>4, <2>1, <2>3
    <3> QED
      BY <1>1, <1>4, <2>1, <2>3, <3>1 DEF a
  <2> QED
    BY <1>4, <2>2, <2>3
<1> QED
  BY <1>1, <1>3, <1>4, <1>5, TurnKeepsAInv

\* Subsume and Merge: the address kept last becomes another.
LEMMA GrowKeepsAInv ==
  ASSUME AInv, Turn, ret # <<>>, NEW new \in Addresses, ret' = Grown(ret, new),
         optimized' = TRUE,
         In(LastKept.net, new.net), In(Address.net, new.net),
         Numbers(new.net) = Numbers(LastKept.net) \cup Numbers(Address.net),
         new.net.version = LastKept.net.version, new.net.first = LastKept.net.first,
         LastKept.net.size <= new.net.size,
         PartOf(LastKept.text, new.text), PartOf(Address.text, new.text)
  PROVE  AInv'
<1>1. /\ todo \in AddressLists /\ todo # <<>> /\ ret \in AddressLists /\ asked \in AddressLists
      /\ Holding(ret, todo, asked) /\ Arranged(ret, todo)
  BY DEF Turn, AInv, Types, Pass
<1>2. ret' \in AddressLists
  BY <1>1, GrownFacts
<1>3. Holding(ret', Tail(todo), asked)
  BY <1>1, GrowHolds DEF LastKept, Address
<1>4. Arranged(ret', Tail(todo))
  BY <1>1, GrowArranges DEF LastKept
<1> QED
  BY <1>2, <1>3, <1>4, TurnKeepsAInv

LEMMA LastAndNext ==
  ASSUME Types, ret # <<>>, todo # <<>>
  PROVE  LastKept \in Addresses /\ Address \in Addresses
<1>1. ret \in AddressLists /\ todo \in AddressLists
  BY DEF Types
<1>2. Len(ret) \in DOMAIN ret
  BY <1>1 DEF AddressLists
<1>3. LastKept \in Addresses
  BY <1>1, <1>2 DEF LastKept, AddressLists
<1> QED
  BY <1>1, <1>3, HeadAndTail DEF Address

LEMMA SubsumeKeepsAInv == AInv /\ Subsume => AInv'
<1> SUFFICES ASSUME AInv, Subsume PROVE AInv'
  OBVIOUS
<1>1. /\ Turn /\ ret # <<>> /\ todo # <<>> /\ In(Address.net, LastKept.net)
      /\ ret' = [ret EXCEPT ![Len(ret)] = AddComment(@, Address.text)]
      /\ optimized' = TRUE /\ Types
  BY DEF Subsume, Turn, AInv
<1>2. LastKept \in Addresses /\ Address \in Addresses
  BY <1>1, LastAndNext
<1>3. /\ LastKept.net \in Networks /\ Address.net \in Networks
      /\ Address.text \in Seq(Pieces)
      /\ LastKept.net.size \in Nat
  BY <1>2, AddressFacts
<1> DEFINE new == AddComment(LastKept, Address.text)
<1>4. /\ new \in Addresses /\ new.net = LastKept.net
      /\ PartOf(LastKept.text, new.text) /\ PartOf(Address.text, new.text)
  BY <1>2, <1>3, CommentAdded
<1>5. ret' = Grown(ret, new)
  BY <1>1 DEF Grown, LastKept
<1> HIDE DEF new
<1>8. In(LastKept.net, LastKept.net) /\ Numbers(Address.net) \subseteq Numbers(LastKept.net)
  BY <1>1, <1>3, InIsSubset
<1>9. Numbers(new.net) = Numbers(LastKept.net) \cup Numbers(Address.net)
  BY <1>4, <1>8
<1>10. /\ In(LastKept.net, new.net) /\ In(Address.net, new.net)
       /\ new.net.version = LastKept.net.version /\ new.net.first = LastKept.net.first
       /\ LastKept.net.size <= new.net.size
  BY <1>1, <1>3, <1>4, <1>8
<1> QED
  BY <1>1, <1>4, <1>5, <1>9, <1>10, GrowKeepsAInv

LEMMA MergeKeepsAInv == AInv /\ Merge => AInv'
<1> SUFFICES ASSUME AInv, Merge PROVE AInv'
  OBVIOUS
<1>1. /\ Turn /\ ret # <<>> /\ todo # <<>> /\ ~In(Address.net, LastKept.net) /\ IsUpperHalf
      /\ ret' = [ret EXCEPT ![Len(ret)] =
                   AddComment(Widened(@), Address.text)]
      /\ optimized' = TRUE /\ Types
  BY DEF Merge, Turn, AInv
<1>2. LastKept \in Addresses /\ Address \in Addresses
  BY <1>1, LastAndNext
<1>3. /\ LastKept.net \in Networks /\ Address.net \in Networks
      /\ Address.text \in Seq(Pieces)
  BY <1>2, AddressFacts
<1> DEFINE p == Supernet(LastKept.net)
           wide == Widened(LastKept)
           new == AddComment(wide, Address.text)
<1>4. /\ p \in Networks
      /\ p.version = LastKept.net.version /\ p.first = LastKept.net.first
      /\ LastKept.net.size <= p.size
      /\ In(LastKept.net, p) /\ In(Address.net, p)
      /\ Numbers(p) = Numbers(LastKept.net) \cup Numbers(Address.net)
  BY <1>1, <1>3, MergeFacts DEF IsUpperHalf
<1>5. /\ new \in Addresses /\ new.net = p
      /\ PartOf(LastKept.text, new.text) /\ PartOf(Address.text, new.text)
  <2>1. wide \in Addresses /\ wide.net = p /\ wide.text = LastKept.text
    BY <1>2, <1>4, AddressFacts DEF Widened, Addresses
  <2> HIDE DEF p, wide
  <2> QED
    BY <1>3, <2>1, CommentAdded
<1>6. ret' = Grown(ret, new)
  <2>1. ret' = [ret EXCEPT ![Len(ret)] = new]
    BY <1>1 DEF LastKept
  <2> QED
    BY <2>1 DEF Grown
<1> HIDE DEF new, p
<1> QED
  BY <1>1, <1>4, <1>5, <1>6, GrowKeepsAInv

LEMMA RecurseKeepsAInv == AInv /\ Recurse => AInv'
<1> SUFFICES ASSUME AInv, Recurse PROVE AInv'
  OBVIOUS
<1>1. /\ pc \in Collapsing /\ todo = <<>>
      /\ todo' = ret /\ ret' = <<>> /\ optimized' = FALSE
      /\ pc' = pc /\ superset' = superset /\ excludes' = excludes
      /\ asked' = asked /\ args' = args
  BY DEF Recurse, StartPass
<1>2. ret \in AddressLists /\ Holding(ret, <<>>, asked) /\ Ascending(ret)
  BY <1>1 DEF AInv, Types, Pass, Arranged
<1>3. Pass'
  BY <1>1, <1>2, PassBegins DEF Pass
<1>4. Types'
  <2>1. <<>> \in AddressLists
    BY DEF AddressLists
  <2>2. optimized' \in BOOLEAN
    BY <1>1
  <2> QED
    BY <1>1, <1>2, <2>1, <2>2 DEF AInv, Types
<1>5. Stages'
  BY <1>1 DEF AInv, Stages, Difference
<1> QED
  BY <1>3, <1>4, <1>5 DEF AInv

LEMMA SupersetCollapsedKeepsAInv == AInv /\ SupersetCollapsed => AInv'
<1> SUFFICES ASSUME AInv, SupersetCollapsed PROVE AInv'
  OBVIOUS
<1>1. /\ pc = "collapse superset" /\ Collapsed /\ superset' = ret
      /\ todo' = SortAddrList(excludes) /\ ret' = <<>> /\ optimized' = FALSE
      /\ asked' = excludes /\ pc' = "collapse excludes"
      /\ excludes' = excludes /\ args' = args
  BY DEF SupersetCollapsed, Collapse
<1>2. Types /\ excludes \in AddressLists /\ ret \in AddressLists
  BY DEF AInv, Types
<1>3. Covered(ret) = Covered(asked)
  BY <1>1, <1>2, CollapsedHolds DEF AInv
<1>4. Types'
  <2>1. <<>> \in AddressLists
    BY DEF AddressLists
  <2>2. optimized' \in BOOLEAN /\ pc' \in Collapsing
    BY <1>1 DEF Collapsing
  <2> QED
    BY <1>1, <1>2, <2>1, <2>2, CollapseBegins DEF Types
<1>5. Pass'
  BY <1>1, <1>2, CollapseBegins DEF Pass
<1>6. Stages'
  BY <1>1, <1>3 DEF AInv, Stages
<1> QED
  BY <1>4, <1>5, <1>6 DEF AInv

LEMMA ExcludesCollapsedKeepsAInv == AInv /\ ExcludesCollapsed => AInv'
<1> SUFFICES ASSUME AInv, ExcludesCollapsed PROVE AInv'
  OBVIOUS
<1>1. /\ pc = "collapse excludes" /\ Collapsed /\ excludes' = ret /\ pc' = "remove"
      /\ superset' = superset /\ todo' = todo /\ ret' = ret /\ optimized' = optimized
      /\ asked' = asked /\ args' = args
  BY DEF ExcludesCollapsed
<1>2. Types
  BY DEF AInv
<1>3. Covered(ret) = Covered(asked)
  BY <1>1, <1>2, CollapsedHolds DEF AInv
<1>4. Types'
  BY <1>1, <1>2 DEF Types
<1>5. Stages'
  BY <1>1, <1>3 DEF AInv, Stages, Difference
<1>6. pc' \notin Collapsing
  BY <1>1 DEF Collapsing
<1> QED
  BY <1>4, <1>5, <1>6 DEF AInv

LEMMA RemoveNextKeepsAInv == AInv /\ RemoveNext => AInv'
<1> SUFFICES ASSUME AInv, RemoveNext PROVE AInv'
  OBVIOUS
<1>1. /\ pc = "remove" /\ excludes # <<>>
      /\ superset' = RemoveAddressFromList(superset, Head(excludes).net)
      /\ excludes' = Tail(excludes)
      /\ pc' = pc /\ todo' = todo /\ ret' = ret /\ optimized' = optimized
      /\ asked' = asked /\ args' = args
  BY DEF RemoveNext
<1>2. /\ excludes \in AddressLists /\ superset \in AddressLists
      /\ Covered(superset) \ Covered(excludes) = Difference
  BY <1>1 DEF AInv, Types, Stages
<1>3. /\ Head(excludes) \in Addresses /\ Tail(excludes) \in AddressLists
      /\ Covered(excludes) = Numbers(Head(excludes).net) \cup Covered(Tail(excludes))
  BY <1>1, <1>2, HeadAndTail
<1>4. Head(excludes).net \in Networks
  BY <1>3, AddressFacts
<1>5. superset' \in AddressLists /\ Covered(superset') = Covered(superset) \ Numbers(Head(excludes).net)
  BY <1>1, <1>2, <1>4, RemoveIsExact DEF AddressLists
<1>6. Covered(superset') \ Covered(excludes') = Difference
  BY <1>1, <1>2, <1>3, <1>5
<1>7. Types'
  BY <1>1, <1>3, <1>5 DEF AInv, Types
<1>8. Stages'
  BY <1>1, <1>6 DEF Stages, Difference
<1>9. pc' \notin Collapsing
  BY <1>1 DEF Collapsing
<1> QED
  BY <1>7, <1>8, <1>9 DEF AInv

LEMMA AllRemovedKeepsAInv == AInv /\ AllRemoved => AInv'
<1> SUFFICES ASSUME AInv, AllRemoved PROVE AInv'
  OBVIOUS
<1>1. /\ pc = "remove" /\ excludes = <<>>
      /\ todo' = SortAddrList(superset) /\ ret' = <<>> /\ optimized' = FALSE
      /\ asked' = superset /\ pc' = "collapse result"
      /\ superset' = superset /\ excludes' = excludes /\ args' = args
  BY DEF AllRemoved, Collapse
<1>2. /\ Types /\ superset \in AddressLists
      /\ Covered(superset) \ Covered(excludes) = Difference
  BY <1>1 DEF AInv, Types, Stages
<1>3. Covered(excludes) = {}
  <2>1. Covered(<<>>) = {}
    BY DEF Covered
  <2> QED
    BY <1>1, <2>1
<1>4. Types'
  BY <1>1, <1>2, CollapseBegins DEF Types, AddressLists, Collapsing
<1>5. Pass'
  BY <1>1, <1>2, CollapseBegins DEF Pass
<1>6. Stages'
  BY <1>1, <1>2, <1>3 DEF Stages, Difference
<1> QED
  BY <1>4, <1>5, <1>6 DEF AInv

LEMMA ReturnKeepsAInv == AInv /\ Return => AInv'
<1> SUFFICES ASSUME AInv, Return PROVE AInv'
  OBVIOUS
<1>1. /\ pc = "collapse result" /\ Collapsed /\ superset' = ret /\ pc' = "done"
      /\ excludes' = excludes /\ todo' = todo /\ ret' = ret /\ optimized' = optimized
      /\ asked' = asked /\ args' = args
  BY DEF Return
<1>2. Types
  BY DEF AInv
<1>3. Covered(ret) = Covered(asked)
  BY <1>1, <1>2, CollapsedHolds DEF AInv
<1>4. Types'
  BY <1>1, <1>2 DEF Types
<1>5. Stages'
  BY <1>1, <1>3 DEF AInv, Stages, Difference
<1>6. pc' \notin Collapsing
  BY <1>1 DEF Collapsing
<1> QED
  BY <1>4, <1>5, <1>6 DEF AInv

LEMMA AInvNext == AInv /\ [ANext]_avars => AInv'
<1> SUFFICES ASSUME AInv, [ANext]_avars PROVE AInv'
  OBVIOUS
<1>1. CASE UNCHANGED avars
  BY <1>1 DEF AInv, Types, Pass, Stages, Difference, avars
<1>2. CASE ADone
  BY <1>2 DEF ADone, AInv, Types, Pass, Stages, Difference, avars
<1>3. CASE AStep
  BY <1>3, FirstKeepsAInv, SeparateKeepsAInv, SubsumeKeepsAInv, MergeKeepsAInv, RecurseKeepsAInv,
     SupersetCollapsedKeepsAInv, ExcludesCollapsedKeepsAInv, RemoveNextKeepsAInv,
     AllRemovedKeepsAInv, ReturnKeepsAInv DEF AStep
<1> QED
  BY <1>1, <1>2, <1>3 DEF ANext

\* The invariant holds of every state.
THEOREM AInvAlways == ASpec => []AInv
<1> QED
  BY AInvInit, AInvNext, PTL DEF ASpec

\* What AddressListExclude returns covers the addresses of its first list that
\* are of none of the second: no split of a network loses a number of it, and
\* none keeps one that is to be taken out.
THEOREM ExcludeExact == ASpec => []ExcludeIsExact
<1>1. AInv => ExcludeIsExact
  BY DEF AInv, Stages, Difference, ExcludeIsExact
<1> QED
  BY <1>1, AInvAlways, PTL

\* The comment of an address is found, at least as part of another one, on the
\* network that the address has become part of, however often the list is gone
\* through.
THEOREM EveryTextIsKept == ASpec => []TextsAreKept
<1>1. AInv => TextsAreKept
  <2> SUFFICES ASSUME AInv, Collapsed
               PROVE  \A j \in DOMAIN asked : HeldIn(asked[j], ret)
    BY DEF TextsAreKept, HeldIn
  <2> QED
    BY CollapsedHolds DEF AInv
<1> QED
  BY <1>1, AInvAlways, PTL

\* CollapseAddrList returns the largest networks of its numbers, in order: one
\* pass from left to right, repeated until none changes anything, is enough.
THEOREM CollapseIsShortest == ASpec => []CollapsedIsShortest
<1>1. AInv => CollapsedIsShortest
  <2> SUFFICES ASSUME AInv, Collapsed
               PROVE  /\ {ret[k].net : k \in DOMAIN ret} = LargestNetworks(Covered(asked))
                      /\ \A j, k \in DOMAIN ret : j < k => Before(ret[j], ret[k])
    BY DEF CollapsedIsShortest
  <2>1. /\ ret \in AddressLists /\ Covered(ret) = Covered(asked)
        /\ Ascending(ret) /\ NoHalves(ret)
    BY CollapsedHolds DEF AInv, Types
  <2>2. {ret[k].net : k \in DOMAIN ret} = LargestNetworks(Covered(asked))
    BY <2>1, ListIsShortest
  <2>3. ASSUME NEW j \in DOMAIN ret, NEW k \in DOMAIN ret, j < k
        PROVE  Before(ret[j], ret[k])
    <3>1. ret[j].net \in Networks /\ ret[k].net \in Networks
      <4>1. ret[j] \in Addresses /\ ret[k] \in Addresses
        BY <2>1 DEF AddressLists
      <4> QED
        BY <4>1, AddressFacts
    <3> QED
      BY <2>1, <2>3, <3>1, AheadFacts DEF Ascending, Before
  <2> QED
    BY <2>2, <2>3
<1> QED
  BY <1>1, AInvAlways, PTL

\* Lists as the comparison needs them.
BlockLists == Seq(Blocks)
PortLists == Seq(Int \X Int)

-----------------------------------------------------------------------------
(* Lists of addresses and ports *)

LEMMA InIsTransitive ==
  ASSUME NEW l \in Blocks, NEW m \in Blocks, NEW n \in Blocks, In(l, m), In(m, n)
  PROVE  In(l, n)
BY DEF In, Blocks

LEMMA InnerNumbers ==
  ASSUME NEW m \in Blocks, NEW n \in Blocks, In(m, n)
  PROVE  Numbers(m) \subseteq Numbers(n)
<1> SUFFICES ASSUME NEW i \in m.first..(m.first + m.size - 1)
             PROVE  i \in n.first..(n.first + n.size - 1)
  BY DEF Numbers, In
<1>1. QED
  BY DEF In, Blocks

\* A list that is contained holds no address the other does not hold.
LEMMA ContainedAddresses ==
  ASSUME NEW wide \in BlockLists, NEW narrow \in BlockLists,
         AddressIsContained(wide, narrow), wide # <<>>
  PROVE  narrow # <<>> /\ AddressesOf(narrow) \subseteq AddressesOf(wide)
<1>1. narrow # <<>>
  BY DEF AddressIsContained
<1>2. ASSUME NEW j \in DOMAIN narrow
      PROVE  \E k \in DOMAIN wide : Numbers(narrow[j]) \subseteq Numbers(wide[k])
  <2>1. PICK k \in DOMAIN wide : In(narrow[j], wide[k])
    BY DEF AddressIsContained
  <2>2. narrow[j] \in Blocks /\ wide[k] \in Blocks
    BY DEF BlockLists
  <2>3. QED
    BY <2>1, <2>2, InnerNumbers
<1>3. QED
  BY <1>1, <1>2 DEF AddressesOf

LEMMA ContainedPorts ==
  ASSUME NEW wide \in PortLists, NEW narrow \in PortLists,
         PortIsContained(wide, narrow), wide # <<>>
  PROVE  narrow # <<>> /\ Cover(narrow) \subseteq Cover(wide)
<1>1. narrow # <<>>
  BY DEF PortIsContained
<1>2. ASSUME NEW j \in DOMAIN narrow
      PROVE  \E k \in DOMAIN wide : Span(narrow[j]) \subseteq Span(wide[k])
  <2>1. PICK k \in DOMAIN wide :
          wide[k][1] <= narrow[j][1] /\ narrow[j][2] <= wide[k][2]
    BY DEF PortIsContained
  <2>2. narrow[j] \in Int \X Int /\ wide[k] \in Int \X Int
    BY DEF PortLists
  <2>3. QED
    BY <2>1, <2>2 DEF Span
<1>3. QED
  BY <1>1, <1>2 DEF Cover

-----------------------------------------------------------------------------
(* Terms *)

ListsTyped(f) == {f.addr, f.saddr, f.daddr} \subseteq BlockLists

\* The flattened lists of a term hold every address the term matches: a list
\* that is empty stands for all of them.
FlattenedFor(o, f) ==
  /\ \A a : Among(a, o.source_address, o.source_address_exclude) =>
            f.saddr = <<>> \/ a \in AddressesOf(f.saddr)
  /\ \A a : Among(a, o.destination_address, o.destination_address_exclude) =>
            f.daddr = <<>> \/ a \in AddressesOf(f.daddr)
  /\ \A a : Among(a, o.address, o.address_exclude) =>
            f.addr = <<>> \/ a \in AddressesOf(f.addr)
  /\ o.address = <<>> => f.addr = <<>>

\* One side: what a list matches, the list that contains it matches.
LEMMA SideContained ==
  ASSUME NEW wide \in BlockLists, NEW narrow \in BlockLists, NEW a,
         AddressIsContained(wide, narrow),
         narrow = <<>> \/ a \in AddressesOf(narrow)
  PROVE  wide = <<>> \/ a \in AddressesOf(wide)
BY ContainedAddresses

LEMMA AmongPortsContained ==
  ASSUME NEW wide \in PortLists, NEW narrow \in PortLists, NEW n,
         PortIsContained(wide, narrow), AmongPorts(n, narrow)
  PROVE  AmongPorts(n, wide)
BY ContainedPorts DEF AmongPorts

\* The answer of Term.__contains__ can be trusted: a packet that the other term
\* matches is one that this term matches, for terms of any size.  The exceptions
\* are those ComparedAsMeant names, and excludes of this term: those are the
\* cases in which the check for shading refuses a policy wrongly.
THEOREM ContainedMatchesLess ==
  ASSUME NEW s, NEW o, NEW fo, NEW p,
         ListsTyped(AsWritten(s)), ListsTyped(fo),
         {s.port, s.source_port, s.destination_port} \subseteq PortLists,
         {o.port, o.source_port, o.destination_port} \subseteq PortLists,
         FlattenedFor(o, fo), ~HasExcludes(s), ComparedAsMeant(s, o),
         Contained(s, o, AsWritten(s), fo), Matches(o, p)
  PROVE  Matches(s, p)
<1> DEFINE fs == AsWritten(s)
<1>1. /\ fs.saddr = s.source_address
      /\ fs.daddr = s.destination_address
      /\ fs.addr = s.address
  BY DEF AsWritten
<1>2. /\ {fs.addr, fs.saddr, fs.daddr} \subseteq BlockLists
      /\ {fo.addr, fo.saddr, fo.daddr} \subseteq BlockLists
  BY DEF ListsTyped
<1>3. /\ s.source_address_exclude = <<>>
      /\ s.destination_address_exclude = <<>>
      /\ s.address_exclude = <<>>
  BY DEF HasExcludes
<1>4. /\ ProtocolsAllow(s, o)
      /\ AddressContained(fs, fo)
      /\ s.port # <<>> => PortIsContained(s.port, o.port)
      /\ PortContained(s, o)
      /\ OptionsContained(s, o)
  BY DEF Contained
<1>5. \A a : a \notin AddressesOf(<<>>)
  BY DEF AddressesOf
<1>6. s.verbatim = {}
  BY <1>4 DEF ProtocolsAllow, VerbatimAgrees, Matches
<1>7. /\ s.protocol = {} \/ p.protocol \in s.protocol
      /\ p.protocol \notin s.protocol_except
  BY <1>4 DEF ProtocolsAllow, ProtocolContained, ComparedAsMeant, ProtocolsAsMeant, Matches
<1>8. Among(p.source, s.source_address, s.source_address_exclude)
  <2>1. AddressIsContained(fs.saddr, fo.saddr)
    BY <1>4 DEF AddressContained
  <2>2. fo.saddr = <<>> \/ p.source \in AddressesOf(fo.saddr)
    BY DEF Matches, FlattenedFor
  <2>3. fs.saddr = <<>> \/ p.source \in AddressesOf(fs.saddr)
    BY <1>2, <2>1, <2>2, SideContained
  <2>4. QED
    BY <1>1, <1>3, <1>5, <2>3 DEF Among
<1>9. Among(p.destination, s.destination_address, s.destination_address_exclude)
  <2>1. AddressIsContained(fs.daddr, fo.daddr)
    BY <1>4 DEF AddressContained
  <2>2. fo.daddr = <<>> \/ p.destination \in AddressesOf(fo.daddr)
    BY DEF Matches, FlattenedFor
  <2>3. fs.daddr = <<>> \/ p.destination \in AddressesOf(fs.daddr)
    BY <1>2, <2>1, <2>2, SideContained
  <2>4. QED
    BY <1>1, <1>3, <1>5, <2>3 DEF Among
<1>10. \/ s.address = <<>>
       \/ Among(p.source, s.address, s.address_exclude)
       \/ Among(p.destination, s.address, s.address_exclude)
  <2>1. CASE AddressIsContained(fs.addr, fo.addr)
    <3>1. fs.addr = <<>> \/ fo.addr # <<>>
      BY <2>1 DEF AddressIsContained
    <3>2. \/ fo.addr = <<>>
          \/ p.source \in AddressesOf(fo.addr)
          \/ p.destination \in AddressesOf(fo.addr)
      BY DEF Matches, FlattenedFor
    <3>3. \/ fs.addr = <<>>
          \/ p.source \in AddressesOf(fs.addr)
          \/ p.destination \in AddressesOf(fs.addr)
      BY <1>2, <2>1, <3>1, <3>2, ContainedAddresses
    <3>4. QED
      BY <1>1, <1>3, <1>5, <3>3 DEF Among
  <2>2. CASE AddressIsContained(fs.addr, fo.saddr)
    <3>1. fo.saddr = <<>> \/ p.source \in AddressesOf(fo.saddr)
      BY DEF Matches, FlattenedFor
    <3>2. fs.addr = <<>> \/ p.source \in AddressesOf(fs.addr)
      BY <1>2, <2>2, <3>1, SideContained
    <3>3. QED
      BY <1>1, <1>3, <1>5, <3>2 DEF Among
  <2>3. CASE AddressIsContained(fs.addr, fo.daddr)
    <3>1. fo.daddr = <<>> \/ p.destination \in AddressesOf(fo.daddr)
      BY DEF Matches, FlattenedFor
    <3>2. fs.addr = <<>> \/ p.destination \in AddressesOf(fs.addr)
      BY <1>2, <2>3, <3>1, SideContained
    <3>3. QED
      BY <1>1, <1>3, <1>5, <3>2 DEF Among
  <2>4. QED
    BY <1>4, <2>1, <2>2, <2>3 DEF AddressContained
<1>11. /\ AmongPorts(p.source_port, s.source_port)
       /\ AmongPorts(p.destination_port, s.destination_port)
  <2>1. /\ AmongPorts(p.source_port, o.source_port)
        /\ AmongPorts(p.destination_port, o.destination_port)
    BY DEF Matches
  <2>2. QED
    BY <1>4, <2>1, AmongPortsContained DEF PortContained
<1>12. AmongPorts(p.source_port, s.port) \/ AmongPorts(p.destination_port, s.port)
  <2>1. AmongPorts(p.source_port, o.port) \/ AmongPorts(p.destination_port, o.port)
    BY DEF Matches
  <2>2. CASE s.port = <<>>
    BY <2>2 DEF AmongPorts
  <2>3. CASE s.port # <<>>
    BY <1>4, <2>1, <2>3, AmongPortsContained
  <2>4. QED
    BY <2>2, <2>3
<1>13. s.precedence = {} \/ p.precedence \in s.precedence
  BY <1>4 DEF OptionsContained, SetContained, Matches
<1>14. s.option \subseteq p.option
  <2>1. o.option \subseteq p.option
    BY DEF Matches
  <2>2. s.option # {} => o.option # {} /\ o.option \subseteq s.option
    BY <1>4 DEF OptionsContained, SetContained
  <2>3. \A x, y \in s.option : x = y
    BY DEF ComparedAsMeant
  <2>4. QED
    BY <2>1, <2>2, <2>3
<1>15. Within(p.fragment_offset, s.fragment_offset) /\ Within(p.packet_length, s.packet_length)
  BY DEF Within, ComparedAsMeant
<1>16. QED
  BY <1>6, <1>7, <1>8, <1>9, <1>10, <1>11, <1>12, <1>13, <1>14, <1>15 DEF Matches

-----------------------------------------------------------------------------
(* A term that contains another is hit whenever the other is *)

LEMMA AddrInsideContained ==
  ASSUME NEW addr \in Blocks \cup {ANY},
         NEW wide \in BlockLists, NEW narrow \in BlockLists,
         AddressIsContained(wide, narrow), AddrInside(addr, narrow)
  PROVE  AddrInside(addr, wide)
<1> SUFFICES ASSUME addr # ANY, wide # <<>>
             PROVE  \E k \in DOMAIN wide : In(addr, wide[k])
  BY DEF AddrInside
<1>1. PICK j \in DOMAIN narrow : In(addr, narrow[j])
  BY DEF AddrInside, AddressIsContained
<1>2. PICK k \in DOMAIN wide : In(narrow[j], wide[k])
  BY DEF AddressIsContained
<1>3. narrow[j] \in Blocks /\ wide[k] \in Blocks /\ addr \in Blocks
  BY DEF BlockLists
<1>4. QED
  BY <1>1, <1>2, <1>3, InIsTransitive

LEMMA PortInsideContained ==
  ASSUME NEW myport, NEW wide \in PortLists, NEW narrow \in PortLists,
         PortIsContained(wide, narrow), PortInside(myport, narrow)
  PROVE  PortInside(myport, wide)
<1> SUFFICES ASSUME myport # ANY, wide # <<>>
             PROVE  \E k \in DOMAIN wide : myport \in Span(wide[k])
  BY DEF PortInside
<1>1. narrow # <<>> /\ Cover(narrow) \subseteq Cover(wide)
  BY ContainedPorts
<1>2. myport \in Cover(narrow)
  BY <1>1 DEF PortInside, Cover
<1>3. QED
  BY <1>1, <1>2 DEF Cover

LEMMA ContainedIsHit ==
  ASSUME NEW e \in PolicyTerms, NEW t \in PolicyTerms, query \in Queries,
         ProtocolsAsMeant(e, t), e.action # {},
         Contained(e, t, AsWritten(e), AsWritten(t)), Hit(t)
  PROVE  Hit(e)
<1>1. ListsInForm(e) /\ ListsInForm(t)
  BY AclCheckAssumption
<1>2. {query.src, query.dst} \subseteq Blocks \cup {ANY}
  BY AclCheckAssumption
<1>3. /\ ProtocolContained(e, t)
      /\ AddressIsContained(e.source_address, t.source_address)
      /\ AddressIsContained(e.destination_address, t.destination_address)
      /\ PortIsContained(e.source_port, t.source_port)
      /\ PortIsContained(e.destination_port, t.destination_port)
  BY DEF Contained, ProtocolsAllow, AddressContained, AsWritten, PortContained
<1>4. /\ AddrInside(query.src, t.source_address)
      /\ AddrInside(query.dst, t.destination_address)
      /\ PortInside(query.sport, t.source_port)
      /\ PortInside(query.dport, t.destination_port)
      /\ t.protocol = {} \/ query.proto \in t.protocol \cup {ANY}
      /\ query.proto \notin t.protocol_except
  BY DEF Hit
<1>5. AddrInside(query.src, e.source_address)
  BY <1>1, <1>2, <1>3, <1>4, AddrInsideContained DEF ListsInForm, BlockLists
<1>6. AddrInside(query.dst, e.destination_address)
  BY <1>1, <1>2, <1>3, <1>4, AddrInsideContained DEF ListsInForm, BlockLists
<1>7. PortInside(query.sport, e.source_port)
  BY <1>1, <1>3, <1>4, PortInsideContained DEF ListsInForm, PortLists
<1>8. PortInside(query.dport, e.destination_port)
  BY <1>1, <1>3, <1>4, PortInsideContained DEF ListsInForm, PortLists
<1>9. e.protocol = {} \/ query.proto \in e.protocol \cup {ANY}
  BY <1>3, <1>4 DEF ProtocolContained, ProtocolsAsMeant
<1>10. query.proto \notin e.protocol_except
  BY <1>1, <1>3, <1>4 DEF ProtocolContained, ProtocolsAsMeant, ListsInForm
<1>11. QED
  BY <1>5, <1>6, <1>7, <1>8, <1>9, <1>10 DEF Hit

-----------------------------------------------------------------------------
(* The invariant *)

\* The loop has gone beyond the term.
Passed(t) == ~Hit(t) \/ PossibleMatch(t) \/ "next" \in t.action

\* All terms before the one that is looked at have been passed, and so had all
\* before an exact match when it was found.  (ShadedTermIsNeverExact says nothing
\* of terms that no match has been found after: it is not inductive.)
IInv ==
  /\ policy \in Policies
  /\ query \in Queries
  /\ filter \in Nat \ {0}
  /\ term \in Nat \ {0}
  /\ filter \in DOMAIN policy =>
       \A k \in 1..(term - 1) : k \in DOMAIN policy[filter] /\ Passed(policy[filter][k])
  /\ \A x \in exact_matches :
       /\ x[1] \in DOMAIN policy /\ x[2] \in DOMAIN policy[x[1]]
       /\ Hit(policy[x[1]][x[2]])
       /\ \A k \in 1..(x[2] - 1) : Passed(policy[x[1]][k])

LEMMA PolicyType ==
  ASSUME policy \in Policies
  PROVE  /\ DOMAIN policy = 1..Len(policy) /\ Len(policy) \in Nat
         /\ \A f \in DOMAIN policy :
              /\ DOMAIN policy[f] = 1..Len(policy[f]) /\ Len(policy[f]) \in Nat
              /\ \A k \in DOMAIN policy[f] : policy[f][k] \in PolicyTerms
BY AclCheckAssumption

\* Policy and query are what they were, so a term is hit if it was.
LEMMA SameHits ==
  ASSUME UNCHANGED query
  PROVE  \A t : Hit(t)' <=> Hit(t)
BY DEF Hit, AddrInside, PortInside


\* The next term is looked at because the one at hand was passed.
LEMMA NextTermStep ==
  ASSUME IInv, UNCHANGED <<policy, query, exact_matches>>, NextTerm,
         Looking, Passed(Term)
  PROVE  IInv'
<1> USE DEF IInv
<1>1. filter \in DOMAIN policy /\ term \in DOMAIN policy[filter]
  BY PolicyType DEF Looking
<1>2. \A t : Passed(t)' <=> Passed(t)
  BY SameHits DEF Passed
<1>3. filter' \in Nat \ {0} /\ term' \in Nat \ {0} /\ term' - 1 = term
  BY DEF NextTerm
<1>4. ASSUME NEW k \in 1..term
      PROVE  k \in DOMAIN policy[filter] /\ Passed(policy[filter][k])
  <2>1. CASE k = term
    BY <1>1, <2>1 DEF Term
  <2>2. CASE k # term
    BY <1>1, <2>2
  <2>3. QED
    BY <2>1, <2>2
<1>5. \A x \in exact_matches : Hit(policy[x[1]][x[2]])'
  BY SameHits
<1>6. \A x \in exact_matches : \A k \in 1..(x[2] - 1) : Passed(policy[x[1]][k])'
  BY <1>2
<1>7. \A k \in 1..(term' - 1) :
        k \in DOMAIN policy'[filter'] /\ Passed(policy[filter][k])'
  BY <1>2, <1>3, <1>4 DEF NextTerm
<1>8. QED
  BY <1>3, <1>5, <1>6, <1>7

\* A new filter is begun with no term passed.
LEMMA NextFilterStep ==
  ASSUME IInv, UNCHANGED <<policy, query>>, NextFilter,
         exact_matches' \subseteq exact_matches \cup {<<filter, term>>},
         exact_matches' # exact_matches => Looking /\ Hit(Term)
  PROVE  IInv'
<1> USE DEF IInv
<1>1. \A t : (Passed(t)' <=> Passed(t)) /\ (Hit(t)' <=> Hit(t))
  BY SameHits DEF Passed
<1>2. filter' \in Nat \ {0} /\ term' = 1
  BY DEF NextFilter
<1>3. ASSUME NEW x \in exact_matches'
      PROVE  /\ x[1] \in DOMAIN policy /\ x[2] \in DOMAIN policy[x[1]]
             /\ Hit(policy[x[1]][x[2]])
             /\ \A k \in 1..(x[2] - 1) : Passed(policy[x[1]][k])
  <2>1. CASE x \in exact_matches
    BY <2>1
  <2>2. CASE x \notin exact_matches
    <3>1. x = <<filter, term>> /\ Looking /\ Hit(Term)
      BY <2>2
    <3>2. filter \in DOMAIN policy /\ term \in DOMAIN policy[filter]
      BY <3>1, PolicyType DEF Looking
    <3>3. QED
      BY <3>1, <3>2 DEF Term
  <2>3. QED
    BY <2>1, <2>2
<1>4. \A x \in exact_matches' :
        /\ Hit(policy[x[1]][x[2]])'
        /\ \A k \in 1..(x[2] - 1) : Passed(policy[x[1]][k])'
  BY <1>1, <1>3
<1>5. QED
  BY <1>2, <1>3, <1>4

LEMMA IInvStep == IInv /\ [CheckNext]_checkVars => IInv'
<1> SUFFICES ASSUME IInv, [CheckNext]_checkVars PROVE IInv'
  OBVIOUS
<1>1. CASE NoHit
  BY <1>1, NextTermStep DEF NoHit, Passed
<1>2. CASE HitAndGoOn
  BY <1>2, NextTermStep DEF HitAndGoOn, Passed
<1>3. CASE ExactHit
  BY <1>3, NextFilterStep DEF ExactHit
<1>4. CASE EndOfFilter
  BY <1>4, NextFilterStep DEF EndOfFilter
<1>5. CASE UNCHANGED checkVars
  <2>1. \A t : (Passed(t)' <=> Passed(t)) /\ (Hit(t)' <=> Hit(t))
    BY <1>5, SameHits DEF Passed, checkVars
  <2>2. QED
    BY <1>5, <2>1 DEF IInv, checkVars
<1>6. QED
  BY <1>1, <1>2, <1>3, <1>4, <1>5 DEF CheckNext, Done

LEMMA IInvHolds == CheckSpec => []IInv
<1>1. CheckInit => IInv
  BY PolicyType DEF CheckInit, IInv
<1>2. QED
  BY <1>1, IInvStep, PTL DEF CheckSpec

-----------------------------------------------------------------------------
(* Theorems *)

\* For all policies and queries: a term that Term.__contains__ finds in an earlier
\* one that decides for certain is never reported as an exact match.
THEOREM ShadedNeverExact == CheckSpec => []ShadedTermIsNeverExact
<1>1. IInv => ShadedTermIsNeverExact
  <2> SUFFICES ASSUME IInv, NEW x \in exact_matches, NEW k \in 1..(x[2] - 1),
                      ProtocolsAsMeant(policy[x[1]][k], policy[x[1]][x[2]]),
                      policy[x[1]][k].action # {},
                      "next" \notin policy[x[1]][k].action,
                      ~PossibleMatch(policy[x[1]][k]),
                      Contained(policy[x[1]][k], policy[x[1]][x[2]],
                                AsWritten(policy[x[1]][k]),
                                AsWritten(policy[x[1]][x[2]]))
               PROVE  FALSE
    BY DEF ShadedTermIsNeverExact
  <2>1. /\ x[1] \in DOMAIN policy /\ x[2] \in DOMAIN policy[x[1]]
        /\ Hit(policy[x[1]][x[2]])
        /\ Passed(policy[x[1]][k])
    BY DEF IInv
  <2>2. k \in DOMAIN policy[x[1]]
    BY <2>1, PolicyType DEF IInv
  <2>3. policy[x[1]][k] \in PolicyTerms /\ policy[x[1]][x[2]] \in PolicyTerms
    BY <2>1, <2>2, PolicyType DEF IInv
  <2>4. Hit(policy[x[1]][k])
    BY <2>1, <2>3, ContainedIsHit DEF IInv
  <2>5. QED
    BY <2>1, <2>4 DEF Passed
<1>2. QED
  BY <1>1, IInvHolds, PTL
-----------------------------------------------------------------------------
\* A set of numbers has a least one.
LEMMA LeastOf ==
  ASSUME NEW S, S \subseteq Nat, S # {}
  PROVE  Min(S) \in S /\ \A n \in S : Min(S) <= n
<1> DEFINE Less == OpToRel(<, Nat)
<1>1. PICK least \in S : \A n \in S : <<n, least>> \notin Less
  <2> HIDE DEF Less
  <2>1. IsWellFoundedOn(Less, Nat)
    BY NatLessThanWellFounded DEF Less
  <2> QED
    BY <2>1, WFMin
<1>2. \A pair \in Nat \X Nat : pair[1] < pair[2] => pair \in Less
  BY Zenon DEF OpToRel
<1> HIDE DEF Less
<1>3. \A n \in S : least <= n
  <2> SUFFICES ASSUME NEW n \in S PROVE ~(n < least)
    OBVIOUS
  <2> QED
    BY <1>1, <1>2, <<n, least>> \in Nat \X Nat
<1> QED
  BY <1>3 DEF Min

-----------------------------------------------------------------------------
(* A packet that is known, and the terms that match it *)

\* A packet that is known but for its options.
AnsweredSoFar ==
  /\ query \in Queries
  /\ ANY \notin {query.src, query.dst, query.sport, query.dport, query.proto}
  /\ OneHost(query.src) /\ OneHost(query.dst)

\* One host is in a network when its number is one of the network's.
LEMMA HostInside ==
  ASSUME NEW addr \in Blocks, addr.size = 1, NEW a, a \in Numbers(addr),
         NEW n \in Blocks
  PROVE  In(addr, n) <=> a \in Numbers(n)
<1>1. a = <<addr.version, addr.first>>
  BY DEF Numbers, Blocks
<1>2. a \in Numbers(n) <=> addr.version = n.version /\ addr.first \in n.first..(n.first + n.size - 1)
  BY <1>1 DEF Numbers
<1> QED
  BY <1>2 DEF In, Blocks

\* A list of addresses without excludes.
LEMMA HostAmong ==
  ASSUME NEW addr \in Blocks, addr.size = 1, NEW a, a \in Numbers(addr), addr # ANY,
         NEW addresses \in BlockLists
  PROVE  AddrInside(addr, addresses) <=> Among(a, addresses, <<>>)
<1>1. \A k \in DOMAIN addresses : In(addr, addresses[k]) <=> a \in Numbers(addresses[k])
  BY HostInside DEF BlockLists
<1> QED
  BY <1>1 DEF AddrInside, Among, AddressesOf

\* What the check looks at decides whether a known packet matches a term that is
\* certainly met; a packet that matches meets the term in any case.
LEMMA HitIsMatch ==
  ASSUME AnsweredSoFar, NEW t \in PolicyTerms, LooksAtAllOf(t), NEW p \in Asked[query]
  PROVE  /\ p \in MatchedBy[t] => Hit(t)
         /\ Hit(t) /\ ~PossibleMatch(t) => p \in MatchedBy[t]
<1>1. /\ ListsInForm(t) /\ Sane(t)
      /\ {query.src, query.dst} \subseteq Blocks \cup {ANY}
  BY AclCheckAssumption DEF AnsweredSoFar
<1>2. /\ p \in Packets
      /\ p.source \in Numbers(query.src) /\ p.destination \in Numbers(query.dst)
      /\ query.sport = p.source_port /\ query.dport = p.destination_port
      /\ query.proto = p.protocol
  <2>1. query \in Queries
    BY DEF AnsweredSoFar
  <2>2. /\ p \in Packets
        /\ query.src = ANY \/ p.source \in Numbers(query.src)
        /\ query.dst = ANY \/ p.destination \in Numbers(query.dst)
        /\ query.sport \in {ANY, p.source_port}
        /\ query.dport \in {ANY, p.destination_port}
        /\ query.proto \in {ANY, p.protocol}
    BY <2>1, Zenon DEF Asked
  <2> QED
    BY <2>2 DEF AnsweredSoFar
<1>3. /\ t.address = <<>> /\ t.address_exclude = <<>>
      /\ t.source_address_exclude = <<>> /\ t.destination_address_exclude = <<>>
      /\ t.port = <<>> /\ t.precedence = {}
  <2>1. /\ {"address", "address_exclude", "source_address_exclude",
            "destination_address_exclude", "port", "precedence"} \subseteq DOMAIN EmptyTerm
        /\ EmptyTerm.address = <<>> /\ EmptyTerm.address_exclude = <<>>
        /\ EmptyTerm.source_address_exclude = <<>>
        /\ EmptyTerm.destination_address_exclude = <<>>
        /\ EmptyTerm.port = <<>> /\ EmptyTerm.precedence = {}
    BY DEF EmptyTerm
  <2> QED
    BY <2>1 DEF LooksAtAllOf
<1>4. /\ t.option \subseteq {"first-fragment", "established", "tcp-established"}
      /\ "tcp-established" \in t.option => "tcp" \in t.protocol
  BY DEF LooksAtAllOf
<1>5. AddrInside(query.src, t.source_address) <=> Among(p.source, t.source_address, <<>>)
  BY <1>1, <1>2, HostAmong DEF AnsweredSoFar, OneHost, ListsInForm, BlockLists
<1>6. AddrInside(query.dst, t.destination_address)
        <=> Among(p.destination, t.destination_address, <<>>)
  BY <1>1, <1>2, HostAmong DEF AnsweredSoFar, OneHost, ListsInForm, BlockLists
<1>7. /\ PortInside(query.sport, t.source_port) <=> AmongPorts(p.source_port, t.source_port)
      /\ PortInside(query.dport, t.destination_port)
           <=> AmongPorts(p.destination_port, t.destination_port)
  BY <1>2 DEF PortInside, AmongPorts, Cover, AnsweredSoFar
<1>8. AmongPorts(p.source_port, t.port)
  BY <1>3 DEF AmongPorts
<1>9. p \in MatchedBy[t] <=> Matches(t, p)
  BY <1>2 DEF MatchedBy
<1>10. ASSUME Matches(t, p) PROVE Hit(t)
  <2>1. t.action # {}
    BY <1>1, <1>10 DEF Matches, Sane
  <2> QED
    BY <1>2, <1>3, <1>5, <1>6, <1>7, <1>10, <2>1 DEF Matches, Hit
<1>11. ASSUME Hit(t), ~PossibleMatch(t) PROVE Matches(t, p)
  <2>1. t.verbatim = {}
    BY <1>1, <1>11 DEF Hit, Sane
  <2>2. t.option = {} /\ t.fragment_offset = NONE /\ t.packet_length = NONE
    BY <1>4, <1>11 DEF PossibleMatch
  <2>3. t.protocol = {} \/ query.proto \in t.protocol
    BY <1>11 DEF Hit, AnsweredSoFar
  <2> QED
    BY <1>2, <1>3, <1>5, <1>6, <1>7, <1>8, <1>11, <2>1, <2>2, <2>3
       DEF Matches, Hit, Within
<1> QED
  BY <1>9, <1>10, <1>11

-----------------------------------------------------------------------------
(* Every term that is met is reported, up to the one that decides *)

Records == [filter : Nat, term : Nat, possible : BOOLEAN]

Reported(ms, f, k) == \E i \in DOMAIN ms : ms[i].filter = f /\ ms[i].term = k

\* The terms of the filter up to place n that are hit are in the report.
ReportedTo(ms, f, n) ==
  \A k \in 1..n : k \in DOMAIN policy[f] /\ Hit(policy[f][k]) => Reported(ms, f, k)

\* The term ends the search of its filter.
Decides(t) == Hit(t) /\ ~PossibleMatch(t) /\ "next" \notin t.action

\* The report of a filter goes to its end or to a term that decides.
Answered(ms, f) ==
  \E n \in Nat :
    /\ ReportedTo(ms, f, n)
    /\ n = Len(policy[f]) \/ (n \in DOMAIN policy[f] /\ Decides(policy[f][n]))

RInv ==
  /\ IInv
  /\ matches \in Seq(Records)
  /\ filter \in DOMAIN policy => ReportedTo(matches, filter, term - 1)
  /\ \A f \in 1..(filter - 1) : f \in DOMAIN policy => Answered(matches, f)

\* The report grows: what it said it says still.
Extended == \A f, k : Reported(matches, f, k) => Reported(matches', f, k)

\* What has been reported stays so.
LEMMA ReportKept ==
  ASSUME UNCHANGED <<policy, query>>, Extended
  PROVE  /\ \A f, n : ReportedTo(matches', f, n) <=> ReportedTo(matches, f, n)'
         /\ \A f, n : ReportedTo(matches, f, n) => ReportedTo(matches', f, n)
         /\ \A f : Answered(matches, f) => Answered(matches, f)'
         /\ \A f : Answered(matches', f) => Answered(matches, f)'
<1>1. \A t : (Hit(t)' <=> Hit(t)) /\ (Decides(t)' <=> Decides(t))
  BY SameHits DEF Decides
<1>2. \A f, k : Reported(matches, f, k)' <=> Reported(matches', f, k)
  BY DEF Reported
<1>3. \A f, n : ReportedTo(matches', f, n) <=> ReportedTo(matches, f, n)'
  BY <1>1, <1>2 DEF ReportedTo
<1>4. \A f, n : ReportedTo(matches, f, n) => ReportedTo(matches', f, n)
  BY DEF ReportedTo, Extended
<1> QED
  BY <1>1, <1>3, <1>4 DEF Answered

\* A term that is hit and reported.
LEMMA ReportGrows ==
  ASSUME RInv, Report
  PROVE  matches' \in Seq(Records) /\ Extended /\ Reported(matches', filter, term)
<1> DEFINE r == [filter |-> filter, term |-> term, possible |-> PossibleMatch(Term)]
<1>1. r \in Records /\ r.filter = filter /\ r.term = term
  BY DEF RInv, IInv, PossibleMatch, Records
<1>2. matches' = Append(matches, r) /\ matches \in Seq(Records)
  BY DEF Report, RInv
<1> HIDE DEF r
<1>3. /\ matches' \in Seq(Records)
      /\ \A i \in DOMAIN matches : i \in DOMAIN matches' /\ matches'[i] = matches[i]
      /\ Len(matches) + 1 \in DOMAIN matches' /\ matches'[Len(matches) + 1] = r
  BY <1>1, <1>2
<1> QED
  BY <1>1, <1>3 DEF Reported, Extended

\* The next term of the filter: the one at hand was no hit, or is reported.
LEMMA NextTermReports ==
  ASSUME RInv, IInv', UNCHANGED <<policy, query>>, NextTerm, Looking,
         matches' \in Seq(Records), Extended,
         Hit(Term) => Reported(matches', filter, term)
  PROVE  RInv'
<1>1. /\ filter' = filter /\ term' = term + 1 /\ term \in Nat \ {0}
      /\ filter \in DOMAIN policy
  BY PolicyType DEF NextTerm, RInv, IInv, Looking
<1>2. ReportedTo(matches', filter, term - 1)
  BY <1>1, ReportKept DEF RInv
<1>3. ReportedTo(matches', filter, term)
  <2> SUFFICES ASSUME NEW k \in 1..term, k \in DOMAIN policy[filter],
                      Hit(policy[filter][k])
               PROVE  Reported(matches', filter, k)
    BY DEF ReportedTo
  <2>1. CASE k = term
    BY <2>1 DEF Term
  <2>2. CASE k # term
    <3>1. k \in 1..(term - 1)
      BY <1>1, <2>2
    <3> QED
      BY <1>2, <3>1 DEF ReportedTo
  <2> QED
    BY <2>1, <2>2
<1>4. \A f, n : ReportedTo(matches', f, n) => ReportedTo(matches, f, n)'
  BY ReportKept
<1>5. (filter \in DOMAIN policy => ReportedTo(matches, filter, term - 1))'
  <2>1. term' - 1 = term
    BY <1>1
  <2> QED
    BY <1>1, <1>3, <1>4, <2>1
<1>6. (\A f \in 1..(filter - 1) : f \in DOMAIN policy => Answered(matches, f))'
  BY <1>1, ReportKept DEF RInv
<1> QED
  BY <1>5, <1>6 DEF RInv

\* The next filter: this one's end has been reached, or the term at hand decides.
LEMMA NextFilterReports ==
  ASSUME RInv, IInv', UNCHANGED <<policy, query>>, NextFilter, filter \in DOMAIN policy,
         matches' \in Seq(Records), Extended,
         \/ term > Len(policy[filter])
         \/ Looking /\ Decides(Term) /\ Reported(matches', filter, term)
  PROVE  RInv'
<1>1. /\ filter' = filter + 1 /\ term' = 1 /\ filter \in Nat \ {0} /\ term \in Nat \ {0}
      /\ Len(policy[filter]) \in Nat
      /\ DOMAIN policy[filter] = 1..Len(policy[filter])
      /\ \A k \in 1..(term - 1) : k \in DOMAIN policy[filter]
  BY PolicyType DEF NextFilter, RInv, IInv
<1>2. ReportedTo(matches', filter, term - 1)
  BY ReportKept DEF RInv
<1>3. Answered(matches', filter)
  <2>1. CASE term > Len(policy[filter])
    <3>1. \A k \in 1..Len(policy[filter]) : k \in 1..(term - 1)
      BY <1>1, <2>1
    <3>2. ReportedTo(matches', filter, Len(policy[filter]))
      BY <1>2, <3>1 DEF ReportedTo
    <3> QED
      BY <1>1, <3>2 DEF Answered
  <2>2. CASE Looking /\ Decides(Term) /\ Reported(matches', filter, term)
    <3>1. term \in DOMAIN policy[filter] /\ Decides(policy[filter][term])
      BY <1>1, <2>2 DEF Looking, Term
    <3>2. \A k \in 1..term : k = term \/ k \in 1..(term - 1)
      BY <1>1
    <3>3. ReportedTo(matches', filter, term)
      BY <1>2, <2>2, <3>2 DEF ReportedTo
    <3> QED
      BY <1>1, <3>1, <3>3 DEF Answered
  <2> QED
    BY <2>1, <2>2
<1>4. ReportedTo(matches, filter, term - 1)'
  BY <1>1 DEF ReportedTo
<1>5. ASSUME NEW f \in 1..filter, f \in DOMAIN policy PROVE Answered(matches, f)'
  <2>1. CASE f = filter
    BY <1>3, <2>1, ReportKept
  <2>2. CASE f # filter
    <3>1. f \in 1..(filter - 1)
      BY <1>1, <2>2
    <3>2. Answered(matches, f)
      BY <1>5, <3>1 DEF RInv
    <3> QED
      BY <3>2, ReportKept
  <2> QED
    BY <2>1, <2>2
<1>6. filter' - 1 = filter
  BY <1>1
<1> QED
  BY <1>4, <1>5, <1>6 DEF RInv

LEMMA RInvStep == RInv /\ [CheckNext]_checkVars => RInv'
<1> SUFFICES ASSUME RInv, [CheckNext]_checkVars PROVE RInv'
  OBVIOUS
<1>0. IInv'
  BY IInvStep DEF RInv
<1>1. CASE NoHit
  <2>1. UNCHANGED <<policy, query, matches>> /\ NextTerm /\ Looking /\ ~Hit(Term)
    BY <1>1 DEF NoHit
  <2>2. Extended /\ matches' \in Seq(Records)
    BY <2>1 DEF Extended, RInv
  <2> QED
    BY <1>0, <2>1, <2>2, NextTermReports
<1>2. CASE HitAndGoOn
  <2>1. UNCHANGED <<policy, query>> /\ NextTerm /\ Looking /\ Report
    BY <1>2 DEF HitAndGoOn
  <2> QED
    BY <1>0, <2>1, ReportGrows, NextTermReports
<1>3. CASE ExactHit
  <2>1. UNCHANGED <<policy, query>> /\ NextFilter /\ Looking /\ Decides(Term) /\ Report
    BY <1>3 DEF ExactHit, Decides
  <2>2. filter \in DOMAIN policy
    BY <2>1, PolicyType DEF Looking, RInv, IInv
  <2> QED
    BY <1>0, <2>1, <2>2, ReportGrows, NextFilterReports
<1>4. CASE EndOfFilter
  <2>1. /\ UNCHANGED <<policy, query, matches>> /\ NextFilter
        /\ filter <= Len(policy) /\ term > Len(policy[filter])
    BY <1>4 DEF EndOfFilter
  <2>2. filter \in DOMAIN policy
    BY <2>1, PolicyType DEF RInv, IInv
  <2>3. Extended /\ matches' \in Seq(Records)
    BY <2>1 DEF Extended, RInv
  <2> QED
    BY <1>0, <2>1, <2>2, <2>3, NextFilterReports
<1>5. CASE UNCHANGED checkVars
  <2>1. UNCHANGED <<policy, query, matches, filter, term>>
    BY <1>5 DEF checkVars
  <2>2. Extended
    BY <2>1 DEF Extended
  <2>3. \A f, n : ReportedTo(matches, f, n) => ReportedTo(matches, f, n)'
    BY <2>1, <2>2, ReportKept
  <2>4. \A f : Answered(matches, f) => Answered(matches, f)'
    BY <2>1, <2>2, ReportKept
  <2> QED
    BY <1>0, <2>1, <2>3, <2>4 DEF RInv
<1> QED
  BY <1>1, <1>2, <1>3, <1>4, <1>5 DEF CheckNext, Done

LEMMA RInvHolds == CheckSpec => []RInv
<1>1. CheckInit => RInv
  BY PolicyType DEF CheckInit, IInv, RInv, ReportedTo
<1> QED
  BY <1>1, RInvStep, PTL DEF CheckSpec

\* For all policies and packets: of a packet whose addresses, ports and protocol
\* are known, what each filter of the policy decides is in the report of AclCheck.
THEOREM DecisionsReported == CheckSpec => []DecisionIsReported
<1>1. RInv => DecisionIsReported
  <2> SUFFICES ASSUME RInv, filter > Len(policy), AnsweredSoFar, NEW f \in DOMAIN policy,
                      \A t \in ToSet(policy[f]) : LooksAtAllOf(t),
                      NEW p \in Asked[query], Deciding(f, p) # {}
               PROVE  \E m \in ToSet(matches) :
                        m.filter = f /\ m.term = Min(Deciding(f, p))
    BY DEF DecisionIsReported, AnsweredSoFar, RInv, IInv
  <2> DEFINE D == Deciding(f, p)
             least == Min(D)
  <2>1. /\ DOMAIN policy[f] = 1..Len(policy[f]) /\ Len(policy[f]) \in Nat
        /\ \A k \in DOMAIN policy[f] : policy[f][k] \in PolicyTerms
    BY PolicyType DEF RInv, IInv
  <2>2. D \subseteq DOMAIN policy[f] /\ D \subseteq Nat
    BY <2>1 DEF Deciding
  <2>3. least \in D /\ \A k \in D : least <= k
    <3>1. D \subseteq Nat /\ D # {}
      BY <2>2
    <3> HIDE DEF D
    <3> QED
      BY <3>1, LeastOf
  <2>4. f \in 1..(filter - 1)
    BY PolicyType DEF RInv, IInv
  <2>5. PICK n \in Nat :
          /\ ReportedTo(matches, f, n)
          /\ n = Len(policy[f]) \/ (n \in DOMAIN policy[f] /\ Decides(policy[f][n]))
    BY <2>4 DEF RInv, Answered
  <2>6. \A k \in DOMAIN policy[f] :
          /\ p \in MatchedBy[policy[f][k]] => Hit(policy[f][k])
          /\ Decides(policy[f][k]) => k \in D
    <3> SUFFICES ASSUME NEW k \in DOMAIN policy[f]
                 PROVE  /\ p \in MatchedBy[policy[f][k]] => Hit(policy[f][k])
                        /\ Decides(policy[f][k]) => k \in D
      OBVIOUS
    <3>1. policy[f][k] \in PolicyTerms /\ LooksAtAllOf(policy[f][k])
      BY <2>1 DEF ToSet
    <3>2. /\ p \in MatchedBy[policy[f][k]] => Hit(policy[f][k])
          /\ Hit(policy[f][k]) /\ ~PossibleMatch(policy[f][k]) => p \in MatchedBy[policy[f][k]]
      BY <3>1, HitIsMatch
    <3> QED
      BY <3>2 DEF Decides, Deciding
  <2> HIDE DEF D, least
  <2>7. least \in DOMAIN policy[f] /\ Hit(policy[f][least])
    BY <2>2, <2>3, <2>6 DEF Deciding, D
  <2>8. least <= n
    <3>1. CASE n = Len(policy[f])
      BY <2>1, <2>7, <3>1
    <3>2. CASE n \in DOMAIN policy[f] /\ Decides(policy[f][n])
      BY <2>3, <2>6, <3>2
    <3> QED
      BY <2>5, <3>1, <3>2
  <2>9. Reported(matches, f, least)
    <3>1. least \in 1..n
      <4>1. least \in Nat /\ least >= 1
        BY <2>1, <2>7
      <4>2. n \in Nat
        BY <2>5
      <4> QED
        BY <2>8, <4>1, <4>2
    <3> QED
      BY <2>5, <2>7, <3>1 DEF ReportedTo
  <2> QED
    BY <2>9 DEF Reported, ToSet, least, D
<1> QED
  BY <1>1, RInvHolds, PTL

-----------------------------------------------------------------------------
(* Flattening: the invariant *)

Sides == {"saddr", "daddr", "addr"}

\* What flattening does not change.
Alike(t, g) ==
  /\ DOMAIN t = DOMAIN EmptyTerm
  /\ \A a \in DOMAIN EmptyTerm \ {"source_address", "destination_address", "address"} :
       t[a] = g[a]

\* The list holds what it did, but for excluded addresses.
Kept(was, exclude, numbers) ==
  /\ AddressesOf(was) \ AddressesOf(exclude) \subseteq numbers
  /\ numbers \subseteq AddressesOf(was)

\* A list that FlattenAll has done with.
Reduced(was, exclude, list, flattened) ==
  /\ flattened \in {<<>>, list}
  /\ Len(exclude) <= 1 =>
       /\ Kept(was, exclude, AddressesOf(list))
       /\ was = <<>> => list = <<>>
  /\ ExcludesFit(was, exclude) => AddressesOf(list) = AddressesOf(was) \ AddressesOf(exclude)

\* The lists of a term that come before the one that is being flattened.
Earlier == [saddr |-> {}, daddr |-> {"saddr"}, addr |-> {"saddr", "daddr"}]

\* FlattenAll has done with the list.
Over(k, s) == (side # "none" /\ k = flattening) => s \in Earlier[side]

FlatTerm(k) ==
  IF HasExcludes(given[k])
  THEN \A s \in Sides :
         IF Over(k, s)
         THEN Reduced(ListOf(given[k], s), ExcludesOf(given[k], s),
                      ListOf(terms[k], s), flat[k][s])
         ELSE ListOf(terms[k], s) = ListOf(given[k], s) /\ flat[k][s] = <<>>
  ELSE terms[k] = given[k] /\ flat[k] = AsWritten(given[k])

TermsInv ==
  /\ terms \in Seq({terms[k] : k \in DOMAIN terms}) /\ Len(terms) = Len(given)
  /\ flat \in Seq(Flats \cup {NONE}) /\ Len(flat) = Len(given)
  /\ \A k \in DOMAIN given :
       /\ Alike(terms[k], given[k])
       /\ \A s \in Sides : ListOf(terms[k], s) \in Seq(Networks)
       /\ IF flat[k] = NONE THEN terms[k] = given[k] ELSE FlatTerm(k)

CallStates ==
  {c \in [list : Seq(Networks), exclude : Seq(Networks), i : Nat \ {0}, e : Nat,
          in : Networks \cup {NONE}] : c.e # 0 => c.in \in Networks}

\* The only exclude: the entries that are passed are apart from it, when it is
\* in one entry at most.
OneHolder(c, x) ==
  \A j \in DOMAIN c.list :
    \/ Apart(c.list[j], x)
    \/ /\ In(x, c.list[j])
       /\ c.i <= j
       /\ j = c.i => c.e <= 1
       /\ \A k \in DOMAIN c.list : In(x, c.list[k]) => k = j

\* The call that flattens a list with one exclude.
OuterCall(c, was, exclude) ==
  /\ c.exclude = exclude
  /\ c.e = 1 => c.i \in DOMAIN c.list /\ c.in = c.list[c.i]
  /\ was = <<>> => c.list = <<>>
  /\ ExcludesFit(was, exclude) => OneHolder(c, exclude[1])

\* The call that is made for what is left of one of its entries.
InnerCall(c, was, exclude) ==
  /\ c.exclude = <<>>
  /\ \A j \in DOMAIN c.list : Apart(c.list[j], exclude[1])

OneExclude(cs, was, exclude) ==
  \/ /\ Len(cs) = 1
     /\ OuterCall(cs[1], was, exclude)
     /\ Kept(was, exclude, AddressesOf(cs[1].list))
  \/ /\ Len(cs) = 2
     /\ OuterCall(cs[2], was, exclude)
     /\ cs[2].e = 2
     /\ was # <<>>
     /\ InnerCall(cs[1], was, exclude)
     /\ Kept(was, exclude, AddressesOf(cs[1].list) \cup AddressesOf(cs[2].list))

CallsInv ==
  /\ side \in Sides \cup {"none"}
  /\ calls \in Seq(CallStates)
  /\ side = "none" => calls = <<>>
  /\ side # "none" =>
       /\ flattening \in DOMAIN given
       /\ HasExcludes(given[flattening])
       /\ flat[flattening] # NONE
       /\ calls # <<>> /\ Len(SideExcludes) <= 1 =>
            /\ SideExcludes # <<>>
            /\ OneExclude(calls, ListOf(given[flattening], side), SideExcludes)

SInv ==
  /\ given \in TermLists
  /\ index \in Nat \ {0} /\ prior \in 1..(index - 1)
  /\ TermsInv
  /\ CallsInv
  /\ ShadedIsUnreachable

-----------------------------------------------------------------------------
(* Lists *)

LEMMA OwnElements ==
  ASSUME NEW S, NEW s \in Seq(S)
  PROVE  s \in Seq({s[k] : k \in DOMAIN s})
<1>1. Len(s) \in Nat /\ s \in [1..Len(s) -> {s[k] : k \in DOMAIN s}]
  OBVIOUS
<1> QED
  BY <1>1

LEMMA Replaced ==
  ASSUME NEW S, NEW s \in Seq(S), NEW k \in DOMAIN s, NEW v
  PROVE  LET r == [s EXCEPT ![k] = v] IN
         /\ r \in Seq(S \cup {v}) /\ r \in Seq({r[j] : j \in DOMAIN r})
         /\ Len(r) = Len(s) /\ DOMAIN r = DOMAIN s
         /\ r[k] = v /\ \A j \in DOMAIN s : j # k => r[j] = s[j]
<1> DEFINE r == [s EXCEPT ![k] = v]
<1>1. Len(s) \in Nat /\ DOMAIN s = 1..Len(s) /\ r \in [1..Len(s) -> S \cup {v}]
  OBVIOUS
<1>2. r \in Seq(S \cup {v}) /\ Len(r) = Len(s)
  <2> HIDE DEF r
  <2> QED
    BY <1>1
<1>3. r \in Seq({r[j] : j \in DOMAIN r})
  <2> HIDE DEF r
  <2> QED
    BY <1>2, OwnElements
<1> QED
  BY <1>1, <1>2, <1>3

\* What is left of a list without one of its elements.
LEMMA Removed ==
  ASSUME NEW S, NEW s \in Seq(S), NEW i \in DOMAIN s
  PROVE  /\ RemoveAt(s, i) \in Seq(S)
         /\ \A j \in DOMAIN RemoveAt(s, i) :
              \E k \in DOMAIN s : k # i /\ RemoveAt(s, i)[j] = s[k]
         /\ \A k \in DOMAIN s : k # i =>
              \E j \in DOMAIN RemoveAt(s, i) : RemoveAt(s, i)[j] = s[k]
<1> DEFINE left == SubSeq(s, 1, i - 1)
           right == SubSeq(s, i + 1, Len(s))
<1>1. Len(s) \in Nat /\ i \in 1..Len(s) /\ DOMAIN s = 1..Len(s)
  OBVIOUS
<1>2. /\ left \in Seq(S) /\ Len(left) = i - 1
      /\ \A j \in 1..(i - 1) : left[j] = s[j]
  <2>1. \A j \in 1..(i - 1) : s[j] \in S
    BY <1>1
  <2>2. 1 \in Int /\ i - 1 \in Int
    BY <1>1
  <2> QED
    BY <1>1, <2>1, <2>2, SubSeqProperties
<1>3. /\ right \in Seq(S) /\ Len(right) = Len(s) - i
      /\ \A j \in 1..(Len(s) - i) : right[j] = s[i + j]
  <2>1. \A j \in (i + 1)..Len(s) : s[j] \in S
    BY <1>1
  <2>2. i + 1 \in Int /\ Len(s) \in Int
    BY <1>1
  <2> QED
    BY <1>1, <2>1, <2>2, SubSeqProperties
<1>4. RemoveAt(s, i) = left \o right
  BY DEF RemoveAt
<1> HIDE DEF left, right
<1> DEFINE r == left \o right
<1>5. /\ r \in Seq(S)
      /\ Len(r) = Len(s) - 1
      /\ \A j \in 1..(Len(s) - 1) : r[j] = IF j < i THEN s[j] ELSE s[j + 1]
  <2>1. /\ r \in Seq(S)
        /\ Len(r) = Len(left) + Len(right)
        /\ \A j \in 1..(Len(left) + Len(right)) :
             r[j] = IF j <= Len(left) THEN left[j] ELSE right[j - Len(left)]
    BY <1>2, <1>3, ConcatProperties
  <2> HIDE DEF r
  <2>2. Len(left) + Len(right) = Len(s) - 1
    BY <1>1, <1>2, <1>3
  <2>3. ASSUME NEW j \in 1..(Len(s) - 1)
        PROVE  r[j] = IF j < i THEN s[j] ELSE s[j + 1]
    <3>1. CASE j < i
      BY <1>1, <1>2, <2>1, <2>2, <3>1
    <3>2. CASE ~(j < i)
      <4>1. /\ ~(j <= Len(left)) /\ j - Len(left) \in 1..(Len(s) - i)
            /\ i + (j - Len(left)) = j + 1
        BY <1>1, <1>2, <3>2
      <4> QED
        BY <1>3, <2>1, <2>2, <3>2, <4>1
    <3> QED
      BY <3>1, <3>2
  <2> QED
    BY <2>1, <2>2, <2>3
<1> HIDE DEF r
<1>6. ASSUME NEW j \in 1..(Len(s) - 1)
      PROVE  \E k \in DOMAIN s : k # i /\ r[j] = s[k]
  <2>1. CASE j < i
    BY <1>1, <1>5, <2>1
  <2>2. CASE ~(j < i)
    <3>1. j + 1 \in DOMAIN s /\ j + 1 # i
      BY <1>1, <2>2
    <3> QED
      BY <1>5, <2>2, <3>1
  <2> QED
    BY <2>1, <2>2
<1>7. ASSUME NEW k \in DOMAIN s, k # i
      PROVE  \E j \in 1..(Len(s) - 1) : r[j] = s[k]
  <2>1. CASE k < i
    <3>1. k \in 1..(Len(s) - 1)
      BY <1>1, <2>1
    <3> QED
      BY <1>5, <2>1, <3>1
  <2>2. CASE k > i
    <3>1. k - 1 \in 1..(Len(s) - 1) /\ ~(k - 1 < i) /\ k - 1 + 1 = k
      BY <1>1, <2>2
    <3> QED
      BY <1>5, <3>1
  <2> QED
    BY <1>1, <1>7, <2>1, <2>2
<1>8. DOMAIN r = 1..(Len(s) - 1)
  BY <1>1, <1>5
<1> QED
  BY <1>4, <1>5, <1>6, <1>7, <1>8 DEF r

LEMMA NumbersOfLists ==
  ASSUME NEW l
  PROVE  \A c : c \in AddressesOf(l) <=> \E k \in DOMAIN l : c \in Numbers(l[k])
BY DEF AddressesOf

LEMMA Joined ==
  ASSUME NEW S, NEW l \in Seq(S), NEW m \in Seq(S)
  PROVE  /\ l \o m \in Seq(S)
         /\ \A j \in DOMAIN (l \o m) :
              \/ j \in DOMAIN l /\ (l \o m)[j] = l[j]
              \/ j \notin DOMAIN l /\ \E k \in DOMAIN m : (l \o m)[j] = m[k]
         /\ \A j \in DOMAIN l : j \in DOMAIN (l \o m) /\ (l \o m)[j] = l[j]
         /\ AddressesOf(l \o m) = AddressesOf(l) \cup AddressesOf(m)
<1>1. /\ l \o m \in Seq(S)
      /\ Len(l \o m) = Len(l) + Len(m)
      /\ \A j \in 1..(Len(l) + Len(m)) :
           (l \o m)[j] = IF j <= Len(l) THEN l[j] ELSE m[j - Len(l)]
  BY ConcatProperties
<1>2. /\ Len(l) \in Nat /\ DOMAIN l = 1..Len(l) /\ Len(m) \in Nat /\ DOMAIN m = 1..Len(m)
      /\ DOMAIN (l \o m) = 1..(Len(l) + Len(m))
  BY <1>1
<1> DEFINE lm == l \o m
<1> HIDE DEF lm
<1>3. ASSUME NEW j \in 1..(Len(l) + Len(m))
      PROVE  \/ j \in DOMAIN l /\ lm[j] = l[j]
             \/ j \notin DOMAIN l /\ \E k \in DOMAIN m : lm[j] = m[k]
  <2>1. CASE j <= Len(l)
    BY <1>1, <1>2, <2>1 DEF lm
  <2>2. CASE ~(j <= Len(l))
    <3>1. j - Len(l) \in DOMAIN m /\ j \notin DOMAIN l /\ lm[j] = m[j - Len(l)]
      BY <1>1, <1>2, <2>2 DEF lm
    <3> QED
      BY <3>1
  <2> QED
    BY <2>1, <2>2
<1>4. ASSUME NEW j \in DOMAIN l
      PROVE  j \in 1..(Len(l) + Len(m)) /\ lm[j] = l[j]
  BY <1>1, <1>2 DEF lm
<1>5. ASSUME NEW k \in DOMAIN m
      PROVE  \E j \in 1..(Len(l) + Len(m)) : lm[j] = m[k]
  <2>1. /\ Len(l) + k \in 1..(Len(l) + Len(m)) /\ ~(Len(l) + k <= Len(l))
        /\ Len(l) + k - Len(l) = k
    BY <1>2
  <2> QED
    BY <1>1, <2>1 DEF lm
<1>6. ASSUME NEW c
      PROVE  c \in AddressesOf(lm) <=> c \in AddressesOf(l) \/ c \in AddressesOf(m)
  <2>1. DOMAIN lm = 1..(Len(l) + Len(m))
    BY <1>2 DEF lm
  <2> QED
    BY <1>3, <1>4, <1>5, <2>1, NumbersOfLists
<1>7. AddressesOf(lm) = AddressesOf(l) \cup AddressesOf(m)
  BY <1>6
<1> QED
  BY <1>1, <1>2, <1>3, <1>4, <1>7 DEF lm

LEMMA RemovedNumbers ==
  ASSUME NEW l \in Seq(Networks), NEW i \in DOMAIN l
  PROVE  AddressesOf(l) = AddressesOf(RemoveAt(l, i)) \cup Numbers(l[i])
<1> DEFINE r == RemoveAt(l, i)
<1>1. /\ \A j \in DOMAIN r : \E k \in DOMAIN l : k # i /\ r[j] = l[k]
      /\ \A k \in DOMAIN l : k # i => \E j \in DOMAIN r : r[j] = l[k]
  BY Removed
<1> HIDE DEF r
<1>2. ASSUME NEW c
      PROVE  c \in AddressesOf(l) <=> c \in AddressesOf(r) \/ c \in Numbers(l[i])
  BY <1>1, NumbersOfLists
<1> QED
  BY <1>2 DEF r

-----------------------------------------------------------------------------
(* Terms and calls *)

LEMMA Attributes ==
  DOMAIN EmptyTerm =
    {"verbatim", "action", "protocol", "protocol_except", "address", "address_exclude",
     "source_address", "source_address_exclude", "destination_address",
     "destination_address_exclude", "principals", "port", "source_port",
     "destination_port", "source_prefix", "destination_prefix", "precedence", "option",
     "fragment_offset", "packet_length", "icmp_type", "platform", "platform_exclude"}
BY DEF EmptyTerm

LEMMA AlikeFacts ==
  ASSUME NEW t, NEW g, Alike(t, g)
  PROVE  /\ t.verbatim = g.verbatim /\ t.action = g.action
         /\ t.protocol = g.protocol /\ t.protocol_except = g.protocol_except
         /\ t.address_exclude = g.address_exclude
         /\ t.source_address_exclude = g.source_address_exclude
         /\ t.destination_address_exclude = g.destination_address_exclude
         /\ t.principals = g.principals /\ t.port = g.port
         /\ t.source_port = g.source_port /\ t.destination_port = g.destination_port
         /\ t.source_prefix = g.source_prefix
         /\ t.destination_prefix = g.destination_prefix
         /\ t.precedence = g.precedence /\ t.option = g.option
         /\ t.fragment_offset = g.fragment_offset /\ t.packet_length = g.packet_length
         /\ t.icmp_type = g.icmp_type /\ t.platform = g.platform
         /\ t.platform_exclude = g.platform_exclude
BY Attributes DEF Alike

LEMMA AlikeExcludes ==
  ASSUME NEW t, NEW g, Alike(t, g)
  PROVE  /\ HasExcludes(t) <=> HasExcludes(g)
         /\ \A s : ExcludesOf(t, s) = ExcludesOf(g, s)
BY AlikeFacts DEF HasExcludes, ExcludesOf

LEMMA WithListFacts ==
  ASSUME NEW t, NEW g, Alike(t, g), NEW s \in Sides, NEW l
  PROVE  /\ Alike(WithList(t, s, l), g)
         /\ ListOf(WithList(t, s, l), s) = l
         /\ \A other \in Sides : other # s =>
              ListOf(WithList(t, s, l), other) = ListOf(t, other)
<1>1. /\ DOMAIN t = DOMAIN EmptyTerm
      /\ {"source_address", "destination_address", "address"} \subseteq DOMAIN t
  BY Attributes DEF Alike
<1>2. CASE s = "saddr"
  <2>1. WithList(t, s, l) = [t EXCEPT !.source_address = l]
    BY <1>2 DEF WithList
  <2> QED
    BY <1>1, <1>2, <2>1 DEF Alike, ListOf, Sides
<1>3. CASE s = "daddr"
  <2>1. WithList(t, s, l) = [t EXCEPT !.destination_address = l]
    BY <1>3 DEF WithList
  <2> QED
    BY <1>1, <1>3, <2>1 DEF Alike, ListOf, Sides
<1>4. CASE s = "addr"
  <2>1. WithList(t, s, l) = [t EXCEPT !.address = l]
    BY <1>4 DEF WithList
  <2> QED
    BY <1>1, <1>4, <2>1 DEF Alike, ListOf, Sides
<1> QED
  BY <1>2, <1>3, <1>4 DEF Sides

LEMMA FlatWithFacts ==
  ASSUME NEW f \in Flats, NEW s \in Sides, NEW l \in Seq(Networks)
  PROVE  /\ FlatWith(f, s, l) \in Flats
         /\ FlatWith(f, s, l)[s] = l
         /\ \A other \in Sides : other # s => FlatWith(f, s, l)[other] = f[other]
BY DEF FlatWith, Flats, Sides

LEMMA GivenFacts ==
  ASSUME NEW f \in TermLists
  PROVE  /\ Len(f) \in Nat /\ DOMAIN f = 1..Len(f)
         /\ f \in Seq({f[k] : k \in DOMAIN f})
         /\ \A k \in DOMAIN f :
              /\ ListedAs(f[k])
              /\ Alike(f[k], f[k])
              /\ \A s \in Sides : ListOf(f[k], s) \in Seq(Networks)
              /\ \A s \in Sides : ExcludesOf(f[k], s) \in Seq(Networks)
<1>1. f \in Seq({f[k] : k \in DOMAIN f}) /\ \A k \in DOMAIN f : ListedAs(f[k])
  BY ShadingAssumption
<1>2. Len(f) \in Nat /\ DOMAIN f = 1..Len(f)
  BY <1>1
<1>3. ASSUME NEW k \in DOMAIN f
      PROVE  /\ Alike(f[k], f[k])
             /\ \A s \in Sides : ListOf(f[k], s) \in Seq(Networks)
             /\ \A s \in Sides : ExcludesOf(f[k], s) \in Seq(Networks)
  <2>1. ListedAs(f[k])
    BY <1>1
  <2> QED
    BY <2>1 DEF ListedAs, Alike, Sides, ListOf, ExcludesOf
<1> QED
  BY <1>1, <1>2, <1>3

LEMMA CallFacts ==
  ASSUME calls \in Seq(CallStates), calls # <<>>
  PROVE  /\ Len(calls) \in Nat \ {0} /\ DOMAIN calls = 1..Len(calls)
         /\ call = calls[1] /\ call \in CallStates
         /\ Tail(calls) \in Seq(CallStates) /\ Len(Tail(calls)) = Len(calls) - 1
         /\ \A k \in 1..(Len(calls) - 1) : Tail(calls)[k] = calls[k + 1]
         /\ Tail(calls) # <<>> <=> Len(calls) > 1
<1>1. Len(calls) \in Nat \ {0} /\ DOMAIN calls = 1..Len(calls)
  BY EmptySeq
<1>2. /\ Head(calls) \in CallStates /\ Tail(calls) \in Seq(CallStates)
      /\ Len(Tail(calls)) = Len(calls) - 1
      /\ \A k \in 1..(Len(calls) - 1) : Tail(calls)[k] = calls[k + 1]
  <2>1. /\ Tail(calls) \in Seq(CallStates) /\ Head(calls) \in CallStates
        /\ Len(Tail(calls)) = Len(calls) - 1
        /\ \A k \in 1..Len(Tail(calls)) : Tail(calls)[k] = calls[k + 1]
    BY HeadTailProperties
  <2> QED
    BY <2>1
<1>3. Head(calls) = calls[1]
  BY <1>1
<1>4. Tail(calls) # <<>> <=> Len(calls) > 1
  BY <1>1, <1>2, EmptySeq
<1> QED
  BY <1>1, <1>2, <1>3, <1>4 DEF call

LEMMA GoesOnFacts ==
  ASSUME calls \in Seq(CallStates), calls # <<>>,
         NEW l \in Seq(Networks), NEW i \in Nat \ {0}, NEW e \in Nat,
         NEW in \in Networks \cup {NONE}, e # 0 => in \in Networks
  PROVE  LET new == GoesOn(l, i, e, in) IN
         /\ new \in Seq(CallStates) /\ Len(new) = Len(calls)
         /\ new[1].list = l /\ new[1].exclude = call.exclude
         /\ new[1].i = i /\ new[1].e = e /\ new[1].in = in
         /\ \A k \in 2..Len(calls) : new[k] = calls[k]
<1> DEFINE c == [list |-> l, exclude |-> call.exclude, i |-> i, e |-> e, in |-> in]
           new == <<c>> \o Tail(calls)
<1>1. c \in CallStates
  <2>1. call.exclude \in Seq(Networks)
    BY CallFacts DEF CallStates
  <2> QED
    BY <2>1 DEF CallStates
<1>2. /\ c.list = l /\ c.exclude = call.exclude /\ c.i = i /\ c.e = e /\ c.in = in
  OBVIOUS
<1> HIDE DEF c
<1>3. /\ new \in Seq(CallStates) /\ Len(new) = Len(calls) /\ new[1] = c
      /\ \A k \in 2..Len(calls) : new[k] = calls[k]
  <2>1. /\ Len(calls) \in Nat \ {0}
        /\ Tail(calls) \in Seq(CallStates) /\ Len(Tail(calls)) = Len(calls) - 1
        /\ \A k \in 1..(Len(calls) - 1) : Tail(calls)[k] = calls[k + 1]
    BY CallFacts
  <2>2. /\ new \in Seq(CallStates)
        /\ Len(new) = 1 + Len(Tail(calls))
        /\ \A k \in 1..(1 + Len(Tail(calls))) :
             new[k] = IF k <= 1 THEN <<c>>[k] ELSE Tail(calls)[k - 1]
    BY <1>1, <2>1, ConcatProperties
  <2> HIDE DEF new
  <2>3. Len(new) = Len(calls) /\ new[1] = c
    BY <2>1, <2>2
  <2>4. ASSUME NEW k \in 2..Len(calls)
        PROVE  new[k] = calls[k]
    <3>1. /\ k - 1 \in 1..(Len(calls) - 1) /\ k - 1 + 1 = k /\ ~(k <= 1)
          /\ k \in 1..(1 + Len(Tail(calls)))
      BY <2>1
    <3> QED
      BY <2>1, <2>2, <3>1
  <2> QED
    BY <2>2, <2>3, <2>4
<1>4. GoesOn(l, i, e, in) = new
  BY DEF GoesOn, c
<1> QED
  BY <1>2, <1>3, <1>4

-----------------------------------------------------------------------------
(* A list with one exclude *)

LEMMA OnlyExclude ==
  ASSUME NEW exclude \in Seq(Networks), exclude # <<>>, Len(exclude) <= 1
  PROVE  /\ Len(exclude) = 1 /\ DOMAIN exclude = {1} /\ exclude[1] \in Networks
         /\ AddressesOf(exclude) = Numbers(exclude[1])
         /\ ToSet(exclude) = {exclude[1]}
<1>1. Len(exclude) \in Nat \ {0}
  BY EmptySeq
<1>2. Len(exclude) = 1 /\ DOMAIN exclude = {1} /\ exclude[1] \in Networks
  <2>1. Len(exclude) = 1 /\ DOMAIN exclude = 1..1
    BY <1>1
  <2>2. 1..1 = {1}
    OBVIOUS
  <2> QED
    BY <2>1, <2>2
<1> QED
  BY <1>2 DEF AddressesOf, ToSet

\* Entries that are apart from the exclude hold none of its numbers.
LEMMA ApartNumbers ==
  ASSUME NEW l \in Seq(Networks), NEW x \in Networks,
         \A j \in DOMAIN l : Apart(l[j], x)
  PROVE  AddressesOf(l) \cap Numbers(x) = {}
<1>1. ASSUME NEW j \in DOMAIN l
      PROVE  Numbers(l[j]) \cap Numbers(x) = {}
  <2>1. l[j] \in Networks
    OBVIOUS
  <2> QED
    BY <2>1, ApartIsDisjoint
<1> QED
  BY <1>1, NumbersOfLists

LEMMA FirstCall ==
  ASSUME NEW was \in Seq(Networks), NEW exclude \in Seq(Networks), exclude # <<>>,
         Len(exclude) <= 1
  PROVE  OneExclude(<<Call(was, exclude)>>, was, exclude)
<1> DEFINE c == Call(was, exclude)
<1>1. c.list = was /\ c.exclude = exclude /\ c.i = 1 /\ c.e = 0
  BY DEF Call
<1> HIDE DEF c
<1>2. ASSUME ExcludesFit(was, exclude)
      PROVE  OneHolder(c, exclude[1])
  <2> SUFFICES ASSUME NEW j \in DOMAIN was, ~Apart(was[j], exclude[1])
               PROVE  /\ In(exclude[1], was[j])
                      /\ 1 <= j
                      /\ \A k \in DOMAIN was : In(exclude[1], was[k]) => k = j
    BY <1>1 DEF OneHolder
  <2>1. was[j] \in Networks /\ exclude[1] \in Networks /\ 1 <= j
    BY OnlyExclude
  <2>2. In(was[j], exclude[1]) => was[j] = exclude[1]
    BY <1>2, OnlyExclude DEF ExcludesFit, ToSet
  <2>3. In(was[j], exclude[1]) => In(exclude[1], was[j])
    BY <2>2
  <2>4. In(exclude[1], was[j])
    BY <2>1, <2>3, ApartIsDisjoint
  <2>5. \A k \in DOMAIN was : In(exclude[1], was[k]) => k = j
    BY <1>2, <2>4, OnlyExclude DEF ExcludesFit
  <2> QED
    BY <2>1, <2>4, <2>5
<1>3. Kept(was, exclude, AddressesOf(was))
  BY DEF Kept
<1>4. Len(<<c>>) = 1 /\ <<c>>[1] = c
  OBVIOUS
<1>5. OuterCall(c, was, exclude)
  BY <1>1, <1>2 DEF OuterCall
<1> QED
  BY <1>1, <1>3, <1>4, <1>5 DEF OneExclude, c

\* While the call that has excludes is the innermost one, it is the only one.
LEMMA OnlyCall ==
  ASSUME NEW cs, NEW was, NEW exclude, OneExclude(cs, was, exclude),
         cs[1].exclude # <<>>
  PROVE  /\ Len(cs) = 1 /\ OuterCall(cs[1], was, exclude)
         /\ Kept(was, exclude, AddressesOf(cs[1].list))
BY DEF OneExclude, InnerCall

\* The next address is taken, it is looked at, or it is left.
LEMMA CallGoesOn ==
  ASSUME NEW was \in Seq(Networks), NEW exclude \in Seq(Networks), exclude # <<>>,
         Len(exclude) <= 1, NEW c \in CallStates, NEW d \in CallStates,
         OuterCall(c, was, exclude), d.list = c.list, d.exclude = c.exclude,
         \/ /\ c.e = 0 /\ c.i \in DOMAIN c.list
            /\ d.i = c.i /\ d.e = 1 /\ d.in = c.list[c.i]
         \/ /\ c.e = 1 /\ ~In(exclude[1], c.in) /\ d.i = c.i /\ d.e = 2
         \/ c.e > 1 /\ d.i = c.i + 1 /\ d.e = 0
  PROVE  OuterCall(d, was, exclude)
<1>1. /\ c.i \in Nat /\ c.e \in Nat /\ d.i \in Nat /\ d.e \in Nat /\ c.list \in Seq(Networks)
  BY DEF CallStates
<1>2. ASSUME OneHolder(c, exclude[1])
      PROVE  OneHolder(d, exclude[1])
  <2> SUFFICES ASSUME NEW j \in DOMAIN c.list, ~Apart(c.list[j], exclude[1])
               PROVE  d.i <= j /\ (j = d.i => d.e <= 1)
    BY <1>2 DEF OneHolder
  <2>1. In(exclude[1], c.list[j]) /\ c.i <= j /\ (j = c.i => c.e <= 1)
    BY <1>2 DEF OneHolder
  <2>2. j \in Nat
    BY <1>1
  <2>3. c.e = 1 => c.in = c.list[c.i]
    BY DEF OuterCall
  <2> QED
    BY <1>1, <2>1, <2>2, <2>3
<1>3. d.e = 1 => d.i \in DOMAIN d.list /\ d.in = d.list[d.i]
  BY <1>1
<1> QED
  BY <1>2, <1>3 DEF OuterCall

\* The address is taken out and what is left of it is flattened.
LEMMA CallSplits ==
  ASSUME NEW was \in Seq(Networks), NEW exclude \in Seq(Networks), exclude # <<>>,
         Len(exclude) <= 1, NEW c \in CallStates, c.e = 1, In(exclude[1], c.in),
         OuterCall(c, was, exclude), Kept(was, exclude, AddressesOf(c.list)),
         NEW d \in CallStates, d.list = RemoveAt(c.list, c.i), d.exclude = c.exclude,
         d.e = 2,
         NEW b \in CallStates, b.list = AddressExclude(c.in, exclude[1]), b.exclude = <<>>
  PROVE  OneExclude(<<b, d>>, was, exclude)
<1> DEFINE x == exclude[1]
<1>1. /\ c.i \in DOMAIN c.list /\ c.in = c.list[c.i] /\ was # <<>>
      /\ c.list \in Seq(Networks) /\ b.list \in Seq(Networks) /\ d.list \in Seq(Networks)
  BY DEF OuterCall, CallStates
<1>2. c.in \in Networks /\ x \in Networks
  BY <1>1, OnlyExclude
<1>3. AddressesOf(b.list) = Numbers(c.in) \ Numbers(x)
  BY <1>2, AddressExcludeIsExact DEF AddressesOf
<1>4. \A j \in DOMAIN b.list : Apart(b.list[j], x)
  <2> SUFFICES ASSUME NEW j \in DOMAIN b.list PROVE Apart(b.list[j], x)
    OBVIOUS
  <2>1. b.list[j] \in Networks
    BY <1>1
  <2>2. Numbers(b.list[j]) \cap Numbers(x) = {}
    BY <1>3, NumbersOfLists
  <2> QED
    BY <1>2, <2>1, <2>2, ApartIsDisjoint
<1>5. AddressesOf(c.list) = AddressesOf(d.list) \cup Numbers(c.in)
  BY <1>1, RemovedNumbers
<1>6. Kept(was, exclude, AddressesOf(b.list) \cup AddressesOf(d.list))
  <2>1. AddressesOf(exclude) = Numbers(x)
    BY OnlyExclude
  <2> QED
    BY <1>3, <1>5, <2>1 DEF Kept
<1>7. ASSUME ExcludesFit(was, exclude)
      PROVE  OneHolder(d, x)
  <2> SUFFICES ASSUME NEW j \in DOMAIN d.list PROVE Apart(d.list[j], x)
    BY DEF OneHolder
  <2>1. PICK k \in DOMAIN c.list : k # c.i /\ d.list[j] = c.list[k]
    <3>1. \A i \in DOMAIN RemoveAt(c.list, c.i) :
            \E k \in DOMAIN c.list : k # c.i /\ RemoveAt(c.list, c.i)[i] = c.list[k]
      <4> HIDE DEF x
      <4> QED
        BY <1>1, Removed, Zenon
    <3> QED
      BY <3>1, Zenon
  <2>2. OneHolder(c, x)
    BY <1>7 DEF OuterCall
  <2>3. In(x, c.list[c.i])
    BY <1>1
  <2>4. Apart(c.list[k], x)
    BY <1>1, <2>1, <2>2, <2>3 DEF OneHolder
  <2> QED
    BY <2>1, <2>4
<1>8. OuterCall(d, was, exclude)
  BY <1>1, <1>7 DEF OuterCall
<1>9. Len(<<b, d>>) = 2 /\ <<b, d>>[1] = b /\ <<b, d>>[2] = d
  OBVIOUS
<1>10. InnerCall(b, was, exclude)
  BY <1>4 DEF InnerCall
<1> QED
  BY <1>1, <1>6, <1>8, <1>9, <1>10 DEF OneExclude

\* What is left of the address joins the list.
LEMMA CallReturns ==
  ASSUME NEW was \in Seq(Networks), NEW exclude \in Seq(Networks), exclude # <<>>,
         Len(exclude) <= 1, NEW cs \in Seq(CallStates), Len(cs) > 1,
         OneExclude(cs, was, exclude),
         NEW d \in CallStates, d.list = cs[2].list \o cs[1].list,
         d.exclude = cs[2].exclude, d.i = cs[2].i, d.e = cs[2].e
  PROVE  Len(cs) = 2 /\ OneExclude(<<d>>, was, exclude)
<1> DEFINE b == cs[1]
           c == cs[2]
<1>1. /\ Len(cs) = 2 /\ OuterCall(c, was, exclude) /\ c.e = 2 /\ was # <<>>
      /\ InnerCall(b, was, exclude)
      /\ Kept(was, exclude, AddressesOf(b.list) \cup AddressesOf(c.list))
  BY DEF OneExclude
<1>2. b.list \in Seq(Networks) /\ c.list \in Seq(Networks)
  <2>1. b \in CallStates /\ c \in CallStates
    <3>1. DOMAIN cs = 1..2
      BY <1>1
    <3>2. 1 \in 1..2 /\ 2 \in 1..2
      OBVIOUS
    <3> QED
      BY <3>1, <3>2
  <2> QED
    BY <2>1 DEF CallStates
<1>8. d.list = c.list \o b.list
  OBVIOUS
<1> HIDE DEF b, c
<1>3. /\ AddressesOf(d.list) = AddressesOf(c.list) \cup AddressesOf(b.list)
      /\ \A j \in DOMAIN d.list :
           \/ j \in DOMAIN c.list /\ d.list[j] = c.list[j]
           \/ j \notin DOMAIN c.list /\ \E k \in DOMAIN b.list : d.list[j] = b.list[k]
  <2> DEFINE l == c.list \o b.list
  <2>1. /\ AddressesOf(l) = AddressesOf(c.list) \cup AddressesOf(b.list)
        /\ \A j \in DOMAIN l :
             \/ j \in DOMAIN c.list /\ l[j] = c.list[j]
             \/ j \notin DOMAIN c.list /\ \E k \in DOMAIN b.list : l[j] = b.list[k]
    <3> DEFINE lc == c.list
               lb == b.list
    <3>1. lc \in Seq(Networks) /\ lb \in Seq(Networks)
      BY <1>2
    <3> HIDE DEF lc, lb
    <3>2. /\ AddressesOf(lc \o lb) = AddressesOf(lc) \cup AddressesOf(lb)
          /\ \A j \in DOMAIN (lc \o lb) :
               \/ j \in DOMAIN lc /\ (lc \o lb)[j] = lc[j]
               \/ j \notin DOMAIN lc /\ \E k \in DOMAIN lb : (lc \o lb)[j] = lb[k]
      BY <3>1, Joined, Zenon
    <3> QED
      BY <3>2 DEF lc, lb
  <2>2. d.list = l
    BY <1>8
  <2> HIDE DEF l
  <2> QED
    BY <2>1, <2>2
<1>4. ASSUME OneHolder(c, exclude[1])
      PROVE  OneHolder(d, exclude[1])
  <2> DEFINE x == exclude[1]
  <2>1. x \in Networks
    BY OnlyExclude
  <2> HIDE DEF x
  <2>2. \A k \in DOMAIN b.list : Apart(b.list[k], x)
    BY <1>1 DEF InnerCall, x
  <2>3. ASSUME NEW n \in Networks, Apart(n, x)
        PROVE  ~In(x, n)
    <3>1. Numbers(n) \cap Numbers(x) = {}
      BY <2>1, <2>3, ApartIsDisjoint
    <3>2. In(x, n) => Numbers(x) \subseteq Numbers(n)
      BY <2>1, InIsSubset
    <3>3. <<x.version, x.first>> \in Numbers(x)
      BY <2>1, NumbersAre
    <3> QED
      BY <3>1, <3>2, <3>3
  <2>4. ASSUME NEW j \in DOMAIN d.list, ~Apart(d.list[j], x)
        PROVE  /\ j \in DOMAIN c.list /\ d.list[j] = c.list[j]
               /\ In(x, c.list[j]) /\ c.i <= j /\ (j = c.i => c.e <= 1)
               /\ \A k \in DOMAIN c.list : In(x, c.list[k]) => k = j
    BY <1>3, <1>4, <2>2, <2>4 DEF OneHolder, x
  <2>5. ASSUME NEW k \in DOMAIN d.list, In(x, d.list[k])
        PROVE  k \in DOMAIN c.list /\ d.list[k] = c.list[k]
    <3>1. k \notin DOMAIN c.list => \E i \in DOMAIN b.list : d.list[k] = b.list[i]
      BY <1>3
    <3>2. ASSUME NEW i \in DOMAIN b.list
          PROVE  ~In(x, b.list[i])
      <4>1. b.list[i] \in Networks
        BY <1>2
      <4> QED
        BY <2>2, <2>3, <4>1
    <3> QED
      BY <1>3, <2>5, <3>1, <3>2
  <2>6. d.i = c.i /\ d.e = c.e
    BY DEF c
  <2> QED
    BY <2>4, <2>5, <2>6 DEF OneHolder, x
<1>5. OuterCall(d, was, exclude)
  BY <1>1, <1>4 DEF OuterCall, c
<1>6. Kept(was, exclude, AddressesOf(d.list))
  BY <1>1, <1>3 DEF Kept
<1>7. Len(<<d>>) = 1 /\ <<d>>[1] = d
  OBVIOUS
<1> QED
  BY <1>1, <1>5, <1>6, <1>7 DEF OneExclude

\* The call comes to its end: the list is what FlattenAll is to make of it.
LEMMA CallReduces ==
  ASSUME NEW was \in Seq(Networks), NEW exclude \in Seq(Networks), exclude # <<>>,
         NEW c \in CallStates, c.exclude = <<>> \/ (c.e = 0 /\ c.i > Len(c.list)),
         Len(exclude) <= 1 => OneExclude(<<c>>, was, exclude)
  PROVE  Reduced(was, exclude, c.list, c.list)
<1>1. c.list \in Seq(Networks) /\ c.i \in Nat
  BY DEF CallStates
<1>2. ASSUME Len(exclude) <= 1
      PROVE  /\ Kept(was, exclude, AddressesOf(c.list))
             /\ was = <<>> => c.list = <<>>
             /\ ExcludesFit(was, exclude) =>
                  AddressesOf(c.list) = AddressesOf(was) \ AddressesOf(exclude)
  <2>1. OuterCall(c, was, exclude) /\ Kept(was, exclude, AddressesOf(c.list))
    <3>1. Len(<<c>>) = 1 /\ <<c>>[1] = c
      OBVIOUS
    <3> QED
      BY <1>2, <3>1 DEF OneExclude
  <2>2. was = <<>> => c.list = <<>>
    BY <2>1 DEF OuterCall
  <2>3. ASSUME ExcludesFit(was, exclude)
        PROVE  AddressesOf(c.list) = AddressesOf(was) \ AddressesOf(exclude)
    <3>1. OneHolder(c, exclude[1]) /\ c.e = 0 /\ c.i > Len(c.list)
      BY <2>1, <2>3 DEF OuterCall
    <3>2. \A j \in DOMAIN c.list : Apart(c.list[j], exclude[1])
      BY <1>1, <3>1 DEF OneHolder
    <3>3. /\ exclude[1] \in Networks /\ AddressesOf(exclude) = Numbers(exclude[1])
      BY <1>2, OnlyExclude
    <3>4. AddressesOf(c.list) \cap Numbers(exclude[1]) = {}
      BY <1>1, <3>2, <3>3, ApartNumbers
    <3> QED
      BY <2>1, <3>3, <3>4 DEF Kept
  <2> QED
    BY <2>1, <2>2, <2>3
<1>3. ExcludesFit(was, exclude) => Len(exclude) <= 1
  BY DEF ExcludesFit
<1> QED
  BY <1>2, <1>3 DEF Reduced

-----------------------------------------------------------------------------
(* The invariant holds *)

LEMMA SInvInit == ShadingInit => SInv
<1> SUFFICES ASSUME ShadingInit PROVE SInv
  OBVIOUS
<1> USE DEF ShadingInit
<1>1. /\ Len(given) \in Nat /\ DOMAIN given = 1..Len(given)
      /\ given \in Seq({given[k] : k \in DOMAIN given})
      /\ \A k \in DOMAIN given :
           Alike(given[k], given[k]) /\ \A s \in Sides : ListOf(given[k], s) \in Seq(Networks)
  BY GivenFacts
<1>2. flat \in Seq(Flats \cup {NONE}) /\ Len(flat) = Len(given)
  <2>1. flat = [k \in 1..Len(given) |-> NONE] /\ Len(given) \in Nat
    BY <1>1
  <2> QED
    BY <2>1
<1>3. TermsInv
  BY <1>1, <1>2 DEF TermsInv
<1>4. CallsInv
  BY EmptySeq DEF CallsInv
<1> QED
  BY <1>3, <1>4 DEF SInv, ShadedIsUnreachable

LEMMA TermsKept ==
  ASSUME TermsInv, UNCHANGED <<given, terms, flat, flattening, side>>
  PROVE  TermsInv'
BY DEF TermsInv, FlatTerm, Over

LEMMA UnreachableKept ==
  ASSUME ShadedIsUnreachable, UNCHANGED <<given, errors>>
  PROVE  ShadedIsUnreachable'
BY DEF ShadedIsUnreachable

\* A step of _FlattenAddresses.
LEMMA CallStep ==
  ASSUME SInv, UNCHANGED <<comparison, terms, flat, flattening, side>>, side # "none",
         calls' \in Seq(CallStates),
         (calls' # <<>> /\ Len(SideExcludes) <= 1) =>
           /\ SideExcludes # <<>>
           /\ OneExclude(calls', ListOf(given[flattening], side), SideExcludes)
  PROVE  SInv'
<1>1. TermsInv' /\ ShadedIsUnreachable'
  BY TermsKept, UnreachableKept DEF SInv, comparison
<1>2. CallsInv'
  BY DEF SInv, CallsInv, comparison, SideExcludes
<1> QED
  BY <1>1, <1>2 DEF SInv, comparison

\* The excludes are those the term was given.
LEMMA SideFacts ==
  ASSUME SInv, side # "none"
  PROVE  /\ flattening \in DOMAIN given /\ side \in Sides
         /\ SideExcludes = ExcludesOf(given[flattening], side)
         /\ SideExcludes \in Seq(Networks)
         /\ ListOf(given[flattening], side) \in Seq(Networks)
         /\ ListOf(terms[flattening], side) = ListOf(given[flattening], side)
         /\ ListOf(terms[flattening], side) \in Seq(Networks)
         /\ flat[flattening][side] = <<>>
<1>1. flattening \in DOMAIN given /\ side \in Sides /\ HasExcludes(given[flattening])
  BY DEF SInv, CallsInv
<1>2. flat[flattening] # NONE
  BY DEF SInv, CallsInv
<1>3. SideExcludes = ExcludesOf(given[flattening], side)
  BY <1>1, AlikeExcludes DEF SInv, TermsInv, SideExcludes
<1>4. /\ ExcludesOf(given[flattening], side) \in Seq(Networks)
      /\ ListOf(given[flattening], side) \in Seq(Networks)
  BY <1>1, GivenFacts DEF SInv
<1>5. FlatTerm(flattening)
  BY <1>1, <1>2 DEF SInv, TermsInv
<1>6. ~Over(flattening, side)
  BY <1>1 DEF Over, Earlier, Sides
<1>7. /\ ListOf(terms[flattening], side) = ListOf(given[flattening], side)
      /\ flat[flattening][side] = <<>>
  BY <1>1, <1>5, <1>6 DEF FlatTerm
<1> QED
  BY <1>1, <1>3, <1>4, <1>7

\* The invariant says that FlattenAll is at work when a call is open.
LEMMA OpenCall ==
  ASSUME SInv, calls # <<>>
  PROVE  /\ side # "none" /\ calls \in Seq(CallStates)
         /\ Len(SideExcludes) <= 1 =>
              /\ SideExcludes # <<>>
              /\ OneExclude(calls, ListOf(given[flattening], side), SideExcludes)
BY DEF SInv, CallsInv

\* The three steps that stay in the innermost call.
LEMMA GoingOn ==
  ASSUME SInv, InCall, NEW i \in Nat \ {0}, NEW e \in Nat, NEW in \in Networks \cup {NONE},
         e # 0 => in \in Networks, calls' = GoesOn(call.list, i, e, in),
         \/ /\ call.e = 0 /\ call.i \in DOMAIN call.list
            /\ i = call.i /\ e = 1 /\ in = call.list[call.i]
         \/ /\ call.e \in DOMAIN call.exclude /\ ~In(call.exclude[call.e], call.in)
            /\ i = call.i /\ e = call.e + 1
         \/ call.e > Len(call.exclude) /\ i = call.i + 1 /\ e = 0
  PROVE  SInv'
<1> DEFINE was == ListOf(given[flattening], side)
           new == GoesOn(call.list, i, e, in)
<1>1. /\ calls # <<>> /\ call.exclude # <<>>
      /\ UNCHANGED <<comparison, terms, flat, flattening, side>>
  BY DEF InCall
<1>2. /\ side # "none" /\ calls \in Seq(CallStates)
      /\ Len(SideExcludes) <= 1 =>
           SideExcludes # <<>> /\ OneExclude(calls, was, SideExcludes)
  BY <1>1, OpenCall
<1>3. call = calls[1] /\ call \in CallStates /\ call.list \in Seq(Networks)
  BY <1>1, <1>2, CallFacts DEF CallStates
<1>4. /\ new \in Seq(CallStates) /\ Len(new) = Len(calls)
      /\ new[1].list = call.list /\ new[1].exclude = call.exclude
      /\ new[1].i = i /\ new[1].e = e /\ new[1].in = in
  BY <1>1, <1>2, <1>3, GoesOnFacts
<1>5. was \in Seq(Networks) /\ SideExcludes \in Seq(Networks)
  BY <1>2, SideFacts
<1> HIDE DEF was, new
<1>6. ASSUME Len(SideExcludes) <= 1
      PROVE  SideExcludes # <<>> /\ OneExclude(new, was, SideExcludes)
  <2>1. /\ SideExcludes # <<>> /\ Len(calls) = 1 /\ OuterCall(call, was, SideExcludes)
        /\ Kept(was, SideExcludes, AddressesOf(call.list))
    BY <1>1, <1>2, <1>3, <1>6, OnlyCall
  <2>2. Len(SideExcludes) = 1 /\ DOMAIN SideExcludes = {1}
    BY <1>5, <1>6, <2>1, OnlyExclude
  <2>3. call.exclude = SideExcludes
    BY <2>1 DEF OuterCall
  <2>4. new[1] \in CallStates
    <3>1. 1 \in DOMAIN new
      BY <1>4, <2>1
    <3> QED
      BY <1>4, <3>1
  <2>5. \/ /\ call.e = 0 /\ call.i \in DOMAIN call.list
           /\ i = call.i /\ e = 1 /\ in = call.list[call.i]
        \/ /\ call.e = 1 /\ ~In(SideExcludes[1], call.in) /\ i = call.i /\ e = 2
        \/ call.e > 1 /\ i = call.i + 1 /\ e = 0
    <3>1. call.e \in DOMAIN call.exclude => call.e = 1
      BY <2>2, <2>3
    <3>2. Len(call.exclude) = 1
      BY <2>2, <2>3
    <3> QED
      BY <2>3, <3>1, <3>2
  <2>6. OuterCall(new[1], was, SideExcludes)
    BY <1>3, <1>4, <1>5, <1>6, <2>1, <2>4, <2>5, CallGoesOn
  <2> QED
    BY <1>4, <2>1, <2>6 DEF OneExclude
<1>7. calls' = new
  BY DEF new
<1> QED
  BY <1>1, <1>2, <1>4, <1>6, <1>7, CallStep DEF was

LEMMA NextAddressKeeps == SInv /\ NextAddress => SInv'
<1> SUFFICES ASSUME SInv, NextAddress PROVE SInv'
  OBVIOUS
<1>1. /\ InCall /\ call.e = 0 /\ call.i <= Len(call.list)
      /\ calls' = GoesOn(call.list, call.i, 1, call.list[call.i])
  BY DEF NextAddress
<1>2. call.list \in Seq(Networks) /\ call.i \in Nat \ {0}
  BY <1>1, OpenCall, CallFacts DEF CallStates, InCall
<1>3. call.i \in DOMAIN call.list /\ call.list[call.i] \in Networks
  BY <1>1, <1>2
<1> QED
  BY <1>1, <1>2, <1>3, GoingOn

LEMMA NotExcludedKeeps == SInv /\ NotExcluded => SInv'
<1> SUFFICES ASSUME SInv, NotExcluded PROVE SInv'
  OBVIOUS
<1>1. /\ InCall /\ call.e \in DOMAIN call.exclude /\ ~In(call.exclude[call.e], call.in)
      /\ calls' = GoesOn(call.list, call.i, call.e + 1, call.in)
  BY DEF NotExcluded
<1>2. call \in CallStates
  BY <1>1, OpenCall, CallFacts DEF InCall
<1>3. call.e \in Nat \ {0} /\ call.i \in Nat \ {0} /\ call.in \in Networks
  <2>1. call.exclude \in Seq(Networks)
    BY <1>2 DEF CallStates
  <2>2. call.e \in Nat \ {0}
    BY <1>1, <2>1
  <2> QED
    BY <1>2, <2>2 DEF CallStates
<1>4. call.e + 1 \in Nat
  BY <1>3
<1> QED
  BY <1>1, <1>3, <1>4, GoingOn

LEMMA EndOfExcludesKeeps == SInv /\ EndOfExcludes => SInv'
<1> SUFFICES ASSUME SInv, EndOfExcludes PROVE SInv'
  OBVIOUS
<1>1. /\ InCall /\ call.e > Len(call.exclude)
      /\ calls' = GoesOn(call.list, call.i + 1, 0, call.in)
  BY DEF EndOfExcludes
<1>2. call \in CallStates
  BY <1>1, OpenCall, CallFacts DEF InCall
<1>3. call.i + 1 \in Nat \ {0} /\ call.in \in Networks \cup {NONE}
  BY <1>2 DEF CallStates
<1> QED
  BY <1>1, <1>3, GoingOn

\* What OneExclude says of two calls, and of one.
LEMMA SameCalls ==
  ASSUME NEW cs, NEW was, NEW exclude, NEW b, NEW d
  PROVE  /\ Len(cs) = 1 /\ cs[1] = d /\ OneExclude(<<d>>, was, exclude) =>
              OneExclude(cs, was, exclude)
         /\ Len(cs) = 1 /\ cs[1] = d /\ OneExclude(cs, was, exclude) =>
              OneExclude(<<d>>, was, exclude)
         /\ Len(cs) = 2 /\ cs[1] = b /\ cs[2] = d /\ OneExclude(<<b, d>>, was, exclude) =>
              OneExclude(cs, was, exclude)
<1>1. /\ Len(<<d>>) = 1 /\ <<d>>[1] = d
      /\ Len(<<b, d>>) = 2 /\ <<b, d>>[1] = b /\ <<b, d>>[2] = d
  OBVIOUS
<1> DEFINE one == <<d>>
           two == <<b, d>>
<1> HIDE DEF one, two
<1>2. /\ Len(one) = 1 /\ one[1] = d
      /\ Len(two) = 2 /\ two[1] = b /\ two[2] = d
  BY <1>1 DEF one, two
<1>3. /\ Len(cs) = 1 /\ cs[1] = d /\ OneExclude(one, was, exclude) =>
           OneExclude(cs, was, exclude)
      /\ Len(cs) = 1 /\ cs[1] = d /\ OneExclude(cs, was, exclude) =>
           OneExclude(one, was, exclude)
      /\ Len(cs) = 2 /\ cs[1] = b /\ cs[2] = d /\ OneExclude(two, was, exclude) =>
           OneExclude(cs, was, exclude)
  BY <1>2 DEF OneExclude
<1> QED
  BY <1>3 DEF one, two

LEMMA SplitKeepsSInv == SInv /\ Split => SInv'
<1> SUFFICES ASSUME SInv, Split PROVE SInv'
  OBVIOUS
<1> DEFINE was == ListOf(given[flattening], side)
           x == call.exclude[call.e]
           b == Call(AddressExclude(call.in, x), Tail(call.exclude))
           left == RemoveAt(call.list, call.i)
           new == GoesOn(left, call.i, call.e + 1, call.in)
<1>1. /\ calls # <<>> /\ call.exclude # <<>>
      /\ UNCHANGED <<comparison, terms, flat, flattening, side>>
      /\ call.e \in DOMAIN call.exclude /\ In(x, call.in) /\ call.i <= Len(call.list)
      /\ calls' = <<b>> \o new
  BY DEF Split, InCall
<1>2. /\ side # "none" /\ calls \in Seq(CallStates)
      /\ Len(SideExcludes) <= 1 =>
           SideExcludes # <<>> /\ OneExclude(calls, was, SideExcludes)
  BY <1>1, OpenCall
<1>3. call = calls[1] /\ call \in CallStates
  BY <1>1, <1>2, CallFacts
<1>4. was \in Seq(Networks) /\ SideExcludes \in Seq(Networks)
  BY <1>2, SideFacts
<1>5. /\ call.list \in Seq(Networks) /\ call.exclude \in Seq(Networks)
      /\ call.i \in DOMAIN call.list /\ call.i \in Nat \ {0}
      /\ call.e \in Nat \ {0} /\ call.e + 1 \in Nat /\ call.in \in Networks /\ x \in Networks
  <2>1. call.list \in Seq(Networks) /\ call.exclude \in Seq(Networks) /\ call.i \in Nat \ {0}
    BY <1>3 DEF CallStates
  <2>2. call.e \in Nat \ {0} /\ x \in Networks
    BY <1>1, <2>1
  <2>3. call.in \in Networks
    BY <1>3, <2>2 DEF CallStates
  <2> QED
    BY <1>1, <2>1, <2>2, <2>3
<1>6. /\ b \in CallStates /\ b.list = AddressExclude(call.in, x)
      /\ b.exclude = Tail(call.exclude)
  <2>1. AddressExclude(call.in, x) \in Seq(Networks)
    BY <1>1, <1>5, AddressExcludeIsExact
  <2>2. Tail(call.exclude) \in Seq(Networks)
    BY <1>1, <1>5, HeadTailProperties
  <2> QED
    BY <2>1, <2>2 DEF Call, CallStates
<1>7. left \in Seq(Networks)
  BY <1>5, Removed
<1> HIDE DEF b, left, was, new, x
<1>8. /\ new \in Seq(CallStates) /\ Len(new) = Len(calls)
      /\ new[1].list = left /\ new[1].exclude = call.exclude
      /\ new[1].e = call.e + 1
  <2> DEFINE i == call.i
             e == call.e + 1
             in == call.in
  <2>1. /\ i \in Nat \ {0} /\ e \in Nat /\ in \in Networks \cup {NONE}
        /\ e # 0 => in \in Networks
    BY <1>5
  <2>2. new = GoesOn(left, i, e, in)
    BY DEF new
  <2> HIDE DEF i, e, in
  <2>3. LET then == GoesOn(left, i, e, in) IN
        /\ then \in Seq(CallStates) /\ Len(then) = Len(calls)
        /\ then[1].list = left /\ then[1].exclude = call.exclude
        /\ then[1].e = e
    <3>1. calls # <<>> /\ calls \in Seq(CallStates)
      BY <1>1, <1>2
    <3> QED
      BY <1>7, <2>1, <3>1, GoesOnFacts
  <2> QED
    BY <2>2, <2>3 DEF e
<1>9. /\ calls' \in Seq(CallStates) /\ Len(calls') = 1 + Len(calls)
      /\ calls'[1] = b /\ calls'[2] = new[1]
  <2>1. Len(calls) \in Nat \ {0}
    BY <1>1, <1>2, CallFacts
  <2> DEFINE s == <<b>>
             all == s \o new
  <2>2. s \in Seq(CallStates) /\ Len(s) = 1 /\ s[1] = b
    BY <1>6
  <2> HIDE DEF s
  <2>3. /\ all \in Seq(CallStates)
        /\ Len(all) = Len(s) + Len(new)
        /\ \A k \in 1..(Len(s) + Len(new)) :
             all[k] = IF k <= Len(s) THEN s[k] ELSE new[k - Len(s)]
    <3>1. new \in Seq(CallStates)
      BY <1>8
    <3> QED
      BY <2>2, <3>1, ConcatProperties
  <2> HIDE DEF all
  <2>4. all[1] = b /\ all[2] = new[1]
    BY <1>8, <2>1, <2>2, <2>3
  <2>5. calls' = all
    BY <1>1 DEF all, s
  <2> QED
    BY <1>8, <2>2, <2>3, <2>4, <2>5
<1>10. ASSUME Len(SideExcludes) <= 1
       PROVE  SideExcludes # <<>> /\ OneExclude(calls', was, SideExcludes)
  <2>1. /\ SideExcludes # <<>> /\ Len(calls) = 1 /\ OuterCall(call, was, SideExcludes)
        /\ Kept(was, SideExcludes, AddressesOf(call.list))
    BY <1>1, <1>2, <1>3, <1>10, OnlyCall
  <2>2. Len(SideExcludes) = 1 /\ DOMAIN SideExcludes = {1}
    BY <1>4, <1>10, <2>1, OnlyExclude
  <2>3. call.exclude = SideExcludes
    BY <2>1 DEF OuterCall
  <2>4. call.e = 1 /\ x = SideExcludes[1]
    BY <1>1, <2>2, <2>3 DEF x
  <2>5. b.exclude = <<>>
    <3>1. Tail(SideExcludes) \in Seq(Networks) /\ Len(Tail(SideExcludes)) = 0
      BY <1>4, <2>1, <2>2, HeadTailProperties
    <3>2. Tail(SideExcludes) = <<>>
      BY <3>1, EmptySeq
    <3> QED
      BY <1>6, <2>3, <3>2
  <2>6. new[1] \in CallStates
    <3>1. 1 \in DOMAIN new
      BY <1>8, <2>1
    <3> QED
      BY <1>8, <3>1
  <2>7. OneExclude(<<b, new[1]>>, was, SideExcludes)
    <3>1. In(SideExcludes[1], call.in) /\ b.list = AddressExclude(call.in, SideExcludes[1])
      BY <1>1, <1>6, <2>4
    <3>2. new[1].list = RemoveAt(call.list, call.i) /\ new[1].e = 2
      BY <1>8, <2>4 DEF left
    <3> QED
      BY <1>3, <1>4, <1>6, <1>8, <1>10, <2>1, <2>4, <2>5, <2>6, <3>1, <3>2, CallSplits
  <2> QED
    BY <1>9, <2>1, <2>7, SameCalls
<1> QED
  BY <1>1, <1>2, <1>9, <1>10, CallStep DEF was

LEMMA ReturnToCallKeeps == SInv /\ ReturnToCall => SInv'
<1> SUFFICES ASSUME SInv, ReturnToCall PROVE SInv'
  OBVIOUS
<1> DEFINE was == ListOf(given[flattening], side)
           d == [calls[2] EXCEPT !.list = @ \o call.list]
           rest == Tail(Tail(calls))
<1>1. /\ calls # <<>> /\ Tail(calls) # <<>>
      /\ UNCHANGED <<comparison, terms, flat, flattening, side>>
      /\ calls' = <<d>> \o rest
  BY DEF ReturnToCall, CallEnds
<1>2. /\ side # "none" /\ calls \in Seq(CallStates)
      /\ Len(SideExcludes) <= 1 =>
           SideExcludes # <<>> /\ OneExclude(calls, was, SideExcludes)
  BY <1>1, OpenCall
<1>3. was \in Seq(Networks) /\ SideExcludes \in Seq(Networks)
  BY <1>2, SideFacts
<1>4. /\ call = calls[1] /\ call \in CallStates /\ calls[2] \in CallStates
      /\ Len(calls) \in Nat /\ Len(calls) > 1
      /\ Tail(calls) \in Seq(CallStates) /\ Len(Tail(calls)) = Len(calls) - 1
  <2>1. /\ call = calls[1] /\ call \in CallStates
        /\ Len(calls) \in Nat /\ Len(calls) > 1
        /\ Tail(calls) \in Seq(CallStates) /\ Len(Tail(calls)) = Len(calls) - 1
    BY <1>1, <1>2, CallFacts
  <2>2. 2 \in DOMAIN calls
    BY <1>2, <2>1
  <2> QED
    BY <1>2, <2>1, <2>2
<1>5. /\ d \in CallStates /\ d.list = calls[2].list \o calls[1].list
      /\ d.exclude = calls[2].exclude /\ d.i = calls[2].i /\ d.e = calls[2].e
  <2>1. call.list \in Seq(Networks) /\ calls[2].list \in Seq(Networks)
    BY <1>4 DEF CallStates
  <2>2. calls[2].list \o call.list \in Seq(Networks)
    BY <2>1, ConcatProperties
  <2> QED
    BY <1>4, <2>2 DEF CallStates
<1>6. rest \in Seq(CallStates) /\ Len(rest) = Len(calls) - 2
  BY <1>1, <1>4, HeadTailProperties
<1> HIDE DEF was, d, rest
<1>7. calls' \in Seq(CallStates) /\ Len(calls') = Len(calls) - 1 /\ calls'[1] = d
  <2> DEFINE s == <<d>>
             all == s \o rest
  <2>1. s \in Seq(CallStates) /\ Len(s) = 1 /\ s[1] = d
    BY <1>5
  <2> HIDE DEF s
  <2>2. /\ all \in Seq(CallStates)
        /\ Len(all) = Len(s) + Len(rest)
        /\ \A k \in 1..(Len(s) + Len(rest)) :
             all[k] = IF k <= Len(s) THEN s[k] ELSE rest[k - Len(s)]
    BY <1>6, <2>1, ConcatProperties
  <2> HIDE DEF all
  <2>3. all[1] = d
    BY <1>4, <1>6, <2>1, <2>2
  <2>4. calls' = all
    BY <1>1 DEF all, s
  <2> QED
    <3>1. Len(all) = Len(calls) - 1
      BY <1>4, <1>6, <2>1, <2>2
    <3> QED
      BY <2>2, <2>3, <2>4, <3>1
<1>8. ASSUME Len(SideExcludes) <= 1
      PROVE  SideExcludes # <<>> /\ OneExclude(calls', was, SideExcludes)
  <2>1. SideExcludes # <<>> /\ OneExclude(calls, was, SideExcludes)
    BY <1>2, <1>8
  <2>2. Len(calls) = 2 /\ OneExclude(<<d>>, was, SideExcludes)
    BY <1>2, <1>3, <1>4, <1>5, <1>8, <2>1, CallReturns
  <2> QED
    BY <1>7, <2>1, <2>2, SameCalls
<1> QED
  BY <1>1, <1>2, <1>7, <1>8, CallStep DEF was

LEMMA FlattenSideKeeps == SInv /\ FlattenSide => SInv'
<1> SUFFICES ASSUME SInv, FlattenSide PROVE SInv'
  OBVIOUS
<1> DEFINE was == ListOf(given[flattening], side)
           c == Call(was, SideExcludes)
<1>1. /\ UNCHANGED <<comparison, terms, flat, flattening, side>>
      /\ side # "none" /\ SideExcludes # <<>>
  BY DEF FlattenSide
<1>2. was \in Seq(Networks) /\ SideExcludes \in Seq(Networks)
  BY <1>1, SideFacts
<1>3. calls' = <<c>>
  BY <1>1, SideFacts DEF FlattenSide
<1>4. c \in CallStates
  BY <1>2 DEF Call, CallStates
<1>5. <<c>> \in Seq(CallStates)
  <2> HIDE DEF c
  <2> QED
    BY <1>4
<1>6. Len(SideExcludes) <= 1 => OneExclude(<<c>>, was, SideExcludes)
  <2> HIDE DEF was
  <2> QED
    BY <1>1, <1>2, FirstCall
<1> QED
  BY <1>1, <1>3, <1>5, <1>6, CallStep

LEMMA NextSideFacts ==
  ASSUME side \in Sides, NextSide, UNCHANGED flattening
  PROVE  /\ side' \in Sides \cup {"none"}
         /\ \A k, s : s \in Sides /\ (Over(k, s) \/ (k = flattening /\ s = side)) => Over(k, s)'
         /\ \A k, s : s \in Sides /\ Over(k, s)' =>
              Over(k, s) \/ (k = flattening /\ s = side)
<1>1. CASE side = "saddr"
  BY <1>1 DEF NextSide, Sides, Over, Earlier
<1>2. CASE side = "daddr"
  BY <1>2 DEF NextSide, Sides, Over, Earlier
<1>3. CASE side = "addr"
  BY <1>3 DEF NextSide, Sides, Over, Earlier
<1> QED
  BY <1>1, <1>2, <1>3 DEF Sides

\* FlattenAll has done with one of the lists.
LEMMA SideEnds ==
  ASSUME SInv, side # "none", NextSide, UNCHANGED <<comparison, flattening>>, calls' = <<>>,
         terms' \in Seq({terms'[k] : k \in DOMAIN terms'}), Len(terms') = Len(given),
         flat' \in Seq(Flats \cup {NONE}), Len(flat') = Len(given),
         \A k \in DOMAIN given : k # flattening => terms'[k] = terms[k] /\ flat'[k] = flat[k],
         Alike(terms'[flattening], given[flattening]), flat'[flattening] # NONE,
         \A s \in Sides : ListOf(terms'[flattening], s) \in Seq(Networks),
         \A s \in Sides : s # side =>
           /\ ListOf(terms'[flattening], s) = ListOf(terms[flattening], s)
           /\ flat'[flattening][s] = flat[flattening][s],
         Reduced(ListOf(given[flattening], side), SideExcludes,
                 ListOf(terms'[flattening], side), flat'[flattening][side])
  PROVE  SInv'
<1>1. /\ flattening \in DOMAIN given /\ side \in Sides
      /\ SideExcludes = ExcludesOf(given[flattening], side)
      /\ HasExcludes(given[flattening]) /\ flat[flattening] # NONE
  BY SideFacts DEF SInv, CallsInv
<1>2. UNCHANGED given
  BY DEF comparison
<1>3. FlatTerm(flattening)'
  <2> SUFFICES ASSUME NEW s \in Sides
               PROVE  IF Over(flattening, s)'
                      THEN Reduced(ListOf(given[flattening], s),
                                   ExcludesOf(given[flattening], s),
                                   ListOf(terms'[flattening], s), flat'[flattening][s])
                      ELSE ListOf(terms'[flattening], s) = ListOf(given[flattening], s)
                             /\ flat'[flattening][s] = <<>>
    BY <1>1, <1>2 DEF FlatTerm
  <2>1. CASE s = side
    <3>1. Over(flattening, s)'
      BY <1>1, <2>1, NextSideFacts
    <3> QED
      BY <1>1, <2>1, <3>1
  <2>2. CASE s # side
    <3>1. FlatTerm(flattening)
      BY <1>1 DEF SInv, TermsInv
    <3>2. IF Over(flattening, s)
          THEN Reduced(ListOf(given[flattening], s), ExcludesOf(given[flattening], s),
                       ListOf(terms[flattening], s), flat[flattening][s])
          ELSE ListOf(terms[flattening], s) = ListOf(given[flattening], s)
                 /\ flat[flattening][s] = <<>>
      BY <1>1, <3>1 DEF FlatTerm
    <3>3. Over(flattening, s)' <=> Over(flattening, s)
      BY <1>1, <2>2, NextSideFacts
    <3> QED
      BY <2>2, <3>2, <3>3
  <2> QED
    BY <2>1, <2>2
<1>4. ASSUME NEW k \in DOMAIN given, k # flattening
      PROVE  /\ Alike(terms'[k], given[k])
             /\ \A s \in Sides : ListOf(terms'[k], s) \in Seq(Networks)
             /\ IF flat'[k] = NONE THEN terms'[k] = given[k] ELSE FlatTerm(k)'
  <2>1. /\ Alike(terms[k], given[k])
        /\ \A s \in Sides : ListOf(terms[k], s) \in Seq(Networks)
        /\ IF flat[k] = NONE THEN terms[k] = given[k] ELSE FlatTerm(k)
    BY DEF SInv, TermsInv
  <2>2. terms'[k] = terms[k] /\ flat'[k] = flat[k]
    BY <1>4
  <2>3. \A s \in Sides : Over(k, s) /\ Over(k, s)'
    BY <1>4 DEF Over
  <2>4. FlatTerm(k) => FlatTerm(k)'
    BY <1>2, <2>2, <2>3 DEF FlatTerm
  <2> QED
    BY <2>1, <2>2, <2>4
<1>5. TermsInv'
  BY <1>1, <1>2, <1>3, <1>4 DEF TermsInv
<1>6. CallsInv'
  BY <1>1, <1>2, EmptySeq, NextSideFacts DEF CallsInv
<1>7. ShadedIsUnreachable'
  BY UnreachableKept DEF SInv, comparison
<1> QED
  BY <1>5, <1>6, <1>7 DEF SInv, comparison

LEMMA SkipSideKeeps == SInv /\ SkipSide => SInv'
<1> SUFFICES ASSUME SInv, SkipSide PROVE SInv'
  OBVIOUS
<1>1. /\ side # "none" /\ SideExcludes = <<>> /\ NextSide
      /\ UNCHANGED <<comparison, terms, flat, flattening, calls>>
  BY DEF SkipSide
<1>2. flattening \in DOMAIN given /\ side \in Sides
  BY <1>1, SideFacts
<1>3. calls = <<>>
  <2>1. Len(SideExcludes) = 0
    BY <1>1, EmptySeq
  <2> QED
    BY <1>1, <2>1 DEF SInv, CallsInv
<1>4. Reduced(ListOf(given[flattening], side), SideExcludes,
              ListOf(terms[flattening], side), flat[flattening][side])
  <2>1. flat[flattening][side] = <<>>
    BY <1>1, SideFacts
  <2>2. AddressesOf(SideExcludes) = {}
    BY <1>1 DEF AddressesOf
  <2>3. ListOf(terms[flattening], side) = ListOf(given[flattening], side)
    BY <1>1, SideFacts
  <2> QED
    BY <2>1, <2>2, <2>3 DEF Reduced, Kept
<1>5. /\ terms \in Seq({terms[k] : k \in DOMAIN terms}) /\ Len(terms) = Len(given)
      /\ flat \in Seq(Flats \cup {NONE}) /\ Len(flat) = Len(given)
      /\ Alike(terms[flattening], given[flattening]) /\ flat[flattening] # NONE
      /\ \A s \in Sides : ListOf(terms[flattening], s) \in Seq(Networks)
  BY <1>1, <1>2 DEF SInv, TermsInv, CallsInv
<1> QED
  BY <1>1, <1>3, <1>4, <1>5, SideEnds

LEMMA ReturnToTermKeeps == SInv /\ ReturnToTerm => SInv'
<1> SUFFICES ASSUME SInv, ReturnToTerm PROVE SInv'
  OBVIOUS
<1> DEFINE was == ListOf(given[flattening], side)
           t == WithList(terms[flattening], side, call.list)
           f == FlatWith(flat[flattening], side, call.list)
<1>1. /\ calls # <<>> /\ Tail(calls) = <<>> /\ calls' = <<>>
      /\ call.exclude = <<>> \/ (call.e = 0 /\ call.i > Len(call.list))
      /\ terms' = [terms EXCEPT ![flattening] = t]
      /\ flat' = [flat EXCEPT ![flattening] = f]
      /\ NextSide /\ UNCHANGED <<comparison, flattening>>
  BY DEF ReturnToTerm, CallEnds
<1>2. /\ side # "none" /\ calls \in Seq(CallStates)
      /\ Len(SideExcludes) <= 1 =>
           SideExcludes # <<>> /\ OneExclude(calls, was, SideExcludes)
  BY <1>1, OpenCall
<1>3. /\ was \in Seq(Networks) /\ SideExcludes \in Seq(Networks)
      /\ flattening \in DOMAIN given /\ side \in Sides
  BY <1>2, SideFacts
<1>4. call = calls[1] /\ call \in CallStates /\ Len(calls) = 1
  BY <1>1, <1>2, CallFacts
<1>5. call.list \in Seq(Networks)
  BY <1>4 DEF CallStates
<1>6. /\ terms \in Seq({terms[k] : k \in DOMAIN terms}) /\ Len(terms) = Len(given)
      /\ flat \in Seq(Flats \cup {NONE}) /\ Len(flat) = Len(given)
      /\ flattening \in DOMAIN terms /\ flattening \in DOMAIN flat
      /\ DOMAIN given = 1..Len(given) /\ DOMAIN terms = DOMAIN given
      /\ DOMAIN flat = DOMAIN given
      /\ Alike(terms[flattening], given[flattening]) /\ flat[flattening] # NONE
      /\ \A s \in Sides : ListOf(terms[flattening], s) \in Seq(Networks)
  <2>1. DOMAIN given = 1..Len(given) /\ Len(given) \in Nat
    BY GivenFacts DEF SInv
  <2> QED
    BY <1>2, <1>3, <2>1 DEF SInv, TermsInv, CallsInv
<1>7. flat[flattening] \in Flats
  BY <1>6
<1>8. /\ Alike(t, given[flattening])
      /\ ListOf(t, side) = call.list
      /\ \A s \in Sides : s # side => ListOf(t, s) = ListOf(terms[flattening], s)
  BY <1>3, <1>6, WithListFacts
<1>9. /\ f \in Flats /\ f[side] = call.list
      /\ \A s \in Sides : s # side => f[s] = flat[flattening][s]
  BY <1>3, <1>5, <1>7, FlatWithFacts
<1>10. Reduced(was, SideExcludes, call.list, call.list)
  <2>1. CASE SideExcludes # <<>>
    <3>1. Len(SideExcludes) <= 1 => OneExclude(<<call>>, was, SideExcludes)
      BY <1>2, <1>4, SameCalls
    <3> QED
      BY <1>1, <1>3, <1>4, <2>1, <3>1, CallReduces
  <2>2. CASE SideExcludes = <<>>
    <3>1. Len(SideExcludes) = 0
      BY <2>2, EmptySeq
    <3> QED
      BY <1>2, <2>2, <3>1
  <2> QED
    BY <2>1, <2>2
<1> HIDE DEF t, f
<1>11. /\ terms' \in Seq({terms'[k] : k \in DOMAIN terms'}) /\ Len(terms') = Len(given)
       /\ terms'[flattening] = t
       /\ \A k \in DOMAIN given : k # flattening => terms'[k] = terms[k]
  <2> DEFINE T == {terms[k] : k \in DOMAIN terms}
  <2>1. terms \in Seq(T)
    BY <1>6
  <2> HIDE DEF T
  <2>2. /\ terms' \in Seq(T \cup {t}) /\ Len(terms') = Len(given)
        /\ terms'[flattening] = t
        /\ \A k \in DOMAIN given : k # flattening => terms'[k] = terms[k]
    BY <1>1, <1>6, <2>1, Replaced
  <2>3. terms' \in Seq({terms'[k] : k \in DOMAIN terms'})
    BY <2>2, OwnElements
  <2> QED
    BY <2>2, <2>3
<1>12. /\ flat' \in Seq(Flats \cup {NONE}) /\ Len(flat') = Len(given)
       /\ flat'[flattening] = f
       /\ \A k \in DOMAIN given : k # flattening => flat'[k] = flat[k]
  <2>1. /\ flat' \in Seq((Flats \cup {NONE}) \cup {f}) /\ Len(flat') = Len(given)
        /\ flat'[flattening] = f
        /\ \A k \in DOMAIN given : k # flattening => flat'[k] = flat[k]
    BY <1>1, <1>6, Replaced
  <2>2. (Flats \cup {NONE}) \cup {f} = Flats \cup {NONE}
    BY <1>9
  <2> QED
    BY <2>1, <2>2
<1>13. f # NONE
  BY <1>9, ShadingAssumption
<1>14. \A s \in Sides : ListOf(t, s) \in Seq(Networks)
  BY <1>5, <1>6, <1>8
<1> QED
  BY <1>1, <1>2, <1>8, <1>9, <1>10, <1>11, <1>12, <1>13, <1>14, SideEnds

LEMMA UnflattenedFacts ==
  ASSUME SInv, NEW k, k \in {prior, index}, Unflattened(k)
  PROVE  /\ k \in DOMAIN given /\ flat[k] = NONE /\ terms[k] = given[k]
         /\ side = "none" /\ calls = <<>>
         /\ HasExcludes(terms[k]) <=> HasExcludes(given[k])
         /\ AsWritten(given[k]) \in Flats
<1>1. flat[k] = NONE /\ side = "none" /\ index <= Len(terms)
  BY DEF Unflattened, Comparing
<1>2. k \in DOMAIN given
  BY <1>1, GivenFacts DEF SInv, TermsInv
<1>3. \A s \in Sides : ListOf(given[k], s) \in Seq(Networks)
  BY <1>2, GivenFacts DEF SInv
<1>4. AsWritten(given[k]) \in Flats
  BY <1>3 DEF AsWritten, Flats, Sides, ListOf
<1> QED
  BY <1>1, <1>2, <1>4 DEF SInv, TermsInv, CallsInv

LEMMA FlatSet ==
  ASSUME SInv, NEW k \in DOMAIN given, NEW f \in Flats, flat' = [flat EXCEPT ![k] = f],
         side = "none", UNCHANGED <<comparison, terms>>,
         flattening' = k \/ side' = "none", FlatTerm(k)'
  PROVE  TermsInv' /\ f # NONE /\ flat'[k] = f
<1>1. k \in DOMAIN flat /\ UNCHANGED given /\ DOMAIN given = DOMAIN flat
  <2>1. DOMAIN given = 1..Len(given) /\ Len(given) \in Nat
    BY GivenFacts DEF SInv
  <2> QED
    BY <2>1 DEF SInv, TermsInv, comparison
<1>2. /\ flat' \in Seq(Flats \cup {NONE}) /\ Len(flat') = Len(given) /\ flat'[k] = f
      /\ \A j \in DOMAIN given : j # k => flat'[j] = flat[j]
  <2>1. flat \in Seq(Flats \cup {NONE}) /\ Len(flat) = Len(given)
    BY DEF SInv, TermsInv
  <2>2. /\ flat' \in Seq((Flats \cup {NONE}) \cup {f}) /\ Len(flat') = Len(given)
        /\ flat'[k] = f /\ \A j \in DOMAIN given : j # k => flat'[j] = flat[j]
    BY <1>1, <2>1, Replaced
  <2>3. (Flats \cup {NONE}) \cup {f} = Flats \cup {NONE}
    OBVIOUS
  <2> QED
    BY <2>2, <2>3
<1>3. f # NONE
  BY ShadingAssumption
<1>4. ASSUME NEW j \in DOMAIN given, j # k
      PROVE  IF flat'[j] = NONE THEN terms'[j] = given[j] ELSE FlatTerm(j)'
  <2>1. IF flat[j] = NONE THEN terms[j] = given[j] ELSE FlatTerm(j)
    BY DEF SInv, TermsInv
  <2>2. \A s \in Sides : Over(j, s) /\ Over(j, s)'
    BY <1>4 DEF Over
  <2>3. FlatTerm(j) => FlatTerm(j)'
    BY <1>1, <1>2, <1>4, <2>2 DEF FlatTerm
  <2> QED
    BY <1>1, <1>2, <1>4, <2>1, <2>3
<1>5. \A j \in DOMAIN given :
        /\ Alike(terms[j], given[j])
        /\ \A s \in Sides : ListOf(terms[j], s) \in Seq(Networks)
  BY DEF SInv, TermsInv
<1>6. TermsInv'
  BY <1>1, <1>2, <1>3, <1>4, <1>5 DEF SInv, TermsInv
<1> QED
  BY <1>2, <1>3, <1>6

LEMMA FlattenPlainKeeps == SInv /\ FlattenPlain => SInv'
<1> SUFFICES ASSUME SInv, FlattenPlain PROVE SInv'
  OBVIOUS
<1>1. PICK k \in {prior, index} :
        /\ Unflattened(k) /\ ~HasExcludes(terms[k])
        /\ flat' = [flat EXCEPT ![k] = AsWritten(terms[k])]
  BY DEF FlattenPlain
<1>2. UNCHANGED <<comparison, terms, flattening, side, calls>>
  BY DEF FlattenPlain
<1>3. /\ k \in DOMAIN given /\ terms[k] = given[k] /\ side = "none" /\ calls = <<>>
      /\ ~HasExcludes(given[k]) /\ AsWritten(given[k]) \in Flats
  BY <1>1, UnflattenedFacts
<1>4. FlatTerm(k)'
  <2>1. k \in DOMAIN flat
    <3>1. DOMAIN given = 1..Len(given) /\ Len(given) \in Nat
      BY GivenFacts DEF SInv
    <3> QED
      BY <1>3, <3>1 DEF SInv, TermsInv
  <2> QED
    BY <1>1, <1>2, <1>3, <2>1 DEF FlatTerm, comparison
<1>5. TermsInv'
  BY <1>1, <1>2, <1>3, <1>4, FlatSet
<1>6. CallsInv'
  BY <1>2, <1>3, EmptySeq DEF CallsInv
<1>7. ShadedIsUnreachable'
  BY <1>2, UnreachableKept DEF SInv, comparison
<1> QED
  BY <1>2, <1>5, <1>6, <1>7 DEF SInv, comparison

LEMMA FlattenBeginsKeeps == SInv /\ FlattenBegins => SInv'
<1> SUFFICES ASSUME SInv, FlattenBegins PROVE SInv'
  OBVIOUS
<1>1. PICK k \in {prior, index} :
        /\ Unflattened(k) /\ HasExcludes(terms[k])
        /\ flat' = [flat EXCEPT ![k] = Unset] /\ flattening' = k
  BY DEF FlattenBegins
<1>2. UNCHANGED <<comparison, terms, calls>> /\ side' = "saddr"
  BY DEF FlattenBegins
<1>3. /\ k \in DOMAIN given /\ terms[k] = given[k] /\ side = "none" /\ calls = <<>>
      /\ HasExcludes(given[k])
  BY <1>1, UnflattenedFacts
<1>4. Unset \in Flats /\ \A s \in Sides : Unset[s] = <<>>
  BY EmptySeq DEF Unset, Flats, Sides
<1>5. FlatTerm(k)'
  <2>1. k \in DOMAIN flat
    <3>1. DOMAIN given = 1..Len(given) /\ Len(given) \in Nat
      BY GivenFacts DEF SInv
    <3> QED
      BY <1>3, <3>1 DEF SInv, TermsInv
  <2>2. flat'[k] = Unset
    BY <1>1, <2>1
  <2>3. \A s \in Sides : ~Over(k, s)'
    BY <1>1, <1>2 DEF Over, Earlier
  <2> QED
    BY <1>2, <1>3, <1>4, <2>2, <2>3 DEF FlatTerm, comparison
<1>6. TermsInv' /\ Unset # NONE /\ flat'[k] = Unset
  BY <1>1, <1>2, <1>3, <1>4, <1>5, FlatSet
<1>7. CallsInv'
  BY <1>1, <1>2, <1>3, <1>6, EmptySeq DEF CallsInv, Sides, comparison
<1>8. ShadedIsUnreachable'
  BY <1>2, UnreachableKept DEF SInv, comparison
<1> QED
  BY <1>2, <1>6, <1>7, <1>8 DEF SInv, comparison

-----------------------------------------------------------------------------
(* Comparing *)

LEMMA AdvanceKeeps ==
  ASSUME SInv, Advance
  PROVE  index' \in Nat \ {0} /\ prior' \in 1..(index' - 1)
<1>1. index \in Nat \ {0} /\ prior \in 1..(index - 1)
  BY DEF SInv
<1>2. CASE prior + 1 < index
  BY <1>1, <1>2 DEF Advance
<1>3. CASE ~(prior + 1 < index)
  BY <1>1, <1>3 DEF Advance
<1> QED
  BY <1>2, <1>3

LEMMA FlattenKept ==
  ASSUME SInv, UNCHANGED <<given, flatten>>
  PROVE  given' \in TermLists /\ TermsInv' /\ CallsInv'
<1>1. UNCHANGED <<given, terms, flat, flattening, side, calls>>
  BY DEF flatten
<1>2. TermsInv'
  BY <1>1, TermsKept DEF SInv
<1>3. CallsInv'
  BY <1>1 DEF SInv, CallsInv, SideExcludes
<1> QED
  BY <1>1, <1>2, <1>3 DEF SInv

\* The flattened lists of a term with at most one exclude a list hold all that
\* the term matches.
LEMMA FlattenedForGiven ==
  ASSUME SInv, side = "none", NEW k \in DOMAIN given, flat[k] # NONE,
         AtMostOneExclude(given[k])
  PROVE  FlattenedFor(given[k], flat[k]) /\ ListsTyped(flat[k])
<1> DEFINE g == given[k]
           f == flat[k]
<1>1. f \in Flats
  BY GivenFacts DEF SInv, TermsInv
<1>2. Networks \subseteq Blocks
  BY NetworkForm
<1>3. ListsTyped(f)
  BY <1>1, <1>2 DEF ListsTyped, Flats, BlockLists
<1>4. FlatTerm(k)
  BY DEF SInv, TermsInv
<1>5. CASE ~HasExcludes(g)
  <2>1. f = AsWritten(g)
    BY <1>4, <1>5 DEF FlatTerm
  <2> QED
    BY <1>3, <2>1 DEF FlattenedFor, Among, AsWritten
<1>6. CASE HasExcludes(g)
  <2>1. ASSUME NEW s \in Sides
        PROVE  /\ \A a : Among(a, ListOf(g, s), ExcludesOf(g, s)) =>
                           f[s] = <<>> \/ a \in AddressesOf(f[s])
               /\ ListOf(g, s) = <<>> => f[s] = <<>>
    <3> DEFINE l == ListOf(terms[k], s)
    <3>1. Over(k, s)
      BY DEF Over
    <3>2. Reduced(ListOf(g, s), ExcludesOf(g, s), l, f[s])
      BY <1>4, <1>6, <3>1 DEF FlatTerm
    <3>3. Len(ExcludesOf(g, s)) <= 1
      BY DEF AtMostOneExclude, ExcludesOf, Sides
    <3> HIDE DEF l
    <3>4. /\ Kept(ListOf(g, s), ExcludesOf(g, s), AddressesOf(l))
          /\ ListOf(g, s) = <<>> => l = <<>>
          /\ f[s] \in {<<>>, l}
      BY <3>2, <3>3 DEF Reduced
    <3> QED
      BY <3>4 DEF Among, Kept
  <2>2. /\ ListOf(g, "saddr") = g.source_address
        /\ ListOf(g, "daddr") = g.destination_address
        /\ ListOf(g, "addr") = g.address
        /\ ExcludesOf(g, "saddr") = g.source_address_exclude
        /\ ExcludesOf(g, "daddr") = g.destination_address_exclude
        /\ ExcludesOf(g, "addr") = g.address_exclude
    BY DEF ListOf, ExcludesOf
  <2>3. {"saddr", "daddr", "addr"} = Sides
    BY DEF Sides
  <2> HIDE DEF f, g
  <2>4. FlattenedFor(g, f)
    <3>1. /\ \A a : Among(a, g.source_address, g.source_address_exclude) =>
                      f["saddr"] = <<>> \/ a \in AddressesOf(f["saddr"])
          /\ \A a : Among(a, g.destination_address, g.destination_address_exclude) =>
                      f["daddr"] = <<>> \/ a \in AddressesOf(f["daddr"])
          /\ \A a : Among(a, g.address, g.address_exclude) =>
                      f["addr"] = <<>> \/ a \in AddressesOf(f["addr"])
          /\ g.address = <<>> => f["addr"] = <<>>
      <4>1. "saddr" \in Sides /\ "daddr" \in Sides /\ "addr" \in Sides
        BY <2>3
      <4> QED
        BY <2>1, <2>2, <4>1
    <3> QED
      BY <3>1 DEF FlattenedFor
  <2> QED
    BY <1>3, <2>4 DEF f, g
<1> QED
  BY <1>5, <1>6

\* Only the flattened lists of the two terms are compared, and attributes that
\* flattening leaves alone.
LEMMA ContainedAsGiven ==
  ASSUME NEW s, NEW o, NEW fs, NEW fo, NEW gs, NEW go, Alike(s, gs), Alike(o, go)
  PROVE  Contained(s, o, fs, fo) <=> Contained(gs, go, fs, fo)
<1>1. ProtocolsAllow(s, o) <=> ProtocolsAllow(gs, go)
  BY AlikeFacts DEF ProtocolsAllow, VerbatimAgrees, ProtocolContained
<1>2. PrincipalsContained(s, o) <=> PrincipalsContained(gs, go)
  BY AlikeFacts DEF PrincipalsContained
<1>3. s.port = gs.port /\ o.port = go.port
  BY AlikeFacts
<1>4. PortContained(s, o) <=> PortContained(gs, go)
  BY AlikeFacts DEF PortContained
<1>5. OptionsContained(s, o) <=> OptionsContained(gs, go)
  <2>1. /\ SetContained(s.precedence, o.precedence) <=>
             SetContained(gs.precedence, go.precedence)
        /\ SetContained(s.option, o.option) <=> SetContained(gs.option, go.option)
        /\ RangeContained(s.fragment_offset, o.fragment_offset) <=>
             RangeContained(gs.fragment_offset, go.fragment_offset)
        /\ RangeContained(s.packet_length, o.packet_length) <=>
             RangeContained(gs.packet_length, go.packet_length)
    BY AlikeFacts
  <2> QED
    BY <2>1, AlikeFacts DEF OptionsContained
<1> QED
  BY <1>1, <1>2, <1>3, <1>4, <1>5 DEF Contained

LEMMA ReportedIsUnreachable ==
  ASSUME SInv, Flattened, TermInPrior,
         ComparedSoundly(given[prior], given[index])
  PROVE  MatchedAsGiven[given[index]] \subseteq MatchedAsGiven[given[prior]]
<1> DEFINE s == given[prior]
           o == given[index]
<1>1. /\ side = "none" /\ index <= Len(terms) /\ flat[prior] # NONE /\ flat[index] # NONE
  BY DEF Flattened, Comparing
<1>2. /\ DOMAIN given = 1..Len(given) /\ Len(given) \in Nat
      /\ index \in DOMAIN given /\ prior \in DOMAIN given
  BY <1>1, GivenFacts DEF SInv, TermsInv
<1>3. ~HasExcludes(s) /\ AtMostOneExclude(o) /\ ComparedAsMeant(s, o)
  BY DEF ComparedSoundly
<1>4. flat[prior] = AsWritten(s)
  BY <1>1, <1>2, <1>3 DEF SInv, TermsInv, FlatTerm
<1>5. FlattenedFor(o, flat[index]) /\ ListsTyped(flat[index])
  BY <1>1, <1>2, <1>3, FlattenedForGiven
<1>6. AtMostOneExclude(s)
  <2>1. /\ s.source_address_exclude = <<>> /\ s.destination_address_exclude = <<>>
        /\ s.address_exclude = <<>>
    BY <1>3 DEF HasExcludes
  <2>2. Len(<<>>) <= 1
    BY EmptySeq
  <2> QED
    BY <2>1, <2>2 DEF AtMostOneExclude
<1>7. ListsTyped(AsWritten(s))
  BY <1>1, <1>2, <1>4, <1>6, FlattenedForGiven
<1>8. Contained(s, o, AsWritten(s), flat[index])
  <2>1. Alike(terms[prior], s) /\ Alike(terms[index], o)
    BY <1>2 DEF SInv, TermsInv
  <2>2. Contained(terms[prior], terms[index], flat[prior], flat[index])
    BY DEF TermInPrior, Prior, Later
  <2> QED
    BY <1>4, <2>1, <2>2, ContainedAsGiven
<1>9. /\ {s.port, s.source_port, s.destination_port} \subseteq PortLists
      /\ {o.port, o.source_port, o.destination_port} \subseteq PortLists
  BY <1>2, GivenFacts DEF SInv, ListedAs, PortLists
<1>10. ASSUME NEW p \in Packets, Matches(o, p)
       PROVE  Matches(s, p)
  <2> HIDE DEF s, o
  <2> QED
    BY <1>3, <1>5, <1>7, <1>8, <1>9, <1>10, ContainedMatchesLess
<1>11. s \in UNION {ToSet(f) : f \in TermLists} /\ o \in UNION {ToSet(f) : f \in TermLists}
  <2>1. s \in ToSet(given) /\ o \in ToSet(given) /\ given \in TermLists
    BY <1>2 DEF ToSet, SInv
  <2> QED
    BY <2>1
<1> HIDE DEF s, o
<1>12. /\ MatchedAsGiven[o] = {p \in Packets : Matches(o, p)}
       /\ MatchedAsGiven[s] = {p \in Packets : Matches(s, p)}
  BY <1>11 DEF MatchedAsGiven
<1>13. MatchedAsGiven[o] \subseteq MatchedAsGiven[s]
  BY <1>10, <1>12
<1> QED
  BY <1>13 DEF s, o

LEMMA CompareKeeps == SInv /\ Compare => SInv'
<1> SUFFICES ASSUME SInv, Compare PROVE SInv'
  OBVIOUS
<1>1. /\ Flattened /\ Advance /\ UNCHANGED <<given, flatten>>
      /\ errors' = IF TermInPrior /\ "next" \notin Prior.action
                   THEN errors \cup {<<index, prior>>}
                   ELSE errors
  BY DEF Compare
<1>2. ShadedIsUnreachable'
  <2>1. CASE ~(TermInPrior /\ "next" \notin Prior.action)
    BY <1>1, <2>1, UnreachableKept DEF SInv
  <2>2. CASE TermInPrior /\ "next" \notin Prior.action
    <3>1. \A pair \in errors' : pair \in errors \/ (pair[1] = index /\ pair[2] = prior)
      BY <1>1, <2>2
    <3>2. "next" \notin given[prior].action
      <4>1. index <= Len(terms)
        BY <1>1 DEF Flattened, Comparing
      <4>2. prior \in DOMAIN given
        BY <4>1, GivenFacts DEF SInv, TermsInv
      <4>3. Alike(terms[prior], given[prior])
        BY <4>2 DEF SInv, TermsInv
      <4> QED
        BY <2>2, <4>3, AlikeFacts DEF Prior
    <3>3. ComparedSoundly(given[prior], given[index]) =>
            MatchedAsGiven[given[index]] \subseteq MatchedAsGiven[given[prior]]
      BY <1>1, <2>2, ReportedIsUnreachable
    <3>4. ShadedIsUnreachable /\ given' = given
      BY <1>1 DEF SInv
    <3> QED
      BY <3>1, <3>2, <3>3, <3>4 DEF ShadedIsUnreachable
  <2> QED
    BY <2>1, <2>2
<1> QED
  BY <1>1, <1>2, AdvanceKeeps, FlattenKept DEF SInv

LEMMA SInvStep == SInv /\ [ShadingNext]_shadingVars => SInv'
<1> SUFFICES ASSUME SInv, [ShadingNext]_shadingVars PROVE SInv'
  OBVIOUS
<1>1. CASE Refused
  BY <1>1, AdvanceKeeps, FlattenKept, UnreachableKept DEF Refused, SInv
<1>2. CASE Compare
  BY <1>2, CompareKeeps
<1>3. CASE UNCHANGED <<index, prior, errors, given, flatten>>
  BY <1>3, FlattenKept, UnreachableKept DEF SInv
<1>4. CASE Flatten
  <2>1. SplitFails => UNCHANGED <<index, prior, errors, given, flatten>>
    BY DEF SplitFails
  <2> QED
    BY <1>3, <1>4, <2>1, FlattenPlainKeeps, FlattenBeginsKeeps, SkipSideKeeps,
       FlattenSideKeeps, NextAddressKeeps, NotExcludedKeeps, SplitKeepsSInv,
       EndOfExcludesKeeps, ReturnToCallKeeps, ReturnToTermKeeps DEF Flatten
<1>5. PortFails \/ ShadingPassed => UNCHANGED <<index, prior, errors, given, flatten>>
  BY DEF PortFails, ShadingPassed
<1>6. ShadingEnded \/ UNCHANGED shadingVars => UNCHANGED <<index, prior, errors, given, flatten>>
  BY DEF ShadingEnded, shadingVars, comparison
<1> QED
  BY <1>1, <1>2, <1>3, <1>4, <1>5, <1>6 DEF ShadingNext, ShadingStep

\* The invariant of the check for shading: what flattening has left of the lists
\* of each term, and of the one it is at work on.
THEOREM SInvAlways == ShadingSpec => []SInv
<1> QED
  BY SInvInit, SInvStep, PTL DEF ShadingSpec

\* A policy is never refused for a term that could be hit, whatever its terms are
\* and in whatever order they are flattened, as far as the comparison is sound.
THEOREM ShadedUnreachable == ShadingSpec => []ShadedIsUnreachable
<1>1. SInv => ShadedIsUnreachable
  BY DEF SInv
<1> QED
  BY <1>1, SInvAlways, PTL

\* Flattening takes the excluded addresses out of a list and no others, and the
\* list that is compared is the one that is rendered, for networks of any width.
THEOREM FlattenIsReduced == ShadingSpec => []FlattenedIsReduced
<1>1. SInv => FlattenedIsReduced
  <2> SUFFICES ASSUME SInv, NEW k \in DOMAIN given, flat[k] # NONE,
                      side = "none" \/ k # flattening,
                      NEW s \in Sides
               PROVE  ListReduced(ListOf(given[k], s), ExcludesOf(given[k], s),
                                  ListOf(terms[k], s), flat[k][s])
    BY DEF FlattenedIsReduced, Sides, ListOf, ExcludesOf
  <2>1. FlatTerm(k)
    BY DEF SInv, TermsInv
  <2>2. CASE HasExcludes(given[k])
    <3>1. Over(k, s)
      BY DEF Over
    <3> QED
      BY <2>1, <2>2, <3>1 DEF FlatTerm, Reduced, ListReduced
  <2>3. CASE ~HasExcludes(given[k])
    <3>1. terms[k] = given[k] /\ flat[k] = AsWritten(given[k])
      BY <2>1, <2>3 DEF FlatTerm
    <3>2. ExcludesOf(given[k], s) = <<>>
      BY <2>3 DEF HasExcludes, ExcludesOf, Sides
    <3>3. AddressesOf(<<>>) = {}
      BY DEF AddressesOf
    <3>4. flat[k][s] = ListOf(terms[k], s)
      BY <3>1 DEF AsWritten, ListOf, Sides
    <3> QED
      BY <3>1, <3>2, <3>3, <3>4 DEF ListReduced
  <2> QED
    BY <2>2, <2>3
<1> QED
  BY <1>1, SInvAlways, PTL

-----------------------------------------------------------------------------
(* Nothing is overlooked *)

LEMMA SimpleFacts ==
  ASSUME NEW t, Simple(t)
  PROVE  /\ t.verbatim = {} /\ t.protocol_except = {}
         /\ t.address = <<>> /\ t.port = <<>>
         /\ t.address_exclude = <<>> /\ t.source_address_exclude = <<>>
         /\ t.destination_address_exclude = <<>>
         /\ t.principals = {} /\ t.source_prefix = {} /\ t.destination_prefix = {}
         /\ t.precedence = {} /\ t.option = {}
         /\ t.fragment_offset = NONE /\ t.packet_length = NONE
         /\ t.icmp_type = {} /\ t.platform = {} /\ t.platform_exclude = {}
         /\ ~HasExcludes(t)
<1> DEFINE e == [EmptyTerm EXCEPT !.action = t.action, !.protocol = t.protocol,
                   !.source_address = t.source_address,
                   !.destination_address = t.destination_address,
                   !.source_port = t.source_port, !.destination_port = t.destination_port]
<1>1. t = e
  BY DEF Simple
<1>2. \A a \in DOMAIN EmptyTerm \ {"action", "protocol", "source_address",
                                   "destination_address", "source_port",
                                   "destination_port"} : e[a] = EmptyTerm[a]
  OBVIOUS
<1> HIDE DEF e
<1>3. \A a \in {"verbatim", "protocol_except", "address", "port", "address_exclude",
               "source_address_exclude", "destination_address_exclude", "principals",
               "source_prefix", "destination_prefix", "precedence", "option",
               "fragment_offset", "packet_length", "icmp_type", "platform",
               "platform_exclude"} : t[a] = EmptyTerm[a]
  BY <1>1, <1>2, Attributes
<1>4. /\ EmptyTerm.verbatim = {} /\ EmptyTerm.protocol_except = {}
      /\ EmptyTerm.address = <<>> /\ EmptyTerm.port = <<>>
      /\ EmptyTerm.address_exclude = <<>> /\ EmptyTerm.source_address_exclude = <<>>
      /\ EmptyTerm.destination_address_exclude = <<>>
      /\ EmptyTerm.principals = {} /\ EmptyTerm.source_prefix = {}
      /\ EmptyTerm.destination_prefix = {}
      /\ EmptyTerm.precedence = {} /\ EmptyTerm.option = {}
      /\ EmptyTerm.fragment_offset = NONE /\ EmptyTerm.packet_length = NONE
      /\ EmptyTerm.icmp_type = {} /\ EmptyTerm.platform = {}
      /\ EmptyTerm.platform_exclude = {}
  BY DEF EmptyTerm
<1> QED
  BY <1>3, <1>4 DEF HasExcludes

\* What a simple term matches.
LEMMA SimpleMatches ==
  ASSUME NEW t, Simple(t), NEW p
  PROVE  Matches(t, p) <=>
           /\ t.protocol = {} \/ p.protocol \in t.protocol
           /\ t.source_address = <<>> \/ p.source \in AddressesOf(t.source_address)
           /\ t.destination_address = <<>>
                \/ p.destination \in AddressesOf(t.destination_address)
           /\ t.source_port = <<>> \/ p.source_port \in Cover(t.source_port)
           /\ t.destination_port = <<>> \/ p.destination_port \in Cover(t.destination_port)
<1>1. AddressesOf(<<>>) = {}
  BY DEF AddressesOf
<1> QED
  BY <1>1, SimpleFacts DEF Matches, Among, AmongPorts, Within

\* One side of two terms: the later one's numbers are the earlier one's.
LEMMA SideFound ==
  ASSUME NEW s \in Seq(Networks), NEW o \in Seq(Networks), NEW all, InOneEntry(s),
         AddressesOf(s) \subseteq all, AddressesOf(o) \subseteq all, AddressesOf(s) # all,
         \A a \in all : (o = <<>> \/ a \in AddressesOf(o)) =>
                          (s = <<>> \/ a \in AddressesOf(s))
  PROVE  AddressIsContained(s, o)
<1> SUFFICES ASSUME s # <<>>
             PROVE  o # <<>> /\ \A j \in DOMAIN o : \E k \in DOMAIN s : In(o[j], s[k])
  BY DEF AddressIsContained
<1>1. o # <<>>
  OBVIOUS
<1>2. ASSUME NEW j \in DOMAIN o
      PROVE  \E k \in DOMAIN s : In(o[j], s[k])
  <2>1. o[j] \in Networks
    OBVIOUS
  <2>2. Numbers(o[j]) \subseteq AddressesOf(s)
    BY NumbersOfLists
  <2> QED
    BY <2>1, <2>2 DEF InOneEntry
<1> QED
  BY <1>1, <1>2

LEMMA PortsFound ==
  ASSUME NEW s \in Seq(Int \X Int), NEW o \in Seq(Int \X Int), NEW all,
         PortsInOneEntry(s), PortsInOneEntry(o),
         Cover(s) \subseteq all, Cover(o) \subseteq all, Cover(s) # all,
         \A a \in all : (o = <<>> \/ a \in Cover(o)) => (s = <<>> \/ a \in Cover(s))
  PROVE  PortIsContained(s, o)
<1> SUFFICES ASSUME s # <<>>
             PROVE  o # <<>> /\ \A j \in DOMAIN o : \E k \in DOMAIN s :
                                  s[k][1] <= o[j][1] /\ o[j][2] <= s[k][2]
  BY DEF PortIsContained
<1>1. o # <<>>
  OBVIOUS
<1>2. ASSUME NEW j \in DOMAIN o
      PROVE  \E k \in DOMAIN s : s[k][1] <= o[j][1] /\ o[j][2] <= s[k][2]
  <2>1. o[j] \in Int \X Int /\ o[j][1] <= o[j][2]
    BY DEF PortsInOneEntry
  <2>2. Span(o[j]) \subseteq Cover(o)
    BY DEF Cover
  <2>3. Span(o[j]) \subseteq Cover(s)
    BY <1>1, <2>2
  <2>4. o[j][1] \in Span(o[j]) /\ o[j][2] \in Span(o[j])
    BY <2>1 DEF Span
  <2>5. o[j][1] \in Cover(s) /\ o[j][2] \in Cover(s)
    BY <2>3, <2>4
  <2>6. o[j][1]..o[j][2] \subseteq Cover(s)
    BY <2>3 DEF Span
  <2> QED
    BY <2>5, <2>6 DEF PortsInOneEntry
<1> QED
  BY <1>1, <1>2

\* A list without entries is the only one without numbers or ports.
LEMMA SomeNumber ==
  ASSUME NEW l \in Seq(Networks), l # <<>>
  PROVE  AddressesOf(l) # {}
<1>1. 1 \in DOMAIN l /\ l[1] \in Networks
  BY EmptySeq
<1>2. <<l[1].version, l[1].first>> \in Numbers(l[1])
  BY <1>1, NumbersAre
<1> QED
  BY <1>1, <1>2, NumbersOfLists

LEMMA SomePort ==
  ASSUME NEW l \in Seq(Int \X Int), l # <<>>, PortsInOneEntry(l)
  PROVE  Cover(l) # {}
<1>1. 1 \in DOMAIN l /\ l[1] \in Int \X Int /\ l[1][1] <= l[1][2]
  BY EmptySeq DEF PortsInOneEntry
<1>2. l[1][1] \in Span(l[1])
  BY <1>1 DEF Span
<1> QED
  BY <1>1, <1>2 DEF Cover

\* A simple term matches some packet, and parts of those it matches combine.
LEMMA SimpleParts ==
  ASSUME NEW f \in TermLists, NEW j \in DOMAIN f, NEW k \in DOMAIN f,
         Simple(f[j]), Simple(f[k]), MatchedAsGiven[f[j]] \subseteq MatchedAsGiven[f[k]]
  PROVE  LET o == f[j]
             s == f[k] IN
         /\ \A a \in Occurring.protocol :
              (o.protocol = {} \/ a \in o.protocol) => (s.protocol = {} \/ a \in s.protocol)
         /\ \A a \in Occurring.source :
              (o.source_address = <<>> \/ a \in AddressesOf(o.source_address)) =>
                (s.source_address = <<>> \/ a \in AddressesOf(s.source_address))
         /\ \A a \in Occurring.destination :
              (o.destination_address = <<>> \/ a \in AddressesOf(o.destination_address)) =>
                (s.destination_address = <<>> \/ a \in AddressesOf(s.destination_address))
         /\ \A a \in Occurring.source_port :
              (o.source_port = <<>> \/ a \in Cover(o.source_port)) =>
                (s.source_port = <<>> \/ a \in Cover(s.source_port))
         /\ \A a \in Occurring.destination_port :
              (o.destination_port = <<>> \/ a \in Cover(o.destination_port)) =>
                (s.destination_port = <<>> \/ a \in Cover(s.destination_port))
<1> DEFINE o == f[j]
           s == f[k]
           PR == Occurring.protocol
           SO == Occurring.source
           DE == Occurring.destination
           SP == Occurring.source_port
           DP == Occurring.destination_port
           OPR(a) == o.protocol = {} \/ a \in o.protocol
           OSO(a) == o.source_address = <<>> \/ a \in AddressesOf(o.source_address)
           ODE(a) == o.destination_address = <<>> \/ a \in AddressesOf(o.destination_address)
           OSP(a) == o.source_port = <<>> \/ a \in Cover(o.source_port)
           ODP(a) == o.destination_port = <<>> \/ a \in Cover(o.destination_port)
           SPR(a) == s.protocol = {} \/ a \in s.protocol
           SSO(a) == s.source_address = <<>> \/ a \in AddressesOf(s.source_address)
           SDE(a) == s.destination_address = <<>> \/ a \in AddressesOf(s.destination_address)
           SSP(a) == s.source_port = <<>> \/ a \in Cover(s.source_port)
           SDP(a) == s.destination_port = <<>> \/ a \in Cover(s.destination_port)
<1>1. o \in ToSet(f) /\ s \in ToSet(f)
  BY DEF ToSet
<1>2. /\ o.protocol \subseteq PR
      /\ AddressesOf(o.source_address) \subseteq SO
      /\ AddressesOf(o.destination_address) \subseteq DE
      /\ Cover(o.source_port) \subseteq SP
      /\ Cover(o.destination_port) \subseteq DP
  BY ShadingAssumption DEF ListedInPackets
<1>3. /\ o.protocol # PR
      /\ AddressesOf(o.source_address) # SO
      /\ AddressesOf(o.destination_address) # DE
      /\ Cover(o.source_port) # SP
      /\ Cover(o.destination_port) # DP
      /\ PortsInOneEntry(o.source_port) /\ PortsInOneEntry(o.destination_port)
  BY DEF Simple
<1>4. /\ o.source_address \in Seq(Networks) /\ o.destination_address \in Seq(Networks)
      /\ o.source_port \in Seq(Int \X Int) /\ o.destination_port \in Seq(Int \X Int)
  BY ShadingAssumption DEF ListedAs
<1>5. ASSUME NEW p
      PROVE  /\ Matches(o, p) <=> /\ OPR(p.protocol) /\ OSO(p.source) /\ ODE(p.destination)
                                  /\ OSP(p.source_port) /\ ODP(p.destination_port)
             /\ Matches(s, p) <=> /\ SPR(p.protocol) /\ SSO(p.source) /\ SDE(p.destination)
                                  /\ SSP(p.source_port) /\ SDP(p.destination_port)
  <2> HIDE DEF o, s
  <2>1. Simple(o) /\ Simple(s)
    BY DEF o, s
  <2> QED
    BY <2>1, SimpleMatches
<1>6. ASSUME NEW p \in Packets, Matches(o, p)
      PROVE  Matches(s, p)
  <2>1. o \in UNION {ToSet(g) : g \in TermLists} /\ s \in UNION {ToSet(g) : g \in TermLists}
    BY <1>1
  <2>2. MatchedAsGiven[o] \subseteq MatchedAsGiven[s]
    OBVIOUS
  <2> HIDE DEF o, s
  <2>3. /\ MatchedAsGiven[o] = {q \in Packets : Matches(o, q)}
        /\ MatchedAsGiven[s] = {q \in Packets : Matches(s, q)}
    BY <2>1 DEF MatchedAsGiven
  <2> QED
    BY <1>6, <2>2, <2>3
<1>7. PICK pr \in PR : OPR(pr)
  BY <1>2, <1>3
<1>8. PICK so \in SO : OSO(so)
  <2>1. o.source_address # <<>> => AddressesOf(o.source_address) # {}
    BY <1>4, SomeNumber
  <2> HIDE DEF o, SO
  <2> QED
    BY <1>2, <1>3, <2>1
<1>9. PICK de \in DE : ODE(de)
  <2>1. o.destination_address # <<>> => AddressesOf(o.destination_address) # {}
    BY <1>4, SomeNumber
  <2> HIDE DEF o, DE
  <2> QED
    BY <1>2, <1>3, <2>1
<1>10. PICK sp \in SP : OSP(sp)
  <2>1. o.source_port # <<>> => Cover(o.source_port) # {}
    BY <1>3, <1>4, SomePort
  <2> HIDE DEF o, SP
  <2> QED
    BY <1>2, <1>3, <2>1
<1>11. PICK dp \in DP : ODP(dp)
  <2>1. o.destination_port # <<>> => Cover(o.destination_port) # {}
    BY <1>3, <1>4, SomePort
  <2> HIDE DEF o, DP
  <2> QED
    BY <1>2, <1>3, <2>1
<1>12. ASSUME NEW a \in PR, NEW b \in SO, NEW c \in DE, NEW d \in SP, NEW e \in DP
       PROVE  \E p \in Packets :
                /\ p.protocol = a /\ p.source = b /\ p.destination = c
                /\ p.source_port = d /\ p.destination_port = e
  <2>1. PartsCombine
    BY ShadingAssumption
  <2> HIDE DEF o, s
  <2> QED
    BY <2>1, SMT DEF PartsCombine
<1> HIDE DEF o, s, PR, SO, DE, SP, DP, OPR, OSO, ODE, OSP, ODP, SPR, SSO, SDE, SSP, SDP
<1>13. ASSUME NEW a \in PR, NEW b \in SO, NEW c \in DE, NEW d \in SP, NEW e \in DP,
              OPR(a), OSO(b), ODE(c), OSP(d), ODP(e)
       PROVE  SPR(a) /\ SSO(b) /\ SDE(c) /\ SSP(d) /\ SDP(e)
  <2>1. PICK p \in Packets :
          /\ p.protocol = a /\ p.source = b /\ p.destination = c
          /\ p.source_port = d /\ p.destination_port = e
    BY <1>12
  <2>2. Matches(o, p)
    BY <1>5, <1>13, <2>1
  <2>3. Matches(s, p)
    BY <1>6, <2>2
  <2> QED
    BY <1>5, <2>1, <2>3
<1>14. /\ \A a \in PR : OPR(a) => SPR(a)
       /\ \A a \in SO : OSO(a) => SSO(a)
       /\ \A a \in DE : ODE(a) => SDE(a)
       /\ \A a \in SP : OSP(a) => SSP(a)
       /\ \A a \in DP : ODP(a) => SDP(a)
  BY <1>7, <1>8, <1>9, <1>10, <1>11, <1>13
<1> QED
  BY <1>14 DEF o, s, PR, SO, DE, SP, DP, OPR, OSO, ODE, OSP, ODP, SPR, SSO, SDE, SSP, SDP

\* What only simple terms are sure of: Term.__contains__ finds it.
LEMMA ContainedIfLess ==
  ASSUME NEW f \in TermLists, NEW j \in DOMAIN f, NEW k \in DOMAIN f,
         SimplePair(f[k], f[j]), MatchedAsGiven[f[j]] \subseteq MatchedAsGiven[f[k]]
  PROVE  Contained(f[k], f[j], AsWritten(f[k]), AsWritten(f[j]))
<1> DEFINE o == f[j]
           s == f[k]
           PR == Occurring.protocol
           SO == Occurring.source
           DE == Occurring.destination
           SP == Occurring.source_port
           DP == Occurring.destination_port
<1>2. \A t \in {o, s} :
        /\ t.protocol \subseteq PR
        /\ AddressesOf(t.source_address) \subseteq SO
        /\ AddressesOf(t.destination_address) \subseteq DE
        /\ Cover(t.source_port) \subseteq SP
        /\ Cover(t.destination_port) \subseteq DP
  BY ShadingAssumption DEF ListedInPackets
<1>3. \A t \in {o, s} :
        /\ t.protocol # PR
        /\ AddressesOf(t.source_address) # SO
        /\ AddressesOf(t.destination_address) # DE
        /\ Cover(t.source_port) # SP
        /\ Cover(t.destination_port) # DP
        /\ InOneEntry(t.source_address) /\ InOneEntry(t.destination_address)
        /\ PortsInOneEntry(t.source_port) /\ PortsInOneEntry(t.destination_port)
  BY DEF Simple, SimplePair
<1>4. \A t \in {o, s} :
        /\ t.source_address \in Seq(Networks) /\ t.destination_address \in Seq(Networks)
        /\ t.source_port \in Seq(Int \X Int) /\ t.destination_port \in Seq(Int \X Int)
  BY ShadingAssumption DEF ListedAs
<1>5. /\ \A a \in PR : (o.protocol = {} \/ a \in o.protocol) =>
                         (s.protocol = {} \/ a \in s.protocol)
      /\ \A a \in SO : (o.source_address = <<>> \/ a \in AddressesOf(o.source_address)) =>
                         (s.source_address = <<>> \/ a \in AddressesOf(s.source_address))
      /\ \A a \in DE :
           (o.destination_address = <<>> \/ a \in AddressesOf(o.destination_address)) =>
             (s.destination_address = <<>> \/ a \in AddressesOf(s.destination_address))
      /\ \A a \in SP : (o.source_port = <<>> \/ a \in Cover(o.source_port)) =>
                         (s.source_port = <<>> \/ a \in Cover(s.source_port))
      /\ \A a \in DP : (o.destination_port = <<>> \/ a \in Cover(o.destination_port)) =>
                         (s.destination_port = <<>> \/ a \in Cover(s.destination_port))
  BY SimpleParts DEF SimplePair
<1>6. Simple(o) /\ Simple(s) /\ s.protocol \subseteq o.protocol
  BY DEF SimplePair
<1> HIDE DEF o, s, PR, SO, DE, SP, DP
<1>7. AddressIsContained(s.source_address, o.source_address)
  BY <1>2, <1>3, <1>4, <1>5, SideFound
<1>8. AddressIsContained(s.destination_address, o.destination_address)
  BY <1>2, <1>3, <1>4, <1>5, SideFound
<1>9. PortIsContained(s.source_port, o.source_port)
  BY <1>2, <1>3, <1>4, <1>5, PortsFound
<1>10. PortIsContained(s.destination_port, o.destination_port)
  BY <1>2, <1>3, <1>4, <1>5, PortsFound
<1>11. s.protocol # {} => o.protocol # {} /\ s.protocol \subseteq o.protocol
  BY <1>6
<1>12. ProtocolsAllow(s, o)
  BY <1>6, <1>11, SimpleFacts DEF ProtocolsAllow, VerbatimAgrees, ProtocolContained
<1>13. AddressContained(AsWritten(s), AsWritten(o))
  <2>1. s.address = <<>> /\ o.address = <<>>
    BY <1>6, SimpleFacts
  <2>2. AddressIsContained(<<>>, <<>>) /\ \A l : AddressIsContained(<<>>, l)
    BY DEF AddressIsContained
  <2> QED
    BY <1>7, <1>8, <2>1, <2>2 DEF AddressContained, AsWritten
<1>14. PrincipalsContained(s, o)
  BY <1>6, SimpleFacts DEF PrincipalsContained
<1>15. OptionsContained(s, o)
  BY <1>6, SimpleFacts DEF OptionsContained, SetContained, RangeContained
<1>16. s.port = <<>>
  BY <1>6, SimpleFacts
<1>17. Contained(s, o, AsWritten(s), AsWritten(o))
  BY <1>9, <1>10, <1>12, <1>13, <1>14, <1>15, <1>16 DEF Contained, PortContained
<1> QED
  BY <1>17 DEF o, s

\* The pairs of simple terms that have been compared: a later term that matches
\* nothing else is among the errors.
Compared(j, k) == j < index \/ (j = index /\ k < prior)

Found ==
  /\ \A j \in DOMAIN given, k \in DOMAIN given :
       (/\ k < j /\ Compared(j, k)
        /\ SimplePair(given[k], given[j])
        /\ "next" \notin given[k].action
        /\ MatchedAsGiven[given[j]] \subseteq MatchedAsGiven[given[k]]) =>
          <<j, k>> \in errors
  /\ outcome = "passed" => errors = {} /\ index > Len(given)

LEMMA FoundInit == ShadingInit => Found
<1> SUFFICES ASSUME ShadingInit PROVE Found
  OBVIOUS
<1>1. DOMAIN given = 1..Len(given) /\ Len(given) \in Nat
  BY GivenFacts DEF ShadingInit
<1> QED
  BY <1>1 DEF ShadingInit, Found, Compared

\* One pair has been compared, and its terms are reported if they should be.
LEMMA FoundAdvances ==
  ASSUME SInv, Found, Comparing, Advance, UNCHANGED <<outcome, given>>,
         errors \subseteq errors',
         (/\ SimplePair(given[prior], given[index])
          /\ "next" \notin given[prior].action
          /\ MatchedAsGiven[given[index]] \subseteq MatchedAsGiven[given[prior]]) =>
            <<index, prior>> \in errors'
  PROVE  Found'
<1>1. /\ index \in Nat \ {0} /\ prior \in 1..(index - 1)
      /\ DOMAIN given = 1..Len(given) /\ Len(given) \in Nat
  BY GivenFacts DEF SInv
<1>2. outcome' # "passed"
  BY DEF Comparing
<1>3. ASSUME NEW j \in DOMAIN given, NEW k \in DOMAIN given, k < j, Compared(j, k)'
      PROVE  Compared(j, k) \/ (j = index /\ k = prior)
  <2>1. CASE prior + 1 < index
    <3>1. prior' = prior + 1 /\ index' = index
      BY <2>1 DEF Advance
    <3> QED
      BY <1>1, <1>3, <3>1 DEF Compared
  <2>2. CASE ~(prior + 1 < index)
    <3>1. index' = index + 1 /\ prior' = 1
      BY <2>2 DEF Advance
    <3> QED
      BY <1>1, <1>3, <2>2, <3>1 DEF Compared
  <2> QED
    BY <2>1, <2>2
<1>4. ASSUME NEW j \in DOMAIN given, NEW k \in DOMAIN given, k < j, Compared(j, k)',
             SimplePair(given[k], given[j]), "next" \notin given[k].action,
             MatchedAsGiven[given[j]] \subseteq MatchedAsGiven[given[k]]
      PROVE  <<j, k>> \in errors'
  <2>1. CASE Compared(j, k)
    BY <1>4, <2>1 DEF Found
  <2>2. CASE j = index /\ k = prior
    BY <1>4, <2>2
  <2> QED
    BY <1>3, <1>4, <2>1, <2>2
<1> QED
  BY <1>2, <1>4 DEF Found

LEMMA FoundStep == SInv /\ Found /\ [ShadingNext]_shadingVars => Found'
<1> SUFFICES ASSUME SInv, Found, [ShadingNext]_shadingVars PROVE Found'
  OBVIOUS
<1> DEFINE Same == UNCHANGED <<index, prior, errors, given>>
<1>1. ASSUME Same, outcome' = outcome \/ outcome' # "passed"
      PROVE  Found'
  BY <1>1 DEF Found, Compared
<1>2. ASSUME Comparing
      PROVE  LET o == given[index]
                 s == given[prior] IN
             /\ index \in DOMAIN given /\ prior \in DOMAIN given
             /\ Alike(terms[prior], s) /\ Alike(terms[index], o)
             /\ (/\ SimplePair(s, o)
                 /\ MatchedAsGiven[o] \subseteq MatchedAsGiven[s]) =>
                   /\ ProtocolsAllow(Prior, Later)
                   /\ flat[prior] # NONE /\ flat[index] # NONE => TermInPrior
  <2> DEFINE o == given[index]
             s == given[prior]
  <2>1. index <= Len(terms) /\ side = "none"
    BY <1>2 DEF Comparing
  <2>2. index \in DOMAIN given /\ prior \in DOMAIN given
    BY <2>1, GivenFacts DEF SInv, TermsInv
  <2>3. Alike(terms[prior], s) /\ Alike(terms[index], o)
    BY <2>2 DEF SInv, TermsInv
  <2>4. ASSUME SimplePair(s, o), MatchedAsGiven[o] \subseteq MatchedAsGiven[s]
        PROVE  /\ ProtocolsAllow(Prior, Later)
               /\ flat[prior] # NONE /\ flat[index] # NONE => TermInPrior
    <3>1. Contained(s, o, AsWritten(s), AsWritten(o))
      BY <2>2, <2>4, ContainedIfLess DEF SInv
    <3>2. Contained(Prior, Later, AsWritten(s), AsWritten(o))
      BY <2>3, <3>1, ContainedAsGiven DEF Prior, Later
    <3>3. ~HasExcludes(s) /\ ~HasExcludes(o)
      BY <2>4, SimpleFacts DEF SimplePair
    <3>4. /\ flat[prior] # NONE => flat[prior] = AsWritten(s)
          /\ flat[index] # NONE => flat[index] = AsWritten(o)
      BY <2>2, <3>3 DEF SInv, TermsInv, FlatTerm
    <3> QED
      BY <3>2, <3>4 DEF Contained, TermInPrior
  <2> QED
    BY <2>2, <2>3, <2>4
<1>3. CASE Refused
  <2>1. Comparing /\ Advance /\ UNCHANGED <<errors, outcome, given>>
          /\ ~ProtocolsAllow(Prior, Later)
    BY <1>3 DEF Refused
  <2> QED
    BY <1>2, <2>1, FoundAdvances
<1>4. CASE Compare
  <2>1. /\ Comparing /\ Advance /\ UNCHANGED <<outcome, given>>
        /\ flat[prior] # NONE /\ flat[index] # NONE
        /\ errors' = IF TermInPrior /\ "next" \notin Prior.action
                     THEN errors \cup {<<index, prior>>}
                     ELSE errors
    BY <1>4 DEF Compare, Flattened
  <2>2. Prior.action = given[prior].action
    BY <1>2, <2>1, AlikeFacts DEF Prior
  <2>3. errors \subseteq errors'
    BY <2>1
  <2> QED
    BY <1>2, <2>1, <2>2, <2>3, FoundAdvances
<1>5. CASE ShadingPassed
  <2>1. /\ Same /\ index > Len(terms)
        /\ outcome' = IF errors = {} THEN "passed" ELSE "ShadingError"
    BY <1>5 DEF ShadingPassed
  <2>2. Len(terms) = Len(given)
    BY DEF SInv, TermsInv
  <2> QED
    BY <2>1, <2>2 DEF Found, Compared
<1>6. CASE PortFails
  BY <1>1, <1>6 DEF PortFails
<1>7. CASE Flatten
  <2>1. Same /\ (outcome' = outcome \/ outcome' # "passed")
    BY <1>7 DEF Flatten, comparison, FlattenPlain, FlattenBegins, SkipSide, FlattenSide,
       InCall, NextAddress, NotExcluded, Split, SplitFails, EndOfExcludes,
       ReturnToCall, ReturnToTerm
  <2> QED
    BY <1>1, <2>1
<1>8. CASE ShadingEnded \/ UNCHANGED shadingVars
  BY <1>1, <1>8 DEF ShadingEnded, shadingVars, comparison
<1> QED
  BY <1>3, <1>4, <1>5, <1>6, <1>7, <1>8 DEF ShadingNext, ShadingStep

\* A check that passes has overlooked nothing: it has compared every two terms,
\* and of two simple ones it is sure, for filters of any length.
THEOREM ShadedFound == ShadingSpec => []ShadedIsFound
<1>1. SInv /\ Found => ShadedIsFound
  <2> SUFFICES ASSUME SInv, Found, outcome = "passed",
                      NEW j \in DOMAIN given, NEW k \in DOMAIN given, k < j,
                      SimplePair(given[k], given[j]), "next" \notin given[k].action,
                      MatchedAsGiven[given[j]] \subseteq MatchedAsGiven[given[k]]
               PROVE  FALSE
    BY DEF ShadedIsFound
  <2>1. errors = {} /\ index > Len(given)
    BY DEF Found
  <2>2. DOMAIN given = 1..Len(given) /\ Len(given) \in Nat /\ index \in Nat
    BY GivenFacts DEF SInv
  <2>3. Compared(j, k)
    BY <2>1, <2>2 DEF Compared
  <2> QED
    BY <2>1, <2>3 DEF Found
<1> QED
  BY <1>1, FoundInit, FoundStep, SInvAlways, PTL DEF ShadingSpec

-----------------------------------------------------------------------------
(* Ports: what a collapsed list is for *)

\* Between any two steps, what a pass has kept and what it has not reached yet
\* are together the ports of the term: no branch loses or adds one.
PassKeepsPorts ==
  stage = "collapsing" => Cover(ret_ports) \cup Cover(ports_left) = Cover(asked_ports)

\* The lower ends of a list are in order.
Ordered(l) == \A j, k \in DOMAIN l : j < k => l[j][1] <= l[k][1]

-----------------------------------------------------------------------------
(* Lists and their ports *)

LEMMA RangeType ==
  ASSUME NEW r \in PortRange
  PROVE  r[1] \in Int /\ r[2] \in Int /\ r = <<r[1], r[2]>>
BY DEF PortRange

LEMMA CoverOfTail ==
  ASSUME NEW l \in Seq(PortRange), l # <<>>
  PROVE  /\ Head(l) \in PortRange
         /\ Tail(l) \in Seq(PortRange)
         /\ Cover(l) = Span(Head(l)) \cup Cover(Tail(l))
<1>1. /\ Head(l) = l[1] /\ Tail(l) \in Seq(PortRange)
      /\ Len(Tail(l)) = Len(l) - 1 /\ Len(l) \in Nat /\ Len(l) > 0
      /\ \A k \in 1..(Len(l) - 1) : Tail(l)[k] = l[k + 1]
  BY HeadTailProperties, EmptySeq
<1>2. DOMAIN l = {1} \cup {k + 1 : k \in 1..(Len(l) - 1)}
  BY <1>1, LenProperties
<1>3. DOMAIN Tail(l) = 1..(Len(l) - 1)
  BY <1>1, LenProperties
<1>4. Cover(l) \subseteq Span(l[1]) \cup Cover(Tail(l))
  <2> SUFFICES ASSUME NEW x \in Cover(l) PROVE x \in Span(l[1]) \cup Cover(Tail(l))
    OBVIOUS
  <2>1. PICK k \in DOMAIN l : x \in Span(l[k])
    BY DEF Cover
  <2>2. CASE k = 1
    BY <2>1, <2>2
  <2>3. CASE k # 1
    <3>1. k - 1 \in DOMAIN Tail(l) /\ Tail(l)[k - 1] = l[k]
      BY <1>1, <1>2, <1>3, <2>3
    <3> QED BY <2>1, <3>1 DEF Cover
  <2> QED BY <2>2, <2>3
<1>5. Span(l[1]) \subseteq Cover(l)
  BY <1>2 DEF Cover
<1>6. Cover(Tail(l)) \subseteq Cover(l)
  <2> SUFFICES ASSUME NEW x \in Cover(Tail(l)) PROVE x \in Cover(l)
    OBVIOUS
  <2>1. PICK k \in DOMAIN Tail(l) : x \in Span(Tail(l)[k])
    BY DEF Cover
  <2>2. k + 1 \in DOMAIN l /\ l[k + 1] = Tail(l)[k]
    BY <1>1, <1>2, <1>3
  <2> QED BY <2>1, <2>2 DEF Cover
<1>7. l[1] \in PortRange
  BY <1>2, ElementOfSeq, <1>1
<1> QED BY <1>1, <1>4, <1>5, <1>6, <1>7

LEMMA CoverOfAppend ==
  ASSUME NEW l \in Seq(PortRange), NEW r \in PortRange
  PROVE  /\ Append(l, r) \in Seq(PortRange)
         /\ Cover(Append(l, r)) = Cover(l) \cup Span(r)
<1>1. /\ Append(l, r) \in Seq(PortRange)
      /\ Len(Append(l, r)) = Len(l) + 1 /\ Len(l) \in Nat
      /\ \A k \in 1..Len(l) : Append(l, r)[k] = l[k]
      /\ Append(l, r)[Len(l) + 1] = r
  BY AppendProperties, LenProperties
<1>2. DOMAIN Append(l, r) = DOMAIN l \cup {Len(l) + 1} /\ DOMAIN l = 1..Len(l)
  BY <1>1, LenProperties
<1>3. \A x : x \in Cover(Append(l, r)) <=> x \in Cover(l) \/ x \in Span(r)
  <2> TAKE x
  <2>1. x \in Cover(Append(l, r))
          <=> \E k \in DOMAIN Append(l, r) : x \in Span(Append(l, r)[k])
    BY DEF Cover
  <2>2. x \in Cover(l) <=> \E k \in DOMAIN l : x \in Span(l[k])
    BY DEF Cover
  <2> QED BY <1>1, <1>2, <2>1, <2>2
<1> QED BY <1>1, <1>3

LEMMA CoverOfExtension ==
  ASSUME NEW l \in Seq(PortRange), l # <<>>, NEW r \in PortRange,
         Span(l[Len(l)]) \subseteq Span(r)
  PROVE  /\ [l EXCEPT ![Len(l)] = r] \in Seq(PortRange)
         /\ Cover([l EXCEPT ![Len(l)] = r]) = Cover(l) \cup Span(r)
<1> DEFINE e == [l EXCEPT ![Len(l)] = r]
<1>1. Len(l) \in DOMAIN l /\ DOMAIN l = 1..Len(l)
  BY LenProperties, EmptySeq
<1>2. /\ e \in Seq(PortRange) /\ DOMAIN e = DOMAIN l /\ e[Len(l)] = r
      /\ \A k \in DOMAIN l : k # Len(l) => e[k] = l[k]
  BY <1>1, ExceptSeq
<1> HIDE DEF e
<1>3. \A x : x \in Cover(e) <=> x \in Cover(l) \/ x \in Span(r)
  <2> TAKE x
  <2>1. x \in Cover(e) <=> \E k \in DOMAIN e : x \in Span(e[k])
    BY DEF Cover
  <2>2. x \in Cover(l) <=> \E k \in DOMAIN l : x \in Span(l[k])
    BY DEF Cover
  <2> QED BY <1>1, <1>2, <2>1, <2>2
<1>4. Cover(e) = Cover(l) \cup Span(r)
  BY <1>3
<1> QED BY <1>2, <1>4 DEF e

LEMMA CoverOfSorting ==
  ASSUME NEW l \in Seq(PortRange), NEW p \in Sorting(l)
  PROVE  /\ [k \in DOMAIN l |-> l[p[k]]] \in Seq(PortRange)
         /\ Cover([k \in DOMAIN l |-> l[p[k]]]) = Cover(l)
         /\ Ordered([k \in DOMAIN l |-> l[p[k]]])
<1> DEFINE s == [k \in DOMAIN l |-> l[p[k]]]
<1>1. /\ p \in [DOMAIN l -> DOMAIN l]
      /\ \A k \in DOMAIN l : \E j \in DOMAIN l : p[j] = k
      /\ \A j, k \in DOMAIN l : j < k => PortPrecedes(l[p[j]], l[p[k]])
  BY DEF Sorting, Bijection, Injection, Surjection
<1>2. \A k \in DOMAIN l : l[k] \in PortRange
  BY ElementOfSeq, LenProperties
<1>3. s \in Seq(PortRange) /\ DOMAIN s = DOMAIN l
  <2>1. DOMAIN l = 1..Len(l) /\ Len(l) \in Nat
    BY LenProperties
  <2>2. s \in [1..Len(l) -> PortRange]
    BY <1>1, <1>2, <2>1
  <2> QED BY <2>1, <2>2, SeqDef
<1>4. \A x : x \in Cover(s) <=> x \in Cover(l)
  <2> TAKE x
  <2>1. x \in Cover(s) <=> \E k \in DOMAIN s : x \in Span(s[k])
    BY DEF Cover
  <2>2. x \in Cover(l) <=> \E k \in DOMAIN l : x \in Span(l[k])
    BY DEF Cover
  <2> QED BY <1>1, <1>3, <2>1, <2>2
<1>5. Ordered(s)
  <2> SUFFICES ASSUME NEW j \in DOMAIN l, NEW k \in DOMAIN l, j < k
               PROVE  l[p[j]][1] <= l[p[k]][1]
    BY <1>3 DEF Ordered
  <2>1. PortPrecedes(l[p[j]], l[p[k]])
    BY <1>1
  <2>2. p[j] \in DOMAIN l /\ p[k] \in DOMAIN l
    BY <1>1
  <2>3. l[p[j]] \in PortRange /\ l[p[k]] \in PortRange
    BY <1>2, <2>2
  <2>4. \/ l[p[j]][1] < l[p[k]][1]
        \/ l[p[j]][1] = l[p[k]][1]
    BY <2>1, Zenon DEF PortPrecedes
  <2>5. l[p[j]][1] \in Int /\ l[p[k]][1] \in Int
    BY <2>3, RangeType, Zenon
  <2> QED BY <2>4, <2>5
<1> QED BY <1>3, <1>4, <1>5

-----------------------------------------------------------------------------
(* A turn of the loop joins two ranges only where nothing is lost *)

\* (10, 20) and (15, 30), or (21, 30): the ports of the range that is made.
LEMMA SpanOfJoin ==
  ASSUME NEW p \in PortRange, NEW q \in PortRange, p[1] <= q[1],
         p[2] < q[2], q[1] < p[2] \/ p[2] + 1 = q[1]
  PROVE  /\ <<p[1], q[2]>> \in PortRange
         /\ Span(<<p[1], q[2]>>) = Span(p) \cup Span(q)
<1>1. p[1] \in Int /\ p[2] \in Int /\ q[1] \in Int /\ q[2] \in Int
  BY RangeType
<1>2. \A x \in Int : p[1] <= x /\ x <= q[2]
                    <=> (p[1] <= x /\ x <= p[2]) \/ (q[1] <= x /\ x <= q[2])
  BY <1>1
<1>3. <<p[1], q[2]>>[1] = p[1] /\ <<p[1], q[2]>>[2] = q[2]
  OBVIOUS
<1> QED BY <1>1, <1>2, <1>3 DEF Span, PortRange

\* (10, 20) and (12, 13): the range that is dropped adds no port.
LEMMA SpanOfSwallowed ==
  ASSUME NEW p \in PortRange, NEW q \in PortRange, p[1] <= q[1], p[2] >= q[2]
  PROVE  Span(q) \subseteq Span(p)
BY RangeType DEF Span

LEMMA SpanOfLast ==
  ASSUME NEW l \in Seq(PortRange), l # <<>>
  PROVE  /\ l[Len(l)] \in PortRange
         /\ Len(l) \in DOMAIN l
         /\ Span(l[Len(l)]) \subseteq Cover(l)
<1>1. Len(l) \in DOMAIN l
  BY LenProperties, EmptySeq
<1> QED BY <1>1, ElementOfSeq, LenProperties DEF Cover

-----------------------------------------------------------------------------
(* The ports are kept *)

\* No range still to come starts before one that was kept.
PortsInOrder ==
  /\ Ordered(ports_left)
  /\ Ordered(ret_ports)
  /\ \A j \in DOMAIN ret_ports, k \in DOMAIN ports_left : ret_ports[j][1] <= ports_left[k][1]

\* The inductive invariant of the loop.
PortsKept ==
  /\ stage \in {"translated", "fixing", "collapsed"} => Cover(ports) = Cover(asked_ports)
  /\ stage = "collapsing" => PortsInOrder /\ Cover(ret_ports) \cup Cover(ports_left) = Cover(asked_ports)

LEMMA PortTypeInit == PortInit => PortTypes
<1> SUFFICES ASSUME PortInit PROVE PortTypes
  OBVIOUS
<1>1. ports \in Seq(PortRange)
  BY PortAssumption DEF PortInit
<1>2. <<>> \in Seq(PortRange)
  OBVIOUS
<1> QED BY <1>1, <1>2 DEF PortInit, PortTypes

LEMMA PortTypeStep == PortTypes /\ [PortNext]_portVars => PortTypes'
<1> SUFFICES ASSUME PortTypes, [PortNext]_portVars PROVE PortTypes'
  OBVIOUS
<1> USE DEF PortTypes
<1>0. <<>> \in Seq(PortRange)
  OBVIOUS
<1>1. CASE CollapsePorts
  <2>1. PICK p \in Sorting(ports) : StartPortPass([k \in DOMAIN ports |-> ports[p[k]]])
    BY <1>1 DEF CollapsePorts
  <2>2. ports_left' \in Seq(PortRange)
    BY <2>1, CoverOfSorting DEF StartPortPass
  <2>3. /\ stage' = "collapsing" /\ ret_ports' = <<>> /\ changed' = FALSE
        /\ passes' = passes + 1
    BY <2>1 DEF StartPortPass
  <2>4. passes' \in Nat /\ UNCHANGED <<ports, mod, asked_ports>>
    BY <1>1, <2>3 DEF CollapsePorts
  <2> QED BY <1>0, <2>2, <2>3, <2>4
<1>2. CASE NothingToCollapse
  BY <1>2 DEF NothingToCollapse
<1>3. ASSUME PortTurn PROVE Port \in PortRange /\ ports_left' \in Seq(PortRange)
  BY <1>3, CoverOfTail DEF PortTurn, Port
<1>4. ASSUME PortTurn, Keep PROVE PortTypes'
  <2>1. ret_ports' \in Seq(PortRange)
    BY <1>3, <1>4, CoverOfAppend DEF Keep
  <2> QED BY <1>3, <1>4, <2>1 DEF PortTurn, Keep
<1>5. ASSUME PortTurn, Extend, ret_ports # <<>> PROVE PortTypes'
  <2>1. ret_ports[Len(ret_ports)][1] \in Int /\ Port[2] \in Int
    BY <1>3, <1>5, SpanOfLast, RangeType
  <2>2. ret_ports' \in Seq(PortRange)
    BY <1>5, <2>1, SpanOfLast, ExceptSeq DEF Extend, PortRange
  <2> QED BY <1>3, <1>5, <2>2 DEF PortTurn, Extend
<1>6. CASE FirstPort
  BY <1>4, <1>6 DEF FirstPort
<1>7. CASE Swallow
  BY <1>3, <1>7 DEF Swallow, PortTurn
<1>8. CASE Overlap
  BY <1>5, <1>8 DEF Overlap
<1>9. CASE Adjoin
  BY <1>5, <1>9 DEF Adjoin
<1>10. CASE SeparatePort
  BY <1>4, <1>10 DEF SeparatePort
<1>11. CASE CollapseAgain
  <2>1. /\ stage' = "collapsing" /\ ports_left' = ret_ports /\ ret_ports' = <<>> /\ changed' = FALSE
        /\ passes' = passes + 1 /\ UNCHANGED <<ports, mod, asked_ports>>
    BY <1>11 DEF CollapseAgain, StartPortPass
  <2>2. passes' \in Nat
    BY <2>1
  <2> QED BY <1>0, <2>1, <2>2
<1>12. CASE ReturnPorts
  BY <1>12 DEF ReturnPorts
<1>13. CASE AddHighPorts
  BY <1>13, CoverOfAppend, PortAssumption DEF AddHighPorts
<1>14. CASE HighPortsRefused
  BY <1>14 DEF HighPortsRefused
<1>15. CASE UNCHANGED portVars
  BY <1>15 DEF portVars
<1> QED
  BY <1>1, <1>2, <1>6, <1>7, <1>8, <1>9, <1>10, <1>11, <1>12, <1>13, <1>14,
     <1>15 DEF PortNext, CollapseStep

\* The lists of a term are lists of pairs of integers.
THEOREM PortsTypeCorrect == PortSpec => []PortTypes
BY PortTypeInit, PortTypeStep, PTL DEF PortSpec

\* A turn leaves the rest of the list in order, after what was kept.
LEMMA TurnOrder ==
  ASSUME PortTypes, PortsInOrder, PortTurn
  PROVE  /\ Port \in PortRange
         /\ Cover(ports_left) = Span(Port) \cup Cover(ports_left')
         /\ Ordered(ports_left')
         /\ \A j \in DOMAIN ret_ports : ret_ports[j][1] <= Port[1]
         /\ \A k \in DOMAIN ports_left' : Port[1] <= ports_left'[k][1]
         /\ \A j \in DOMAIN ret_ports, k \in DOMAIN ports_left' : ret_ports[j][1] <= ports_left'[k][1]
<1>1. /\ ports_left \in Seq(PortRange) /\ ports_left # <<>> /\ ports_left' = Tail(ports_left)
      /\ Port = Head(ports_left)
  BY DEF PortTypes, PortTurn, Port
<1>2. /\ Port \in PortRange /\ Tail(ports_left) \in Seq(PortRange)
      /\ Cover(ports_left) = Span(Port) \cup Cover(Tail(ports_left))
  BY <1>1, CoverOfTail
<1>3. /\ Port = ports_left[1] /\ Len(ports_left) \in Nat /\ Len(ports_left) > 0
      /\ DOMAIN ports_left = 1..Len(ports_left)
      /\ DOMAIN ports_left' = 1..(Len(ports_left) - 1)
      /\ \A k \in 1..(Len(ports_left) - 1) : ports_left'[k] = ports_left[k + 1]
  BY <1>1, HeadTailProperties, LenProperties, EmptySeq
<1>4. \A k \in DOMAIN ports_left' : k + 1 \in DOMAIN ports_left /\ ports_left'[k] = ports_left[k + 1] /\ 1 < k + 1
  BY <1>3
<1>5. Ordered(ports_left')
  <2> SUFFICES ASSUME NEW j \in DOMAIN ports_left', NEW k \in DOMAIN ports_left', j < k
               PROVE  ports_left'[j][1] <= ports_left'[k][1]
    BY DEF Ordered
  <2>1. j + 1 < k + 1
    BY <1>3
  <2> QED BY <1>4, <2>1 DEF PortsInOrder, Ordered
<1>6. 1 \in DOMAIN ports_left
  BY <1>3
<1>7. \A k \in DOMAIN ports_left' : Port[1] <= ports_left'[k][1]
  BY <1>3, <1>4, <1>6 DEF PortsInOrder, Ordered
<1> QED BY <1>1, <1>2, <1>3, <1>4, <1>5, <1>6, <1>7 DEF PortsInOrder

LEMMA KeepKeeps ==
  ASSUME PortTypes, PortsInOrder, PortTurn, Keep, Cover(ret_ports) \cup Cover(ports_left) = Cover(asked_ports)
  PROVE  PortsInOrder' /\ Cover(ret_ports') \cup Cover(ports_left') = Cover(asked_ports)
<1>1. ret_ports \in Seq(PortRange) /\ ret_ports' = Append(ret_ports, Port) /\ Port \in PortRange
  BY TurnOrder DEF PortTypes, Keep
<1>2. Cover(ret_ports') = Cover(ret_ports) \cup Span(Port)
  BY <1>1, CoverOfAppend
<1>3. /\ DOMAIN ret_ports = 1..Len(ret_ports) /\ Len(ret_ports) \in Nat
      /\ DOMAIN ret_ports' = 1..(Len(ret_ports) + 1)
      /\ \A k \in DOMAIN ret_ports : ret_ports'[k] = ret_ports[k]
      /\ ret_ports'[Len(ret_ports) + 1] = Port
  BY <1>1, AppendProperties, LenProperties
<1>4. Ordered(ret_ports')
  <2> SUFFICES ASSUME NEW j \in DOMAIN ret_ports', NEW k \in DOMAIN ret_ports', j < k
               PROVE  ret_ports'[j][1] <= ret_ports'[k][1]
    BY DEF Ordered
  <2>1. j \in DOMAIN ret_ports
    BY <1>3
  <2>2. CASE k \in DOMAIN ret_ports
    BY <1>3, <2>1, <2>2 DEF PortsInOrder, Ordered
  <2>3. CASE k = Len(ret_ports) + 1
    BY <1>3, <2>1, <2>3, TurnOrder
  <2> QED BY <1>3, <2>2, <2>3
<1>5. \A j \in DOMAIN ret_ports', k \in DOMAIN ports_left' : ret_ports'[j][1] <= ports_left'[k][1]
  <2> TAKE j \in DOMAIN ret_ports', k \in DOMAIN ports_left'
  <2>1. CASE j \in DOMAIN ret_ports
    BY <1>3, <2>1, TurnOrder
  <2>2. CASE j = Len(ret_ports) + 1
    BY <1>3, <2>2, TurnOrder
  <2> QED BY <1>3, <2>1, <2>2
<1> QED BY <1>2, <1>4, <1>5, TurnOrder DEF PortsInOrder

LEMMA ExtendKeeps ==
  ASSUME PortTypes, PortsInOrder, PortTurn, Extend, Cover(ret_ports) \cup Cover(ports_left) = Cover(asked_ports),
         ret_ports # <<>>, LastPort[2] < Port[2],
         Port[1] < LastPort[2] \/ LastPort[2] + 1 = Port[1]
  PROVE  PortsInOrder' /\ Cover(ret_ports') \cup Cover(ports_left') = Cover(asked_ports)
<1> DEFINE r == <<LastPort[1], Port[2]>>
<1>1. /\ ret_ports \in Seq(PortRange) /\ Port \in PortRange
      /\ LastPort \in PortRange /\ Len(ret_ports) \in DOMAIN ret_ports
      /\ Span(LastPort) \subseteq Cover(ret_ports)
  BY TurnOrder, SpanOfLast DEF PortTypes, LastPort
<1>2. r \in PortRange /\ Span(r) = Span(LastPort) \cup Span(Port)
  BY <1>1, TurnOrder, SpanOfJoin DEF LastPort
<1>3. ret_ports' = [ret_ports EXCEPT ![Len(ret_ports)] = r]
  BY DEF Extend, LastPort
<1> HIDE DEF r
<1>4. Cover(ret_ports') = Cover(ret_ports) \cup Span(Port)
  <2>1. Cover(ret_ports') = Cover(ret_ports) \cup Span(r)
    BY <1>1, <1>2, <1>3, CoverOfExtension DEF LastPort
  <2> QED
    BY <1>1, <1>2, <2>1
<1>5. /\ DOMAIN ret_ports' = DOMAIN ret_ports
      /\ \A k \in DOMAIN ret_ports : ret_ports'[k][1] = ret_ports[k][1]
  BY <1>1, <1>3, SMTT(20) DEF r, LastPort
<1>6. Ordered(ret_ports')
  BY <1>5 DEF PortsInOrder, Ordered
<1>7. \A j \in DOMAIN ret_ports', k \in DOMAIN ports_left' : ret_ports'[j][1] <= ports_left'[k][1]
  BY <1>5, TurnOrder
<1>8. Ordered(ports_left') /\ Cover(ports_left) = Span(Port) \cup Cover(ports_left')
  BY TurnOrder
<1>9. PortsInOrder'
  BY <1>6, <1>7, <1>8 DEF PortsInOrder
<1> QED BY <1>4, <1>8, <1>9

LEMMA PortsKeptStep == PortTypes /\ PortsKept /\ [PortNext]_portVars => PortsKept'
<1> SUFFICES ASSUME PortTypes, PortsKept, [PortNext]_portVars PROVE PortsKept'
  OBVIOUS
<1>1. CASE CollapsePorts
  <2>1. PICK p \in Sorting(ports) : StartPortPass([k \in DOMAIN ports |-> ports[p[k]]])
    BY <1>1 DEF CollapsePorts
  <2>2. /\ ports_left' = [k \in DOMAIN ports |-> ports[p[k]]]
        /\ ret_ports' = <<>> /\ stage' = "collapsing" /\ asked_ports' = asked_ports
    BY <1>1, <2>1 DEF StartPortPass, CollapsePorts
  <2>3. Cover(ports_left') = Cover(ports) /\ Ordered(ports_left')
    BY <2>2, CoverOfSorting DEF PortTypes
  <2>4. Cover(ports) = Cover(asked_ports)
    BY <1>1 DEF CollapsePorts, PortsKept
  <2>5. Cover(ret_ports') = {} /\ Ordered(ret_ports') /\ DOMAIN ret_ports' = {}
    BY <2>2 DEF Cover, Ordered
  <2> QED BY <2>2, <2>3, <2>4, <2>5 DEF PortsKept, PortsInOrder
<1>2. CASE NothingToCollapse
  BY <1>2 DEF NothingToCollapse, PortsKept
<1>3. ASSUME PortTurn PROVE /\ stage = "collapsing" /\ stage' = "collapsing" /\ asked_ports' = asked_ports
                        /\ PortsInOrder /\ Cover(ret_ports) \cup Cover(ports_left) = Cover(asked_ports)
  BY <1>3 DEF PortTurn, PortsKept
<1>4. CASE FirstPort
  BY <1>3, <1>4, KeepKeeps DEF FirstPort, PortsKept
<1>5. CASE Swallow
  <2>1. PortTurn /\ ret_ports # <<>> /\ LastPort[2] >= Port[2] /\ ret_ports' = ret_ports
    BY <1>5 DEF Swallow
  <2>2. /\ LastPort \in PortRange /\ Len(ret_ports) \in DOMAIN ret_ports
        /\ Span(LastPort) \subseteq Cover(ret_ports)
    BY <2>1, SpanOfLast DEF PortTypes, LastPort
  <2>3. Port \in PortRange /\ LastPort[1] <= Port[1]
    BY <1>3, <2>1, <2>2, TurnOrder DEF LastPort
  <2>4. Span(Port) \subseteq Cover(ret_ports)
    BY <2>1, <2>2, <2>3, SpanOfSwallowed
  <2> QED BY <1>3, <2>1, <2>4, TurnOrder DEF PortsKept, PortsInOrder
<1>6. CASE Overlap
  BY <1>3, <1>6, ExtendKeeps DEF Overlap, PortsKept
<1>7. CASE Adjoin
  BY <1>3, <1>7, ExtendKeeps DEF Adjoin, PortsKept
<1>8. CASE SeparatePort
  BY <1>3, <1>8, KeepKeeps DEF SeparatePort, PortsKept
<1>9. CASE CollapseAgain
  <2>1. /\ stage = "collapsing" /\ ports_left = <<>> /\ ports_left' = ret_ports /\ ret_ports' = <<>>
        /\ stage' = "collapsing" /\ asked_ports' = asked_ports
    BY <1>9 DEF CollapseAgain, StartPortPass
  <2>2. Cover(<<>>) = {} /\ Ordered(<<>>)
    BY DEF Cover, Ordered
  <2> QED BY <2>1, <2>2 DEF PortsKept, PortsInOrder
<1>10. CASE ReturnPorts
  <2>1. /\ stage = "collapsing" /\ ports_left = <<>> /\ ports' = ret_ports
        /\ stage' = "collapsed" /\ asked_ports' = asked_ports
    BY <1>10 DEF ReturnPorts
  <2>2. Cover(<<>>) = {}
    BY DEF Cover
  <2> QED BY <2>1, <2>2 DEF PortsKept
<1>11. CASE AddHighPorts
  BY <1>11 DEF AddHighPorts, PortsKept
<1>12. CASE HighPortsRefused
  BY <1>12 DEF HighPortsRefused, PortsKept
<1>13. CASE UNCHANGED portVars
  BY <1>13 DEF portVars, PortsKept, PortsInOrder
<1> QED
  BY <1>1, <1>2, <1>4, <1>5, <1>6, <1>7, <1>8, <1>9, <1>10, <1>11, <1>12,
     <1>13 DEF PortNext, CollapseStep

LEMMA PortsKeptAlways == PortSpec => []PortsKept
<1>1. PortInit => PortsKept
  BY DEF PortInit, PortsKept
<1> QED BY <1>1, PortsKeptStep, PortsTypeCorrect, PTL DEF PortSpec

\* No branch of the loop loses a port or adds one, for any list of ranges.
THEOREM NoPassLosesPorts == PortSpec => []PassKeepsPorts
<1>1. PortsKept => PassKeepsPorts
  BY DEF PortsKept, PassKeepsPorts
<1> QED BY <1>1, PortsKeptAlways, PTL

\* A collapsed list permits exactly the ports asked for.
THEOREM CollapsedListKeepsPorts == PortSpec => []CollapseKeepsPorts
<1>1. PortsKept => CollapseKeepsPorts
  BY DEF PortsKept, CollapseKeepsPorts
<1> QED BY <1>1, PortsKeptAlways, PTL

-----------------------------------------------------------------------------
(* The result is separated, and a separated list is left alone *)

LEMMA SeparatedAppend ==
  ASSUME NEW l \in Seq(PortRange), NEW r \in PortRange, Separated(l),
         l # <<>> => PortsApart(l[Len(l)], r)
  PROVE  Separated(Append(l, r))
<1>1. /\ Len(l) \in Nat /\ Len(Append(l, r)) = Len(l) + 1
      /\ \A k \in 1..Len(l) : Append(l, r)[k] = l[k]
      /\ Append(l, r)[Len(l) + 1] = r
  BY AppendProperties, LenProperties
<1>2. SUFFICES ASSUME NEW k \in 1..Len(l)
               PROVE  PortsApart(Append(l, r)[k], Append(l, r)[k + 1])
  BY <1>1 DEF Separated
<1>3. CASE k = Len(l)
  BY <1>1, <1>3, EmptySeq
<1>4. CASE k < Len(l)
  <2>1. k \in 1..(Len(l) - 1) /\ k + 1 \in 1..Len(l)
    BY <1>1, <1>4
  <2> QED BY <1>1, <2>1 DEF Separated
<1> QED BY <1>1, <1>3, <1>4

LEMMA SeparatedExtension ==
  ASSUME NEW l \in Seq(PortRange), l # <<>>, Separated(l),
         NEW r \in PortRange, r[1] = l[Len(l)][1], l[Len(l)][2] < r[2]
  PROVE  Separated([l EXCEPT ![Len(l)] = r])
<1> DEFINE e == [l EXCEPT ![Len(l)] = r]
<1>1. /\ Len(l) \in Nat /\ DOMAIN l = 1..Len(l) /\ Len(l) \in DOMAIN l
  BY LenProperties, EmptySeq
<1>2. /\ e \in Seq(PortRange) /\ Len(e) = Len(l) /\ e[Len(l)] = r
      /\ \A k \in DOMAIN l : k # Len(l) => e[k] = l[k]
  BY <1>1, ExceptSeq
<1> HIDE DEF e
<1>3. SUFFICES ASSUME NEW k \in 1..(Len(l) - 1) PROVE PortsApart(e[k], e[k + 1])
  BY <1>2 DEF Separated, e
<1>4. k \in DOMAIN l /\ k + 1 \in DOMAIN l /\ e[k] = l[k] /\ PortsApart(l[k], l[k + 1])
  BY <1>1, <1>2 DEF Separated
<1>5. CASE k + 1 = Len(l)
  <2>1. l[k] \in PortRange /\ l[k + 1] \in PortRange
    BY <1>1, <1>4, ElementOfSeq
  <2>2. l[k][2] \in Int /\ l[k + 1][1] \in Int /\ l[k + 1][2] \in Int /\ r[2] \in Int
    BY <2>1, RangeType
  <2>3. e[k + 1] = r /\ r[1] = l[k + 1][1] /\ l[k + 1][2] < r[2]
    BY <1>2, <1>5
  <2> QED BY <1>4, <2>2, <2>3 DEF PortsApart
<1>6. CASE k + 1 # Len(l)
  BY <1>2, <1>4, <1>6
<1> QED BY <1>5, <1>6

LEMMA SeparatedTail ==
  ASSUME NEW l \in Seq(PortRange), l # <<>>, Separated(l)
  PROVE  Separated(Tail(l)) /\ (Tail(l) # <<>> => PortsApart(Head(l), Tail(l)[1]))
<1>1. /\ Head(l) = l[1] /\ Tail(l) \in Seq(PortRange)
      /\ Len(Tail(l)) = Len(l) - 1 /\ Len(l) \in Nat /\ Len(l) > 0
      /\ \A k \in 1..(Len(l) - 1) : Tail(l)[k] = l[k + 1]
  BY HeadTailProperties, EmptySeq
<1>2. Separated(Tail(l))
  <2> SUFFICES ASSUME NEW k \in 1..(Len(Tail(l)) - 1)
               PROVE  PortsApart(Tail(l)[k], Tail(l)[k + 1])
    BY DEF Separated
  <2>1. /\ k \in 1..(Len(l) - 1) /\ k + 1 \in 1..(Len(l) - 1)
    BY <1>1
  <2> QED BY <1>1, <2>1 DEF Separated
<1>3. ASSUME Tail(l) # <<>> PROVE PortsApart(l[1], Tail(l)[1])
  <2>1. Len(Tail(l)) > 0
    BY <1>1, <1>3, EmptySeq
  <2>2. 1 \in 1..(Len(l) - 1)
    BY <1>1, <2>1
  <2> QED BY <1>1, <2>2 DEF Separated
<1> QED BY <1>1, <1>2, <1>3

\* In a second pass the kept ranges and the rest are one separated list, and
\* nothing has been changed.
SecondPass ==
  /\ changed = FALSE
  /\ Separated(ports_left)
  /\ ret_ports # <<>> /\ ports_left # <<>> => PortsApart(ret_ports[Len(ret_ports)], ports_left[1])

\* The inductive invariant of the passes.
Passes ==
  /\ stage \in {"translated", "fixing"} => passes = 0
  /\ stage = "collapsing" => passes \in {1, 2} /\ Separated(ret_ports)
  /\ stage = "collapsing" /\ passes = 2 => SecondPass
  /\ stage = "collapsed" => passes \in 0..2 /\ Separated(ports)
  /\ passes \in 0..2

LEMMA EmptySeparated == Separated(<<>>)
BY DEF Separated

\* What a turn of a second pass leaves to the next one.
LEMMA SecondTurn ==
  ASSUME PortTypes, SecondPass, PortTurn
  PROVE  /\ ret_ports # <<>> => PortsApart(LastPort, Port)
         /\ Separated(ports_left')
         /\ ports_left' # <<>> => PortsApart(Port, ports_left'[1])
<1>1. ports_left \in Seq(PortRange) /\ ports_left # <<>> /\ ports_left' = Tail(ports_left) /\ Port = ports_left[1]
  BY HeadTailProperties, EmptySeq DEF PortTypes, PortTurn, Port
<1> QED BY <1>1, SeparatedTail DEF SecondPass, LastPort, Port

\* A turn that keeps its range keeps the invariant.
LEMMA KeepPasses ==
  ASSUME PortTypes, Passes, PortTurn, Keep, ret_ports # <<>> => PortsApart(LastPort, Port)
  PROVE  Passes'
<1>1. /\ stage = "collapsing" /\ stage' = "collapsing" /\ passes' = passes
      /\ changed' = changed /\ ret_ports' = Append(ret_ports, Port)
      /\ ret_ports \in Seq(PortRange)
  BY DEF PortTurn, Keep, PortTypes
<1>2. Port \in PortRange
  BY CoverOfTail DEF PortTypes, PortTurn, Port
<1>3. Separated(ret_ports')
  BY <1>1, <1>2, SeparatedAppend DEF Passes, LastPort
<1>4. ret_ports'[Len(ret_ports')] = Port
  BY <1>1, <1>2, AppendProperties, LenProperties
<1>5. ASSUME passes = 2 PROVE SecondPass'
  <2>1. SecondPass
    BY <1>1, <1>5 DEF Passes
  <2> QED BY <1>1, <1>4, <2>1, SecondTurn DEF SecondPass
<1> QED BY <1>1, <1>3, <1>5 DEF Passes

\* A turn that joins two ranges is one of a first pass.
LEMMA ExtendPasses ==
  ASSUME PortTypes, Passes, PortTurn, Extend, ret_ports # <<>>, LastPort[2] < Port[2],
         ~PortsApart(LastPort, Port)
  PROVE  Passes'
<1>1. /\ stage = "collapsing" /\ stage' = "collapsing" /\ passes' = passes
      /\ ret_ports' = [ret_ports EXCEPT ![Len(ret_ports)] = <<LastPort[1], Port[2]>>]
      /\ ret_ports \in Seq(PortRange)
  BY DEF PortTurn, Extend, PortTypes, LastPort
<1>2. Port \in PortRange /\ LastPort \in PortRange
  BY CoverOfTail, SpanOfLast DEF PortTypes, PortTurn, Port, LastPort
<1>3. <<LastPort[1], Port[2]>> \in PortRange
  BY <1>2, RangeType DEF PortRange
<1>4. Separated(ret_ports')
  BY <1>1, <1>2, <1>3, SeparatedExtension DEF Passes, LastPort
<1>5. passes # 2
  BY <1>1, SecondTurn DEF Passes
<1> QED BY <1>1, <1>4, <1>5 DEF Passes

LEMMA PassesStep == PortTypes /\ Passes /\ [PortNext]_portVars => Passes'
<1> SUFFICES ASSUME PortTypes, Passes, [PortNext]_portVars PROVE Passes'
  OBVIOUS
<1>1. CASE CollapsePorts
  <2>1. /\ stage \in {"translated", "fixing"} /\ stage' = "collapsing"
        /\ ret_ports' = <<>> /\ passes' = passes + 1
    BY <1>1 DEF CollapsePorts, StartPortPass
  <2> QED BY <2>1, EmptySeparated DEF Passes
<1>2. CASE NothingToCollapse
  BY <1>2, EmptySeparated DEF NothingToCollapse, Passes
<1>3. ASSUME PortTypes, PortTurn, ret_ports # <<>>
      PROVE  /\ LastPort[1] \in Int /\ LastPort[2] \in Int
             /\ Port[1] \in Int /\ Port[2] \in Int
  BY <1>3, CoverOfTail, SpanOfLast, RangeType DEF PortTypes, PortTurn, Port, LastPort
<1>4. CASE FirstPort
  BY <1>4, KeepPasses DEF FirstPort
<1>5. CASE Swallow
  <2>1. /\ PortTurn /\ ret_ports # <<>> /\ LastPort[2] >= Port[2] /\ ret_ports' = ret_ports
        /\ stage = "collapsing" /\ stage' = "collapsing" /\ passes' = passes
    BY <1>5 DEF Swallow, PortTurn
  <2>2. ~PortsApart(LastPort, Port)
    BY <1>3, <2>1 DEF PortsApart
  <2>3. passes # 2
    BY <2>1, <2>2, SecondTurn DEF Passes
  <2> QED BY <2>1, <2>3 DEF Passes
<1>6. CASE Overlap
  BY <1>3, <1>6, ExtendPasses DEF Overlap, PortsApart
<1>7. CASE Adjoin
  BY <1>3, <1>7, ExtendPasses DEF Adjoin, PortsApart
<1>8. CASE SeparatePort
  BY <1>3, <1>8, KeepPasses DEF SeparatePort, PortsApart
<1>9. CASE CollapseAgain
  <2>1. /\ stage = "collapsing" /\ changed /\ ports_left' = ret_ports /\ ret_ports' = <<>>
        /\ stage' = "collapsing" /\ changed' = FALSE /\ passes' = passes + 1
    BY <1>9 DEF CollapseAgain, StartPortPass
  <2>2. passes # 2
    BY <2>1 DEF Passes, SecondPass
  <2>3. passes = 1 /\ Separated(ret_ports)
    BY <2>1, <2>2 DEF Passes
  <2>4. SecondPass'
    BY <2>1, <2>3 DEF SecondPass
  <2> QED BY <2>1, <2>3, <2>4, EmptySeparated DEF Passes
<1>10. CASE ReturnPorts
  BY <1>10 DEF ReturnPorts, Passes
<1>11. CASE AddHighPorts
  BY <1>11 DEF AddHighPorts, Passes
<1>12. CASE HighPortsRefused
  BY <1>12 DEF HighPortsRefused, Passes
<1>13. CASE UNCHANGED portVars
  BY <1>13 DEF portVars, Passes, SecondPass
<1> QED
  BY <1>1, <1>2, <1>4, <1>5, <1>6, <1>7, <1>8, <1>9, <1>10, <1>11, <1>12,
     <1>13 DEF PortNext, CollapseStep

LEMMA PassesAlways == PortSpec => []Passes
<1>1. PortInit => Passes
  BY DEF PortInit, Passes
<1> QED BY <1>1, PassesStep, PortsTypeCorrect, PTL DEF PortSpec

\* However long the list is, a third pass is never begun.
THEOREM NoThirdPass == PortSpec => []TwoPassesEnough
<1>1. Passes => TwoPassesEnough
  BY DEF Passes, TwoPassesEnough
<1> QED BY <1>1, PassesAlways, PTL

\* The ranges of a collapsed list are in order and apart.
THEOREM CollapseSeparates == PortSpec => []CollapsedIsSeparated
<1>1. Passes => CollapsedIsSeparated
  BY DEF Passes, CollapsedIsSeparated
<1> QED BY <1>1, PassesAlways, PTL

-----------------------------------------------------------------------------
(* Comparing two lists *)

\* If CheckPortIsContained says yes, every port of subset is one of superset.
LEMMA ContainedCovers ==
  ASSUME NEW sup \in Seq(PortRange), NEW sub \in Seq(PortRange),
         Cover(sub) \subseteq AnyPort, PortIsContained(sup, sub)
  PROVE  Permitted(sub) \subseteq Permitted(sup)
<1>1. CASE sup = <<>>
  BY <1>1 DEF Permitted
<1>2. CASE sup # <<>>
  <2>1. sub # <<>>
    BY <1>2 DEF PortIsContained
  <2>2. SUFFICES ASSUME NEW x \in Cover(sub) PROVE x \in Cover(sup)
    BY <1>2, <2>1 DEF Permitted
  <2>3. PICK j \in DOMAIN sub : x \in Span(sub[j])
    BY DEF Cover
  <2>4. PICK k \in DOMAIN sup :
          sup[k][1] <= sub[j][1] /\ sub[j][2] <= sup[k][2]
    BY <1>2, <2>1 DEF PortIsContained
  <2>5. sub[j] \in PortRange /\ sup[k] \in PortRange
    BY ElementOfSeq, LenProperties
  <2>6. x \in Span(sup[k])
    BY <2>3, <2>4, <2>5, RangeType DEF Span
  <2> QED BY <2>6 DEF Cover
<1> QED BY <1>1, <1>2

LEMMA ConstantPorts ==
  /\ \A l \in Lists \cup Others : Cover(l) \subseteq AnyPort
  /\ Span(PortsAdded) \subseteq AnyPort
<1>1. \A l \in Lists \cup Others \cup {<<PortsAdded>>} : \A k \in DOMAIN l :
        Span(l[k]) \subseteq AnyPort
  BY PortAssumption DEF Span
<1>2. 1 \in DOMAIN <<PortsAdded>> /\ <<PortsAdded>>[1] = PortsAdded
  OBVIOUS
<1> QED BY <1>1, <1>2 DEF Cover

\* The ports asked for are ports.
AskedIsAny == Cover(asked_ports) \subseteq AnyPort

LEMMA AskedStep == PortTypes /\ PortsKept /\ AskedIsAny /\ [PortNext]_portVars => AskedIsAny'
<1> SUFFICES ASSUME PortTypes, PortsKept, AskedIsAny, [PortNext]_portVars PROVE AskedIsAny'
  OBVIOUS
<1>1. CASE AddHighPorts
  <2>1. asked_ports' = Append(ports, PortsAdded) /\ Cover(ports) = Cover(asked_ports)
    BY <1>1 DEF AddHighPorts, PortsKept
  <2>2. Cover(asked_ports') = Cover(ports) \cup Span(PortsAdded)
    BY <2>1, CoverOfAppend, PortAssumption DEF PortTypes
  <2> QED BY <2>1, <2>2, ConstantPorts DEF AskedIsAny
<1>2. CASE asked_ports' = asked_ports
  BY <1>2 DEF AskedIsAny
<1> QED
  BY <1>1, <1>2 DEF PortNext, CollapseStep, CollapsePorts, NothingToCollapse, FirstPort,
     Swallow, Overlap, Adjoin, SeparatePort, PortTurn, CollapseAgain, ReturnPorts,
     HighPortsRefused, portVars

\* The comparison of a collapsed list with another term's, either way round,
\* never finds contained what is not.
THEOREM ComparisonIsSound == PortSpec => []ContainmentSound
<1>1. PortInit => AskedIsAny
  BY ConstantPorts DEF PortInit, AskedIsAny
<1>2. PortTypes /\ PortsKept /\ AskedIsAny => ContainmentSound
  <2> SUFFICES ASSUME PortTypes, PortsKept, AskedIsAny, stage = "collapsed", NEW l \in Others
               PROVE  /\ PortIsContained(l, ports) => Permitted(ports) \subseteq Permitted(l)
                      /\ PortIsContained(ports, l) => Permitted(l) \subseteq Permitted(ports)
    BY DEF ContainmentSound
  <2>1. ports \in Seq(PortRange) /\ Cover(ports) \subseteq AnyPort
    BY DEF PortTypes, PortsKept, AskedIsAny
  <2>2. l \in Seq(PortRange) /\ Cover(l) \subseteq AnyPort
    BY PortAssumption, ConstantPorts
  <2> QED BY <2>1, <2>2, ContainedCovers
<1> QED BY <1>1, <1>2, AskedStep, PortsKeptAlways, PortsTypeCorrect, PTL DEF PortSpec
-----------------------------------------------------------------------------
(* The comparison with a collapsed list misses nothing *)

\* A set of numbers has a least one.
LEMMA SomeLeast ==
  ASSUME NEW S, S \subseteq Nat, S # {}
  PROVE  \E least \in S : \A n \in S : least <= n
<1> DEFINE Less == OpToRel(<, Nat)
<1>1. PICK least \in S : \A n \in S : <<n, least>> \notin Less
  <2> HIDE DEF Less
  <2>1. IsWellFoundedOn(Less, Nat)
    BY NatLessThanWellFounded DEF Less
  <2> QED BY <2>1, WFMin
<1>2. \A pair \in Nat \X Nat : pair[1] < pair[2] => pair \in Less
  BY Zenon DEF OpToRel
<1> HIDE DEF Less
<1>3. SUFFICES ASSUME NEW n \in S PROVE ~(n < least)
  OBVIOUS
<1> QED BY <1>1, <1>2, <<n, least>> \in Nat \X Nat

\* The ends of two neighbours are in order, so those of any two ranges are: the
\* first range that is out of order with an earlier one would be so with its
\* neighbour.
LEMMA EndsInOrder ==
  ASSUME NEW l \in Seq(PortRange), Separated(l)
  PROVE  \A j, k \in DOMAIN l : j < k => l[j][2] < l[k][2]
<1> DEFINE Out == {k \in DOMAIN l : \E j \in DOMAIN l : j < k /\ ~(l[j][2] < l[k][2])}
<1>1. Len(l) \in Nat /\ DOMAIN l = 1..Len(l)
  BY LenProperties
<1>2. SUFFICES ASSUME Out # {} PROVE FALSE
  OBVIOUS
<1>3. PICK k \in Out : \A n \in Out : k <= n
  <2>1. Out \subseteq Nat
    BY <1>1
  <2> QED BY <1>2, <2>1, SomeLeast
<1>4. PICK j \in DOMAIN l : j < k /\ ~(l[j][2] < l[k][2])
  OBVIOUS
<1>5. k - 1 \in 1..(Len(l) - 1) /\ k - 1 \in DOMAIN l /\ k \in DOMAIN l
  BY <1>1, <1>4
<1>6. l[k - 1][2] < l[k][2]
  BY <1>1, <1>5 DEF Separated, PortsApart
<1>7. l[j][2] \in Int /\ l[k - 1][2] \in Int /\ l[k][2] \in Int
  BY <1>5, ElementOfSeq, RangeType
<1>8. j # k - 1
  BY <1>4, <1>6
<1>9. j < k - 1 /\ k - 1 \notin Out
  BY <1>1, <1>3, <1>4, <1>5, <1>8
<1> QED BY <1>4, <1>5, <1>6, <1>7, <1>9

\* In such a list without a shared end point there is a port between any two
\* ranges that is in none: the one after the end of the earlier one.
LEMMA GapAfter ==
  ASSUME NEW l \in Seq(PortRange), Separated(l),
         \A j, k \in DOMAIN l : j < k => l[j][2] # l[k][1],
         NEW j \in DOMAIN l
  PROVE  l[j][2] + 1 \notin Cover(l)
<1>1. Len(l) \in Nat /\ DOMAIN l = 1..Len(l)
  BY LenProperties
<1>2. \A k \in DOMAIN l : l[k][1] \in Int /\ l[k][2] \in Int
  BY ElementOfSeq, RangeType, LenProperties
<1>3. SUFFICES ASSUME NEW k \in DOMAIN l PROVE l[j][2] + 1 \notin Span(l[k])
  BY DEF Cover
<1>4. CASE k <= j
  <2>1. l[k][2] <= l[j][2]
    BY <1>1, <1>2, <1>4, EndsInOrder
  <2> QED BY <1>2, <2>1 DEF Span
<1>5. CASE j < k
  <2>1. /\ k - 1 \in 1..(Len(l) - 1) /\ k - 1 \in DOMAIN l
        /\ (k - 1) + 1 = k /\ k - 1 < k
    BY <1>1, <1>5
  <2>2. PortsApart(l[k - 1], l[k])
    BY <2>1 DEF Separated
  <2>3. l[k - 1][2] + 1 < l[k][1]
    BY <1>2, <2>1, <2>2 DEF PortsApart
  <2>4. l[j][2] <= l[k - 1][2]
    <3>1. j = k - 1 \/ j < k - 1
      BY <1>1, <1>5
    <3> QED BY <1>2, <2>1, <3>1, EndsInOrder
  <2> QED BY <1>2, <2>1, <2>3, <2>4 DEF Span
<1> QED BY <1>1, <1>4, <1>5

\* Every range whose ports are all in such a list is inside one of its ranges.
LEMMA CoveredIsInside ==
  ASSUME NEW l \in Seq(PortRange), Separated(l),
         \A j, k \in DOMAIN l : j < k => l[j][2] # l[k][1],
         NEW r \in PortRange, r[1] <= r[2], Span(r) \subseteq Cover(l)
  PROVE  \E k \in DOMAIN l : l[k][1] <= r[1] /\ r[2] <= l[k][2]
<1>1. r[1] \in Int /\ r[2] \in Int /\ r[1] \in Cover(l)
  BY RangeType DEF Span
<1>2. PICK k \in DOMAIN l : r[1] \in Span(l[k])
  BY <1>1 DEF Cover
<1>3. l[k][1] \in Int /\ l[k][2] \in Int
  BY ElementOfSeq, RangeType, LenProperties
<1>4. l[k][2] + 1 \notin Span(r)
  BY GapAfter
<1> QED BY <1>1, <1>2, <1>3, <1>4 DEF Span

\* A collapsed list whose ranges share no end point contains, range by range,
\* every list of ports it permits: shading detection finds all there is.
THEOREM ComparisonFindsAll == PortSpec => []ContainmentFindsAll
<1>1. PortTypes /\ Passes => ContainmentFindsAll
  <2> SUFFICES ASSUME PortTypes, Passes, stage = "collapsed",
                      \A j, k \in DOMAIN ports : j < k => ports[j][2] # ports[k][1],
                      NEW l \in Others, l # <<>>,
                      \A k \in DOMAIN l : l[k][1] <= l[k][2],
                      Cover(l) \subseteq Cover(ports)
               PROVE  PortIsContained(ports, l)
    BY DEF ContainmentFindsAll
  <2>1. ports \in Seq(PortRange) /\ Separated(ports)
    BY DEF PortTypes, Passes
  <2>2. SUFFICES ASSUME NEW j \in DOMAIN l
                 PROVE  \E k \in DOMAIN ports :
                          ports[k][1] <= l[j][1] /\ l[j][2] <= ports[k][2]
    BY DEF PortIsContained
  <2>3. l[j] \in PortRange
    BY PortAssumption, ElementOfSeq, LenProperties
  <2>4. Span(l[j]) \subseteq Cover(ports)
    BY DEF Cover
  <2> QED BY <2>1, <2>3, <2>4, CoveredIsInside
<1> QED BY <1>1, PassesAlways, PortsTypeCorrect, PTL
=============================================================================
