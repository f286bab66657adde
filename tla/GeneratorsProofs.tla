--------------------------- MODULE GeneratorsProofs ---------------------------
(***************************************************************************)
(* What a generator makes of a policy, for policies with any number of     *)
(* filters, terms and values.                                              *)
(*                                                                         *)
(* One block: the rules of a block catch the packets its term describes.   *)
(* A term is divided among rules in a different way on each platform, so   *)
(* there is a lemma for each one; what they share is that a list is        *)
(* divided among rules that test together what one rule for all of it      *)
(* does (EachTests, ProductIs, PortStatementsTest).                        *)
(*                                                                         *)
(* The state: that a block is of an entry that fits its list and is        *)
(* prepared for its platform (GInv) makes the first lemma apply to         *)
(* everything that is written.  What is carried from filter to filter is   *)
(* what the headers up to there have named (Reach).                        *)
(*                                                                         *)
(* The output: the blocks are those of the entries of the lists, in their  *)
(* order (WInv), and the entries of a list are those of its filter that    *)
(* stay (DInv).  So the blocks that catch a packet correspond, in order,   *)
(* to the terms that do, and the first of them decides.                    *)
(*                                                                         *)
(* No step reads a packet: the assumption on packets is used only to say   *)
(* what is caught.                                                         *)
(***************************************************************************)
EXTENDS TermsProofs, Generators

-----------------------------------------------------------------------------
(* Lists *)

\* What a recursive function of a loop is: it exists, so its equation holds.
Follows(f, S, base, step, l) ==
  /\ f \in [0..Len(l) -> S]
  /\ f[0] = base /\ \A k \in 1..Len(l) : f[k] = step[<<f[k - 1], l[k]>>]

\* A function that is defined by recursion over a list exists, so its equation holds.
LEMMA Recursion ==
  ASSUME NEW S, NEW T, NEW base, base \in S,
         NEW step, step \in [S \X T -> S], NEW l, l \in Seq(T)
  PROVE  \E f : Follows(f, S, base, step, l)
<1> DEFINE Fits(f, n) ==
             /\ f \in [0..n -> S] /\ f[0] = base
             /\ \A k \in 1..n : f[k] = step[<<f[k - 1], l[k]>>]
           some == {n \in Nat : n <= Len(l) => \E f : Fits(f, n)}
<1>1. 0 \in some
  <2>1. Fits([k \in 0..0 |-> base], 0)
    OBVIOUS
  <2> HIDE DEF Fits
  <2> QED
    BY <2>1
<1>2. ASSUME NEW n \in Nat, n \in some PROVE n + 1 \in some
  <2> HIDE DEF Fits
  <2> SUFFICES ASSUME n + 1 <= Len(l) PROVE \E f : Fits(f, n + 1)
    OBVIOUS
  <2>1. PICK f : Fits(f, n)
    BY <1>2
  <2> DEFINE more == [k \in 0..(n + 1) |-> IF k = n + 1 THEN step[<<f[n], l[n + 1]>>] ELSE f[k]]
  <2>2. /\ f \in [0..n -> S] /\ f[0] = base
        /\ \A k \in 1..n : f[k] = step[<<f[k - 1], l[k]>>]
    BY <2>1 DEF Fits
  <2>3. step[<<f[n], l[n + 1]>>] \in S
    <3>1. l[n + 1] \in T /\ f[n] \in S
      BY <2>2
    <3> QED
      BY <3>1
  <2>4. \A k \in 0..n : more[k] = f[k]
    OBVIOUS
  <2>5. more \in [0..(n + 1) -> S] /\ more[0] = base
    BY <2>2, <2>3
  <2>6. more[n + 1] = step[<<more[n], l[n + 1]>>]
    <3>1. more[n + 1] = step[<<f[n], l[n + 1]>>]
      OBVIOUS
    <3>2. n \in 0..n
      OBVIOUS
    <3> HIDE DEF more
    <3> QED
      BY <2>4, <3>1, <3>2
  <2> HIDE DEF more
  <2>7. ASSUME NEW k \in 1..(n + 1) PROVE more[k] = step[<<more[k - 1], l[k]>>]
    <3>1. CASE k = n + 1
      BY <2>6, <3>1
    <3>2. CASE k # n + 1
      <4>1. k \in 1..n /\ k \in 0..n /\ k - 1 \in 0..n
        BY <3>2
      <4> QED
        BY <2>2, <2>4, <4>1
    <3> QED
      BY <3>1, <3>2
  <2> QED
    BY <2>5, <2>7 DEF Fits
<1> HIDE DEF some
<1>3. Len(l) \in some
  BY <1>1, <1>2, AllNumbers
<1> QED
  BY <1>3 DEF some, Follows

\* Those members of a list that are in a set, and no other ones.
LEMMA ThoseHolds ==
  ASSUME NEW S, NEW list \in Seq(S), NEW set
  PROVE  /\ Those(list, set) \in Seq(S)
         /\ Range(Those(list, set)) = Range(list) \cap set
<1> DEFINE ls == [k \in DOMAIN list |-> IF list[k] \in set THEN <<list[k]>> ELSE <<>>]
           flattened == FlattenSeq(ls)
<1>1. Those(list, set) = flattened
  BY DEF Those
<1>2. ls \in Seq(Seq(S)) /\ DOMAIN ls = DOMAIN list
  <2>1. \A k \in DOMAIN list : ls[k] \in Seq(S)
    OBVIOUS
  <2>2. DOMAIN ls = DOMAIN list /\ DOMAIN list = 1..Len(list) /\ Len(list) \in Nat
    OBVIOUS
  <2>3. ls = [k \in 1..Len(list) |-> ls[k]]
    BY <2>2
  <2> HIDE DEF ls
  <2> QED
    BY <2>1, <2>2, <2>3
<1>3. /\ flattened \in Seq(S)
      /\ \A e : (\E k \in DOMAIN flattened : flattened[k] = e) <=>
                (\E i \in DOMAIN ls : \E k \in DOMAIN ls[i] : ls[i][k] = e)
  <2> HIDE DEF ls
  <2> QED
    BY <1>2, FlattenHolds
<1>4. \A i \in DOMAIN ls : \A e :
        (\E k \in DOMAIN ls[i] : ls[i][k] = e) <=> (e = list[i] /\ list[i] \in set)
  <2> SUFFICES ASSUME NEW i \in DOMAIN ls, NEW e
               PROVE  (\E k \in DOMAIN ls[i] : ls[i][k] = e) <=> (e = list[i] /\ list[i] \in set)
    OBVIOUS
  <2>1. CASE list[i] \in set
    <3>1. ls[i] = <<list[i]>> /\ DOMAIN ls[i] = {1} /\ ls[i][1] = list[i]
      BY <2>1
    <3> HIDE DEF ls
    <3> QED
      BY <2>1, <3>1
  <2>2. CASE list[i] \notin set
    <3>1. ls[i] = <<>> /\ DOMAIN ls[i] = {}
      BY <2>2
    <3> HIDE DEF ls
    <3> QED
      BY <2>2, <3>1
  <2> QED
    BY <2>1, <2>2
<1> HIDE DEF ls, flattened
<1>5. \A e : e \in Range(flattened) <=> e \in Range(list) /\ e \in set
  <2>1. \A e : e \in Range(flattened) <=> \E k \in DOMAIN flattened : flattened[k] = e
    BY Zenon DEF Range
  <2>2. \A e : e \in Range(list) <=> \E k \in DOMAIN list : e = list[k]
    BY Zenon DEF Range
  <2>3. \A e : (\E i \in DOMAIN ls : \E k \in DOMAIN ls[i] : ls[i][k] = e) <=>
              \E i \in DOMAIN list : e = list[i] /\ list[i] \in set
    BY <1>2, <1>4, Zenon
  <2>4. \A e : (\E i \in DOMAIN list : e = list[i] /\ list[i] \in set) <=>
              e \in Range(list) /\ e \in set
    BY <2>2, Zenon
  <2> QED
    BY <1>3, <2>1, <2>3, <2>4, Zenon
<1> QED
  BY <1>1, <1>3, <1>5

-----------------------------------------------------------------------------
(* Addresses *)

\* What a list covers depends on its members alone.
LEMMA AddressesOfRange ==
  ASSUME NEW l
  PROVE  \A c : c \in AddressesOf(l) <=> \E n \in Range(l) : c \in Numbers(n)
BY DEF AddressesOf, Range

\* 0.0.0.0/0 and ::/0 hold every network of their version.
LEMMA EverythingHolds ==
  ASSUME NEW v \in Versions
  PROVE  /\ Everything(v) \in Networks /\ Everything(v).version = v
         /\ \A n \in Networks : n.version = v => In(n, Everything(v))
         /\ \A c : c \in Numbers(Everything(v)) => c[1] = v
<1>1. Bits[v] \in Nat /\ Bits[v] \in 0..Bits[v] /\ 0 \in Nat
  BY BitsAssumption
<1>2. 2 ^ Bits[v] \in Nat \ {0}
  BY <1>1, PowerType
<1>3. /\ Everything(v).version = v /\ Everything(v).first = 0
      /\ Everything(v).size = 2 ^ Bits[v]
  BY DEF Everything
<1>4. Everything(v) \in Blocks
  BY <1>2 DEF Everything, Blocks
<1>5. Everything(v) \in Networks
  <2>1. 0 = 0 * Everything(v).size /\ 0 + Everything(v).size <= 2 ^ Bits[v]
    BY <1>2, <1>3
  <2> QED
    BY <1>1, <1>3, <1>4, <2>1, FormsNetwork
<1>6. ASSUME NEW n \in Networks, n.version = v PROVE In(n, Everything(v))
  <2>1. n.first \in Nat /\ n.size \in Nat /\ n.first + n.size <= 2 ^ Bits[v]
    BY <1>6, NetworkForm, NumbersAre
  <2> QED
    BY <1>2, <1>3, <1>6, <2>1 DEF In
<1>7. \A c \in Numbers(Everything(v)) : c[1] = v
  BY <1>3 DEF Numbers
<1> QED
  BY <1>3, <1>5, <1>6, <1>7

\* There are finitely many networks.
LEMMA NetworksFinite == IsFiniteSet(Networks)
<1> DEFINE Of(v) == {n \in Networks : n.version = v}
<1>1. \A v \in Versions : IsFiniteSet(Of(v))
  BY EverythingHolds, InsideIsFinite
<1>2. Networks = Of(4) \cup Of(6)
  BY NumbersAre DEF Versions
<1>3. 4 \in Versions /\ 6 \in Versions
  BY DEF Versions
<1> HIDE DEF Of
<1> QED
  BY <1>1, <1>2, <1>3, FS_Union

\* The largest networks of a set of numbers hold all of them.
LEMMA LargestCover ==
  ASSUME NEW numbers, \A c \in numbers : \E n \in Networks : c \in Numbers(n)
  PROVE  /\ LargestNetworks(numbers) \subseteq Networks
         /\ \A c : (\E n \in LargestNetworks(numbers) : c \in Numbers(n)) <=> c \in numbers
<1> DEFINE inside == {n \in Networks : Numbers(n) \subseteq numbers}
<1>1. \A n : n \in LargestNetworks(numbers) <=>
               n \in inside /\ \A m \in inside : In(n, m) => m = n
  BY DEF LargestNetworks
<1>2. ASSUME NEW c \in numbers PROVE \E n \in LargestNetworks(numbers) : c \in Numbers(n)
  <2> DEFINE near == {n \in inside : c \in Numbers(n)}
  <2>1. PICK o \in Networks : c \in Numbers(o)
    OBVIOUS
  <2>2. PICK z \in Networks : Numbers(z) = {c} /\ In(z, o) /\ z.version = o.version
    BY <2>1, SingleNumber
  <2>3. z \in near
    BY <2>2
  <2> DEFINE whole == 2 ^ Bits[o.version]
             gaps == {whole - n.size : n \in near}
  <2>4. \A n \in near : n \in Networks /\ n.version = o.version
    BY <2>1, NumbersAre
  <2>5. \A n \in near : n.size \in Nat /\ n.size <= whole /\ whole \in Nat
    <3> HIDE DEF near, whole
    <3> SUFFICES ASSUME NEW n \in near PROVE n.size \in Nat /\ n.size <= whole /\ whole \in Nat
      OBVIOUS
    <3>1. n.first \in Nat /\ n.size \in Nat /\ n.first + n.size <= 2 ^ Bits[n.version]
      BY <2>4, NetworkForm, NumbersAre
    <3>2. 2 ^ Bits[n.version] \in Nat
      <4>1. n.version \in Versions /\ Bits[n.version] \in 0..Bits[n.version]
        BY <2>4, NumbersAre, BitsAssumption
      <4> QED
        BY <4>1, PowerType
    <3>3. n.version = o.version
      BY <2>4
    <3> QED
      BY <3>1, <3>2, <3>3 DEF whole
  <2>6. gaps \subseteq Nat /\ gaps # {}
    <3> HIDE DEF near, whole
    <3> QED
      BY <2>3, <2>5
  <2>7. PICK gap \in gaps : \A g \in gaps : gap <= g
    <3> HIDE DEF gaps
    <3> QED
      BY <2>6, LeastNumber
  <2>8. PICK n \in near : gap = whole - n.size
    OBVIOUS
  <2>9. \A m \in near : m.size <= n.size
    <3> SUFFICES ASSUME NEW m \in near PROVE m.size <= n.size
      OBVIOUS
    <3>1. whole - n.size <= whole - m.size
      BY <2>7, <2>8
    <3> HIDE DEF near, whole
    <3> QED
      BY <2>5, <3>1
  <2>10. ASSUME NEW m \in inside, In(n, m) PROVE m = n
    <3>1. m \in Networks /\ n \in Networks /\ m \in near
      BY <2>10, InIsSubset
    <3>2. m.size <= n.size /\ n.size <= m.size /\ m.size \in Nat /\ n.size \in Nat
      BY <2>5, <2>9, <2>10, <3>1, InIsSubset
    <3> QED
      BY <2>10, <3>1, <3>2, InIsSubset
  <2> QED
    BY <1>1, <2>10
<1> QED
  BY <1>1, <1>2

\* The list of a set of networks has each of them and no other.
LEMMA ListedHolds ==
  ASSUME NEW nets, nets \subseteq Networks
  PROVE  /\ Listed(nets) \in Seq(Networks)
         /\ Range(Listed(nets)) = nets
<1> DEFINE less == {p \in nets \X nets : Precedes(p[1], p[2])}
           l == InOrder(nets, less)
           N == Cardinality(nets)
<1>1. Listed(nets) = l
  BY DEF Listed
<1>2. IsFiniteSet(nets) /\ N \in Nat
  BY NetworksFinite, FS_Subset, FS_CardinalityType
<1>3. Orders(less, nets)
  <2>1. \A y, z \in nets : <<y, z>> \in less <=> Precedes(y, z)
    OBVIOUS
  <2> HIDE DEF less
  <2> QED
    BY <2>1, PrecedesOrders DEF Orders
<1>4. /\ l \in [1..N -> nets]
      /\ \A n \in nets : \E k \in 1..N : l[k] = n
  <2> HIDE DEF less
  <2> QED
    BY <1>2, <1>3, InOrderSorts
<1> HIDE DEF l, less, N
<1>5. l \in [1..N -> Networks]
  BY <1>4
<1>6. l \in Seq(Networks) /\ DOMAIN l = 1..N
  BY <1>2, <1>5
<1> QED
  BY <1>1, <1>4, <1>6 DEF Range

\* An address of a list is in some network.
LEMMA ListNumbers ==
  ASSUME NEW l \in Seq(Networks), NEW c \in AddressesOf(l)
  PROVE  \E n \in Networks : c \in Numbers(n)
BY DEF AddressesOf

\* Excluding takes away what the excludes cover and nothing else.
LEMMA ExcludeAddrsIs ==
  ASSUME NEW l \in Seq(Networks), NEW x
  PROVE  /\ ExcludeAddrs(l, x) \in Seq(Networks)
         /\ AddressesOf(ExcludeAddrs(l, x)) = AddressesOf(l) \ AddressesOf(x)
<1> DEFINE numbers == AddressesOf(l) \ AddressesOf(x)
           nets == LargestNetworks(numbers)
<1>1. \A c \in numbers : \E n \in Networks : c \in Numbers(n)
  BY ListNumbers
<1>2. ExcludeAddrs(l, x) = Listed(nets)
  BY DEF ExcludeAddrs
<1> HIDE DEF numbers
<1>3. /\ nets \subseteq Networks
      /\ \A c : (\E n \in nets : c \in Numbers(n)) <=> c \in numbers
  BY <1>1, LargestCover
<1> HIDE DEF nets
<1>4. Listed(nets) \in Seq(Networks) /\ Range(Listed(nets)) = nets
  BY <1>3, ListedHolds
<1>5. \A c : c \in AddressesOf(Listed(nets)) <=> c \in numbers
  BY <1>3, <1>4, AddressesOfRange
<1> QED
  BY <1>2, <1>4, <1>5 DEF numbers

\* The networks of one version, and what they cover.
LEMMA OfVersionIs ==
  ASSUME NEW l \in Seq(Networks), NEW v
  PROVE  /\ OfVersion(l, v) \in Seq(Networks)
         /\ Range(OfVersion(l, v)) = {n \in Range(l) : n.version = v}
         /\ \A c : c \in AddressesOf(OfVersion(l, v)) <=> c \in AddressesOf(l) /\ c[1] = v
<1>1. /\ OfVersion(l, v) \in Seq(Networks)
      /\ Range(OfVersion(l, v)) = {n \in Range(l) : n.version = v}
  BY ThoseHolds DEF OfVersion
<1>2. \A n \in Range(l) : n \in Networks
  BY DEF Range
<1>3. \A n \in Networks : \A c \in Numbers(n) : c[1] = n.version
  BY DEF Numbers
<1> QED
  BY <1>1, <1>2, <1>3, AddressesOfRange

-----------------------------------------------------------------------------
(* Ports *)

Ports == Nat \X Nat

\* A range has a lower and an upper end.
LEMMA PortIs ==
  ASSUME NEW r \in Ports
  PROVE  /\ r[1] \in Nat /\ r[2] \in Nat /\ r = <<r[1], r[2]>> /\ r \in PortRange
BY DEF Ports, PortRange

\* What a port list covers.
LEMMA CoverHolds ==
  ASSUME NEW l
  PROVE  \A c : c \in Cover(l) <=> \E k \in DOMAIN l : c \in Span(l[k])
BY DEF Cover

\* Sorting a port list keeps its length and what it covers.
LEMMA SortPortsHolds ==
  ASSUME NEW l \in Seq(Ports)
  PROVE  /\ SortPorts(l) \in Seq(Ports)
         /\ Len(SortPorts(l)) = Len(l)
         /\ Cover(SortPorts(l)) = Cover(l)
         /\ Ordered(SortPorts(l))
<1> DEFINE places == DOMAIN l
           Sooner0(j, k) == PortBefore(l[j], l[k]) \/ (l[j] = l[k] /\ j < k)
           sooner == {p \in places \X places : Sooner0(p[1], p[2])}
           order == InOrder(places, sooner)
           sorted == SortPorts(l)
<1>1. /\ Len(l) \in Nat /\ places = 1..Len(l)
      /\ \A k \in places : l[k] \in Ports
  OBVIOUS
<1>2. IsFiniteSet(places) /\ Cardinality(places) = Len(l)
  BY <1>1, FS_Interval
<1>3. \A i, j \in places : <<i, j>> \in sooner <=> Sooner0(i, j)
  OBVIOUS
<1>4. Orders(sooner, places)
  <2> HIDE DEF sooner
  <2>1. \A i \in places : i \in Nat
    BY <1>1
  <2>2. \A p \in Ports : ~PortBefore(p, p)
    BY PortIs DEF PortBefore
  <2>3. \A p, q \in Ports : p = q \/ PortBefore(p, q) \/ PortBefore(q, p)
    BY PortIs DEF PortBefore
  <2>4. \A p, q, r \in Ports : PortBefore(p, q) /\ PortBefore(q, r) => PortBefore(p, r)
    BY PortIs DEF PortBefore
  <2>5. \A i \in places : ~Sooner0(i, i)
    BY <1>1, <2>1, <2>2
  <2>6. \A i, j \in places : i # j => Sooner0(i, j) \/ Sooner0(j, i)
    BY <1>1, <2>1, <2>3
  <2>7. ASSUME NEW i \in places, NEW j \in places, NEW k \in places, Sooner0(i, j), Sooner0(j, k)
        PROVE  Sooner0(i, k)
    BY <1>1, <2>1, <2>4, <2>7
  <2> HIDE DEF places, Sooner0
  <2> QED
    BY <1>3, <2>5, <2>6, <2>7 DEF Orders
<1>5. /\ order \in [places -> places]
      /\ \A i \in places : \E k \in places : order[k] = i
      /\ \A j, k \in places : j < k => <<order[j], order[k]>> \in sooner
  <2> HIDE DEF sooner
  <2>1. 1..Cardinality(places) = places
    BY <1>1, <1>2
  <2> HIDE DEF places
  <2> QED
    BY <1>2, <1>4, <2>1, InOrderSorts
<1>6. sorted = [k \in places |-> l[order[k]]]
  BY DEF SortPorts
<1> HIDE DEF order, sorted
<1>7. sorted \in [1..Len(l) -> Ports]
  BY <1>1, <1>5, <1>6
<1>8. sorted \in Seq(Ports) /\ DOMAIN sorted = places /\ Len(sorted) = Len(l)
  BY <1>1, <1>7
<1>9. \A c : c \in Cover(sorted) <=> c \in Cover(l)
  <2> HIDE DEF places
  <2>1. \A k \in places : order[k] \in places /\ sorted[k] = l[order[k]]
    BY <1>5, <1>6
  <2>2. \A i \in places : \E k \in places : sorted[k] = l[i]
    BY <1>5, <2>1
  <2>3. DOMAIN l = places
    BY DEF places
  <2> QED
    <3>1. \A c : c \in Cover(sorted) <=> \E k \in places : c \in Span(sorted[k])
      BY <1>8, CoverHolds
    <3>2. \A c : c \in Cover(l) <=> \E k \in places : c \in Span(l[k])
      BY <2>3, CoverHolds
    <3> HIDE DEF sooner
    <3> QED
      BY <2>1, <2>2, <3>1, <3>2
<1>10. Ordered(sorted)
  <2> SUFFICES ASSUME NEW j \in places, NEW k \in places, j < k
               PROVE  sorted[j][1] <= sorted[k][1]
    BY <1>8 DEF Ordered
  <2>1. Sooner0(order[j], order[k])
    BY <1>3, <1>5
  <2>2. /\ order[j] \in places /\ order[k] \in places
        /\ sorted[j] = l[order[j]] /\ sorted[k] = l[order[k]]
    BY <1>5, <1>6
  <2>3. sorted[j] \in Ports /\ sorted[k] \in Ports
    BY <1>1, <2>2
  <2>4. sorted[j][1] \in Nat /\ sorted[k][1] \in Nat
    BY <2>3, PortIs
  <2>5. PortBefore(sorted[j], sorted[k]) \/ sorted[j] = sorted[k]
    BY <2>1, <2>2
  <2> QED
    BY <2>4, <2>5 DEF PortBefore
<1>11. Cover(sorted) = Cover(l)
  BY <1>9
<1> QED
  BY <1>8, <1>10, <1>11 DEF sorted

\* A turn of the loop, when no range that was kept starts after the port.
LEMMA CollapsePortHolds ==
  ASSUME NEW kept \in Seq(Ports), Ordered(kept), NEW port \in Ports,
         kept # <<>> => Last(kept)[1] <= port[1]
  PROVE  /\ CollapsePort(kept, port) \in Seq(Ports)
         /\ CollapsePort(kept, port) # <<>>
         /\ Ordered(CollapsePort(kept, port))
         /\ Last(CollapsePort(kept, port))[1] <= port[1]
         /\ Cover(CollapsePort(kept, port)) = Cover(kept) \cup Span(port)
<1> DEFINE new == CollapsePort(kept, port)
           last == Last(kept)
<1>1. port[1] \in Nat /\ port[2] \in Nat /\ port \in PortRange
  BY PortIs
<1>2. CASE kept = <<>>
  <2>1. new = <<port>>
    BY <1>2 DEF CollapsePort
  <2>2. new \in Seq(Ports) /\ DOMAIN new = {1} /\ new[1] = port /\ Len(new) = 1 /\ new # <<>>
    BY <2>1
  <2>3. DOMAIN kept = {}
    BY <1>2
  <2> HIDE DEF new
  <2>4. Ordered(new)
    BY <2>2 DEF Ordered
  <2>5. \A c : c \in Cover(new) <=> c \in Cover(kept) \/ c \in Span(port)
    BY <2>2, <2>3, CoverHolds
  <2>6. Last(new)[1] <= port[1]
    BY <1>1, <2>2 DEF Last
  <2> QED
    BY <2>2, <2>4, <2>5, <2>6 DEF new
<1>3. CASE kept # <<>>
  <2>1. /\ Len(kept) \in Nat \ {0} /\ DOMAIN kept = 1..Len(kept) /\ Len(kept) \in DOMAIN kept
        /\ last = kept[Len(kept)] /\ last \in Ports
        /\ \A k \in DOMAIN kept : kept[k] \in Ports
    BY <1>3 DEF Last
  <2> HIDE DEF last
  <2>2. last[1] \in Nat /\ last[2] \in Nat /\ last[1] <= port[1]
    BY <1>3, <2>1, PortIs DEF last
  <2>3. CASE last[2] >= port[2]
    <3>1. new = kept
      BY <1>3, <2>3 DEF CollapsePort, last
    <3>2. Span(port) \subseteq Span(last)
      BY <1>1, <2>2, <2>3 DEF Span
    <3>3. Span(last) \subseteq Cover(kept)
      BY <2>1, CoverHolds
    <3>4. Last(new)[1] <= port[1]
      BY <2>2, <3>1 DEF last
    <3>5. Cover(kept) = Cover(kept) \cup Span(port)
      BY <3>2, <3>3
    <3> HIDE DEF new
    <3> QED
      BY <1>3, <3>1, <3>4, <3>5 DEF new
  <2>4. CASE ~(last[2] >= port[2]) /\ (port[1] < last[2] \/ port[1] = last[2] + 1)
    <3> DEFINE joined == <<last[1], port[2]>>
    <3>1. new = [kept EXCEPT ![Len(kept)] = joined]
      BY <1>3, <2>1, <2>4 DEF CollapsePort, last
    <3>2. joined \in Ports /\ joined[1] = last[1] /\ joined[2] = port[2]
      BY <1>1, <2>2 DEF Ports
    <3> HIDE DEF new, joined
    <3>3. /\ new \in Seq(Ports) /\ Len(new) = Len(kept) /\ DOMAIN new = DOMAIN kept
          /\ new[Len(kept)] = joined
          /\ \A k \in DOMAIN kept : k # Len(kept) => new[k] = kept[k]
      BY <2>1, <3>1, <3>2, ExceptSeq
    <3>4. \A k \in DOMAIN kept : new[k][1] = kept[k][1]
      BY <2>1, <3>2, <3>3
    <3>5. Ordered(new)
      BY <3>3, <3>4 DEF Ordered
    <3>6. new # <<>>
      BY <2>1, <3>3
    <3>7. Last(new)[1] <= port[1]
      BY <2>2, <3>2, <3>3 DEF Last
    <3>8. \A c : c \in Span(joined) <=> c \in Span(last) \/ c \in Span(port)
      BY <1>1, <2>2, <2>4, <3>2 DEF Span
    <3>9. \A c : c \in Cover(new) <=> c \in Cover(kept) \/ c \in Span(port)
      BY <2>1, <3>3, <3>8, CoverHolds
    <3> QED
      BY <3>3, <3>5, <3>6, <3>7, <3>9 DEF new
  <2>5. CASE ~(last[2] >= port[2]) /\ ~(port[1] < last[2] \/ port[1] = last[2] + 1)
    <3>1. new = Append(kept, port)
      BY <1>3, <2>5 DEF CollapsePort, last
    <3> HIDE DEF new
    <3>2. /\ new \in Seq(Ports) /\ Len(new) = Len(kept) + 1 /\ DOMAIN new = 1..(Len(kept) + 1)
          /\ new[Len(kept) + 1] = port
          /\ \A k \in DOMAIN kept : new[k] = kept[k]
      BY <2>1, <3>1
    <3>3. \A k \in DOMAIN new : k \in DOMAIN kept \/ k = Len(kept) + 1
      BY <2>1, <3>2
    <3>4. new # <<>>
      BY <2>1, <3>2
    <3>5. Last(new)[1] <= port[1]
      BY <1>1, <3>2 DEF Last
    <3>6. \A k \in DOMAIN kept : kept[k][1] \in Nat /\ kept[k][1] <= last[1]
      <4>1. \A k \in DOMAIN kept : k < Len(kept) => kept[k][1] <= kept[Len(kept)][1]
        BY <2>1 DEF Ordered
      <4>2. \A k \in DOMAIN kept : kept[k][1] \in Nat
        BY <2>1, PortIs
      <4> QED
        BY <2>1, <2>2, <4>1, <4>2 DEF last, Last
    <3>7. Ordered(new)
      <4> SUFFICES ASSUME NEW j \in DOMAIN new, NEW k \in DOMAIN new, j < k
                   PROVE  new[j][1] <= new[k][1]
        BY DEF Ordered
      <4>1. j \in DOMAIN kept
        BY <2>1, <3>2
      <4>2. CASE k \in DOMAIN kept
        BY <3>2, <4>1, <4>2 DEF Ordered
      <4>3. CASE k = Len(kept) + 1
        BY <1>1, <2>2, <3>2, <3>6, <4>1, <4>3
      <4> QED
        BY <3>3, <4>2, <4>3
    <3>8. DOMAIN kept \subseteq DOMAIN new /\ Len(kept) + 1 \in DOMAIN new
      BY <2>1, <3>2
    <3>9. \A c : c \in Cover(new) <=> c \in Cover(kept) \/ c \in Span(port)
      BY <3>2, <3>3, <3>8, CoverHolds
    <3> QED
      BY <3>2, <3>4, <3>5, <3>7, <3>9 DEF new
  <2> QED
    BY <2>3, <2>4, <2>5
<1> QED
  BY <1>2, <1>3

\* Collapsing a range into a port list leaves a port list.
LEMMA CollapsePortType ==
  ASSUME NEW kept \in Seq(Ports), NEW port \in Ports
  PROVE  CollapsePort(kept, port) \in Seq(Ports)
<1>1. CASE kept = <<>>
  BY <1>1 DEF CollapsePort
<1>2. CASE kept # <<>>
  <2>1. Len(kept) \in DOMAIN kept /\ kept[Len(kept)] \in Ports
    BY <1>2
  <2>2. <<kept[Len(kept)][1], port[2]>> \in Ports
    BY <2>1, PortIs DEF Ports
  <2>3. [kept EXCEPT ![Len(kept)] = <<@[1], port[2]>>] \in Seq(Ports)
    BY <2>1, <2>2
  <2>4. Append(kept, port) \in Seq(Ports)
    OBVIOUS
  <2> QED
    BY <1>2, <2>3, <2>4 DEF CollapsePort
<1> QED
  BY <1>1, <1>2

\* The list a pass makes of an ordered one.
LEMMA CollapsePassHolds ==
  ASSUME NEW l \in Seq(Ports), Ordered(l)
  PROVE  /\ CollapsePass(l) \in Seq(Ports)
         /\ Ordered(CollapsePass(l))
         /\ l # <<>> => CollapsePass(l) # <<>>
         /\ Cover(CollapsePass(l)) = Cover(l)
<1> DEFINE N == Len(l)
           Loops(f) == f = [k \in 0..N |-> IF k = 0 THEN <<>> ELSE CollapsePort(f[k - 1], l[k])]
           kept == CHOOSE f : Loops(f)
           step == [q \in Seq(Ports) \X Ports |-> CollapsePort(q[1], q[2])]
<1>1. N \in Nat /\ DOMAIN l = 1..N /\ \A k \in 1..N : l[k] \in Ports
  OBVIOUS
<1>2. CollapsePass(l) = kept[N]
  BY DEF CollapsePass
<1>3. \E f : Loops(f)
  <2>1. step \in [Seq(Ports) \X Ports -> Seq(Ports)]
    BY CollapsePortType
  <2>2. <<>> \in Seq(Ports)
    OBVIOUS
  <2> HIDE DEF step
  <2>3. PICK f \in [0..Len(l) -> Seq(Ports)] :
          f[0] = <<>> /\ \A k \in 1..Len(l) : f[k] = step[<<f[k - 1], l[k]>>]
    <3>1. \E f : Follows(f, Seq(Ports), <<>>, step, l)
      BY <2>1, <2>2, Recursion
    <3> QED
      BY <3>1 DEF Follows
  <2>4. \A k \in 1..N : f[k] = CollapsePort(f[k - 1], l[k])
    <3> SUFFICES ASSUME NEW k \in 1..N PROVE f[k] = CollapsePort(f[k - 1], l[k])
      OBVIOUS
    <3>1. k - 1 \in 0..N
      BY <1>1
    <3>2. <<f[k - 1], l[k]>> \in Seq(Ports) \X Ports
      BY <1>1, <2>3, <3>1
    <3>3. step[<<f[k - 1], l[k]>>] = CollapsePort(f[k - 1], l[k])
      BY <3>2 DEF step
    <3> QED
      BY <2>3, <3>3
  <2>5. \A k \in 0..N : f[k] = IF k = 0 THEN <<>> ELSE CollapsePort(f[k - 1], l[k])
    BY <1>1, <2>3, <2>4
  <2>6. f = [k \in 0..N |-> f[k]]
    BY <2>3
  <2>7. Loops(f)
    BY <2>5, <2>6, Zenon
  <2> QED
    BY <2>7
<1>4. Loops(kept)
  BY <1>3
<1> HIDE DEF kept, step
<1>5. kept[0] = <<>> /\ \A k \in 1..N : kept[k] = CollapsePort(kept[k - 1], l[k])
  BY <1>1, <1>4
<1> DEFINE Good(k) ==
             /\ kept[k] \in Seq(Ports) /\ Ordered(kept[k])
             /\ k = 0 <=> kept[k] = <<>>
             /\ k # 0 => Last(kept[k])[1] <= l[k][1]
             /\ \A c : c \in Cover(kept[k]) <=> \E j \in 1..k : c \in Span(l[j])
           good == {k \in Nat : k <= N => Good(k)}
<1> HIDE DEF Loops
<1>6. 0 \in good
  <2>1. \A c : c \notin Cover(<<>>)
    BY CoverHolds
  <2>2. Ordered(<<>>)
    BY DEF Ordered
  <2>3. 1..0 = {}
    OBVIOUS
  <2>4. kept[0] \in Seq(Ports)
    BY <1>5
  <2>5. Good(0)
    BY <1>5, <2>1, <2>2, <2>3, <2>4
  <2> QED
    BY <2>5
<1>7. ASSUME NEW k \in Nat, k \in good PROVE k + 1 \in good
  <2> SUFFICES ASSUME k + 1 <= N PROVE Good(k + 1)
    OBVIOUS
  <2>1. k + 1 \in 1..N /\ (k + 1) - 1 = k /\ Good(k) /\ l[k + 1] \in Ports
    BY <1>1, <1>7
  <2>2. kept[k + 1] = CollapsePort(kept[k], l[k + 1])
    BY <1>5, <2>1
  <2>3. kept[k] # <<>> => Last(kept[k])[1] <= l[k + 1][1]
    <3> SUFFICES ASSUME k # 0 PROVE Last(kept[k])[1] <= l[k + 1][1]
      BY <2>1
    <3>1. k \in 1..N /\ l[k] \in Ports /\ l[k][1] \in Nat /\ l[k + 1][1] \in Nat
      BY <1>1, <2>1, PortIs
    <3>2. l[k][1] <= l[k + 1][1]
      BY <1>1, <2>1, <3>1 DEF Ordered
    <3>3. kept[k] # <<>> /\ kept[k] \in Seq(Ports)
      BY <2>1
    <3>4. Last(kept[k]) \in Ports
      BY <3>3 DEF Last
    <3>5. Last(kept[k])[1] \in Nat
      BY <3>4, PortIs
    <3> QED
      BY <2>1, <3>1, <3>2, <3>5
  <2>4. /\ kept[k + 1] \in Seq(Ports) /\ kept[k + 1] # <<>>
        /\ Ordered(kept[k + 1])
        /\ Last(kept[k + 1])[1] <= l[k + 1][1]
        /\ Cover(kept[k + 1]) = Cover(kept[k]) \cup Span(l[k + 1])
    BY <2>1, <2>2, <2>3, CollapsePortHolds
  <2>5. \A j : j \in 1..(k + 1) <=> j \in 1..k \/ j = k + 1
    OBVIOUS
  <2>6. \A c : c \in Cover(kept[k + 1]) <=> \E j \in 1..(k + 1) : c \in Span(l[j])
    BY <2>1, <2>4, <2>5
  <2> QED
    BY <2>4, <2>6
<1>8. N \in good
  <2> HIDE DEF good
  <2> QED
    BY <1>1, <1>6, <1>7, AllNumbers
<1>9. Good(N)
  BY <1>1, <1>8
<1>10. \A c : c \in Cover(l) <=> c \in Cover(kept[N])
  BY <1>1, <1>9, CoverHolds
<1>11. Cover(kept[N]) = Cover(l)
  BY <1>10
<1>12. l # <<>> => N # 0
  OBVIOUS
<1> QED
  BY <1>2, <1>9, <1>11, <1>12

\* Collapsing a port list keeps what it covers.
LEMMA CollapsePortListHolds ==
  ASSUME NEW l \in Seq(Ports)
  PROVE  /\ CollapsePortList(l) \in Seq(Ports)
         /\ l # <<>> => CollapsePortList(l) # <<>>
         /\ Cover(CollapsePortList(l)) = Cover(l)
<1> DEFINE once == CollapsePass(SortPorts(l))
<1>1. /\ SortPorts(l) \in Seq(Ports) /\ Ordered(SortPorts(l))
      /\ l # <<>> => SortPorts(l) # <<>>
      /\ Cover(SortPorts(l)) = Cover(l)
  BY SortPortsHolds
<1>2. /\ once \in Seq(Ports) /\ Ordered(once)
      /\ l # <<>> => once # <<>>
      /\ Cover(once) = Cover(l)
  BY <1>1, CollapsePassHolds
<1>3. CollapsePortList(l) = CollapsePass(once)
  BY DEF CollapsePortList
<1> HIDE DEF once
<1> QED
  BY <1>2, <1>3, CollapsePassHolds

\* A term that is for established connections of TCP and UDP has the high ports.
HighPortsAdded(t) ==
  HasHighPorts(t) =>
    t.destination_port # <<>> /\ Span(HighPorts) \subseteq Cover(t.destination_port)

\* What FixHighPorts adds: the high ports, to a term that asks for them, and no more.
LEMMA FixHighPortsAdds ==
  ASSUME NEW t, t.destination_port \in Seq(Ports), DOMAIN t = DOMAIN EmptyTerm
  PROVE  LET fixed == FixHighPorts(t) IN
         /\ DOMAIN fixed = DOMAIN EmptyTerm
         /\ \A a \in DOMAIN EmptyTerm : a # "destination_port" => fixed[a] = t[a]
         /\ fixed.destination_port \in Seq(Ports)
         /\ HighPortsAdded(fixed)
         /\ HasHighPorts(fixed) <=> HasHighPorts(t)
         /\ ~HasHighPorts(t) => fixed = t
         /\ HasHighPorts(t) =>
              Cover(fixed.destination_port) = Cover(t.destination_port) \cup Span(HighPorts)
<1> DEFINE fixed == FixHighPorts(t)
           more == Append(t.destination_port, HighPorts)
           new == CollapsePortList(more)
<1>1. DOMAIN EmptyTerm = DOMAIN t /\ "destination_port" \in DOMAIN t
      /\ "option" \in DOMAIN t /\ "protocol" \in DOMAIN t
  BY DEF EmptyTerm
<1>2. more \in Seq(Ports) /\ more # <<>> /\ Cover(more) = Cover(t.destination_port) \cup Span(HighPorts)
  <2>1. HighPorts \in Ports
    BY AclGeneratorAssumption DEF Ports
  <2>2. /\ more \in Seq(Ports) /\ Len(more) = Len(t.destination_port) + 1
        /\ DOMAIN more = 1..(Len(t.destination_port) + 1)
        /\ DOMAIN t.destination_port = 1..Len(t.destination_port)
        /\ Len(t.destination_port) \in Nat
        /\ more[Len(t.destination_port) + 1] = HighPorts
        /\ \A k \in 1..Len(t.destination_port) : more[k] = t.destination_port[k]
    BY <2>1
  <2> HIDE DEF more
  <2>3. \A k : k \in DOMAIN more <=> k \in DOMAIN t.destination_port \/ k = Len(t.destination_port) + 1
    BY <2>2
  <2>4. \A c : c \in Cover(more) <=> c \in Cover(t.destination_port) \/ c \in Span(HighPorts)
    BY <2>2, <2>3, CoverHolds
  <2> QED
    BY <2>2, <2>4
<1> HIDE DEF more
<1>3. new \in Seq(Ports) /\ new # <<>> /\ Cover(new) = Cover(t.destination_port) \cup Span(HighPorts)
  BY <1>2, CollapsePortListHolds
<1>4. CASE ~HasHighPorts(t)
  <2>1. fixed = t
    BY <1>4 DEF FixHighPorts
  <2> HIDE DEF fixed
  <2> QED
    BY <1>1, <1>4, <2>1 DEF fixed, HighPortsAdded
<1>5. CASE HasHighPorts(t)
  <2>1. fixed = [t EXCEPT !.destination_port = new]
    BY <1>5 DEF FixHighPorts, more
  <2> HIDE DEF fixed, new
  <2>2. /\ DOMAIN fixed = DOMAIN t
        /\ fixed.destination_port = new
        /\ \A a \in DOMAIN t : a # "destination_port" => fixed[a] = t[a]
    BY <1>1, <2>1
  <2>3. fixed.option = t.option /\ fixed.protocol = t.protocol
    BY <1>1, <2>2
  <2>4. HasHighPorts(fixed)
    BY <1>5, <2>3 DEF HasHighPorts, Established
  <2>5. HighPortsAdded(fixed)
    BY <1>3, <2>2 DEF HighPortsAdded
  <2> QED
    BY <1>1, <1>3, <1>5, <2>2, <2>4, <2>5 DEF fixed
<1> QED
  BY <1>4, <1>5

-----------------------------------------------------------------------------
(* Rules *)

\* A rule that only tests what all platforms have a test for.
PlainRule(r) ==
  /\ r.verbatim = {} /\ r.protocol_except = {} /\ r.address = <<>> /\ r.port = <<>>
  /\ r.precedence = {} /\ r.source_prefix = {} /\ r.destination_prefix = {}

Test(set, x) == set = {} \/ x \in set

\* Those tests.
Tests(r, p) ==
  /\ Test(r.protocol, p.protocol)
  /\ Test(r.icmp_type, p.icmp_type)
  /\ Among(p.source, r.source_address, r.source_address_exclude)
  /\ Among(p.destination, r.destination_address, r.destination_address_exclude)
  /\ AmongPorts(p.source_port, r.source_port)
  /\ AmongPorts(p.destination_port, r.destination_port)
  /\ r.option \subseteq p.option
  /\ Within(p.fragment_offset, r.fragment_offset)
  /\ Within(p.packet_length, r.packet_length)

\* What a packet has to pass to meet a plain rule.
LEMMA PlainRuleMeets ==
  ASSUME NEW r, PlainRule(r), NEW p
  PROVE  Meets(r, p) <=> Tests(r, p)
<1>1. r.address = <<>> /\ AmongPorts(p.source_port, r.port)
  BY DEF PlainRule, AmongPorts
<1> QED
  BY <1>1, Zenon DEF Meets, Matches, Tests, PlainRule, Test

\* A rule for each value tests what one rule for all of them does.
LEMMA EachTests ==
  ASSUME NEW set, NEW x
  PROVE  (\E q \in Each(set) : Test(q, x)) <=> Test(set, x)
BY DEF Each, Test

Side(list, c) == list = <<>> \/ c \in AddressesOf(list)

\* Likewise for the addresses of a side ...
LEMMA EachOfSide ==
  ASSUME NEW list, NEW c
  PROVE  (\E s \in EachOf(list) : Side(s, c)) <=> Side(list, c)
<1>1. CASE list = <<>>
  BY <1>1 DEF EachOf, Side
<1>2. CASE list # <<>>
  <2>1. EachOf(list) = {<<list[k]>> : k \in DOMAIN list}
    BY <1>2 DEF EachOf
  <2>2. \A k \in DOMAIN list : Side(<<list[k]>>, c) <=> c \in Numbers(list[k])
    <3> SUFFICES ASSUME NEW k \in DOMAIN list
                 PROVE  Side(<<list[k]>>, c) <=> c \in Numbers(list[k])
      OBVIOUS
    <3> DEFINE one == <<list[k]>>
    <3>1. one # <<>> /\ DOMAIN one = {1} /\ one[1] = list[k]
      OBVIOUS
    <3> HIDE DEF one
    <3> QED
      BY <3>1 DEF Side, AddressesOf, one
  <2>3. Side(list, c) <=> \E k \in DOMAIN list : c \in Numbers(list[k])
    BY <1>2 DEF Side, AddressesOf
  <2> QED
    BY <2>1, <2>2, <2>3
<1> QED
  BY <1>1, <1>2

\* ... and for ports.
LEMMA EachOfPorts ==
  ASSUME NEW list, NEW c
  PROVE  (\E s \in EachOf(list) : AmongPorts(c, s)) <=> AmongPorts(c, list)
<1>1. CASE list = <<>>
  BY <1>1 DEF EachOf, AmongPorts
<1>2. CASE list # <<>>
  <2>1. EachOf(list) = {<<list[k]>> : k \in DOMAIN list}
    BY <1>2 DEF EachOf
  <2>2. \A k \in DOMAIN list : AmongPorts(c, <<list[k]>>) <=> c \in Span(list[k])
    <3> SUFFICES ASSUME NEW k \in DOMAIN list
                 PROVE  AmongPorts(c, <<list[k]>>) <=> c \in Span(list[k])
      OBVIOUS
    <3> DEFINE one == <<list[k]>>
    <3>1. one # <<>> /\ DOMAIN one = {1} /\ one[1] = list[k]
      OBVIOUS
    <3> HIDE DEF one
    <3> QED
      BY <3>1 DEF AmongPorts, Cover, one
  <2>3. AmongPorts(c, list) <=> \E k \in DOMAIN list : c \in Span(list[k])
    BY <1>2 DEF AmongPorts, Cover
  <2> QED
    BY <2>1, <2>2, <2>3
<1> QED
  BY <1>1, <1>2

\* The rule of one combination.
Combination(t, q, i, s, d, sp, dp) ==
  [t EXCEPT !.protocol = q, !.icmp_type = i,
     !.source_address = s, !.source_address_exclude = <<>>,
     !.destination_address = d, !.destination_address_exclude = <<>>,
     !.source_port = sp, !.destination_port = dp]

\* The rules of a product are the combinations of its parts.
LEMMA ProductIs ==
  ASSUME NEW t, NEW S, NEW D, NEW SP, NEW DP, NEW r
  PROVE  r \in Product(t, S, D, SP, DP) <=>
           \E q \in Each(t.protocol), i \in Each(t.icmp_type), s \in EachOf(S), d \in EachOf(D),
              sp \in SP, dp \in DP : r = Combination(t, q, i, s, d, sp, dp)
BY DEF Product, Combination

\* The fields of a combination.
LEMMA CombinationIs ==
  ASSUME NEW t, DOMAIN t = DOMAIN EmptyTerm, NEW q, NEW i, NEW s, NEW d, NEW sp, NEW dp,
         NEW r, r = Combination(t, q, i, s, d, sp, dp)
  PROVE  /\ r.verbatim = t.verbatim /\ r.protocol_except = t.protocol_except
         /\ r.address = t.address /\ r.port = t.port /\ r.precedence = t.precedence
         /\ r.source_prefix = t.source_prefix /\ r.destination_prefix = t.destination_prefix
         /\ r.protocol = q /\ r.icmp_type = i
         /\ r.source_address = s /\ r.source_address_exclude = <<>>
         /\ r.destination_address = d /\ r.destination_address_exclude = <<>>
         /\ r.source_port = sp /\ r.destination_port = dp
         /\ r.option = t.option /\ r.fragment_offset = t.fragment_offset
         /\ r.packet_length = t.packet_length
         /\ DOMAIN r = DOMAIN EmptyTerm
<1>1. DOMAIN t = {"verbatim", "action", "protocol", "protocol_except", "address",
         "address_exclude", "source_address", "source_address_exclude",
         "destination_address", "destination_address_exclude", "principals", "port",
         "source_port", "destination_port", "source_prefix", "destination_prefix",
         "precedence", "option", "fragment_offset", "packet_length", "icmp_type",
         "platform", "platform_exclude"}
  BY DEF EmptyTerm
<1> QED
  BY <1>1 DEF Combination

\* What a combination tests.
LEMMA CombinationTests ==
  ASSUME NEW t, PlainRule(t), DOMAIN t = DOMAIN EmptyTerm,
         NEW q, NEW i, NEW s, NEW d, NEW sp, NEW dp, NEW p
  PROVE  /\ PlainRule(Combination(t, q, i, s, d, sp, dp))
         /\ DOMAIN Combination(t, q, i, s, d, sp, dp) = DOMAIN EmptyTerm
         /\ Combination(t, q, i, s, d, sp, dp).protocol = q
         /\ Combination(t, q, i, s, d, sp, dp).option = t.option
         /\ Tests(Combination(t, q, i, s, d, sp, dp), p) <=>
              /\ Test(q, p.protocol) /\ Test(i, p.icmp_type)
              /\ Side(s, p.source) /\ Side(d, p.destination)
              /\ AmongPorts(p.source_port, sp) /\ AmongPorts(p.destination_port, dp)
              /\ t.option \subseteq p.option
              /\ Within(p.fragment_offset, t.fragment_offset)
              /\ Within(p.packet_length, t.packet_length)
<1> DEFINE r == Combination(t, q, i, s, d, sp, dp)
<1>1. /\ r.verbatim = t.verbatim /\ r.protocol_except = t.protocol_except
      /\ r.address = t.address /\ r.port = t.port /\ r.precedence = t.precedence
      /\ r.source_prefix = t.source_prefix /\ r.destination_prefix = t.destination_prefix
      /\ r.protocol = q /\ r.icmp_type = i
      /\ r.source_address = s /\ r.source_address_exclude = <<>>
      /\ r.destination_address = d /\ r.destination_address_exclude = <<>>
      /\ r.source_port = sp /\ r.destination_port = dp
      /\ r.option = t.option /\ r.fragment_offset = t.fragment_offset
      /\ r.packet_length = t.packet_length
      /\ DOMAIN r = DOMAIN EmptyTerm
  BY CombinationIs
<1> HIDE DEF r
<1>2. \A c : c \notin AddressesOf(<<>>)
  BY DEF AddressesOf
<1>3. PlainRule(r)
  BY <1>1 DEF PlainRule
<1>4. /\ Among(p.source, r.source_address, r.source_address_exclude) <=> Side(s, p.source)
      /\ Among(p.destination, r.destination_address, r.destination_address_exclude)
           <=> Side(d, p.destination)
  BY <1>1, <1>2 DEF Among, Side
<1>5. Tests(r, p) <=>
        /\ Test(q, p.protocol) /\ Test(i, p.icmp_type)
        /\ Side(s, p.source) /\ Side(d, p.destination)
        /\ AmongPorts(p.source_port, sp) /\ AmongPorts(p.destination_port, dp)
        /\ t.option \subseteq p.option
        /\ Within(p.fragment_offset, t.fragment_offset)
        /\ Within(p.packet_length, t.packet_length)
  BY <1>1, <1>4, Zenon DEF Tests
<1> QED
  BY <1>1, <1>3, <1>5 DEF r

\* What a list of rules of every combination tests: the rules for a protocol.
LEMMA ProductTests ==
  ASSUME NEW t, PlainRule(t), DOMAIN t = DOMAIN EmptyTerm,
         NEW S, NEW D, NEW SP, NEW DP, NEW p
  PROVE  /\ \A r \in Product(t, S, D, SP, DP) :
              /\ PlainRule(r) /\ r.protocol \in Each(t.protocol) /\ r.option = t.option
              /\ DOMAIN r = DOMAIN EmptyTerm
         /\ \A q \in Each(t.protocol) :
              (\E r \in Product(t, S, D, SP, DP) : r.protocol = q /\ Tests(r, p)) <=>
                /\ Test(q, p.protocol)
                /\ Test(t.icmp_type, p.icmp_type)
                /\ Side(S, p.source) /\ Side(D, p.destination)
                /\ \E sp \in SP : AmongPorts(p.source_port, sp)
                /\ \E dp \in DP : AmongPorts(p.destination_port, dp)
                /\ t.option \subseteq p.option
                /\ Within(p.fragment_offset, t.fragment_offset)
                /\ Within(p.packet_length, t.packet_length)
<1> DEFINE rules == Product(t, S, D, SP, DP)
           rest == /\ t.option \subseteq p.option
                   /\ Within(p.fragment_offset, t.fragment_offset)
                   /\ Within(p.packet_length, t.packet_length)
<1>1. \A r : r \in rules <=>
           \E q \in Each(t.protocol), i \in Each(t.icmp_type), s \in EachOf(S), d \in EachOf(D),
              sp \in SP, dp \in DP : r = Combination(t, q, i, s, d, sp, dp)
  BY ProductIs
<1> HIDE DEF rules
<1>2. \A q, i, s, d, sp, dp :
        /\ PlainRule(Combination(t, q, i, s, d, sp, dp))
        /\ DOMAIN Combination(t, q, i, s, d, sp, dp) = DOMAIN EmptyTerm
        /\ Combination(t, q, i, s, d, sp, dp).protocol = q
        /\ Combination(t, q, i, s, d, sp, dp).option = t.option
        /\ Tests(Combination(t, q, i, s, d, sp, dp), p) <=>
              /\ Test(q, p.protocol) /\ Test(i, p.icmp_type)
              /\ Side(s, p.source) /\ Side(d, p.destination)
              /\ AmongPorts(p.source_port, sp) /\ AmongPorts(p.destination_port, dp)
              /\ rest
  <2> TAKE q, i, s, d, sp, dp
  <2> QED
    BY CombinationTests
<1> HIDE DEF rest
<1>3. ASSUME NEW r \in rules
      PROVE  /\ PlainRule(r) /\ r.protocol \in Each(t.protocol) /\ r.option = t.option
             /\ DOMAIN r = DOMAIN EmptyTerm
  <2>1. PICK q \in Each(t.protocol), i \in Each(t.icmp_type), s \in EachOf(S), d \in EachOf(D),
             sp \in SP, dp \in DP : r = Combination(t, q, i, s, d, sp, dp)
    BY <1>1
  <2> QED
    BY <1>2, <2>1
<1>4. ASSUME NEW q \in Each(t.protocol)
      PROVE (\E r \in rules : r.protocol = q /\ Tests(r, p)) <=>
                /\ Test(q, p.protocol)
                /\ Test(t.icmp_type, p.icmp_type)
                /\ Side(S, p.source) /\ Side(D, p.destination)
                /\ \E sp \in SP : AmongPorts(p.source_port, sp)
                /\ \E dp \in DP : AmongPorts(p.destination_port, dp)
                /\ rest
  <2>1. ASSUME NEW r \in rules, r.protocol = q, Tests(r, p)
        PROVE  /\ Test(q, p.protocol)
               /\ \E i \in Each(t.icmp_type) : Test(i, p.icmp_type)
               /\ \E s \in EachOf(S) : Side(s, p.source)
               /\ \E d \in EachOf(D) : Side(d, p.destination)
               /\ \E sp \in SP : AmongPorts(p.source_port, sp)
               /\ \E dp \in DP : AmongPorts(p.destination_port, dp)
               /\ rest
    <3>1. PICK q1 \in Each(t.protocol), i \in Each(t.icmp_type), s \in EachOf(S), d \in EachOf(D),
               sp \in SP, dp \in DP : r = Combination(t, q1, i, s, d, sp, dp)
      BY <1>1
    <3>2. q1 = q
      BY <1>2, <2>1, <3>1
    <3>3. /\ Test(q, p.protocol) /\ Test(i, p.icmp_type)
          /\ Side(s, p.source) /\ Side(d, p.destination)
          /\ AmongPorts(p.source_port, sp) /\ AmongPorts(p.destination_port, dp)
          /\ rest
      BY <1>2, <2>1, <3>1, <3>2
    <3> QED
      BY <3>3
  <2>2. ASSUME NEW i \in Each(t.icmp_type), Test(i, p.icmp_type),
               NEW s \in EachOf(S), Side(s, p.source),
               NEW d \in EachOf(D), Side(d, p.destination),
               NEW sp \in SP, AmongPorts(p.source_port, sp),
               NEW dp \in DP, AmongPorts(p.destination_port, dp),
               Test(q, p.protocol), rest
        PROVE  \E r \in rules : r.protocol = q /\ Tests(r, p)
    <3> DEFINE r == Combination(t, q, i, s, d, sp, dp)
    <3>1. r \in rules
      BY <1>1
    <3>2. r.protocol = q /\ Tests(r, p)
      BY <1>2, <2>2
    <3> QED
      BY <3>1, <3>2
  <2> QED
    BY <2>1, <2>2, EachTests, EachOfSide, Zenon
<1> QED
  BY <1>3, <1>4 DEF rules, rest

\* And the rules for all protocols.
LEMMA ProductMeets ==
  ASSUME NEW t, PlainRule(t), DOMAIN t = DOMAIN EmptyTerm,
         NEW S, NEW D, NEW SP, NEW DP, NEW p
  PROVE  (\E r \in Product(t, S, D, SP, DP) : Meets(r, p)) <=>
           /\ Test(t.protocol, p.protocol)
           /\ Test(t.icmp_type, p.icmp_type)
           /\ Side(S, p.source) /\ Side(D, p.destination)
           /\ \E sp \in SP : AmongPorts(p.source_port, sp)
           /\ \E dp \in DP : AmongPorts(p.destination_port, dp)
           /\ t.option \subseteq p.option
           /\ Within(p.fragment_offset, t.fragment_offset)
           /\ Within(p.packet_length, t.packet_length)
<1> DEFINE rules == Product(t, S, D, SP, DP)
           Rest ==
                /\ Test(t.icmp_type, p.icmp_type)
                /\ Side(S, p.source) /\ Side(D, p.destination)
                /\ \E sp \in SP : AmongPorts(p.source_port, sp)
                /\ \E dp \in DP : AmongPorts(p.destination_port, dp)
                /\ t.option \subseteq p.option
                /\ Within(p.fragment_offset, t.fragment_offset)
                /\ Within(p.packet_length, t.packet_length)
<1>1. \A r \in rules : PlainRule(r) /\ r.protocol \in Each(t.protocol)
  BY ProductTests, Zenon
<1>2. \A q \in Each(t.protocol) :
        (\E r \in rules : r.protocol = q /\ Tests(r, p)) <=> Test(q, p.protocol) /\ Rest
  BY ProductTests
<1> HIDE DEF rules, Rest
<1>3. \A r \in rules : Meets(r, p) <=> Tests(r, p)
  BY <1>1, PlainRuleMeets
<1>4. (\E r \in rules : Meets(r, p)) <=>
        \E q \in Each(t.protocol) : \E r \in rules : r.protocol = q /\ Tests(r, p)
  BY <1>1, <1>3
<1>5. (\E r \in rules : Meets(r, p)) <=> Test(t.protocol, p.protocol) /\ Rest
  BY <1>2, <1>4, EachTests, Zenon
<1> QED
  BY <1>5 DEF rules, Rest

-----------------------------------------------------------------------------
(* Terms *)

\* What a term says of a packet, but for its options.
Describes(t, p) ==
  /\ t.verbatim = {}
  /\ Test(t.protocol, p.protocol)
  /\ p.protocol \notin t.protocol_except
  /\ Among(p.source, t.source_address, t.source_address_exclude)
  /\ Among(p.destination, t.destination_address, t.destination_address_exclude)
  /\ \/ t.address = <<>>
     \/ Among(p.source, t.address, t.address_exclude)
     \/ Among(p.destination, t.address, t.address_exclude)
  /\ AmongPorts(p.source_port, t.source_port)
  /\ AmongPorts(p.destination_port, t.destination_port)
  /\ AmongPorts(p.source_port, t.port) \/ AmongPorts(p.destination_port, t.port)
  /\ Test(t.precedence, p.precedence)
  /\ Within(p.fragment_offset, t.fragment_offset)
  /\ Within(p.packet_length, t.packet_length)
  /\ Test(t.icmp_type, p.icmp_type)
  /\ t.source_prefix = {} \/ t.source_prefix \cap p.lists # {}
  /\ t.destination_prefix = {} \/ t.destination_prefix \cap p.lists # {}

\* A packet meets a term that describes it and whose options it has.
LEMMA MeetsDescribes ==
  ASSUME NEW t, NEW p
  PROVE  Meets(t, p) <=> Describes(t, p) /\ t.option \subseteq p.option
BY Zenon DEF Meets, Matches, Describes, Test

StrictOptions(t) ==
  (t.option \ {"sample", "established", "tcp-established"})
     \cup (IF Tracks(t) THEN {"established"} ELSE {})

LooseOptions(t, stateful) ==
  IF stateful \/ t.protocol = {"tcp"} \/ "tcp-established" \in t.option
  THEN StrictOptions(t) ELSE StrictOptions(t) \ {"established"}

TermFields ==
  {"verbatim", "action", "protocol", "protocol_except", "address",
   "address_exclude", "source_address", "source_address_exclude",
   "destination_address", "destination_address_exclude", "principals", "port",
   "source_port", "destination_port", "source_prefix", "destination_prefix",
   "precedence", "option", "fragment_offset", "packet_length", "icmp_type",
   "platform", "platform_exclude"}

\* The fields of a term.
LEMMA FieldsAre == DOMAIN EmptyTerm = TermFields
BY DEF EmptyTerm, TermFields

\* What a term asks for, once it has its high ports.
LEMMA AsksFor ==
  ASSUME NEW t, DOMAIN t = DOMAIN EmptyTerm, t.destination_port \in Seq(Ports),
         HighPortsAdded(t), NEW stateful, NEW p
  PROVE  /\ Meets(Strictly(t), p) <=> Describes(t, p) /\ StrictOptions(t) \subseteq p.option
         /\ Meets(Loosely(t, stateful), p) <=>
              Describes(t, p) /\ LooseOptions(t, stateful) \subseteq p.option
<1> DEFINE s == Strictly(t)
           sought == IF HasHighPorts(t) THEN Append(t.destination_port, HighPorts)
                    ELSE t.destination_port
<1>1. DOMAIN t = TermFields
  BY FieldsAre
<1>2. /\ DOMAIN s = TermFields
      /\ s.destination_port = sought /\ s.option = StrictOptions(t)
      /\ \A a \in TermFields : a \notin {"destination_port", "option"} => s[a] = t[a]
  <2>1. /\ s = [t EXCEPT !.destination_port = sought, !.option = StrictOptions(t)]
    BY DEF Strictly, StrictOptions
  <2> HIDE DEF s, sought
  <2>2. "destination_port" \in TermFields /\ "option" \in TermFields
    BY DEF TermFields
  <2> QED
    BY <1>1, <2>1, <2>2
<1>3. AmongPorts(p.destination_port, sought) <=> AmongPorts(p.destination_port, t.destination_port)
  <2>1. CASE ~HasHighPorts(t)
    BY <2>1
  <2>2. CASE HasHighPorts(t)
    <3> DEFINE d == t.destination_port
    <3>1. sought = Append(d, HighPorts)
      BY <2>2
    <3>2. d # <<>> /\ Span(HighPorts) \subseteq Cover(d) /\ d \in Seq(Ports)
      BY <2>2 DEF HighPortsAdded
    <3> HIDE DEF d, sought
    <3>3. /\ Len(d) \in Nat /\ sought # <<>> /\ DOMAIN d = 1..Len(d)
          /\ DOMAIN sought = 1..(Len(d) + 1) /\ sought[Len(d) + 1] = HighPorts
          /\ \A k \in 1..Len(d) : sought[k] = d[k]
      <4>1. HighPorts \in Ports
        BY AclGeneratorAssumption DEF Ports
      <4> QED
        BY <3>1, <3>2, <4>1
    <3>4. \A k : k \in DOMAIN sought <=> k \in DOMAIN d \/ k = Len(d) + 1
      BY <3>3
    <3>5. \A c : c \in Cover(sought) <=> c \in Cover(d) \/ c \in Span(HighPorts)
      BY <3>3, <3>4, CoverHolds
    <3> QED
      BY <3>2, <3>3, <3>5 DEF AmongPorts, d
  <2> QED
    BY <2>1, <2>2
<1> HIDE DEF s, sought
<1>4. Describes(s, p) <=> Describes(t, p)
  <2>1. /\ s.verbatim = t.verbatim /\ s.protocol = t.protocol
        /\ s.protocol_except = t.protocol_except
        /\ s.source_address = t.source_address /\ s.destination_address = t.destination_address
        /\ s.source_address_exclude = t.source_address_exclude
        /\ s.destination_address_exclude = t.destination_address_exclude
        /\ s.address = t.address /\ s.address_exclude = t.address_exclude
        /\ s.source_port = t.source_port /\ s.port = t.port
        /\ s.precedence = t.precedence /\ s.fragment_offset = t.fragment_offset
        /\ s.packet_length = t.packet_length /\ s.icmp_type = t.icmp_type
        /\ s.source_prefix = t.source_prefix /\ s.destination_prefix = t.destination_prefix
    BY <1>2 DEF TermFields
  <2> QED
    BY <1>2, <1>3, <2>1, Zenon DEF Describes
<1>5. Meets(s, p) <=> Describes(t, p) /\ StrictOptions(t) \subseteq p.option
  BY <1>2, <1>4, MeetsDescribes
<1> DEFINE l == Loosely(t, stateful)
           o == LooseOptions(t, stateful)
<1>6. l.option = o /\ \A a \in TermFields : a # "option" => l[a] = s[a]
  <2>1. CASE stateful \/ t.protocol = {"tcp"} \/ "tcp-established" \in t.option
    <3>1. l = s /\ o = StrictOptions(t)
      BY <2>1 DEF Loosely, LooseOptions, s
    <3> HIDE DEF l, o
    <3> QED
      BY <1>2, <3>1
  <2>2. CASE ~(stateful \/ t.protocol = {"tcp"} \/ "tcp-established" \in t.option)
    <3>1. l = [s EXCEPT !.option = @ \ {"established"}] /\ o = StrictOptions(t) \ {"established"}
      BY <2>2 DEF Loosely, LooseOptions, s
    <3>2. "option" \in TermFields
      BY DEF TermFields
    <3> HIDE DEF l, o
    <3> QED
      BY <1>2, <3>1, <3>2
  <2> QED
    BY <2>1, <2>2
<1> HIDE DEF l, o
<1>7. Describes(l, p) <=> Describes(s, p)
  <2>1. /\ s.verbatim = l.verbatim /\ s.protocol = l.protocol
        /\ s.protocol_except = l.protocol_except
        /\ s.source_address = l.source_address /\ s.destination_address = l.destination_address
        /\ s.source_address_exclude = l.source_address_exclude
        /\ s.destination_address_exclude = l.destination_address_exclude
        /\ s.address = l.address /\ s.address_exclude = l.address_exclude
        /\ s.source_port = l.source_port /\ s.port = l.port
        /\ s.destination_port = l.destination_port
        /\ s.precedence = l.precedence /\ s.fragment_offset = l.fragment_offset
        /\ s.packet_length = l.packet_length /\ s.icmp_type = l.icmp_type
        /\ s.source_prefix = l.source_prefix /\ s.destination_prefix = l.destination_prefix
    BY <1>6 DEF TermFields
  <2> QED
    BY <2>1, Zenon DEF Describes
<1>8. Meets(l, p) <=> Describes(t, p) /\ o \subseteq p.option
  BY <1>4, <1>6, <1>7, MeetsDescribes
<1> QED
  BY <1>5, <1>8 DEF s, l, o

\* A term that asks for nothing else.
LEMMA PlainDescribes ==
  ASSUME NEW t, PlainRule(t), NEW p
  PROVE  Describes(t, p) <=>
           /\ Test(t.protocol, p.protocol)
           /\ Test(t.icmp_type, p.icmp_type)
           /\ Among(p.source, t.source_address, t.source_address_exclude)
           /\ Among(p.destination, t.destination_address, t.destination_address_exclude)
           /\ AmongPorts(p.source_port, t.source_port)
           /\ AmongPorts(p.destination_port, t.destination_port)
           /\ Within(p.fragment_offset, t.fragment_offset)
           /\ Within(p.packet_length, t.packet_length)
<1>1. t.address = <<>> /\ AmongPorts(p.source_port, t.port) /\ Test(t.precedence, p.precedence)
  BY DEF PlainRule, AmongPorts, Test
<1> QED
  BY <1>1, Zenon DEF Describes, PlainRule

\* A term that is left out for its protocol has nothing to do with the packet.
LEMMA MismatchMissed ==
  ASSUME NEW t, IsFiniteSet(t.protocol), NEW v \in Versions,
         FamilyMismatch(t, v), ~PartlyMismatched(t, v),
         NEW p, PacketInForm(p), p.source[1] = v
  PROVE  ~Test(t.protocol, p.protocol)
<1> DEFINE q == IF v = 6 THEN "icmp" ELSE "icmpv6"
<1>1. q \in t.protocol
  BY DEF FamilyMismatch
<1>2. t.protocol = {q}
  <2>1. ~(Cardinality(t.protocol) > 1) /\ Cardinality(t.protocol) \in Nat
    BY FS_CardinalityType DEF PartlyMismatched
  <2>2. SUFFICES ASSUME NEW x \in t.protocol, x # q PROVE FALSE
    BY <1>1
  <2>3. {x, q} \subseteq t.protocol
    BY <1>1, <2>2
  <2> HIDE DEF q
  <2>4. Cardinality({x, q}) = 2
    <3>1. IsFiniteSet({q}) /\ Cardinality({q}) = 1
      BY FS_Singleton
    <3>2. x \notin {q}
      BY <2>2
    <3>3. Cardinality({q} \cup {x}) = Cardinality({q}) + 1
      BY <3>1, <3>2, FS_AddElement
    <3>4. {q} \cup {x} = {x, q}
      OBVIOUS
    <3> QED
      BY <3>1, <3>3, <3>4
  <2>5. Cardinality({x, q}) <= Cardinality(t.protocol)
    BY <2>3, FS_Subset
  <2> QED
    BY <2>1, <2>4, <2>5
<1>3. p.protocol # q
  BY DEF PacketInForm, Versions
<1> QED
  BY <1>2, <1>3 DEF Test

\* The options of a term that asks for established, as the rules have them.
LEMMA LooseIsLess ==
  ASSUME NEW t, NEW stateful
  PROVE  LooseOptions(t, stateful) \subseteq StrictOptions(t)
BY DEF LooseOptions

-----------------------------------------------------------------------------
(* Ports of a multiport match *)

Counts(f, l) == f = [k \in 0..Len(l) |-> IF k = 0 THEN 0 ELSE f[k - 1] + PortCount(l[k])]

\* A range counts for one port or for two.
LEMMA PortCountType ==
  ASSUME NEW r
  PROVE  PortCount(r) \in 1..2
BY DEF PortCount

\* The sums of the counts of a list exist.
LEMMA SomeCounts ==
  ASSUME NEW l \in Seq(Ports)
  PROVE  \E f : Counts(f, l) /\ f \in [0..Len(l) -> Nat] /\ PortsOf(l) = f[Len(l)]
<1> DEFINE step == [q \in Nat \X Ports |-> q[1] + PortCount(q[2])]
           count == CHOOSE f : Counts(f, l)
<1>1. step \in [Nat \X Ports -> Nat]
  BY PortCountType
<1>2. \A n \in Nat, r \in Ports : step[<<n, r>>] = n + PortCount(r)
  OBVIOUS
<1>3. 0 \in Nat
  OBVIOUS
<1> HIDE DEF step
<1>4. PICK f : Follows(f, Nat, 0, step, l)
  BY <1>1, <1>3, Recursion
<1>5. f \in [0..Len(l) -> Nat] /\ f[0] = 0 /\ \A k \in 1..Len(l) : f[k] = step[<<f[k - 1], l[k]>>]
  BY <1>4 DEF Follows
<1>6. \A k \in 0..Len(l) : f[k] = IF k = 0 THEN 0 ELSE f[k - 1] + PortCount(l[k])
  <2> SUFFICES ASSUME NEW k \in 1..Len(l) PROVE f[k] = f[k - 1] + PortCount(l[k])
    BY <1>5
  <2>1. k - 1 \in 0..Len(l) /\ l[k] \in Ports
    OBVIOUS
  <2>2. f[k - 1] \in Nat
    BY <1>5, <2>1
  <2> QED
    BY <1>2, <1>5, <2>1, <2>2
<1>7. f = [k \in 0..Len(l) |-> f[k]]
  BY <1>5
<1>8. Counts(f, l)
  BY <1>6, <1>7, Zenon DEF Counts
<1>9. PortsOf(l) = count[Len(l)]
  BY DEF PortsOf, Counts
<1>10. Counts(count, l)
  BY <1>8
<1> HIDE DEF count
<1>11. \A k \in 0..Len(l) : count[k] = IF k = 0 THEN 0 ELSE count[k - 1] + PortCount(l[k])
  BY <1>10 DEF Counts
<1> DEFINE good == {n \in Nat : n <= Len(l) => count[n] \in Nat}
<1>12. 0 \in good
  BY <1>11
<1>13. ASSUME NEW n \in Nat, n \in good PROVE n + 1 \in good
  <2> SUFFICES ASSUME n + 1 <= Len(l) PROVE count[n + 1] \in Nat
    OBVIOUS
  <2>1. n + 1 \in 0..Len(l) /\ n + 1 # 0 /\ (n + 1) - 1 = n /\ count[n] \in Nat
    BY <1>13
  <2>2. PortCount(l[n + 1]) \in Nat
    BY PortCountType
  <2> QED
    BY <1>11, <2>1, <2>2
<1>14. \A k \in 0..Len(l) : count[k] \in Nat
  <2> HIDE DEF good
  <2>1. Nat \subseteq good
    BY <1>12, <1>13, AllNumbers
  <2> QED
    BY <2>1 DEF good
<1>15. count = [k \in 0..Len(l) |-> count[k]]
  BY <1>10 DEF Counts
<1>16. count \in [0..Len(l) -> Nat]
  BY <1>14, <1>15
<1> QED
  BY <1>9, <1>10, <1>16

\* No ports.
LEMMA PortsOfEmpty == PortsOf(<<>>) = 0
<1>1. <<>> \in Seq(Ports) /\ Len(<<>>) = 0
  OBVIOUS
<1>2. PICK f : Counts(f, <<>>) /\ PortsOf(<<>>) = f[0]
  BY <1>1, SomeCounts
<1> QED
  BY <1>1, <1>2 DEF Counts

\* One range more.
LEMMA PortsOfAppend ==
  ASSUME NEW l \in Seq(Ports), NEW r \in Ports
  PROVE  /\ PortsOf(l) \in Nat
         /\ PortsOf(Append(l, r)) = PortsOf(l) + PortCount(r)
<1> DEFINE m == Append(l, r)
           N == Len(l)
<1>1. m \in Seq(Ports) /\ N \in Nat /\ Len(m) = N + 1 /\ m[N + 1] = r /\ \A k \in 1..N : m[k] = l[k]
  OBVIOUS
<1>2. PICK f : Counts(f, l) /\ f \in [0..N -> Nat] /\ PortsOf(l) = f[N]
  BY SomeCounts
<1>3. PICK g : Counts(g, m) /\ PortsOf(m) = g[N + 1]
  BY <1>1, SomeCounts
<1> HIDE DEF m, N
<1>4. \A k \in 0..N : f[k] = IF k = 0 THEN 0 ELSE f[k - 1] + PortCount(l[k])
  BY <1>2 DEF Counts, N
<1>5. \A k \in 0..(N + 1) : g[k] = IF k = 0 THEN 0 ELSE g[k - 1] + PortCount(m[k])
  BY <1>1, <1>3 DEF Counts
<1> DEFINE same == {n \in Nat : n <= N => g[n] = f[n]}
<1>6. 0 \in same
  BY <1>1, <1>4, <1>5
<1>7. ASSUME NEW n \in Nat, n \in same PROVE n + 1 \in same
  <2> SUFFICES ASSUME n + 1 <= N PROVE g[n + 1] = f[n + 1]
    OBVIOUS
  <2>1. /\ n + 1 \in 0..N /\ n + 1 \in 0..(N + 1) /\ n + 1 \in 1..N /\ n + 1 # 0
        /\ (n + 1) - 1 = n /\ g[n] = f[n]
    BY <1>1, <1>7
  <2> QED
    BY <1>1, <1>4, <1>5, <2>1
<1>8. N \in same
  <2> HIDE DEF same
  <2> QED
    BY <1>1, <1>6, <1>7, AllNumbers
<1>9. g[N] = f[N] /\ N + 1 \in 0..(N + 1) /\ N + 1 # 0 /\ (N + 1) - 1 = N
  BY <1>1, <1>8
<1>10. g[N + 1] = g[N] + PortCount(m[N + 1])
  BY <1>5, <1>9
<1>11. f[N] \in Nat
  BY <1>1, <1>2
<1> QED
  BY <1>1, <1>2, <1>3, <1>9, <1>10, <1>11 DEF m

\* The lists a multiport match is divided into: none is too long, none is empty,
\* and together they have the ports.
Divided(acc, l, n) ==
  /\ acc.closed \subseteq Seq(Ports) /\ acc.open \in Seq(Ports) /\ acc.count \in Nat
  /\ acc.count < MaxPorts /\ acc.count = PortsOf(acc.open)
  /\ \A s \in acc.closed : s # <<>> /\ PortsOf(s) <= MaxPorts + 1
  /\ \A c : (\E s \in acc.closed \cup {acc.open} : c \in Cover(s)) <=>
            \E j \in 1..n : c \in Span(l[j])

\* A statement that is filled stays one.
LEMMA AddPortType ==
  ASSUME NEW acc \in [closed : SUBSET Seq(Ports), open : Seq(Ports), count : Nat], NEW r \in Ports
  PROVE  AddPort(acc, r) \in [closed : SUBSET Seq(Ports), open : Seq(Ports), count : Nat]
<1> DEFINE open == Append(acc.open, r)
           count == acc.count + PortCount(r)
<1>1. open \in Seq(Ports) /\ count \in Nat /\ <<>> \in Seq(Ports)
  BY PortCountType
<1>2. acc.closed \cup {open} \in SUBSET Seq(Ports)
  BY <1>1
<1>3. CASE count >= MaxPorts
  <2>1. AddPort(acc, r) = [closed |-> acc.closed \cup {open}, open |-> <<>>, count |-> 0]
    BY <1>3 DEF AddPort
  <2> HIDE DEF open
  <2> QED
    BY <1>1, <1>2, <2>1
<1>4. CASE ~(count >= MaxPorts)
  <2>1. AddPort(acc, r) = [acc EXCEPT !.open = open, !.count = count]
    BY <1>4 DEF AddPort
  <2> HIDE DEF open, count
  <2> QED
    BY <1>1, <2>1
<1> QED
  BY <1>3, <1>4

\* Adding a range divides one range more among statements.
LEMMA AddPortDivides ==
  ASSUME NEW l \in Seq(Ports), NEW n \in Nat, n + 1 <= Len(l),
         NEW acc \in [closed : SUBSET Seq(Ports), open : Seq(Ports), count : Nat],
         Divided(acc, l, n)
  PROVE  Divided(AddPort(acc, l[n + 1]), l, n + 1)
<1> DEFINE r == l[n + 1]
           open == Append(acc.open, r)
           count == acc.count + PortCount(r)
           new == AddPort(acc, r)
<1>1. r \in Ports /\ MaxPorts \in Nat \ {0}
  BY IptablesAssumption
<1>2. PortCount(r) \in Nat /\ PortCount(r) <= 2
  BY PortCountType
<1>3. /\ open \in Seq(Ports) /\ open # <<>> /\ count \in Nat /\ count = PortsOf(open)
      /\ count <= MaxPorts + 1
  <2>1. acc.count = PortsOf(acc.open) /\ acc.count \in Nat /\ acc.count < MaxPorts
    BY DEF Divided
  <2>2. open \in Seq(Ports) /\ open # <<>>
    BY <1>1
  <2>3. PortsOf(open) = PortsOf(acc.open) + PortCount(r)
    BY <1>1, PortsOfAppend
  <2> QED
    BY <1>1, <1>2, <2>1, <2>2, <2>3
<1>4. \A c : c \in Cover(open) <=> c \in Cover(acc.open) \/ c \in Span(r)
  <2> DEFINE o == acc.open
  <2>1. /\ Len(o) \in Nat /\ DOMAIN o = 1..Len(o) /\ DOMAIN open = 1..(Len(o) + 1)
        /\ open[Len(o) + 1] = r /\ \A k \in 1..Len(o) : open[k] = o[k]
    BY <1>1
  <2> HIDE DEF o, open
  <2>2. \A k : k \in DOMAIN open <=> k \in DOMAIN o \/ k = Len(o) + 1
    BY <2>1
  <2>3. \A c : c \in Cover(open) <=> c \in Cover(o) \/ c \in Span(r)
    BY <2>1, <2>2, CoverHolds
  <2> QED
    BY <2>3 DEF o
<1>5. \A j : j \in 1..(n + 1) <=> j \in 1..n \/ j = n + 1
  OBVIOUS
<1>6. \A c : (\E s \in acc.closed \cup {open} : c \in Cover(s)) <=>
             \E j \in 1..(n + 1) : c \in Span(l[j])
  <2>1. \A c : (\E s \in acc.closed \cup {acc.open} : c \in Cover(s)) <=>
               \E j \in 1..n : c \in Span(l[j])
    BY DEF Divided
  <2> HIDE DEF open
  <2>2. \A c : (\E s \in acc.closed \cup {open} : c \in Cover(s)) <=>
               (\E s \in acc.closed \cup {acc.open} : c \in Cover(s)) \/ c \in Span(r)
    BY <1>4
  <2> QED
    BY <1>5, <2>1, <2>2 DEF r
<1>7. /\ acc.closed \subseteq Seq(Ports)
      /\ \A s \in acc.closed : s # <<>> /\ PortsOf(s) <= MaxPorts + 1
  BY DEF Divided
<1>8. CASE count >= MaxPorts
  <2>1. new = [closed |-> acc.closed \cup {open}, open |-> <<>>, count |-> 0]
    BY <1>8 DEF AddPort
  <2>2. new.closed = acc.closed \cup {open} /\ new.open = <<>> /\ new.count = 0
    BY <2>1
  <2> HIDE DEF open, count, new
  <2>3. \A c : c \notin Cover(<<>>)
    BY CoverHolds
  <2>4. \A c : (\E s \in new.closed \cup {new.open} : c \in Cover(s)) <=>
               \E j \in 1..(n + 1) : c \in Span(l[j])
    BY <1>6, <2>2, <2>3
  <2>5. <<>> \in Seq(Ports) /\ 0 \in Nat /\ 0 < MaxPorts
    BY <1>1
  <2>6. \A s \in new.closed : s # <<>> /\ PortsOf(s) <= MaxPorts + 1
    BY <1>3, <1>7, <2>2
  <2>7. new.closed \subseteq Seq(Ports)
    BY <1>3, <1>7, <2>2
  <2>8. Divided(new, l, n + 1)
    BY <2>2, <2>4, <2>5, <2>6, <2>7, PortsOfEmpty DEF Divided
  <2> QED
    BY <2>8 DEF new, r
<1>9. CASE ~(count >= MaxPorts)
  <2>1. new = [acc EXCEPT !.open = open, !.count = count]
    BY <1>9 DEF AddPort
  <2> HIDE DEF open
  <2>2. new.closed = acc.closed /\ new.open = open /\ new.count = count
    BY <2>1
  <2>3. count < MaxPorts
    BY <1>1, <1>3, <1>9
  <2> HIDE DEF count, new
  <2>4. Divided(new, l, n + 1)
    BY <1>3, <1>6, <1>7, <2>2, <2>3 DEF Divided
  <2> QED
    BY <2>4 DEF new, r
<1> QED
  BY <1>8, <1>9

\* The statements test together what the list does, and each has at most one port
\* more than iptables takes: a range counts for two.
LEMMA PortStatementsTest ==
  ASSUME NEW l \in Seq(Ports)
  PROVE  /\ \A c : (\E s \in PortStatements(l) : AmongPorts(c, s)) <=> AmongPorts(c, l)
         /\ \A s \in PortStatements(l) : PortsOf(s) <= MaxPorts + 1
<1> DEFINE N == Len(l)
           first == [closed |-> {}, open |-> <<>>, count |-> 0]
           S == [closed : SUBSET Seq(Ports), open : Seq(Ports), count : Nat]
           Loops(f) == f = [k \in 0..N |-> IF k = 0 THEN first ELSE AddPort(f[k - 1], l[k])]
           acc == CHOOSE f : Loops(f)
           step == [q \in S \X Ports |-> AddPort(q[1], q[2])]
<1>1. N \in Nat /\ DOMAIN l = 1..N /\ \A k \in 1..N : l[k] \in Ports
  OBVIOUS
<1>2. MaxPorts \in Nat \ {0}
  BY IptablesAssumption
<1>3. CASE l = <<>>
  <2>1. PortStatements(l) = {<<>>}
    BY <1>3 DEF PortStatements
  <2>2. PortsOf(<<>>) <= MaxPorts + 1
    BY <1>2, PortsOfEmpty
  <2> QED
    BY <1>3, <2>1, <2>2
<1>4. CASE l # <<>>
  <2>1. PortStatements(l) =
          acc[N].closed \cup {IF acc[N].open = <<>> THEN NoPorts ELSE acc[N].open}
    BY <1>4 DEF PortStatements
  <2>2. first \in S
    BY <1>2
  <2>3. \E f : Loops(f) /\ f \in [0..N -> S]
    <3>1. step \in [S \X Ports -> S]
      BY AddPortType
    <3>2. \A a \in S, r \in Ports : step[<<a, r>>] = AddPort(a, r)
      OBVIOUS
    <3> HIDE DEF step, S, first
    <3>3. PICK f : Follows(f, S, first, step, l)
      BY <2>2, <3>1, Recursion
    <3>4. f \in [0..N -> S] /\ f[0] = first /\ \A k \in 1..N : f[k] = step[<<f[k - 1], l[k]>>]
      BY <3>3 DEF Follows
    <3>5. ASSUME NEW k \in 0..N PROVE f[k] = IF k = 0 THEN first ELSE AddPort(f[k - 1], l[k])
      <4>1. CASE k = 0
        BY <3>4, <4>1
      <4>2. CASE k # 0
        <5>1. k \in 1..N /\ k - 1 \in 0..N
          BY <1>1, <4>2
        <5>2. f[k - 1] \in S /\ l[k] \in Ports
          BY <1>1, <3>4, <5>1
        <5> QED
          BY <3>2, <3>4, <4>2, <5>1, <5>2
      <4> QED
        BY <4>1, <4>2
    <3>6. f = [k \in 0..N |-> f[k]]
      BY <3>4
    <3>7. Loops(f)
      BY <3>5, <3>6, Zenon
    <3> QED
      BY <3>4, <3>7
  <2>4. Loops(acc)
    <3> HIDE DEF Loops
    <3> QED
      BY <2>3
  <2> HIDE DEF acc, step
  <2>5. acc[0] = first /\ \A k \in 1..N : acc[k] = AddPort(acc[k - 1], l[k])
    <3> HIDE DEF first
    <3> QED
      BY <1>1, <2>4
  <2> DEFINE good == {n \in Nat : n <= N => acc[n] \in S /\ Divided(acc[n], l, n)}
  <2>6. 0 \in good
    <3>1. 1..0 = {} /\ first.closed = {} /\ first.open = <<>> /\ first.count = 0
      OBVIOUS
    <3> HIDE DEF first
    <3>2. \A c : c \notin Cover(<<>>)
      BY CoverHolds
    <3>3. Divided(first, l, 0)
      BY <1>2, <3>1, <3>2, PortsOfEmpty DEF Divided
    <3> QED
      BY <2>2, <2>5, <3>3
  <2>7. ASSUME NEW n \in Nat, n \in good PROVE n + 1 \in good
    <3> HIDE DEF S
    <3> SUFFICES ASSUME n + 1 <= N PROVE acc[n + 1] \in S /\ Divided(acc[n + 1], l, n + 1)
      OBVIOUS
    <3>1. n + 1 \in 1..N /\ (n + 1) - 1 = n /\ acc[n] \in S /\ Divided(acc[n], l, n) /\ l[n + 1] \in Ports
      BY <1>1, <2>7
    <3>2. acc[n + 1] = AddPort(acc[n], l[n + 1])
      BY <2>5, <3>1
    <3>3. acc[n + 1] \in S
      BY <3>1, <3>2, AddPortType DEF S
    <3>4. Divided(acc[n + 1], l, n + 1)
      BY <3>1, <3>2, AddPortDivides DEF S
    <3> QED
      BY <3>3, <3>4
  <2>8. N \in good
    <3> HIDE DEF good
    <3> QED
      BY <1>1, <2>6, <2>7, AllNumbers
  <2> DEFINE last == acc[N]
  <2>9. Divided(last, l, N)
    BY <1>1, <2>8
  <2> HIDE DEF last
  <2>10. /\ \A s \in last.closed : s # <<>> /\ PortsOf(s) <= MaxPorts + 1
         /\ \A c : (\E s \in last.closed \cup {last.open} : c \in Cover(s)) <=>
                   \E j \in 1..N : c \in Span(l[j])
         /\ PortsOf(last.open) < MaxPorts /\ PortsOf(last.open) \in Nat
    BY <2>9 DEF Divided
  <2>11. \A c : c \notin Cover(NoPorts)
    <3>1. DOMAIN NoPorts = {1} /\ NoPorts[1] = <<1, 0>>
      BY DEF NoPorts
    <3>2. \A c : c \notin Span(<<1, 0>>)
      BY DEF Span
    <3> QED
      BY <3>1, <3>2, CoverHolds
  <2>12. NoPorts # <<>>
    BY DEF NoPorts
  <2>13. PortsOf(NoPorts) <= MaxPorts + 1
    <3>1. NoPorts = Append(<<>>, <<1, 0>>) /\ <<1, 0>> \in Ports /\ <<>> \in Seq(Ports)
      BY DEF NoPorts, Ports
    <3>2. PortsOf(NoPorts) = PortsOf(<<>>) + PortCount(<<1, 0>>)
      BY <3>1, PortsOfAppend
    <3>3. PortCount(<<1, 0>>) \in 1..2
      BY PortCountType
    <3> QED
      BY <1>2, <3>2, <3>3, PortsOfEmpty
  <2>14. \A c : c \notin Cover(<<>>)
    BY CoverHolds
  <2>15. \A c : c \in Cover(l) <=> \E j \in 1..N : c \in Span(l[j])
    BY <1>1, CoverHolds
  <2>16. PortStatements(l) = last.closed \cup {IF last.open = <<>> THEN NoPorts ELSE last.open}
    BY <2>1 DEF last
  <2>17. \A c : (\E s \in PortStatements(l) : AmongPorts(c, s)) <=> AmongPorts(c, l)
    BY <1>4, <2>10, <2>11, <2>12, <2>14, <2>15, <2>16 DEF AmongPorts
  <2>18. ASSUME NEW s \in PortStatements(l) PROVE PortsOf(s) <= MaxPorts + 1
    BY <1>2, <2>10, <2>13, <2>16
  <2> QED
    BY <2>17, <2>18
<1> QED
  BY <1>3, <1>4

-----------------------------------------------------------------------------
(* The terms of a policy, and packets *)

\* What form the fields of a term have.
LEMMA TermIs ==
  ASSUME NEW t, TermInForm(t)
  PROVE  /\ DOMAIN t = DOMAIN EmptyTerm /\ Sane(t)
         /\ t.address \in Seq(Networks) /\ t.address_exclude \in Seq(Networks)
         /\ t.source_address \in Seq(Networks) /\ t.source_address_exclude \in Seq(Networks)
         /\ t.destination_address \in Seq(Networks)
         /\ t.destination_address_exclude \in Seq(Networks)
         /\ t.port \in Seq(Ports) /\ t.source_port \in Seq(Ports)
         /\ t.destination_port \in Seq(Ports)
         /\ IsFiniteSet(t.protocol)
BY DEF TermInForm, Ports

\* Both addresses of a packet are of its version.
LEMMA PacketIs ==
  ASSUME NEW p, PacketInForm(p), NEW v \in Versions, p.source[1] = v
  PROVE  /\ p.source \in Numbers(Everything(v)) /\ p.destination \in Numbers(Everything(v))
         /\ p.destination[1] = v
<1>1. PICK w \in Versions : {p.source, p.destination} \subseteq Numbers(Everything(w))
  BY DEF PacketInForm
<1>2. w = v
  BY <1>1, EverythingHolds
<1> QED
  BY <1>1, <1>2, EverythingHolds

-----------------------------------------------------------------------------
(* Addresses of iptables *)

\* The address is in the one list and not in the other.
Left1(list, taken, c) == c \in AddressesOf(list) /\ c \notin AddressesOf(taken)

\* No addresses are all addresses.
LEMMA OrAllIs ==
  ASSUME NEW list \in Seq(Networks), NEW v \in Versions
  PROVE  /\ OrAll(list, v) \in Seq(Networks)
         /\ \A c \in Numbers(Everything(v)) : c \in AddressesOf(OrAll(list, v)) <=> Side(list, c)
<1>1. CASE list # <<>>
  BY <1>1 DEF OrAll, Side
<1>2. CASE list = <<>>
  <2> DEFINE one == <<Everything(v)>>
  <2>1. OrAll(list, v) = one
    BY <1>2 DEF OrAll
  <2>2. one \in Seq(Networks) /\ DOMAIN one = {1} /\ one[1] = Everything(v)
    BY EverythingHolds
  <2> HIDE DEF one
  <2> QED
    BY <1>2, <2>1, <2>2 DEF AddressesOf, Side
<1> QED
  BY <1>1, <1>2

\* To be among a list, or among everything, and not among the excludes.
LEMMA AmongIs ==
  ASSUME NEW list \in Seq(Networks), NEW x, NEW v \in Versions
  PROVE  \A c \in Numbers(Everything(v)) :
           Left1(OrAll(list, v), x, c) <=> Among(c, list, x)
BY OrAllIs DEF Left1, Among, Side

\* Nothing is in an empty list.
LEMMA NothingInEmpty == \A c : c \notin AddressesOf(<<>>)
BY DEF AddressesOf

AddressSides == {"source", "source_exclude", "destination", "destination_exclude"}

\* What the two sides of a rule are made of, and that they say of a packet what
\* the term does.
SidesFor(a, t, v) ==
  /\ a = [source |-> a.source, source_exclude |-> a.source_exclude,
          destination |-> a.destination, destination_exclude |-> a.destination_exclude]
  /\ a.source \in Seq(Networks) /\ a.source_exclude \in Seq(Networks)
  /\ a.destination \in Seq(Networks) /\ a.destination_exclude \in Seq(Networks)
  /\ \A c \in Numbers(Everything(v)) :
       /\ Left1(a.source, a.source_exclude, c)
            <=> Among(c, t.source_address, t.source_address_exclude)
       /\ Left1(a.destination, a.destination_exclude, c)
            <=> Among(c, t.destination_address, t.destination_address_exclude)

\* Jumping out for the excludes is right for the term ...
LEMMA WithBailoutsFor ==
  ASSUME NEW t, TermInForm(t), NEW v \in Versions
  PROVE  SidesFor(WithBailouts(t, v), t, v)
<1> DEFINE a == WithBailouts(t, v)
<1>1. /\ a.source = OrAll(t.source_address, v)
      /\ a.source_exclude = t.source_address_exclude
      /\ a.destination = OrAll(t.destination_address, v)
      /\ a.destination_exclude = t.destination_address_exclude
      /\ a = [source |-> a.source, source_exclude |-> a.source_exclude,
              destination |-> a.destination, destination_exclude |-> a.destination_exclude]
  BY DEF WithBailouts
<1> HIDE DEF a
<1>2. /\ t.source_address \in Seq(Networks) /\ t.source_address_exclude \in Seq(Networks)
      /\ t.destination_address \in Seq(Networks)
      /\ t.destination_address_exclude \in Seq(Networks)
  BY TermIs
<1>3. OrAll(t.source_address, v) \in Seq(Networks) /\ OrAll(t.destination_address, v) \in Seq(Networks)
  BY <1>2, OrAllIs
<1>4. \A c \in Numbers(Everything(v)) :
        /\ Left1(a.source, a.source_exclude, c)
             <=> Among(c, t.source_address, t.source_address_exclude)
        /\ Left1(a.destination, a.destination_exclude, c)
             <=> Among(c, t.destination_address, t.destination_address_exclude)
  BY <1>1, <1>2, AmongIs
<1>5. SidesFor(a, t, v)
  BY <1>1, <1>2, <1>3, <1>4 DEF SidesFor
<1> QED
  BY <1>5 DEF a

\* Taking the excludes out is the same, where something is left.
LEMMA SubtractedSide ==
  ASSUME NEW list \in Seq(Networks), NEW x \in Seq(Networks),
         x # <<>> => Subtracted(list, x) # <<>>
  PROVE  LET rest == Subtracted(list, x)
             left == IF rest # <<>> THEN rest ELSE list
         IN /\ left \in Seq(Networks)
            /\ \A c : c \in AddressesOf(left) <=> Left1(list, x, c)
<1>1. CASE x = <<>>
  BY <1>1, NothingInEmpty DEF Subtracted, Left1
<1>2. CASE x # <<>>
  <2>1. Subtracted(list, x) = ExcludeAddrs(list, x)
    BY <1>2 DEF Subtracted
  <2>2. /\ ExcludeAddrs(list, x) \in Seq(Networks)
        /\ AddressesOf(ExcludeAddrs(list, x)) = AddressesOf(list) \ AddressesOf(x)
    BY ExcludeAddrsIs
  <2> QED
    BY <1>2, <2>1, <2>2 DEF Left1
<1> QED
  BY <1>1, <1>2

\* ... and so is subtracting them, unless nothing is left.
LEMMA WithoutBailoutsFor ==
  ASSUME NEW t, TermInForm(t), NEW v \in Versions,
         LET a == WithBailouts(t, v)
         IN /\ a.source_exclude # <<>> => Subtracted(a.source, a.source_exclude) # <<>>
            /\ a.destination_exclude # <<>> =>
                 Subtracted(a.destination, a.destination_exclude) # <<>>
  PROVE  SidesFor(WithoutBailouts(t, v), t, v)
<1> DEFINE a == WithBailouts(t, v)
           w == WithoutBailouts(t, v)
           s == LET rest == Subtracted(a.source, a.source_exclude)
                IN IF rest # <<>> THEN rest ELSE a.source
           d == LET rest == Subtracted(a.destination, a.destination_exclude)
                IN IF rest # <<>> THEN rest ELSE a.destination
<1>1. SidesFor(a, t, v)
  BY WithBailoutsFor
<1>2. w = [source |-> s, source_exclude |-> <<>>, destination |-> d, destination_exclude |-> <<>>]
  BY DEF WithoutBailouts
<1>3. /\ w.source = s /\ w.source_exclude = <<>> /\ w.destination = d
      /\ w.destination_exclude = <<>>
      /\ w = [source |-> w.source, source_exclude |-> w.source_exclude,
              destination |-> w.destination, destination_exclude |-> w.destination_exclude]
  <2> HIDE DEF s, d, w
  <2> QED
    BY <1>2
<1>4. /\ a.source \in Seq(Networks) /\ a.source_exclude \in Seq(Networks)
      /\ a.destination \in Seq(Networks) /\ a.destination_exclude \in Seq(Networks)
  BY <1>1 DEF SidesFor
<1>5. s \in Seq(Networks) /\ \A c : c \in AddressesOf(s) <=> Left1(a.source, a.source_exclude, c)
  BY <1>4, SubtractedSide
<1>6. /\ d \in Seq(Networks)
      /\ \A c : c \in AddressesOf(d) <=> Left1(a.destination, a.destination_exclude, c)
  BY <1>4, SubtractedSide
<1> HIDE DEF a, s, d, w
<1>7. <<>> \in Seq(Networks)
  OBVIOUS
<1>8. \A c \in Numbers(Everything(v)) :
       /\ Left1(w.source, w.source_exclude, c)
            <=> Among(c, t.source_address, t.source_address_exclude)
       /\ Left1(w.destination, w.destination_exclude, c)
            <=> Among(c, t.destination_address, t.destination_address_exclude)
  <2>1. \A c : Left1(w.source, w.source_exclude, c) <=> Left1(a.source, a.source_exclude, c)
    BY <1>3, <1>5, NothingInEmpty DEF Left1
  <2>2. \A c : Left1(w.destination, w.destination_exclude, c)
                 <=> Left1(a.destination, a.destination_exclude, c)
    BY <1>3, <1>6, NothingInEmpty DEF Left1
  <2> QED
    BY <1>1, <2>1, <2>2 DEF SidesFor
<1>9. SidesFor(w, t, v)
  BY <1>3, <1>5, <1>6, <1>7, <1>8 DEF SidesFor
<1> QED
  BY <1>9 DEF w

\* All but the others is the same as these.
LEMMA AllButOthers ==
  ASSUME NEW list \in Seq(Networks), NEW v \in Versions
  PROVE  LET all == <<Everything(v)>>
             others == ExcludeAddrs(all, list)
         IN /\ all \in Seq(Networks) /\ others \in Seq(Networks)
            /\ \A c \in Numbers(Everything(v)) :
                 Left1(all, others, c) <=> Left1(list, <<>>, c)
<1> DEFINE all == <<Everything(v)>>
           others == ExcludeAddrs(all, list)
<1>1. all \in Seq(Networks) /\ DOMAIN all = {1} /\ all[1] = Everything(v)
  BY EverythingHolds
<1>2. \A c : c \in AddressesOf(all) <=> c \in Numbers(Everything(v))
  <2> HIDE DEF all
  <2> QED
    BY <1>1 DEF AddressesOf
<1>3. others \in Seq(Networks) /\ AddressesOf(others) = AddressesOf(all) \ AddressesOf(list)
  BY <1>1, ExcludeAddrsIs
<1> HIDE DEF all, others
<1>4. \A c \in Numbers(Everything(v)) : Left1(all, others, c) <=> Left1(list, <<>>, c)
  BY <1>2, <1>3, NothingInEmpty DEF Left1
<1> QED
  BY <1>1, <1>3, <1>4 DEF all, others

\* Inverting an exclude is right for the term.
LEMMA InvertedFor ==
  ASSUME NEW t, NEW v \in Versions, NEW a, SidesFor(a, t, v)
  PROVE  SidesFor(Inverted(a, v), t, v)
<1> DEFINE all == <<Everything(v)>>
           others == ExcludeAddrs(all, a.source)
           otherDests == ExcludeAddrs(all, a.destination)
           b == Inverted(a, v)
<1>1. /\ a.source \in Seq(Networks) /\ a.source_exclude \in Seq(Networks)
      /\ a.destination \in Seq(Networks) /\ a.destination_exclude \in Seq(Networks)
      /\ a = [source |-> a.source, source_exclude |-> a.source_exclude,
              destination |-> a.destination, destination_exclude |-> a.destination_exclude]
  BY DEF SidesFor
<1>2. /\ all \in Seq(Networks) /\ others \in Seq(Networks) /\ otherDests \in Seq(Networks)
      /\ \A c \in Numbers(Everything(v)) : Left1(all, others, c) <=> Left1(a.source, <<>>, c)
      /\ \A c \in Numbers(Everything(v)) :
           Left1(all, otherDests, c) <=> Left1(a.destination, <<>>, c)
  BY <1>1, AllButOthers
<1>3. \/ b = a
      \/ a.source_exclude = <<>> /\ b = [a EXCEPT !.source = all, !.source_exclude = others]
      \/ /\ a.destination_exclude = <<>>
         /\ b = [a EXCEPT !.destination = all, !.destination_exclude = otherDests]
  BY Zenon DEF Inverted
<1> HIDE DEF all, others, otherDests, b
<1>4. CASE b = a
  BY <1>4 DEF b
<1>5. CASE a.source_exclude = <<>> /\ b = [a EXCEPT !.source = all, !.source_exclude = others]
  <2>1. /\ b.source = all /\ b.source_exclude = others
        /\ b.destination = a.destination /\ b.destination_exclude = a.destination_exclude
        /\ b = [source |-> b.source, source_exclude |-> b.source_exclude,
                destination |-> b.destination, destination_exclude |-> b.destination_exclude]
    BY <1>1, <1>5
  <2>2. SidesFor(b, t, v)
    BY <1>1, <1>2, <1>5, <2>1 DEF SidesFor
  <2> QED
    BY <2>2 DEF b
<1>6. CASE /\ a.destination_exclude = <<>>
           /\ b = [a EXCEPT !.destination = all, !.destination_exclude = otherDests]
  <2>1. /\ b.source = a.source /\ b.source_exclude = a.source_exclude
        /\ b.destination = all /\ b.destination_exclude = otherDests
        /\ b = [source |-> b.source, source_exclude |-> b.source_exclude,
                destination |-> b.destination, destination_exclude |-> b.destination_exclude]
    BY <1>1, <1>6
  <2>2. SidesFor(b, t, v)
    BY <1>1, <1>2, <1>6, <2>1 DEF SidesFor
  <2> QED
    BY <2>2 DEF b
<1> QED
  BY <1>3, <1>4, <1>5, <1>6

\* The addresses of the version of the list.
OfVersionSides(a, v) == [half \in DOMAIN a |-> OfVersion(a[half], v)]

\* The other version matters to no packet of this one.
LEMMA OfVersionFor ==
  ASSUME NEW t, NEW v \in Versions, NEW a, SidesFor(a, t, v)
  PROVE  SidesFor(OfVersionSides(a, v), t, v)
<1> DEFINE b == OfVersionSides(a, v)
<1>1. /\ a.source \in Seq(Networks) /\ a.source_exclude \in Seq(Networks)
      /\ a.destination \in Seq(Networks) /\ a.destination_exclude \in Seq(Networks)
      /\ DOMAIN a = AddressSides
  <2>1. a = [source |-> a.source, source_exclude |-> a.source_exclude,
             destination |-> a.destination, destination_exclude |-> a.destination_exclude]
    BY DEF SidesFor
  <2>2. DOMAIN a = AddressSides
    BY <2>1 DEF AddressSides
  <2> QED
    BY <2>2 DEF SidesFor
<1>2. /\ b.source = OfVersion(a.source, v)
      /\ b.source_exclude = OfVersion(a.source_exclude, v)
      /\ b.destination = OfVersion(a.destination, v)
      /\ b.destination_exclude = OfVersion(a.destination_exclude, v)
      /\ b = [source |-> b.source, source_exclude |-> b.source_exclude,
              destination |-> b.destination, destination_exclude |-> b.destination_exclude]
  BY <1>1 DEF OfVersionSides, AddressSides
<1> HIDE DEF b
<1>3. \A l \in Seq(Networks) :
        /\ OfVersion(l, v) \in Seq(Networks)
        /\ \A c \in Numbers(Everything(v)) : c \in AddressesOf(OfVersion(l, v)) <=> c \in AddressesOf(l)
  BY OfVersionIs, EverythingHolds
<1>4. \A c \in Numbers(Everything(v)) :
       /\ Left1(b.source, b.source_exclude, c) <=> Left1(a.source, a.source_exclude, c)
       /\ Left1(b.destination, b.destination_exclude, c)
            <=> Left1(a.destination, a.destination_exclude, c)
  BY <1>1, <1>2, <1>3 DEF Left1
<1>5. SidesFor(b, t, v)
  BY <1>1, <1>2, <1>3, <1>4 DEF SidesFor
<1> QED
  BY <1>5 DEF b

\* What iptables makes of the addresses is right for the term ...
LEMMA CalculateAddressesFor ==
  ASSUME NEW t, TermInForm(t), NEW v \in Versions, NEW platform, platform # "ipset",
         IptablesAsMeant(t, platform, v)
  PROVE  SidesFor(CalculateAddresses(t, v), t, v)
<1> DEFINE w == IF SubtractsExcludes(t, v) THEN WithoutBailouts(t, v) ELSE WithBailouts(t, v)
<1>1. SidesFor(w, t, v)
  <2>1. CASE SubtractsExcludes(t, v)
    <3>1. LET a == WithBailouts(t, v)
          IN /\ a.source_exclude # <<>> => Subtracted(a.source, a.source_exclude) # <<>>
             /\ a.destination_exclude # <<>> =>
                  Subtracted(a.destination, a.destination_exclude) # <<>>
      BY <2>1 DEF IptablesAsMeant
    <3> QED
      BY <2>1, <3>1, WithoutBailoutsFor
  <2>2. CASE ~SubtractsExcludes(t, v)
    BY <2>2, WithBailoutsFor
  <2> QED
    BY <2>1, <2>2
<1>2. CalculateAddresses(t, v) = OfVersionSides(Inverted(w, v), v)
  BY DEF CalculateAddresses, OfVersionSides
<1> HIDE DEF w
<1> QED
  BY <1>1, <1>2, InvertedFor, OfVersionFor

\* ... and what ipset makes of them is, with no excludes left.
LEMMA IpsetAddressesFor ==
  ASSUME NEW t, TermInForm(t), NEW v \in Versions
  PROVE  /\ SidesFor(IpsetAddresses(t, v), t, v)
         /\ IpsetAddresses(t, v).source_exclude = <<>>
         /\ IpsetAddresses(t, v).destination_exclude = <<>>
<1> DEFINE Left0(list, taken) ==
             LET own == OfVersion(OrAll(list, v), v)
             IN IF taken = <<>> THEN own ELSE ExcludeAddrs(own, OfVersion(taken, v))
           a == IpsetAddresses(t, v)
<1>1. ASSUME NEW list \in Seq(Networks), NEW x \in Seq(Networks)
      PROVE  /\ Left0(list, x) \in Seq(Networks)
             /\ \A c \in Numbers(Everything(v)) : Left1(Left0(list, x), <<>>, c) <=> Among(c, list, x)
  <2> DEFINE own == OfVersion(OrAll(list, v), v)
             not == OfVersion(x, v)
             left == Left0(list, x)
  <2>1. /\ OrAll(list, v) \in Seq(Networks)
        /\ \A c \in Numbers(Everything(v)) : c \in AddressesOf(OrAll(list, v)) <=> Side(list, c)
    BY OrAllIs
  <2>2. /\ own \in Seq(Networks) /\ not \in Seq(Networks)
        /\ \A c \in Numbers(Everything(v)) :
             /\ c \in AddressesOf(own) <=> Side(list, c)
             /\ c \in AddressesOf(not) <=> c \in AddressesOf(x)
    BY <2>1, OfVersionIs, EverythingHolds
  <2>3. CASE x = <<>>
    <3>1. left = own
      BY <2>3
    <3> HIDE DEF left, own, not
    <3> QED
      BY <2>2, <2>3, <3>1, NothingInEmpty DEF Left1, Among, Side, left
  <2>4. CASE x # <<>>
    <3>1. left = ExcludeAddrs(own, not)
      BY <2>4
    <3>2. left \in Seq(Networks) /\ AddressesOf(left) = AddressesOf(own) \ AddressesOf(not)
      BY <2>2, <3>1, ExcludeAddrsIs
    <3> HIDE DEF left, own, not
    <3> QED
      BY <2>2, <3>2, NothingInEmpty DEF Left1, Among, Side, left
  <2> QED
    BY <2>3, <2>4
<1>2. /\ a.source = Left0(t.source_address, t.source_address_exclude)
      /\ a.destination = Left0(t.destination_address, t.destination_address_exclude)
      /\ a.source_exclude = <<>> /\ a.destination_exclude = <<>>
      /\ a = [source |-> a.source, source_exclude |-> a.source_exclude,
              destination |-> a.destination, destination_exclude |-> a.destination_exclude]
  BY DEF IpsetAddresses
<1> HIDE DEF a, Left0
<1>3. /\ t.source_address \in Seq(Networks) /\ t.source_address_exclude \in Seq(Networks)
      /\ t.destination_address \in Seq(Networks)
      /\ t.destination_address_exclude \in Seq(Networks) /\ <<>> \in Seq(Networks)
  BY TermIs
<1>4. SidesFor(a, t, v)
  BY <1>1, <1>2, <1>3 DEF SidesFor
<1> QED
  BY <1>2, <1>4 DEF a

-----------------------------------------------------------------------------
(* Blocks *)

\* A block catches what the term asks for, and nothing it does not allow.
AsAsked(block, t, stateful, p) ==
  /\ Meets(Strictly(t), p) => Catches(block, p)
  /\ Catches(block, p) => Meets(Loosely(t, stateful), p)

\* A block of rules catches what a rule of it catches.
LEMMA PlainCatches ==
  ASSUME NEW rules, NEW p
  PROVE  Catches(Plain(rules), p) <=> \E r \in rules : Meets(r, p)
BY DEF Catches, Plain

\* An empty block catches nothing.
LEMMA NothingCatches ==
  ASSUME NEW p
  PROVE  ~Catches(Nothing, p)
BY DEF Catches, Plain, Nothing

\* A block answers a term if it catches what the term describes, with its options.
LEMMA AsAskedIf ==
  ASSUME NEW t, TermInForm(t), HighPortsAdded(t), NEW stateful, NEW p, NEW block,
         Describes(t, p) /\ StrictOptions(t) \subseteq p.option => Catches(block, p),
         Catches(block, p) => Describes(t, p) /\ LooseOptions(t, stateful) \subseteq p.option
  PROVE  AsAsked(block, t, stateful, p)
<1>1. DOMAIN t = DOMAIN EmptyTerm /\ t.destination_port \in Seq(Ports)
  BY TermIs
<1>2. /\ Meets(Strictly(t), p) <=> Describes(t, p) /\ StrictOptions(t) \subseteq p.option
      /\ Meets(Loosely(t, stateful), p) <=>
           Describes(t, p) /\ LooseOptions(t, stateful) \subseteq p.option
  BY <1>1, AsksFor
<1> QED
  BY <1>2, Zenon DEF AsAsked

\* No block answers a term that does not describe the packet.
LEMMA AsAskedOfNothing ==
  ASSUME NEW t, TermInForm(t), HighPortsAdded(t), NEW stateful, NEW p, ~Describes(t, p)
  PROVE  AsAsked(Nothing, t, stateful, p)
BY NothingCatches, AsAskedIf, Zenon

\* A keyword that is not supported is not in the term.
LEMMA KeywordsGive ==
  ASSUME NEW e, DOMAIN e.term = DOMAIN EmptyTerm, NEW K, Keywords(e) \subseteq K
  PROVE  \A a \in TermFields : a \notin K => e.term[a] = EmptyTerm[a]
BY FieldsAre DEF Keywords

\* The empty term asks for nothing.
LEMMA EmptyTermIs ==
  /\ EmptyTerm.address = <<>> /\ EmptyTerm.address_exclude = <<>>
  /\ EmptyTerm.port = <<>> /\ EmptyTerm.precedence = {} /\ EmptyTerm.protocol_except = {}
  /\ EmptyTerm.source_prefix = {} /\ EmptyTerm.destination_prefix = {}
  /\ EmptyTerm.verbatim = {} /\ EmptyTerm.protocol = {} /\ EmptyTerm.icmp_type = {}
  /\ EmptyTerm.source_address = <<>> /\ EmptyTerm.source_address_exclude = <<>>
  /\ EmptyTerm.destination_address = <<>> /\ EmptyTerm.destination_address_exclude = <<>>
  /\ EmptyTerm.source_port = <<>> /\ EmptyTerm.destination_port = <<>>
  /\ EmptyTerm.option = {} /\ EmptyTerm.fragment_offset = NONE /\ EmptyTerm.packet_length = NONE
BY DEF EmptyTerm

\* It is a plain rule.
LEMMA EmptyRuleIs == PlainRule(EmptyTerm)
BY EmptyTermIs DEF PlainRule

-----------------------------------------------------------------------------
(* iptables *)

\* A jump is for the addresses of one side.
LEMMA JumpMeets ==
  ASSUME NEW list, NEW p
  PROVE  /\ Meets([EmptyTerm EXCEPT !["source_address"] = list], p) <=> Side(list, p.source)
         /\ Meets([EmptyTerm EXCEPT !["destination_address"] = list], p) <=> Side(list, p.destination)
<1> DEFINE s == [EmptyTerm EXCEPT !["source_address"] = list]
           d == [EmptyTerm EXCEPT !["destination_address"] = list]
<1>1. /\ DOMAIN EmptyTerm = TermFields
      /\ "source_address" \in TermFields /\ "destination_address" \in TermFields
  BY FieldsAre DEF TermFields
<1>2. /\ s.source_address = list /\ d.destination_address = list
      /\ \A a \in TermFields : a # "source_address" => s[a] = EmptyTerm[a]
      /\ \A a \in TermFields : a # "destination_address" => d[a] = EmptyTerm[a]
  BY <1>1
<1> HIDE DEF s, d
<1>3. /\ \A c : AmongPorts(c, <<>>) /\ Within(c, NONE) /\ Test({}, c) /\ Among(c, <<>>, <<>>)
      /\ \A c : Among(c, list, <<>>) <=> Side(list, c)
  BY NothingInEmpty DEF AmongPorts, Within, Test, Among, Side
<1>4. PlainRule(s) /\ PlainRule(d)
  BY <1>2, EmptyTermIs DEF PlainRule, TermFields
<1>5. /\ s.protocol = {} /\ s.icmp_type = {} /\ s.source_address_exclude = <<>>
      /\ s.destination_address = <<>> /\ s.destination_address_exclude = <<>>
      /\ s.source_port = <<>> /\ s.destination_port = <<>> /\ s.option = {}
      /\ s.fragment_offset = NONE /\ s.packet_length = NONE
  BY <1>2, EmptyTermIs DEF TermFields
<1>6. /\ d.protocol = {} /\ d.icmp_type = {} /\ d.destination_address_exclude = <<>>
      /\ d.source_address = <<>> /\ d.source_address_exclude = <<>>
      /\ d.source_port = <<>> /\ d.destination_port = <<>> /\ d.option = {}
      /\ d.fragment_offset = NONE /\ d.packet_length = NONE
  BY <1>2, EmptyTermIs DEF TermFields
<1>7. Tests(s, p) <=> Side(list, p.source)
  BY <1>2, <1>3, <1>5 DEF Tests
<1>8. Tests(d, p) <=> Side(list, p.destination)
  BY <1>2, <1>3, <1>6 DEF Tests
<1> QED
  BY <1>4, <1>7, <1>8, PlainRuleMeets DEF s, d

\* The jumps that leave the block.
Jumps(a) ==
  {[EmptyTerm EXCEPT !["source_address"] = x] : x \in EachOf(a.source_exclude) \ {<<>>}}
    \cup {[EmptyTerm EXCEPT !["destination_address"] = x] :
            x \in EachOf(a.destination_exclude) \ {<<>>}}

\* Some address of a list.
LEMMA SomeSideOf ==
  ASSUME NEW list, NEW c
  PROVE  (\E x \in EachOf(list) \ {<<>>} : Side(x, c)) <=> c \in AddressesOf(list)
<1>1. CASE list = <<>>
  BY <1>1, NothingInEmpty DEF EachOf
<1>2. CASE list # <<>>
  <2>1. <<>> \notin EachOf(list)
    <3>1. EachOf(list) = {<<list[k]>> : k \in DOMAIN list}
      BY <1>2 DEF EachOf
    <3>2. \A k \in DOMAIN list : <<list[k]>> # <<>>
      OBVIOUS
    <3> QED
      BY <3>1, <3>2
  <2>2. EachOf(list) \ {<<>>} = EachOf(list)
    BY <2>1
  <2> QED
    BY <1>2, <2>2, EachOfSide DEF Side
<1> QED
  BY <1>1, <1>2

\* The jumps catch what is excluded.
LEMMA JumpsMeet ==
  ASSUME NEW a, NEW p
  PROVE  (\E r \in Jumps(a) : Meets(r, p)) <=>
           \/ p.source \in AddressesOf(a.source_exclude)
           \/ p.destination \in AddressesOf(a.destination_exclude)
<1>1. (\E r \in Jumps(a) : Meets(r, p)) <=>
        \/ \E x \in EachOf(a.source_exclude) \ {<<>>} :
             Meets([EmptyTerm EXCEPT !["source_address"] = x], p)
        \/ \E x \in EachOf(a.destination_exclude) \ {<<>>} :
             Meets([EmptyTerm EXCEPT !["destination_address"] = x], p)
  BY DEF Jumps
<1>2. \A x : /\ Meets([EmptyTerm EXCEPT !["source_address"] = x], p) <=> Side(x, p.source)
             /\ Meets([EmptyTerm EXCEPT !["destination_address"] = x], p) <=> Side(x, p.destination)
  BY JumpMeets
<1> QED
  BY <1>1, <1>2, SomeSideOf, Zenon

\* The tests of a rule that are not about addresses.
IptablesShape(t, stateful) ==
  [EmptyTerm EXCEPT !.protocol = t.protocol, !.icmp_type = t.icmp_type,
                  !.option = RuleTests(t, stateful),
                  !.packet_length = t.packet_length,
                  !.fragment_offset = t.fragment_offset]

\* The fields of a rule of iptables that are the same for all of them.
LEMMA IptablesShapeIs ==
  ASSUME NEW t, NEW stateful
  PROVE  LET s == IptablesShape(t, stateful) IN
         /\ DOMAIN s = DOMAIN EmptyTerm /\ PlainRule(s)
         /\ s.protocol = t.protocol /\ s.icmp_type = t.icmp_type
         /\ s.option = RuleTests(t, stateful)
         /\ s.packet_length = t.packet_length /\ s.fragment_offset = t.fragment_offset
         /\ s.source_address_exclude = <<>> /\ s.destination_address_exclude = <<>>
<1> DEFINE s == IptablesShape(t, stateful)
           edited == {"protocol", "icmp_type", "option", "packet_length", "fragment_offset"}
<1>1. DOMAIN EmptyTerm = TermFields /\ edited \subseteq TermFields
  BY FieldsAre DEF TermFields
<1>2. /\ DOMAIN s = TermFields
      /\ s.protocol = t.protocol /\ s.icmp_type = t.icmp_type
      /\ s.option = RuleTests(t, stateful)
      /\ s.packet_length = t.packet_length /\ s.fragment_offset = t.fragment_offset
      /\ \A a \in TermFields : a \notin edited => s[a] = EmptyTerm[a]
  BY <1>1 DEF IptablesShape
<1> HIDE DEF s
<1>3. PlainRule(s) /\ s.source_address_exclude = <<>> /\ s.destination_address_exclude = <<>>
  BY <1>2, EmptyTermIs DEF PlainRule, TermFields
<1> QED
  BY <1>1, <1>2, <1>3 DEF s

\* The rule of ipset, with lists of addresses.
SetRule(shape, q, i, s, d, sp, dp) ==
  [shape EXCEPT !.protocol = q, !.icmp_type = i, !.source_address = s,
     !.destination_address = d, !.source_port = sp, !.destination_port = dp]

\* What a rule with the set of a chain tests.
LEMMA SetRuleMeets ==
  ASSUME NEW t, PlainRule(t), DOMAIN t = DOMAIN EmptyTerm,
         t.source_address_exclude = <<>>, t.destination_address_exclude = <<>>,
         NEW q, NEW i, NEW s, NEW d, NEW sp, NEW dp, NEW p
  PROVE  Meets(SetRule(t, q, i, s, d, sp, dp), p) <=>
              /\ Test(q, p.protocol) /\ Test(i, p.icmp_type)
              /\ Side(s, p.source) /\ Side(d, p.destination)
              /\ AmongPorts(p.source_port, sp) /\ AmongPorts(p.destination_port, dp)
              /\ t.option \subseteq p.option
              /\ Within(p.fragment_offset, t.fragment_offset)
              /\ Within(p.packet_length, t.packet_length)
<1> DEFINE r == SetRule(t, q, i, s, d, sp, dp)
           edited == {"protocol", "icmp_type", "source_address", "destination_address",
                       "source_port", "destination_port"}
<1>1. DOMAIN t = TermFields /\ edited \subseteq TermFields
  BY FieldsAre DEF TermFields
<1>2. /\ r.protocol = q /\ r.icmp_type = i /\ r.source_address = s
      /\ r.destination_address = d /\ r.source_port = sp /\ r.destination_port = dp
      /\ \A a \in TermFields : a \notin edited => r[a] = t[a]
  BY <1>1 DEF SetRule
<1> HIDE DEF r
<1>3. PlainRule(r)
  BY <1>2 DEF PlainRule, TermFields
<1>4. /\ r.source_address_exclude = <<>> /\ r.destination_address_exclude = <<>>
      /\ r.option = t.option /\ r.fragment_offset = t.fragment_offset
      /\ r.packet_length = t.packet_length
  BY <1>2 DEF TermFields
<1>5. \A l, c : Among(c, l, <<>>) <=> Side(l, c)
  BY NothingInEmpty DEF Among, Side
<1>6. Tests(r, p) <=>
              /\ Test(q, p.protocol) /\ Test(i, p.icmp_type)
              /\ Side(s, p.source) /\ Side(d, p.destination)
              /\ AmongPorts(p.source_port, sp) /\ AmongPorts(p.destination_port, dp)
              /\ t.option \subseteq p.option
              /\ Within(p.fragment_offset, t.fragment_offset)
              /\ Within(p.packet_length, t.packet_length)
  BY <1>2, <1>4, <1>5 DEF Tests
<1> QED
  BY <1>3, <1>6, PlainRuleMeets DEF r

SetRules(t, a, shape) ==
  {SetRule(shape, q, i, a.source, a.destination, sp, dp) :
     q \in Each(t.protocol), i \in Each(t.icmp_type),
     sp \in PortStatements(t.source_port), dp \in PortStatements(t.destination_port)}

\* The rules of a block, as the parts of the definition.
LEMMA IptablesRulesAre ==
  ASSUME NEW t, NEW platform, NEW v, NEW stateful
  PROVE  LET a == IptablesAddresses(t, platform, v)
             shape == IptablesShape(t, stateful)
         IN IptablesRules(t, platform, v, stateful) =
              [except |-> Jumps(a),
               rules |-> IF platform = "ipset" THEN SetRules(t, a, shape)
                         ELSE Product(shape, a.source, a.destination,
                                      PortStatements(t.source_port),
                                      PortStatements(t.destination_port))]
BY DEF IptablesRules, Jumps, SetRules, SetRule, IptablesShape

\* What the rules test, but for the sides.
IptablesTests(t, a, stateful, p) ==
  /\ Test(t.protocol, p.protocol) /\ Test(t.icmp_type, p.icmp_type)
  /\ Side(a.source, p.source) /\ Side(a.destination, p.destination)
  /\ AmongPorts(p.source_port, t.source_port)
  /\ AmongPorts(p.destination_port, t.destination_port)
  /\ RuleTests(t, stateful) \subseteq p.option
  /\ Within(p.fragment_offset, t.fragment_offset)
  /\ Within(p.packet_length, t.packet_length)

\* The rules with sets test together what the term asks ...
LEMMA SetRulesMeet ==
  ASSUME NEW t, TermInForm(t), NEW stateful, NEW a, NEW p
  PROVE  (\E r \in SetRules(t, a, IptablesShape(t, stateful)) : Meets(r, p)) <=>
           IptablesTests(t, a, stateful, p)
<1> DEFINE s == IptablesShape(t, stateful)
           SP == PortStatements(t.source_port)
           DP == PortStatements(t.destination_port)
<1>1. /\ DOMAIN s = DOMAIN EmptyTerm /\ PlainRule(s)
      /\ s.option = RuleTests(t, stateful)
      /\ s.packet_length = t.packet_length /\ s.fragment_offset = t.fragment_offset
      /\ s.source_address_exclude = <<>> /\ s.destination_address_exclude = <<>>
  BY IptablesShapeIs
<1> HIDE DEF s
<1>2. /\ \A c : (\E l \in SP : AmongPorts(c, l)) <=> AmongPorts(c, t.source_port)
      /\ \A c : (\E l \in DP : AmongPorts(c, l)) <=> AmongPorts(c, t.destination_port)
  BY TermIs, PortStatementsTest
<1> HIDE DEF SP, DP
<1>3. \A q, i, sp, dp :
        Meets(SetRule(s, q, i, a.source, a.destination, sp, dp), p) <=>
              /\ Test(q, p.protocol) /\ Test(i, p.icmp_type)
              /\ Side(a.source, p.source) /\ Side(a.destination, p.destination)
              /\ AmongPorts(p.source_port, sp) /\ AmongPorts(p.destination_port, dp)
              /\ RuleTests(t, stateful) \subseteq p.option
              /\ Within(p.fragment_offset, t.fragment_offset)
              /\ Within(p.packet_length, t.packet_length)
  <2> TAKE q, i, sp, dp
  <2> QED
    BY <1>1, SetRuleMeets
<1>4. (\E r \in SetRules(t, a, s) : Meets(r, p)) <=>
        \E q \in Each(t.protocol), i \in Each(t.icmp_type), sp \in SP, dp \in DP :
          Meets(SetRule(s, q, i, a.source, a.destination, sp, dp), p)
  BY DEF SetRules, SP, DP
<1>5. (\E q \in Each(t.protocol), i \in Each(t.icmp_type), sp \in SP, dp \in DP :
          Meets(SetRule(s, q, i, a.source, a.destination, sp, dp), p))
        <=> /\ \E q \in Each(t.protocol) : Test(q, p.protocol)
            /\ \E i \in Each(t.icmp_type) : Test(i, p.icmp_type)
            /\ Side(a.source, p.source) /\ Side(a.destination, p.destination)
            /\ \E sp \in SP : AmongPorts(p.source_port, sp)
            /\ \E dp \in DP : AmongPorts(p.destination_port, dp)
            /\ RuleTests(t, stateful) \subseteq p.option
            /\ Within(p.fragment_offset, t.fragment_offset)
            /\ Within(p.packet_length, t.packet_length)
  <2> DEFINE Rest == /\ Side(a.source, p.source) /\ Side(a.destination, p.destination)
                     /\ RuleTests(t, stateful) \subseteq p.option
                     /\ Within(p.fragment_offset, t.fragment_offset)
                     /\ Within(p.packet_length, t.packet_length)
  <2>1. \A q, i, sp, dp :
        Meets(SetRule(s, q, i, a.source, a.destination, sp, dp), p) <=>
              /\ Test(q, p.protocol) /\ Test(i, p.icmp_type)
              /\ AmongPorts(p.source_port, sp) /\ AmongPorts(p.destination_port, dp)
              /\ Rest
    BY <1>3, Zenon
  <2> HIDE DEF Rest
  <2>2. (\E q \in Each(t.protocol), i \in Each(t.icmp_type), sp \in SP, dp \in DP :
          Meets(SetRule(s, q, i, a.source, a.destination, sp, dp), p))
        <=> /\ \E q \in Each(t.protocol) : Test(q, p.protocol)
            /\ \E i \in Each(t.icmp_type) : Test(i, p.icmp_type)
            /\ \E sp \in SP : AmongPorts(p.source_port, sp)
            /\ \E dp \in DP : AmongPorts(p.destination_port, dp)
            /\ Rest
    BY <2>1
  <2> QED
    BY <2>2, Zenon DEF Rest
<1> QED
  BY <1>2, <1>4, <1>5, EachTests, Zenon DEF IptablesTests, s

\* ... and so do the rules without them.
LEMMA ProductRulesMeet ==
  ASSUME NEW t, TermInForm(t), NEW stateful, NEW a, NEW p
  PROVE  (\E r \in Product(IptablesShape(t, stateful), a.source, a.destination,
                           PortStatements(t.source_port),
                           PortStatements(t.destination_port)) : Meets(r, p)) <=>
           IptablesTests(t, a, stateful, p)
<1> DEFINE s == IptablesShape(t, stateful)
           SP == PortStatements(t.source_port)
           DP == PortStatements(t.destination_port)
           rules == Product(s, a.source, a.destination, SP, DP)
<1>1. /\ DOMAIN s = DOMAIN EmptyTerm /\ PlainRule(s)
      /\ s.protocol = t.protocol /\ s.icmp_type = t.icmp_type
      /\ s.option = RuleTests(t, stateful)
      /\ s.packet_length = t.packet_length /\ s.fragment_offset = t.fragment_offset
  BY IptablesShapeIs
<1> HIDE DEF s
<1>2. /\ \A c : (\E l \in SP : AmongPorts(c, l)) <=> AmongPorts(c, t.source_port)
      /\ \A c : (\E l \in DP : AmongPorts(c, l)) <=> AmongPorts(c, t.destination_port)
  BY TermIs, PortStatementsTest
<1> HIDE DEF SP, DP
<1>3. (\E r \in rules : Meets(r, p)) <=>
           /\ Test(s.protocol, p.protocol)
           /\ Test(s.icmp_type, p.icmp_type)
           /\ Side(a.source, p.source) /\ Side(a.destination, p.destination)
           /\ \E sp \in SP : AmongPorts(p.source_port, sp)
           /\ \E dp \in DP : AmongPorts(p.destination_port, dp)
           /\ s.option \subseteq p.option
           /\ Within(p.fragment_offset, s.fragment_offset)
           /\ Within(p.packet_length, s.packet_length)
  BY <1>1, ProductMeets
<1> HIDE DEF rules
<1>4. (\E r \in rules : Meets(r, p)) <=> IptablesTests(t, a, stateful, p)
  BY <1>1, <1>2, <1>3, Zenon DEF IptablesTests
<1> QED
  BY <1>4 DEF rules, s, SP, DP

\* The options of the rules are between those a term needs and those it may have.
LEMMA RuleTestsBetween ==
  ASSUME NEW t, NEW stateful,
         t.option \subseteq KnownOptions \cup {"established", "tcp-established", "sample"},
         "tcp-established" \in t.option => t.protocol = {"tcp"}
  PROVE  /\ RuleTests(t, stateful) \subseteq StrictOptions(t)
         /\ LooseOptions(t, stateful) \subseteq RuleTests(t, stateful)
<1>1. RuleTests(t, stateful) \subseteq StrictOptions(t)
  BY DEF RuleTests, StrictOptions, KnownOptions, Tracks
<1>2. LooseOptions(t, stateful) \subseteq RuleTests(t, stateful)
  BY DEF RuleTests, StrictOptions, LooseOptions, KnownOptions, Tracks
<1> QED
  BY <1>1, <1>2

IptablesBlock(t, platform, v, stateful) ==
  IF IptablesRenders(t, platform, v) THEN IptablesRules(t, platform, v, stateful)
  ELSE Nothing

\* What iptables, speedway and ipset make of a term.
LEMMA IptablesAnswers ==
  ASSUME NEW t, TermInForm(t), HighPortsAdded(t),
         t.address = <<>>, t.port = <<>>, t.precedence = {}, t.protocol_except = {},
         NEW platform, NEW v \in Versions, NEW stateful,
         ActiveOn(t, platform), IptablesAsMeant(t, platform, v),
         ~IptablesRefuses(t, platform, v),
         NEW p, PacketInForm(p), p.source[1] = v
  PROVE  AsAsked(IptablesBlock(t, platform, v, stateful), t, stateful, p)
<1> DEFINE a == IptablesAddresses(t, platform, v)
           block == IptablesBlock(t, platform, v, stateful)
<1>1. SidesFor(a, t, v)
  <2>1. CASE platform = "ipset"
    BY <2>1, IpsetAddressesFor DEF IptablesAddresses
  <2>2. CASE platform # "ipset"
    BY <2>2, CalculateAddressesFor DEF IptablesAddresses
  <2> QED
    BY <2>1, <2>2
<1> HIDE DEF a
<1>2. p.source \in Numbers(Everything(v)) /\ p.destination \in Numbers(Everything(v))
  BY PacketIs
<1>3. /\ Left1(a.source, a.source_exclude, p.source)
           <=> Among(p.source, t.source_address, t.source_address_exclude)
      /\ Left1(a.destination, a.destination_exclude, p.destination)
           <=> Among(p.destination, t.destination_address, t.destination_address_exclude)
  BY <1>1, <1>2 DEF SidesFor
<1>4. CASE FamilyMismatch(t, v)
  <2>1. ~PartlyMismatched(t, v)
    BY DEF IptablesAsMeant
  <2>2. ~Test(t.protocol, p.protocol)
    BY <1>4, <2>1, TermIs, MismatchMissed
  <2>3. ~Describes(t, p)
    BY <2>2 DEF Describes
  <2>4. block = Nothing
    BY <1>4 DEF IptablesBlock, IptablesRenders, IptablesSkips
  <2> QED
    BY <2>3, <2>4, AsAskedOfNothing
<1>5. CASE t.verbatim # {}
  <2>1. ~Describes(t, p)
    BY <1>5 DEF Describes
  <2>2. block = Nothing
    BY <1>5 DEF IptablesBlock, IptablesRenders, IptablesSkips
  <2> QED
    BY <2>1, <2>2, AsAskedOfNothing
<1>6. CASE ~FamilyMismatch(t, v) /\ t.verbatim = {}
  <2>1. ~IptablesSkips(t, platform, v)
    BY <1>6 DEF IptablesSkips
  <2>2. ~HasPrefixList(t)
    BY <2>1 DEF IptablesRefuses, IptablesAsMeant
  <2>3. PlainRule(t)
    BY <1>6, <2>2 DEF PlainRule, HasPrefixList
  <2>4. Describes(t, p) <=>
           /\ Test(t.protocol, p.protocol)
           /\ Test(t.icmp_type, p.icmp_type)
           /\ Left1(a.source, a.source_exclude, p.source)
           /\ Left1(a.destination, a.destination_exclude, p.destination)
           /\ AmongPorts(p.source_port, t.source_port)
           /\ AmongPorts(p.destination_port, t.destination_port)
           /\ Within(p.fragment_offset, t.fragment_offset)
           /\ Within(p.packet_length, t.packet_length)
    BY <1>3, <2>3, PlainDescribes
  <2>5. CASE NoAddressesLeft(a)
    <3>1. ~Left1(a.source, a.source_exclude, p.source)
             \/ ~Left1(a.destination, a.destination_exclude, p.destination)
      BY <2>5, NothingInEmpty DEF NoAddressesLeft, Left1
    <3>2. ~Describes(t, p)
      BY <2>4, <3>1
    <3>3. block = Nothing
      BY <2>5 DEF IptablesBlock, IptablesRenders, a
    <3> QED
      BY <3>2, <3>3, AsAskedOfNothing
  <2>6. CASE ~NoAddressesLeft(a)
    <3>1. /\ block.except = Jumps(a)
          /\ block.rules = IF platform = "ipset"
                           THEN SetRules(t, a, IptablesShape(t, stateful))
                           ELSE Product(IptablesShape(t, stateful), a.source, a.destination,
                                        PortStatements(t.source_port),
                                        PortStatements(t.destination_port))
      <4>1. block = IptablesRules(t, platform, v, stateful)
        BY <2>1, <2>2, <2>6 DEF IptablesBlock, IptablesRenders, a
      <4> QED
        BY <4>1, IptablesRulesAre DEF a
    <3> HIDE DEF block
    <3>2. (\E r \in block.rules : Meets(r, p)) <=> IptablesTests(t, a, stateful, p)
      BY <3>1, SetRulesMeet, ProductRulesMeet
    <3>3. (\A r \in block.except : ~Meets(r, p)) <=>
            /\ p.source \notin AddressesOf(a.source_exclude)
            /\ p.destination \notin AddressesOf(a.destination_exclude)
      BY <3>1, JumpsMeet
    <3>4. a.source # <<>> /\ a.destination # <<>>
      BY <2>6 DEF NoAddressesLeft
    <3>5. /\ Left1(a.source, a.source_exclude, p.source) <=>
               Side(a.source, p.source) /\ p.source \notin AddressesOf(a.source_exclude)
          /\ Left1(a.destination, a.destination_exclude, p.destination) <=>
               Side(a.destination, p.destination)
                 /\ p.destination \notin AddressesOf(a.destination_exclude)
      BY <3>4 DEF Left1, Side
    <3>6. Catches(block, p) <=> Describes(t, p) /\ RuleTests(t, stateful) \subseteq p.option
      BY <2>4, <3>2, <3>3, <3>5, Zenon DEF Catches, IptablesTests
    <3>7. "tcp-established" \in t.option => t.protocol = {"tcp"}
      BY <2>1, <2>2, <2>6 DEF IptablesRefuses, a
    <3>8. /\ RuleTests(t, stateful) \subseteq StrictOptions(t)
          /\ LooseOptions(t, stateful) \subseteq RuleTests(t, stateful)
      BY <3>7, RuleTestsBetween DEF IptablesAsMeant
    <3>9. /\ Describes(t, p) /\ StrictOptions(t) \subseteq p.option => Catches(block, p)
          /\ Catches(block, p) => Describes(t, p) /\ LooseOptions(t, stateful) \subseteq p.option
      <4>1. /\ StrictOptions(t) \subseteq p.option => RuleTests(t, stateful) \subseteq p.option
            /\ RuleTests(t, stateful) \subseteq p.option
                 => LooseOptions(t, stateful) \subseteq p.option
        BY <3>8
      <4> QED
        BY <3>6, <4>1, Zenon
    <3> QED
      BY <3>9, AsAskedIf DEF block
  <2> QED
    BY <2>5, <2>6
<1> QED
  BY <1>4, <1>5, <1>6

-----------------------------------------------------------------------------
(* Cisco and the ASA *)

\* The addresses of a line are those of the term.
LEMMA CiscoSideFor ==
  ASSUME NEW list \in Seq(Networks), NEW x \in Seq(Networks), list = <<>> => x = <<>>,
         NEW v \in Versions, NEW c \in Numbers(Everything(v))
  PROVE  /\ list # <<>> /\ CiscoSide(list, x, v) = <<>> => ~Among(c, list, x)
         /\ (list # <<>> => CiscoSide(list, x, v) # <<>>) =>
              (Side(CiscoSide(list, x, v), c) <=> Among(c, list, x))
<1> DEFINE own == OfVersion(list, v)
           not == OfVersion(x, v)
           listed == CiscoSide(list, x, v)
<1>1. /\ own \in Seq(Networks) /\ not \in Seq(Networks)
      /\ c \in AddressesOf(own) <=> c \in AddressesOf(list)
      /\ c \in AddressesOf(not) <=> c \in AddressesOf(x)
  BY OfVersionIs, EverythingHolds
<1>2. c \in AddressesOf(listed) <=> c \in AddressesOf(list) /\ c \notin AddressesOf(x)
  <2>1. CASE not = <<>>
    <3>1. listed = own
      BY <2>1 DEF CiscoSide
    <3> HIDE DEF own, not, listed
    <3> QED
      BY <1>1, <2>1, <3>1, NothingInEmpty
  <2>2. CASE not # <<>>
    <3>1. listed = ExcludeAddrs(own, not)
      BY <2>2 DEF CiscoSide
    <3> HIDE DEF own, not, listed
    <3> QED
      BY <1>1, <3>1, ExcludeAddrsIs
  <2> QED
    BY <2>1, <2>2
<1>3. list = <<>> => listed = <<>>
  <2>1. SUFFICES ASSUME list = <<>> PROVE listed = <<>>
    OBVIOUS
  <2>2. x = <<>>
    BY <2>1
  <2>3. OfVersion(<<>>, v) = <<>>
    <3>1. /\ OfVersion(<<>>, v) \in Seq(Networks)
          /\ Range(OfVersion(<<>>, v)) = {n \in Range(<<>>) : n.version = v}
      <4>1. <<>> \in Seq(Networks)
        OBVIOUS
      <4> QED
        BY <4>1, OfVersionIs
    <3>2. Range(<<>>) = {}
      BY DEF Range
    <3>3. DOMAIN OfVersion(<<>>, v) = {}
      BY <3>1, <3>2 DEF Range
    <3> QED
      BY <3>1, <3>3
  <2> QED
    BY <2>1, <2>2, <2>3 DEF CiscoSide
<1> HIDE DEF own, not, listed
<1>4. list # <<>> /\ listed = <<>> => ~Among(c, list, x)
  BY <1>2, NothingInEmpty DEF Among
<1>5. (list # <<>> => listed # <<>>) => (Side(listed, c) <=> Among(c, list, x))
  <2>1. CASE list = <<>>
    <3>1. listed = <<>> /\ x = <<>>
      BY <2>1, <1>3
    <3> QED
      BY <2>1, <3>1, NothingInEmpty DEF Side, Among
  <2>2. CASE list # <<>>
    BY <2>2, <1>2 DEF Side, Among
  <2> QED
    BY <2>1, <2>2
<1> QED
  BY <1>4, <1>5 DEF listed

\* What a line is made of.
LineShape(t) == [EmptyTerm EXCEPT !.protocol = t.protocol, !.icmp_type = t.icmp_type]

\* The fields of a line that are the same for all of them.
LEMMA LineShapeIs ==
  ASSUME NEW t
  PROVE  /\ DOMAIN LineShape(t) = DOMAIN EmptyTerm /\ PlainRule(LineShape(t))
         /\ LineShape(t).protocol = t.protocol /\ LineShape(t).icmp_type = t.icmp_type
         /\ LineShape(t).option = {} /\ LineShape(t).fragment_offset = NONE
         /\ LineShape(t).packet_length = NONE
<1> DEFINE s == LineShape(t)
           edited == {"protocol", "icmp_type"}
<1>1. DOMAIN EmptyTerm = TermFields /\ edited \subseteq TermFields
  BY FieldsAre DEF TermFields
<1>2. /\ DOMAIN s = TermFields
      /\ s.protocol = t.protocol /\ s.icmp_type = t.icmp_type
      /\ \A a \in TermFields : a \notin edited => s[a] = EmptyTerm[a]
  BY <1>1 DEF LineShape
<1> HIDE DEF s
<1>3. PlainRule(s) /\ s.option = {} /\ s.fragment_offset = NONE /\ s.packet_length = NONE
  BY <1>2, EmptyTermIs DEF PlainRule, TermFields
<1> QED
  BY <1>1, <1>2, <1>3 DEF s

\* What the lines test, but for the options.
LineTests(t, source, destination, p) ==
  /\ Test(t.icmp_type, p.icmp_type)
  /\ Side(source, p.source) /\ Side(destination, p.destination)
  /\ AmongPorts(p.source_port, t.source_port)
  /\ AmongPorts(p.destination_port, t.destination_port)

Lines(t, source, destination) ==
  Product(LineShape(t), source, destination, EachOf(t.source_port), EachOf(t.destination_port))

\* What the lines of a protocol test.
LEMMA LinesTest ==
  ASSUME NEW t, NEW source, NEW destination, NEW p
  PROVE  /\ \A r \in Lines(t, source, destination) :
              /\ PlainRule(r) /\ r.protocol \in Each(t.protocol) /\ r.option = {}
              /\ DOMAIN r = DOMAIN EmptyTerm
         /\ \A q \in Each(t.protocol) :
              (\E r \in Lines(t, source, destination) : r.protocol = q /\ Tests(r, p)) <=>
                Test(q, p.protocol) /\ LineTests(t, source, destination, p)
<1> DEFINE s == LineShape(t)
           SP == EachOf(t.source_port)
           DP == EachOf(t.destination_port)
           rules == Product(s, source, destination, SP, DP)
<1>1. /\ DOMAIN s = DOMAIN EmptyTerm /\ PlainRule(s)
      /\ s.protocol = t.protocol /\ s.icmp_type = t.icmp_type
      /\ s.option = {} /\ s.fragment_offset = NONE /\ s.packet_length = NONE
  BY LineShapeIs
<1>2. /\ (\E l \in SP : AmongPorts(p.source_port, l)) <=> AmongPorts(p.source_port, t.source_port)
      /\ (\E l \in DP : AmongPorts(p.destination_port, l))
           <=> AmongPorts(p.destination_port, t.destination_port)
  BY EachOfPorts
<1> HIDE DEF SP, DP, s
<1>3. /\ \A r \in rules :
              /\ PlainRule(r) /\ r.protocol \in Each(s.protocol) /\ r.option = s.option
              /\ DOMAIN r = DOMAIN EmptyTerm
      /\ \A q \in Each(s.protocol) :
              (\E r \in rules : r.protocol = q /\ Tests(r, p)) <=>
                /\ Test(q, p.protocol)
                /\ Test(s.icmp_type, p.icmp_type)
                /\ Side(source, p.source) /\ Side(destination, p.destination)
                /\ \E sp \in SP : AmongPorts(p.source_port, sp)
                /\ \E dp \in DP : AmongPorts(p.destination_port, dp)
                /\ s.option \subseteq p.option
                /\ Within(p.fragment_offset, s.fragment_offset)
                /\ Within(p.packet_length, s.packet_length)
  BY <1>1, ProductTests
<1>4. {} \subseteq p.option /\ \A c : Within(c, NONE)
  BY DEF Within
<1> HIDE DEF rules
<1>5. /\ \A r \in rules :
              /\ PlainRule(r) /\ r.protocol \in Each(t.protocol) /\ r.option = {}
              /\ DOMAIN r = DOMAIN EmptyTerm
      /\ \A q \in Each(t.protocol) :
              (\E r \in rules : r.protocol = q /\ Tests(r, p)) <=>
                Test(q, p.protocol) /\ LineTests(t, source, destination, p)
  BY <1>1, <1>2, <1>3, <1>4, Zenon DEF LineTests
<1> QED
  BY <1>5 DEF rules, Lines, s, SP, DP

\* A line of TCP may be for established connections only.
WithOption(r, option) == [r EXCEPT !.option = option]

\* A rule that tests an option too.
LEMMA WithOptionMeets ==
  ASSUME NEW r, PlainRule(r), DOMAIN r = DOMAIN EmptyTerm, r.option = {}, NEW option, NEW p
  PROVE  Meets(WithOption(r, option), p) <=> Tests(r, p) /\ option \subseteq p.option
<1> DEFINE o == WithOption(r, option)
<1>1. DOMAIN r = TermFields /\ "option" \in TermFields
  BY FieldsAre DEF TermFields
<1>2. o.option = option /\ \A a \in TermFields : a # "option" => o[a] = r[a]
  BY <1>1 DEF WithOption
<1> HIDE DEF o
<1>3. PlainRule(o)
  BY <1>2 DEF PlainRule, TermFields
<1>4. /\ o.protocol = r.protocol /\ o.icmp_type = r.icmp_type
      /\ o.source_address = r.source_address
      /\ o.source_address_exclude = r.source_address_exclude
      /\ o.destination_address = r.destination_address
      /\ o.destination_address_exclude = r.destination_address_exclude
      /\ o.source_port = r.source_port /\ o.destination_port = r.destination_port
      /\ o.fragment_offset = r.fragment_offset /\ o.packet_length = r.packet_length
  BY <1>2 DEF TermFields
<1>5. {} \subseteq p.option
  OBVIOUS
<1>6. Tests(o, p) <=> Tests(r, p) /\ option \subseteq p.option
  BY <1>2, <1>4, <1>5, Zenon DEF Tests
<1> QED
  BY <1>3, <1>6, PlainRuleMeets DEF o

CiscoAsksEstablished(t) ==
  "tcp" \in t.protocol /\ {"established", "tcp-established"} \cap t.option # {}

CiscoOption(t, q) == IF CiscoAsksEstablished(t) /\ q # {"udp"} THEN {"established"} ELSE {}

\* What the lines of a term test.
LEMMA CiscoRulesMeet ==
  ASSUME NEW t, NEW v, NEW p
  PROVE  (\E r \in CiscoRules(t, v) : Meets(r, p)) <=>
           /\ LineTests(t, CiscoSource(t, v), CiscoDestination(t, v), p)
           /\ \E q \in Each(t.protocol) :
                Test(q, p.protocol) /\ CiscoOption(t, q) \subseteq p.option
<1> DEFINE lines == Lines(t, CiscoSource(t, v), CiscoDestination(t, v))
           Rest == LineTests(t, CiscoSource(t, v), CiscoDestination(t, v), p)
<1>1. CiscoRules(t, v) = {WithOption(r, CiscoOption(t, r.protocol)) : r \in lines}
  BY DEF CiscoRules, WithOption, CiscoOption, CiscoAsksEstablished, Lines, LineShape
<1>2. /\ \A r \in lines :
              /\ PlainRule(r) /\ r.protocol \in Each(t.protocol) /\ r.option = {}
              /\ DOMAIN r = DOMAIN EmptyTerm
      /\ \A q \in Each(t.protocol) :
              (\E r \in lines : r.protocol = q /\ Tests(r, p)) <=> Test(q, p.protocol) /\ Rest
  BY LinesTest
<1> HIDE DEF lines, Rest
<1>3. \A r \in lines : \A option :
        Meets(WithOption(r, option), p) <=> Tests(r, p) /\ option \subseteq p.option
  BY <1>2, WithOptionMeets
<1>4. (\E r \in CiscoRules(t, v) : Meets(r, p)) <=>
        \E r \in lines : Tests(r, p) /\ CiscoOption(t, r.protocol) \subseteq p.option
  <2>1. (\E r \in CiscoRules(t, v) : Meets(r, p)) <=>
          \E r \in lines : Meets(WithOption(r, CiscoOption(t, r.protocol)), p)
    BY <1>1
  <2> QED
    BY <1>3, <2>1
<1>5. (\E r \in lines : Tests(r, p) /\ CiscoOption(t, r.protocol) \subseteq p.option) <=>
        \E q \in Each(t.protocol) :
          Test(q, p.protocol) /\ Rest /\ CiscoOption(t, q) \subseteq p.option
  BY <1>2
<1> QED
  BY <1>4, <1>5 DEF Rest

CiscoBlock(t, v) == IF CiscoRenders(t, v) THEN Plain(CiscoRules(t, v)) ELSE Nothing

\* What an extended list or one for IPv6 makes of a term.
LEMMA CiscoAnswers ==
  ASSUME NEW t, TermInForm(t), HighPortsAdded(t),
         t.address = <<>>, t.port = <<>>, t.precedence = {}, t.protocol_except = {},
         t.source_prefix = {}, t.destination_prefix = {},
         t.fragment_offset = NONE, t.packet_length = NONE,
         NEW type \in {"extended", "inet6"}, ActiveOn(t, "cisco"), CiscoAsMeant(t, type),
         NEW v, v = CiscoVersion(type),
         NEW p, PacketInForm(p), p.source[1] = v
  PROVE  AsAsked(CiscoBlock(t, v), t, FALSE, p)
<1> DEFINE block == CiscoBlock(t, v)
           source == CiscoSource(t, v)
           destination == CiscoDestination(t, v)
<1>1. v \in Versions
  BY DEF CiscoVersion, Versions
<1>2. /\ ~PartlyMismatched(t, v) /\ ~ExcludesFromAny(t)
      /\ t.option \subseteq {"established", "tcp-established", "sample"}
      /\ "tcp-established" \in t.option => t.protocol = {"tcp"}
  BY DEF CiscoAsMeant
<1>3. p.source \in Numbers(Everything(v)) /\ p.destination \in Numbers(Everything(v))
  BY <1>1, PacketIs
<1>4. CASE FamilyMismatch(t, v) \/ t.verbatim # {}
  <2>1. ~Describes(t, p)
    <3>1. FamilyMismatch(t, v) => ~Test(t.protocol, p.protocol)
      BY <1>1, <1>2, TermIs, MismatchMissed
    <3> QED
      BY <1>4, <3>1 DEF Describes
  <2>2. block = Nothing
    BY <1>4 DEF CiscoBlock, CiscoRenders, CiscoSkips
  <2> QED
    BY <2>1, <2>2, AsAskedOfNothing
<1>5. CASE ~FamilyMismatch(t, v) /\ t.verbatim = {}
  <2>1. PlainRule(t)
    BY <1>5 DEF PlainRule
  <2>2. \A c : Within(c, NONE)
    BY DEF Within
  <2>3. Describes(t, p) <=>
           /\ Test(t.protocol, p.protocol)
           /\ Test(t.icmp_type, p.icmp_type)
           /\ Among(p.source, t.source_address, t.source_address_exclude)
           /\ Among(p.destination, t.destination_address, t.destination_address_exclude)
           /\ AmongPorts(p.source_port, t.source_port)
           /\ AmongPorts(p.destination_port, t.destination_port)
    BY <2>1, <2>2, PlainDescribes
  <2>4. /\ t.source_address \in Seq(Networks) /\ t.source_address_exclude \in Seq(Networks)
        /\ t.destination_address \in Seq(Networks)
        /\ t.destination_address_exclude \in Seq(Networks)
        /\ t.source_address = <<>> => t.source_address_exclude = <<>>
        /\ t.destination_address = <<>> => t.destination_address_exclude = <<>>
    BY <1>2, TermIs DEF ExcludesFromAny
  <2>5. /\ t.source_address # <<>> /\ source = <<>> =>
             ~Among(p.source, t.source_address, t.source_address_exclude)
        /\ (t.source_address # <<>> => source # <<>>) =>
             (Side(source, p.source)
                <=> Among(p.source, t.source_address, t.source_address_exclude))
    BY <1>1, <1>3, <2>4, CiscoSideFor DEF CiscoSource
  <2>6. /\ t.destination_address # <<>> /\ destination = <<>> =>
             ~Among(p.destination, t.destination_address, t.destination_address_exclude)
        /\ (t.destination_address # <<>> => destination # <<>>) =>
             (Side(destination, p.destination)
                <=> Among(p.destination, t.destination_address, t.destination_address_exclude))
    BY <1>1, <1>3, <2>4, CiscoSideFor DEF CiscoDestination
  <2>7. CASE CiscoNoAddresses(t, v)
    <3>1. ~Describes(t, p)
      BY <2>3, <2>5, <2>6, <2>7 DEF CiscoNoAddresses
    <3>2. block = Nothing
      BY <2>7 DEF CiscoBlock, CiscoRenders
    <3> QED
      BY <3>1, <3>2, AsAskedOfNothing
  <2>8. CASE ~CiscoNoAddresses(t, v)
    <3>1. block = Plain(CiscoRules(t, v))
      BY <1>5, <2>8 DEF CiscoBlock, CiscoRenders, CiscoSkips
    <3> HIDE DEF block
    <3>2. Catches(block, p) <=>
           /\ LineTests(t, source, destination, p)
           /\ \E q \in Each(t.protocol) :
                Test(q, p.protocol) /\ CiscoOption(t, q) \subseteq p.option
      BY <3>1, PlainCatches, CiscoRulesMeet
    <3>3. /\ t.source_address # <<>> => source # <<>>
          /\ t.destination_address # <<>> => destination # <<>>
      BY <2>8 DEF CiscoNoAddresses
    <3>4. Describes(t, p) <=>
            Test(t.protocol, p.protocol) /\ LineTests(t, source, destination, p)
      BY <2>3, <2>5, <2>6, <3>3, Zenon DEF LineTests
    <3>5. (\E q \in Each(t.protocol) : Test(q, p.protocol)) <=> Test(t.protocol, p.protocol)
      BY EachTests
    <3>6. \A q : CiscoOption(t, q) \subseteq StrictOptions(t)
      BY DEF CiscoOption, CiscoAsksEstablished, StrictOptions, Tracks
    <3>7. \A q \in Each(t.protocol) : LooseOptions(t, FALSE) \subseteq CiscoOption(t, q)
      <4>1. CASE LooseOptions(t, FALSE) = {}
        BY <4>1
      <4>2. CASE LooseOptions(t, FALSE) # {}
        <5>1. StrictOptions(t) \subseteq {"established"}
          BY <1>2 DEF StrictOptions
        <5>2. Tracks(t)
          BY <1>2, <4>2 DEF LooseOptions, StrictOptions
        <5>3. t.protocol = {"tcp"}
          BY <1>2, <4>2, <5>1 DEF LooseOptions
        <5>4. Each(t.protocol) = {{"tcp"}}
          BY <5>3 DEF Each
        <5>5. {"tcp"} # {"udp"}
          OBVIOUS
        <5>6. CiscoAsksEstablished(t)
          BY <5>2, <5>3 DEF CiscoAsksEstablished, Tracks
        <5> QED
          BY <5>1, <5>4, <5>5, <5>6, LooseIsLess DEF CiscoOption
      <4> QED
        BY <4>1, <4>2
    <3>8. Describes(t, p) /\ StrictOptions(t) \subseteq p.option => Catches(block, p)
      BY <3>2, <3>4, <3>5, <3>6
    <3>9. Catches(block, p) => Describes(t, p) /\ LooseOptions(t, FALSE) \subseteq p.option
      BY <3>2, <3>4, <3>5, <3>7
    <3> QED
      BY <3>8, <3>9, AsAskedIf DEF block
  <2> QED
    BY <2>7, <2>8
<1> QED
  BY <1>4, <1>5

\* The address of a standard list is compared with the source.
SourceReading(t) == [t EXCEPT !.address = <<>>, !.source_address = t.address]

StandardBlock(t) ==
  IF ActiveOn(t, "cisco") /\ t.verbatim = {} THEN Plain(StandardRules(t)) ELSE Nothing

\* A rule with a source alone.
LEMMA OneSideMeets ==
  ASSUME NEW list, NEW p
  PROVE  Meets([EmptyTerm EXCEPT !.source_address = list], p) <=> Side(list, p.source)
BY JumpMeets

\* A standard list answers the term, whose address it takes for the source.
LEMMA StandardAnswers ==
  ASSUME NEW e, NEW t, t = e.term, TermInForm(t), ~StandardRefuses(e),
         t.port = <<>>, t.precedence = {}, t.protocol_except = {},
         t.source_prefix = {}, t.destination_prefix = {},
         t.fragment_offset = NONE, t.packet_length = NONE,
         ActiveOn(t, "cisco"), CiscoAsMeant(t, "standard"), NEW p
  PROVE  AsAsked(StandardBlock(t), SourceReading(t), FALSE, p)
<1> DEFINE r == SourceReading(t)
           block == StandardBlock(t)
           edited == {"address", "source_address"}
           absent == {"protocol", "icmp_type", "source_address",
                      "source_address_exclude", "destination_address",
                      "destination_address_exclude", "option", "source_port",
                      "destination_port"}
<1>1. DOMAIN t = TermFields /\ DOMAIN EmptyTerm = TermFields /\ edited \subseteq TermFields
      /\ absent \subseteq TermFields
  BY FieldsAre, TermIs DEF TermFields
<1>2. \A a \in absent : t[a] = EmptyTerm[a]
  <2>1. Keywords(e) \cap absent = {}
    BY DEF StandardRefuses
  <2> QED
    BY <1>1, <2>1 DEF Keywords
<1>3. /\ t.protocol = {} /\ t.icmp_type = {} /\ t.source_address = <<>>
      /\ t.source_address_exclude = <<>> /\ t.destination_address = <<>>
      /\ t.destination_address_exclude = <<>> /\ t.option = {}
      /\ t.source_port = <<>> /\ t.destination_port = <<>>
  BY <1>2, EmptyTermIs
<1>4. /\ DOMAIN r = TermFields /\ r.address = <<>> /\ r.source_address = t.address
      /\ \A a \in TermFields : a \notin edited => r[a] = t[a]
  BY <1>1 DEF SourceReading
<1> HIDE DEF r
<1>5. /\ r.verbatim = t.verbatim /\ r.protocol = {} /\ r.icmp_type = {}
      /\ r.source_address_exclude = <<>> /\ r.destination_address = <<>>
      /\ r.destination_address_exclude = <<>> /\ r.option = {} /\ r.source_port = <<>>
      /\ r.destination_port = <<>> /\ r.port = <<>> /\ r.precedence = {}
      /\ r.protocol_except = {} /\ r.source_prefix = {} /\ r.destination_prefix = {}
      /\ r.fragment_offset = NONE /\ r.packet_length = NONE
  BY <1>3, <1>4 DEF TermFields
<1>6. /\ \A c : AmongPorts(c, <<>>) /\ Within(c, NONE) /\ Test({}, c) /\ Among(c, <<>>, <<>>)
      /\ \A l, c : Among(c, l, <<>>) <=> Side(l, c)
  BY NothingInEmpty DEF AmongPorts, Within, Test, Among, Side
<1>7. Describes(r, p) <=> t.verbatim = {} /\ Side(t.address, p.source)
  <2>1. CASE t.verbatim = {}
    <3>1. PlainRule(r)
      BY <1>4, <1>5, <2>1 DEF PlainRule
    <3> QED
      BY <1>4, <1>5, <1>6, <2>1, <3>1, PlainDescribes
  <2>2. CASE t.verbatim # {}
    BY <1>5, <2>2 DEF Describes
  <2> QED
    BY <2>1, <2>2
<1>8. Catches(block, p) <=> t.verbatim = {} /\ Side(t.address, p.source)
  <2>1. CASE t.verbatim # {}
    BY <2>1, NothingCatches DEF StandardBlock
  <2>2. CASE t.verbatim = {}
    <3>1. block = Plain(StandardRules(t))
      BY <2>2 DEF StandardBlock
    <3>2. OfVersion(t.address, 4) = t.address
      BY DEF CiscoAsMeant
    <3>3. StandardRules(t) =
            {[EmptyTerm EXCEPT !.source_address = a] : a \in EachOf(t.address)}
      BY <3>2 DEF StandardRules
    <3>4. \A a : Meets([EmptyTerm EXCEPT !.source_address = a], p) <=> Side(a, p.source)
      BY OneSideMeets
    <3>5. (\E x \in StandardRules(t) : Meets(x, p)) <=>
            \E a \in EachOf(t.address) : Side(a, p.source)
      BY <3>3, <3>4
    <3> QED
      BY <2>2, <3>1, <3>5, PlainCatches, EachOfSide
  <2> QED
    BY <2>1, <2>2
<1>9. StrictOptions(r) = {} /\ LooseOptions(r, FALSE) = {}
  BY <1>5 DEF StrictOptions, LooseOptions, Tracks
<1>10. HighPortsAdded(r) /\ r.destination_port \in Seq(Ports) /\ DOMAIN r = DOMAIN EmptyTerm
  BY <1>1, <1>4, <1>5 DEF HighPortsAdded, HasHighPorts, Established
<1>11. /\ Meets(Strictly(r), p) <=> Describes(r, p) /\ StrictOptions(r) \subseteq p.option
       /\ Meets(Loosely(r, FALSE), p) <=>
           Describes(r, p) /\ LooseOptions(r, FALSE) \subseteq p.option
  BY <1>10, AsksFor
<1> QED
  BY <1>7, <1>8, <1>9, <1>11 DEF AsAsked, r

AsaBlock(t) == IF AsaSkips(t) THEN Nothing ELSE Plain(AsaRules(t))

\* The lines of the ASA answer the term.
LEMMA AsaAnswers ==
  ASSUME NEW t, TermInForm(t),
         t.address = <<>>, t.port = <<>>, t.precedence = {}, t.protocol_except = {},
         t.source_prefix = {}, t.destination_prefix = {},
         t.fragment_offset = NONE, t.packet_length = NONE,
         ActiveOn(t, "ciscoasa"), ~PartlyMismatched(t, 4), ~ExcludesFromAny(t),
         t.option \subseteq {"sample"},
         NEW p, PacketInForm(p), p.source[1] = 4
  PROVE  AsAsked(AsaBlock(t), t, FALSE, p)
<1> DEFINE block == AsaBlock(t)
           source == AsaSide(t.source_address, t.source_address_exclude)
           destination == AsaSide(t.destination_address, t.destination_address_exclude)
<1>1. 4 \in Versions
  BY DEF Versions
<1>2. HighPortsAdded(t)
  BY DEF HighPortsAdded, HasHighPorts, Established
<1>3. p.source \in Numbers(Everything(4)) /\ p.destination \in Numbers(Everything(4))
  BY <1>1, PacketIs
<1>4. CASE FamilyMismatch(t, 4) \/ t.verbatim # {}
  <2>1. ~Describes(t, p)
    <3>1. FamilyMismatch(t, 4) => ~Test(t.protocol, p.protocol)
      BY <1>1, TermIs, MismatchMissed
    <3> QED
      BY <1>4, <3>1 DEF Describes
  <2>2. block = Nothing
    BY <1>4 DEF AsaBlock, AsaSkips
  <2> QED
    BY <1>2, <2>1, <2>2, AsAskedOfNothing
<1>5. CASE ~FamilyMismatch(t, 4) /\ t.verbatim = {}
  <2>1. PlainRule(t)
    BY <1>5 DEF PlainRule
  <2>2. \A c : Within(c, NONE)
    BY DEF Within
  <2>3. Describes(t, p) <=>
           /\ Test(t.protocol, p.protocol)
           /\ Test(t.icmp_type, p.icmp_type)
           /\ Among(p.source, t.source_address, t.source_address_exclude)
           /\ Among(p.destination, t.destination_address, t.destination_address_exclude)
           /\ AmongPorts(p.source_port, t.source_port)
           /\ AmongPorts(p.destination_port, t.destination_port)
    BY <2>1, <2>2, PlainDescribes
  <2>4. /\ t.source_address \in Seq(Networks) /\ t.source_address_exclude \in Seq(Networks)
        /\ t.destination_address \in Seq(Networks)
        /\ t.destination_address_exclude \in Seq(Networks)
        /\ t.source_address = <<>> => t.source_address_exclude = <<>>
        /\ t.destination_address = <<>> => t.destination_address_exclude = <<>>
    BY TermIs DEF ExcludesFromAny
  <2>5. \A list, x : AsaSide(list, x) = CiscoSide(list, x, 4)
    BY DEF AsaSide, CiscoSide
  <2>6. /\ t.source_address # <<>> /\ source = <<>> =>
             ~Among(p.source, t.source_address, t.source_address_exclude)
        /\ (t.source_address # <<>> => source # <<>>) =>
             (Side(source, p.source)
                <=> Among(p.source, t.source_address, t.source_address_exclude))
    BY <1>1, <1>3, <2>4, <2>5, CiscoSideFor
  <2>7. /\ t.destination_address # <<>> /\ destination = <<>> =>
             ~Among(p.destination, t.destination_address, t.destination_address_exclude)
        /\ (t.destination_address # <<>> => destination # <<>>) =>
             (Side(destination, p.destination)
                <=> Among(p.destination, t.destination_address, t.destination_address_exclude))
    BY <1>1, <1>3, <2>4, <2>5, CiscoSideFor
  <2>8. block = Plain(AsaRules(t))
    BY <1>5 DEF AsaBlock, AsaSkips
  <2>9. AsaRules(t) = IF \/ t.source_address # <<>> /\ source = <<>>
                         \/ t.destination_address # <<>> /\ destination = <<>>
                      THEN {} ELSE Lines(t, source, destination)
    BY DEF AsaRules, Lines, LineShape
  <2> HIDE DEF block, source, destination
  <2>10. StrictOptions(t) = {} /\ LooseOptions(t, FALSE) = {}
    BY DEF StrictOptions, LooseOptions, Tracks
  <2>11. Catches(block, p) <=> Describes(t, p)
    <3>1. CASE \/ t.source_address # <<>> /\ source = <<>>
               \/ t.destination_address # <<>> /\ destination = <<>>
      <4>1. ~Catches(block, p)
        BY <2>8, <2>9, <3>1, PlainCatches
      <4> QED
        BY <2>3, <2>6, <2>7, <3>1, <4>1
    <3>2. CASE ~(\/ t.source_address # <<>> /\ source = <<>>
                 \/ t.destination_address # <<>> /\ destination = <<>>)
      <4> DEFINE lines == Lines(t, source, destination)
      <4>1. Catches(block, p) <=> \E r \in lines : Meets(r, p)
        BY <2>8, <2>9, <3>2, PlainCatches
      <4>2. /\ \A r \in lines : PlainRule(r) /\ r.protocol \in Each(t.protocol)
            /\ \A q \in Each(t.protocol) :
                 (\E r \in lines : r.protocol = q /\ Tests(r, p)) <=>
                   Test(q, p.protocol) /\ LineTests(t, source, destination, p)
        BY LinesTest
      <4> HIDE DEF lines
      <4>3. (\E r \in lines : Meets(r, p)) <=>
              \E q \in Each(t.protocol) : \E r \in lines : r.protocol = q /\ Tests(r, p)
        BY <4>2, PlainRuleMeets
      <4>4. (\E r \in lines : Meets(r, p)) <=>
              Test(t.protocol, p.protocol) /\ LineTests(t, source, destination, p)
        <5>1. (\E q \in Each(t.protocol) : Test(q, p.protocol)) <=> Test(t.protocol, p.protocol)
          BY EachTests
        <5> QED
          BY <4>2, <4>3, <5>1
      <4> QED
        BY <2>3, <2>6, <2>7, <3>2, <4>1, <4>4, Zenon DEF LineTests
    <3> QED
      BY <3>1, <3>2
  <2> QED
    BY <1>2, <2>10, <2>11, AsAskedIf DEF block
<1> QED
  BY <1>4, <1>5

-----------------------------------------------------------------------------
(* Juniper *)

Swallows(list, taken) ==
  \E n \in Range(list), x \in Range(taken) : In(n, x) /\ n # x

\* The prefixes that are left, with those excepted from them.
LEMMA PrefixesFor ==
  ASSUME NEW own \in Seq(Networks), NEW not \in Seq(Networks), ~Swallows(own, not)
  PROVE  /\ Without(own, not) \in Seq(Networks) /\ Exceptions(own, not) \in Seq(Networks)
         /\ \A c : Left1(Without(own, not), Exceptions(own, not), c) <=> Left1(own, not, c)
<1> DEFINE with == Without(own, not)
           but == Exceptions(own, not)
<1>1. /\ with \in Seq(Networks) /\ Range(with) = Range(own) \ Range(not)
  <2>1. /\ Those(own, Range(own) \ Range(not)) \in Seq(Networks)
        /\ Range(Those(own, Range(own) \ Range(not))) = Range(own) \cap (Range(own) \ Range(not))
    BY ThoseHolds
  <2> QED
    BY <2>1 DEF Without
<1>2. /\ but \in Seq(Networks)
      /\ Range(but) = {x \in Range(not) : \E n \in Range(with) : In(x, n)}
  <2> DEFINE set == {x \in Range(not) : \E n \in Range(with) : In(x, n)}
  <2>1. /\ Those(not, set) \in Seq(Networks)
        /\ Range(Those(not, set)) = Range(not) \cap set
    BY ThoseHolds
  <2>2. but = Those(not, set)
    BY DEF Exceptions
  <2> HIDE DEF set, but, with
  <2>3. set \subseteq Range(not)
    BY DEF set
  <2>4. Range(but) = set
    BY <2>1, <2>2, <2>3
  <2> QED
    BY <2>1, <2>2, <2>4 DEF set
<1> HIDE DEF with, but
<1>3. /\ \A n \in Range(own) : n \in Networks
      /\ \A n \in Range(not) : n \in Networks
  BY DEF Range
<1>4. \A c : Left1(with, but, c) => Left1(own, not, c)
  <2> SUFFICES ASSUME NEW c, c \in AddressesOf(with), c \notin AddressesOf(but)
               PROVE  c \in AddressesOf(own) /\ c \notin AddressesOf(not)
    BY DEF Left1
  <2>1. PICK n \in Range(with) : c \in Numbers(n)
    BY AddressesOfRange
  <2>2. n \in Range(own) /\ n \notin Range(not) /\ n \in Networks
    BY <1>1, <1>3
  <2>3. c \in AddressesOf(own)
    BY <2>1, <2>2, AddressesOfRange
  <2>4. ASSUME c \in AddressesOf(not) PROVE FALSE
    <3>1. PICK x \in Range(not) : c \in Numbers(x)
      BY <2>4, AddressesOfRange
    <3>2. x \in Networks
      BY <1>3
    <3>3. ~Apart(n, x)
      BY <2>1, <2>2, <3>1, <3>2, ApartIsDisjoint
    <3>4. In(n, x) \/ In(x, n)
      BY <2>2, <3>2, <3>3, ApartIsDisjoint
    <3>5. CASE In(x, n)
      <4>1. x \in Range(but)
        BY <1>2, <3>5
      <4> QED
        BY <3>1, <4>1, AddressesOfRange
    <3>6. CASE In(n, x)
      BY <2>2, <3>6 DEF Swallows
    <3> QED
      BY <3>4, <3>5, <3>6
  <2> QED
    BY <2>3, <2>4
<1>5. \A c : Left1(own, not, c) => Left1(with, but, c)
  <2> SUFFICES ASSUME NEW c, c \in AddressesOf(own), c \notin AddressesOf(not)
               PROVE  c \in AddressesOf(with) /\ c \notin AddressesOf(but)
    BY DEF Left1
  <2>1. PICK n \in Range(own) : c \in Numbers(n)
    BY AddressesOfRange
  <2>2. n \notin Range(not)
    BY <2>1, AddressesOfRange
  <2>3. n \in Range(with)
    BY <1>1, <2>2
  <2>4. c \notin AddressesOf(but)
    BY <1>2, AddressesOfRange
  <2> QED
    BY <2>1, <2>3, <2>4, AddressesOfRange
<1> QED
  BY <1>1, <1>2, <1>4, <1>5 DEF with, but

\* The prefixes of a side of the clause.
SideInclude(list, x, v) == JuniperSide(list, x, v).include
SideExcept(list, x, v) ==
  IF JuniperSide(list, x, v).include = <<>> THEN <<>> ELSE JuniperSide(list, x, v).except

\* Nothing of nothing.
LEMMA EmptyOfVersion ==
  ASSUME NEW v
  PROVE  OfVersion(<<>>, v) = <<>>
<1>1. <<>> \in Seq(Networks)
  OBVIOUS
<1>2. /\ OfVersion(<<>>, v) \in Seq(Networks)
      /\ Range(OfVersion(<<>>, v)) = {n \in Range(<<>>) : n.version = v}
  BY <1>1, OfVersionIs
<1>3. Range(<<>>) = {}
  BY DEF Range
<1>4. DOMAIN OfVersion(<<>>, v) = {}
  BY <1>2, <1>3 DEF Range
<1> QED
  BY <1>2, <1>4

\* The addresses and exceptions of a side are those of the term.
LEMMA JuniperSideFor ==
  ASSUME NEW list \in Seq(Networks), NEW x \in Seq(Networks), list = <<>> => x = <<>>,
         ~Swallows(list, x),
         NEW v \in Versions, NEW c \in Numbers(Everything(v))
  PROVE  /\ list # <<>> /\ SideInclude(list, x, v) = <<>> => ~Among(c, list, x)
         /\ (list # <<>> => SideInclude(list, x, v) # <<>>) =>
              (Among(c, SideInclude(list, x, v), SideExcept(list, x, v)) <=> Among(c, list, x))
<1> DEFINE own == OfVersion(list, v)
           not == OfVersion(x, v)
           with == Without(own, not)
           but == Exceptions(own, not)
           i == SideInclude(list, x, v)
           y == SideExcept(list, x, v)
<1>1. /\ own \in Seq(Networks) /\ not \in Seq(Networks)
      /\ c \in AddressesOf(own) <=> c \in AddressesOf(list)
      /\ c \in AddressesOf(not) <=> c \in AddressesOf(x)
  BY OfVersionIs, EverythingHolds
<1>2. ~Swallows(own, not)
  <2>1. Range(own) \subseteq Range(list) /\ Range(not) \subseteq Range(x)
    BY OfVersionIs
  <2> HIDE DEF own, not
  <2> QED
    BY <2>1 DEF Swallows
<1>3. i = with /\ y = IF with = <<>> THEN <<>> ELSE but
  <2>1. JuniperSide(list, x, v) = [include |-> with, except |-> but]
    BY DEF JuniperSide
  <2> HIDE DEF with, but
  <2> QED
    BY <2>1 DEF SideInclude, SideExcept
<1> HIDE DEF own, not
<1>4. /\ with \in Seq(Networks) /\ but \in Seq(Networks)
      /\ Left1(with, but, c) <=> Left1(own, not, c)
  BY <1>1, <1>2, PrefixesFor
<1>5. list = <<>> => with = <<>>
  <2> SUFFICES ASSUME list = <<>> PROVE with = <<>>
    OBVIOUS
  <2>1. own = <<>>
    BY EmptyOfVersion DEF own
  <2>2. Range(with) \subseteq Range(own)
    BY <1>1, ThoseHolds DEF Without
  <2>3. Range(own) = {}
    BY <2>1 DEF Range
  <2>4. DOMAIN with = {}
    BY <2>2, <2>3 DEF Range
  <2> HIDE DEF with
  <2> QED
    BY <1>4, <2>4
<1> HIDE DEF with, but, i, y
<1>6. list # <<>> /\ i = <<>> => ~Among(c, list, x)
  BY <1>1, <1>3, <1>4, NothingInEmpty DEF Among, Left1
<1>7. (list # <<>> => i # <<>>) => (Among(c, i, y) <=> Among(c, list, x))
  <2>1. CASE list = <<>>
    <3>1. i = <<>> /\ y = <<>> /\ x = <<>>
      BY <1>3, <1>5, <2>1
    <3> QED
      BY <2>1, <3>1
  <2>2. CASE list # <<>>
    BY <1>1, <1>3, <1>4, <2>2 DEF Among, Left1
  <2> QED
    BY <2>1, <2>2
<1> QED
  BY <1>6, <1>7 DEF i, y

\* The conditions of the clause are between those a term needs and those it may
\* have.
LEMMA FromOptionsBetween ==
  ASSUME NEW t, "tcp-established" \in t.option => t.protocol = {"tcp"},
         NEW p, PacketInForm(p)
  PROVE  /\ StrictOptions(t) \subseteq p.option => FromOptions(t) \subseteq p.option
         /\ FromOptions(t) \subseteq p.option => LooseOptions(t, FALSE) \subseteq p.option
<1>1. "initial" \in p.option <=> "tcp-initial" \in p.option
  BY DEF PacketInForm
<1> DEFINE others == t.option \ {"sample", "established", "tcp-established", "initial"}
           first == IF "initial" \notin t.option THEN {}
                    ELSE IF "tcp" \in t.protocol THEN {"tcp-initial"} ELSE {"initial"}
           est == IF Tracks(t) /\ t.protocol = {"tcp"} THEN {"established"} ELSE {}
<1>2. FromOptions(t) = others \cup est \cup first
  BY DEF FromOptions, Tracks
<1>3. StrictOptions(t) = others \cup (t.option \cap {"initial"})
                           \cup (IF Tracks(t) THEN {"established"} ELSE {})
  BY DEF StrictOptions
<1>4. LooseOptions(t, FALSE) \subseteq others \cup (t.option \cap {"initial"}) \cup est
  BY <1>3 DEF LooseOptions
<1>5. first \subseteq p.option <=> t.option \cap {"initial"} \subseteq p.option
  BY <1>1
<1> HIDE DEF others, first
<1>6. StrictOptions(t) \subseteq p.option => FromOptions(t) \subseteq p.option
  BY <1>2, <1>3, <1>5
<1>7. FromOptions(t) \subseteq p.option => LooseOptions(t, FALSE) \subseteq p.option
  BY <1>2, <1>4, <1>5
<1> QED
  BY <1>6, <1>7

\* The rule of a term with match criteria.
FromRule(t, v) ==
  [t EXCEPT
     !.address = OfVersion(@, v),
     !.source_address = SideInclude(t.source_address, t.source_address_exclude, v),
     !.source_address_exclude = SideExcept(t.source_address, t.source_address_exclude, v),
     !.destination_address = SideInclude(t.destination_address, t.destination_address_exclude, v),
     !.destination_address_exclude =
        SideExcept(t.destination_address, t.destination_address_exclude, v),
     !.option = FromOptions(t), !.platform = {}, !.platform_exclude = {}]

\* A term of Juniper is one rule.
LEMMA JuniperRulesAre ==
  ASSUME NEW e, NEW type, HasMatchCriteria(e)
  PROVE  JuniperRules(e, type) = {FromRule(e.term, JuniperVersion(type))}
BY DEF JuniperRules, FromRule, SideInclude, SideExcept, JuniperSource, JuniperDestination

\* Either address of a packet is among those of the version.
LEMMA AddressFor ==
  ASSUME NEW list \in Seq(Networks), NEW v \in Versions,
         NEW c \in Numbers(Everything(v)), NEW d \in Numbers(Everything(v))
  PROVE  /\ list # <<>> /\ OfVersion(list, v) = <<>> =>
              ~(Among(c, list, <<>>) \/ Among(d, list, <<>>))
         /\ (list # <<>> => OfVersion(list, v) # <<>>) =>
              ((\/ OfVersion(list, v) = <<>>
                \/ Among(c, OfVersion(list, v), <<>>) \/ Among(d, OfVersion(list, v), <<>>)) <=>
               (list = <<>> \/ Among(c, list, <<>>) \/ Among(d, list, <<>>)))
<1> DEFINE own == OfVersion(list, v)
<1>1. /\ c \in AddressesOf(own) <=> c \in AddressesOf(list)
      /\ d \in AddressesOf(own) <=> d \in AddressesOf(list)
  BY OfVersionIs, EverythingHolds
<1>2. list = <<>> => own = <<>>
  BY EmptyOfVersion
<1> HIDE DEF own
<1>3. list # <<>> /\ own = <<>> => ~(Among(c, list, <<>>) \/ Among(d, list, <<>>))
  BY <1>1, NothingInEmpty DEF Among
<1>4. (list # <<>> => own # <<>>) =>
         ((own = <<>> \/ Among(c, own, <<>>) \/ Among(d, own, <<>>)) <=>
          (list = <<>> \/ Among(c, list, <<>>) \/ Among(d, list, <<>>)))
  BY <1>1, <1>2, NothingInEmpty DEF Among
<1> QED
  BY <1>3, <1>4 DEF own

JuniperBlock(e, type) ==
  IF JuniperRenders(e, type) THEN Plain(JuniperRules(e, type)) ELSE Nothing

\* What a block of one rule catches.
LEMMA SingleRuleCatches ==
  ASSUME NEW r, NEW p
  PROVE  Catches(Plain({r}), p) <=> Describes(r, p) /\ r.option \subseteq p.option
BY PlainCatches, MeetsDescribes

\* The empty term describes every packet.
LEMMA EmptyDescribes ==
  ASSUME NEW p
  PROVE  Describes(EmptyTerm, p)
<1>1. /\ \A c : AmongPorts(c, <<>>) /\ Within(c, NONE) /\ Test({}, c) /\ Among(c, <<>>, <<>>)
  BY NothingInEmpty DEF AmongPorts, Within, Test, Among
<1> QED
  BY <1>1, EmptyRuleIs, EmptyTermIs, PlainDescribes

\* The from block describes what the term does.
LEMMA FromRuleFor ==
  ASSUME NEW t, TermInForm(t), NEW v \in Versions,
         t.address_exclude = <<>>, ~ExcludesFromAny(t),
         ~Swallows(t.source_address, t.source_address_exclude),
         ~Swallows(t.destination_address, t.destination_address_exclude),
         NEW p, PacketInForm(p), p.source[1] = v
  PROVE  /\ JuniperNoAddresses(t, v) => ~Describes(t, p)
         /\ ~JuniperNoMessage(t, v) /\ ~JuniperNoAddresses(t, v) =>
              (Describes(FromRule(t, v), p) <=> Describes(t, p))
         /\ FromRule(t, v).option = FromOptions(t)
<1> DEFINE r == FromRule(t, v)
           edited == {"address", "source_address", "source_address_exclude",
                       "destination_address", "destination_address_exclude",
                       "option", "platform", "platform_exclude"}
           s == SideInclude(t.source_address, t.source_address_exclude, v)
           sx == SideExcept(t.source_address, t.source_address_exclude, v)
           d == SideInclude(t.destination_address, t.destination_address_exclude, v)
           dx == SideExcept(t.destination_address, t.destination_address_exclude, v)
           own == OfVersion(t.address, v)
<1>1. DOMAIN t = TermFields /\ edited \subseteq TermFields
  BY FieldsAre, TermIs DEF TermFields
<1>2. r = [t EXCEPT !.address = own, !.source_address = s, !.source_address_exclude = sx,
             !.destination_address = d, !.destination_address_exclude = dx,
             !.option = FromOptions(t), !.platform = {}, !.platform_exclude = {}]
  BY DEF FromRule
<1> HIDE DEF r, s, sx, d, dx, own
<1>3. /\ r.address = own /\ r.source_address = s /\ r.source_address_exclude = sx
      /\ r.destination_address = d /\ r.destination_address_exclude = dx
      /\ r.option = FromOptions(t)
      /\ \A a \in TermFields : a \notin edited => r[a] = t[a]
  BY <1>1, <1>2
<1>4. /\ r.verbatim = t.verbatim /\ r.protocol = t.protocol
      /\ r.protocol_except = t.protocol_except /\ r.address_exclude = t.address_exclude
      /\ r.source_port = t.source_port /\ r.destination_port = t.destination_port
      /\ r.port = t.port /\ r.precedence = t.precedence
      /\ r.fragment_offset = t.fragment_offset /\ r.packet_length = t.packet_length
      /\ r.icmp_type = t.icmp_type /\ r.source_prefix = t.source_prefix
      /\ r.destination_prefix = t.destination_prefix
  BY <1>3 DEF TermFields
<1>5. p.source \in Numbers(Everything(v)) /\ p.destination \in Numbers(Everything(v))
  BY PacketIs
<1>6. /\ t.source_address \in Seq(Networks) /\ t.source_address_exclude \in Seq(Networks)
      /\ t.destination_address \in Seq(Networks) /\ t.address \in Seq(Networks)
      /\ t.destination_address_exclude \in Seq(Networks)
      /\ t.source_address = <<>> => t.source_address_exclude = <<>>
      /\ t.destination_address = <<>> => t.destination_address_exclude = <<>>
  BY TermIs DEF ExcludesFromAny
<1>7. /\ t.source_address # <<>> /\ s = <<>> =>
           ~Among(p.source, t.source_address, t.source_address_exclude)
      /\ (t.source_address # <<>> => s # <<>>) =>
           (Among(p.source, s, sx)
              <=> Among(p.source, t.source_address, t.source_address_exclude))
  BY <1>5, <1>6, JuniperSideFor DEF s, sx
<1>8. /\ t.destination_address # <<>> /\ d = <<>> =>
           ~Among(p.destination, t.destination_address, t.destination_address_exclude)
      /\ (t.destination_address # <<>> => d # <<>>) =>
           (Among(p.destination, d, dx)
              <=> Among(p.destination, t.destination_address, t.destination_address_exclude))
  BY <1>5, <1>6, JuniperSideFor DEF d, dx
<1>9. /\ t.address # <<>> /\ own = <<>> =>
           ~(Among(p.source, t.address, <<>>) \/ Among(p.destination, t.address, <<>>))
      /\ (t.address # <<>> => own # <<>>) =>
           ((own = <<>> \/ Among(p.source, own, <<>>) \/ Among(p.destination, own, <<>>)) <=>
            (t.address = <<>> \/ Among(p.source, t.address, <<>>)
               \/ Among(p.destination, t.address, <<>>)))
  BY <1>5, <1>6, AddressFor DEF own
<1>10. JuniperNoAddresses(t, v) <=>
         \/ t.source_address # <<>> /\ s = <<>>
         \/ t.destination_address # <<>> /\ d = <<>>
  BY DEF JuniperNoAddresses, JuniperSource, JuniperDestination, SideInclude, s, d
<1>13. JuniperNoMessage(t, v) <=> t.address # <<>> /\ own = <<>>
  BY DEF JuniperNoMessage, own
<1>11. JuniperNoAddresses(t, v) => ~Describes(t, p)
  BY <1>7, <1>8, <1>10, Zenon DEF Describes
<1>12. ASSUME ~JuniperNoMessage(t, v), ~JuniperNoAddresses(t, v) PROVE Describes(r, p) <=> Describes(t, p)
  <2>1. /\ Among(p.source, s, sx) <=> Among(p.source, t.source_address, t.source_address_exclude)
        /\ Among(p.destination, d, dx)
             <=> Among(p.destination, t.destination_address, t.destination_address_exclude)
        /\ (own = <<>> \/ Among(p.source, own, <<>>) \/ Among(p.destination, own, <<>>)) <=>
            (t.address = <<>> \/ Among(p.source, t.address, <<>>)
               \/ Among(p.destination, t.address, <<>>))
    BY <1>7, <1>8, <1>9, <1>10, <1>12, <1>13, Zenon
  <2> QED
    BY <1>3, <1>4, <2>1, Zenon DEF Describes
<1> QED
  BY <1>3, <1>11, <1>12 DEF r

\* A term of Juniper answers the term.
LEMMA JuniperAnswers ==
  ASSUME NEW e, NEW t, t = e.term, TermInForm(t), HighPortsAdded(t),
         NEW type \in JuniperTypes, ActiveOn(t, "juniper"),
         JuniperAsMeant(e, type), ~JuniperRefuses(e, type),
         NEW v, v = JuniperVersion(type),
         NEW p, PacketInForm(p), p.source[1] = v
  PROVE  AsAsked(JuniperBlock(e, type), t, FALSE, p)
<1> DEFINE block == JuniperBlock(e, type)
<1>1. v \in Versions
  BY DEF JuniperVersion, Versions
<1>2. /\ type # "bridge" => ~PartlyMismatched(t, v)
      /\ \/ HasMatchCriteria(e)
         \/ t = [EmptyTerm EXCEPT !.action = t.action, !.platform = t.platform,
                                  !.platform_exclude = t.platform_exclude]
      /\ ~ExcludesFromAny(t) /\ t.address_exclude = <<>>
      /\ ~Swallows(t.source_address, t.source_address_exclude)
      /\ ~Swallows(t.destination_address, t.destination_address_exclude)
  BY DEF JuniperAsMeant, Swallows
<1>3. CASE t.verbatim # {} \/ (type # "bridge" /\ FamilyMismatch(t, v))
  <2>1. ~Describes(t, p)
    <3>1. type # "bridge" /\ FamilyMismatch(t, v) => ~Test(t.protocol, p.protocol)
      BY <1>1, <1>2, TermIs, MismatchMissed
    <3> QED
      BY <1>3, <3>1 DEF Describes
  <2>2. block = Nothing
    BY <1>3 DEF JuniperBlock, JuniperRenders, JuniperSkips
  <2> QED
    BY <2>1, <2>2, AsAskedOfNothing
<1>4. CASE ~(t.verbatim # {} \/ (type # "bridge" /\ FamilyMismatch(t, v)))
  <2>1. ~JuniperSkips(t, type)
    BY <1>4 DEF JuniperSkips
  <2>2. "tcp-established" \in t.option => t.protocol = {"tcp"}
    BY <2>1 DEF JuniperRefuses
  <2>3. CASE ~HasMatchCriteria(e)
    <3>1. block = Plain({EmptyTerm})
      BY <2>1, <2>3 DEF JuniperBlock, JuniperRenders, JuniperRules
    <3>2. Catches(block, p)
      BY <3>1, SingleRuleCatches, EmptyDescribes, EmptyTermIs
    <3>3. /\ Describes(t, p) /\ t.option = {}
      <4> DEFINE edited == {"action", "platform", "platform_exclude"}
      <4>1. DOMAIN EmptyTerm = TermFields /\ edited \subseteq TermFields
        BY FieldsAre DEF TermFields
      <4>2. \A a \in TermFields : a \notin edited => t[a] = EmptyTerm[a]
        BY <1>2, <2>3, <4>1
      <4>3. /\ t.verbatim = {} /\ t.protocol = {} /\ t.protocol_except = {}
            /\ t.source_address = <<>> /\ t.source_address_exclude = <<>>
            /\ t.destination_address = <<>> /\ t.destination_address_exclude = <<>>
            /\ t.address = <<>> /\ t.source_port = <<>> /\ t.destination_port = <<>>
            /\ t.port = <<>> /\ t.precedence = {} /\ t.fragment_offset = NONE
            /\ t.packet_length = NONE /\ t.icmp_type = {} /\ t.source_prefix = {}
            /\ t.destination_prefix = {} /\ t.option = {}
        BY <4>2, EmptyTermIs DEF TermFields
      <4>4. \A c : AmongPorts(c, <<>>) /\ Within(c, NONE) /\ Test({}, c) /\ Among(c, <<>>, <<>>)
        BY NothingInEmpty DEF AmongPorts, Within, Test, Among
      <4> QED
        BY <4>3, <4>4 DEF Describes
    <3>4. LooseOptions(t, FALSE) = {}
      BY <3>3 DEF LooseOptions, StrictOptions, Tracks
    <3> QED
      BY <3>2, <3>3, <3>4, AsAskedIf
  <2>4. CASE HasMatchCriteria(e)
    <3>0. ~JuniperNoMessage(t, v)
      BY <2>1, <2>4 DEF JuniperRefuses
    <3>1. /\ JuniperNoAddresses(t, v) => ~Describes(t, p)
          /\ ~JuniperNoAddresses(t, v) =>
              (Describes(FromRule(t, v), p) <=> Describes(t, p))
          /\ FromRule(t, v).option = FromOptions(t)
      BY <1>1, <1>2, <3>0, FromRuleFor
    <3>2. CASE JuniperNoAddresses(t, v)
      <4>1. block = Nothing
        BY <2>4, <3>2 DEF JuniperBlock, JuniperRenders
      <4> QED
        BY <3>1, <3>2, <4>1, AsAskedOfNothing
    <3>3. CASE ~JuniperNoAddresses(t, v)
      <4>1. block = Plain({FromRule(t, v)})
        BY <2>1, <2>4, <3>3, JuniperRulesAre DEF JuniperBlock, JuniperRenders
      <4>2. Catches(block, p) <=> Describes(t, p) /\ FromOptions(t) \subseteq p.option
        BY <3>1, <3>3, <4>1, SingleRuleCatches
      <4>3. /\ StrictOptions(t) \subseteq p.option => FromOptions(t) \subseteq p.option
            /\ FromOptions(t) \subseteq p.option => LooseOptions(t, FALSE) \subseteq p.option
        BY <2>2, FromOptionsBetween
      <4> HIDE DEF block
      <4>4. /\ Describes(t, p) /\ StrictOptions(t) \subseteq p.option => Catches(block, p)
            /\ Catches(block, p) => Describes(t, p) /\ LooseOptions(t, FALSE) \subseteq p.option
        BY <4>2, <4>3, Zenon
      <4> QED
        BY <4>4, AsAskedIf DEF block
    <3> QED
      BY <3>2, <3>3
  <2> QED
    BY <2>3, <2>4
<1> QED
  BY <1>3, <1>4

-----------------------------------------------------------------------------
(* pf *)

\* The ends of ranges are a port list.
LEMMA EndsOnlyHolds ==
  ASSUME NEW l \in Seq(Ports)
  PROVE  EndsOnly(l) \in Seq(Ports) /\ (EndsOnly(l) = <<>> <=> l = <<>>)
<1> DEFINE ends(k) == <<<<l[k][1], l[k][1]>>, <<l[k][2], l[k][2]>>>>
           ls == [k \in DOMAIN l |-> ends(k)]
           flattened == FlattenSeq(ls)
<1>1. \A k \in DOMAIN l : ends(k) \in Seq(Ports) /\ DOMAIN ends(k) = 1..2
  <2> SUFFICES ASSUME NEW k \in DOMAIN l PROVE ends(k) \in Seq(Ports) /\ DOMAIN ends(k) = 1..2
    OBVIOUS
  <2>1. l[k] \in Ports
    OBVIOUS
  <2>2. l[k][1] \in Nat /\ l[k][2] \in Nat
    BY <2>1, PortIs
  <2>3. <<l[k][1], l[k][1]>> \in Ports /\ <<l[k][2], l[k][2]>> \in Ports
    BY <2>2 DEF Ports
  <2> QED
    BY <2>3
<1>2. Len(l) \in Nat /\ DOMAIN l = 1..Len(l)
  OBVIOUS
<1> HIDE DEF ends
<1>3. ls \in Seq(Seq(Ports)) /\ DOMAIN ls = DOMAIN l /\ \A k \in DOMAIN l : ls[k] = ends(k)
  BY <1>1, <1>2
<1>4. EndsOnly(l) = flattened
  BY DEF EndsOnly, ends
<1> HIDE DEF ls, flattened
<1>5. /\ flattened \in Seq(Ports)
      /\ \A e : (\E k \in DOMAIN flattened : flattened[k] = e) <=>
                (\E i \in DOMAIN ls : \E k \in DOMAIN ls[i] : ls[i][k] = e)
  <2>1. ls \in Seq(Seq(Ports))
    BY <1>3
  <2> QED
    BY <2>1, FlattenHolds, Zenon DEF flattened
<1>6. flattened = <<>> => l = <<>>
  <2> SUFFICES ASSUME flattened = <<>>, l # <<>> PROVE FALSE
    OBVIOUS
  <2>1. 1 \in DOMAIN l
    BY <1>2
  <2>2. 1 \in DOMAIN ls[1] /\ 1 \in DOMAIN ls
    BY <1>1, <1>3, <2>1
  <2>3. \E k \in DOMAIN flattened : flattened[k] = ls[1][1]
    BY <1>5, <2>2
  <2>4. DOMAIN flattened = {}
    OBVIOUS
  <2> QED
    BY <2>3, <2>4
<1>7. l = <<>> => flattened = <<>>
  <2> SUFFICES ASSUME l = <<>> PROVE flattened = <<>>
    OBVIOUS
  <2>1. DOMAIN ls = {}
    BY <1>3
  <2>2. \A k \in DOMAIN flattened : FALSE
    BY <1>5, <2>1
  <2> QED
    BY <1>5, <2>2
<1> QED
  BY <1>4, <1>5, <1>6, <1>7

\* Ranges that are covered by their ends.
LEMMA EndsFor ==
  ASSUME NEW l \in Seq(Ports), Cover(EndsOnly(l)) = Cover(l)
  PROVE  \A c : AmongPorts(c, EndsOnly(l)) <=> AmongPorts(c, l)
BY EndsOnlyHolds DEF AmongPorts

\* The versions of a family.
FamilyVersions(family) ==
  IF family = "mixed" THEN Versions ELSE {IF family = "inet6" THEN 6 ELSE 4}

\* The addresses of a family are those of the term.
LEMMA FamilySideFor ==
  ASSUME NEW list \in Seq(Networks), NEW family \in PacketFilterFamilies,
         NEW v \in FamilyVersions(family), NEW c \in Numbers(Everything(v))
  PROVE  /\ list # <<>> /\ OfFamily(list, family) = <<>> => ~Side(list, c)
         /\ (list # <<>> => OfFamily(list, family) # <<>>) =>
              (Side(OfFamily(list, family), c) <=> Side(list, c))
<1>1. v \in Versions
  BY DEF FamilyVersions, Versions
<1>2. CASE family = "mixed"
  BY <1>2 DEF OfFamily
<1>3. CASE family # "mixed"
  <2> DEFINE own == OfVersion(list, v)
  <2>1. OfFamily(list, family) = own
    BY <1>3 DEF OfFamily, FamilyVersions, PacketFilterFamilies
  <2>2. c \in AddressesOf(own) <=> c \in AddressesOf(list)
    BY <1>1, OfVersionIs, EverythingHolds
  <2>3. list = <<>> => own = <<>>
    BY EmptyOfVersion
  <2> HIDE DEF own
  <2> QED
    BY <2>1, <2>2, <2>3, NothingInEmpty DEF Side
<1> QED
  BY <1>2, <1>3

\* A rule of pf.
PfRule(t, s, d) ==
  [EmptyTerm EXCEPT
      !.protocol = t.protocol,
      !.source_address = s[1], !.source_address_exclude = s[2],
      !.destination_address = d[1], !.destination_address_exclude = d[2],
      !.source_port = EndsOnly(t.source_port),
      !.destination_port = EndsOnly(t.destination_port),
      !.option = IF "tcp" \in t.protocol THEN t.option \cap {"rst"} ELSE {},
      !.icmp_type = IF "icmp" \in t.protocol THEN t.icmp_type ELSE {}]

\* What a rule of pf tests.
LEMMA PfRuleMeets ==
  ASSUME NEW t, NEW a, NEW b, NEW p
  PROVE  Meets(PfRule(t, <<a, <<>>>>, <<b, <<>>>>), p) <=>
           /\ Test(t.protocol, p.protocol)
           /\ Test(IF "icmp" \in t.protocol THEN t.icmp_type ELSE {}, p.icmp_type)
           /\ Side(a, p.source) /\ Side(b, p.destination)
           /\ AmongPorts(p.source_port, EndsOnly(t.source_port))
           /\ AmongPorts(p.destination_port, EndsOnly(t.destination_port))
           /\ (IF "tcp" \in t.protocol THEN t.option \cap {"rst"} ELSE {}) \subseteq p.option
<1> DEFINE r == PfRule(t, <<a, <<>>>>, <<b, <<>>>>)
           i == IF "icmp" \in t.protocol THEN t.icmp_type ELSE {}
           o == IF "tcp" \in t.protocol THEN t.option \cap {"rst"} ELSE {}
           sp == EndsOnly(t.source_port)
           dp == EndsOnly(t.destination_port)
           edited == {"protocol", "source_address", "source_address_exclude",
                       "destination_address", "destination_address_exclude",
                       "source_port", "destination_port", "option", "icmp_type"}
<1>1. DOMAIN EmptyTerm = TermFields /\ edited \subseteq TermFields
  BY FieldsAre DEF TermFields
<1>2. r = [EmptyTerm EXCEPT !.protocol = t.protocol,
             !.source_address = a, !.source_address_exclude = <<>>,
             !.destination_address = b, !.destination_address_exclude = <<>>,
             !.source_port = sp, !.destination_port = dp, !.option = o, !.icmp_type = i]
  BY DEF PfRule
<1> HIDE DEF r, i, o, sp, dp
<1>3. /\ r.protocol = t.protocol /\ r.source_address = a /\ r.source_address_exclude = <<>>
      /\ r.destination_address = b /\ r.destination_address_exclude = <<>>
      /\ r.source_port = sp /\ r.destination_port = dp /\ r.option = o /\ r.icmp_type = i
      /\ \A x \in TermFields : x \notin edited => r[x] = EmptyTerm[x]
  BY <1>1, <1>2
<1>4. PlainRule(r) /\ r.fragment_offset = NONE /\ r.packet_length = NONE
  BY <1>3, EmptyTermIs DEF PlainRule, TermFields
<1>5. /\ \A c : Within(c, NONE)
      /\ \A l, c : Among(c, l, <<>>) <=> Side(l, c)
  BY NothingInEmpty DEF Within, Among, Side
<1>6. Tests(r, p) <=>
           /\ Test(t.protocol, p.protocol) /\ Test(i, p.icmp_type)
           /\ Side(a, p.source) /\ Side(b, p.destination)
           /\ AmongPorts(p.source_port, sp) /\ AmongPorts(p.destination_port, dp)
           /\ o \subseteq p.option
  BY <1>3, <1>4, <1>5, Zenon DEF Tests
<1> QED
  BY <1>4, <1>6, PlainRuleMeets DEF r, i, o, sp, dp

PacketFilterBlock(t, family) ==
  IF PacketFilterRenders(t, family) THEN Plain(PacketFilterRules(t, family)) ELSE Nothing

\* The rules of pf answer the term.
LEMMA PacketFilterAnswers ==
  ASSUME NEW t, TermInForm(t),
         t.address = <<>>, t.port = <<>>, t.precedence = {}, t.protocol_except = {},
         t.source_prefix = {}, t.destination_prefix = {},
         t.fragment_offset = NONE, t.packet_length = NONE,
         NEW family \in PacketFilterFamilies, PacketFilterAsMeant(t, family),
         NEW p, PacketInForm(p), p.source[1] \in FamilyVersions(family)
  PROVE  AsAsked(PacketFilterBlock(t, family), t, FALSE, p)
<1> DEFINE v == p.source[1]
           block == PacketFilterBlock(t, family)
           sources == OfFamily(t.source_address, family)
           destinations == OfFamily(t.destination_address, family)
           sp == EndsOnly(t.source_port)
           dp == EndsOnly(t.destination_port)
           i == IF "icmp" \in t.protocol THEN t.icmp_type ELSE {}
           o == IF "tcp" \in t.protocol THEN t.option \cap {"rst"} ELSE {}
<1>1. v \in Versions /\ v \in FamilyVersions(family)
  BY DEF FamilyVersions, Versions
<1>2. /\ t.verbatim = {}
      /\ t.source_address_exclude = <<>> /\ t.destination_address_exclude = <<>>
      /\ Cover(EndsOnly(t.source_port)) = Cover(t.source_port)
      /\ Cover(EndsOnly(t.destination_port)) = Cover(t.destination_port)
      /\ t.option \subseteq (IF "tcp" \in t.protocol THEN {"rst", "sample"} ELSE {"sample"})
      /\ t.icmp_type # {} => "icmp" \in t.protocol
  BY DEF PacketFilterAsMeant
<1>3. HighPortsAdded(t)
  <2>1. "established" \notin t.option
    BY <1>2
  <2> QED
    BY <2>1 DEF HighPortsAdded, HasHighPorts, Established
<1>4. p.source \in Numbers(Everything(v)) /\ p.destination \in Numbers(Everything(v))
  BY <1>1, PacketIs
<1>5. /\ t.source_address \in Seq(Networks) /\ t.destination_address \in Seq(Networks)
      /\ t.source_port \in Seq(Ports) /\ t.destination_port \in Seq(Ports)
  BY TermIs
<1>6. /\ StrictOptions(t) = o /\ LooseOptions(t, FALSE) = o
  BY <1>2 DEF StrictOptions, LooseOptions, Tracks
<1>7. i = t.icmp_type
  BY <1>2
<1>8. /\ AmongPorts(p.source_port, sp) <=> AmongPorts(p.source_port, t.source_port)
      /\ AmongPorts(p.destination_port, dp) <=> AmongPorts(p.destination_port, t.destination_port)
  BY <1>2, <1>5, EndsFor
<1> HIDE DEF v
<1>9. /\ t.source_address # <<>> /\ sources = <<>> => ~Side(t.source_address, p.source)
      /\ (t.source_address # <<>> => sources # <<>>) =>
              (Side(sources, p.source) <=> Side(t.source_address, p.source))
      /\ t.destination_address # <<>> /\ destinations = <<>> =>
              ~Side(t.destination_address, p.destination)
      /\ (t.destination_address # <<>> => destinations # <<>>) =>
              (Side(destinations, p.destination) <=> Side(t.destination_address, p.destination))
  BY <1>1, <1>4, <1>5, FamilySideFor
<1>10. PlainRule(t)
  BY <1>2 DEF PlainRule
<1>11. \A c : Within(c, NONE)
  BY DEF Within
<1>12. \A l, c : Among(c, l, <<>>) <=> Side(l, c)
  BY NothingInEmpty DEF Among, Side
<1>13. Describes(t, p) <=>
           /\ Test(t.protocol, p.protocol)
           /\ Test(t.icmp_type, p.icmp_type)
           /\ Side(t.source_address, p.source)
           /\ Side(t.destination_address, p.destination)
           /\ AmongPorts(p.source_port, t.source_port)
           /\ AmongPorts(p.destination_port, t.destination_port)
  BY <1>2, <1>10, <1>11, <1>12, PlainDescribes
<1>14. PacketFilterNoAddresses(t, family) <=>
         \/ t.source_address # <<>> /\ sources = <<>>
         \/ t.destination_address # <<>> /\ destinations = <<>>
  BY DEF PacketFilterNoAddresses
<1>15. CASE PacketFilterNoAddresses(t, family)
  <2>1. ~Describes(t, p)
    BY <1>9, <1>13, <1>14, <1>15, Zenon
  <2>2. block = Nothing
    BY <1>15 DEF PacketFilterBlock, PacketFilterRenders
  <2> QED
    BY <1>3, <2>1, <2>2, AsAskedOfNothing
<1>16. CASE ~PacketFilterNoAddresses(t, family)
  <2>1. block = Plain(PacketFilterRules(t, family))
    BY <1>16 DEF PacketFilterBlock, PacketFilterRenders
  <2>2. /\ Items(t.source_address, t.source_address_exclude, family)
             = {<<a, <<>>>> : a \in EachOf(sources)}
        /\ Items(t.destination_address, t.destination_address_exclude, family)
             = {<<a, <<>>>> : a \in EachOf(destinations)}
    <3>1. EachOf(<<>>) \ {<<>>} = {}
      BY DEF EachOf
    <3>2. \A list : Items(list, <<>>, family) = {<<a, <<>>>> : a \in EachOf(OfFamily(list, family))}
      BY <3>1 DEF Items
    <3> QED
      BY <1>2, <3>2
  <2> HIDE DEF block, sources, destinations, sp, dp, i, o
  <2>3. \A r : r \in PacketFilterRules(t, family) <=>
           \E a \in EachOf(sources), b \in EachOf(destinations) :
             r = PfRule(t, <<a, <<>>>>, <<b, <<>>>>)
    <3>1. PacketFilterRules(t, family) =
            {PfRule(t, s, d) : s \in {<<a, <<>>>> : a \in EachOf(sources)},
                               d \in {<<a, <<>>>> : a \in EachOf(destinations)}}
      BY <2>2 DEF PacketFilterRules, PfRule
    <3> DEFINE S == {<<a, <<>>>> : a \in EachOf(sources)}
               D == {<<a, <<>>>> : a \in EachOf(destinations)}
               Rule(s, d) == PfRule(t, s, d)
    <3>2. /\ \A s : s \in S <=> \E a \in EachOf(sources) : s = <<a, <<>>>>
          /\ \A s : s \in D <=> \E a \in EachOf(destinations) : s = <<a, <<>>>>
      OBVIOUS
    <3>3. PacketFilterRules(t, family) = {Rule(s, d) : s \in S, d \in D}
      BY <3>1
    <3> HIDE DEF S, D, Rule
    <3>4. \A r : r \in PacketFilterRules(t, family) <=>
            \E s \in S, d \in D : r = Rule(s, d)
      BY <3>3
    <3>5. \A r : r \in PacketFilterRules(t, family) <=>
           \E a \in EachOf(sources), b \in EachOf(destinations) :
             r = Rule(<<a, <<>>>>, <<b, <<>>>>)
      <4> TAKE r
      <4>1. ASSUME r \in PacketFilterRules(t, family)
            PROVE  \E a \in EachOf(sources), b \in EachOf(destinations) :
                     r = Rule(<<a, <<>>>>, <<b, <<>>>>)
        <5>1. PICK s \in S, d \in D : r = Rule(s, d)
          BY <3>4, <4>1
        <5>2. PICK a \in EachOf(sources) : s = <<a, <<>>>>
          BY <3>2
        <5>3. PICK b \in EachOf(destinations) : d = <<b, <<>>>>
          BY <3>2
        <5> QED
          BY <5>1, <5>2, <5>3
      <4>2. ASSUME NEW a \in EachOf(sources), NEW b \in EachOf(destinations),
                   r = Rule(<<a, <<>>>>, <<b, <<>>>>)
            PROVE  r \in PacketFilterRules(t, family)
        <5>1. <<a, <<>>>> \in S /\ <<b, <<>>>> \in D
          BY <3>2
        <5> QED
          BY <3>4, <4>2, <5>1
      <4> QED
        BY <4>1, <4>2
    <3> QED
      BY <3>5 DEF Rule
  <2>4. \A a, b : Meets(PfRule(t, <<a, <<>>>>, <<b, <<>>>>), p) <=>
           /\ Test(t.protocol, p.protocol)
           /\ Test(i, p.icmp_type)
           /\ Side(a, p.source) /\ Side(b, p.destination)
           /\ AmongPorts(p.source_port, sp)
           /\ AmongPorts(p.destination_port, dp)
           /\ o \subseteq p.option
    BY PfRuleMeets DEF i, o, sp, dp
  <2>5. Catches(block, p) <=>
          \E a \in EachOf(sources), b \in EachOf(destinations) :
            Meets(PfRule(t, <<a, <<>>>>, <<b, <<>>>>), p)
    <3>1. Catches(block, p) <=> \E r \in PacketFilterRules(t, family) : Meets(r, p)
      BY <2>1, PlainCatches
    <3> QED
      <4> DEFINE rules == PacketFilterRules(t, family)
                 Rule(a, b) == PfRule(t, <<a, <<>>>>, <<b, <<>>>>)
      <4>1. \A r : r \in rules <=>
               \E a \in EachOf(sources), b \in EachOf(destinations) : r = Rule(a, b)
        BY <2>3
      <4> HIDE DEF rules, Rule
      <4>2. (\E r \in rules : Meets(r, p)) <=>
               \E a \in EachOf(sources), b \in EachOf(destinations) : Meets(Rule(a, b), p)
        BY <4>1
      <4> QED
        BY <3>1, <4>2 DEF rules, Rule
  <2>6. Catches(block, p) <=>
           /\ Test(t.protocol, p.protocol)
           /\ Test(i, p.icmp_type)
           /\ \E a \in EachOf(sources) : Side(a, p.source)
           /\ \E b \in EachOf(destinations) : Side(b, p.destination)
           /\ AmongPorts(p.source_port, sp)
           /\ AmongPorts(p.destination_port, dp)
           /\ o \subseteq p.option
    BY <2>4, <2>5
  <2>7. /\ (\E a \in EachOf(sources) : Side(a, p.source)) <=> Side(sources, p.source)
        /\ (\E b \in EachOf(destinations) : Side(b, p.destination))
             <=> Side(destinations, p.destination)
    BY EachOfSide
  <2>8. Catches(block, p) <=> Describes(t, p) /\ o \subseteq p.option
    BY <1>7, <1>8, <1>9, <1>13, <1>14, <1>16, <2>6, <2>7
  <2> QED
    BY <1>3, <1>6, <2>8, AsAskedIf DEF block
<1> QED
  BY <1>15, <1>16

-----------------------------------------------------------------------------
(* SRX: the addresses of a side *)

\* A network with the definition it was taken from, or none.
SrxAddresses == [net : Networks, token : {Token[n] : n \in Networks} \cup {NoToken}]

\* The numbers of a side.
HeldBy(listed) == UNION {Numbers(listed[k].net) : k \in DOMAIN listed}

\* What the addresses of a side hold.
LEMMA HeldIs ==
  ASSUME NEW listed
  PROVE  \A c : c \in HeldBy(listed) <=> \E k \in DOMAIN listed : c \in Numbers(listed[k].net)
BY DEF HeldBy

\* What is left of one address.
RestOf(a, x) ==
  IF In(a.net, x) THEN <<>>
  ELSE IF In(x, a.net)
  THEN LET parts == AddressExclude(a.net, x)
       IN [k \in DOMAIN parts |-> [net |-> parts[k], token |-> NoToken]]
  ELSE <<a>>

\* Taking a network out of an address leaves the rest.
LEMMA RestOfHolds ==
  ASSUME NEW a \in SrxAddresses, NEW x \in Networks
  PROVE  /\ RestOf(a, x) \in Seq(SrxAddresses)
         /\ \A c : (\E k \in DOMAIN RestOf(a, x) : c \in Numbers(RestOf(a, x)[k].net)) <=>
                   c \in Numbers(a.net) /\ c \notin Numbers(x)
<1> DEFINE rest == RestOf(a, x)
<1>1. a.net \in Networks
  BY DEF SrxAddresses
<1>2. CASE In(a.net, x)
  <2>1. rest = <<>>
    BY <1>2 DEF RestOf
  <2>2. Numbers(a.net) \subseteq Numbers(x)
    BY <1>1, <1>2, InIsSubset
  <2> HIDE DEF rest
  <2>3. \A k \in DOMAIN rest : FALSE
    BY <2>1
  <2>4. rest \in Seq(SrxAddresses)
    BY <2>1
  <2> QED
    BY <2>2, <2>3, <2>4 DEF rest
<1>3. CASE ~In(a.net, x) /\ In(x, a.net)
  <2> DEFINE parts == AddressExclude(a.net, x)
  <2>1. /\ parts \in Seq(Networks)
        /\ UNION {Numbers(parts[k]) : k \in DOMAIN parts} = Numbers(a.net) \ Numbers(x)
    BY <1>1, <1>3, AddressExcludeIsExact
  <2>2. rest = [k \in DOMAIN parts |-> [net |-> parts[k], token |-> NoToken]]
    BY <1>3 DEF RestOf
  <2> HIDE DEF rest, parts
  <2>3. Len(parts) \in Nat /\ DOMAIN parts = 1..Len(parts) /\ DOMAIN rest = 1..Len(parts)
    BY <2>1, <2>2
  <2>4. \A k \in DOMAIN parts : rest[k] \in SrxAddresses /\ rest[k].net = parts[k]
    BY <2>1, <2>2, <2>3 DEF SrxAddresses
  <2>5. rest \in Seq(SrxAddresses)
    BY <2>2, <2>3, <2>4
  <2>6. \A c : (\E k \in DOMAIN rest : c \in Numbers(rest[k].net)) <=>
                   c \in Numbers(a.net) /\ c \notin Numbers(x)
    BY <2>1, <2>3, <2>4
  <2> QED
    BY <2>5, <2>6 DEF rest
<1>4. CASE ~In(a.net, x) /\ ~In(x, a.net)
  <2>1. rest = <<a>>
    BY <1>4 DEF RestOf
  <2>2. Numbers(a.net) \cap Numbers(x) = {}
    BY <1>1, <1>4, ApartIsDisjoint
  <2> HIDE DEF rest
  <2>3. rest \in Seq(SrxAddresses) /\ DOMAIN rest = {1} /\ rest[1] = a
    BY <2>1
  <2>4. \A c : (\E k \in DOMAIN rest : c \in Numbers(rest[k].net)) <=> c \in Numbers(a.net)
    BY <2>3
  <2> QED
    BY <2>2, <2>3, <2>4 DEF rest
<1> QED
  BY <1>2, <1>3, <1>4

\* And out of every address of a side.
LEMMA RemoveAddressHolds ==
  ASSUME NEW list \in Seq(SrxAddresses), NEW x \in Networks
  PROVE  /\ RemoveAddress(list, x) \in Seq(SrxAddresses)
         /\ \A c : c \in HeldBy(RemoveAddress(list, x)) <=> c \in HeldBy(list) /\ c \notin Numbers(x)
<1> DEFINE ls == [k \in DOMAIN list |-> RestOf(list[k], x)]
           flattened == FlattenSeq(ls)
<1>1. RemoveAddress(list, x) = flattened
  BY DEF RemoveAddress, RestOf
<1>2. \A k \in DOMAIN list :
        /\ ls[k] \in Seq(SrxAddresses)
        /\ \A c : (\E j \in DOMAIN ls[k] : c \in Numbers(ls[k][j].net)) <=>
                   c \in Numbers(list[k].net) /\ c \notin Numbers(x)
  <2> SUFFICES ASSUME NEW k \in DOMAIN list
               PROVE  /\ ls[k] \in Seq(SrxAddresses)
                      /\ \A c : (\E j \in DOMAIN ls[k] : c \in Numbers(ls[k][j].net)) <=>
                                 c \in Numbers(list[k].net) /\ c \notin Numbers(x)
    OBVIOUS
  <2>1. list[k] \in SrxAddresses /\ ls[k] = RestOf(list[k], x)
    OBVIOUS
  <2> HIDE DEF ls
  <2> DEFINE r == RestOf(list[k], x)
  <2>2. /\ r \in Seq(SrxAddresses)
        /\ \A c : (\E j \in DOMAIN r : c \in Numbers(r[j].net)) <=>
                  c \in Numbers(list[k].net) /\ c \notin Numbers(x)
    BY <2>1, RestOfHolds
  <2>3. ls[k] = r
    BY <2>1
  <2> HIDE DEF r
  <2> QED
    BY <2>2, <2>3
<1>3. Len(list) \in Nat /\ DOMAIN list = 1..Len(list) /\ DOMAIN ls = DOMAIN list
  OBVIOUS
<1>4. ls \in Seq(Seq(SrxAddresses))
  BY <1>2, <1>3
<1> HIDE DEF ls, flattened
<1>5. /\ flattened \in Seq(SrxAddresses)
      /\ \A e : (\E k \in DOMAIN flattened : flattened[k] = e) <=>
                (\E i \in DOMAIN ls : \E k \in DOMAIN ls[i] : ls[i][k] = e)
  BY <1>4, FlattenHolds DEF flattened
<1>6. \A c : (\E k \in DOMAIN flattened : c \in Numbers(flattened[k].net)) <=>
             (\E i \in DOMAIN ls : \E k \in DOMAIN ls[i] : c \in Numbers(ls[i][k].net))
  BY <1>5
<1>7. \A c : c \in HeldBy(flattened) <=> c \in HeldBy(list) /\ c \notin Numbers(x)
  <2> TAKE c
  <2>1. c \in HeldBy(flattened) <=> \E k \in DOMAIN flattened : c \in Numbers(flattened[k].net)
    BY HeldIs
  <2>2. c \in HeldBy(list) <=> \E k \in DOMAIN list : c \in Numbers(list[k].net)
    BY HeldIs
  <2>3. (\E i \in DOMAIN ls : \E k \in DOMAIN ls[i] : c \in Numbers(ls[i][k].net)) <=>
          \E i \in DOMAIN list : c \in Numbers(list[i].net) /\ c \notin Numbers(x)
    BY <1>2, <1>3
  <2>4. (\E k \in DOMAIN flattened : c \in Numbers(flattened[k].net)) <=>
          \E i \in DOMAIN list : c \in Numbers(list[i].net) /\ c \notin Numbers(x)
    BY <1>6, <2>3, Zenon
  <2> QED
    BY <2>1, <2>2, <2>4
<1> QED
  BY <1>1, <1>5, <1>7

\* The addresses of a list.
LEMMA KnownHolds ==
  ASSUME NEW list \in Seq(Networks)
  PROVE  /\ Known(list) \in Seq(SrxAddresses)
         /\ \A c : c \in HeldBy(Known(list)) <=> c \in AddressesOf(list)
<1> DEFINE known == Known(list)
<1>1. Len(list) \in Nat /\ DOMAIN list = 1..Len(list) /\ \A k \in DOMAIN list : list[k] \in Networks
  OBVIOUS
<1>2. known = [k \in DOMAIN list |-> [net |-> list[k], token |-> Token[list[k]]]]
  BY DEF Known
<1> HIDE DEF known
<1>3. \A k \in DOMAIN list : known[k] \in SrxAddresses /\ known[k].net = list[k]
  BY <1>1, <1>2 DEF SrxAddresses
<1>4. known \in Seq(SrxAddresses) /\ DOMAIN known = DOMAIN list
  BY <1>1, <1>2, <1>3
<1>5. \A c : c \in HeldBy(known) <=> c \in AddressesOf(list)
  BY <1>3, <1>4 DEF HeldBy, AddressesOf
<1> QED
  BY <1>4, <1>5 DEF known

\* The addresses left by the excludes, one after another.
SideLoop(f, list, x) ==
  f = [k \in 0..Len(x) |-> IF k = 0 THEN Known(list) ELSE RemoveAddress(f[k - 1], x[k])]

\* The loop of the excludes exists.
LEMMA SideLoops ==
  ASSUME NEW list \in Seq(Networks), NEW x \in Seq(Networks)
  PROVE  \E f : SideLoop(f, list, x)
<1> DEFINE S == Seq(SrxAddresses)
           step == [q \in S \X Networks |-> RemoveAddress(q[1], q[2])]
           base == Known(list)
<1>1. step \in [S \X Networks -> S]
  <2>1. \A s \in S, n \in Networks : RemoveAddress(s, n) \in S
    BY RemoveAddressHolds
  <2> HIDE DEF S
  <2> QED
    BY <2>1
<1>2. \A s \in S, n \in Networks : step[<<s, n>>] = RemoveAddress(s, n)
  OBVIOUS
<1>3. base \in S
  BY KnownHolds
<1> HIDE DEF step, S, base
<1>4. PICK f : Follows(f, S, base, step, x)
  BY <1>1, <1>3, Recursion
<1>5. f \in [0..Len(x) -> S] /\ f[0] = base /\ \A k \in 1..Len(x) : f[k] = step[<<f[k - 1], x[k]>>]
  BY <1>4 DEF Follows
<1>6. \A k \in 0..Len(x) : f[k] = IF k = 0 THEN base ELSE RemoveAddress(f[k - 1], x[k])
  <2> SUFFICES ASSUME NEW k \in 1..Len(x) PROVE f[k] = RemoveAddress(f[k - 1], x[k])
    BY <1>5
  <2>1. k - 1 \in 0..Len(x) /\ x[k] \in Networks
    OBVIOUS
  <2>2. f[k - 1] \in S
    BY <1>5, <2>1
  <2> QED
    BY <1>2, <1>5, <2>1, <2>2
<1>7. f = [k \in 0..Len(x) |-> f[k]]
  BY <1>5
<1>8. SideLoop(f, list, x)
  BY <1>6, <1>7, Zenon DEF SideLoop, base
<1> QED
  BY <1>8

\* The addresses of a side are those of the term, without the excludes.
LEMMA SrxSideHolds ==
  ASSUME NEW list \in Seq(Networks), NEW x \in Seq(Networks)
  PROVE  /\ SrxSide(list, x) \in Seq(SrxAddresses)
         /\ \A c : c \in HeldBy(SrxSide(list, x)) <=> c \in AddressesOf(list) /\ c \notin AddressesOf(x)
         /\ list = <<>> /\ x = <<>> => SrxSide(list, x) = <<>>
<1> DEFINE left == CHOOSE f : SideLoop(f, list, x)
           N == Len(x)
           S == Seq(SrxAddresses)
<1>1. SrxSide(list, x) = left[N]
  BY DEF SrxSide, SideLoop
<1>2. SideLoop(left, list, x)
  BY SideLoops
<1> HIDE DEF left
<1>3. N \in Nat /\ \A k \in 1..N : x[k] \in Networks
  OBVIOUS
<1>4. \A k \in 0..N : left[k] = IF k = 0 THEN Known(list) ELSE RemoveAddress(left[k - 1], x[k])
  BY <1>2 DEF SideLoop
<1> DEFINE Good(k) ==
             /\ left[k] \in S
             /\ \A c : c \in HeldBy(left[k]) <=>
                  c \in AddressesOf(list) /\ \A j \in 1..k : c \notin Numbers(x[j])
           good == {k \in Nat : k <= N => Good(k)}
<1>5. 0 \in good
  <2>1. left[0] = Known(list)
    BY <1>3, <1>4
  <2>2. 1..0 = {}
    OBVIOUS
  <2>3. Good(0)
    BY <2>1, <2>2, KnownHolds
  <2> HIDE DEF Good
  <2> QED
    BY <2>3
<1>6. ASSUME NEW k \in Nat, k \in good PROVE k + 1 \in good
  <2> SUFFICES ASSUME k + 1 <= N PROVE Good(k + 1)
    OBVIOUS
  <2>1. k + 1 \in 0..N /\ k + 1 # 0 /\ (k + 1) - 1 = k /\ k + 1 \in 1..N
    BY <1>3
  <2>2. Good(k)
    BY <1>3, <1>6
  <2>3. left[k + 1] = RemoveAddress(left[k], x[k + 1])
    BY <1>4, <2>1
  <2>4. x[k + 1] \in Networks
    BY <1>3, <2>1
  <2>5. \A j : j \in 1..(k + 1) <=> j \in 1..k \/ j = k + 1
    OBVIOUS
  <2>6. /\ left[k + 1] \in S
        /\ \A c : c \in HeldBy(left[k + 1]) <=> c \in HeldBy(left[k]) /\ c \notin Numbers(x[k + 1])
    BY <2>2, <2>3, <2>4, RemoveAddressHolds
  <2> QED
    BY <2>2, <2>5, <2>6
<1> HIDE DEF Good
<1>7. Nat \subseteq good
  <2> HIDE DEF good
  <2> QED
    BY <1>5, <1>6, AllNumbers
<1>8. Good(N)
  BY <1>3, <1>7
<1>9. DOMAIN x = 1..N
  OBVIOUS
<1>10. \A c : c \in HeldBy(left[N]) <=> c \in AddressesOf(list) /\ c \notin AddressesOf(x)
  BY <1>8, <1>9 DEF Good, AddressesOf
<1>11. list = <<>> /\ x = <<>> => left[N] = <<>>
  <2> SUFFICES ASSUME list = <<>>, x = <<>> PROVE left[N] = <<>>
    OBVIOUS
  <2>1. N = 0
    OBVIOUS
  <2>2. left[N] = Known(<<>>)
    BY <1>4, <2>1
  <2>3. Known(<<>>) = <<>>
    BY DEF Known
  <2> QED
    BY <2>2, <2>3
<1> QED
  BY <1>1, <1>8, <1>10, <1>11 DEF Good

-----------------------------------------------------------------------------
(* SRX: the sets of the address books *)

\* A book holds networks of the policy.
BookHolds(book) == \A b \in book : b.net \in Networks

\* The set of a side holds them, when the book has the side and no more.
LEMMA SetMembersFor ==
  ASSUME NEW book, BookHolds(book), NEW zone,
         NEW list \in Seq(Networks), NEW x \in Seq(Networks), list = <<>> => x = <<>>,
         NEW listed, listed = SrxSide(list, x),
         list # <<>> => listed # <<>>,
         AddressesOf(SetMembers(book, zone, listed)) = HeldBy(listed)
  PROVE  \A c : Side(SetMembers(book, zone, listed), c) <=> Among(c, list, x)
<1> DEFINE nets == {b.net : b \in {c \in book : c.zone = zone /\ c.token \in Tokens(listed)}}
           members == SetMembers(book, zone, listed)
<1>1. nets \subseteq Networks
  BY DEF BookHolds
<1>2. members = Listed(nets)
  BY DEF SetMembers
<1>3. members \in Seq(Networks) /\ Range(members) = nets
  <2> HIDE DEF nets, members
  <2> QED
    BY <1>1, <1>2, ListedHolds
<1>4. /\ listed \in Seq(SrxAddresses)
      /\ \A c : c \in HeldBy(listed) <=> c \in AddressesOf(list) /\ c \notin AddressesOf(x)
      /\ list = <<>> /\ x = <<>> => listed = <<>>
  BY SrxSideHolds
<1>5. list = <<>> => members = <<>>
  <2> SUFFICES ASSUME list = <<>> PROVE members = <<>>
    OBVIOUS
  <2>1. listed = <<>>
    BY <1>4
  <2>2. Tokens(listed) = {}
    BY <2>1 DEF Tokens
  <2>3. nets = {}
    BY <2>2
  <2> HIDE DEF nets, members
  <2>4. DOMAIN members = {}
    BY <1>3, <2>3 DEF Range
  <2> QED
    BY <1>3, <2>4
<1>6. list # <<>> => members # <<>>
  <2> SUFFICES ASSUME list # <<>>, members = <<>> PROVE FALSE
    OBVIOUS
  <2>1. listed # <<>> /\ Len(listed) \in Nat /\ DOMAIN listed = 1..Len(listed)
    BY <1>4
  <2>2. 1 \in DOMAIN listed /\ listed[1] \in SrxAddresses
    BY <1>4, <2>1
  <2>3. listed[1].net \in Networks
    BY <2>2 DEF SrxAddresses
  <2>4. \E c : c \in Numbers(listed[1].net)
    <3>1. listed[1].net.first \in Nat /\ listed[1].net.size \in Nat \ {0}
      BY <2>3, NumbersAre
    <3>2. listed[1].net.first \in listed[1].net.first..(listed[1].net.first + listed[1].net.size - 1)
      BY <3>1
    <3> QED
      BY <3>2 DEF Numbers
  <2>5. \E c : c \in HeldBy(listed)
    BY <2>2, <2>4, HeldIs
  <2> HIDE DEF members
  <2> QED
    BY <2>5, NothingInEmpty DEF members
<1> HIDE DEF members
<1>7. AddressesOf(members) = HeldBy(listed)
  BY DEF members
<1> QED
  BY <1>4, <1>5, <1>6, <1>7, NothingInEmpty DEF Side, Among, members

-----------------------------------------------------------------------------
(* SRX: policies *)

\* A rule of an application, with the addresses of a policy.
WithSides(r, s, d) == [r EXCEPT !.source_address = s, !.destination_address = d]

\* A rule that tests the addresses too.
LEMMA WithSidesMeets ==
  ASSUME NEW r, PlainRule(r), DOMAIN r = DOMAIN EmptyTerm,
         r.source_address = <<>>, r.destination_address = <<>>,
         r.source_address_exclude = <<>>, r.destination_address_exclude = <<>>,
         NEW s, NEW d, NEW p
  PROVE  Meets(WithSides(r, s, d), p) <=>
           Meets(r, p) /\ Side(s, p.source) /\ Side(d, p.destination)
<1> DEFINE o == WithSides(r, s, d)
           edited == {"source_address", "destination_address"}
<1>1. DOMAIN r = TermFields /\ edited \subseteq TermFields
  BY FieldsAre DEF TermFields
<1>2. /\ o.source_address = s /\ o.destination_address = d
      /\ \A a \in TermFields : a \notin edited => o[a] = r[a]
  BY <1>1 DEF WithSides
<1> HIDE DEF o
<1>3. PlainRule(o)
  BY <1>2 DEF PlainRule, TermFields
<1>4. /\ o.protocol = r.protocol /\ o.icmp_type = r.icmp_type /\ o.option = r.option
      /\ o.source_address_exclude = <<>> /\ o.destination_address_exclude = <<>>
      /\ o.source_port = r.source_port /\ o.destination_port = r.destination_port
      /\ o.fragment_offset = r.fragment_offset /\ o.packet_length = r.packet_length
  BY <1>2 DEF TermFields
<1>5. /\ \A l, c : Among(c, l, <<>>) <=> Side(l, c)
      /\ \A c : Among(c, <<>>, <<>>)
  BY NothingInEmpty DEF Among, Side
<1>6. Tests(o, p) <=> Tests(r, p) /\ Side(s, p.source) /\ Side(d, p.destination)
  BY <1>2, <1>4, <1>5, Zenon DEF Tests
<1> QED
  BY <1>3, <1>6, PlainRuleMeets DEF o

\* A rule that has the fields of one for any address.
AnySides(r) ==
  /\ PlainRule(r) /\ DOMAIN r = DOMAIN EmptyTerm
  /\ r.source_address = <<>> /\ r.destination_address = <<>>
  /\ r.source_address_exclude = <<>> /\ r.destination_address_exclude = <<>>

\* What an application tests.
AppTests(t, p) ==
  /\ Test(t.protocol, p.protocol) /\ Test(t.icmp_type, p.icmp_type)
  /\ AmongPorts(p.source_port, t.source_port)
  /\ AmongPorts(p.destination_port, t.destination_port)

\* The empty rule leaves the addresses open.
LEMMA EmptyRuleSides == AnySides(EmptyTerm)
BY EmptyRuleIs, EmptyTermIs DEF AnySides

\* What an application of ICMP types tests.
LEMMA IcmpApplication ==
  ASSUME NEW i, NEW p
  PROVE  LET r == [EmptyTerm EXCEPT !.protocol = {"icmp"}, !.icmp_type = i]
         IN /\ AnySides(r)
            /\ Meets(r, p) <=> Test({"icmp"}, p.protocol) /\ Test(i, p.icmp_type)
<1> DEFINE r == [EmptyTerm EXCEPT !.protocol = {"icmp"}, !.icmp_type = i]
           edited == {"protocol", "icmp_type"}
<1>1. DOMAIN EmptyTerm = TermFields /\ edited \subseteq TermFields
  BY FieldsAre DEF TermFields
<1>2. /\ DOMAIN r = TermFields /\ r.protocol = {"icmp"} /\ r.icmp_type = i
      /\ \A a \in TermFields : a \notin edited => r[a] = EmptyTerm[a]
  BY <1>1
<1> HIDE DEF r
<1>3. /\ PlainRule(r) /\ AnySides(r)
  BY <1>1, <1>2, EmptyTermIs DEF PlainRule, AnySides, TermFields
<1>4. /\ r.option = {} /\ r.source_port = <<>> /\ r.destination_port = <<>>
      /\ r.fragment_offset = NONE /\ r.packet_length = NONE
  BY <1>2, EmptyTermIs DEF TermFields
<1>5. /\ \A c : AmongPorts(c, <<>>) /\ Within(c, NONE) /\ Among(c, <<>>, <<>>)
  BY NothingInEmpty DEF AmongPorts, Within, Among
<1>6. Tests(r, p) <=> Test({"icmp"}, p.protocol) /\ Test(i, p.icmp_type)
  BY <1>2, <1>3, <1>4, <1>5 DEF Tests, AnySides
<1> QED
  BY <1>3, <1>6, PlainRuleMeets DEF r

\* The shape of the rules of an application with ports.
AppShape(t) ==
  [EmptyTerm EXCEPT !.protocol = t.protocol, !.source_port = t.source_port,
                    !.destination_port = t.destination_port]

\* What an application of protocols and ports tests.
LEMMA PortApplication ==
  ASSUME NEW t, t.icmp_type = {}, NEW p
  PROVE  LET rules == Product(AppShape(t), <<>>, <<>>, EachOf(t.source_port),
                              EachOf(t.destination_port))
         IN /\ \A r \in rules : AnySides(r)
            /\ (\E r \in rules : Meets(r, p)) <=> AppTests(t, p)
<1> DEFINE s == AppShape(t)
           SP == EachOf(t.source_port)
           DP == EachOf(t.destination_port)
           rules == Product(s, <<>>, <<>>, SP, DP)
           edited == {"protocol", "source_port", "destination_port"}
<1>1. DOMAIN EmptyTerm = TermFields /\ edited \subseteq TermFields
  BY FieldsAre DEF TermFields
<1>2. /\ DOMAIN s = TermFields /\ s.protocol = t.protocol
      /\ \A a \in TermFields : a \notin edited => s[a] = EmptyTerm[a]
  BY <1>1 DEF AppShape
<1> HIDE DEF s
<1>3. /\ PlainRule(s) /\ DOMAIN s = DOMAIN EmptyTerm /\ s.icmp_type = {} /\ s.option = {}
      /\ s.fragment_offset = NONE /\ s.packet_length = NONE
  BY <1>1, <1>2, EmptyTermIs DEF PlainRule, TermFields
<1>4. /\ (\E l \in SP : AmongPorts(p.source_port, l)) <=> AmongPorts(p.source_port, t.source_port)
      /\ (\E l \in DP : AmongPorts(p.destination_port, l))
           <=> AmongPorts(p.destination_port, t.destination_port)
  BY EachOfPorts
<1> HIDE DEF SP, DP
<1>5. (\E r \in rules : Meets(r, p)) <=>
           /\ Test(s.protocol, p.protocol)
           /\ Test(s.icmp_type, p.icmp_type)
           /\ Side(<<>>, p.source) /\ Side(<<>>, p.destination)
           /\ \E sp \in SP : AmongPorts(p.source_port, sp)
           /\ \E dp \in DP : AmongPorts(p.destination_port, dp)
           /\ s.option \subseteq p.option
           /\ Within(p.fragment_offset, s.fragment_offset)
           /\ Within(p.packet_length, s.packet_length)
  BY <1>3, ProductMeets
<1>6. /\ \A c : Within(c, NONE) /\ Side(<<>>, c)
      /\ {} \subseteq p.option
  BY DEF Within, Side
<1>7. \A r \in rules : AnySides(r)
  <2> SUFFICES ASSUME NEW r \in rules PROVE AnySides(r)
    OBVIOUS
  <2>1. PICK q \in Each(s.protocol), i \in Each(s.icmp_type), a \in EachOf(<<>>), d \in EachOf(<<>>),
             sp \in SP, dp \in DP : r = Combination(s, q, i, a, d, sp, dp)
    BY ProductIs
  <2>2. a = <<>> /\ d = <<>>
    BY DEF EachOf
  <2>3. /\ PlainRule(r) /\ DOMAIN r = DOMAIN EmptyTerm
    <3>1. /\ \A x \in rules :
              /\ PlainRule(x) /\ x.protocol \in Each(s.protocol) /\ x.option = s.option
              /\ DOMAIN x = DOMAIN EmptyTerm
          /\ \A y \in Each(s.protocol) :
              (\E x \in rules : x.protocol = y /\ Tests(x, p)) <=>
                /\ Test(y, p.protocol)
                /\ Test(s.icmp_type, p.icmp_type)
                /\ Side(<<>>, p.source) /\ Side(<<>>, p.destination)
                /\ \E z \in SP : AmongPorts(p.source_port, z)
                /\ \E z \in DP : AmongPorts(p.destination_port, z)
                /\ s.option \subseteq p.option
                /\ Within(p.fragment_offset, s.fragment_offset)
                /\ Within(p.packet_length, s.packet_length)
      BY <1>3, ProductTests
    <3> QED
      BY <3>1
  <2>4. /\ r.source_address = a /\ r.source_address_exclude = <<>>
        /\ r.destination_address = d /\ r.destination_address_exclude = <<>>
    BY <1>3, <2>1, CombinationIs
  <2> QED
    BY <2>2, <2>3, <2>4 DEF AnySides
<1> HIDE DEF rules
<1>8. (\E r \in rules : Meets(r, p)) <=> AppTests(t, p)
  BY <1>2, <1>3, <1>4, <1>5, <1>6, Zenon DEF AppTests
<1> QED
  BY <1>7, <1>8 DEF rules, s, SP, DP

\* The rules the applications of a term permit.
PermittedRules(e, apps) ==
  IF ~NeedsApplication(e.term) THEN {EmptyTerm}
  ELSE UNION {ApplicationRules(a) : a \in {b \in apps : b.name = e.name}}

\* What the applications of a policy test.
LEMMA PermittedFor ==
  ASSUME NEW e, NEW t, t = e.term, TermInForm(t), t.verbatim = {}, t.port = <<>>,
         ~SrxTranslateRefuses(t),
         NEW apps, Application(e.name, t) \in apps,
         \A a, b \in apps : a.name = e.name /\ b.name = e.name => a = b,
         NEW p
  PROVE  /\ \A r \in PermittedRules(e, apps) : AnySides(r)
         /\ (\E r \in PermittedRules(e, apps) : Meets(r, p)) <=> AppTests(t, p)
<1>1. CASE ~NeedsApplication(t)
  <2>1. PermittedRules(e, apps) = {EmptyTerm}
    BY <1>1 DEF PermittedRules
  <2>2. /\ t.protocol = {} /\ t.icmp_type = {}
        /\ t.source_port = <<>> /\ t.destination_port = <<>>
    BY <1>1 DEF NeedsApplication
  <2>3. AppTests(t, p)
    BY <2>2 DEF AppTests, Test, AmongPorts
  <2>4. Meets(EmptyTerm, p)
    BY MeetsDescribes, EmptyDescribes, EmptyTermIs
  <2> QED
    BY <2>1, <2>3, <2>4, EmptyRuleSides
<1>2. CASE NeedsApplication(t)
  <2> DEFINE app == Application(e.name, t)
  <2>1. /\ app.name = e.name /\ app.protocol = t.protocol /\ app.icmp_type = t.icmp_type
        /\ app.source_port = t.source_port /\ app.destination_port = t.destination_port
    BY DEF Application
  <2> HIDE DEF app
  <2>2. {b \in apps : b.name = e.name} = {app}
    BY <2>1 DEF app
  <2>3. PermittedRules(e, apps) = ApplicationRules(app)
    BY <1>2, <2>2 DEF PermittedRules
  <2>4. CASE t.icmp_type # {}
    <3> DEFINE r == [EmptyTerm EXCEPT !.protocol = {"icmp"}, !.icmp_type = t.icmp_type]
    <3>1. PermittedRules(e, apps) = {r}
      BY <2>1, <2>3, <2>4 DEF ApplicationRules
    <3>2. AnySides(r) /\ (Meets(r, p) <=> Test({"icmp"}, p.protocol) /\ Test(t.icmp_type, p.icmp_type))
      BY IcmpApplication
    <3> HIDE DEF r
    <3>3. t.protocol = {"icmp"}
      BY <2>4 DEF SrxTranslateRefuses, IcmpTypesRefused
    <3>4. t.source_port = <<>> /\ t.destination_port = <<>>
      <4>1. Sane(t)
        BY TermIs
      <4>2. {"tcp", "udp"} \cap t.protocol = {}
        BY <3>3
      <4>3. {t.port, t.source_port, t.destination_port} = {<<>>}
        BY <4>1, <4>2 DEF Sane
      <4> QED
        BY <4>3
    <3>5. AppTests(t, p) <=> Test({"icmp"}, p.protocol) /\ Test(t.icmp_type, p.icmp_type)
      BY <3>3, <3>4 DEF AppTests, AmongPorts
    <3> QED
      BY <3>1, <3>2, <3>5
  <2>5. CASE t.icmp_type = {}
    <3> DEFINE rules == Product(AppShape(t), <<>>, <<>>, EachOf(t.source_port),
                                EachOf(t.destination_port))
    <3>1. PermittedRules(e, apps) = rules
      BY <2>1, <2>3, <2>5 DEF ApplicationRules, AppShape
    <3>2. /\ \A r \in rules : AnySides(r)
          /\ (\E r \in rules : Meets(r, p)) <=> AppTests(t, p)
      BY <2>5, PortApplication
    <3> HIDE DEF rules
    <3> QED
      BY <3>1, <3>2
  <2> QED
    BY <2>4, <2>5
<1> QED
  BY <1>1, <1>2

SrxBlock(e, zones, book, apps) ==
  IF SrxSkips(e.term) THEN Nothing ELSE Plain(SrxRules(e, zones, book, apps))

\* The policy of SRX answers the term.
LEMMA SrxAnswers ==
  ASSUME NEW e, NEW t, t = e.term, TermInForm(t),
         t.address = <<>>, t.port = <<>>, t.precedence = {}, t.protocol_except = {},
         t.source_prefix = {}, t.destination_prefix = {},
         t.fragment_offset = NONE, t.packet_length = NONE,
         ActiveOn(t, "srx"), ~SrxRefuses(t), ~SrxTranslateRefuses(t),
         NEW zones, NEW book, BookHolds(book), NEW apps, Application(e.name, t) \in apps,
         SrxAsMeant(e, zones, book, apps),
         NEW p
  PROVE  AsAsked(SrxBlock(e, zones, book, apps), t, FALSE, p)
<1> DEFINE source == SrxSource(t)
           destination == SrxDestination(t)
           s == SetMembers(book, zones.from, source)
           d == SetMembers(book, zones.to, destination)
           rules == PermittedRules(e, apps)
           block == SrxBlock(e, zones, book, apps)
<1>1. t.option = {} /\ t.verbatim = {}
  BY DEF SrxRefuses, SrxSkips
<1>2. /\ ~ExcludesFromAny(t)
      /\ t.source_address # <<>> => source # <<>>
      /\ AddressesOf(s) = HeldBy(source)
      /\ t.destination_address # <<>> => destination # <<>>
      /\ AddressesOf(d) = HeldBy(destination)
      /\ \A a, b \in apps : a.name = e.name /\ b.name = e.name => a = b
  BY DEF SrxAsMeant, HeldBy
<1>3. /\ t.source_address \in Seq(Networks) /\ t.source_address_exclude \in Seq(Networks)
      /\ t.destination_address \in Seq(Networks)
      /\ t.destination_address_exclude \in Seq(Networks)
      /\ t.source_address = <<>> => t.source_address_exclude = <<>>
      /\ t.destination_address = <<>> => t.destination_address_exclude = <<>>
  BY <1>2, TermIs DEF ExcludesFromAny
<1>4. Side(s, p.source) <=> Among(p.source, t.source_address, t.source_address_exclude)
  BY <1>2, <1>3, SetMembersFor DEF SrxSource
<1>5. Side(d, p.destination)
        <=> Among(p.destination, t.destination_address, t.destination_address_exclude)
  BY <1>2, <1>3, SetMembersFor DEF SrxDestination
<1>6. /\ \A r \in rules : AnySides(r)
      /\ (\E r \in rules : Meets(r, p)) <=> AppTests(t, p)
  BY <1>1, <1>2, PermittedFor
<1>7. block = Plain({WithSides(r, s, d) : r \in rules})
  BY DEF SrxBlock, SrxSkips, SrxRules, PermittedRules, WithSides
<1> HIDE DEF s, d, rules, block
<1>8. Catches(block, p) <=> \E r \in rules : Meets(WithSides(r, s, d), p)
  BY <1>7, PlainCatches
<1>9. \A r \in rules : Meets(WithSides(r, s, d), p) <=>
           Meets(r, p) /\ Side(s, p.source) /\ Side(d, p.destination)
  BY <1>6, WithSidesMeets DEF AnySides
<1>10. Catches(block, p) <=> AppTests(t, p) /\ Side(s, p.source) /\ Side(d, p.destination)
  BY <1>6, <1>8, <1>9
<1>11. PlainRule(t)
  BY <1>1 DEF PlainRule
<1>12. \A c : Within(c, NONE)
  BY DEF Within
<1>13. Describes(t, p) <=> AppTests(t, p) /\ Side(s, p.source) /\ Side(d, p.destination)
  BY <1>4, <1>5, <1>11, <1>12, PlainDescribes DEF AppTests
<1>14. StrictOptions(t) = {} /\ LooseOptions(t, FALSE) = {} /\ HighPortsAdded(t)
  BY <1>1 DEF StrictOptions, LooseOptions, Tracks, HighPortsAdded, HasHighPorts, Established
<1> QED
  BY <1>10, <1>13, <1>14, AsAskedIf DEF block

-----------------------------------------------------------------------------
(* Sequences *)

IsSeq(s) == s \in Seq(Range(s))

\* A sequence, place by place.
LEMMA IsSeqGives ==
  ASSUME NEW s, IsSeq(s)
  PROVE  Len(s) \in Nat /\ DOMAIN s = 1..Len(s) /\ s = [k \in 1..Len(s) |-> s[k]]
BY DEF IsSeq

\* And back.
LEMMA IsSeqIf ==
  ASSUME NEW s, NEW n \in Nat, s = [k \in 1..n |-> s[k]]
  PROVE  IsSeq(s) /\ Len(s) = n
<1>1. s \in [1..n -> Range(s)]
  BY DEF Range
<1>2. s \in Seq(Range(s)) /\ Len(s) = n
  BY <1>1
<1> QED
  BY <1>2 DEF IsSeq

\* A sequence over a set is one.
LEMMA ElementsOf ==
  ASSUME NEW S, NEW u \in Seq(S)
  PROVE  Len(u) \in Nat /\ u = [k \in 1..Len(u) |-> u[k]]
<1>1. Len(u) \in Nat /\ u \in [1..Len(u) -> S]
  OBVIOUS
<1> QED
  BY <1>1

\* The empty sequence.
LEMMA EmptyIsSeq == IsSeq(<<>>) /\ Len(<<>>) = 0 /\ DOMAIN <<>> = {}
BY DEF IsSeq

\* The ways in which a sequence is made from another.
IsAppended(u, s, x) == u = Append(s, x)
IsJoined(u, s, t) == u = s \o t
IsReplaced(u, s, j, x) == u = [s EXCEPT ![j] = x]

\* One element more.
LEMMA AppendIs ==
  ASSUME NEW s, IsSeq(s), NEW x, NEW u, IsAppended(u, s, x)
  PROVE  /\ IsSeq(u) /\ Len(u) = Len(s) + 1 /\ DOMAIN u = 1..(Len(s) + 1)
         /\ u[Len(s) + 1] = x /\ \A k \in 1..Len(s) : u[k] = s[k]
<1> DEFINE S == Range(s) \cup {x}
<1>1. s \in Seq(S) /\ x \in S
  <2>1. s \in Seq(Range(s)) /\ Range(s) \subseteq S
    BY DEF IsSeq
  <2> QED
    BY <2>1
<1> HIDE DEF S
<1>2. u \in Seq(S) /\ Len(u) = Len(s) + 1 /\ Len(s) \in Nat
  BY <1>1 DEF IsAppended
<1>3. u[Len(s) + 1] = x /\ \A k \in 1..Len(s) : u[k] = s[k]
  BY <1>1 DEF IsAppended
<1>4. u = [k \in 1..(Len(s) + 1) |-> u[k]]
  BY <1>2, ElementsOf
<1>5. IsSeq(u) /\ DOMAIN u = 1..(Len(s) + 1)
  <2>1. Len(s) + 1 \in Nat
    BY <1>2
  <2>2. IsSeq(u)
    BY <1>4, <2>1, IsSeqIf
  <2> QED
    BY <1>2, <2>2, IsSeqGives
<1> QED
  BY <1>2, <1>3, <1>5

\* One sequence after another.
LEMMA ConcatIs ==
  ASSUME NEW s, IsSeq(s), NEW t, IsSeq(t), NEW u, IsJoined(u, s, t)
  PROVE  /\ IsSeq(u) /\ Len(u) = Len(s) + Len(t) /\ DOMAIN u = 1..(Len(s) + Len(t))
         /\ \A k \in 1..Len(s) : u[k] = s[k]
         /\ \A k \in 1..Len(t) : u[Len(s) + k] = t[k]
         /\ \A k \in DOMAIN u : k > Len(s) => k - Len(s) \in 1..Len(t) /\ u[k] = t[k - Len(s)]
<1> DEFINE S == Range(s) \cup Range(t)
<1>1. s \in Seq(S) /\ t \in Seq(S)
  <2>1. s \in Seq(Range(s)) /\ t \in Seq(Range(t)) /\ Range(s) \subseteq S /\ Range(t) \subseteq S
    BY DEF IsSeq
  <2> QED
    BY <2>1
<1> HIDE DEF S
<1>2. u \in Seq(S) /\ Len(u) = Len(s) + Len(t) /\ Len(s) \in Nat /\ Len(t) \in Nat
  BY <1>1 DEF IsJoined
<1>3. \A k \in 1..Len(s) : u[k] = s[k]
  BY <1>1 DEF IsJoined
<1>4. \A k \in 1..Len(t) : u[Len(s) + k] = t[k]
  BY <1>1 DEF IsJoined
<1>5. u = [k \in 1..Len(u) |-> u[k]] /\ Len(u) \in Nat
  BY <1>2, ElementsOf
<1>6. IsSeq(u) /\ DOMAIN u = 1..(Len(s) + Len(t))
  <2>1. IsSeq(u)
    BY <1>5, IsSeqIf
  <2> QED
    BY <1>2, <2>1, IsSeqGives
<1>7. ASSUME NEW k \in DOMAIN u, k > Len(s)
      PROVE  k - Len(s) \in 1..Len(t) /\ u[k] = t[k - Len(s)]
  <2>1. k \in Nat /\ k <= Len(s) + Len(t) /\ k - Len(s) \in 1..Len(t)
    BY <1>2, <1>6, <1>7
  <2>2. Len(s) + (k - Len(s)) = k
    BY <1>2, <2>1
  <2> QED
    BY <1>4, <2>1, <2>2
<1> QED
  BY <1>2, <1>3, <1>4, <1>6, <1>7

\* One element in place of another.
LEMMA ReplacedIs ==
  ASSUME NEW s, IsSeq(s), NEW j \in DOMAIN s, NEW x, NEW u, IsReplaced(u, s, j, x)
  PROVE  /\ IsSeq(u) /\ Len(u) = Len(s) /\ DOMAIN u = DOMAIN s
         /\ u[j] = x /\ \A k \in DOMAIN s : k # j => u[k] = s[k]
<1>1. Len(s) \in Nat /\ DOMAIN s = 1..Len(s) /\ s = [k \in 1..Len(s) |-> s[k]]
  BY IsSeqGives
<1>2. u = [k \in 1..Len(s) |-> u[k]] /\ u[j] = x /\ \A k \in DOMAIN s : k # j => u[k] = s[k]
  <2>1. u = [s EXCEPT ![j] = x]
    BY DEF IsReplaced
  <2> QED
    BY <1>1, <2>1
<1> QED
  BY <1>1, <1>2, IsSeqIf

-----------------------------------------------------------------------------
(* Jobs *)

\* What the assumptions say of the job in hand.
JobHolds ==
  /\ Platform \in Platforms
  /\ IsSeq(Filters) /\ Filters # <<>>
  /\ \A f \in DOMAIN Filters :
       /\ IsSeq(Filters[f].entries)
       /\ \A k \in DOMAIN Filters[f].entries :
            /\ EntryInForm(Filters[f].entries[k])
            /\ Filters[f].entries[k] \in Range(Filters[f].entries)
       /\ Targeted(f) => Target(f).options \in Seq(STRING)

\* What the assumption says of the job at hand.
LEMMA JobIs == job \in Jobs => JobHolds
<1> SUFFICES ASSUME job \in Jobs PROVE JobHolds
  OBVIOUS
<1>1. /\ job.platform \in Platforms /\ job.filters \in Seq(Range(job.filters)) /\ job.filters # <<>>
      /\ \A f \in Range(job.filters) : FilterInForm(f)
  BY GeneratorsAssumption
<1>2. ASSUME NEW f \in DOMAIN Filters
      PROVE  /\ IsSeq(Filters[f].entries)
             /\ \A k \in DOMAIN Filters[f].entries :
                  /\ EntryInForm(Filters[f].entries[k])
                  /\ Filters[f].entries[k] \in Range(Filters[f].entries)
             /\ Targeted(f) => Target(f).options \in Seq(STRING)
  <2>1. Filters[f] \in Range(Filters)
    BY DEF Range
  <2>2. FilterInForm(Filters[f])
    BY <1>1, <2>1 DEF Filters
  <2>3. \A k \in DOMAIN Filters[f].entries : Filters[f].entries[k] \in Range(Filters[f].entries)
    BY DEF Range
  <2>4. IsSeq(Filters[f].entries) /\ \A e \in Range(Filters[f].entries) : EntryInForm(e)
    BY <2>2 DEF FilterInForm, IsSeq
  <2>5. Targeted(f) => Target(f).options \in Seq(STRING)
    BY <2>2 DEF FilterInForm, Targeted, Target
  <2> QED
    BY <2>3, <2>4, <2>5
<1>3. IsSeq(Filters) /\ Platform \in Platforms /\ Filters # <<>>
  BY <1>1 DEF IsSeq, Filters, Platform
<1> QED
  BY <1>2, <1>3, Zenon DEF JobHolds

-----------------------------------------------------------------------------
(* The lists of a generator *)

\* The settings of a list are those of its platform.
TypeFits(list) ==
  /\ list.stateful \in BOOLEAN
  /\ list.stateful => Platform \in IptablesFamily
  /\ Platform \in IptablesFamily => list.type \in {"inet", "inet6"}
  /\ Platform = "cisco" => list.type \in {"extended", "standard", "object-group", "inet6"}
  /\ Platform = "juniper" /\ list.entries # <<>> => list.type \in JuniperTypes
  /\ Platform = "packetfilter" => list.type \in PacketFilterFamilies
  /\ Platform \in {"ciscoasa", "srx"} => list.type = "inet"

\* What has been seen to of an entry when it is in a list.
Prepared(e, list) ==
  /\ TermInForm(e.term)
  /\ ActiveOn(e.term, Platform) /\ Platform # "ciscoasa" =>
       Keywords(e) \subseteq RequiredKeywords \cup PlatformKeywords(Platform)
  /\ Platform \in IptablesFamily \cup {"cisco", "juniper"} => HighPortsAdded(e.term)
  /\ Platform = "cisco" /\ list.type = "standard" => ~StandardRefuses(e)
  /\ Platform = "srx" => ~SrxTranslateRefuses(e.term)
  /\ Platform # "ciscoasa" => e.name \in ShortNames

\* And what SRX keeps of it.
Booked(e, list) ==
  Platform = "srx" =>
    LET zones == SrxZones(list.options) IN
    /\ Application(e.name, e.term) \in carried.apps
    /\ Entries(zones.from, SrxSource(e.term)) \subseteq carried.book
    /\ Entries(zones.to, SrxDestination(e.term)) \subseteq carried.book

\* A term has no keyword that is not supported.
LEMMA HasNot ==
  ASSUME NEW e, TermInForm(e.term), NEW K,
         Keywords(e) \subseteq RequiredKeywords \cup K
  PROVE  \A a \in TermFields :
           a \notin RequiredKeywords /\ a \notin K => e.term[a] = EmptyTerm[a]
<1>1. DOMAIN e.term = DOMAIN EmptyTerm
  BY TermIs
<1> QED
  BY <1>1, KeywordsGive

\* The attributes that a platform does not take are those of an empty term.
LEMMA Absent ==
  ASSUME NEW e, NEW list, Prepared(e, list), ActiveOn(e.term, Platform),
         Platform \in Platforms,
         Platform = "ciscoasa" => Keywords(e) \subseteq RequiredKeywords \cup AsaKeywords
  PROVE  LET t == e.term IN
         /\ Platform # "juniper" => t.precedence = {} /\ t.protocol_except = {}
         /\ Platform \notin {"juniper", "cisco"} => t.address = <<>> /\ t.port = <<>>
         /\ Platform \notin IptablesFamily \cup {"juniper"} =>
              /\ t.source_prefix = {} /\ t.destination_prefix = {}
              /\ t.fragment_offset = NONE /\ t.packet_length = NONE
         /\ Platform # "juniper" => t.address_exclude = <<>>
<1> DEFINE t == e.term
           K == PlatformKeywords(Platform)
<1>1. Keywords(e) \subseteq RequiredKeywords \cup K /\ TermInForm(t)
  BY DEF Prepared, PlatformKeywords, IptablesFamily
<1>2. \A a \in TermFields : a \notin RequiredKeywords /\ a \notin K => t[a] = EmptyTerm[a]
  BY <1>1, HasNot
<1>3. \A a \in {"precedence", "protocol_except", "address", "address_exclude", "port",
                "source_prefix", "destination_prefix", "fragment_offset", "packet_length"} :
        a \in TermFields /\ a \notin RequiredKeywords
  BY DEF TermFields, RequiredKeywords
<1>4. /\ Platform # "juniper" => {"precedence", "protocol_except", "address_exclude"} \cap K = {}
      /\ Platform \notin {"juniper", "cisco"} => {"address", "port"} \cap K = {}
      /\ Platform \notin IptablesFamily \cup {"juniper"} =>
           {"source_prefix", "destination_prefix", "fragment_offset", "packet_length"} \cap K = {}
  BY DEF PlatformKeywords, IptablesFamily, Platforms, IptablesKeywords, CiscoKeywords,
         AsaKeywords, SrxKeywords, PacketFilterKeywords
<1> HIDE DEF K
<1>5. Platform # "juniper" =>
        t["precedence"] = {} /\ t["protocol_except"] = {} /\ t["address_exclude"] = <<>>
  BY <1>2, <1>3, <1>4, EmptyTermIs
<1>6. Platform \notin {"juniper", "cisco"} => t["address"] = <<>> /\ t["port"] = <<>>
  BY <1>2, <1>3, <1>4, EmptyTermIs
<1>7. Platform \notin IptablesFamily \cup {"juniper"} =>
        /\ t["source_prefix"] = {} /\ t["destination_prefix"] = {}
        /\ t["fragment_offset"] = NONE /\ t["packet_length"] = NONE
  BY <1>2, <1>3, <1>4, EmptyTermIs
<1> QED
  BY <1>5, <1>6, <1>7

-----------------------------------------------------------------------------
(* One block *)

\* A term that is about to be rendered, and a packet for its list.
About(e, list, p) ==
  /\ Platform \in Platforms
  /\ TypeFits(list) /\ list.entries # <<>>
  /\ Prepared(e, list) /\ Booked(e, list) /\ BookHolds(carried.book)
  /\ AsMeant(e, list) /\ ~RenderRefused(e, list)
  /\ PacketInForm(p) /\ p \in PacketsOf(list)

\* What is rendered answers the term.
Answers(e, list, p) ==
  /\ ActiveOn(e.term, Platform) =>
       AsAsked(Rendered(e, list), Reading(e.term, list), list.stateful, p)
  /\ ~ActiveOn(e.term, Platform) => ~Catches(Rendered(e, list), p)

\* A packet of a list is of the version of the list.
LEMMA VersionOf ==
  ASSUME NEW list, NEW p \in PacketsOf(list)
  PROVE  /\ Version(list) \in Versions
         /\ Platform # "srx" /\ list.type # "mixed" => p.source[1] = Version(list)
<1>1. Version(list) \in {4, 6}
  BY DEF Version
<1> QED
  BY <1>1 DEF PacketsOf, Versions

\* Only a standard list reads its terms otherwise.
LEMMA PlainReading ==
  ASSUME NEW t, NEW list, list.type # "standard"
  PROVE  Reading(t, list) = t
BY DEF Reading

\* One lemma per platform: what is rendered answers the term.
LEMMA IptablesCase ==
  ASSUME NEW e, NEW list, NEW p, About(e, list, p), Platform \in IptablesFamily
  PROVE  Answers(e, list, p)
<1> DEFINE t == e.term
           v == Version(list)
<1>1. /\ list.type \in {"inet", "inet6"} /\ Prepared(e, list)
      /\ IptablesAsMeant(t, Platform, v) /\ ~IptablesRefuses(t, Platform, v)
  BY DEF About, TypeFits, AsMeant, RenderRefused, IptablesFamily
<1>2. Rendered(e, list) = IptablesBlock(t, Platform, v, list.stateful)
  BY DEF Rendered, IptablesBlock, IptablesFamily
<1>3. v \in Versions /\ p.source[1] = v /\ Reading(t, list) = t
  <2>1. Platform # "srx" /\ list.type # "mixed" /\ list.type # "standard"
    BY <1>1 DEF IptablesFamily
  <2> QED
    BY <2>1, VersionOf, PlainReading DEF About
<1>4. CASE ActiveOn(t, Platform)
  <2>1. TermInForm(t) /\ HighPortsAdded(t)
    BY <1>1 DEF Prepared
  <2>2. Platform \notin {"juniper", "cisco", "ciscoasa"}
    BY DEF IptablesFamily
  <2>3. /\ t.address = <<>> /\ t.port = <<>> /\ t.precedence = {} /\ t.protocol_except = {}
    BY <1>1, <1>4, <2>2, Absent DEF About
  <2>4. AsAsked(IptablesBlock(t, Platform, v, list.stateful), t, list.stateful, p)
    BY <1>1, <1>3, <1>4, <2>1, <2>3, IptablesAnswers DEF About
  <2> QED
    BY <1>2, <1>3, <1>4, <2>4 DEF Answers
<1>5. CASE ~ActiveOn(t, Platform)
  <2>1. Rendered(e, list) = Nothing
    BY <1>2, <1>5 DEF IptablesBlock, IptablesRenders, IptablesSkips
  <2> QED
    BY <1>5, <2>1, NothingCatches DEF Answers
<1> QED
  BY <1>4, <1>5

\* Cisco, in its four types.
LEMMA CiscoCase ==
  ASSUME NEW e, NEW list, NEW p, About(e, list, p), Platform = "cisco"
  PROVE  Answers(e, list, p)
<1> DEFINE t == e.term
           v == Version(list)
<1>1. /\ list.type \in {"extended", "standard", "object-group", "inet6"} /\ Prepared(e, list)
      /\ list.stateful = FALSE
  BY DEF About, TypeFits, IptablesFamily
<1>2. CiscoAsMeant(t, list.type)
  BY DEF About, AsMeant, IptablesFamily
<1>3. list.type # "object-group"
  BY <1>2 DEF CiscoAsMeant
<1>4. TermInForm(t) /\ HighPortsAdded(t)
  BY <1>1 DEF Prepared
<1>5. ActiveOn(t, "cisco") =>
        /\ t.precedence = {} /\ t.protocol_except = {}
        /\ t.source_prefix = {} /\ t.destination_prefix = {}
        /\ t.fragment_offset = NONE /\ t.packet_length = NONE
  <2>1. Platform \notin IptablesFamily
    BY DEF IptablesFamily
  <2> QED
    BY <1>1, <2>1, Absent DEF About
<1>6. CASE list.type = "standard"
  <2>1. Rendered(e, list) = StandardBlock(t)
    BY <1>6 DEF Rendered, StandardBlock, IptablesFamily
  <2>2. Reading(t, list) = SourceReading(t)
    BY <1>6 DEF Reading, SourceReading
  <2>3. ~StandardRefuses(e) /\ CiscoAsMeant(t, "standard")
    BY <1>1, <1>2, <1>6 DEF Prepared
  <2>4. t.port = <<>>
    BY <2>3 DEF CiscoAsMeant
  <2>5. CASE ActiveOn(t, "cisco")
    <3>1. AsAsked(StandardBlock(t), SourceReading(t), FALSE, p)
      BY <1>4, <1>5, <2>3, <2>4, <2>5, StandardAnswers
    <3> QED
      BY <1>1, <2>1, <2>2, <2>5, <3>1 DEF Answers
  <2>6. CASE ~ActiveOn(t, "cisco")
    BY <2>1, <2>6, NothingCatches DEF Answers, StandardBlock
  <2> QED
    BY <2>5, <2>6
<1>7. CASE list.type \in {"extended", "inet6"}
  <2>1. Rendered(e, list) = CiscoBlock(t, v)
    BY <1>7 DEF Rendered, CiscoBlock, IptablesFamily
  <2>2. v = CiscoVersion(list.type) /\ Reading(t, list) = t
    BY <1>7, PlainReading DEF CiscoVersion, Version
  <2>3. t.address = <<>> /\ t.port = <<>>
    BY <1>2, <1>7 DEF CiscoAsMeant
  <2>4. p.source[1] = v /\ PacketInForm(p)
    BY <1>7, VersionOf DEF About
  <2>5. CASE ActiveOn(t, "cisco")
    <3>1. AsAsked(CiscoBlock(t, v), t, FALSE, p)
      BY <1>2, <1>4, <1>5, <1>7, <2>2, <2>3, <2>4, <2>5, CiscoAnswers
    <3> QED
      BY <1>1, <2>1, <2>2, <2>5, <3>1 DEF Answers
  <2>6. CASE ~ActiveOn(t, "cisco")
    BY <2>1, <2>6, NothingCatches DEF Answers, CiscoBlock, CiscoRenders, CiscoSkips
  <2> QED
    BY <2>5, <2>6
<1> QED
  BY <1>1, <1>3, <1>6, <1>7

\* The ASA.
LEMMA AsaCase ==
  ASSUME NEW e, NEW list, NEW p, About(e, list, p), Platform = "ciscoasa"
  PROVE  Answers(e, list, p)
<1> DEFINE t == e.term
<1>1. list.type = "inet" /\ Prepared(e, list) /\ list.stateful = FALSE
  BY DEF About, TypeFits, IptablesFamily
<1>2. AsaAsMeant(e)
  BY DEF About, AsMeant, IptablesFamily
<1>3. Rendered(e, list) = AsaBlock(t)
  BY DEF Rendered, AsaBlock, IptablesFamily
<1>4. Version(list) = 4 /\ p.source[1] = 4 /\ PacketInForm(p) /\ Reading(t, list) = t
  BY <1>1, VersionOf, PlainReading DEF About, Version
<1>5. CASE ActiveOn(t, "ciscoasa")
  <2>1. Platform \notin IptablesFamily
    BY DEF IptablesFamily
  <2>2. /\ t.address = <<>> /\ t.port = <<>> /\ t.precedence = {} /\ t.protocol_except = {}
        /\ t.source_prefix = {} /\ t.destination_prefix = {}
        /\ t.fragment_offset = NONE /\ t.packet_length = NONE
    BY <1>1, <1>2, <1>5, <2>1, Absent DEF About, AsaAsMeant
  <2>3. TermInForm(t)
    BY <1>1 DEF Prepared
  <2>4. ~PartlyMismatched(t, 4) /\ ~ExcludesFromAny(t) /\ t.option \subseteq {"sample"}
    BY <1>2 DEF AsaAsMeant
  <2>5. AsAsked(AsaBlock(t), t, FALSE, p)
    BY <1>4, <1>5, <2>2, <2>3, <2>4, AsaAnswers
  <2> QED
    BY <1>1, <1>3, <1>4, <1>5, <2>5 DEF Answers
<1>6. CASE ~ActiveOn(t, "ciscoasa")
  BY <1>3, <1>6, NothingCatches DEF Answers, AsaBlock, AsaSkips
<1> QED
  BY <1>5, <1>6

\* Juniper.
LEMMA JuniperCase ==
  ASSUME NEW e, NEW list, NEW p, About(e, list, p), Platform = "juniper"
  PROVE  Answers(e, list, p)
<1> DEFINE t == e.term
           v == Version(list)
<1>1. list.type \in JuniperTypes /\ Prepared(e, list) /\ list.stateful = FALSE
  BY DEF About, TypeFits, IptablesFamily
<1>2. JuniperAsMeant(e, list.type) /\ ~JuniperRefuses(e, list.type)
  BY DEF About, AsMeant, RenderRefused, IptablesFamily
<1>3. Rendered(e, list) = JuniperBlock(e, list.type)
  BY DEF Rendered, JuniperBlock, IptablesFamily
<1>4. v = JuniperVersion(list.type) /\ p.source[1] = v /\ PacketInForm(p) /\ Reading(t, list) = t
  <2>1. list.type # "mixed" /\ list.type # "standard" /\ v = JuniperVersion(list.type)
    BY <1>1 DEF JuniperTypes, JuniperVersion, Version
  <2> QED
    BY <2>1, VersionOf, PlainReading DEF About
<1>5. CASE ActiveOn(t, "juniper")
  <2>1. TermInForm(t) /\ HighPortsAdded(t)
    BY <1>1 DEF Prepared
  <2>2. AsAsked(JuniperBlock(e, list.type), t, FALSE, p)
    BY <1>1, <1>2, <1>4, <1>5, <2>1, JuniperAnswers
  <2> QED
    BY <1>1, <1>3, <1>4, <1>5, <2>2 DEF Answers
<1>6. CASE ~ActiveOn(t, "juniper")
  BY <1>3, <1>6, NothingCatches DEF Answers, JuniperBlock, JuniperRenders, JuniperSkips
<1> QED
  BY <1>5, <1>6

\* SRX.
LEMMA SrxCase ==
  ASSUME NEW e, NEW list, NEW p, About(e, list, p), Platform = "srx"
  PROVE  Answers(e, list, p)
<1> DEFINE t == e.term
           zones == SrxZones(list.options)
<1>1. list.type = "inet" /\ Prepared(e, list) /\ list.stateful = FALSE
  BY DEF About, TypeFits, IptablesFamily
<1>2. SrxAsMeant(e, zones, carried.book, carried.apps) /\ ~SrxRefuses(t)
  BY DEF About, AsMeant, RenderRefused, IptablesFamily
<1>3. Rendered(e, list) = SrxBlock(e, zones, carried.book, carried.apps)
  BY DEF Rendered, SrxBlock, IptablesFamily
<1>4. Reading(t, list) = t
  BY <1>1, PlainReading
<1>5. CASE ActiveOn(t, "srx")
  <2>1. Platform \notin IptablesFamily
    BY DEF IptablesFamily
  <2>2. /\ t.address = <<>> /\ t.port = <<>> /\ t.precedence = {} /\ t.protocol_except = {}
        /\ t.source_prefix = {} /\ t.destination_prefix = {}
        /\ t.fragment_offset = NONE /\ t.packet_length = NONE
    BY <1>1, <1>5, <2>1, Absent DEF About
  <2>3. TermInForm(t) /\ ~SrxTranslateRefuses(t)
    BY <1>1 DEF Prepared
  <2>4. Application(e.name, t) \in carried.apps /\ BookHolds(carried.book)
    BY DEF About, Booked
  <2>5. AsAsked(SrxBlock(e, zones, carried.book, carried.apps), t, FALSE, p)
    BY <1>2, <1>5, <2>2, <2>3, <2>4, SrxAnswers
  <2> QED
    BY <1>1, <1>3, <1>4, <1>5, <2>5 DEF Answers
<1>6. CASE ~ActiveOn(t, "srx")
  BY <1>3, <1>6, NothingCatches DEF Answers, SrxBlock, SrxSkips
<1> QED
  BY <1>5, <1>6

\* pf.
LEMMA PacketFilterCase ==
  ASSUME NEW e, NEW list, NEW p, About(e, list, p), Platform = "packetfilter"
  PROVE  Answers(e, list, p)
<1> DEFINE t == e.term
<1>1. list.type \in PacketFilterFamilies /\ Prepared(e, list) /\ list.stateful = FALSE
  BY DEF About, TypeFits, IptablesFamily
<1>2. PacketFilterAsMeant(t, list.type)
  BY DEF About, AsMeant, IptablesFamily
<1>3. Rendered(e, list) = PacketFilterBlock(t, list.type)
  BY DEF Rendered, PacketFilterBlock, IptablesFamily
<1>4. PacketInForm(p) /\ Reading(t, list) = t /\ p.source[1] \in FamilyVersions(list.type)
  <2>1. p.source[1] \in FamilyVersions(list.type)
    BY DEF About, PacketsOf, FamilyVersions, Version
  <2>2. list.type # "standard"
    BY <1>1 DEF PacketFilterFamilies
  <2> QED
    BY <2>1, <2>2, PlainReading DEF About
<1>5. ActiveOn(t, "packetfilter")
  BY <1>2 DEF PacketFilterAsMeant
<1>6. AsAsked(PacketFilterBlock(t, list.type), t, FALSE, p)
  <2>1. Platform \notin IptablesFamily
    BY DEF IptablesFamily
  <2>2. /\ t.address = <<>> /\ t.port = <<>> /\ t.precedence = {} /\ t.protocol_except = {}
        /\ t.source_prefix = {} /\ t.destination_prefix = {}
        /\ t.fragment_offset = NONE /\ t.packet_length = NONE
    BY <1>1, <1>5, <2>1, Absent DEF About
  <2>3. TermInForm(t)
    BY <1>1 DEF Prepared
  <2> QED
    BY <1>1, <1>2, <1>4, <2>2, <2>3, PacketFilterAnswers
<1> QED
  BY <1>1, <1>3, <1>4, <1>5, <1>6 DEF Answers

\* On every platform, what is rendered answers the term.
LEMMA EveryAnswers ==
  ASSUME NEW e, NEW list, NEW p, About(e, list, p)
  PROVE  Answers(e, list, p)
<1>1. \/ Platform \in IptablesFamily
      \/ Platform = "cisco" \/ Platform = "ciscoasa" \/ Platform = "juniper"
      \/ Platform = "srx" \/ Platform = "packetfilter"
  BY DEF About, Platforms, IptablesFamily
<1> QED
  BY <1>1, IptablesCase, CiscoCase, AsaCase, JuniperCase, SrxCase, PacketFilterCase

\* What a block that was rendered must and may catch.
LEMMA BlockAnswers ==
  ASSUME NEW b, NEW e, NEW list, NEW p, About(e, list, p),
         b.rules = Rendered(e, list).rules, b.except = Rendered(e, list).except
  PROVE  /\ MustCatch(e, list, p) => Catches(b, p)
         /\ Catches(b, p) => MayCatch(e, list, p)
<1>1. Catches(b, p) <=> Catches(Rendered(e, list), p)
  BY Zenon DEF Catches
<1> QED
  BY <1>1, EveryAnswers, Zenon DEF Answers, AsAsked, MustCatch, MayCatch

-----------------------------------------------------------------------------
(* The state of a generator *)

\* A list has the settings of its filter.
IsList(list) ==
  /\ list = [filter |-> list.filter, name |-> list.name, type |-> list.type,
             options |-> list.options, entries |-> list.entries, names |-> list.names,
             stateful |-> list.stateful, default |-> list.default]
  /\ list.filter \in DOMAIN Filters
  /\ Targeted(list.filter) \/ Platform = "ciscoasa"
  /\ list.name = Target(list.filter).name
  /\ list.options = Target(list.filter).options
  /\ IsSeq(list.entries)

IsCarried(c) ==
  /\ c = [stateful |-> c.stateful, default |-> c.default, family |-> c.family,
          reject |-> c.reject, book |-> c.book, apps |-> c.apps]
  /\ c.stateful \in BOOLEAN

GTyped ==
  /\ job \in Jobs
  /\ phase \in {"check", "translate", "render", "done", "refused"}
  /\ fi \in Nat \ {0} /\ li \in Nat \ {0} /\ ti \in Nat \ {0}
  /\ IsCarried(carried)
  /\ IsSeq(lists) /\ \A l \in DOMAIN lists : IsList(lists[l])
  /\ IsSeq(output)

\* What depends on the job alone stays.
LEMMA JobKept ==
  ASSUME job' = job
  PROVE  /\ Platform' = Platform /\ Filters' = Filters
         /\ \A f : (Targeted(f)' <=> Targeted(f)) /\ Target(f)' = Target(f)
         /\ \A list : IsList(list)' <=> IsList(list)
         /\ \A list : TypeFits(list)' <=> TypeFits(list)
         /\ \A e, list : Prepared(e, list)' <=> Prepared(e, list)
         /\ \A e, list : Translated(e, list)' = Translated(e, list)
         /\ \A e, options : NameOf(e, options)' = NameOf(e, options)
<1>1. Platform' = Platform /\ Filters' = Filters
  BY DEF Platform, Filters
<1>2. \A f : (Targeted(f)' <=> Targeted(f)) /\ Target(f)' = Target(f)
  BY <1>1 DEF Targeted, Target
<1>3. \A list : IsList(list)' <=> IsList(list)
  BY <1>1, <1>2 DEF IsList
<1>4. \A list : TypeFits(list)' <=> TypeFits(list)
  BY <1>1 DEF TypeFits
<1>5. \A e, list : Prepared(e, list)' <=> Prepared(e, list)
  BY <1>1 DEF Prepared
<1>6. \A e, options : NameOf(e, options)' = NameOf(e, options)
  BY <1>1 DEF NameOf
<1>7. \A e, list : Translated(e, list)' = Translated(e, list)
  BY <1>1, <1>6 DEF Translated
<1> QED
  BY <1>1, <1>2, <1>3, <1>4, <1>5, <1>6, <1>7

-----------------------------------------------------------------------------
(* Steps *)

\* A new list of a filter.
NewList(f, type, stateful, default) ==
  [filter |-> f, name |-> Target(f).name, type |-> type, options |-> Target(f).options,
   entries |-> <<>>, names |-> {}, stateful |-> stateful, default |-> default]

\* A filter is begun.
Begun ==
  LET types == TypesOf(Target(fi).options) IN
  /\ Translating /\ Fresh /\ (Targeted(fi) \/ Platform = "ciscoasa")
  /\ ~OptionsRefused(Target(fi).name, Target(fi).options)
  /\ carried' = CarriedOver(Target(fi).name, Target(fi).options)
  /\ IsSeq(types) /\ Len(types) \in 1..2
  /\ IsSeq(lists') /\ DOMAIN lists' = 1..(Len(lists) + Len(types))
  /\ \A l \in 1..Len(lists) : lists'[l] = lists[l]
  /\ \A l \in DOMAIN lists' : l > Len(lists) => \E k \in DOMAIN types :
       lists'[l] = NewList(fi, types[k], Platform \in IptablesFamily /\ carried'.stateful,
                          carried'.default)
  /\ ti' = 1 /\ UNCHANGED <<job, phase, fi, li, output>>

\* A filter has one list or two.
LEMMA TypesAre ==
  ASSUME NEW options
  PROVE  IsSeq(TypesOf(options)) /\ Len(TypesOf(options)) \in 1..2
<1>1. \E x, y : TypesOf(options) = <<x>> \/ TypesOf(options) = <<x, y>>
  <2>1. CASE Platform \in IptablesFamily
    <3>1. Platform \notin {"cisco", "juniper", "packetfilter"}
      BY <2>1 DEF IptablesFamily
    <3> QED
      BY <2>1, <3>1 DEF TypesOf
  <2>2. CASE Platform = "cisco"
    BY <2>2 DEF TypesOf, CiscoPasses, IptablesFamily
  <2>3. CASE Platform \notin IptablesFamily /\ Platform # "cisco"
    BY <2>3 DEF TypesOf
  <2> QED
    BY <2>1, <2>2, <2>3
<1>2. PICK x, y : TypesOf(options) = <<x>> \/ TypesOf(options) = <<x, y>>
  BY <1>1
<1> DEFINE one == <<x>>
           two == <<x, y>>
<1>3. one = [k \in 1..1 |-> one[k]] /\ two = [k \in 1..2 |-> two[k]]
  OBVIOUS
<1>4. TypesOf(options) = one \/ TypesOf(options) = two
  BY <1>2
<1> HIDE DEF one, two
<1>5. IsSeq(one) /\ Len(one) = 1
  BY <1>3, IsSeqIf
<1>6. IsSeq(two) /\ Len(two) = 2
  BY <1>3, IsSeqIf
<1> QED
  BY <1>4, <1>5, <1>6

\* A filter is begun or refused.
LEMMA StartBegins ==
  ASSUME GTyped, StartFilter
  PROVE  Refuse \/ Begun
<1> SUFFICES ASSUME ~Refuse PROVE Begun
  OBVIOUS
<1> DEFINE name == Target(fi).name
           options == Target(fi).options
           types == TypesOf(options)
           next == CarriedOver(name, options)
           stateful == Platform \in IptablesFamily /\ next.stateful
           new == [k \in DOMAIN types |-> NewList(fi, types[k], stateful, next.default)]
<1>1. /\ Translating /\ Fresh /\ (Targeted(fi) \/ Platform = "ciscoasa")
      /\ ~OptionsRefused(name, options)
      /\ carried' = next /\ lists' = lists \o new /\ ti' = 1
      /\ UNCHANGED <<job, phase, fi, li, output>>
  BY DEF StartFilter, NewList
<1>2. IsSeq(types) /\ Len(types) \in 1..2
  BY TypesAre
<1> HIDE DEF types, next
<1>3. IsSeq(new) /\ Len(new) = Len(types) /\ DOMAIN new = DOMAIN types
  <2>1. DOMAIN types = 1..Len(types) /\ Len(types) \in Nat
    BY <1>2, IsSeqGives
  <2>2. new = [k \in 1..Len(types) |-> new[k]]
    BY <2>1
  <2> QED
    BY <2>1, <2>2, IsSeqIf
<1>4. IsSeq(lists)
  BY DEF GTyped
<1>5. /\ IsSeq(lists') /\ DOMAIN lists' = 1..(Len(lists) + Len(types))
      /\ \A l \in 1..Len(lists) : lists'[l] = lists[l]
      /\ \A l \in DOMAIN lists' : l > Len(lists) =>
           l - Len(lists) \in 1..Len(new) /\ lists'[l] = new[l - Len(lists)]
  <2>1. IsJoined(lists', lists, new)
    BY <1>1 DEF IsJoined
  <2> HIDE DEF new
  <2> QED
    BY <1>3, <1>4, <2>1, ConcatIs
<1>6. ASSUME NEW l \in DOMAIN lists', l > Len(lists)
      PROVE  \E k \in DOMAIN types :
               lists'[l] = NewList(fi, types[k], Platform \in IptablesFamily /\ carried'.stateful,
                                  carried'.default)
  <2>1. l - Len(lists) \in DOMAIN types /\ lists'[l] = new[l - Len(lists)]
    BY <1>2, <1>3, <1>5, <1>6, IsSeqGives
  <2> QED
    BY <1>1, <2>1
<1> QED
  BY <1>1, <1>2, <1>5, <1>6 DEF Begun, types, next

Stays(e) == ~e.expired \/ Platform = "srx"

\* A list with more names and other entries.
Refilled(list, names, entries) ==
  [filter |-> list.filter, name |-> list.name, type |-> list.type,
   options |-> list.options, entries |-> entries, names |-> names,
   stateful |-> list.stateful, default |-> list.default]

IsRefilled(u, list, names, entries) ==
  u = [list EXCEPT !.names = names, !.entries = entries]

\* A list that is filled stays a list.
LEMMA RefilledIs ==
  ASSUME NEW list, IsList(list), NEW names, NEW entries,
         NEW u, IsRefilled(u, list, names, entries)
  PROVE  u = Refilled(list, names, entries)
<1> DEFINE s == Refilled(list, names, entries)
           F == {"filter", "name", "type", "options", "entries", "names", "stateful", "default"}
<1>1. DOMAIN list = F
  BY DEF IsList
<1>2. u = [x \in F |-> u[x]] /\ s = [x \in F |-> s[x]]
  BY <1>1 DEF IsRefilled, Refilled
<1>3. \A x \in F : u[x] = s[x]
  <2>1. /\ u.names = names /\ u.entries = entries
        /\ \A x \in F : x # "names" /\ x # "entries" => u[x] = list[x]
    BY <1>1 DEF IsRefilled
  <2> QED
    BY <2>1 DEF Refilled
<1> HIDE DEF s
<1>4. u = s
  BY <1>2, <1>3
<1> QED
  BY <1>4 DEF s

\* A term is translated.
Moved ==
  LET list == lists[li]
      e == Filters[fi].entries[ti]
  IN
  /\ Translating /\ li \in DOMAIN lists /\ ti \in DOMAIN Filters[fi].entries
  /\ ~TranslateRefused(e, list)
  /\ IsSeq(lists') /\ DOMAIN lists' = DOMAIN lists /\ Len(lists') = Len(lists)
  /\ \A l \in DOMAIN lists : l # li => lists'[l] = lists[l]
  /\ lists'[li] = Refilled(list, list.names \cup {NameOf(e, list.options)},
                     IF Stays(e) THEN Append(list.entries, Translated(e, list))
                     ELSE list.entries)
  /\ carried' = [stateful |-> carried.stateful, default |-> carried.default,
                 family |-> carried.family,
                 reject |-> IF Platform \in IptablesFamily /\ Stays(e) THEN list.type
                            ELSE carried.reject,
                 book |-> IF Platform = "srx"
                          THEN AddToBook(carried.book, e.term, SrxZones(list.options))
                          ELSE carried.book,
                 apps |-> IF Platform = "srx"
                          THEN carried.apps \cup {Application(NameOf(e, list.options), e.term)}
                          ELSE carried.apps]
  /\ ti' = ti + 1 /\ UNCHANGED <<job, phase, fi, li, output>>

\* The filter being translated.
LEMMA FilterIs ==
  ASSUME GTyped, Translating
  PROVE  /\ JobHolds /\ fi \in DOMAIN Filters /\ IsSeq(Filters[fi].entries)
         /\ \A k \in DOMAIN Filters[fi].entries : EntryInForm(Filters[fi].entries[k])
<1>1. JobHolds
  BY JobIs DEF GTyped
<1>2. fi \in DOMAIN Filters
  <2>1. IsSeq(Filters) /\ fi \in Nat \ {0} /\ fi <= Len(Filters)
    BY <1>1 DEF JobHolds, GTyped, Translating
  <2> QED
    BY <2>1, IsSeqGives
<1> QED
  BY <1>1, <1>2 DEF JobHolds

\* A term is translated or refused.
LEMMA TranslateMoves ==
  ASSUME GTyped, TranslateTerm
  PROVE  Refuse \/ Moved
<1> SUFFICES ASSUME ~Refuse PROVE Moved
  OBVIOUS
<1> DEFINE list == lists[li]
           e == Filters[fi].entries[ti]
           name == NameOf(e, list.options)
           entries == IF Stays(e) THEN Append(list.entries, Translated(e, list)) ELSE list.entries
           reject == IF Platform \in IptablesFamily /\ Stays(e) THEN list.type ELSE carried.reject
           book == IF Platform = "srx" THEN AddToBook(carried.book, e.term, SrxZones(list.options))
                   ELSE carried.book
           apps == IF Platform = "srx" THEN carried.apps \cup {Application(name, e.term)}
                   ELSE carried.apps
           filled == [list EXCEPT !.names = @ \cup {name}, !.entries = entries]
<1>1. /\ Translating /\ ~Fresh /\ ti <= Len(Filters[fi].entries)
      /\ ~TranslateRefused(e, list)
      /\ lists' = [lists EXCEPT ![li].names = @ \cup {name}, ![li].entries = entries]
      /\ carried' = [carried EXCEPT !.reject = reject, !.book = book, !.apps = apps]
      /\ ti' = ti + 1 /\ UNCHANGED <<job, phase, fi, li, output>>
  BY DEF TranslateTerm, Stays
<1>2. IsSeq(lists) /\ li \in Nat \ {0} /\ ti \in Nat \ {0} /\ IsCarried(carried)
  BY DEF GTyped
<1>3. li \in DOMAIN lists
  BY <1>1, <1>2, IsSeqGives DEF Fresh
<1>4. ti \in DOMAIN Filters[fi].entries
  BY <1>1, <1>2, FilterIs, IsSeqGives
<1>5. IsList(list)
  BY <1>3 DEF GTyped
<1> HIDE DEF name, entries, reject, book, apps
<1>6. lists' = [lists EXCEPT ![li] = filled]
  BY <1>1, <1>3
<1>7. filled = Refilled(list, list.names \cup {name}, entries)
  <2>1. IsRefilled(filled, list, list.names \cup {name}, entries)
    BY DEF IsRefilled
  <2> HIDE DEF list, filled
  <2> QED
    BY <1>5, <2>1, RefilledIs
<1> HIDE DEF filled
<1>8. /\ IsSeq(lists') /\ DOMAIN lists' = DOMAIN lists /\ Len(lists') = Len(lists)
      /\ \A l \in DOMAIN lists : l # li => lists'[l] = lists[l]
      /\ lists'[li] = filled
  <2>1. IsReplaced(lists', lists, li, filled)
    BY <1>6 DEF IsReplaced
  <2> QED
    BY <1>2, <1>3, <2>1, ReplacedIs
<1>9. carried' = [stateful |-> carried.stateful, default |-> carried.default,
                  family |-> carried.family, reject |-> reject, book |-> book, apps |-> apps]
  BY <1>1, <1>2 DEF IsCarried
<1> QED
  BY <1>1, <1>3, <1>4, <1>7, <1>8, <1>9
     DEF Moved, name, entries, reject, book, apps

\* What a header changes of what is carried.
LEMMA CarriedOverIs ==
  ASSUME IsCarried(carried), NEW name, NEW options, NEW c, c = CarriedOver(name, options)
  PROVE  /\ IsCarried(c)
         /\ c.reject = carried.reject /\ c.book = carried.book /\ c.apps = carried.apps
         /\ Platform \in IptablesFamily =>
              /\ c.stateful <=> carried.stateful /\ "nostate" \notin Range(options)
              /\ c.default = IptablesState(carried, Platform, name, options).default
         /\ Platform = "packetfilter" => c.family = PacketFilterFamily(carried.family, options)
<1> DEFINE next == IptablesState(carried, Platform, name, options)
           F == {"stateful", "default", "family", "reject", "book", "apps"}
<1>1. DOMAIN carried = F /\ carried.stateful \in BOOLEAN
  BY DEF IsCarried
<1>2. next.stateful = (carried.stateful /\ "nostate" \notin Range(options))
  BY DEF IptablesState
<1> HIDE DEF next
<1>3. CASE Platform \in IptablesFamily
  <2>1. c = [carried EXCEPT !.stateful = next.stateful, !.default = next.default]
    BY <1>3 DEF CarriedOver, IptablesFamily, next
  <2>2. /\ c.stateful = next.stateful /\ c.default = next.default /\ DOMAIN c = F
        /\ \A x \in F : x # "stateful" /\ x # "default" => c[x] = carried[x]
        /\ c = [x \in F |-> c[x]]
    BY <1>1, <2>1
  <2>3. c = [stateful |-> c.stateful, default |-> c.default, family |-> c.family,
             reject |-> c.reject, book |-> c.book, apps |-> c.apps]
    BY <2>2
  <2>4. Platform # "packetfilter"
    BY <1>3 DEF IptablesFamily
  <2>5. c.stateful \in BOOLEAN /\ (c.stateful <=> carried.stateful /\ "nostate" \notin Range(options))
    BY <1>2, <2>2
  <2>6. c.reject = carried.reject /\ c.book = carried.book /\ c.apps = carried.apps
    BY <2>2
  <2> QED
    BY <2>2, <2>3, <2>4, <2>5, <2>6 DEF IsCarried, next
<1>4. CASE Platform = "packetfilter"
  <2>1. c = [carried EXCEPT !.family = PacketFilterFamily(carried.family, options)]
    BY <1>4 DEF CarriedOver, IptablesFamily
  <2>2. /\ c.family = PacketFilterFamily(carried.family, options) /\ DOMAIN c = F
        /\ \A x \in F : x # "family" => c[x] = carried[x]
        /\ c = [x \in F |-> c[x]]
    BY <1>1, <2>1
  <2>3. c = [stateful |-> c.stateful, default |-> c.default, family |-> c.family,
             reject |-> c.reject, book |-> c.book, apps |-> c.apps]
    BY <2>2
  <2>4. Platform \notin IptablesFamily
    BY <1>4 DEF IptablesFamily
  <2>5. /\ c.stateful = carried.stateful
        /\ c.reject = carried.reject /\ c.book = carried.book /\ c.apps = carried.apps
    BY <2>2
  <2> QED
    BY <1>1, <2>2, <2>3, <2>4, <2>5 DEF IsCarried
<1>5. CASE Platform \notin IptablesFamily /\ Platform # "packetfilter"
  <2>1. c = carried
    BY <1>5 DEF CarriedOver
  <2> QED
    BY <1>5, <2>1
<1> QED
  BY <1>3, <1>4, <1>5

\* The generator starts with the types right ...
LEMMA TypedInit == Init => GTyped
<1> SUFFICES ASSUME Init PROVE GTyped
  OBVIOUS
<1>1. IsSeq(lists) /\ IsSeq(output) /\ DOMAIN lists = {}
  BY EmptyIsSeq DEF Init
<1> QED
  BY <1>1 DEF Init, GTyped, IsCarried

\* Steps that change neither the lists nor what is carried.
LEMMA TypedSame ==
  ASSUME GTyped, UNCHANGED <<job, carried, lists>>,
         phase' \in {"check", "translate", "render", "done", "refused"},
         fi' \in Nat \ {0}, li' \in Nat \ {0}, ti' \in Nat \ {0}, IsSeq(output')
  PROVE  GTyped'
BY JobKept DEF GTyped

\* ... which beginning a filter keeps ...
LEMMA TypedBegun ==
  ASSUME GTyped, Begun
  PROVE  GTyped'
<1>1. JobHolds /\ fi \in DOMAIN Filters
  BY FilterIs DEF Begun
<1>2. IsCarried(carried')
  BY CarriedOverIs DEF Begun, GTyped
<1>3. ASSUME NEW l \in DOMAIN lists' PROVE IsList(lists'[l])
  <2>1. Len(lists) \in Nat /\ DOMAIN lists = 1..Len(lists) /\ IsSeq(lists')
    BY IsSeqGives DEF GTyped, Begun
  <2>2. CASE l <= Len(lists)
    <3>1. l \in 1..Len(lists) /\ lists'[l] = lists[l]
      BY <2>1, <2>2, IsSeqGives DEF Begun
    <3> QED
      BY <2>1, <3>1 DEF GTyped
  <2>3. CASE l > Len(lists)
    <3>1. PICK type, stateful, default : lists'[l] = NewList(fi, type, stateful, default)
      BY <2>3 DEF Begun
    <3>2. Targeted(fi) \/ Platform = "ciscoasa"
      BY DEF Begun
    <3> QED
      BY <1>1, <3>1, <3>2, EmptyIsSeq DEF IsList, NewList
  <2>4. l \in Nat
    BY <2>1, IsSeqGives
  <2> QED
    BY <2>1, <2>2, <2>3, <2>4
<1>4. job' = job /\ phase' = phase /\ fi' = fi /\ li' = li /\ ti' = 1 /\ output' = output
  BY DEF Begun
<1>5. IsSeq(lists')
  BY DEF Begun
<1>6. \A l \in DOMAIN lists' : IsList(lists[l])'
  BY <1>3, <1>4, JobKept
<1> QED
  BY <1>2, <1>4, <1>5, <1>6 DEF GTyped

\* ... and translating a term ...
LEMMA TypedMoved ==
  ASSUME GTyped, Moved
  PROVE  GTyped'
<1>1. IsCarried(carried')
  <2>1. carried'.stateful = carried.stateful
    BY DEF Moved
  <2> QED
    BY <2>1 DEF Moved, GTyped, IsCarried
<1>2. job' = job /\ phase' = phase /\ fi' = fi /\ li' = li /\ ti' = ti + 1 /\ output' = output
  BY DEF Moved
<1> DEFINE list == lists[li]
           e == Filters[fi].entries[ti]
           entries == IF Stays(e) THEN Append(list.entries, Translated(e, list)) ELSE list.entries
<1>3. li \in DOMAIN lists /\ IsList(list)
  BY DEF Moved, GTyped
<1>4. IsSeq(entries)
  <2>1. IsSeq(list.entries)
    BY <1>3 DEF IsList
  <2>2. IsAppended(Append(list.entries, Translated(e, list)), list.entries, Translated(e, list))
    BY DEF IsAppended
  <2> QED
    BY <2>1, <2>2, AppendIs
<1>5. lists'[li] = Refilled(list, list.names \cup {NameOf(e, list.options)}, entries)
  BY DEF Moved
<1> HIDE DEF list, entries
<1>6. IsList(lists'[li])
  BY <1>3, <1>4, <1>5 DEF IsList, Refilled
<1>7. \A l \in DOMAIN lists' : IsList(lists'[l])
  BY <1>6 DEF Moved, GTyped
<1>8. \A l \in DOMAIN lists' : IsList(lists[l])'
  BY <1>2, <1>7, JobKept
<1>9. IsSeq(lists')
  BY DEF Moved
<1> QED
  BY <1>1, <1>2, <1>8, <1>9 DEF GTyped

\* ... and every other step.
LEMMA TypedStep == GTyped /\ [Next]_vars => GTyped'
<1> SUFFICES ASSUME GTyped, [Next]_vars PROVE GTyped'
  OBVIOUS
<1>1. CASE Refuse
  BY <1>1, TypedSame DEF Refuse, GTyped
<1>2. CASE CheckKeywords /\ ~Refuse
  BY <1>2, TypedSame DEF CheckKeywords, GTyped
<1>3. CASE SkipFilter
  <2>1. fi' \in Nat \ {0}
    BY <1>3 DEF SkipFilter, GTyped
  <2> QED
    BY <1>3, <2>1, TypedSame DEF SkipFilter, GTyped
<1>4. CASE StartFilter
  BY <1>1, <1>4, StartBegins, TypedBegun
<1>5. CASE TranslateTerm
  BY <1>1, <1>5, TranslateMoves, TypedMoved
<1>6. CASE FinishList
  <2>1. fi' \in Nat \ {0} /\ li' \in Nat \ {0}
    BY <1>6 DEF FinishList, GTyped
  <2> QED
    BY <1>6, <2>1, TypedSame DEF FinishList, GTyped
<1>7. CASE FinishTranslation
  BY <1>7, TypedSame DEF FinishTranslation, GTyped
<1>8. CASE RenderTerm /\ ~Refuse
  <2>1. PICK b : output' = Append(output, b)
    BY <1>8 DEF RenderTerm
  <2>2. IsSeq(output')
    <3>1. IsAppended(output', output, b)
      BY <2>1 DEF IsAppended
    <3> QED
      BY <3>1, AppendIs DEF GTyped
  <2>3. ti' \in Nat \ {0} /\ UNCHANGED <<job, phase, fi, li, carried, lists>>
    BY <1>8 DEF RenderTerm, GTyped
  <2> QED
    BY <2>2, <2>3, TypedSame DEF GTyped
<1>9. CASE NextList
  <2>1. li' \in Nat \ {0}
    BY <1>9 DEF NextList, GTyped
  <2> QED
    BY <1>9, <2>1, TypedSame DEF NextList, GTyped
<1>10. CASE Finish
  BY <1>10, TypedSame DEF Finish, GTyped
<1>11. CASE UNCHANGED vars
  BY <1>11, TypedSame DEF vars, GTyped
<1> QED
  BY <1>1, <1>2, <1>3, <1>4, <1>5, <1>6, <1>7, <1>8, <1>9, <1>10, <1>11 DEF Next, Ended

-----------------------------------------------------------------------------
(* How far a generator is *)

\* The keywords have been looked at.
Acceptable ==
  \A f \in DOMAIN Filters : Targeted(f) =>
    \A e \in Range(Filters[f].entries) :
      ~UnsupportedKeywords(e, Platform, PlatformKeywords(Platform))

\* Lists are filled in their order, and those of a filter are the last ones.
Progress ==
  /\ phase = "check" =>
       lists = <<>> /\ fi = 1 /\ li = 1 /\ ti = 1 /\ output = <<>>
         /\ carried.book = {} /\ carried.stateful /\ carried.default = NONE
         /\ carried.family = NONE
  /\ phase = "translate" =>
       /\ Acceptable /\ output = <<>>
       /\ fi <= Len(Filters) + 1 /\ li <= Len(lists) + 1
       /\ \A l \in DOMAIN lists :
            /\ lists[l].filter <= fi /\ (Fresh => lists[l].filter < fi)
            /\ l >= li => lists[l].filter = fi
            /\ l > li => lists[l].entries = <<>>
       /\ Fresh => ti = 1
       /\ ~Fresh => ti <= Len(Filters[fi].entries) + 1
       /\ Platform = "ciscoasa" /\ fi > 1 => lists # <<>>
  /\ phase \in {"render", "done"} /\ Platform = "ciscoasa" => lists # <<>>

\* Whether the keywords are supported depends on the job alone.
LEMMA AcceptableKept == ASSUME job' = job PROVE Acceptable' <=> Acceptable
BY JobKept DEF Acceptable

\* After a step of the translation.
Translates ==
  /\ Acceptable /\ output = <<>>
  /\ fi <= Len(Filters) + 1 /\ li <= Len(lists) + 1
  /\ \A l \in DOMAIN lists :
       /\ lists[l].filter <= fi /\ (Fresh => lists[l].filter < fi)
       /\ l >= li => lists[l].filter = fi
       /\ l > li => lists[l].entries = <<>>
  /\ Fresh => ti = 1
  /\ ~Fresh => ti <= Len(Filters[fi].entries) + 1
  /\ Platform = "ciscoasa" /\ fi > 1 => lists # <<>>

\* A step of the translation that leaves it on its way.
LEMMA TranslatesIf ==
  ASSUME Translates', phase' = "translate"
  PROVE  Progress'
BY DEF Translates, Progress

\* The counters are numbers, and lists are numbered.
LEMMA Numbered ==
  ASSUME GTyped
  PROVE  /\ fi \in Nat \ {0} /\ li \in Nat \ {0} /\ ti \in Nat \ {0}
         /\ Len(lists) \in Nat /\ DOMAIN lists = 1..Len(lists)
         /\ JobHolds /\ Len(Filters) \in Nat /\ DOMAIN Filters = 1..Len(Filters)
         /\ \A f \in DOMAIN Filters : Len(Filters[f].entries) \in Nat
         /\ \A l \in DOMAIN lists : lists[l].filter \in Nat
         /\ Len(Filters) > 0
<1>1. JobHolds
  BY JobIs DEF GTyped
<1>2. Len(Filters) \in Nat /\ DOMAIN Filters = 1..Len(Filters)
  BY <1>1, IsSeqGives DEF JobHolds
<1>3. \A f \in DOMAIN Filters : Len(Filters[f].entries) \in Nat
  BY <1>1, IsSeqGives DEF JobHolds
<1>4. Len(lists) \in Nat /\ DOMAIN lists = 1..Len(lists)
  BY IsSeqGives DEF GTyped
<1>5. \A l \in DOMAIN lists : lists[l].filter \in Nat
  BY <1>2 DEF GTyped, IsList
<1>6. Len(Filters) > 0
  <2>1. Filters # <<>> /\ Filters \in Seq(Range(Filters))
    BY <1>1 DEF JobHolds, IsSeq
  <2> QED
    BY <2>1
<1> QED
  BY <1>1, <1>2, <1>3, <1>4, <1>5, <1>6 DEF GTyped

\* The generator starts at the beginning.
LEMMA ProgressInit == Init => Progress
BY DEF Init, Progress

\* Each step leaves it where it is on its way: the check of keywords,
LEMMA ProgressChecked ==
  ASSUME GTyped, Progress, CheckKeywords, ~Refuse
  PROVE  Progress'
<1>1. /\ phase = "check" /\ phase' = "translate" /\ Acceptable
      /\ UNCHANGED <<job, fi, li, ti, carried, lists, output>>
  BY DEF CheckKeywords, Acceptable
<1>2. Acceptable' /\ Filters' = Filters
  BY <1>1, AcceptableKept, JobKept
<1>3. lists = <<>> /\ fi = 1 /\ li = 1 /\ ti = 1 /\ output = <<>>
  BY <1>1 DEF Progress
<1>4. Len(Filters) \in Nat /\ Len(lists) = 0 /\ DOMAIN lists = {}
  BY <1>3, Numbered, EmptyIsSeq
<1>5. Translates'
  BY <1>1, <1>2, <1>3, <1>4 DEF Translates, Fresh
<1> QED
  BY <1>1, <1>5, TranslatesIf

\* a filter for other platforms,
LEMMA ProgressSkipped ==
  ASSUME GTyped, Progress, SkipFilter
  PROVE  Progress'
<1>1. /\ phase = "translate" /\ fi <= Len(Filters) /\ Fresh /\ Platform # "ciscoasa"
      /\ fi' = fi + 1 /\ UNCHANGED <<job, phase, li, ti, carried, lists, output>>
  BY DEF SkipFilter, Translating
<1>2. Acceptable' /\ Filters' = Filters /\ Platform' = Platform
  BY <1>1, AcceptableKept, JobKept DEF Progress
<1>3. Fresh'
  BY <1>1 DEF Fresh
<1>4. ASSUME NEW l \in DOMAIN lists
      PROVE  lists[l].filter < fi + 1 /\ lists[l].filter <= fi + 1 /\ ~(l >= li)
  <2>1. lists[l].filter < fi
    BY <1>1 DEF Progress
  <2> QED
    BY <1>1, <2>1, Numbered DEF Fresh
<1>5. ti = 1 /\ output = <<>> /\ li <= Len(lists) + 1 /\ fi' <= Len(Filters) + 1
  BY <1>1, Numbered DEF Progress
<1>6. \A l \in DOMAIN lists : l > li => l >= li
  BY Numbered
<1>7. Translates'
  BY <1>1, <1>2, <1>3, <1>4, <1>5, <1>6 DEF Translates
<1> QED
  BY <1>1, <1>7, TranslatesIf

\* a filter that is begun,
LEMMA ProgressBegun ==
  ASSUME GTyped, Progress, Begun
  PROVE  Progress'
<1>1. /\ phase = "translate" /\ fi <= Len(Filters) /\ Fresh
      /\ ti' = 1 /\ UNCHANGED <<job, phase, fi, li, output>>
  BY DEF Begun, Translating
<1>2. Acceptable' /\ Filters' = Filters /\ Platform' = Platform
  BY <1>1, AcceptableKept, JobKept DEF Progress
<1> DEFINE n == Len(lists)
           m == Len(TypesOf(Target(fi).options))
<1>3. /\ n \in Nat /\ m \in 1..2 /\ DOMAIN lists' = 1..(n + m) /\ Len(lists') = n + m
      /\ DOMAIN lists = 1..n
  <2>1. m \in 1..2 /\ DOMAIN lists' = 1..(n + m) /\ IsSeq(lists')
    BY DEF Begun
  <2>2. n \in Nat /\ DOMAIN lists = 1..n
    BY Numbered
  <2>3. DOMAIN lists' = 1..Len(lists') /\ Len(lists') \in Nat
    BY <2>1, IsSeqGives
  <2> HIDE DEF n, m
  <2>4. Len(lists') = n + m
    BY <2>1, <2>2, <2>3
  <2> QED
    BY <2>1, <2>2, <2>4
<1> HIDE DEF n, m
<1>4. li = n + 1
  BY <1>1, <1>3, Numbered DEF Progress, Fresh, n
<1>5. ~Fresh'
  BY <1>1, <1>3, <1>4 DEF Fresh
<1>6. ASSUME NEW l \in DOMAIN lists'
      PROVE  /\ lists'[l].filter <= fi
             /\ l >= li => lists'[l].filter = fi
             /\ l > li => lists'[l].entries = <<>>
  <2>1. CASE l <= n
    <3>1. l \in DOMAIN lists /\ lists'[l] = lists[l] /\ ~(l >= li) /\ ~(l > li)
      BY <1>3, <1>4, <2>1 DEF Begun, n
    <3> QED
      BY <1>1, <3>1 DEF Progress
  <2>2. CASE l > n
    <3>1. PICK type, stateful, default : lists'[l] = NewList(fi, type, stateful, default)
      BY <2>2 DEF Begun, n
    <3>2. lists'[l].filter = fi /\ lists'[l].entries = <<>>
      BY <3>1 DEF NewList
    <3> QED
      BY <3>2, Numbered
  <2>3. l \in Nat
    BY <1>3
  <2> QED
    BY <1>3, <2>1, <2>2, <2>3
<1>7. ti' <= Len(Filters[fi].entries) + 1 /\ fi' <= Len(Filters) + 1
  BY <1>1, Numbered, FilterIs DEF Begun
<1>8. lists' # <<>>
  <2>1. 1 \in DOMAIN lists'
    BY <1>3
  <2> QED
    BY <2>1, EmptyIsSeq
<1>9. output' = <<>> /\ li' <= Len(lists') + 1
  BY <1>1, <1>3, <1>4 DEF Progress
<1>10. Translates'
  BY <1>1, <1>2, <1>5, <1>6, <1>7, <1>8, <1>9 DEF Translates
<1> QED
  BY <1>1, <1>10, TranslatesIf

\* a term,
LEMMA ProgressMoved ==
  ASSUME GTyped, Progress, Moved
  PROVE  Progress'
<1>1. /\ phase = "translate" /\ li \in DOMAIN lists /\ ti \in DOMAIN Filters[fi].entries
      /\ ti' = ti + 1 /\ UNCHANGED <<job, phase, fi, li, output>>
      /\ DOMAIN lists' = DOMAIN lists /\ Len(lists') = Len(lists)
      /\ \A l \in DOMAIN lists : l # li => lists'[l] = lists[l]
      /\ lists'[li].filter = lists[li].filter
  BY DEF Moved, Translating, Refilled
<1>2. Acceptable' /\ Filters' = Filters /\ Platform' = Platform
  BY <1>1, AcceptableKept, JobKept DEF Progress
<1>3. ~Fresh /\ ~Fresh'
  BY <1>1, Numbered DEF Fresh
<1>4. ASSUME NEW l \in DOMAIN lists
      PROVE  /\ lists'[l].filter <= fi
             /\ l >= li => lists'[l].filter = fi
             /\ l > li => lists'[l].entries = <<>>
  <2>1. lists'[l].filter = lists[l].filter
    BY <1>1
  <2>2. l > li => lists'[l] = lists[l]
    BY <1>1, Numbered
  <2> QED
    BY <1>1, <2>1, <2>2 DEF Progress
<1>5. ti' <= Len(Filters[fi].entries) + 1
  <2>1. IsSeq(Filters[fi].entries)
    BY FilterIs DEF Moved
  <2> QED
    BY <1>1, <2>1, IsSeqGives
<1>6. lists' # <<>>
  BY <1>1, EmptyIsSeq
<1>7. output' = <<>> /\ li' <= Len(lists') + 1 /\ fi' <= Len(Filters) + 1
  BY <1>1 DEF Progress
<1>8. Translates'
  BY <1>1, <1>2, <1>3, <1>4, <1>5, <1>6, <1>7 DEF Translates
<1> QED
  BY <1>1, <1>8, TranslatesIf

\* the end of a list,
LEMMA ProgressFinished ==
  ASSUME GTyped, Progress, FinishList
  PROVE  Progress'
<1>1. /\ phase = "translate" /\ fi <= Len(Filters) /\ ~Fresh
      /\ li' = li + 1 /\ ti' = 1 /\ fi' = IF li = Len(lists) THEN fi + 1 ELSE fi
      /\ UNCHANGED <<job, phase, carried, lists, output>>
  BY DEF FinishList, Translating
<1>2. Acceptable' /\ Filters' = Filters /\ Platform' = Platform
  BY <1>1, AcceptableKept, JobKept DEF Progress
<1>3. Len(lists) \in Nat /\ DOMAIN lists = 1..Len(lists) /\ li \in 1..Len(lists) /\ fi \in Nat
  BY <1>1, Numbered DEF Fresh
<1>4. Fresh' <=> li = Len(lists)
  <2>1. lists' = lists /\ li' = li + 1
    BY <1>1
  <2> DEFINE n == Len(lists)
  <2>2. n \in Nat /\ li \in Nat /\ li <= n
    BY <1>3
  <2>3. li + 1 > n <=> li = n
    <3> HIDE DEF n
    <3> QED
      BY <2>2
  <2> QED
    BY <2>1, <2>3, Zenon DEF Fresh
<1>5. ASSUME NEW l \in DOMAIN lists
      PROVE  /\ lists[l].filter <= fi' /\ (Fresh' => lists[l].filter < fi')
             /\ l >= li + 1 => lists[l].filter = fi'
             /\ l > li + 1 => lists[l].entries = <<>>
  <2>1. /\ lists[l].filter <= fi /\ (l >= li => lists[l].filter = fi)
        /\ (l > li => lists[l].entries = <<>>) /\ lists[l].filter \in Nat
    BY <1>1, Numbered DEF Progress
  <2>2. l \in 1..Len(lists)
    BY <1>3
  <2> DEFINE n == Len(lists)
             f == lists[l].filter
             none == lists[l].entries = <<>>
  <2>3. n \in Nat /\ li \in 1..n /\ fi \in Nat /\ l \in 1..n /\ fi' = IF li = n THEN fi + 1 ELSE fi
    BY <1>1, <1>3, <2>2
  <2>4. Fresh' <=> li = n
    BY <1>4
  <2>5. f <= fi /\ (l >= li => f = fi) /\ (l > li => none) /\ f \in Nat
    BY <2>1
  <2> HIDE DEF n, f, none
  <2>6. f <= fi' /\ (li = n => f < fi') /\ (l > li + 1 => none)
    BY <2>3, <2>5
  <2>7. l >= li + 1 => f = fi'
    <3> HAVE l >= li + 1
    <3>1. li < n /\ l >= li
      BY <2>3
    <3> QED
      BY <2>3, <2>5, <3>1
  <2> QED
    BY <2>4, <2>6, <2>7 DEF f, none
<1>6. ~Fresh' => ti' <= Len(Filters[fi].entries) + 1 /\ fi' = fi
  BY <1>1, <1>4, Numbered
<1>7. fi' <= Len(Filters) + 1 /\ li' <= Len(lists) + 1 /\ output = <<>> /\ lists # <<>>
  <2>1. lists # <<>>
    <3>1. 1 \in DOMAIN lists
      BY <1>3
    <3> QED
      BY <3>1, EmptyIsSeq
  <2> DEFINE n == Len(lists)
           m == Len(Filters)
  <2>2. n \in Nat /\ li \in Nat /\ li <= n /\ m \in Nat /\ fi \in Nat /\ fi <= m
    <3>1. n \in Nat /\ li \in Nat /\ li <= n
      BY <1>3
    <3>2. m \in Nat /\ fi \in Nat
      BY Numbered
    <3> QED
      BY <1>1, <3>1, <3>2
  <2>3. li' = li + 1 /\ (fi' = fi \/ fi' = fi + 1) /\ output = <<>>
    BY <1>1 DEF Progress
  <2> HIDE DEF n, m
  <2>4. fi' <= m + 1 /\ li' <= n + 1
    BY <2>2, <2>3
  <2> QED
    BY <2>1, <2>3, <2>4 DEF n, m
<1>8. Translates'
  BY <1>1, <1>2, <1>5, <1>6, <1>7 DEF Translates
<1> QED
  BY <1>1, <1>8, TranslatesIf

\* and every other step.
LEMMA ProgressStep == GTyped /\ Progress /\ [Next]_vars => Progress'
<1> SUFFICES ASSUME GTyped, Progress, [Next]_vars PROVE Progress'
  OBVIOUS
<1>1. CASE Refuse
  BY <1>1 DEF Refuse, Progress
<1>2. CASE CheckKeywords /\ ~Refuse
  BY <1>2, ProgressChecked
<1>3. CASE SkipFilter
  BY <1>3, ProgressSkipped
<1>4. CASE StartFilter
  BY <1>1, <1>4, StartBegins, ProgressBegun
<1>5. CASE TranslateTerm
  BY <1>1, <1>5, TranslateMoves, ProgressMoved
<1>6. CASE FinishList
  BY <1>6, ProgressFinished
<1>7. CASE FinishTranslation
  <2>1. phase = "translate" /\ fi > Len(Filters) /\ phase' = "render" /\ job' = job /\ lists' = lists
    BY <1>7 DEF FinishTranslation
  <2>2. Platform' = Platform /\ (Platform = "ciscoasa" => lists # <<>>)
    BY <2>1, JobKept, Numbered DEF Progress
  <2> QED
    BY <2>1, <2>2 DEF Progress
<1>8. CASE RenderTerm /\ ~Refuse
  BY <1>8, JobKept DEF RenderTerm, Progress
<1>9. CASE NextList
  BY <1>9, JobKept DEF NextList, Progress
<1>10. CASE Finish
  BY <1>10, JobKept DEF Finish, Progress
<1>11. CASE UNCHANGED vars
  <2>1. /\ Platform' = Platform /\ Filters' = Filters /\ (Acceptable' <=> Acceptable)
        /\ UNCHANGED <<job, phase, fi, li, ti, carried, lists, output>>
    BY <1>11, JobKept, AcceptableKept DEF vars
  <2>2. Fresh' <=> Fresh
    BY <2>1 DEF Fresh
  <2> QED
    BY <2>1, <2>2 DEF Progress
<1> QED
  BY <1>1, <1>2, <1>3, <1>4, <1>5, <1>6, <1>7, <1>8, <1>9, <1>10, <1>11 DEF Next, Ended

-----------------------------------------------------------------------------
(* What translating a term gives *)

\* FixHighPorts leaves a term in form, with its high ports.
LEMMA FixedInForm ==
  ASSUME NEW t, TermInForm(t)
  PROVE  TermInForm(FixHighPorts(t)) /\ HighPortsAdded(FixHighPorts(t))
<1> DEFINE fixed == FixHighPorts(t)
<1>1. DOMAIN t = DOMAIN EmptyTerm /\ t.destination_port \in Seq(Ports) /\ Sane(t)
  BY TermIs
<1>2. /\ DOMAIN fixed = DOMAIN EmptyTerm
      /\ \A a \in DOMAIN EmptyTerm : a # "destination_port" => fixed[a] = t[a]
      /\ fixed.destination_port \in Seq(Ports)
      /\ HighPortsAdded(fixed)
      /\ ~HasHighPorts(t) => fixed = t
  BY <1>1, FixHighPortsAdds
<1>3. CASE HasHighPorts(t)
  <2> HIDE DEF fixed
  <2>1. \A a \in TermFields : a # "destination_port" => fixed[a] = t[a]
    BY <1>2, FieldsAre
  <2>2. /\ fixed.verbatim = t.verbatim /\ fixed.action = t.action /\ fixed.protocol = t.protocol
        /\ fixed.option = t.option /\ fixed.port = t.port /\ fixed.source_port = t.source_port
        /\ fixed.address = t.address /\ fixed.address_exclude = t.address_exclude
        /\ fixed.source_address = t.source_address
        /\ fixed.source_address_exclude = t.source_address_exclude
        /\ fixed.destination_address = t.destination_address
        /\ fixed.destination_address_exclude = t.destination_address_exclude
    BY <2>1 DEF TermFields
  <2>3. "tcp" \in t.protocol \/ "udp" \in t.protocol
    BY <1>3 DEF HasHighPorts
  <2>4. t.verbatim = {} /\ t.action # {}
    BY <1>1, <2>3 DEF Sane
  <2>5. Sane(fixed)
    BY <2>2, <2>3, <2>4 DEF Sane
  <2>6. /\ t.address \in Seq(Networks) /\ t.address_exclude \in Seq(Networks)
        /\ t.source_address \in Seq(Networks) /\ t.source_address_exclude \in Seq(Networks)
        /\ t.destination_address \in Seq(Networks)
        /\ t.destination_address_exclude \in Seq(Networks)
        /\ t.port \in Seq(Ports) /\ t.source_port \in Seq(Ports) /\ IsFiniteSet(t.protocol)
    BY TermIs
  <2>7. TermInForm(fixed)
    <3>1. \A a \in {"address", "address_exclude", "source_address", "source_address_exclude",
                    "destination_address", "destination_address_exclude"} :
            fixed[a] \in Seq(Networks)
      BY <2>2, <2>6
    <3>2. \A a \in {"port", "source_port", "destination_port"} : fixed[a] \in Seq(Nat \X Nat)
      BY <1>2, <2>2, <2>6 DEF Ports
    <3>3. DOMAIN fixed = DOMAIN EmptyTerm /\ IsFiniteSet(fixed.protocol)
      BY <1>2, <2>2, <2>6
    <3> QED
      BY <2>5, <3>1, <3>2, <3>3, Zenon DEF TermInForm
  <2> QED
    BY <1>2, <2>7 DEF fixed
<1>4. CASE ~HasHighPorts(t)
  BY <1>2, <1>4
<1> QED
  BY <1>3, <1>4, <1>2 DEF fixed

FixesPorts == IptablesFamily \cup {"cisco", "juniper"}

\* The fields of a translated entry.
LEMMA TranslatedIs ==
  ASSUME NEW e, EntryInForm(e), NEW list, NEW r, r = Translated(e, list)
  PROVE  /\ r.name = NameOf(e, list.options)
         /\ r.expired = e.expired /\ r.keywords = e.keywords
         /\ r.term = IF Platform \in FixesPorts THEN FixHighPorts(e.term) ELSE e.term
<1>1. e = [name |-> e.name, term |-> e.term, expired |-> e.expired, keywords |-> e.keywords]
  BY DEF EntryInForm
<1> DEFINE name == NameOf(e, list.options)
           fixed == IF Platform \in FixesPorts THEN FixHighPorts(e.term) ELSE e.term
<1>2. r = [e EXCEPT !.name = name, !.term = fixed]
  BY DEF Translated, FixesPorts
<1> HIDE DEF name, fixed
<1>3. DOMAIN e = {"name", "term", "expired", "keywords"}
  BY <1>1
<1>4. r.name = name /\ r.term = fixed /\ r.expired = e.expired /\ r.keywords = e.keywords
  BY <1>2, <1>3
<1> QED
  BY <1>4 DEF name, fixed

\* Nothing but the ports changes, and only where high ports are added.
LEMMA TranslatedTerm ==
  ASSUME NEW e, EntryInForm(e), NEW list, NEW r, r = Translated(e, list)
  PROVE  /\ TermInForm(r.term)
         /\ \A a \in TermFields : a # "destination_port" => r.term[a] = e.term[a]
         /\ Keywords(r) \subseteq Keywords(e) \cup {"destination_port"}
         /\ e.term.option = {} => r.term = e.term
         /\ Platform \in FixesPorts => HighPortsAdded(r.term)
         /\ Platform \notin FixesPorts => r.term = e.term
         /\ \A platform : ActiveOn(r.term, platform) <=> ActiveOn(e.term, platform)
<1> DEFINE t == e.term
<1>1. TermInForm(t) /\ DOMAIN t = DOMAIN EmptyTerm /\ t.destination_port \in Seq(Ports)
  BY TermIs DEF EntryInForm
<1>2. /\ DOMAIN r.term = DOMAIN EmptyTerm
      /\ \A a \in TermFields : a # "destination_port" => r.term[a] = t[a]
      /\ t.option = {} => r.term = t
      /\ TermInForm(r.term)
      /\ Platform \in FixesPorts => HighPortsAdded(r.term)
      /\ Platform \notin FixesPorts => r.term = t
  <2>1. CASE Platform \in FixesPorts
    <3>1. r.term = FixHighPorts(t)
      BY <2>1, TranslatedIs
    <3>2. /\ DOMAIN FixHighPorts(t) = DOMAIN EmptyTerm
          /\ \A a \in DOMAIN EmptyTerm : a # "destination_port" => FixHighPorts(t)[a] = t[a]
          /\ ~HasHighPorts(t) => FixHighPorts(t) = t
      BY <1>1, FixHighPortsAdds
    <3>3. TermInForm(FixHighPorts(t)) /\ HighPortsAdded(FixHighPorts(t))
      BY <1>1, FixedInForm
    <3>4. t.option = {} => ~HasHighPorts(t)
      BY DEF HasHighPorts, Established
    <3> QED
      BY <2>1, <3>1, <3>2, <3>3, <3>4, FieldsAre
  <2>2. CASE Platform \notin FixesPorts
    <3>1. r.term = t
      BY <2>2, TranslatedIs
    <3> QED
      BY <1>1, <2>2, <3>1
  <2> QED
    BY <2>1, <2>2
<1>3. Keywords(r) \subseteq Keywords(e) \cup {"destination_port"}
  <2>1. r.keywords = e.keywords
    BY TranslatedIs
  <2> QED
    BY <1>2, <2>1, FieldsAre DEF Keywords
<1>4. \A platform : ActiveOn(r.term, platform) <=> ActiveOn(t, platform)
  <2>1. r.term.platform = t.platform /\ r.term.platform_exclude = t.platform_exclude
    BY <1>2 DEF TermFields
  <2> QED
    BY <2>1 DEF ActiveOn
<1> QED
  BY <1>2, <1>3, <1>4

\* A name is short, or refused.
LEMMA ShortOrNone ==
  ASSUME NEW name, NEW a, NEW t, FixTermLength(name, a, t) # NONE
  PROVE  FixTermLength(name, a, t) \in ShortNames
BY DEF FixTermLength

\* A translated entry that is not refused is prepared for its platform.
LEMMA TranslatedPrepared ==
  ASSUME NEW e, EntryInForm(e), NEW list, Stays(e), ~TranslateRefused(e, list),
         ActiveOn(e.term, Platform) /\ Platform # "ciscoasa" =>
           Keywords(e) \subseteq RequiredKeywords \cup PlatformKeywords(Platform)
  PROVE  Prepared(Translated(e, list), list)
<1> DEFINE r == Translated(e, list)
<1>1. /\ TermInForm(r.term)
      /\ Keywords(r) \subseteq Keywords(e) \cup {"destination_port"}
      /\ e.term.option = {} => r.term = e.term
      /\ Platform \in FixesPorts => HighPortsAdded(r.term)
      /\ Platform \notin FixesPorts => r.term = e.term
      /\ ActiveOn(r.term, Platform) <=> ActiveOn(e.term, Platform)
  BY TranslatedTerm
<1>2. r.name = NameOf(e, list.options) /\ r.keywords = e.keywords
  BY TranslatedIs
<1> HIDE DEF r
<1>3. ActiveOn(r.term, Platform) /\ Platform # "ciscoasa" =>
        Keywords(r) \subseteq RequiredKeywords \cup PlatformKeywords(Platform)
  <2>1. "destination_port" \in RequiredKeywords
    BY DEF RequiredKeywords
  <2> QED
    BY <1>1, <2>1
<1>4. Platform = "cisco" /\ list.type = "standard" => ~StandardRefuses(r)
  <2> SUFFICES ASSUME Platform = "cisco", list.type = "standard" PROVE ~StandardRefuses(r)
    OBVIOUS
  <2>1. ~StandardRefuses(e)
    BY DEF TranslateRefused, Stays
  <2>2. "option" \notin Keywords(e)
    BY <2>1 DEF StandardRefuses
  <2>3. DOMAIN e.term = DOMAIN EmptyTerm /\ "option" \in DOMAIN EmptyTerm
    BY TermIs, FieldsAre DEF EntryInForm, TermFields
  <2>4. e.term.option = {}
    BY <2>2, <2>3, EmptyTermIs DEF Keywords
  <2>5. r.term = e.term /\ Keywords(r) = Keywords(e)
    BY <1>1, <1>2, <2>4 DEF Keywords
  <2> QED
    BY <1>2, <2>1, <2>5 DEF StandardRefuses
<1>5. Platform = "srx" => ~SrxTranslateRefuses(r.term)
  <2> SUFFICES ASSUME Platform = "srx" PROVE ~SrxTranslateRefuses(r.term)
    OBVIOUS
  <2>1. Platform \notin FixesPorts
    BY DEF FixesPorts, IptablesFamily
  <2> QED
    BY <1>1, <2>1 DEF TranslateRefused
<1>6. Platform # "ciscoasa" => r.name \in ShortNames
  <2> SUFFICES ASSUME Platform # "ciscoasa" PROVE r.name \in ShortNames
    OBVIOUS
  <2>1. NameOf(e, list.options) # NONE
    BY DEF TranslateRefused
  <2> QED
    BY <1>2, <2>1, ShortOrNone DEF NameOf
<1> QED
  BY <1>1, <1>3, <1>4, <1>5, <1>6, Zenon DEF Prepared, FixesPorts, r

-----------------------------------------------------------------------------
(* Every list fits its platform, and its entries are prepared               *)

Fitting ==
  /\ BookHolds(carried.book)
  /\ Platform = "packetfilter" => carried.family \in PacketFilterFamilies \cup {NONE}
  /\ \A l \in DOMAIN lists : TypeFits(lists[l])
  /\ \A l \in DOMAIN lists : \A k \in DOMAIN lists[l].entries :
       Prepared(lists[l].entries[k], lists[l]) /\ Booked(lists[l].entries[k], lists[l])

\* There are no lists at first.
LEMMA FittingInit == Init => Fitting
<1> SUFFICES ASSUME Init PROVE Fitting
  OBVIOUS
<1>1. DOMAIN lists = {} /\ carried.book = {} /\ carried.family = NONE
  BY EmptyIsSeq DEF Init
<1> QED
  BY <1>1 DEF Fitting, BookHolds

\* What is booked stays booked.
LEMMA BookedGrows ==
  ASSUME job' = job, carried.apps \subseteq carried'.apps, carried.book \subseteq carried'.book
  PROVE  \A e, list : Booked(e, list) => Booked(e, list)'
BY JobKept DEF Booked

\* They depend on the settings of the list only.
LEMMA SameSettings ==
  ASSUME NEW list, NEW m, m.type = list.type, m.options = list.options
  PROVE  /\ \A e : Prepared(e, list) => Prepared(e, m)
         /\ \A e : Booked(e, list) => Booked(e, m)
BY Zenon DEF Prepared, Booked

\* Steps that change no list.
LEMMA FittingSame ==
  ASSUME Fitting, UNCHANGED <<job, carried, lists>>
  PROVE  Fitting'
<1>1. job' = job /\ carried' = carried /\ lists' = lists
  OBVIOUS
<1>2. \A e, list : Booked(e, list) => Booked(e, list)'
  BY <1>1, BookedGrows
<1> QED
  BY <1>1, <1>2, JobKept DEF Fitting

\* A list that is begun fits its platform.
LEMMA TypesFit ==
  ASSUME GTyped, Fitting, Begun, NEW k \in DOMAIN TypesOf(Target(fi).options),
         NEW stateful \in BOOLEAN, stateful => Platform \in IptablesFamily, NEW default
  PROVE  TypeFits(NewList(fi, TypesOf(Target(fi).options)[k], stateful, default))
<1> DEFINE options == Target(fi).options
           type == TypesOf(options)[k]
           list == NewList(fi, type, stateful, default)
<1>1. list.type = type /\ list.entries = <<>> /\ list.stateful = stateful
  BY DEF NewList
<1>2. ~OptionsRefused(Target(fi).name, options) /\ (Targeted(fi) \/ Platform = "ciscoasa")
  BY DEF Begun
<1>3. Platform \in Platforms
  BY FilterIs DEF Begun, JobHolds
<1> SUFFICES TypeFits(list)
  OBVIOUS
<1> HIDE DEF list, type
<1>4. CASE Platform \in IptablesFamily
  <2>1. TypesOf(options) = <<IF IptablesVersion(options) = 6 THEN "inet6" ELSE "inet">>
    BY <1>4 DEF TypesOf, IptablesFamily
  <2>2. type \in {"inet", "inet6"}
    BY <2>1 DEF type
  <2> QED
    BY <1>1, <1>4, <2>2 DEF TypeFits, IptablesFamily
<1>5. CASE Platform = "cisco"
  <2>1. TypesOf(options) = CiscoPasses(options) /\ CiscoType(options) \in CiscoTypes
    BY <1>2, <1>5 DEF TypesOf, OptionsRefused, CiscoOptionsRefused, IptablesFamily
  <2>2. type \in {"extended", "standard", "object-group", "inet6"}
    <3>1. CASE CiscoType(options) = "mixed"
      <4>1. TypesOf(options) = <<"extended", "inet6">>
        BY <2>1, <3>1 DEF CiscoPasses
      <4> QED
        BY <4>1 DEF type
    <3>2. CASE CiscoType(options) # "mixed"
      <4>1. TypesOf(options) = <<CiscoType(options)>>
        BY <2>1, <3>2 DEF CiscoPasses
      <4> QED
        BY <2>1, <3>2, <4>1 DEF CiscoTypes, type
    <3> QED
      BY <3>1, <3>2
  <2> QED
    BY <1>1, <1>5, <2>2 DEF TypeFits, IptablesFamily
<1>6. CASE Platform = "packetfilter"
  <2>1. /\ TypesOf(options) = <<PacketFilterFamily(carried.family, options)>>
        /\ ~PacketFilterOptionsRefused(carried.family, options)
    BY <1>2, <1>6 DEF TypesOf, OptionsRefused, IptablesFamily
  <2>2. options # <<>> => options[1] \in PacketFilterFamilies
    <3>1. options \in Seq(STRING)
      BY <1>2, <1>6, FilterIs DEF Begun, JobHolds
    <3>2. options # <<>> => 1 \in DOMAIN options
      BY <3>1
    <3>3. Range(options) \subseteq PacketFilterFamilies
      BY <2>1 DEF PacketFilterOptionsRefused
    <3> QED
      BY <3>2, <3>3 DEF Range
  <2>3. PacketFilterFamily(carried.family, options) \in PacketFilterFamilies
    BY <1>6, <2>2 DEF PacketFilterFamily, Fitting, PacketFilterFamilies
  <2>4. type \in PacketFilterFamilies
    BY <2>1, <2>3 DEF type
  <2> QED
    BY <1>1, <1>6, <2>4 DEF TypeFits, IptablesFamily
<1>7. CASE Platform \in {"juniper", "ciscoasa", "srx"}
  <2>1. Platform # "juniper" => TypesOf(options) = <<"inet">>
    BY <1>7 DEF TypesOf, IptablesFamily
  <2>2. Platform # "juniper" => type = "inet"
    BY <2>1 DEF type
  <2> QED
    BY <1>1, <1>7, <2>2 DEF TypeFits, IptablesFamily
<1> QED
  BY <1>3, <1>4, <1>5, <1>6, <1>7 DEF Platforms, IptablesFamily

\* A filter that is begun,
LEMMA FittingBegun ==
  ASSUME GTyped, Fitting, Begun
  PROVE  Fitting'
<1>1. job' = job /\ IsCarried(carried) /\ carried' = CarriedOver(Target(fi).name, Target(fi).options)
  BY DEF Begun, GTyped
<1>2. /\ IsCarried(carried')
      /\ carried'.book = carried.book /\ carried'.apps = carried.apps
      /\ Platform = "packetfilter" =>
           carried'.family = PacketFilterFamily(carried.family, Target(fi).options)
  BY <1>1, CarriedOverIs
<1>3. \A e, list : Booked(e, list) => Booked(e, list)'
  BY <1>1, <1>2, BookedGrows
<1> DEFINE types == TypesOf(Target(fi).options)
           stateful == Platform \in IptablesFamily /\ carried'.stateful
<1>4. stateful \in BOOLEAN /\ (stateful => Platform \in IptablesFamily)
  BY <1>2 DEF IsCarried
<1>5. IsSeq(types) /\ Len(types) \in 1..2
  BY DEF Begun
<1> HIDE DEF types, stateful
<1>6. ASSUME NEW l \in DOMAIN lists'
      PROVE  \/ l \in DOMAIN lists /\ lists'[l] = lists[l]
             \/ \E k \in DOMAIN types :
                  lists'[l] = NewList(fi, types[k], stateful, carried'.default)
  <2>1. Len(lists) \in Nat /\ DOMAIN lists = 1..Len(lists) /\ IsSeq(lists')
    BY Numbered DEF Begun
  <2>2. l \in Nat /\ l >= 1
    BY <2>1, IsSeqGives
  <2>3. CASE l <= Len(lists)
    <3>1. l \in 1..Len(lists)
      BY <2>1, <2>2, <2>3
    <3> QED
      BY <2>1, <3>1 DEF Begun
  <2>4. CASE l > Len(lists)
    BY <2>4 DEF Begun, types, stateful
  <2> QED
    BY <2>1, <2>2, <2>3, <2>4
<1>7. \A k \in DOMAIN types : TypeFits(NewList(fi, types[k], stateful, carried'.default))
  BY <1>4, TypesFit DEF types
<1>8. \A l \in DOMAIN lists' : TypeFits(lists'[l])
  BY <1>6, <1>7 DEF Fitting
<1>9. ASSUME NEW l \in DOMAIN lists', NEW k \in DOMAIN lists'[l].entries
      PROVE  Prepared(lists'[l].entries[k], lists'[l]) /\ Booked(lists'[l].entries[k], lists'[l])
  <2>1. lists'[l] = lists[l] /\ l \in DOMAIN lists
    <3>1. SUFFICES ASSUME NEW type, NEW default, lists'[l] = NewList(fi, type, stateful, default)
                   PROVE  FALSE
      BY <1>6
    <3>2. lists'[l].entries = <<>>
      BY <3>1 DEF NewList
    <3> QED
      BY <3>2, EmptyIsSeq
  <2> QED
    BY <2>1 DEF Fitting
<1>10. Platform = "packetfilter" => carried'.family \in PacketFilterFamilies
  <2> SUFFICES ASSUME Platform = "packetfilter" PROVE carried'.family \in PacketFilterFamilies
    OBVIOUS
  <2>1. TypesOf(Target(fi).options) = <<PacketFilterFamily(carried.family, Target(fi).options)>>
    BY DEF TypesOf, IptablesFamily
  <2>2. 1 \in DOMAIN types /\ types[1] = PacketFilterFamily(carried.family, Target(fi).options)
    BY <2>1 DEF types
  <2>3. TypeFits(NewList(fi, types[1], stateful, carried'.default))
    BY <1>7, <2>2
  <2> QED
    BY <1>2, <2>2, <2>3 DEF TypeFits, NewList
<1> QED
  BY <1>1, <1>2, <1>3, <1>8, <1>9, <1>10, JobKept DEF Fitting, BookHolds

\* The book holds networks.
LEMMA BookKept ==
  ASSUME NEW book, BookHolds(book), NEW t, TermInForm(t), NEW zones
  PROVE  BookHolds(AddToBook(book, t, zones))
<1>1. SrxSource(t) \in Seq(SrxAddresses) /\ SrxDestination(t) \in Seq(SrxAddresses)
  BY TermIs, SrxSideHolds DEF SrxSource, SrxDestination
<1>2. \A listed \in Seq(SrxAddresses) : \A zone : \A b \in Entries(zone, listed) : b.net \in Networks
  <2> TAKE listed \in Seq(SrxAddresses)
  <2> TAKE zone
  <2> TAKE b \in Entries(zone, listed)
  <2>1. PICK k \in DOMAIN listed : b = [zone |-> zone, token |-> listed[k].token, net |-> listed[k].net]
    BY DEF Entries
  <2>2. listed[k] \in SrxAddresses
    OBVIOUS
  <2> QED
    BY <2>1, <2>2 DEF SrxAddresses
<1> QED
  BY <1>1, <1>2 DEF BookHolds, AddToBook

\* The entries of the list that is filled.
LEMMA MovedEntries ==
  ASSUME GTyped, Moved, NEW e, e = Filters[fi].entries[ti],
         NEW old, old = lists[li].entries, NEW new, new = lists'[li].entries
  PROVE  /\ Len(old) \in Nat /\ DOMAIN old = 1..Len(old)
         /\ \A k \in DOMAIN old : k \in DOMAIN new /\ new[k] = old[k]
         /\ ~Stays(e) => new = old
         /\ Stays(e) =>
              /\ DOMAIN new = 1..(Len(old) + 1)
              /\ new[Len(old) + 1] = Translated(e, lists[li])
         /\ \A k \in DOMAIN new : k \in DOMAIN old \/ (Stays(e) /\ k = Len(old) + 1)
<1>1. li \in DOMAIN lists /\ IsList(lists[li])
  BY DEF Moved, GTyped
<1>2. IsSeq(old)
  BY <1>1 DEF IsList
<1>3. Len(old) \in Nat /\ DOMAIN old = 1..Len(old)
  BY <1>2, IsSeqGives
<1>4. new = IF Stays(e) THEN Append(old, Translated(e, lists[li])) ELSE old
  BY DEF Moved, Refilled
<1>5. CASE Stays(e)
  <2>1. IsAppended(new, old, Translated(e, lists[li]))
    BY <1>4, <1>5 DEF IsAppended
  <2>2. /\ DOMAIN new = 1..(Len(old) + 1) /\ new[Len(old) + 1] = Translated(e, lists[li])
        /\ \A k \in 1..Len(old) : new[k] = old[k]
    BY <1>2, <2>1, AppendIs
  <2>3. \A k : k \in 1..(Len(old) + 1) <=> k \in 1..Len(old) \/ k = Len(old) + 1
    BY <1>3
  <2> QED
    BY <1>3, <1>5, <2>2, <2>3
<1>6. CASE ~Stays(e)
  BY <1>3, <1>4, <1>6
<1> QED
  BY <1>5, <1>6

\* the entry that is added,
LEMMA MovedEntry ==
  ASSUME GTyped, Progress, Moved, NEW e, e = Filters[fi].entries[ti], Stays(e)
  PROVE  Prepared(Translated(e, lists[li]), lists[li])
<1>1. EntryInForm(e) /\ fi \in DOMAIN Filters /\ e \in Range(Filters[fi].entries)
  BY FilterIs DEF Moved, JobHolds
<1>2. ~TranslateRefused(e, lists[li])
  BY DEF Moved
<1>3. Targeted(fi) \/ Platform = "ciscoasa"
  <2>1. li \in DOMAIN lists /\ lists[li].filter = fi
    BY Numbered DEF Progress, Moved, Translating
  <2> QED
    BY <2>1 DEF GTyped, IsList
<1>4. Acceptable
  BY DEF Progress, Moved, Translating
<1>5. ActiveOn(e.term, Platform) /\ Platform # "ciscoasa" =>
        Keywords(e) \subseteq RequiredKeywords \cup PlatformKeywords(Platform)
  BY <1>1, <1>3, <1>4 DEF Acceptable, UnsupportedKeywords
<1> QED
  BY <1>1, <1>2, <1>5, TranslatedPrepared

\* and the list it is added to.
LEMMA FittingMoved ==
  ASSUME GTyped, Progress, Fitting, Moved
  PROVE  Fitting'
<1> DEFINE list == lists[li]
           new == lists'[li]
           e == Filters[fi].entries[ti]
           r == Translated(e, list)
<1>1. /\ job' = job /\ li \in DOMAIN lists /\ DOMAIN lists' = DOMAIN lists
      /\ \A l \in DOMAIN lists : l # li => lists'[l] = lists[l]
      /\ new.type = list.type /\ new.options = list.options /\ new.stateful = list.stateful
      /\ EntryInForm(e)
  BY FilterIs DEF Moved, Refilled
<1>2. /\ carried'.family = carried.family
      /\ Platform # "srx" => carried'.book = carried.book /\ carried'.apps = carried.apps
      /\ Platform = "srx" =>
           /\ carried'.book = AddToBook(carried.book, e.term, SrxZones(list.options))
           /\ carried'.apps = carried.apps \cup {Application(NameOf(e, list.options), e.term)}
  BY DEF Moved
<1>3. BookHolds(carried'.book)
  <2>1. TermInForm(e.term)
    BY <1>1 DEF EntryInForm
  <2> QED
    BY <1>2, <2>1, BookKept DEF Fitting
<1>4. \A x, m : Booked(x, m) => Booked(x, m)'
  <2>1. carried.apps \subseteq carried'.apps /\ carried.book \subseteq carried'.book
    BY <1>2 DEF AddToBook
  <2> QED
    BY <1>1, <2>1, BookedGrows
<1>5. \A x, m : Stays(e) /\ x = r /\ m.options = list.options => Booked(x, m)'
  <2>1. Platform' = Platform
    BY <1>1, JobKept
  <2>2. CASE Platform # "srx"
    BY <2>1, <2>2 DEF Booked
  <2>3. CASE Platform = "srx"
    <3>1. r.term = e.term /\ r.name = NameOf(e, list.options)
      <4>1. Platform \notin FixesPorts
        BY <2>3 DEF FixesPorts, IptablesFamily
      <4> QED
        BY <1>1, <4>1, TranslatedIs
    <3>2. Application(r.name, r.term) \in carried'.apps
      BY <1>2, <2>3, <3>1
    <3>3. /\ Entries(SrxZones(list.options).from, SrxSource(r.term)) \subseteq carried'.book
          /\ Entries(SrxZones(list.options).to, SrxDestination(r.term)) \subseteq carried'.book
      BY <1>2, <2>3, <3>1 DEF AddToBook
    <3> HIDE DEF r, list
    <3> QED
      BY <3>2, <3>3 DEF Booked
  <2> QED
    BY <2>2, <2>3
<1>6. Stays(e) => Prepared(r, list) /\ (Platform = "juniper" => list.type \in JuniperTypes)
  BY MovedEntry DEF Moved, TranslateRefused
<1>7. /\ \A k \in DOMAIN new.entries :
           \/ k \in DOMAIN list.entries /\ new.entries[k] = list.entries[k]
           \/ Stays(e) /\ new.entries[k] = r
      /\ ~Stays(e) => new.entries = list.entries
  BY MovedEntries
<1> HIDE DEF list, new, r
<1>8. TypeFits(new)
  <2>1. new.entries # <<>> => list.entries # <<>> \/ Stays(e)
    BY <1>7
  <2>2. TypeFits(list)
    BY <1>1 DEF Fitting, list
  <2> QED
    BY <1>1, <1>6, <2>1, <2>2 DEF TypeFits
<1>9. ASSUME NEW l \in DOMAIN lists', NEW k \in DOMAIN lists'[l].entries
      PROVE  /\ Prepared(lists'[l].entries[k], lists'[l])
             /\ \A x, m : x = lists'[l].entries[k] /\ m = lists'[l] => Booked(x, m)'
  <2>1. CASE l # li
    <3>1. lists'[l] = lists[l] /\ l \in DOMAIN lists
      BY <1>1, <2>1
    <3> QED
      BY <1>4, <3>1 DEF Fitting
  <2>2. CASE l = li
    <3>1. k \in DOMAIN new.entries
      BY <2>2 DEF new
    <3>2. CASE k \in DOMAIN list.entries /\ new.entries[k] = list.entries[k]
      <4>1. Prepared(list.entries[k], list) /\ Booked(list.entries[k], list)
        BY <1>1, <3>2 DEF Fitting, list
      <4>2. Prepared(new.entries[k], new) /\ Booked(new.entries[k], new)
        BY <1>1, <3>2, <4>1, SameSettings
      <4> QED
        BY <1>4, <2>2, <4>2 DEF new
    <3>3. CASE Stays(e) /\ new.entries[k] = r
      <4>1. Prepared(new.entries[k], new)
        BY <1>1, <1>6, <3>3, SameSettings
      <4> QED
        BY <1>5, <1>1, <2>2, <3>3, <4>1 DEF new
    <3> QED
      BY <1>7, <3>1, <3>2, <3>3
  <2> QED
    BY <2>1, <2>2
<1>10. \A l \in DOMAIN lists' : TypeFits(lists'[l])
  BY <1>1, <1>8 DEF Fitting, new
<1>11. Platform = "packetfilter" => carried'.family \in PacketFilterFamilies \cup {NONE}
  BY <1>2 DEF Fitting
<1>12. (\A l \in DOMAIN lists : TypeFits(lists[l]))'
  BY <1>1, <1>10, JobKept
<1>13. ASSUME NEW l \in DOMAIN lists', NEW k \in DOMAIN lists'[l].entries
       PROVE  (Prepared(lists[l].entries[k], lists[l]) /\ Booked(lists[l].entries[k], lists[l]))'
  BY <1>1, <1>9, JobKept
<1> QED
  BY <1>1, <1>3, <1>11, <1>12, <1>13, JobKept DEF Fitting, BookHolds

-----------------------------------------------------------------------------
(* What is rendered *)

\* A term is rendered.
BlockOf(l, e) ==
  [list |-> l, entry |-> e, action |-> ActionWritten(e), reject |-> carried.reject,
   except |-> Rendered(e, lists[l]).except, rules |-> Rendered(e, lists[l]).rules]

Wrote ==
  /\ phase = "render" /\ li \in DOMAIN lists /\ li <= ListsWritten
  /\ ti \in DOMAIN lists[li].entries
  /\ ~RenderRefused(lists[li].entries[ti], lists[li])
  /\ IsAppended(output', output, BlockOf(li, lists[li].entries[ti]))
  /\ ti' = ti + 1
  /\ UNCHANGED <<job, phase, fi, li, carried, lists>>

\* The lists that are written are lists.
LEMMA WrittenLists ==
  ASSUME GTyped, Progress, phase \in {"render", "done"}
  PROVE  ListsWritten \in Nat /\ 1..ListsWritten \subseteq DOMAIN lists
<1>1. Len(lists) \in Nat /\ DOMAIN lists = 1..Len(lists)
  BY Numbered
<1>2. Platform = "ciscoasa" => Len(lists) > 0
  <2>1. IsSeq(lists)
    BY DEF GTyped
  <2>2. lists # <<>> => Len(lists) # 0
    BY <2>1 DEF IsSeq
  <2> QED
    BY <1>1, <2>2 DEF Progress
<1> QED
  BY <1>1, <1>2 DEF ListsWritten

\* A term is written or refused.
LEMMA RenderWrites ==
  ASSUME GTyped, Progress, RenderTerm
  PROVE  Refuse \/ Wrote
<1>1. li \in DOMAIN lists
  <2>1. phase = "render" /\ li <= ListsWritten
    BY DEF RenderTerm
  <2> QED
    BY <2>1, WrittenLists, Numbered
<1>2. ti \in DOMAIN lists[li].entries
  <2>1. ti <= Len(lists[li].entries)
    BY DEF RenderTerm
  <2>2. IsSeq(lists[li].entries)
    BY <1>1 DEF GTyped, IsList
  <2> QED
    BY <2>1, <2>2, Numbered, IsSeqGives
<1> QED
  BY <1>1, <1>2 DEF RenderTerm, Wrote, BlockOf, IsAppended

\* Every step is one of these.
LEMMA StepIs ==
  ASSUME GTyped, Progress, [Next]_vars
  PROVE  Begun \/ Moved \/ Wrote \/ UNCHANGED <<job, carried, lists, output>>
<1>1. StartFilter => Refuse \/ Begun
  BY StartBegins
<1>2. TranslateTerm => Refuse \/ Moved
  BY TranslateMoves
<1>3. RenderTerm => Refuse \/ Wrote
  BY RenderWrites
<1> QED
  BY <1>1, <1>2, <1>3 DEF Next, Ended, vars, Refuse, CheckKeywords, SkipFilter, FinishList,
     FinishTranslation, NextList, Finish

\* Every step leaves the lists fitting.
LEMMA FittingStep ==
  ASSUME GTyped, Progress, Fitting, [Next]_vars
  PROVE  Fitting'
<1>1. CASE Begun
  BY <1>1, FittingBegun
<1>2. CASE Moved
  BY <1>2, FittingMoved
<1>3. CASE UNCHANGED <<job, carried, lists>>
  BY <1>3, FittingSame
<1> QED
  BY <1>1, <1>2, <1>3, StepIs DEF Wrote

\* Every block is what its term is rendered as, with what is carried now.
IsWritten(b) ==
  /\ b.list \in DOMAIN lists
  /\ b.entry \in Range(lists[b.list].entries)
  /\ ~RenderRefused(b.entry, lists[b.list])
  /\ b.except = Rendered(b.entry, lists[b.list]).except
  /\ b.rules = Rendered(b.entry, lists[b.list]).rules
  /\ b.action = ActionWritten(b.entry)
  /\ b.reject = carried.reject

Written == \A k \in DOMAIN output : IsWritten(output[k])

\* What depends on the job and on what is carried stays.
LEMMA RenderedKept ==
  ASSUME job' = job, carried' = carried
  PROVE  \A e, list : /\ Rendered(e, list)' = Rendered(e, list)
                      /\ RenderRefused(e, list)' <=> RenderRefused(e, list)
                      /\ ActionWritten(e)' = ActionWritten(e)
<1>1. Platform' = Platform
  BY DEF Platform
<1>2. \A list : Version(list)' = Version(list)
  BY DEF Version
<1>3. \A e, list : Rendered(e, list)' = Rendered(e, list)
  BY <1>1, <1>2 DEF Rendered
<1>4. \A e, list : RenderRefused(e, list)' <=> RenderRefused(e, list)
  BY <1>1, <1>2 DEF RenderRefused
<1>5. \A e : ActionWritten(e)' = ActionWritten(e)
  BY <1>1 DEF ActionWritten
<1> QED
  BY <1>3, <1>4, <1>5

\* What has been written stays what it is of.
LEMMA WrittenKept ==
  ASSUME job' = job, carried' = carried, lists' = lists
  PROVE  \A b : IsWritten(b)' <=> IsWritten(b)
BY RenderedKept DEF IsWritten

\* Every block is of an entry of its list.
LEMMA WrittenStep ==
  ASSUME GTyped, Progress, Written, [Next]_vars
  PROVE  Written'
<1>1. CASE Begun \/ Moved
  <2>1. output' = output /\ phase = "translate"
    BY <1>1 DEF Begun, Moved, Translating
  <2>2. output' = <<>>
    BY <2>1 DEF Progress
  <2> QED
    BY <2>2, EmptyIsSeq DEF Written
<1>2. CASE Wrote
  <2> DEFINE e == lists[li].entries[ti]
             b == BlockOf(li, e)
  <2>1. job' = job /\ carried' = carried /\ lists' = lists
    BY <1>2 DEF Wrote
  <2>2. IsWritten(b)
    <3>1. e \in Range(lists[li].entries)
      BY <1>2 DEF Wrote, Range
    <3> QED
      BY <1>2, <3>1 DEF Wrote, BlockOf, IsWritten
  <2>3. \A k \in DOMAIN output' : output'[k] = b \/ (k \in DOMAIN output /\ output'[k] = output[k])
    <3>1. IsSeq(output) /\ IsAppended(output', output, b)
      BY <1>2 DEF GTyped, Wrote
    <3> HIDE DEF b
    <3>2. /\ DOMAIN output' = 1..(Len(output) + 1) /\ output'[Len(output) + 1] = b
          /\ \A k \in 1..Len(output) : output'[k] = output[k]
      BY <3>1, AppendIs
    <3>3. Len(output) \in Nat /\ DOMAIN output = 1..Len(output)
      BY <3>1, IsSeqGives
    <3>4. \A k \in 1..(Len(output) + 1) : k \in 1..Len(output) \/ k = Len(output) + 1
      BY <3>3
    <3> QED
      BY <3>2, <3>3, <3>4
  <2> HIDE DEF b
  <2>4. \A k \in DOMAIN output' : IsWritten(output'[k])
    BY <2>2, <2>3 DEF Written
  <2>5. \A k \in DOMAIN output' : \A x : x = output'[k] => IsWritten(x)'
    BY <2>1, <2>4, WrittenKept
  <2> QED
    BY <2>5 DEF Written
<1>3. CASE UNCHANGED <<job, carried, lists, output>>
  BY <1>3, WrittenKept DEF Written
<1> QED
  BY <1>1, <1>2, <1>3, StepIs

-----------------------------------------------------------------------------
(* Blocks catch what their terms describe *)

GInv == GTyped /\ Progress /\ Fitting /\ Written

\* The inductive invariant of a generator holds at first ...
LEMMA GInvInit == Init => GInv
<1>1. ASSUME Init PROVE Written
  BY <1>1, EmptyIsSeq DEF Init, Written
<1> QED
  BY <1>1, TypedInit, ProgressInit, FittingInit DEF GInv

\* ... and every step keeps it.
LEMMA GInvStep == GInv /\ [Next]_vars => GInv'
BY TypedStep, ProgressStep, FittingStep, WrittenStep DEF GInv

\* The lists a generator fills are of its policy, in their order (Progress), fit
\* the platform (Fitting), and what is written is written of them (Written).
THEOREM GInvIsInvariant == Spec => []GInv
BY GInvInit, GInvStep, PTL DEF Spec

\* The rules of a block catch the packets its term describes and no other ones
\* (the __str__ of the Term classes of lib/), on every platform, for lists, excludes,
\* ports, protocols, options, zones and books of every length and networks of every
\* size.
THEOREM RenderedIsMeant == Spec => []RenderedAsMeant
<1>1. GInv => RenderedAsMeant
  <2> SUFFICES ASSUME GInv, NEW k \in DOMAIN output,
                      AsMeant(output[k].entry, lists[output[k].list]),
                      NEW p \in PacketsOf(lists[output[k].list])
               PROVE  /\ MustCatch(output[k].entry, lists[output[k].list], p) => Catches(output[k], p)
                      /\ Catches(output[k], p) => MayCatch(output[k].entry, lists[output[k].list], p)
    BY Zenon DEF RenderedAsMeant
  <2> DEFINE b == output[k]
             e == b.entry
             list == lists[b.list]
  <2>1. IsWritten(b)
    BY DEF GInv, Written
  <2>2. b.list \in DOMAIN lists /\ e \in Range(list.entries) /\ ~RenderRefused(e, list)
        /\ b.except = Rendered(e, list).except /\ b.rules = Rendered(e, list).rules
    BY <2>1 DEF IsWritten
  <2>3. PICK j \in DOMAIN list.entries : e = list.entries[j]
    BY <2>2 DEF Range
  <2>4. TypeFits(list) /\ Prepared(e, list) /\ Booked(e, list) /\ BookHolds(carried.book)
    BY <2>2, <2>3 DEF GInv, Fitting
  <2>5. list.entries # <<>>
    BY <2>3, EmptyIsSeq
  <2>6. Platform \in Platforms
    BY JobIs DEF GInv, GTyped, JobHolds
  <2>7. PacketInForm(p)
    BY GeneratorsAssumption DEF PacketsOf
  <2>8. About(e, list, p)
    BY <2>2, <2>4, <2>5, <2>6, <2>7 DEF About
  <2> QED
    BY <2>2, <2>8, BlockAnswers
<1> QED
  BY <1>1, GInvIsInvariant, PTL

-----------------------------------------------------------------------------
(* Settings that reach further *)

\* A finite set of numbers has a greatest one.
LEMMA GreatestOf ==
  ASSUME NEW n \in Nat, NEW S, S \subseteq 1..n, S # {}
  PROVE  Max(S) \in S /\ \A k \in S : k <= Max(S)
<1> DEFINE T == {n - k : k \in S}
<1>1. T \subseteq Nat /\ T # {}
  <2>1. \A k \in S : n - k \in Nat
    OBVIOUS
  <2> QED
    BY <2>1, Zenon
<1>2. PICK least \in T : \A m \in T : least <= m
  BY <1>1, LeastNumber
<1>3. PICK x \in S : least = n - x
  BY <1>2
<1>4. \A k \in S : k <= x
  <2> TAKE k \in S
  <2>1. n - k \in T
    OBVIOUS
  <2>2. least <= n - k /\ k \in Nat /\ x \in Nat
    BY <1>2, <2>1
  <2> QED
    BY <1>3, <2>2
<1>5. Max(S) = CHOOSE z \in S : \A y \in S : z >= y
  BY DEF Max
<1>6. x \in S /\ \A y \in S : x >= y
  BY <1>3, <1>4
<1>7. Max(S) \in S /\ \A y \in S : Max(S) >= y
  BY <1>5, <1>6
<1> QED
  BY <1>7

\* The targets of the first n filters.
TargetsTo(n) == {Target(g) : g \in {h \in 1..n : Targeted(h)}}

StateIs(stateful, n) ==
  stateful <=> Platform \in IptablesFamily /\ ~\E t \in TargetsTo(n) : "nostate" \in Range(t.options)

DefaultIs(default, n) ==
  Platform \in IptablesFamily =>
    (default # NONE <=>
       \E t \in TargetsTo(n) :
         \/ "ACCEPT" \in Range(t.options) \/ "DROP" \in Range(t.options)
         \/ Platform = "iptables" /\ t.name = "FORWARD")

\* The settings of a list are those of the targets up to its own.
Reaches(list) ==
  /\ StateIs(list.stateful, list.filter)
  /\ DefaultIs(list.default, list.filter)
  /\ Platform \in IptablesFamily =>
       /\ list.type = "inet6" <=> "inet6" \in Range(list.options)
       /\ {"ACCEPT", "DROP"} \cap Range(list.options) # {} => list.default \in Range(list.options)
  /\ Platform = "packetfilter" /\ Range(list.options) # {} => list.type \in Range(list.options)

\* The filters whose options have been taken in.
Settled == IF phase = "translate" /\ ~Fresh THEN fi ELSE fi - 1

Settings ==
  phase \in {"check", "translate"} =>
    /\ Platform \in IptablesFamily => StateIs(carried.stateful, Settled)
    /\ DefaultIs(carried.default, Settled)
    /\ Platform = "packetfilter" =>
         carried.family = IF lists = <<>> THEN NONE ELSE lists[1].type

\* The table of actions answers as the last list that is not empty asks.
Answering == Platform \in IptablesFamily /\ Made # {} => carried.reject = lists[Max(Made)].type

Reach ==
  /\ Settings
  /\ \A l \in DOMAIN lists : Reaches(lists[l])
  /\ \A l \in DOMAIN lists : Platform = "packetfilter" => lists[l].type = lists[1].type
  /\ Answering

\* The targets depend on the job alone.
LEMMA TargetsKept ==
  ASSUME job' = job
  PROVE  /\ \A n : TargetsTo(n)' = TargetsTo(n)
         /\ \A s, n : StateIs(s, n)' <=> StateIs(s, n)
         /\ \A d, n : DefaultIs(d, n)' <=> DefaultIs(d, n)
         /\ \A list : Reaches(list)' <=> Reaches(list)
<1>1. Platform' = Platform /\ \A n : TargetsTo(n)' = TargetsTo(n)
  BY JobKept DEF TargetsTo
<1>2. \A s, n : StateIs(s, n)' <=> StateIs(s, n)
  BY <1>1 DEF StateIs
<1>3. \A d, n : DefaultIs(d, n)' <=> DefaultIs(d, n)
  BY <1>1 DEF DefaultIs
<1> QED
  BY <1>1, <1>2, <1>3 DEF Reaches

\* One filter more.
LEMMA TargetsGrow ==
  ASSUME NEW n \in Nat \ {0}
  PROVE  /\ Targeted(n) => TargetsTo(n) = TargetsTo(n - 1) \cup {Target(n)}
         /\ ~Targeted(n) => TargetsTo(n) = TargetsTo(n - 1)
<1>1. 1..n = 1..(n - 1) \cup {n}
  OBVIOUS
<1>2. \A h : h \in 1..n <=> h \in 1..(n - 1) \/ h = n
  BY <1>1
<1> QED
  BY <1>2, Zenon DEF TargetsTo

\* Nothing has been named at first.
LEMMA ReachInit == Init => Reach
<1> SUFFICES ASSUME Init PROVE Reach
  OBVIOUS
<1>1. /\ phase = "check" /\ fi = 1 /\ lists = <<>> /\ DOMAIN lists = {}
      /\ carried.stateful = TRUE /\ carried.default = NONE /\ carried.family = NONE
  BY EmptyIsSeq DEF Init
<1>2. Settled = 0
  BY <1>1 DEF Settled
<1>3. TargetsTo(0) = {}
  BY DEF TargetsTo
<1>4. Settings
  BY <1>1, <1>2, <1>3 DEF Settings, StateIs, DefaultIs
<1>5. Made = {}
  BY <1>1 DEF Made
<1> QED
  BY <1>1, <1>4, <1>5 DEF Reach, Answering

\* Where nothing but the place in the translation changes.
LEMMA ReachSame ==
  ASSUME Reach, UNCHANGED <<job, carried, lists>>,
         phase' \in {"check", "translate"} =>
           phase \in {"check", "translate"} /\ TargetsTo(Settled') = TargetsTo(Settled)
  PROVE  Reach'
<1>1. job' = job /\ carried' = carried /\ lists' = lists /\ Platform' = Platform
  BY JobKept
<1>2. Settings'
  <2>1. SUFFICES ASSUME phase' \in {"check", "translate"}
                 PROVE  /\ Platform \in IptablesFamily => StateIs(carried.stateful, Settled')
                        /\ DefaultIs(carried.default, Settled')
                        /\ Platform = "packetfilter" =>
                             carried.family = IF lists = <<>> THEN NONE ELSE lists[1].type
    BY <1>1, TargetsKept DEF Settings
  <2>2. Settings /\ phase \in {"check", "translate"} /\ TargetsTo(Settled') = TargetsTo(Settled)
    BY <2>1 DEF Reach
  <2>3. /\ StateIs(carried.stateful, Settled') <=> StateIs(carried.stateful, Settled)
        /\ DefaultIs(carried.default, Settled') <=> DefaultIs(carried.default, Settled)
    BY <2>2 DEF StateIs, DefaultIs
  <2> QED
    BY <2>2, <2>3 DEF Settings
<1>3. Made' = Made /\ (Answering' <=> Answering)
  BY <1>1 DEF Made, Answering
<1> QED
  BY <1>1, <1>2, <1>3, TargetsKept DEF Reach

\* How a header changes the state and the default action of what follows.
LEMMA StateBegun ==
  ASSUME GTyped, Begun, Reach, Platform \in IptablesFamily
  PROVE  LET t == Target(fi) IN
         /\ StateIs(carried'.stateful, fi) /\ DefaultIs(carried'.default, fi)
         /\ {"ACCEPT", "DROP"} \cap Range(t.options) # {} => carried'.default \in Range(t.options)
<1> DEFINE t == Target(fi)
           options == t.options
           actions == Those(options, {"ACCEPT", "DROP"})
<1>1. /\ Translating /\ phase = "translate" /\ Fresh /\ carried' = CarriedOver(t.name, options)
      /\ IsCarried(carried) /\ fi \in Nat \ {0}
  BY DEF Begun, Translating, GTyped
<1>2. Platform # "ciscoasa" /\ Targeted(fi)
  BY DEF IptablesFamily, Begun
<1>3. options \in Seq(STRING)
  BY <1>1, <1>2, FilterIs DEF JobHolds
<1>4. TargetsTo(fi) = TargetsTo(fi - 1) \cup {t}
  BY <1>1, <1>2, TargetsGrow
<1>5. StateIs(carried.stateful, fi - 1) /\ DefaultIs(carried.default, fi - 1)
  BY <1>1 DEF Reach, Settings, Settled
<1>6. /\ carried'.stateful <=> carried.stateful /\ "nostate" \notin Range(options)
      /\ carried'.default = IptablesState(carried, Platform, t.name, options).default
  BY <1>1, CarriedOverIs
<1>7. actions \in Seq(STRING) /\ Range(actions) = Range(options) \cap {"ACCEPT", "DROP"}
  BY <1>3, ThoseHolds
<1>8. carried'.default = IF actions # <<>> THEN Last(actions)
                         ELSE IF Platform = "iptables" /\ t.name = "FORWARD" THEN "DROP"
                         ELSE carried.default
  BY <1>6 DEF IptablesState
<1> HIDE DEF actions
<1>9. /\ actions # <<>> => Last(actions) \in Range(options) \cap {"ACCEPT", "DROP"}
      /\ actions = <<>> => Range(options) \cap {"ACCEPT", "DROP"} = {}
  <2>1. actions # <<>> => Len(actions) \in DOMAIN actions
    BY <1>7
  <2>2. actions # <<>> => Last(actions) \in Range(actions)
    BY <2>1 DEF Last, Range
  <2>3. actions = <<>> => Range(actions) = {}
    BY DEF Range
  <2> QED
    BY <1>7, <2>2, <2>3
<1>10. NONE # "ACCEPT" /\ NONE # "DROP"
  BY GeneratorsAssumption
<1>11. StateIs(carried'.stateful, fi)
  BY <1>4, <1>5, <1>6 DEF StateIs
<1> HIDE DEF t
<1>12. DefaultIs(carried'.default, fi)
  <2> DEFINE Names(x) == \/ "ACCEPT" \in Range(x.options) \/ "DROP" \in Range(x.options)
                         \/ Platform = "iptables" /\ x.name = "FORWARD"
  <2>1. carried.default # NONE <=> \E x \in TargetsTo(fi - 1) : Names(x)
    BY <1>5 DEF DefaultIs
  <2>2. (\E x \in TargetsTo(fi) : Names(x)) <=> Names(t) \/ \E x \in TargetsTo(fi - 1) : Names(x)
    BY <1>4
  <2>3. Names(t) <=> actions # <<>> \/ (Platform = "iptables" /\ t.name = "FORWARD")
    BY <1>9
  <2> HIDE DEF Names
  <2>4. carried'.default # NONE <=> \E x \in TargetsTo(fi) : Names(x)
    BY <1>8, <1>9, <1>10, <2>1, <2>2, <2>3
  <2> QED
    BY <2>4 DEF DefaultIs, Names
<1>13. {"ACCEPT", "DROP"} \cap Range(options) # {} => carried'.default \in Range(options)
  BY <1>8, <1>9
<1> QED
  BY <1>11, <1>12, <1>13 DEF t

\* The family of pf stays that of the first filter.
LEMMA FamilyBegun ==
  ASSUME GTyped, Fitting, Begun, Reach, Platform = "packetfilter"
  PROVE  \A l \in DOMAIN lists' : lists'[l].type = carried'.family
<1> DEFINE options == Target(fi).options
           type == PacketFilterFamily(carried.family, options)
<1>1. phase = "translate" /\ IsCarried(carried) /\ carried' = CarriedOver(Target(fi).name, options)
  BY DEF Begun, Translating, GTyped
<1>2. carried'.family = type
  BY <1>1, CarriedOverIs
<1>3. carried.family = IF lists = <<>> THEN NONE ELSE lists[1].type
  BY <1>1 DEF Reach, Settings
<1>4. TypesOf(options) = <<type>> /\ ~PacketFilterOptionsRefused(carried.family, options)
  BY DEF TypesOf, Begun, OptionsRefused, IptablesFamily
<1>5. \A l \in DOMAIN lists : l \in 1..Len(lists) /\ lists'[l] = lists[l]
  BY Numbered DEF Begun
<1>6. ASSUME NEW l \in DOMAIN lists'
      PROVE  l \in DOMAIN lists \/ lists'[l].type = type
  <2>1. Len(lists) \in Nat /\ DOMAIN lists = 1..Len(lists) /\ IsSeq(lists')
    BY Numbered DEF Begun
  <2>2. l \in 1..Len(lists) \/ l > Len(lists)
    BY <2>1, IsSeqGives
  <2>3. ASSUME l > Len(lists)
        PROVE  lists'[l].type = type
    <3>1. PICK k \in DOMAIN TypesOf(options) : lists'[l] =
            NewList(fi, TypesOf(options)[k], Platform \in IptablesFamily /\ carried'.stateful, carried'.default)
      BY <2>3 DEF Begun
    <3>2. k = 1
      BY <1>4
    <3>3. TypesOf(options)[1] = type
      BY <1>4
    <3> QED
      BY <3>1, <3>2, <3>3 DEF NewList
  <2> QED
    BY <2>1, <2>2, <2>3
<1>7. CASE lists = <<>>
  BY <1>2, <1>6, <1>7, EmptyIsSeq
<1>8. CASE lists # <<>>
  <2>1. 1 \in DOMAIN lists
    <3>1. IsSeq(lists) /\ Len(lists) \in Nat /\ DOMAIN lists = 1..Len(lists)
      BY Numbered DEF GTyped
    <3>2. Len(lists) # 0
      BY <1>8, <3>1 DEF IsSeq
    <3> QED
      BY <3>1, <3>2
  <2>2. lists[1].type \in PacketFilterFamilies
    BY <2>1 DEF Fitting, TypeFits
  <2>3. NONE \notin PacketFilterFamilies
    BY GeneratorsAssumption
  <2>4. carried.family # NONE
    BY <1>3, <1>8, <2>2, <2>3
  <2>5. options = <<>>
    BY <1>4, <2>4 DEF PacketFilterOptionsRefused
  <2>6. type = lists[1].type
    BY <1>3, <1>8, <2>4, <2>5 DEF PacketFilterFamily
  <2>7. \A l \in DOMAIN lists : lists[l].type = lists[1].type
    BY DEF Reach
  <2> QED
    BY <1>2, <1>5, <1>6, <2>6, <2>7
<1> QED
  BY <1>7, <1>8

\* What the reach of a list depends on.
LEMMA SameReach ==
  ASSUME NEW list, NEW m, m.filter = list.filter, m.type = list.type, m.options = list.options,
         m.stateful = list.stateful, m.default = list.default
  PROVE  Reaches(m) <=> Reaches(list)
BY DEF Reaches

\* A filter that is begun takes what has been named so far ...
LEMMA ReachBegun ==
  ASSUME GTyped, Progress, Fitting, Begun, Reach
  PROVE  Reach'
<1> DEFINE t == Target(fi)
           types == TypesOf(t.options)
           stateful == Platform \in IptablesFamily /\ carried'.stateful
<1>1. /\ job' = job /\ phase = "translate" /\ UNCHANGED <<phase, fi, li, output>>
      /\ Platform' = Platform /\ fi \in Nat \ {0}
  BY JobKept, Numbered DEF Begun, Translating
<1>2. /\ Len(lists) \in Nat /\ DOMAIN lists = 1..Len(lists) /\ IsSeq(lists')
      /\ Len(types) \in 1..2 /\ DOMAIN lists' = 1..(Len(lists) + Len(types))
      /\ \A l \in 1..Len(lists) : lists'[l] = lists[l]
  BY Numbered DEF Begun
<1>3. \A l \in DOMAIN lists' : \/ l \in DOMAIN lists /\ lists'[l] = lists[l]
                               \/ \E k \in DOMAIN types :
                                    lists'[l] = NewList(fi, types[k], stateful, carried'.default)
  <2> TAKE l \in DOMAIN lists'
  <2>1. l \in 1..Len(lists) \/ l > Len(lists)
    BY <1>2
  <2>2. l > Len(lists) => \E k \in DOMAIN types :
                            lists'[l] = NewList(fi, types[k], stateful, carried'.default)
    BY DEF Begun
  <2> QED
    BY <1>2, <2>1, <2>2
<1>4. ~Fresh'
  <2>1. li = Len(lists) + 1
    BY <1>1, <1>2, Numbered DEF Progress, Begun, Fresh
  <2>2. Len(lists') = Len(lists) + Len(types)
    <3> DEFINE n == Len(lists) + Len(types)
    <3>1. Len(lists') \in Nat /\ 1..Len(lists') = 1..n /\ n \in Nat
      BY <1>2, IsSeqGives
    <3> HIDE DEF n
    <3>2. Len(lists') = n
      <4>1. n \in Nat /\ Len(lists') \in Nat /\ \A k \in Nat : k \in 1..n <=> k \in 1..Len(lists')
        BY <3>1
      <4>2. n \in 1..n <=> n \in 1..Len(lists')
        BY <4>1
      <4>3. Len(lists') \in 1..n <=> Len(lists') \in 1..Len(lists')
        BY <4>1
      <4> HIDE <3>1, <4>1
      <4> QED
        BY <3>1, <4>2, <4>3
    <3> QED
      BY <3>2 DEF n
  <2>3. li' = li /\ Len(types) >= 1
    <3> HIDE DEF types, stateful, t
    <3>1. Len(types) \in 1..2 /\ li' = li
      BY <1>1, <1>2
    <3> QED
      BY <3>1
  <2> DEFINE n == Len(lists)
             added == Len(types)
  <2>4. n \in Nat /\ added \in Nat /\ added >= 1
    BY <1>2, <2>3, Numbered
  <2>5. Fresh' <=> n + 1 > n + added
    BY <2>1, <2>2, <2>3 DEF Fresh
  <2> HIDE DEF n, added
  <2> QED
    BY <2>4, <2>5
<1>5. Settled' = fi
  BY <1>1, <1>4 DEF Settled
<1>6. Platform \in IptablesFamily =>
        /\ StateIs(carried'.stateful, fi) /\ DefaultIs(carried'.default, fi)
        /\ {"ACCEPT", "DROP"} \cap Range(t.options) # {} => carried'.default \in Range(t.options)
  BY StateBegun
<1>7. Platform = "packetfilter" => \A l \in DOMAIN lists' : lists'[l].type = carried'.family
  BY FamilyBegun
<1>8. \A k \in DOMAIN types : Reaches(NewList(fi, types[k], stateful, carried'.default))
  <2> TAKE k \in DOMAIN types
  <2> DEFINE list == NewList(fi, types[k], stateful, carried'.default)
  <2>1. /\ list.filter = fi /\ list.type = types[k] /\ list.options = t.options
        /\ list.stateful = stateful /\ list.default = carried'.default
    BY DEF NewList
  <2>2. StateIs(stateful, fi) /\ DefaultIs(carried'.default, fi)
    BY <1>6 DEF StateIs, DefaultIs
  <2>3. Platform \in IptablesFamily => (types[k] = "inet6" <=> "inet6" \in Range(t.options))
    <3>1. SUFFICES ASSUME Platform \in IptablesFamily
                   PROVE  types[k] = "inet6" <=> "inet6" \in Range(t.options)
      OBVIOUS
    <3>2. types = <<IF IptablesVersion(t.options) = 6 THEN "inet6" ELSE "inet">>
      BY <3>1 DEF TypesOf, IptablesFamily
    <3> HIDE DEF t
    <3>3. types[k] = IF IptablesVersion(t.options) = 6 THEN "inet6" ELSE "inet"
      BY <3>2
    <3> QED
      BY <3>3 DEF IptablesVersion
  <2>4. Platform = "packetfilter" /\ Range(t.options) # {} => types[k] \in Range(t.options)
    <3> SUFFICES ASSUME Platform = "packetfilter", Range(t.options) # {}
                 PROVE  types[k] \in Range(t.options)
      OBVIOUS
    <3>1. types = <<PacketFilterFamily(carried.family, t.options)>>
      BY DEF TypesOf, IptablesFamily
    <3>2. t.options \in Seq(STRING)
      BY FilterIs DEF Begun, JobHolds
    <3>3. t.options # <<>> /\ t.options[1] \in Range(t.options)
      <4>1. PICK o \in DOMAIN t.options : TRUE
        BY DEF Range
      <4> HIDE DEF t
      <4>2. 1 \in DOMAIN t.options /\ t.options # <<>>
        BY <3>2, <4>1
      <4> QED
        BY <4>2 DEF Range
    <3> HIDE DEF t
    <3>4. types[k] = PacketFilterFamily(carried.family, t.options)
      BY <3>1
    <3> QED
      BY <3>3, <3>4 DEF PacketFilterFamily
  <2> HIDE DEF list, types, stateful
  <2> QED
    BY <1>6, <2>1, <2>2, <2>3, <2>4 DEF Reaches, list
<1> HIDE DEF types, stateful
<1>9. \A l \in DOMAIN lists' : Reaches(lists'[l])
  BY <1>3, <1>8 DEF Reach
<1>10. Settings'
  <2>1. Platform = "packetfilter" => carried'.family = IF lists' = <<>> THEN NONE ELSE lists'[1].type
    <3>1. 1 \in DOMAIN lists' /\ lists' # <<>>
      <4>1. 1 \in DOMAIN lists'
        BY <1>2
      <4> QED
        BY <4>1, EmptyIsSeq
    <3> QED
      BY <1>7, <3>1
  <2>2. DefaultIs(carried'.default, fi)
    BY <1>6 DEF DefaultIs
  <2> QED
    BY <1>1, <1>5, <1>6, <2>1, <2>2, TargetsKept DEF Settings
<1>11. Platform = "packetfilter" => \A l \in DOMAIN lists' : lists'[l].type = lists'[1].type
  <2>1. 1 \in DOMAIN lists'
    BY <1>2
  <2> QED
    BY <1>7, <2>1
<1>12. Made' = Made
  <2>1. \A l \in DOMAIN lists' : lists'[l].entries # <<>> => l \in DOMAIN lists /\ lists'[l] = lists[l]
    BY <1>3 DEF NewList
  <2>2. \A l \in DOMAIN lists : l \in DOMAIN lists' /\ lists'[l] = lists[l]
    BY <1>2
  <2> QED
    BY <2>1, <2>2 DEF Made
<1>13. Answering'
  <2>1. Made # {} => Max(Made) \in DOMAIN lists
    <3>1. Made \subseteq 1..Len(lists)
      BY <1>2 DEF Made
    <3>2. Made # {} => Max(Made) \in Made
      BY <1>2, <3>1, GreatestOf
    <3> QED
      BY <1>2, <3>1, <3>2
  <2>2. carried'.reject = carried.reject
    BY CarriedOverIs DEF Begun, GTyped
  <2>3. Made # {} => lists'[Max(Made)] = lists[Max(Made)]
    BY <1>2, <2>1
  <2>4. Answering
    BY DEF Reach
  <2>5. Platform \in IptablesFamily /\ Made # {} => carried'.reject = lists'[Max(Made)].type
    BY <2>2, <2>3, <2>4 DEF Answering
  <2> QED
    BY <1>1, <1>12, <2>5 DEF Answering
<1> QED
  BY <1>1, <1>9, <1>10, <1>11, <1>13, TargetsKept DEF Reach

\* ... and keeps it while it is filled ...
LEMMA ReachMoved ==
  ASSUME GTyped, Progress, Moved, Reach
  PROVE  Reach'
<1> DEFINE e == Filters[fi].entries[ti]
<1>1. /\ job' = job /\ phase = "translate" /\ UNCHANGED <<phase, fi, li, output>>
      /\ Platform' = Platform
      /\ DOMAIN lists' = DOMAIN lists /\ Len(lists') = Len(lists) /\ li \in DOMAIN lists
  BY JobKept DEF Moved, Translating
<1>2. \A l \in DOMAIN lists :
        /\ lists'[l].filter = lists[l].filter /\ lists'[l].type = lists[l].type
        /\ lists'[l].options = lists[l].options /\ lists'[l].stateful = lists[l].stateful
        /\ lists'[l].default = lists[l].default
        /\ l # li => lists'[l] = lists[l]
  BY DEF Moved, Refilled
<1>3. /\ carried'.stateful = carried.stateful /\ carried'.default = carried.default
      /\ carried'.family = carried.family
      /\ carried'.reject = IF Platform \in IptablesFamily /\ Stays(e) THEN lists[li].type
                           ELSE carried.reject
  BY DEF Moved
<1>4. Settled' = Settled
  BY <1>1 DEF Settled, Fresh
<1>5. Len(lists) \in Nat /\ DOMAIN lists = 1..Len(lists)
  BY Numbered
<1>6. lists # <<>> /\ lists' # <<>> /\ 1 \in DOMAIN lists
  BY <1>1, <1>5, EmptyIsSeq
<1>7. Settings'
  <2>1. Settings
    BY DEF Reach
  <2>2. /\ Platform \in IptablesFamily => StateIs(carried'.stateful, Settled)
        /\ DefaultIs(carried'.default, Settled)
        /\ Platform = "packetfilter" => carried'.family = lists'[1].type
    BY <1>1, <1>2, <1>3, <1>6, <2>1 DEF Settings
  <2> QED
    BY <1>1, <1>4, <1>6, <2>2, TargetsKept DEF Settings
<1>8. \A l \in DOMAIN lists' : Reaches(lists'[l])
  BY <1>1, <1>2, SameReach DEF Reach
<1>9. \A l \in DOMAIN lists' : Platform = "packetfilter" => lists'[l].type = lists'[1].type
  BY <1>1, <1>2, <1>6 DEF Reach
<1>10. Answering'
  <2>1. CASE ~Stays(e)
    <3>1. lists'[li].entries = lists[li].entries
      BY <2>1 DEF Moved, Refilled
    <3>2. Made' = Made
      BY <1>1, <1>2, <3>1 DEF Made
    <3>3. Made # {} => Max(Made) \in DOMAIN lists
      <4>1. Made \subseteq 1..Len(lists)
        BY <1>5 DEF Made
      <4>2. Made # {} => Max(Made) \in Made
        BY <1>5, <4>1, GreatestOf
      <4> QED
        BY <1>5, <4>1, <4>2
    <3>4. Platform \in IptablesFamily /\ Made # {} => carried'.reject = lists'[Max(Made)].type
      BY <1>2, <1>3, <2>1, <3>3 DEF Reach, Answering
    <3> QED
      BY <1>1, <3>2, <3>4 DEF Answering
  <2>2. CASE Stays(e)
    <3>1. li \in Made'
      <4> DEFINE old == lists[li].entries
                 new == lists'[li].entries
      <4>1. DOMAIN new = 1..(Len(old) + 1) /\ Len(old) \in Nat
        BY <2>2, MovedEntries
      <4>2. new # <<>>
        BY <4>1, EmptyIsSeq
      <4> QED
        BY <1>1, <4>2 DEF Made
    <3>2. \A l \in Made' : l <= li
      <4> TAKE l \in Made'
      <4>1. l \in DOMAIN lists /\ l \in Nat /\ li \in Nat /\ lists'[l].entries # <<>>
        BY <1>1, <1>5 DEF Made
      <4>2. l > li => lists[l].entries = <<>> /\ lists'[l] = lists[l]
        BY <1>1, <1>2, <1>5, <4>1 DEF Progress
      <4> QED
        BY <4>1, <4>2
    <3>3. Made' \subseteq 1..Len(lists)
      BY <1>1, <1>5 DEF Made
    <3> DEFINE S == Made'
    <3> HIDE DEF S
    <3>4. Max(S) = li
      <4>1. Max(S) \in S /\ \A k \in S : k <= Max(S)
        BY <1>5, <3>1, <3>3, GreatestOf DEF S
      <4>2. Max(S) <= li /\ li <= Max(S) /\ Max(S) \in Nat /\ li \in Nat
        BY <1>5, <1>1, <3>1, <3>2, <3>3, <4>1 DEF S
      <4> QED
        BY <4>2
    <3>5. Platform \in IptablesFamily => carried'.reject = lists'[Max(S)].type
      BY <1>1, <1>2, <1>3, <2>2, <3>4
    <3> QED
      BY <1>1, <3>5 DEF Answering, S
  <2> QED
    BY <2>1, <2>2
<1> QED
  BY <1>1, <1>7, <1>8, <1>9, <1>10, TargetsKept DEF Reach

\* ... and rendered.
LEMMA ReachStep ==
  ASSUME GTyped, Progress, Fitting, Reach, [Next]_vars
  PROVE  Reach'
<1>1. Len(lists) \in Nat /\ fi \in Nat \ {0} /\ li \in Nat \ {0}
  BY Numbered
<1>2. CASE Refuse
  BY <1>2, ReachSame DEF Refuse
<1>3. CASE CheckKeywords /\ ~Refuse
  <2>1. phase = "check" /\ phase' = "translate" /\ UNCHANGED <<job, fi, li, ti, carried, lists, output>>
    BY <1>3 DEF CheckKeywords
  <2>2. Fresh
    BY <2>1, EmptyIsSeq DEF Progress, Fresh
  <2>3. Settled' = Settled
    BY <2>1, <2>2 DEF Settled, Fresh
  <2> QED
    BY <2>1, <2>3, ReachSame
<1>4. CASE SkipFilter
  <2>1. /\ phase = "translate" /\ Fresh /\ ~Targeted(fi) /\ fi' = fi + 1
        /\ UNCHANGED <<job, phase, li, ti, carried, lists, output>>
    BY <1>4 DEF SkipFilter, Translating
  <2>2. Settled = fi - 1 /\ Settled' = fi
    BY <1>1, <2>1 DEF Settled, Fresh
  <2>3. TargetsTo(Settled') = TargetsTo(Settled)
    BY <1>1, <2>1, <2>2, TargetsGrow
  <2> QED
    BY <2>1, <2>3, ReachSame
<1>5. CASE StartFilter
  BY <1>2, <1>5, StartBegins, ReachBegun
<1>6. CASE TranslateTerm
  BY <1>2, <1>6, TranslateMoves, ReachMoved
<1>7. CASE FinishList
  <2>1. /\ phase = "translate" /\ ~Fresh /\ li' = li + 1
        /\ fi' = IF li = Len(lists) THEN fi + 1 ELSE fi
        /\ UNCHANGED <<job, phase, carried, lists, output>>
    BY <1>7 DEF FinishList, Translating
  <2>2. Settled = fi
    BY <2>1 DEF Settled
  <2>3. CASE li = Len(lists)
    <3>1. Fresh' /\ fi' = fi + 1
      BY <1>1, <2>1, <2>3 DEF Fresh
    <3>2. Settled' = fi
      BY <1>1, <2>1, <3>1 DEF Settled
    <3> QED
      BY <2>1, <2>2, <3>2, ReachSame
  <2>4. CASE li # Len(lists)
    <3>1. ~Fresh' /\ fi' = fi
      BY <1>1, <2>1, <2>4 DEF Fresh
    <3>2. Settled' = fi
      BY <2>1, <3>1 DEF Settled
    <3> QED
      BY <2>1, <2>2, <3>2, ReachSame
  <2> QED
    BY <2>3, <2>4
<1>8. CASE FinishTranslation
  BY <1>8, ReachSame DEF FinishTranslation
<1>9. CASE RenderTerm \/ NextList
  BY <1>2, <1>9, ReachSame DEF RenderTerm, NextList
<1>10. CASE Finish
  BY <1>10, ReachSame DEF Finish
<1>11. CASE UNCHANGED vars
  <2>1. Settled' = Settled /\ UNCHANGED <<job, phase, carried, lists>>
    BY <1>11 DEF vars, Settled, Fresh
  <2> QED
    BY <2>1, ReachSame
<1> QED
  BY <1>2, <1>3, <1>4, <1>5, <1>6, <1>7, <1>8, <1>9, <1>10, <1>11 DEF Next, Ended

\* What a header asks for holds for its filter, what no header asks for is not
\* set, and a reject is answered in the family of its list (lib/iptables.py,
\* lib/packetfilter.py), however many filters a policy has.
THEOREM SettingsAreHeld == Spec => []SettingsHold
<1>1. GInv /\ Reach => SettingsHold
  <2> SUFFICES ASSUME GInv, Reach PROVE SettingsHold
    OBVIOUS
  <2>1. ASSUME NEW l \in DOMAIN lists
        PROVE  LET list == lists[l]
                   own == Range(list.options)
                   earlier == TargetsUpTo(l)
                   Asks(option) == \E t \in earlier : option \in Range(t.options)
               IN
               /\ Platform \in IptablesFamily =>
                    /\ "nostate" \in own => ~list.stateful
                    /\ Asks("nostate") \/ list.stateful
                    /\ list.type = "inet6" <=> "inet6" \in own
                    /\ {"ACCEPT", "DROP"} \cap own # {} => list.default \in own
                    /\ list.default # NONE =>
                         \/ Asks("ACCEPT") \/ Asks("DROP")
                         \/ Platform = "iptables" /\ \E t \in earlier : t.name = "FORWARD"
               /\ Platform = "packetfilter" /\ own # {} => list.type \in own
    <3>1. TargetsUpTo(l) = TargetsTo(lists[l].filter)
      BY DEF TargetsUpTo, TargetsTo
    <3>2. Reaches(lists[l])
      BY <2>1 DEF Reach
    <3> DEFINE list == lists[l]
               earlier == TargetsTo(list.filter)
    <3>3. StateIs(list.stateful, list.filter) /\ DefaultIs(list.default, list.filter)
      BY <3>2 DEF Reaches
    <3>4. list.stateful <=> Platform \in IptablesFamily
            /\ ~\E t \in earlier : "nostate" \in Range(t.options)
      BY <3>3 DEF StateIs
    <3>5. Platform \in IptablesFamily /\ list.default # NONE =>
               \/ \E t \in earlier : "ACCEPT" \in Range(t.options)
               \/ \E t \in earlier : "DROP" \in Range(t.options)
               \/ Platform = "iptables" /\ \E t \in earlier : t.name = "FORWARD"
      BY <3>3 DEF DefaultIs
    <3>6. /\ Platform \in IptablesFamily =>
               /\ list.type = "inet6" <=> "inet6" \in Range(list.options)
               /\ {"ACCEPT", "DROP"} \cap Range(list.options) # {} => list.default \in Range(list.options)
          /\ Platform = "packetfilter" /\ Range(list.options) # {} => list.type \in Range(list.options)
      BY <3>2 DEF Reaches
    <3>7. Platform \in IptablesFamily => \E t \in earlier : t.options = list.options
      <4> SUFFICES ASSUME Platform \in IptablesFamily
                   PROVE  \E t \in earlier : t.options = list.options
        OBVIOUS
      <4>1. /\ list.filter \in DOMAIN Filters /\ Targeted(list.filter)
            /\ list.options = Target(list.filter).options
        BY <2>1 DEF GInv, GTyped, IsList, IptablesFamily
      <4>2. list.filter \in 1..list.filter
        <5>1. list.filter \in Nat \ {0}
          BY <4>1, Numbered DEF GInv
        <5> QED
          BY <5>1
      <4>3. Target(list.filter) \in earlier
        BY <4>1, <4>2 DEF TargetsTo
      <4> QED
        BY <4>1, <4>3
    <3>8. Platform \in IptablesFamily /\ "nostate" \in Range(list.options) => ~list.stateful
      BY <3>4, <3>7
    <3> QED
      BY <3>1, <3>4, <3>5, <3>6, <3>8
  <2>2. ASSUME Platform \in IptablesFamily, \A l, m \in Made : lists[l].type = lists[m].type,
               NEW k \in DOMAIN output
        PROVE  output[k].reject = lists[output[k].list].type
    <3> DEFINE b == output[k]
    <3>1. IsWritten(b)
      BY DEF GInv, Written
    <3>2. b.list \in DOMAIN lists /\ lists[b.list].entries # <<>> /\ b.reject = carried.reject
      BY <3>1, EmptyIsSeq DEF IsWritten, Range
    <3>3. b.list \in Made
      BY <3>2 DEF Made
    <3>4. carried.reject = lists[Max(Made)].type
      BY <2>2, <3>3 DEF Reach, Answering
    <3>5. Max(Made) \in Made
      <4>1. Made \subseteq 1..Len(lists) /\ Len(lists) \in Nat
        BY Numbered DEF Made, GInv
      <4> QED
        BY <3>3, <4>1, GreatestOf
    <3>6. lists[Max(Made)].type = lists[b.list].type
      BY <2>2, <3>3, <3>5
    <3> QED
      BY <3>2, <3>4, <3>6
  <2> QED
    BY <2>1, <2>2, Zenon DEF SettingsHold
<1>2. GInv /\ Reach /\ [Next]_vars => (GInv /\ Reach)'
  BY GInvStep, ReachStep DEF GInv
<1> QED
  BY <1>1, <1>2, GInvInit, ReachInit, PTL DEF Spec

-----------------------------------------------------------------------------
(* Names *)

\* A list knows the names of its entries, and no two are the same.
Named(list) ==
  /\ \A k \in DOMAIN list.entries : list.entries[k].name \in list.names
  /\ \A j, k \in DOMAIN list.entries : j # k => list.entries[j].name # list.entries[k].name

AllNamed == Platform \notin {"cisco", "ciscoasa"} => \A l \in DOMAIN lists : Named(lists[l])

\* Every step keeps the names of a list apart.
LEMMA NamedStep ==
  ASSUME GTyped, Progress, AllNamed, [Next]_vars
  PROVE  AllNamed'
<1> SUFFICES ASSUME Platform' \notin {"cisco", "ciscoasa"}
             PROVE  \A l \in DOMAIN lists' : Named(lists'[l])
  BY DEF AllNamed, Named
<1>1. CASE Begun
  <2>1. Platform \notin {"cisco", "ciscoasa"}
    BY <1>1, JobKept DEF Begun
  <2> TAKE l \in DOMAIN lists'
  <2>2. Len(lists) \in Nat /\ DOMAIN lists = 1..Len(lists) /\ l \in Nat \ {0}
    BY <1>1, Numbered, IsSeqGives DEF Begun
  <2>3. CASE l <= Len(lists)
    <3>1. lists'[l] = lists[l] /\ l \in DOMAIN lists
      BY <1>1, <2>2, <2>3 DEF Begun
    <3> QED
      BY <2>1, <3>1 DEF AllNamed
  <2>4. CASE l > Len(lists)
    <3>1. lists'[l].entries = <<>>
      BY <1>1, <2>4 DEF Begun, NewList
    <3> QED
      BY <3>1, EmptyIsSeq DEF Named
  <2> QED
    BY <2>2, <2>3, <2>4
<1>2. CASE Moved
  <2>1. Platform \notin {"cisco", "ciscoasa"}
    BY <1>2, JobKept DEF Moved
  <2> TAKE l \in DOMAIN lists'
  <2>2. l \in DOMAIN lists /\ Named(lists[l])
    BY <1>2, <2>1 DEF Moved, AllNamed
  <2>3. CASE l # li
    BY <1>2, <2>2, <2>3 DEF Moved
  <2>4. CASE l = li
    <3> DEFINE e == Filters[fi].entries[ti]
               list == lists[li]
               old == list.entries
               new == lists'[li].entries
               name == NameOf(e, list.options)
    <3>1. name \notin list.names /\ lists'[li].names = list.names \cup {name}
      BY <1>2, <2>1 DEF Moved, TranslateRefused, DuplicateRefused, Refilled
    <3>2. /\ Len(old) \in Nat /\ DOMAIN old = 1..Len(old)
          /\ \A k \in DOMAIN old : k \in DOMAIN new /\ new[k] = old[k]
          /\ \A k \in DOMAIN new : k \in DOMAIN old \/ (Stays(e) /\ k = Len(old) + 1)
          /\ Stays(e) => new[Len(old) + 1] = Translated(e, list)
      BY <1>2, MovedEntries
    <3>3. Translated(e, list).name = name
      BY <1>2, FilterIs, TranslatedIs DEF Moved
    <3> HIDE DEF new, old, name, list
    <3>4. \A k \in DOMAIN new : \/ k \in DOMAIN old /\ new[k].name = old[k].name
                                \/ k \notin DOMAIN old /\ k = Len(old) + 1 /\ new[k].name = name
      BY <3>2, <3>3 DEF list
    <3>5. Named(list)
      BY <2>2, <2>4 DEF list
    <3>6. \A k \in DOMAIN old : old[k].name \in list.names
      BY <3>5 DEF Named, old
    <3>7. \A j, k \in DOMAIN old : j # k => old[j].name # old[k].name
      BY <3>5 DEF Named, old
    <3>8. \A k \in DOMAIN new : new[k].name \in list.names \cup {name}
      BY <3>4, <3>6
    <3>9. \A j, k \in DOMAIN new : j # k => new[j].name # new[k].name
      BY <3>1, <3>4, <3>6, <3>7
    <3> QED
      BY <2>4, <3>1, <3>8, <3>9 DEF Named, new
  <2> QED
    BY <2>3, <2>4
<1>3. CASE UNCHANGED <<job, lists>>
  <2>1. Platform' = Platform /\ lists' = lists
    BY <1>3, JobKept
  <2> QED
    BY <2>1 DEF AllNamed
<1> QED
  BY <1>1, <1>2, <1>3, StepIs DEF Wrote

-----------------------------------------------------------------------------
(* Places: where the entries are whose blocks have been written *)

PlacedBefore(l, k, m, n) == l < m \/ (l = m /\ k < n)

\* The blocks are of entries of the lists, in their order, each once.
PlacedBy(place) ==
  /\ \A j \in DOMAIN output :
       /\ output[j].list \in DOMAIN lists
       /\ place[j] \in DOMAIN lists[output[j].list].entries
       /\ output[j].entry = lists[output[j].list].entries[place[j]]
  /\ \A j, k \in DOMAIN output :
       j < k => PlacedBefore(output[j].list, place[j], output[k].list, place[k])

\* They are those before the term that is rendered next.
ReachedBy(place) ==
  /\ phase = "render" => \A j \in DOMAIN output : PlacedBefore(output[j].list, place[j], li, ti)
  /\ phase \in {"render", "done"} =>
       \A l \in 1..ListsWritten : \A k \in DOMAIN lists[l].entries :
         phase = "done" \/ PlacedBefore(l, k, li, ti) =>
           \E j \in DOMAIN output : output[j].list = l /\ place[j] = k

Placed == \E place \in [DOMAIN output -> Nat] : PlacedBy(place) /\ ReachedBy(place)

\* Nothing has been written at first.
LEMMA NothingPlaced ==
  ASSUME output = <<>>, phase \notin {"render", "done"}
  PROVE  Placed
<1> DEFINE place == [j \in DOMAIN output |-> 0]
<1>1. place \in [DOMAIN output -> Nat] /\ DOMAIN output = {}
  BY EmptyIsSeq
<1> HIDE DEF place
<1>2. PlacedBy(place) /\ ReachedBy(place)
  BY <1>1 DEF PlacedBy, ReachedBy
<1> QED
  BY <1>1, <1>2 DEF Placed

\* A block that is written is that of the next entry.
LEMMA PlacedWrote ==
  ASSUME GTyped, Progress, Wrote, Placed
  PROVE  Placed'
<1> DEFINE n == Len(output)
           e == lists[li].entries[ti]
           b == BlockOf(li, e)
<1>1. PICK old \in [DOMAIN output -> Nat] : PlacedBy(old) /\ ReachedBy(old)
  BY DEF Placed
<1>2. /\ phase = "render" /\ UNCHANGED <<job, phase, fi, li, carried, lists>> /\ ti' = ti + 1
      /\ li \in DOMAIN lists /\ ti \in DOMAIN lists[li].entries
      /\ Platform' = Platform /\ ListsWritten' = ListsWritten
  BY JobKept DEF Wrote, ListsWritten
<1>3. /\ IsSeq(output) /\ n \in Nat /\ DOMAIN output = 1..n
      /\ IsAppended(output', output, b)
  BY IsSeqGives DEF GTyped, Wrote
<1> HIDE DEF b, n
<1>4. /\ DOMAIN output' = 1..(n + 1) /\ output'[n + 1] = b
      /\ \A j \in 1..n : output'[j] = output[j]
  BY <1>3, AppendIs DEF n
<1>5. b.list = li /\ b.entry = e
  BY DEF b, BlockOf
<1> HIDE DEF e
<1>6. ti \in Nat \ {0} /\ li \in Nat \ {0} /\ DOMAIN lists = 1..Len(lists) /\ Len(lists) \in Nat
  BY Numbered
<1>7. PICK place : /\ place \in [DOMAIN output' -> Nat] /\ place[n + 1] = ti
                   /\ \A j \in 1..n : place[j] = old[j]
  <2> DEFINE new == [j \in 1..(n + 1) |-> IF j \in 1..n THEN old[j] ELSE ti]
  <2>1. new \in [DOMAIN output' -> Nat] /\ new[n + 1] = ti /\ \A j \in 1..n : new[j] = old[j]
    BY <1>1, <1>3, <1>4, <1>6
  <2> HIDE DEF new
  <2> QED
    BY <2>1
<1>8. \A j \in 1..(n + 1) : j \in 1..n \/ j = n + 1
  BY <1>3
<1>9. \A j \in 1..n : /\ output[j].list \in DOMAIN lists
                      /\ place[j] \in DOMAIN lists[output[j].list].entries
                      /\ output[j].entry = lists[output[j].list].entries[place[j]]
                      /\ PlacedBefore(output[j].list, place[j], li, ti)
  BY <1>1, <1>2, <1>3, <1>7 DEF PlacedBy, ReachedBy
<1>10. \A j, k \in 1..n : j < k => PlacedBefore(output[j].list, place[j], output[k].list, place[k])
  BY <1>1, <1>3, <1>7 DEF PlacedBy
<1>11. \A j \in DOMAIN output' :
         /\ output'[j].list \in DOMAIN lists
         /\ place[j] \in DOMAIN lists[output'[j].list].entries
         /\ output'[j].entry = lists[output'[j].list].entries[place[j]]
  BY <1>2, <1>4, <1>5, <1>7, <1>8, <1>9 DEF e
<1>12. ASSUME NEW j \in DOMAIN output', NEW k \in DOMAIN output', j < k
       PROVE  PlacedBefore(output'[j].list, place[j], output'[k].list, place[k])
  <2>1. j \in 1..n
    BY <1>3, <1>4, <1>12
  <2>2. CASE k \in 1..n
    BY <1>4, <1>10, <1>12, <2>1, <2>2
  <2>3. CASE k = n + 1
    BY <1>4, <1>5, <1>7, <1>9, <2>1, <2>3
  <2> QED
    BY <1>4, <1>8, <2>2, <2>3
<1>13. PlacedBy(place)'
  BY <1>2, <1>11, <1>12 DEF PlacedBy
<1>14. ASSUME NEW j \in DOMAIN output'
       PROVE  PlacedBefore(output'[j].list, place[j], li, ti + 1)
  <2>1. CASE j \in 1..n
    <3>1. PlacedBefore(output[j].list, place[j], li, ti)
      BY <1>9, <2>1
    <3>2. output[j].list \in Nat /\ place[j] \in Nat
      BY <1>4, <1>6, <1>7, <1>9, <2>1, <1>14
    <3> QED
      BY <1>4, <1>6, <2>1, <3>1, <3>2 DEF PlacedBefore
  <2>2. CASE j = n + 1
    BY <1>4, <1>5, <1>6, <1>7, <2>2 DEF PlacedBefore
  <2> QED
    BY <1>4, <1>8, <2>1, <2>2
<1>15. ASSUME NEW l \in 1..ListsWritten, NEW k \in DOMAIN lists[l].entries, PlacedBefore(l, k, li, ti + 1)
       PROVE  \E j \in DOMAIN output' : output'[j].list = l /\ place[j] = k
  <2>1. l \in DOMAIN lists /\ k \in Nat
    <3>1. l \in DOMAIN lists
      BY <1>2, WrittenLists
    <3>2. IsSeq(lists[l].entries)
      BY <3>1 DEF GTyped, IsList
    <3>3. DOMAIN lists[l].entries = 1..Len(lists[l].entries)
      BY <3>2, IsSeqGives
    <3> QED
      BY <3>1, <3>3
  <2>2. PlacedBefore(l, k, li, ti) \/ (l = li /\ k = ti)
    BY <1>6, <1>15, <2>1 DEF PlacedBefore
  <2>3. CASE PlacedBefore(l, k, li, ti)
    <3>1. PICK j \in DOMAIN output : output[j].list = l /\ old[j] = k
      BY <1>1, <1>2, <2>3 DEF ReachedBy
    <3>2. j \in 1..n /\ j \in DOMAIN output'
      BY <1>3, <1>4
    <3> QED
      BY <1>4, <1>7, <3>1, <3>2
  <2>4. CASE l = li /\ k = ti
    <3>1. n + 1 \in DOMAIN output'
      BY <1>3, <1>4
    <3> QED
      BY <1>4, <1>5, <1>7, <2>4, <3>1
  <2> QED
    BY <2>2, <2>3, <2>4
<1>16. ReachedBy(place)'
  BY <1>2, <1>14, <1>15 DEF ReachedBy
<1> QED
  BY <1>7, <1>13, <1>16 DEF Placed

\* The entries of a list are a sequence.
LEMMA EntriesAre ==
  ASSUME GTyped, NEW l \in DOMAIN lists
  PROVE  /\ IsSeq(lists[l].entries) /\ Len(lists[l].entries) \in Nat
         /\ DOMAIN lists[l].entries = 1..Len(lists[l].entries)
<1>1. IsSeq(lists[l].entries)
  BY DEF GTyped, IsList
<1> QED
  BY <1>1, IsSeqGives

\* Steps that write nothing.
LEMMA PlacedSame ==
  ASSUME Placed, UNCHANGED <<job, lists, output>>,
         phase' = "render" => phase = "render" /\ \A l, k : PlacedBefore(l, k, li, ti) => PlacedBefore(l, k, li', ti'),
         phase' \in {"render", "done"} =>
           /\ phase \in {"render", "done"}
           /\ \A l \in 1..ListsWritten : \A k \in DOMAIN lists[l].entries :
                phase' = "done" \/ PlacedBefore(l, k, li', ti') => phase = "done" \/ PlacedBefore(l, k, li, ti)
  PROVE  Placed'
<1>1. PICK place \in [DOMAIN output -> Nat] : PlacedBy(place) /\ ReachedBy(place)
  BY DEF Placed
<1>2. ListsWritten' = ListsWritten /\ lists' = lists /\ output' = output
  BY JobKept DEF ListsWritten
<1>3. PlacedBy(place)'
  BY <1>1, <1>2 DEF PlacedBy
<1>4. phase' = "render" => \A j \in DOMAIN output : PlacedBefore(output[j].list, place[j], li', ti')
  BY <1>1 DEF ReachedBy
<1>5. phase' \in {"render", "done"} =>
        \A l \in 1..ListsWritten : \A k \in DOMAIN lists[l].entries :
          phase' = "done" \/ PlacedBefore(l, k, li', ti') =>
            \E j \in DOMAIN output : output[j].list = l /\ place[j] = k
  BY <1>1 DEF ReachedBy
<1>6. ReachedBy(place)'
  BY <1>2, <1>4, <1>5 DEF ReachedBy
<1> QED
  BY <1>1, <1>2, <1>3, <1>6 DEF Placed

\* Every step keeps the blocks in the order of their entries.
LEMMA PlacedStep ==
  ASSUME GTyped, Progress, Placed, [Next]_vars
  PROVE  Placed'
<1>1. CASE Begun \/ Moved
  <2>1. output' = <<>> /\ phase' = "translate"
    BY <1>1 DEF Begun, Moved, Translating, Progress
  <2>2. PICK place : place \in [{} -> Nat]
    <3>1. [j \in {} |-> 0] \in [{} -> Nat]
      OBVIOUS
    <3> QED
      BY <3>1
  <2>3. DOMAIN output' = {}
    BY <2>1, EmptyIsSeq
  <2>4. PlacedBy(place)' /\ ReachedBy(place)'
    BY <2>1, <2>3 DEF PlacedBy, ReachedBy
  <2> QED
    BY <2>2, <2>3, <2>4 DEF Placed
<1>2. CASE Wrote
  BY <1>2, PlacedWrote
<1>3. CASE Refuse
  BY <1>3, PlacedSame DEF Refuse
<1>4. CASE CheckKeywords \/ SkipFilter \/ FinishList
  BY <1>3, <1>4, PlacedSame DEF CheckKeywords, SkipFilter, FinishList, Translating
<1>5. CASE FinishTranslation
  <2>1. /\ output = <<>> /\ output' = <<>> /\ li' = 1 /\ ti' = 1 /\ phase' = "render" /\ lists' = lists
        /\ job' = job /\ phase = "translate"
    BY <1>5 DEF FinishTranslation, Progress
  <2>2. DOMAIN output = {} /\ ListsWritten' = ListsWritten
    BY <2>1, EmptyIsSeq, JobKept DEF ListsWritten
  <2>3. PICK place : place \in [DOMAIN output -> Nat]
    BY DEF Placed
  <2>4. \A l \in 1..ListsWritten : \A k \in DOMAIN lists[l].entries : ~PlacedBefore(l, k, 1, 1)
    <3> SUFFICES ASSUME NEW l \in 1..ListsWritten, NEW k \in DOMAIN lists[l].entries
                 PROVE  ~PlacedBefore(l, k, 1, 1)
      OBVIOUS
    <3>1. Len(lists) \in Nat /\ DOMAIN lists = 1..Len(lists)
      BY Numbered
    <3>2. l \in DOMAIN lists
      <4>1. Platform = "ciscoasa" => Len(lists) > 0
        <5>1. Platform = "ciscoasa" => lists # <<>>
          <6>1. fi > 1
            BY <1>5, Numbered DEF FinishTranslation
          <6> QED
            BY <2>1, <6>1 DEF Progress
        <5>2. IsSeq(lists)
          BY DEF GTyped
        <5>3. lists # <<>> => Len(lists) # 0
          BY <5>2 DEF IsSeq
        <5> QED
          BY <3>1, <5>1, <5>3
      <4> QED
        BY <3>1, <4>1 DEF ListsWritten
    <3>3. k \in 1..Len(lists[l].entries) /\ Len(lists[l].entries) \in Nat
      BY <3>2, EntriesAre
    <3> QED
      BY <3>1, <3>2, <3>3 DEF PlacedBefore
  <2>5. PlacedBy(place)' /\ ReachedBy(place)'
    BY <2>1, <2>2, <2>4 DEF PlacedBy, ReachedBy
  <2> QED
    BY <2>1, <2>3, <2>5 DEF Placed
<1>6. CASE NextList
  <2>1. /\ phase = "render" /\ ti > Len(lists[li].entries) /\ li' = li + 1 /\ ti' = 1
        /\ UNCHANGED <<job, phase, carried, lists, output>> /\ li <= ListsWritten
    BY <1>6 DEF NextList
  <2>2. li \in Nat \ {0} /\ ti \in Nat \ {0} /\ ListsWritten \in Nat /\ 1..ListsWritten \subseteq DOMAIN lists
    BY <2>1, Numbered, WrittenLists
  <2>3. ASSUME NEW l \in 1..ListsWritten, NEW k \in DOMAIN lists[l].entries, PlacedBefore(l, k, li', ti')
        PROVE  PlacedBefore(l, k, li, ti)
    <3>1. k \in 1..Len(lists[l].entries) /\ Len(lists[l].entries) \in Nat
      BY <2>2, EntriesAre
    <3>2. l < li \/ l = li
      BY <2>1, <2>2, <2>3, <3>1 DEF PlacedBefore
    <3>3. l = li => k < ti
      BY <2>1, <2>2, <3>1
    <3> QED
      BY <3>2, <3>3 DEF PlacedBefore
  <2>4. PICK place \in [DOMAIN output -> Nat] : PlacedBy(place) /\ ReachedBy(place)
    BY DEF Placed
  <2>5. ListsWritten' = ListsWritten /\ lists' = lists /\ output' = output
    BY <2>1, JobKept DEF ListsWritten
  <2>6. PlacedBy(place)'
    BY <2>4, <2>5 DEF PlacedBy
  <2>7. ASSUME NEW j \in DOMAIN output
        PROVE  PlacedBefore(output[j].list, place[j], li', ti')
    <3>1. PlacedBefore(output[j].list, place[j], li, ti) /\ output[j].list \in DOMAIN lists
      BY <2>1, <2>4 DEF ReachedBy, PlacedBy
    <3>2. output[j].list \in Nat
      BY <3>1, Numbered
    <3> QED
      BY <2>1, <2>2, <3>1, <3>2 DEF PlacedBefore
  <2>8. \A l \in 1..ListsWritten : \A k \in DOMAIN lists[l].entries : PlacedBefore(l, k, li', ti') =>
          \E j \in DOMAIN output : output[j].list = l /\ place[j] = k
    BY <2>1, <2>3, <2>4 DEF ReachedBy
  <2>9. ReachedBy(place)'
    BY <2>1, <2>5, <2>7, <2>8 DEF ReachedBy
  <2> QED
    BY <2>4, <2>5, <2>6, <2>9 DEF Placed
<1>7. CASE Finish
  <2>1. /\ phase = "render" /\ phase' = "done" /\ li > ListsWritten
        /\ UNCHANGED <<job, fi, li, ti, carried, lists, output>>
    BY <1>7 DEF Finish
  <2>2. li \in Nat \ {0} /\ ListsWritten \in Nat
    BY <2>1, Numbered, WrittenLists
  <2>3. \A l \in 1..ListsWritten : \A k : PlacedBefore(l, k, li, ti)
    BY <2>1, <2>2 DEF PlacedBefore
  <2> QED
    BY <2>1, <2>3, PlacedSame
<1>8. CASE UNCHANGED vars
  BY <1>8, PlacedSame DEF vars
<1>9. StartFilter => Refuse \/ Begun
  BY StartBegins
<1>10. TranslateTerm => Refuse \/ Moved
  BY TranslateMoves
<1>11. RenderTerm => Refuse \/ Wrote
  BY RenderWrites
<1> QED
  BY <1>1, <1>2, <1>3, <1>4, <1>5, <1>6, <1>7, <1>8, <1>9, <1>10, <1>11 DEF Next, Ended

WInv == GInv /\ AllNamed /\ Placed

\* The invariant with names and places holds at first ...
LEMMA WInvInit == Init => WInv
<1>1. ASSUME Init PROVE AllNamed /\ Placed
  <2>1. output = <<>> /\ phase \notin {"render", "done"} /\ DOMAIN lists = {}
    BY <1>1, EmptyIsSeq DEF Init
  <2> QED
    BY <2>1, NothingPlaced DEF AllNamed
<1> QED
  BY <1>1, GInvInit DEF WInv

\* ... and every step keeps it.
LEMMA WInvStep == WInv /\ [Next]_vars => WInv'
BY GInvStep, NamedStep, PlacedStep DEF WInv, GInv

-----------------------------------------------------------------------------
(* What the devices load *)

\* The ports of a combination are one of the statements.
LEMMA ProductPorts ==
  ASSUME NEW t, DOMAIN t = DOMAIN EmptyTerm, NEW S, NEW D, NEW SP, NEW DP,
         NEW r, r \in Product(t, S, D, SP, DP)
  PROVE  r.source_port \in SP /\ r.destination_port \in DP
<1>1. PICK q \in Each(t.protocol), i \in Each(t.icmp_type), x \in EachOf(S), y \in EachOf(D),
           sp \in SP, dp \in DP : r = Combination(t, q, i, x, y, sp, dp)
  BY ProductIs
<1>2. r.source_port = sp /\ r.destination_port = dp
  BY <1>1, CombinationIs
<1> QED
  BY <1>2

\* Those of a rule with sets too.
LEMMA SetRulesPorts ==
  ASSUME NEW t, NEW a, NEW s, DOMAIN s = DOMAIN EmptyTerm, NEW r \in SetRules(t, a, s)
  PROVE  /\ r.source_port \in PortStatements(t.source_port)
         /\ r.destination_port \in PortStatements(t.destination_port)
<1>1. PICK q \in Each(t.protocol), i \in Each(t.icmp_type),
           sp \in PortStatements(t.source_port), dp \in PortStatements(t.destination_port) :
        r = SetRule(s, q, i, a.source, a.destination, sp, dp)
  BY DEF SetRules
<1>2. DOMAIN s = TermFields /\ {"source_port", "destination_port"} \subseteq TermFields
  BY FieldsAre DEF TermFields
<1>3. r.source_port = sp /\ r.destination_port = dp
  BY <1>1, <1>2 DEF SetRule
<1> QED
  BY <1>3

\* A multiport match has no more ports than iptables takes.
LEMMA PortsFit ==
  ASSUME NEW e, NEW list, Prepared(e, list), Platform \in IptablesFamily,
         NEW r \in Rendered(e, list).rules
  PROVE  PortsOf(r.source_port) <= MaxPorts + 1 /\ PortsOf(r.destination_port) <= MaxPorts + 1
<1> DEFINE t == e.term
           v == Version(list)
           a == IptablesAddresses(t, Platform, v)
           shape == IptablesShape(t, list.stateful)
           SP == PortStatements(t.source_port)
           DP == PortStatements(t.destination_port)
<1>1. IptablesRenders(t, Platform, v) /\ r \in IptablesRules(t, Platform, v, list.stateful).rules
  <2>1. Rendered(e, list) = IF IptablesRenders(t, Platform, v)
                            THEN IptablesRules(t, Platform, v, list.stateful) ELSE Nothing
    BY DEF Rendered, IptablesFamily
  <2> QED
    BY <2>1 DEF Nothing, Plain
<1>2. r \in IF Platform = "ipset" THEN SetRules(t, a, shape)
            ELSE Product(shape, a.source, a.destination, SP, DP)
  BY <1>1, IptablesRulesAre
<1>3. DOMAIN shape = DOMAIN EmptyTerm
  BY IptablesShapeIs
<1> HIDE DEF a, shape, v
<1>4. r.source_port \in SP /\ r.destination_port \in DP
  BY <1>2, <1>3, SetRulesPorts, ProductPorts
<1>5. t.source_port \in Seq(Ports) /\ t.destination_port \in Seq(Ports)
  BY TermIs DEF Prepared
<1> QED
  BY <1>4, <1>5, PortStatementsTest

\* The tokens of a policy are in the book.
BookedIn(zone, addresses, book) ==
  \A token \in Tokens(addresses) : \E a \in book : a.zone = zone /\ a.token = token

\* The book holds the addresses a policy names.
LEMMA TokensHeld ==
  ASSUME NEW zone, NEW addresses, NEW book, Entries(zone, addresses) \subseteq book
  PROVE  BookedIn(zone, addresses, book)
<1> SUFFICES \A token \in Tokens(addresses) : \E a \in book : a.zone = zone /\ a.token = token
  BY DEF BookedIn
<1> TAKE token \in Tokens(addresses)
<1>1. PICK k \in DOMAIN addresses : token = addresses[k].token
  BY DEF Tokens
<1> DEFINE a == [zone |-> zone, token |-> addresses[k].token, net |-> addresses[k].net]
<1>2. a \in book
  BY DEF Entries
<1> QED
  BY <1>1, <1>2

\* Two blocks of one list have two names.
LEMMA NamesDiffer ==
  ASSUME WInv, NEW j \in DOMAIN output, NEW k \in DOMAIN output, j # k,
         output[j].list = output[k].list, Platform \notin {"cisco", "ciscoasa"}
  PROVE  output[j].entry.name # output[k].entry.name
<1>1. PICK place \in [DOMAIN output -> Nat] : PlacedBy(place) /\ ReachedBy(place)
  BY DEF WInv, Placed
<1> DEFINE list == lists[output[j].list]
<1>2. /\ output[j].list \in DOMAIN lists
      /\ place[j] \in DOMAIN list.entries /\ output[j].entry = list.entries[place[j]]
      /\ place[k] \in DOMAIN list.entries /\ output[k].entry = list.entries[place[k]]
  BY <1>1 DEF PlacedBy
<1>3. place[j] # place[k]
  <2>1. j < k \/ k < j
    <3>1. DOMAIN output = 1..Len(output) /\ Len(output) \in Nat
      BY IsSeqGives DEF WInv, GInv, GTyped
    <3> QED
      BY <3>1
  <2>2. \/ PlacedBefore(output[j].list, place[j], output[j].list, place[k])
        \/ PlacedBefore(output[j].list, place[k], output[j].list, place[j])
    BY <1>1, <2>1 DEF PlacedBy
  <2>3. output[j].list \in Nat /\ place[j] \in Nat /\ place[k] \in Nat
    BY <1>2, Numbered DEF WInv, GInv
  <2> QED
    BY <2>2, <2>3 DEF PlacedBefore
<1>4. Named(list)
  BY <1>2 DEF WInv, AllNamed
<1> QED
  BY <1>2, <1>3, <1>4 DEF Named

\* What is rendered loads: names do not clash where the device keeps them apart,
\* matches have no more ports than iptables takes, and SRX policies name addresses
\* and applications that exist (the limits of lib/iptables.py and lib/junipersrx.py).
THEOREM OutputIsWellFormed == Spec => []WellFormed
<1>1. WInv => WellFormed
  <2> SUFFICES ASSUME WInv, NEW j \in DOMAIN output, NEW k \in DOMAIN output
               PROVE  LET b == output[j] IN
    /\ j # k /\ b.list = output[k].list /\ Platform \notin {"cisco", "ciscoasa"} =>
         b.entry.name # output[k].entry.name
    /\ Platform # "ciscoasa" => b.entry.name \in ShortNames
    /\ Platform = "ipset" /\ j # k =>
         LET Names(c) == {s.name : s \in SetsOf(c.entry.term, c.entry.name,
                                               Version(lists[c.list]))}
         IN Names(b) \cap Names(output[k]) # {} =>
              b.list # output[k].list /\ b.entry.name = output[k].entry.name
    /\ Platform \in IptablesFamily =>
         \A r \in b.rules : /\ PortsOf(r.source_port) <= MaxPorts + 1
                            /\ PortsOf(r.destination_port) <= MaxPorts + 1
    /\ Platform = "srx" =>
         LET zones == SrxZones(lists[b.list].options)
             Held(zone, listed) == \A token \in Tokens(listed) :
               \E a \in carried.book : a.zone = zone /\ a.token = token
         IN Held(zones.from, SrxSource(b.entry.term))
              /\ Held(zones.to, SrxDestination(b.entry.term))
    BY Zenon DEF WellFormed
  <2> DEFINE b == output[j]
             c == output[k]
             e == b.entry
             list == lists[b.list]
             zones == SrxZones(list.options)
             Names(x) == {s.name : s \in SetsOf(x.entry.term, x.entry.name,
                                               Version(lists[x.list]))}
  <2>1. /\ b.list \in DOMAIN lists /\ e \in Range(list.entries)
        /\ b.rules = Rendered(e, list).rules
    BY DEF WInv, GInv, Written, IsWritten
  <2>2. PICK m \in DOMAIN list.entries : e = list.entries[m]
    BY <2>1 DEF Range
  <2>3. Prepared(e, list) /\ Booked(e, list)
    BY <2>1, <2>2 DEF WInv, GInv, Fitting
  <2>4. j # k /\ b.list = c.list /\ Platform \notin {"cisco", "ciscoasa"} => e.name # c.entry.name
    BY NamesDiffer
  <2>5. Platform # "ciscoasa" => e.name \in ShortNames
    BY <2>3 DEF Prepared
  <2>6. Platform = "ipset" /\ j # k /\ Names(b) \cap Names(c) # {} =>
          b.list # c.list /\ e.name = c.entry.name
    <3>1. \A t, name, v : \A s \in SetsOf(t, name, v) : s.name[1] = name
      BY DEF SetsOf, SetName
    <3>2. ASSUME NEW x \in Names(b), x \in Names(c)
          PROVE  e.name = c.entry.name
      BY <3>1, <3>2
    <3> QED
      BY <2>4, <3>2
  <2>7. Platform \in IptablesFamily =>
          \A r \in b.rules : /\ PortsOf(r.source_port) <= MaxPorts + 1
                             /\ PortsOf(r.destination_port) <= MaxPorts + 1
    BY <2>1, <2>3, PortsFit
  <2>8. Platform = "srx" =>
          /\ \A token \in Tokens(SrxSource(e.term)) :
               \E a \in carried.book : a.zone = zones.from /\ a.token = token
          /\ \A token \in Tokens(SrxDestination(e.term)) :
               \E a \in carried.book : a.zone = zones.to /\ a.token = token
    <3>1. Platform = "srx" =>
            /\ Entries(zones.from, SrxSource(e.term)) \subseteq carried.book
            /\ Entries(zones.to, SrxDestination(e.term)) \subseteq carried.book
      BY <2>3 DEF Booked
    <3> DEFINE source == SrxSource(e.term)
               destination == SrxDestination(e.term)
               from == zones.from
               to == zones.to
    <3> HIDE DEF source, destination, from, to
    <3>2. Platform = "srx" => Entries(from, source) \subseteq carried.book
                            /\ Entries(to, destination) \subseteq carried.book
      BY <3>1 DEF source, destination, from, to
    <3>3. Platform = "srx" => BookedIn(from, source, carried.book) /\ BookedIn(to, destination, carried.book)
      BY <3>2, TokensHeld
    <3> QED
      BY <3>3, Zenon DEF source, destination, from, to, BookedIn
  <2> QED
    BY <2>4, <2>5, <2>6, <2>7, <2>8, Zenon
<1> QED
  BY <1>1, WInvInit, WInvStep, PTL DEF Spec

-----------------------------------------------------------------------------
(* A term and what it is translated to ask for the same                     *)

\* The fields of the strict reading of a term ...
LEMMA StrictlyIs ==
  ASSUME NEW t, DOMAIN t = DOMAIN EmptyTerm, NEW s, s = Strictly(t)
  PROVE  /\ s.destination_port = IF HasHighPorts(t) THEN Append(t.destination_port, HighPorts)
                                 ELSE t.destination_port
         /\ s.option = StrictOptions(t) /\ DOMAIN s = TermFields
         /\ \A a \in TermFields : a \notin {"destination_port", "option"} => s[a] = t[a]
<1> DEFINE sought == IF HasHighPorts(t) THEN Append(t.destination_port, HighPorts)
                    ELSE t.destination_port
<1>1. DOMAIN t = TermFields /\ "destination_port" \in TermFields /\ "option" \in TermFields
  BY FieldsAre DEF TermFields
<1>2. s = [t EXCEPT !.destination_port = sought, !.option = StrictOptions(t)]
  BY DEF Strictly, StrictOptions
<1> HIDE DEF sought
<1>3. /\ s.destination_port = sought
      /\ s.option = StrictOptions(t) /\ DOMAIN s = TermFields
      /\ \A a \in TermFields : a \notin {"destination_port", "option"} => s[a] = t[a]
  BY <1>1, <1>2
<1> QED
  BY <1>3 DEF sought

\* ... and of the loose one.
LEMMA LooselyIs ==
  ASSUME NEW t, DOMAIN t = DOMAIN EmptyTerm, NEW stateful, NEW l, l = Loosely(t, stateful)
  PROVE  /\ l.option = LooseOptions(t, stateful)
         /\ \A a \in TermFields : a # "option" => l[a] = Strictly(t)[a]
<1> DEFINE s == Strictly(t)
<1>1. s.option = StrictOptions(t) /\ DOMAIN s = TermFields /\ "option" \in TermFields
  BY StrictlyIs DEF TermFields
<1> HIDE DEF s
<1>2. CASE stateful \/ t.protocol = {"tcp"} \/ "tcp-established" \in t.option
  <2>1. l = s /\ LooseOptions(t, stateful) = StrictOptions(t)
    BY <1>2 DEF Loosely, LooseOptions, s
  <2> QED
    BY <1>1, <2>1 DEF s
<1>3. CASE ~(stateful \/ t.protocol = {"tcp"} \/ "tcp-established" \in t.option)
  <2>1. /\ l = [s EXCEPT !.option = @ \ {"established"}]
        /\ LooseOptions(t, stateful) = StrictOptions(t) \ {"established"}
    BY <1>3 DEF Loosely, LooseOptions, s
  <2>2. l.option = LooseOptions(t, stateful) /\ \A a \in TermFields : a # "option" => l[a] = s[a]
    BY <1>1, <2>1
  <2> QED
    BY <2>2 DEF s
<1> QED
  BY <1>2, <1>3

\* Terms that cover the same destination ports, and have all else in common.
LEMMA SameMeets ==
  ASSUME NEW s, NEW u, NEW p, \A a \in TermFields : a # "destination_port" => s[a] = u[a],
         AmongPorts(p.destination_port, s.destination_port) <=>
           AmongPorts(p.destination_port, u.destination_port)
  PROVE  Meets(s, p) <=> Meets(u, p)
<1>1. /\ s.verbatim = u.verbatim /\ s.protocol = u.protocol
      /\ s.protocol_except = u.protocol_except
      /\ s.source_address = u.source_address /\ s.destination_address = u.destination_address
      /\ s.source_address_exclude = u.source_address_exclude
      /\ s.destination_address_exclude = u.destination_address_exclude
      /\ s.address = u.address /\ s.address_exclude = u.address_exclude
      /\ s.source_port = u.source_port /\ s.port = u.port /\ s.option = u.option
      /\ s.precedence = u.precedence /\ s.fragment_offset = u.fragment_offset
      /\ s.packet_length = u.packet_length /\ s.icmp_type = u.icmp_type
      /\ s.source_prefix = u.source_prefix /\ s.destination_prefix = u.destination_prefix
  BY DEF TermFields
<1> QED
  BY <1>1, Zenon DEF Meets, Matches

\* To be among ports depends on what they cover.
LEMMA AmongCover ==
  ASSUME NEW s, NEW u, s = <<>> <=> u = <<>>, NEW c, c \in Cover(s) <=> c \in Cover(u)
  PROVE  AmongPorts(c, s) <=> AmongPorts(c, u)
BY DEF AmongPorts

\* What ports cover with the high ports.
LEMMA CoverOfAdded ==
  ASSUME NEW d \in Seq(Ports), NEW u, u = Append(d, HighPorts)
  PROVE  u # <<>> /\ \A c : c \in Cover(u) <=> c \in Cover(d) \/ c \in Span(HighPorts)
<1>1. HighPorts \in Ports
  BY AclGeneratorAssumption DEF Ports
<1>2. /\ Len(d) \in Nat /\ u # <<>> /\ DOMAIN d = 1..Len(d)
      /\ DOMAIN u = 1..(Len(d) + 1) /\ u[Len(d) + 1] = HighPorts
      /\ \A k \in 1..Len(d) : u[k] = d[k]
  BY <1>1
<1>3. \A k : k \in DOMAIN u <=> k \in DOMAIN d \/ k = Len(d) + 1
  BY <1>2
<1> QED
  BY <1>2, <1>3, CoverHolds

\* A term asks the same with its high ports added.
LEMMA FixedAsks ==
  ASSUME NEW t, NEW r, DOMAIN t = DOMAIN EmptyTerm, DOMAIN r = DOMAIN EmptyTerm,
         t.destination_port \in Seq(Ports), r.destination_port \in Seq(Ports),
         \A a \in TermFields : a # "destination_port" => r[a] = t[a],
         HasHighPorts(t) => Cover(r.destination_port) = Cover(t.destination_port) \cup Span(HighPorts),
         ~HasHighPorts(t) => r.destination_port = t.destination_port,
         NEW stateful, NEW p
  PROVE  /\ Meets(Strictly(r), p) <=> Meets(Strictly(t), p)
         /\ Meets(Loosely(r, stateful), p) <=> Meets(Loosely(t, stateful), p)
<1> DEFINE s == Strictly(r)
           u == Strictly(t)
           l == Loosely(r, stateful)
           m == Loosely(t, stateful)
           c == p.destination_port
<1>1. r.option = t.option /\ r.protocol = t.protocol
  BY DEF TermFields
<1>2. /\ HasHighPorts(r) <=> HasHighPorts(t)
      /\ StrictOptions(r) = StrictOptions(t) /\ LooseOptions(r, stateful) = LooseOptions(t, stateful)
  BY <1>1 DEF HasHighPorts, Established, StrictOptions, LooseOptions, Tracks
<1>3. /\ s.destination_port = IF HasHighPorts(r) THEN Append(r.destination_port, HighPorts)
                              ELSE r.destination_port
      /\ s.option = StrictOptions(r)
      /\ \A a \in TermFields : a \notin {"destination_port", "option"} => s[a] = r[a]
  BY StrictlyIs
<1>4. /\ u.destination_port = IF HasHighPorts(t) THEN Append(t.destination_port, HighPorts)
                              ELSE t.destination_port
      /\ u.option = StrictOptions(t)
      /\ \A a \in TermFields : a \notin {"destination_port", "option"} => u[a] = t[a]
  BY StrictlyIs
<1>5. l.option = LooseOptions(r, stateful) /\ \A a \in TermFields : a # "option" => l[a] = s[a]
  BY LooselyIs
<1>6. m.option = LooseOptions(t, stateful) /\ \A a \in TermFields : a # "option" => m[a] = u[a]
  BY LooselyIs
<1> HIDE DEF s, u, l, m
<1>7. AmongPorts(c, s.destination_port) <=> AmongPorts(c, u.destination_port)
  <2>1. CASE ~HasHighPorts(t)
    BY <1>2, <1>3, <1>4, <2>1
  <2>2. CASE HasHighPorts(t)
    <3> DEFINE sd == s.destination_port
               ud == u.destination_port
    <3>1. sd = Append(r.destination_port, HighPorts) /\ ud = Append(t.destination_port, HighPorts)
      BY <1>2, <1>3, <1>4, <2>2
    <3> HIDE DEF sd, ud
    <3>2. /\ sd # <<>> /\ ud # <<>>
          /\ \A x : x \in Cover(sd) <=> x \in Cover(r.destination_port) \/ x \in Span(HighPorts)
          /\ \A x : x \in Cover(ud) <=> x \in Cover(t.destination_port) \/ x \in Span(HighPorts)
      BY <3>1, CoverOfAdded
    <3>3. c \in Cover(sd) <=> c \in Cover(ud)
      BY <2>2, <3>2
    <3> QED
      BY <3>2, <3>3, AmongCover DEF sd, ud
  <2> QED
    BY <2>1, <2>2
<1>8. \A a \in TermFields : a # "destination_port" => s[a] = u[a]
  BY <1>2, <1>3, <1>4
<1>9. Meets(s, p) <=> Meets(u, p)
  BY <1>7, <1>8, SameMeets
<1>10. \A a \in TermFields : a # "destination_port" => l[a] = m[a]
  BY <1>2, <1>5, <1>6, <1>8
<1>11. l.destination_port = s.destination_port /\ m.destination_port = u.destination_port
  BY <1>5, <1>6 DEF TermFields
<1>12. Meets(l, p) <=> Meets(m, p)
  BY <1>7, <1>10, <1>11, SameMeets
<1> QED
  BY <1>9, <1>12 DEF s, u, l, m

\* The reading of a term differs in the addresses only.
LEMMA ReadingIs ==
  ASSUME NEW t, DOMAIN t = DOMAIN EmptyTerm, NEW list, NEW x, x = Reading(t, list)
  PROVE  /\ DOMAIN x = DOMAIN EmptyTerm
         /\ \A a \in TermFields : a \notin {"address", "source_address"} => x[a] = t[a]
         /\ x.address = IF list.type = "standard" THEN <<>> ELSE t.address
         /\ x.source_address = IF list.type = "standard" THEN t.address ELSE t.source_address
<1>1. DOMAIN t = TermFields /\ {"address", "source_address"} \subseteq TermFields
  BY FieldsAre DEF TermFields
<1> QED
  BY <1>1, FieldsAre DEF Reading

\* A packet must, or may, be caught by a translated term as by the term itself.
LEMMA TranslatedAsks ==
  ASSUME NEW e, EntryInForm(e), NEW list, NEW m, NEW r, r = Translated(e, m), NEW p
  PROVE  /\ MustCatch(r, list, p) <=> MustCatch(e, list, p)
         /\ MayCatch(r, list, p) <=> MayCatch(e, list, p)
<1> DEFINE t == e.term
           w == r.term
           x == Reading(t, list)
           y == Reading(w, list)
<1>1. TermInForm(t) /\ TermInForm(w) /\ \A platform : ActiveOn(w, platform) <=> ActiveOn(t, platform)
  BY TranslatedTerm DEF EntryInForm
<1>2. /\ DOMAIN t = DOMAIN EmptyTerm /\ DOMAIN w = DOMAIN EmptyTerm
      /\ t.destination_port \in Seq(Ports) /\ w.destination_port \in Seq(Ports)
  BY <1>1, TermIs
<1>3. \A a \in TermFields : a # "destination_port" => w[a] = t[a]
  BY TranslatedTerm
<1>4. w = t \/ w = FixHighPorts(t)
  BY TranslatedIs
<1>5. CASE w = t
  BY <1>1, <1>5, Zenon DEF MustCatch, MayCatch
<1>6. CASE w = FixHighPorts(t)
  <2>1. /\ HasHighPorts(t) => Cover(w.destination_port) = Cover(t.destination_port) \cup Span(HighPorts)
        /\ ~HasHighPorts(t) => w = t
    <3> HIDE DEF w
    <3> QED
      BY <1>2, <1>6, FixHighPortsAdds
  <2> HIDE DEF w, t
  <2>2. /\ DOMAIN x = DOMAIN EmptyTerm
        /\ \A a \in TermFields : a \notin {"address", "source_address"} => x[a] = t[a]
        /\ x.address = IF list.type = "standard" THEN <<>> ELSE t.address
        /\ x.source_address = IF list.type = "standard" THEN t.address ELSE t.source_address
    BY <1>2, ReadingIs
  <2>3. /\ DOMAIN y = DOMAIN EmptyTerm
        /\ \A a \in TermFields : a \notin {"address", "source_address"} => y[a] = w[a]
        /\ y.address = IF list.type = "standard" THEN <<>> ELSE w.address
        /\ y.source_address = IF list.type = "standard" THEN w.address ELSE w.source_address
    BY <1>2, ReadingIs
  <2> HIDE DEF x, y
  <2>4. /\ w.address = t.address /\ w.source_address = t.source_address
        /\ x.destination_port = t.destination_port /\ x.option = t.option /\ x.protocol = t.protocol
        /\ y.destination_port = w.destination_port
    BY <1>3, <2>2, <2>3 DEF TermFields
  <2>5. HasHighPorts(x) <=> HasHighPorts(t)
    BY <2>4 DEF HasHighPorts, Established
  <2>6. \A a \in TermFields : a # "destination_port" => y[a] = x[a]
    BY <1>3, <2>2, <2>3, <2>4
  <2>7. \A stateful : /\ Meets(Strictly(y), p) <=> Meets(Strictly(x), p)
                      /\ Meets(Loosely(y, stateful), p) <=> Meets(Loosely(x, stateful), p)
    BY <1>2, <2>1, <2>2, <2>3, <2>4, <2>5, <2>6, FixedAsks
  <2> QED
    BY <1>1, <2>7, Zenon DEF MustCatch, MayCatch, x, y, t, w
<1> QED
  BY <1>4, <1>5, <1>6

-----------------------------------------------------------------------------
(* Lists hold the entries of their filters                                  *)

EntriesOf(list) == Filters[list.filter].entries

\* The list has, in their order, those of the first n entries that stay.
FilledBy(list, n, origin) ==
  /\ \A j \in DOMAIN list.entries :
       /\ origin[j] \in 1..n /\ Stays(EntriesOf(list)[origin[j]])
       /\ list.entries[j] = Translated(EntriesOf(list)[origin[j]], list)
  /\ \A j, k \in DOMAIN list.entries : j < k => origin[j] < origin[k]
  /\ \A m \in 1..n : Stays(EntriesOf(list)[m]) => \E j \in DOMAIN list.entries : origin[j] = m

Filled(list, n) == \E origin \in [DOMAIN list.entries -> Nat] : FilledBy(list, n, origin)

\* How many entries of its filter a list has had.
Had(l) ==
  IF l < li THEN Len(EntriesOf(lists[l])) ELSE IF l = li THEN ti - 1 ELSE 0

AllFilled ==
  \A l \in DOMAIN lists :
    /\ phase = "translate" => Filled(lists[l], Had(l))
    /\ phase \in {"render", "done"} => Filled(lists[l], Len(EntriesOf(lists[l])))

\* What a list has depends on it and the job alone.
LEMMA FilledKept ==
  ASSUME job' = job
  PROVE  \A list, n : /\ Filled(list, n)' <=> Filled(list, n)
                      /\ EntriesOf(list)' = EntriesOf(list)
<1>1. Platform' = Platform /\ Filters' = Filters
  BY JobKept
<1>2. \A list : EntriesOf(list)' = EntriesOf(list)
  BY <1>1 DEF EntriesOf
<1>3. \A e : Stays(e)' <=> Stays(e)
  BY <1>1 DEF Stays
<1>4. \A list, n, origin : FilledBy(list, n, origin)' <=> FilledBy(list, n, origin)
  BY <1>2, <1>3, JobKept DEF FilledBy
<1>5. \A list, n : Filled(list, n)' <=> Filled(list, n)
  BY <1>4 DEF Filled
<1> QED
  BY <1>2, <1>5

\* A list is empty at first.
LEMMA NothingFilled ==
  ASSUME NEW list, list.entries = <<>>
  PROVE  Filled(list, 0)
<1>1. DOMAIN list.entries = {} /\ 1..0 = {}
  BY EmptyIsSeq
<1>2. PICK origin : origin \in [DOMAIN list.entries -> Nat]
  <2>1. [j \in {} |-> 0] \in [{} -> Nat]
    OBVIOUS
  <2> QED
    BY <1>1, <2>1
<1> QED
  BY <1>1, <1>2 DEF Filled, FilledBy

\* Filling a list with the next entry.
LEMMA FilledMore ==
  ASSUME NEW list, NEW new, NEW n \in Nat, Filled(list, n),
         new.filter = list.filter, new.options = list.options,
         IsSeq(list.entries),
         IF Stays(EntriesOf(list)[n + 1])
         THEN IsAppended(new.entries, list.entries, Translated(EntriesOf(list)[n + 1], list))
         ELSE new.entries = list.entries
  PROVE  Filled(new, n + 1)
<1> DEFINE E == EntriesOf(list)
           e == E[n + 1]
           len == Len(list.entries)
<1>1. PICK old \in [DOMAIN list.entries -> Nat] : FilledBy(list, n, old)
  BY DEF Filled
<1>2. EntriesOf(new) = E
  BY DEF EntriesOf
<1>3. \A x : Translated(x, new) = Translated(x, list)
  BY DEF Translated
<1>4. len \in Nat /\ DOMAIN list.entries = 1..len
  BY IsSeqGives
<1> HIDE DEF E, len
<1>5. /\ \A j \in 1..len : /\ old[j] \in 1..n /\ Stays(E[old[j]])
                           /\ list.entries[j] = Translated(E[old[j]], list)
      /\ \A j, k \in 1..len : j < k => old[j] < old[k]
      /\ \A m \in 1..n : Stays(E[m]) => \E j \in 1..len : old[j] = m
  BY <1>1, <1>4 DEF FilledBy, E
<1>6. \A m \in 1..(n + 1) : m \in 1..n \/ m = n + 1
  OBVIOUS
<1>7. \A j \in 1..len : old[j] \in 1..(n + 1) /\ old[j] < n + 1
  BY <1>5
<1>8. CASE ~Stays(e)
  <2>1. new.entries = list.entries
    BY <1>8 DEF E
  <2>2. FilledBy(new, n + 1, old)
    <3>1. \A j \in 1..len : /\ old[j] \in 1..(n + 1) /\ Stays(E[old[j]])
                            /\ new.entries[j] = Translated(E[old[j]], new)
      BY <1>3, <1>5, <1>7, <2>1
    <3>2. \A m \in 1..(n + 1) : Stays(E[m]) => \E j \in 1..len : old[j] = m
      BY <1>5, <1>6, <1>8
    <3> QED
      BY <1>2, <1>4, <1>5, <2>1, <3>1, <3>2 DEF FilledBy
  <2> QED
    BY <1>1, <2>1, <2>2 DEF Filled
<1>9. CASE Stays(e)
  <2>1. IsAppended(new.entries, list.entries, Translated(e, list))
    BY <1>9 DEF E
  <2>2. /\ DOMAIN new.entries = 1..(len + 1) /\ new.entries[len + 1] = Translated(e, list)
        /\ \A j \in 1..len : new.entries[j] = list.entries[j]
    BY <2>1, AppendIs DEF len
  <2>3. PICK origin : /\ origin \in [1..(len + 1) -> Nat] /\ origin[len + 1] = n + 1
                      /\ \A j \in 1..len : origin[j] = old[j]
    <3> DEFINE o == [j \in 1..(len + 1) |-> IF j \in 1..len THEN old[j] ELSE n + 1]
    <3>1. o \in [1..(len + 1) -> Nat] /\ o[len + 1] = n + 1 /\ \A j \in 1..len : o[j] = old[j]
      BY <1>1, <1>4
    <3> HIDE DEF o
    <3> QED
      BY <3>1
  <2>4. \A j \in 1..(len + 1) : j \in 1..len \/ j = len + 1
    BY <1>4
  <2>5. \A j \in 1..(len + 1) : /\ origin[j] \in 1..(n + 1) /\ Stays(E[origin[j]])
                                /\ new.entries[j] = Translated(E[origin[j]], new)
    <3> TAKE j \in 1..(len + 1)
    <3>1. CASE j \in 1..len
      BY <1>3, <1>5, <1>7, <2>2, <2>3, <3>1
    <3>2. CASE j = len + 1
      BY <1>3, <1>9, <2>2, <2>3, <3>2
    <3> QED
      BY <2>4, <3>1, <3>2
  <2>6. ASSUME NEW j \in 1..(len + 1), NEW k \in 1..(len + 1), j < k
        PROVE  origin[j] < origin[k]
    <3>1. j \in 1..len
      BY <1>4, <2>6
    <3>2. CASE k \in 1..len
      BY <1>5, <2>3, <2>6, <3>1, <3>2
    <3>3. CASE k = len + 1
      BY <1>7, <2>3, <3>1, <3>3
    <3> QED
      BY <2>4, <3>2, <3>3
  <2>7. ASSUME NEW m \in 1..(n + 1), Stays(E[m])
        PROVE  \E j \in 1..(len + 1) : origin[j] = m
    <3>1. CASE m \in 1..n
      <4>1. PICK j \in 1..len : old[j] = m
        BY <1>5, <2>7, <3>1
      <4>2. j \in 1..(len + 1)
        BY <1>4
      <4> QED
        BY <2>3, <4>1, <4>2
    <3>2. CASE m = n + 1
      <4>1. len + 1 \in 1..(len + 1)
        BY <1>4
      <4> QED
        BY <2>3, <3>2, <4>1
    <3> QED
      BY <1>6, <3>1, <3>2
  <2>8. FilledBy(new, n + 1, origin)
    BY <1>2, <2>2, <2>5, <2>6, <2>7 DEF FilledBy
  <2> QED
    BY <2>2, <2>3, <2>8 DEF Filled
<1> QED
  BY <1>8, <1>9

\* A filter that is begun has had no entry,
LEMMA FilledBegun ==
  ASSUME GTyped, Progress, AllFilled, Begun
  PROVE  AllFilled'
<1>1. /\ phase = "translate" /\ phase' = "translate" /\ job' = job /\ li' = li /\ ti' = 1 /\ Fresh
      /\ Filters' = Filters
  BY JobKept DEF Begun, Translating
<1>2. /\ Len(lists) \in Nat /\ DOMAIN lists = 1..Len(lists) /\ li \in Nat \ {0}
      /\ li = Len(lists) + 1
  BY <1>1, Numbered DEF Progress, Fresh
<1>3. \A l \in DOMAIN lists' : l \in Nat
  BY IsSeqGives DEF Begun
<1>4. ASSUME NEW l \in DOMAIN lists'
      PROVE  Filled(lists'[l], IF l < li THEN Len(EntriesOf(lists'[l])) ELSE IF l = li THEN 0 ELSE 0)
  <2>1. CASE l <= Len(lists)
    <3>1. l \in DOMAIN lists /\ lists'[l] = lists[l] /\ l < li
      <4>1. l \in Nat \ {0}
        BY IsSeqGives DEF Begun
      <4>2. l \in 1..Len(lists) /\ l < li
        BY <1>2, <2>1, <4>1
      <4> QED
        BY <1>2, <4>2 DEF Begun
    <3>2. Filled(lists[l], Len(EntriesOf(lists[l])))
      BY <1>1, <3>1 DEF AllFilled, Had
    <3> QED
      BY <3>1, <3>2
  <2>2. CASE l > Len(lists)
    <3>1. lists'[l].entries = <<>>
      BY <2>2 DEF Begun, NewList
    <3>2. ~(l < li)
      BY <1>2, <1>3, <2>2
    <3> QED
      BY <3>1, <3>2, NothingFilled
  <2> QED
    BY <1>2, <1>3, <2>1, <2>2
<1>5. \A l \in DOMAIN lists' : \A list : list = lists'[l] => EntriesOf(list)' = EntriesOf(list)
  BY <1>1, FilledKept
<1>6. \A l \in DOMAIN lists' : Filled(lists'[l], Had(l)')
  <2> TAKE l \in DOMAIN lists'
  <2>1. Had(l)' = IF l < li THEN Len(EntriesOf(lists'[l])) ELSE IF l = li THEN 0 ELSE 0
    BY <1>1 DEF Had, EntriesOf
  <2> QED
    BY <1>4, <2>1
<1> QED
  BY <1>1, <1>6, FilledKept DEF AllFilled

\* a term that is translated is the next one,
LEMMA FilledMoved ==
  ASSUME GTyped, Progress, AllFilled, Moved
  PROVE  AllFilled'
<1> DEFINE list == lists[li]
           new == lists'[li]
           e == Filters[fi].entries[ti]
<1>1. /\ phase = "translate" /\ phase' = "translate" /\ job' = job /\ li' = li /\ ti' = ti + 1
      /\ Filters' = Filters /\ DOMAIN lists' = DOMAIN lists /\ li \in DOMAIN lists
      /\ \A l \in DOMAIN lists : l # li => lists'[l] = lists[l]
      /\ new.filter = list.filter /\ new.options = list.options
  BY JobKept DEF Moved, Translating, Refilled
<1>2. ti \in Nat \ {0} /\ li \in Nat \ {0} /\ list.filter = fi
  BY <1>1, Numbered DEF Progress
<1>3. EntriesOf(list)[ti] = e
  BY <1>2 DEF EntriesOf
<1>4. IF Stays(e) THEN IsAppended(new.entries, list.entries, Translated(e, list))
      ELSE new.entries = list.entries
  BY DEF Moved, Refilled, IsAppended
<1>5. IsSeq(list.entries)
  BY <1>1, EntriesAre
<1>6. Filled(list, ti - 1)
  BY <1>1 DEF AllFilled, Had
<1>7. Filled(new, ti)
  <2> DEFINE n == ti - 1
  <2>1. n \in Nat /\ n + 1 = ti
    BY <1>2
  <2> HIDE DEF n, new, list, e
  <2>2. Filled(new, n + 1)
    BY <1>1, <1>3, <1>4, <1>5, <1>6, <2>1, FilledMore DEF n
  <2> QED
    BY <2>1, <2>2
<1>8. \A l \in DOMAIN lists' : Filled(lists'[l], Had(l)')
  <2> TAKE l \in DOMAIN lists'
  <2>1. Had(l)' = IF l < li THEN Len(EntriesOf(lists'[l])) ELSE IF l = li THEN ti ELSE 0
    <3> HIDE DEF new, list, e
    <3> QED
      BY <1>1, <1>2 DEF Had, EntriesOf
  <2>2. CASE l = li
    <3>1. Had(l)' = ti
      BY <1>2, <2>1, <2>2
    <3> QED
      BY <1>7, <2>2, <3>1
  <2>3. CASE l # li
    <3>1. lists'[l] = lists[l] /\ Had(l)' = Had(l)
      BY <1>1, <2>1, <2>3 DEF Had
    <3> QED
      BY <1>1, <3>1 DEF AllFilled
  <2> QED
    BY <2>2, <2>3
<1> QED
  BY <1>1, <1>8, FilledKept DEF AllFilled

\* and every step leaves the lists filled that far.
LEMMA FilledStep ==
  ASSUME GTyped, Progress, AllFilled, [Next]_vars
  PROVE  AllFilled'
<1>1. Len(lists) \in Nat /\ DOMAIN lists = 1..Len(lists) /\ li \in Nat \ {0} /\ ti \in Nat \ {0}
  BY Numbered
<1>2. CASE Refuse
  BY <1>2 DEF Refuse, AllFilled
<1>3. CASE CheckKeywords /\ ~Refuse
  <2>1. DOMAIN lists' = {}
    BY <1>3, EmptyIsSeq DEF CheckKeywords, Progress
  <2> QED
    BY <2>1 DEF AllFilled
<1>4. CASE SkipFilter
  <2>1. UNCHANGED <<job, phase, li, ti, lists>>
    BY <1>4 DEF SkipFilter
  <2>2. \A l : Had(l)' = Had(l)
    BY <2>1, FilledKept DEF Had
  <2> QED
    BY <2>1, <2>2, FilledKept DEF AllFilled
<1>5. CASE StartFilter
  BY <1>2, <1>5, StartBegins, FilledBegun
<1>6. CASE TranslateTerm
  BY <1>2, <1>6, TranslateMoves, FilledMoved
<1>7. CASE FinishList
  <2>1. /\ phase = "translate" /\ ~Fresh /\ li' = li + 1 /\ ti' = 1 /\ fi <= Len(Filters)
        /\ ti > Len(Filters[fi].entries) /\ UNCHANGED <<job, phase, lists>>
    BY <1>7 DEF FinishList, Translating
  <2>2. li \in DOMAIN lists /\ lists[li].filter = fi /\ ti <= Len(Filters[fi].entries) + 1
    BY <1>1, <2>1 DEF Progress, Fresh
  <2>3. ti - 1 = Len(EntriesOf(lists[li]))
    <3>1. fi \in DOMAIN Filters /\ Len(Filters[fi].entries) \in Nat
      BY <2>1, Numbered
    <3> QED
      BY <1>1, <2>1, <2>2, <3>1 DEF EntriesOf
  <2>4. \A l \in DOMAIN lists : Had(l)' = Had(l)
    <3> TAKE l \in DOMAIN lists
    <3>1. Had(l)' = IF l < li + 1 THEN Len(EntriesOf(lists[l])) ELSE IF l = li + 1 THEN 1 - 1 ELSE 0
      BY <2>1, FilledKept DEF Had
    <3> DEFINE n == Len(EntriesOf(lists[l]))
               was == ti - 1
    <3>2. l \in Nat
      BY <1>1
    <3>3. Had(l) = IF l < li THEN n ELSE IF l = li THEN was ELSE 0
      BY DEF Had
    <3>4. l = li => was = n
      BY <2>3
    <3> HIDE DEF n, was
    <3> QED
      BY <1>1, <3>1, <3>2, <3>3, <3>4 DEF n
  <2> QED
    BY <2>1, <2>4, FilledKept DEF AllFilled
<1>8. CASE FinishTranslation
  <2>1. /\ phase = "translate" /\ fi > Len(Filters) /\ phase' = "render"
        /\ UNCHANGED <<job, lists>>
    BY <1>8 DEF FinishTranslation
  <2>2. Fresh
    <3>1. SUFFICES ASSUME ~Fresh PROVE FALSE
      OBVIOUS
    <3>2. li \in DOMAIN lists
      BY <1>1, <3>1 DEF Fresh
    <3>3. lists[li].filter = fi /\ fi \in DOMAIN Filters
      BY <2>1, <3>2, Numbered DEF Progress, GTyped, IsList
    <3> QED
      BY <2>1, <3>3, Numbered
  <2>3. \A l \in DOMAIN lists : l < li
    BY <1>1, <2>2 DEF Fresh
  <2>4. \A l \in DOMAIN lists : Filled(lists[l], Len(EntriesOf(lists[l])))
    BY <2>1, <2>3 DEF AllFilled, Had
  <2> QED
    BY <2>1, <2>4, FilledKept DEF AllFilled
<1>9. CASE RenderTerm \/ NextList \/ Finish
  <2>1. /\ phase \in {"render", "done"} /\ UNCHANGED <<job, lists>> /\ phase' # "translate"
    BY <1>9 DEF RenderTerm, NextList, Finish, Refuse
  <2> QED
    BY <2>1, FilledKept DEF AllFilled
<1>10. CASE UNCHANGED vars
  <2>1. UNCHANGED <<job, phase, li, ti, lists>>
    BY <1>10 DEF vars
  <2>2. \A l : Had(l)' = Had(l)
    BY <2>1, FilledKept DEF Had
  <2> QED
    BY <2>1, <2>2, FilledKept DEF AllFilled
<1> QED
  BY <1>2, <1>3, <1>4, <1>5, <1>6, <1>7, <1>8, <1>9, <1>10 DEF Next, Ended

\* What decides is the same where the places correspond in order.
LEMMA SameDecision ==
  ASSUME NEW x, NEW y, DOMAIN x \subseteq Nat, DOMAIN y \subseteq Nat, NEW f,
         \A k \in DOMAIN x : f[k] \in DOMAIN y /\ x[k] = y[f[k]],
         \A j, k \in DOMAIN x : j < k => f[j] < f[k],
         \A m \in DOMAIN y : \E k \in DOMAIN x : f[k] = m
  PROVE  Decision(x) = Decision(y)
<1> DEFINE b == {k \in DOMAIN x : x[k] # {"next"}}
           w == {k \in DOMAIN y : y[k] # {"next"}}
           i == Min(b)
           m == Min(w)
<1>1. /\ Decision(x) = IF b = {} THEN NONE ELSE Verdict(x[i])
      /\ Decision(y) = IF w = {} THEN NONE ELSE Verdict(y[m])
  BY DEF Decision
<1>2. b \subseteq Nat /\ w \subseteq Nat /\ b \subseteq DOMAIN x /\ w \subseteq DOMAIN y
  OBVIOUS
<1>3. \A k \in DOMAIN x : k \in b <=> f[k] \in w
  OBVIOUS
<1>4. \A n \in w : \E k \in b : f[k] = n
  OBVIOUS
<1>5. /\ b # {} => i \in b /\ \A k \in b : i <= k
      /\ w # {} => m \in w /\ \A k \in w : m <= k
  BY <1>2, LeastOf
<1> HIDE DEF b, w, i, m
<1>6. CASE b = {}
  BY <1>1, <1>4, <1>6
<1>7. CASE b # {}
  <2>1. i \in b /\ f[i] \in w /\ m \in w /\ m <= f[i]
    BY <1>2, <1>3, <1>5, <1>7
  <2>2. PICK k \in b : f[k] = m
    BY <1>4, <2>1
  <2>3. f[i] \in Nat /\ m \in Nat /\ i \in Nat /\ k \in Nat /\ i <= k
    BY <1>2, <1>5, <1>7, <2>1
  <2>4. ~(i < k)
    BY <1>2, <2>1, <2>2, <2>3
  <2>5. f[i] = m
    BY <2>2, <2>3, <2>4
  <2>6. Verdict(x[i]) = Verdict(y[m])
    BY <1>2, <2>1, <2>5
  <2> QED
    BY <1>1, <1>7, <2>1, <2>6
<1> QED
  BY <1>6, <1>7

DInv == WInv /\ AllFilled

\* The invariant with the entries of the lists holds at first ...
LEMMA DInvInit == Init => DInv
<1>1. Init => DOMAIN lists = {}
  BY EmptyIsSeq DEF Init
<1> QED
  BY <1>1, WInvInit DEF DInv, AllFilled

\* ... and every step keeps it.
LEMMA DInvStep == DInv /\ [Next]_vars => DInv'
BY WInvStep, FilledStep DEF DInv, WInv, GInv

\* An entry that is read as it is written.
ClearOn(e, list, p) ==
  /\ MustCatch(e, list, p) = MayCatch(e, list, p)
  /\ \/ e.expired /\ Platform # "srx"
     \/ AsMeant(Translated(e, list), list)

\* The block of an entry catches the packets the entry does.
LEMMA BlockCatches ==
  ASSUME DInv, NEW k \in DOMAIN output, NEW e, EntryInForm(e), Stays(e),
         NEW list, list = lists[output[k].list],
         output[k].entry = Translated(e, list),
         NEW p \in PacketsOf(list), ClearOn(e, list, p)
  PROVE  /\ ~e.expired
         /\ Catches(output[k], p) <=> MustCatch(e, list, p)
<1> DEFINE b == output[k]
           r == b.entry
<1>1. r = Translated(e, list) /\ AsMeant(r, list)
  BY DEF ClearOn, Stays
<1>2. IsWritten(b)
  BY DEF DInv, WInv, GInv, Written
<1>3. b.list \in DOMAIN lists /\ r \in Range(list.entries) /\ ~RenderRefused(r, list)
      /\ b.except = Rendered(r, list).except /\ b.rules = Rendered(r, list).rules
  BY <1>2 DEF IsWritten
<1>4. PICK j \in DOMAIN list.entries : r = list.entries[j]
  BY <1>3 DEF Range
<1>5. TypeFits(list) /\ Prepared(r, list) /\ Booked(r, list) /\ BookHolds(carried.book)
  BY <1>3, <1>4 DEF DInv, WInv, GInv, Fitting
<1>6. list.entries # <<>>
  BY <1>4, EmptyIsSeq
<1>7. Platform \in Platforms
  BY JobIs DEF DInv, WInv, GInv, GTyped, JobHolds
<1>8. PacketInForm(p)
  BY GeneratorsAssumption DEF PacketsOf
<1> HIDE DEF b, r
<1>9. About(r, list, p)
  BY <1>1, <1>3, <1>5, <1>6, <1>7, <1>8 DEF About
<1>10. (MustCatch(r, list, p) => Catches(b, p)) /\ (Catches(b, p) => MayCatch(r, list, p))
  BY <1>3, <1>9, BlockAnswers
<1>11. (MustCatch(r, list, p) <=> MustCatch(e, list, p)) /\ (MayCatch(r, list, p) <=> MayCatch(e, list, p))
  BY <1>1, TranslatedAsks
<1>12. MustCatch(e, list, p) <=> MayCatch(e, list, p)
  BY DEF ClearOn
<1>13. ~e.expired
  <2>1. CASE Platform # "srx"
    BY <2>1 DEF Stays
  <2>2. CASE Platform = "srx"
    <3>1. SrxAsMeant(r, SrxZones(list.options), carried.book, carried.apps)
      BY <1>1, <2>2 DEF AsMeant, IptablesFamily
    <3>2. ~r.expired
      BY <3>1 DEF SrxAsMeant
    <3>3. r.expired = e.expired
      BY <1>1, TranslatedIs
    <3> QED
      BY <3>2, <3>3
  <2> QED
    BY <2>1, <2>2
<1> QED
  BY <1>10, <1>11, <1>12, <1>13 DEF b

\* The blocks of a list are of the entries of its filter that stay.
LEMMA BlocksAre ==
  ASSUME DInv, phase = "done", NEW l \in 1..ListsWritten
  PROVE  \E f : LET E == EntriesOf(lists[l])
                    B == {k \in DOMAIN output : output[k].list = l}
                IN /\ \A k \in B : /\ f[k] \in DOMAIN E /\ Stays(E[f[k]])
                                   /\ output[k].entry = Translated(E[f[k]], lists[l])
                   /\ \A j, k \in B : j < k => f[j] < f[k]
                   /\ \A m \in DOMAIN E : Stays(E[m]) => \E k \in B : f[k] = m
<1> DEFINE list == lists[l]
           E == EntriesOf(list)
           B == {k \in DOMAIN output : output[k].list = l}
<1>1. l \in DOMAIN lists /\ l \in Nat
  BY WrittenLists DEF DInv, WInv, GInv
<1>2. DOMAIN E = 1..Len(E)
  BY <1>1, JobIs, IsSeqGives DEF DInv, WInv, GInv, GTyped, IsList, JobHolds, EntriesOf
<1>3. PICK place \in [DOMAIN output -> Nat] : PlacedBy(place) /\ ReachedBy(place)
  BY DEF DInv, WInv, Placed
<1>4. PICK origin \in [DOMAIN list.entries -> Nat] : FilledBy(list, Len(E), origin)
  <2>1. Filled(list, Len(E))
    BY <1>1 DEF DInv, AllFilled
  <2> QED
    BY <2>1 DEF Filled
<1>5. /\ \A k \in B : place[k] \in DOMAIN list.entries /\ output[k].entry = list.entries[place[k]]
      /\ \A k \in DOMAIN list.entries : \E j \in B : place[j] = k
  BY <1>3 DEF PlacedBy, ReachedBy
<1>6. \A j, k \in B : j < k => place[j] < place[k]
  <2> TAKE j, k \in B
  <2> HAVE j < k
  <2>1. PlacedBefore(output[j].list, place[j], output[k].list, place[k])
    BY <1>3 DEF PlacedBy
  <2> QED
    BY <1>1, <2>1 DEF PlacedBefore
<1>7. /\ \A j \in DOMAIN list.entries :
           /\ origin[j] \in DOMAIN E /\ Stays(E[origin[j]])
           /\ list.entries[j] = Translated(E[origin[j]], list)
      /\ \A j, k \in DOMAIN list.entries : j < k => origin[j] < origin[k]
      /\ \A m \in DOMAIN E : Stays(E[m]) => \E j \in DOMAIN list.entries : origin[j] = m
  BY <1>2, <1>4 DEF FilledBy
<1> DEFINE f == [k \in B |-> origin[place[k]]]
<1> HIDE DEF list, E, B
<1>8. \A k \in B : f[k] = origin[place[k]]
  OBVIOUS
<1> HIDE DEF f
<1>9. /\ \A k \in B : /\ f[k] \in DOMAIN E /\ Stays(E[f[k]])
                      /\ output[k].entry = Translated(E[f[k]], list)
      /\ \A j, k \in B : j < k => f[j] < f[k]
  BY <1>5, <1>6, <1>7, <1>8
<1>10. ASSUME NEW m \in DOMAIN E, Stays(E[m])
       PROVE  \E k \in B : f[k] = m
  <2>1. PICK j \in DOMAIN list.entries : origin[j] = m
    BY <1>7, <1>10
  <2>2. PICK k \in B : place[k] = j
    BY <1>5
  <2> QED
    BY <1>8, <2>1, <2>2
<1> QED
  BY <1>9, <1>10 DEF list, E, B

\* A rendered filter decides every packet as the policy does, by the first term
\* that is not expired, for this platform and not a next (the loops of
\* _TranslatePolicy and __str__ in lib/), for policies of every length: the blocks
\* are those of the entries that stay, in their order.
THEOREM DecisionsAreKept == Spec => []DecidedAsWritten
<1>1. DInv => DecidedAsWritten
  <2> SUFFICES ASSUME DInv, phase = "done", NEW l \in 1..ListsWritten,
                      NEW p \in PacketsOf(lists[l]), Clear(l, p), ActionsKept(l)
               PROVE  LET entries == Filters[lists[l].filter].entries
                          blocks == {k \in DOMAIN output :
                                       output[k].list = l /\ Catches(output[k], p)}
                          written == {k \in DOMAIN entries :
                                        ~entries[k].expired /\ MustCatch(entries[k], lists[l], p)}
                      IN Decision([k \in blocks |-> output[k].action])
                           = Decision([k \in written |-> entries[k].term.action])
    BY Zenon DEF DecidedAsWritten, ListDecides
  <2> DEFINE list == lists[l]
             E == Filters[list.filter].entries
             B == {k \in DOMAIN output : output[k].list = l}
             blocks == {k \in DOMAIN output : output[k].list = l /\ Catches(output[k], p)}
             written == {k \in DOMAIN E : ~E[k].expired /\ MustCatch(E[k], list, p)}
             x == [k \in blocks |-> output[k].action]
             y == [k \in written |-> E[k].term.action]
  <2>1. l \in DOMAIN lists
    BY WrittenLists DEF DInv, WInv, GInv
  <2>2. /\ DOMAIN E \subseteq Nat /\ DOMAIN output \subseteq Nat
        /\ \A m \in DOMAIN E : EntryInForm(E[m])
    <3>1. GTyped /\ IsList(list)
      BY <2>1 DEF DInv, WInv, GInv, GTyped
    <3>2. JobHolds /\ IsSeq(output)
      BY <3>1, JobIs DEF GTyped
    <3>3. list.filter \in DOMAIN Filters
      BY <3>1 DEF IsList
    <3>4. IsSeq(E) /\ \A m \in DOMAIN E : EntryInForm(E[m])
      BY <3>2, <3>3 DEF JobHolds
    <3> HIDE DEF E
    <3> QED
      BY <3>2, <3>4, IsSeqGives
  <2>3. \A m \in DOMAIN E : ClearOn(E[m], list, p)
    BY DEF Clear, ClearOn
  <2>4. PICK f : /\ \A k \in B : /\ f[k] \in DOMAIN E /\ Stays(E[f[k]])
                                 /\ output[k].entry = Translated(E[f[k]], list)
                 /\ \A j, k \in B : j < k => f[j] < f[k]
                 /\ \A m \in DOMAIN E : Stays(E[m]) => \E k \in B : f[k] = m
    BY BlocksAre, Zenon DEF EntriesOf
  <2>5. \A k \in B : ~E[f[k]].expired /\ (Catches(output[k], p) <=> MustCatch(E[f[k]], list, p))
    <3> TAKE k \in B
    <3> DEFINE e == E[f[k]]
    <3>1. /\ k \in DOMAIN output /\ list = lists[output[k].list] /\ EntryInForm(e) /\ Stays(e)
          /\ output[k].entry = Translated(e, list) /\ ClearOn(e, list, p)
      BY <2>2, <2>3, <2>4
    <3> HIDE DEF e, E, B
    <3>2. p \in PacketsOf(list)
      OBVIOUS
    <3> HIDE DEF list
    <3> QED
      BY <3>1, <3>2, BlockCatches DEF e
  <2>6. \A k \in B : output[k].action = E[f[k]].term.action
    <3> TAKE k \in B
    <3> DEFINE e == E[f[k]]
               r == output[k].entry
    <3>1. EntryInForm(e) /\ r = Translated(e, list) /\ e \in Range(E)
      BY <2>2, <2>4 DEF Range
    <3>2. ActionWritten(e) = e.term.action
      BY <3>1 DEF ActionsKept
    <3>3. output[k].action = ActionWritten(r)
      <4>1. IsWritten(output[k])
        BY DEF DInv, WInv, GInv, Written
      <4> QED
        BY <4>1 DEF IsWritten
    <3> HIDE DEF e, r, list, E, B
    <3>4. /\ \A a \in TermFields : a # "destination_port" => r.term[a] = e.term[a]
          /\ r.keywords = e.keywords
      BY <3>1, TranslatedTerm, TranslatedIs
    <3>5. r.term.action = e.term.action /\ r.keywords = e.keywords
      <4>1. \A a \in TermFields : a # "destination_port" => r.term[a] = e.term[a]
        BY <3>4
      <4> QED
        BY <3>4, <4>1 DEF TermFields
    <3>6. ActionWritten(r) = ActionWritten(e)
      BY <3>5 DEF ActionWritten
    <3> QED
      BY <3>2, <3>3, <3>6 DEF e, r
  <2>7. blocks = {k \in B : Catches(output[k], p)}
    OBVIOUS
  <2>8. DOMAIN x = blocks /\ DOMAIN y = written /\ (\A k \in blocks : x[k] = output[k].action)
        /\ \A m \in written : y[m] = E[m].term.action
    OBVIOUS
  <2>9. /\ blocks \subseteq Nat /\ written \subseteq Nat /\ blocks \subseteq B
        /\ written \subseteq DOMAIN E
    BY <2>2
  <2>10. \A m \in written : Stays(E[m]) /\ MustCatch(E[m], list, p)
    BY DEF Stays
  <2>11. \A k \in blocks : f[k] \in written
    BY <2>4, <2>5, <2>7
  <2>12. \A m \in written : \E k \in blocks : f[k] = m
    <3> TAKE m \in written
    <3>1. PICK k \in B : f[k] = m
      BY <2>4, <2>9, <2>10
    <3>2. k \in blocks
      BY <2>5, <2>7, <2>10, <3>1
    <3> QED
      BY <3>1, <3>2
  <2> HIDE DEF x, y, blocks, written, B, E, list
  <2>13. /\ DOMAIN x \subseteq Nat /\ DOMAIN y \subseteq Nat
         /\ \A k \in DOMAIN x : f[k] \in DOMAIN y /\ x[k] = y[f[k]]
         /\ \A j, k \in DOMAIN x : j < k => f[j] < f[k]
         /\ \A m \in DOMAIN y : \E k \in DOMAIN x : f[k] = m
    BY <2>4, <2>6, <2>8, <2>9, <2>11, <2>12
  <2>14. Decision(x) = Decision(y)
    BY <2>13, SameDecision
  <2> QED
    BY <2>14 DEF x, y, blocks, written, E, list
<1> QED
  BY <1>1, DInvInit, DInvStep, PTL DEF Spec
=============================================================================
