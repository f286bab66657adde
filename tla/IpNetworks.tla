----------------------------- MODULE IpNetworks -----------------------------
(***************************************************************************)
(* The networks of third_party/ipaddr.py, as far as lib/nacaddr.py and     *)
(* lib/policy.py use them: aligned blocks of 2^k numbers of one version.   *)
(* The width of the numbers is a constant (32 and 128 in the code).        *)
(***************************************************************************)
EXTENDS Naturals, Sequences, FiniteSets, SequencesExt

CONSTANT Bits  \* the width of the addresses of versions 4 and 6

Versions == {4, 6}

ASSUME BitsAssumption == Bits \in [Versions -> Nat]

\* What the proofs use of powers of two: it is so of all numbers.
ASSUME PowersAssumption ==
  /\ 2 ^ 0 = 1
  /\ \A v \in Versions : \A k \in 0..Bits[v] : 2 ^ (k + 1) = 2 * 2 ^ k

Networks ==
  UNION {UNION {{[version |-> v, first |-> i * 2 ^ k, size |-> 2 ^ k] :
                   i \in 0..(2 ^ (Bits[v] - k) - 1)} :
                k \in 0..Bits[v]} : v \in Versions}

\* Blocks of numbers, which the networks are.
Blocks == [version : Versions, first : Nat, size : Nat]

\* The numbers of a network, each with its version.
Numbers(n) == {<<n.version, i>> : i \in n.first..(n.first + n.size - 1)}

\* m in n: the network and broadcast addresses are compared, for one version.
In(m, n) ==
  /\ m.version = n.version
  /\ n.first <= m.first
  /\ m.first + m.size <= n.first + n.size

\* The network one bit shorter; the one of all numbers is its own supernet.
Supernet(n) ==
  IF n.size = 2 ^ Bits[n.version]
  THEN n
  ELSE [version |-> n.version,
        first |-> n.first - (n.first % (2 * n.size)), size |-> 2 * n.size]

\* _get_networks_key: version, network, netmask.  The longer netmask is the
\* greater one, so a network comes before those inside it.
Precedes(m, n) ==
  \/ m.version < n.version
  \/ /\ m.version = n.version
     /\ \/ m.first < n.first
        \/ m.first = n.first /\ m.size > n.size

\* sorted(): a finite set in the order that the relation gives.
InOrder(set, less) ==
  [k \in 1..Cardinality(set) |->
     CHOOSE x \in set : Cardinality({y \in set : <<y, x>> \in less}) = k - 1]

\* m.address_exclude(x) for an x inside m: the halves x is not in, in order.
AddressExclude(m, x) ==
  LET rest == {n \in Networks :
                 /\ In(n, m) /\ n # m
                 /\ Numbers(n) \cap Numbers(x) = {}
                 /\ In(x, Supernet(n))}
  IN InOrder(rest, {p \in rest \X rest : Precedes(p[1], p[2])})

\* The largest networks all of whose numbers are in the set.
LargestNetworks(numbers) ==
  LET inside == {n \in Networks : Numbers(n) \subseteq numbers}
  IN {n \in inside : \A m \in inside : In(n, m) => m = n}
=============================================================================
