---------------------------- MODULE AclGenerator ----------------------------
(***************************************************************************)
(* lib/aclgenerator.py: what the generators of all platforms share.        *)
(*                                                                         *)
(* A generator renders each term of a filter as a block of rules.  A rule  *)
(* is written here as the term it stands for, so that Matches gives its    *)
(* meaning as well; the rules under "except" are those the platform looks  *)
(* at first and that make it leave the block.  The syntax of a platform is *)
(* left out, and so is all a rule does but match: logging, counters.       *)
(***************************************************************************)
EXTENDS Terms

CONSTANTS
  HighPorts,    \* the range FixHighPorts adds: <<1024, 65535>>
  IcmpTypes,    \* Term.ICMP_TYPE: the names of ICMP types, by version
  ShortNames,   \* term names no longer than _TERM_MAX_LENGTH
  Abbreviated,  \* what _ABBREVIATION_TABLE makes of a name, and
  Truncated,    \* what is left of it within _TERM_MAX_LENGTH
  Token         \* parent_token: the definition an address was taken from

ASSUME AclGeneratorAssumption ==
  /\ HighPorts \in Nat \X Nat
  /\ IcmpTypes \in [Versions -> SUBSET STRING]
  /\ \A n \in ShortNames : Abbreviated[n] = n /\ Truncated[n] = n

\* An entry of a filter is a term with its name, whether it has expired, and
\* the keywords it has that are not attributes of the term here.
Keywords(e) ==
  e.keywords \cup {k \in DOMAIN EmptyTerm : e.term[k] # EmptyTerm[k]}

RequiredKeywords ==
  {"action", "destination_address", "destination_address_exclude",
   "destination_port", "icmp_type", "option", "protocol", "platform",
   "platform_exclude", "source_address", "source_address_exclude",
   "source_port", "verbatim"}

ActiveOn(t, platform) ==
  /\ t.platform # {} => platform \in t.platform
  /\ platform \notin t.platform_exclude

\* ACLGenerator.__init__: UnsupportedFilterError
UnsupportedKeywords(e, platform, optional) ==
  ActiveOn(e.term, platform) /\ ~(Keywords(e) \subseteq RequiredKeywords \cup optional)

\* FixTermLength; NONE for TermNameTooLongError.
FixTermLength(name, abbreviate, truncate) ==
  LET words == IF abbreviate THEN Abbreviated[name] ELSE name
      new == IF truncate THEN Truncated[words] ELSE words
  IN IF new \in ShortNames THEN new ELSE NONE

\* A list comprehension: the items of the list that are in the set.
Those(list, set) ==
  FlattenSeq([k \in DOMAIN list |-> IF list[k] \in set THEN <<list[k]>> ELSE <<>>])

-----------------------------------------------------------------------------
(* Ports and protocols *)

PortBefore(p, q) == p[1] < q[1] \/ (p[1] = q[1] /\ p[2] < q[2])

\* sorted(), which keeps the order of ranges that are equal.
SortPorts(l) ==
  LET Sooner(j, k) == PortBefore(l[j], l[k]) \/ (l[j] = l[k] /\ j < k)
      places == DOMAIN l
      order == InOrder(places, {p \in places \X places : Sooner(p[1], p[2])})
  IN [k \in places |-> l[order[k]]]

\* A turn of the loop of CollapsePortListRecursive.
CollapsePort(ret, port) ==
  IF ret = <<>> THEN <<port>>
  ELSE IF Last(ret)[2] >= port[2] THEN ret
  ELSE IF port[1] < Last(ret)[2] \/ port[1] = Last(ret)[2] + 1
       THEN [ret EXCEPT ![Len(ret)] = <<@[1], port[2]>>]
       ELSE Append(ret, port)

\* A call of CollapsePortListRecursive, without the one it may end in.
CollapsePass(l) ==
  LET Ret[k \in 0..Len(l)] == IF k = 0 THEN <<>> ELSE CollapsePort(Ret[k - 1], l[k])
  IN Ret[Len(l)]

\* CollapsePortList: two passes are enough (PortList).
CollapsePortList(l) == CollapsePass(CollapsePass(SortPorts(l)))

Established(t) == "established" \in t.option

HasHighPorts(t) ==
  Established(t) /\ t.protocol # {} /\ t.protocol \subseteq {"tcp", "udp"}

\* FixHighPorts raises EstablishedError.  The protocol a platform takes a term
\* without one to have, ip or all, is neither tcp nor udp.
EstablishedRefused(t, stateful) == Established(t) /\ ~HasHighPorts(t) /\ ~stateful

\* Mutant of FixHighPorts: the ports of the term are replaced.
FixHighPortsOnly(t) ==
  IF HasHighPorts(t) THEN [t EXCEPT !.destination_port = <<HighPorts>>] ELSE t

\* FixHighPorts: what it returns when it does not raise.
FixHighPorts(t) ==
  IF HasHighPorts(t)
  THEN [t EXCEPT !.destination_port = CollapsePortList(Append(@, HighPorts))]
  ELSE t

\* NormalizeIcmpTypes raises: other protocols, another version, unknown types.
IcmpTypesRefused(t, version) ==
  /\ t.icmp_type # {}
  /\ \/ t.protocol # (IF version = 4 THEN {"icmp"} ELSE {"icmpv6"})
     \/ ~(t.icmp_type \subseteq IcmpTypes[version])

\* "not rendered due to protocol/AF mismatch"
FamilyMismatch(t, version) ==
  (IF version = 6 THEN "icmp" ELSE "icmpv6") \in t.protocol

-----------------------------------------------------------------------------
(* Addresses *)

Everything(version) == [version |-> version, first |-> 0, size |-> 2 ^ Bits[version]]

\* GetAddressOfVersion
OfVersion(list, version) == Those(list, {n \in Range(list) : n.version = version})

\* A set of networks as a list.
Listed(nets) == InOrder(nets, {p \in nets \X nets : Precedes(p[1], p[2])})

\* nacaddr.ExcludeAddrs, by what it returns (NacAddr).
ExcludeAddrs(list, excludes) ==
  Listed(LargestNetworks(AddressesOf(list) \ AddressesOf(excludes)))

-----------------------------------------------------------------------------
(* Rules *)

\* The alternatives of an attribute, one rule each; none stands for any.
Each(set) == IF set = {} THEN {{}} ELSE {{x} : x \in set}
EachOf(list) == IF list = <<>> THEN {<<>>} ELSE {<<list[k]>> : k \in DOMAIN list}

\* Mutant of Product: the protocols are written once, in one rule.
ProductOfFirst(t, sources, destinations, sports, dports) ==
  {[t EXCEPT !.protocol = IF t.protocol = {} THEN {} ELSE {CHOOSE q \in t.protocol : TRUE},
             !.icmp_type = i, !.source_address = s, !.source_address_exclude = <<>>,
             !.destination_address = d, !.destination_address_exclude = <<>>,
             !.source_port = sp, !.destination_port = dp] :
     i \in Each(t.icmp_type), s \in EachOf(sources), d \in EachOf(destinations),
     sp \in sports, dp \in dports}

\* The loops over addresses, protocols, ICMP types and ports that the platforms
\* without lists write a term out with: one rule for each combination.
Product(t, sources, destinations, sports, dports) ==
  {[t EXCEPT !.protocol = q, !.icmp_type = i,
             !.source_address = s, !.source_address_exclude = <<>>,
             !.destination_address = d, !.destination_address_exclude = <<>>,
             !.source_port = sp, !.destination_port = dp] :
     q \in Each(t.protocol), i \in Each(t.icmp_type),
     s \in EachOf(sources), d \in EachOf(destinations),
     sp \in sports, dp \in dports}

\* Matches, the ICMP type and the prefix lists of a packet added.
Meets(t, p) ==
  /\ Matches(t, p)
  /\ t.icmp_type = {} \/ p.icmp_type \in t.icmp_type
  /\ t.source_prefix = {} \/ t.source_prefix \cap p.lists # {}
  /\ t.destination_prefix = {} \/ t.destination_prefix \cap p.lists # {}

Catches(block, p) ==
  /\ \E r \in block.rules : Meets(r, p)
  /\ \A r \in block.except : ~Meets(r, p)

-----------------------------------------------------------------------------
(* What a term asks for, to compare what is rendered with                   *)

Tracks(t) == {"established", "tcp-established"} \cap t.option # {}

\* The term with the conditions that doc/policy_format.txt gives established:
\* high ports, and to belong to a connection.
Strictly(t) ==
  [t EXCEPT
     !.destination_port = IF HasHighPorts(t) THEN Append(@, HighPorts) ELSE @,
     !.option = (@ \ {"sample", "established", "tcp-established"})
                  \cup (IF Tracks(t) THEN {"established"} ELSE {})]

\* Without state the connection only counts for established when the term is for
\* TCP alone.
Loosely(t, stateful) ==
  IF stateful \/ t.protocol = {"tcp"} \/ "tcp-established" \in t.option
  THEN Strictly(t)
  ELSE [Strictly(t) EXCEPT !.option = @ \ {"established"}]

\* Every platform leaves a term out of a list of one version for a protocol of
\* the other, whatever its other protocols.
PartlyMismatched(t, version) == FamilyMismatch(t, version) /\ Cardinality(t.protocol) > 1

\* And most look at excludes only on a side that has addresses.
ExcludesFromAny(t) ==
  \/ t.source_address = <<>> /\ t.source_address_exclude # <<>>
  \/ t.destination_address = <<>> /\ t.destination_address_exclude # <<>>
=============================================================================
