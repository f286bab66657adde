------------------------------ MODULE Iptables ------------------------------
(***************************************************************************)
(* lib/iptables.py, and its subclasses speedway.py and ipset.py: the       *)
(* chains of rules a term becomes.                                         *)
(*                                                                         *)
(* In the output of iptables and speedway a term is a chain of its own,    *)
(* jumped to from the filter (before its rules are written or after, which *)
(* is the same once all are loaded); RETURN goes back to the filter.  The  *)
(* rules of ipset are in the filter itself.                                *)
(*                                                                         *)
(* The two rules for the flags of an established TCP connection are one    *)
(* here, with the test "established".  That conntrack knows a packet, as   *)
(* new or not, is taken to be true of every packet.                        *)
(***************************************************************************)
EXTENDS AclGenerator

CONSTANTS
  MaxPorts,  \* max_ports of a multiport match: 14
  MaxPairs   \* more pairs of addresses than this are inverted: 100

ASSUME IptablesAssumption == MaxPorts \in Nat \ {0} /\ MaxPairs \in Nat

IptablesKeywords ==
  {"counter", "destination_interface", "destination_prefix", "expiration",
   "fragment_offset", "logging", "owner", "packet_length", "policer", "qos",
   "routing_instance", "source_interface", "source_prefix"}

\* _KNOWN_OPTIONS_MATCHERS and _TCP_FLAGS_TABLE, as far as options of a term
\* are in them; "sample" is in them and tests nothing.
KnownOptions == {"first-fragment", "initial", "tcp-initial", "rst"}

-----------------------------------------------------------------------------
(* Ports: _GeneratePortStatement *)

\* Ports without which a multiport match is not well-formed.
NoPorts == <<<<1, 0>>>>

PortCount(port) == IF port[1] = port[2] THEN 1 ELSE 2

\* A turn of the loop: the list being filled is closed when it is full.
AddPort(acc, port) ==
  LET open == Append(acc.open, port)
      count == acc.count + PortCount(port)
  IN IF count >= MaxPorts
     THEN [closed |-> acc.closed \cup {open}, open |-> <<>>, count |-> 0]
     ELSE [acc EXCEPT !.open = open, !.count = count]

\* The lists of ports, a rule each.  What is left in the end is a list, even
\* when nothing is.
PortStatements(ports) ==
  IF ports = <<>> THEN {<<>>}
  ELSE LET Acc[k \in 0..Len(ports)] ==
             IF k = 0 THEN [closed |-> {}, open |-> <<>>, count |-> 0]
             ELSE AddPort(Acc[k - 1], ports[k])
           lists == Acc[Len(ports)]
       IN lists.closed \cup {IF lists.open = <<>> THEN NoPorts ELSE lists.open}

-----------------------------------------------------------------------------
(* Addresses: _CalculateAddresses *)

OrOne(list) == IF list = <<>> THEN 1 ELSE Len(list)

OrAll(list, version) == IF list = <<>> THEN <<Everything(version)>> ELSE list

Subtracted(list, excludes) ==
  IF excludes = <<>> THEN <<>> ELSE ExcludeAddrs(list, excludes)

\* The two sides as written, each with what is to be returned on.
WithBailouts(t, version) ==
  [source |-> OrAll(t.source_address, version),
   source_exclude |-> t.source_address_exclude,
   destination |-> OrAll(t.destination_address, version),
   destination_exclude |-> t.destination_address_exclude]

\* Are there fewer addresses left than jumps and addresses without?
SubtractsExcludes(t, version) ==
  LET a == WithBailouts(t, version)
  IN OrOne(Subtracted(a.source, a.source_exclude))
       * OrOne(Subtracted(a.destination, a.destination_exclude))
     < Len(a.source_exclude) + Len(a.destination_exclude)
         + OrOne(t.source_address) * OrOne(t.destination_address)

\* Without jumps.  A side of which nothing is left stays as it was.
WithoutBailouts(t, version) ==
  LET a == WithBailouts(t, version)
      Left(list, excludes) ==
        LET rest == Subtracted(list, excludes)
        IN IF rest # <<>> THEN rest ELSE list
  IN [source |-> Left(a.source, a.source_exclude),
      source_exclude |-> <<>>,
      destination |-> Left(a.destination, a.destination_exclude),
      destination_exclude |-> <<>>]

Pairs(a) ==
  LET Count(list, v) == Len(OfVersion(list, v))
  IN Count(a.source, 4) * Count(a.destination, 4)
       + Count(a.source, 6) * Count(a.destination, 6)

\* With too many pairs, one side is written as all but the others, if it has no
\* exceptions yet and that is shorter.
Inverted(a, version) ==
  LET all == <<Everything(version)>>
      others == ExcludeAddrs(all, a.source)
      otherDests == ExcludeAddrs(all, a.destination)
  IN IF Pairs(a) <= MaxPairs THEN a
     ELSE IF Len(others) < Len(otherDests) /\ a.source_exclude = <<>>
     THEN IF Len(others) + Len(a.destination) < Pairs(a)
          THEN [a EXCEPT !.source = all, !.source_exclude = others]
          ELSE a
     ELSE IF a.destination_exclude = <<>>
               /\ Len(otherDests) + Len(a.source) < Pairs(a)
     THEN [a EXCEPT !.destination = all, !.destination_exclude = otherDests]
     ELSE a

CalculateAddresses(t, version) ==
  LET a == Inverted(IF SubtractsExcludes(t, version)
                    THEN WithoutBailouts(t, version)
                    ELSE WithBailouts(t, version), version)
  IN [side \in DOMAIN a |-> OfVersion(a[side], version)]

\* ipset subtracts, and matches the addresses as a set if there are several.
IpsetAddresses(t, version) ==
  LET Left(list, excludes) ==
        LET own == OfVersion(OrAll(list, version), version)
        IN IF excludes = <<>> THEN own
           ELSE ExcludeAddrs(own, OfVersion(excludes, version))
  IN [source |-> Left(t.source_address, t.source_address_exclude),
      source_exclude |-> <<>>,
      destination |-> Left(t.destination_address, t.destination_address_exclude),
      destination_exclude |-> <<>>]

\* The name of the set of a side: the term and the version, not the filter.
\* Names of terms are short enough not to be cut.
SetName(name, side, version) == <<name, side, version>>

SetsOf(t, name, version) ==
  LET a == IpsetAddresses(t, version)
  IN {[name |-> SetName(name, side, version), members |-> AddressesOf(a[side])] :
        side \in {s \in {"source", "destination"} : Len(a[s]) > 1}}

-----------------------------------------------------------------------------
(* Term.__str__ *)

\* The tests of a rule that are not about addresses, protocols or ports.
RuleTests(t, stateful) ==
  (t.option \cap KnownOptions)
    \cup (IF {"established", "tcp-established"} \cap t.option # {}
               /\ (stateful \/ t.protocol = {"tcp"})
          THEN {"established"} ELSE {})

\* Nothing is written for the term, whatever it says.
IptablesSkips(t, platform, version) ==
  ~ActiveOn(t, platform) \/ FamilyMismatch(t, version) \/ t.verbatim # {}

HasPrefixList(t) == t.source_prefix # {} \/ t.destination_prefix # {}

IptablesAddresses(t, platform, version) ==
  IF platform = "ipset" THEN IpsetAddresses(t, version)
  ELSE CalculateAddresses(t, version)

NoAddressesLeft(a) == a.source = <<>> \/ a.destination = <<>>

\* UnsupportedFilterError, TcpEstablishedError and NormalizeIcmpTypes.  The
\* keywords that are refused here as well have not got past the constructor.
IptablesRefuses(t, platform, version) ==
  /\ ~IptablesSkips(t, platform, version)
  /\ IF HasPrefixList(t)
     THEN t.action \cap {"accept", "next"} = {}
     ELSE /\ ~NoAddressesLeft(IptablesAddresses(t, platform, version))
          /\ \/ IcmpTypesRefused(t, version)
             \/ "tcp-established" \in t.option /\ t.protocol # {"tcp"}

\* The rules of a term that is neither skipped nor refused.
IptablesRules(t, platform, version, stateful) ==
  LET a == IptablesAddresses(t, platform, version)
      shape == [EmptyTerm EXCEPT !.protocol = t.protocol, !.icmp_type = t.icmp_type,
                  !.option = RuleTests(t, stateful),
                  !.packet_length = t.packet_length,
                  !.fragment_offset = t.fragment_offset]
      Jump(side, list) == [EmptyTerm EXCEPT ![side] = list]
  IN [except |-> {Jump("source_address", x) : x \in EachOf(a.source_exclude) \ {<<>>}}
                   \cup {Jump("destination_address", x) :
                           x \in EachOf(a.destination_exclude) \ {<<>>}},
      rules |-> IF platform = "ipset"
                THEN {[shape EXCEPT !.protocol = q, !.icmp_type = i,
                         !.source_address = a.source,
                         !.destination_address = a.destination,
                         !.source_port = sp, !.destination_port = dp] :
                        q \in Each(t.protocol), i \in Each(t.icmp_type),
                        sp \in PortStatements(t.source_port),
                        dp \in PortStatements(t.destination_port)}
                ELSE Product(shape, a.source, a.destination,
                             PortStatements(t.source_port),
                             PortStatements(t.destination_port))]

\* Does the output have rules for the term?
IptablesRenders(t, platform, version) ==
  /\ ~IptablesSkips(t, platform, version)
  /\ ~HasPrefixList(t)
  /\ ~NoAddressesLeft(IptablesAddresses(t, platform, version))

-----------------------------------------------------------------------------
(* Iptables._TranslatePolicy: the options of a filter *)

IptablesOptions ==
  {"ACCEPT", "DROP", "inet", "inet6", "nostate", "abbreviateterms", "truncateterms"}

\* UnsupportedTargetOption, and more than one address family.
IptablesOptionsRefused(options) ==
  ~(Range(options) \subseteq IptablesOptions)
    \/ {"inet", "inet6"} \subseteq Range(options)

\* What the filter leaves behind for those after it: once a filter has asked
\* for nostate none has state, and a default action stays until another one.
\* The last one named in the options counts.
IptablesState(state, platform, name, options) ==
  LET actions == Those(options, {"ACCEPT", "DROP"})
  IN [stateful |-> state.stateful /\ "nostate" \notin Range(options),
      default |-> IF actions # <<>> THEN Last(actions)
                  ELSE IF platform = "iptables" /\ name = "FORWARD" THEN "DROP"
                  ELSE state.default]

IptablesVersion(options) == IF "inet6" \in Range(options) THEN 6 ELSE 4

-----------------------------------------------------------------------------
\* Terms that are written as they are meant.  Among the others are those with a
\* side all of whose addresses are excluded: without jumps it stays as it was.
IptablesAsMeant(t, platform, version) ==
  /\ HasPrefixList(t) => t.action \cap {"accept", "next"} = {}
  /\ ~PartlyMismatched(t, version)
  /\ t.option \subseteq KnownOptions \cup {"established", "tcp-established", "sample"}
  /\ platform # "ipset" /\ SubtractsExcludes(t, version) =>
       LET a == WithBailouts(t, version)
       IN /\ a.source_exclude # <<>> => Subtracted(a.source, a.source_exclude) # <<>>
          /\ a.destination_exclude # <<>> =>
               Subtracted(a.destination, a.destination_exclude) # <<>>
=============================================================================
