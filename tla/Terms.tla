------------------------------- MODULE Terms --------------------------------
(***************************************************************************)
(* The terms of a policy, in lib/policy.py: what a term matches, and       *)
(* whether it contains another (Term.__contains__).                        *)
(*                                                                         *)
(* A term is a record with the attributes of class Term that the           *)
(* comparison looks at.  A list whose order nobody looks at is a set; a    *)
(* list of addresses or ports stays a list.  Interfaces, ether-type and    *)
(* traffic-type are left out: __contains__ does not compare them.          *)
(***************************************************************************)
EXTENDS IpNetworks, PortRanges

CONSTANTS
  NONE,    \* Python's None
  Packets  \* what the terms may match

\* A term that says nothing: Term.__init__.
EmptyTerm ==
  [verbatim |-> {}, action |-> {}, protocol |-> {}, protocol_except |-> {},
   address |-> <<>>, address_exclude |-> <<>>,
   source_address |-> <<>>, source_address_exclude |-> <<>>,
   destination_address |-> <<>>, destination_address_exclude |-> <<>>,
   principals |-> {}, port |-> <<>>, source_port |-> <<>>,
   destination_port |-> <<>>, source_prefix |-> {}, destination_prefix |-> {},
   precedence |-> {}, option |-> {}, fragment_offset |-> NONE,
   packet_length |-> NONE, icmp_type |-> {}, platform |-> {},
   platform_exclude |-> {}]

\* SanityCheck: a verbatim term has little else, another one has an action, and
\* ports need a protocol that has them.  Terms with a routing instance, an
\* ether-type or ICMP types of neither version are left out.
Sane(t) ==
  IF t.verbatim # {}
  THEN {t.action, t.protocol, t.option} = {{}}
         /\ {t.port, t.source_port, t.destination_port} = {<<>>}
  ELSE /\ t.action # {}
       /\ {t.port, t.source_port, t.destination_port} # {<<>>} =>
            {"tcp", "udp"} \cap t.protocol # {}

-----------------------------------------------------------------------------
(* What a term matches: the filter the generators make of it *)

AddressesOf(list) == UNION {Numbers(list[k]) : k \in DOMAIN list}

\* An address list with its exceptions; the empty list stands for every address.
Among(a, include, exclude) ==
  /\ include = <<>> \/ a \in AddressesOf(include)
  /\ a \notin AddressesOf(exclude)

AmongPorts(p, list) == list = <<>> \/ p \in Cover(list)

\* A range is written with both ends or as the one number.
Within(n, range) == range = NONE \/ n \in range[1]..Last(range)

\* Does the term match the packet?  A verbatim term is not looked into.
Matches(t, p) ==
  /\ t.verbatim = {}
  /\ t.protocol = {} \/ p.protocol \in t.protocol
  /\ p.protocol \notin t.protocol_except
  /\ Among(p.source, t.source_address, t.source_address_exclude)
  /\ Among(p.destination, t.destination_address, t.destination_address_exclude)
  /\ \/ t.address = <<>>
     \/ Among(p.source, t.address, t.address_exclude)
     \/ Among(p.destination, t.address, t.address_exclude)
  /\ AmongPorts(p.source_port, t.source_port)
  /\ AmongPorts(p.destination_port, t.destination_port)
  /\ AmongPorts(p.source_port, t.port) \/ AmongPorts(p.destination_port, t.port)
  /\ t.precedence = {} \/ p.precedence \in t.precedence
  /\ t.option \subseteq p.option
  /\ Within(p.fragment_offset, t.fragment_offset)
  /\ Within(p.packet_length, t.packet_length)

-----------------------------------------------------------------------------
(* Term.__contains__: its parts, in the order of the code *)

VerbatimAgrees(s, o) == s.verbatim = o.verbatim

\* Mutant of ProtocolContained: the exceptions are not looked at.
ProtocolContainedExcepted(s, o) ==
  IF s.protocol # {} THEN o.protocol # {} /\ s.protocol \subseteq o.protocol
  ELSE s.protocol_except # {} => o.protocol # {}

\* The protocols are compared the wrong way round: the call gives the other
\* term's as the superset.  So are two lists of exceptions.
ProtocolContained(s, o) ==
  IF s.protocol # {} THEN o.protocol # {} /\ s.protocol \subseteq o.protocol
  ELSE s.protocol_except # {} =>
         IF o.protocol_except # {}
         THEN ~(o.protocol_except \subseteq s.protocol_except)
         ELSE o.protocol # {} /\ o.protocol \cap s.protocol_except = {}

\* CheckAddressIsContained
AddressIsContained(superset, subset) ==
  \/ superset = <<>>
  \/ /\ subset # <<>>
     /\ \A j \in DOMAIN subset : \E k \in DOMAIN superset :
          In(subset[j], superset[k])

\* Mutant of AddressContained: the two sides are not looked at.
AddressContainedEither(s, o) ==
  \/ AddressIsContained(s.addr, o.addr)
  \/ AddressIsContained(s.addr, o.saddr)
  \/ AddressIsContained(s.addr, o.daddr)

\* The flattened lists of both.  An `address' of the other term must hold both
\* sides of this one.
AddressContained(s, o) ==
  /\ \/ AddressIsContained(s.addr, o.addr)
     \/ AddressIsContained(s.addr, o.saddr)
     \/ AddressIsContained(s.addr, o.daddr)
  /\ AddressIsContained(o.addr, s.saddr)
  /\ AddressIsContained(o.addr, s.daddr)
  /\ AddressIsContained(s.saddr, o.saddr)
  /\ AddressIsContained(s.daddr, o.daddr)

PrincipalsContained(s, o) == o.principals \subseteq s.principals

\* Where the ports are compared, a `port' that does not hold the other's is
\* looked for in attributes no term has.
PortRaises(s, o) == s.port # <<>> /\ ~PortIsContained(s.port, o.port)

PortContained(s, o) ==
  /\ PortIsContained(s.source_port, o.source_port)
  /\ PortIsContained(s.destination_port, o.destination_port)

SetContained(superset, subset) ==
  superset # {} => subset # {} /\ subset \subseteq superset

\* A range is refused when it starts later or ends earlier, as it should be when
\* it starts earlier or ends later: the bounds are compared the wrong way round.
RangeContained(s, o) ==
  s # NONE =>
    /\ o # NONE
    /\ s[1] >= o[1]
    /\ Len(s) = 2 => Len(o) = 2 /\ s[2] <= o[2]

\* The lists of ICMP types and platforms are compared for identity, which two
\* sorted copies never have.
OptionsContained(s, o) ==
  /\ s.source_prefix # {} => s.source_prefix = o.source_prefix
  /\ s.destination_prefix # {} => s.destination_prefix = o.destination_prefix
  /\ SetContained(s.precedence, o.precedence)
  /\ SetContained(s.option, o.option)
  /\ RangeContained(s.fragment_offset, o.fragment_offset)
  /\ RangeContained(s.packet_length, o.packet_length)
  /\ s.icmp_type = {}
  /\ s.platform = {}
  /\ s.platform_exclude = {}

ProtocolsAllow(s, o) == VerbatimAgrees(s, o) /\ ProtocolContained(s, o)

\* o in s, when the comparison gets to its end; fs and fo are the flattened
\* addresses of the two.
Contained(s, o, fs, fo) ==
  /\ ProtocolsAllow(s, o)
  /\ AddressContained(fs, fo)
  /\ PrincipalsContained(s, o)
  /\ s.port # <<>> => PortIsContained(s.port, o.port)
  /\ PortContained(s, o)
  /\ OptionsContained(s, o)

\* Where the comparison of protocols says what it should: not for a term with
\* more protocols than the other, not for two lists of exceptions, and not for
\* one that is not looked at.
ProtocolsAsMeant(s, o) ==
  /\ s.protocol # {} => o.protocol \subseteq s.protocol
  /\ s.protocol_except # {} => s.protocol = {} /\ o.protocol_except = {}

\* Nor do ranges, which are compared the wrong way round, or several options,
\* which are compared as if they were alternatives.
ComparedAsMeant(s, o) ==
  /\ ProtocolsAsMeant(s, o)
  /\ \A x, y \in s.option : x = y
  /\ s.fragment_offset = NONE
  /\ s.packet_length = NONE

HasExcludes(t) ==
  \/ t.source_address_exclude # <<>>
  \/ t.destination_address_exclude # <<>>
  \/ t.address_exclude # <<>>

\* The lists FlattenAll sets for a term that excludes nothing.
AsWritten(t) ==
  [addr |-> t.address, saddr |-> t.source_address, daddr |-> t.destination_address]
=============================================================================
