---------------------------- MODULE PacketFilter ----------------------------
(***************************************************************************)
(* lib/packetfilter.py: the "quick" rule of pf a term becomes.  A list in  *)
(* braces stands for a rule for each of its items; an item with "!" stands *)
(* for every address but its own.                                          *)
(*                                                                         *)
(* The generator looks at none of platform, platform-exclude, verbatim,    *)
(* established and the other options that are not TCP flags.               *)
(***************************************************************************)
EXTENDS AclGenerator

PacketFilterKeywords == {"expiration", "logging", "routing_instance"}

PacketFilterFamilies == {"inet", "inet6", "mixed"}

\* filter_type is not set back between filters: an option for a second filter
\* is one too many.
PacketFilterOptionsRefused(family, options) ==
  \/ ~(Range(options) \subseteq PacketFilterFamilies)
  \/ Cardinality(Range(options)) > 1
  \/ family # NONE /\ options # <<>>

PacketFilterFamily(family, options) ==
  IF options # <<>> THEN options[1]
  ELSE IF family # NONE THEN family
  ELSE "mixed"

\* _CheckAddressAf: the addresses of a family; <<>> if there is none but should
\* be one.
OfFamily(list, family) ==
  IF family = "mixed" THEN list
  ELSE OfVersion(list, IF family = "inet" THEN 4 ELSE 6)

PacketFilterNoAddresses(t, family) ==
  \E list \in {t.source_address, t.destination_address} :
    list # <<>> /\ OfFamily(list, family) = <<>>

PacketFilterRenders(t, family) == ~PacketFilterNoAddresses(t, family)

\* In a mixed filter the protocol says the version, and "icmp6" is not a
\* protocol of a policy.
PacketFilterIcmpRefused(t, family) ==
  IF family # "mixed" THEN IcmpTypesRefused(t, IF family = "inet" THEN 4 ELSE 6)
  ELSE t.icmp_type # {} /\ (t.protocol # {"icmp"} \/ IcmpTypesRefused(t, 4))

\* An action that is not in the table, or none at all (verbatim), is refused
\* before anything else.
PacketFilterRefuses(t, family) ==
  \/ t.action \cap {"accept", "deny", "reject"} = {}
  \/ t.protocol_except # {}
  \/ /\ ~PacketFilterNoAddresses(t, family)
     /\ PacketFilterIcmpRefused(t, family)

\* _GenerateAddrStatement: what one item of the list stands for, as the lists
\* of addresses it has and has not.
Items(list, excludes, family) ==
  {<<a, <<>>>> : a \in EachOf(OfFamily(list, family))}
    \cup {<<<<>>, x>> : x \in EachOf(excludes) \ {<<>>}}

\* _GeneratePortStatement: the ends of a range are written as two ports.
EndsOnly(list) ==
  FlattenSeq([k \in DOMAIN list |-> <<<<list[k][1], list[k][1]>>,
                                      <<list[k][2], list[k][2]>>>>])

\* The types are only written for icmp, the flags only with tcp.
PacketFilterRules(t, family) ==
  {[EmptyTerm EXCEPT
      !.protocol = t.protocol,
      !.source_address = s[1], !.source_address_exclude = s[2],
      !.destination_address = d[1], !.destination_address_exclude = d[2],
      !.source_port = EndsOnly(t.source_port),
      !.destination_port = EndsOnly(t.destination_port),
      !.option = IF "tcp" \in t.protocol THEN t.option \cap {"rst"} ELSE {},
      !.icmp_type = IF "icmp" \in t.protocol THEN t.icmp_type ELSE {}] :
     s \in Items(t.source_address, t.source_address_exclude, family),
     d \in Items(t.destination_address, t.destination_address_exclude, family)}

-----------------------------------------------------------------------------
\* Terms that are written as they are meant: an exclude is an alternative of its
\* own, and of a range only the ends are.
PacketFilterAsMeant(t, family) ==
  /\ ActiveOn(t, "packetfilter")
  /\ t.verbatim = {}
  /\ t.source_address_exclude = <<>> /\ t.destination_address_exclude = <<>>
  /\ Cover(EndsOnly(t.source_port)) = Cover(t.source_port)
  /\ Cover(EndsOnly(t.destination_port)) = Cover(t.destination_port)
  /\ t.option \subseteq (IF "tcp" \in t.protocol THEN {"rst", "sample"} ELSE {"sample"})
  /\ t.icmp_type # {} => "icmp" \in t.protocol
=============================================================================
