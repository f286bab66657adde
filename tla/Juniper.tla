------------------------------- MODULE Juniper ------------------------------
(***************************************************************************)
(* lib/juniper.py: the `from' clause of a filter term.  The router joins   *)
(* its conditions by "and" and the items of a list by "or"; of two         *)
(* prefixes an address is in, the longer one counts.                       *)
(***************************************************************************)
EXTENDS AclGenerator

JuniperKeywords ==
  {"address", "counter", "destination_prefix", "ether_type", "expiration",
   "fragment_offset", "logging", "loss_priority", "owner", "packet_length",
   "policer", "port", "precedence", "protocol_except", "qos",
   "routing_instance", "source_prefix", "traffic_type"}

JuniperTypes == {"inet", "inet6", "bridge"}

\* not-interface-specific is taken out; the option then in the first place is
\* the type.
JuniperType(options) ==
  LET types == Those(options, Range(options) \ {"not-interface-specific"})
  IN IF types = <<>> THEN "inet" ELSE types[1]

JuniperVersion(type) == IF type = "inet6" THEN 6 ELSE 4

JuniperSkips(t, type) ==
  \/ ~ActiveOn(t, "juniper")
  \/ type # "bridge" /\ FamilyMismatch(t, JuniperVersion(type))
  \/ t.verbatim # {}

-----------------------------------------------------------------------------
(* _MinimizePrefixes *)

Without(include, exclude) == Those(include, Range(include) \ Range(exclude))

\* Excludes outside all the prefixes that are left are elided: those prefixes
\* come with an implicit "except" for the rest.
Exceptions(include, exclude) ==
  Those(exclude,
    {x \in Range(exclude) : \E n \in Range(Without(include, exclude)) : In(x, n)})

\* A side of the clause: its prefixes, each excepted one marked.
JuniperSide(list, excludes, version) ==
  LET include == OfVersion(list, version)
      exclude == OfVersion(excludes, version)
  IN [include |-> Without(include, exclude),
      except |-> Exceptions(include, exclude)]

JuniperSource(t, version) ==
  JuniperSide(t.source_address, t.source_address_exclude, version)
JuniperDestination(t, version) ==
  JuniperSide(t.destination_address, t.destination_address_exclude, version)

-----------------------------------------------------------------------------
(* Term.__str__ *)

\* The options, as conditions: established counts for TCP alone, sample is an
\* action, and what is not known is written as it is.
FromOptions(t) ==
  (t.option \ {"sample", "established", "tcp-established", "initial"})
    \cup (IF {"established", "tcp-established"} \cap t.option # {}
               /\ t.protocol = {"tcp"}
          THEN {"established"} ELSE {})
    \cup (IF "initial" \notin t.option THEN {}
          ELSE IF "tcp" \in t.protocol THEN {"tcp-initial"} ELSE {"initial"})

\* has_match_criteria: without it there is no `from' clause at all.
HasMatchCriteria(e) ==
  Keywords(e) \cap {"address", "destination_address", "destination_prefix",
    "destination_port", "precedence", "protocol", "protocol_except", "port",
    "source_address", "source_prefix", "source_port", "ether_type",
    "traffic_type"} # {}

\* The list `address' has addresses, but none for this family.  The message that
\* would say so lacks a direction, and substitute() raises KeyError.
JuniperNoMessage(t, version) ==
  t.address # <<>> /\ OfVersion(t.address, version) = <<>>

\* The same of a list with a direction: the term is left out.
JuniperNoAddresses(t, version) ==
  \/ t.source_address # <<>> /\ JuniperSource(t, version).include = <<>>
  \/ t.destination_address # <<>> /\ JuniperDestination(t, version).include = <<>>

JuniperRenders(e, type) ==
  /\ ~JuniperSkips(e.term, type)
  /\ HasMatchCriteria(e) => ~JuniperNoAddresses(e.term, JuniperVersion(type))

\* TcpEstablishedWithNonTcp is raised first, the rest is only looked at inside
\* the clause: the KeyError, and where the term is not left out,
\* NormalizeIcmpTypes and PrecedenceError.
JuniperRefuses(e, type) ==
  LET t == e.term
      version == JuniperVersion(type)
  IN
  /\ ~JuniperSkips(t, type)
  /\ \/ "tcp-established" \in t.option /\ t.protocol # {"tcp"}
     \/ /\ HasMatchCriteria(e)
        /\ \/ JuniperNoMessage(t, version)
           \/ /\ ~JuniperNoAddresses(t, version)
              /\ IcmpTypesRefused(t, version) \/ ~(t.precedence \subseteq 0..7)

\* The one rule of a term.
JuniperRules(e, type) ==
  LET t == e.term
      version == JuniperVersion(type)
      source == JuniperSource(t, version)
      destination == JuniperDestination(t, version)
  IN IF ~HasMatchCriteria(e) THEN {EmptyTerm}
     ELSE {[t EXCEPT
              !.address = OfVersion(@, version),
              !.source_address = source.include,
              !.source_address_exclude =
                 IF source.include = <<>> THEN <<>> ELSE source.except,
              !.destination_address = destination.include,
              !.destination_address_exclude =
                 IF destination.include = <<>> THEN <<>> ELSE destination.except,
              !.option = FromOptions(t), !.platform = {}, !.platform_exclude = {}]}

-----------------------------------------------------------------------------
\* Terms that are written as they are meant.  Those without a `from' clause say
\* nothing; an exclude that swallows one of the addresses is elided, and the
\* address stays.
JuniperAsMeant(e, type) ==
  LET t == e.term
      version == JuniperVersion(type)
      Swallowed(list, excludes) ==
        \E n \in Range(list), x \in Range(excludes) : In(n, x) /\ n # x
  IN
  /\ type # "bridge" => ~PartlyMismatched(t, version)
  /\ HasMatchCriteria(e)
       \/ t = [EmptyTerm EXCEPT !.action = t.action, !.platform = t.platform,
                                !.platform_exclude = t.platform_exclude]
  /\ ~ExcludesFromAny(t)
  /\ t.address_exclude = <<>>
  /\ ~Swallowed(t.source_address, t.source_address_exclude)
  /\ ~Swallowed(t.destination_address, t.destination_address_exclude)
=============================================================================
