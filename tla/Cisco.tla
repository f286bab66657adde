-------------------------------- MODULE Cisco -------------------------------
(***************************************************************************)
(* lib/cisco.py: the lines of an access list a term becomes.  An access    *)
(* list is extended (IPv4), inet6, standard, or an object-group one; a     *)
(* mixed filter is rendered twice, as an extended and an inet6 list.       *)
(***************************************************************************)
EXTENDS AclGenerator

CONSTANTS
  StandardNumbers,  \* filter names that are numbers reserved for standard lists,
  OtherNumbers      \* and those that are other numbers

CiscoKeywords ==
  {"address", "counter", "expiration", "logging", "loss_priority", "owner",
   "policer", "port", "qos", "routing_instance"}

CiscoTypes == {"extended", "standard", "object-group", "inet6", "mixed"}

\* The type is the first option, and extended when there is none.
CiscoType(options) == IF options = <<>> THEN "extended" ELSE options[1]

\* The lists a filter becomes, in order.
CiscoPasses(options) ==
  IF CiscoType(options) = "mixed" THEN <<"extended", "inet6">>
  ELSE <<CiscoType(options)>>

\* UnsupportedCiscoAccessListError: an unknown type, or a number of the other
\* kind of list.
CiscoOptionsRefused(name, options) ==
  \/ CiscoType(options) \notin CiscoTypes
  \/ "extended" \in Range(CiscoPasses(options)) /\ name \in StandardNumbers
  \/ CiscoType(options) = "standard" /\ name \in OtherNumbers

CiscoVersion(type) == IF type = "inet6" THEN 6 ELSE 4

-----------------------------------------------------------------------------
(* Standard lists: TermStandard *)

\* StandardAclTermError, raised by the constructor: for terms of other platforms
\* too.
StandardRefuses(e) ==
  \/ Keywords(e) \cap {"protocol", "icmp_type", "source_address",
       "source_address_exclude", "destination_address",
       "destination_address_exclude", "option", "source_port",
       "destination_port"} # {}
  \/ "counter" \in e.keywords

\* A line for each address of version 4, and one for any when there is none.
\* What a standard list compares is the source.
StandardRules(t) ==
  {[EmptyTerm EXCEPT !.source_address = a] : a \in EachOf(OfVersion(t.address, 4))}

-----------------------------------------------------------------------------
(* Extended and inet6 lists: Term *)

CiscoSkips(t, version) == ~ActiveOn(t, "cisco") \/ FamilyMismatch(t, version)
                            \/ t.verbatim # {}

\* The addresses of a side.  Excludes are only looked at when it has some.
CiscoSide(list, excludes, version) ==
  LET own == OfVersion(list, version)
      not == OfVersion(excludes, version)
  IN IF not = <<>> THEN own ELSE ExcludeAddrs(own, not)

CiscoSource(t, version) ==
  CiscoSide(t.source_address, t.source_address_exclude, version)
CiscoDestination(t, version) ==
  CiscoSide(t.destination_address, t.destination_address_exclude, version)

\* A side has addresses, but none of this version is left: nothing is written.
CiscoNoAddresses(t, version) ==
  \/ t.source_address # <<>> /\ CiscoSource(t, version) = <<>>
  \/ t.destination_address # <<>> /\ CiscoDestination(t, version) = <<>>

CiscoRefuses(t, version) ==
  /\ ~CiscoSkips(t, version)
  /\ ~CiscoNoAddresses(t, version)
  /\ IcmpTypesRefused(t, version)

CiscoRenders(t, version) == ~CiscoSkips(t, version) /\ ~CiscoNoAddresses(t, version)

\* One line per combination.  established is the only option there is, for
\* terms that have TCP among their protocols; it is taken off the lines for UDP
\* (_TermletToStr).
CiscoRules(t, version) ==
  LET est == "tcp" \in t.protocol
               /\ {"established", "tcp-established"} \cap t.option # {}
      shape == [EmptyTerm EXCEPT !.protocol = t.protocol, !.icmp_type = t.icmp_type]
      lines == Product(shape, CiscoSource(t, version), CiscoDestination(t, version),
                       EachOf(t.source_port), EachOf(t.destination_port))
  IN {[r EXCEPT !.option = IF est /\ r.protocol # {"udp"} THEN {"established"}
                           ELSE {}] : r \in lines}

-----------------------------------------------------------------------------
(* The lines of an object-group list: ObjectGroupTerm *)

\* The addresses of both versions, and neither excludes nor options
\* nor ICMP types.
ObjectGroupRules(t) ==
  Product([EmptyTerm EXCEPT !.protocol = t.protocol],
          t.source_address, t.destination_address,
          EachOf(t.source_port), EachOf(t.destination_port))

-----------------------------------------------------------------------------
\* Terms that are written as they are meant; the lines of an object-group list
\* are nobody's (they name groups that are not defined).
CiscoAsMeant(t, type) ==
  IF type = "standard" THEN t.port = <<>> /\ t.address = OfVersion(t.address, 4)
                              /\ t.address_exclude = <<>>
  ELSE /\ type \in {"extended", "inet6"}
       /\ t.address = <<>> /\ t.port = <<>>
       /\ ~PartlyMismatched(t, CiscoVersion(type))
       /\ ~ExcludesFromAny(t)
       /\ t.option \subseteq {"established", "tcp-established", "sample"}
       /\ "tcp-established" \in t.option => t.protocol = {"tcp"}
=============================================================================
