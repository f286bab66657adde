------------------------------ MODULE CiscoAsa ------------------------------
(***************************************************************************)
(* lib/ciscoasa.py: the lines of the access list of an ASA.  It looks      *)
(* neither at the platforms of a filter nor at the length of names, adds   *)
(* no high ports, and writes its terms while it translates them.           *)
(***************************************************************************)
EXTENDS AclGenerator

AsaKeywords == {"expiration", "logging", "owner"}

\* The lists are all for version 4: no other one is asked for.
AsaSkips(t) == ~ActiveOn(t, "ciscoasa") \/ FamilyMismatch(t, 4) \/ t.verbatim # {}

AsaRefuses(t) == ~AsaSkips(t) /\ IcmpTypesRefused(t, 4)

AsaSide(list, excludes) ==
  LET own == OfVersion(list, 4)
      not == OfVersion(excludes, 4)
  IN IF not = <<>> THEN own ELSE ExcludeAddrs(own, not)

\* One line per combination; none when a side has addresses but none is left.
\* established is looked for with the number of TCP among the names of the
\* protocols, so that no line has it.
AsaRules(t) ==
  LET source == AsaSide(t.source_address, t.source_address_exclude)
      destination == AsaSide(t.destination_address, t.destination_address_exclude)
      shape == [EmptyTerm EXCEPT !.protocol = t.protocol, !.icmp_type = t.icmp_type]
  IN IF \/ t.source_address # <<>> /\ source = <<>>
        \/ t.destination_address # <<>> /\ destination = <<>>
     THEN {}
     ELSE Product(shape, source, destination,
                  EachOf(t.source_port), EachOf(t.destination_port))

-----------------------------------------------------------------------------
\* Terms that are written as they are meant.  Those of a filter for other
\* platforms only are written, too, and nobody has looked at their keywords.
AsaAsMeant(e) ==
  /\ Keywords(e) \subseteq RequiredKeywords \cup AsaKeywords
  /\ ~PartlyMismatched(e.term, 4)
  /\ ~ExcludesFromAny(e.term)
  /\ e.term.option \subseteq {"sample"}
=============================================================================
