------------------------------ MODULE Shading -------------------------------
(***************************************************************************)
(* Policy._DetectShading, in lib/policy.py: each term of a filter is       *)
(* compared with those before it, and a term that one of them contains is  *)
(* reported.                                                               *)
(*                                                                         *)
(* The comparison is not a pure one.  Terms are flattened when they are    *)
(* first compared (Term.FlattenAll), which takes the excluded addresses    *)
(* out of the very lists the term will be rendered from, and what it found *)
(* is kept with the term.                                                  *)
(***************************************************************************)
EXTENDS Terms, FiniteSetsExt

CONSTANT TermLists  \* the lists of terms _DetectShading is called with

\* The attributes of class Term, and the lists that the comparison looks at.
ListedAs(t) ==
  /\ DOMAIN t = DOMAIN EmptyTerm
  /\ {t.source_address, t.destination_address, t.address} \subseteq Seq(Networks)
  /\ {t.source_address_exclude, t.destination_address_exclude, t.address_exclude}
       \subseteq Seq(Networks)
  /\ {t.port, t.source_port, t.destination_port} \subseteq Seq(Int \X Int)

\* What FlattenAll sets.
Flats == [saddr : Seq(Networks), daddr : Seq(Networks), addr : Seq(Networks)]

\* What the packets are made of.
Occurring ==
  [protocol |-> {p.protocol : p \in Packets},
   source |-> {p.source : p \in Packets},
   destination |-> {p.destination : p \in Packets},
   source_port |-> {p.source_port : p \in Packets},
   destination_port |-> {p.destination_port : p \in Packets}]

\* Any address goes with any other, with any protocol and any ports.
PartsCombine ==
  \A protocol \in Occurring.protocol,
     source \in Occurring.source, destination \in Occurring.destination,
     source_port \in Occurring.source_port, destination_port \in Occurring.destination_port :
    \E p \in Packets :
      /\ p.protocol = protocol
      /\ p.source = source /\ p.destination = destination
      /\ p.source_port = source_port /\ p.destination_port = destination_port

\* There is nothing in the term's lists that no packet has.
ListedInPackets(t) ==
  /\ t.protocol \subseteq Occurring.protocol
  /\ AddressesOf(t.source_address) \subseteq Occurring.source
  /\ AddressesOf(t.destination_address) \subseteq Occurring.destination
  /\ Cover(t.source_port) \subseteq Occurring.source_port
  /\ Cover(t.destination_port) \subseteq Occurring.destination_port

ASSUME ShadingAssumption ==
  /\ \A f \in TermLists :
       /\ f \in Seq({f[k] : k \in DOMAIN f})
       /\ \A k \in DOMAIN f : ListedAs(f[k]) /\ ListedInPackets(f[k])
  /\ NONE \notin Flats
  /\ PartsCombine

VARIABLES
  terms,       \* the terms, as they are now
  flat,        \* the flattened lists of each, or NONE before FlattenAll
  index,       \* the place of the term that is compared
  prior,       \* the place of the one it is compared with
  errors,      \* shading_errors, as pairs of places
  outcome,     \* "comparing", or how the check ended
  given,       \* history: the terms the check was given
  flattening,  \* the place of the term FlattenAll is at work on
  side,        \* which of its lists, or "none" when it is not at work
  calls        \* the calls of _FlattenAddresses, the innermost one first

comparison == <<index, prior, errors, outcome, given>>
flatten == <<terms, flat, flattening, side, calls>>
shadingVars == <<comparison, flatten>>

ShadingInit ==
  /\ given \in TermLists
  /\ terms = given
  /\ flat = [k \in DOMAIN given |-> NONE]
  /\ index = 2
  /\ prior = 1
  /\ errors = {}
  /\ outcome = "comparing"
  /\ flattening = 1
  /\ side = "none"
  /\ calls = <<>>

Comparing == outcome = "comparing" /\ side = "none" /\ index <= Len(terms)

Later == terms[index]
Prior == terms[prior]

\* Verbatim and protocols decide before anything is flattened; then it is the
\* turn of the earlier term, and then of the later one.
Unflattened(k) ==
  /\ Comparing
  /\ ProtocolsAllow(Prior, Later)
  /\ \/ k = prior /\ flat[prior] = NONE
     \/ k = index /\ flat[prior] # NONE /\ flat[index] = NONE

-----------------------------------------------------------------------------
(* FlattenAll *)

ListOf(t, s) ==
  CASE s = "saddr" -> t.source_address
    [] s = "daddr" -> t.destination_address
    [] s = "addr" -> t.address

ExcludesOf(t, s) ==
  CASE s = "saddr" -> t.source_address_exclude
    [] s = "daddr" -> t.destination_address_exclude
    [] s = "addr" -> t.address_exclude

WithList(t, s, list) ==
  CASE s = "saddr" -> [t EXCEPT !.source_address = list]
    [] s = "daddr" -> [t EXCEPT !.destination_address = list]
    [] s = "addr" -> [t EXCEPT !.address = list]

FlatWith(f, s, list) ==
  [saddr |-> IF s = "saddr" THEN list ELSE f.saddr,
   daddr |-> IF s = "daddr" THEN list ELSE f.daddr,
   addr |-> IF s = "addr" THEN list ELSE f.addr]

\* The attributes FlattenAll does not set stay None, which is as good as empty.
Unset == [saddr |-> <<>>, daddr |-> <<>>, addr |-> <<>>]

FlattenPlain ==
  /\ \E k \in {prior, index} :
       /\ Unflattened(k)
       /\ ~HasExcludes(terms[k])
       /\ flat' = [flat EXCEPT ![k] = AsWritten(terms[k])]
  /\ UNCHANGED <<comparison, terms, flattening, side, calls>>

FlattenBegins ==
  /\ \E k \in {prior, index} :
       /\ Unflattened(k)
       /\ HasExcludes(terms[k])
       /\ flat' = [flat EXCEPT ![k] = Unset]
       /\ flattening' = k
  /\ side' = "saddr"
  /\ UNCHANGED <<comparison, terms, calls>>

SideExcludes == ExcludesOf(terms[flattening], side)

NextSide ==
  side' = CASE side = "saddr" -> "daddr" [] side = "daddr" -> "addr" [] side = "addr" -> "none"

\* With excludes, only the lists that have some are flattened.
SkipSide ==
  /\ outcome = "comparing"
  /\ side # "none"
  /\ SideExcludes = <<>>
  /\ NextSide
  /\ UNCHANGED <<comparison, terms, flat, flattening, calls>>

\* A call of _FlattenAddresses: the place in its list, and the place in the
\* excludes, or 0 before the next address is taken.
Call(include, exclude) ==
  [list |-> include, exclude |-> exclude, i |-> 1, e |-> 0, in |-> NONE]

FlattenSide ==
  /\ outcome = "comparing"
  /\ side # "none"
  /\ SideExcludes # <<>>
  /\ calls = <<>>
  /\ calls' = <<Call(ListOf(terms[flattening], side), SideExcludes)>>
  /\ UNCHANGED <<comparison, terms, flat, flattening, side>>

-----------------------------------------------------------------------------
(* _FlattenAddresses *)

call == Head(calls)

\* The innermost call goes on.
GoesOn(list, i, e, in) ==
  <<[list |-> list, exclude |-> call.exclude, i |-> i, e |-> e, in |-> in]>> \o Tail(calls)

InCall ==
  /\ outcome = "comparing"
  /\ calls # <<>>
  /\ call.exclude # <<>>
  /\ UNCHANGED <<comparison, terms, flat, flattening, side>>

\* The next address of the list, which grows and shrinks under the loop.
NextAddress ==
  /\ InCall
  /\ call.e = 0
  /\ call.i <= Len(call.list)
  /\ calls' = GoesOn(call.list, call.i, 1, call.list[call.i])

NotExcluded ==
  /\ InCall
  /\ call.e \in DOMAIN call.exclude
  /\ ~In(call.exclude[call.e], call.in)
  /\ calls' = GoesOn(call.list, call.i, call.e + 1, call.in)

\* Mutant of Split: the address stays in the list.
SplitKeeps ==
  /\ InCall
  /\ call.e \in DOMAIN call.exclude
  /\ In(call.exclude[call.e], call.in)
  /\ call.i <= Len(call.list)
  /\ calls' = <<Call(AddressExclude(call.in, call.exclude[call.e]), Tail(call.exclude))>>
                \o GoesOn(call.list, call.i, call.e + 1, call.in)

\* pop(index) takes whatever is there now, which need not be the address.
Split ==
  /\ InCall
  /\ call.e \in DOMAIN call.exclude
  /\ In(call.exclude[call.e], call.in)
  /\ call.i <= Len(call.list)
  /\ calls' = <<Call(AddressExclude(call.in, call.exclude[call.e]), Tail(call.exclude))>>
                \o GoesOn(RemoveAt(call.list, call.i), call.i, call.e + 1, call.in)

\* pop() from a list that has become too short.
SplitFails ==
  /\ outcome = "comparing"
  /\ calls # <<>>
  /\ call.e \in DOMAIN call.exclude
  /\ In(call.exclude[call.e], call.in)
  /\ call.i > Len(call.list)
  /\ outcome' = "IndexError"
  /\ UNCHANGED <<index, prior, errors, given, flatten>>

EndOfExcludes ==
  /\ InCall
  /\ call.e > Len(call.exclude)
  /\ calls' = GoesOn(call.list, call.i + 1, 0, call.in)

CallEnds ==
  /\ outcome = "comparing"
  /\ calls # <<>>
  /\ call.exclude = <<>> \/ (call.e = 0 /\ call.i > Len(call.list))

\* include.extend(...)
ReturnToCall ==
  /\ CallEnds
  /\ Tail(calls) # <<>>
  /\ calls' = <<[calls[2] EXCEPT !.list = @ \o call.list]>> \o Tail(Tail(calls))
  /\ UNCHANGED <<comparison, terms, flat, flattening, side>>

\* The list is the term's own, which is what it will be rendered from.
ReturnToTerm ==
  /\ CallEnds
  /\ Tail(calls) = <<>>
  /\ calls' = <<>>
  /\ terms' = [terms EXCEPT ![flattening] = WithList(@, side, call.list)]
  /\ flat' = [flat EXCEPT ![flattening] = FlatWith(@, side, call.list)]
  /\ NextSide
  /\ UNCHANGED <<comparison, flattening>>

-----------------------------------------------------------------------------
(* _DetectShading *)

\* Mutant of Advance: the term just before is not compared.
AdvanceEarly ==
  IF prior + 2 < index
  THEN prior' = prior + 1 /\ UNCHANGED index
  ELSE index' = index + 1 /\ prior' = 1

\* The next pair of the two loops.
Advance ==
  IF prior + 1 < index
  THEN prior' = prior + 1 /\ UNCHANGED index
  ELSE index' = index + 1 /\ prior' = 1

\* Verbatim and protocols decide first.
Refused ==
  /\ Comparing
  /\ ~ProtocolsAllow(Prior, Later)
  /\ Advance
  /\ UNCHANGED <<errors, outcome, given, flatten>>

Flattened ==
  /\ Comparing
  /\ ProtocolsAllow(Prior, Later)
  /\ flat[prior] # NONE
  /\ flat[index] # NONE

\* other.sport is not an attribute of a term.
PortFails ==
  /\ Flattened
  /\ AddressContained(flat[prior], flat[index])
  /\ PrincipalsContained(Prior, Later)
  /\ PortRaises(Prior, Later)
  /\ outcome' = "AttributeError"
  /\ UNCHANGED <<index, prior, errors, given, flatten>>

TermInPrior == Contained(Prior, Later, flat[prior], flat[index])

\* The comparison comes to an end; a term with action next shades nothing.
Compare ==
  /\ Flattened
  /\ ~(/\ AddressContained(flat[prior], flat[index])
       /\ PrincipalsContained(Prior, Later)
       /\ PortRaises(Prior, Later))
  /\ errors' = IF TermInPrior /\ "next" \notin Prior.action
               THEN errors \cup {<<index, prior>>}
               ELSE errors
  /\ Advance
  /\ UNCHANGED <<outcome, given, flatten>>

\* All pairs have been compared.
ShadingPassed ==
  /\ outcome = "comparing"
  /\ side = "none"
  /\ index > Len(terms)
  /\ outcome' = IF errors = {} THEN "passed" ELSE "ShadingError"
  /\ UNCHANGED <<index, prior, errors, given, flatten>>

ShadingEnded == outcome # "comparing" /\ UNCHANGED shadingVars

Flatten ==
  \/ FlattenPlain \/ FlattenBegins \/ SkipSide \/ FlattenSide
  \/ NextAddress \/ NotExcluded \/ Split \/ SplitFails \/ EndOfExcludes
  \/ ReturnToCall \/ ReturnToTerm

ShadingStep == Refused \/ Flatten \/ PortFails \/ Compare \/ ShadingPassed

ShadingNext == ShadingStep \/ ShadingEnded

ShadingSpec == ShadingInit /\ [][ShadingNext]_shadingVars

-----------------------------------------------------------------------------
(* Properties *)

\* The packets a term matches as it was written.
MatchedAsGiven ==
  [t \in UNION {ToSet(f) : f \in TermLists} |-> {p \in Packets : Matches(t, p)}]

AtMostOneExclude(t) ==
  /\ Len(t.source_address_exclude) <= 1
  /\ Len(t.destination_address_exclude) <= 1
  /\ Len(t.address_exclude) <= 1

\* The comparison is a sound one for these: see the README for the others.
ComparedSoundly(s, o) ==
  /\ ~HasExcludes(s)
  /\ AtMostOneExclude(o)
  /\ ComparedAsMeant(s, o)

\* A term that is reported is really unreachable: whatever it matches, the
\* earlier term has matched before and does not pass on.  A policy is never
\* refused for a term that could be hit, in whatever order the terms were
\* flattened.
ShadedIsUnreachable ==
  \A pair \in errors :
    LET term == given[pair[1]]
        earlier == given[pair[2]]
    IN ComparedSoundly(earlier, term) =>
         /\ MatchedAsGiven[term] \subseteq MatchedAsGiven[earlier]
         /\ "next" \notin earlier.action

\* Lists as AddressCleanup and TranslatePorts leave them: what is in one of them
\* without a gap is in one entry of it.
InOneEntry(list) ==
  \A n \in Networks : Numbers(n) \subseteq AddressesOf(list) =>
    \E k \in DOMAIN list : In(n, list[k])

PortsInOneEntry(list) ==
  /\ \A k \in DOMAIN list : list[k][1] <= list[k][2]
  /\ \A a, b \in Cover(list) : a..b \subseteq Cover(list) =>
       \E k \in DOMAIN list : list[k][1] <= a /\ b <= list[k][2]

\* Nothing but protocols, sides and their ports, and no list that writes out
\* every protocol, address or port: it is not taken for the empty list.
Simple(t) ==
  /\ InOneEntry(t.source_address) /\ InOneEntry(t.destination_address)
  /\ PortsInOneEntry(t.source_port) /\ PortsInOneEntry(t.destination_port)
  /\ t.protocol # Occurring.protocol
  /\ {Occurring.source, Occurring.destination} \cap
       {AddressesOf(t.source_address), AddressesOf(t.destination_address)} = {}
  /\ {Occurring.source_port, Occurring.destination_port} \cap
       {Cover(t.source_port), Cover(t.destination_port)} = {}
  /\ t = [EmptyTerm EXCEPT !.action = t.action, !.protocol = t.protocol,
         !.source_address = t.source_address,
         !.destination_address = t.destination_address,
         !.source_port = t.source_port, !.destination_port = t.destination_port]

\* Of an earlier term that has protocols the later one does not have, the later
\* one is overlooked.
SimplePair(s, o) == Simple(s) /\ Simple(o) /\ s.protocol \subseteq o.protocol

\* A check that passes has overlooked nothing else: of such a pair the later one
\* matches something the earlier does not, unless the earlier goes on to the
\* next term.  Other kinds of terms are compared too narrowly for this.
ShadedIsFound ==
  outcome = "passed" =>
    \A j \in DOMAIN given, k \in DOMAIN given :
      (/\ k < j
       /\ SimplePair(given[k], given[j])
       /\ "next" \notin given[k].action) =>
        ~(MatchedAsGiven[given[j]] \subseteq MatchedAsGiven[given[k]])

\* At most one exclude a list, no entry strictly inside it and only one entry
\* that holds it: an entry inside stays, the entry after one that was split is
\* passed over, and a second exclude is taken from the wrong entries.
ExcludesFit(list, exclude) ==
  /\ Len(exclude) <= 1
  /\ \A n \in ToSet(list), x \in ToSet(exclude) : In(n, x) => n = x
  /\ \A j, k \in DOMAIN list : \A x \in ToSet(exclude) :
       In(x, list[j]) /\ In(x, list[k]) => j = k

\* Flattening a list takes the excluded addresses out of it and no others, and
\* what is compared is what the term will be rendered from, whatever was
\* compared with it before.
ListReduced(was, exclude, list, flattened) ==
  ExcludesFit(was, exclude) =>
    /\ AddressesOf(list) = AddressesOf(was) \ AddressesOf(exclude)
    /\ flattened \in {<<>>, list}

FlattenedIsReduced ==
  \A k \in DOMAIN given :
    (flat[k] # NONE /\ (side = "none" \/ k # flattening)) =>
      LET g == given[k]
          t == terms[k]
      IN /\ ListReduced(g.source_address, g.source_address_exclude,
                        t.source_address, flat[k].saddr)
         /\ ListReduced(g.destination_address, g.destination_address_exclude,
                        t.destination_address, flat[k].daddr)
         /\ ListReduced(g.address, g.address_exclude, t.address, flat[k].addr)

=============================================================================
