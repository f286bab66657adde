----------------------------- MODULE JuniperSrx -----------------------------
(***************************************************************************)
(* lib/junipersrx.py: the policies of an SRX.  A policy names its          *)
(* addresses by the definitions they were taken from and its protocols and *)
(* ports by an application that has the name of the term.  The address     *)
(* books, one for each zone, and the applications are made for all filters *)
(* of the policy file together, before any of them is written.             *)
(***************************************************************************)
EXTENDS AclGenerator

NoToken == ""

SrxKeywords == {"expiration", "logging", "owner", "routing_instance", "timeout"}

\* from-zone <zone> to-zone <zone>, and inet or nothing; the first word is
\* taken for the name of the filter.
SrxOptionsRefused(name, options) ==
  \/ name # "from-zone"
  \/ Len(options) < 3
  \/ options[2] # "to-zone"
  \/ Len(options) > 3 /\ options[4] # "inet"

SrxZones(options) == [from |-> options[1], to |-> options[3]]

-----------------------------------------------------------------------------
(* Addresses *)

Known(list) == [k \in DOMAIN list |-> [net |-> list[k], token |-> Token[list[k]]]]

\* RemoveAddressFromList.  The parts of an address that is split are new ones:
\* they have no token.
RemoveAddress(list, x) ==
  LET Rest(a) ==
        IF In(a.net, x) THEN <<>>
        ELSE IF In(x, a.net)
        THEN LET parts == AddressExclude(a.net, x)
             IN [k \in DOMAIN parts |-> [net |-> parts[k], token |-> NoToken]]
        ELSE <<a>>
  IN FlattenSeq([k \in DOMAIN list |-> Rest(list[k])])

\* The addresses of a side, of both versions, each exclude taken out in turn.
SrxSide(list, excludes) ==
  LET Left[k \in 0..Len(excludes)] ==
        IF k = 0 THEN Known(list) ELSE RemoveAddress(Left[k - 1], excludes[k])
  IN Left[Len(excludes)]

SrxSource(t) == SrxSide(t.source_address, t.source_address_exclude)
SrxDestination(t) == SrxSide(t.destination_address, t.destination_address_exclude)

Tokens(side) == {side[k].token : k \in DOMAIN side}

Entries(zone, side) ==
  {[zone |-> zone, token |-> side[k].token, net |-> side[k].net] : k \in DOMAIN side}

\* _BuildAddressBook
AddToBook(book, t, zones) ==
  book \cup Entries(zones.from, SrxSource(t)) \cup Entries(zones.to, SrxDestination(t))

\* The addresses of the sets a policy names on a side; none is named when the
\* term has no addresses, or none left.
SetMembers(book, zone, side) ==
  Listed({b.net : b \in {c \in book : c.zone = zone /\ c.token \in Tokens(side)}})

-----------------------------------------------------------------------------
(* Applications *)

\* What an application permits; "application any" when it is empty.
Application(name, t) ==
  [name |-> name, protocol |-> t.protocol, icmp_type |-> t.icmp_type,
   source_port |-> t.source_port, destination_port |-> t.destination_port]

NeedsApplication(t) ==
  \/ t.protocol # {} \/ t.icmp_type # {}
  \/ t.source_port # <<>> \/ t.destination_port # <<>>

\* With ICMP types the protocol is icmp, whatever the term says.
ApplicationRules(app) ==
  LET shape == [EmptyTerm EXCEPT !.protocol = app.protocol,
                                 !.source_port = app.source_port,
                                 !.destination_port = app.destination_port]
  IN IF app.icmp_type # {}
     THEN {[EmptyTerm EXCEPT !.protocol = {"icmp"}, !.icmp_type = app.icmp_type]}
     ELSE Product(shape, <<>>, <<>>, EachOf(app.source_port),
                  EachOf(app.destination_port))

-----------------------------------------------------------------------------
(* Term.__str__ *)

SrxSkips(t) == ~ActiveOn(t, "srx")

\* NormalizeIcmpTypes, for terms of other platforms too.
SrxTranslateRefuses(t) == IcmpTypesRefused(t, 4)

\* SRXOptionError and SRXVerbatimError; an action that is not in the table is a
\* TypeError.
SrxRefuses(t) ==
  /\ ~SrxSkips(t)
  /\ \/ t.option # {} \/ t.verbatim # {}
     \/ t.action \cap {"next", "reject-with-tcp-rst"} # {}

\* A policy: the members of the sets it names, and every application of its
\* name.
SrxRules(e, zones, book, apps) ==
  LET t == e.term
      permitted == IF ~NeedsApplication(t) THEN {EmptyTerm}
                   ELSE UNION {ApplicationRules(a) : a \in {b \in apps : b.name = e.name}}
  IN {[r EXCEPT !.source_address = SetMembers(book, zones.from, SrxSource(t)),
                !.destination_address = SetMembers(book, zones.to, SrxDestination(t))] :
        r \in permitted}

-----------------------------------------------------------------------------
\* Terms that are written as they are meant: the sets they name hold no address
\* of another term, and neither does the application.
SrxAsMeant(e, zones, book, apps) ==
  LET t == e.term
      Own(zone, side, list) ==
        /\ list # <<>> => side # <<>>
        /\ AddressesOf(SetMembers(book, zone, side))
             = UNION {Numbers(side[k].net) : k \in DOMAIN side}
  IN
  /\ ~e.expired
  /\ ~ExcludesFromAny(t)
  /\ Own(zones.from, SrxSource(t), t.source_address)
  /\ Own(zones.to, SrxDestination(t), t.destination_address)
  /\ \A a, b \in apps : a.name = e.name /\ b.name = e.name => a = b
=============================================================================
