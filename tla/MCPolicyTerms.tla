---------------------------- MODULE MCPolicyTerms ----------------------------
(***************************************************************************)
(* The terms of a policy: their ports and addresses are collapsed, they    *)
(* are compared with one another, and packets are looked up in them.  TLC  *)
(* instances of PortList, NacAddr, Shading and AclCheck, side by side: in  *)
(* a behaviour one of the four is at work, and the other three stay at     *)
(* their beginning.                                                        *)
(***************************************************************************)
EXTENDS PortList, NacAddr, Shading, AclCheck, MCTerms

MCWidths == (4 :> 3) @@ (6 :> 1)

-----------------------------------------------------------------------------
(* Ports: lists of up to three ranges over five ports.                      *)

MCAnyPort == 0..4
MCPortsAdded == <<3, 4>>

\* Every range over the ports, and the inverted ones of neighbours.
MCRanges == {r \in MCAnyPort \X MCAnyPort : r[2] >= r[1] - 1}
MCLists == BoundedSeq(MCRanges, 3)

\* One range, or two at the ends: what the other term names.
MCOthers ==
  BoundedSeq(MCRanges, 1) \cup {<<<<0, b>>, <<c, 4>>>> : b, c \in MCAnyPort}

-----------------------------------------------------------------------------
(* Addresses: lists of up to three networks.  The order of a list does not  *)
(* matter (it is sorted first), so each is given in one order.  In each set *)
(* of comments one is part of another; one is empty.                        *)

MCPieces == {"dns", "backup", "mail", ","}

Comments ==
  {<<<<"dns">>, <<"dns", "backup">>, <<"mail">>>>,
   <<<<"dns", "backup">>, <<>>, <<"backup">>>>}

ExcludesComments == {<<<<"mail">>, <<"dns">>>>}

NotAfter(m, n) ==
  m = n \/ Before([net |-> m, text |-> <<>>], [net |-> n, text |-> <<>>])

Ordered(l) == \A j, k \in DOMAIN l : j < k => NotAfter(l[j], l[k])

AddressLists(networks, n, comments) ==
  {[k \in DOMAIN l |-> [net |-> l[k], text |-> c[k]]] :
     l \in {s \in BoundedSeq(networks, n) : Ordered(s)}, c \in comments}

MCSupersets == AddressLists(Networks, 3, Comments)

\* Networks of every size, and a single number in the middle of a space.
MCExcludes == AddressLists({n \in Networks : n.first \in {0, 3}}, 2, ExcludesComments)

-----------------------------------------------------------------------------
(* Comparison: every filter of two of the terms of MCTerms, and of three of *)
(* a few.                                                                   *)

NextTerms == {Action("next"), [Action("next") EXCEPT !.source_address = Half]}

AllTerms ==
  {t \in PlainTerms \cup OddTerms \cup ExcludingTerms \cup NextTerms : Sane(t)}

EditedTerms ==
  {Accept,
   [Accept EXCEPT !.source_address = Half],
   [Accept EXCEPT !.source_address = Ends, !.source_address_exclude = One],
   [Accept EXCEPT !.source_address = Whole, !.source_address_exclude = One]}
  \cup NextTerms

MCFilters == (BoundedSeq(AllTerms, 2) \ {<<>>}) \cup TupleOf(EditedTerms, 3)

-----------------------------------------------------------------------------
(* Look-up: policies of one filter of up to three terms, or two of one;     *)
(* packets known in full or in part.                                        *)

FewTerms ==
  {Action("next"), Tcp,
   [Accept EXCEPT !.source_address = Half],
   [Tcp EXCEPT !.source_address = One, !.source_port = <<<<0, 1>>>>],
   [Tcp EXCEPT !.option = {"established"}],
   [Accept EXCEPT !.protocol_except = {"tcp"}]}

CheckedTerms == FewTerms \cup
  {Accept,
   [Action("deny") EXCEPT !.source_address = Both, !.destination_address = One],
   [Tcp EXCEPT !.protocol = {"tcp", "udp"}, !.destination_port = <<<<1, 1>>>>],
   [Accept EXCEPT !.packet_length = <<0, 1>>],
   [Tcp EXCEPT !.port = <<<<0, 1>>>>],
   [Accept EXCEPT !.precedence = {1}],
   [EmptyTerm EXCEPT !.verbatim = {"text"}]}

MCPolicies ==
  {<<f>> : f \in (BoundedSeq(CheckedTerms, 2) \ {<<>>}) \cup TupleOf(FewTerms, 3)}
    \cup {<<<<s>>, <<t>>>> : s, t \in FewTerms}

MCQueries ==
  [src : {ANY, Net(4, 1, 1), Net(4, 2, 1), Net(6, 0, 1), Net(4, 0, 2)},
   dst : {ANY, Net(4, 1, 1)}, sport : {ANY, 1}, dport : {ANY, 2},
   proto : {ANY, "tcp", "gre"}]

\* Every packet that some query or some term tells from the others.
CheckedPackets ==
  [protocol : {"tcp", "udp", "gre"}, source : {<<4, 0>>, <<4, 1>>, <<4, 2>>, <<6, 0>>},
   destination : {<<4, 1>>, <<4, 3>>}, source_port : 1..2, destination_port : 1..2,
   precedence : {0}, option : {{}, {"established"}},
   fragment_offset : {0}, packet_length : {0, 2}]

AllPackets == MCPackets \cup CheckedPackets

-----------------------------------------------------------------------------
VARIABLE work   \* which of the four is at work

PortsIdle == ports = <<>> /\ PortInit
AddressesIdle == superset = <<>> /\ excludes = <<>> /\ AInit
ComparisonIdle == given = <<Accept>> /\ ShadingInit
LookUpIdle ==
  /\ policy = <<<<Accept>>>>
  /\ query = [src |-> ANY, dst |-> ANY, sport |-> ANY, dport |-> ANY, proto |-> ANY]
  /\ CheckInit

Init ==
  \/ work = "ports" /\ AddressesIdle /\ ComparisonIdle /\ LookUpIdle /\ PortInit
  \/ work = "addresses" /\ PortsIdle /\ ComparisonIdle /\ LookUpIdle /\ AInit
  \/ work = "comparison" /\ PortsIdle /\ AddressesIdle /\ LookUpIdle /\ ShadingInit
  \/ work = "look-up" /\ PortsIdle /\ AddressesIdle /\ ComparisonIdle /\ CheckInit

Ports ==
  /\ work = "ports"
  /\ PortNext \/ (stage \in {"collapsed", "raised"} /\ UNCHANGED portVars)
  /\ UNCHANGED <<work, avars, shadingVars, checkVars>>

AddressList ==
  work = "addresses" /\ ANext /\ UNCHANGED <<work, portVars, shadingVars, checkVars>>

Comparison ==
  work = "comparison" /\ ShadingNext /\ UNCHANGED <<work, portVars, avars, checkVars>>

LookUp ==
  work = "look-up" /\ CheckNext /\ UNCHANGED <<work, portVars, avars, shadingVars>>

Next == Ports \/ AddressList \/ Comparison \/ LookUp

Spec == Init /\ [][Next]_<<work, portVars, avars, shadingVars, checkVars>>
=============================================================================
