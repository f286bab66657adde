------------------------------ MODULE MCTerms -------------------------------
(* Small terms and packets: four addresses of version 4 and one of version  *)
(* 6, three ports, two named protocols and one that no term names.          *)
EXTENDS Terms, TLC

MCBits == (4 :> 2) @@ (6 :> 0)

Net(v, i, n) == [version |-> v, first |-> i, size |-> n]
Numbers4 == {<<4, i>> : i \in 0..3}
AllNumbers == Numbers4 \cup {<<6, 0>>}

\* Lists as AddressCleanup leaves them, with some of what they may exclude.
Whole == <<Net(4, 0, 4)>>
Half == <<Net(4, 0, 2)>>
One == <<Net(4, 1, 1)>>
Ends == <<Net(4, 0, 1), Net(4, 3, 1)>>
Both == <<Net(4, 2, 2), Net(6, 0, 1)>>

Action(action) == [EmptyTerm EXCEPT !.action = {action}]
Accept == Action("accept")
Tcp == [Accept EXCEPT !.protocol = {"tcp"}]

\* Protocols, sides and ports in all combinations.
PlainTerms ==
  {[Accept EXCEPT !.protocol = p, !.source_address = s, !.destination_address = d,
                  !.source_port = q] :
     p \in {{}, {"tcp"}, {"tcp", "udp"}}, s \in {<<>>, Half, One, Both},
     d \in {<<>>, Half}, q \in {<<>>, <<<<0, 1>>>>, <<<<0, 0>>, <<2, 2>>>>}}

\* One other attribute each.
OddTerms ==
  {[Tcp EXCEPT !.destination_port = <<<<1, 1>>>>],
   [Tcp EXCEPT !.port = <<<<0, 1>>>>],
   [Tcp EXCEPT !.port = <<<<1, 1>>>>],
   [Accept EXCEPT !.protocol_except = {"tcp"}],
   [Accept EXCEPT !.protocol_except = {"tcp", "udp"}],
   [Accept EXCEPT !.address = Half],
   [Accept EXCEPT !.address = One, !.source_address = Half],
   [Accept EXCEPT !.precedence = {1}],
   [Accept EXCEPT !.precedence = {1, 2}],
   [Accept EXCEPT !.option = {"established"}],
   [Accept EXCEPT !.option = {"established", "is-fragment"}],
   [Accept EXCEPT !.fragment_offset = <<1>>],
   [Accept EXCEPT !.fragment_offset = <<0, 1>>],
   [Accept EXCEPT !.packet_length = <<0, 1>>],
   [Accept EXCEPT !.packet_length = <<0, 2>>],
   [Accept EXCEPT !.icmp_type = {"echo"}],
   [Accept EXCEPT !.platform = {"cisco"}],
   [Accept EXCEPT !.platform_exclude = {"cisco"}],
   [Accept EXCEPT !.principals = {"alice"}],
   [Accept EXCEPT !.source_prefix = {"list"}],
   [Accept EXCEPT !.destination_prefix = {"list"}],
   [EmptyTerm EXCEPT !.verbatim = {"text"}]}

\* Terms with exceptions on a side or on both, some of which swallow the list.
ExcludingTerms ==
  {[Accept EXCEPT !.source_address = s, !.source_address_exclude = x,
                  !.destination_address = d] :
     s \in {Whole, Ends, Both}, d \in {<<>>, Half},
     x \in {One, <<Net(4, 2, 2)>>, Whole, <<Net(4, 1, 1), Net(4, 2, 1)>>}}
  \cup
  {[Accept EXCEPT !.destination_address = Whole, !.destination_address_exclude = One],
   [Accept EXCEPT !.address = Whole, !.address_exclude = Half],
   [Accept EXCEPT !.address = Half, !.address_exclude = Half \o One]}

\* The addresses of a packet are chosen freely: the comparison does not relate
\* them.
MCPackets ==
  [protocol : {"tcp", "udp", "gre"}, source : AllNumbers, destination : AllNumbers,
   source_port : 0..2, destination_port : 0..2, precedence : {0}, option : {{}},
   fragment_offset : {0}, packet_length : {0}]
  \cup
  [protocol : {"tcp", "gre"}, source : {<<4, 1>>, <<6, 0>>}, destination : {<<4, 1>>},
   source_port : {1}, destination_port : {2}, precedence : 0..2,
   option : SUBSET {"established", "is-fragment"},
   fragment_offset : 0..2, packet_length : 0..3]
=============================================================================
