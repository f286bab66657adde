---------------------------- MODULE MCGenerators -----------------------------
(* Policies of one term for every platform and type of list, and of a few   *)
(* terms and filters.  Three bits of addresses for version 4, one for 6.    *)
EXTENDS Generators, TLC

MCBits == (4 :> 3) @@ (6 :> 1)
MCHighPorts == <<5, 6>>
MCIcmpTypes == (4 :> {"echo", "reply"}) @@ (6 :> {"echo"})

Net(v, i, n) == [version |-> v, first |-> i, size |-> n]

\* Two definitions, and networks of both in either half.
MCToken == [n \in Networks |-> IF n.first % 2 = 0 THEN "EVEN" ELSE "ODD"]

MCShortNames == {"a", "b", "ab"}
MCAbbreviated == [n \in {"a", "b", "ab", "along", "blong"} |->
                    IF n = "along" THEN "a" ELSE n]
MCTruncated == [n \in {"a", "b", "ab", "along", "blong"} |->
                  IF n \in {"along", "blong"} THEN "ab" ELSE n]

Accept == [EmptyTerm EXCEPT !.action = {"accept"}]
Deny == [EmptyTerm EXCEPT !.action = {"deny"}]
Other(action) == [EmptyTerm EXCEPT !.action = {action}]
Tcp == [Accept EXCEPT !.protocol = {"tcp"}]
TcpUdp == [Accept EXCEPT !.protocol = {"tcp", "udp"}]

Entry(name, t) == [name |-> name, term |-> t, expired |-> FALSE, keywords |-> {}]

-----------------------------------------------------------------------------
(* Terms *)

Half == <<Net(4, 0, 2)>>
Ends == <<Net(4, 0, 1), Net(4, 2, 2)>>
Both == <<Net(4, 1, 1), Net(6, 0, 1)>>
Whole == <<Net(4, 0, 8)>>
Parts == <<Net(4, 0, 1), Net(4, 3, 1), Net(4, 4, 2)>>

SideTerms ==
  {[Tcp EXCEPT !.source_address = s, !.source_address_exclude = x,
               !.destination_address = d] :
     s \in {<<>>, Half, Ends, Both, Whole},
     x \in {<<>>, <<Net(4, 1, 1)>>, <<Net(4, 0, 2)>>, <<Net(4, 2, 1), Net(6, 0, 1)>>},
     d \in {<<>>, Both, Ends}}
  \cup
  {[Accept EXCEPT !.destination_address = d, !.destination_address_exclude = x,
                  !.source_address = s] :
     s \in {<<>>, Half}, d \in {<<>>, Ends, <<Net(6, 0, 2)>>},
     x \in {<<Net(4, 0, 1)>>, <<Net(4, 0, 2), Net(6, 1, 1)>>}}
  \cup
  {[Accept EXCEPT !.source_address = s, !.source_address_exclude = x,
                  !.destination_address = d, !.destination_address_exclude = y] :
     s \in {Half, Whole, Parts}, d \in {Whole, Parts},
     x \in {Half, <<Net(4, 3, 1)>>}, y \in {<<Net(4, 1, 1)>>, <<Net(4, 4, 1)>>}}

PortTerms ==
  {[t EXCEPT !.source_port = s, !.destination_port = d, !.option = o] :
     t \in {Tcp, TcpUdp},
     s \in {<<>>, <<<<1, 1>>>>, <<<<0, 0>>, <<2, 2>>, <<4, 6>>>>},
     d \in {<<>>, <<<<0, 1>>, <<3, 3>>>>, <<<<0, 0>>, <<2, 2>>, <<4, 4>>, <<6, 6>>>>},
     o \in {{}, {"established"}}}

OddTerms ==
  {[Accept EXCEPT !.protocol = q, !.option = o] :
     q \in {{}, {"tcp"}, {"udp"}, {"tcp", "esp"}},
     o \in {{"established"}, {"tcp-established"}, {"rst"}, {"first-fragment"},
            {"initial"}, {"established", "sample"}}}
  \cup
  {[Accept EXCEPT !.protocol = q, !.icmp_type = i] :
     q \in {{"icmp"}, {"icmpv6"}, {"icmp", "tcp"}, {"icmpv6", "tcp"}, {"icmp", "icmpv6"}},
     i \in {{}, {"echo"}, {"echo", "reply"}}}
  \cup
  {Accept, Deny, Other("next"), Other("reject"),
   [Accept EXCEPT !.protocol_except = {"tcp"}],
   [Accept EXCEPT !.address = Half],
   [Accept EXCEPT !.address = Both],
   [Accept EXCEPT !.address = <<Net(6, 0, 1)>>],
   [Tcp EXCEPT !.port = <<<<1, 2>>>>],
   [Accept EXCEPT !.precedence = {1}],
   [Accept EXCEPT !.precedence = {9}],
   [Tcp EXCEPT !.fragment_offset = <<1, 2>>],
   [Tcp EXCEPT !.packet_length = <<1>>],
   [Accept EXCEPT !.packet_length = <<1>>],
   [Accept EXCEPT !.source_prefix = {"list"}],
   [Deny EXCEPT !.destination_prefix = {"list"}],
   [EmptyTerm EXCEPT !.verbatim = {"text"}]}
  \cup
  {[Tcp EXCEPT !.platform = {q}] : q \in {"cisco", "iptables", "juniper"}}
  \cup
  {[Tcp EXCEPT !.platform_exclude = {"srx", "packetfilter"}]}

AllTerms == SideTerms \cup PortTerms \cup OddTerms

-----------------------------------------------------------------------------
(* Policies *)

Header(platform, name, options) == platform :> [name |-> name, options |-> options]
Zones(from, to) == Header("srx", "from-zone", <<from, "to-zone", to>>)

Of(h) == CHOOSE q \in DOMAIN h : TRUE

\* Every type of list of every platform.
Headers ==
  UNION {{Header(q, "INPUT", o) : o \in {<<>>, <<"inet6">>, <<"nostate">>}} :
           q \in {"iptables", "speedway", "ipset"}}
  \cup {Header("cisco", "acl", o) :
          o \in {<<>>, <<"standard">>, <<"object-group">>, <<"mixed">>}}
  \cup {Header("ciscoasa", "asa", <<>>), Zones("in", "out")}
  \cup {Header("juniper", "filter", o) :
          o \in {<<>>, <<"not-interface-specific", "inet6">>, <<"bridge">>}}
  \cup {Header("packetfilter", "pf", o) : o \in {<<"inet">>, <<"inet6">>, <<>>}}

Filter(targets, entries) == [targets |-> targets, entries |-> entries]

SingleJobs ==
  {[platform |-> Of(h), filters |-> <<Filter(h, <<Entry("a", t)>>)>>] :
     h \in Headers, t \in {u \in AllTerms : Sane(u)}}

MCPackets ==
  LET Packet(q, s, d, sp, dp, o, i) ==
        [protocol |-> q, source |-> s, destination |-> d, source_port |-> sp,
         destination_port |-> dp, option |-> o, icmp_type |-> i, precedence |-> 0,
         fragment_offset |-> 0, packet_length |-> 0, lists |-> {}]
      Addresses(v) == {<<v, i>> : i \in 0..(2 ^ MCBits[v] - 1)}
      Flags == {{}, {"established"}, {"initial", "tcp-initial"}, {"rst", "established"},
                {"first-fragment"}}
  IN UNION {{Packet("tcp", s, d, 1, 1, {"established"}, NONE) :
               s \in Addresses(v), d \in Addresses(v)} : v \in Versions}
     \cup UNION {{Packet(q, <<v, 1>>, <<v, 0>>, sp, dp, {}, NONE) :
                    q \in {"tcp", "udp"}, sp \in 0..6, dp \in 0..6} : v \in Versions}
     \cup UNION {{Packet(q, <<v, 1>>, <<v, 0>>, 1, dp, o, NONE) :
                    q \in {"tcp", "udp", "esp"}, dp \in {1, 5}, o \in Flags} : v \in Versions}
     \cup {Packet("icmp", <<4, 1>>, <<4, 1>>, 0, 0, o, i) :
             o \in {{}, {"established"}}, i \in {"echo", "reply"}}
     \cup {Packet("icmpv6", <<6, 1>>, <<6, 1>>, 0, 0, {}, i) : i \in {"echo", "reply"}}
     \cup {[Packet("tcp", <<v, 1>>, <<v, 0>>, 1, 1, {}, NONE)
              EXCEPT !.precedence = n, !.fragment_offset = n, !.packet_length = m,
                     !.lists = IF n = 1 THEN {"list"} ELSE {}] :
             v \in Versions, n \in 0..2, m \in 0..1}

\* Several terms of one filter: each decides what those before it leave.
FewTerms ==
  {Entry("a", Accept),
   Entry("a", [Deny EXCEPT !.protocol = {"tcp"}, !.source_address = Ends,
                           !.source_address_exclude = <<Net(4, 2, 1)>>]),
   Entry("a", [Tcp EXCEPT !.destination_address = Both]),
   Entry("along", [Other("reject") EXCEPT !.source_address = Half]),
   Entry("b", [Other("next") EXCEPT !.protocol = {"udp"}, !.destination_address = Whole,
                 !.destination_address_exclude = <<Net(4, 1, 1)>>]),
   Entry("b", [TcpUdp EXCEPT !.option = {"established"}, !.source_port = <<<<1, 1>>>>]),
   Entry("b", [Tcp EXCEPT !.source_address = <<Net(4, 0, 1), Net(6, 0, 1)>>]),
   [Entry("b", [Tcp EXCEPT !.destination_address = <<Net(4, 3, 1)>>]) EXCEPT !.expired = TRUE],
   [Entry("ab", [Deny EXCEPT !.source_address = Both]) EXCEPT !.keywords = {"logging"}],
   [Entry("ab", [Deny EXCEPT !.platform = {"juniper", "srx", "ipset"}])
      EXCEPT !.keywords = {"counter"}],
   [Entry("ab", [Accept EXCEPT !.protocol = {"udp"}])
      EXCEPT !.keywords = {"routing_instance"}]}

MoreHeaders ==
  Headers
    \cup {Header("iptables", "INPUT", <<"truncateterms", "ACCEPT">>),
          Header("iptables", "FORWARD", <<"abbreviateterms", "nostate", "inet6">>),
          Header("iptables", "FORWARD", <<"inet", "inet6">>),
          Header("cisco", "10", <<>>), Header("cisco", "100", <<"standard">>),
          Zones("out", "in"), Header("srx", "in", <<>>)}

TermJobs ==
  {[platform |-> Of(h), filters |-> <<Filter(h, <<e, f>>)>>] :
     h \in MoreHeaders, e \in FewTerms, f \in FewTerms}

\* Two filters, the first one perhaps for another platform.
FilterJobs ==
  LET entries == {e \in FewTerms : e.name \in {"along", "b"}}
  IN UNION {
       {[platform |-> Of(h), filters |-> <<Filter(g, <<e>>), Filter(h, <<f>>)>>] :
          g \in {x \in MoreHeaders : Of(x) = Of(h) \/ x = Zones("in", "out")},
          e \in entries, f \in entries} : h \in MoreHeaders}

\* Two filters for iptables whose headers ask for different things.
MCHeaderJobs ==
  {[platform |-> "iptables", filters |-> <<Filter(Header("iptables", n, o), <<e>>),
                                           Filter(Header("iptables", m, q), <<e>>)>>] :
     n, m \in {"INPUT", "FORWARD"}, o, q \in {<<>>, <<"nostate">>, <<"ACCEPT">>},
     e \in {x \in FewTerms : x.name = "b"}}

MCJobs == UNION {SingleJobs, TermJobs, FilterJobs}
=============================================================================
