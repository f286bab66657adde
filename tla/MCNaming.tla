------------------------------ MODULE MCNaming ------------------------------
(* Three services and three networks, in one or two files of each type.     *)
EXTENDS Naming

MCBits == (4 :> 2) @@ (6 :> 1)
Net(v, i, n) == [version |-> v, first |-> i, size |-> n]

MCNames == {"A", "B", "C", "D"}
MCProtocolOf == ("80/tcp" :> "tcp") @@ ("53/udp" :> "udp")
MCNetworkOf ==
  ("0.0/1" :> Net(4, 0, 2)) @@ ("0.1/2" :> Net(4, 1, 1)) @@ ("fe80/1" :> Net(6, 1, 1)) @@
  ("fe00/0" :> Net(6, 0, 2))

Line(symbol, values, comment) ==
  [symbol |-> symbol, values |-> values, comment |-> comment]

\* Definitions of three names that use each other in every way.
Graphs(v, w) ==
  {<<Line("A", a, NONE), Line("B", b, c), Line("C", d, NONE)>> :
     a \in {<<"B">>, <<"C", "B">>, <<"A", v>>, <<v, "C">>, <<v, w, "D">>},
     b \in {<<v>>, <<"C", w>>, <<"A">>, <<w, "C", "C">>, <<"B", w>>},
     c \in {NONE, "text"},
     d \in {<<w>>, <<"A", w>>, <<"B">>, <<"C">>, <<v, w>>, <<"D", v>>}}

Simple(v) == <<Line("A", <<v>>, NONE)>>

Job(services, networks, later) ==
  [services |-> services, networks |-> networks, later |-> later]

GraphJobs ==
  {Job({f}, {Simple("0.0/1")}, {}) : f \in Graphs("80/tcp", "53/udp")}
    \cup {Job({Simple("80/tcp")}, {f}, {}) :
            f \in Graphs("0.0/1", "0.1/2") \cup Graphs("0.1/2", "fe00/0")}

\* Definitions over several lines and files, and lists of lines after them.
SplitFiles(v, w) ==
  UNION {
    {<<Line("A", <<v>>, "text"), Line(NONE, <<"B">>, NONE)>>,
     <<Line("B", <<w>>, NONE), Line(NONE, <<v, "B">>, c), Line("C", <<"B">>, NONE)>>,
     <<Line(NONE, <<w>>, NONE), Line("B", <<"D">>, c)>>,
     <<Line("D", <<>>, NONE), Line(NONE, <<v>>, "text"), Line(NONE, <<"D">>, NONE)>>,
     <<Line(NONE, <<"D">>, NONE), Line("D", <<v>>, c)>>} : c \in {NONE, "text"}}

Later ==
  {[type |-> "services", lines |-> <<Line(NONE, <<"53/udp">>, NONE)>>],
   [type |-> "services", lines |-> <<Line("D", <<"B">>, NONE), Line("A", <<"D">>, NONE)>>],
   [type |-> "networks", lines |-> <<Line("D", <<"0.1/2">>, "text"), Line(NONE, <<"A">>, NONE)>>],
   [type |-> "networks", lines |-> <<Line("A", <<"0.1/2">>, NONE), Line("C", <<"A">>, NONE)>>]}

OneOrTwo(set) == {{f, g} : f \in set, g \in set}

SplitJobs ==
  LET Service == SplitFiles("80/tcp", "53/udp")
      Network == SplitFiles("0.0/1", "0.1/2")
  IN {Job(s, {Simple("0.0/1")}, Later) : s \in OneOrTwo(Service) \cup {{}}}
     \cup {Job({Simple("80/tcp")}, n, Later) : n \in OneOrTwo(Network) \cup {{}}}

MCJobs == GraphJobs \cup SplitJobs

MCQueries ==
  [op : {"GetService", "GetNet", "GetNetParents", "GetServiceParents", "GetIpParents"},
   of : {"A", "B", "D"}]
  \cup [op : {"GetServiceByProto"}, of : {"A", "C"}, protocol : {"tcp"}]
  \cup [op : {"GetServiceParents"}, of : {"80/tcp"}]
  \cup [op : {"GetNetParents"}, of : {"0.1/2"}]
  \cup [op : {"GetIpParents"}, of : {"0.1/2", "fe80/1"}]
=============================================================================
