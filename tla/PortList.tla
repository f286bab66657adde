------------------------------ MODULE PortList ------------------------------
(***************************************************************************)
(* The port lists of a term, in lib/policy.py and lib/aclgenerator.py.     *)
(*                                                                         *)
(* TranslatePorts gives a term its list of port ranges, in the order the   *)
(* services were named and with their overlaps.  AddressCleanup collapses  *)
(* the list (CollapsePortList), a generator that renders an `established'  *)
(* term adds the high ports to a copy and collapses it again               *)
(* (FixHighPorts), and shading detection compares the lists of two terms   *)
(* range by range (CheckPortIsContained).                                  *)
(*                                                                         *)
(* One step of the model is one turn of the loop of                        *)
(* CollapsePortListRecursive, which starts over as long as a pass changed  *)
(* something.  A range is a pair; nothing orders its two ends, because     *)
(* TranslatePorts takes "30-20" as it stands: such a range has no port.    *)
(***************************************************************************)
EXTENDS PortRanges

CONSTANTS
  Lists,       \* lists TranslatePorts returns
  PortsAdded,  \* the range FixHighPorts adds: <<1024, 65535>>
  AnyPort,     \* the ports of a term that names none: 0..65535
  Others       \* port lists of the term a term is compared with

PortRange == Int \X Int

ASSUME PortAssumption ==
  /\ Lists \subseteq Seq(PortRange)
  /\ PortsAdded \in PortRange
  /\ Others \subseteq Seq(PortRange)
  /\ \A l \in Lists \cup Others \cup {<<PortsAdded>>} : \A k \in DOMAIN l :
       l[k][1]..l[k][2] \subseteq AnyPort

VARIABLES
  stage,       \* where the term's list is
  ports,       \* the list when it is not being collapsed
  mod,         \* is it the list of the copy FixHighPorts returns?
  ports_left,  \* the rest of the list a pass is going through
  ret_ports,   \* what the pass has kept
  changed,     \* optimized: has this pass changed anything?
  asked_ports, \* history: the list as it was before it was collapsed
  passes       \* history: passes begun since then

portVars == <<stage, ports, mod, ports_left, ret_ports, changed, asked_ports, passes>>

PortInit ==
  /\ stage = "translated"
  /\ ports \in Lists
  /\ mod = FALSE
  /\ ports_left = <<>>
  /\ ret_ports = <<>>
  /\ changed = FALSE
  /\ asked_ports = ports
  /\ passes = 0

\* Python's order on pairs of integers.
PortPrecedes(p, q) == p[1] < q[1] \/ (p[1] = q[1] /\ p[2] <= q[2])

\* p puts the list l in order (sorted() is stable, which no one can tell).
Sorting(l) ==
  {p \in Bijection(DOMAIN l, DOMAIN l) :
     \A j, k \in DOMAIN l : j < k => PortPrecedes(l[p[j]], l[p[k]])}

\* Mutant of StartPass: optimized keeps its value over the recursion.
StartPassKeeps(l) ==
  /\ stage' = "collapsing"
  /\ ports_left' = l
  /\ ret_ports' = <<>>
  /\ passes' = passes + 1
  /\ UNCHANGED changed

StartPortPass(l) ==
  /\ stage' = "collapsing"
  /\ ports_left' = l
  /\ ret_ports' = <<>>
  /\ changed' = FALSE
  /\ passes' = passes + 1

\* CollapsePortList: self.CollapsePortListRecursive(sorted(ports)).
\* AddressCleanup calls it for the lists that are not empty.
CollapsePorts ==
  /\ stage \in {"translated", "fixing"}
  /\ ports # <<>>
  /\ \E p \in Sorting(ports) : StartPortPass([k \in DOMAIN ports |-> ports[p[k]]])
  /\ UNCHANGED <<ports, mod, asked_ports>>

NothingToCollapse ==
  /\ stage = "translated"
  /\ ports = <<>>
  /\ stage' = "collapsed"
  /\ UNCHANGED <<ports, mod, ports_left, ret_ports, changed, asked_ports, passes>>

-----------------------------------------------------------------------------
(* CollapsePortListRecursive: the branches of a turn of its loop *)

\* The range whose turn it is, and ret_ports[-1].
Port == Head(ports_left)
LastPort == ret_ports[Len(ret_ports)]

Keep ==
  /\ ret_ports' = Append(ret_ports, Port)
  /\ UNCHANGED changed

\* Mutant of Extend: the range starts where the later one does.
ExtendLate ==
  /\ ret_ports' = [ret_ports EXCEPT ![Len(ret_ports)] = Port]
  /\ changed' = TRUE

Extend ==
  /\ ret_ports' = [ret_ports EXCEPT ![Len(ret_ports)] = <<@[1], Port[2]>>]
  /\ changed' = TRUE

PortTurn ==
  /\ stage = "collapsing"
  /\ ports_left # <<>>
  /\ ports_left' = Tail(ports_left)
  /\ UNCHANGED <<stage, ports, mod, asked_ports, passes>>

FirstPort ==
  /\ PortTurn
  /\ ret_ports = <<>>
  /\ Keep

\* (10, 20) and (12, 13) -> (10, 20)
Swallow ==
  /\ PortTurn
  /\ ret_ports # <<>>
  /\ LastPort[2] >= Port[2]
  /\ changed' = TRUE
  /\ UNCHANGED ret_ports

\* (10, 20) and (15, 30) -> (10, 30)
Overlap ==
  /\ PortTurn
  /\ ret_ports # <<>>
  /\ Port[1] < LastPort[2] /\ LastPort[2] < Port[2]
  /\ Extend

\* (10, 20) and (21, 30) -> (10, 30)
Adjoin ==
  /\ PortTurn
  /\ ret_ports # <<>>
  /\ LastPort[2] < Port[2]
  /\ LastPort[2] + 1 = Port[1]
  /\ Extend

\* (10, 20) and (22, 30) -> (10, 20), (22, 30)
SeparatePort ==
  /\ PortTurn
  /\ ret_ports # <<>>
  /\ LastPort[2] < Port[2]
  /\ ~(Port[1] < LastPort[2])
  /\ LastPort[2] + 1 # Port[1]
  /\ Keep

\* A pass that changed something is followed by another one over its result.
CollapseAgain ==
  /\ stage = "collapsing"
  /\ ports_left = <<>>
  /\ changed
  /\ StartPortPass(ret_ports)
  /\ UNCHANGED <<ports, mod, asked_ports>>

ReturnPorts ==
  /\ stage = "collapsing"
  /\ ports_left = <<>>
  /\ ~changed
  /\ ports' = ret_ports
  /\ stage' = "collapsed"
  /\ UNCHANGED <<mod, ports_left, ret_ports, changed, asked_ports, passes>>

-----------------------------------------------------------------------------

\* FixHighPorts for a term that is `established' and has no protocol but tcp
\* and udp: a copy of the term gets the high ports and is collapsed again.
AddHighPorts ==
  /\ stage = "collapsed"
  /\ ~mod
  /\ mod' = TRUE
  /\ ports' = Append(ports, PortsAdded)
  /\ asked_ports' = ports'
  /\ passes' = 0
  /\ stage' = "fixing"
  /\ UNCHANGED <<ports_left, ret_ports, changed>>

\* The platform does not support the address family, or not with the term's
\* protocols, or the term is `established' with a protocol that has no state.
HighPortsRefused ==
  /\ stage = "collapsed"
  /\ ~mod
  /\ stage' = "raised"
  /\ UNCHANGED <<ports, mod, ports_left, ret_ports, changed, asked_ports, passes>>

CollapseStep ==
  FirstPort \/ Swallow \/ Overlap \/ Adjoin \/ SeparatePort \/ CollapseAgain \/ ReturnPorts

PortNext ==
  \/ CollapsePorts \/ NothingToCollapse
  \/ CollapseStep
  \/ AddHighPorts \/ HighPortsRefused

PortSpec == PortInit /\ [][PortNext]_portVars

-----------------------------------------------------------------------------
(* Properties *)

PortTypes ==
  /\ stage \in {"translated", "fixing", "collapsing", "collapsed", "raised"}
  /\ ports \in Seq(PortRange)
  /\ mod \in BOOLEAN
  /\ ports_left \in Seq(PortRange)
  /\ ret_ports \in Seq(PortRange)
  /\ changed \in BOOLEAN
  /\ asked_ports \in Seq(PortRange)
  /\ passes \in Nat

\* A collapsed list permits exactly the ports the term named, and with
\* `established' exactly those and the high ports.
CollapseKeepsPorts ==
  stage = "collapsed" => Cover(ports) = Cover(asked_ports)

\* Two passes are enough, and only a change costs the second.
TwoPassesEnough == passes <= 2

\* Range q follows p, sharing no more than an end point with it, and not so
\* closely that they touch end to end.
PortsApart(p, q) ==
  /\ p[2] <= q[1]
  /\ p[2] < q[2]
  /\ p[2] + 1 # q[1]

Separated(l) == \A k \in 1..(Len(l) - 1) : PortsApart(l[k], l[k + 1])

\* The ranges of a collapsed list are in order, and no two neighbours share more
\* than an end point or could be joined end to end.
CollapsedIsSeparated == stage = "collapsed" => Separated(ports)

\* The ports a list permits.
Permitted(l) == IF l = <<>> THEN AnyPort ELSE Cover(l)

\* Shading detection never takes a term for shaded that permits a port the
\* earlier term does not: the comparison range by range is sound.
ContainmentSound ==
  stage = "collapsed" =>
    \A l \in Others :
      /\ PortIsContained(l, ports) => Permitted(ports) \subseteq Permitted(l)
      /\ PortIsContained(ports, l) => Permitted(l) \subseteq Permitted(ports)

\* Against a collapsed list whose ranges share no end point the comparison
\* misses nothing either: that is what the list is collapsed for.
ContainmentFindsAll ==
  LET SharesNoEnd ==
        \A j, k \in DOMAIN ports : j < k => ports[j][2] # ports[k][1]
      PortsInOrder(l) == \A k \in DOMAIN l : l[k][1] <= l[k][2]
  IN stage = "collapsed" /\ ports # <<>> /\ SharesNoEnd =>
       \A l \in Others :
         l # <<>> /\ PortsInOrder(l) /\ Cover(l) \subseteq Cover(ports)
           => PortIsContained(ports, l)

=============================================================================
