------------------------------- MODULE Naming -------------------------------
(***************************************************************************)
(* lib/naming.py: the definitions of services and networks, read line by   *)
(* line, and the lookups in them.  The lookups call themselves: a call is  *)
(* a frame of a stack here, and a turn of its loop is a step.              *)
(*                                                                         *)
(* A line is a definition (symbol = values) or has values only.  Names of  *)
(* definitions begin with a letter; a value is written as it stands in the *)
(* file and constants say what it is.  The order of the files (glob) and   *)
(* of the definitions (a dict) is arbitrary.                               *)
(***************************************************************************)
EXTENDS IpNetworks

CONSTANTS
  NONE,
  Names,         \* names of services and networks
  ServiceValues, \* "80/tcp": what a service is made of,
  ProtocolOf,    \*   its protocol
  NetworkValues, \* "10.0.0.0/8": what a network is made of,
  NetworkOf,     \*   the network, whose host bits are cleared
  LetterFirst,   \* the network values that begin with a letter ("fe80::/10")
  Comments,      \* what a line may carry after its values
  MaxDepth,      \* calls that Python nests before it gives up
  MaxLists,      \* lists parsed after the files
  Jobs,          \* what a Naming object is made of
  Queries        \* what it is asked

Values == Names \cup ServiceValues \cup NetworkValues

Lines ==
  [symbol : Names \cup {NONE}, values : Seq(Values), comment : Comments \cup {NONE}]

Types == {"services", "networks"}

ASSUME NamingAssumption ==
  /\ IsFiniteSet(Names)
  /\ NONE \notin Names \cup [type : Types, name : Names]
  /\ MaxDepth \in Nat /\ MaxDepth > Cardinality(Names)
  /\ MaxLists \in Nat
  /\ Names \cap (ServiceValues \cup NetworkValues) = {}
  /\ ServiceValues \cap NetworkValues = {}
  /\ LetterFirst \subseteq NetworkValues
  /\ \A v \in NetworkValues : NetworkOf[v] \in Networks
  /\ \A j \in Jobs :
       /\ j.services \cup j.networks \subseteq Seq(Lines)
       /\ \A l \in j.later : l.lines \in Seq(Lines) /\ l.type \in Types
  /\ \A q \in Queries :
       \/ q.op \in {"GetService", "GetServiceByProto", "GetNet"} /\ q.of \in Names
       \/ q.op \in {"GetServiceParents", "GetNetParents", "GetIpParents"} /\ q.of \in Values

VARIABLES
  job,     \* the files, and the lists that may be parsed later
  lists,   \* how many were
  phase,   \* what the object is doing
  type,    \* the type of the lines being read
  files,   \* files still to be read,
  lines,   \* lines of the open one
  unit,    \* the definition self.unit is; current_symbol is set when it is
  defs,    \* services and networks
  unseen,  \* unseen_services and unseen_networks
  stack,   \* calls of the lookup
  query, answer

vars == <<job, lists, phase, type, files, lines, unit, defs, unseen, stack, query, answer>>

reading == <<type, files, lines, unit, defs, unseen>>
asking == <<stack, query, answer>>

Init ==
  /\ job \in Jobs
  /\ lists = 0
  /\ phase = "read"
  /\ type = "services"
  /\ files = job.services
  /\ lines = <<>>
  /\ unit = NONE
  /\ defs = [t \in Types |-> [n \in {} |-> <<>>]]
  /\ unseen = [t \in Types |-> {}]
  /\ stack = <<>>
  /\ query = NONE
  /\ answer = NONE

-----------------------------------------------------------------------------
(* Naming.__init__, _Parse, _CheckUnseen                                    *)

\* NoDefinitionsError, UndefinedServiceError, UndefinedAddressError and
\* NamespaceCollisionError: there is no object.
Fail ==
  /\ phase' = "failed"
  /\ UNCHANGED <<job, lists, reading, asking>>

NoFiles ==
  /\ phase = "read" /\ job[type] = {}
  /\ Fail

OpenFile ==
  /\ phase = "read" /\ lines = <<>>
  /\ \E f \in files : files' = files \ {f} /\ lines' = f
  /\ UNCHANGED <<job, lists, phase, type, unit, defs, unseen, asking>>

\* Services are read and checked before networks.
CheckUnseen ==
  /\ phase = "read" /\ job[type] # {} /\ files = {} /\ lines = <<>>
  /\ IF unseen[type] # {} THEN Fail
     ELSE /\ IF type = "services"
             THEN type' = "networks" /\ files' = job.networks /\ phase' = phase
             ELSE UNCHANGED <<type, files>> /\ phase' = "ready"
          /\ UNCHANGED <<job, lists, lines, unit, defs, unseen, asking>>

\* ParseServiceList, ParseNetworkList: called at any time, and never checked.
ParseList ==
  /\ phase = "ready" /\ lists < MaxLists
  /\ \E l \in job.later : lines' = l.lines /\ type' = l.type
  /\ lists' = lists + 1
  /\ phase' = "list"
  /\ UNCHANGED <<job, files, unit, defs, unseen, asking>>

ListDone ==
  /\ phase = "list" /\ lines = <<>>
  /\ phase' = "ready"
  /\ UNCHANGED <<job, lists, reading, asking>>

-----------------------------------------------------------------------------
(* _ParseLine                                                               *)

Items(line) ==
  [k \in DOMAIN line.values |-> [value |-> line.values[k], comment |-> line.comment]]

\* Mutant of NotSeen: one name of a line is looked at.
NotSeenFirst(line, defined) ==
  IF line.comment # NONE \/ line.values = <<>> THEN {}
  ELSE ({Head(line.values)} \cap Names) \ defined

\* Names among the values of a line that are not defined.  In a line with a
\* comment they are not looked at.
NotSeen(line, defined) ==
  IF line.comment # NONE THEN {} ELSE (Range(line.values) \cap Names) \ defined

\* The definitions with the one that the line begins.
Opened(line) ==
  IF line.symbol = NONE THEN defs
  ELSE [defs EXCEPT ![type] =
          [n \in DOMAIN @ \cup {line.symbol} |-> IF n = line.symbol THEN <<>> ELSE @[n]]]

\* Values go to the last definition, of whatever file and type it was, and
\* nowhere when there is none.
AddValues(line, to, defined) ==
  IF to = NONE THEN defs' = defined /\ unseen' = unseen
  ELSE /\ defs' = [defined EXCEPT ![to.type][to.name] = @ \o Items(line)]
       /\ unseen' = [unseen EXCEPT ![type] =
            (@ \ {line.symbol}) \cup NotSeen(line, DOMAIN defined[type])]

\* Mutant of ParseLine: values of a line without a symbol are taken for nothing.
ParseLineAlone ==
  /\ phase \in {"read", "list"} /\ lines # <<>>
  /\ LET line == Head(lines)
         this == [type |-> type, name |-> line.symbol]
     IN /\ line.symbol \notin DOMAIN defs[type]
        /\ unit' = IF line.symbol = NONE THEN unit ELSE this
        /\ AddValues(line, IF line.symbol = NONE THEN NONE ELSE unit', Opened(line))
  /\ lines' = Tail(lines)
  /\ UNCHANGED <<job, lists, phase, type, files, asking>>

ParseLine ==
  /\ phase \in {"read", "list"} /\ lines # <<>>
  /\ LET line == Head(lines)
         this == [type |-> type, name |-> line.symbol]
     IN /\ line.symbol \notin DOMAIN defs[type]
        /\ unit' = IF line.symbol = NONE THEN unit ELSE this
        /\ AddValues(line, unit', Opened(line))
  /\ lines' = Tail(lines)
  /\ UNCHANGED <<job, lists, phase, type, files, asking>>

\* NamespaceCollisionError.  An object that was already there keeps its unit,
\* although current_symbol is that of the line.
Collision ==
  /\ phase \in {"read", "list"} /\ lines # <<>>
  /\ Head(lines).symbol \in DOMAIN defs[type]
  /\ IF phase = "read" THEN Fail
     ELSE /\ lines' = <<>>
          /\ UNCHANGED <<job, lists, phase, type, files, unit, defs, unseen, asking>>

-----------------------------------------------------------------------------
(* Lookups *)

Group(op) == IF op \in {"GetNet", "GetNetParents", "GetIpParents"}
             THEN "networks" ELSE "services"

Frame(of, todo, found) == [of |-> of, k |-> 1, todo |-> todo, found |-> found]

Answer(kind, value) ==
  /\ answer' = [kind |-> kind, value |-> value]
  /\ phase' = "answered"
  /\ stack' = <<>>
  /\ UNCHANGED <<job, lists, reading, query>>

Top == Last(stack)
Continue(frame) ==
  /\ stack' = ReplaceAt(stack, Len(stack), frame)
  /\ UNCHANGED <<job, lists, phase, reading, query, answer>>

\* RuntimeError: maximum recursion depth exceeded.
Call(caller, frame) ==
  IF Len(stack) = MaxDepth THEN Answer("recursion", {})
  ELSE /\ stack' = Append(ReplaceAt(stack, Len(stack), caller), frame)
       /\ UNCHANGED <<job, lists, phase, reading, query, answer>>

\* The definitions a value or name stands in.  Items are compared with their
\* comments, but for the first step of GetIpParents.
Exact(op, v) ==
  {n \in DOMAIN defs[Group(op)] :
     \E i \in Range(defs[Group(op)][n]) : i.value = v /\ i.comment = NONE}

\* Mutant of Within: the networks inside the address, not those around it.
WithinReversed(v) ==
  {n \in DOMAIN defs.networks :
     \E i \in Range(defs.networks[n]) :
       IF v \in NetworkValues \ LetterFirst
       THEN i.value \in NetworkValues \ LetterFirst /\ In(NetworkOf[i.value], NetworkOf[v])
       ELSE i.value = v}

\* The names of networks an address is in or, for a name, that list it.
Within(v) ==
  {n \in DOMAIN defs.networks :
     \E i \in Range(defs.networks[n]) :
       IF v \in NetworkValues \ LetterFirst
       THEN i.value \in NetworkValues \ LetterFirst /\ In(NetworkOf[v], NetworkOf[i.value])
       ELSE i.value = v}

\* ValueError: something that begins with a digit is no address.
Unreadable(q) ==
  /\ q.op = "GetIpParents" /\ q.of \in NetworkValues \ LetterFirst
  /\ \E n \in DOMAIN defs.networks :
       \E i \in Range(defs.networks[n]) : i.value \in ServiceValues

BaseParents(op, v) == IF op = "GetIpParents" THEN Within(v) ELSE Exact(op, v)

Parents == {"GetServiceParents", "GetNetParents", "GetIpParents"}
Services == {"GetService", "GetServiceByProto"}

Ask ==
  /\ phase = "ready"
  /\ \E q \in Queries :
       /\ ~Unreadable(q)
       /\ query' = q
       /\ stack' = <<Frame(q.of, IF q.op \in Parents THEN BaseParents(q.op, q.of) ELSE {},
                           IF q.op = "GetNet" THEN <<>> ELSE {})>>
  /\ phase' = "look"
  /\ UNCHANGED <<job, lists, reading, answer>>

AskUnreadable ==
  /\ phase = "ready"
  /\ \E q \in Queries : Unreadable(q) /\ query' = q
  /\ phase' = "answered"
  /\ answer' = [kind |-> "unreadable", value |-> {}]
  /\ UNCHANGED <<job, lists, reading, stack>>

Looking(ops) == phase = "look" /\ query.op \in ops

Defined == Top.of \in DOMAIN defs[Group(query.op)]

\* UndefinedServiceError, UndefinedAddressError: the whole lookup ends.
Undefined ==
  /\ Looking(Services \cup {"GetNet"})
  /\ ~Defined
  /\ Answer("undefined", {})

HasItem == Defined /\ Top.k <= Len(defs[Group(query.op)][Top.of])
NoItemLeft == Defined /\ Top.k > Len(defs[Group(query.op)][Top.of])
Item == defs[Group(query.op)][Top.of][Top.k]
Next1 == [Top EXCEPT !.k = @ + 1]

\* GetService.  What already_done holds is known to this call alone.
ServiceValue ==
  /\ Looking(Services) /\ HasItem /\ Item.value \notin Names
  /\ Continue([Next1 EXCEPT !.found = @ \cup {Item.value}])

AlreadyDone == Item.value \in Top.todo \cup {Top.of}

ServiceDone ==
  /\ Looking(Services) /\ HasItem /\ Item.value \in Names /\ AlreadyDone
  /\ Continue(Next1)

ServiceToken ==
  /\ Looking(Services) /\ HasItem /\ Item.value \in Names /\ ~AlreadyDone
  /\ Call([Next1 EXCEPT !.todo = @ \cup {Item.value}], Frame(Item.value, {}, {}))

OfProtocol(values) ==
  IF query.op # "GetServiceByProto" THEN values
  ELSE {v \in values \cap ServiceValues : ProtocolOf[v] = query.protocol}

\* A call returns: what it found is the caller's, or the answer.
ReturnSet ==
  IF Len(stack) = 1 THEN Answer("found", OfProtocol(Top.found))
  ELSE LET caller == stack[Len(stack) - 1]
       IN /\ stack' = Append(SubSeq(stack, 1, Len(stack) - 2),
                             [caller EXCEPT !.found = @ \cup Top.found])
          /\ UNCHANGED <<job, lists, phase, reading, query, answer>>

ServiceReturn == Looking(Services) /\ NoItemLeft /\ ReturnSet

\* GetNet.  What is not an address is taken for a name.
NetAddress ==
  /\ Looking({"GetNet"}) /\ HasItem /\ Item.value \in NetworkValues
  /\ Continue([Next1 EXCEPT
        !.found = Append(@, [net |-> NetworkOf[Item.value], text |-> Item.comment,
                             token |-> Top.of, parent |-> Top.of])])

NetToken ==
  /\ Looking({"GetNet"}) /\ HasItem /\ Item.value \notin NetworkValues
  /\ Call(Next1, Frame(Item.value, {}, <<>>))

\* Mutant of NetReturn: addresses of other definitions keep those for parents.
NetReturnKeeps ==
  /\ Looking({"GetNet"}) /\ NoItemLeft
  /\ IF Len(stack) = 1 THEN Answer("found", Top.found)
     ELSE LET caller == stack[Len(stack) - 1]
          IN /\ stack' = Append(SubSeq(stack, 1, Len(stack) - 2),
                                [caller EXCEPT !.found = @ \o Top.found])
             /\ UNCHANGED <<job, lists, phase, reading, query, answer>>

\* The addresses get their parent token anew in every call they go through.
NetReturn ==
  /\ Looking({"GetNet"}) /\ NoItemLeft
  /\ LET list == [k \in DOMAIN Top.found |-> [Top.found[k] EXCEPT !.parent = Top.of]]
     IN IF Len(stack) = 1 THEN Answer("found", list)
        ELSE LET caller == stack[Len(stack) - 1]
             IN /\ stack' = Append(SubSeq(stack, 1, Len(stack) - 2),
                                   [caller EXCEPT !.found = @ \o list])
                /\ UNCHANGED <<job, lists, phase, reading, query, answer>>

\* GetIpParents and _GetParents, for one of the base parents: those it is
\* listed in as it is are looked for in turn, once.
Parent ==
  /\ Looking(Parents)
  /\ \E bp \in Top.todo :
       LET frame == [Top EXCEPT !.todo = @ \ {bp}, !.found = @ \cup {bp}]
       IN IF bp \notin Top.found /\ Exact(query.op, bp) # {}
          THEN Call(frame, Frame(bp, BaseParents(query.op, bp), {}))
          ELSE Continue(frame)

ParentsReturn == Looking(Parents) /\ Top.todo = {} /\ ReturnSet

Ended == phase \in {"failed", "answered"} /\ UNCHANGED vars

Next ==
  \/ NoFiles \/ OpenFile \/ CheckUnseen \/ ParseList \/ ListDone
  \/ ParseLine \/ Collision
  \/ Ask \/ AskUnreadable \/ Undefined
  \/ ServiceValue \/ ServiceDone \/ ServiceToken \/ ServiceReturn
  \/ NetAddress \/ NetToken \/ NetReturn
  \/ Parent \/ ParentsReturn
  \/ Ended

Spec == Init /\ [][Next]_vars

-----------------------------------------------------------------------------
(* What was read                                                            *)

Starts(f) == f # <<>> /\ f[1].symbol # NONE

\* The items of a definition: those of its line and of the lines up to the next
\* definition of the file.
Written(f, n) ==
  LET first == SelectInSeq(f, LAMBDA l : l.symbol = n)
      rest == SubSeq(f, first + 1, Len(f))
      next == SelectInSeq(rest, LAMBDA l : l.symbol # NONE)
      own == <<f[first]>> \o (IF next = 0 THEN rest ELSE SubSeq(rest, 1, next - 1))
  IN FlattenSeq([k \in DOMAIN own |-> Items(own[k])])

Symbols(f) == {f[k].symbol : k \in DOMAIN f} \ {NONE}

\* The files of a directory define what they say in whatever order they are
\* read, if each begins with a definition: values on lines of their own belong
\* to the definition above, and no definition is lost or made twice.
DefinitionsAreWhole ==
  phase \notin {"read", "failed"} /\ lists = 0 =>
    \A t \in Types :
      (\A f \in job.services \cup job.networks : Starts(f)) =>
        /\ DOMAIN defs[t] = UNION {Symbols(f) : f \in job[t]}
        /\ \A f \in job[t] : \A n \in Symbols(f) : defs[t][n] = Written(f, n)

\* No object is made when a name is listed that no definition has: as far as
\* lines without a comment go (in the others names are not looked at).
UndefinedIsReported ==
  phase \notin {"read", "failed"} /\ lists = 0 =>
    \A t \in Types : \A n \in DOMAIN defs[t] : \A i \in Range(defs[t][n]) :
      i.value \in Names /\ i.comment = NONE /\ (\A f \in job.networks : Starts(f))
        => i.value \in DOMAIN defs[t]

-----------------------------------------------------------------------------
(* What the lookups find                                                    *)

\* The names that can be reached from a set of them: the least set that holds
\* all that its members lead to.
Reachable(set, edges) ==
  {n \in Names :
     \A c \in SUBSET Names :
       set \subseteq c /\ (\A m \in c : edges[m] \subseteq c) => n \in c}

OnCycle(n, edges) == n \in Reachable(edges[n], edges)

\* The names that the definition of a name lists.  A service that lists itself
\* does no harm, a network does.
Uses(t) ==
  [n \in Names |->
     IF n \notin DOMAIN defs[t] THEN {}
     ELSE ({i.value : i \in Range(defs[t][n])} \cap Names)
            \ (IF t = "services" THEN {n} ELSE {})]

ServicesIn(n) ==
  {i.value : i \in UNION {Range(defs.services[m]) :
               m \in Reachable({n}, Uses("services")) \cap DOMAIN defs.services}} \ Names

\* The addresses of a name, depth first, as the entries of all it uses.
NetworksIn(n) ==
  UNION {{[net |-> NetworkOf[i.value], text |-> i.comment, token |-> m, parent |-> n] :
            i \in {j \in Range(defs.networks[m]) : j.value \in NetworkValues}} :
           m \in Reachable({n}, Uses("networks")) \cap DOMAIN defs.networks}

\* A lookup that returns has all that the definitions give for the name, through
\* any number of other definitions, and nothing else.  Where it fails, a definition
\* is missing, or some of those it needs use one another in a circle: where they do
\* not, it comes to an end.  (That a circle ends it is not what the code promises:
\* see ServicesEnd.)
LookupIsExact ==
  phase = "answered" /\ query.op \in Services \cup {"GetNet"} =>
    LET group == Group(query.op)
        all == Reachable({query.of}, Uses(group))
    IN CASE answer.kind = "found" ->
              /\ all \subseteq DOMAIN defs[group]
              /\ \A n \in all : ~OnCycle(n, Uses(group))
              /\ IF group = "networks" THEN Range(answer.value) = NetworksIn(query.of)
                 ELSE answer.value = OfProtocol(ServicesIn(query.of))
         [] answer.kind = "undefined" ->
              \/ ~(all \subseteq DOMAIN defs[group])
              \/ \E n \in all : \E i \in Range(defs.networks[n]) : i.value \in ServiceValues
         [] answer.kind = "recursion" -> \E n \in all : OnCycle(n, Uses(group))

\* "Make sure we are not descending into recursion hell" (naming.py:255): the
\* lookup of a service ends, whatever the definitions are.
ServicesEnd ==
  phase = "answered" /\ query.op \in Services => answer.kind # "recursion"

Listed(op, v) ==
  {n \in DOMAIN defs[Group(op)] : \E i \in Range(defs[Group(op)][n]) :
     \/ i.value = v
     \/ op = "GetIpParents" /\ {i.value, v} \subseteq NetworkValues
          /\ In(NetworkOf[v], NetworkOf[i.value])}

\* Where no name is listed with a comment (such names are not followed upwards)
\* and no address begins with a letter (they are not looked at).
NoneOverlooked ==
  /\ query.of \notin LetterFirst
  /\ \A n \in DOMAIN defs[Group(query.op)] :
       \A i \in Range(defs[Group(query.op)][n]) :
         i.comment = NONE /\ i.value \notin LetterFirst

\* The definitions a value or name is listed in and those that these are listed
\* in, on and on.
Ancestors ==
  Reachable(Listed(query.op, query.of), [n \in Names |-> Listed(query.op, n)])

\* The parents of a value or name are its ancestors: no others are returned, and
\* none is missing where none is overlooked.
ParentsAreAncestors ==
  phase = "answered" /\ query.op \in Parents /\ answer.kind = "found" =>
    /\ answer.value \subseteq Ancestors
    /\ NoneOverlooked => answer.value = Ancestors
=============================================================================
