---------------------------- MODULE NamingProofs ----------------------------
(***************************************************************************)
(* Proofs about Naming, for all definition files, all lists of lines and   *)
(* all questions: the files define what they say whatever their order is,  *)
(* no object lists a name that no definition has, a lookup that comes to   *)
(* an end returns all that the definitions give and nothing else, and the  *)
(* parents of a value are its ancestors.                                   *)
(*                                                                         *)
(* Files are read whole (Gathered): the definitions hold the files that    *)
(* are done with and the first lines of the open one, each definition the  *)
(* items of its lines as far as they were read.                            *)
(*                                                                         *)
(* A lookup is a walk through a graph of names with a stack of its own.    *)
(* What makes it exact is an invariant of every frame: for each item that  *)
(* the frame is past, and that no call is at work on, all that can be      *)
(* reached from it is defined, is on no circle, and has been found.  When  *)
(* the frame is past its last item, the same holds for its own name.       *)
(***************************************************************************)
EXTENDS Naming, FiniteSetTheorems, SequenceTheorems, WellFoundedInduction, TLAPS

Lookups == Services \cup {"GetNet"}

ItemRecords == [value : Values, comment : Comments \cup {NONE}]

Entries ==
  [net : {NetworkOf[v] : v \in NetworkValues}, text : Comments \cup {NONE},
   token : Names, parent : Names]

\* What a call has found: a set, or the list of GetNet.
Findings == (SUBSET Values) \cup Seq(Entries)

Frames == [of : Values, k : Nat \ {0}, todo : SUBSET Names, found : Findings]

-----------------------------------------------------------------------------
(* The invariant *)

\* Definitions have names, and items that are values or names.
Defs ==
  /\ DOMAIN defs = Types
  /\ \A t \in Types :
       /\ DOMAIN defs[t] \subseteq Names
       /\ \A n \in DOMAIN defs[t] : defs[t][n] \in Seq(ItemRecords)

NTypes ==
  /\ job \in Jobs
  /\ lists \in Nat
  /\ phase \in {"read", "list", "ready", "look", "answered", "failed"}
  /\ type \in Types
  /\ files \subseteq Seq(Lines)
  /\ lines \in Seq(Lines)
  /\ unit # NONE =>
       unit \in [type : Types, name : Names] /\ unit.name \in DOMAIN defs[unit.type]
  /\ Defs
  /\ unseen \in [Types -> SUBSET Names]

\* Every network file begins with a definition.
NetworksStart == \A f \in job.networks : Starts(f)

\* The definition that values go to is of the type that is being read, or the
\* next line makes it so.
Reading ==
  /\ phase = "read" => files \subseteq job[type]
  /\ phase = "read" /\ type = "services" /\ unit # NONE => unit.type = "services"
  /\ phase = "read" /\ NetworksStart /\ lines # <<>> /\ unit # NONE /\ unit.type # type =>
       Head(lines).symbol # NONE
  /\ phase = "list" => lists > 0
  /\ phase = "ready" => lines = <<>>

\* The names that have been listed without a comment are defined or unseen.
Accounted ==
  \A t \in Types : \A n \in DOMAIN defs[t] : \A i \in Range(defs[t][n]) :
    i.value \in Names /\ i.comment = NONE => i.value \in DOMAIN defs[t] \cup unseen[t]

\* No name is unseen where there are no more lines to read.
AllSeen ==
  /\ type = "networks" \/ phase # "read" => unseen["services"] = {}
  /\ phase # "read" => unseen["networks"] = {}

Recorded ==
  phase # "failed" /\ lists = 0 => (NetworksStart => Accounted) /\ AllSeen

\* The graph of the names, for a question about the definitions of a type.
Graph == Uses(Group(query.op))

\* All that can be reached from the name is defined and on no circle.
Whole(n) ==
  \A m \in Reachable({n}, Graph) :
    m \in DOMAIN defs[Group(query.op)] /\ ~OnCycle(m, Graph)

StackTypes ==
  /\ phase \in {"look", "answered"} => query \in Queries
  /\ phase = "look" =>
       /\ stack \in Seq(Frames) /\ stack # <<>>
       /\ stack[1].of = query.of
       /\ query.op = "GetNet" => \A j \in DOMAIN stack : stack[j].found \in Seq(Entries)
       /\ query.op # "GetNet" => \A j \in DOMAIN stack : stack[j].found \subseteq Values
  /\ phase = "answered" /\ query.op \in Lookups =>
       answer.kind \in {"found", "undefined", "recursion"}

\* The calls of a lookup in progress are a path through the graph.
Path ==
  phase = "look" /\ query.op \in Lookups =>
    \A i, j \in DOMAIN stack :
      i < j /\ stack[j].of \in Names =>
        stack[j].of \in Reachable(Graph[stack[i].of], Graph)

\* What a call waits for: the name of the one it made.
Called(j) == IF j < Len(stack) THEN {stack[j + 1].of} ELSE {}

\* What a call of GetService has found.
ServiceFrame(f, called) ==
  /\ f.of \in Names
  /\ called # {} => f.of \in DOMAIN defs["services"]
  /\ called \subseteq f.todo /\ f.todo \subseteq Graph[f.of]
  /\ f.found \subseteq ServicesIn(f.of)
  /\ f.of \in DOMAIN defs["services"] =>
       \A i \in DOMAIN defs["services"][f.of] :
         i < f.k =>
           LET v == defs["services"][f.of][i].value
           IN IF v \in Names THEN v \in f.todo \cup {f.of} ELSE v \in f.found
  /\ \A v \in f.todo \ called : Whole(v) /\ ServicesIn(v) \subseteq f.found

\* Two entries for the same network: their parents may differ.
Same(e, x) == e.net = x.net /\ e.text = x.text /\ e.token = x.token

\* The entry for a network of a definition, but for its parent.
Own(n, item) == [net |-> NetworkOf[item.value], text |-> item.comment, token |-> n]

\* The list has an entry for each network of the item, which stands in the
\* definition of n, and all that the item leads to is defined and on no circle.
Expanded(item, n, list) ==
  IF item.value \in NetworkValues
  THEN \E e \in Range(list) : Same(e, Own(n, item))
  ELSE /\ item.value \in Names
       /\ Whole(item.value)
       /\ \A x \in NetworksIn(item.value) : \E e \in Range(list) : Same(e, x)

\* What a call of GetNet has found.  It may be for a value of a service, which
\* a definition of networks lists and which is no name.
NetFrame(f, called) ==
  /\ f.of \in Names \cup ServiceValues
  /\ called # {} =>
       /\ f.of \in DOMAIN defs["networks"]
       /\ f.k - 1 \in DOMAIN defs["networks"][f.of]
       /\ called = {defs["networks"][f.of][f.k - 1].value}
       /\ called \cap NetworkValues = {}
  /\ \A e \in Range(f.found) : \E x \in NetworksIn(f.of) : Same(e, x)
  /\ f.of \in DOMAIN defs["networks"] =>
       \A i \in DOMAIN defs["networks"][f.of] :
         i < f.k /\ (called # {} => i + 1 < f.k) =>
           Expanded(defs["networks"][f.of][i], f.of, f.found)

\* What a lookup of parents has found.
ParentFrame(f, called) ==
  /\ f.found \cup f.todo \subseteq Ancestors
  /\ called \subseteq f.found
  /\ NoneOverlooked =>
       /\ Listed(query.op, f.of) \subseteq f.found \cup f.todo
       /\ \A m \in f.found \ called : Listed(query.op, m) \subseteq f.found \cup f.todo

FrameHolds(f, called) ==
  /\ query.op \in Services => ServiceFrame(f, called)
  /\ query.op = "GetNet" => NetFrame(f, called)
  /\ query.op \in Parents => ParentFrame(f, called)

FramesHold ==
  phase = "look" => \A j \in DOMAIN stack : FrameHolds(stack[j], Called(j))

LookupInv ==
  StackTypes /\ Path /\ FramesHold /\ LookupIsExact /\ ParentsAreAncestors

NInv == NTypes /\ Reading /\ Recorded /\ LookupInv

-----------------------------------------------------------------------------
(* What has been read *)

\* The items of the lines of a file from one place to another.
Block(f, i, m) == FlattenSeq([k \in 1..(m - i + 1) |-> Items(f[i + k - 1])])

\* What the first lines of a file define.
Named(f, n) == {f[i].symbol : i \in 1..n} \ {NONE}

\* The lines between are values of the definition that the first of them begins.
OneDefinition(f, i, m) ==
  f[i].symbol # NONE /\ \A j \in (i + 1)..m : f[j].symbol = NONE

\* The first lines of a file are in the definitions as they stand, each once.
ReadTo(f, n, t) ==
  /\ Named(f, n) \subseteq DOMAIN defs[t]
  /\ \A i, j \in 1..n : f[i].symbol # NONE /\ f[i].symbol = f[j].symbol => i = j
  /\ \A i \in 1..n : \A m \in i..n :
       OneDefinition(f, i, m) /\ (m < n => f[m + 1].symbol # NONE) =>
         defs[t][f[i].symbol] = Block(f, i, m)

\* The files are in the definitions.
AllIn(done, t) == \A f \in done : ReadTo(f, Len(f), t)

\* The names that files define.
NamesIn(done) == UNION {Symbols(f) : f \in done}

\* The files that were read before the open one.
Done(f) == (job[type] \ files) \ {f}

\* The open file, and how many of its lines have been read.
Halfway(f, n) ==
  /\ n \in Nat /\ n < Len(f)
  /\ Len(lines) = Len(f) - n
  /\ \A j \in 1..Len(lines) : lines[j] = f[n + j]
  /\ DOMAIN defs[type] = NamesIn(Done(f)) \cup Named(f, n)
  /\ AllIn(Done(f), type)
  /\ NamesIn(Done(f)) \cap Named(f, n) = {}
  /\ ReadTo(f, n, type)
  /\ n > 0 => \E i \in 1..n :
       OneDefinition(f, i, n) /\ unit = [type |-> type, name |-> f[i].symbol]

\* Each file begins with a definition.
AllStart == \A f \in job.services \cup job.networks : Starts(f)

\* Everything that was read is in the definitions.
Gathered ==
  lists = 0 /\ phase # "failed" /\ AllStart =>
    /\ phase = "read" /\ type = "services" => DOMAIN defs["networks"] = {}
    /\ \A t \in Types :
         phase # "read" \/ (t = "services" /\ type = "networks") =>
           DOMAIN defs[t] = NamesIn(job[t]) /\ AllIn(job[t], t)
    /\ phase = "read" /\ lines = <<>> =>
         DOMAIN defs[type] = NamesIn(job[type] \ files) /\ AllIn(job[type] \ files, type)
    /\ phase = "read" /\ lines # <<>> => \E f \in job[type] \ files : \E n \in 0..Len(f) : Halfway(f, n)

-----------------------------------------------------------------------------
(* Names that can be reached *)

LEMMA ReachableHolds ==
  ASSUME NEW edges, NEW set, set \subseteq Names
  PROVE  /\ set \subseteq Reachable(set, edges)
         /\ Reachable(set, edges) \subseteq Names
BY DEF Reachable

LEMMA ReachableIsClosed ==
  ASSUME NEW edges, \A n \in Names : edges[n] \subseteq Names,
         NEW set, NEW m \in Reachable(set, edges)
  PROVE  edges[m] \subseteq Reachable(set, edges)
BY DEF Reachable

LEMMA ReachableIsLeast ==
  ASSUME NEW edges, NEW set, NEW c, c \subseteq Names, set \subseteq c,
         \A m \in c : edges[m] \subseteq c
  PROVE  Reachable(set, edges) \subseteq c
BY DEF Reachable

\* What can be reached from a name that can be reached can be reached.
LEMMA ReachableIsTransitive ==
  ASSUME NEW edges, \A n \in Names : edges[n] \subseteq Names,
         NEW set, NEW m \in Reachable(set, edges)
  PROVE  /\ Reachable({m}, edges) \subseteq Reachable(set, edges)
         /\ Reachable(edges[m], edges) \subseteq Reachable(set, edges)
<1>1. m \in Names /\ Reachable(set, edges) \subseteq Names
  BY DEF Reachable
<1>2. \A n \in Reachable(set, edges) : edges[n] \subseteq Reachable(set, edges)
  BY ReachableIsClosed
<1> QED BY <1>1, <1>2, ReachableIsLeast

\* A name leads to itself and to all that the names it lists lead to.
LEMMA ReachableFromOne ==
  ASSUME NEW edges, \A n \in Names : edges[n] \subseteq Names, NEW n \in Names
  PROVE  /\ n \in Reachable({n}, edges)
         /\ \A m \in edges[n] : Reachable({m}, edges) \subseteq Reachable({n}, edges)
         /\ Reachable(edges[n], edges) \subseteq Reachable({n}, edges)
         /\ \A x \in Reachable({n}, edges) :
              x = n \/ \E m \in edges[n] : x \in Reachable({m}, edges)
         /\ \A x \in Reachable(edges[n], edges) :
              \E m \in edges[n] : x \in Reachable({m}, edges)
<1>1. n \in Reachable({n}, edges)
  BY ReachableHolds
<1>2. edges[n] \subseteq Reachable({n}, edges)
  BY <1>1, ReachableIsClosed
<1>3. \A m \in edges[n] : Reachable({m}, edges) \subseteq Reachable({n}, edges)
  BY <1>2, ReachableIsTransitive
<1>4. Reachable(edges[n], edges) \subseteq Reachable({n}, edges)
  BY <1>1, ReachableIsTransitive
<1> DEFINE all == UNION {Reachable({m}, edges) : m \in edges[n]}
<1>5. edges[n] \subseteq all /\ all \subseteq Names
  <2>1. ASSUME NEW m \in edges[n]
        PROVE  m \in Reachable({m}, edges) /\ Reachable({m}, edges) \subseteq Names
    <3>1. {m} \subseteq Names
      OBVIOUS
    <3> QED BY <3>1, ReachableHolds
  <2> QED BY <2>1
<1>6. \A x \in all : edges[x] \subseteq all
  BY ReachableIsClosed
<1>7. Reachable(edges[n], edges) \subseteq all
  <2> HIDE DEF all
  <2> QED BY <1>5, <1>6, ReachableIsLeast
<1>8. Reachable({n}, edges) \subseteq {n} \cup all
  <2>1. \A x \in {n} \cup all : edges[x] \subseteq {n} \cup all
    BY <1>5, <1>6
  <2>2. {n} \cup all \subseteq Names
    BY <1>5
  <2> HIDE DEF all
  <2> QED BY <2>1, <2>2, ReachableIsLeast
<1> QED BY <1>1, <1>3, <1>4, <1>7, <1>8

-----------------------------------------------------------------------------
(* Reading *)

LEMMA JobType ==
  ASSUME NEW j \in Jobs
  PROVE  /\ j["services"] \subseteq Seq(Lines) /\ j["networks"] \subseteq Seq(Lines)
         /\ \A l \in j.later : l.lines \in Seq(Lines) /\ l.type \in Types
BY NamingAssumption

\* What the line adds to the definition it belongs to.
LEMMA ItemsType ==
  ASSUME NEW line \in Lines
  PROVE  /\ Items(line) \in Seq(ItemRecords)
         /\ \A i \in Range(Items(line)) :
              i.comment = line.comment /\ i.value \in Range(line.values)
<1>1. line.values \in Seq(Values) /\ line.comment \in Comments \cup {NONE}
  BY DEF Lines
<1>2. \A k \in DOMAIN line.values : line.values[k] \in Values
  BY <1>1
<1>3. DOMAIN line.values = 1..Len(line.values) /\ Len(line.values) \in Nat
  BY <1>1
<1>4. \A k \in DOMAIN line.values :
        [value |-> line.values[k], comment |-> line.comment] \in ItemRecords
  BY <1>1, <1>2 DEF ItemRecords
<1>5. Items(line) \in Seq(ItemRecords)
  BY <1>3, <1>4 DEF Items
<1> QED BY <1>5 DEF Items, Range

LEMMA OpenedType ==
  ASSUME NTypes, NEW line \in Lines, line.symbol \notin DOMAIN defs[type]
  PROVE  /\ DOMAIN Opened(line) = Types
         /\ \A t \in Types :
              DOMAIN Opened(line)[t] =
                DOMAIN defs[t] \cup (IF t = type THEN {line.symbol} \ {NONE} ELSE {})
         /\ \A t \in Types : \A n \in DOMAIN defs[t] : Opened(line)[t][n] = defs[t][n]
         /\ line.symbol # NONE => Opened(line)[type][line.symbol] = <<>>
<1>1. type \in DOMAIN defs /\ DOMAIN defs = Types
  BY DEF NTypes, Defs
<1>2. CASE line.symbol = NONE
  BY <1>1, <1>2 DEF Opened
<1>3. CASE line.symbol # NONE
  BY <1>1, <1>3 DEF Opened
<1> QED BY <1>2, <1>3

\* The effect of a line: nothing when there is no definition to add to, and
\* otherwise its items are appended to one definition.
Adds(line) ==
  /\ line = Head(lines) /\ lines' = Tail(lines) /\ lines' \in Seq(Lines)
  /\ line.symbol # NONE => unit' = [type |-> type, name |-> line.symbol]
  /\ line.symbol = NONE => unit' = unit
  /\ unit' = NONE => defs' = defs /\ unseen' = unseen
  /\ unit' # NONE =>
       /\ unit' \in [type : Types, name : Names]
       /\ DOMAIN defs' = Types
       /\ \A t \in Types :
            DOMAIN defs'[t] =
              DOMAIN defs[t] \cup (IF t = type THEN {line.symbol} \ {NONE} ELSE {})
       /\ unit'.name \in DOMAIN defs'[unit'.type]
       /\ \A t \in Types : \A n \in DOMAIN defs'[t] :
            t # unit'.type \/ n # unit'.name =>
              n \in DOMAIN defs[t] /\ defs'[t][n] = defs[t][n]
       /\ \E old \in Seq(ItemRecords) :
            /\ line.symbol # NONE => old = <<>>
            /\ line.symbol = NONE =>
                 /\ unit'.name \in DOMAIN defs[unit'.type]
                 /\ old = defs[unit'.type][unit'.name]
            /\ defs'[unit'.type][unit'.name] = old \o Items(line)
       /\ unseen' = [unseen EXCEPT ![type] =
            (@ \ {line.symbol}) \cup NotSeen(line, DOMAIN defs'[type])]

LEMMA LineEffect ==
  ASSUME NTypes, ParseLine
  PROVE  \E line \in Lines : Adds(line)
<1> DEFINE line == Head(lines)
<1>1. line \in Lines /\ Tail(lines) \in Seq(Lines)
  BY HeadTailProperties DEF NTypes, ParseLine
<1>2. /\ line.symbol \notin DOMAIN defs[type]
      /\ lines' = Tail(lines)
      /\ unit' = IF line.symbol = NONE THEN unit
                 ELSE [type |-> type, name |-> line.symbol]
      /\ AddValues(line, unit', Opened(line))
  BY Zenon DEF ParseLine, Opened
<1>3. line.symbol \in Names \cup {NONE}
  BY <1>1 DEF Lines
<1> HIDE DEF line
<1>4. line.symbol # NONE => unit' # NONE
  BY <1>2, <1>3, NamingAssumption DEF NTypes
<1>5. ASSUME unit' = NONE
      PROVE  defs' = defs /\ unseen' = unseen
  <2>1. line.symbol = NONE
    BY <1>4, <1>5
  <2> QED BY <1>2, <1>5, <2>1 DEF AddValues, Opened
<1>6. ASSUME unit' # NONE
      PROVE  /\ unit' \in [type : Types, name : Names]
             /\ DOMAIN defs' = Types
             /\ \A t \in Types :
                  DOMAIN defs'[t] =
                    DOMAIN defs[t] \cup (IF t = type THEN {line.symbol} \ {NONE} ELSE {})
             /\ unit'.name \in DOMAIN defs'[unit'.type]
             /\ \A t \in Types : \A n \in DOMAIN defs'[t] :
                  t # unit'.type \/ n # unit'.name =>
                    n \in DOMAIN defs[t] /\ defs'[t][n] = defs[t][n]
             /\ \E old \in Seq(ItemRecords) :
                  /\ line.symbol # NONE => old = <<>>
                  /\ line.symbol = NONE =>
                       /\ unit'.name \in DOMAIN defs[unit'.type]
                       /\ old = defs[unit'.type][unit'.name]
                  /\ defs'[unit'.type][unit'.name] = old \o Items(line)
             /\ unseen' = [unseen EXCEPT ![type] =
                  (@ \ {line.symbol}) \cup NotSeen(line, DOMAIN defs'[type])]
  <2> DEFINE to == unit'
             opened == Opened(line)
  <2>1. /\ defs' = [opened EXCEPT ![to.type][to.name] = @ \o Items(line)]
        /\ unseen' = [unseen EXCEPT ![type] =
             (@ \ {line.symbol}) \cup NotSeen(line, DOMAIN opened[type])]
    BY <1>2, <1>6 DEF AddValues
  <2>2. /\ DOMAIN opened = Types
        /\ \A t \in Types :
             DOMAIN opened[t] =
               DOMAIN defs[t] \cup (IF t = type THEN {line.symbol} \ {NONE} ELSE {})
        /\ \A t \in Types : \A n \in DOMAIN defs[t] : opened[t][n] = defs[t][n]
        /\ line.symbol # NONE => opened[type][line.symbol] = <<>>
    BY <1>1, <1>2, OpenedType
  <2>3. to \in [type : Types, name : Names] /\ type \in Types
    BY <1>2, <1>3, <1>6 DEF NTypes
  <2>4. to.name \in DOMAIN opened[to.type]
    BY <1>2, <1>3, <1>6, <2>2 DEF NTypes
  <2> HIDE DEF opened, to
  <2>5. DOMAIN defs' = Types /\ \A t \in Types : DOMAIN defs'[t] = DOMAIN opened[t]
    BY <2>1, <2>2, <2>3, <2>4
  <2>6. defs'[to.type][to.name] = opened[to.type][to.name] \o Items(line)
    BY <2>1, <2>2, <2>3, <2>4
  <2>7. \A t \in Types : \A n \in DOMAIN opened[t] :
          t # to.type \/ n # to.name => defs'[t][n] = opened[t][n]
    BY <2>1, <2>2, <2>3, <2>4
  <2>8. /\ opened[to.type][to.name] \in Seq(ItemRecords)
        /\ line.symbol # NONE => opened[to.type][to.name] = <<>>
        /\ line.symbol = NONE =>
             /\ to.name \in DOMAIN defs[to.type]
             /\ opened[to.type][to.name] = defs[to.type][to.name]
    <3>1. /\ line.symbol = NONE => to.name \in DOMAIN defs[to.type]
          /\ line.symbol # NONE => to.type = type /\ to.name = line.symbol
      BY <1>2, <1>6, <2>2, <2>3, <2>4 DEF to, NTypes
    <3>2. <<>> \in Seq(ItemRecords)
      OBVIOUS
    <3> QED BY <2>2, <2>3, <3>1, <3>2 DEF NTypes, Defs
  <2>9. \A t \in Types : \A n \in DOMAIN opened[t] :
          t # to.type \/ n # to.name => n \in DOMAIN defs[t]
    BY <1>2, <1>3, <2>2, <2>3 DEF to
  <2>10. unseen' = [unseen EXCEPT ![type] =
            (@ \ {line.symbol}) \cup NotSeen(line, DOMAIN defs'[type])]
    BY <2>1, <2>3, <2>5
  <2>11. \A t \in Types :
           DOMAIN defs'[t] =
             DOMAIN defs[t] \cup (IF t = type THEN {line.symbol} \ {NONE} ELSE {})
    BY <2>2, <2>5
  <2>12. \E old \in Seq(ItemRecords) :
           /\ line.symbol # NONE => old = <<>>
           /\ line.symbol = NONE =>
                /\ to.name \in DOMAIN defs[to.type]
                /\ old = defs[to.type][to.name]
           /\ defs'[to.type][to.name] = old \o Items(line)
    BY <2>6, <2>8
  <2>13. \A t \in Types : \A n \in DOMAIN defs'[t] :
           t # to.type \/ n # to.name =>
             n \in DOMAIN defs[t] /\ defs'[t][n] = defs[t][n]
    <3> TAKE t \in Types
    <3> TAKE n \in DOMAIN defs'[t]
    <3> HAVE t # to.type \/ n # to.name
    <3>1. n \in DOMAIN opened[t] /\ n \in DOMAIN defs[t]
      BY <2>5, <2>9
    <3> QED BY <2>2, <2>7, <3>1
  <2>14. to.name \in DOMAIN defs'[to.type]
    BY <2>3, <2>4, <2>5
  <2> QED BY Zenon, <2>3, <2>5, <2>10, <2>11, <2>12, <2>13, <2>14 DEF to
<1>7. line.symbol = NONE => unit' = unit
  BY <1>2
<1>8. line.symbol # NONE => unit' = [type |-> type, name |-> line.symbol]
  BY <1>2
<1>9. Adds(line)
  BY <1>1, <1>2, <1>5, <1>6, <1>7, <1>8 DEF Adds, line
<1> QED BY <1>1, <1>9

\* The steps of a lookup.
Lookup ==
  \/ Ask \/ AskUnreadable \/ Undefined
  \/ ServiceValue \/ ServiceDone \/ ServiceToken \/ ServiceReturn
  \/ NetAddress \/ NetToken \/ NetReturn
  \/ Parent \/ ParentsReturn

\* They leave the definitions alone.
LEMMA LookupReads ==
  ASSUME Lookup
  PROVE  /\ job' = job /\ lists' = lists /\ type' = type /\ files' = files
         /\ lines' = lines /\ unit' = unit /\ defs' = defs /\ unseen' = unseen
         /\ phase \in {"ready", "look"} /\ phase' \in {"look", "answered"}
<1>1. ASSUME NEW frame, Continue(frame), phase = "look"
      PROVE  UNCHANGED <<job, lists, phase, reading>>
  BY <1>1 DEF Continue
<1>2. ASSUME NEW kind, NEW value, Answer(kind, value)
      PROVE  UNCHANGED <<job, lists, reading>> /\ phase' = "answered"
  BY <1>2 DEF Answer
<1>3. ASSUME NEW caller, NEW frame, Call(caller, frame), phase = "look"
      PROVE  UNCHANGED <<job, lists, reading>> /\ phase' \in {"look", "answered"}
  BY <1>2, <1>3 DEF Call
<1>4. ASSUME ReturnSet, phase = "look"
      PROVE  UNCHANGED <<job, lists, reading>> /\ phase' \in {"look", "answered"}
  BY <1>2, <1>4 DEF ReturnSet
<1>5. ASSUME Ask \/ AskUnreadable
      PROVE  /\ UNCHANGED <<job, lists, reading>>
             /\ phase = "ready" /\ phase' \in {"look", "answered"}
  BY <1>5 DEF Ask, AskUnreadable
<1>6. ASSUME NetReturn, phase = "look"
      PROVE  UNCHANGED <<job, lists, reading>> /\ phase' \in {"look", "answered"}
  BY <1>2, <1>6 DEF NetReturn
<1>7. ASSUME Parent, phase = "look"
      PROVE  UNCHANGED <<job, lists, reading>> /\ phase' \in {"look", "answered"}
  BY <1>1, <1>3, <1>7 DEF Parent
<1>8. CASE Ask \/ AskUnreadable
  BY <1>5, <1>8 DEF reading
<1>9. ASSUME ~(Ask \/ AskUnreadable)
      PROVE  /\ UNCHANGED <<job, lists, reading>>
             /\ phase = "look" /\ phase' \in {"look", "answered"}
  <2>1. phase = "look"
    BY <1>9 DEF Lookup, Undefined, ServiceValue, ServiceDone, ServiceToken, ServiceReturn,
       NetAddress, NetToken, NetReturn, Parent, ParentsReturn, Looking
  <2> QED
    BY <1>1, <1>2, <1>3, <1>4, <1>6, <1>7, <1>9, <2>1
       DEF Lookup, Undefined, ServiceValue, ServiceDone, ServiceToken, ServiceReturn,
       NetAddress, NetToken, ParentsReturn
<1> QED BY <1>8, <1>9 DEF reading

LEMMA TypeStep == NTypes /\ [Next]_vars => NTypes'
<1> SUFFICES ASSUME NTypes, [Next]_vars PROVE NTypes'
  OBVIOUS
<1>1. CASE NoFiles
  BY <1>1 DEF NoFiles, Fail, reading, NTypes, Defs
<1>2. CASE OpenFile
  BY <1>2 DEF OpenFile, NTypes, Defs
<1>3. CASE CheckUnseen
  <2>1. job["networks"] \subseteq Seq(Lines)
    BY JobType DEF NTypes
  <2>2. /\ phase' \in {"read", "ready", "failed"} /\ type' \in Types
        /\ files' \subseteq Seq(Lines)
        /\ UNCHANGED <<job, lists, lines, unit, defs, unseen>>
    BY <1>3, <2>1 DEF CheckUnseen, Fail, reading, NTypes, Types
  <2> QED BY <2>2 DEF NTypes, Defs
<1>4. CASE ParseList
  <2>1. lines' \in Seq(Lines) /\ type' \in Types
    BY <1>4, JobType DEF ParseList, NTypes
  <2> QED BY <1>4, <2>1 DEF ParseList, NTypes, Defs
<1>5. CASE ListDone
  BY <1>5 DEF ListDone, reading, NTypes, Defs
<1>6. CASE ParseLine
  <2>1. UNCHANGED <<job, lists, phase, type, files>>
    BY <1>6 DEF ParseLine
  <2>2. PICK line \in Lines : Adds(line)
    BY <1>6, LineEffect
  <2>3. CASE unit' = NONE
    BY <2>1, <2>2, <2>3 DEF Adds, NTypes, Defs
  <2>4. CASE unit' # NONE
    <3> USE DEF Adds
    <3>1. line.symbol \in Names \cup {NONE}
      BY DEF Lines
    <3>2. defs'[unit'.type][unit'.name] \in Seq(ItemRecords)
      <4>1. PICK old \in Seq(ItemRecords) :
              defs'[unit'.type][unit'.name] = old \o Items(line)
        BY <2>2, <2>4
      <4>2. Items(line) \in Seq(ItemRecords)
        BY ItemsType
      <4> QED BY <4>1, <4>2, ConcatProperties
    <3>3. \A t \in Types : DOMAIN defs'[t] \subseteq Names
      BY <2>2, <2>4, <3>1 DEF NTypes, Defs
    <3>4. \A t \in Types : \A n \in DOMAIN defs'[t] : defs'[t][n] \in Seq(ItemRecords)
      BY <2>2, <2>4, <3>2 DEF NTypes, Defs
    <3>5. NotSeen(line, DOMAIN defs'[type]) \subseteq Names
      BY DEF NotSeen
    <3>6. unseen' \in [Types -> SUBSET Names]
      BY <2>2, <2>4, <3>5 DEF NTypes
    <3>7. /\ DOMAIN defs' = Types /\ lines' \in Seq(Lines)
          /\ unit' \in [type : Types, name : Names]
          /\ unit'.name \in DOMAIN defs'[unit'.type]
      BY <2>2, <2>4
    <3>8. Defs'
      BY <3>3, <3>4, <3>7 DEF Defs
    <3> HIDE DEF Adds
    <3>9. /\ job' \in Jobs /\ lists' \in Nat /\ type' \in Types /\ files' \subseteq Seq(Lines)
          /\ phase' \in {"read", "list", "ready", "look", "answered", "failed"}
      BY <2>1 DEF NTypes
    <3> QED BY <3>6, <3>7, <3>8, <3>9 DEF NTypes
  <2> QED BY <2>3, <2>4
<1>7. CASE Collision
  <2>1. /\ UNCHANGED <<job, lists, type, files, unit, defs, unseen>>
        /\ phase' \in {phase, "failed"} /\ lines' \in {lines, <<>>}
    BY <1>7 DEF Collision, Fail, reading
  <2>2. <<>> \in Seq(Lines)
    OBVIOUS
  <2> QED BY <2>1, <2>2 DEF NTypes, Defs
<1>8. CASE Lookup
  BY <1>8, LookupReads DEF NTypes, Defs
<1>9. CASE UNCHANGED vars
  BY <1>9 DEF vars, NTypes, Defs
<1> QED
  BY <1>1, <1>2, <1>3, <1>4, <1>5, <1>6, <1>7, <1>8, <1>9 DEF Next, Lookup, Ended

LEMMA ReadingStep == NTypes /\ Reading /\ [Next]_vars => Reading'
<1> SUFFICES ASSUME NTypes, Reading, [Next]_vars PROVE Reading'
  OBVIOUS
<1>1. CASE NoFiles
  BY <1>1 DEF NoFiles, Fail, reading, Reading
<1>2. CASE OpenFile
  <2>1. PICK f \in files : files' = files \ {f} /\ lines' = f
    BY <1>2 DEF OpenFile
  <2>2. UNCHANGED <<job, phase, type, lists, unit>> /\ phase = "read"
    BY <1>2 DEF OpenFile
  <2>3. type = "networks" /\ NetworksStart /\ f # <<>> => Head(f).symbol # NONE
    BY <2>1, <2>2 DEF Reading, NetworksStart, Starts
  <2> QED BY <2>1, <2>2, <2>3 DEF Reading, NetworksStart, NTypes, Types
<1>3. CASE CheckUnseen
  BY <1>3 DEF CheckUnseen, Fail, reading, Reading, NetworksStart
<1>4. CASE ParseList
  BY <1>4 DEF ParseList, Reading, NTypes
<1>5. CASE ListDone
  BY <1>5 DEF ListDone, reading, Reading
<1>6. CASE ParseLine
  <2>1. UNCHANGED <<job, lists, phase, type, files>> /\ phase \in {"read", "list"}
    BY <1>6 DEF ParseLine
  <2>2. /\ Head(lines).symbol # NONE => unit' = [type |-> type, name |-> Head(lines).symbol]
        /\ Head(lines).symbol = NONE => unit' = unit
    BY <1>6, LineEffect DEF Adds
  <2>3. lines # <<>>
    BY <1>6 DEF ParseLine
  <2> QED BY <2>1, <2>2, <2>3 DEF Reading, NetworksStart
<1>7. CASE Collision
  BY <1>7 DEF Collision, Fail, reading, Reading, NetworksStart
<1>8. CASE Lookup
  BY <1>8, LookupReads DEF Reading
<1>9. CASE UNCHANGED vars
  BY <1>9 DEF vars, Reading, NetworksStart
<1> QED
  BY <1>1, <1>2, <1>3, <1>4, <1>5, <1>6, <1>7, <1>8, <1>9 DEF Next, Lookup, Ended

\* A line of a file accounts for the names it lists.
LEMMA LineAccounts ==
  ASSUME NTypes, Reading, ParseLine, phase = "read", NetworksStart, Accounted
  PROVE  Accounted'
<1>1. PICK line \in Lines : Adds(line)
  BY LineEffect
<1>2. CASE unit' = NONE
  BY <1>1, <1>2 DEF Adds, Accounted
<1>3. CASE unit' # NONE
  <2>1. line = Head(lines) /\ lines # <<>> /\ line.symbol \in Names \cup {NONE}
    BY <1>1 DEF Adds, ParseLine, Lines
  <2>2. unit'.type = type
    <3>1. CASE line.symbol # NONE
      BY <1>1, <3>1 DEF Adds
    <3>2. CASE line.symbol = NONE
      BY <1>1, <1>3, <2>1, <3>2 DEF Adds, Reading, NTypes, Types
    <3> QED BY <3>1, <3>2
  <2>3. type \in Types /\ unseen \in [Types -> SUBSET Names]
    BY DEF NTypes
  <2>4. /\ DOMAIN defs[type] \subseteq DOMAIN defs'[type]
        /\ line.symbol # NONE => line.symbol \in DOMAIN defs'[type]
    BY <1>1, <1>3, <2>3, SMTT(20) DEF Adds
  <2>5. unseen'[type] = (unseen[type] \ {line.symbol}) \cup NotSeen(line, DOMAIN defs'[type])
    BY <1>1, <1>3, <2>3 DEF Adds
  <2>6. unseen[type] \subseteq DOMAIN defs'[type] \cup unseen'[type]
    <3>1. NONE \notin unseen[type]
      BY <2>3, NamingAssumption
    <3> QED BY <2>1, <2>4, <2>5, <3>1
  <2>7. \A t \in Types : t # type =>
          DOMAIN defs'[t] = DOMAIN defs[t] /\ unseen'[t] = unseen[t]
    BY <1>1, <1>3, <2>3 DEF Adds
  <2> SUFFICES ASSUME NEW t \in Types, NEW n \in DOMAIN defs'[t], NEW i \in Range(defs'[t][n]),
                      i.value \in Names, i.comment = NONE
               PROVE  i.value \in DOMAIN defs'[t] \cup unseen'[t]
    BY Zenon DEF Accounted
  <2>8. ASSUME n \in DOMAIN defs[t], i \in Range(defs[t][n])
        PROVE  i.value \in DOMAIN defs'[t] \cup unseen'[t]
    <3>1. i.value \in DOMAIN defs[t] \cup unseen[t]
      BY <2>8 DEF Accounted
    <3> QED BY <2>4, <2>6, <2>7, <3>1
  <2>9. CASE t # unit'.type \/ n # unit'.name
    <3>1. n \in DOMAIN defs[t] /\ defs'[t][n] = defs[t][n]
      BY <1>1, <1>3, <2>9 DEF Adds
    <3> QED BY <2>8, <3>1
  <2>10. CASE t = unit'.type /\ n = unit'.name
    <3>1. PICK old \in Seq(ItemRecords) :
            /\ line.symbol # NONE => old = <<>>
            /\ line.symbol = NONE =>
                 unit'.name \in DOMAIN defs[unit'.type] /\ old = defs[unit'.type][unit'.name]
            /\ defs'[unit'.type][unit'.name] = old \o Items(line)
      BY <1>1, <1>3 DEF Adds
    <3>2. Items(line) \in Seq(ItemRecords)
      BY ItemsType
    <3>3. defs'[t][n] = old \o Items(line)
      BY <2>10, <3>1
    <3>4. i \in Range(old) \/ i \in Range(Items(line))
      BY <3>2, <3>3 DEF Range
    <3>5. CASE i \in Range(old)
      <4>1. old # <<>>
        BY <3>5 DEF Range
      <4> QED BY <2>8, <2>10, <3>1, <3>5, <4>1
    <3>6. CASE i \in Range(Items(line))
      <4>1. line.comment = NONE /\ i.value \in Range(line.values)
        BY <3>6, ItemsType
      <4>2. i.value \in DOMAIN defs'[type] \cup NotSeen(line, DOMAIN defs'[type])
        BY <4>1 DEF NotSeen
      <4> QED BY <2>2, <2>5, <2>10, <4>2
    <3> QED BY <3>4, <3>5, <3>6
  <2> QED BY <2>9, <2>10
<1> QED BY <1>2, <1>3

LEMMA RecordedStep == NTypes /\ Reading /\ Recorded /\ [Next]_vars => Recorded'
<1> SUFFICES ASSUME NTypes, Reading, Recorded, [Next]_vars,
                    phase' # "failed", lists' = 0
             PROVE  (NetworksStart' => Accounted') /\ AllSeen'
  BY DEF Recorded
<1>1. ASSUME phase # "failed", lists = 0
      PROVE  (NetworksStart => Accounted) /\ AllSeen
  BY <1>1 DEF Recorded
<1>2. CASE NoFiles
  BY <1>2 DEF NoFiles, Fail
<1>3. CASE OpenFile
  BY <1>1, <1>3 DEF OpenFile, NetworksStart, Accounted, AllSeen
<1>4. CASE CheckUnseen
  <2>1. /\ UNCHANGED <<job, lists, defs, unseen>> /\ phase = "read" /\ unseen[type] = {}
        /\ \/ type = "services" /\ type' = "networks" /\ phase' = "read"
           \/ type # "services" /\ type' = type /\ phase' = "ready"
    BY <1>4 DEF CheckUnseen, Fail
  <2> QED BY <1>1, <2>1 DEF NetworksStart, Accounted, AllSeen, NTypes, Types
<1>5. CASE ParseList
  BY <1>5 DEF ParseList, NTypes
<1>6. CASE ListDone
  BY <1>6 DEF ListDone, Reading, NTypes
<1>7. CASE ParseLine
  <2>1. /\ phase = "read" /\ UNCHANGED <<job, lists, phase, type, files>>
    BY <1>7 DEF ParseLine, Reading, NTypes
  <2>2. NetworksStart' => Accounted'
    BY <1>1, <1>7, <2>1, LineAccounts DEF NetworksStart
  <2>3. \A t \in Types : t # type => unseen'[t] = unseen[t]
    BY <1>7, LineEffect DEF Adds, NTypes
  <2> QED BY <1>1, <2>1, <2>2, <2>3 DEF AllSeen, Types
<1>8. CASE Collision
  BY <1>1, <1>8 DEF Collision, Fail, NetworksStart, Accounted, AllSeen, Reading, NTypes
<1>9. CASE Lookup
  BY <1>1, <1>9, LookupReads DEF NetworksStart, Accounted, AllSeen
<1>10. CASE UNCHANGED vars
  BY <1>1, <1>10 DEF vars, NetworksStart, Accounted, AllSeen
<1> QED
  BY <1>2, <1>3, <1>4, <1>5, <1>6, <1>7, <1>8, <1>9, <1>10 DEF Next, Lookup, Ended

-----------------------------------------------------------------------------
(* The stack *)

\* The calls up to the n-th are as they were.
Below(n) == \A j \in 1..n : stack'[j] = stack[j]

LEMMA ReplaceLast ==
  ASSUME NEW S, NEW s \in Seq(S), s # <<>>, NEW e \in S
  PROVE  /\ ReplaceAt(s, Len(s), e) \in Seq(S)
         /\ Len(ReplaceAt(s, Len(s), e)) = Len(s)
         /\ ReplaceAt(s, Len(s), e)[Len(s)] = e
         /\ \A j \in 1..(Len(s) - 1) : ReplaceAt(s, Len(s), e)[j] = s[j]
         /\ Len(s) \in Nat \ {0} /\ DOMAIN s = 1..Len(s)
<1>1. Len(s) \in Nat \ {0} /\ DOMAIN s = 1..Len(s)
  BY EmptySeq
<1> DEFINE r == [s EXCEPT ![Len(s)] = e]
<1>2. /\ r \in Seq(S) /\ Len(r) = Len(s)
      /\ \A j \in 1..Len(s) : r[j] = IF j = Len(s) THEN e ELSE s[j]
  BY <1>1, ExceptSeq
<1>3. ASSUME NEW j \in 1..(Len(s) - 1) PROVE j \in 1..Len(s) /\ j # Len(s)
  <2>1. Len(s) \in Int
    BY <1>1
  <2> QED BY <2>1
<1>4. ReplaceAt(s, Len(s), e) = r
  BY DEF ReplaceAt
<1> HIDE DEF r
<1>5. r[Len(s)] = e
  <2>1. Len(s) \in 1..Len(s)
    BY <1>1
  <2> QED BY <1>2, <2>1
<1>6. ASSUME NEW j \in 1..(Len(s) - 1) PROVE r[j] = s[j]
  BY <1>2, <1>3
<1> QED BY <1>1, <1>2, <1>4, <1>5, <1>6

\* What the three kinds of steps of a lookup do to the stack: the call on top
\* goes on, makes another one, or returns.
Goes(frame) ==
  /\ stack' \in Seq(Frames) /\ stack' # <<>>
  /\ Len(stack') = Len(stack)
  /\ stack'[Len(stack)] = frame
  /\ Below(Len(stack) - 1)
  /\ UNCHANGED <<phase, defs, query>>

Calls(caller, frame) ==
  /\ stack' \in Seq(Frames) /\ stack' # <<>>
  /\ Len(stack') = Len(stack) + 1
  /\ stack'[Len(stack)] = caller
  /\ stack'[Len(stack) + 1] = frame
  /\ Below(Len(stack) - 1)
  /\ UNCHANGED <<phase, defs, query>>

Returns(caller) ==
  /\ stack' \in Seq(Frames) /\ stack' # <<>>
  /\ Len(stack') = Len(stack) - 1
  /\ stack'[Len(stack) - 1] = caller
  /\ Below(Len(stack) - 2)
  /\ UNCHANGED <<phase, defs, query>>

\* A call goes on.
LEMMA ContinueStack ==
  ASSUME stack \in Seq(Frames), stack # <<>>, NEW frame \in Frames, Continue(frame)
  PROVE  Goes(frame)
<1>1. stack' = ReplaceAt(stack, Len(stack), frame)
  BY DEF Continue
<1>2. UNCHANGED <<phase, defs, query>>
  BY DEF Continue, reading
<1> HIDE DEF Frames
<1>3. /\ Len(stack') = Len(stack) /\ stack' \in Seq(Frames)
      /\ stack'[Len(stack)] = frame
      /\ \A j \in 1..(Len(stack) - 1) : stack'[j] = stack[j]
      /\ Len(stack) > 0
  <2> DEFINE s == ReplaceAt(stack, Len(stack), frame)
  <2>1. /\ s \in Seq(Frames) /\ Len(s) = Len(stack) /\ s[Len(stack)] = frame
        /\ \A j \in 1..(Len(stack) - 1) : s[j] = stack[j]
        /\ Len(stack) \in Nat \ {0}
    BY ReplaceLast
  <2> HIDE DEF s
  <2>2. stack' = s
    BY <1>1 DEF s
  <2> QED BY <2>1, <2>2
<1>4. stack' # <<>>
  BY <1>3, EmptySeq
<1>5. Below(Len(stack) - 1)
  BY <1>3 DEF Below
<1> QED BY <1>2, <1>3, <1>4, <1>5 DEF Goes

\* A call makes another one.
LEMMA CallStack ==
  ASSUME stack \in Seq(Frames), stack # <<>>, NEW caller \in Frames, NEW frame \in Frames,
         Call(caller, frame), Len(stack) # MaxDepth
  PROVE  Calls(caller, frame)
<1> DEFINE s == ReplaceAt(stack, Len(stack), caller)
<1>1. stack' = Append(s, frame)
  BY DEF Call
<1>2. UNCHANGED <<phase, defs, query>>
  BY DEF Call, reading
<1>3. /\ s \in Seq(Frames) /\ Len(s) = Len(stack) /\ s[Len(stack)] = caller
      /\ \A j \in 1..(Len(stack) - 1) : s[j] = stack[j]
      /\ Len(stack) \in Nat \ {0}
  BY ReplaceLast
<1> HIDE DEF s
<1>4. /\ stack' \in Seq(Frames) /\ Len(stack') = Len(stack) + 1
      /\ stack'[Len(stack) + 1] = frame
      /\ \A j \in 1..Len(stack) : stack'[j] = s[j]
  BY <1>1, <1>3, AppendProperties
<1>5. stack' # <<>>
  BY <1>3, <1>4, EmptySeq
<1>6. Below(Len(stack) - 1) /\ stack'[Len(stack)] = caller
  BY <1>3, <1>4 DEF Below
<1> QED BY <1>2, <1>4, <1>5, <1>6 DEF Calls

LEMMA AllButTwo ==
  ASSUME NEW S, NEW s \in Seq(S), Len(s) > 1, NEW e \in S
  PROVE  /\ Append(SubSeq(s, 1, Len(s) - 2), e) \in Seq(S)
         /\ Len(Append(SubSeq(s, 1, Len(s) - 2), e)) = Len(s) - 1
         /\ Append(SubSeq(s, 1, Len(s) - 2), e)[Len(s) - 1] = e
         /\ \A j \in 1..(Len(s) - 2) : Append(SubSeq(s, 1, Len(s) - 2), e)[j] = s[j]
<1> DEFINE n == Len(s) - 2
           r == SubSeq(s, 1, n)
<1>1. n \in Nat /\ Len(s) = n + 2
  BY LenProperties
<1>2. \A j \in 1..n : j \in 1..Len(s)
  BY <1>1
<1>3. \A j \in 1..Len(s) : s[j] \in S
  BY ElementOfSeq
<1> HIDE DEF n
<1>4. /\ r \in Seq(S)
      /\ Len(r) = IF 1 <= n THEN n - 1 + 1 ELSE 0
      /\ \A j \in 1..(n - 1 + 1) : r[j] = s[1 + j - 1]
  BY <1>1, <1>2, <1>3, SubSeqProperties
<1> HIDE DEF r
<1>5. Len(r) = n
  BY <1>1, <1>4
<1>6. ASSUME NEW j \in 1..n PROVE r[j] = s[j]
  <2>1. j \in 1..(n - 1 + 1) /\ 1 + j - 1 = j
    BY <1>1
  <2> QED BY <1>4, <2>1
<1>7. /\ Append(r, e) \in Seq(S) /\ Len(Append(r, e)) = n + 1
      /\ Append(r, e)[n + 1] = e
      /\ \A j \in 1..n : Append(r, e)[j] = r[j]
  BY <1>4, <1>5, AppendProperties
<1>8. Len(s) - 1 = n + 1
  BY <1>1
<1> QED BY <1>6, <1>7, <1>8 DEF r, n

\* A call returns to the one that made it.
LEMMA ReturnStack ==
  ASSUME stack \in Seq(Frames), Len(stack) > 1, NEW frame \in Frames,
         stack' = Append(SubSeq(stack, 1, Len(stack) - 2), frame),
         UNCHANGED <<phase, defs, query>>
  PROVE  Returns(frame)
<1>1. /\ stack' \in Seq(Frames) /\ Len(stack') = Len(stack) - 1
      /\ stack'[Len(stack) - 1] = frame
      /\ \A j \in 1..(Len(stack) - 2) : stack'[j] = stack[j]
  BY AllButTwo
<1>2. stack' # <<>>
  <2>1. Len(stack) \in Nat
    BY LenProperties
  <2>2. Len(stack) - 1 # 0
    BY <2>1
  <2> QED BY <1>1, <2>2, EmptySeq
<1> QED BY <1>1, <1>2 DEF Below, Returns

\* The frames of a lookup.
LEMMA FrameType ==
  ASSUME stack \in Seq(Frames), NEW j \in DOMAIN stack
  PROVE  /\ stack[j] \in Frames
         /\ stack[j].of \in Values /\ stack[j].k \in Nat \ {0} /\ stack[j].todo \subseteq Names
         /\ stack[j].found \in Findings
<1>1. stack[j] \in Frames
  OBVIOUS
<1> QED BY <1>1 DEF Frames

\* A lookup in progress.
Looks == NTypes /\ StackTypes /\ phase = "look"

LEMMA TopType ==
  ASSUME Looks
  PROVE  /\ Len(stack) \in Nat /\ Len(stack) > 0
         /\ DOMAIN stack = 1..Len(stack) /\ Len(stack) \in DOMAIN stack
         /\ Top = stack[Len(stack)] /\ Top \in Frames
         /\ Top.of \in Values /\ Top.k \in Nat \ {0} /\ Top.todo \subseteq Names
         /\ stack \in Seq(Frames) /\ stack # <<>>
         /\ query.op \in Lookups \cup Parents /\ Group(query.op) \in Types
         /\ query.op = "GetNet" => Top.found \in Seq(Entries)
         /\ query.op # "GetNet" => Top.found \subseteq Values
<1>1. stack \in Seq(Frames) /\ stack # <<>> /\ query \in Queries
  BY DEF Looks, StackTypes
<1>2. Len(stack) \in Nat /\ Len(stack) > 0 /\ DOMAIN stack = 1..Len(stack)
  BY <1>1, LenProperties, EmptySeq
<1>3. Len(stack) \in DOMAIN stack
  BY <1>2
<1>4. Top = stack[Len(stack)]
  BY DEF Top, Last
<1>5. query.op \in Lookups \cup Parents
  BY <1>1, NamingAssumption DEF Lookups, Services, Parents
<1>6. Group(query.op) \in Types
  BY DEF Group, Types
<1> QED
  BY <1>1, <1>2, <1>3, <1>4, <1>5, <1>6, FrameType DEF Looks, StackTypes

LEMMA ItemType ==
  ASSUME Looks, HasItem
  PROVE  /\ Top.of \in DOMAIN defs[Group(query.op)] /\ Top.of \in Names
         /\ Top.k \in DOMAIN defs[Group(query.op)][Top.of]
         /\ Item = defs[Group(query.op)][Top.of][Top.k]
         /\ Item \in ItemRecords
         /\ Item \in Range(defs[Group(query.op)][Top.of])
         /\ Item.value \in Values /\ Item.comment \in Comments \cup {NONE}
<1>1. Group(query.op) \in Types /\ Top.k \in Nat \ {0}
  BY TopType
<1>2. Top.of \in DOMAIN defs[Group(query.op)] /\ Top.k <= Len(defs[Group(query.op)][Top.of])
  BY DEF HasItem, Defined
<1>3. /\ defs[Group(query.op)][Top.of] \in Seq(ItemRecords)
      /\ Top.of \in Names
  BY <1>1, <1>2 DEF Looks, NTypes, Defs
<1>4. Top.k \in DOMAIN defs[Group(query.op)][Top.of]
  BY <1>1, <1>2, <1>3, LenProperties
<1>5. Item = defs[Group(query.op)][Top.of][Top.k]
  BY DEF Item
<1>6. Item \in ItemRecords /\ Item \in Range(defs[Group(query.op)][Top.of])
  BY <1>3, <1>4, <1>5 DEF Range
<1>7. Item.value \in Values /\ Item.comment \in Comments \cup {NONE}
  BY <1>6 DEF ItemRecords
<1> QED BY <1>2, <1>3, <1>4, <1>5, <1>6, <1>7

\* Nothing that is said of the definitions changes in a lookup.
LEMMA SameGraph ==
  ASSUME UNCHANGED <<defs, query>>
  PROVE  /\ Graph' = Graph
         /\ Ancestors' = Ancestors /\ NoneOverlooked' = NoneOverlooked
         /\ \A v : /\ Whole(v)' = Whole(v)
                   /\ ServicesIn(v)' = ServicesIn(v)
                   /\ NetworksIn(v)' = NetworksIn(v)
                   /\ Listed(query.op, v)' = Listed(query.op, v)
<1>1. defs' = defs /\ query' = query
  OBVIOUS
<1>2. Graph' = Graph
  BY <1>1 DEF Graph, Uses
<1>3. Ancestors' = Ancestors
  BY <1>1 DEF Ancestors, Listed
<1>4. NoneOverlooked' = NoneOverlooked
  BY <1>1 DEF NoneOverlooked
<1>5. ASSUME NEW v
      PROVE  /\ Whole(v)' = Whole(v)
             /\ ServicesIn(v)' = ServicesIn(v)
             /\ NetworksIn(v)' = NetworksIn(v)
             /\ Listed(query.op, v)' = Listed(query.op, v)
  <2>1. Whole(v)' = Whole(v)
    BY <1>1, <1>2 DEF Whole
  <2>2. ServicesIn(v)' = ServicesIn(v)
    BY <1>1 DEF ServicesIn, Uses
  <2>3. NetworksIn(v)' = NetworksIn(v)
    BY <1>1 DEF NetworksIn, Uses
  <2>4. Listed(query.op, v)' = Listed(query.op, v)
    BY <1>1 DEF Listed
  <2> QED BY <2>1, <2>2, <2>3, <2>4
<1> QED BY <1>2, <1>3, <1>4, <1>5

\* What a call of the lookup may have found.
Finding(f) ==
  IF query.op = "GetNet" THEN f.found \in Seq(Entries) ELSE f.found \subseteq Values

LEMMA GoesTypes ==
  ASSUME Looks, NEW f, Goes(f), f.of = Top.of, Finding(f)
  PROVE  StackTypes'
<1> USE TopType
<1>1. /\ phase' = phase /\ query' = query /\ phase' = "look" /\ query \in Queries
      /\ stack' \in Seq(Frames) /\ stack' # <<>> /\ Len(stack') = Len(stack)
  BY DEF Goes, Looks, StackTypes
<1>2. DOMAIN stack' = 1..Len(stack)
  BY <1>1, LenProperties
<1>3. ASSUME NEW j \in DOMAIN stack'
      PROVE  stack'[j] = stack[j] \/ (j = Len(stack) /\ stack'[j] = f)
  <2>1. j \in 1..(Len(stack) - 1) \/ j = Len(stack)
    BY <1>2
  <2> QED BY <2>1 DEF Goes, Below
<1>4. stack'[1].of = query.of
  <2>1. 1 \in DOMAIN stack'
    BY <1>2
  <2> QED BY <1>3, <2>1 DEF Looks, StackTypes
<1>5. \A j \in DOMAIN stack' : Finding(stack'[j])
  <2> SUFFICES ASSUME NEW j \in DOMAIN stack' PROVE Finding(stack'[j])
    OBVIOUS
  <2>1. j \in DOMAIN stack => Finding(stack[j])
    BY DEF Looks, StackTypes, Finding
  <2> QED BY <1>2, <1>3, <2>1
<1> QED BY <1>1, <1>4, <1>5 DEF StackTypes, Finding

LEMMA CallsTypes ==
  ASSUME Looks, NEW c, NEW f, Calls(c, f), c.of = Top.of, Finding(c), Finding(f)
  PROVE  StackTypes'
<1> USE TopType
<1>1. /\ phase' = phase /\ query' = query /\ phase' = "look" /\ query \in Queries
      /\ stack' \in Seq(Frames) /\ stack' # <<>> /\ Len(stack') = Len(stack) + 1
  BY DEF Calls, Looks, StackTypes
<1>2. DOMAIN stack' = 1..(Len(stack) + 1)
  BY <1>1, LenProperties
<1>3. ASSUME NEW j \in DOMAIN stack'
      PROVE  \/ j \in DOMAIN stack /\ stack'[j] = stack[j]
             \/ j = Len(stack) /\ stack'[j] = c
             \/ j = Len(stack) + 1 /\ stack'[j] = f
  <2>1. j \in 1..(Len(stack) - 1) \/ j = Len(stack) \/ j = Len(stack) + 1
    BY <1>2
  <2>2. j \in 1..(Len(stack) - 1) => j \in DOMAIN stack
    OBVIOUS
  <2> QED BY <2>1, <2>2 DEF Calls, Below
<1>4. stack'[1].of = query.of
  <2>1. 1 \in DOMAIN stack' /\ 1 # Len(stack) + 1
    BY <1>2
  <2> QED BY <1>3, <2>1 DEF Looks, StackTypes
<1>5. \A j \in DOMAIN stack' : Finding(stack'[j])
  <2> SUFFICES ASSUME NEW j \in DOMAIN stack' PROVE Finding(stack'[j])
    OBVIOUS
  <2>1. j \in DOMAIN stack => Finding(stack[j])
    BY DEF Looks, StackTypes, Finding
  <2> QED BY <1>3, <2>1
<1> QED BY <1>1, <1>4, <1>5 DEF StackTypes, Finding

LEMMA ReturnsTypes ==
  ASSUME Looks, Len(stack) > 1, NEW c, Returns(c), c.of = stack[Len(stack) - 1].of, Finding(c)
  PROVE  StackTypes'
<1> USE TopType
<1>1. /\ phase' = phase /\ query' = query /\ phase' = "look" /\ query \in Queries
      /\ stack' \in Seq(Frames) /\ stack' # <<>> /\ Len(stack') = Len(stack) - 1
  BY DEF Returns, Looks, StackTypes
<1>2. DOMAIN stack' = 1..(Len(stack) - 1)
  BY <1>1, LenProperties
<1>3. ASSUME NEW j \in DOMAIN stack'
      PROVE  /\ j \in DOMAIN stack
             /\ \/ stack'[j] = stack[j]
                \/ j = Len(stack) - 1 /\ stack'[j] = c
  <2>1. j \in 1..(Len(stack) - 2) \/ j = Len(stack) - 1
    BY <1>2
  <2>2. j \in DOMAIN stack
    BY <1>2
  <2> QED BY <2>1, <2>2 DEF Returns, Below
<1>4. stack'[1].of = query.of
  <2>1. 1 \in DOMAIN stack'
    BY <1>2
  <2> QED BY <1>3, <2>1 DEF Looks, StackTypes
<1>5. \A j \in DOMAIN stack' : Finding(stack'[j])
  <2> SUFFICES ASSUME NEW j \in DOMAIN stack' PROVE Finding(stack'[j])
    OBVIOUS
  <2>1. j \in DOMAIN stack => Finding(stack[j])
    BY DEF Looks, StackTypes, Finding
  <2> QED BY <1>3, <2>1
<1> QED BY <1>1, <1>4, <1>5 DEF StackTypes, Finding

LEMMA SameFrame ==
  ASSUME UNCHANGED <<defs, query>>, NEW f, NEW called, FrameHolds(f, called)
  PROVE  FrameHolds(f, called)'
<1>1. defs' = defs /\ query' = query
  OBVIOUS
<1>2. /\ Graph' = Graph /\ Ancestors' = Ancestors /\ NoneOverlooked' = NoneOverlooked
      /\ \A v : /\ Whole(v)' = Whole(v)
                /\ ServicesIn(v)' = ServicesIn(v)
                /\ NetworksIn(v)' = NetworksIn(v)
                /\ Listed(query.op, v)' = Listed(query.op, v)
  BY SameGraph
<1>3. query.op \in Services => ServiceFrame(f, called)'
  BY <1>1, <1>2 DEF FrameHolds, ServiceFrame
<1>4. query.op = "GetNet" => NetFrame(f, called)'
  <2> SUFFICES ASSUME query.op = "GetNet" PROVE NetFrame(f, called)'
    OBVIOUS
  <2>1. NetFrame(f, called)
    BY DEF FrameHolds
  <2>2. ASSUME NEW i, NEW n, NEW l, Expanded(i, n, l) PROVE Expanded(i, n, l)'
    BY <1>2, <2>2 DEF Expanded
  <2> QED BY <1>1, <1>2, <2>1, <2>2 DEF NetFrame
<1>5. query.op \in Parents => ParentFrame(f, called)'
  BY <1>1, <1>2 DEF FrameHolds, ParentFrame
<1> QED BY <1>1, <1>3, <1>4, <1>5 DEF FrameHolds

\* A frame that a step leaves alone.
LEMMA KeptFrame ==
  ASSUME Looks, FramesHold, UNCHANGED <<defs, query>>, NEW j \in DOMAIN stack,
         stack'[j] = stack[j], Called(j)' = Called(j)
  PROVE  FrameHolds(stack[j], Called(j))'
<1>1. FrameHolds(stack[j], Called(j))
  BY DEF FramesHold, Looks
<1> DEFINE frame == stack[j]
           called == Called(j)
<1>2. PICK f, c : f = frame /\ c = called
  OBVIOUS
<1>3. FrameHolds(f, c)
  BY <1>1, <1>2
<1>4. FrameHolds(f, c)'
  BY <1>3, SameFrame
<1>5. stack'[j] = f /\ Called(j)' = c
  BY <1>2
<1> QED BY <1>4, <1>5

\* What a step of a lookup has to show of the frames: that the condition holds
\* of those it has changed.
LEMMA GoesFrames ==
  ASSUME Looks, FramesHold, NEW f, Goes(f), f.of = Top.of, FrameHolds(f, {})
  PROVE  FramesHold'
<1> USE TopType
<1>1. Len(stack') = Len(stack) /\ DOMAIN stack' = 1..Len(stack) /\ UNCHANGED <<defs, query>>
  BY LenProperties DEF Goes
<1> SUFFICES ASSUME NEW j \in DOMAIN stack' PROVE FrameHolds(stack[j], Called(j))'
  BY DEF FramesHold
<1>2. CASE j = Len(stack)
  <2>1. stack'[j] = f /\ Called(j)' = {}
    BY <1>1, <1>2 DEF Goes, Called
  <2>2. FrameHolds(f, {})'
    BY <1>1, SameFrame
  <2> QED BY <2>1, <2>2
<1>3. CASE j < Len(stack)
  <2>1. j \in DOMAIN stack /\ j \in 1..(Len(stack) - 1)
    BY <1>1, <1>3
  <2>2. stack'[j] = stack[j]
    BY <2>1 DEF Goes, Below
  <2>3. stack'[j + 1].of = stack[j + 1].of
    <3>1. j + 1 \in 1..(Len(stack) - 1) \/ j + 1 = Len(stack)
      BY <2>1
    <3> QED BY <3>1 DEF Goes, Below
  <2>4. Called(j)' = Called(j)
    BY <1>1, <2>3 DEF Called
  <2> QED BY <1>1, <2>1, <2>2, <2>4, KeptFrame
<1> QED BY <1>1, <1>2, <1>3

LEMMA CallsFrames ==
  ASSUME Looks, FramesHold, NEW c, NEW f, Calls(c, f), c.of = Top.of,
         FrameHolds(c, {f.of}), FrameHolds(f, {})
  PROVE  FramesHold'
<1> USE TopType
<1>1. /\ Len(stack') = Len(stack) + 1 /\ DOMAIN stack' = 1..(Len(stack) + 1)
      /\ UNCHANGED <<defs, query>>
  BY LenProperties DEF Calls
<1> SUFFICES ASSUME NEW j \in DOMAIN stack' PROVE FrameHolds(stack[j], Called(j))'
  BY DEF FramesHold
<1>2. CASE j = Len(stack) + 1
  <2>1. stack'[j] = f /\ Called(j)' = {}
    BY <1>1, <1>2 DEF Calls, Called
  <2>2. FrameHolds(f, {})'
    BY <1>1, SameFrame
  <2> QED BY <2>1, <2>2
<1>3. CASE j = Len(stack)
  <2>1. stack'[j] = c /\ Called(j)' = {f.of}
    BY <1>1, <1>3 DEF Calls, Called
  <2>2. FrameHolds(c, {f.of})'
    BY <1>1, SameFrame
  <2> QED BY <2>1, <2>2
<1>4. CASE j < Len(stack)
  <2>1. j \in DOMAIN stack /\ j \in 1..(Len(stack) - 1)
    BY <1>1, <1>4
  <2>2. stack'[j] = stack[j]
    BY <2>1 DEF Calls, Below
  <2>3. stack'[j + 1].of = stack[j + 1].of
    <3>1. j + 1 \in 1..(Len(stack) - 1) \/ j + 1 = Len(stack)
      BY <2>1
    <3> QED BY <3>1 DEF Calls, Below
  <2>4. Called(j)' = Called(j)
    BY <1>1, <2>1, <2>3 DEF Called
  <2> QED BY <1>1, <2>1, <2>2, <2>4, KeptFrame
<1> QED BY <1>1, <1>2, <1>3, <1>4

LEMMA ReturnsFrames ==
  ASSUME Looks, FramesHold, Len(stack) > 1, NEW c, Returns(c),
         c.of = stack[Len(stack) - 1].of, FrameHolds(c, {})
  PROVE  FramesHold'
<1> USE TopType
<1>1. /\ Len(stack') = Len(stack) - 1 /\ DOMAIN stack' = 1..(Len(stack) - 1)
      /\ UNCHANGED <<defs, query>>
  BY LenProperties DEF Returns
<1> SUFFICES ASSUME NEW j \in DOMAIN stack' PROVE FrameHolds(stack[j], Called(j))'
  BY DEF FramesHold
<1>2. CASE j = Len(stack) - 1
  <2>1. stack'[j] = c /\ Called(j)' = {}
    BY <1>1, <1>2 DEF Returns, Called
  <2>2. FrameHolds(c, {})'
    BY <1>1, SameFrame
  <2> QED BY <2>1, <2>2
<1>3. CASE j < Len(stack) - 1
  <2>1. j \in DOMAIN stack /\ j \in 1..(Len(stack) - 2)
    BY <1>1, <1>3
  <2>2. stack'[j] = stack[j]
    BY <2>1 DEF Returns, Below
  <2>3. stack'[j + 1].of = stack[j + 1].of
    <3>1. j + 1 \in 1..(Len(stack) - 2) \/ j + 1 = Len(stack) - 1
      BY <2>1
    <3> QED BY <3>1 DEF Returns, Below
  <2>4. Called(j)' = Called(j)
    <3>1. j < Len(stack) /\ j < Len(stack')
      BY <1>1, <1>3, <2>1
    <3> QED BY <3>1, <2>3 DEF Called
  <2> QED BY <1>1, <2>1, <2>2, <2>4, KeptFrame
<1> QED BY <1>1, <1>2, <1>3

-----------------------------------------------------------------------------
(* Paths *)

\* The call that the last one returns to.
LEMMA CallerType ==
  ASSUME Looks, Len(stack) > 1
  PROVE  /\ Len(stack) - 1 \in DOMAIN stack /\ Len(stack) - 1 # Len(stack)
         /\ stack[Len(stack) - 1] \in Frames
         /\ Called(Len(stack) - 1) = {Top.of}
         /\ Finding(stack[Len(stack) - 1])
<1> DEFINE n == Len(stack)
<1>1. n \in Nat /\ Top = stack[n] /\ DOMAIN stack = 1..n /\ stack \in Seq(Frames)
  BY TopType
<1>2. n > 1
  OBVIOUS
<1> HIDE DEF n
<1>3. n - 1 \in 1..n /\ n - 1 < n /\ n - 1 # n /\ (n - 1) + 1 = n
  BY <1>1, <1>2
<1>4. n - 1 \in DOMAIN stack
  BY <1>1, <1>3
<1>5. Called(n - 1) = {Top.of}
  BY <1>1, <1>3 DEF Called, n
<1>6. stack[n - 1] \in Frames
  BY <1>1, <1>4
<1>7. Finding(stack[n - 1])
  BY <1>4 DEF Looks, StackTypes, Finding
<1> QED BY <1>3, <1>4, <1>5, <1>6, <1>7 DEF n

\* The names that a lookup is at work on are all but the last defined.
LEMMA CallsAreDefined ==
  ASSUME Looks, FramesHold, query.op \in Lookups, NEW j \in DOMAIN stack
  PROVE  /\ j # Len(stack) => stack[j].of \in DOMAIN defs[Group(query.op)] /\ stack[j].of \in Names
         /\ stack[j].of \in Names \cup ServiceValues
         /\ query.op # "GetNet" => stack[j].of \in Names
<1> USE TopType
<1>1. FrameHolds(stack[j], Called(j))
  BY DEF FramesHold, Looks
<1>2. Called(j) # {} <=> j < Len(stack)
  BY DEF Called
<1>3. j # Len(stack) => Called(j) # {}
  BY <1>2
<1>4. \A t \in Types : DOMAIN defs[t] \subseteq Names
  BY DEF Looks, NTypes, Defs
<1>5. CASE query.op \in Services
  BY <1>1, <1>3, <1>4, <1>5 DEF FrameHolds, ServiceFrame, Group, Services, Types
<1>6. CASE query.op = "GetNet"
  BY <1>1, <1>3, <1>4, <1>6 DEF FrameHolds, NetFrame, Group, Types
<1> QED BY <1>5, <1>6 DEF Lookups

LEMMA GraphType ==
  /\ \A n \in Names : Graph[n] \subseteq Names
  /\ \A t : \A n \in Names : Uses(t)[n] \subseteq Names
BY DEF Graph, Uses

LEMMA GoesPath ==
  ASSUME Looks, Path, NEW f, Goes(f), f.of = Top.of
  PROVE  Path'
<1> USE TopType
<1>1. /\ Len(stack') = Len(stack) /\ DOMAIN stack' = 1..Len(stack)
      /\ phase' = phase /\ query' = query /\ Graph' = Graph
  BY LenProperties, SameGraph DEF Goes
<1>2. \A j \in DOMAIN stack' : stack'[j].of = stack[j].of
  <2>1. \A j \in DOMAIN stack' : j \in 1..(Len(stack) - 1) \/ j = Len(stack)
    BY <1>1
  <2> QED BY <2>1 DEF Goes, Below
<1> QED BY <1>1, <1>2 DEF Path, Looks

LEMMA CallsPath ==
  ASSUME Looks, Path, query.op \in Lookups, NEW c, NEW f, Calls(c, f), c.of = Top.of,
         Top.of \in Names, f.of \in Names => f.of \in Graph[Top.of]
  PROVE  Path'
<1> USE TopType
<1>1. /\ Len(stack') = Len(stack) + 1 /\ DOMAIN stack' = 1..(Len(stack) + 1)
      /\ phase' = phase /\ query' = query /\ Graph' = Graph
  BY LenProperties, SameGraph DEF Calls
<1>2. \A j \in DOMAIN stack : stack'[j].of = stack[j].of
  <2>1. \A j \in DOMAIN stack : j \in 1..(Len(stack) - 1) \/ j = Len(stack)
    OBVIOUS
  <2> QED BY <2>1 DEF Calls, Below
<1> SUFFICES ASSUME NEW i \in DOMAIN stack', NEW j \in DOMAIN stack', i < j,
                    stack'[j].of \in Names
             PROVE  stack'[j].of \in Reachable(Graph[stack'[i].of], Graph)
  BY <1>1 DEF Path
<1>3. i \in DOMAIN stack /\ stack'[i].of = stack[i].of
  <2>1. i \in DOMAIN stack
    BY <1>1
  <2> QED BY <1>2, <2>1
<1>4. CASE j # Len(stack) + 1
  <2>1. j \in DOMAIN stack
    BY <1>1, <1>4
  <2> QED BY <1>2, <1>3, <2>1 DEF Path, Looks
<1>5. CASE j = Len(stack) + 1
  <2>1. stack'[j].of = f.of /\ f.of \in Graph[Top.of]
    BY <1>5 DEF Calls
  <2>2. CASE i = Len(stack)
    BY <1>3, <2>1, <2>2, GraphType, ReachableHolds
  <2>3. CASE i # Len(stack)
    <3>1. i < Len(stack)
      BY <1>5, <2>3, <1>3
    <3>2. Top.of \in Reachable(Graph[stack[i].of], Graph)
      BY <1>3, <3>1 DEF Path, Looks
    <3> QED BY <1>3, <2>1, <3>2, GraphType, ReachableIsClosed
  <2> QED BY <2>2, <2>3
<1> QED BY <1>4, <1>5

LEMMA ReturnsPath ==
  ASSUME Looks, Path, Len(stack) > 1, NEW c, Returns(c), c.of = stack[Len(stack) - 1].of
  PROVE  Path'
<1> USE TopType
<1>1. /\ Len(stack') = Len(stack) - 1 /\ DOMAIN stack' = 1..(Len(stack) - 1)
      /\ phase' = phase /\ query' = query /\ Graph' = Graph
  BY LenProperties, SameGraph DEF Returns
<1>2. \A j \in DOMAIN stack' : j \in DOMAIN stack /\ stack'[j].of = stack[j].of
  <2>1. \A j \in DOMAIN stack' : j \in DOMAIN stack
    BY <1>1
  <2>2. \A j \in DOMAIN stack' : j \in 1..(Len(stack) - 2) \/ j = Len(stack) - 1
    BY <1>1
  <2> QED BY <2>1, <2>2 DEF Returns, Below
<1> QED BY <1>1, <1>2 DEF Path, Looks

\* What the last call is for can be reached from the name that was asked for; if
\* it is no name, a definition that can be reached lists it.
LEMMA TopIsReached ==
  ASSUME Looks, Path, FramesHold, query.op \in Lookups
  PROVE  /\ query.of \in Names
         /\ Top.of \in Names => Top.of \in Reachable({query.of}, Graph)
         /\ Top.of \notin Names =>
              /\ query.op = "GetNet" /\ Top.of \in ServiceValues
              /\ \E n \in Reachable({query.of}, Graph) :
                   /\ n \in DOMAIN defs["networks"]
                   /\ \E i \in Range(defs["networks"][n]) : i.value = Top.of
<1> USE TopType
<1>1. stack[1].of = query.of /\ query \in Queries
  BY DEF Looks, StackTypes
<1>2. query.of \in Names
  BY <1>1, NamingAssumption DEF Lookups, Services
<1>3. 1 \in DOMAIN stack
  OBVIOUS
<1>4. ASSUME NEW j \in DOMAIN stack, stack[j].of \in Names
      PROVE  stack[j].of \in Reachable({query.of}, Graph)
  <2>1. CASE j = 1
    BY <1>1, <1>2, <2>1, GraphType, ReachableFromOne
  <2>2. CASE j # 1
    <3>1. 1 < j
      BY <2>2
    <3>2. stack[j].of \in Reachable(Graph[query.of], Graph)
      BY <1>1, <1>3, <1>4, <3>1 DEF Path, Looks
    <3> QED BY <1>2, <3>2, GraphType, ReachableFromOne
  <2> QED BY <2>1, <2>2
<1>5. ASSUME Top.of \notin Names
      PROVE  /\ query.op = "GetNet" /\ Top.of \in ServiceValues
             /\ \E n \in Reachable({query.of}, Graph) :
                  /\ n \in DOMAIN defs["networks"]
                  /\ \E i \in Range(defs["networks"][n]) : i.value = Top.of
  <2>1. query.op = "GetNet" /\ Top.of \in ServiceValues
    BY <1>5, CallsAreDefined
  <2>2. Len(stack) > 1
    BY <1>1, <1>2, <1>5
  <2> DEFINE caller == stack[Len(stack) - 1]
  <2>3. /\ Len(stack) - 1 \in DOMAIN stack /\ Len(stack) - 1 # Len(stack)
        /\ Called(Len(stack) - 1) = {Top.of}
    BY <2>2, CallerType
  <2>5. caller.of \in Names
    BY <2>3, CallsAreDefined
  <2>6. caller.of \in Reachable({query.of}, Graph)
    BY <1>4, <2>3, <2>5
  <2>7. NetFrame(caller, {Top.of})
    BY <2>1, <2>3 DEF FramesHold, FrameHolds, Looks
  <2>8. /\ caller.of \in DOMAIN defs["networks"]
        /\ caller.k - 1 \in DOMAIN defs["networks"][caller.of]
        /\ Top.of = defs["networks"][caller.of][caller.k - 1].value
    BY <2>7 DEF NetFrame
  <2> HIDE DEF caller
  <2> QED BY <2>1, <2>6, <2>8 DEF Range
<1> QED BY <1>2, <1>4, <1>5

-----------------------------------------------------------------------------
(* What a name leads to *)

\* All that can be reached from a name is defined and on no circle if this is so
\* of all that it lists.
LEMMA WholeFromParts ==
  ASSUME NEW n \in Names, n \in DOMAIN defs[Group(query.op)], \A v \in Graph[n] : Whole(v)
  PROVE  Whole(n)
<1> SUFFICES ASSUME NEW m \in Reachable({n}, Graph)
             PROVE  m \in DOMAIN defs[Group(query.op)] /\ ~OnCycle(m, Graph)
  BY DEF Whole
<1>1. ASSUME NEW v \in Graph[n], NEW x \in Reachable({v}, Graph)
      PROVE  x \in DOMAIN defs[Group(query.op)] /\ ~OnCycle(x, Graph)
  BY <1>1 DEF Whole
<1>2. CASE m = n
  <2>1. n \notin Reachable(Graph[n], Graph)
    <3> SUFFICES ASSUME n \in Reachable(Graph[n], Graph) PROVE FALSE
      OBVIOUS
    <3>1. PICK v \in Graph[n] : n \in Reachable({v}, Graph)
      BY GraphType, ReachableFromOne
    <3> QED BY <1>1, <3>1 DEF OnCycle
  <2> QED BY <1>2, <2>1 DEF OnCycle
<1>3. CASE m # n
  <2>1. PICK v \in Graph[n] : m \in Reachable({v}, Graph)
    BY <1>3, GraphType, ReachableFromOne
  <2> QED BY <1>1, <2>1
<1> QED BY <1>2, <1>3

\* The services of a name are its own and those of all that it lists.
LEMMA ServicesOfParts ==
  ASSUME NEW n \in Names
  PROVE  /\ \A v \in Uses("services")[n] : ServicesIn(v) \subseteq ServicesIn(n)
         /\ n \in DOMAIN defs["services"] =>
              {i.value : i \in Range(defs["services"][n])} \ Names \subseteq ServicesIn(n)
         /\ \A x \in ServicesIn(n) :
              \/ \E v \in Uses("services")[n] : x \in ServicesIn(v)
              \/ /\ n \in DOMAIN defs["services"] /\ x \notin Names
                 /\ \E i \in Range(defs["services"][n]) : x = i.value
<1> DEFINE g == Uses("services")
           own(m) == {i.value : i \in Range(defs["services"][m])}
<1>1. \A m \in Names : g[m] \subseteq Names
  BY GraphType
<1>2. \A x, m : x \in ServicesIn(m) <=>
        /\ x \notin Names
        /\ \E y \in Reachable({m}, g) : y \in DOMAIN defs["services"] /\ x \in own(y)
  BY DEF ServicesIn
<1> HIDE DEF g, own
<1>3. /\ n \in Reachable({n}, g)
      /\ \A m \in g[n] : Reachable({m}, g) \subseteq Reachable({n}, g)
      /\ \A x \in Reachable({n}, g) : x = n \/ \E m \in g[n] : x \in Reachable({m}, g)
  BY <1>1, ReachableFromOne
<1>4. \A v \in g[n] : ServicesIn(v) \subseteq ServicesIn(n)
  BY <1>2, <1>3
<1>5. n \in DOMAIN defs["services"] => own(n) \ Names \subseteq ServicesIn(n)
  BY <1>2, <1>3
<1>6. ASSUME NEW x \in ServicesIn(n)
      PROVE  \/ \E v \in g[n] : x \in ServicesIn(v)
             \/ n \in DOMAIN defs["services"] /\ x \notin Names /\ x \in own(n)
  <2>1. PICK y \in Reachable({n}, g) :
          x \notin Names /\ y \in DOMAIN defs["services"] /\ x \in own(y)
    BY <1>2
  <2>2. CASE y = n
    BY <2>1, <2>2
  <2>3. CASE y # n
    <3>1. PICK v \in g[n] : y \in Reachable({v}, g)
      BY <1>3, <2>3
    <3>2. x \in ServicesIn(v)
      BY <1>2, <2>1, <3>1
    <3> QED BY <3>1, <3>2
  <2> QED BY <2>2, <2>3
<1> QED BY <1>4, <1>5, <1>6 DEF g, own

\* The networks of a name are its own and those of all that it lists.
LEMMA NetworksOfParts ==
  ASSUME NEW n \in Names
  PROVE  /\ \A v \in Uses("networks")[n] : \A x \in NetworksIn(v) :
              \E y \in NetworksIn(n) : Same(x, y)
         /\ n \in DOMAIN defs["networks"] =>
              \A i \in Range(defs["networks"][n]) : i.value \in NetworkValues =>
                \E y \in NetworksIn(n) : Same(Own(n, i), y)
         /\ \A x \in NetworksIn(n) :
              /\ x = [net |-> x.net, text |-> x.text, token |-> x.token, parent |-> n]
              /\ \/ \E v \in Uses("networks")[n] : \E y \in NetworksIn(v) : Same(y, x)
                 \/ /\ n \in DOMAIN defs["networks"]
                    /\ \E i \in Range(defs["networks"][n]) :
                         i.value \in NetworkValues /\ Same(Own(n, i), x)
<1> DEFINE g == Uses("networks")
           entry(i, m, p) == [net |-> NetworkOf[i.value], text |-> i.comment,
                              token |-> m, parent |-> p]
<1>1. \A m \in Names : g[m] \subseteq Names
  BY GraphType
<1>2. \A p, x : x \in NetworksIn(p) <=>
        \E m \in Reachable({p}, g) :
          /\ m \in DOMAIN defs["networks"]
          /\ \E i \in Range(defs["networks"][m]) :
               i.value \in NetworkValues /\ x = entry(i, m, p)
  BY DEF NetworksIn
<1>3. \A i, m, p, q : Same(entry(i, m, p), entry(i, m, q)) /\ Same(Own(m, i), entry(i, m, p))
  BY DEF Same, Own
<1>4. \A i, m, p : LET x == entry(i, m, p)
                  IN x = [net |-> x.net, text |-> x.text, token |-> x.token, parent |-> p]
  OBVIOUS
<1> HIDE DEF g, entry
<1>5. /\ n \in Reachable({n}, g)
      /\ \A m \in g[n] : Reachable({m}, g) \subseteq Reachable({n}, g)
      /\ \A x \in Reachable({n}, g) : x = n \/ \E m \in g[n] : x \in Reachable({m}, g)
  BY <1>1, ReachableFromOne
<1>6. ASSUME NEW v \in g[n], NEW x \in NetworksIn(v)
      PROVE  \E y \in NetworksIn(n) : Same(x, y)
  <2>1. PICK m \in Reachable({v}, g) :
          /\ m \in DOMAIN defs["networks"]
          /\ \E i \in Range(defs["networks"][m]) :
               i.value \in NetworkValues /\ x = entry(i, m, v)
    BY <1>2
  <2>2. PICK i \in Range(defs["networks"][m]) :
          i.value \in NetworkValues /\ x = entry(i, m, v)
    BY <2>1
  <2>3. entry(i, m, n) \in NetworksIn(n)
    BY <1>2, <1>5, <2>1, <2>2
  <2> QED BY <1>3, <2>2, <2>3
<1>7. ASSUME n \in DOMAIN defs["networks"], NEW i \in Range(defs["networks"][n]),
             i.value \in NetworkValues
      PROVE  \E y \in NetworksIn(n) : Same(Own(n, i), y)
  <2>1. entry(i, n, n) \in NetworksIn(n)
    BY <1>2, <1>5, <1>7
  <2> QED BY <1>3, <2>1
<1>8. ASSUME NEW x \in NetworksIn(n)
      PROVE  /\ x = [net |-> x.net, text |-> x.text, token |-> x.token, parent |-> n]
             /\ \/ \E v \in g[n] : \E y \in NetworksIn(v) : Same(y, x)
                \/ /\ n \in DOMAIN defs["networks"]
                   /\ \E i \in Range(defs["networks"][n]) :
                        i.value \in NetworkValues /\ Same(Own(n, i), x)
  <2>1. PICK m \in Reachable({n}, g) :
          /\ m \in DOMAIN defs["networks"]
          /\ \E i \in Range(defs["networks"][m]) :
               i.value \in NetworkValues /\ x = entry(i, m, n)
    BY <1>2
  <2>2. PICK i \in Range(defs["networks"][m]) :
          i.value \in NetworkValues /\ x = entry(i, m, n)
    BY <2>1
  <2>3. x = [net |-> x.net, text |-> x.text, token |-> x.token, parent |-> n]
    BY <1>4, <2>2
  <2>4. CASE m = n
    BY <1>3, <2>1, <2>2, <2>3, <2>4
  <2>5. CASE m # n
    <3>1. PICK v \in g[n] : m \in Reachable({v}, g)
      BY <1>5, <2>5
    <3>2. entry(i, m, v) \in NetworksIn(v)
      BY <1>2, <2>1, <2>2, <3>1
    <3> QED BY <1>3, <2>2, <2>3, <3>1, <3>2
  <2> QED BY <2>4, <2>5
<1> QED BY <1>6, <1>7, <1>8 DEF g

-----------------------------------------------------------------------------
(* Answers *)

\* A lookup in progress, and what is known of it.
Calling == Looks /\ Path /\ FramesHold

\* It goes on.
GoesOn == StackTypes' /\ Path' /\ FramesHold' /\ phase' = "look"

\* It has come to an end.
Ends ==
  /\ phase' = "answered" /\ StackTypes'
  /\ query.op \in Lookups => LookupIsExact'
  /\ query.op \in Parents => ParentsAreAncestors'
  /\ UNCHANGED query

\* What an answer has to show.
LEMMA LookupEnds ==
  ASSUME Looks, query.op \in Lookups, UNCHANGED <<defs, query>>, phase' = "answered",
         \/ /\ answer'.kind = "found" /\ Whole(query.of)
            /\ query.op = "GetNet" => Range(answer'.value) = NetworksIn(query.of)
            /\ query.op # "GetNet" => answer'.value = OfProtocol(ServicesIn(query.of))
         \/ /\ answer'.kind = "undefined"
            /\ \E n \in Reachable({query.of}, Graph) :
                 \/ n \notin DOMAIN defs[Group(query.op)]
                 \/ \E i \in Range(defs["networks"][n]) : i.value \in ServiceValues
         \/ /\ answer'.kind = "recursion"
            /\ \E n \in Reachable({query.of}, Graph) : OnCycle(n, Graph)
  PROVE  Ends
<1> DEFINE all == Reachable({query.of}, Graph)
<1>1. Reachable({query.of}, Uses(Group(query.op)))' = all
  BY DEF Uses, Graph
<1>2. \A n : OnCycle(n, Uses(Group(query.op)))' <=> OnCycle(n, Graph)
  BY DEF Uses, Graph, OnCycle
<1>3. /\ ServicesIn(query.of)' = ServicesIn(query.of)
      /\ NetworksIn(query.of)' = NetworksIn(query.of)
  BY DEF ServicesIn, NetworksIn, Uses
<1>4. \A s : OfProtocol(s)' = OfProtocol(s)
  BY DEF OfProtocol
<1>5. query.op = "GetNet" <=> Group(query.op) = "networks"
  BY DEF Lookups, Services, Group
<1>6. query.op \notin Parents /\ query \in Queries
  BY DEF Lookups, Services, Parents, Looks, StackTypes
<1>7. answer'.kind \in {"found", "undefined", "recursion"}
  OBVIOUS
<1>8. ASSUME answer'.kind = "found"
      PROVE  /\ \A n \in all : n \in DOMAIN defs[Group(query.op)] /\ ~OnCycle(n, Graph)
             /\ IF Group(query.op) = "networks" THEN Range(answer'.value) = NetworksIn(query.of)
                ELSE answer'.value = OfProtocol(ServicesIn(query.of))
  BY <1>5, <1>8 DEF Whole
<1>9. ASSUME answer'.kind = "undefined"
      PROVE  \/ ~(all \subseteq DOMAIN defs[Group(query.op)])
             \/ \E n \in all : \E i \in Range(defs["networks"][n]) : i.value \in ServiceValues
  BY <1>9
<1>10. ASSUME answer'.kind = "recursion"
       PROVE  \E n \in all : OnCycle(n, Graph)
  BY <1>10
<1> HIDE DEF all
<1>11. LookupIsExact'
  BY <1>1, <1>2, <1>3, <1>4, <1>7, <1>8, <1>9, <1>10 DEF LookupIsExact
<1>12. StackTypes'
  BY <1>6, <1>7 DEF StackTypes
<1> QED BY <1>6, <1>11, <1>12 DEF Ends

\* What is undefined can be reached from the name that was asked for, or is no
\* name at all.
LEMMA UndefinedEnds ==
  ASSUME Calling, Undefined
  PROVE  Ends
<1>1. query.op \in Lookups /\ Top.of \notin DOMAIN defs[Group(query.op)]
  BY DEF Undefined, Looking, Lookups, Defined
<1>2. UNCHANGED <<defs, query>> /\ phase' = "answered" /\ answer'.kind = "undefined"
  BY DEF Undefined, Answer, reading
<1>3. CASE Top.of \in Names
  <2>1. Top.of \in Reachable({query.of}, Graph)
    BY <1>1, <1>3, TopIsReached DEF Calling
  <2> QED BY <1>1, <1>2, <2>1, LookupEnds DEF Calling
<1>4. CASE Top.of \notin Names
  <2>1. /\ Top.of \in ServiceValues
        /\ \E n \in Reachable({query.of}, Graph) :
             \E i \in Range(defs["networks"][n]) : i.value = Top.of
    BY <1>1, <1>4, TopIsReached DEF Calling
  <2> QED BY <1>1, <1>2, <2>1, LookupEnds DEF Calling
<1> QED BY <1>3, <1>4

\* Of more calls than there are names two are for the same name.
LEMMA SomeNameTwice ==
  ASSUME Looks, Len(stack) = MaxDepth, \A j \in DOMAIN stack : stack[j].of \in Names
  PROVE  \E i, j \in DOMAIN stack : i < j /\ stack[i].of = stack[j].of
<1> USE TopType
<1> DEFINE calls == 1..MaxDepth
           f == [j \in calls |-> stack[j].of]
<1>1. /\ IsFiniteSet(Names) /\ MaxDepth \in Nat
      /\ MaxDepth > Cardinality(Names)
  BY NamingAssumption
<1>2. 1 \in Int /\ MaxDepth \in Int
  BY <1>1
<1>3. IsFiniteSet(calls) /\ Cardinality(calls) = MaxDepth
  <2>1. Cardinality(calls) = IF 1 > MaxDepth THEN 0 ELSE MaxDepth - 1 + 1
    BY <1>2, FS_Interval
  <2>2. IsFiniteSet(calls)
    BY <1>2, FS_Interval
  <2> QED BY <1>1, <2>1, <2>2
<1>4. f \in [calls -> Names]
  OBVIOUS
<1> HIDE DEF f
<1>5. PICK i \in calls, j \in calls : i # j /\ f[i] = f[j]
  <2> HIDE DEF calls
  <2> QED BY <1>1, <1>3, <1>4, FS_PigeonHole
<1>6. stack[i].of = stack[j].of
  BY <1>5 DEF f
<1>7. i < j \/ j < i
  BY <1>5
<1> QED BY <1>6, <1>7

\* A lookup that makes too many calls goes in a circle.
LEMMA RecursionEnds ==
  ASSUME Calling, query.op \in Lookups, Top.of \in Names, Len(stack) = MaxDepth,
         Answer("recursion", {})
  PROVE  Ends
<1> USE TopType DEF Calling
<1>1. UNCHANGED <<defs, query>> /\ phase' = "answered" /\ answer'.kind = "recursion"
  BY DEF Answer, reading
<1>2. \A j \in DOMAIN stack : stack[j].of \in Names
  BY CallsAreDefined
<1>3. PICK i \in DOMAIN stack, j \in DOMAIN stack : i < j /\ stack[i].of = stack[j].of
  BY <1>2, SomeNameTwice
<1> DEFINE n == stack[i].of
<1>4. n \in Names /\ n \in Reachable(Graph[n], Graph)
  BY <1>2, <1>3 DEF Path, Looks
<1>5. n \in Reachable({query.of}, Graph)
  <2>1. query.of \in Names /\ stack[1].of = query.of /\ 1 \in DOMAIN stack
    BY TopIsReached DEF Looks, StackTypes
  <2>2. CASE i = 1
    BY <2>1, <2>2, GraphType, ReachableFromOne
  <2>3. CASE i # 1
    <3>1. 1 < i
      BY <2>3
    <3>2. n \in Reachable(Graph[query.of], Graph)
      BY <1>2, <2>1, <3>1 DEF Path, Looks
    <3> QED BY <2>1, <3>2, GraphType, ReachableFromOne
  <2> QED BY <2>2, <2>3
<1>6. OnCycle(n, Graph)
  BY <1>4 DEF OnCycle
<1> QED BY <1>1, <1>5, <1>6, LookupEnds

-----------------------------------------------------------------------------
(* GetService *)

LEMMA ServiceKind ==
  ASSUME query.op \in Services
  PROVE  /\ query.op \in Lookups /\ query.op \notin Parents /\ query.op # "GetNet"
         /\ Group(query.op) = "services" /\ Graph = Uses("services")
         /\ \A f, c : FrameHolds(f, c) <=> ServiceFrame(f, c)
<1>1. /\ query.op \in Lookups /\ query.op \notin Parents /\ query.op # "GetNet"
      /\ Group(query.op) = "services"
  BY DEF Services, Lookups, Parents, Group
<1> QED BY <1>1 DEF Graph, FrameHolds

\* The last call, of which nothing waits.
LEMMA TopHolds ==
  ASSUME Calling
  PROVE  FrameHolds(Top, {})
<1>1. Len(stack) \in DOMAIN stack /\ Top = stack[Len(stack)]
  BY TopType DEF Calling
<1>2. Called(Len(stack)) = {}
  BY TopType DEF Called, Calling
<1> QED BY <1>1, <1>2 DEF Calling, FramesHold, Looks

\* A frame that went a step on.
At(k, todo, found) == [of |-> Top.of, k |-> k, todo |-> todo, found |-> found]

LEMMA NextFrame ==
  ASSUME Looks, NEW todo, NEW found
  PROVE  /\ Next1 = At(Top.k + 1, Top.todo, Top.found)
         /\ Next1.todo = Top.todo /\ Next1.found = Top.found
         /\ [Next1 EXCEPT !.found = found] = At(Top.k + 1, Top.todo, found)
         /\ [Next1 EXCEPT !.todo = todo] = At(Top.k + 1, todo, Top.found)
         /\ [Top EXCEPT !.todo = todo, !.found = found] = At(Top.k, todo, found)
         /\ At(Top.k, todo, found).of = Top.of /\ At(Top.k + 1, todo, found).of = Top.of
         /\ todo \subseteq Names /\ found \in Findings =>
              At(Top.k, todo, found) \in Frames /\ At(Top.k + 1, todo, found) \in Frames
<1>1. /\ Top = At(Top.k, Top.todo, Top.found) /\ Top.k \in Nat \ {0}
      /\ Top.of \in Values
  BY TopType DEF Frames, At
<1>2. Next1 = At(Top.k + 1, Top.todo, Top.found)
  BY <1>1 DEF Next1, At
<1>3. [Top EXCEPT !.todo = todo, !.found = found] = At(Top.k, todo, found)
  <2> DEFINE t == [Top EXCEPT !.todo = todo]
  <2>1. t = At(Top.k, todo, Top.found)
    BY <1>1 DEF At
  <2>2. [Top EXCEPT !.todo = todo, !.found = found] = [t EXCEPT !.found = found]
    OBVIOUS
  <2> HIDE DEF t
  <2>3. [t EXCEPT !.found = found] = At(Top.k, todo, found)
    BY <2>1 DEF At
  <2> QED BY <2>2, <2>3
<1> QED BY <1>1, <1>2, <1>3 DEF At, Frames

\* A value that stands in the definition is taken; a name that has been asked
\* for is passed by.
LEMMA ServiceGoesOn ==
  ASSUME Calling, ServiceValue \/ ServiceDone
  PROVE  GoesOn
<1> USE TopType DEF Calling
<1> DEFINE values == {Item.value} \ Names
           f == At(Top.k + 1, Top.todo, Top.found \cup values)
<1>1. /\ query.op \in Services /\ HasItem
      /\ Item.value \in Names => Item.value \in Top.todo \cup {Top.of}
  BY DEF ServiceValue, ServiceDone, Looking, AlreadyDone
<1>2. Continue(f)
  <2>1. CASE ServiceValue
    <3>1. values = {Item.value}
      BY <2>1 DEF ServiceValue
    <3> QED BY <2>1, <3>1, NextFrame DEF ServiceValue
  <2>2. CASE ServiceDone
    <3>1. Top.found \cup values = Top.found
      BY <2>2 DEF ServiceDone
    <3> QED BY <2>2, <3>1, NextFrame DEF ServiceDone
  <2> QED BY <2>1, <2>2
<1>3. /\ Item \in Range(defs["services"][Top.of]) /\ Item = defs["services"][Top.of][Top.k]
      /\ Top.of \in DOMAIN defs["services"] /\ Top.of \in Names /\ Item.value \in Values
  BY <1>1, ItemType, ServiceKind
<1>4. Top.found \subseteq Values
  BY <1>1, ServiceKind
<1>5. f \in Frames
  <2>1. Top.found \cup values \in Findings
    BY <1>3, <1>4 DEF Findings
  <2> QED BY <2>1, NextFrame
<1>6. ServiceFrame(Top, {})
  BY <1>1, TopHolds, ServiceKind
<1>7. values \subseteq ServicesIn(Top.of)
  BY <1>3, ServicesOfParts
<1>8. ASSUME NEW i \in DOMAIN defs["services"][Top.of], i < Top.k + 1
      PROVE  LET v == defs["services"][Top.of][i].value
             IN IF v \in Names THEN v \in Top.todo \cup {Top.of}
                ELSE v \in Top.found \cup values
  <2>1. i < Top.k \/ i = Top.k
    <3>1. defs["services"][Top.of] \in Seq(ItemRecords)
      BY <1>3 DEF Looks, NTypes, Defs, Types
    <3>2. i \in Nat
      BY <3>1
    <3> QED BY <1>8, <3>2
  <2>2. CASE i < Top.k
    BY <1>3, <1>6, <2>2 DEF ServiceFrame
  <2>3. CASE i = Top.k
    BY <1>1, <1>3, <2>3
  <2> QED BY <2>1, <2>2, <2>3
<1>9. ServiceFrame(f, {})
  <2> HIDE DEF values
  <2> QED BY <1>6, <1>7, <1>8 DEF ServiceFrame, At
<1>10. FrameHolds(f, {}) /\ Finding(f) /\ f.of = Top.of
  BY <1>1, <1>3, <1>4, <1>9, ServiceKind DEF Finding, At
<1> HIDE DEF f
<1>11. Goes(f)
  BY <1>2, <1>5, ContinueStack
<1>12. phase' = "look"
  BY <1>11 DEF Goes, Looks
<1> QED BY <1>10, <1>11, <1>12, GoesTypes, GoesPath, GoesFrames DEF GoesOn

\* A name that has not been asked for is asked for.
LEMMA ServiceTokenStep ==
  ASSUME Calling, ServiceToken
  PROVE  GoesOn \/ Ends
<1> USE TopType DEF Calling
<1> DEFINE v == Item.value
           c == At(Top.k + 1, Top.todo \cup {v}, Top.found)
           f == Frame(v, {}, {})
<1>1. /\ query.op \in Services /\ HasItem /\ v \in Names /\ v \notin Top.todo \cup {Top.of}
      /\ Call(c, f)
  BY NextFrame DEF ServiceToken, Looking, AlreadyDone
<1>2. /\ Item \in Range(defs["services"][Top.of]) /\ Item = defs["services"][Top.of][Top.k]
      /\ Top.of \in DOMAIN defs["services"] /\ Top.of \in Names
  BY <1>1, ItemType, ServiceKind
<1>3. v \in Graph[Top.of]
  BY <1>1, <1>2, ServiceKind DEF Uses
<1>4. CASE Len(stack) = MaxDepth
  <2>1. Answer("recursion", {})
    BY <1>1, <1>4 DEF Call
  <2> QED BY <1>1, <1>2, <1>4, <2>1, RecursionEnds, ServiceKind
<1>5. CASE Len(stack) # MaxDepth
  <2>1. c \in Frames /\ f \in Frames /\ c.of = Top.of /\ f.of = v
    <3>1. Top.found \in Findings /\ {} \in Findings
      BY <1>1, ServiceKind DEF Findings
    <3>2. c \in Frames /\ c.of = Top.of
      BY <1>1, <3>1, NextFrame
    <3>3. f \in Frames /\ f.of = v
      BY <1>1, <3>1 DEF Frame, Frames, Values
    <3> QED BY <3>2, <3>3
  <2>2. ServiceFrame(Top, {})
    BY <1>1, TopHolds, ServiceKind
  <2>3. ASSUME NEW i \in DOMAIN defs["services"][Top.of], i < Top.k + 1
        PROVE  LET w == defs["services"][Top.of][i].value
               IN IF w \in Names THEN w \in Top.todo \cup {v} \cup {Top.of}
                  ELSE w \in Top.found
    <3>1. i < Top.k \/ i = Top.k
      <4>1. defs["services"][Top.of] \in Seq(ItemRecords)
        BY <1>2 DEF Looks, NTypes, Defs, Types
      <4>2. i \in Nat
        BY <4>1
      <4> QED BY <2>3, <4>2
    <3>2. CASE i < Top.k
      BY <1>2, <2>2, <3>2 DEF ServiceFrame
    <3>3. CASE i = Top.k
      BY <1>1, <1>2, <3>3
    <3> QED BY <3>1, <3>2, <3>3
  <2>4. ServiceFrame(c, {v})
    <3> HIDE DEF v
    <3> QED BY <1>2, <1>3, <2>2, <2>3 DEF ServiceFrame, At
  <2>5. ServiceFrame(f, {})
    <3>1. \A i \in DOMAIN defs["services"][v] : v \in DOMAIN defs["services"] => ~(i < 1)
      <4> SUFFICES ASSUME v \in DOMAIN defs["services"],
                          NEW i \in DOMAIN defs["services"][v]
                   PROVE  ~(i < 1)
        OBVIOUS
      <4>1. defs["services"][v] \in Seq(ItemRecords)
        BY DEF Looks, NTypes, Defs, Types
      <4> QED BY <4>1
    <3> HIDE DEF v
    <3> QED BY <1>1, <3>1 DEF ServiceFrame, Frame
  <2>6. FrameHolds(c, {f.of}) /\ FrameHolds(f, {}) /\ Finding(c) /\ Finding(f)
    BY <1>1, <2>1, <2>4, <2>5, ServiceKind DEF Finding, At, Frame
  <2>7. Calls(c, f)
    BY <1>1, <1>5, <2>1, CallStack
  <2> HIDE DEF c, f
  <2>8. phase' = "look"
    BY <2>7 DEF Calls, Looks
  <2>9. StackTypes' /\ FramesHold'
    BY <2>1, <2>6, <2>7, CallsTypes, CallsFrames
  <2>10. Path'
    BY <1>1, <1>2, <1>3, <2>1, <2>7, CallsPath, ServiceKind
  <2> QED BY <2>8, <2>9, <2>10 DEF GoesOn
<1> QED BY <1>4, <1>5

\* A call of GetService that returns has found all services of its name.
LEMMA ServiceReturnStep ==
  ASSUME Calling, ServiceReturn
  PROVE  GoesOn \/ Ends
<1> USE TopType DEF Calling
<1>1. /\ query.op \in Services /\ NoItemLeft /\ ReturnSet
  BY DEF ServiceReturn, Looking
<1>2. /\ Top.of \in DOMAIN defs["services"] /\ Top.of \in Names
      /\ Top.k > Len(defs["services"][Top.of])
      /\ defs["services"][Top.of] \in Seq(ItemRecords)
  BY <1>1, ServiceKind DEF NoItemLeft, Defined, Looks, NTypes, Defs, Types
<1>3. ServiceFrame(Top, {})
  BY <1>1, TopHolds, ServiceKind
<1>4. ASSUME NEW i \in Range(defs["services"][Top.of])
      PROVE  IF i.value \in Names THEN i.value \in Top.todo \cup {Top.of}
             ELSE i.value \in Top.found
  <2>1. PICK n \in DOMAIN defs["services"][Top.of] : i = defs["services"][Top.of][n]
    BY DEF Range
  <2>2. n < Top.k
    BY <1>2, <2>1
  <2> QED BY <1>2, <1>3, <2>1, <2>2 DEF ServiceFrame
<1>5. Graph[Top.of] \subseteq Top.todo
  BY <1>1, <1>2, <1>4, ServiceKind DEF Uses
<1>6. \A v \in Graph[Top.of] : Whole(v) /\ ServicesIn(v) \subseteq Top.found
  BY <1>3, <1>5 DEF ServiceFrame
<1>7. Whole(Top.of)
  BY <1>1, <1>2, <1>6, WholeFromParts, ServiceKind
<1>8. Top.found = ServicesIn(Top.of)
  <2>1. ASSUME NEW x \in ServicesIn(Top.of) PROVE x \in Top.found
    <3>1. CASE \E v \in Graph[Top.of] : x \in ServicesIn(v)
      BY <1>6, <3>1
    <3>2. CASE \E i \in Range(defs["services"][Top.of]) : x = i.value /\ x \notin Names
      BY <1>4, <3>2
    <3> QED BY <1>1, <1>2, <3>1, <3>2, ServicesOfParts, ServiceKind
  <2> QED BY <1>3, <2>1 DEF ServiceFrame
<1>9. CASE Len(stack) = 1
  <2>1. /\ UNCHANGED <<defs, query>> /\ phase' = "answered"
        /\ answer'.kind = "found" /\ answer'.value = OfProtocol(Top.found)
    BY <1>1, <1>9 DEF ReturnSet, Answer, reading
  <2>2. Top.of = query.of
    BY <1>9 DEF Looks, StackTypes
  <2> QED BY <1>1, <1>7, <1>8, <2>1, <2>2, LookupEnds, ServiceKind
<1>10. CASE Len(stack) # 1
  <2> DEFINE caller == stack[Len(stack) - 1]
             c == [caller EXCEPT !.found = @ \cup Top.found]
  <2>1. Len(stack) > 1
    BY <1>10
  <2>2. /\ caller \in Frames /\ Called(Len(stack) - 1) = {Top.of} /\ Finding(caller)
        /\ Len(stack) - 1 \in DOMAIN stack
    BY <2>1, CallerType
  <2>3. ServiceFrame(caller, {Top.of})
    BY <1>1, <2>2, ServiceKind DEF FramesHold, Looks
  <2>4. /\ stack' = Append(SubSeq(stack, 1, Len(stack) - 2), c)
        /\ UNCHANGED <<phase, defs, query>>
    BY <1>1, <1>10 DEF ReturnSet, reading
  <2> HIDE DEF caller
  <2>5. /\ c \in Frames /\ c.of = caller.of /\ c.k = caller.k /\ c.todo = caller.todo
        /\ c.found = caller.found \cup Top.found /\ c.found \subseteq Values
    <3>1. caller.found \cup Top.found \subseteq Values
      BY <1>1, <2>2, ServiceKind DEF Finding
    <3>2. caller.found \cup Top.found \in Findings
      BY <3>1 DEF Findings
    <3> QED BY <2>2, <3>1, <3>2 DEF Frames
  <2> HIDE DEF c
  <2>6. /\ Top.of \in Graph[caller.of] /\ caller.of \in Names
        /\ ServicesIn(Top.of) \subseteq ServicesIn(caller.of)
    BY <1>1, <2>3, ServicesOfParts, ServiceKind DEF ServiceFrame
  <2>7. ServiceFrame(c, {})
    BY <1>7, <1>8, <2>3, <2>5, <2>6 DEF ServiceFrame
  <2>8. Returns(c)
    BY <2>1, <2>4, <2>5, ReturnStack
  <2>9. FrameHolds(c, {}) /\ Finding(c) /\ phase' = "look"
    BY <1>1, <2>4, <2>5, <2>7, ServiceKind DEF Finding, Looks
  <2>10. c.of = stack[Len(stack) - 1].of
    BY <2>5 DEF caller
  <2> QED
    BY <2>1, <2>8, <2>9, <2>10, ReturnsTypes, ReturnsPath, ReturnsFrames DEF GoesOn
<1> QED BY <1>9, <1>10

-----------------------------------------------------------------------------
(* GetNet *)

LEMMA NetKind ==
  ASSUME query.op = "GetNet"
  PROVE  /\ query.op \in Lookups /\ query.op \notin Parents /\ query.op \notin Services
         /\ Group(query.op) = "networks" /\ Graph = Uses("networks")
         /\ \A f, c : FrameHolds(f, c) <=> NetFrame(f, c)
<1>1. /\ query.op \in Lookups /\ query.op \notin Parents /\ query.op \notin Services
      /\ Group(query.op) = "networks"
  BY DEF Services, Lookups, Parents, Group
<1> QED BY <1>1 DEF Graph, FrameHolds

LEMMA RangeOfAppend ==
  ASSUME NEW S, NEW s \in Seq(S), NEW e \in S
  PROVE  /\ Range(s) \subseteq Range(Append(s, e)) /\ e \in Range(Append(s, e))
         /\ \A x \in Range(Append(s, e)) : x \in Range(s) \/ x = e
<1> DEFINE r == Append(s, e)
<1>1. /\ r \in Seq(S) /\ Len(r) = Len(s) + 1 /\ r[Len(s) + 1] = e
      /\ \A j \in 1..Len(s) : r[j] = s[j]
  BY AppendProperties
<1>2. Len(s) \in Nat /\ DOMAIN s = 1..Len(s) /\ DOMAIN r = 1..(Len(s) + 1)
  BY <1>1, LenProperties
<1> HIDE DEF r
<1>3. \A j \in DOMAIN s : j \in DOMAIN r /\ r[j] = s[j]
  BY <1>1, <1>2
<1>4. Len(s) + 1 \in DOMAIN r
  BY <1>2
<1>5. \A j \in DOMAIN r : j \in DOMAIN s \/ j = Len(s) + 1
  BY <1>2
<1> QED BY <1>1, <1>3, <1>4, <1>5 DEF Range, r

LEMMA RangeOfConcat ==
  ASSUME NEW S, NEW s \in Seq(S), NEW t \in Seq(S)
  PROVE  \A x : x \in Range(s \o t) <=> x \in Range(s) \/ x \in Range(t)
<1> DEFINE r == s \o t
           n == Len(s)
<1>1. /\ r \in Seq(S) /\ Len(r) = n + Len(t)
      /\ \A j \in 1..(n + Len(t)) : r[j] = IF j <= n THEN s[j] ELSE t[j - n]
  BY ConcatProperties
<1>2. /\ n \in Nat /\ Len(t) \in Nat /\ DOMAIN s = 1..n /\ DOMAIN t = 1..Len(t)
      /\ DOMAIN r = 1..(n + Len(t))
  BY <1>1, LenProperties
<1> HIDE DEF r, n
<1>3. \A j \in DOMAIN s : j \in DOMAIN r /\ r[j] = s[j]
  BY <1>1, <1>2
<1>4. ASSUME NEW j \in DOMAIN t PROVE n + j \in DOMAIN r /\ r[n + j] = t[j]
  <2>1. n + j \in 1..(n + Len(t)) /\ ~(n + j <= n) /\ n + j - n = j
    BY <1>2
  <2> QED BY <1>1, <1>2, <2>1
<1>5. ASSUME NEW j \in DOMAIN r
      PROVE  \/ j \in DOMAIN s /\ r[j] = s[j]
             \/ j - n \in DOMAIN t /\ r[j] = t[j - n]
  <2>1. j \in 1..n \/ j - n \in 1..Len(t)
    BY <1>2
  <2>2. CASE j \in 1..n
    BY <1>2, <1>3, <2>2
  <2>3. CASE j - n \in 1..Len(t)
    <3>1. j \in 1..(n + Len(t)) /\ ~(j <= n)
      BY <1>2, <2>3
    <3> QED BY <1>1, <1>2, <2>3, <3>1
  <2> QED BY <2>1, <2>2, <2>3
<1>6. \A x : x \in Range(r) <=> x \in Range(s) \/ x \in Range(t)
  BY <1>3, <1>4, <1>5 DEF Range
<1> QED BY <1>6 DEF r

LEMMA LongerIsExpanded ==
  ASSUME NEW item, NEW n, NEW l, NEW m, Range(l) \subseteq Range(m), Expanded(item, n, l)
  PROVE  Expanded(item, n, m)
BY DEF Expanded

\* A network of the definition is taken, for this name and no other.
LEMMA NetAddressStep ==
  ASSUME Calling, NetAddress
  PROVE  GoesOn
<1> USE TopType DEF Calling
<1> DEFINE v == Item.value
           e == [net |-> NetworkOf[v], text |-> Item.comment, token |-> Top.of,
                 parent |-> Top.of]
           list == Append(Top.found, e)
           f == At(Top.k + 1, Top.todo, list)
<1>1. /\ query.op = "GetNet" /\ HasItem /\ v \in NetworkValues /\ Continue(f)
  BY NextFrame DEF NetAddress, Looking
<1>2. /\ Item \in Range(defs["networks"][Top.of]) /\ Item = defs["networks"][Top.of][Top.k]
      /\ Top.of \in DOMAIN defs["networks"] /\ Top.of \in Names
      /\ Item.comment \in Comments \cup {NONE}
  BY <1>1, ItemType, NetKind
<1>3. e \in Entries /\ Top.found \in Seq(Entries) /\ Same(e, Own(Top.of, Item))
  BY <1>1, <1>2 DEF Entries, Same, Own
<1>4. list \in Seq(Entries)
  <2> HIDE DEF e
  <2> QED BY <1>3, AppendProperties
<1>5. /\ Range(Top.found) \subseteq Range(list) /\ e \in Range(list)
      /\ \A x \in Range(list) : x \in Range(Top.found) \/ x = e
  <2> HIDE DEF e
  <2> QED BY <1>3, RangeOfAppend
<1>6. f \in Frames /\ f.of = Top.of /\ Finding(f)
  <2> HIDE DEF list
  <2>1. list \in Findings
    BY <1>4 DEF Findings
  <2>2. f \in Frames /\ f.of = Top.of
    BY <2>1, NextFrame
  <2> QED BY <1>1, <1>4, <2>2 DEF Finding, At
<1>7. NetFrame(Top, {})
  BY <1>1, TopHolds, NetKind
<1>8. \A x \in Range(list) : \E y \in NetworksIn(Top.of) : Same(x, y)
  <2>1. \E y \in NetworksIn(Top.of) : Same(Own(Top.of, Item), y)
    <3> HIDE DEF e, list, f
    <3> QED BY <1>1, <1>2, NetworksOfParts
  <2>2. \E y \in NetworksIn(Top.of) : Same(e, y)
    BY <1>3, <2>1 DEF Same
  <2> HIDE DEF e, list
  <2> QED BY <1>5, <1>7, <2>2 DEF NetFrame
<1>9. ASSUME NEW i \in DOMAIN defs["networks"][Top.of], i < Top.k + 1
      PROVE  Expanded(defs["networks"][Top.of][i], Top.of, list)
  <2> HIDE DEF e, list, v
  <2>1. i < Top.k \/ i = Top.k
    <3>1. defs["networks"][Top.of] \in Seq(ItemRecords)
      BY <1>2 DEF Looks, NTypes, Defs, Types
    <3>2. i \in Nat
      BY <3>1
    <3> QED BY <1>9, <3>2
  <2>2. CASE i < Top.k
    <3>1. Expanded(defs["networks"][Top.of][i], Top.of, Top.found)
      BY <1>2, <1>7, <2>2 DEF NetFrame
    <3> QED BY <1>5, <3>1, LongerIsExpanded
  <2>3. CASE i = Top.k
    BY <1>1, <1>2, <1>3, <1>5, <2>3 DEF Expanded, v
  <2> QED BY <2>1, <2>2, <2>3
<1>10. NetFrame(f, {})
  <2> HIDE DEF list
  <2> QED BY <1>7, <1>8, <1>9 DEF NetFrame, At
<1>11. FrameHolds(f, {})
  BY <1>1, <1>10, NetKind
<1> HIDE DEF f
<1>12. Goes(f)
  BY <1>1, <1>6, ContinueStack
<1>13. phase' = "look"
  BY <1>12 DEF Goes, Looks
<1> QED BY <1>6, <1>11, <1>12, <1>13, GoesTypes, GoesPath, GoesFrames DEF GoesOn

\* What is not an address is asked for.
LEMMA NetTokenStep ==
  ASSUME Calling, NetToken
  PROVE  GoesOn \/ Ends
<1> USE TopType DEF Calling
<1> DEFINE v == Item.value
           c == At(Top.k + 1, Top.todo, Top.found)
           f == Frame(v, {}, <<>>)
<1>1. /\ query.op = "GetNet" /\ HasItem /\ v \notin NetworkValues /\ Call(c, f)
  BY NextFrame DEF NetToken, Looking
<1>2. /\ Item \in Range(defs["networks"][Top.of]) /\ Item = defs["networks"][Top.of][Top.k]
      /\ Top.k \in DOMAIN defs["networks"][Top.of]
      /\ Top.of \in DOMAIN defs["networks"] /\ Top.of \in Names /\ v \in Values
  BY <1>1, ItemType, NetKind
<1>3. v \in Names => v \in Graph[Top.of]
  BY <1>1, <1>2, NetKind DEF Uses
<1>4. CASE Len(stack) = MaxDepth
  <2>1. Answer("recursion", {})
    BY <1>1, <1>4 DEF Call
  <2> QED BY <1>1, <1>2, <1>4, <2>1, RecursionEnds, NetKind
<1>5. CASE Len(stack) # MaxDepth
  <2>1. /\ c \in Frames /\ f \in Frames /\ c.of = Top.of /\ f.of = v
        /\ c.found = Top.found /\ f.found = <<>> /\ <<>> \in Seq(Entries)
    <3>1. <<>> \in Seq(Entries)
      OBVIOUS
    <3>2. Top.found \in Findings /\ <<>> \in Findings
      BY <1>1, <3>1 DEF Findings
    <3>3. c \in Frames /\ c.of = Top.of /\ c.found = Top.found
      BY <3>2, NextFrame DEF At
    <3>4. f \in Frames /\ f.of = v /\ f.found = <<>>
      BY <1>2, <3>2 DEF Frame, Frames
    <3> QED BY <3>1, <3>3, <3>4
  <2>2. NetFrame(Top, {})
    BY <1>1, TopHolds, NetKind
  <2>3. ASSUME NEW i \in DOMAIN defs["networks"][Top.of], i + 1 < Top.k + 1
        PROVE  Expanded(defs["networks"][Top.of][i], Top.of, Top.found)
    <3>1. i < Top.k
      <4>1. defs["networks"][Top.of] \in Seq(ItemRecords)
        BY <1>2 DEF Looks, NTypes, Defs, Types
      <4>2. i \in Nat
        BY <4>1
      <4> QED BY <2>3, <4>2
    <3> QED BY <1>2, <2>2, <3>1 DEF NetFrame
  <2>4. NetFrame(c, {v})
    <3>1. Top.k + 1 - 1 = Top.k
      OBVIOUS
    <3> HIDE DEF v
    <3>2. /\ {v} \cap NetworkValues = {}
          /\ {v} = {defs["networks"][Top.of][Top.k].value}
      BY <1>1, <1>2 DEF v
    <3>3. /\ Top.of \in Names \cup ServiceValues
          /\ \A x \in Range(Top.found) : \E y \in NetworksIn(Top.of) : Same(x, y)
      BY <2>2 DEF NetFrame
    <3>4. c.of = Top.of /\ c.k = Top.k + 1 /\ c.found = Top.found
      BY <2>1 DEF At
    <3>5. c.k - 1 = Top.k
      BY <3>1, <3>4
    <3> HIDE DEF c
    <3>6. /\ c.of \in DOMAIN defs["networks"]
          /\ c.k - 1 \in DOMAIN defs["networks"][c.of]
          /\ {v} = {defs["networks"][c.of][c.k - 1].value}
      BY <1>2, <3>2, <3>4, <3>5
    <3>7. ASSUME NEW i \in DOMAIN defs["networks"][c.of], i + 1 < c.k
          PROVE  Expanded(defs["networks"][c.of][i], c.of, c.found)
      BY <2>3, <3>4, <3>7
    <3> QED BY <3>2, <3>3, <3>4, <3>6, <3>7 DEF NetFrame
  <2>5. NetFrame(f, {})
    <3>1. v \in Names \cup ServiceValues
      BY <1>1, <1>2 DEF Values
    <3>2. ASSUME v \in DOMAIN defs["networks"], NEW i \in DOMAIN defs["networks"][v]
          PROVE  ~(i < 1)
      <4>1. defs["networks"][v] \in Seq(ItemRecords)
        BY <3>2 DEF Looks, NTypes, Defs, Types
      <4> QED BY <4>1
    <3>3. Range(<<>>) = {}
      BY DEF Range
    <3> HIDE DEF v
    <3> QED BY <3>1, <3>2, <3>3 DEF NetFrame, Frame
  <2>6. FrameHolds(c, {f.of}) /\ FrameHolds(f, {})
    BY <1>1, <2>1, <2>4, <2>5, NetKind
  <2>7. Calls(c, f)
    BY <1>1, <1>5, <2>1, CallStack
  <2> HIDE DEF c, f
  <2>8. Finding(c) /\ Finding(f) /\ phase' = "look"
    BY <1>1, <2>1, <2>7 DEF Finding, Calls, Looks
  <2>9. StackTypes' /\ FramesHold'
    BY <2>1, <2>6, <2>7, <2>8, CallsTypes, CallsFrames
  <2>10. Path'
    BY <1>1, <1>2, <1>3, <2>1, <2>7, CallsPath, NetKind
  <2> QED BY <2>8, <2>9, <2>10 DEF GoesOn
<1> QED BY <1>4, <1>5

\* A call that has been past all items of its name has found all networks that
\* it leads to, and all that it leads to is defined and on no circle.
LEMMA NetIsExpanded ==
  ASSUME Calling, query.op = "GetNet", NoItemLeft
  PROVE  /\ Top.of \in Names /\ Whole(Top.of)
         /\ \A e \in Range(Top.found) : \E x \in NetworksIn(Top.of) : Same(e, x)
         /\ \A x \in NetworksIn(Top.of) : \E e \in Range(Top.found) : Same(e, x)
<1> USE TopType DEF Calling
<1>1. /\ Top.of \in DOMAIN defs["networks"] /\ Top.of \in Names
      /\ Top.k > Len(defs["networks"][Top.of])
      /\ defs["networks"][Top.of] \in Seq(ItemRecords)
  BY NetKind DEF NoItemLeft, Defined, Looks, NTypes, Defs, Types
<1>2. NetFrame(Top, {})
  BY TopHolds, NetKind
<1>3. ASSUME NEW i \in Range(defs["networks"][Top.of])
      PROVE  Expanded(i, Top.of, Top.found)
  <2>1. PICK n \in DOMAIN defs["networks"][Top.of] : i = defs["networks"][Top.of][n]
    BY DEF Range
  <2>2. n < Top.k
    BY <1>1, <2>1
  <2> QED BY <1>1, <1>2, <2>1, <2>2 DEF NetFrame
<1>4. ASSUME NEW v \in Graph[Top.of]
      PROVE  /\ Whole(v)
             /\ \A x \in NetworksIn(v) : \E e \in Range(Top.found) : Same(e, x)
  <2>1. /\ v \in Names /\ v \notin NetworkValues
        /\ \E i \in Range(defs["networks"][Top.of]) : i.value = v
    BY <1>1, NetKind, NamingAssumption DEF Uses
  <2> QED BY <1>3, <2>1 DEF Expanded
<1>5. Whole(Top.of)
  BY <1>1, <1>4, WholeFromParts, NetKind
<1>6. ASSUME NEW x \in NetworksIn(Top.of) PROVE \E e \in Range(Top.found) : Same(e, x)
  <2>1. CASE \E v \in Graph[Top.of] : \E y \in NetworksIn(v) : Same(y, x)
    BY <1>4, <2>1 DEF Same
  <2>2. CASE \E i \in Range(defs["networks"][Top.of]) :
               i.value \in NetworkValues /\ Same(Own(Top.of, i), x)
    BY <1>3, <2>2 DEF Expanded, Same
  <2> QED BY <1>1, <2>1, <2>2, NetworksOfParts, NetKind
<1> QED BY <1>1, <1>2, <1>5, <1>6 DEF NetFrame

\* The list that a call of GetNet returns: the entries it has found, with its
\* own name for their parent.
Relabelled == [k \in DOMAIN Top.found |-> [Top.found[k] EXCEPT !.parent = Top.of]]

LEMMA RelabelledKeeps ==
  ASSUME Looks, query.op = "GetNet", Top.of \in Names
  PROVE  /\ Relabelled \in Seq(Entries)
         /\ \A e \in Range(Relabelled) :
              /\ e = [net |-> e.net, text |-> e.text, token |-> e.token, parent |-> Top.of]
              /\ \E x \in Range(Top.found) : Same(e, x)
         /\ \A x \in Range(Top.found) : \E e \in Range(Relabelled) : Same(e, x)
<1> DEFINE s == Top.found
<1>1. s \in Seq(Entries)
  BY TopType
<1>2. DOMAIN s = 1..Len(s) /\ Len(s) \in Nat
  BY <1>1, LenProperties
<1> HIDE DEF s
<1>3. ASSUME NEW x \in Entries
      PROVE  LET e == [x EXCEPT !.parent = Top.of]
             IN /\ e \in Entries /\ Same(e, x)
                /\ e = [net |-> e.net, text |-> e.text, token |-> e.token, parent |-> Top.of]
  BY DEF Entries, Same
<1>4. /\ DOMAIN Relabelled = DOMAIN s
      /\ \A k \in DOMAIN s : Relabelled[k] = [s[k] EXCEPT !.parent = Top.of]
  BY DEF Relabelled, s
<1>5. \A k \in DOMAIN s : s[k] \in Entries
  BY <1>1
<1>6. \A k \in DOMAIN s :
        /\ Relabelled[k] \in Entries /\ Same(Relabelled[k], s[k])
        /\ Relabelled[k] = [net |-> Relabelled[k].net, text |-> Relabelled[k].text,
                            token |-> Relabelled[k].token, parent |-> Top.of]
  <2> SUFFICES ASSUME NEW k \in DOMAIN s
               PROVE  /\ Relabelled[k] \in Entries /\ Same(Relabelled[k], s[k])
                      /\ Relabelled[k] =
                           [net |-> Relabelled[k].net, text |-> Relabelled[k].text,
                            token |-> Relabelled[k].token, parent |-> Top.of]
    OBVIOUS
  <2>1. Relabelled[k] = [s[k] EXCEPT !.parent = Top.of] /\ s[k] \in Entries
    BY <1>4, <1>5
  <2> QED BY <1>3, <2>1
<1>7. Relabelled = [k \in 1..Len(s) |-> Relabelled[k]]
  BY <1>2 DEF Relabelled, s
<1>8. Relabelled \in Seq(Entries)
  <2> DEFINE r == Relabelled
  <2>1. r = [k \in 1..Len(s) |-> r[k]] /\ \A k \in 1..Len(s) : r[k] \in Entries
    BY <1>2, <1>6, <1>7
  <2> HIDE DEF r, Entries
  <2>2. r \in Seq(Entries)
    BY <1>2, <2>1
  <2> QED BY <2>2 DEF r
<1>9. ASSUME NEW e \in Range(Relabelled)
      PROVE  /\ e = [net |-> e.net, text |-> e.text, token |-> e.token, parent |-> Top.of]
             /\ \E x \in Range(s) : Same(e, x)
  <2>1. PICK k \in DOMAIN s : e = Relabelled[k]
    BY <1>4 DEF Range
  <2> QED BY <1>6, <2>1 DEF Range
<1>10. ASSUME NEW x \in Range(s) PROVE \E e \in Range(Relabelled) : Same(e, x)
  <2>1. PICK k \in DOMAIN s : x = s[k]
    BY DEF Range
  <2> QED BY <1>4, <1>6, <2>1 DEF Range
<1> QED BY <1>8, <1>9, <1>10 DEF s

LEMMA SameEntry ==
  ASSUME NEW p, NEW e, NEW x, Same(e, x),
         e = [net |-> e.net, text |-> e.text, token |-> e.token, parent |-> p],
         x = [net |-> x.net, text |-> x.text, token |-> x.token, parent |-> p]
  PROVE  e = x
<1> DEFINE net == x.net
           text == x.text
           token == x.token
<1>1. e.net = net /\ e.text = text /\ e.token = token
  BY DEF Same
<1>2. x = [net |-> net, text |-> text, token |-> token, parent |-> p]
  OBVIOUS
<1> HIDE DEF net, text, token
<1>3. e = [net |-> net, text |-> text, token |-> token, parent |-> p]
  BY <1>1
<1> QED BY <1>2, <1>3

\* The answer to a question for a name has its networks and no others; a call
\* that another one made hands them over.
LEMMA NetReturnStep ==
  ASSUME Calling, NetReturn
  PROVE  GoesOn \/ Ends
<1> USE TopType DEF Calling
<1>1. query.op = "GetNet" /\ NoItemLeft
  BY DEF NetReturn, Looking
<1>2. /\ Top.of \in Names /\ Whole(Top.of)
      /\ \A e \in Range(Top.found) : \E x \in NetworksIn(Top.of) : Same(e, x)
      /\ \A x \in NetworksIn(Top.of) : \E e \in Range(Top.found) : Same(e, x)
  BY <1>1, NetIsExpanded
<1>3. /\ Relabelled \in Seq(Entries)
      /\ \A e \in Range(Relabelled) :
           e = [net |-> e.net, text |-> e.text, token |-> e.token, parent |-> Top.of]
      /\ \A e \in Range(Relabelled) : \E x \in NetworksIn(Top.of) : Same(e, x)
      /\ \A x \in NetworksIn(Top.of) : \E e \in Range(Relabelled) : Same(e, x)
  <2>1. /\ Relabelled \in Seq(Entries)
        /\ \A e \in Range(Relabelled) :
             /\ e = [net |-> e.net, text |-> e.text, token |-> e.token, parent |-> Top.of]
             /\ \E x \in Range(Top.found) : Same(e, x)
        /\ \A x \in Range(Top.found) : \E e \in Range(Relabelled) : Same(e, x)
    BY <1>1, <1>2, RelabelledKeeps
  <2>2. \A x, y, z : Same(x, y) /\ Same(y, z) => Same(x, z)
    BY DEF Same
  <2>3. \A x, y : Same(x, y) => Same(y, x)
    BY DEF Same
  <2>4. ASSUME NEW e \in Range(Relabelled) PROVE \E x \in NetworksIn(Top.of) : Same(e, x)
    <3>1. PICK y \in Range(Top.found) : Same(e, y)
      BY <2>1
    <3> QED BY <1>2, <2>2, <3>1
  <2>5. ASSUME NEW x \in NetworksIn(Top.of) PROVE \E e \in Range(Relabelled) : Same(e, x)
    <3>1. PICK y \in Range(Top.found) : Same(y, x)
      BY <1>2
    <3> QED BY <2>1, <2>2, <3>1
  <2> QED BY <2>1, <2>4, <2>5
<1>4. CASE Len(stack) = 1
  <2>1. Answer("found", Relabelled)
    BY <1>4 DEF NetReturn, Relabelled
  <2>2. /\ UNCHANGED <<defs, query>> /\ phase' = "answered"
        /\ answer'.kind = "found" /\ answer'.value = Relabelled
    BY <2>1 DEF Answer, reading
  <2>3. Top.of = query.of
    BY <1>4 DEF Looks, StackTypes
  <2>4. \A x \in NetworksIn(Top.of) :
          x = [net |-> x.net, text |-> x.text, token |-> x.token, parent |-> Top.of]
    BY <1>2, NetworksOfParts
  <2>6. ASSUME NEW e \in Range(Relabelled) PROVE e \in NetworksIn(Top.of)
    <3>1. PICK x \in NetworksIn(Top.of) : Same(e, x)
      BY <1>3
    <3>2. e = x
      BY <1>3, <2>4, <3>1, SameEntry
    <3> QED BY <3>2
  <2>7. ASSUME NEW x \in NetworksIn(Top.of) PROVE x \in Range(Relabelled)
    <3>1. PICK e \in Range(Relabelled) : Same(e, x)
      BY <1>3
    <3>2. e = x
      BY <1>3, <2>4, <3>1, SameEntry
    <3> QED BY <3>2
  <2>8. Range(Relabelled) = NetworksIn(Top.of)
    BY <2>6, <2>7
  <2> QED BY <1>1, <1>2, <2>2, <2>3, <2>8, LookupEnds, NetKind
<1>5. CASE Len(stack) # 1
  <2> DEFINE caller == stack[Len(stack) - 1]
             list == caller.found \o Relabelled
             c == [caller EXCEPT !.found = @ \o Relabelled]
  <2>1. Len(stack) > 1
    BY <1>5
  <2>2. /\ caller \in Frames /\ Called(Len(stack) - 1) = {Top.of}
        /\ caller.found \in Seq(Entries) /\ Len(stack) - 1 \in DOMAIN stack
    BY <1>1, <2>1, CallerType DEF Finding
  <2>3. NetFrame(caller, {Top.of})
    BY <1>1, <2>2, NetKind DEF FramesHold, Looks
  <2>4. /\ stack' = Append(SubSeq(stack, 1, Len(stack) - 2), c)
        /\ UNCHANGED <<phase, defs, query>>
    BY <1>5 DEF NetReturn, Relabelled, reading
  <2> HIDE DEF caller
  <2>5. list \in Seq(Entries) /\ list \in Findings
    <3>1. list \in Seq(Entries)
      <4> HIDE DEF Entries
      <4> QED BY <1>3, <2>2, ConcatProperties
    <3> HIDE DEF list
    <3> QED BY <3>1 DEF Findings
  <2>6. /\ c \in Frames /\ c.of = caller.of /\ c.k = caller.k /\ c.found = list
    <3> HIDE DEF list
    <3>1. c = [caller EXCEPT !.found = list]
      BY DEF list
    <3> HIDE DEF c
    <3> QED BY <2>2, <2>5, <3>1 DEF Frames
  <2>7. \A x : x \in Range(list) <=> x \in Range(caller.found) \/ x \in Range(Relabelled)
    BY <1>3, <2>2, RangeOfConcat
  <2> HIDE DEF c, list
  <2>8. /\ caller.of \in DOMAIN defs["networks"] /\ caller.of \in Names
        /\ caller.k - 1 \in DOMAIN defs["networks"][caller.of]
        /\ Top.of = defs["networks"][caller.of][caller.k - 1].value
        /\ Top.of \notin NetworkValues
        /\ defs["networks"][caller.of] \in Seq(ItemRecords)
        /\ caller.k \in Nat \ {0}
    <3>1. /\ caller.of \in DOMAIN defs["networks"]
          /\ caller.k - 1 \in DOMAIN defs["networks"][caller.of]
          /\ {Top.of} = {defs["networks"][caller.of][caller.k - 1].value}
          /\ {Top.of} \cap NetworkValues = {}
      BY <2>3 DEF NetFrame
    <3>2. caller.of \in Names /\ defs["networks"][caller.of] \in Seq(ItemRecords)
      BY <3>1 DEF Looks, NTypes, Defs, Types
    <3>3. caller.k \in Nat \ {0}
      BY <2>2 DEF Frames
    <3> QED BY <3>1, <3>2, <3>3
  <2>9. Top.of \in Graph[caller.of]
    BY <1>1, <1>2, <2>8, NetKind DEF Uses, Range
  <2>10. \A x \in NetworksIn(Top.of) : \E y \in NetworksIn(caller.of) : Same(x, y)
    BY <1>1, <2>8, <2>9, NetworksOfParts, NetKind
  <2>11. ASSUME NEW e \in Range(list) PROVE \E y \in NetworksIn(caller.of) : Same(e, y)
    <3>1. CASE e \in Range(caller.found)
      BY <2>3, <3>1 DEF NetFrame
    <3>2. CASE e \in Range(Relabelled)
      <4>1. PICK x \in NetworksIn(Top.of) : Same(e, x)
        BY <1>3, <3>2
      <4>2. PICK y \in NetworksIn(caller.of) : Same(x, y)
        BY <2>10
      <4> QED BY <4>1, <4>2 DEF Same
    <3> QED BY <2>7, <3>1, <3>2
  <2>12. ASSUME NEW i \in DOMAIN defs["networks"][caller.of], i < caller.k
         PROVE  Expanded(defs["networks"][caller.of][i], caller.of, list)
    <3>1. i + 1 < caller.k \/ i = caller.k - 1
      <4>1. i \in Nat
        BY <2>8
      <4> QED BY <2>8, <2>12, <4>1
    <3>2. CASE i + 1 < caller.k
      <4>1. Expanded(defs["networks"][caller.of][i], caller.of, caller.found)
        BY <2>3, <2>8, <2>12, <3>2 DEF NetFrame
      <4>2. Range(caller.found) \subseteq Range(list)
        BY <2>7
      <4> QED BY <4>1, <4>2, LongerIsExpanded
    <3>3. CASE i = caller.k - 1
      BY <1>2, <1>3, <2>7, <2>8, <3>3 DEF Expanded
    <3> QED BY <3>1, <3>2, <3>3
  <2>13. NetFrame(c, {})
    <3>1. c.of \in Names \cup ServiceValues
      BY <2>6, <2>8
    <3> QED BY <2>6, <2>11, <2>12, <3>1 DEF NetFrame
  <2>14. Returns(c)
    BY <2>1, <2>4, <2>6, ReturnStack
  <2>15. FrameHolds(c, {}) /\ Finding(c) /\ phase' = "look"
    BY <1>1, <2>4, <2>5, <2>6, <2>13, NetKind DEF Finding, Looks
  <2>16. c.of = stack[Len(stack) - 1].of
    BY <2>6 DEF caller
  <2> QED
    BY <2>1, <2>14, <2>15, <2>16, ReturnsTypes, ReturnsPath, ReturnsFrames DEF GoesOn
<1> QED BY <1>4, <1>5

-----------------------------------------------------------------------------
(* GetServiceParents, GetNetParents, GetIpParents *)

LEMMA ParentKind ==
  ASSUME Looks, query.op \in Parents
  PROVE  /\ query.op \notin Lookups /\ query.op \notin Services /\ query.op # "GetNet"
         /\ query.op # "GetServiceByProto"
         /\ \A f, c : FrameHolds(f, c) <=> ParentFrame(f, c)
<1>1. /\ query.op \notin Lookups /\ query.op \notin Services /\ query.op # "GetNet"
      /\ query.op # "GetServiceByProto"
  BY DEF Services, Lookups, Parents
<1> QED BY <1>1 DEF FrameHolds

LEMMA InIsReflexive ==
  ASSUME NEW n \in Networks
  PROVE  In(n, n)
<1>1. PICK v \in Versions :
        n \in UNION {{[version |-> v, first |-> i * 2 ^ k, size |-> 2 ^ k] :
                        i \in 0..(2 ^ (Bits[v] - k) - 1)} : k \in 0..Bits[v]}
  BY DEF Networks
<1>2. PICK k \in 0..Bits[v] :
        \E i \in 0..(2 ^ (Bits[v] - k) - 1) :
          n = [version |-> v, first |-> i * 2 ^ k, size |-> 2 ^ k]
  BY <1>1
<1>3. 2 ^ k \in Int
  BY BitsAssumption
<1>4. n.first \in Int /\ n.size \in Int
  <2>1. PICK i \in 0..(2 ^ (Bits[v] - k) - 1) :
          n = [version |-> v, first |-> i * 2 ^ k, size |-> 2 ^ k]
    BY <1>2
  <2>2. i \in Int
    OBVIOUS
  <2> DEFINE s == 2 ^ k
  <2>3. s \in Int /\ n = [version |-> v, first |-> i * s, size |-> s]
    BY <1>3, <2>1
  <2> HIDE DEF s
  <2>4. i * s \in Int
    BY <2>2, <2>3
  <2> QED BY <2>3, <2>4
<1> QED BY <1>4 DEF In

\* The definitions that list a name or value are found, all of them where none
\* is overlooked.
LEMMA BaseParentsAreListed ==
  ASSUME NTypes, NEW op, NEW v
  PROVE  /\ BaseParents(op, v) \subseteq Listed(op, v)
         /\ Listed(op, v) \subseteq Names /\ Exact(op, v) \subseteq Listed(op, v)
         /\ \/ \E n \in DOMAIN defs[Group(op)] : \E i \in Range(defs[Group(op)][n]) :
                 i.comment # NONE \/ i.value \in LetterFirst
            \/ v \in LetterFirst
            \/ Listed(op, v) \subseteq BaseParents(op, v)
         /\ v \in Names =>
              \/ \E n \in DOMAIN defs[Group(op)] : \E i \in Range(defs[Group(op)][n]) :
                   i.comment # NONE \/ i.value \in LetterFirst
              \/ Listed(op, v) \subseteq Exact(op, v)
<1> DEFINE D == defs[Group(op)]
           overlooked == \E n \in DOMAIN D : \E i \in Range(D[n]) :
                           i.comment # NONE \/ i.value \in LetterFirst
<1>1. Group(op) \in Types /\ DOMAIN D \subseteq Names
  BY DEF Group, Types, NTypes, Defs
<1>2. op = "GetIpParents" => D = defs["networks"]
  BY DEF Group
<1>3. Exact(op, v) \subseteq Listed(op, v)
  BY DEF Exact, Listed
<1>4. Listed(op, v) \subseteq Names
  BY <1>1 DEF Listed
<1>5. BaseParents(op, v) \subseteq Listed(op, v)
  <2>1. op = "GetIpParents" => Within(v) \subseteq Listed(op, v)
    BY <1>2 DEF Within, Listed
  <2> QED BY <1>3, <2>1 DEF BaseParents
<1>6. ASSUME v \notin NetworkValues \/ op # "GetIpParents", ~overlooked
      PROVE  Listed(op, v) \subseteq Exact(op, v)
  BY <1>6 DEF Listed, Exact
<1>7. ASSUME op = "GetIpParents", ~overlooked, v \notin LetterFirst
      PROVE  Listed(op, v) \subseteq Within(v)
  <2>1. v \in NetworkValues => In(NetworkOf[v], NetworkOf[v])
    BY NamingAssumption, InIsReflexive
  <2> SUFFICES ASSUME NEW n \in Listed(op, v) PROVE n \in Within(v)
    OBVIOUS
  <2>2. n \in DOMAIN defs["networks"]
    BY <1>2, <1>7 DEF Listed
  <2>3. PICK i \in Range(defs["networks"][n]) :
          \/ i.value = v
          \/ {i.value, v} \subseteq NetworkValues /\ In(NetworkOf[v], NetworkOf[i.value])
    BY <1>2, <1>7 DEF Listed
  <2>4. i.value \notin LetterFirst
    BY <1>2, <1>7, <2>2
  <2> QED BY <1>7, <2>1, <2>2, <2>3, <2>4 DEF Within
<1>8. overlooked \/ v \in LetterFirst \/ Listed(op, v) \subseteq BaseParents(op, v)
  BY <1>6, <1>7 DEF BaseParents
<1>9. v \in Names => overlooked \/ Listed(op, v) \subseteq Exact(op, v)
  BY <1>6, NamingAssumption
<1> QED BY <1>3, <1>4, <1>5, <1>8, <1>9

LEMMA AncestorsHold ==
  ASSUME NTypes
  PROVE  /\ Ancestors \subseteq Names
         /\ Listed(query.op, query.of) \subseteq Ancestors
         /\ \A m \in Ancestors : Listed(query.op, m) \subseteq Ancestors
         /\ \A c \in SUBSET Names :
              Listed(query.op, query.of) \subseteq c
                /\ (\A m \in c : Listed(query.op, m) \subseteq c)
              => Ancestors \subseteq c
<1> DEFINE edges == [n \in Names |-> Listed(query.op, n)]
           first == Listed(query.op, query.of)
<1>1. \A n \in Names : edges[n] \subseteq Names /\ edges[n] = Listed(query.op, n)
  BY BaseParentsAreListed
<1>2. first \subseteq Names
  BY BaseParentsAreListed
<1>3. Ancestors = Reachable(first, edges)
  BY DEF Ancestors
<1> HIDE DEF edges
<1>4. Ancestors \subseteq Names /\ first \subseteq Ancestors
  <2> HIDE DEF first
  <2> QED BY <1>2, <1>3, ReachableHolds
<1>5. ASSUME NEW m \in Ancestors PROVE Listed(query.op, m) \subseteq Ancestors
  <2> HIDE DEF first
  <2>1. edges[m] \subseteq Ancestors
    BY <1>1, <1>3, ReachableIsClosed
  <2> QED BY <1>1, <1>4, <2>1
<1>6. ASSUME NEW c \in SUBSET Names, first \subseteq c,
             \A m \in c : Listed(query.op, m) \subseteq c
      PROVE  Ancestors \subseteq c
  <2> HIDE DEF first
  <2>1. \A m \in c : edges[m] \subseteq c
    BY <1>1, <1>6
  <2> QED BY <1>3, <1>6, <2>1, ReachableIsLeast
<1> QED BY <1>4, <1>5, <1>6

\* A parent is followed upwards unless this has been done or nothing lists it.
LEMMA ParentStep ==
  ASSUME Calling, Parent
  PROVE  GoesOn \/ Ends
<1> USE TopType DEF Calling
<1>1. query.op \in Parents /\ query \in Queries
  BY DEF Parent, Looking, Looks, StackTypes
<1>2. PICK bp \in Top.todo :
        LET f == [Top EXCEPT !.todo = @ \ {bp}, !.found = @ \cup {bp}]
        IN IF bp \notin Top.found /\ Exact(query.op, bp) # {}
           THEN Call(f, Frame(bp, BaseParents(query.op, bp), {}))
           ELSE Continue(f)
  BY Zenon DEF Parent
<1> DEFINE todo == Top.todo \ {bp}
           found == Top.found \cup {bp}
           f == At(Top.k, todo, found)
           g == Frame(bp, BaseParents(query.op, bp), {})
<1>3. IF bp \notin Top.found /\ Exact(query.op, bp) # {} THEN Call(f, g) ELSE Continue(f)
  <2> DEFINE h == [Top EXCEPT !.todo = todo, !.found = found]
  <2>1. h = f
    <3> HIDE DEF todo, found
    <3> QED BY NextFrame
  <2>2. IF bp \notin Top.found /\ Exact(query.op, bp) # {} THEN Call(h, g) ELSE Continue(h)
    BY <1>2, Zenon
  <2> HIDE DEF f, g, h
  <2> QED BY <2>1, <2>2
<1>4. /\ bp \in Names /\ Top.found \subseteq Values /\ found \subseteq Values
      /\ found \in Findings /\ todo \subseteq Names
      /\ found \cup todo = Top.found \cup Top.todo
  <2>1. bp \in Names /\ Top.found \subseteq Values
    BY <1>1, ParentKind
  <2>2. found \subseteq Values
    BY <2>1 DEF Values
  <2> QED BY <2>1, <2>2 DEF Findings
<1>5. f \in Frames /\ f.of = Top.of /\ f.found = found /\ f.todo = todo /\ Finding(f)
  <2> HIDE DEF todo, found
  <2> QED BY <1>1, <1>4, NextFrame, ParentKind DEF At, Finding
<1>6. ParentFrame(Top, {})
  BY <1>1, TopHolds, ParentKind
<1>7. bp \in Ancestors
  BY <1>6 DEF ParentFrame
<1>8. NoneOverlooked =>
        /\ Listed(query.op, bp) \subseteq BaseParents(query.op, bp)
        /\ Listed(query.op, bp) \subseteq Exact(query.op, bp)
  <2>1. bp \notin LetterFirst
    BY <1>4, NamingAssumption
  <2> QED BY <1>4, <2>1, BaseParentsAreListed DEF NoneOverlooked, Looks
<1>9. ASSUME NEW called, called \subseteq found, bp \notin Top.found => \/ called = {bp}
                                                              \/ Exact(query.op, bp) = {}
      PROVE  ParentFrame(f, called)
  <2>1. found \cup todo \subseteq Ancestors
    BY <1>4, <1>6 DEF ParentFrame
  <2>2. ASSUME NoneOverlooked
        PROVE  /\ Listed(query.op, Top.of) \subseteq found \cup todo
               /\ \A m \in found \ called : Listed(query.op, m) \subseteq found \cup todo
    <3>1. /\ Listed(query.op, Top.of) \subseteq found \cup todo
          /\ \A m \in Top.found : Listed(query.op, m) \subseteq found \cup todo
      BY <1>4, <1>6, <2>2 DEF ParentFrame
    <3>2. bp \notin called /\ bp \notin Top.found => Listed(query.op, bp) = {}
      BY <1>8, <1>9, <2>2
    <3> QED BY <3>1, <3>2
  <2> HIDE DEF f, todo, found
  <2> QED BY <1>5, <1>9, <2>1, <2>2 DEF ParentFrame
<1>10. CASE ~(bp \notin Top.found /\ Exact(query.op, bp) # {})
  <2>1. ParentFrame(f, {})
    <3> HIDE DEF f
    <3> QED BY <1>9, <1>10
  <2> HIDE DEF f
  <2>2. FrameHolds(f, {})
    BY <1>1, <2>1, ParentKind
  <2>3. Goes(f)
    BY <1>3, <1>5, <1>10, ContinueStack
  <2>4. phase' = "look"
    BY <2>3 DEF Goes, Looks
  <2> QED BY <1>5, <2>2, <2>3, <2>4, GoesTypes, GoesPath, GoesFrames DEF GoesOn
<1>11. CASE bp \notin Top.found /\ Exact(query.op, bp) # {} /\ Len(stack) = MaxDepth
  <2>1. Answer("recursion", {})
    BY <1>3, <1>11 DEF Call
  <2>2. /\ UNCHANGED <<defs, query>> /\ phase' = "answered"
        /\ answer'.kind = "recursion"
    BY <2>1 DEF Answer, reading
  <2>3. ParentsAreAncestors' /\ StackTypes'
    BY <1>1, <2>2, ParentKind DEF ParentsAreAncestors, StackTypes
  <2> QED BY <1>1, <2>2, <2>3, ParentKind DEF Ends
<1>12. CASE bp \notin Top.found /\ Exact(query.op, bp) # {} /\ Len(stack) # MaxDepth
  <2>1. /\ BaseParents(query.op, bp) \subseteq Listed(query.op, bp)
        /\ Listed(query.op, bp) \subseteq Names
    BY BaseParentsAreListed DEF Looks
  <2>2. g \in Frames /\ g.of = bp /\ Finding(g)
    <3>1. {} \in Findings /\ bp \in Values
      BY <1>4 DEF Findings, Values
    <3> QED BY <1>1, <2>1, <3>1, ParentKind DEF Frame, Frames, Finding
  <2>3. ParentFrame(g, {})
    <3>1. Listed(query.op, bp) \subseteq Ancestors
      BY <1>7, AncestorsHold DEF Looks
    <3> QED BY <1>8, <2>1, <3>1 DEF ParentFrame, Frame
  <2>4. ParentFrame(f, {bp})
    <3> HIDE DEF f
    <3> QED BY <1>9
  <2>5. Call(f, g)
    BY <1>3, <1>12
  <2> HIDE DEF f, g
  <2>6. FrameHolds(f, {g.of}) /\ FrameHolds(g, {})
    BY <1>1, <2>2, <2>3, <2>4, ParentKind
  <2>7. Calls(f, g)
    BY <1>5, <1>12, <2>2, <2>5, CallStack
  <2>8. phase' = "look" /\ query' = query
    BY <2>7 DEF Calls, Looks
  <2>9. StackTypes' /\ FramesHold'
    BY <1>5, <2>2, <2>6, <2>7, CallsTypes, CallsFrames
  <2>10. Path'
    BY <1>1, <2>8, ParentKind DEF Path
  <2> QED BY <2>8, <2>9, <2>10 DEF GoesOn
<1> QED BY <1>10, <1>11, <1>12

\* What a lookup of parents returns has no parents of its own that are missing.
LEMMA ParentsReturnStep ==
  ASSUME Calling, ParentsReturn
  PROVE  GoesOn \/ Ends
<1> USE TopType DEF Calling
<1>1. query.op \in Parents /\ query \in Queries /\ Top.todo = {} /\ ReturnSet
  BY DEF ParentsReturn, Looking, Looks, StackTypes
<1>2. ParentFrame(Top, {})
  BY <1>1, TopHolds, ParentKind
<1>3. /\ Top.found \subseteq Ancestors
      /\ NoneOverlooked =>
           /\ Listed(query.op, Top.of) \subseteq Top.found
           /\ \A m \in Top.found : Listed(query.op, m) \subseteq Top.found
  BY <1>1, <1>2 DEF ParentFrame
<1>4. CASE Len(stack) = 1
  <2>1. Answer("found", Top.found)
    BY <1>1, <1>4, ParentKind DEF ReturnSet, OfProtocol
  <2>2. /\ UNCHANGED <<defs, query>> /\ phase' = "answered"
        /\ answer'.kind = "found" /\ answer'.value = Top.found
    BY <2>1 DEF Answer, reading
  <2>3. Top.of = query.of
    BY <1>4 DEF Looks, StackTypes
  <2>4. Top.found \in SUBSET Names
    BY <1>3, AncestorsHold DEF Looks
  <2>5. NoneOverlooked => Top.found = Ancestors
    BY <1>3, <2>3, <2>4, AncestorsHold DEF Looks
  <2>6. Ancestors' = Ancestors /\ NoneOverlooked' = NoneOverlooked
    BY <2>2, SameGraph
  <2>7. ParentsAreAncestors'
    BY <1>3, <2>2, <2>5, <2>6 DEF ParentsAreAncestors
  <2>8. StackTypes'
    BY <1>1, <2>2, ParentKind DEF StackTypes
  <2> QED BY <1>1, <2>2, <2>7, <2>8, ParentKind DEF Ends
<1>5. CASE Len(stack) # 1
  <2> DEFINE caller == stack[Len(stack) - 1]
             c == [caller EXCEPT !.found = @ \cup Top.found]
  <2>1. Len(stack) > 1
    BY <1>5
  <2>2. /\ caller \in Frames /\ Called(Len(stack) - 1) = {Top.of} /\ Finding(caller)
        /\ Len(stack) - 1 \in DOMAIN stack
    BY <2>1, CallerType
  <2>3. ParentFrame(caller, {Top.of})
    BY <1>1, <2>2, ParentKind DEF FramesHold, Looks
  <2>4. /\ stack' = Append(SubSeq(stack, 1, Len(stack) - 2), c)
        /\ UNCHANGED <<phase, defs, query>>
    BY <1>1, <1>5 DEF ReturnSet, reading
  <2> HIDE DEF caller
  <2>5. /\ c \in Frames /\ c.of = caller.of /\ c.k = caller.k /\ c.todo = caller.todo
        /\ c.found = caller.found \cup Top.found /\ c.found \subseteq Values
    <3>1. caller.found \cup Top.found \subseteq Values
      BY <1>1, <2>2, ParentKind DEF Finding
    <3>2. caller.found \cup Top.found \in Findings
      BY <3>1 DEF Findings
    <3> QED BY <2>2, <3>1, <3>2 DEF Frames
  <2> HIDE DEF c
  <2>6. ParentFrame(c, {})
    <3>1. c.found \cup c.todo \subseteq Ancestors
      BY <1>3, <2>3, <2>5 DEF ParentFrame
    <3>2. ASSUME NoneOverlooked
          PROVE  /\ Listed(query.op, c.of) \subseteq c.found \cup c.todo
                 /\ \A m \in c.found : Listed(query.op, m) \subseteq c.found \cup c.todo
      BY <1>3, <2>3, <2>5, <3>2 DEF ParentFrame
    <3> QED BY <3>1, <3>2 DEF ParentFrame
  <2>7. Returns(c)
    BY <2>1, <2>4, <2>5, ReturnStack
  <2>8. FrameHolds(c, {}) /\ Finding(c) /\ phase' = "look"
    BY <1>1, <2>4, <2>5, <2>6, ParentKind DEF Finding, Looks
  <2>9. c.of = stack[Len(stack) - 1].of
    BY <2>5 DEF caller
  <2> QED
    BY <2>1, <2>7, <2>8, <2>9, ReturnsTypes, ReturnsPath, ReturnsFrames DEF GoesOn
<1> QED BY <1>4, <1>5

-----------------------------------------------------------------------------
(* Questions *)

\* A lookup begins with one call, that has found nothing.
FirstCall ==
  Frame(query.of, IF query.op \in Parents THEN BaseParents(query.op, query.of) ELSE {},
        IF query.op = "GetNet" THEN <<>> ELSE {})

FirstHolds == FirstCall \in Frames /\ FrameHolds(FirstCall, {}) /\ Finding(FirstCall)

LEMMA FirstCallHolds ==
  ASSUME NTypes, query \in Queries
  PROVE  FirstHolds
<1> DEFINE todo == IF query.op \in Parents THEN BaseParents(query.op, query.of) ELSE {}
           found == IF query.op = "GetNet" THEN <<>> ELSE {}
           f == Frame(query.of, todo, found)
<1>1. /\ query.of \in Values
      /\ query.op \in Lookups => query.of \in Names
      /\ query.op \in Lookups \cup Parents
  BY NamingAssumption DEF Lookups, Services, Parents, Values
<1>2. /\ BaseParents(query.op, query.of) \subseteq Listed(query.op, query.of)
      /\ Listed(query.op, query.of) \subseteq Names
  BY BaseParentsAreListed
<1>3. /\ todo \subseteq Names /\ found \in Findings
      /\ query.op = "GetNet" => found = <<>> /\ found \in Seq(Entries)
      /\ query.op # "GetNet" => found = {}
  <2>1. <<>> \in Seq(Entries)
    OBVIOUS
  <2> QED BY <1>2, <2>1 DEF Findings
<1>4. f \in Frames /\ f.of = query.of /\ f.k = 1 /\ f.todo = todo /\ f.found = found
  <2> HIDE DEF todo, found
  <2> QED BY <1>1, <1>3 DEF Frame, Frames
<1>5. ASSUME NEW t \in Types, NEW n \in DOMAIN defs[t], NEW i \in DOMAIN defs[t][n]
      PROVE  ~(i < 1)
  <2>1. defs[t][n] \in Seq(ItemRecords)
    BY DEF NTypes, Defs
  <2> QED BY <2>1
<1>6. ASSUME query.op \in Services PROVE FrameHolds(f, {})
  <2>1. todo = {} /\ found = {} /\ query.of \in Names
    BY <1>1, <1>3, <1>6, ServiceKind
  <2>2. \A i \in DOMAIN defs["services"][query.of] :
          query.of \in DOMAIN defs["services"] => ~(i < 1)
    BY <1>5 DEF Types
  <2> HIDE DEF f, todo, found
  <2>3. ServiceFrame(f, {})
    BY <1>4, <2>1, <2>2 DEF ServiceFrame
  <2> QED BY <1>6, <2>3, ServiceKind
<1>7. ASSUME query.op = "GetNet" PROVE FrameHolds(f, {})
  <2>1. found = <<>> /\ query.of \in Names
    BY <1>1, <1>3, <1>7, NetKind
  <2>2. \A i \in DOMAIN defs["networks"][query.of] :
          query.of \in DOMAIN defs["networks"] => ~(i < 1)
    BY <1>5 DEF Types
  <2>3. Range(<<>>) = {}
    BY DEF Range
  <2> HIDE DEF f, todo, found
  <2>4. NetFrame(f, {})
    BY <1>4, <2>1, <2>2, <2>3 DEF NetFrame
  <2> QED BY <1>7, <2>4, NetKind
<1>8. ASSUME query.op \in Parents PROVE FrameHolds(f, {})
  <2>1. /\ query.op # "GetNet" /\ query.op \notin Services
        /\ todo = BaseParents(query.op, query.of) /\ found = {}
    BY <1>8 DEF Parents, Services
  <2> HIDE DEF f, todo, found
  <2>2. Listed(query.op, query.of) \subseteq Ancestors
    BY AncestorsHold
  <2>3. NoneOverlooked => Listed(query.op, query.of) \subseteq todo
    BY <2>1, BaseParentsAreListed DEF NoneOverlooked
  <2>4. ParentFrame(f, {})
    BY <1>2, <1>4, <2>1, <2>2, <2>3 DEF ParentFrame
  <2> QED BY <2>1, <2>4 DEF FrameHolds
<1>9. FrameHolds(f, {})
  BY <1>1, <1>6, <1>7, <1>8 DEF Lookups
<1>10. Finding(f)
  <2> HIDE DEF f, todo, found
  <2> QED BY <1>3, <1>4 DEF Finding
<1> QED BY <1>4, <1>9, <1>10 DEF FirstHolds, FirstCall

LEMMA FirstCallHoldsNext == NTypes' /\ (query \in Queries)' => FirstHolds'
<1>1. NTypes /\ query \in Queries => FirstHolds
  BY FirstCallHolds
<1> QED BY <1>1, PTL

LEMMA AskStep ==
  ASSUME NTypes, NTypes', Ask
  PROVE  GoesOn
<1> DEFINE f == FirstCall'
<1>1. query' \in Queries /\ phase' = "look" /\ stack' = <<f>>
  BY DEF Ask, FirstCall, reading, BaseParents, Within, Exact
<1>2. f \in Frames /\ FrameHolds(FirstCall, {})' /\ Finding(FirstCall)'
  BY <1>1, FirstCallHoldsNext DEF FirstHolds
<1>3. f.of = query'.of
  BY DEF FirstCall, Frame
<1> HIDE DEF f
<1>4. /\ stack' \in Seq(Frames) /\ stack' # <<>> /\ Len(stack') = 1 /\ DOMAIN stack' = {1}
      /\ stack'[1] = f
  <2> HIDE DEF Frames
  <2> QED BY <1>1, <1>2
<1>5. StackTypes'
  BY <1>1, <1>2, <1>3, <1>4 DEF StackTypes, Finding, f
<1>6. Path'
  BY <1>1, <1>4 DEF Path
<1>7. FramesHold'
  <2>1. Called(1)' = {}
    BY <1>4 DEF Called
  <2> QED BY <1>2, <1>4, <2>1 DEF FramesHold, f
<1> QED BY <1>1, <1>5, <1>6, <1>7 DEF GoesOn

LEMMA LookupStep ==
  ASSUME NTypes, NTypes', LookupInv, [Next]_vars
  PROVE  LookupInv'
<1>1. GoesOn => LookupInv'
  BY DEF GoesOn, LookupInv, LookupIsExact, ParentsAreAncestors
<1>2. Ends => LookupInv'
  BY DEF Ends, LookupInv, LookupIsExact, ParentsAreAncestors, Path, FramesHold, Lookups
<1>3. ASSUME phase' \in {"read", "list", "ready", "failed"} PROVE LookupInv'
  BY <1>3 DEF LookupInv, StackTypes, Path, FramesHold, LookupIsExact, ParentsAreAncestors
<1>4. ASSUME NEW op \in Lookups \cup Parents, phase = "look" PROVE Calling
  BY <1>4 DEF Calling, Looks, LookupInv
<1>5. CASE NoFiles \/ OpenFile \/ CheckUnseen \/ ParseList \/ ListDone \/ ParseLine \/ Collision
  <2>1. phase' \in {"read", "list", "ready", "failed"}
    BY <1>5 DEF NoFiles, OpenFile, CheckUnseen, ParseList, ListDone, ParseLine, Collision, Fail,
                NTypes
  <2> QED BY <1>3, <2>1
<1>6. CASE Ask
  BY <1>1, <1>6, AskStep
<1>7. CASE AskUnreadable
  <2>1. /\ phase' = "answered" /\ answer'.kind = "unreadable" /\ query' \in Queries
        /\ query'.op = "GetIpParents"
    BY <1>7 DEF AskUnreadable, Unreadable
  <2>2. query'.op \notin Lookups
    BY <2>1 DEF Lookups, Services
  <2> QED
    BY <2>1, <2>2 DEF LookupInv, StackTypes, Path, FramesHold, LookupIsExact,
                      ParentsAreAncestors, Lookups
<1>8. CASE Undefined
  BY <1>2, <1>8, UndefinedEnds DEF Undefined, Looking, Calling, Looks, LookupInv
<1>9. CASE ServiceValue \/ ServiceDone
  BY <1>1, <1>9, ServiceGoesOn
     DEF ServiceValue, ServiceDone, Looking, Calling, Looks, LookupInv
<1>10. CASE ServiceToken
  BY <1>1, <1>2, <1>10, ServiceTokenStep DEF ServiceToken, Looking, Calling, Looks, LookupInv
<1>11. CASE ServiceReturn
  BY <1>1, <1>2, <1>11, ServiceReturnStep DEF ServiceReturn, Looking, Calling, Looks, LookupInv
<1>12. CASE NetAddress
  BY <1>1, <1>12, NetAddressStep DEF NetAddress, Looking, Calling, Looks, LookupInv
<1>13. CASE NetToken
  BY <1>1, <1>2, <1>13, NetTokenStep DEF NetToken, Looking, Calling, Looks, LookupInv
<1>14. CASE NetReturn
  BY <1>1, <1>2, <1>14, NetReturnStep DEF NetReturn, Looking, Calling, Looks, LookupInv
<1>15. CASE Parent
  BY <1>1, <1>2, <1>15, ParentStep DEF Parent, Looking, Calling, Looks, LookupInv
<1>16. CASE ParentsReturn
  BY <1>1, <1>2, <1>16, ParentsReturnStep DEF ParentsReturn, Looking, Calling, Looks, LookupInv
<1>17. CASE UNCHANGED vars
  <2>1. UNCHANGED <<defs, query>> /\ stack' = stack /\ phase' = phase /\ answer' = answer
    BY <1>17 DEF vars
  <2>2. StackTypes' /\ Path'
    BY <2>1, SameGraph DEF LookupInv, StackTypes, Path
  <2>3. FramesHold'
    <3> SUFFICES ASSUME phase = "look", NEW j \in DOMAIN stack
                 PROVE  FrameHolds(stack[j], Called(j))'
      BY <2>1 DEF FramesHold
    <3>1. Called(j)' = Called(j) /\ stack'[j] = stack[j]
      BY <2>1 DEF Called
    <3> QED BY <2>1, <3>1, KeptFrame DEF Looks, LookupInv
  <2>4. LookupIsExact'
    <3>1. Uses(Group(query.op))' = Uses(Group(query.op))
      BY <2>1 DEF Uses
    <3>2. \A n : OnCycle(n, Uses(Group(query.op)))' <=> OnCycle(n, Uses(Group(query.op)))
      BY <3>1 DEF OnCycle
    <3>3. /\ ServicesIn(query.of)' = ServicesIn(query.of)
          /\ NetworksIn(query.of)' = NetworksIn(query.of)
      BY <2>1 DEF ServicesIn, NetworksIn, Uses
    <3>4. \A s : OfProtocol(s)' = OfProtocol(s)
      BY <2>1 DEF OfProtocol
    <3>5. LookupIsExact
      BY DEF LookupInv
    <3> QED BY <2>1, <3>1, <3>2, <3>3, <3>4, <3>5 DEF LookupIsExact
  <2>5. ParentsAreAncestors'
    BY <2>1, SameGraph DEF LookupInv, ParentsAreAncestors
  <2> QED BY <2>2, <2>3, <2>4, <2>5 DEF LookupInv
<1> QED
  BY <1>5, <1>6, <1>7, <1>8, <1>9, <1>10, <1>11, <1>12, <1>13, <1>14, <1>15, <1>16, <1>17
     DEF Next, Ended

-----------------------------------------------------------------------------
(* Flattened lists *)

\* A set of numbers has a least one.
LEMMA LeastNumber ==
  ASSUME NEW S, S \subseteq Nat, S # {}
  PROVE  \E least \in S : \A n \in S : least <= n
<1> DEFINE Less == OpToRel(<, Nat)
<1>1. PICK least \in S : \A n \in S : <<n, least>> \notin Less
  <2> HIDE DEF Less
  <2>1. IsWellFoundedOn(Less, Nat)
    BY NatLessThanWellFounded DEF Less
  <2> QED
    BY <2>1, WFMin
<1>2. \A pair \in Nat \X Nat : pair[1] < pair[2] => pair \in Less
  BY Zenon DEF OpToRel
<1> HIDE DEF Less
<1>3. \A n \in S : least <= n
  <2> SUFFICES ASSUME NEW n \in S PROVE ~(n < least)
    OBVIOUS
  <2> QED
    BY <1>1, <1>2, <<n, least>> \in Nat \X Nat
<1> QED
  BY <1>3

\* Induction, for a set of numbers.
LEMMA AllNumbers ==
  ASSUME NEW S, 0 \in S, \A n \in Nat : n \in S => n + 1 \in S
  PROVE  Nat \subseteq S
<1> SUFFICES ASSUME Nat \ S # {} PROVE FALSE
  OBVIOUS
<1>1. PICK least \in Nat \ S : \A n \in Nat \ S : least <= n
  BY LeastNumber
<1>2. least # 0 /\ least - 1 \in Nat
  BY <1>1
<1>3. least - 1 \in S
  BY <1>1, <1>2
<1> QED
  BY <1>1, <1>2, <1>3

\* What FlattenSeq's function is, up to a place.
Flattens(joined, ls, n) ==
  joined = [i \in 1..n |-> IF i = 1 THEN ls[i] ELSE joined[i - 1] \o ls[i]]

LEMMA FlattensIs ==
  ASSUME NEW joined, NEW ls, NEW n, Flattens(joined, ls, n)
  PROVE  \A i \in 1..n : joined[i] = IF i = 1 THEN ls[i] ELSE joined[i - 1] \o ls[i]
BY Zenon DEF Flattens

LEMMA SomeFlattens ==
  ASSUME NEW ls, NEW n \in Nat
  PROVE  \E joined : Flattens(joined, ls, n)
<1> DEFINE some == {m \in Nat : \E joined : Flattens(joined, ls, m)}
<1>1. 0 \in some
  <2>1. Flattens([i \in 1..0 |-> {}], ls, 0)
    BY DEF Flattens
  <2> QED
    BY <2>1
<1>2. ASSUME NEW m \in Nat, m \in some PROVE m + 1 \in some
  <2>1. PICK joined : Flattens(joined, ls, m)
    BY <1>2
  <2> DEFINE more == [i \in 1..(m + 1) |->
                        IF i = m + 1
                        THEN IF i = 1 THEN ls[i] ELSE joined[i - 1] \o ls[i]
                        ELSE joined[i]]
  <2>2. \A i \in 1..m : joined[i] = IF i = 1 THEN ls[i] ELSE joined[i - 1] \o ls[i]
    BY <2>1, FlattensIs
  <2>3. \A i \in 1..m : more[i] = joined[i]
    OBVIOUS
  <2>4. \A i \in 1..(m + 1) : more[i] = IF i = 1 THEN ls[i] ELSE more[i - 1] \o ls[i]
    <3> SUFFICES ASSUME NEW i \in 1..(m + 1)
                 PROVE  more[i] = IF i = 1 THEN ls[i] ELSE more[i - 1] \o ls[i]
      OBVIOUS
    <3>1. i # 1 => more[i - 1] = joined[i - 1]
      BY <2>3
    <3>2. CASE i = m + 1
      BY <3>1, <3>2
    <3>3. CASE i # m + 1
      <4>1. i \in 1..m
        BY <3>3
      <4> QED
        BY <2>2, <3>1, <3>3, <4>1
    <3> QED
      BY <3>2, <3>3
  <2>5. more = [i \in 1..(m + 1) |-> more[i]]
    OBVIOUS
  <2> HIDE DEF more
  <2>6. Flattens(more, ls, m + 1)
    BY <2>4, <2>5, Zenon DEF Flattens
  <2> QED
    BY <2>6
<1> HIDE DEF some
<1>3. n \in some
  BY <1>1, <1>2, AllNumbers
<1> QED
  BY <1>3 DEF some

LEMMA FlattenIsLast ==
  ASSUME NEW S, NEW ls \in Seq(Seq(S)), ls # <<>>
  PROVE  \E joined : Flattens(joined, ls, Len(ls)) /\ FlattenSeq(ls) = joined[Len(ls)]
<1> DEFINE joined == CHOOSE f : Flattens(f, ls, Len(ls))
<1>1. Len(ls) \in Nat /\ Len(ls) # 0
  OBVIOUS
<1>2. FlattenSeq(ls) = joined[Len(ls)]
  BY <1>1 DEF FlattenSeq, Flattens
<1>3. Flattens(joined, ls, Len(ls))
  BY <1>1, SomeFlattens
<1> QED
  BY <1>2, <1>3

\* Flattening one list, and one more.
LEMMA FlattenOne ==
  ASSUME NEW S, NEW s \in Seq(S)
  PROVE  FlattenSeq(<<s>>) = s
<1>1. <<s>> \in Seq(Seq(S)) /\ Len(<<s>>) = 1 /\ <<s>> # <<>> /\ <<s>>[1] = s
  OBVIOUS
<1>2. PICK joined : Flattens(joined, <<s>>, 1) /\ FlattenSeq(<<s>>) = joined[1]
  BY <1>1, FlattenIsLast
<1> QED
  BY <1>1, <1>2, FlattensIs

LEMMA FlattenMore ==
  ASSUME NEW S, NEW ls \in Seq(Seq(S)), ls # <<>>, NEW more \in Seq(Seq(S)),
         Len(more) = Len(ls) + 1, \A i \in 1..Len(ls) : more[i] = ls[i]
  PROVE  FlattenSeq(more) = FlattenSeq(ls) \o more[Len(more)]
<1> DEFINE N == Len(ls)
<1>1. N \in Nat /\ N # 0 /\ more # <<>>
  OBVIOUS
<1>2. PICK f : Flattens(f, ls, N) /\ FlattenSeq(ls) = f[N]
  BY FlattenIsLast
<1>3. PICK g : Flattens(g, more, N + 1) /\ FlattenSeq(more) = g[N + 1]
  BY <1>1, FlattenIsLast
<1> HIDE DEF N
<1>4. \A i \in 1..N : f[i] = IF i = 1 THEN ls[i] ELSE f[i - 1] \o ls[i]
  BY <1>2, FlattensIs
<1>5. \A i \in 1..(N + 1) : g[i] = IF i = 1 THEN more[i] ELSE g[i - 1] \o more[i]
  BY <1>3, FlattensIs
<1> DEFINE same == {n \in Nat : n \in 1..N => g[n] = f[n]}
<1>6. 0 \in same
  OBVIOUS
<1>7. ASSUME NEW n \in Nat, n \in same PROVE n + 1 \in same
  <2> SUFFICES ASSUME n + 1 \in 1..N PROVE g[n + 1] = f[n + 1]
    OBVIOUS
  <2>1. n + 1 \in 1..(N + 1) /\ (n + 1) - 1 = n /\ more[n + 1] = ls[n + 1]
    BY <1>1 DEF N
  <2>2. CASE n = 0
    BY <1>4, <1>5, <2>1, <2>2
  <2>3. CASE n # 0
    <3>1. n \in 1..N /\ n + 1 # 1
      BY <1>1, <2>3
    <3>2. g[n] = f[n]
      BY <1>7, <3>1
    <3>3. g[n + 1] = g[n] \o more[n + 1]
      BY <1>5, <2>1, <3>1
    <3>4. f[n + 1] = f[n] \o ls[n + 1]
      BY <1>4, <2>1, <3>1
    <3> QED
      BY <2>1, <3>2, <3>3, <3>4
  <2> QED
    BY <2>2, <2>3
<1> HIDE DEF same
<1>8. N \in same
  BY <1>1, <1>6, <1>7, AllNumbers
<1>9. N \in 1..N /\ N + 1 \in 1..(N + 1) /\ N + 1 # 1 /\ (N + 1) - 1 = N /\ Len(more) = N + 1
  BY <1>1 DEF N
<1>10. g[N] = f[N]
  BY <1>8, <1>9 DEF same
<1> QED
  BY <1>2, <1>3, <1>5, <1>9, <1>10

-----------------------------------------------------------------------------
(* What is written in a file *)

LEMMA MinIs ==
  ASSUME NEW S, S \subseteq Nat, NEW n \in S, \A x \in S : n <= x
  PROVE  Min(S) = n
<1> DEFINE least == CHOOSE x \in S : \A y \in S : x =< y
<1>1. \E x \in S : \A y \in S : x =< y
  OBVIOUS
<1>2. least \in S /\ \A x \in S : least <= x
  BY <1>1, Zenon
<1>3. Min(S) = least
  BY Zenon DEF Min
<1> HIDE DEF least
<1>4. least \in Nat /\ n \in Nat /\ least <= n /\ n <= least
  BY <1>2
<1> QED
  BY <1>3, <1>4

LEMMA WrittenIs ==
  ASSUME NEW f \in Seq(Lines), NEW i \in 1..Len(f), NEW m \in i..Len(f),
         OneDefinition(f, i, m), m < Len(f) => f[m + 1].symbol # NONE,
         \A j \in 1..Len(f) : f[j].symbol = f[i].symbol => j = i
  PROVE  Written(f, f[i].symbol) = Block(f, i, m)
<1> DEFINE n == f[i].symbol
           N == Len(f)
           first == SelectInSeq(f, LAMBDA l : l.symbol = n)
           rest == SubSeq(f, first + 1, Len(f))
           next == SelectInSeq(rest, LAMBDA l : l.symbol # NONE)
           own == <<f[first]>> \o (IF next = 0 THEN rest ELSE SubSeq(rest, 1, next - 1))
<1>1. N \in Nat /\ i \in 1..N /\ m \in i..N /\ \A k \in 1..N : f[k] \in Lines
  OBVIOUS
<1>2. Written(f, n) = FlattenSeq([k \in DOMAIN own |-> Items(own[k])])
  BY Zenon DEF Written
<1>3. first = i
  <2> DEFINE I == {k \in 1..N : f[k].symbol = n}
  <2>1. i \in I /\ I \subseteq Nat /\ \A x \in I : i <= x
    BY <1>1
  <2>2. first = IF I # {} THEN Min(I) ELSE 0
    BY DEF SelectInSeq
  <2> HIDE DEF I
  <2> QED
    BY <2>1, <2>2, MinIs
<1>4. rest \in Seq(Lines) /\ Len(rest) = N - i /\ \A k \in 1..(N - i) : rest[k] = f[i + k]
  <2> HIDE DEF first
  <2>1. rest = SubSeq(f, i + 1, N)
    BY <1>3
  <2> HIDE DEF rest
  <2> QED
    BY <1>1, <2>1
<1> HIDE DEF first, rest
<1>5. next = IF m = N THEN 0 ELSE m - i + 1
  <2> DEFINE I == {k \in 1..Len(rest) : rest[k].symbol # NONE}
  <2>1. next = IF I # {} THEN Min(I) ELSE 0
    BY DEF SelectInSeq
  <2>2. \A k \in 1..(N - i) : k <= m - i => rest[k].symbol = NONE
    BY <1>1, <1>4 DEF OneDefinition
  <2>3. CASE m = N
    BY <1>1, <1>4, <2>1, <2>2, <2>3
  <2>4. CASE m # N
    <3>1. m - i + 1 \in 1..(N - i) /\ i + (m - i + 1) = m + 1 /\ m < N
      BY <1>1, <2>4
    <3>2. m - i + 1 \in I
      <4>1. rest[m - i + 1] = f[m + 1]
        BY <1>4, <3>1
      <4>2. f[m + 1].symbol # NONE
        BY <1>1, <3>1
      <4> QED
        BY <1>4, <3>1, <4>1, <4>2
    <3>3. I \subseteq Nat /\ m - i + 1 \in Nat
      BY <3>1
    <3>4. \A x \in I : m - i + 1 <= x
      <4> SUFFICES ASSUME NEW x \in I PROVE m - i + 1 <= x
        OBVIOUS
      <4>1. x \in 1..(N - i) /\ rest[x].symbol # NONE
        BY <1>4
      <4>2. ~(x <= m - i)
        BY <2>2, <4>1
      <4> QED
        BY <1>1, <4>1, <4>2
    <3> HIDE DEF I
    <3> QED
      BY <2>1, <2>4, <3>2, <3>3, <3>4, MinIs
  <2> QED
    BY <2>3, <2>4
<1> HIDE DEF next
<1>6. Len(own) = m - i + 1 /\ DOMAIN own = 1..(m - i + 1) /\ \A k \in 1..(m - i + 1) : own[k] = f[i + k - 1]
  <2> DEFINE tail == IF next = 0 THEN rest ELSE SubSeq(rest, 1, next - 1)
  <2>1. tail \in Seq(Lines) /\ Len(tail) = m - i /\ \A k \in 1..(m - i) : tail[k] = f[i + k]
    <3>1. CASE m = N
      BY <1>1, <1>4, <1>5, <3>1
    <3>2. CASE m # N
      <4>1. next = m - i + 1 /\ tail = SubSeq(rest, 1, m - i) /\ m - i \in 0..(N - i) /\ N - i \in Nat
        BY <1>1, <1>5, <3>2
      <4> HIDE DEF tail
      <4> QED
        BY <1>4, <4>1
    <3> QED
      BY <3>1, <3>2
  <2>2. own = <<f[i]>> \o tail
    BY <1>3
  <2> HIDE DEF tail, own
  <2>3. f[i] \in Lines /\ <<f[i]>> \in Seq(Lines) /\ Len(<<f[i]>>) = 1 /\ <<f[i]>>[1] = f[i]
    BY <1>1
  <2>4. own \in Seq(Lines) /\ Len(own) = m - i + 1
    <3>1. own \in Seq(Lines) /\ Len(own) = Len(<<f[i]>>) + Len(tail)
      BY <2>1, <2>2, <2>3
    <3> QED
      BY <1>1, <2>1, <2>3, <3>1
  <2>5. own[1] = f[i] /\ \A k \in 1..(m - i) : own[k + 1] = tail[k]
    BY <1>1, <2>1, <2>2, <2>3
  <2>6. ASSUME NEW k \in 1..(m - i + 1) PROVE own[k] = f[i + k - 1]
    <3>1. CASE k = 1
      BY <1>1, <2>5, <3>1
    <3>2. CASE k # 1
      <4>1. k - 1 \in 1..(m - i) /\ (k - 1) + 1 = k /\ i + (k - 1) = i + k - 1
        BY <1>1, <3>2
      <4> QED
        BY <2>1, <2>5, <4>1
    <3> QED
      BY <3>1, <3>2
  <2> QED
    BY <2>4, <2>6
<1> HIDE DEF own
<1>7. [k \in DOMAIN own |-> Items(own[k])] = [k \in 1..(m - i + 1) |-> Items(f[i + k - 1])]
  BY <1>6
<1> QED
  BY <1>2, <1>7 DEF Block

\* Where a definition of a file ends.
LEMMA SomeEnd ==
  ASSUME NEW f \in Seq(Lines), NEW i \in 1..Len(f), f[i].symbol # NONE
  PROVE  \E m \in i..Len(f) : OneDefinition(f, i, m) /\ (m < Len(f) => f[m + 1].symbol # NONE)
<1> DEFINE N == Len(f)
           I == {k \in (i + 1)..N : f[k].symbol # NONE}
<1>1. N \in Nat /\ i \in 1..N
  OBVIOUS
<1>2. CASE I = {}
  <2>1. N \in i..N /\ OneDefinition(f, i, N)
    BY <1>1, <1>2 DEF OneDefinition
  <2> QED
    BY <2>1
<1>3. CASE I # {}
  <2>1. PICK k \in I : \A x \in I : k <= x
    <3>1. I \subseteq Nat
      BY <1>1
    <3> HIDE DEF I
    <3> QED
      BY <1>3, <3>1, LeastNumber
  <2>2. k - 1 \in i..N /\ OneDefinition(f, i, k - 1) /\ (k - 1) + 1 = k
    BY <1>1, <2>1 DEF OneDefinition
  <2> QED
    BY <2>1, <2>2
<1> QED
  BY <1>2, <1>3

\* A file that is in the definitions is there as it is written.
LEMMA FileIsWhole ==
  ASSUME NEW f \in Seq(Lines), NEW t, ReadTo(f, Len(f), t)
  PROVE  \A n \in Symbols(f) : n \in DOMAIN defs[t] /\ defs[t][n] = Written(f, n)
<1> SUFFICES ASSUME NEW n \in Symbols(f)
             PROVE  n \in DOMAIN defs[t] /\ defs[t][n] = Written(f, n)
  OBVIOUS
<1>1. PICK i \in 1..Len(f) : f[i].symbol = n /\ n # NONE
  BY DEF Symbols
<1>2. PICK m \in i..Len(f) : OneDefinition(f, i, m) /\ (m < Len(f) => f[m + 1].symbol # NONE)
  BY <1>1, SomeEnd
<1>3. defs[t][n] = Block(f, i, m)
  BY <1>1, <1>2 DEF ReadTo
<1>4. \A j \in 1..Len(f) : f[j].symbol = f[i].symbol => j = i
  BY <1>1 DEF ReadTo
<1>5. Written(f, n) = Block(f, i, m)
  BY <1>1, <1>2, <1>4, WrittenIs
<1>6. n \in DOMAIN defs[t]
  BY <1>1 DEF ReadTo, Named
<1> QED
  BY <1>3, <1>5, <1>6

\* A definition begins with the items of its line, and goes on with the next.
LEMMA BlockBegins ==
  ASSUME NEW f \in Seq(Lines), NEW i \in 1..Len(f)
  PROVE  Block(f, i, i) = Items(f[i])
<1>1. f[i] \in Lines /\ i - i + 1 = 1 /\ i + 1 - 1 = i
  OBVIOUS
<1>2. Items(f[i]) \in Seq(ItemRecords)
  BY <1>1, ItemsType
<1>3. [k \in 1..(i - i + 1) |-> Items(f[i + k - 1])] = <<Items(f[i])>>
  <2>1. 1..1 = {1}
    OBVIOUS
  <2>2. [k \in 1..1 |-> Items(f[i + k - 1])] = [k \in 1..1 |-> Items(f[i])]
    BY <1>1, <2>1
  <2>3. [k \in 1..1 |-> Items(f[i])] = <<Items(f[i])>>
    OBVIOUS
  <2> QED
    BY <1>1, <2>2, <2>3
<1> QED
  BY <1>2, <1>3, FlattenOne DEF Block

LEMMA BlockGrows ==
  ASSUME NEW f \in Seq(Lines), NEW i \in 1..Len(f), NEW m \in i..Len(f), m < Len(f)
  PROVE  Block(f, i, m + 1) = Block(f, i, m) \o Items(f[m + 1])
<1> DEFINE ls == [k \in 1..(m - i + 1) |-> Items(f[i + k - 1])]
           more == [k \in 1..((m + 1) - i + 1) |-> Items(f[i + k - 1])]
           N == m - i + 1
<1>1. /\ i \in Nat /\ m \in Nat /\ i <= m /\ m + 1 <= Len(f) /\ 1 <= i
      /\ N \in Nat /\ N >= 1 /\ (m + 1) - i + 1 = N + 1 /\ i + (N + 1) - 1 = m + 1
  OBVIOUS
<1>2. \A k \in 1..(N + 1) : Items(f[i + k - 1]) \in Seq(ItemRecords)
  <2> SUFFICES ASSUME NEW k \in 1..(N + 1) PROVE Items(f[i + k - 1]) \in Seq(ItemRecords)
    OBVIOUS
  <2>1. i + k - 1 \in 1..Len(f)
    BY <1>1
  <2>2. f[i + k - 1] \in Lines
    BY <2>1
  <2> QED
    BY <2>2, ItemsType
<1>3. ls = [k \in 1..N |-> Items(f[i + k - 1])] /\ more = [k \in 1..(N + 1) |-> Items(f[i + k - 1])]
  BY <1>1
<1>4. more[N + 1] = Items(f[m + 1])
  BY <1>1
<1> HIDE DEF ls, more, N
<1>5. ls \in Seq(Seq(ItemRecords)) /\ Len(ls) = N /\ ls # <<>>
  <2>1. ASSUME NEW k \in 1..N PROVE Items(f[i + k - 1]) \in Seq(ItemRecords)
    <3>1. k \in 1..(N + 1)
      BY <1>1
    <3> QED
      BY <1>2, <3>1
  <2>2. ls \in [1..N -> Seq(ItemRecords)]
    BY <1>3, <2>1
  <2>3. ls \in Seq(Seq(ItemRecords)) /\ Len(ls) = N
    BY <1>1, <2>2
  <2> QED
    BY <1>1, <2>3
<1>6. more \in Seq(Seq(ItemRecords)) /\ Len(more) = N + 1
  BY <1>1, <1>2, <1>3
<1>7. \A k \in 1..Len(ls) : more[k] = ls[k]
  BY <1>1, <1>3, <1>5
<1>8. FlattenSeq(more) = FlattenSeq(ls) \o more[N + 1]
  BY <1>5, <1>6, <1>7, FlattenMore
<1> QED
  BY <1>4, <1>8 DEF Block, ls, more

-----------------------------------------------------------------------------
(* A line more *)

LEMMA NamedNames ==
  ASSUME NEW f, NEW n, NEW i \in 1..n, f[i].symbol # NONE
  PROVE  f[i].symbol \in Named(f, n)
BY DEF Named

\* What a line does not add to stays.
LEMMA ReadToStays ==
  ASSUME NEW t, NEW f, NEW n, ReadTo(f, n, t),
         \A m \in Named(f, n) : m \in DOMAIN defs'[t] /\ defs'[t][m] = defs[t][m]
  PROVE  ReadTo(f, n, t)'
<1>1. Named(f, n) \subseteq DOMAIN defs'[t]
  OBVIOUS
<1>2. \A i, j \in 1..n : f[i].symbol # NONE /\ f[i].symbol = f[j].symbol => i = j
  BY DEF ReadTo
<1>3. ASSUME NEW i \in 1..n, NEW m \in i..n,
             OneDefinition(f, i, m), m < n => f[m + 1].symbol # NONE
      PROVE  defs'[t][f[i].symbol] = Block(f, i, m)
  <2>1. defs[t][f[i].symbol] = Block(f, i, m)
    BY <1>3 DEF ReadTo
  <2>2. f[i].symbol \in Named(f, n)
    BY <1>3, NamedNames DEF OneDefinition
  <2> QED
    BY <2>1, <2>2
<1> QED
  BY <1>1, <1>2, <1>3 DEF ReadTo

LEMMA NamedMore ==
  ASSUME NEW f, NEW n \in Nat
  PROVE  Named(f, n + 1) = Named(f, n) \cup ({f[n + 1].symbol} \ {NONE})
<1>1. \A i : i \in 1..(n + 1) <=> i \in 1..n \/ i = n + 1
  OBVIOUS
<1> QED
  BY <1>1, Zenon DEF Named

\* The line begins a definition.
LEMMA DefinitionRead ==
  ASSUME NEW t, NEW f \in Seq(Lines), NEW n \in Nat, n < Len(f), ReadTo(f, n, t),
         f[n + 1].symbol # NONE, f[n + 1].symbol \notin DOMAIN defs[t],
         DOMAIN defs'[t] = DOMAIN defs[t] \cup {f[n + 1].symbol},
         \A m \in DOMAIN defs[t] : defs'[t][m] = defs[t][m],
         defs'[t][f[n + 1].symbol] = Items(f[n + 1])
  PROVE  ReadTo(f, n + 1, t)'
<1>1. Named(f, n) \subseteq DOMAIN defs[t]
  BY DEF ReadTo
<1>2. Named(f, n + 1) \subseteq DOMAIN defs'[t]
  BY <1>1, NamedMore
<1>3. ASSUME NEW i \in 1..(n + 1), NEW j \in 1..(n + 1),
             f[i].symbol # NONE, f[i].symbol = f[j].symbol
      PROVE  i = j
  <2>1. \A k \in 1..n : f[k].symbol # NONE => f[k].symbol # f[n + 1].symbol
    BY <1>1, NamedNames
  <2>2. CASE i \in 1..n /\ j \in 1..n
    BY <1>3, <2>2 DEF ReadTo
  <2> QED
    BY <1>3, <2>1, <2>2
<1>4. ASSUME NEW i \in 1..(n + 1), NEW m \in i..(n + 1),
             OneDefinition(f, i, m), m < n + 1 => f[m + 1].symbol # NONE
      PROVE  defs'[t][f[i].symbol] = Block(f, i, m)
  <2>1. CASE i = n + 1
    <3>1. m = n + 1 /\ n + 1 \in 1..Len(f)
      BY <2>1
    <3> QED
      BY <2>1, <3>1, BlockBegins
  <2>2. CASE i # n + 1
    <3>1. i \in 1..n /\ m # n + 1
      BY <1>4, <2>2 DEF OneDefinition
    <3>2. m \in i..n /\ (m < n => f[m + 1].symbol # NONE)
      BY <1>4, <3>1
    <3>3. defs[t][f[i].symbol] = Block(f, i, m)
      BY <1>4, <3>1, <3>2 DEF ReadTo
    <3>4. f[i].symbol \in DOMAIN defs[t]
      BY <1>1, <1>4, <3>1, NamedNames DEF OneDefinition
    <3> QED
      BY <3>3, <3>4
  <2> QED
    BY <2>1, <2>2
<1> QED
  BY <1>2, <1>3, <1>4 DEF ReadTo

\* The line goes on with the definition above it.
LEMMA ValuesRead ==
  ASSUME NEW t, NEW f \in Seq(Lines), NEW n \in Nat, n < Len(f), ReadTo(f, n, t),
         f[n + 1].symbol = NONE, NEW i \in 1..n, OneDefinition(f, i, n),
         DOMAIN defs'[t] = DOMAIN defs[t],
         \A m \in DOMAIN defs[t] : m # f[i].symbol => defs'[t][m] = defs[t][m],
         defs'[t][f[i].symbol] = defs[t][f[i].symbol] \o Items(f[n + 1])
  PROVE  ReadTo(f, n + 1, t)'
<1>1. Named(f, n) \subseteq DOMAIN defs[t]
  BY DEF ReadTo
<1>2. Named(f, n + 1) \subseteq DOMAIN defs'[t]
  BY <1>1, NamedMore
<1>3. ASSUME NEW j \in 1..(n + 1), NEW k \in 1..(n + 1),
             f[j].symbol # NONE, f[j].symbol = f[k].symbol
      PROVE  j = k
  <2>1. j # n + 1 /\ k # n + 1
    BY <1>3
  <2>2. j \in 1..n /\ k \in 1..n
    BY <2>1
  <2> QED
    BY <1>3, <2>2 DEF ReadTo
<1>4. ASSUME NEW j \in 1..(n + 1), NEW m \in j..(n + 1),
             OneDefinition(f, j, m), m < n + 1 => f[m + 1].symbol # NONE
      PROVE  defs'[t][f[j].symbol] = Block(f, j, m)
  <2>1. j # n + 1 /\ f[j].symbol # NONE
    BY <1>4 DEF OneDefinition
  <2>2. j \in 1..n
    BY <2>1
  <2>3. f[i].symbol # NONE /\ \A k \in (i + 1)..n : f[k].symbol = NONE
    BY DEF OneDefinition
  <2>4. CASE m = n + 1
    <3>1. \A k \in (j + 1)..n : f[k].symbol = NONE
      BY <1>4, <2>2, <2>4 DEF OneDefinition
    <3>2. i = j
      <4>1. ~(i < j)
        BY <2>1, <2>2, <2>3
      <4>2. ~(j < i)
        BY <2>2, <2>3, <3>1
      <4> QED
        BY <2>2, <4>1, <4>2
    <3>3. defs[t][f[i].symbol] = Block(f, i, n)
      <4>1. n \in i..n /\ (n < n => f[n + 1].symbol # NONE)
        OBVIOUS
      <4> QED
        BY <4>1 DEF ReadTo
    <3>4. Block(f, i, n + 1) = Block(f, i, n) \o Items(f[n + 1])
      <4>1. i \in 1..Len(f) /\ n \in i..Len(f)
        OBVIOUS
      <4> QED
        BY <4>1, BlockGrows
    <3> QED
      BY <2>4, <3>2, <3>3, <3>4
  <2>5. CASE m # n + 1
    <3>1. m \in j..n /\ f[m + 1].symbol # NONE
      BY <1>4, <2>2, <2>5
    <3>2. m < n
      BY <3>1
    <3>3. defs[t][f[j].symbol] = Block(f, j, m)
      BY <1>4, <2>2, <3>1 DEF ReadTo
    <3>4. i # j
      <4>1. m + 1 \in (j + 1)..n
        BY <2>2, <3>1, <3>2
      <4> QED
        BY <2>3, <3>1, <4>1
    <3>5. f[j].symbol # f[i].symbol
      BY <2>1, <2>2, <3>4 DEF ReadTo
    <3>6. f[j].symbol \in DOMAIN defs[t]
      BY <1>1, <2>1, <2>2, NamedNames
    <3> QED
      BY <3>3, <3>5, <3>6
  <2> QED
    BY <2>4, <2>5
<1> QED
  BY <1>2, <1>3, <1>4 DEF ReadTo

LEMMA ReadToAll ==
  ASSUME NEW f \in Seq(Lines)
  PROVE  Named(f, Len(f)) = Symbols(f)
BY DEF Named, Symbols

\* Where reading is, for the open file: what Halfway says of the next place,
\* whether it is the end of the file or not.
LineIsRead(t, done, f, n) ==
  /\ Len(lines) = Len(f) - n
  /\ \A j \in 1..Len(lines) : lines[j] = f[n + j]
  /\ DOMAIN defs[t] = NamesIn(done) \cup Named(f, n)
  /\ AllIn(done, t)
  /\ NamesIn(done) \cap Named(f, n) = {}
  /\ ReadTo(f, n, t)
  /\ \E i \in 1..n :
       OneDefinition(f, i, n) /\ unit = [type |-> t, name |-> f[i].symbol]

LEMMA LineRead ==
  ASSUME NTypes, ParseLine, NEW t \in Types, type = t, NEW f \in Seq(Lines), NEW n,
         NEW done, \A g \in done : g \in Seq(Lines), done = Done(f),
         Starts(f), Halfway(f, n)
  PROVE  LineIsRead(t, done, f, n + 1)'
<1>1. PICK line \in Lines : Adds(line)
  BY LineEffect
<1>2. /\ n \in Nat /\ n < Len(f) /\ n + 1 \in 1..Len(f) /\ Len(f) \in Nat
      /\ lines \in Seq(Lines) /\ lines # <<>> /\ lines[1] = f[n + 1] /\ line = f[n + 1]
  <2>1. /\ n \in Nat /\ n < Len(f) /\ Len(lines) = Len(f) - n /\ lines \in Seq(Lines)
        /\ \A j \in 1..Len(lines) : lines[j] = f[n + j]
    BY DEF Halfway, NTypes
  <2>2. 1 \in 1..Len(lines) /\ lines # <<>>
    BY <2>1
  <2>3. Head(lines) = lines[1]
    BY <2>1, <2>2
  <2> QED
    BY <1>1, <2>1, <2>2, <2>3 DEF Adds
<1>3. /\ Len(lines') = Len(f) - (n + 1)
      /\ \A j \in 1..Len(lines') : lines'[j] = f[n + 1 + j]
  <2>1. lines' = Tail(lines) /\ Len(lines) = Len(f) - n /\ \A j \in 1..Len(lines) : lines[j] = f[n + j]
    BY <1>1 DEF Adds, Halfway
  <2>2. Len(lines') = Len(lines) - 1 /\ \A j \in 1..(Len(lines) - 1) : lines'[j] = lines[j + 1]
    BY <1>2, <2>1
  <2> SUFFICES ASSUME NEW j \in 1..Len(lines') PROVE lines'[j] = f[n + 1 + j]
    BY <1>2, <2>1, <2>2
  <2>3. j + 1 \in 1..Len(lines) /\ n + (j + 1) = n + 1 + j /\ j \in 1..(Len(lines) - 1)
    BY <1>2, <2>1, <2>2
  <2> QED
    BY <2>1, <2>2, <2>3
<1>4. /\ DOMAIN defs[t] = NamesIn(done) \cup Named(f, n) /\ AllIn(done, t)
      /\ NamesIn(done) \cap Named(f, n) = {} /\ ReadTo(f, n, t)
  BY DEF Halfway
<1>5. ASSUME \A m \in NamesIn(done) : m \in DOMAIN defs'[t] /\ defs'[t][m] = defs[t][m]
      PROVE  AllIn(done, t)'
  <2> SUFFICES ASSUME NEW g \in done PROVE ReadTo(g, Len(g), t)'
    BY DEF AllIn
  <2>1. ReadTo(g, Len(g), t)
    BY <1>4 DEF AllIn
  <2>2. Named(g, Len(g)) \subseteq NamesIn(done)
    BY ReadToAll DEF NamesIn
  <2> QED
    BY <1>5, <2>1, <2>2, ReadToStays
<1>6. Named(f, n + 1) = Named(f, n) \cup ({f[n + 1].symbol} \ {NONE})
  BY <1>2, NamedMore
<1>7. f[n + 1].symbol \notin DOMAIN defs[t]
  BY <1>1, <1>2 DEF Adds, ParseLine
<1>8. CASE f[n + 1].symbol # NONE
  <2>1. /\ unit' = [type |-> t, name |-> f[n + 1].symbol] /\ unit' # NONE
    <3>1. f[n + 1].symbol \in Names
      BY <1>2, <1>8 DEF Lines
    <3> QED
      BY <1>1, <1>2, <1>8, <3>1, NamingAssumption DEF Adds
  <2>2. DOMAIN defs'[t] = DOMAIN defs[t] \cup {f[n + 1].symbol}
    BY <1>1, <1>2, <1>8, <2>1 DEF Adds
  <2>3. \A m \in DOMAIN defs[t] : defs'[t][m] = defs[t][m]
    BY <1>1, <1>7, <2>1, <2>2 DEF Adds
  <2>4. defs'[t][f[n + 1].symbol] = Items(f[n + 1])
    <3>1. PICK old \in Seq(ItemRecords) :
            /\ line.symbol # NONE => old = <<>>
            /\ defs'[unit'.type][unit'.name] = old \o Items(line)
      BY <1>1, <2>1 DEF Adds
    <3>2. Items(line) \in Seq(ItemRecords)
      BY ItemsType
    <3>3. <<>> \o Items(line) = Items(line)
      BY <3>2
    <3>4. old = <<>> /\ unit'.type = t /\ unit'.name = f[n + 1].symbol
      BY <1>2, <1>8, <2>1, <3>1
    <3> QED
      BY <1>2, <3>1, <3>3, <3>4
  <2>5. ReadTo(f, n + 1, t)'
    BY <1>2, <1>4, <1>7, <1>8, <2>2, <2>3, <2>4, DefinitionRead
  <2>6. AllIn(done, t)'
    BY <1>4, <1>5, <2>2, <2>3
  <2>7. /\ DOMAIN defs'[t] = NamesIn(done) \cup Named(f, n + 1)
        /\ NamesIn(done) \cap Named(f, n + 1) = {}
    BY <1>4, <1>6, <1>7, <1>8, <2>2
  <2>8. OneDefinition(f, n + 1, n + 1) /\ n + 1 \in 1..(n + 1)
    BY <1>2, <1>8 DEF OneDefinition
  <2> QED
    BY <1>3, <2>1, <2>5, <2>6, <2>7, <2>8 DEF LineIsRead
<1>9. CASE f[n + 1].symbol = NONE
  <2>1. n > 0
    BY <1>2, <1>9 DEF Starts
  <2>2. PICK i \in 1..n : OneDefinition(f, i, n) /\ unit = [type |-> t, name |-> f[i].symbol]
    BY <2>1 DEF Halfway
  <2>3. unit' = unit /\ unit' # NONE /\ f[i].symbol \in Named(f, n)
    <3>1. f[i].symbol \in Named(f, n)
      BY <2>2, NamedNames DEF OneDefinition
    <3>2. i \in 1..Len(f)
      BY <1>2
    <3>3. f[i].symbol \in Names
      <4>1. f[i] \in Lines
        BY <3>2
      <4> QED
        BY <2>2, <4>1 DEF OneDefinition, Lines
    <3> QED
      BY <1>1, <1>2, <1>9, <2>2, <3>1, <3>3, NamingAssumption DEF Adds
  <2>4. DOMAIN defs'[t] = DOMAIN defs[t]
    BY <1>1, <1>2, <1>9, <2>3 DEF Adds
  <2>5. \A m \in DOMAIN defs[t] : m # f[i].symbol => defs'[t][m] = defs[t][m]
    BY <1>1, <2>2, <2>3, <2>4 DEF Adds
  <2>6. defs'[t][f[i].symbol] = defs[t][f[i].symbol] \o Items(f[n + 1])
    BY <1>1, <1>2, <1>9, <2>2, <2>3 DEF Adds
  <2>7. ReadTo(f, n + 1, t)'
    BY <1>2, <1>4, <1>9, <2>2, <2>4, <2>5, <2>6, ValuesRead
  <2>8. AllIn(done, t)'
    BY <1>4, <1>5, <2>3, <2>4, <2>5
  <2>9. /\ DOMAIN defs'[t] = NamesIn(done) \cup Named(f, n + 1)
        /\ NamesIn(done) \cap Named(f, n + 1) = {}
    BY <1>4, <1>6, <1>9, <2>4
  <2>10. OneDefinition(f, i, n + 1) /\ i \in 1..(n + 1)
    BY <1>2, <1>9, <2>2 DEF OneDefinition
  <2> QED
    BY <1>3, <2>2, <2>3, <2>7, <2>8, <2>9, <2>10 DEF LineIsRead
<1> QED
  BY <1>8, <1>9

\* An invariant of reading: all that was read is in the definitions.
LEMMA GatheredLine ==
  ASSUME NInv, Gathered, ParseLine, lists = 0
  PROVE  Gathered'
<1> SUFFICES ASSUME AllStart PROVE Gathered'
  BY DEF Gathered, ParseLine, AllStart
<1>1. UNCHANGED <<job, lists, phase, type, files>> /\ phase = "read" /\ lines # <<>>
  BY DEF ParseLine, NInv, Reading
<1>2. PICK t \in Types : type = t
  BY DEF NInv, NTypes
<1>3. job \in Jobs /\ job.services \subseteq Seq(Lines) /\ job.networks \subseteq Seq(Lines)
  BY JobType DEF NInv, NTypes
<1>4. job[t] \subseteq Seq(Lines) /\ \A f \in job[t] : Starts(f)
  BY <1>2, <1>3 DEF Types, AllStart
<1>5. PICK f \in job[t] \ files : \E n \in 0..Len(f) : Halfway(f, n)
  BY <1>1, <1>2 DEF Gathered
<1>6. PICK n \in 0..Len(f) : Halfway(f, n)
  BY <1>5
<1> DEFINE done == (job[t] \ files) \ {f}
<1>7. done = Done(f) /\ done' = done /\ Done(f)' = done
  BY <1>1, <1>2 DEF Done
<1>8. \A g \in done : g \in Seq(Lines)
  BY <1>4
<1>9. f \in Seq(Lines) /\ Starts(f) /\ n \in Nat /\ Len(f) \in Nat
  BY <1>4
<1> HIDE DEF done
<1>10. LineIsRead(t, done, f, n + 1)'
  BY <1>2, <1>6, <1>7, <1>8, <1>9, LineRead DEF NInv
<1>11. type' = t /\ phase' = "read" /\ lists' = 0 /\ job' = job /\ files' = files
  BY <1>1, <1>2
<1>12. lines' \in Seq(Lines)
  BY TypeStep DEF NInv, NTypes, Next
<1>13. t = "services" => DOMAIN defs'["networks"] = {}
  <2>1. ASSUME t = "services" PROVE DOMAIN defs["networks"] = {}
    BY <1>1, <1>2, <2>1 DEF Gathered
  <2>2. PICK line \in Lines : Adds(line)
    BY LineEffect DEF NInv
  <2>3. ASSUME t = "services" PROVE DOMAIN defs'["networks"] = DOMAIN defs["networks"]
    <3>1. "networks" \in Types /\ "networks" # type
      BY <1>2, <2>3 DEF Types
    <3> QED
      BY <2>2, <3>1 DEF Adds
  <2> QED
    BY <2>1, <2>3
<1>14. t = "networks" =>
         DOMAIN defs'["services"] = NamesIn(job["services"]) /\ AllIn(job["services"], "services")'
  <2> SUFFICES ASSUME t = "networks"
               PROVE  DOMAIN defs'["services"] = NamesIn(job["services"])
                      /\ AllIn(job["services"], "services")'
    OBVIOUS
  <2>1. DOMAIN defs["services"] = NamesIn(job["services"]) /\ AllIn(job["services"], "services")
    BY <1>1, <1>2 DEF Gathered, Types
  <2>2. PICK line \in Lines : Adds(line)
    BY LineEffect DEF NInv
  <2>3. "services" \in Types /\ "services" # type
    BY <1>2 DEF Types
  <2>4. unit'.type = t \/ unit' = NONE
    BY <1>10 DEF LineIsRead
  <2>5. /\ DOMAIN defs'["services"] = DOMAIN defs["services"]
        /\ \A m \in DOMAIN defs["services"] : defs'["services"][m] = defs["services"][m]
    BY <1>2, <2>2, <2>3, <2>4 DEF Adds
  <2>6. ASSUME NEW g \in job["services"] PROVE ReadTo(g, Len(g), "services")'
    <3>1. ReadTo(g, Len(g), "services")
      BY <2>1 DEF AllIn
    <3>2. Named(g, Len(g)) \subseteq DOMAIN defs["services"]
      BY <3>1 DEF ReadTo
    <3> QED
      BY <2>5, <3>1, <3>2, ReadToStays
  <2>7. AllIn(job["services"], "services")'
    BY <1>11, <2>6 DEF AllIn
  <2> QED
    BY <2>1, <2>5, <2>7
<1>15. CASE n + 1 = Len(f)
  <2>1. lines' = <<>>
    BY <1>9, <1>10, <1>12, <1>15 DEF LineIsRead
  <2>2. job[t] \ files = done \cup {f}
    BY <1>5 DEF done
  <2>3. Named(f, n + 1) = Symbols(f)
    BY <1>9, <1>15, ReadToAll
  <2>4. DOMAIN defs'[t] = NamesIn(job[t] \ files)
    <3>1. DOMAIN defs'[t] = NamesIn(done) \cup Named(f, n + 1)
      BY <1>7, <1>10 DEF LineIsRead
    <3>2. NamesIn(done \cup {f}) = NamesIn(done) \cup Symbols(f)
      BY DEF NamesIn
    <3> QED
      BY <2>2, <2>3, <3>1, <3>2
  <2>5. AllIn(job[t] \ files, t)'
    <3>1. AllIn(done, t)' /\ ReadTo(f, Len(f), t)'
      BY <1>7, <1>10, <1>15 DEF LineIsRead
    <3>2. \A g \in done : ReadTo(g, Len(g), t)'
      BY <1>7, <3>1 DEF AllIn
    <3>3. \A g \in job[t] \ files : ReadTo(g, Len(g), t)'
      BY <2>2, <3>1, <3>2
    <3> QED
      BY <1>11, <3>3 DEF AllIn
  <2> QED
    BY <1>11, <1>13, <1>14, <2>1, <2>4, <2>5 DEF Gathered, Types
<1>16. CASE n + 1 # Len(f)
  <2>1. n + 1 < Len(f) /\ n + 1 \in 0..Len(f) /\ n + 1 \in Nat
    BY <1>6, <1>9, <1>16 DEF Halfway
  <2>2. lines' # <<>>
    BY <1>9, <1>10, <2>1 DEF LineIsRead
  <2>3. Halfway(f, n + 1)'
    BY <1>7, <1>10, <1>11, <2>1 DEF Halfway, LineIsRead
  <2>4. f \in job[t] \ files
    BY <1>5
  <2> QED
    BY <1>11, <1>13, <1>14, <2>1, <2>2, <2>3, <2>4 DEF Gathered, Types
<1> QED
  BY <1>15, <1>16

LEMMA SameDefs ==
  ASSUME defs' = defs, NEW done, NEW t
  PROVE  AllIn(done, t)' <=> AllIn(done, t)
BY DEF AllIn, ReadTo

LEMMA GatheredStep == NInv /\ Gathered /\ [Next]_vars => Gathered'
<1> SUFFICES ASSUME NInv, Gathered, [Next]_vars, lists' = 0, phase' # "failed", AllStart'
             PROVE  Gathered'
  BY DEF Gathered
<1>1. CASE NoFiles
  BY <1>1 DEF NoFiles, Fail
<1>2. CASE OpenFile
  <2>1. PICK f \in files : files' = files \ {f} /\ lines' = f
    BY <1>2 DEF OpenFile
  <2>2. UNCHANGED <<job, lists, phase, type, unit, defs>> /\ phase = "read" /\ lines = <<>>
    BY <1>2 DEF OpenFile
  <2>3. PICK t \in Types : type = t
    BY DEF NInv, NTypes
  <2>4. files \subseteq job[t] /\ f \in Seq(Lines) /\ AllStart
    BY <2>2, <2>3 DEF NInv, NTypes, Reading, AllStart
  <2>5. Starts(f)
    BY <2>3, <2>4 DEF AllStart, Types
  <2> DEFINE done == job[t] \ files
  <2>6. DOMAIN defs[t] = NamesIn(done) /\ AllIn(done, t)
    BY <2>2, <2>3, <2>4 DEF Gathered
  <2>7. /\ Done(f)' = done /\ f \in (job[t] \ files)' /\ done' = job[t] \ files'
    BY <2>1, <2>2, <2>3, <2>4 DEF Done
  <2>8. AllIn(Done(f), t)'
    <3>1. \A g \in done : ReadTo(g, Len(g), t)'
      BY <2>2, <2>6 DEF AllIn, ReadTo
    <3> QED
      BY <2>7, <3>1 DEF AllIn
  <2> HIDE DEF done
  <2>9. Named(f, 0) = {}
    BY DEF Named
  <2>10. ReadTo(f, 0, t)'
    BY <2>9 DEF ReadTo
  <2>11. /\ Len(f) \in Nat /\ 0 < Len(f) /\ lines' # <<>> /\ lines' = f
         /\ Len(lines') = Len(f) - 0 /\ \A j \in 1..Len(lines') : lines'[j] = f[0 + j]
    BY <2>1, <2>4, <2>5 DEF Starts
  <2>12. DOMAIN defs'[type'] = NamesIn(Done(f)') \cup Named(f, 0) /\ type' = t
         /\ NamesIn(Done(f)') \cap Named(f, 0) = {}
    BY <2>2, <2>3, <2>6, <2>7, <2>9
  <2>13. Halfway(f, 0)'
    BY <2>8, <2>10, <2>11, <2>12 DEF Halfway
  <2>14. \E g \in (job[type] \ files)' : \E n \in 0..Len(g) : Halfway(g, n)'
    BY <2>7, <2>11, <2>12, <2>13
  <2>15. /\ type' = "services" => DOMAIN defs'["networks"] = {}
         /\ type' = "networks" =>
              DOMAIN defs'["services"] = NamesIn(job'["services"]) /\ AllIn(job["services"], "services")'
    BY <2>2, <2>4, SameDefs DEF Gathered, Types
  <2> QED
    BY <2>2, <2>11, <2>14, <2>15 DEF Gathered
<1>3. CASE CheckUnseen
  <2>1. /\ phase = "read" /\ files = {} /\ lines = <<>> /\ UNCHANGED <<job, lists, lines, defs>>
        /\ AllStart
        /\ \/ /\ type = "services" /\ type' = "networks" /\ phase' = "read"
              /\ files' = job["networks"]
           \/ /\ type # "services" /\ phase' = "ready"
    BY <1>3 DEF CheckUnseen, Fail, AllStart
  <2>2. DOMAIN defs[type] = NamesIn(job[type]) /\ AllIn(job[type], type)
    <3>1. job[type] \ files = job[type]
      BY <2>1
    <3> QED
      BY <2>1, <3>1 DEF Gathered
  <2>3. CASE type = "services"
    <3>1. DOMAIN defs["networks"] = {}
      BY <2>1, <2>3 DEF Gathered
    <3>2. job'["networks"] \ files' = {} /\ NamesIn({}) = {}
      BY <2>1, <2>3 DEF NamesIn
    <3>3. AllIn(job["services"], "services")'
      BY <2>1, <2>2, <2>3, SameDefs
    <3>4. AllIn(job["networks"] \ files, "networks")'
      BY <3>2 DEF AllIn
    <3> QED
      BY <2>1, <2>2, <2>3, <3>1, <3>2, <3>3, <3>4 DEF Gathered, Types
  <2>4. CASE type # "services"
    <3>1. type = "networks"
      BY <2>4 DEF NInv, NTypes, Types
    <3>2. DOMAIN defs["services"] = NamesIn(job["services"]) /\ AllIn(job["services"], "services")
      BY <2>1, <3>1 DEF Gathered, Types
    <3>3. AllIn(job["services"], "services")' /\ AllIn(job["networks"], "networks")'
      BY <2>1, <2>2, <3>1, <3>2, SameDefs
    <3> QED
      BY <2>1, <2>2, <2>4, <3>1, <3>2, <3>3 DEF Gathered, Types
  <2> QED
    BY <2>3, <2>4
<1>4. CASE ParseList
  BY <1>4 DEF ParseList, NInv, NTypes
<1>5. CASE ListDone
  BY <1>5 DEF ListDone, NInv, Reading
<1>6. CASE ParseLine
  <2>1. lists = 0
    BY <1>6 DEF ParseLine
  <2> QED
    BY <1>6, <2>1, GatheredLine
<1>7. CASE Collision
  BY <1>7 DEF Collision, Fail, NInv, Reading
<1>8. CASE UNCHANGED <<job, lists, type, files, lines, unit, defs>> /\ phase' # "read" /\ phase \notin {"read", "failed"}
  <2>1. \A t \in Types : DOMAIN defs[t] = NamesIn(job[t]) /\ AllIn(job[t], t)
    BY <1>8 DEF Gathered, AllStart
  <2>2. \A t \in Types : AllIn(job[t], t)'
    BY <1>8, <2>1 DEF AllIn, ReadTo
  <2> QED
    BY <1>8, <2>1, <2>2 DEF Gathered
<1>9. CASE Lookup
  BY <1>8, <1>9, LookupReads
<1>10. CASE UNCHANGED vars
  <2>1. UNCHANGED <<job, lists, phase, type, files, lines, unit, defs>>
    BY <1>10 DEF vars
  <2>2. AllStart
    BY <2>1 DEF AllStart
  <2>3. \A t \in Types : AllIn(job[t], t)' <=> AllIn(job[t], t)
    BY <2>1 DEF AllIn, ReadTo
  <2>4. AllIn(job[type] \ files, type)' <=> AllIn(job[type] \ files, type)
    BY <2>1 DEF AllIn, ReadTo
  <2>5. \A f \in job[type] \ files : \A n \in 0..Len(f) : Halfway(f, n)' <=> Halfway(f, n)
    BY <2>1 DEF AllIn, ReadTo, Halfway, Done
  <2>6. (\E f \in job[type] \ files : \E n \in 0..Len(f) : Halfway(f, n))
          => (\E f \in job[type] \ files : \E n \in 0..Len(f) : Halfway(f, n))'
    BY <2>1, <2>5
  <2>7. /\ phase' = "read" /\ type' = "services" => DOMAIN defs'["networks"] = {}
        /\ \A t \in Types :
             phase' # "read" \/ (t = "services" /\ type' = "networks") =>
               DOMAIN defs'[t] = NamesIn(job'[t]) /\ AllIn(job[t], t)'
        /\ phase' = "read" /\ lines' = <<>> =>
             DOMAIN defs'[type'] = NamesIn(job'[type'] \ files') /\ AllIn(job[type] \ files, type)'
    BY <2>1, <2>2, <2>3, <2>4 DEF Gathered
  <2>8. phase' = "read" /\ lines' # <<>> => (\E f \in job[type] \ files : \E n \in 0..Len(f) : Halfway(f, n))'
    BY <2>1, <2>2, <2>6 DEF Gathered
  <2> QED
    BY <2>7, <2>8 DEF Gathered
<1> QED
  BY <1>1, <1>2, <1>3, <1>4, <1>5, <1>6, <1>7, <1>9, <1>10 DEF Next, Lookup, Ended

LEMMA GatheredInit == Init => Gathered
<1> SUFFICES ASSUME Init PROVE Gathered
  OBVIOUS
<1>1. /\ phase = "read" /\ type = "services" /\ lines = <<>> /\ files = job["services"]
      /\ \A t \in Types : DOMAIN defs[t] = {}
  BY DEF Init
<1>2. job["services"] \ files = {} /\ NamesIn({}) = {}
  BY <1>1 DEF NamesIn
<1>3. AllIn({}, "services")
  BY DEF AllIn
<1> QED
  BY <1>1, <1>2, <1>3 DEF Gathered, Types

-----------------------------------------------------------------------------
(* The theorems *)

LEMMA InitHolds == Init => NInv
<1> SUFFICES ASSUME Init PROVE NInv
  OBVIOUS
<1>1. NTypes
  BY JobType DEF Init, NTypes, Defs, Types
<1>2. Reading
  BY DEF Init, Reading
<1>3. Recorded
  BY DEF Init, Recorded, Accounted, AllSeen, Types
<1>4. LookupInv
  BY DEF Init, LookupInv, StackTypes, Path, FramesHold, LookupIsExact, ParentsAreAncestors
<1> QED BY <1>1, <1>2, <1>3, <1>4 DEF NInv

\* The inductive invariant of the definitions and of the lookups in them
\* (lib/naming.py).
THEOREM NamingInvariant == Spec => []NInv
<1>1. NInv /\ [Next]_vars => NInv'
  BY TypeStep, ReadingStep, RecordedStep, LookupStep DEF NInv
<1> QED BY <1>1, InitHolds, PTL DEF Spec

\* No Naming object is made while a name is listed, without a comment, that no
\* definition has (_CheckUnseen), whatever the files and their order are.
THEOREM UndefinedReported == Spec => []UndefinedIsReported
<1>1. NInv => UndefinedIsReported
  <2> SUFFICES ASSUME NInv, phase \notin {"read", "failed"}, lists = 0,
                      NEW t \in Types, NEW n \in DOMAIN defs[t], NEW i \in Range(defs[t][n]),
                      i.value \in Names, i.comment = NONE, NetworksStart
               PROVE  i.value \in DOMAIN defs[t]
    BY DEF UndefinedIsReported, NetworksStart
  <2>1. i.value \in DOMAIN defs[t] \cup unseen[t]
    BY DEF NInv, Recorded, Accounted
  <2>2. unseen[t] = {}
    BY DEF NInv, Recorded, AllSeen, Types
  <2> QED BY <2>1, <2>2
<1> QED BY <1>1, NamingInvariant, PTL

\* The files define what they say in whatever order they are read: the values of
\* a line go to the definition above it, and no definition is lost or made twice
\* (_ParseLine), for any number of files and lines.
THEOREM FilesAreWhole == Spec => []DefinitionsAreWhole
<1>1. NInv /\ Gathered => DefinitionsAreWhole
  <2> SUFFICES ASSUME NInv, Gathered, phase \notin {"read", "failed"}, lists = 0,
                      NEW t \in Types, AllStart
               PROVE  /\ DOMAIN defs[t] = UNION {Symbols(f) : f \in job[t]}
                      /\ \A f \in job[t] : \A n \in Symbols(f) : defs[t][n] = Written(f, n)
    BY DEF DefinitionsAreWhole, AllStart
  <2>1. DOMAIN defs[t] = NamesIn(job[t]) /\ AllIn(job[t], t)
    BY DEF Gathered
  <2>2. job[t] \subseteq Seq(Lines)
    BY JobType DEF NInv, NTypes, Types
  <2>3. \A f \in job[t] : ReadTo(f, Len(f), t)
    BY <2>1 DEF AllIn
  <2>4. \A f \in job[t] : \A n \in Symbols(f) : defs[t][n] = Written(f, n)
    BY <2>2, <2>3, FileIsWhole
  <2> QED
    BY <2>1, <2>4 DEF NamesIn
<1>2. NInv /\ Gathered /\ [Next]_vars => Gathered'
  BY GatheredStep
<1> QED
  BY <1>1, <1>2, GatheredInit, NamingInvariant, PTL DEF Spec

\* When GetService, GetServiceByProto and GetNet return, they return all that the
\* definitions give for a name and nothing else; they report an undefined name only
\* when one can be reached, and fail to end only when there is a circle, however
\* the definitions use one another (naming.py:238-264, 314-344).
THEOREM LookupsAreExact == Spec => []LookupIsExact
<1>1. NInv => LookupIsExact
  BY DEF NInv, LookupInv
<1> QED BY <1>1, NamingInvariant, PTL

\* GetServiceParents, GetNetParents and GetIpParents return ancestors of what
\* they are asked for, and all of them where none is overlooked.
THEOREM ParentsAreComplete == Spec => []ParentsAreAncestors
<1>1. NInv => ParentsAreAncestors
  BY DEF NInv, LookupInv
<1> QED BY <1>1, NamingInvariant, PTL
=============================================================================
