----------------------------- MODULE Generators -----------------------------
(***************************************************************************)
(* A generator at work on a policy: the constructor of ACLGenerator, which *)
(* checks keywords and translates the filters, and then __str__, which     *)
(* renders what was translated.  One step is one term or one filter.       *)
(*                                                                         *)
(* The first exception is the end of the generator (aclgen catches none).  *)
(* A policy here is what ParsePolicy returns: a sequence of filters, each  *)
(* with the options of its targets and its entries.                        *)
(***************************************************************************)
EXTENDS Iptables, Cisco, CiscoAsa, Juniper, JuniperSrx, PacketFilter

CONSTANT Jobs  \* policies, each with the platform it is rendered for

Platforms ==
  {"iptables", "speedway", "ipset", "cisco", "ciscoasa", "juniper", "srx", "packetfilter"}

\* A term as the parser makes it, as far as its rules depend on that.
TermInForm(t) ==
  /\ DOMAIN t = DOMAIN EmptyTerm /\ Sane(t)
  /\ \A a \in {"address", "address_exclude", "source_address", "source_address_exclude",
               "destination_address", "destination_address_exclude"} : t[a] \in Seq(Networks)
  /\ \A a \in {"port", "source_port", "destination_port"} : t[a] \in Seq(Nat \X Nat)
  /\ IsFiniteSet(t.protocol)

EntryInForm(e) ==
  /\ e = [name |-> e.name, term |-> e.term, expired |-> e.expired, keywords |-> e.keywords]
  /\ e.expired \in BOOLEAN
  /\ TermInForm(e.term)

FilterInForm(f) ==
  /\ \A q \in DOMAIN f.targets : f.targets[q].options \in Seq(STRING)
  /\ f.entries \in Seq(Range(f.entries))
  /\ \A e \in Range(f.entries) : EntryInForm(e)

\* A packet has addresses of one version, and that version's ICMP; initial and
\* tcp-initial are two names of one condition (iptables.py:73).
PacketInForm(p) ==
  /\ \E v \in Versions : {p.source, p.destination} \subseteq Numbers(Everything(v))
  /\ p.protocol = "icmp" => p.source[1] = 4
  /\ p.protocol = "icmpv6" => p.source[1] = 6
  /\ "initial" \in p.option <=> "tcp-initial" \in p.option

ASSUME GeneratorsAssumption ==
  /\ \A j \in Jobs :
       /\ j.platform \in Platforms
       /\ j.filters \in Seq(Range(j.filters)) \ {<<>>}
       /\ \A f \in Range(j.filters) : FilterInForm(f)
  /\ \A p \in Packets : PacketInForm(p)
  /\ NONE \notin {"ACCEPT", "DROP"} \cup PacketFilterFamilies

VARIABLES
  job,     \* the policy, and the platform of the generator
  phase,   \* where the generator is
  fi,      \* the filter being translated
  li, ti,  \* the list being filled or rendered, and the term
  carried, \* variables that outlive a filter
  lists,   \* the translated filters
  output   \* the rendered blocks

vars == <<job, phase, fi, li, ti, carried, lists, output>>

IptablesFamily == {"iptables", "speedway", "ipset"}

PlatformKeywords(platform) ==
  CASE platform \in IptablesFamily -> IptablesKeywords
    [] platform = "cisco" -> CiscoKeywords
    [] platform = "ciscoasa" -> AsaKeywords
    [] platform = "juniper" -> JuniperKeywords
    [] platform = "srx" -> SrxKeywords
    [] platform = "packetfilter" -> PacketFilterKeywords

Platform == job.platform
Filters == job.filters
Targeted(f) == Platform \in DOMAIN Filters[f].targets

\* The ASA does not look at the targets; a filter without one has no name.
Target(f) ==
  IF Targeted(f) THEN Filters[f].targets[Platform]
  ELSE [name |-> NONE, options |-> <<>>]

Init ==
  /\ job \in Jobs
  /\ phase = "check"
  /\ fi = 1
  /\ li = 1
  /\ ti = 1
  /\ carried = [stateful |-> TRUE, default |-> NONE, family |-> NONE,
                reject |-> NONE, book |-> {}, apps |-> {}]
  /\ lists = <<>>
  /\ output = <<>>

Refuse ==
  /\ phase' = "refused"
  /\ UNCHANGED <<job, fi, li, ti, carried, lists, output>>

\* ACLGenerator.__init__ up to _TranslatePolicy.
CheckKeywords ==
  /\ phase = "check"
  /\ IF \E f \in DOMAIN Filters : Targeted(f) /\
          \E e \in Range(Filters[f].entries) :
            UnsupportedKeywords(e, Platform, PlatformKeywords(Platform))
     THEN Refuse
     ELSE /\ phase' = "translate"
          /\ UNCHANGED <<job, fi, li, ti, carried, lists, output>>

-----------------------------------------------------------------------------
(* _TranslatePolicy *)

OptionsRefused(name, options) ==
  CASE Platform \in IptablesFamily -> IptablesOptionsRefused(options)
    [] Platform = "cisco" -> CiscoOptionsRefused(name, options)
    [] Platform = "srx" -> SrxOptionsRefused(name, options)
    [] Platform = "packetfilter" -> PacketFilterOptionsRefused(carried.family, options)
    [] OTHER -> FALSE

\* The types of the lists a filter becomes: one, but for Cisco's mixed.
TypesOf(options) ==
  CASE Platform \in IptablesFamily ->
         <<IF IptablesVersion(options) = 6 THEN "inet6" ELSE "inet">>
    [] Platform = "cisco" -> CiscoPasses(options)
    [] Platform = "juniper" -> <<JuniperType(options)>>
    [] Platform = "packetfilter" -> <<PacketFilterFamily(carried.family, options)>>
    [] OTHER -> <<"inet">>

\* Mutant of CarriedOver: a default action stays once it is named.
CarriedFirst(name, options) ==
  LET next == IptablesState(carried, Platform, name, options)
  IN CASE Platform \in IptablesFamily ->
            [carried EXCEPT !.stateful = next.stateful,
                            !.default = IF @ = NONE THEN next.default ELSE @]
       [] Platform = "packetfilter" ->
            [carried EXCEPT !.family = PacketFilterFamily(@, options)]
       [] OTHER -> carried

\* What a filter leaves for those after it.
CarriedOver(name, options) ==
  LET next == IptablesState(carried, Platform, name, options)
  IN CASE Platform \in IptablesFamily ->
            [carried EXCEPT !.stateful = next.stateful, !.default = next.default]
       [] Platform = "packetfilter" ->
            [carried EXCEPT !.family = PacketFilterFamily(@, options)]
       [] OTHER -> carried

Translating == phase = "translate" /\ fi <= Len(Filters)

\* The lists of this filter have not been started.
Fresh == li > Len(lists)

SkipFilter ==
  /\ Translating
  /\ Fresh
  /\ ~Targeted(fi) /\ Platform # "ciscoasa"
  /\ fi' = fi + 1
  /\ UNCHANGED <<job, phase, li, ti, carried, lists, output>>

StartFilter ==
  LET name == Target(fi).name
      options == Target(fi).options
      types == TypesOf(options)
      next == CarriedOver(name, options)
  IN
  /\ Translating
  /\ Fresh
  /\ Targeted(fi) \/ Platform = "ciscoasa"
  /\ IF OptionsRefused(name, options)
     THEN Refuse
     ELSE /\ carried' = next
          /\ lists' = lists \o [k \in DOMAIN types |->
                       [filter |-> fi, name |-> name, type |-> types[k],
                        options |-> options, entries |-> <<>>, names |-> {},
                        stateful |-> Platform \in IptablesFamily /\ next.stateful,
                        default |-> next.default]]
          /\ ti' = 1
          /\ UNCHANGED <<job, phase, fi, li, output>>

Abbreviates(options) == "abbreviateterms" \in Range(options)
Truncates(options) == "truncateterms" \in Range(options)

\* The name a term is given; the ASA leaves it alone.
NameOf(e, options) ==
  IF Platform = "ciscoasa" THEN e.name
  ELSE FixTermLength(e.name,
         Platform \in IptablesFamily /\ Abbreviates(options),
         Platform \in IptablesFamily /\ Truncates(options))

\* A filter of Cisco may have a name twice, and so may one of the ASA.
DuplicateRefused(name, list) ==
  Platform \notin {"cisco", "ciscoasa"} /\ name \in list.names

TranslateRefused(e, list) ==
  \/ NameOf(e, list.options) = NONE
  \/ DuplicateRefused(NameOf(e, list.options), list)
  \/ /\ Platform \in IptablesFamily \cup {"cisco", "juniper"}
     /\ EstablishedRefused(e.term, list.stateful)
  \/ Platform = "juniper" /\ list.type \notin JuniperTypes
  \/ Platform = "cisco" /\ list.type = "standard" /\ ~e.expired /\ StandardRefuses(e)
  \/ Platform = "ciscoasa" /\ ~e.expired /\ AsaRefuses(e.term)
  \/ Platform = "srx" /\ SrxTranslateRefuses(e.term)

\* The term as it is rendered: renamed, with high ports where they are added.
Translated(e, list) ==
  [e EXCEPT !.name = NameOf(e, list.options),
            !.term = IF Platform \in IptablesFamily \cup {"cisco", "juniper"}
                     THEN FixHighPorts(@) ELSE @]

\* Mutant of TranslateTerm: a name is only remembered if its term is rendered.
TranslateTermForgets ==
  LET list == lists[li]
      e == Filters[fi].entries[ti]
      kept == ~e.expired \/ Platform = "srx"
  IN
  /\ Translating
  /\ ~Fresh
  /\ ti <= Len(Filters[fi].entries)
  /\ IF TranslateRefused(e, list)
     THEN Refuse
     ELSE /\ lists' = [lists EXCEPT
                         ![li].entries = IF kept THEN Append(@, Translated(e, list))
                                         ELSE @]
          /\ carried' = [carried EXCEPT
               !.reject = IF Platform \in IptablesFamily /\ kept THEN list.type ELSE @,
               !.book = IF Platform = "srx"
                        THEN AddToBook(@, e.term, SrxZones(list.options)) ELSE @,
               !.apps = IF Platform = "srx"
                        THEN @ \cup {Application(NameOf(e, list.options), e.term)}
                        ELSE @]
          /\ ti' = ti + 1
          /\ UNCHANGED <<job, phase, fi, li, output>>

\* One turn of the loop over the terms of a filter.  An expired one is left out,
\* except by SRX, which only warns.  The last term object that was made has set
\* the reject entry of the action table all of them share.
TranslateTerm ==
  LET list == lists[li]
      e == Filters[fi].entries[ti]
      kept == ~e.expired \/ Platform = "srx"
  IN
  /\ Translating
  /\ ~Fresh
  /\ ti <= Len(Filters[fi].entries)
  /\ IF TranslateRefused(e, list)
     THEN Refuse
     ELSE /\ lists' = [lists EXCEPT
                         ![li].names = @ \cup {NameOf(e, list.options)},
                         ![li].entries = IF kept THEN Append(@, Translated(e, list))
                                         ELSE @]
          /\ carried' = [carried EXCEPT
               !.reject = IF Platform \in IptablesFamily /\ kept THEN list.type ELSE @,
               !.book = IF Platform = "srx"
                        THEN AddToBook(@, e.term, SrxZones(list.options)) ELSE @,
               !.apps = IF Platform = "srx"
                        THEN @ \cup {Application(NameOf(e, list.options), e.term)}
                        ELSE @]
          /\ ti' = ti + 1
          /\ UNCHANGED <<job, phase, fi, li, output>>

\* The next list of the filter, or the next filter.
FinishList ==
  /\ Translating
  /\ ~Fresh
  /\ ti > Len(Filters[fi].entries)
  /\ li' = li + 1
  /\ ti' = 1
  /\ fi' = IF li = Len(lists) THEN fi + 1 ELSE fi
  /\ UNCHANGED <<job, phase, carried, lists, output>>

FinishTranslation ==
  /\ phase = "translate"
  /\ fi > Len(Filters)
  /\ phase' = "render"
  /\ li' = 1
  /\ ti' = 1
  /\ UNCHANGED <<job, fi, carried, lists, output>>

-----------------------------------------------------------------------------
(* __str__ *)

Version(list) == IF list.type = "inet6" THEN 6 ELSE 4

RenderRefused(e, list) ==
  CASE Platform \in IptablesFamily -> IptablesRefuses(e.term, Platform, Version(list))
    [] Platform = "cisco" ->
         list.type \in {"extended", "inet6"} /\ CiscoRefuses(e.term, Version(list))
    [] Platform = "ciscoasa" -> FALSE
    [] Platform = "juniper" -> JuniperRefuses(e, list.type)
    [] Platform = "srx" -> SrxRefuses(e.term)
    [] Platform = "packetfilter" -> PacketFilterRefuses(e.term, list.type)

Plain(rules) == [except |-> {}, rules |-> rules]
Nothing == Plain({})

\* The block of a term, without rules when it is not rendered.
Rendered(e, list) ==
  LET t == e.term
      version == Version(list)
  IN CASE Platform \in IptablesFamily ->
            IF IptablesRenders(t, Platform, version)
            THEN IptablesRules(t, Platform, version, list.stateful)
            ELSE Nothing
       [] Platform = "cisco" /\ list.type = "standard" ->
            IF ActiveOn(t, "cisco") /\ t.verbatim = {} THEN Plain(StandardRules(t))
            ELSE Nothing
       [] Platform = "cisco" /\ list.type = "object-group" ->
            IF ActiveOn(t, "cisco") /\ t.verbatim = {} THEN Plain(ObjectGroupRules(t))
            ELSE Nothing
       [] Platform = "cisco" /\ list.type \in {"extended", "inet6"} ->
            IF CiscoRenders(t, version) THEN Plain(CiscoRules(t, version))
            ELSE Nothing
       [] Platform = "ciscoasa" -> IF AsaSkips(t) THEN Nothing ELSE Plain(AsaRules(t))
       [] Platform = "juniper" ->
            IF JuniperRenders(e, list.type) THEN Plain(JuniperRules(e, list.type))
            ELSE Nothing
       [] Platform = "srx" ->
            IF SrxSkips(t) THEN Nothing
            ELSE Plain(SrxRules(e, SrxZones(list.options), carried.book, carried.apps))
       [] Platform = "packetfilter" ->
            IF PacketFilterRenders(t, list.type)
            THEN Plain(PacketFilterRules(t, list.type)) ELSE Nothing

\* What is done with a packet the block catches.  ipset has no chain of its own
\* for a term: the RETURN of a next stands in the filter and leaves it.  With a
\* routing instance Juniper writes no other action.
ActionWritten(e) ==
  CASE Platform = "ipset" ->
         {IF a = "next" THEN "return" ELSE a : a \in e.term.action}
    [] Platform = "juniper" /\ "routing_instance" \in e.keywords ->
         {"routing-instance"}
    [] OTHER -> e.term.action

\* The ASA returns what it has after the first filter.
ListsWritten == IF Platform = "ciscoasa" THEN 1 ELSE Len(lists)

RenderTerm ==
  /\ phase = "render"
  /\ li <= ListsWritten
  /\ ti <= Len(lists[li].entries)
  /\ LET e == lists[li].entries[ti]
         block == Rendered(e, lists[li])
     IN IF RenderRefused(e, lists[li])
        THEN Refuse
        ELSE /\ output' = Append(output,
                  [list |-> li, entry |-> e, action |-> ActionWritten(e),
                   reject |-> carried.reject,
                   except |-> block.except, rules |-> block.rules])
             /\ ti' = ti + 1
             /\ UNCHANGED <<job, phase, fi, li, carried, lists>>

NextList ==
  /\ phase = "render"
  /\ li <= ListsWritten
  /\ ti > Len(lists[li].entries)
  /\ li' = li + 1
  /\ ti' = 1
  /\ UNCHANGED <<job, phase, fi, carried, lists, output>>

Finish ==
  /\ phase = "render"
  /\ li > ListsWritten
  /\ phase' = "done"
  /\ UNCHANGED <<job, fi, li, ti, carried, lists, output>>

Ended == phase \in {"done", "refused"} /\ UNCHANGED vars

Next ==
  \/ CheckKeywords
  \/ SkipFilter \/ StartFilter \/ TranslateTerm \/ FinishList \/ FinishTranslation
  \/ RenderTerm \/ NextList \/ Finish
  \/ Ended

Spec == Init /\ [][Next]_vars

-----------------------------------------------------------------------------
(* Correctness *)

\* The packets a list is for.
PacketsOf(list) ==
  LET versions == CASE Platform = "srx" -> Versions
                    [] list.type = "mixed" -> Versions
                    [] OTHER -> {Version(list)}
  IN {p \in Packets : p.source[1] \in versions}

\* The terms the platform writes as they are meant; the exceptions are at the
\* end of the module of each platform.
AsMeant(e, list) ==
  CASE Platform \in IptablesFamily -> IptablesAsMeant(e.term, Platform, Version(list))
    [] Platform = "cisco" -> CiscoAsMeant(e.term, list.type)
    [] Platform = "ciscoasa" -> AsaAsMeant(e)
    [] Platform = "juniper" -> JuniperAsMeant(e, list.type)
    [] Platform = "srx" -> SrxAsMeant(e, SrxZones(list.options), carried.book, carried.apps)
    [] Platform = "packetfilter" -> PacketFilterAsMeant(e.term, list.type)

\* What a term must catch in a list, and what it may.  The address of a standard
\* list is compared with the source.
Reading(t, list) ==
  IF list.type = "standard" THEN [t EXCEPT !.address = <<>>, !.source_address = t.address]
  ELSE t

MustCatch(e, list, p) ==
  ActiveOn(e.term, Platform) /\ Meets(Strictly(Reading(e.term, list)), p)

MayCatch(e, list, p) ==
  ActiveOn(e.term, Platform) /\ Meets(Loosely(Reading(e.term, list), list.stateful), p)

\* The rules of a block catch the packets the term describes and no other ones:
\* with any addresses, excludes, ports, protocols and options, however they are
\* divided among rules, jumps, inverted lists, sets, groups and applications.
RenderedAsMeant ==
  \A k \in DOMAIN output :
    LET b == output[k]
        list == lists[b.list]
    IN AsMeant(b.entry, list) =>
         \A p \in PacketsOf(list) :
           /\ MustCatch(b.entry, list, p) => Catches(b, p)
           /\ Catches(b, p) => MayCatch(b.entry, list, p)

Refusing == {"deny", "reject", "reject-with-tcp-rst"}

\* What becomes of a packet: a refusal is a refusal, with or without an answer,
\* and a packet that is returned has left the filter undecided.
Verdict(action) ==
  IF action = {"return"} THEN NONE
  ELSE IF action \subseteq Refusing THEN {"deny"} ELSE action

\* What is decided by the actions that apply to the packet, each at its place: the
\* first one that does not hand it on.
Decision(applying) ==
  LET deciding == {k \in DOMAIN applying : applying[k] # {"next"}}
  IN IF deciding = {} THEN NONE ELSE Verdict(applying[Min(deciding)])

\* Terms written as they are meant, on a packet they must catch or must not.
Clear(l, p) ==
  \A k \in DOMAIN Filters[lists[l].filter].entries :
    LET e == Filters[lists[l].filter].entries[k]
    IN /\ MustCatch(e, lists[l], p) = MayCatch(e, lists[l], p)
       /\ \/ e.expired /\ Platform # "srx"
          \/ AsMeant(Translated(e, lists[l]), lists[l])

\* The rendered list decides the packet as the policy does: the first term in the
\* order of the policy that is not expired and not for other platforms.
ListDecides(l, p) ==
  LET entries == Filters[lists[l].filter].entries
      blocks == {k \in DOMAIN output : output[k].list = l /\ Catches(output[k], p)}
      written == {k \in DOMAIN entries :
                    ~entries[k].expired /\ MustCatch(entries[k], lists[l], p)}
  IN Decision([k \in blocks |-> output[k].action])
       = Decision([k \in written |-> entries[k].term.action])

ActionsKept(l) ==
  \A e \in Range(Filters[lists[l].filter].entries) : ActionWritten(e) = e.term.action

\* A rendered filter decides as the policy does, where its terms are written with
\* the action they have: a next hands the packet on.
DecidedAsWritten ==
  phase = "done" =>
    \A l \in 1..ListsWritten : \A p \in PacketsOf(lists[l]) :
      Clear(l, p) /\ ActionsKept(l) => ListDecides(l, p)

\* The options of the targets up to that of a list.
TargetsUpTo(l) ==
  {Target(g) : g \in {h \in 1..lists[l].filter : Targeted(h)}}

\* The lists that are not empty.
Made == {l \in DOMAIN lists : lists[l].entries # <<>>}

\* What a header asks for holds for its filter, whatever filters before it have
\* left: its nostate, its default action, its family.  What no header up to there
\* asks for is never set.  And a reject is answered in the family of its list,
\* as long as the lists that are not empty have one family.
SettingsHold ==
  /\ \A l \in DOMAIN lists :
       LET list == lists[l]
           own == Range(list.options)
           earlier == TargetsUpTo(l)
           Asks(option) == \E t \in earlier : option \in Range(t.options)
       IN
       /\ Platform \in IptablesFamily =>
            /\ "nostate" \in own => ~list.stateful
            /\ Asks("nostate") \/ list.stateful
            /\ list.type = "inet6" <=> "inet6" \in own
            /\ {"ACCEPT", "DROP"} \cap own # {} => list.default \in own
            /\ list.default # NONE =>
                 \/ Asks("ACCEPT") \/ Asks("DROP")
                 \/ Platform = "iptables" /\ \E t \in earlier : t.name = "FORWARD"
       /\ Platform = "packetfilter" /\ own # {} => list.type \in own
  /\ Platform \in IptablesFamily /\ (\A l, m \in Made : lists[l].type = lists[m].type) =>
       \A k \in DOMAIN output : output[k].reject = lists[output[k].list].type

\* "nostate: specifies to produce 'stateless' filter output", of the target whose
\* option it is (doc/policy_format.txt:74), and so the default policy "on the
\* filter" (lines 69 and 70).  The generator keeps both for the filters after it.
SettingsAreOfTheFilter ==
  Platform \in IptablesFamily =>
    \A l \in DOMAIN lists :
      LET own == Range(lists[l].options)
      IN /\ lists[l].stateful <=> "nostate" \notin own
         /\ lists[l].default # NONE =>
              {"ACCEPT", "DROP"} \cap own # {} \/ lists[l].name = "FORWARD"

\* The ports of a multiport match.
PortsOf(list) ==
  LET Count[k \in 0..Len(list)] ==
        IF k = 0 THEN 0 ELSE Count[k - 1] + PortCount(list[k])
  IN Count[Len(list)]

\* What the devices would not load: a name twice in one filter, a multiport match
\* with more ports than iptables takes, a set that is created twice (it is, for
\* terms of two filters that have the same name), and a policy that names an
\* address its zone does not have.
WellFormed ==
  \A j, k \in DOMAIN output :
    LET b == output[j] IN
    /\ j # k /\ b.list = output[k].list /\ Platform \notin {"cisco", "ciscoasa"} =>
         b.entry.name # output[k].entry.name
    /\ Platform # "ciscoasa" => b.entry.name \in ShortNames
    /\ Platform = "ipset" /\ j # k =>
         LET Names(c) == {s.name : s \in SetsOf(c.entry.term, c.entry.name,
                                               Version(lists[c.list]))}
         IN Names(b) \cap Names(output[k]) # {} =>
              b.list # output[k].list /\ b.entry.name = output[k].entry.name
    /\ Platform \in IptablesFamily =>
         \A r \in b.rules : /\ PortsOf(r.source_port) <= MaxPorts + 1
                            /\ PortsOf(r.destination_port) <= MaxPorts + 1
    /\ Platform = "srx" =>
         LET zones == SrxZones(lists[b.list].options)
             Held(zone, side) == \A token \in Tokens(side) :
               \E a \in carried.book : a.zone = zone /\ a.token = token
         IN Held(zones.from, SrxSource(b.entry.term))
              /\ Held(zones.to, SrxDestination(b.entry.term))

=============================================================================
