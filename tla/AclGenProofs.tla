---------------------------- MODULE AclGenProofs ----------------------------
(***************************************************************************)
(* Proofs about PolicyCompile and AclGen, for every set of policies, every *)
(* directory of policy files and every list of platforms.                  *)
(*                                                                         *)
(* Of a call of ParsePolicy: how far its two options reach, that a call    *)
(* that returns a policy gives the globals back, and that such a policy is *)
(* complete.  Of a run of aclgen, which makes such calls: which output     *)
(* files it has left at any point, and that none comes from a file the     *)
(* shade check refuses.                                                    *)
(***************************************************************************)
EXTENDS AclGen, SequenceTheorems, WellFoundedInduction, TLAPS

-----------------------------------------------------------------------------
(* ParsePolicy *)

Active == {"preprocess", "parse", "add", "translate", "shade"}

\* No term of the call has been cleaned up yet.
Fresh ==
  \/ pc = "preprocess"
  \/ pc \in {"parse", "add"} /\ fi = 1
  \/ pc = "translate" /\ fi = 1 /\ ti = 1

\* The place of the parser and what has been recorded of the filters so far.
Position ==
  /\ pc \in Active => fi >= 1 /\ ti >= 1
  /\ pc = "preprocess" => fi = 1
  /\ pc \in {"preprocess", "parse", "add"} => Len(cleaned) = fi - 1
  /\ pc \in {"add", "translate", "shade"} => fi <= Len(Filters)
  /\ pc \in {"translate", "shade"} => Len(cleaned) = fi
  /\ pc = "translate" =>
       Len(cleaned[fi]) = ti - 1 /\ Len(Terms) >= 1 /\ ti <= Len(Terms) + 1

\* The globals: untouched up to the first term, at their defaults after it
\* (the shading flag after the first filter).
Flags ==
  /\ Fresh => (optimizeFlag <=> call.optimize /\ entry.optimize)
  /\ pc \in Active /\ ~Fresh => optimizeFlag
  /\ pc \in Active /\ fi > 1 => ~shadeFlag

\* A filter the grammar cannot build.
Unparsed(filter) == \E t \in DOMAIN filter : filter[t] \in {"garbage", "short"}

\* The filters behind the parser are done with: parsed, translated to the last
\* term and, if they were compared, free of shaded terms.
FiltersDone ==
  /\ \A f \in 1..(fi - 1) :
       /\ f \in DOMAIN Filters
       /\ Len(cleaned[f]) = Len(Filters[f])
       /\ ~Unparsed(Filters[f])
       /\ f \in checked => ~Contains(Filters[f], "shaded")
  /\ pc \in {"add", "translate", "shade"} => ~Unparsed(Terms)
  /\ pc = "shade" => Len(cleaned[fi]) = Len(Terms)

\* A filter is compared when the global was set at the start of the call or
\* before it, and that is the first filter: the comparison puts it back.
Asked == call.shade_check \/ entry.shade_check

Compared ==
  /\ pc \in Active /\ fi = 1 => (shadeFlag <=> Asked) /\ checked = {}
  /\ pc = "shade" => shadeFlag
  /\ pc \in Active /\ fi > 1 => checked = IF Asked THEN {1} ELSE {}

\* The parser has come to the end of a text with filters.
PolicyReturned ==
  pc = "idle" /\ result = "policy" =>
    /\ Filters # <<>>
    /\ fi = Len(Filters) + 1
    /\ Len(cleaned) = Len(Filters)
    /\ checked = IF Asked THEN {1} ELSE {}

\* Why a call returned something other than a policy.
NothingReturned ==
  pc = "idle" =>
    /\ result = "pending" => calls = 0
    /\ result = "None" => Filters = <<>>
    /\ result = "False" => Asked \/ \E f \in DOMAIN Filters : Unparsed(Filters[f])

\* Which terms the optimize argument reaches: the first one, as the call asks and
\* the global was left; every other one is summarised.
FirstTermOnly ==
  \A f \in DOMAIN cleaned : \A t \in DOMAIN cleaned[f] :
    cleaned[f][t] <=> (f = 1 /\ t = 1 => call.optimize /\ entry.optimize)

\* A call after one that returned a policy finds the global as it should be.
FoundSet == pc # "idle" /\ result = "policy" => entry.optimize

PInv ==
  /\ PTypeOK
  /\ FoundSet
  /\ Position
  /\ Flags
  /\ FiltersDone
  /\ Compared
  /\ PolicyReturned
  /\ NothingReturned
  /\ FirstTermOnly
  /\ PolicyLeavesNoFlag

\* The types of a call's argument: the filters are sequences of sequences.
LEMMA FiltersType ==
  ASSUME PTypeOK
  PROVE  /\ Filters \in Seq(Seq(TermKinds))
         /\ Len(Filters) \in Nat
         /\ fi \in 1..Len(Filters) => Terms \in Seq(TermKinds) /\ Len(Terms) \in Nat
<1>1. call.policy \in [include : {"resolved", "missing", "nested"},
                       filters : Seq(Seq(TermKinds))]
  BY PolicyAssumption DEF PTypeOK
<1>2. Filters \in Seq(Seq(TermKinds))
  BY <1>1 DEF Filters
<1> QED
  BY <1>2 DEF Terms

\* How _DetectShading ends.
LEMMA ShadingOutcomes ==
  ASSUME DetectShading
  PROVE  \/ pc' = "idle" /\ fi' = fi /\ result' \in {"ShadingError", "False", "raised"}
         \/ /\ pc' = "parse" /\ fi' = fi + 1 /\ result' = result
            /\ ~Contains(Terms, "shaded")
BY DEF DetectShading, ComparisonFails, Return

\* A step of ParsePolicy keeps the types.
LEMMA TypeStep == PInv /\ [PNext]_pvars => PTypeOK'
<1> SUFFICES ASSUME PInv, [PNext]_pvars PROVE PTypeOK'
  OBVIOUS
<1> USE DEF PInv, PTypeOK, Results, Return
<1>1. ASSUME NEW p \in Policies, NEW optimize \in BOOLEAN,
             NEW shade_check \in BOOLEAN, ParsePolicy(p, optimize, shade_check)
      PROVE  PTypeOK'
  BY <1>1 DEF ParsePolicy
<1>2. CASE Preprocess
  BY <1>2 DEF Preprocess
<1>3. CASE ParseFilter
  BY <1>3 DEF ParseFilter
<1>4. CASE AddFilter
  BY <1>4 DEF AddFilter
<1>5. CASE TranslateTerm
  <2>1. cleaned' \in Seq(Seq(BOOLEAN))
    <3>1. CASE cleaned' = cleaned
      BY <3>1
    <3>2. CASE cleaned' = [cleaned EXCEPT ![fi] = Append(@, optimizeFlag)]
      <4>1. fi \in 1..Len(cleaned)
        BY <1>5 DEF TranslateTerm, Position, Active
      <4>2. Append(cleaned[fi], optimizeFlag) \in Seq(BOOLEAN)
        BY <4>1, AppendProperties
      <4> QED
        BY <3>2, <4>1, <4>2, ExceptSeq
    <3> QED
      BY <1>5, <3>1, <3>2 DEF TranslateTerm
  <2>2. UNCHANGED <<shadeFlag, fi, call, calls, entry, checked>>
    BY <1>5 DEF TranslateTerm
  <2>3. ti' = ti \/ ti' = ti + 1
    BY <1>5 DEF TranslateTerm
  <2>5. ti' \in Nat
    BY <2>3
  <2>6. optimizeFlag' \in BOOLEAN
    BY <1>5 DEF TranslateTerm
  <2>4. pc' \in {"idle", "translate"} /\ result' \in Results
    BY <1>5 DEF TranslateTerm
  <2> QED
    BY <2>1, <2>2, <2>4, <2>5, <2>6
<1>6. CASE FilterTranslated
  BY <1>6 DEF FilterTranslated
<1>7. CASE DetectShading
  <2>1. UNCHANGED <<optimizeFlag, call, ti, calls, entry, cleaned>>
    BY <1>7 DEF DetectShading
  <2>2. checked' \subseteq Nat /\ shadeFlag' \in BOOLEAN
    BY <1>7 DEF DetectShading
  <2>3. CASE pc' = "idle" /\ fi' = fi /\ result' \in {"ShadingError", "False", "raised"}
    BY <2>1, <2>2, <2>3
  <2>4. CASE pc' = "parse" /\ fi' = fi + 1 /\ result' = result
    BY <2>1, <2>2, <2>4
  <2> QED
    BY <1>7, <2>3, <2>4, ShadingOutcomes DEF Return
<1>8. CASE UNCHANGED pvars
  BY <1>8 DEF pvars
<1> QED
  BY <1>1, <1>2, <1>3, <1>4, <1>5, <1>6, <1>7, <1>8 DEF PNext, Call, Compile

\* A step keeps the parser's position and the record in agreement.
LEMMA PositionStep == PInv /\ PTypeOK' /\ [PNext]_pvars => Position'
<1> SUFFICES ASSUME PInv, PTypeOK', [PNext]_pvars PROVE Position'
  OBVIOUS
<1> USE DEF PInv, PTypeOK, Position, Active, Return, Terms, Filters
<1>1. ASSUME NEW p \in Policies, NEW optimize \in BOOLEAN,
             NEW shade_check \in BOOLEAN, ParsePolicy(p, optimize, shade_check)
      PROVE  Position'
  BY <1>1 DEF ParsePolicy
<1>2. CASE Preprocess
  BY <1>2 DEF Preprocess
<1>3. CASE ParseFilter
  BY <1>3 DEF ParseFilter
<1>4. CASE AddFilter
  BY <1>4 DEF AddFilter
<1>5. CASE TranslateTerm
  BY <1>5 DEF TranslateTerm
<1>6. CASE FilterTranslated
  <2>1. UNCHANGED <<cleaned, call, ti>>
    BY <1>6 DEF FilterTranslated
  <2>2. CASE pc' = "shade" /\ fi' = fi
    BY <1>6, <2>1, <2>2 DEF FilterTranslated
  <2>3. CASE pc' = "parse" /\ fi' = fi + 1
    BY <1>6, <2>1, <2>3 DEF FilterTranslated
  <2> QED
    BY <1>6, <2>2, <2>3 DEF FilterTranslated
<1>7. CASE DetectShading
  <2>1. UNCHANGED <<cleaned, call, ti>>
    BY <1>7 DEF DetectShading
  <2>2. CASE pc' = "idle" /\ fi' = fi
    BY <1>7, <2>1, <2>2 DEF DetectShading
  <2>3. CASE pc' = "parse" /\ fi' = fi + 1
    BY <1>7, <2>1, <2>3 DEF DetectShading
  <2> QED
    BY <1>7, <2>2, <2>3, ShadingOutcomes
<1>8. CASE UNCHANGED pvars
  BY <1>8 DEF pvars
<1> QED
  BY <1>1, <1>2, <1>3, <1>4, <1>5, <1>6, <1>7, <1>8 DEF PNext, Call, Compile

\* The next call finds the global as the last one has left it.
LEMMA FoundStep == PInv /\ [PNext]_pvars => FoundSet'
<1> SUFFICES ASSUME PInv, [PNext]_pvars PROVE FoundSet'
  OBVIOUS
<1> USE DEF PInv, FoundSet
<1>1. ASSUME NEW p \in Policies, NEW optimize \in BOOLEAN,
             NEW shade_check \in BOOLEAN, ParsePolicy(p, optimize, shade_check)
      PROVE  FoundSet'
  BY <1>1 DEF ParsePolicy, PolicyLeavesNoFlag
<1>2. CASE Preprocess \/ ParseFilter \/ AddFilter \/ TranslateTerm \/ FilterTranslated
  BY <1>2 DEF Preprocess, ParseFilter, AddFilter, TranslateTerm, FilterTranslated, Return
<1>3. CASE DetectShading
  BY <1>3, ShadingOutcomes DEF DetectShading
<1>4. CASE UNCHANGED pvars
  BY <1>4 DEF pvars
<1> QED
  BY <1>1, <1>2, <1>3, <1>4 DEF PNext, Call, Compile

\* A step keeps the globals where Flags says they are, and a policy that is
\* returned leaves them at their defaults.
LEMMA FlagsStep == PInv /\ [PNext]_pvars => Flags' /\ PolicyLeavesNoFlag'
<1> SUFFICES ASSUME PInv, [PNext]_pvars PROVE Flags' /\ PolicyLeavesNoFlag'
  OBVIOUS
<1> USE DEF PInv, PTypeOK, Position, Flags, Fresh, Active, PolicyLeavesNoFlag, Return
<1>1. ASSUME NEW p \in Policies, NEW optimize \in BOOLEAN,
             NEW shade_check \in BOOLEAN, ParsePolicy(p, optimize, shade_check)
      PROVE  Flags' /\ PolicyLeavesNoFlag'
  BY <1>1 DEF ParsePolicy
<1>2. CASE Preprocess
  BY <1>2 DEF Preprocess
<1>3. CASE ParseFilter
  BY <1>3 DEF ParseFilter
<1>4. CASE AddFilter
  BY <1>4 DEF AddFilter
<1>5. CASE TranslateTerm
  BY <1>5 DEF TranslateTerm
<1>6. CASE FilterTranslated
  BY <1>6 DEF FilterTranslated
<1>7. CASE DetectShading
  <2>1. /\ pc = "shade" /\ shadeFlag' = FALSE
        /\ UNCHANGED <<optimizeFlag, call, ti, entry>>
    BY <1>7 DEF DetectShading
  <2>2. CASE pc' = "idle" /\ result' # "policy"
    BY <2>1, <2>2
  <2>3. CASE pc' = "parse" /\ fi' = fi + 1
    BY <2>1, <2>3
  <2> QED
    BY <1>7, <2>2, <2>3, ShadingOutcomes
<1>8. CASE UNCHANGED pvars
  BY <1>8 DEF pvars
<1> QED
  BY <1>1, <1>2, <1>3, <1>4, <1>5, <1>6, <1>7, <1>8 DEF PNext, Call, Compile

\* A step records for each term what FirstTermOnly says.
LEMMA ReachStep == PInv /\ [PNext]_pvars => FirstTermOnly'
<1> SUFFICES ASSUME PInv, [PNext]_pvars PROVE FirstTermOnly'
  OBVIOUS
<1> USE DEF PInv, PTypeOK, FirstTermOnly
<1>1. ASSUME NEW p \in Policies, NEW optimize \in BOOLEAN,
             NEW shade_check \in BOOLEAN, ParsePolicy(p, optimize, shade_check)
      PROVE  FirstTermOnly'
  BY <1>1 DEF ParsePolicy
<1>2. CASE AddFilter
  BY <1>2 DEF AddFilter
<1>3. CASE TranslateTerm
  <2>1. CASE cleaned' = cleaned /\ call' = call /\ entry' = entry
    BY <2>1
  <2>2. CASE /\ cleaned' = [cleaned EXCEPT ![fi] = Append(@, optimizeFlag)]
             /\ call' = call /\ entry' = entry
    <3>1. fi \in DOMAIN cleaned /\ Len(cleaned[fi]) = ti - 1 /\ ti >= 1
      BY <1>3 DEF TranslateTerm, Position, Active
    <3>2. optimizeFlag <=> (fi = 1 /\ ti = 1 => call.optimize /\ entry.optimize)
      BY <1>3 DEF TranslateTerm, Flags, Fresh, Active
    <3>3. /\ DOMAIN cleaned' = DOMAIN cleaned
          /\ \A f \in DOMAIN cleaned : f # fi => cleaned'[f] = cleaned[f]
          /\ cleaned'[fi] = Append(cleaned[fi], optimizeFlag)
      BY <2>2, <3>1
    <3>4. /\ DOMAIN cleaned'[fi] = 1..ti
          /\ \A t \in 1..(ti - 1) : cleaned'[fi][t] = cleaned[fi][t]
          /\ cleaned'[fi][ti] = optimizeFlag
      <4>1. cleaned[fi] \in Seq(BOOLEAN)
        BY <3>1
      <4> QED
        BY <3>1, <3>3, <4>1
    <3> SUFFICES ASSUME NEW f \in DOMAIN cleaned, NEW t \in DOMAIN cleaned'[f]
                 PROVE  cleaned'[f][t]
                          <=> (f = 1 /\ t = 1 => call.optimize /\ entry.optimize)
      BY <2>2, <3>3
    <3>5. CASE f # fi
      BY <3>3, <3>5
    <3>6. CASE f = fi /\ t = ti
      BY <3>2, <3>4, <3>6
    <3>7. CASE f = fi /\ t # ti
      <4>1. t \in 1..(ti - 1)
        BY <3>1, <3>4, <3>7
      <4>2. t \in DOMAIN cleaned[fi]
        BY <3>1, <4>1
      <4> QED
        BY <3>1, <3>4, <3>7, <4>1, <4>2
    <3> QED
      BY <3>5, <3>6, <3>7
  <2> QED
    BY <1>3, <2>1, <2>2 DEF TranslateTerm
<1>4. CASE Preprocess \/ ParseFilter \/ FilterTranslated \/ DetectShading
  BY <1>4 DEF Preprocess, ParseFilter, FilterTranslated, DetectShading
<1>5. CASE UNCHANGED pvars
  BY <1>5 DEF pvars
<1> QED
  BY <1>1, <1>2, <1>3, <1>4, <1>5 DEF PNext, Call, Compile

\* A set of numbers has a least one.
LEMMA LeastOf ==
  ASSUME NEW S, S \subseteq Nat, S # {}
  PROVE  Min(S) \in S /\ \A n \in S : Min(S) =< n
<1> DEFINE Less == OpToRel(<, Nat)
<1>1. PICK least \in S : \A n \in S : <<n, least>> \notin Less
  <2> HIDE DEF Less
  <2>1. IsWellFoundedOn(Less, Nat)
    BY NatLessThanWellFounded DEF Less
  <2> QED
    BY <2>1, WFMin
<1>2. \A pair \in Nat \X Nat : pair[1] < pair[2] => pair \in Less
  BY Zenon DEF OpToRel
<1> HIDE DEF Less
<1>3. \A n \in S : least =< n
  <2> SUFFICES ASSUME NEW n \in S PROVE ~(n < least)
    OBVIOUS
  <2> QED
    BY <1>1, <1>2, <<n, least>> \in Nat \X Nat
<1> QED
  BY <1>3 DEF Min

\* A filter in which no unparsable term is found has none.
LEMMA NoneUnparsed ==
  ASSUME NEW filter \in Seq(TermKinds),
         SelectInSeq(filter, LAMBDA t : t \in {"garbage", "short"}) = 0
  PROVE  ~Unparsed(filter)
<1> DEFINE I == {i \in 1..Len(filter) : filter[i] \in {"garbage", "short"}}
<1>1. SUFFICES ASSUME I # {} PROVE FALSE
  BY DEF Unparsed
<1>2. Min(I) = 0
  BY <1>1 DEF SelectInSeq
<1>3. Min(I) \in I
  <2>1. I \subseteq Nat
    OBVIOUS
  <2> HIDE DEF I
  <2> QED
    BY <1>1, <2>1, LeastOf
<1> QED
  BY <1>2, <1>3

\* An unparsable term that is found is in the filter.
LEMMA SomeUnparsed ==
  ASSUME NEW filter \in Seq(TermKinds),
         SelectInSeq(filter, LAMBDA t : t \in {"garbage", "short"}) # 0
  PROVE  Unparsed(filter)
BY DEF SelectInSeq, Unparsed

\* A step keeps the filters behind the parser as they are.
LEMMA DoneStep == PInv /\ PTypeOK' /\ [PNext]_pvars => FiltersDone'
<1> SUFFICES ASSUME PInv, PTypeOK', [PNext]_pvars PROVE FiltersDone'
  OBVIOUS
<1> USE DEF PInv, FiltersDone, Position, Active, Return, Terms, Filters
<1>0. PTypeOK
  OBVIOUS
<1>1. ASSUME NEW p \in Policies, NEW optimize \in BOOLEAN,
             NEW shade_check \in BOOLEAN, ParsePolicy(p, optimize, shade_check)
      PROVE  FiltersDone'
  BY <1>1 DEF ParsePolicy
<1>2. CASE Preprocess
  BY <1>2 DEF Preprocess
<1>3. CASE ParseFilter
  <2>1. UNCHANGED <<cleaned, call, fi, checked>> /\ pc' \in {"add", "idle"}
    BY <1>3 DEF ParseFilter
  <2>2. ASSUME pc' = "add" PROVE ~Unparsed(Terms)
    <3>1. Terms \in Seq(TermKinds)
      BY <1>3, <2>2, FiltersType DEF ParseFilter, PTypeOK
    <3>2. SelectInSeq(Terms, LAMBDA t : t \in {"garbage", "short"}) = 0
      BY <1>3, <2>2 DEF ParseFilter
    <3> QED
      BY <3>1, <3>2, NoneUnparsed
  <2> QED
    BY <2>1, <2>2
<1>4. CASE AddFilter
  BY <1>4 DEF AddFilter, PTypeOK
<1>5. CASE TranslateTerm
  <2>1. UNCHANGED <<fi, call, checked>> /\ pc' \in {"idle", "translate"}
    BY <1>5 DEF TranslateTerm
  <2>2. pc = "translate" /\ ~Unparsed(Terms)
    BY <1>5 DEF TranslateTerm
  <2>3. \/ cleaned' = cleaned
        \/ cleaned' = [cleaned EXCEPT ![fi] = Append(@, optimizeFlag)]
    BY <1>5 DEF TranslateTerm
  <2>4. \A f \in 1..(fi - 1) : cleaned'[f] = cleaned[f]
    <3>1. DOMAIN cleaned = 1..fi /\ fi \in Nat
      BY <1>5, <1>0 DEF TranslateTerm, PTypeOK
    <3> QED
      BY <2>3, <3>1
  <2> QED
    BY <2>1, <2>2, <2>4
<1>6. CASE FilterTranslated
  <2>1. /\ UNCHANGED <<cleaned, call, checked>>
        /\ Len(cleaned[fi]) = Len(Terms)
        /\ fi \notin checked
        /\ fi \in DOMAIN Filters
        /\ ~Unparsed(Terms)
        /\ fi \in Nat
    BY <1>6, FiltersType DEF FilterTranslated, PTypeOK, Compared
  <2>2. CASE pc' = "shade" /\ fi' = fi
    BY <2>1, <2>2
  <2>3. CASE pc' = "parse" /\ fi' = fi + 1
    BY <2>1, <2>3
  <2> QED
    BY <1>6, <2>2, <2>3 DEF FilterTranslated
<1>7. CASE DetectShading
  <2>1. /\ UNCHANGED <<cleaned, call>>
        /\ checked' = checked \cup {fi}
        /\ Len(cleaned[fi]) = Len(Terms)
        /\ fi \in DOMAIN Filters
        /\ ~Unparsed(Terms)
        /\ fi \in Nat
    BY <1>7, FiltersType DEF DetectShading, PTypeOK
  <2>2. CASE pc' = "idle" /\ fi' = fi
    BY <2>1, <2>2
  <2>3. CASE pc' = "parse" /\ fi' = fi + 1 /\ ~Contains(Terms, "shaded")
    BY <2>1, <2>3
  <2> QED
    BY <1>7, <2>2, <2>3, ShadingOutcomes
<1>8. CASE UNCHANGED pvars
  BY <1>8 DEF pvars
<1> QED
  BY <1>1, <1>2, <1>3, <1>4, <1>5, <1>6, <1>7, <1>8 DEF PNext, Call, Compile

\* A step compares the first filter when it was asked for, and no other.
LEMMA ComparedStep ==
  PInv /\ PTypeOK' /\ [PNext]_pvars => Compared' /\ PolicyReturned'
<1> SUFFICES ASSUME PInv, PTypeOK', [PNext]_pvars PROVE Compared' /\ PolicyReturned'
  OBVIOUS
<1> USE DEF PInv, PTypeOK, Compared, PolicyReturned, Asked, Position, Flags, Active,
            Return, Terms, Filters
<1>1. ASSUME NEW p \in Policies, NEW optimize \in BOOLEAN,
             NEW shade_check \in BOOLEAN, ParsePolicy(p, optimize, shade_check)
      PROVE  Compared' /\ PolicyReturned'
  BY <1>1 DEF ParsePolicy
<1>2. CASE Preprocess
  BY <1>2 DEF Preprocess
<1>3. CASE ParseFilter
  <2>1. UNCHANGED <<shadeFlag, call, fi, entry, cleaned, checked>> /\ pc = "parse"
    BY <1>3 DEF ParseFilter
  <2>2. CASE pc' = "add"
    BY <2>1, <2>2
  <2>3. CASE pc' = "idle" /\ result' # "policy"
    BY <2>1, <2>3
  <2>4. CASE pc' = "idle" /\ fi > Len(Filters) /\ Filters # <<>>
    <3>1. fi >= 1 /\ Len(cleaned) = fi - 1 /\ fi \in Nat
      BY <2>1
    <3>2. Filters \in Seq(Seq(TermKinds)) /\ Len(Filters) >= 1
      BY <2>4, FiltersType
    <3>3. fi = Len(Filters) + 1
      <4>1. fi - 1 \in 1..(fi - 1)
        BY <2>4, <3>1, <3>2
      <4>2. fi - 1 \in DOMAIN Filters
        BY <4>1 DEF FiltersDone
      <4> QED
        BY <2>4, <3>1, <3>2, <4>2
    <3> QED
      BY <2>1, <2>4, <3>1, <3>2, <3>3
  <2> QED
    BY <1>3, <2>2, <2>3, <2>4 DEF ParseFilter
<1>4. CASE AddFilter
  <2>1. UNCHANGED <<shadeFlag, call, fi, entry, checked>> /\ pc = "add"
    BY <1>4 DEF AddFilter
  <2>2. \/ pc' = "translate" /\ result' = result
        \/ pc' = "idle" /\ result' = "raised"
    BY <1>4 DEF AddFilter
  <2> QED
    BY <2>1, <2>2
<1>5. CASE TranslateTerm
  <2>1. UNCHANGED <<shadeFlag, call, fi, entry, checked>>
    BY <1>5 DEF TranslateTerm
  <2>2. \/ pc' = "translate" /\ result' = result
        \/ pc' = "idle" /\ result' = "raised"
    BY <1>5 DEF TranslateTerm
  <2> QED
    BY <1>5, <2>1, <2>2 DEF TranslateTerm
<1>6. CASE FilterTranslated
  BY <1>6 DEF FilterTranslated
<1>7. CASE DetectShading
  <2>1. /\ UNCHANGED <<call, entry, cleaned>>
        /\ pc = "shade" /\ shadeFlag' = FALSE
        /\ checked' = checked \cup {fi}
    BY <1>7 DEF DetectShading
  <2>2. fi = 1 /\ Asked /\ checked = {}
    BY <2>1
  <2>3. CASE pc' = "idle" /\ result' # "policy"
    BY <2>1, <2>3
  <2>4. CASE pc' = "parse" /\ fi' = fi + 1
    BY <2>1, <2>2, <2>4
  <2> QED
    BY <1>7, <2>3, <2>4, ShadingOutcomes
<1>8. CASE UNCHANGED pvars
  BY <1>8 DEF pvars
<1> QED
  BY <1>1, <1>2, <1>3, <1>4, <1>5, <1>6, <1>7, <1>8 DEF PNext, Call, Compile

\* A step that ends the call without a policy has a reason for it.
LEMMA NothingStep == PInv /\ [PNext]_pvars => NothingReturned'
<1> SUFFICES ASSUME PInv, [PNext]_pvars PROVE NothingReturned'
  OBVIOUS
<1> USE DEF PInv, NothingReturned, Asked, Return
<1>1. ASSUME NEW p \in Policies, NEW optimize \in BOOLEAN,
             NEW shade_check \in BOOLEAN, ParsePolicy(p, optimize, shade_check)
      PROVE  NothingReturned'
  BY <1>1 DEF ParsePolicy
<1>2. CASE Preprocess
  BY <1>2 DEF Preprocess
<1>3. CASE ParseFilter
  <2>1. call' = call /\ entry' = entry /\ pc = "parse" /\ fi >= 1 /\ fi \in Nat
    BY <1>3 DEF ParseFilter, Position, Active, PTypeOK
  <2>2. CASE pc' = "add" \/ result' \in {"raised", "policy"}
    BY <2>2
  <2>3. CASE result' = "None" /\ Filters = <<>>
    BY <2>1, <2>3 DEF Filters
  <2>4. CASE result' = "False" /\ fi <= Len(Filters) /\ Unparsed(Terms)
    <3>1. fi \in DOMAIN Filters
      BY <2>1, <2>4, FiltersType
    <3> QED
      BY <2>1, <2>4, <3>1 DEF Filters, Terms
  <2>5. CASE fi > Len(Filters)
    BY <1>3, <2>2, <2>3, <2>5 DEF ParseFilter
  <2>6. CASE /\ ~(fi > Len(Filters))
             /\ SelectInSeq(Terms, LAMBDA t : t \in {"garbage", "short"}) # 0
             /\ result' = IF Terms[SelectInSeq(Terms, LAMBDA t :
                                              t \in {"garbage", "short"})] = "short"
                          THEN "False" ELSE "raised"
    <3>1. Terms \in Seq(TermKinds) /\ fi <= Len(Filters)
      BY <2>1, <2>6, FiltersType
    <3>2. Unparsed(Terms)
      BY <2>6, <3>1, SomeUnparsed
    <3> QED
      BY <2>2, <2>4, <2>6, <3>1, <3>2
  <2> QED
    BY <1>3, <2>2, <2>5, <2>6 DEF ParseFilter
<1>4. CASE AddFilter
  BY <1>4 DEF AddFilter
<1>5. CASE TranslateTerm
  BY <1>5 DEF TranslateTerm
<1>6. CASE FilterTranslated
  BY <1>6 DEF FilterTranslated
<1>7. CASE DetectShading
  <2>1. pc = "shade" /\ UNCHANGED <<call, entry>> /\ Position /\ Flags /\ Compared
    BY <1>7 DEF DetectShading
  <2>2. Asked
    BY <2>1 DEF Compared, Flags, Active, Position, PTypeOK
  <2> QED
    BY <1>7, <2>1, <2>2, ShadingOutcomes
<1>8. CASE UNCHANGED pvars
  BY <1>8 DEF pvars, Filters
<1> QED
  BY <1>1, <1>2, <1>3, <1>4, <1>5, <1>6, <1>7, <1>8 DEF PNext, Call, Compile

\* A step of ParsePolicy keeps the invariant.
LEMMA PStep == PInv /\ [PNext]_pvars => PInv'
BY TypeStep, PositionStep, FoundStep, FlagsStep, ReachStep, DoneStep, ComparedStep, NothingStep
   DEF PInv

\* The invariant holds before the first call.
LEMMA PInitial == PInit => PInv
<1> SUFFICES ASSUME PInit PROVE PInv
  OBVIOUS
<1>1. PTypeOK
  BY EmptySeq DEF PInit, PTypeOK, Results
<1>2. Position /\ Flags
  BY DEF PInit, Position, Flags, Fresh, Active
<1>3. FirstTermOnly
  BY DEF PInit, FirstTermOnly
<1>7. FoundSet
  BY DEF PInit, FoundSet
<1>4. PolicyLeavesNoFlag
  BY DEF PInit, PolicyLeavesNoFlag
<1>5. FiltersDone /\ Compared /\ PolicyReturned
  BY DEF PInit, FiltersDone, Compared, PolicyReturned, Active
<1>6. NothingReturned
  BY DEF PInit, NothingReturned
<1> QED
  BY <1>1, <1>2, <1>3, <1>4, <1>5, <1>6, <1>7 DEF PInv

\* The inductive invariant holds throughout.
LEMMA PInvariant == PSpec => []PInv
<1>1. PInit => PInv
  BY PInitial
<1>2. PInv /\ [PNext]_pvars => PInv'
  BY PStep
<1> QED
  BY <1>1, <1>2, PTL DEF PSpec

\* The variables of ParsePolicy keep their types.
THEOREM CompileTypeCorrect == PSpec => []PTypeOK
<1>1. PInv => PTypeOK
  BY DEF PInv
<1> QED
  BY <1>1, PInvariant, PTL

\* A call of ParsePolicy that returns a policy leaves _OPTIMIZE and
\* _SHADE_CHECK at their defaults, whatever the calls before it did.
THEOREM FlagsDoNotLeak == PSpec => []PolicyLeavesNoFlag
<1>1. PInv => PolicyLeavesNoFlag
  BY DEF PInv
<1> QED
  BY <1>1, PInvariant, PTL

\* The optimize argument of ParsePolicy reaches the first term that is translated,
\* and a term is left as it was written only when this call, or one before it that
\* returned no policy, asked for that.
THEOREM OptimizeReach == PSpec => []OptimizeIsPassedOn
<1>1. PInv => OptimizeIsPassedOn
  BY DEF PInv, FirstTermOnly, FoundSet, OptimizeIsPassedOn
<1> QED
  BY <1>1, PInvariant, PTL

\* A policy that ParsePolicy returns has every term of every filter cleaned up
\* once; its first filter has been compared for shaded terms when the call asked
\* for that, no filter that was compared has any, and none was compared without
\* this call or one before it having asked.
THEOREM ReturnedIsProcessed == PSpec => []PolicyIsProcessed
<1>1. PInv => PolicyIsProcessed
  <2> SUFFICES ASSUME PInv, pc = "idle", result = "policy" PROVE PolicyIsProcessed
    BY DEF PolicyIsProcessed
  <2>1. PTypeOK /\ PolicyReturned /\ FiltersDone
    BY DEF PInv
  <2>2. Len(Filters) \in Nat
    BY <2>1, FiltersType
  <2>3. DOMAIN cleaned = 1..(fi - 1)
    BY <2>1, <2>2 DEF PolicyReturned, PTypeOK
  <2>4. 1 \in 1..(fi - 1)
    BY <2>1, <2>2, FiltersType DEF PolicyReturned
  <2> QED
    BY <2>1, <2>3, <2>4 DEF PolicyIsProcessed, PolicyReturned, FiltersDone, Asked
<1> QED
  BY <1>1, PInvariant, PTL

-----------------------------------------------------------------------------
(* aclgen *)

Policy == Source.policy
Headers == Source.headers

\* The platforms the first n headers of the file target.
Targeted(n) == UNION {Headers[h] : h \in {k \in DOMAIN Headers : k <= n}}

Records == [file : {FilterName(sources[s], p) : s \in DOMAIN sources, p \in Platforms},
            source : DOMAIN sources, platform : Platforms]

GTypes ==
  /\ sources \in Directories
  /\ shadeOpt \in BOOLEAN
  /\ gpc \in {"next", "parsing", "headers", "reparsing", "render", "done", "crashed"}
  /\ si \in 0..Len(sources)
  /\ hi \in Nat \ {0}
  /\ gi \in Nat \ {0}
  /\ obj \in [Platforms -> {NONE} \cup Nat \X Nat \X Platforms]
  /\ written \in Seq(Records)

\* What is known of a file's policy once it has been parsed.
Compiled ==
  /\ Policy.filters # <<>>
  /\ \A f \in DOMAIN Policy.filters : ~Unparsed(Policy.filters[f])
  /\ shadeOpt => ~Contains(Policy.filters[1], "shaded")

\* The call of ParsePolicy in progress, or just ended, is one for the file.
Called == calls > 0 /\ call.policy = Policy

\* The platforms that have a policy object.
Holding == {p \in Platforms : obj[p] # NONE}

\* Where the file is, and which platforms have been given a policy for it.
Stages ==
  /\ gpc \in {"parsing", "headers", "reparsing", "render"} => si > 0
  /\ gpc \in {"next", "headers", "render", "done"} => pc = "idle"
  /\ gpc \in {"parsing", "headers", "reparsing"} => gi = 1
  /\ gpc = "parsing" =>
       Called /\ call.shade_check = shadeOpt /\ hi = 1 /\ Holding = {}
  /\ gpc \in {"headers", "reparsing", "render"} => Compiled
  /\ gpc = "headers" =>
       result = "policy" /\ hi <= Len(Headers) + 1 /\ Holding = Targeted(hi - 1)
  /\ gpc = "reparsing" =>
       /\ Called /\ ~Asked
       /\ hi \in DOMAIN Headers
       /\ "srx" \in Headers[hi]
       /\ Holding = Targeted(hi - 1) \cup (Headers[hi] \ {"srx"})
  /\ gpc = "render" => Holding = TargetsOf(si) /\ gi <= Len(Generators) + 1

\* What has been written: nothing twice, everything for the files that are
\* done, and for the one that is being rendered what its turn is past.
Outputs ==
  /\ \A i \in DOMAIN written :
       /\ written[i].source \in 1..si
       /\ written[i].file =
            FilterName(sources[written[i].source], written[i].platform)
  /\ \A i, j \in DOMAIN written :
       (/\ written[i].source = written[j].source
        /\ written[i].platform = written[j].platform) => i = j
  /\ \A s \in 1..(si - 1) : WrittenFor(s) = TargetsOf(s)
  /\ gpc \in {"next", "done"} /\ si > 0 => WrittenFor(si) = TargetsOf(si)
  /\ gpc \in {"parsing", "headers", "reparsing"} => WrittenFor(si) = {}
  /\ gpc = "render" =>
       WrittenFor(si) = {p \in TargetsOf(si) : \E k \in 1..(gi - 1) : Generators[k] = p}

GInv == PInv /\ GTypes /\ Stages /\ Outputs /\ ShadedFileNotRendered

-----------------------------------------------------------------------------
\* The file a source number stands for.
LEMMA SourceType ==
  ASSUME GTypes, NEW s \in DOMAIN sources
  PROVE  /\ sources[s].policy \in Policies
         /\ sources[s].headers \in Seq(SUBSET Platforms)
         /\ sources[s].dir \in Seq(STRING) /\ sources[s].name \in Seq(STRING)
<1> DEFINE Files == [dir : Seq(STRING), name : Seq(STRING), policy : Policies,
                     headers : Seq(SUBSET Platforms)]
<1>1. sources \in Seq(Files)
  BY AclGenAssumption DEF GTypes
<1>2. sources[s] \in Files
  <2> HIDE DEF Files
  <2> QED
    BY <1>1
<1> QED
  BY <1>2

\* A step of aclgen is a step of the calls it makes, or leaves them alone.
LEMMA CallsStep == GInv /\ [GNext]_vars => [PNext]_pvars
<1> SUFFICES ASSUME GInv, [GNext]_vars PROVE [PNext]_pvars
  OBVIOUS
<1>1. CASE StartFile
  <2>1. si + 1 \in DOMAIN sources
    <3>1. Len(sources) \in Nat /\ DOMAIN sources = 1..Len(sources)
      BY AclGenAssumption DEF GInv, GTypes
    <3> QED
      BY <1>1, <3>1 DEF StartFile, GInv, GTypes
  <2>2. sources[si + 1].policy \in Policies
    BY <2>1, SourceType DEF GInv
  <2>3. ParsePolicy(sources[si + 1].policy, TRUE, shadeOpt)
    BY <1>1 DEF StartFile
  <2> QED
    BY <2>2, <2>3 DEF PNext, Call, GInv, GTypes
<1>2. CASE CopyForHeader
  <2>1. si \in DOMAIN sources
    <3>1. Len(sources) \in Nat /\ DOMAIN sources = 1..Len(sources)
      BY AclGenAssumption DEF GInv, GTypes
    <3> QED
      BY <1>2, <3>1 DEF CopyForHeader, GInv, GTypes, Stages
  <2>2. Source.policy \in Policies
    BY <2>1, SourceType DEF GInv, Source
  <2>3. ParsePolicy(Source.policy, FALSE, FALSE) \/ UNCHANGED pvars
    BY <1>2 DEF CopyForHeader
  <2> QED
    BY <2>2, <2>3 DEF PNext, Call
<1>3. CASE Parsing
  BY <1>3 DEF Parsing, PNext
<1>4. CASE \/ Parsed \/ Reparsed \/ HeadersDone \/ Render \/ RenderFails
           \/ Skip \/ FileDone \/ UNCHANGED vars
  BY <1>4 DEF Parsed, Reparsed, HeadersDone, Render, RenderFails, Skip, FileDone, vars
<1> QED
  BY <1>1, <1>2, <1>3, <1>4 DEF GNext, GStep, Ended

\* The sources are a sequence, and every source number up to si stands for one.
LEMMA SourcesType ==
  ASSUME GTypes
  PROVE  /\ Len(sources) \in Nat
         /\ DOMAIN sources = 1..Len(sources)
         /\ si > 0 => si \in DOMAIN sources
         /\ Len(Generators) \in Nat
         /\ \A k \in 1..Len(Generators) : Generators[k] \in Platforms
BY AclGenAssumption DEF GTypes, Platforms

\* A step keeps the types.
LEMMA GTypeStep == GInv /\ [GNext]_vars => GTypes'
<1> SUFFICES ASSUME GInv, [GNext]_vars PROVE GTypes'
  OBVIOUS
<1> USE DEF GTypes
<1>0. GTypes /\ Stages /\ UNCHANGED args
  BY DEF GInv, GNext, GStep, StartFile, Parsing, Parsed, CopyForHeader, Reparsed,
         HeadersDone, Render, RenderFails, Skip, FileDone, Ended, vars, gvars
<1>1. CASE StartFile
  <2>1. si' \in 0..Len(sources) /\ hi' = 1 /\ gi' = 1 /\ gpc' = "parsing" /\ written' = written
    BY <1>0, <1>1, SourcesType DEF StartFile
  <2>2. obj' \in [Platforms -> {NONE} \cup Nat \X Nat \X Platforms]
    BY <1>1 DEF StartFile, NoObjects
  <2> QED
    BY <1>0, <2>1, <2>2 DEF args, Records
<1>2. CASE CopyForHeader
  <2>1. UNCHANGED <<si, gi, written>> /\ gpc' \in {"headers", "reparsing"} /\ hi' \in {hi, hi + 1}
    BY <1>2 DEF CopyForHeader
  <2>2. si \in Nat
    BY <1>0, SourcesType
  <2>3. obj' \in [Platforms -> {NONE} \cup Nat \X Nat \X Platforms]
    BY <1>0, <1>2, <2>2 DEF CopyForHeader, Copy
  <2> QED
    BY <1>0, <2>1, <2>3 DEF args, Records
<1>3. CASE Reparsed
  <2>1. UNCHANGED <<si, gi, written>> /\ gpc' \in {"headers", "crashed"} /\ hi' \in {hi, hi + 1}
    BY <1>3 DEF Reparsed
  <2>2. si \in Nat
    BY <1>0, SourcesType
  <2>3. \/ obj' = obj
        \/ obj' = [obj EXCEPT !["srx"] = IF result = "policy" THEN Copy("srx") ELSE NONE]
    BY <1>3 DEF Reparsed
  <2>4. obj' \in [Platforms -> {NONE} \cup Nat \X Nat \X Platforms]
    BY <1>0, <2>2, <2>3 DEF Copy
  <2> QED
    BY <1>0, <2>1, <2>4 DEF args, Records
<1>4. CASE Render
  <2>1. UNCHANGED <<si, hi, obj, gpc>> /\ gi' = gi + 1 /\ si \in DOMAIN sources
    BY <1>0, <1>4, SourcesType DEF Render, Stages
  <2>2. [file |-> FilterName(Source, Generators[gi]), source |-> si,
         platform |-> Generators[gi]] \in Records
    BY <1>0, <1>4, <2>1, SourcesType DEF Render, Records, Source
  <2>3. written' \in Seq(Records)
    <3>1. written' = Append(written, [file |-> FilterName(Source, Generators[gi]),
                                      source |-> si, platform |-> Generators[gi]])
      BY <1>4 DEF Render
    <3> QED
      BY <1>0, <2>2, <3>1, AppendProperties
  <2> QED
    BY <1>0, <2>1, <2>3 DEF args, Records
<1>5. CASE Parsing \/ Parsed \/ HeadersDone \/ RenderFails \/ Skip \/ FileDone \/ UNCHANGED vars
  <2>1. UNCHANGED <<si, hi, obj, written>> /\ gi' \in {gi, gi + 1}
    BY <1>5 DEF Parsing, Parsed, HeadersDone, RenderFails, Skip, FileDone, vars, gvars
  <2>2. gpc' \in {gpc, "headers", "crashed", "render", "done", "next"}
    BY <1>5 DEF Parsing, Parsed, HeadersDone, RenderFails, Skip, FileDone, vars, gvars
  <2> QED
    BY <1>0, <2>1, <2>2 DEF args, Records
<1> QED
  BY <1>1, <1>2, <1>3, <1>4, <1>5 DEF GNext, GStep, Ended

-----------------------------------------------------------------------------
\* A policy that is returned has been parsed to its end and, when the call asked
\* for it, its first filter has no shaded term.
LEMMA ReturnedIsCompiled ==
  ASSUME PInv, pc = "idle", result = "policy"
  PROVE  /\ Filters # <<>>
         /\ \A f \in DOMAIN Filters : ~Unparsed(Filters[f])
         /\ call.shade_check => ~Contains(Filters[1], "shaded")
<1>1. PTypeOK /\ PolicyReturned /\ FiltersDone
  BY DEF PInv
<1>2. Filters \in Seq(Seq(TermKinds))
  BY <1>1, FiltersType
<1>3. Len(Filters) >= 1 /\ DOMAIN Filters = 1..(fi - 1)
  BY <1>1, <1>2 DEF PolicyReturned
<1> QED
  BY <1>1, <1>2, <1>3 DEF PolicyReturned, FiltersDone, Asked

\* A second call with a policy that was returned once, in which no terms are
\* compared, returns it again or raises.
LEMMA ReparseReturns ==
  ASSUME PInv, pc = "idle", calls > 0, Filters # <<>>, ~Asked,
         \A f \in DOMAIN Filters : ~Unparsed(Filters[f])
  PROVE  result \in {"raised", "ShadingError", "policy"}
BY DEF PInv, PTypeOK, Results, NothingReturned

\* The targets of one header more.
LEMMA OneMoreHeader ==
  ASSUME hi \in Nat \ {0}, hi \in DOMAIN Headers, DOMAIN Headers \subseteq Nat
  PROVE  Targeted(hi) = Targeted(hi - 1) \cup Headers[hi]
BY DEF Targeted

\* A step of aclgen leaves its arguments alone, and the file it is at except
\* when it takes the next one.
LEMMA Bystanders ==
  ASSUME [GNext]_vars
  PROVE  /\ UNCHANGED args
         /\ ~StartFile => UNCHANGED si
BY DEF GNext, GStep, StartFile, Parsing, Parsed, CopyForHeader, Reparsed,
       HeadersDone, Render, RenderFails, Skip, FileDone, Ended, vars, gvars

\* The platforms that hold a policy after the headers' loop has taken a turn.
LEMMA CopiesHeld ==
  ASSUME GTypes, si > 0, hi \in DOMAIN Headers, NEW targets \in SUBSET Platforms,
         obj' = [p \in Platforms |-> IF p \in targets THEN Copy(p) ELSE obj[p]]
  PROVE  Holding' = Holding \cup targets
<1>1. si \in Nat /\ hi \in Nat
  BY SourcesType DEF GTypes
<1>2. \A p \in Platforms : Copy(p) # NONE
  BY <1>1, AclGenAssumption DEF Copy
<1> QED
  BY <1>2 DEF Holding

\* A step keeps the stages of a file in order.
LEMMA StageStep == GInv /\ PInv' /\ GTypes' /\ [GNext]_vars => Stages'
<1> SUFFICES ASSUME GInv, PInv', GTypes', [GNext]_vars PROVE Stages'
  OBVIOUS
<1>0. GTypes /\ Stages /\ PInv /\ UNCHANGED <<sources, shadeOpt>>
  BY Bystanders DEF GInv, args
<1>a. gpc \in {"headers", "reparsing", "render", "parsing"} =>
        /\ Headers \in Seq(SUBSET Platforms)
        /\ Len(Headers) \in Nat
        /\ DOMAIN Headers = 1..Len(Headers)
  BY <1>0, SourcesType, SourceType DEF Stages, Headers, Source
<1>1. CASE StartFile
  <2>1. /\ gpc' = "parsing" /\ si' = si + 1 /\ hi' = 1 /\ gi' = 1
        /\ obj' = NoObjects
        /\ pc' = "preprocess"
        /\ call'.policy = sources[si + 1].policy /\ call'.shade_check = shadeOpt
        /\ calls' = calls + 1
    BY <1>1 DEF StartFile, ParsePolicy
  <2>2. Holding' = {}
    BY <2>1 DEF Holding, NoObjects
  <2>3. Called'
    BY <1>0, <2>1 DEF Called, Policy, Source, PInv, PTypeOK
  <2>4. si' > 0
    BY <1>0, <2>1, SourcesType DEF GTypes
  <2> QED
    BY <1>0, <2>1, <2>2, <2>3, <2>4 DEF Stages
<1>2. CASE Parsing
  <2>1. UNCHANGED gvars /\ gpc \in {"parsing", "reparsing"} /\ UNCHANGED <<call, entry, calls>>
    BY <1>2 DEF Parsing, Compile, Preprocess, ParseFilter, AddFilter, TranslateTerm,
                FilterTranslated, DetectShading
  <2>2. UNCHANGED <<Source, Holding, Targeted(hi - 1), Called, Asked, Compiled>>
    BY <2>1 DEF gvars, args, Asked, Source, Holding, Targeted, Called, Compiled, Policy, Headers
  <2> QED
    BY <1>0, <2>1, <2>2 DEF Stages, gvars, args, Headers
<1>3. CASE Parsed
  <2>1. /\ UNCHANGED <<pvars, sources, shadeOpt, si, hi, gi, obj>>
        /\ gpc = "parsing" /\ pc = "idle"
        /\ \/ gpc' = "headers" /\ result = "policy"
           \/ gpc' = "crashed"
    BY <1>3 DEF Parsed, args
  <2>2. ASSUME result = "policy" PROVE Compiled'
    <3>1. Filters = Policy.filters /\ call.shade_check = shadeOpt
      BY <1>0, <2>1 DEF Stages, Called, Filters
    <3> QED
      BY <1>0, <2>1, <2>2, <3>1, ReturnedIsCompiled DEF Compiled, Policy, Source
  <2>3. /\ Holding' = {}
        /\ Targeted(hi - 1)' = {}
        /\ hi' = 1 /\ gi' = 1 /\ si' > 0 /\ pc' = "idle"
        /\ hi' <= Len(Headers)' + 1
    BY <1>0, <1>a, <2>1 DEF Stages, Holding, Targeted, Headers, Source, pvars
  <2> QED
    BY <2>1, <2>2, <2>3 DEF Stages, pvars
<1>4. CASE CopyForHeader
  <2>1. /\ UNCHANGED <<sources, shadeOpt, si, gi>>
        /\ gpc = "headers" /\ pc = "idle" /\ hi <= Len(Headers)
        /\ obj' = [p \in Platforms |-> IF p \in Headers[hi] \ {"srx"} THEN Copy(p) ELSE obj[p]]
    BY <1>0, <1>4 DEF CopyForHeader, Stages, Headers, args
  <2>2. /\ hi \in DOMAIN Headers /\ si > 0 /\ gi = 1 /\ Compiled /\ Holding = Targeted(hi - 1)
        /\ result = "policy"
    BY <1>0, <1>a, <2>1 DEF Stages, GTypes
  <2>3. Holding' = Holding \cup (Headers[hi] \ {"srx"})
    <3>1. Headers[hi] \ {"srx"} \in SUBSET Platforms
      BY <1>a, <2>1, <2>2
    <3> QED
      BY <1>0, <2>1, <2>2, <3>1, CopiesHeld
  <2>4. UNCHANGED <<Source, Headers, Policy, Compiled>>
    BY <2>1 DEF Source, Headers, Policy, Compiled
  <2>5. CASE /\ "srx" \in Headers[hi]
             /\ ParsePolicy(Policy, FALSE, FALSE)
             /\ gpc' = "reparsing"
             /\ UNCHANGED hi
    <3>1. Called' /\ ~Asked'
      <4>1. ~shadeFlag
        BY <1>0, <2>1 DEF Stages, PInv, PolicyLeavesNoFlag
      <4> QED
        BY <1>0, <2>4, <2>5, <4>1 DEF Called, Asked, ParsePolicy, PInv, PTypeOK
    <3>2. Targeted(hi - 1)' = Targeted(hi - 1)
      BY <2>4, <2>5 DEF Targeted
    <3> QED
      BY <2>1, <2>2, <2>3, <2>4, <2>5, <3>1, <3>2 DEF Stages
  <2>6. CASE /\ "srx" \notin Headers[hi]
             /\ hi' = hi + 1
             /\ UNCHANGED <<pvars, gpc>>
    <3>1. Targeted(hi) = Targeted(hi - 1) \cup Headers[hi]
      BY <1>0, <1>a, <2>1, <2>2, OneMoreHeader DEF GTypes
    <3>2. Targeted(hi - 1)' = Targeted(hi)
      BY <1>0, <2>4, <2>6 DEF Targeted, GTypes
    <3>3. Holding' = Targeted(hi - 1)'
      BY <2>2, <2>3, <2>6, <3>1, <3>2
    <3>4. hi' <= Len(Headers)' + 1 /\ pc' = "idle" /\ result' = "policy"
      BY <1>0, <1>a, <2>1, <2>2, <2>4, <2>6 DEF GTypes, pvars
    <3> QED
      BY <2>1, <2>2, <2>4, <2>6, <3>3, <3>4 DEF Stages
  <2> QED
    BY <1>4, <2>5, <2>6 DEF CopyForHeader, Headers, Policy
<1>5. CASE Reparsed
  <2>1. /\ UNCHANGED <<pvars, sources, shadeOpt, si, gi>>
        /\ gpc = "reparsing" /\ pc = "idle"
    BY <1>5 DEF Reparsed, args
  <2>2. /\ hi \in DOMAIN Headers /\ si > 0 /\ gi = 1 /\ Compiled /\ Called /\ ~Asked
        /\ "srx" \in Headers[hi]
        /\ Holding = Targeted(hi - 1) \cup (Headers[hi] \ {"srx"})
    BY <1>0, <2>1 DEF Stages
  <2>3. UNCHANGED <<Source, Headers, Policy, Compiled>>
    BY <2>1 DEF Source, Headers, Policy, Compiled
  <2>4. CASE gpc' = "crashed"
    BY <2>4 DEF Stages
  <2>5. CASE result \notin {"raised", "ShadingError"}
    <3>1. result = "policy"
      BY <1>0, <2>1, <2>2, <2>5, ReparseReturns DEF Called, Compiled, Filters
    <3>2. gpc' = "headers" /\ hi' = hi + 1 /\ obj' = [obj EXCEPT !["srx"] = Copy("srx")]
      BY <1>5, <2>5, <3>1 DEF Reparsed
    <3>3. "srx" \in Platforms
      BY <1>a, <2>1, <2>2
    <3>4. Holding' = Holding \cup {"srx"}
      <4>1. obj' = [p \in Platforms |-> IF p \in {"srx"} THEN Copy(p) ELSE obj[p]]
        BY <1>0, <3>2, <3>3 DEF GTypes
      <4> QED
        BY <1>0, <2>2, <3>3, <4>1, CopiesHeld
    <3>5. Targeted(hi) = Targeted(hi - 1) \cup Headers[hi]
      BY <1>0, <1>a, <2>1, <2>2, OneMoreHeader DEF GTypes
    <3>6. Targeted(hi - 1)' = Targeted(hi)
      <4>1. hi \in Nat /\ hi' = hi + 1 /\ Headers' = Headers
        BY <1>0, <2>3, <3>2 DEF GTypes
      <4> QED
        BY <4>1 DEF Targeted
    <3>7. Holding' = Targeted(hi - 1)'
      BY <2>2, <3>4, <3>5, <3>6
    <3>8. hi' <= Len(Headers)' + 1 /\ pc' = "idle"
      BY <1>0, <1>a, <2>1, <2>2, <2>3, <3>2 DEF GTypes, pvars
    <3> QED
      BY <2>1, <2>2, <2>3, <3>1, <3>2, <3>7, <3>8 DEF Stages, pvars
  <2> QED
    BY <1>5, <2>4, <2>5 DEF Reparsed
<1>6. CASE HeadersDone
  <2>1. /\ UNCHANGED <<pvars, sources, shadeOpt, si, hi, gi, obj>>
        /\ gpc = "headers" /\ gpc' = "render" /\ hi > Len(Headers)
    BY <1>6 DEF HeadersDone, args, Headers
  <2>2. /\ si > 0 /\ gi = 1 /\ Compiled /\ pc = "idle"
        /\ hi <= Len(Headers) + 1 /\ Holding = Targeted(hi - 1)
    BY <1>0, <2>1 DEF Stages
  <2>3. Targeted(hi - 1) = TargetsOf(si)
    BY <1>0, <1>a, <2>1, <2>2 DEF Targeted, TargetsOf, Headers, Source, GTypes
  <2>4. UNCHANGED <<Holding, TargetsOf(si), Compiled>>
    BY <2>1 DEF Holding, TargetsOf, Compiled, Policy, Source
  <2>5. gi' <= Len(Generators) + 1
    BY <1>0, <2>1, <2>2, SourcesType
  <2> QED
    BY <2>1, <2>2, <2>3, <2>4, <2>5 DEF Stages, pvars
<1>7. CASE Render \/ Skip
  <2>1. /\ UNCHANGED <<pvars, sources, shadeOpt, si, hi, obj, gpc>>
        /\ gpc = "render" /\ gi <= Len(Generators) /\ gi' = gi + 1
    BY <1>7 DEF Render, Skip, args
  <2>2. UNCHANGED <<Holding, TargetsOf(si), Compiled>>
    BY <2>1 DEF Holding, TargetsOf, Compiled, Policy, Source
  <2>3. gi' <= Len(Generators) + 1
    BY <1>0, <2>1, SourcesType DEF GTypes
  <2> QED
    BY <1>0, <2>1, <2>2, <2>3 DEF Stages, pvars
<1>8. CASE RenderFails \/ FileDone
  <2>1. UNCHANGED pc /\ gpc = "render" /\ gpc' \in {"crashed", "done", "next"}
    BY <1>8 DEF RenderFails, FileDone, pvars
  <2> QED
    BY <1>0, <2>1 DEF Stages
<1>9. CASE UNCHANGED vars
  BY <1>0, <1>9 DEF Stages, vars, gvars, args, pvars, Headers, Source, Policy, Compiled,
                    Called, Asked, Holding, Targeted, TargetsOf
<1> QED
  BY <1>1, <1>2, <1>3, <1>4, <1>5, <1>6, <1>7, <1>8, <1>9 DEF GNext, GStep, Ended

-----------------------------------------------------------------------------
\* What a step that writes nothing must keep of the outputs.
LEMMA NothingWritten ==
  ASSUME GInv, UNCHANGED <<written, sources, shadeOpt, si>>,
         gpc' \in {"next", "done"} /\ si > 0 => WrittenFor(si) = TargetsOf(si),
         gpc' \in {"parsing", "headers", "reparsing"} => WrittenFor(si) = {},
         gpc' = "render" =>
           WrittenFor(si) =
             {p \in TargetsOf(si) : \E k \in 1..(gi' - 1) : Generators[k] = p}
  PROVE  Outputs' /\ ShadedFileNotRendered'
<1>1. \A s : UNCHANGED <<WrittenFor(s), TargetsOf(s)>>
  BY DEF WrittenFor, TargetsOf
<1>2. Outputs'
  BY <1>1 DEF GInv, Outputs
<1>3. ShadedFileNotRendered'
  BY DEF GInv, ShadedFileNotRendered
<1> QED
  BY <1>2, <1>3

\* The platforms written for a source after one more output.
LEMMA OneMoreOutput ==
  ASSUME written \in Seq(Records), NEW r \in Records, written' = Append(written, r),
         NEW s
  PROVE  /\ Len(written) \in Nat
         /\ DOMAIN written = 1..Len(written)
         /\ DOMAIN written' = 1..(Len(written) + 1)
         /\ \A i \in DOMAIN written : written'[i] = written[i]
         /\ written'[Len(written) + 1] = r
         /\ WrittenFor(s)' =
              WrittenFor(s) \cup {p \in {r.platform} : r.source = s}
<1>1. /\ Len(written) \in Nat
      /\ DOMAIN written = 1..Len(written)
      /\ DOMAIN written' = 1..(Len(written) + 1)
      /\ \A i \in DOMAIN written : written'[i] = written[i]
      /\ written'[Len(written) + 1] = r
  <2> HIDE DEF Records
  <2> QED
    BY AppendProperties
<1> QED
  BY <1>1 DEF WrittenFor

\* A platform that is rendered had not been written for the file before.
LEMMA RenderStep == GInv /\ GTypes' /\ Render => Outputs' /\ ShadedFileNotRendered'
<1> SUFFICES ASSUME GInv, GTypes', Render PROVE Outputs' /\ ShadedFileNotRendered'
  OBVIOUS
<1> DEFINE p == Generators[gi]
<1> DEFINE r == [file |-> FilterName(Source, p), source |-> si, platform |-> p]
<1>1. /\ UNCHANGED <<sources, shadeOpt, si, gpc>> /\ gi' = gi + 1
      /\ written' = Append(written, r)
      /\ gpc = "render" /\ gi <= Len(Generators) /\ obj[p] # NONE
  BY DEF Render, args
<1>2. /\ GTypes /\ Stages /\ Outputs /\ ShadedFileNotRendered
      /\ si \in DOMAIN sources /\ si > 0 /\ si \in Nat /\ gi \in 1..Len(Generators)
      /\ Compiled
  BY <1>1, SourcesType DEF GInv, Stages, GTypes
<1>3. p \in Platforms /\ p \in TargetsOf(si)
  BY <1>1, <1>2, SourcesType DEF Stages, Holding
<1>4. r \in Records
  BY <1>2, <1>3 DEF Records, Source
<1> DEFINE n == Len(written)
<1>5. /\ n \in Nat
      /\ DOMAIN written = 1..n
      /\ DOMAIN written' = 1..(n + 1)
      /\ \A i \in DOMAIN written : written'[i] = written[i]
      /\ written'[n + 1] = r
      /\ \A s : WrittenFor(s)' = WrittenFor(s) \cup {q \in {p} : si = s}
  <2>1. written \in Seq(Records) /\ r.platform = p /\ r.source = si
    BY <1>2 DEF GTypes
  <2> HIDE DEF r
  <2> QED
    BY <1>1, <1>4, <2>1, OneMoreOutput
<1>6. p \notin WrittenFor(si)
  BY <1>1, <1>2, SourcesType, AclGenAssumption DEF Outputs
<1>7. r.source = si /\ r.platform = p /\ r.file = FilterName(sources[si], p)
  BY DEF Source
<1> HIDE DEF r, p
<1>8. \A i \in DOMAIN written' :
        /\ written'[i].source \in 1..si
        /\ written'[i].file =
             FilterName(sources[written'[i].source], written'[i].platform)
  BY <1>2, <1>5, <1>7 DEF Outputs
<1>9. \A i, j \in DOMAIN written' :
        (/\ written'[i].source = written'[j].source
         /\ written'[i].platform = written'[j].platform) => i = j
  <2>1. \A i \in DOMAIN written :
          ~(written[i].source = si /\ written[i].platform = p)
    BY <1>6 DEF WrittenFor
  <2> QED
    BY <1>2, <1>5, <1>7, <2>1 DEF Outputs
<1>10. \A s \in 1..(si - 1) : WrittenFor(s)' = TargetsOf(s)
  <2> SUFFICES ASSUME NEW s \in 1..(si - 1) PROVE WrittenFor(s)' = TargetsOf(s)
    OBVIOUS
  <2>1. s # si /\ WrittenFor(s) = TargetsOf(s)
    BY <1>2 DEF Outputs
  <2>2. WrittenFor(s)' = WrittenFor(s) \cup {q \in {p} : si = s}
    BY <1>5
  <2> QED
    BY <2>1, <2>2
<1>11. WrittenFor(si)' =
         {q \in TargetsOf(si) : \E k \in 1..(gi' - 1) : Generators[k] = q}
  BY <1>1, <1>2, <1>3, <1>5 DEF Outputs, GTypes, p
<1>12. TargetsOf(si)' = TargetsOf(si) /\ \A s : TargetsOf(s)' = TargetsOf(s)
  BY <1>1 DEF TargetsOf
<1>13. Outputs'
  BY <1>1, <1>8, <1>9, <1>10, <1>11, <1>12 DEF Outputs
<1>14. ShadedFileNotRendered'
  <2>1. shadeOpt => ~Contains(sources[si].policy.filters[1], "shaded")
    BY <1>2 DEF Compiled, Policy, Source
  <2> QED
    BY <1>1, <1>2, <1>5, <1>7, <2>1 DEF ShadedFileNotRendered
<1> QED
  BY <1>13, <1>14

\* A step keeps the record of the outputs in agreement with where the run is.
LEMMA OutputStep ==
  GInv /\ GTypes' /\ [GNext]_vars => Outputs' /\ ShadedFileNotRendered'
<1> SUFFICES ASSUME GInv, GTypes', [GNext]_vars
             PROVE  Outputs' /\ ShadedFileNotRendered'
  OBVIOUS
<1>0. GTypes /\ Stages /\ Outputs /\ UNCHANGED <<sources, shadeOpt>>
  BY Bystanders DEF GInv, args
<1>1. CASE StartFile
  <2>1. /\ gpc = "next" /\ gpc' = "parsing" /\ si' = si + 1 /\ UNCHANGED written
        /\ si \in Nat
    BY <1>0, <1>1, SourcesType DEF StartFile, GTypes
  <2>2. \A s : UNCHANGED <<WrittenFor(s), TargetsOf(s)>>
    BY <1>0, <2>1 DEF WrittenFor, TargetsOf
  <2>3. \A s \in 1..si : WrittenFor(s) = TargetsOf(s)
    BY <1>0, <2>1 DEF Outputs
  <2>4. WrittenFor(si + 1) = {}
    BY <1>0, <2>1 DEF Outputs, WrittenFor
  <2>5. Outputs'
    BY <1>0, <2>1, <2>2, <2>3, <2>4 DEF Outputs
  <2> QED
    BY <1>0, <2>1, <2>5 DEF GInv, ShadedFileNotRendered
<1>2. CASE Render
  BY <1>2, RenderStep
<1>3. CASE Skip
  <2>1. /\ UNCHANGED <<written, si, gpc>> /\ gi' = gi + 1
        /\ gpc = "render" /\ gi <= Len(Generators) /\ obj[Generators[gi]] = NONE
    BY <1>3 DEF Skip, args
  <2>2. gi \in 1..Len(Generators)
    BY <1>0, <2>1, SourcesType DEF GTypes
  <2>3. Generators[gi] \notin TargetsOf(si)
    BY <1>0, <2>1, <2>2, SourcesType DEF Stages, Holding
  <2>4. WrittenFor(si) =
          {p \in TargetsOf(si) : \E k \in 1..(gi' - 1) : Generators[k] = p}
    BY <1>0, <2>1, <2>2, <2>3, SourcesType DEF Outputs
  <2> QED
    BY <1>0, <2>1, <2>4, NothingWritten
<1>4. CASE FileDone
  <2>1. /\ UNCHANGED <<written, si, gi>> /\ gpc' \in {"next", "done"}
        /\ gpc = "render" /\ gi > Len(Generators)
    BY <1>4 DEF FileDone, args
  <2>2. TargetsOf(si) \subseteq Platforms
    BY <1>0, <2>1, SourcesType, SourceType DEF Stages, TargetsOf
  <2>3. gi - 1 = Len(Generators) /\ gi \in Nat
    BY <1>0, <2>1, SourcesType DEF Stages, GTypes
  <2>4. WrittenFor(si) = TargetsOf(si)
    <3>1. \A p \in Platforms : \E k \in 1..(gi - 1) : Generators[k] = p
      BY <2>3, AclGenAssumption DEF Platforms
    <3> QED
      BY <1>0, <2>1, <2>2, <3>1 DEF Outputs
  <2> QED
    BY <1>0, <2>1, <2>4, NothingWritten
<1>5. CASE HeadersDone
  <2>1. UNCHANGED <<written, si, gi>> /\ gpc = "headers" /\ gpc' = "render" /\ gi = 1
    BY <1>0, <1>5 DEF HeadersDone, args, Stages
  <2>2. WrittenFor(si) = {}
    BY <1>0, <2>1 DEF Outputs
  <2> QED
    BY <1>0, <2>1, <2>2, NothingWritten
<1>6. CASE Parsing \/ Parsed \/ CopyForHeader \/ Reparsed
  <2>1. /\ UNCHANGED <<written, si>> /\ gpc \in {"parsing", "headers", "reparsing"}
        /\ gpc' \in {"parsing", "headers", "reparsing", "crashed"}
    BY <1>6 DEF Parsing, Parsed, CopyForHeader, Reparsed, args, gvars
  <2>2. WrittenFor(si) = {}
    BY <1>0, <2>1 DEF Outputs
  <2> QED
    BY <1>0, <2>1, <2>2, NothingWritten
<1>7. CASE RenderFails
  <2>1. UNCHANGED <<written, si>> /\ gpc' = "crashed"
    BY <1>7 DEF RenderFails, args
  <2> QED
    BY <1>0, <2>1, NothingWritten
<1>8. CASE UNCHANGED vars
  <2>1. UNCHANGED <<written, si, gi, gpc>>
    BY <1>8 DEF vars, gvars
  <2> QED
    BY <1>0, <2>1, NothingWritten DEF Outputs
<1> QED
  BY <1>1, <1>2, <1>3, <1>4, <1>5, <1>6, <1>7, <1>8 DEF GNext, GStep, Ended

\* The inductive invariant holds throughout a run of aclgen.
LEMMA GInvariant == GSpec => []GInv
<1>1. GInit => GInv
  <2> SUFFICES ASSUME GInit PROVE GInv
    OBVIOUS
  <2>1. PInv
    BY PInitial DEF GInit
  <2>2. GTypes
    <3>1. sources \in Directories /\ Len(sources) \in Nat
      BY AclGenAssumption DEF GInit
    <3>2. obj \in [Platforms -> {NONE} \cup Nat \X Nat \X Platforms]
      BY DEF GInit, NoObjects
    <3>3. written \in Seq(Records)
      BY EmptySeq DEF GInit
    <3> QED
      BY <3>1, <3>2, <3>3 DEF GInit, GTypes
  <2>3. Stages /\ Outputs /\ ShadedFileNotRendered
    BY DEF GInit, PInit, Stages, Outputs, ShadedFileNotRendered, WrittenFor
  <2> QED
    BY <2>1, <2>2, <2>3 DEF GInv
<1>2. GInv /\ [GNext]_vars => GInv'
  <2> SUFFICES ASSUME GInv, [GNext]_vars PROVE GInv'
    OBVIOUS
  <2>1. PInv'
    BY CallsStep, PStep DEF GInv
  <2>2. GTypes'
    BY GTypeStep
  <2>3. Stages'
    BY <2>1, <2>2, StageStep
  <2>4. Outputs' /\ ShadedFileNotRendered'
    BY <2>2, OutputStep
  <2> QED
    BY <2>1, <2>2, <2>3, <2>4 DEF GInv
<1> QED
  BY <1>1, <1>2, PTL DEF GSpec

\* A sequence but for its last element, and that element.
LEMMA FrontAndLast ==
  ASSUME NEW T, NEW a \in Seq(T), Len(a) > 0
  PROVE  Front(a) \in Seq(T) /\ a = Front(a) \o <<Last(a)>>
BY DEF Front, Last

\* What is left of a sequence and what was put behind it.
LEMMA EndsDiffer ==
  ASSUME NEW T, NEW a \in Seq(T), NEW b \in Seq(T), NEW x \in T, NEW y \in T,
         a \o <<x>> = b \o <<y>>
  PROVE  a = b /\ x = y
<1> DEFINE n == Len(a)
           m == Len(b)
           s == a \o <<x>>
<1>1. /\ n \in Nat /\ m \in Nat /\ Len(s) = n + 1 /\ Len(b \o <<y>>) = m + 1
      /\ s[n + 1] = x /\ (b \o <<y>>)[m + 1] = y
      /\ \A k \in 1..n : s[k] = a[k]
      /\ \A k \in 1..m : (b \o <<y>>)[k] = b[k]
  OBVIOUS
<1>2. n = m /\ x = y
  BY <1>1
<1>3. \A k \in 1..n : a[k] = b[k]
  BY <1>1, <1>2
<1> QED
  BY <1>2, <1>3

LEMMA Single ==
  ASSUME NEW T, NEW x \in T
  PROVE  <<x>> \in Seq(T)
OBVIOUS

Words == {"jcl", "acl", "asa", "ips", "pf", "ipt", "srx", "demo"}

\* The parts of a name before and after it has been given a suffix.
Part == STRING \cup Words

LEMMA SeqOfMore ==
  ASSUME NEW S, NEW T, S \subseteq T, NEW a \in Seq(S)
  PROVE  a \in Seq(T)
<1>1. Len(a) \in Nat /\ a \in [1..Len(a) -> S]
  BY LenProperties
<1>2. a \in [1..Len(a) -> T]
  BY <1>1
<1> QED
  BY <1>1, <1>2

\* A suffix is a single part, but for the one that is empty, and no other's.
LEMMA SuffixParts ==
  ASSUME NEW p \in DOMAIN Suffix, NEW q \in DOMAIN Suffix
  PROVE  /\ Suffix[p] = <<>> \/ \E x \in Words : Suffix[p] = <<x>>
         /\ Suffix[p] = Suffix[q] => p = q
<1> DEFINE S == Suffix
<1>1. DOMAIN S = {"juniper", "cisco", "ciscoasa", "iptables", "ipset", "packetfilter",
                  "speedway", "srx", "demo"}
  BY DEF Suffix
<1>2. /\ S["juniper"] = <<"jcl">> /\ S["cisco"] = <<"acl">> /\ S["ciscoasa"] = <<"asa">>
      /\ S["iptables"] = <<>> /\ S["ipset"] = <<"ips">> /\ S["packetfilter"] = <<"pf">>
      /\ S["speedway"] = <<"ipt">> /\ S["srx"] = <<"srx">> /\ S["demo"] = <<"demo">>
  BY DEF Suffix
<1> HIDE DEF S
<1>3. \A x : <<x>> # <<>> /\ <<x>>[1] = x
  OBVIOUS
<1>4. \A r \in DOMAIN S : S[r] = <<>> \/ \E x \in Words : S[r] = <<x>>
  BY <1>1, <1>2 DEF Words
<1>5. /\ S["juniper"][1] = "jcl" /\ S["cisco"][1] = "acl" /\ S["ciscoasa"][1] = "asa"
      /\ S["ipset"][1] = "ips" /\ S["packetfilter"][1] = "pf"
      /\ S["speedway"][1] = "ipt" /\ S["srx"][1] = "srx" /\ S["demo"][1] = "demo"
      /\ \A r \in DOMAIN S : r # "iptables" => S[r] # <<>>
  BY <1>1, <1>2, <1>3
<1>6. ASSUME S[p] = S[q] PROVE p = q
  <2>1. CASE p = "iptables" \/ q = "iptables"
    BY <1>2, <1>5, <1>6, <2>1 DEF S
  <2>2. CASE p # "iptables" /\ q # "iptables"
    <3>1. S[p][1] = S[q][1]
      BY <1>6
    <3> QED
      BY <1>1, <1>5, <2>2, <3>1 DEF S
  <2> QED
    BY <2>1, <2>2
<1> QED
  BY <1>4, <1>6 DEF S

\* Two outputs of a run that have the same name are one, or one of them is of
\* another file and has no suffix.
LEMMA NamesDiffer ==
  ASSUME GTypes, NEW s \in DOMAIN sources, NEW t \in DOMAIN sources,
         NEW p \in Platforms, NEW q \in Platforms,
         FilterName(sources[s], p) = FilterName(sources[t], q)
  PROVE  \/ s = t /\ p = q
         \/ s # t /\ (Suffix[p] = <<>> \/ Suffix[q] = <<>>)
<1> DEFINE a == sources[s].dir
           b == sources[t].dir
           m == sources[s].name
           n == sources[t].name
<1>1. /\ a \in Seq(STRING) /\ b \in Seq(STRING) /\ Len(a) > 0 /\ Len(b) > 0
      /\ m \in Seq(STRING) /\ n \in Seq(STRING) /\ Len(m) > 0 /\ Len(n) > 0
      /\ Head(a) = Head(b) /\ Last(m) = Last(n)
      /\ a = b /\ m = n => s = t
      /\ s = t => m = n
      /\ p \in DOMAIN Suffix /\ q \in DOMAIN Suffix
  <2>1. /\ a \in Seq(STRING) /\ b \in Seq(STRING) /\ m \in Seq(STRING) /\ n \in Seq(STRING)
        /\ p \in DOMAIN Suffix /\ q \in DOMAIN Suffix
    BY AclGenAssumption, SourceType
  <2>2. /\ Len(a) > 0 /\ Len(b) > 0 /\ Len(m) > 1 /\ Len(n) > 1
        /\ Head(a) = Head(b) /\ Last(m) = "pol" /\ Last(n) = "pol"
        /\ a = b /\ m = n => s = t
    BY AclGenAssumption DEF GTypes
  <2> HIDE DEF a, b
  <2>3. s = t => m = n
    OBVIOUS
  <2> HIDE DEF m, n
  <2> QED
    BY <2>1, <2>2, <2>3
<1>2. Tail(a) = Tail(b) /\ Front(m) \o Suffix[p] = Front(n) \o Suffix[q]
  BY DEF FilterName
<1>3. a = b
  <2> HIDE DEF a, b
  <2>1. a = <<Head(a)>> \o Tail(a)
    BY <1>1, HeadTailProperties
  <2>2. b = <<Head(b)>> \o Tail(b)
    BY <1>1, HeadTailProperties
  <2> QED
    BY <1>1, <1>2, <2>1, <2>2
<1> HIDE DEF a, b, m, n
<1>4. /\ Front(m) \in Seq(STRING) /\ Front(n) \in Seq(STRING)
      /\ m = Front(m) \o <<Last(m)>> /\ n = Front(n) \o <<Last(n)>>
  BY <1>1, FrontAndLast
<1>5. CASE Suffix[p] # <<>> /\ Suffix[q] # <<>>
  <2>1. PICK x \in Words : Suffix[p] = <<x>>
    BY <1>1, <1>5, SuffixParts
  <2>2. PICK y \in Words : Suffix[q] = <<y>>
    BY <1>1, <1>5, SuffixParts
  <2>3. Front(m) = Front(n) /\ x = y
    <3> DEFINE T == Part
               f == Front(m)
               g == Front(n)
    <3>1. f \in Seq(T) /\ g \in Seq(T) /\ x \in T /\ y \in T /\ f \o <<x>> = g \o <<y>>
      <4>1. STRING \subseteq T /\ x \in T /\ y \in T
        BY DEF Part
      <4>2. f \in Seq(T) /\ g \in Seq(T)
        BY <1>4, <4>1, SeqOfMore
      <4> QED
        BY <1>2, <2>1, <2>2, <4>1, <4>2
    <3> HIDE DEF T, f, g
    <3>2. f = g /\ x = y
      BY <3>1, EndsDiffer
    <3> QED
      BY <3>2 DEF f, g
  <2> QED
    BY <1>1, <1>3, <1>4, <2>1, <2>2, <2>3, SuffixParts
<1>6. CASE s = t
  <2>1. Front(m) = Front(n)
    BY <1>1, <1>6
  <2>2. Suffix[p] = Suffix[q]
    <3>1. Suffix[p] \in Seq(Part) /\ Suffix[q] \in Seq(Part) /\ Front(m) \in Seq(Part)
      <4> DEFINE T == Part
      <4>1. \A r \in {p, q} : Suffix[r] = <<>> \/ \E x \in T : Suffix[r] = <<x>>
        BY <1>1, SuffixParts DEF Part
      <4>2. Front(m) \in Seq(T)
        <5>1. STRING \subseteq T
          BY DEF Part
        <5> QED
          BY <1>4, <5>1, SeqOfMore
      <4> SUFFICES Suffix[p] \in Seq(T) /\ Suffix[q] \in Seq(T)
        BY <4>2
      <4> HIDE DEF T
      <4> QED
        BY <4>1, Single, EmptySeq
    <3> DEFINE u == Suffix[p]
               v == Suffix[q]
               f == Front(m)
    <3>2. f \o u = f \o v /\ f \in Seq(Part) /\ u \in Seq(Part) /\ v \in Seq(Part)
      BY <1>2, <1>4, <2>1, <3>1
    <3> HIDE DEF u, v, f
    <3>3. Len(u) = Len(v)
      BY <3>2
    <3>4. \A k \in 1..Len(u) : u[k] = v[k]
      <4> SUFFICES ASSUME NEW k \in 1..Len(u) PROVE u[k] = v[k]
        OBVIOUS
      <4>1. (f \o u)[Len(f) + k] = u[k] /\ (f \o v)[Len(f) + k] = v[k]
        BY <3>2, <3>3
      <4> QED
        BY <3>2, <4>1
    <3>5. u = v
      BY <3>2, <3>3, <3>4
    <3> QED
      BY <3>5 DEF u, v
  <2> QED
    BY <1>1, <1>6, <2>2, SuffixParts
<1> QED
  BY <1>5, <1>6

\* The calls aclgen makes are calls as PolicyCompile has them: what is proved of
\* ParsePolicy holds during a run.
THEOREM RunsCompile == GSpec => PSpec
<1>1. GInit => PInit
  BY DEF GInit
<1> QED
  BY <1>1, CallsStep, GInvariant, PTL DEF GSpec, PSpec

\* However a run of aclgen ends, every file before the one it is at has been
\* written once for each platform its headers target, and no later one has been
\* touched.  An output file takes the place of another only when they are of
\* different files and one is for a platform without a suffix.
THEOREM FilesAreComplete == GSpec => []EarlierFilesComplete
<1>1. GInv => EarlierFilesComplete
  <2> SUFFICES ASSUME GInv, NEW s \in DOMAIN sources
               PROVE  /\ s < si \/ (s = si /\ gpc \in {"next", "done"})
                           => WrittenFor(s) = TargetsOf(s)
                      /\ s > si => WrittenFor(s) = {}
                      /\ \A i, j \in DOMAIN written :
                           written[i].file = written[j].file =>
                             \/ i = j
                             \/ /\ written[i].source # written[j].source
                                /\ \E k \in {i, j} : Suffix[written[k].platform] = <<>>
    BY DEF EarlierFilesComplete
  <2>1. GTypes /\ Outputs /\ s \in 1..Len(sources) /\ si \in Nat /\ Len(sources) \in Nat
    BY SourcesType DEF GInv, GTypes
  <2>2. s < si \/ (s = si /\ gpc \in {"next", "done"}) => WrittenFor(s) = TargetsOf(s)
    BY <2>1 DEF Outputs
  <2>3. s > si => WrittenFor(s) = {}
    BY <2>1 DEF Outputs, WrittenFor
  <2>4. ASSUME NEW i \in DOMAIN written, NEW j \in DOMAIN written,
               written[i].file = written[j].file
        PROVE  \/ i = j
               \/ /\ written[i].source # written[j].source
                  /\ \E k \in {i, j} : Suffix[written[k].platform] = <<>>
    <3>1. /\ written[i].source \in DOMAIN sources /\ written[j].source \in DOMAIN sources
          /\ written[i].platform \in Platforms /\ written[j].platform \in Platforms
      <4>1. written[i] \in Records /\ written[j] \in Records
        BY <2>1 DEF GTypes
      <4> QED
        BY <4>1 DEF Records
    <3>2. FilterName(sources[written[i].source], written[i].platform)
            = FilterName(sources[written[j].source], written[j].platform)
      BY <2>1, <2>4 DEF Outputs
    <3>3. \/ /\ written[i].source = written[j].source
             /\ written[i].platform = written[j].platform
          \/ /\ written[i].source # written[j].source
             /\ \/ Suffix[written[i].platform] = <<>>
                \/ Suffix[written[j].platform] = <<>>
      BY <2>1, <3>1, <3>2, NamesDiffer
    <3> QED
      BY <2>1, <3>3 DEF Outputs
  <2> QED
    BY <2>2, <2>3, <2>4
<1> QED
  BY <1>1, GInvariant, PTL

\* With --shade_check aclgen leaves no output of a file whose first filter has a
\* shaded term, whichever files it has rendered before.
THEOREM ShadedIsNotRendered == GSpec => []ShadedFileNotRendered
<1>1. GInv => ShadedFileNotRendered
  BY DEF GInv
<1> QED
  BY <1>1, GInvariant, PTL
=============================================================================
