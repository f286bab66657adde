---------------------------- MODULE PolicyCompile ----------------------------
(***************************************************************************)
(* lib/policy.py: ParsePolicy and the Policy object it builds.             *)
(*                                                                         *)
(* ParsePolicy passes its two options to the code that needs them through  *)
(* module globals: _OPTIMIZE, read when a term's addresses are cleaned up, *)
(* and _SHADE_CHECK, read when a filter is added.  Both are set at the     *)
(* start of a call and put back by the code that reads them, so their      *)
(* value depends on which term or filter came first and on how earlier     *)
(* calls ended.  The module models a process that calls ParsePolicy again  *)
(* and again (a caller may catch the exceptions of a call), each call      *)
(* going through its preprocessing, parsing, translation and shading       *)
(* steps in the parser's order: a filter is added when it has been parsed, *)
(* before the next one is.                                                 *)
(*                                                                         *)
(* The text of a policy is abstracted to what decides the control flow:    *)
(* whether its includes resolve, its filters, and for each term which      *)
(* step, if any, fails on it.                                              *)
(***************************************************************************)
EXTENDS Naturals, Sequences, SequencesExt

CONSTANTS
  Policies,   \* the policy texts the calls are given
  MaxCalls    \* bound on the number of calls

\* What becomes of a term: nothing fails on it ("good"); it contains nothing
\* new and is shaded by an earlier term of its filter ("shaded"); none of its
\* ports exists with its protocols ("badport"); SanityCheck rejects it
\* ("insane"); the grammar rejects it ("garbage"); a grammar action reads past
\* the end of its production ("short": packet-length with one number).  When it
\* is compared with the terms before it, their flattening runs off a list
\* ("overrun") or it is asked for an attribute no term has ("bareport").
TermKinds ==
  {"good", "shaded", "badport", "insane", "garbage", "short", "overrun", "bareport"}

\* What only a term with others before it can be.
LaterKinds == {"shaded", "overrun", "bareport"}

ASSUME PolicyAssumption ==
  /\ Policies \subseteq
       [include : {"resolved", "missing", "nested"},
        filters : Seq(Seq(TermKinds))]
  /\ \A p \in Policies : \A f \in DOMAIN p.filters :
       p.filters[f] # <<>> => Head(p.filters[f]) \notin LaterKinds
  /\ MaxCalls \in Nat

VARIABLES
  optimizeFlag,  \* global _OPTIMIZE
  shadeFlag,     \* global _SHADE_CHECK
  pc,            \* the step ParsePolicy is at
  call,          \* the arguments of the call in progress
  fi,            \* the filter being parsed or added
  ti,            \* the term being translated
  result,        \* how the last call ended
  calls,         \* calls begun
  entry,         \* history: the flags when the call began
  cleaned,       \* history: per filter, what AddressCleanup was told per term
  checked        \* history: the filters _DetectShading looked at

pvars == <<optimizeFlag, shadeFlag, pc, call, fi, ti, result, calls,
           entry, cleaned, checked>>

Results == {"pending", "policy", "None", "False", "raised", "ShadingError"}

PInit ==
  /\ optimizeFlag = TRUE
  /\ shadeFlag = FALSE
  /\ pc = "idle"
  /\ call \in [policy : Policies, optimize : {TRUE}, shade_check : {FALSE}]
  /\ fi = 0
  /\ ti = 0
  /\ result = "pending"
  /\ calls = 0
  /\ entry = [optimize |-> TRUE, shade_check |-> FALSE]
  /\ cleaned = <<>>
  /\ checked = {}

Filters == call.policy.filters
Terms == Filters[fi]

Return(r) ==
  /\ result' = r
  /\ pc' = "idle"

\* ParsePolicy: an option that is asked for sets its global; one that is not
\* leaves the global as it is.
ParsePolicy(p, optimize, shade_check) ==
  /\ pc = "idle"
  /\ calls < MaxCalls
  /\ calls' = calls + 1
  /\ call' = [policy |-> p, optimize |-> optimize, shade_check |-> shade_check]
  /\ entry' = [optimize |-> optimizeFlag, shade_check |-> shadeFlag]
  /\ optimizeFlag' = (optimizeFlag /\ optimize)
  /\ shadeFlag' = (shadeFlag \/ shade_check)
  /\ pc' = "preprocess"
  /\ fi' = 1
  /\ ti' = 1
  /\ cleaned' = <<>>
  /\ checked' = {}
  /\ UNCHANGED result

\* _Preprocess splices the included files in; a missing file and a nesting
\* deeper than five raise.
Preprocess ==
  /\ pc = "preprocess"
  /\ IF call.policy.include = "resolved"
     THEN pc' = "parse" /\ UNCHANGED result
     ELSE Return("raised")
  /\ UNCHANGED <<optimizeFlag, shadeFlag, call, fi, ti, calls, entry,
                 cleaned, checked>>

\* The terms of the next filter are reduced in order; the first one the
\* grammar cannot build ends the call: ParseError, or an IndexError that
\* ParsePolicy turns into False.  At the end of the text the policy is
\* returned, None when it had no filter.
ParseFilter ==
  LET Unparsable(t) == t \in {"garbage", "short"}
  IN
  /\ pc = "parse"
  /\ IF fi > Len(Filters)
     THEN Return(IF Filters = <<>> THEN "None" ELSE "policy")
     ELSE LET bad == SelectInSeq(Terms, Unparsable)
          IN IF bad = 0
             THEN pc' = "add" /\ UNCHANGED result
             ELSE Return(IF Terms[bad] = "short" THEN "False" ELSE "raised")
  /\ UNCHANGED <<optimizeFlag, shadeFlag, call, fi, ti, calls, entry,
                 cleaned, checked>>

\* Policy.AddFilter: the filter is recorded, then its terms are translated; a
\* filter without terms raises NoTermsError.
AddFilter ==
  /\ pc = "add"
  /\ cleaned' = Append(cleaned, <<>>)
  /\ ti' = 1
  /\ IF Terms = <<>>
     THEN Return("raised")
     ELSE pc' = "translate" /\ UNCHANGED result
  /\ UNCHANGED <<optimizeFlag, shadeFlag, call, fi, calls, entry, checked>>

\* Mutant of TranslateTerm: the global is not put back.
TranslateTermKeepsFlag ==
  /\ pc = "translate"
  /\ ti <= Len(Terms)
  /\ IF Terms[ti] = "badport"
     THEN /\ Return("raised")
          /\ UNCHANGED <<ti, cleaned>>
     ELSE /\ cleaned' = [cleaned EXCEPT ![fi] = Append(@, optimizeFlag)]
          /\ IF Terms[ti] = "insane"
             THEN Return("raised") /\ UNCHANGED ti
             ELSE ti' = ti + 1 /\ UNCHANGED <<pc, result>>
  /\ UNCHANGED <<optimizeFlag, shadeFlag, call, fi, calls, entry, checked>>

\* One turn of the loop of Policy._TranslateTerms: ports, AddressCleanup with
\* the global, the global put back, SanityCheck.
TranslateTerm ==
  /\ pc = "translate"
  /\ ti <= Len(Terms)
  /\ IF Terms[ti] = "badport"
     THEN /\ Return("raised")
          /\ UNCHANGED <<optimizeFlag, ti, cleaned>>
     ELSE /\ cleaned' = [cleaned EXCEPT ![fi] = Append(@, optimizeFlag)]
          /\ optimizeFlag' = TRUE
          /\ IF Terms[ti] = "insane"
             THEN Return("raised") /\ UNCHANGED ti
             ELSE ti' = ti + 1 /\ UNCHANGED <<pc, result>>
  /\ UNCHANGED <<shadeFlag, call, fi, calls, entry, checked>>

\* Mutant of FilterTranslated: the loop may stop one term early.
FilterTranslatedEarly ==
  /\ pc = "translate"
  /\ ti >= Len(Terms)
  /\ \/ shadeFlag /\ pc' = "shade" /\ UNCHANGED fi
     \/ ~shadeFlag /\ pc' = "parse" /\ fi' = fi + 1
  /\ UNCHANGED <<optimizeFlag, shadeFlag, call, ti, result, calls, entry,
                 cleaned, checked>>

\* AddFilter after the loop: the filter is examined when the global says so.
FilterTranslated ==
  /\ pc = "translate"
  /\ ti > Len(Terms)
  /\ \/ shadeFlag /\ pc' = "shade" /\ UNCHANGED fi
     \/ ~shadeFlag /\ pc' = "parse" /\ fi' = fi + 1
  /\ UNCHANGED <<optimizeFlag, shadeFlag, call, ti, result, calls, entry,
                 cleaned, checked>>

\* A comparison with the k-th term is the first to raise: the IndexError is
\* turned into False by ParsePolicy, the AttributeError is not caught.
ComparisonFails(k) ==
  /\ Terms[k] \in {"overrun", "bareport"}
  /\ \A j \in 1..(k - 1) : Terms[j] \notin {"overrun", "bareport"}
  /\ Return(IF Terms[k] = "overrun" THEN "False" ELSE "raised")

Comparable(filter) == ~Contains(filter, "overrun") /\ ~Contains(filter, "bareport")

\* Policy._DetectShading: the global is put back before the terms are compared;
\* the shaded terms are collected, and ShadingError raised at the end.
DetectShading ==
  /\ pc = "shade"
  /\ shadeFlag' = FALSE
  /\ checked' = checked \cup {fi}
  /\ \/ /\ \E k \in DOMAIN Terms : ComparisonFails(k)
        /\ UNCHANGED fi
     \/ /\ Comparable(Terms)
        /\ Contains(Terms, "shaded")
        /\ Return("ShadingError")
        /\ UNCHANGED fi
     \/ /\ Comparable(Terms)
        /\ ~Contains(Terms, "shaded")
        /\ pc' = "parse"
        /\ fi' = fi + 1
        /\ UNCHANGED result
  /\ UNCHANGED <<optimizeFlag, call, ti, calls, entry, cleaned>>

Compile ==
  \/ Preprocess
  \/ ParseFilter
  \/ AddFilter
  \/ TranslateTerm
  \/ FilterTranslated
  \/ DetectShading

Call ==
  \E p \in Policies, optimize, shade_check \in BOOLEAN :
    ParsePolicy(p, optimize, shade_check)

PNext == Call \/ Compile

PSpec == PInit /\ [][PNext]_pvars
-----------------------------------------------------------------------------
(* Properties *)

PTypeOK ==
  /\ optimizeFlag \in BOOLEAN
  /\ shadeFlag \in BOOLEAN
  /\ pc \in {"idle", "preprocess", "parse", "add", "translate", "shade"}
  /\ call \in [policy : Policies, optimize : BOOLEAN, shade_check : BOOLEAN]
  /\ fi \in Nat
  /\ ti \in Nat
  /\ result \in Results
  /\ calls \in Nat
  /\ entry \in [optimize : BOOLEAN, shade_check : BOOLEAN]
  /\ cleaned \in Seq(Seq(BOOLEAN))
  /\ checked \subseteq Nat

\* A call that hands a policy back leaves both globals at their defaults: what
\* it was asked for does not reach the next call.  (A call that fails does not
\* keep this promise.)
PolicyLeavesNoFlag ==
  pc = "idle" /\ result = "policy" => optimizeFlag /\ ~shadeFlag

\* A returned policy is complete: every term of every filter was cleaned up
\* exactly once; the check that was asked for has looked at the first filter at
\* least, and no filter it looked at has a shaded term; and no check was made
\* that neither this call asked for nor one before it had left to be made.
PolicyIsProcessed ==
  pc = "idle" /\ result = "policy" =>
    /\ Len(cleaned) = Len(Filters)
    /\ \A f \in DOMAIN cleaned : Len(cleaned[f]) = Len(Filters[f])
    /\ call.shade_check => 1 \in checked
    /\ \A f \in checked : f \in DOMAIN Filters /\ ~Contains(Filters[f], "shaded")
    /\ checked # {} => call.shade_check \/ entry.shade_check

\* The optimize argument is passed on: a term is left as it was written only when
\* this call asks for it or finds the global cleared, which no call that returned
\* a policy leaves behind; and the first term of a call is treated as asked.
OptimizeIsPassedOn ==
  /\ \A f \in DOMAIN cleaned : \A t \in DOMAIN cleaned[f] :
       /\ ~cleaned[f][t] => ~call.optimize \/ ~entry.optimize
       /\ f = 1 /\ t = 1 => (cleaned[f][t] <=> call.optimize /\ entry.optimize)
  /\ pc # "idle" /\ result = "policy" => entry.optimize

\* What ParsePolicy says of its options: "whether to summarize networks and
\* services" and "whether to raise an exception when a term is shaded"
\* (lib/policy.py:1779-1781), those of every term, in whichever filter.  The code
\* puts each global back after the first term, or filter, that has looked at it.
OptionsAreHonoured ==
  pc = "idle" /\ result = "policy" =>
    /\ \A f \in DOMAIN cleaned : \A t \in DOMAIN cleaned[f] :
         cleaned[f][t] <=> call.optimize
    /\ call.shade_check => \A f \in DOMAIN Filters : ~Contains(Filters[f], "shaded")

=============================================================================
