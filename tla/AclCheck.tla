------------------------------ MODULE AclCheck ------------------------------
(***************************************************************************)
(* AclCheck, in lib/aclcheck.py: which terms of a policy a packet would    *)
(* meet, when only part of the packet is known.  The terms of each filter  *)
(* are gone through up to the first that decides for certain.              *)
(***************************************************************************)
EXTENDS Terms, FiniteSetsExt

CONSTANTS
  ANY,          \* 'any': this part of the packet is not known
  PolicyTerms,  \* the terms that are checked
  Policies,     \* sequences of filters, which are sequences of terms
  Queries       \* records [src, dst, sport, dport, proto]

\* The parts of the terms and queries that the check looks at.
ListsInForm(t) ==
  /\ {t.source_address, t.destination_address} \subseteq Seq(Blocks)
  /\ {t.source_port, t.destination_port} \subseteq Seq(Int \X Int)
  /\ ANY \notin t.protocol \cup t.protocol_except

ASSUME AclCheckAssumption ==
  /\ \A t \in PolicyTerms : Sane(t) /\ ListsInForm(t)
  /\ Policies \subseteq Seq(Seq(PolicyTerms))
  /\ \A q \in Queries : {q.src, q.dst} \subseteq Blocks \cup {ANY}

VARIABLES
  policy,         \* pol_obj.filters
  query,          \* src, dst, sport, dport and proto
  filter,         \* the place of the filter that is looked at
  term,           \* the place of the term in it
  matches,        \* as records [filter, term, possible]
  exact_matches   \* as pairs of places

checkVars == <<policy, query, filter, term, matches, exact_matches>>

CheckInit ==
  /\ policy \in Policies
  /\ query \in Queries
  /\ filter = 1
  /\ term = 1
  /\ matches = <<>>
  /\ exact_matches = {}

-----------------------------------------------------------------------------
(* One term *)

\* _AddrInside
AddrInside(addr, addresses) ==
  (addr # ANY /\ addresses # <<>>) => \E k \in DOMAIN addresses : In(addr, addresses[k])

\* _PortInside, and its callers' test for a term without ports
PortInside(myport, port_list) ==
  (myport # ANY /\ port_list # <<>>) =>
    \E k \in DOMAIN port_list : myport \in Span(port_list[k])

\* Mutant of Hit: a protocol that the term excepts is a hit.
HitExcepted(t) ==
  /\ AddrInside(query.src, t.source_address)
  /\ AddrInside(query.dst, t.destination_address)
  /\ PortInside(query.sport, t.source_port)
  /\ PortInside(query.dport, t.destination_port)
  /\ t.protocol = {} \/ query.proto \in t.protocol \cup {ANY}
  /\ t.action # {}

\* The term is not passed over.  A verbatim term has no action.
Hit(t) ==
  /\ AddrInside(query.src, t.source_address)
  /\ AddrInside(query.dst, t.destination_address)
  /\ PortInside(query.sport, t.source_port)
  /\ PortInside(query.dport, t.destination_port)
  /\ t.protocol = {} \/ query.proto \in t.protocol \cup {ANY}
  /\ query.proto \notin t.protocol_except
  /\ t.action # {}

\* Mutant of PossibleMatch: options are not looked at.
PossibleMatchNot(t) == t.fragment_offset # NONE \/ t.packet_length # NONE

\* _PossibleMatch: whether the packet meets the term depends on something the
\* query does not say.
PossibleMatch(t) ==
  \/ t.fragment_offset # NONE
  \/ t.packet_length # NONE
  \/ {"first-fragment", "established"} \cap t.option # {}
  \/ "tcp-established" \in t.option /\ "tcp" \in t.protocol

-----------------------------------------------------------------------------
(* The loops of __init__ *)

Looking == filter <= Len(policy) /\ term <= Len(policy[filter])

Term == policy[filter][term]

Report ==
  matches' = Append(matches,
    [filter |-> filter, term |-> term, possible |-> PossibleMatch(Term)])

NextTerm == term' = term + 1 /\ UNCHANGED filter

NextFilter == filter' = filter + 1 /\ term' = 1

NoHit ==
  /\ Looking
  /\ ~Hit(Term)
  /\ NextTerm
  /\ UNCHANGED <<policy, query, matches, exact_matches>>

\* Possibly met, or met by a packet that goes on to the next term.
HitAndGoOn ==
  /\ Looking
  /\ Hit(Term)
  /\ PossibleMatch(Term) \/ "next" \in Term.action
  /\ Report
  /\ NextTerm
  /\ UNCHANGED <<policy, query, exact_matches>>

\* The rest of the filter is of no interest.
ExactHit ==
  /\ Looking
  /\ Hit(Term)
  /\ ~PossibleMatch(Term)
  /\ "next" \notin Term.action
  /\ Report
  /\ exact_matches' = exact_matches \cup {<<filter, term>>}
  /\ NextFilter
  /\ UNCHANGED <<policy, query>>

EndOfFilter ==
  /\ filter <= Len(policy)
  /\ term > Len(policy[filter])
  /\ NextFilter
  /\ UNCHANGED <<policy, query, matches, exact_matches>>

Done == filter > Len(policy) /\ UNCHANGED checkVars

CheckNext == NoHit \/ HitAndGoOn \/ ExactHit \/ EndOfFilter \/ Done

CheckSpec == CheckInit /\ [][CheckNext]_checkVars

-----------------------------------------------------------------------------
(* Properties *)

\* The packets of each query, and the packets each term matches.
Asked ==
  [q \in Queries |->
     {p \in Packets :
        /\ q.src = ANY \/ p.source \in Numbers(q.src)
        /\ q.dst = ANY \/ p.destination \in Numbers(q.dst)
        /\ q.sport \in {ANY, p.source_port}
        /\ q.dport \in {ANY, p.destination_port}
        /\ q.proto \in {ANY, p.protocol}}]

MatchedBy ==
  [t \in PolicyTerms |-> {p \in Packets : Matches(t, p)}]

\* The check looks at everything the term says.  Other attributes, and options it
\* does not name, are taken as met.
LooksAtAllOf(t) ==
  /\ t = [EmptyTerm EXCEPT !.action = t.action, !.verbatim = t.verbatim,
            !.protocol = t.protocol, !.protocol_except = t.protocol_except,
            !.source_address = t.source_address,
            !.destination_address = t.destination_address,
            !.source_port = t.source_port, !.destination_port = t.destination_port,
            !.option = t.option, !.fragment_offset = t.fragment_offset,
            !.packet_length = t.packet_length]
  /\ t.option \subseteq {"first-fragment", "established", "tcp-established"}
  /\ "tcp-established" \in t.option => "tcp" \in t.protocol

\* An address of a query that is a network may be in a term in part.
OneHost(addr) == addr = ANY \/ addr.size = 1

\* The terms that decide about a packet: those that match it and do not pass on.
Deciding(f, p) ==
  {k \in DOMAIN policy[f] :
     p \in MatchedBy[policy[f][k]] /\ "next" \notin policy[f][k].action}

\* An exact match is what the filter does with some packet of the query: the
\* packet meets the term, and no term before it decides.
ExactIsReached ==
  OneHost(query.src) /\ OneHost(query.dst) =>
    \A x \in exact_matches :
      LET f == x[1] IN
      (\A t \in ToSet(policy[f]) : LooksAtAllOf(t)) =>
         \E p \in Asked[query] : Deciding(f, p) # {} /\ x[2] = Min(Deciding(f, p))

\* Nothing that is decided is missing: of a packet that is known but for its
\* options, each filter's decision is among the matches of a finished check.
DecisionIsReported ==
  (/\ filter > Len(policy)
   /\ ANY \notin {query.src, query.dst, query.sport, query.dport, query.proto}
   /\ OneHost(query.src) /\ OneHost(query.dst)) =>
     \A f \in DOMAIN policy :
       (\A t \in ToSet(policy[f]) : LooksAtAllOf(t)) =>
         \A p \in Asked[query] :
           Deciding(f, p) # {} =>
             \E m \in ToSet(matches) :
               m.filter = f /\ m.term = Min(Deciding(f, p))

\* The two parts of the program that look for unreachable terms agree: a term
\* that Term.__contains__ finds in one before it, which decides for certain, is
\* never an exact match.  This holds for terms the check knows little of, too.
ShadedTermIsNeverExact ==
  \A x \in exact_matches :
    \A k \in 1..(x[2] - 1) :
      LET t == policy[x[1]][x[2]]
          earlier == policy[x[1]][k]
      IN (/\ ~HasExcludes(earlier) /\ ~HasExcludes(t)
          /\ ProtocolsAsMeant(earlier, t)
          /\ earlier.action # {} /\ "next" \notin earlier.action
          /\ ~PossibleMatch(earlier)) =>
            ~Contained(earlier, t, AsWritten(earlier), AsWritten(t))
=============================================================================
