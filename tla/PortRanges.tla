----------------------------- MODULE PortRanges -----------------------------
(***************************************************************************)
(* Lists of port ranges as lib/policy.py keeps them in a term: a range is  *)
(* a pair of its ends.                                                     *)
(***************************************************************************)
EXTENDS Integers, Sequences, SequencesExt

\* The ports of a range, and of a list.
Span(r) == r[1]..r[2]
Cover(l) == UNION {Span(l[k]) : k \in DOMAIN l}

\* Mutant of PortIsContained: the empty subset is not told apart.
PortIsContainedAny(superset, subset) ==
  \/ superset = <<>>
  \/ \A j \in DOMAIN subset : \E k \in DOMAIN superset :
       superset[k][1] <= subset[j][1] /\ subset[j][2] <= superset[k][2]

\* Mutant of PortIsContained: the lower ends must differ.
PortIsContainedStrict(superset, subset) ==
  \/ superset = <<>>
  \/ /\ subset # <<>>
     /\ \A j \in DOMAIN subset : \E k \in DOMAIN superset :
          superset[k][1] < subset[j][1] /\ subset[j][2] <= superset[k][2]

\* CheckPortIsContained(superset, subset): each range of subset is inside one
\* of superset; the empty list stands for every port.
PortIsContained(superset, subset) ==
  \/ superset = <<>>
  \/ /\ subset # <<>>
     /\ \A j \in DOMAIN subset : \E k \in DOMAIN superset :
          superset[k][1] <= subset[j][1] /\ subset[j][2] <= superset[k][2]
=============================================================================
