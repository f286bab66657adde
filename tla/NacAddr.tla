------------------------------- MODULE NacAddr -------------------------------
(***************************************************************************)
(* Lists of addresses, in lib/nacaddr.py: CollapseAddrList, which          *)
(* AddressCleanup and every generator put their addresses through, and     *)
(* AddressListExclude, which takes the excluded addresses out of a list.   *)
(*                                                                         *)
(* One step is one turn of the loop of CollapseAddrListRecursive, or the   *)
(* removal of one excluded address.  An address is a network with its      *)
(* comment, a text in pieces: AddComment joins texts with a comma, and      *)
(* takes one that is part of another to be there already.                   *)
(***************************************************************************)
EXTENDS IpNetworks

CONSTANTS
  Supersets,  \* lists AddressListExclude is called with, and
  Excludes,   \* the lists of addresses to take out of them
  Pieces,     \* what the text of a comment is made of
  Comma       \* the piece AddComment puts between two comments

Addresses == [net : Networks, text : Seq(Pieces)]

ASSUME NacAddrAssumption ==
  /\ Comma \in Pieces
  /\ Supersets \subseteq Seq(Addresses)
  /\ Excludes \subseteq Seq(Addresses)

VARIABLES
  pc,         \* where AddressListExclude is
  superset,   \* its first list
  excludes,   \* its second list; in the loop, what is left of it
  todo,       \* the rest of the list a pass of the collapse goes through
  ret,        \* ret_array
  optimized,  \* has this pass changed anything?
  asked,      \* history: the list that is being, or was last, collapsed
  args        \* history: the arguments of the call

avars == <<pc, superset, excludes, todo, ret, optimized, asked, args>>

-----------------------------------------------------------------------------
(* Networks and lists of addresses *)

\* The numbers of a list.
Covered(l) == UNION {Numbers(l[k].net) : k \in DOMAIN l}

\* n.Subnet()[1]: the upper half.
UpperHalf(n) ==
  [version |-> n.version, first |-> n.first + n.size \div 2, size |-> n.size \div 2]

Before(a, b) == Precedes(a.net, b.net)

\* sorted() leaves addresses of the same network as they were.
Sooner(l, i, j) == Before(l[i], l[j]) \/ (~Before(l[j], l[i]) /\ i < j)

SortAddrList(l) ==
  LET places == DOMAIN l
      order == InOrder(places, {p \in places \X places : Sooner(l, p[1], p[2])})
  IN [k \in DOMAIN l |-> l[order[k]]]

\* nacaddr's AddressExclude wraps each part in an IP() that knows no comment.
Parts(m, x) ==
  LET parts == AddressExclude(m, x)
  IN [k \in DOMAIN parts |-> [net |-> parts[k], text |-> <<>>]]

\* Mutant of Remaining: only the excluded network itself is dropped.
RemainingInside(a, x) ==
  IF a.net = x THEN <<>>
  ELSE IF In(x, a.net) THEN Parts(a.net, x)
  ELSE <<a>>

\* One address of RemoveAddressFromList: dropped, split or kept.
Remaining(a, x) ==
  IF In(a.net, x) THEN <<>>
  ELSE IF In(x, a.net) THEN Parts(a.net, x)
  ELSE <<a>>

RemoveAddressFromList(l, x) ==
  FlattenSeq([k \in DOMAIN l |-> Remaining(l[k], x)])

-----------------------------------------------------------------------------
(* The collapse: AddressListExclude runs it three times *)

StartPass(l) ==
  /\ todo' = l
  /\ ret' = <<>>
  /\ optimized' = FALSE

\* CollapseAddrList(l)
Collapse(l) ==
  /\ todo' = SortAddrList(l)
  /\ ret' = <<>>
  /\ optimized' = FALSE
  /\ asked' = l

AInit ==
  /\ superset \in Supersets
  /\ excludes \in Excludes
  /\ args = [superset |-> superset, excludes |-> excludes]
  /\ pc = "collapse superset"
  /\ todo = SortAddrList(superset)
  /\ ret = <<>>
  /\ optimized = FALSE
  /\ asked = superset

Collapsing == {"collapse superset", "collapse excludes", "collapse result"}

Address == Head(todo)
LastKept == ret[Len(ret)]

\* Mutant of AddComment: a comment is only set where there is none.
AddCommentOnce(a, text) == IF a.text = <<>> THEN [a EXCEPT !.text = text] ELSE a

\* nacaddr's Supernet keeps the comment.
Widened(a) == [a EXCEPT !.net = Supernet(@)]

\* `c in t` of two texts
PartOf(c, t) ==
  \E k \in 0..(Len(t) - Len(c)) : \A i \in 1..Len(c) : t[k + i] = c[i]

AddComment(a, text) ==
  CASE a.text = <<>> -> [a EXCEPT !.text = text]
    [] a.text # <<>> /\ PartOf(text, a.text) -> a
    [] OTHER -> [a EXCEPT !.text = @ \o <<Comma>> \o text]

Turn ==
  /\ pc \in Collapsing
  /\ todo # <<>>
  /\ todo' = Tail(todo)
  /\ UNCHANGED <<pc, superset, excludes, asked, args>>

First ==
  /\ Turn
  /\ ret = <<>>
  /\ ret' = <<Address>>
  /\ UNCHANGED optimized

\* The address is inside the last one that was kept: only its comment is saved.
Subsume ==
  /\ Turn
  /\ ret # <<>>
  /\ In(Address.net, LastKept.net)
  /\ ret' = [ret EXCEPT ![Len(ret)] = AddComment(@, Address.text)]
  /\ optimized' = TRUE

IsUpperHalf == Address.net = UpperHalf(Supernet(LastKept.net))

\* Mutant of Merge: no other pass is asked for.
MergeOnce ==
  /\ Turn
  /\ ret # <<>>
  /\ ~In(Address.net, LastKept.net)
  /\ IsUpperHalf
  /\ ret' = [ret EXCEPT ![Len(ret)] =
               AddComment(Widened(@), Address.text)]
  /\ UNCHANGED optimized

\* The address is the upper half of a network whose lower half was kept.
Merge ==
  /\ Turn
  /\ ret # <<>>
  /\ ~In(Address.net, LastKept.net)
  /\ IsUpperHalf
  /\ ret' = [ret EXCEPT ![Len(ret)] =
               AddComment(Widened(@), Address.text)]
  /\ optimized' = TRUE

Separate ==
  /\ Turn
  /\ ret # <<>>
  /\ ~In(Address.net, LastKept.net)
  /\ ~IsUpperHalf
  /\ ret' = Append(ret, Address)
  /\ UNCHANGED optimized

Recurse ==
  /\ pc \in Collapsing
  /\ todo = <<>>
  /\ optimized
  /\ StartPass(ret)
  /\ UNCHANGED <<pc, superset, excludes, asked, args>>

Collapsed ==
  /\ pc \in Collapsing
  /\ todo = <<>>
  /\ ~optimized

-----------------------------------------------------------------------------
(* AddressListExclude *)

SupersetCollapsed ==
  /\ pc = "collapse superset"
  /\ Collapsed
  /\ superset' = ret
  /\ Collapse(excludes)
  /\ pc' = "collapse excludes"
  /\ UNCHANGED <<excludes, args>>

ExcludesCollapsed ==
  /\ pc = "collapse excludes"
  /\ Collapsed
  /\ excludes' = ret
  /\ pc' = "remove"
  /\ UNCHANGED <<superset, todo, ret, optimized, asked, args>>

\* for ex in excludes: superset = RemoveAddressFromList(superset, ex)
RemoveNext ==
  /\ pc = "remove"
  /\ excludes # <<>>
  /\ superset' = RemoveAddressFromList(superset, Head(excludes).net)
  /\ excludes' = Tail(excludes)
  /\ UNCHANGED <<pc, todo, ret, optimized, asked, args>>

AllRemoved ==
  /\ pc = "remove"
  /\ excludes = <<>>
  /\ Collapse(superset)
  /\ pc' = "collapse result"
  /\ UNCHANGED <<superset, excludes, args>>

Return ==
  /\ pc = "collapse result"
  /\ Collapsed
  /\ superset' = ret
  /\ pc' = "done"
  /\ UNCHANGED <<excludes, todo, ret, optimized, asked, args>>

ADone == pc = "done" /\ UNCHANGED avars

AStep ==
  \/ First \/ Subsume \/ Merge \/ Separate \/ Recurse
  \/ SupersetCollapsed \/ ExcludesCollapsed
  \/ RemoveNext \/ AllRemoved \/ Return

ANext == AStep \/ ADone

ASpec == AInit /\ [][ANext]_avars

-----------------------------------------------------------------------------
(* Properties *)

\* A collapsed list is the shortest one: exactly the largest networks of its
\* addresses, each once, in order.
CollapsedIsShortest ==
  Collapsed =>
    /\ {ret[k].net : k \in DOMAIN ret} = LargestNetworks(Covered(asked))
    /\ \A j, k \in DOMAIN ret : j < k => Before(ret[j], ret[k])

\* "save the comment from the subsumed address": every text is found again, at
\* least as part of another one, on the network its address has become part of.
TextsAreKept ==
  Collapsed =>
    \A j \in DOMAIN asked : \E k \in DOMAIN ret :
      In(asked[j].net, ret[k].net) /\ PartOf(asked[j].text, ret[k].text)

\* The list returned holds every address of the first list that is in none of
\* the second, and no other: no split loses a number or leaves one in.
ExcludeIsExact ==
  pc = "done" => Covered(superset) = Covered(args.superset) \ Covered(args.excludes)

=============================================================================
