------------------------ MODULE JunosSetConfigProofs ------------------------
(***************************************************************************)
(* What SetConfig promises on a Junos router, for any number of pushes,    *)
(* whatever their arguments: a push that succeeds has been committed, the  *)
(* patch it returns undoes its own commit, and its temporary files are     *)
(* gone.                                                                   *)
(***************************************************************************)
EXTENDS JunosSetConfig, SequenceTheorems, TLAPS

PC == {"start", "upload", "checksum", "load", "fetch", "delete", "delete_patch",
       "local", "done"}
Before == {"start", "upload", "checksum"}
Clean == {"delete", "delete_patch", "local", "done"}

Outcomes == {"ok", "CmdError", "SetConfigError", "SetConfigSyntaxError", "other"}

\* The commands of a line, and the kinds of the lines of a transcript.
Words == {"edit", "load", "compare", "check", "commit", "rollback_1", "save",
          "rollback", "exit", "text", "error", "syntax", "[]", "+", "re"}

\* The place of a command in a line: no command comes after a later one.
Rank(c) ==
  CASE c = "edit" -> 1 [] c = "load" -> 2 [] c = "compare" -> 3 [] c = "check" -> 4
    [] c = "commit" -> 5 [] c = "rollback_1" -> 6 [] c = "save" -> 7
    [] c = "rollback" -> 8 [] c = "exit" -> 9 [] OTHER -> 10

Loads == [of : Pushes, whole : BOOLEAN]
Uploads == [of : Pushes, intact : BOOLEAN]
Whole(p) == [of |-> p, whole |-> TRUE]
Intact(p) == [of |-> p, intact |-> TRUE]

Types ==
  /\ arg \in [Pushes -> Arguments]
  /\ pc \in [Pushes -> PC]
  /\ copied \in [Pushes -> BOOLEAN]
  /\ outcome \in [Pushes -> Outcomes]
  /\ fetched \in [Pushes -> Nat \cup {NONE}]
  /\ files \in [FileNames -> Uploads \cup Nat \cup {NONE}]
  /\ lock \in Pushes \cup {NONE}
  /\ candidate \in SUBSET Loads
  /\ history \in Seq([by : Pushes, loads : SUBSET Loads])
  /\ batch \in [Pushes -> Seq(Words)]
  /\ lines \in [Pushes -> Seq(Words)]

-----------------------------------------------------------------------------
(* The inductive invariant *)

\* c is in the sequence s.
Has(s, c) == \E i \in 1..Len(s) : s[i] = c

\* The transcript of a line whose load was refused in part or whole.
Bad(l) == Len(l) >= 2 /\ l[1] = "text" /\ l[2] \in {"error", "syntax"}

Committed(p) ==
  \E k \in 1..Len(history) : history[k] = [by |-> p, loads |-> {Whole(p)}]

Ordered(s) == \A i, j \in 1..Len(s) : i < j => Rank(s[i]) < Rank(s[j])

\* What is left of p's line is in order, and ends with an exit.
Line(p) ==
  /\ Ordered(batch[p])
  /\ batch[p] # <<>> => batch[p][Len(batch[p])] = "exit"
  /\ batch[p] # <<>> /\ batch[p][1] = "edit" =>
       lines[p] = <<>> /\ Len(batch[p]) >= 2 /\ batch[p][2] = "load"
  /\ Has(batch[p], "save") => WantsPatch(p)
  /\ Has(batch[p], "commit") => files[Patch(p)] = NONE
  /\ batch[p] # <<>> => files[Tmp(p)] \in {NONE, Intact(p)}

\* The session that has the configuration edits nothing but its own load.
Edits(p) ==
  lock = p =>
    /\ batch[p] # <<>>
    /\ batch[p][1] # "edit"
    /\ batch[p][1] = "load" => lines[p] = <<"text">> /\ candidate = {}
    /\ batch[p][1] \in {"compare", "check", "commit"} =>
         Bad(lines[p]) \/ candidate = {Whole(p)}
    /\ Has(lines[p], "commit") =>
         Len(history) > 0 /\ history[Len(history)].by = p

\* A transcript that shows a commit, and no refused load, tells the truth.
Tells(p) ==
  Has(lines[p], "commit") =>
    /\ Bad(lines[p]) \/ Committed(p)
    /\ files[Patch(p)] # NONE =>
         files[Patch(p)] \in 1..Len(history) /\ history[files[Patch(p)]].by = p

Passed(p) == pc[p] = "fetch" \/ (pc[p] \in Clean /\ outcome[p] = "ok")

\* The client before its line is handed over, and after it was judged.
Waits(p) ==
  /\ pc[p] \in Before =>
       batch[p] = <<>> /\ lines[p] = <<>> /\ files[Patch(p)] = NONE
  /\ pc[p] \in {"checksum", "load"} \/ Passed(p) => copied[p]
  /\ Passed(p) => batch[p] = <<>>
  /\ Passed(p) /\ arg[p].dest = "config" /\ ~arg[p].canary => Committed(p)
  /\ pc[p] = "fetch" =>
       Has(lines[p], "commit") /\ arg[p].dest = "config" /\ ~arg[p].canary
  /\ fetched[p] # NONE =>
       fetched[p] \in 1..Len(history) /\ history[fetched[p]].by = p

\* The files of a push that succeeds are deleted.
Tidies(p) ==
  /\ arg[p].dest = "file" => files[Tmp(p)] = NONE
  /\ ~WantsPatch(p) => files[Patch(p)] = NONE
  /\ pc[p] \in {"delete_patch", "local", "done"} /\ outcome[p] = "ok" =>
       files[Tmp(p)] = NONE
  /\ pc[p] \in {"local", "done"} /\ outcome[p] = "ok" => files[Patch(p)] = NONE

PInv(p) == Line(p) /\ Edits(p) /\ Tells(p) /\ Waits(p) /\ Tidies(p)

IInv ==
  /\ Types
  /\ lock = NONE => candidate = {}
  /\ \A p \in Pushes : PInv(p)

-----------------------------------------------------------------------------
(* Sequences *)

LEMMA RestOf ==
  ASSUME NEW s \in Seq(Words), s # <<>>
  PROVE  /\ Len(s) \in Nat /\ Len(s) >= 1
         /\ Head(s) = s[1] /\ s[1] \in Words
         /\ Tail(s) \in Seq(Words) /\ Len(Tail(s)) = Len(s) - 1
         /\ \A i \in 1..(Len(s) - 1) : Tail(s)[i] = s[i + 1]
<1>1. Len(s) \in Nat /\ Len(s) >= 1
  BY LenProperties, EmptySeq
<1> QED BY <1>1, HeadTailProperties, ElementOfSeq

LEMMA Both ==
  ASSUME NEW s \in Seq(Words), NEW t \in Seq(Words)
  PROVE  /\ s \o t \in Seq(Words)
         /\ Len(s) \in Nat /\ Len(t) \in Nat /\ Len(s \o t) = Len(s) + Len(t)
         /\ \A i \in 1..Len(s) : (s \o t)[i] = s[i]
         /\ \A i \in 1..Len(t) : (s \o t)[Len(s) + i] = t[i]
         /\ \A i \in 1..(Len(s) + Len(t)) :
              i > Len(s) => i - Len(s) \in 1..Len(t) /\ (s \o t)[i] = t[i - Len(s)]
<1>1. Len(s) \in Nat /\ Len(t) \in Nat
  BY LenProperties
<1>2. /\ s \o t \in Seq(Words) /\ Len(s \o t) = Len(s) + Len(t)
      /\ \A i \in 1..(Len(s) + Len(t)) :
           (s \o t)[i] = IF i <= Len(s) THEN s[i] ELSE t[i - Len(s)]
  BY ConcatProperties
<1>3. ASSUME NEW i \in 1..Len(s)
      PROVE  (s \o t)[i] = s[i]
  BY <1>1, <1>2, <1>3
<1>4. ASSUME NEW i \in 1..(Len(s) + Len(t)), i > Len(s)
      PROVE  i - Len(s) \in 1..Len(t) /\ (s \o t)[i] = t[i - Len(s)]
  BY <1>1, <1>2, <1>4
<1>5. ASSUME NEW i \in 1..Len(t)
      PROVE  (s \o t)[Len(s) + i] = t[i]
  <2>1. Len(s) + i \in 1..(Len(s) + Len(t)) /\ Len(s) + i > Len(s)
    BY <1>1
  <2>2. Len(s) + i - Len(s) = i
    BY <1>1
  <2> QED BY <1>4, <2>1, <2>2
<1> QED BY <1>1, <1>2, <1>3, <1>4, <1>5

LEMMA HasBoth ==
  ASSUME NEW s \in Seq(Words), NEW t \in Seq(Words), NEW c
  PROVE  Has(s \o t, c) <=> Has(s, c) \/ Has(t, c)
<1>1. ASSUME NEW i \in 1..Len(s \o t), (s \o t)[i] = c
      PROVE  Has(s, c) \/ Has(t, c)
  <2>1. CASE i <= Len(s)
    BY <1>1, <2>1, Both DEF Has
  <2>2. CASE i > Len(s)
    BY <1>1, <2>2, Both DEF Has
  <2> QED BY <1>1, <2>1, <2>2, Both
<1>2. ASSUME NEW i \in 1..Len(s), s[i] = c
      PROVE  Has(s \o t, c)
  <2>1. i \in 1..Len(s \o t) /\ (s \o t)[i] = c
    BY <1>2, Both
  <2> QED BY <2>1 DEF Has
<1>3. ASSUME NEW i \in 1..Len(t), t[i] = c
      PROVE  Has(s \o t, c)
  <2>1. Len(s) + i \in 1..Len(s \o t) /\ (s \o t)[Len(s) + i] = c
    BY <1>3, Both
  <2> QED BY <2>1 DEF Has
<1> QED BY <1>1, <1>2, <1>3 DEF Has

LEMMA StartStays ==
  ASSUME NEW s \in Seq(Words), NEW t \in Seq(Words), Len(s) >= 2
  PROVE  /\ Len(s \o t) \in Nat /\ Len(s \o t) >= 2
         /\ (s \o t)[1] = s[1] /\ (s \o t)[2] = s[2]
<1>1. 1 \in 1..Len(s) /\ 2 \in 1..Len(s) /\ Len(s) \in Nat /\ Len(t) \in Nat
  BY Both
<1> QED BY <1>1, Both

\* What was bad stays bad, whatever the router prints later.
LEMMA BadStays ==
  ASSUME NEW s \in Seq(Words), NEW t \in Seq(Words), Bad(s)
  PROVE  Bad(s \o t)
BY StartStays DEF Bad

-----------------------------------------------------------------------------
(* The command line *)

\* A part of a line: its commands are in order, and rank from m to n.
Part(s, m, n) ==
  /\ s \in Seq(Words)
  /\ Ordered(s)
  /\ \A i \in 1..Len(s) : Rank(s[i]) \in m..n

LEMMA Joined ==
  ASSUME NEW m \in Nat, NEW n \in Nat, NEW k \in Nat, m <= n, n <= k,
         NEW s, NEW t, Part(s, m, n), Part(t, n + 1, k)
  PROVE  Part(s \o t, m, k)
<1>1. s \in Seq(Words) /\ t \in Seq(Words)
  BY DEF Part
<1> DEFINE u == s \o t
<1>2. u \in Seq(Words) /\ Len(u) = Len(s) + Len(t)
      /\ Len(s) \in Nat /\ Len(t) \in Nat
  BY <1>1, Both
<1>3. ASSUME NEW i \in 1..Len(u), i <= Len(s)
      PROVE  i \in 1..Len(s) /\ u[i] = s[i] /\ Rank(u[i]) \in m..n
  <2>1. i \in 1..Len(s)
    BY <1>2, <1>3
  <2>2. u[i] = s[i]
    BY <1>1, <2>1, Both
  <2> QED BY <2>1, <2>2 DEF Part
<1>4. ASSUME NEW i \in 1..Len(u), i > Len(s)
      PROVE  /\ i - Len(s) \in 1..Len(t) /\ u[i] = t[i - Len(s)]
             /\ Rank(u[i]) \in (n + 1)..k
  <2>1. i - Len(s) \in 1..Len(t) /\ u[i] = t[i - Len(s)]
    BY <1>1, <1>2, <1>4, Both
  <2> QED BY <2>1 DEF Part
<1> HIDE DEF u
<1>5. ASSUME NEW i \in 1..Len(u), NEW j \in 1..Len(u), i < j
      PROVE  Rank(u[i]) < Rank(u[j])
  <2>1. CASE j <= Len(s)
    <3>1. i <= Len(s)
      BY <1>2, <1>5, <2>1
    <3>2. i \in 1..Len(s) /\ u[i] = s[i] /\ j \in 1..Len(s) /\ u[j] = s[j]
      BY <1>3, <2>1, <3>1
    <3> QED BY <1>5, <3>2 DEF Part, Ordered
  <2>2. CASE i > Len(s)
    <3>1. i - Len(s) < j - Len(s) /\ j > Len(s)
      BY <1>2, <1>5, <2>2
    <3> QED BY <1>4, <2>2, <3>1 DEF Part, Ordered
  <2>3. CASE i <= Len(s) /\ j > Len(s)
    BY <1>3, <1>4, <2>3
  <2> QED BY <1>2, <2>1, <2>2, <2>3
<1>6. ASSUME NEW i \in 1..Len(u)
      PROVE  Rank(u[i]) \in m..k
  <2>1. CASE i <= Len(s)
    BY <1>3, <2>1
  <2>2. CASE i > Len(s)
    BY <1>4, <2>2
  <2> QED BY <1>2, <2>1, <2>2
<1>7. Part(u, m, k)
  BY <1>2, <1>5, <1>6 DEF Part, Ordered
<1> QED BY <1>7 DEF u

LEMMA Single ==
  ASSUME NEW c \in Words, NEW m \in Nat, Rank(c) = m
  PROVE  Part(<<c>>, m, m)
<1>1. <<c>> \in Seq(Words) /\ Len(<<c>>) = 1 /\ <<c>>[1] = c
  OBVIOUS
<1>2. \A i \in 1..1 : i = 1
  OBVIOUS
<1> QED BY <1>1, <1>2 DEF Part, Ordered

LEMMA Nothing ==
  ASSUME NEW m \in Nat, NEW n \in Nat
  PROVE  Part(<<>>, m, n) /\ \A c : ~Has(<<>>, c)
BY DEF Part, Ordered, Has

LEMMA Wider ==
  ASSUME NEW m \in Nat, NEW n \in Nat, NEW j \in Nat, NEW k \in Nat,
         j <= m, n <= k, NEW s, Part(s, m, n)
  PROVE  Part(s, j, k)
<1>1. ASSUME NEW i \in 1..Len(s)
      PROVE  Rank(s[i]) \in j..k
  <2>1. Rank(s[i]) \in m..n
    BY DEF Part
  <2> QED BY <2>1
<1> QED BY <1>1 DEF Part

LEMMA Assembled ==
  ASSUME NEW s, NEW t, NEW u, NEW v,
         Part(s, 1, 2), Len(s) = 2, Part(t, 3, 3), Part(u, 4, 8), Part(v, 9, 9),
         Len(v) = 1
  PROVE  /\ Part(((s \o t) \o u) \o v, 1, 9)
         /\ Len(((s \o t) \o u) \o v) \in Nat /\ Len(((s \o t) \o u) \o v) >= 2
         /\ (((s \o t) \o u) \o v)[1] = s[1]
         /\ (((s \o t) \o u) \o v)[2] = s[2]
         /\ (((s \o t) \o u) \o v)[Len(((s \o t) \o u) \o v)] = v[1]
         /\ \A c : Has(((s \o t) \o u) \o v, c) =>
                  Has(s, c) \/ Has(t, c) \/ Has(u, c) \/ Has(v, c)
<1>1. s \in Seq(Words) /\ t \in Seq(Words) /\ u \in Seq(Words) /\ v \in Seq(Words)
  BY DEF Part
<1> DEFINE one == s \o t
<1>2. /\ Part(one, 1, 3) /\ Len(one) >= 2 /\ one[1] = s[1] /\ one[2] = s[2]
      /\ \A c : Has(one, c) => Has(s, c) \/ Has(t, c)
  <2>1. Part(s \o t, 1, 3)
    BY Joined
  <2>2. Len(s) >= 2
    OBVIOUS
  <2>3. Len(s \o t) >= 2 /\ (s \o t)[1] = s[1] /\ (s \o t)[2] = s[2]
    BY <1>1, <2>2, StartStays
  <2>4. \A c : Has(s \o t, c) => Has(s, c) \/ Has(t, c)
    BY <1>1, HasBoth
  <2> QED BY <2>1, <2>3, <2>4
<1> HIDE DEF one
<1>3. one \in Seq(Words)
  BY <1>2 DEF Part
<1> DEFINE two == one \o u
<1>4. /\ Part(two, 1, 8) /\ Len(two) >= 2 /\ two[1] = s[1] /\ two[2] = s[2]
      /\ \A c : Has(two, c) => Has(one, c) \/ Has(u, c)
  BY <1>1, <1>2, <1>3, Joined, StartStays, HasBoth
<1> HIDE DEF two
<1>5. two \in Seq(Words)
  BY <1>4 DEF Part
<1> DEFINE three == two \o v
<1>6. /\ Part(three, 1, 9) /\ Len(three) \in Nat /\ Len(three) >= 2
      /\ three[1] = s[1] /\ three[2] = s[2]
      /\ \A c : Has(three, c) => Has(two, c) \/ Has(v, c)
  BY <1>1, <1>4, <1>5, Joined, StartStays, HasBoth
<1>7. three[Len(three)] = v[1]
  <2>1. 1 \in 1..Len(v)
    OBVIOUS
  <2>2. Len(two) + Len(v) = Len(two \o v)
    BY <1>1, <1>5, Both
  <2>3. (two \o v)[Len(two) + 1] = v[1]
    BY <1>1, <1>5, <2>1, Both
  <2> QED BY <2>2, <2>3
<1> HIDE DEF three
<1>8. \A c : Has(three, c) => Has(s, c) \/ Has(t, c) \/ Has(u, c) \/ Has(v, c)
  BY <1>2, <1>4, <1>6
<1>9. three = ((s \o t) \o u) \o v
  BY DEF one, two, three
<1> QED BY <1>6, <1>7, <1>8, <1>9

\* The line that _JunosLoad builds is in order, starts with the load, ends with
\* the exit, and saves a patch only when one is wanted.
LEMMA BatchIsLine ==
  ASSUME NEW a \in Arguments
  PROVE  /\ Batch(a) \in Seq(Words) /\ Ordered(Batch(a))
         /\ Len(Batch(a)) \in Nat /\ Len(Batch(a)) >= 2
         /\ Batch(a)[1] = "edit" /\ Batch(a)[2] = "load"
         /\ Batch(a)[Len(Batch(a))] = "exit"
         /\ Has(Batch(a), "save") => a.patch
<1> DEFINE compare == IF a.skipCompare THEN <<>> ELSE <<"compare">>
           check == IF a.skipCheck THEN <<>> ELSE <<"check">>
           save == IF a.patch THEN <<"rollback_1", "save", "rollback">> ELSE <<>>
           middle == IF a.canary THEN check \o <<"rollback">> ELSE <<"commit">> \o save
           start == <<"edit", "load">>
           exit == <<"exit">>
<1>1. /\ Part(<<"edit">>, 1, 1) /\ Part(<<"load">>, 2, 2) /\ Part(<<"compare">>, 3, 3)
      /\ Part(<<"check">>, 4, 4) /\ Part(<<"commit">>, 5, 5)
      /\ Part(<<"rollback_1">>, 6, 6) /\ Part(<<"save">>, 7, 7)
      /\ Part(<<"rollback">>, 8, 8) /\ Part(exit, 9, 9)
  BY Single DEF Rank, Words
<1>2. Part(start, 1, 2) /\ start[1] = "edit" /\ start[2] = "load" /\ Len(start) = 2
  <2>1. start = <<"edit">> \o <<"load">>
    OBVIOUS
  <2>2. Part(<<"edit">> \o <<"load">>, 1, 2)
    BY <1>1, Joined
  <2> QED BY <2>1, <2>2
<1>3. Part(compare, 3, 3)
  BY <1>1, Nothing
<1>4. Part(check, 4, 4)
  BY <1>1, Nothing
<1>5. Part(save, 6, 8)
  <2> DEFINE saving == <<"rollback_1", "save", "rollback">>
  <2>1. /\ saving \in Seq(Words) /\ Len(saving) = 3
        /\ saving[1] = "rollback_1" /\ saving[2] = "save" /\ saving[3] = "rollback"
    BY DEF Words
  <2> HIDE DEF saving
  <2>2. \A i \in 1..3 : i = 1 \/ i = 2 \/ i = 3
    OBVIOUS
  <2>3. Rank(saving[1]) = 6 /\ Rank(saving[2]) = 7 /\ Rank(saving[3]) = 8
    BY <2>1 DEF Rank
  <2>4. Part(saving, 6, 8)
    BY <2>1, <2>2, <2>3 DEF Part, Ordered
  <2> QED BY <2>4, Nothing DEF saving
<1>6. Part(middle, 4, 8)
  <2>1. Part(<<"rollback">>, 5, 8)
    BY <1>1, Wider
  <2>2. Part(check \o <<"rollback">>, 4, 8)
    BY <1>4, <2>1, Joined
  <2>3. Part(<<"commit">> \o save, 5, 8)
    BY <1>1, <1>5, Joined
  <2>4. Part(<<"commit">> \o save, 4, 8)
    BY <2>3, Wider
  <2> QED BY <2>2, <2>4
<1>7. ~a.patch => ~Has(middle, "save")
  <2>1. SUFFICES ASSUME ~a.patch PROVE ~Has(middle, "save")
    OBVIOUS
  <2>2. ~Has(check, "save") /\ ~Has(save, "save")
    BY <2>1 DEF Has
  <2>3. ~Has(<<"rollback">>, "save") /\ ~Has(<<"commit">>, "save")
    BY DEF Has
  <2>4. /\ check \in Seq(Words) /\ save \in Seq(Words)
        /\ <<"rollback">> \in Seq(Words) /\ <<"commit">> \in Seq(Words)
    BY <1>1, <1>4, <1>5 DEF Part
  <2> HIDE DEF check, save
  <2>5. ~Has(check \o <<"rollback">>, "save") /\ ~Has(<<"commit">> \o save, "save")
    BY <2>2, <2>3, <2>4, HasBoth
  <2> QED BY <2>5
<1>8. ~Has(start, "save") /\ ~Has(compare, "save") /\ ~Has(exit, "save")
  BY DEF Has
<1>9. Batch(a) = ((start \o compare) \o middle) \o exit
  BY DEF Batch
<1>10. Len(exit) = 1 /\ exit[1] = "exit"
  OBVIOUS
<1>11. Part(exit, 9, 9)
  BY <1>1
<1> HIDE DEF compare, check, save, middle, start, exit
<1>12. /\ Part(Batch(a), 1, 9) /\ Len(Batch(a)) \in Nat /\ Len(Batch(a)) >= 2
       /\ Batch(a)[1] = "edit" /\ Batch(a)[2] = "load"
       /\ Batch(a)[Len(Batch(a))] = "exit"
       /\ Has(Batch(a), "save") =>
            Has(start, "save") \/ Has(compare, "save") \/ Has(middle, "save")
              \/ Has(exit, "save")
  BY <1>2, <1>3, <1>6, <1>9, <1>10, <1>11, Assembled
<1> QED BY <1>7, <1>8, <1>12 DEF Part

-----------------------------------------------------------------------------
(* The verdict on a transcript *)

\* No transcript is accepted that says in its second line that the load was
\* refused; and none of a push without a commit.
LEMMA Accepted ==
  ASSUME NEW l \in Seq(Words), NEW expectCheck, NEW expectCommit,
         LoadError(l, expectCheck, expectCommit) = "ok"
  PROVE  ~Bad(l) /\ (expectCommit => Has(l, "commit"))
<1>1. Relevant(l) \cap {"syntax", "error"} = {}
  BY Zenon DEF LoadError
<1>2. ASSUME Bad(l)
      PROVE  FALSE
  <2>1. 2 \in DOMAIN l /\ l[1] # "[]" /\ l[2] # "[]"
    BY <1>2, LenProperties DEF Bad
  <2>2. ~DiffStart(l, 2) /\ ~DiffStart(l, 1)
    BY <2>1 DEF DiffStart
  <2>3. l[2] \in Relevant(l)
    BY <1>2, <2>1, <2>2 DEF Relevant, Bad
  <2> QED BY <1>1, <1>2, <2>3 DEF Bad
<1>3. ASSUME expectCommit
      PROVE  Has(l, "commit")
  <2>1. "commit" \in Relevant(l)
    BY <1>1, <1>3, Zenon DEF LoadError
  <2>2. PICK k \in DOMAIN l : l[k] = "commit"
    BY <2>1 DEF Relevant
  <2> QED BY <2>2, LenProperties DEF Has
<1> QED BY <1>2, <1>3

-----------------------------------------------------------------------------
(* What a step of one push leaves alone *)

LEMMA Names ==
  ASSUME NEW p \in Pushes, NEW q \in Pushes
  PROVE  /\ Tmp(p) \in FileNames /\ Patch(p) \in FileNames
         /\ FileName(p) \in FileNames
         /\ Tmp(p) # Patch(q) /\ Tmp(p) # <<"file">> /\ Patch(p) # <<"file">>
         /\ FileName(p) # Patch(q)
         /\ p # q => Tmp(p) # Tmp(q) /\ Patch(p) # Patch(q) /\ FileName(p) # Tmp(q)
         /\ arg[p].dest = "config" => FileName(p) = Tmp(p)
         /\ arg[p].dest # "config" => FileName(p) # Tmp(p)
<1>1. Tmp(p) # Patch(q) /\ (p # q => Tmp(p) # Tmp(q) /\ Patch(p) # Patch(q))
  BY DEF Tmp, Patch
<1>2. /\ Tmp(p) # <<"file">> /\ Patch(p) # <<"file">>
      /\ Tmp(q) # <<"file">> /\ Patch(q) # <<"file">>
  BY DEF Tmp, Patch
<1>3. Tmp(p) \in FileNames /\ Patch(p) \in FileNames /\ <<"file">> \in FileNames
  BY DEF FileNames
<1> QED BY <1>1, <1>2, <1>3, Zenon DEF FileName

\* A step that keeps all that belongs to q.
Kept(q) ==
  /\ arg' = arg
  /\ pc'[q] = pc[q] /\ copied'[q] = copied[q] /\ outcome'[q] = outcome[q]
  /\ fetched'[q] = fetched[q] /\ batch'[q] = batch[q] /\ lines'[q] = lines[q]
  /\ files'[Tmp(q)] = files[Tmp(q)] /\ files'[Patch(q)] = files[Patch(q)]

\* Commits are added only.
Grows ==
  /\ Len(history) \in Nat /\ Len(history') \in Nat /\ Len(history) <= Len(history')
  /\ \A k \in 1..Len(history) : history'[k] = history[k]

\* Who has the configuration keeps its candidate, and no other commits.
Hands(q) == lock' = q => lock = q /\ candidate' = candidate /\ history' = history

LEMMA CommittedStays ==
  ASSUME NEW q \in Pushes, Grows, Committed(q)
  PROVE  Committed(q)'
<1>1. PICK k \in 1..Len(history) : history[k] = [by |-> q, loads |-> {Whole(q)}]
  BY DEF Committed
<1>2. k \in 1..Len(history')
  BY DEF Grows
<1>3. history'[k] = [by |-> q, loads |-> {Whole(q)}]
  BY <1>1 DEF Grows
<1> QED BY <1>2, <1>3 DEF Committed, Whole

LEMMA ByStays ==
  ASSUME NEW q \in Pushes, NEW k, Grows, k \in 1..Len(history), history[k].by = q
  PROVE  k \in 1..Len(history') /\ history'[k].by = q
BY DEF Grows

LEMMA Frame ==
  ASSUME NEW q \in Pushes, PInv(q), Kept(q), Grows, Hands(q)
  PROVE  PInv(q)'
<1>1. Line(q)'
  BY DEF PInv, Line, Kept, WantsPatch, Patch, Tmp, Intact, Has, Ordered, Rank
<1>2. Edits(q)'
  BY DEF PInv, Edits, Kept, Hands, Bad, Has, Whole
<1>3. Tells(q)'
  <2>1. Has(lines[q], "commit")' = Has(lines[q], "commit") /\ Bad(lines[q])' = Bad(lines[q])
    BY DEF Kept, Has, Bad
  <2>2. files[Patch(q)]' = files[Patch(q)]
    BY DEF Kept, Patch
  <2>3. Tells(q)
    BY DEF PInv
  <2> QED BY <2>1, <2>2, <2>3, CommittedStays, ByStays DEF Tells
<1>4. Waits(q)'
  <2>1. /\ Has(lines[q], "commit")' = Has(lines[q], "commit")
        /\ Passed(q)' = Passed(q) /\ files[Patch(q)]' = files[Patch(q)]
    BY DEF Kept, Has, Passed, Patch
  <2>2. Waits(q)
    BY DEF PInv
  <2>3. (Passed(q) /\ arg[q].dest = "config" /\ ~arg[q].canary => Committed(q))'
    BY <2>1, <2>2, CommittedStays DEF Waits, Kept
  <2>4. fetched'[q] # NONE =>
          fetched'[q] \in 1..Len(history') /\ history'[fetched'[q]].by = q
    BY <2>2, ByStays DEF Waits, Kept
  <2> QED BY <2>1, <2>2, <2>3, <2>4 DEF Waits, Kept
<1>5. Tidies(q)'
  BY DEF PInv, Tidies, Kept, WantsPatch, Tmp, Patch
<1> QED BY <1>1, <1>2, <1>3, <1>4, <1>5 DEF PInv

\* A step of p is looked at where it happens.
LEMMA Together ==
  ASSUME IInv, NEW p \in Pushes, Types', (lock = NONE => candidate = {})', PInv(p)',
         Grows, \A q \in Pushes \ {p} : Kept(q) /\ Hands(q)
  PROVE  IInv'
<1>1. ASSUME NEW q \in Pushes, q # p
      PROVE  PInv(q)'
  BY <1>1, Frame DEF IInv
<1> QED BY <1>1 DEF IInv

-----------------------------------------------------------------------------
(* The client's steps *)

LEMMA Going ==
  ASSUME Types, NEW p \in Pushes, NEW l \in PC, Goto(p, l)
  PROVE  /\ pc' \in [Pushes -> PC] /\ pc'[p] = l
         /\ \A q \in Pushes \ {p} : pc'[q] = pc[q]
BY DEF Types, Goto

LEMMA Raising ==
  ASSUME Types, NEW p \in Pushes, NEW e \in Outcomes, Raise(p, e)
  PROVE  /\ pc' \in [Pushes -> PC] /\ pc'[p] = "delete"
         /\ outcome' \in [Pushes -> Outcomes] /\ outcome'[p] = e
         /\ \A q \in Pushes \ {p} : pc'[q] = pc[q] /\ outcome'[q] = outcome[q]
<1>1. "delete" \in PC
  BY DEF PC
<1> QED BY <1>1, Going DEF Raise, Types

\* What p's client did, and the types of it.
Mine(p) ==
  /\ arg' = arg
  /\ pc' \in [Pushes -> PC]
  /\ copied' \in [Pushes -> BOOLEAN]
  /\ outcome' \in [Pushes -> Outcomes]
  /\ fetched' \in [Pushes -> Nat \cup {NONE}]
  /\ \A q \in Pushes \ {p} : /\ pc'[q] = pc[q] /\ copied'[q] = copied[q]
                             /\ outcome'[q] = outcome[q] /\ fetched'[q] = fetched[q]

LEMMA ClientStep ==
  ASSUME IInv, NEW p \in Pushes, Mine(p), UNCHANGED router, Waits(p)', Tidies(p)'
  PROVE  IInv'
<1>1. Types'
  BY DEF IInv, Types, Mine, router, FileNames, Tmp, Patch, Uploads, Loads
<1>2. (lock = NONE => candidate = {})'
  BY DEF IInv, router
<1>3. Line(p)'
  BY DEF IInv, PInv, Line, Mine, router, WantsPatch, Patch, Tmp, Intact, Has, Ordered,
         Rank
<1>4. Edits(p)'
  BY DEF IInv, PInv, Edits, router, Bad, Has, Whole
<1>5. Tells(p)'
  BY DEF IInv, PInv, Tells, router, Bad, Has, Whole, Committed, Patch
<1>6. Grows
  BY LenProperties DEF IInv, Types, Grows, router
<1>7. \A q \in Pushes \ {p} : Kept(q) /\ Hands(q)
  BY DEF Mine, router, Kept, Hands, Tmp, Patch
<1> QED BY <1>1, <1>2, <1>3, <1>4, <1>5, <1>6, <1>7, Together DEF PInv

LEMMA Now ==
  ASSUME IInv, NEW p \in Pushes
  PROVE  Line(p) /\ Edits(p) /\ Tells(p) /\ Waits(p) /\ Tidies(p)
BY DEF IInv, PInv

\* What stays true of p's history as long as the router's is left alone.
LEMMA SameRouter ==
  ASSUME NEW p \in Pushes, UNCHANGED router, arg' = arg
  PROVE  /\ Committed(p)' = Committed(p)
         /\ Has(lines[p], "commit")' = Has(lines[p], "commit")
         /\ files[Patch(p)]' = files[Patch(p)] /\ files[Tmp(p)]' = files[Tmp(p)]
         /\ WantsPatch(p)' = WantsPatch(p)
         /\ batch' = batch /\ lines' = lines /\ history' = history
BY DEF router, Committed, Has, Patch, Tmp, Whole, WantsPatch

LEMMA StepLocalWrite ==
  ASSUME IInv, NEW p \in Pushes, LocalWrite(p)
  PROVE  IInv'
<1>1. Types /\ pc[p] = "start" /\ UNCHANGED <<arg, copied, fetched, router>>
  BY DEF LocalWrite, IInv
<1>2. /\ Mine(p)
      /\ pc'[p] = "upload" \/ (pc'[p] = "done" /\ outcome'[p] # "ok")
  <2>1. CASE Goto(p, "upload") /\ UNCHANGED outcome
    <3>1. "upload" \in PC
      BY DEF PC
    <3> QED BY <1>1, <2>1, <3>1, Going DEF Mine, Types
  <2>2. CASE Goto(p, "done") /\ outcome' = [outcome EXCEPT ![p] = "SetConfigError"]
    <3>1. "done" \in PC
      BY DEF PC
    <3> QED BY <1>1, <2>2, <3>1, Going DEF Mine, Types, Outcomes
  <2> QED BY <2>1, <2>2 DEF LocalWrite
<1>3. Waits(p)'
  BY <1>1, <1>2, Now, SameRouter DEF Waits, Passed, Before, Clean
<1>4. Tidies(p)'
  BY <1>1, <1>2, Now, SameRouter DEF Tidies
<1> QED BY <1>1, <1>2, <1>3, <1>4, ClientStep

LEMMA StepJudge ==
  ASSUME IInv, NEW p \in Pushes, Judge(p)
  PROVE  IInv'
<1> DEFINE a == arg[p]
           verdict == LoadError(lines[p], a.canary /\ ~a.skipCheck, ~a.canary)
<1>1. /\ Types /\ pc[p] = "load" /\ batch[p] = <<>>
      /\ UNCHANGED <<arg, copied, fetched, router>>
  BY DEF Judge, IInv
<1>2. \/ /\ verdict = "ok" /\ WantsPatch(p) /\ ~a.canary
         /\ Goto(p, "fetch") /\ UNCHANGED outcome
      \/ Raise(p, verdict)
  BY Zenon DEF Judge
<1>3. verdict \in Outcomes
  BY Zenon DEF LoadError, Outcomes
<1>4. verdict = "ok" => ~Bad(lines[p]) /\ (~a.canary => Has(lines[p], "commit"))
  <2>1. lines[p] \in Seq(Words)
    BY <1>1 DEF Types
  <2> QED BY <2>1, Accepted
<1> HIDE DEF verdict
<1>5. verdict = "ok" /\ ~a.canary => Committed(p) /\ Has(lines[p], "commit")
  BY <1>4, Now DEF Tells
<1>6. /\ Mine(p)
      /\ \/ /\ pc'[p] = "fetch" /\ verdict = "ok" /\ WantsPatch(p) /\ ~a.canary
         \/ pc'[p] = "delete" /\ outcome'[p] = verdict
  <2>1. CASE verdict = "ok" /\ WantsPatch(p) /\ ~a.canary /\ Goto(p, "fetch") /\ UNCHANGED outcome
    <3>1. "fetch" \in PC
      BY DEF PC
    <3>2. Goto(p, "fetch") /\ UNCHANGED outcome
      BY <2>1
    <3>3. Mine(p) /\ pc'[p] = "fetch"
      BY <1>1, <3>1, <3>2, Going DEF Mine, Types
    <3> QED BY <2>1, <3>3
  <2>2. CASE Raise(p, verdict)
    BY <1>1, <1>3, <2>2, Raising DEF Mine, Types
  <2> QED BY <1>2, <2>1, <2>2
<1>7. copied'[p] = copied[p] /\ fetched'[p] = fetched[p] /\ arg'[p] = arg[p] /\ copied[p]
  BY <1>1, Now DEF Waits
<1>8. Waits(p)'
  <2>1. Passed(p)' => verdict = "ok"
    BY <1>6 DEF Passed
  <2> QED BY <1>1, <1>5, <1>6, <1>7, <2>1, Now, SameRouter
          DEF Waits, Passed, Before, Clean, WantsPatch
<1>9. Tidies(p)'
  BY <1>1, <1>6, Now, SameRouter DEF Tidies
<1> QED BY <1>1, <1>6, <1>8, <1>9, ClientStep

LEMMA StepGiveUp ==
  ASSUME IInv, NEW p \in Pushes, GiveUp(p)
  PROVE  IInv'
<1>1. Types /\ pc[p] = "load" /\ UNCHANGED <<arg, copied, fetched, router>>
  BY DEF GiveUp, IInv
<1>2. Mine(p) /\ pc'[p] = "delete" /\ outcome'[p] # "ok"
  BY <1>1, Raising DEF GiveUp, Mine, Types, Outcomes
<1>3. Waits(p)'
  BY <1>1, <1>2, Now, SameRouter DEF Waits, Passed, Before, Clean
<1>4. Tidies(p)'
  BY <1>1, <1>2, Now, SameRouter DEF Tidies
<1> QED BY <1>1, <1>2, <1>3, <1>4, ClientStep

LEMMA StepFetch ==
  ASSUME IInv, NEW p \in Pushes, Fetch(p)
  PROVE  IInv'
<1>1. Types /\ pc[p] = "fetch" /\ UNCHANGED <<arg, copied, router>>
  BY DEF Fetch, IInv
<1>2. /\ Mine(p) /\ pc'[p] = "delete"
      /\ \/ fetched'[p] = fetched[p]
         \/ files[Patch(p)] # NONE /\ fetched'[p] = files[Patch(p)]
  <2>1. CASE /\ files[Patch(p)] # NONE
             /\ fetched' = [fetched EXCEPT ![p] = files[Patch(p)]]
             /\ Raise(p, "ok")
    <3>1. files[Patch(p)] \in Nat
      BY <1>1, <2>1, Now, LenProperties DEF Waits, Tells, Types
    <3> QED BY <1>1, <2>1, <3>1, Raising DEF Mine, Types, Outcomes
  <2>2. CASE (\E e \in {"ok", "other"} : Raise(p, e)) /\ UNCHANGED fetched
    BY <1>1, <2>2, Raising DEF Mine, Types, Outcomes
  <2> QED BY <2>1, <2>2 DEF Fetch
<1>3. Waits(p)'
  BY <1>1, <1>2, Now, SameRouter DEF Waits, Tells, Passed, Before, Clean
<1>4. Tidies(p)'
  BY <1>1, <1>2, Now, SameRouter DEF Tidies
<1> QED BY <1>1, <1>2, <1>3, <1>4, ClientStep

LEMMA StepLocalDeletes ==
  ASSUME IInv, NEW p \in Pushes, LocalDeletes(p)
  PROVE  IInv'
<1>1. Types /\ pc[p] = "local" /\ UNCHANGED <<arg, copied, fetched, router>>
  BY DEF LocalDeletes, IInv
<1>2. Mine(p) /\ pc'[p] = "done" /\ (outcome'[p] = "ok" => outcome[p] = "ok")
  <2>1. PICK e \in {outcome[p], "SetConfigError"} : outcome' = [outcome EXCEPT ![p] = e]
    BY DEF LocalDeletes
  <2>2. "done" \in PC /\ Goto(p, "done")
    BY DEF LocalDeletes, PC
  <2> QED BY <1>1, <2>1, <2>2, Going DEF Mine, Types, Outcomes
<1>3. Waits(p)'
  BY <1>1, <1>2, Now, SameRouter DEF Waits, Passed, Before, Clean
<1>4. Tidies(p)'
  BY <1>1, <1>2, Now, SameRouter DEF Tidies
<1> QED BY <1>1, <1>2, <1>3, <1>4, ClientStep

\* A step of the client that touches p's files, or hands over its line.
LEMMA FilesStep ==
  ASSUME IInv, NEW p \in Pushes, Mine(p),
         UNCHANGED <<lock, candidate, older, history, lines>>,
         files' \in [FileNames -> Uploads \cup Nat \cup {NONE}],
         batch' \in [Pushes -> Seq(Words)],
         \A q \in Pushes \ {p} : /\ batch'[q] = batch[q]
                               /\ files'[Tmp(q)] = files[Tmp(q)]
                               /\ files'[Patch(q)] = files[Patch(q)],
         PInv(p)'
  PROVE  IInv'
<1>1. Types'
  BY DEF IInv, Types, Mine, FileNames, Tmp, Patch, Uploads, Loads
<1>2. (lock = NONE => candidate = {})'
  BY DEF IInv
<1>3. Grows
  BY LenProperties DEF IInv, Types, Grows
<1>4. \A q \in Pushes \ {p} : Kept(q) /\ Hands(q)
  BY DEF Mine, Kept, Hands, Tmp, Patch
<1> QED BY <1>1, <1>2, <1>3, <1>4, Together

\* Before its line is handed over the router knows nothing of a push.
LEMMA Unseen ==
  ASSUME NEW p \in Pushes, Edits(p), batch[p] = <<>>, lines[p] = <<>>,
         UNCHANGED <<lock, candidate, history, lines, batch>>
  PROVE  Line(p)' /\ Edits(p)' /\ Tells(p)' /\ lock # p
<1>1. lock # p
  BY DEF Edits
<1>2. batch'[p] = <<>> /\ lines'[p] = <<>> /\ lock' # p
  BY <1>1
<1>3. Line(p)'
  BY <1>2 DEF Line, Ordered, Has
<1>4. Edits(p)'
  BY <1>2 DEF Edits
<1>5. Tells(p)'
  BY <1>2 DEF Tells, Has
<1> QED BY <1>1, <1>3, <1>4, <1>5

\* What a file of the router's becomes changes no other.
LEMMA Written ==
  ASSUME Types, NEW p \in Pushes, NEW f \in FileNames,
         NEW c \in Uploads \cup Nat \cup {NONE}, files' = [files EXCEPT ![f] = c]
  PROVE  /\ files' \in [FileNames -> Uploads \cup Nat \cup {NONE}]
         /\ files'[f] = c
         /\ \A g \in FileNames : g # f => files'[g] = files[g]
BY DEF Types

LEMMA StepUpload ==
  ASSUME IInv, NEW p \in Pushes, Upload(p) \/ UploadFails(p)
  PROVE  IInv'
<1>1. /\ Types /\ pc[p] = "upload"
      /\ UNCHANGED <<arg, fetched, lock, candidate, older, history, batch, lines>>
  BY DEF Upload, UploadFails, IInv
<1>2. /\ Mine(p)
      /\ \/ pc'[p] = "checksum" /\ copied'[p]
         \/ pc'[p] = "delete" /\ outcome'[p] # "ok"
  <2>1. CASE Upload(p)
    <3>1. "checksum" \in PC
      BY DEF PC
    <3>2. Goto(p, "checksum") /\ copied' = [copied EXCEPT ![p] = TRUE] /\ UNCHANGED outcome
      BY <2>1 DEF Upload
    <3> QED BY <1>1, <3>1, <3>2, Going DEF Mine, Types
  <2>2. CASE UploadFails(p)
    <3>1. PICK e \in {"SetConfigError", "other"} : Raise(p, e)
      BY <2>2 DEF UploadFails
    <3>2. UNCHANGED copied
      BY <2>2 DEF UploadFails
    <3> QED BY <1>1, <3>1, <3>2, Raising DEF Mine, Types, Outcomes
  <2> QED BY <2>1, <2>2
<1>3. PICK c \in Uploads \cup Nat \cup {NONE} : files' = [files EXCEPT ![FileName(p)] = c]
  <2>1. CASE Upload(p)
    BY <2>1 DEF Upload, Uploads
  <2>2. CASE UploadFails(p)
    <3>1. files[FileName(p)] \in Uploads \cup Nat \cup {NONE}
      BY <1>1, Names DEF Types
    <3> QED BY <2>2, <3>1 DEF UploadFails, Uploads
  <2> QED BY <2>1, <2>2
<1>4. /\ files' \in [FileNames -> Uploads \cup Nat \cup {NONE}]
      /\ \A g \in FileNames : g # FileName(p) => files'[g] = files[g]
  BY <1>1, <1>3, Names, Written
<1>5. /\ files'[Patch(p)] = files[Patch(p)]
      /\ arg[p].dest # "config" => files'[Tmp(p)] = files[Tmp(p)]
      /\ \A q \in Pushes \ {p} : /\ files'[Tmp(q)] = files[Tmp(q)]
                                /\ files'[Patch(q)] = files[Patch(q)]
  BY <1>4, Names
<1>6. batch[p] = <<>> /\ lines[p] = <<>> /\ files[Patch(p)] = NONE
  BY <1>1, Now DEF Waits, Before
<1>7. Line(p)' /\ Edits(p)' /\ Tells(p)'
  BY <1>1, <1>6, Now, Unseen
<1>8. /\ Patch(p)' = Patch(p) /\ Tmp(p)' = Tmp(p) /\ WantsPatch(p)' = WantsPatch(p)
      /\ fetched'[p] = fetched[p] /\ arg'[p] = arg[p]
  BY <1>1 DEF Patch, Tmp, WantsPatch
<1>9. Waits(p)'
  <2>1. /\ ~Passed(p)' /\ pc'[p] \notin {"load", "fetch"}
        /\ (pc'[p] \in Before \/ pc'[p] = "checksum") => copied'[p]
    BY <1>2 DEF Passed, Clean, Before
  <2> QED BY <1>1, <1>5, <1>6, <1>8, <2>1, Now DEF Waits
<1>10. Tidies(p)'
  BY <1>1, <1>2, <1>5, <1>8, Now DEF Tidies
<1>11. batch' \in [Pushes -> Seq(Words)] /\ batch' = batch
  BY <1>1 DEF Types
<1> QED BY <1>1, <1>2, <1>4, <1>5, <1>7, <1>9, <1>10, <1>11, FilesStep DEF PInv

LEMMA StepChecksum ==
  ASSUME IInv, NEW p \in Pushes, Checksum(p)
  PROVE  IInv'
<1>1. /\ Types /\ pc[p] = "checksum"
      /\ UNCHANGED <<arg, copied, fetched, files, lock, candidate, older, history, lines>>
  BY DEF Checksum, IInv
<1>2. /\ batch[p] = <<>> /\ lines[p] = <<>> /\ files[Patch(p)] = NONE
      /\ copied[p] /\ lock # p
  BY <1>1, Now DEF Waits, Before, Edits
<1>3. /\ Committed(p)' = Committed(p) /\ Patch(p)' = Patch(p) /\ Tmp(p)' = Tmp(p)
      /\ WantsPatch(p)' = WantsPatch(p) /\ files' = files /\ arg' = arg
      /\ fetched' = fetched /\ copied' = copied /\ lines' = lines /\ lock' = lock
      /\ history' = history
  BY <1>1 DEF Committed, Whole, Patch, Tmp, WantsPatch
<1>4. ASSUME UNCHANGED batch, Mine(p), pc'[p] = "delete",
             outcome'[p] = "ok" => arg[p].dest = "file"
      PROVE  IInv'
  <2>1. Line(p)' /\ Edits(p)' /\ Tells(p)'
    BY <1>1, <1>2, <1>4, Now, Unseen
  <2>2. Waits(p)'
    BY <1>1, <1>2, <1>3, <1>4, Now DEF Waits, Passed, Clean, Before
  <2>3. Tidies(p)'
    BY <1>1, <1>3, <1>4, Now DEF Tidies
  <2> QED BY <1>1, <1>4, <2>1, <2>2, <2>3, FilesStep DEF PInv, Types
<1>5. CASE (\E e \in {"CmdError", "SetConfigError"} : Raise(p, e)) /\ UNCHANGED batch
  <2>1. Mine(p) /\ pc'[p] = "delete" /\ outcome'[p] # "ok"
    BY <1>1, <1>5, Raising DEF Mine, Types, Outcomes
  <2> QED BY <1>4, <1>5, <2>1
<1>6. CASE arg[p].dest = "file" /\ Goto(p, "delete") /\ UNCHANGED <<batch, outcome>>
  <2>1. "delete" \in PC
    BY DEF PC
  <2>2. Mine(p) /\ pc'[p] = "delete"
    BY <1>1, <1>6, <2>1, Going DEF Mine, Types
  <2> QED BY <1>4, <1>6, <2>2
<1>7. CASE /\ files[FileName(p)] = [of |-> p, intact |-> TRUE]
           /\ arg[p].dest # "file" /\ Goto(p, "load") /\ UNCHANGED outcome
           /\ batch' = [batch EXCEPT ![p] = Batch(arg[p])]
  <2>1. arg[p] \in Arguments
    BY <1>1 DEF Types
  <2> DEFINE b == Batch(arg[p])
  <2>2. /\ b \in Seq(Words) /\ Ordered(b) /\ Len(b) \in Nat /\ Len(b) >= 2
        /\ b[1] = "edit" /\ b[2] = "load" /\ b[Len(b)] = "exit"
        /\ Has(b, "save") => arg[p].patch
    BY <2>1, BatchIsLine
  <2>3. batch' = [batch EXCEPT ![p] = b]
    BY <1>7
  <2>4. arg[p].dest = "config"
    BY <1>7, <2>1 DEF Arguments
  <2>5. files[Tmp(p)] = Intact(p)
    BY <1>7, <2>4, Names DEF Intact
  <2> HIDE DEF b
  <2>6. /\ batch' \in [Pushes -> Seq(Words)] /\ batch'[p] = b
        /\ \A q \in Pushes \ {p} : batch'[q] = batch[q]
    BY <1>1, <2>2, <2>3 DEF Types
  <2>7. "load" \in PC
    BY DEF PC
  <2>8. Mine(p) /\ pc'[p] = "load"
    BY <1>1, <1>7, <2>7, Going DEF Mine, Types
  <2>9. Line(p)'
    <3>1. Intact(p)' = Intact(p)
      BY DEF Intact
    <3> QED BY <1>2, <1>3, <2>2, <2>4, <2>5, <2>6, <3>1
            DEF Line, WantsPatch, Ordered, Has, Rank
  <2>10. Edits(p)' /\ Tells(p)'
    BY <1>2, <1>3 DEF Edits, Tells, Has
  <2>11. Waits(p)'
    BY <1>1, <1>2, <1>3, <2>8, Now DEF Waits, Passed, Clean, Before
  <2>12. Tidies(p)'
    BY <1>1, <1>3, <2>8, Now DEF Tidies
  <2> QED BY <1>1, <1>3, <2>6, <2>8, <2>9, <2>10, <2>11, <2>12, FilesStep DEF PInv, Types
<1> QED BY <1>5, <1>6, <1>7, Zenon DEF Checksum

LEMMA Removed ==
  ASSUME IInv, NEW p \in Pushes,
         UNCHANGED <<arg, lock, candidate, older, history, batch, lines>>,
         files'[Tmp(p)] \in {files[Tmp(p)], NONE},
         files'[Patch(p)] \in {files[Patch(p)], NONE}
  PROVE  Line(p)' /\ Edits(p)' /\ Tells(p)'
<1>1. Line(p)'
  BY Now DEF Line, WantsPatch, Patch, Tmp, Intact, Has, Ordered, Rank
<1>2. Edits(p)'
  BY Now DEF Edits, Bad, Has, Whole
<1>3. Tells(p)'
  BY Now DEF Tells, Bad, Has, Whole, Committed, Patch
<1> QED BY <1>1, <1>2, <1>3

\* `file delete', of a temporary file or a patch: done, or raising CmdError.
LEMMA Deleting ==
  ASSUME IInv, NEW p \in Pushes, pc[p] \in {"delete", "delete_patch"},
         NEW f \in {Tmp(p), Patch(p)}, NEW l \in PC, Delete(p, f, l),
         UNCHANGED <<arg, copied, fetched, lock, candidate, older, history, batch, lines>>
  PROVE  /\ Mine(p)
         /\ files' \in [FileNames -> Uploads \cup Nat \cup {NONE}]
         /\ files'[Tmp(p)] \in {files[Tmp(p)], NONE}
         /\ files'[Patch(p)] \in {files[Patch(p)], NONE}
         /\ \A q \in Pushes \ {p} : /\ files'[Tmp(q)] = files[Tmp(q)]
                                   /\ files'[Patch(q)] = files[Patch(q)]
         /\ \/ pc'[p] = l /\ outcome'[p] = outcome[p] /\ files'[f] = NONE
            \/ pc'[p] = "done" /\ outcome'[p] # "ok"
<1>1. Types
  BY DEF IInv
<1>2. f \in FileNames
  BY Names
<1>3. PICK c \in {files[f], NONE} :
        /\ files' = [files EXCEPT ![f] = c]
        /\ \/ c = NONE /\ Goto(p, l) /\ UNCHANGED outcome
           \/ outcome' = [outcome EXCEPT ![p] = "CmdError"] /\ Goto(p, "done")
  BY DEF Delete
<1>4. c \in Uploads \cup Nat \cup {NONE}
  BY <1>1, <1>2 DEF Types
<1>5. /\ files' \in [FileNames -> Uploads \cup Nat \cup {NONE}]
      /\ files'[f] = c /\ \A g \in FileNames : g # f => files'[g] = files[g]
  BY <1>1, <1>2, <1>3, <1>4, Written
<1>6. /\ files'[Tmp(p)] \in {files[Tmp(p)], NONE}
      /\ files'[Patch(p)] \in {files[Patch(p)], NONE}
  BY <1>5, Names
<1>7. ASSUME NEW q \in Pushes, q # p
      PROVE  files'[Tmp(q)] = files[Tmp(q)] /\ files'[Patch(q)] = files[Patch(q)]
  <2>1. Tmp(q) # f /\ Patch(q) # f
    BY <1>7, Names
  <2> QED BY <1>5, <2>1, Names
<1>8. /\ Mine(p)
      /\ \/ pc'[p] = l /\ outcome'[p] = outcome[p] /\ c = NONE
         \/ pc'[p] = "done" /\ outcome'[p] # "ok"
  <2>1. CASE c = NONE /\ Goto(p, l) /\ UNCHANGED outcome
    BY <1>1, <2>1, Going DEF Mine, Types
  <2>2. CASE outcome' = [outcome EXCEPT ![p] = "CmdError"] /\ Goto(p, "done")
    <3>1. "done" \in PC
      BY DEF PC
    <3> QED BY <1>1, <2>2, <3>1, Going DEF Mine, Types, Outcomes
  <2> QED BY <1>3, <2>1, <2>2
<1> QED BY <1>5, <1>6, <1>7, <1>8

\* The invariant after a step of the clause, from what the step must not lose.
LEMMA Tidied ==
  ASSUME IInv, NEW p \in Pushes, pc[p] \in {"delete", "delete_patch"}, Mine(p),
         UNCHANGED <<arg, copied, fetched, lock, candidate, older, history, batch, lines>>,
         files' \in [FileNames -> Uploads \cup Nat \cup {NONE}],
         files'[Tmp(p)] \in {files[Tmp(p)], NONE},
         files'[Patch(p)] \in {files[Patch(p)], NONE},
         \A q \in Pushes \ {p} : /\ files'[Tmp(q)] = files[Tmp(q)]
                               /\ files'[Patch(q)] = files[Patch(q)],
         pc'[p] \in Clean, outcome'[p] = "ok" => outcome[p] = "ok",
         pc'[p] \in {"delete_patch", "local", "done"} /\ outcome'[p] = "ok" =>
           files'[Tmp(p)] = NONE,
         pc'[p] \in {"local", "done"} /\ outcome'[p] = "ok" => files'[Patch(p)] = NONE
  PROVE  IInv'
<1>1. Line(p)' /\ Edits(p)' /\ Tells(p)'
  BY Removed
<1>2. /\ Committed(p)' = Committed(p) /\ Patch(p)' = Patch(p) /\ Tmp(p)' = Tmp(p)
      /\ WantsPatch(p)' = WantsPatch(p)
  BY DEF Committed, Whole, Patch, Tmp, WantsPatch
<1>3. Waits(p)'
  BY <1>2, Now DEF Waits, Passed, Clean, Before
<1>4. Tidies(p)'
  BY <1>2, Now DEF Tidies
<1>5. batch' \in [Pushes -> Seq(Words)]
  BY DEF IInv, Types
<1> QED BY <1>1, <1>3, <1>4, <1>5, FilesStep DEF PInv

LEMMA StepDeleteTmp ==
  ASSUME IInv, NEW p \in Pushes, DeleteTmp(p)
  PROVE  IInv'
<1>1. /\ Types /\ pc[p] = "delete"
      /\ UNCHANGED <<arg, copied, fetched, lock, candidate, older, history, batch, lines>>
  BY DEF DeleteTmp, IInv
<1>2. "delete_patch" \in PC /\ "delete_patch" \in Clean /\ "done" \in Clean
  BY DEF PC, Clean
<1>3. CASE Delete(p, Tmp(p), "delete_patch")
  <2>1. /\ Mine(p)
        /\ files' \in [FileNames -> Uploads \cup Nat \cup {NONE}]
        /\ files'[Tmp(p)] \in {files[Tmp(p)], NONE}
        /\ files'[Patch(p)] \in {files[Patch(p)], NONE}
        /\ \A q \in Pushes \ {p} : /\ files'[Tmp(q)] = files[Tmp(q)]
                                  /\ files'[Patch(q)] = files[Patch(q)]
        /\ \/ pc'[p] = "delete_patch" /\ outcome'[p] = outcome[p] /\ files'[Tmp(p)] = NONE
           \/ pc'[p] = "done" /\ outcome'[p] # "ok"
    BY <1>1, <1>2, <1>3, Deleting
  <2> QED BY <1>1, <1>2, <2>1, Tidied
<1>4. CASE ~(copied[p] /\ arg[p].dest = "config") /\ Goto(p, "delete_patch")
           /\ UNCHANGED <<files, outcome>>
  <2>1. Mine(p) /\ pc'[p] = "delete_patch"
    BY <1>1, <1>2, <1>4, Going DEF Mine, Types
  <2>2. outcome[p] = "ok" => copied[p]
    BY <1>1, Now DEF Waits, Passed, Clean
  <2>3. arg[p] \in Arguments
    BY <1>1 DEF Types
  <2>4. outcome[p] = "ok" => arg[p].dest = "file"
    BY <1>4, <2>2, <2>3 DEF Arguments
  <2>5. outcome[p] = "ok" => files[Tmp(p)] = NONE
    BY <2>4, Now DEF Tidies
  <2>6. files' = files /\ outcome' = outcome
        /\ files' \in [FileNames -> Uploads \cup Nat \cup {NONE}]
    BY <1>1, <1>4 DEF Types
  <2> QED BY <1>1, <1>2, <2>1, <2>5, <2>6, Tidied
<1> QED BY <1>3, <1>4, Zenon DEF DeleteTmp

LEMMA StepDeletePatch ==
  ASSUME IInv, NEW p \in Pushes, DeletePatch(p)
  PROVE  IInv'
<1>1. /\ Types /\ pc[p] = "delete_patch"
      /\ UNCHANGED <<arg, copied, fetched, lock, candidate, older, history, batch, lines>>
  BY DEF DeletePatch, IInv
<1>2. "local" \in PC /\ "local" \in Clean /\ "done" \in Clean
  BY DEF PC, Clean
<1>3. outcome[p] = "ok" => files[Tmp(p)] = NONE
  BY <1>1, Now DEF Tidies
<1>4. CASE Delete(p, Patch(p), "local")
  <2>1. /\ Mine(p)
        /\ files' \in [FileNames -> Uploads \cup Nat \cup {NONE}]
        /\ files'[Tmp(p)] \in {files[Tmp(p)], NONE}
        /\ files'[Patch(p)] \in {files[Patch(p)], NONE}
        /\ \A q \in Pushes \ {p} : /\ files'[Tmp(q)] = files[Tmp(q)]
                                  /\ files'[Patch(q)] = files[Patch(q)]
        /\ \/ pc'[p] = "local" /\ outcome'[p] = outcome[p] /\ files'[Patch(p)] = NONE
           \/ pc'[p] = "done" /\ outcome'[p] # "ok"
    BY <1>1, <1>2, <1>4, Deleting
  <2> QED BY <1>1, <1>2, <1>3, <2>1, Tidied
<1>5. CASE ~WantsPatch(p) /\ Goto(p, "local") /\ UNCHANGED <<files, outcome>>
  <2>1. Mine(p) /\ pc'[p] = "local"
    BY <1>1, <1>2, <1>5, Going DEF Mine, Types
  <2>2. files[Patch(p)] = NONE
    BY <1>5, Now DEF Tidies
  <2>3. files' = files /\ outcome' = outcome
        /\ files' \in [FileNames -> Uploads \cup Nat \cup {NONE}]
    BY <1>1, <1>5 DEF Types
  <2> QED BY <1>1, <1>2, <1>3, <2>1, <2>2, <2>3, Tidied
<1> QED BY <1>4, <1>5, Zenon DEF DeletePatch

-----------------------------------------------------------------------------
(* The router's steps *)

LEMMA Running ==
  ASSUME Types, NEW p \in Pushes, batch[p] # <<>>, NEW out \in Seq(Words), Ran(p, out)
  PROVE  /\ batch' \in [Pushes -> Seq(Words)] /\ lines' \in [Pushes -> Seq(Words)]
         /\ batch'[p] = Tail(batch[p]) /\ lines'[p] = lines[p] \o out
         /\ lines[p] \o out \in Seq(Words)
         /\ \A q \in Pushes \ {p} : batch'[q] = batch[q] /\ lines'[q] = lines[q]
<1>1. batch \in [Pushes -> Seq(Words)] /\ lines \in [Pushes -> Seq(Words)]
  BY DEF Types
<1>2. Tail(batch[p]) \in Seq(Words) /\ lines[p] \o out \in Seq(Words)
  BY <1>1, RestOf, Both
<1>3. /\ batch' = [batch EXCEPT ![p] = Tail(batch[p])]
      /\ lines' = [lines EXCEPT ![p] = lines[p] \o out]
  BY DEF Ran
<1> QED BY <1>1, <1>2, <1>3

\* After its first command the rest of a line starts with a later one.
LEMMA Later ==
  ASSUME NEW b \in Seq(Words), b # <<>>, Ordered(b), b[Len(b)] = "exit"
  PROVE  /\ Ordered(Tail(b))
         /\ Tail(b) # <<>> => Tail(b)[Len(Tail(b))] = "exit" /\ Rank(Tail(b)[1]) > Rank(b[1])
         /\ b[1] # "exit" => Tail(b) # <<>>
         /\ \A c : Has(Tail(b), c) => Has(b, c) /\ Rank(c) > Rank(b[1])
<1> DEFINE t == Tail(b)
<1>1. /\ Len(b) \in Nat /\ Len(b) >= 1 /\ t \in Seq(Words) /\ Len(t) = Len(b) - 1
      /\ \A i \in 1..(Len(b) - 1) : t[i] = b[i + 1]
  BY RestOf
<1>2. t # <<>> => Len(t) >= 1
  BY <1>1, EmptySeq
<1> HIDE DEF t
<1>3. ASSUME NEW i \in 1..Len(t)
      PROVE  /\ i + 1 \in 1..Len(b) /\ t[i] = b[i + 1] /\ Rank(t[i]) > Rank(b[1])
  <2>1. i + 1 \in 1..Len(b) /\ 1 \in 1..Len(b) /\ 1 < i + 1 /\ t[i] = b[i + 1]
    BY <1>1
  <2>2. Rank(b[1]) < Rank(b[i + 1])
    BY <2>1 DEF Ordered
  <2>3. Rank(b[1]) \in Int /\ Rank(b[i + 1]) \in Int
    BY DEF Rank
  <2> QED BY <2>1, <2>2, <2>3
<1>4. ASSUME NEW i \in 1..Len(t), NEW j \in 1..Len(t), i < j
      PROVE  Rank(t[i]) < Rank(t[j])
  <2>1. i + 1 < j + 1
    BY <1>4
  <2> QED BY <1>3, <2>1 DEF Ordered
<1>5. ASSUME t # <<>>
      PROVE  t[Len(t)] = "exit" /\ Rank(t[1]) > Rank(b[1])
  <2>1. Len(t) \in 1..Len(t) /\ 1 \in 1..Len(t) /\ Len(t) + 1 = Len(b)
    BY <1>1, <1>2, <1>5
  <2> QED BY <1>3, <2>1
<1>6. ASSUME b[1] # "exit"
      PROVE  t # <<>>
  <2>1. Len(b) # 1
    BY <1>6
  <2>2. Len(t) >= 1
    BY <1>1, <2>1
  <2> QED BY <2>2
<1>7. ASSUME NEW c, Has(t, c)
      PROVE  Has(b, c) /\ Rank(c) > Rank(b[1])
  <2>1. PICK i \in 1..Len(t) : t[i] = c
    BY <1>7 DEF Has
  <2> QED BY <1>3, <2>1 DEF Has
<1>8. Ordered(t)
  BY <1>4 DEF Ordered
<1> QED BY <1>5, <1>6, <1>7, <1>8 DEF t

LEMMA LineGoesOn ==
  ASSUME IInv, NEW p \in Pushes, batch[p] # <<>>, batch'[p] = Tail(batch[p]),
         arg' = arg, files'[Tmp(p)] = files[Tmp(p)],
         files'[Patch(p)] = files[Patch(p)] \/ batch[p][1] = "save"
  PROVE  Line(p)'
<1> DEFINE b == batch[p]
           t == Tail(batch[p])
<1>1. Line(p) /\ b \in Seq(Words)
  BY Now DEF IInv, Types
<1>2. /\ Ordered(t)
      /\ t # <<>> => t[Len(t)] = "exit" /\ Rank(t[1]) > Rank(b[1])
      /\ \A c : Has(t, c) => Has(b, c) /\ Rank(c) > Rank(b[1])
  BY <1>1, Later DEF Line
<1>3. t # <<>> => t[1] # "edit"
  BY <1>2 DEF Rank
<1>4. Has(t, "save") => WantsPatch(p)
  BY <1>1, <1>2 DEF Line
<1>5. Has(t, "commit") => files'[Patch(p)] = NONE
  <2>1. Has(t, "commit") => b[1] # "save"
    BY <1>2 DEF Rank
  <2> QED BY <1>1, <1>2, <2>1 DEF Line
<1>6. /\ Ordered(batch[p])' = Ordered(t)
      /\ \A c : Has(batch[p], c)' = Has(t, c)
  BY DEF Ordered, Has, Rank
<1>7. /\ Patch(p)' = Patch(p) /\ Tmp(p)' = Tmp(p) /\ Intact(p)' = Intact(p)
      /\ WantsPatch(p)' = WantsPatch(p) /\ batch'[p] = t
  BY DEF Patch, Tmp, Intact, WantsPatch
<1> HIDE DEF t
<1> QED BY <1>1, <1>2, <1>3, <1>4, <1>5, <1>6, <1>7 DEF Line

\* What the router does to p, its client standing by.
LEMMA RouterStep ==
  ASSUME IInv, NEW p \in Pushes, UNCHANGED client, Grows,
         files' \in [FileNames -> Uploads \cup Nat \cup {NONE}],
         files'[Tmp(p)] = files[Tmp(p)],
         files'[Patch(p)] = files[Patch(p)] \/ WantsPatch(p),
         files'[Patch(p)] = files[Patch(p)] \/ batch[p] # <<>>,
         lock' \in Pushes \cup {NONE}, candidate' \in SUBSET Loads,
         history' \in Seq([by : Pushes, loads : SUBSET Loads]),
         batch' \in [Pushes -> Seq(Words)], lines' \in [Pushes -> Seq(Words)],
         lock' = NONE => candidate' = {},
         batch[p] # <<>>,
         \A q \in Pushes \ {p} : /\ batch'[q] = batch[q] /\ lines'[q] = lines[q]
                               /\ files'[Tmp(q)] = files[Tmp(q)]
                               /\ files'[Patch(q)] = files[Patch(q)]
                               /\ Hands(q),
         Line(p)', Edits(p)', Tells(p)'
  PROVE  IInv'
<1>1. Types'
  BY DEF IInv, Types, client, FileNames, Tmp, Patch, Uploads, Loads
<1>2. arg' = arg /\ pc' = pc /\ copied' = copied /\ outcome' = outcome /\ fetched' = fetched
  BY DEF client
<1>3. /\ Patch(p)' = Patch(p) /\ Tmp(p)' = Tmp(p) /\ WantsPatch(p)' = WantsPatch(p)
      /\ Passed(p)' = Passed(p)
  BY <1>2 DEF Patch, Tmp, WantsPatch, Passed
<1>4. pc[p] \notin Before /\ ~Passed(p)
  BY Now DEF Waits
<1>5. Waits(p)'
  BY <1>2, <1>3, <1>4, Now, ByStays DEF Waits, Passed
<1>6. Tidies(p)'
  <2>1. pc[p] \in {"delete_patch", "local", "done"} => outcome[p] # "ok"
    BY <1>4 DEF Passed, Clean
  <2> QED BY <1>2, <1>3, <2>1, Now DEF Tidies
<1>7. \A q \in Pushes \ {p} : Kept(q)
  BY <1>2 DEF Kept
<1> QED BY <1>1, <1>5, <1>6, <1>7, Together DEF PInv

\* No transcript without a commit gets one from another output.
LEMMA TellsGoOn ==
  ASSUME IInv, NEW p \in Pushes, NEW out \in Seq(Words), lines'[p] = lines[p] \o out,
         ~Has(out, "commit"), history' = history,
         files'[Patch(p)] = files[Patch(p)] \/ files'[Patch(p)] = NONE
           \/ (lock = p /\ files'[Patch(p)] = Len(history))
  PROVE  Tells(p)' /\ (Has(lines[p], "commit")' <=> Has(lines[p], "commit"))
<1>1. lines[p] \in Seq(Words)
  BY DEF IInv, Types
<1>2. Has(lines[p], "commit")' <=> Has(lines[p] \o out, "commit")
  BY DEF Has
<1>3. Has(lines[p], "commit")' <=> Has(lines[p], "commit")
  BY <1>1, <1>2, HasBoth
<1>4. Bad(lines[p]) => Bad(lines[p])'
  <2>1. Bad(lines[p]) => Bad(lines[p] \o out)
    BY <1>1, BadStays
  <2> QED BY <2>1 DEF Bad
<1>5. Committed(p)' = Committed(p) /\ Patch(p)' = Patch(p)
  BY DEF Committed, Whole, Patch
<1>6. Has(lines[p], "commit") /\ files'[Patch(p)] # NONE =>
        files'[Patch(p)] \in 1..Len(history) /\ history[files'[Patch(p)]].by = p
  <2>1. Len(history) \in Nat
    BY LenProperties DEF IInv, Types
  <2>2. CASE files'[Patch(p)] = files[Patch(p)]
    BY <2>2, Now DEF Tells
  <2>3. CASE lock = p /\ files'[Patch(p)] = Len(history)
    BY <2>1, <2>3, Now DEF Edits
  <2> QED BY <2>2, <2>3
<1>7. Tells(p)
  BY Now
<1> QED BY <1>3, <1>4, <1>5, <1>6, <1>7 DEF Tells

\* The session that has the configuration runs its next command.
LEMMA EditsGoOn ==
  ASSUME IInv, NEW p \in Pushes, lock = p, lock' = p, batch'[p] = Tail(batch[p]),
         batch[p][1] \in {"compare", "check", "commit", "rollback_1", "save", "rollback"},
         batch[p][1] \in {"compare", "check"} => candidate' = candidate,
         history' = history, NEW out \in Seq(Words), lines'[p] = lines[p] \o out,
         ~Has(out, "commit")
  PROVE  Edits(p)'
<1> DEFINE b == batch[p]
           t == Tail(batch[p])
<1>1. Line(p) /\ Edits(p) /\ b \in Seq(Words) /\ b # <<>> /\ lines[p] \in Seq(Words)
  BY Now DEF IInv, Types, Edits
<1>2. t # <<>> /\ Rank(t[1]) > Rank(b[1])
  BY <1>1, Later DEF Line
<1>3. t[1] # "edit" /\ t[1] # "load"
  BY <1>2 DEF Rank
<1>4. t[1] \in {"compare", "check", "commit"} => b[1] \in {"compare", "check"}
  BY <1>2 DEF Rank
<1>5. t[1] \in {"compare", "check", "commit"} =>
        Bad(lines[p])' \/ candidate' = {Whole(p)}
  <2>1. SUFFICES ASSUME t[1] \in {"compare", "check", "commit"}
                 PROVE  Bad(lines[p])' \/ candidate' = {Whole(p)}
    OBVIOUS
  <2>2. b[1] \in {"compare", "check"}
    BY <1>4, <2>1
  <2>3. CASE Bad(lines[p])
    <3>1. Bad(lines[p] \o out)
      BY <1>1, <2>3, BadStays
    <3> QED BY <3>1 DEF Bad
  <2>4. CASE candidate = {Whole(p)}
    BY <2>2, <2>4
  <2> QED BY <1>1, <2>2, <2>3, <2>4 DEF Edits
<1>6. Has(lines[p], "commit")' => Has(lines[p], "commit")
  <2>1. Has(lines[p] \o out, "commit") => Has(lines[p], "commit")
    BY <1>1, HasBoth
  <2> QED BY <2>1 DEF Has
<1>7. batch'[p] = t /\ Whole(p)' = Whole(p)
  BY DEF Whole
<1> HIDE DEF t, b
<1> QED BY <1>1, <1>2, <1>3, <1>5, <1>6, <1>7 DEF Edits

\* What is the same for every command but the deeds of Load, Commit and SavePatch.
LEMMA QuietCommand ==
  ASSUME IInv, NEW p \in Pushes, batch[p] # <<>>, UNCHANGED <<client, files, history>>,
         NEW out \in Seq(Words), Ran(p, out), ~Has(out, "commit"),
         lock' \in Pushes \cup {NONE}, candidate' \in SUBSET Loads,
         lock' = NONE => candidate' = {},
         \A q \in Pushes \ {p} : lock' = q => lock = q /\ candidate' = candidate,
         Edits(p)'
  PROVE  IInv'
<1>1. Types
  BY DEF IInv
<1>2. /\ batch' \in [Pushes -> Seq(Words)] /\ lines' \in [Pushes -> Seq(Words)]
      /\ batch'[p] = Tail(batch[p]) /\ lines'[p] = lines[p] \o out
      /\ \A q \in Pushes \ {p} : batch'[q] = batch[q] /\ lines'[q] = lines[q]
  BY <1>1, Running
<1>3. Line(p)'
  BY <1>2, LineGoesOn DEF client
<1>4. Tells(p)'
  BY <1>2, TellsGoOn
<1>5. Grows
  BY <1>1, LenProperties DEF Grows, Types
<1>6. \A q \in Pushes \ {p} : Hands(q)
  BY DEF Hands
<1>7. /\ files' \in [FileNames -> Uploads \cup Nat \cup {NONE}]
      /\ history' \in Seq([by : Pushes, loads : SUBSET Loads])
  BY <1>1 DEF Types
<1> QED BY <1>2, <1>3, <1>4, <1>5, <1>6, <1>7, RouterStep

LEMMA Outputs ==
  /\ <<>> \in Seq(Words) /\ <<"text">> \in Seq(Words) /\ <<"error">> \in Seq(Words)
  /\ <<"syntax", "error">> \in Seq(Words) /\ <<"[]", "+">> \in Seq(Words)
  /\ <<"check">> \in Seq(Words) /\ <<"[]", "error", "error">> \in Seq(Words)
  /\ <<"[]", "text", "error">> \in Seq(Words) /\ <<"text", "re", "[]">> \in Seq(Words)
  /\ <<"commit">> \in Seq(Words) /\ <<"re", "commit">> \in Seq(Words)
  /\ \A o \in {<<>>, <<"text">>, <<"error">>, <<"syntax", "error">>, <<"[]", "+">>,
             <<"check">>, <<"[]", "error", "error">>, <<"[]", "text", "error">>,
             <<"text", "re", "[]">>} : ~Has(o, "commit")
<1>1. ~Has(<<>>, "commit") /\ ~Has(<<"text">>, "commit") /\ ~Has(<<"error">>, "commit")
      /\ ~Has(<<"check">>, "commit")
  BY DEF Has
<1>2. ~Has(<<"syntax", "error">>, "commit") /\ ~Has(<<"[]", "+">>, "commit")
  BY DEF Has
<1>3. ~Has(<<"[]", "error", "error">>, "commit") /\ ~Has(<<"[]", "text", "error">>, "commit")
      /\ ~Has(<<"text", "re", "[]">>, "commit")
  BY DEF Has
<1> QED BY <1>1, <1>2, <1>3 DEF Words

LEMMA StepEdit ==
  ASSUME IInv, NEW p \in Pushes, Edit(p)
  PROVE  IInv'
<1>1. /\ Types /\ batch[p] # <<>> /\ batch[p][1] = "edit" /\ batch[p] \in Seq(Words)
      /\ UNCHANGED <<client, files, candidate, history>>
  <2>1. batch[p] # <<>> /\ Head(batch[p]) = "edit"
    BY DEF Edit
  <2>2. batch[p] \in Seq(Words)
    BY DEF IInv, Types
  <2>3. Head(batch[p]) = batch[p][1]
    BY <2>1, <2>2, RestOf
  <2> QED BY <2>1, <2>2, <2>3 DEF Edit, IInv
<1>2. Line(p) /\ Edits(p) /\ lock # p
  BY <1>1, Now DEF Edits
<1>3. lines[p] = <<>> /\ Len(batch[p]) >= 2 /\ batch[p][2] = "load"
  BY <1>1, <1>2 DEF Line
<1>4. CASE lock = NONE /\ lock' = p /\ Ran(p, <<"text">>)
  <2>1. batch'[p] = Tail(batch[p]) /\ lines'[p] = lines[p] \o <<"text">>
    BY <1>1, <1>4, Running, Outputs
  <2>2. lines'[p] = <<"text">>
    BY <1>3, <2>1, Outputs, ConcatEmptySeq
  <2>3. /\ Tail(batch[p])[1] = "load" /\ Tail(batch[p]) # <<>>
    <3>1. /\ Len(batch[p]) \in Nat /\ Len(Tail(batch[p])) = Len(batch[p]) - 1
          /\ \A i \in 1..(Len(batch[p]) - 1) : Tail(batch[p])[i] = batch[p][i + 1]
      BY <1>1, RestOf
    <3>2. 1 \in 1..(Len(batch[p]) - 1) /\ Len(Tail(batch[p])) # 0
      BY <1>3, <3>1
    <3>3. Tail(batch[p])[1] = batch[p][1 + 1]
      BY <3>1, <3>2
    <3>4. Tail(batch[p]) # <<>>
      BY <3>2, EmptySeq
    <3> QED BY <1>3, <3>3, <3>4
  <2>4. candidate = {}
    BY <1>4 DEF IInv
  <2>5. ~Has(<<"text">>, "commit")
    BY Outputs
  <2>6. Edits(p)'
    <3>1. ~Has(lines[p], "commit")'
      BY <2>2, <2>5 DEF Has
    <3> QED BY <1>1, <2>1, <2>2, <2>3, <2>4, <3>1 DEF Edits
  <2>7. NONE # p
    BY JunosAssumption
  <2>8. candidate' \in SUBSET Loads
    BY <1>1, <2>4
  <2> QED BY <1>1, <1>4, <2>5, <2>6, <2>7, <2>8, Outputs, QuietCommand
<1>5. CASE lock # NONE /\ Ran(p, <<"error">>) /\ UNCHANGED lock
  <2>1. Edits(p)'
    BY <1>2, <1>5 DEF Edits
  <2>2. lock' \in Pushes \cup {NONE} /\ candidate' \in SUBSET Loads
    BY <1>1, <1>5 DEF Types
  <2>3. ~Has(<<"error">>, "commit")
    BY Outputs
  <2> QED BY <1>1, <1>5, <2>1, <2>2, <2>3, Outputs, QuietCommand
<1> QED BY <1>4, <1>5, Zenon DEF Edit

LEMMA StepUnknown ==
  ASSUME IInv, NEW p \in Pushes, Unknown(p)
  PROVE  IInv'
<1>1. /\ Types /\ batch[p] # <<>> /\ lock # p /\ Ran(p, <<"error">>)
      /\ UNCHANGED <<client, files, lock, candidate, history>>
  BY DEF Unknown, IInv
<1>2. Edits(p)'
  BY <1>1 DEF Edits
<1>3. lock' \in Pushes \cup {NONE} /\ candidate' \in SUBSET Loads
      /\ (lock' = NONE => candidate' = {})
  BY <1>1 DEF Types, IInv
<1>4. ~Has(<<"error">>, "commit")
  BY Outputs
<1> QED BY <1>1, <1>2, <1>3, <1>4, Outputs, QuietCommand

\* A command of the session that has the configuration.
LEMMA Holding ==
  ASSUME IInv, NEW p \in Pushes, NEW c, Holds(p, c)
  PROVE  /\ lock = p /\ batch[p] # <<>> /\ batch[p][1] = c /\ p # NONE
         /\ batch[p] \in Seq(Words) /\ Types
<1>1. batch[p] \in Seq(Words) /\ Types
  BY DEF IInv, Types
<1> QED BY <1>1, RestOf, JunosAssumption DEF Holds

\* Commands that look, and those that set the candidate back.
LEMMA PlainCommand ==
  ASSUME IInv, NEW p \in Pushes,
         NEW c \in {"compare", "check", "commit", "rollback_1", "rollback"}, Holds(p, c),
         UNCHANGED <<client, files, lock, history>>,
         candidate' = candidate \/ (candidate' = {} /\ c \in {"rollback_1", "rollback"}),
         NEW out \in Seq(Words), Ran(p, out), ~Has(out, "commit")
  PROVE  IInv'
<1>1. /\ lock = p /\ batch[p] # <<>> /\ batch[p][1] = c /\ p # NONE /\ Types
      /\ lock' = p
  BY Holding
<1>2. batch'[p] = Tail(batch[p]) /\ lines'[p] = lines[p] \o out
  BY <1>1, Running
<1>3. candidate' \in SUBSET Loads
  BY <1>1 DEF Types
<1>4. Edits(p)'
  BY <1>1, <1>2, EditsGoOn
<1> QED BY <1>1, <1>3, <1>4, QuietCommand

LEMMA StepPlain ==
  ASSUME IInv, NEW p \in Pushes,
         Compare(p) \/ CommitCheck(p) \/ RollbackOne(p) \/ Rollback(p)
  PROVE  IInv'
<1>1. CASE Compare(p)
  <2>1. PICK out \in {<<>>, <<"[]", "+">>} : Ran(p, out)
    BY <1>1, Zenon DEF Compare
  <2>2. out \in Seq(Words) /\ ~Has(out, "commit")
    BY Outputs
  <2>3. Holds(p, "compare") /\ UNCHANGED <<client, files, lock, candidate, history>>
    BY <1>1 DEF Compare
  <2> QED BY <2>1, <2>2, <2>3, PlainCommand
<1>2. CASE CommitCheck(p)
  <2>1. PICK out \in {<<"check">>, <<"[]", "error", "error">>} : Ran(p, out)
    BY <1>2 DEF CommitCheck
  <2>2. out \in Seq(Words) /\ ~Has(out, "commit")
    BY Outputs
  <2>3. Holds(p, "check") /\ UNCHANGED <<client, files, lock, candidate, history>>
    BY <1>2 DEF CommitCheck
  <2> QED BY <2>1, <2>2, <2>3, PlainCommand
<1>3. CASE RollbackOne(p)
  <2>1. /\ Holds(p, "rollback_1") /\ Ran(p, <<"text">>) /\ candidate' = {}
        /\ UNCHANGED <<client, files, lock, history>>
    BY <1>3 DEF RollbackOne
  <2>2. <<"text">> \in Seq(Words) /\ ~Has(<<"text">>, "commit")
    BY Outputs
  <2> QED BY <2>1, <2>2, PlainCommand
<1>4. CASE Rollback(p)
  <2>1. /\ Holds(p, "rollback") /\ Ran(p, <<"text">>) /\ candidate' = {}
        /\ UNCHANGED <<client, files, lock, history>>
    BY <1>4 DEF Rollback
  <2>2. <<"text">> \in Seq(Words) /\ ~Has(<<"text">>, "commit")
    BY Outputs
  <2> QED BY <2>1, <2>2, PlainCommand
<1> QED BY <1>1, <1>2, <1>3, <1>4

LEMMA StepExit ==
  ASSUME IInv, NEW p \in Pushes, Exit(p)
  PROVE  IInv'
<1>1. /\ lock' = NONE /\ candidate' = {} /\ Ran(p, <<"text">>) /\ Holds(p, "exit")
      /\ UNCHANGED <<client, files, history>>
  BY DEF Exit
<1>2. batch[p] # <<>>
  BY <1>1, Holding
<1>3. \A q \in Pushes : q # NONE
  BY JunosAssumption
<1>4. Edits(p)'
  BY <1>1, <1>3 DEF Edits
<1>5. ~Has(<<"text">>, "commit") /\ candidate' \in SUBSET Loads
  BY <1>1, Outputs
<1> QED BY <1>1, <1>2, <1>3, <1>4, <1>5, Outputs, QuietCommand

\* What is loaded is p's upload, whole; or the transcript says that it is not.
LEMMA StepLoad ==
  ASSUME IInv, NEW p \in Pushes, Load(p)
  PROVE  IInv'
<1>1. /\ lock = p /\ batch[p] # <<>> /\ batch[p][1] = "load" /\ p # NONE /\ Types
      /\ lock' = p /\ batch[p] \in Seq(Words) /\ Line(p) /\ Edits(p)
      /\ UNCHANGED <<client, files, lock, history>>
  BY Holding, Now DEF Load
<1>2. lines[p] = <<"text">> /\ candidate = {} /\ files[Tmp(p)] \in {NONE, Intact(p)}
  BY <1>1 DEF Line, Edits
<1>3. PICK out \in {<<"text">>, <<"error">>, <<"syntax", "error">>} :
        /\ Ran(p, out) /\ candidate' \in SUBSET Loads
        /\ out = <<"text">> => candidate' = {Whole(p)}
  <2>1. CASE /\ files[Tmp(p)] # NONE
             /\ candidate' = candidate \cup {[of |-> p, whole |-> files[Tmp(p)].intact]}
             /\ Ran(p, <<"text">>)
    <3>1. files[Tmp(p)].intact = TRUE
      BY <1>2, <2>1 DEF Intact
    <3>2. candidate' = {Whole(p)}
      BY <1>2, <2>1, <3>1 DEF Whole
    <3>3. Whole(p) \in Loads
      BY DEF Whole, Loads
    <3> QED BY <2>1, <3>2, <3>3
  <2>2. CASE /\ candidate' = candidate \cup {[of |-> p, whole |-> FALSE]}
             /\ Ran(p, <<"error">>) \/ Ran(p, <<"syntax", "error">>)
    <3>1. candidate' \in SUBSET Loads
      BY <1>2, <2>2 DEF Loads
    <3>2. <<"error">> # <<"text">> /\ <<"syntax", "error">> # <<"text">>
      OBVIOUS
    <3> QED BY <2>2, <3>1, <3>2
  <2>3. CASE Ran(p, <<"error">>) /\ UNCHANGED candidate
    <3>1. <<"error">> # <<"text">> /\ candidate' \in SUBSET Loads
      BY <1>2, <2>3
    <3> QED BY <2>3, <3>1
  <2> QED BY <2>1, <2>2, <2>3 DEF Load
<1>4. out \in Seq(Words) /\ ~Has(out, "commit") /\ ~Has(<<"text">>, "commit")
  BY Outputs
<1>5. batch'[p] = Tail(batch[p]) /\ lines'[p] = <<"text">> \o out
  BY <1>1, <1>2, <1>3, <1>4, Running
<1>6. out # <<"text">> => Bad(<<"text">> \o out)
  <2>1. CASE out = <<"error">>
    <3>1. Bad(<<"text">> \o <<"error">>)
      BY DEF Bad
    <3> QED BY <2>1, <3>1
  <2>2. CASE out = <<"syntax", "error">>
    <3>1. Bad(<<"text">> \o <<"syntax", "error">>)
      BY DEF Bad
    <3> QED BY <2>2, <3>1
  <2> QED BY <2>1, <2>2
<1>7. Bad(lines[p])' \/ candidate' = {Whole(p)}
  BY <1>3, <1>5, <1>6 DEF Bad
<1>8. ~Has(lines[p], "commit")'
  <2>1. ~Has(<<"text">> \o out, "commit")
    BY <1>4, HasBoth, Outputs
  <2> QED BY <1>5, <2>1 DEF Has
<1>9. Tail(batch[p]) # <<>> /\ Tail(batch[p])[1] \notin {"edit", "load"}
  <2>1. Tail(batch[p]) # <<>> /\ Rank(Tail(batch[p])[1]) > Rank("load")
    BY <1>1, Later DEF Line
  <2> QED BY <2>1 DEF Rank
<1>10. Whole(p)' = Whole(p)
  BY DEF Whole
<1>11. Edits(p)'
  BY <1>5, <1>7, <1>8, <1>9, <1>10 DEF Edits
<1> QED BY <1>1, <1>3, <1>4, <1>11, QuietCommand

LEMMA StepSavePatch ==
  ASSUME IInv, NEW p \in Pushes, SavePatch(p)
  PROVE  IInv'
<1>1. /\ lock = p /\ batch[p] # <<>> /\ batch[p][1] = "save" /\ p # NONE /\ Types
      /\ lock' = p /\ batch[p] \in Seq(Words) /\ Line(p)
      /\ Ran(p, <<"text">>) /\ UNCHANGED <<client, lock, candidate, history>>
  BY Holding, Now DEF SavePatch
<1>2. PICK c \in {Len(history), NONE} : files' = [files EXCEPT ![Patch(p)] = c]
  BY Zenon DEF SavePatch
<1>3. Len(history) \in Nat
  BY <1>1, LenProperties DEF Types
<1>4. /\ files' \in [FileNames -> Uploads \cup Nat \cup {NONE}] /\ files'[Patch(p)] = c
      /\ \A g \in FileNames : g # Patch(p) => files'[g] = files[g]
  <2>1. c \in Uploads \cup Nat \cup {NONE} /\ Patch(p) \in FileNames
    BY <1>3, Names
  <2> QED BY <1>1, <1>2, <2>1, Written
<1>5. /\ files'[Tmp(p)] = files[Tmp(p)]
      /\ \A q \in Pushes \ {p} : /\ files'[Tmp(q)] = files[Tmp(q)]
                                /\ files'[Patch(q)] = files[Patch(q)]
  BY <1>4, Names
<1>6. <<"text">> \in Seq(Words) /\ ~Has(<<"text">>, "commit")
  BY Outputs
<1>7. /\ batch' \in [Pushes -> Seq(Words)] /\ lines' \in [Pushes -> Seq(Words)]
      /\ batch'[p] = Tail(batch[p]) /\ lines'[p] = lines[p] \o <<"text">>
      /\ \A q \in Pushes \ {p} : batch'[q] = batch[q] /\ lines'[q] = lines[q]
  BY <1>1, <1>6, Running
<1>8. WantsPatch(p)
  <2>1. Has(batch[p], "save")
    BY <1>1, RestOf DEF Has
  <2> QED BY <1>1, <2>1 DEF Line
<1>9. Line(p)'
  BY <1>1, <1>5, <1>7, LineGoesOn DEF client
<1>10. Tells(p)'
  <2>1. /\ history' = history
        /\ files'[Patch(p)] = NONE \/ files'[Patch(p)] = Len(history)
    BY <1>1, <1>2, <1>4
  <2> QED BY <1>1, <1>6, <1>7, <2>1, TellsGoOn
<1>11. Edits(p)'
  <2>1. history' = history
    BY <1>1
  <2> QED BY <1>1, <1>6, <1>7, <2>1, EditsGoOn
<1>12. Grows /\ \A q \in Pushes \ {p} : Hands(q)
  BY <1>1, <1>3 DEF Grows, Hands
<1>13. /\ lock' \in Pushes \cup {NONE} /\ candidate' \in SUBSET Loads
       /\ history' \in Seq([by : Pushes, loads : SUBSET Loads])
       /\ lock' # NONE
  BY <1>1 DEF Types
<1> QED BY <1>1, <1>4, <1>5, <1>7, <1>8, <1>9, <1>10, <1>11, <1>12, <1>13, RouterStep

\* A commit that succeeds is of p's own load alone, if that was accepted.
LEMMA CommitSucceeds ==
  ASSUME IInv, NEW p \in Pushes, Holds(p, "commit"),
         UNCHANGED <<client, files, lock>>, candidate' = {},
         history' = Append(history, [by |-> p, loads |-> candidate]),
         NEW out \in {<<"commit">>, <<"re", "commit">>}, Ran(p, out)
  PROVE  IInv'
<1>1. /\ lock = p /\ batch[p] # <<>> /\ batch[p][1] = "commit" /\ p # NONE /\ Types
      /\ lock' = p /\ batch[p] \in Seq(Words) /\ Line(p) /\ Edits(p)
  BY Holding, Now
<1>2. out \in Seq(Words)
  BY Outputs
<1>3. /\ batch' \in [Pushes -> Seq(Words)] /\ lines' \in [Pushes -> Seq(Words)]
      /\ batch'[p] = Tail(batch[p]) /\ lines'[p] = lines[p] \o out
      /\ \A q \in Pushes \ {p} : batch'[q] = batch[q] /\ lines'[q] = lines[q]
  BY <1>1, <1>2, Running
<1> DEFINE e == [by |-> p, loads |-> candidate]
<1>4. e \in [by : Pushes, loads : SUBSET Loads] /\ e.by = p
  BY <1>1 DEF Types
<1>5. e.loads = candidate
  OBVIOUS
<1>6. history \in Seq([by : Pushes, loads : SUBSET Loads])
  BY <1>1 DEF Types
<1> HIDE DEF e
<1>7. /\ history' \in Seq([by : Pushes, loads : SUBSET Loads])
      /\ Len(history) \in Nat /\ Len(history') = Len(history) + 1
      /\ history'[Len(history) + 1] = e
      /\ \A k \in 1..Len(history) : history'[k] = history[k]
  <2>1. history' = Append(history, e)
    BY DEF e
  <2> QED BY <1>4, <1>6, <2>1, AppendProperties, LenProperties
<1>8. Grows
  BY <1>7 DEF Grows
<1>9. Bad(lines[p]) \/ candidate = {Whole(p)}
  BY <1>1 DEF Edits
<1>10. files[Patch(p)] = NONE
  <2>1. Has(batch[p], "commit")
    BY <1>1, RestOf DEF Has
  <2> QED BY <1>1, <2>1 DEF Line
<1>11. Line(p)'
  BY <1>1, <1>3, LineGoesOn DEF client
<1>12. Tells(p)'
  <2>1. Patch(p)' = Patch(p) /\ files'[Patch(p)] = NONE
    BY <1>10 DEF Patch
  <2>2. CASE Bad(lines[p])
    <3>1. lines[p] \in Seq(Words)
      BY <1>1 DEF Types
    <3>2. Bad(lines[p] \o out)
      BY <1>2, <2>2, <3>1, BadStays
    <3>3. Bad(lines[p])'
      BY <1>3, <3>2 DEF Bad
    <3> QED BY <2>1, <3>3 DEF Tells
  <2>3. CASE candidate = {Whole(p)}
    <3>1. e = [by |-> p, loads |-> {Whole(p)}]
      BY <2>3 DEF e
    <3>2. Len(history) + 1 \in 1..Len(history')
      BY <1>7
    <3>3. Committed(p)'
      BY <1>7, <3>1, <3>2 DEF Committed, Whole
    <3> QED BY <2>1, <3>3 DEF Tells
  <2> QED BY <1>9, <2>2, <2>3
<1>13. Edits(p)'
  <2>1. Tail(batch[p]) # <<>> /\ Rank(Tail(batch[p])[1]) > Rank("commit")
    BY <1>1, Later DEF Line
  <2>2. Tail(batch[p])[1] \notin {"edit", "load", "compare", "check", "commit"}
    BY <2>1 DEF Rank
  <2>3. Len(history') > 0 /\ history'[Len(history')].by = p
    BY <1>4, <1>7
  <2> QED BY <1>3, <2>1, <2>2, <2>3 DEF Edits
<1>14. \A q \in Pushes \ {p} : Hands(q)
  BY <1>1 DEF Hands
<1>15. /\ files' = files /\ files' \in [FileNames -> Uploads \cup Nat \cup {NONE}]
       /\ lock' \in Pushes \cup {NONE} /\ candidate' \in SUBSET Loads
  BY <1>1 DEF Types
<1> QED BY <1>1, <1>3, <1>7, <1>8, <1>11, <1>12, <1>13, <1>14, <1>15, RouterStep

LEMMA StepCommit ==
  ASSUME IInv, NEW p \in Pushes, Commit(p)
  PROVE  IInv'
<1>1. Holds(p, "commit") /\ UNCHANGED <<client, files, lock>>
  BY DEF Commit
<1>2. CASE /\ \E out \in {<<"commit">>, <<"re", "commit">>} : Ran(p, out)
           /\ history' = Append(history, [by |-> p, loads |-> candidate])
           /\ candidate' = {}
  BY <1>1, <1>2, CommitSucceeds
<1>3. CASE /\ \E out \in {<<"[]", "text", "error">>, <<"text", "re", "[]">>} : Ran(p, out)
           /\ UNCHANGED <<history, candidate>>
  <2>1. PICK out \in {<<"[]", "text", "error">>, <<"text", "re", "[]">>} : Ran(p, out)
    BY <1>3
  <2>2. out \in Seq(Words) /\ ~Has(out, "commit")
    BY Outputs
  <2> QED BY <1>1, <1>3, <2>1, <2>2, PlainCommand
<1> QED BY <1>2, <1>3 DEF Commit

\* A session that is lost ends its line, and gives the configuration back.
LEMMA StepHangup ==
  ASSUME IInv, NEW p \in Pushes, Hangup(p)
  PROVE  IInv'
<1>1. /\ Types /\ batch[p] # <<>> /\ batch' = [batch EXCEPT ![p] = <<>>]
      /\ UNCHANGED <<client, files, history, lines>>
  BY DEF Hangup, IInv
<1>2. /\ batch' \in [Pushes -> Seq(Words)] /\ batch'[p] = <<>>
      /\ \A q \in Pushes \ {p} : batch'[q] = batch[q]
  <2>1. <<>> \in Seq(Words)
    BY Outputs
  <2> QED BY <1>1, <2>1 DEF Types
<1>3. \/ lock = p /\ lock' = NONE /\ candidate' = {}
      \/ lock # p /\ UNCHANGED <<lock, candidate>>
  BY Zenon DEF Hangup
<1>4. \A q \in Pushes : q # NONE
  BY JunosAssumption
<1>5. /\ lock' \in Pushes \cup {NONE} /\ candidate' \in SUBSET Loads
      /\ (lock' = NONE => candidate' = {}) /\ lock' # p
      /\ \A q \in Pushes \ {p} : Hands(q)
  BY <1>1, <1>3, <1>4 DEF Types, IInv, Hands
<1>6. Line(p)'
  BY <1>2 DEF Line, Ordered, Has
<1>7. Edits(p)'
  BY <1>5 DEF Edits
<1>8. Tells(p)'
  <2>1. Tells(p)
    BY Now
  <2> QED BY <1>1, <2>1 DEF Tells, Bad, Has, Committed, Whole, Patch
<1>9. Grows
  BY <1>1, LenProperties DEF Types, Grows
<1>10. /\ files' \in [FileNames -> Uploads \cup Nat \cup {NONE}]
       /\ history' \in Seq([by : Pushes, loads : SUBSET Loads])
       /\ lines' \in [Pushes -> Seq(Words)]
  BY <1>1 DEF Types
<1> QED BY <1>1, <1>2, <1>5, <1>6, <1>7, <1>8, <1>9, <1>10, RouterStep

-----------------------------------------------------------------------------
(* The theorems *)

LEMMA Initially == Init => IInv
<1> SUFFICES ASSUME Init PROVE IInv
  OBVIOUS
<1>1. Types
  <2>1. arg \in [Pushes -> Arguments]
    BY JunosAssumption DEF Init
  <2>2. /\ pc \in [Pushes -> PC] /\ copied \in [Pushes -> BOOLEAN]
        /\ outcome \in [Pushes -> Outcomes] /\ fetched \in [Pushes -> Nat \cup {NONE}]
        /\ files \in [FileNames -> Uploads \cup Nat \cup {NONE}]
    BY DEF Init, PC, Outcomes
  <2>3. history \in Seq([by : Pushes, loads : SUBSET Loads])
    BY DEF Init
  <2>4. batch \in [Pushes -> Seq(Words)] /\ lines \in [Pushes -> Seq(Words)]
    BY Outputs DEF Init
  <2> QED BY <2>1, <2>2, <2>3, <2>4 DEF Types, Init
<1>2. ASSUME NEW p \in Pushes
      PROVE  PInv(p)
  <2>1. /\ pc[p] = "start" /\ fetched[p] = NONE /\ batch[p] = <<>> /\ lines[p] = <<>>
        /\ lock # p /\ files[Tmp(p)] = NONE /\ files[Patch(p)] = NONE
    BY Names, JunosAssumption DEF Init
  <2>2. Line(p) /\ Edits(p) /\ Tells(p)
    BY <2>1 DEF Line, Edits, Tells, Ordered, Has
  <2>3. Waits(p) /\ Tidies(p)
    BY <2>1 DEF Waits, Tidies, Passed, Clean
  <2> QED BY <2>2, <2>3 DEF PInv
<1> QED BY <1>1, <1>2 DEF IInv, Init

LEMMA Stepwise == IInv /\ [Next]_vars => IInv'
<1> SUFFICES ASSUME IInv, [Next]_vars PROVE IInv'
  OBVIOUS
<1>1. CASE UNCHANGED vars
  <2>1. /\ UNCHANGED <<client, router>>
        /\ UNCHANGED <<arg, pc, copied, outcome, fetched, files, lock, candidate, history,
                       batch, lines>>
    BY <1>1 DEF vars, client, router
  <2>2. Types'
    BY <2>1 DEF IInv, Types, FileNames, Tmp, Patch, Loads, Uploads
  <2>3. Grows
    BY <2>1, LenProperties DEF IInv, Types, Grows
  <2>4. ASSUME NEW p \in Pushes
        PROVE  PInv(p)'
    <3>1. Kept(p) /\ Hands(p)
      BY <2>1 DEF Kept, Hands
    <3> QED BY <2>3, <3>1, Frame DEF IInv
  <2> QED BY <2>1, <2>2, <2>4 DEF IInv
<1>2. ASSUME NEW p \in Pushes, Client(p)
      PROVE  IInv'
  BY <1>2, StepLocalWrite, StepUpload, StepChecksum, StepJudge, StepGiveUp, StepFetch,
     StepDeleteTmp, StepDeletePatch, StepLocalDeletes DEF Client
<1>3. ASSUME NEW p \in Pushes, Router(p)
      PROVE  IInv'
  BY <1>3, StepEdit, StepLoad, StepPlain, StepCommit, StepSavePatch, StepExit,
     StepUnknown DEF Router
<1> QED BY <1>1, <1>2, <1>3, StepHangup DEF Next

\* The invariant above holds in every state, whatever the pushes and calls.
THEOREM Invariance == Spec => []IInv
<1> QED BY Initially, Stepwise, PTL DEF Spec

\* SetConfig that returns has committed the whole of its data and nothing else,
\* for any number of pushes that overlap: an unnoticed failure of the load, the
\* commit or the session is impossible.
THEOREM PushesAreCommitted == Spec => []SuccessIsCommitted
<1>1. IInv => SuccessIsCommitted
  <2> SUFFICES ASSUME IInv, NEW p \in Pushes, Succeeded(p), arg[p].dest = "config",
                      ~arg[p].canary
               PROVE  \E k \in DOMAIN history :
                        history[k] = [by |-> p, loads |-> {[of |-> p, whole |-> TRUE]}]
    BY DEF SuccessIsCommitted
  <2>1. Committed(p)
    BY Now DEF Waits, Passed, Clean, Succeeded
  <2>2. DOMAIN history = 1..Len(history)
    BY LenProperties DEF IInv, Types
  <2> QED BY <2>1, <2>2 DEF Committed, Whole
<1> QED BY <1>1, Invariance, PTL

\* The patch SetConfig hands back was made of the push's own commit, whoever
\* committed before and after.
THEOREM PatchesAreOwn == Spec => []PatchUndoesOwnCommit
<1>1. IInv => PatchUndoesOwnCommit
  <2>1. IInv => DOMAIN history = 1..Len(history)
    BY LenProperties DEF IInv, Types
  <2> QED BY <2>1, Now DEF PatchUndoesOwnCommit, Waits
<1> QED BY <1>1, Invariance, PTL

\* A SetConfig that returns has deleted what it put on the router.
THEOREM PushesTidyUp == Spec => []SuccessLeavesNoFiles
<1>1. IInv => SuccessLeavesNoFiles
  BY Now DEF SuccessLeavesNoFiles, Succeeded, Tidies
<1> QED BY <1>1, Invariance, PTL
=============================================================================
