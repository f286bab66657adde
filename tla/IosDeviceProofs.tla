-------------------------- MODULE IosDeviceProofs ---------------------------
(***************************************************************************)
(* What IosDevice guarantees for any number of calls, sessions and losses: *)
(* which files reach a configuration, whose output a response is, what a   *)
(* SetConfig that returns has done, and that Cmd keeps the promise of the  *)
(* abstract channel.                                                       *)
(*                                                                         *)
(* The invariant says, for each place a call can be at, what the router    *)
(* still has to do for it and what it may have said.  Its parts are below, *)
(* with the lemma that keeps each: Types and Control for any steps; what   *)
(* the session in hand may say while the pager is turned off (BeginsWell), *)
(* to a command (AnswersOnly), to verify (VerifiesLast), to the copy and   *)
(* `wr mem' (Applies) and to the deletion (DeletesLast); and that nothing  *)
(* is refused before the copy (CopiesLater).  AnswersOnly and Applies are  *)
(* for calls that found the router waiting, DeletesLast for those and the  *)
(* calls that are the first to put their data; the other parts hold of any *)
(* call.                                                                   *)
(***************************************************************************)
EXTENDS IosDevice, SequenceTheorems, WellFoundedInduction, TLAPS

-----------------------------------------------------------------------------
(* The types, which hold the argument of OnlyWholeFiles *)

Ops == {"Connect", "Cmd", "SetConfig", "Disconnect"}
Uploading == {"upload", "begin", "attributes", "data"}
Dialled == {"login", "pager", "pager_prompt", "terminal"}
Erasing == {"delete", "delete_prompt", "delete_name", "delete_confirm", "deleted"}
Pcs == {"idle", "dial", "sent", "echoed", "copy", "load", "exit"}
         \cup Uploading \cup Dialled \cup Erasing

Kinds == {"newline", "prompt", "denied", "text", "invalid", "error", "warning",
          "checksum", "other_checksum", "question", "delete_question",
          "confirm_question"}
Whats == {"enter", "exec", "login", "terminal", "n", "exit", "command", "verify",
          "copy", "save", "delete", "destination", "overwrite", "name", "confirm"}

\* The calls for which a checksum that was due earlier may be taken.
Doubtful == {n \in 1..calls : Repeats(n) /\ (n = calls /\ op = "SetConfig" => ~fresh)}

\* The calls whose upload is over, and those of them whose file is whole or gone,
\* for good, or may be taken to be whole.
Uploaded == {n \in 1..calls : n = calls => pc \notin Uploading}
Settled == {n \in Uploaded : files[n] # "part" \/ n \in Doubtful}

\* What may be typed, remembered and printed, when these files have been
\* uploaded and are settled.
Lines(N, U, S) ==
  {l \in [what : Whats, of : N, dest : Destinations \cup {NONE}] :
     /\ l.what = "verify" => l.of \in U
     /\ l.what \in {"copy", "destination", "overwrite"} => l.of \in S}
Marks(N, S) == {m \in [kind : Kinds, of : N] : m.kind = "checksum" => m.of \in S}
Sessions(N, U, S) ==
  [open : BOOLEAN, lines : Seq(Lines(N, U, S)), out : Seq(Marks(N, S)),
   mode : Lines(N, U, S)]

\* What may be in a configuration.
Configurations == (0..MaxCalls) \X {"whole", "bad_lines"} \cup Doubtful \X {"part"}

Scalars ==
  /\ hostStatus \in BOOLEAN /\ retrying \in BOOLEAN /\ fresh \in BOOLEAN
  /\ complained \in BOOLEAN
  /\ pc \in Pcs
  /\ op \in Ops
  /\ line \in [what : Whats, of : 0..calls, dest : Destinations \cup {NONE}]
  /\ raised \in Exceptions \cup {NONE}
  /\ result \in Exceptions \cup {"none", "ok", "response"}
  /\ calls \in 0..MaxCalls
  /\ runs \in Nat
  /\ child \in (0..Len(sess)) \cup {NONE}

Types ==
  /\ Scalars
  /\ sess \in Seq(Sessions(0..calls, Uploaded, Settled))
  /\ line.what = "copy" => line.of \in Settled
  /\ files \in [1..MaxCalls -> {"none", "part", "whole"}]
  /\ {running, startup} \subseteq Configurations

\* Where the call in progress is, and what it works on.
Phase ==
  /\ op \in {"Cmd", "SetConfig"} => calls # 0 /\ line.of = calls
  /\ op = "Cmd" => line.what = "command"
  /\ op = "SetConfig" => line.what \in {"verify", "copy", "save"} /\ line.dest \in Destinations
  /\ op # "SetConfig" => ~complained
  /\ pc \in Dialled \cup {"dial"} => op # "Disconnect" /\ (op # "Connect" => retrying)
  /\ pc \in {"sent", "echoed"} => op \in {"Cmd", "SetConfig"}
  /\ pc = "exit" => op = "Disconnect"
  /\ pc \in Uploading \cup {"copy", "load"} \cup Erasing => op = "SetConfig"
  /\ pc \in Uploading => line.what = "verify"
  /\ pc \in {"copy", "load"} => line.what = "copy"
  /\ pc \in Dialled \cup {"dial", "sent", "echoed"} => line.what # "copy" \/ op = "Connect"
  /\ pc \notin Erasing \cup {"idle"} => raised = NONE
  /\ pc # "idle" => result = "none"
  /\ op = "SetConfig" /\ result = "ok" => raised = NONE

\* What has a session.
Reach ==
  /\ pc \notin Uploading \cup {"idle", "dial"} => HasChild
  /\ pc = "dial" => IF op = "Connect" THEN child = NoChild ELSE HasChild /\ ~Open

Control == Phase /\ Reach

\* A session that is closed has nothing to do.
ClosedIsIdle == \A s \in DOMAIN sess : sess[s].open \/ sess[s].lines = <<>>

\* A call that begins in peace keeps it, but for the session it works on.
OthersIdle == fresh => \A s \in DOMAIN sess : s # child => sess[s].lines = <<>>

-----------------------------------------------------------------------------
(* The conversations *)

Begins(out, a) == Len(out) <= Len(a) /\ \A i \in DOMAIN out : out[i] = a[i]

\* Nothing is printed after a prompt, as nothing was typed after it.
PromptIsLast(out) == \A i \in DOMAIN out : out[i].kind = "prompt" => i = Len(out)

\* A new session, up to the point where the pager is off.
Beginning(c) ==
  /\ c.mode = Exec
  /\ \/ c.lines = <<>>
     \/ c.out = <<>> /\ \E x \in {"login", "enter", "terminal"} : c.lines = <<Plain(x)>>
  /\ PromptIsLast(c.out)

BeginsWell == pc \in Dialled => Beginning(sess[child])

\* The call and the router understand one another.
InPeace == fresh /\ ~complained

\* What the router says to a line, but for its questions, and what it says when
\* it does not complain.
Contents(what) ==
  IF what = "command" THEN {"text", "invalid"}
  ELSE IF what = "verify" THEN {"checksum", "other_checksum", "error", "invalid"}
  ELSE IF what \in {"copy", "destination", "overwrite"} THEN {"text", "invalid", "error", "denied"}
  ELSE IF what = "save" THEN {"text", "error", "denied"}
  ELSE IF what = "delete" THEN {"error", "denied"}
  ELSE {"error"}
Expected(what) == IF what = "save" THEN {"text"} ELSE Contents(what)

\* A command has been sent, its echo has been read.
Answered(c, l, at) ==
  /\ c.mode = Exec
  /\ c.lines = <<>> \/ (c.out = <<>> /\ c.lines = <<l>> /\ at = "sent")
  /\ at = "sent" => \E k \in Expected(l.what) : Begins(c.out, Says(l, k))
  /\ at = "echoed" => \E k \in Expected(l.what) : Begins(c.out, Tail(Says(l, k)))

\* A file is sent on a session of its own.
Quiet(c) == c.mode = Exec /\ c.lines = <<>> /\ c.out = <<>>

AnswersOnly ==
  InPeace /\ HasChild =>
    /\ pc \in {"sent", "echoed"} => Answered(sess[child], line, pc)
    /\ pc \in Uploading => Quiet(sess[child])

\* How often the command of a Cmd has been run, and will be.
Texts(c) == \E i \in DOMAIN c.out : c.out[i].kind = "text"
RunsBounded ==
  fresh /\ op = "Cmd" =>
    /\ runs <= 2
    /\ pc \in {"dial"} \cup Dialled => runs <= 1
    /\ pc \in {"sent", "echoed"} /\ ~retrying => runs <= 1
    /\ HasChild =>
         /\ Len(sess[child].lines) <= 1
         /\ sess[child].lines # <<>> /\ Head(sess[child].lines).what = "command" =>
              runs <= 1 /\ (pc = "sent" /\ ~retrying => runs = 0)
    /\ pc \in {"sent", "echoed"} /\ Texts(sess[child]) => runs # 0

\* The checksum of the file comes last.
Verifying == op = "SetConfig" /\ line.what = "verify" /\ pc # "idle" /\ raised = NONE
Unmentioned(c) ==
  /\ c.mode.of # calls
  /\ \A i \in DOMAIN c.lines : c.lines[i].of # calls
  /\ \A i \in DOMAIN c.out : c.out[i].of # calls
ChecksumIsLast(c) ==
  /\ c.mode.of # calls
  /\ \A i \in DOMAIN c.lines : c.lines[i].of = calls =>
       i = Len(c.lines) /\ c.lines[i].what = "verify"
  /\ \A i \in DOMAIN c.out : c.out[i] = Mark("checksum", calls) =>
       /\ c.lines = <<>>
       /\ c.mode = Exec
       /\ Len(c.out) <= i + 2
       /\ i + 1 \in DOMAIN c.out => c.out[i + 1].kind = "newline"

VerifiesLast ==
  Verifying /\ HasChild =>
    /\ pc \in Uploading => Unmentioned(sess[child])
    /\ pc \in {"sent", "echoed"} => ChecksumIsLast(sess[child])

\* The router does not complain of a file before it is to copy it.
CopiesLater ==
  /\ fresh /\ op = "SetConfig" /\ line.what = "verify"
  /\ pc \in Uploading \cup Dialled \cup {"dial", "sent", "echoed"}
  => ~complained

\* What a call that found the router waiting reads of verify is of its own file.
ReadsItsOwn ==
  fresh /\ op = "SetConfig" /\ line.what = "verify" /\ pc = "echoed" =>
    \A i \in DOMAIN Out : Out[i].of = calls

\* The digest this call finds is that of its own file.
Unmistaken == fresh \/ ~Repeats(calls)

\* Nothing has been deleted, the file is to be deleted.
Undeleted(c) ==
  /\ c.mode.what \notin {"name", "confirm"}
  /\ \A i \in DOMAIN c.lines : c.lines[i].what # "delete"
  /\ \A i \in DOMAIN c.out : c.out[i].kind \notin {"delete_question", "confirm_question"}
NameIsAsked(c) ==
  /\ c.mode.what # "confirm"
  /\ c.mode.what = "name" => c.lines = <<>> /\ c.mode.of = calls
  /\ \A i \in DOMAIN c.lines : c.lines[i].what = "delete" =>
       i = Len(c.lines) /\ c.lines[i].of = calls
  /\ \A i \in DOMAIN c.out :
       /\ c.out[i].kind = "delete_question" =>
            i = Len(c.out) /\ c.lines = <<>> /\ (c.open => c.mode.what = "name")
       /\ c.out[i].kind # "confirm_question"
ConfirmIsAsked(c) ==
  \/ c.lines = <<CR>> /\ c.out = <<>> /\ c.mode.what = "name" /\ c.mode.of = calls
  \/ /\ c.lines = <<>>
     /\ \A i \in DOMAIN c.out : c.out[i].kind = "confirm_question" => i = Len(c.out)
     /\ c.open => c.mode.what = "confirm" /\ c.mode.of = calls
IsDeleted(c) ==
  \/ c.lines = <<CR>> /\ c.out = <<>> /\ c.mode.what = "confirm" /\ c.mode.of = calls
  \/ /\ c.lines = <<>>
     /\ \A i \in DOMAIN c.out : c.out[i].kind = "prompt" =>
          \/ files[calls] = "none"
          \/ \E j \in DOMAIN c.out : j < i /\ c.out[j].kind = "error"

DeletesLast ==
  op = "SetConfig" /\ raised = NONE /\ Unmistaken =>
    /\ \/ pc \in {"copy", "load", "delete", "delete_prompt"}
       \/ pc \in {"sent", "echoed"} /\ line.what = "save"
       => Undeleted(sess[child])
    /\ pc = "delete_name" => NameIsAsked(sess[child])
    /\ pc = "delete_confirm" => ConfirmIsAsked(sess[child])
    /\ pc = "deleted" => IsDeleted(sess[child])

\* The file is where it was to be put.
Placed ==
  IF line.dest = "running" THEN running = <<calls, "whole">> ELSE startup = <<calls, "whole">>
Stored == Placed /\ startup = <<calls, "whole">>

Asking(c, what) == c.mode = [line EXCEPT !.what = what]
CopyGoesOn(c) ==
  /\ c.lines = <<>> \/ (c.lines = <<line>> /\ c.out = <<>> /\ c.mode = Exec)
  /\ c.mode = Exec \/ Asking(c, "destination")
  /\ \A i \in DOMAIN c.out :
       /\ c.out[i].kind \notin Percent
       /\ c.out[i].kind = "question" => i = Len(c.out) /\ Asking(c, "destination")
       /\ c.out[i].kind = "prompt" => i = Len(c.out) /\ c.mode = Exec /\ Placed
LoadGoesOn(c) ==
  /\ c.lines = <<>> \/ (c.lines = <<CR>> /\ c.out = <<>> /\ Asking(c, "destination"))
  /\ \A i \in DOMAIN c.out :
       c.out[i].kind = "prompt" => i = Len(c.out) /\ c.mode = Exec /\ Placed

Harmless(c) ==
  /\ c.mode.what \in {"exec", "name", "confirm"}
  /\ \A i \in DOMAIN c.lines : c.lines[i].what \in {"enter", "delete"}

\* What a SetConfig that goes on in peace has achieved.
ChecksumApplies ==
  line.what = "verify" /\ pc \in {"sent", "echoed"} =>
    \A i \in DOMAIN Out : Out[i].kind = "checksum" => files[calls] = "whole"
CopyApplies ==
  /\ pc \in {"copy", "load"} => files[calls] = "whole"
  /\ pc = "copy" => CopyGoesOn(sess[child])
  /\ pc = "load" => LoadGoesOn(sess[child])
SaveApplies ==
  pc \in Dialled \cup {"dial", "sent", "echoed"} /\ line.what = "save" =>
    line.dest = "running" /\ Placed /\ (Texts(sess[child]) => Stored)
EraseApplies ==
  pc \in Erasing \/ (pc = "idle" /\ result = "ok") =>
    Stored /\ (HasChild => Harmless(sess[child]))

Applies ==
  op = "SetConfig" /\ InPeace /\ raised = NONE =>
    ChecksumApplies /\ CopyApplies /\ SaveApplies /\ EraseApplies

IInv ==
  /\ Types /\ Control /\ ClosedIsIdle /\ OthersIdle
  /\ BeginsWell /\ AnswersOnly /\ RunsBounded /\ VerifiesLast /\ CopiesLater
  /\ DeletesLast /\ Applies /\ ResponseIsOwn /\ SuccessLeavesNoFile

-----------------------------------------------------------------------------
(* Waits *)

LEMMA LeastOf ==
  ASSUME NEW S, S \subseteq Nat, S # {}
  PROVE  Min(S) \in S /\ \A n \in S : Min(S) <= n
<1> DEFINE Less == OpToRel(<, Nat)
<1>1. PICK least \in S : \A n \in S : <<n, least>> \notin Less
  <2> HIDE DEF Less
  <2>1. IsWellFoundedOn(Less, Nat)
    BY NatLessThanWellFounded DEF Less
  <2> QED
    BY <2>1, WFMin
<1>2. \A pair \in Nat \X Nat : pair[1] < pair[2] => pair \in Less
  BY Zenon DEF OpToRel
<1> HIDE DEF Less
<1>3. \A n \in S : least <= n
  <2> SUFFICES ASSUME NEW n \in S PROVE ~(n < least)
    OBVIOUS
  <2> QED
    BY <1>1, <1>2, <<n, least>> \in Nat \X Nat
<1> QED
  BY <1>3 DEF Min

\* A wait matches the first mark of the kinds it is for, if there is one.
LEMMA PlaceIsFirst ==
  ASSUME NEW M, Out \in Seq(M), NEW kinds
  PROVE  /\ Place(kinds) \in 0..Len(Out)
         /\ \A i \in DOMAIN Out : i < Place(kinds) \/ ~Matched(kinds) => Out[i].kind \notin kinds
         /\ Matched(kinds) => Place(kinds) \in DOMAIN Out /\ Found(kinds) \in kinds
<1> DEFINE I == {i \in 1..Len(Out) : Out[i].kind \in kinds}
<1>1. Place(kinds) = IF I # {} THEN Min(I) ELSE 0
  BY DEF Place, SelectInSeq
<1>2. I \subseteq 1..Len(Out) /\ Len(Out) \in Nat /\ DOMAIN Out = 1..Len(Out)
  OBVIOUS
<1>3. \A i \in 1..Len(Out) : i \in I <=> Out[i].kind \in kinds
  OBVIOUS
<1> HIDE DEF I
<1>4. CASE I = {}
  BY <1>1, <1>2, <1>3, <1>4 DEF Matched
<1>5. CASE I # {}
  <2>1. I \subseteq Nat
    BY <1>2
  <2>2. Min(I) \in I /\ \A n \in I : Min(I) <= n
    BY <1>5, <2>1, LeastOf
  <2>3. Place(kinds) = Min(I)
    BY <1>1, <1>5
  <2>4. Place(kinds) \in I /\ \A n \in I : Place(kinds) <= n
    BY <2>2, <2>3
  <2>5. Place(kinds) \in 1..Len(Out) /\ Matched(kinds)
    <3>1. Place(kinds) \in 1..Len(Out)
      BY <1>2, <2>4
    <3>2. Place(kinds) # 0
      BY <1>2, <3>1
    <3> QED
      BY <3>1, <3>2 DEF Matched
  <2>6. Found(kinds) \in kinds
    BY <1>3, <2>4, <2>5 DEF Found
  <2>7. \A i \in 1..Len(Out) : i < Place(kinds) => Out[i].kind \notin kinds
    BY <1>2, <1>3, <2>4, <2>5
  <2> QED
    BY <1>2, <2>5, <2>6, <2>7
<1> QED
  BY <1>4, <1>5

-----------------------------------------------------------------------------
(* What a step may do to the sessions *)

\* The client has read its session up to what is left, and has written to it.
Talks(out, lines) ==
  sess' = [sess EXCEPT ![child] = [open |-> Open, lines |-> lines, out |-> out,
                                   mode |-> sess[child].mode]]

LEMMA ClientTalks ==
  ASSUME NEW N, NEW U, NEW S, sess \in Seq(Sessions(N, U, S)), HasChild,
         NEW kinds, NEW l
  PROVE  /\ Send(l) => Talks(Out, Written(l))
         /\ Drop(kinds) => Talks(After(kinds), sess[child].lines)
         /\ DropAndSend(kinds, l) => Talks(After(kinds), Written(l))
         /\ UNCHANGED sess => Talks(Out, sess[child].lines)
<1>1. sess[child] \in Sessions(N, U, S)
  BY ElementOfSeq DEF HasChild
<1> USE DEF Sessions, Talks, Out, Open, HasChild
<1>2. Send(l) => Talks(Out, Written(l))
  BY <1>1 DEF Send
<1>3. Drop(kinds) => Talks(After(kinds), sess[child].lines)
  BY <1>1 DEF Drop
<1>4. DropAndSend(kinds, l) => Talks(After(kinds), Written(l))
  BY <1>1 DEF DropAndSend
<1>5. UNCHANGED sess => Talks(Out, sess[child].lines)
  BY <1>1
<1> QED
  BY <1>2, <1>3, <1>4, <1>5

LEMMA TalkIsLocal ==
  ASSUME NEW N, NEW U, NEW S, sess \in Seq(Sessions(N, U, S)), HasChild,
         NEW out \in Seq(Marks(N, S)), NEW lines \in Seq(Lines(N, U, S)),
         Talks(out, lines)
  PROVE  /\ sess' \in Seq(Sessions(N, U, S))
         /\ Len(sess') = Len(sess) /\ DOMAIN sess' = DOMAIN sess
         /\ sess'[child] = [open |-> Open, lines |-> lines, out |-> out,
                            mode |-> sess[child].mode]
         /\ \A s \in DOMAIN sess : s # child => sess'[s] = sess[s]
<1> DEFINE R == Sessions(N, U, S)
           c == [open |-> Open, lines |-> lines, out |-> out, mode |-> sess[child].mode]
<1>1. sess[child] \in R
  BY ElementOfSeq DEF HasChild
<1>2. c \in R
  BY <1>1 DEF Sessions, Open
<1>3. sess \in Seq(R) /\ child \in DOMAIN sess /\ sess' = [sess EXCEPT ![child] = c]
  BY DEF Talks, HasChild
<1> HIDE DEF R, c
<1>4. /\ sess' \in Seq(R) /\ Len(sess') = Len(sess) /\ DOMAIN sess' = DOMAIN sess
      /\ sess'[child] = c
      /\ \A s \in DOMAIN sess : s # child => sess'[s] = sess[s]
  BY <1>2, <1>3
<1> QED
  BY <1>4 DEF R, c

\* What has been read and written is typed as what was there.
LEMMA TalkParts ==
  ASSUME NEW N, NEW U, NEW S, sess \in Seq(Sessions(N, U, S)), HasChild
  PROVE  /\ sess[child] \in Sessions(N, U, S)
         /\ Out \in Seq(Marks(N, S)) /\ sess[child].lines \in Seq(Lines(N, U, S))
         /\ \A kinds : After(kinds) \in Seq(Marks(N, S))
         /\ \A l \in Lines(N, U, S) : Written(l) \in Seq(Lines(N, U, S))
<1>1. sess[child] \in Sessions(N, U, S)
  BY ElementOfSeq DEF HasChild
<1>2. Out \in Seq(Marks(N, S)) /\ sess[child].lines \in Seq(Lines(N, U, S))
  BY <1>1 DEF Sessions, Out
<1>3. ASSUME NEW kinds PROVE After(kinds) \in Seq(Marks(N, S))
  <2> DEFINE M == Marks(N, S)
  <2>1. Place(kinds) \in 0..Len(Out) /\ Out \in Seq(M)
    BY <1>2, PlaceIsFirst
  <2> HIDE DEF M
  <2>2. SubSeq(Out, Place(kinds) + 1, Len(Out)) \in Seq(M)
    BY <2>1
  <2> QED
    BY <2>2 DEF After, M
<1>4. ASSUME NEW l \in Lines(N, U, S) PROVE Written(l) \in Seq(Lines(N, U, S))
  <2> DEFINE L == Lines(N, U, S)
  <2>1. l \in L /\ sess[child].lines \in Seq(L)
    BY <1>2
  <2> HIDE DEF L
  <2>2. Append(sess[child].lines, l) \in Seq(L)
    BY <2>1
  <2> QED
    BY <2>1, <2>2 DEF Written, L
<1> QED
  BY <1>1, <1>2, <1>3, <1>4

-----------------------------------------------------------------------------
(* The steps of the client, in groups *)

\* _Cmd, or what leads to it, has failed.
GivesUp ==
  /\ \/ op = "Connect" /\ pc \in Dialled \cup {"dial"}
     \/ op \in {"Cmd", "SetConfig"} /\ pc \in Dialled \cup {"dial", "sent", "echoed"}
  /\ \/ op # "SetConfig" /\ pc' = "idle" /\ result' \in Exceptions /\ UNCHANGED <<sess, raised>>
     \/ op = "SetConfig" /\ pc' = "delete" /\ raised' \in Exceptions /\ Send(CR) /\ UNCHANGED result
  /\ connected' \in {connected, connected /\ retrying}
  /\ hostStatus' \in BOOLEAN
  /\ UNCHANGED <<child, line, retrying, warned, answer, fixed>>

LEMMA CmdFailing ==
  ASSUME NEW e, e \in Exceptions, CmdFails(e), op \in {"Cmd", "SetConfig"}
  PROVE  \/ op # "SetConfig" /\ pc' = "idle" /\ result' \in Exceptions /\ UNCHANGED <<sess, raised>>
         \/ op = "SetConfig" /\ pc' = "delete" /\ raised' \in Exceptions /\ Send(CR) /\ UNCHANGED result
<1>1. CASE op = "Cmd"
  BY <1>1 DEF CmdFails, Return
<1>2. CASE op = "SetConfig"
  BY <1>2 DEF CmdFails, Exceptions
<1> QED
  BY <1>1, <1>2

LEMMA Connecting ==
  ASSUME NEW e, e \in Exceptions, NotConnected(e), op \in {"Connect", "Cmd", "SetConfig"},
         hostStatus \in BOOLEAN
  PROVE  /\ \/ op # "SetConfig" /\ pc' = "idle" /\ result' \in Exceptions /\ UNCHANGED <<sess, raised>>
            \/ op = "SetConfig" /\ pc' = "delete" /\ raised' \in Exceptions /\ Send(CR) /\ UNCHANGED result
         /\ hostStatus' \in BOOLEAN
<1>1. CASE op = "Connect"
  <2>1. hostStatus' \in BOOLEAN /\ UNCHANGED <<sess, raised>> /\ pc' = "idle"
    BY <1>1 DEF NotConnected, Return
  <2>2. result' \in Exceptions
    BY <1>1 DEF NotConnected, Return, Exceptions
  <2> QED
    BY <1>1, <2>1, <2>2
<1>2. CASE op # "Connect"
  BY <1>2, CmdFailing DEF NotConnected
<1> QED
  BY <1>1, <1>2

LEMMA FailuresGiveUp ==
  ASSUME Types, Control,
         DialFails \/ LoginFails \/ PagerFails \/ CmdTimesOut \/ EofTwice
  PROVE  GivesUp
<1>0. /\ {"CmdError", "SshConfigError", "ConnectError", "pexpect.TIMEOUT"} \subseteq Exceptions
      /\ hostStatus \in BOOLEAN /\ op \in Ops
  BY DEF Types, Scalars, Exceptions
<1>1. CASE DialFails
  <2>1. op \in {"Connect", "Cmd", "SetConfig"}
    BY <1>0, <1>1 DEF DialFails, Control, Phase, Reach, Ops
  <2> QED
    BY <1>0, <1>1, <2>1, Connecting DEF DialFails, GivesUp
<1>2. CASE LoginFails
  <2>1. op \in {"Connect", "Cmd", "SetConfig"}
    BY <1>0, <1>2 DEF LoginFails, Control, Phase, Reach, Ops, Dialled
  <2> QED
    BY <1>0, <1>2, <2>1, Connecting DEF LoginFails, GivesUp, Dialled
<1>3. CASE PagerFails
  <2>1. pc \in {"pager", "pager_prompt", "terminal"}
    BY <1>3 DEF PagerFails, PagerWaits
  <2>2. op \in {"Connect", "Cmd", "SetConfig"}
    BY <1>0, <2>1 DEF Control, Phase, Reach, Ops, Dialled
  <2> QED
    BY <1>0, <1>3, <2>1, <2>2, Connecting DEF PagerFails, GivesUp, Dialled
<1>4. CASE CmdTimesOut
  <2>1. op \in {"Cmd", "SetConfig"}
    BY <1>4 DEF CmdTimesOut, Control, Phase, Reach, Waiting
  <2>2. CASE retrying
    BY <1>0, <1>4, <2>1, <2>2, CmdFailing DEF CmdTimesOut, GivesUp, Waiting
  <2>3. CASE ~retrying
    BY <1>0, <1>4, <2>1, <2>3, CmdFailing DEF CmdTimesOut, GivesUp, Waiting
  <2> QED
    BY <2>2, <2>3
<1>5. CASE EofTwice
  <2>1. op \in {"Cmd", "SetConfig"}
    BY <1>5 DEF EofTwice, Control, Phase, Reach, Waiting
  <2> QED
    BY <1>0, <1>5, <2>1, CmdFailing DEF EofTwice, GivesUp, Waiting
<1> QED
  BY <1>1, <1>2, <1>3, <1>4, <1>5

\* What the client types is typed.
LEMMA PlainLines ==
  ASSUME NEW x \in {"enter", "exec", "login", "terminal", "n", "exit"},
         NEW N, NEW U, NEW S, 0 \in N
  PROVE  Plain(x) \in Lines(N, U, S)
BY DEF Lines, Plain, Line, Whats

LEMMA OwnLines ==
  ASSUME Types, Control, op \in {"Cmd", "SetConfig"}, NEW U, calls \in U,
         NEW l, l = line \/ (l = [line EXCEPT !.what = "copy"] /\ calls \in Settled)
                \/ \E x \in {"save", "delete"} : l = [line EXCEPT !.what = x]
  PROVE  l \in Lines(0..calls, U, Settled)
<1>1. /\ line \in [what : Whats, of : 0..calls, dest : Destinations \cup {NONE}]
      /\ line.of = calls /\ calls # 0 /\ calls \in Nat
      /\ line.what = "copy" => line.of \in Settled
      /\ line.what \in {"command", "verify", "copy", "save"}
  BY DEF Types, Scalars, Control, Phase
<1>2. CASE l = line
  BY <1>1, <1>2 DEF Lines
<1>3. CASE l = [line EXCEPT !.what = "copy"] /\ calls \in Settled
  BY <1>1, <1>3 DEF Lines, Whats
<1>4. ASSUME NEW x \in {"save", "delete"}, l = [line EXCEPT !.what = x]
      PROVE  l \in Lines(0..calls, U, Settled)
  BY <1>1, <1>4 DEF Lines, Whats
<1> QED
  BY <1>2, <1>3, <1>4

\* What the client does to the sessions: it works on its own, and what it says
\* to one that is closed is lost.
Local ==
  /\ sess' \in Seq(Sessions(0..calls, Uploaded', Settled))
  /\ Len(sess') = Len(sess) /\ DOMAIN sess' = DOMAIN sess
  /\ \A s \in DOMAIN sess :
       /\ sess'[s].open = sess[s].open /\ sess'[s].mode = sess[s].mode
       /\ s # child => sess'[s] = sess[s]
       /\ ~sess[s].open => sess'[s].lines = sess[s].lines

LEMMA TalkTyped ==
  ASSUME sess \in Seq(Sessions(0..calls, Uploaded', Settled)), HasChild,
         \/ UNCHANGED sess
         \/ \E kinds : Drop(kinds)
         \/ \E l \in Lines(0..calls, Uploaded', Settled) :
              Send(l) \/ \E kinds : DropAndSend(kinds, l)
  PROVE  Local
<1> DEFINE T == Seq(Sessions(0..calls, Uploaded', Settled))
           M == Seq(Marks(0..calls, Settled))
           L == Seq(Lines(0..calls, Uploaded', Settled))
<1>1. sess \in T
  OBVIOUS
<1>2. ASSUME NEW out \in M, NEW lines \in L, Talks(out, lines),
             ~Open => lines = sess[child].lines
      PROVE  Local
  <2>1. /\ sess' \in T
        /\ Len(sess') = Len(sess) /\ DOMAIN sess' = DOMAIN sess
        /\ sess'[child] = [open |-> Open, lines |-> lines, out |-> out,
                           mode |-> sess[child].mode]
        /\ \A s \in DOMAIN sess : s # child => sess'[s] = sess[s]
    BY <1>1, <1>2, TalkIsLocal
  <2> QED
    BY <1>2, <2>1 DEF Local, Open
<1>3. /\ Out \in M /\ sess[child].lines \in L
      /\ \A kinds : After(kinds) \in M
      /\ \A l \in Lines(0..calls, Uploaded', Settled) : Written(l) \in L
      /\ \A l : ~Open => Written(l) = sess[child].lines
  BY <1>1, TalkParts DEF Written
<1>4. \A kinds, l : /\ Send(l) => Talks(Out, Written(l))
                    /\ Drop(kinds) => Talks(After(kinds), sess[child].lines)
                    /\ DropAndSend(kinds, l) => Talks(After(kinds), Written(l))
  BY <1>1, ClientTalks
<1> HIDE DEF T, M, L
<1>5. ASSUME UNCHANGED sess PROVE Local
  BY <1>1, <1>5 DEF Local, T
<1>6. ASSUME NEW kinds, Drop(kinds) PROVE Local
  BY <1>2, <1>3, <1>4, <1>6
<1>7. ASSUME NEW l \in Lines(0..calls, Uploaded', Settled), NEW kinds,
             Send(l) \/ DropAndSend(kinds, l)
      PROVE  Local
  BY <1>2, <1>3, <1>4, <1>7
<1> QED
  BY <1>5, <1>6, <1>7, Zenon

\* The mark of a checksum that has been read is that of a settled file.
LEMMA ReadIsSettled ==
  ASSUME Types, HasChild, Matched(Waits), NEW m \in Response
  PROVE  /\ \E i \in DOMAIN Out : i < Place(Waits) /\ m = Out[i]
         /\ m.kind = "checksum" => m.of \in Settled
<1> DEFINE M == Marks(0..calls, Settled)
<1>1. Out \in Seq(M)
  BY TalkParts DEF Types
<1>2. Place(Waits) \in DOMAIN Out
  BY <1>1, PlaceIsFirst
<1> HIDE DEF M
<1>3. \A i \in 1..(Place(Waits) - 1) : Before(Waits)[i] = Out[i]
  BY <1>1, <1>2 DEF Before
<1>4. Len(Before(Waits)) = Place(Waits) - 1
  BY <1>1, <1>2 DEF Before
<1>5. PICK i \in 1..(Place(Waits) - 1) : m = Before(Waits)[i]
  BY <1>1, <1>2, <1>4 DEF Response, ToSet, Before
<1>6. i \in DOMAIN Out /\ i < Place(Waits) /\ m = Out[i]
  BY <1>1, <1>2, <1>3, <1>5
<1>7. m \in M
  BY <1>1, <1>6
<1> QED
  BY <1>6, <1>7 DEF M, Marks

\* What Verified goes by.
LEMMA DigestIsRead ==
  ASSUME Types, Control, pc = "echoed", Matched(Waits), SameDigest
  PROVE  \E m \in Response :
           /\ m.kind = "checksum" /\ DataOf[m.of] = DataOf[calls] /\ m.of \in Settled
           /\ ReadsItsOwn /\ fresh /\ op = "SetConfig" /\ line.what = "verify" => m.of = calls
<1>1. HasChild
  BY DEF Control, Reach, Uploading
<1>2. PICK i \in DOMAIN Before(Waits) :
        /\ Before(Waits)[i].kind = "checksum"
        /\ DataOf[Before(Waits)[i].of] = DataOf[calls]
  BY DEF SameDigest
<1> DEFINE m == Before(Waits)[i]
<1>3. m \in Response
  BY <1>2 DEF Response, ToSet
<1>4. m.of \in Settled /\ \E j \in DOMAIN Out : m = Out[j]
  BY <1>1, <1>2, <1>3, ReadIsSettled
<1>5. ReadsItsOwn /\ fresh /\ op = "SetConfig" /\ line.what = "verify" => m.of = calls
  BY <1>4 DEF ReadsItsOwn
<1> QED
  BY <1>2, <1>3, <1>4, <1>5

\* A file with the right digest is settled.
LEMMA DigestSettles ==
  ASSUME Types, Control, ReadsItsOwn, Verified, SameDigest
  PROVE  calls \in Settled
<1>1. /\ pc = "echoed" /\ Matched(Waits) /\ op = "SetConfig" /\ line.what = "verify"
      /\ calls \in Nat /\ calls # 0
  BY DEF Verified, Responded, Control, Phase, Types, Scalars
<1>2. PICK m \in Response :
        /\ DataOf[m.of] = DataOf[calls] /\ m.of \in Settled
        /\ fresh => m.of = calls
  BY <1>1, DigestIsRead
<1>3. m.of \in 1..calls
  BY <1>2 DEF Settled, Uploaded
<1>4. CASE m.of = calls
  BY <1>2, <1>4
<1>5. CASE m.of # calls
  <2>1. Repeats(calls)
    BY <1>1, <1>2, <1>3, <1>5 DEF Repeats
  <2>2. calls \in Doubtful
    BY <1>1, <1>2, <1>5, <2>1 DEF Doubtful
  <2> QED
    BY <1>1, <2>2 DEF Settled, Uploaded, Uploading
<1> QED
  BY <1>4, <1>5

\* Where it cannot be mistaken, it is the checksum of the file.
LEMMA DigestIsOwn ==
  ASSUME Types, Control, ReadsItsOwn, Verified, SameDigest, Unmistaken
  PROVE  \E m \in Response : m.kind = "checksum" /\ m.of = calls
<1>1. /\ pc = "echoed" /\ Matched(Waits) /\ op = "SetConfig" /\ line.what = "verify"
      /\ calls \in Nat
  BY DEF Verified, Responded, Types, Scalars
<1>2. PICK m \in Response :
        /\ m.kind = "checksum" /\ DataOf[m.of] = DataOf[calls] /\ m.of \in Settled
        /\ fresh => m.of = calls
  BY <1>1, DigestIsRead
<1>3. m.of \in 1..calls
  BY <1>2 DEF Settled, Uploaded
<1>4. m.of # calls => Repeats(calls)
  BY <1>1, <1>2, <1>3 DEF Repeats
<1> QED
  BY <1>2, <1>4 DEF Unmistaken

\* A new session is in hand, and the old ones will not be read again.
LEMMA Dialling ==
  ASSUME NEW N, NEW U, NEW S, sess \in Seq(Sessions(N, U, S)), 0 \in N, DialSucceeds
  PROVE  /\ sess' \in Seq(Sessions(N, U, S))
         /\ Len(sess') = Len(sess) + 1 /\ child' = Len(sess) + 1
         /\ sess'[child'] = [open |-> TRUE, lines |-> <<Plain("login")>>,
                             out |-> <<>>, mode |-> Exec]
         /\ \A s \in DOMAIN sess : /\ s \in DOMAIN sess' /\ s # child'
                                   /\ sess'[s] = [sess[s] EXCEPT !.out = <<>>]
<1> DEFINE R == Sessions(N, U, S)
           old == [s \in DOMAIN sess |-> [sess[s] EXCEPT !.out = <<>>]]
           new == [open |-> TRUE, lines |-> <<Plain("login")>>, out |-> <<>>, mode |-> Exec]
<1>1. sess' = Append(old, new) /\ child' = Len(sess) + 1
  BY DEF DialSucceeds
<1>2. new \in R
  <2>1. Plain("login") \in Lines(N, U, S) /\ Exec \in Lines(N, U, S)
    BY PlainLines DEF Exec
  <2> DEFINE L == Lines(N, U, S)
  <2> HIDE DEF L
  <2>2. <<Plain("login")>> \in Seq(L)
    BY <2>1 DEF L
  <2> QED
    BY <2>1, <2>2 DEF Sessions, L
<1>3. \A s \in DOMAIN sess : sess[s] \in R /\ old[s] \in R
  <2> SUFFICES ASSUME NEW s \in DOMAIN sess PROVE sess[s] \in R /\ old[s] \in R
    OBVIOUS
  <2>1. sess[s] \in R
    BY ElementOfSeq
  <2>2. <<>> \in Seq(Marks(N, S))
    BY EmptySeq
  <2> QED
    BY <2>1, <2>2 DEF Sessions
<1>4. \A s \in DOMAIN sess : old[s] = [sess[s] EXCEPT !.out = <<>>]
  OBVIOUS
<1>5. sess \in Seq(R) /\ old = [s \in 1..Len(sess) |-> old[s]]
  OBVIOUS
<1> HIDE DEF R, old, new
<1>6. old \in Seq(R) /\ Len(old) = Len(sess)
  <2>1. old \in [1..Len(sess) -> R] /\ Len(sess) \in Nat
    BY <1>3, <1>5
  <2> QED
    BY <2>1
<1>7. /\ sess' \in Seq(R) /\ Len(sess') = Len(sess) + 1
      /\ sess'[Len(sess) + 1] = new
      /\ \A s \in 1..Len(sess) : sess'[s] = old[s]
  BY <1>1, <1>2, <1>5, <1>6
<1>8. \A s \in DOMAIN sess : s \in 1..Len(sess) /\ s \in DOMAIN sess' /\ s # Len(sess) + 1
  BY <1>5, <1>7
<1> QED
  BY <1>1, <1>4, <1>7, <1>8 DEF R, new

LEMMA BothTalk ==
  ASSUME NEW N, NEW U, NEW S, sess \in Seq(Sessions(N, U, S)), HasChild, NEW out, NEW lines,
         sess' = [sess EXCEPT ![child].out = out, ![child].lines = lines]
  PROVE  Talks(out, lines)
<1>1. sess[child] \in Sessions(N, U, S)
  BY ElementOfSeq DEF HasChild
<1>2. [sess EXCEPT ![child].out = out, ![child].lines = lines] =
        [sess EXCEPT ![child] = [[sess[child] EXCEPT !.out = out] EXCEPT !.lines = lines]]
  BY DEF HasChild
<1>3. [[sess[child] EXCEPT !.out = out] EXCEPT !.lines = lines] =
        [open |-> sess[child].open, lines |-> lines, out |-> out, mode |-> sess[child].mode]
  <2> DEFINE c == sess[child]
  <2>1. c = [open |-> c.open, lines |-> c.lines, out |-> c.out, mode |-> c.mode]
    BY <1>1 DEF Sessions
  <2> HIDE DEF c
  <2>2. [c EXCEPT !.out = out] = [open |-> c.open, lines |-> c.lines, out |-> out, mode |-> c.mode]
    BY <2>1
  <2>3. [[c EXCEPT !.out = out] EXCEPT !.lines = lines] =
          [open |-> c.open, lines |-> lines, out |-> out, mode |-> c.mode]
    <3> DEFINE d == [c EXCEPT !.out = out]
    <3>1. d = [open |-> c.open, lines |-> c.lines, out |-> out, mode |-> c.mode]
      BY <2>2
    <3> HIDE DEF d
    <3>2. [d EXCEPT !.lines = lines] =
            [open |-> c.open, lines |-> lines, out |-> out, mode |-> c.mode]
      BY <3>1
    <3> QED
      BY <3>2 DEF d
  <2> QED
    BY <2>3 DEF c
<1> QED
  BY <1>2, <1>3 DEF Talks, Open

\* The lines that are sent when the router warns, too.
LEMMA WarnedTalk ==
  ASSUME NEW N, NEW U, NEW S, sess \in Seq(Sessions(N, U, S)), HasChild, 0 \in N, LoadWarns
  PROVE  LET ls == IF Open THEN sess[child].lines \o <<Plain("n"), CR>> ELSE sess[child].lines
         IN  ls \in Seq(Lines(N, U, S)) /\ Talks(After(LoadWaits), ls)
<1> DEFINE L == Lines(N, U, S)
           ls == IF Open THEN sess[child].lines \o <<Plain("n"), CR>> ELSE sess[child].lines
<1>1. sess[child] \in Sessions(N, U, S)
  BY TalkParts
<1>2. Talks(After(LoadWaits), ls)
  <2>2. sess' = [sess EXCEPT ![child].out = After(LoadWaits), ![child].lines = ls]
    BY DEF LoadWarns
  <2> HIDE DEF ls
  <2> QED
    BY <2>2, BothTalk
<1>3. Plain("n") \in L /\ CR \in L
  BY PlainLines DEF CR
<1>4. sess[child].lines \in Seq(L)
  BY TalkParts
<1>5. ls \in Seq(L)
  <2> HIDE DEF L
  <2>1. <<Plain("n"), CR>> \in Seq(L)
    BY <1>3
  <2> QED
    BY <1>4, <2>1
<1> QED
  BY <1>2, <1>5

\* What is typed stays so when calls are added, and files are settled.
LEMMA SessionsGrow ==
  ASSUME NEW N, NEW U, NEW S, NEW N2, NEW U2, NEW S2,
         N \subseteq N2, U \subseteq U2, S \subseteq S2,
         NEW ss \in Seq(Sessions(N, U, S))
  PROVE  ss \in Seq(Sessions(N2, U2, S2))
<1>1. Lines(N, U, S) \subseteq Lines(N2, U2, S2)
  BY DEF Lines
<1>2. Marks(N, S) \subseteq Marks(N2, S2)
  BY DEF Marks
<1>3. Seq(Lines(N, U, S)) \subseteq Seq(Lines(N2, U2, S2))
  BY <1>1, SeqMonotonic
<1>4. Seq(Marks(N, S)) \subseteq Seq(Marks(N2, S2))
  BY <1>2, SeqMonotonic
<1>5. Sessions(N, U, S) \subseteq Sessions(N2, U2, S2)
  BY <1>1, <1>3, <1>4 DEF Sessions
<1> QED
  BY <1>5, SeqMonotonic

LEMMA GrowthTyped ==
  ASSUME calls \in Nat, calls' \in Nat, calls <= calls', Settled \subseteq Settled',
         sess' \in Seq(Sessions(0..calls, Uploaded', Settled))
  PROVE  sess' \in Seq(Sessions(0..calls', Uploaded', Settled'))
<1>1. 0..calls \subseteq 0..calls'
  OBVIOUS
<1> QED
  BY <1>1, SessionsGrow

\* No step but those of the upload brings a call back to it.
LEMMA PlainGrowth ==
  ASSUME calls \in Nat, calls' = calls, op' = op, fresh' = fresh,
         \A n \in 1..calls : files'[n] = files[n] \/ files'[n] = "none",
         pc' \in Uploading => pc \in Uploading
  PROVE  Uploaded \subseteq Uploaded' /\ Settled \subseteq Settled'
<1>1. Uploaded \subseteq Uploaded'
  BY DEF Uploaded
<1>2. Doubtful' = Doubtful
  BY DEF Doubtful, Repeats
<1>3. Settled \subseteq Settled'
  BY <1>1, <1>2 DEF Settled, Uploaded
<1> QED
  BY <1>1, <1>3

\* How Step changes where a call is, and what it works on.
LEMMA StepPhase ==
  ASSUME Types, Control, Step
  PROVE  /\ Phase'
         /\ pc' \in Pcs /\ op' = op /\ calls' = calls
         /\ line' \in [what : Whats, of : 0..calls, dest : Destinations \cup {NONE}]
         /\ raised' \in Exceptions \cup {NONE}
         /\ result' \in Exceptions \cup {"none", "ok", "response"}
         /\ hostStatus' \in BOOLEAN /\ retrying' \in BOOLEAN
<1> DEFINE Goal == /\ Phase'
                   /\ pc' \in Pcs /\ op' = op /\ calls' = calls
                   /\ line' \in [what : Whats, of : 0..calls, dest : Destinations \cup {NONE}]
                   /\ raised' \in Exceptions \cup {NONE}
                   /\ result' \in Exceptions \cup {"none", "ok", "response"}
                   /\ hostStatus' \in BOOLEAN /\ retrying' \in BOOLEAN
<1>0. Scalars /\ Phase
  BY DEF Types, Control
<1> USE DEF Scalars, Phase, fixed, object, Return, Pcs, Uploading, Dialled, Erasing, Ops
<1>1. ASSUME DialSucceeds PROVE Goal
  BY <1>0, <1>1 DEF DialSucceeds
<1>2. ASSUME GivesUp PROVE Goal
  BY <1>0, <1>2 DEF GivesUp
<1>3. ASSUME Login PROVE Goal
  BY <1>0, <1>3 DEF Login
<1>4. ASSUME PagerEcho PROVE Goal
  BY <1>0, <1>4 DEF PagerEcho
<1>5. ASSUME PagerPrompt PROVE Goal
  BY <1>0, <1>5 DEF PagerPrompt
<1>6. ASSUME PagerOff PROVE Goal
  BY <1>0, <1>6 DEF PagerOff
<1>7. ASSUME Echoed PROVE Goal
  BY <1>0, <1>7 DEF Echoed
<1>8. ASSUME Reconnect PROVE Goal
  BY <1>0, <1>8 DEF Reconnect, Waiting
<1>9. ASSUME Refused PROVE Goal
  BY <1>0, <1>9 DEF Refused, Responded, Exceptions
<1>10. ASSUME CmdDone PROVE Goal
  BY <1>0, <1>10 DEF CmdDone, Responded
<1>11. ASSUME UploadConnects PROVE Goal
  BY <1>0, <1>11 DEF UploadConnects
<1>12. ASSUME UploadUnconnected PROVE Goal
  BY <1>0, <1>12 DEF UploadUnconnected, UploadRaises, Exceptions
<1>13. ASSUME Acknowledged PROVE Goal
  BY <1>0, <1>13 DEF Acknowledged, Exceptions
<1>14. ASSUME NotAcknowledged PROVE Goal
  BY <1>0, <1>14 DEF NotAcknowledged, UploadRaises, Replies, Received, Exceptions
<1>15. ASSUME Verified PROVE Goal
  BY <1>0, <1>15 DEF Verified, Responded, DeleteFile, Exceptions, Whats
<1>16. ASSUME CopyAsks PROVE Goal
  BY <1>0, <1>16 DEF CopyAsks
<1>17. ASSUME CopyDone PROVE Goal
  BY <1>0, <1>17 DEF CopyDone, Copied, DeleteFile, Whats
<1>18. ASSUME LoadDone PROVE Goal
  BY <1>0, <1>18 DEF LoadDone, Copied, DeleteFile, Whats
<1>19. ASSUME LoadInvalid PROVE Goal
  BY <1>0, <1>19 DEF LoadInvalid, DeleteFile, Exceptions
<1>20. ASSUME LoadWarns PROVE Goal
  BY <1>0, <1>20 DEF LoadWarns, DeleteFile, Exceptions
<1>21. ASSUME CopyFails PROVE Goal
  BY <1>0, <1>21 DEF CopyFails, DeleteFile, Exceptions
<1>22. ASSUME Saved PROVE Goal
  BY <1>0, <1>22 DEF Saved, Responded, DeleteFile
<1>23. ASSUME NEW s \in Deleting, pc = s.at, SetConfigDone(FALSE) \/ SetConfigDone(TRUE) \/ (pc' = s.next /\ s.next # "idle" /\ UNCHANGED result),
              UNCHANGED <<object, line, retrying, raised, fixed>> PROVE Goal
  <2>1. pc \in Erasing /\ result = "none"
    BY <1>0, <1>23 DEF Deleting
  <2>2. CASE SetConfigDone(FALSE) \/ SetConfigDone(TRUE)
    <3>1. /\ pc' = "idle" /\ (result' = "ok" => raised = NONE)
          /\ result' \in Exceptions \cup {"ok"}
      BY <1>0, <2>2 DEF SetConfigDone, Exceptions
    <3> QED
      BY <1>0, <1>23, <3>1
  <2>3. CASE pc' = s.next /\ s.next # "idle" /\ UNCHANGED result
    BY <1>0, <1>23, <2>1, <2>3 DEF Deleting
  <2> QED
    BY <1>23, <2>2, <2>3
<1>24. ASSUME DeleteGoesOn PROVE Goal
  <2>1. PICK s \in Deleting : /\ pc = s.at
                              /\ IF s.next = "idle" THEN SetConfigDone(FALSE)
                                 ELSE pc' = s.next /\ UNCHANGED <<warned, result>>
                              /\ UNCHANGED <<object, line, retrying, raised, answer, fixed>>
    BY <1>24, Zenon DEF DeleteGoesOn
  <2> QED
    BY <1>23, <2>1
<1>25. ASSUME DeleteFails PROVE Goal
  <2>1. PICK s \in Deleting : /\ pc = s.at
                              /\ SetConfigDone(TRUE)
                              /\ UNCHANGED <<object, line, retrying, raised, answer, fixed>>
    BY <1>25, Zenon DEF DeleteFails
  <2> QED
    BY <1>23, <2>1
<1>26. ASSUME Closed PROVE Goal
  BY <1>0, <1>26 DEF Closed, Exceptions
<1> HIDE DEF Goal, Scalars, Phase, fixed, object, Return, Pcs, Uploading, Dialled, Erasing, Ops
<1>27. Goal
  BY <1>1, <1>2, <1>3, <1>4, <1>5, <1>6, <1>7, <1>8, <1>9, <1>10, <1>11, <1>12, <1>13,
     <1>14, <1>15, <1>16, <1>17, <1>18, <1>19, <1>20, <1>21, <1>22, <1>24, <1>25, <1>26,
     FailuresGiveUp DEF Step
<1> QED
  BY <1>27 DEF Goal

\* What Step leaves alone.
Keeps ==
  /\ UNCHANGED <<op, calls, fresh, complained, runs, running, startup>>
  /\ Acknowledged \/ (UNCHANGED files /\ (pc' \in Uploading => pc \in Uploading))

LEMMA StepKeeps ==
  ASSUME Types, Control, Step
  PROVE  /\ Keeps
         /\ ~DialSucceeds =>
              /\ child' = child
              /\ pc' \notin Uploading \cup {"idle", "dial"} => HasChild
              /\ pc' = "dial" => op # "Connect" /\ HasChild /\ ~Open
<1> DEFINE Goal ==
      /\ Keeps
      /\ child' = child
      /\ pc' \notin Uploading \cup {"idle", "dial"} => HasChild
      /\ pc' = "dial" => op # "Connect" /\ HasChild /\ ~Open
<1>0. Scalars /\ Phase /\ Reach
  BY DEF Types, Control
<1> USE DEF Phase, Reach, Keeps, fixed, router, object, Return, Uploading, Dialled, Erasing
<1>1. ASSUME GivesUp PROVE Goal
  BY <1>0, <1>1 DEF GivesUp
<1>2. ASSUME Login PROVE Goal
  BY <1>0, <1>2 DEF Login
<1>3. ASSUME PagerEcho PROVE Goal
  BY <1>0, <1>3 DEF PagerEcho
<1>4. ASSUME PagerPrompt PROVE Goal
  BY <1>0, <1>4 DEF PagerPrompt
<1>5. ASSUME PagerOff PROVE Goal
  BY <1>0, <1>5 DEF PagerOff
<1>6. ASSUME Echoed PROVE Goal
  BY <1>0, <1>6 DEF Echoed
<1>7. ASSUME Reconnect PROVE Goal
  BY <1>0, <1>7 DEF Reconnect, Waiting, AtEof
<1>8. ASSUME Refused PROVE Goal
  BY <1>0, <1>8 DEF Refused, Responded
<1>9. ASSUME CmdDone PROVE Goal
  BY <1>0, <1>9 DEF CmdDone, Responded
<1>10. ASSUME UploadConnects PROVE Goal
  BY <1>0, <1>10 DEF UploadConnects
<1>11. ASSUME UploadUnconnected PROVE Goal
  BY <1>0, <1>11 DEF UploadUnconnected, UploadRaises
<1>12. ASSUME Acknowledged PROVE Goal
  BY <1>0, <1>12 DEF Acknowledged
<1>13. ASSUME NotAcknowledged PROVE Goal
  BY <1>0, <1>13 DEF NotAcknowledged, UploadRaises
<1>14. ASSUME Verified PROVE Goal
  BY <1>0, <1>14 DEF Verified, Responded, DeleteFile
<1>15. ASSUME CopyAsks PROVE Goal
  BY <1>0, <1>15 DEF CopyAsks
<1>16. ASSUME CopyDone PROVE Goal
  BY <1>0, <1>16 DEF CopyDone, Copied, DeleteFile
<1>17. ASSUME LoadDone PROVE Goal
  BY <1>0, <1>17 DEF LoadDone, Copied, DeleteFile
<1>18. ASSUME LoadInvalid PROVE Goal
  BY <1>0, <1>18 DEF LoadInvalid, DeleteFile
<1>19. ASSUME LoadWarns PROVE Goal
  BY <1>0, <1>19 DEF LoadWarns, DeleteFile
<1>20. ASSUME CopyFails PROVE Goal
  BY <1>0, <1>20 DEF CopyFails, DeleteFile
<1>21. ASSUME Saved PROVE Goal
  BY <1>0, <1>21 DEF Saved, Responded, DeleteFile
<1>22. ASSUME NEW s \in Deleting, pc = s.at,
              SetConfigDone(FALSE) \/ SetConfigDone(TRUE) \/ (pc' = s.next /\ s.next # "idle"),
              UNCHANGED <<object, line, retrying, raised, fixed>>
       PROVE  Goal
  BY <1>0, <1>22 DEF SetConfigDone, Deleting
<1>23. ASSUME DeleteGoesOn PROVE Goal
  <2>1. PICK s \in Deleting : /\ pc = s.at
                              /\ IF s.next = "idle" THEN SetConfigDone(FALSE)
                                 ELSE pc' = s.next /\ UNCHANGED <<warned, result>>
                              /\ UNCHANGED <<object, line, retrying, raised, answer, fixed>>
    BY <1>23, Zenon DEF DeleteGoesOn
  <2> QED
    BY <1>22, <2>1
<1>24. ASSUME DeleteFails PROVE Goal
  <2>1. PICK s \in Deleting : /\ pc = s.at
                              /\ SetConfigDone(TRUE)
                              /\ UNCHANGED <<object, line, retrying, raised, answer, fixed>>
    BY <1>24, Zenon DEF DeleteFails
  <2> QED
    BY <1>22, <2>1
<1>25. ASSUME Closed PROVE Goal
  BY <1>0, <1>25 DEF Closed
<1>26. ASSUME DialSucceeds PROVE Keeps
  BY <1>26 DEF DialSucceeds
<1> HIDE DEF Goal, Phase, Reach, Keeps, fixed, router, object, Return, Uploading, Dialled, Erasing
<1>27. Goal \/ DialSucceeds
  BY <1>1, <1>2, <1>3, <1>4, <1>5, <1>6, <1>7, <1>8, <1>9, <1>10, <1>11, <1>12, <1>13,
     <1>14, <1>15, <1>16, <1>17, <1>18, <1>19, <1>20, <1>21, <1>23, <1>24, <1>25,
     FailuresGiveUp DEF Step
<1> QED
  BY <1>26, <1>27 DEF Goal

\* What Step does to the sessions, but for a new one.
LEMMA StepIsLocal ==
  ASSUME Types, Control, ReadsItsOwn, Step, ~DialSucceeds
  PROVE  Local
<1> DEFINE T == Lines(0..calls, Uploaded', Settled)
<1>1. sess \in Seq(Sessions(0..calls, Uploaded', Settled)) /\ 0 \in 0..calls
  <2>1. calls \in Nat /\ sess \in Seq(Sessions(0..calls, Uploaded, Settled))
    BY DEF Types, Scalars
  <2>2. calls' = calls /\ (pc' \in Uploading => pc \in Uploading)
    BY StepKeeps DEF Keeps, Acknowledged, Uploading
  <2>3. Uploaded \subseteq Uploaded'
    BY <2>2 DEF Uploaded
  <2> QED
    BY <2>1, <2>3, SessionsGrow
<1>2. CR \in T /\ Plain("terminal") \in T
  BY <1>1, PlainLines DEF CR
<1>3. ASSUME op \in {"Cmd", "SetConfig"}, pc \notin Uploading \/ pc' \notin Uploading
      PROVE  /\ line \in T /\ \A x \in {"save", "delete"} : [line EXCEPT !.what = x] \in T
             /\ calls \in Uploaded'
  <2>1. calls' = calls /\ (pc' \in Uploading => pc \in Uploading)
    BY StepKeeps DEF Keeps, Acknowledged, Uploading
  <2>2. calls \in Uploaded'
    BY <1>3, <2>1 DEF Uploaded, Types, Scalars, Control, Phase
  <2> QED
    BY <1>3, <2>2, OwnLines
<1>4. pc \in Dialled \cup Erasing \cup {"sent", "echoed", "copy", "load", "exit"} => HasChild
  BY DEF Control, Phase, Reach, Dialled, Erasing, Uploading
<1>5. UNCHANGED sess => Local
  BY <1>1 DEF Local
<1> HIDE DEF T
<1>6. ASSUME HasChild,
             \/ \E kinds : Drop(kinds) \/ DropAndSend(kinds, CR)
             \/ \E l \in T : Send(l) \/ \E kinds : DropAndSend(kinds, l)
      PROVE  Local
  BY <1>1, <1>2, <1>6, TalkTyped DEF T
<1>7. CASE DialFails \/ LoginFails \/ PagerFails \/ CmdTimesOut \/ EofTwice
  <2>1. GivesUp
    BY <1>7, FailuresGiveUp
  <2>2. CASE UNCHANGED sess
    BY <1>5, <2>2
  <2>3. CASE Send(CR) /\ op = "SetConfig"
    <3>1. HasChild
      BY <1>4, <2>1, <2>3 DEF GivesUp, Control, Phase, Reach
    <3> QED
      BY <1>2, <1>6, <2>3, <3>1
  <2> QED
    BY <2>1, <2>2, <2>3 DEF GivesUp
<1>8. CASE Login
  BY <1>4, <1>6, <1>8 DEF Login, Dialled
<1>9. CASE PagerEcho
  BY <1>4, <1>6, <1>9 DEF PagerEcho, Dialled
<1>10. CASE PagerPrompt
  BY <1>2, <1>4, <1>6, <1>10 DEF PagerPrompt, Dialled
<1>11. CASE PagerOff
  <2>1. HasChild
    BY <1>4, <1>11 DEF PagerOff, Dialled
  <2>2. op # "Connect" => line \in T
    BY <1>3, <1>11 DEF PagerOff, Control, Phase, Reach, Dialled, Types, Scalars, Ops, Uploading
  <2> QED
    BY <1>6, <1>11, <2>1, <2>2 DEF PagerOff
<1>12. CASE Echoed
  BY <1>4, <1>6, <1>12 DEF Echoed
<1>13. CASE Reconnect \/ UploadConnects \/ UploadUnconnected \/ NotAcknowledged \/ Closed
  BY <1>5, <1>13 DEF Reconnect, UploadConnects, UploadUnconnected, NotAcknowledged, Closed,
                     UploadRaises
<1>14. CASE Refused \/ CmdDone \/ Saved
  BY <1>4, <1>6, <1>14 DEF Refused, CmdDone, Saved, Responded
<1>15. CASE Acknowledged
  <2>1. CASE UNCHANGED sess
    BY <1>5, <2>1
  <2>2. CASE pc = "data" /\ HasChild /\ Send(line) /\ pc' = "sent"
    BY <1>3, <1>6, <2>2 DEF Control, Phase, Reach, Uploading
  <2> QED
    BY <1>15, <2>1, <2>2 DEF Acknowledged
<1>16. CASE Verified
  <2>1. HasChild /\ pc = "echoed" /\ op = "SetConfig" /\ Matched(Waits)
    BY <1>4, <1>16 DEF Verified, Responded
  <2>2. CASE SameDigest
    <3>1. calls \in Settled
      BY <1>16, <2>2, DigestSettles
    <3>2. [line EXCEPT !.what = "copy"] \in T
      <4>1. calls \in Uploaded'
        BY <1>3, <2>1 DEF Uploading
      <4> QED
        BY <2>1, <3>1, <4>1, OwnLines DEF T
    <3> QED
      BY <1>6, <1>16, <2>1, <2>2, <3>2 DEF Verified
  <2>3. CASE ~SameDigest
    BY <1>6, <1>16, <2>1, <2>3 DEF Verified
  <2> QED
    BY <2>2, <2>3
<1>17. CASE CopyAsks \/ LoadInvalid
  BY <1>4, <1>6, <1>17 DEF CopyAsks, LoadInvalid
<1>18. CASE CopyDone \/ LoadDone
  <2>1. HasChild /\ op = "SetConfig" /\ pc \in {"copy", "load"}
    BY <1>4, <1>18 DEF CopyDone, LoadDone, Control, Phase, Reach
  <2>2. [line EXCEPT !.what = "save"] \in T
    BY <1>3, <2>1 DEF Uploading
  <2>3. PICK kinds : Copied(kinds)
    BY <1>18 DEF CopyDone, LoadDone
  <2>4. DropAndSend(kinds, CR) \/ DropAndSend(kinds, [line EXCEPT !.what = "save"])
    BY <2>3 DEF Copied
  <2> QED
    BY <1>6, <2>1, <2>2, <2>4
<1>19. CASE LoadWarns
  <2>1. HasChild
    BY <1>4, <1>19 DEF LoadWarns
  <2> DEFINE ls == IF Open THEN sess[child].lines \o <<Plain("n"), CR>> ELSE sess[child].lines
  <2>2. ls \in Seq(Lines(0..calls, Uploaded', Settled)) /\ Talks(After(LoadWaits), ls)
    BY <1>1, <1>19, <2>1, WarnedTalk
  <2>3. After(LoadWaits) \in Seq(Marks(0..calls, Settled))
    BY <1>1, <2>1, TalkParts
  <2>4. ~Open => ls = sess[child].lines
    OBVIOUS
  <2> HIDE DEF ls
  <2>5. /\ sess' \in Seq(Sessions(0..calls, Uploaded', Settled))
        /\ Len(sess') = Len(sess) /\ DOMAIN sess' = DOMAIN sess
        /\ sess'[child] = [open |-> Open, lines |-> ls, out |-> After(LoadWaits),
                           mode |-> sess[child].mode]
        /\ \A s \in DOMAIN sess : s # child => sess'[s] = sess[s]
    BY <1>1, <2>1, <2>2, <2>3, TalkIsLocal
  <2> QED
    BY <2>4, <2>5 DEF Local, Open
<1>20. CASE CopyFails
  BY <1>2, <1>4, <1>6, <1>20 DEF CopyFails
<1>21. CASE DeleteGoesOn
  <2>1. PICK s \in Deleting : /\ pc = s.at
                              /\ IF s.at \in {"delete", "deleted"}
                                 THEN Drop(s.waits)
                                 ELSE DropAndSend(s.waits, IF s.at = "delete_prompt"
                                        THEN [line EXCEPT !.what = "delete"] ELSE CR)
    BY <1>21, Zenon DEF DeleteGoesOn
  <2>2. pc \in Erasing
    BY <2>1 DEF Deleting, Erasing
  <2>3. HasChild /\ [line EXCEPT !.what = "delete"] \in T
    BY <1>3, <1>4, <2>2 DEF Control, Phase, Reach, Uploading, Erasing
  <2>4. \/ Drop(s.waits) \/ DropAndSend(s.waits, CR)
        \/ DropAndSend(s.waits, [line EXCEPT !.what = "delete"])
    BY <2>1
  <2> QED
    BY <1>6, <2>3, <2>4
<1>22. CASE DeleteFails
  <2>1. PICK s \in Deleting : pc = s.at /\ (UNCHANGED sess \/ Drop(s.waits))
    BY <1>22, Zenon DEF DeleteFails
  <2>2. pc \in Erasing
    BY <2>1 DEF Deleting, Erasing
  <2> QED
    BY <1>4, <1>5, <1>6, <2>1, <2>2
<1> QED
  BY <1>7, <1>8, <1>9, <1>10, <1>11, <1>12, <1>13, <1>14, <1>15, <1>16, <1>17,
     <1>18, <1>19, <1>20, <1>21, <1>22 DEF Step

\* A step of a call keeps the types.
LEMMA StepTypes ==
  ASSUME Types, Control, ClosedIsIdle, ReadsItsOwn, Step
  PROVE  Types' /\ Control' /\ ClosedIsIdle'
<1>1. /\ Phase'
      /\ pc' \in Pcs /\ op' = op /\ calls' = calls
      /\ line' \in [what : Whats, of : 0..calls, dest : Destinations \cup {NONE}]
      /\ raised' \in Exceptions \cup {NONE}
      /\ result' \in Exceptions \cup {"none", "ok", "response"}
      /\ hostStatus' \in BOOLEAN /\ retrying' \in BOOLEAN
  BY StepPhase
<1>2. /\ UNCHANGED <<op, calls, fresh, complained, runs, running, startup>>
      /\ Acknowledged \/ (UNCHANGED files /\ (pc' \in Uploading => pc \in Uploading))
  BY StepKeeps DEF Keeps
<1>3. /\ calls \in 0..MaxCalls /\ files \in [1..MaxCalls -> {"none", "part", "whole"}]
      /\ MaxCalls \in Nat
  BY IosAssumption DEF Types, Scalars
<1>4. /\ Uploaded \subseteq Uploaded' /\ Settled \subseteq Settled'
      /\ files' \in [1..MaxCalls -> {"none", "part", "whole"}]
  <2>1. CASE Acknowledged
    <3>1. pc \in {"begin", "attributes", "data"} /\ pc' \notin {"upload", "begin"}
      BY <2>1 DEF Acknowledged, Return
    <3>2. pc = "attributes" <=> pc' = "data"
      BY <2>1 DEF Acknowledged, Return
    <3>3. \/ files' = files
          \/ files' = [files EXCEPT ![calls] = "part"] /\ pc' = "data"
          \/ files' = [files EXCEPT ![calls] = "whole"] /\ pc = "data"
      BY <2>1 DEF Acknowledged
    <3>4. files' \in [1..MaxCalls -> {"none", "part", "whole"}]
      BY <1>3, <3>3
    <3>5. \A n \in 1..calls : n # calls => files'[n] = files[n]
      BY <1>3, <3>3
    <3>6. files' = files \/ pc \in Uploading \/ files'[calls] = "whole" \/ calls = 0
      BY <1>3, <3>3, <3>2 DEF Uploading
    <3>7. pc = "begin" <=> pc' = "attributes"
      BY <2>1 DEF Acknowledged, Return
    <3>8. Uploaded \subseteq Uploaded'
      BY <1>2, <1>3, <3>1, <3>7 DEF Uploaded, Uploading
    <3>9. Settled \subseteq Settled'
      <4>1. Doubtful' = Doubtful
        BY <1>2 DEF Doubtful, Repeats
      <4> QED
        BY <1>2, <1>3, <3>1, <3>2, <3>5, <3>6, <3>7, <3>8, <4>1 DEF Settled, Uploaded, Uploading
    <3> QED
      BY <3>4, <3>8, <3>9
  <2>2. CASE ~Acknowledged
    <3>1. calls \in Nat /\ \A n \in 1..calls : files'[n] = files[n]
      BY <1>2, <1>3, <2>2
    <3> QED
      BY <1>2, <1>3, <2>2, <3>1, PlainGrowth
  <2> QED
    BY <2>1, <2>2
<1>5. line'.what = "copy" => line'.of \in Settled'
  <2>1. CASE line' = line
    BY <1>4, <2>1 DEF Types
  <2>2. CASE Verified /\ line' = [line EXCEPT !.what = "copy"]
                      /\ SameDigest
    <3>1. HasChild /\ Matched(Waits) /\ line.of = calls
      BY <2>2 DEF Verified, Responded, Control, Reach, Phase, Uploading
    <3>2. calls \in Settled
      BY <2>2, DigestSettles
    <3> QED
      BY <1>4, <2>2, <3>1, <3>2 DEF Types, Scalars
  <2>3. CASE line' = [line EXCEPT !.what = "save"]
    BY <2>3 DEF Types, Scalars
  <2>4. \/ line' = line
        \/ line' = [line EXCEPT !.what = "save"]
        \/ Verified /\ line' = [line EXCEPT !.what = "copy"]
                    /\ SameDigest
    <3>1. CASE DialSucceeds \/ GivesUp \/ Login \/ PagerEcho \/ PagerPrompt \/ PagerOff \/ Echoed
               \/ Reconnect \/ Refused \/ CmdDone \/ UploadConnects \/ UploadUnconnected
      BY <3>1 DEF DialSucceeds, GivesUp, Login, PagerEcho, PagerPrompt, PagerOff, Echoed,
                  Reconnect, Refused, CmdDone, UploadConnects, UploadUnconnected, UploadRaises
    <3>2. CASE Acknowledged \/ NotAcknowledged \/ CopyAsks \/ LoadInvalid \/ LoadWarns
               \/ CopyFails \/ Saved \/ DeleteGoesOn \/ DeleteFails \/ Closed
      BY <3>2 DEF Acknowledged, NotAcknowledged, UploadRaises, CopyAsks, LoadInvalid,
                  LoadWarns, CopyFails, Saved, DeleteGoesOn, DeleteFails, Closed
    <3>3. CASE CopyDone \/ LoadDone
      BY <3>3 DEF CopyDone, LoadDone, Copied
    <3>4. CASE Verified
      BY <3>4 DEF Verified
    <3> QED
      BY <3>1, <3>2, <3>3, <3>4, FailuresGiveUp DEF Step
  <2> QED
    BY <2>1, <2>2, <2>3, <2>4
<1>6. /\ sess' \in Seq(Sessions(0..calls, Uploaded', Settled))
      /\ child' \in (0..Len(sess')) \cup {NONE}
      /\ Reach' /\ ClosedIsIdle'
  <2>1. CASE DialSucceeds
    <3>1. sess \in Seq(Sessions(0..calls, Uploaded', Settled)) /\ 0 \in 0..calls
      BY <1>4, SessionsGrow DEF Types, Scalars
    <3>2. /\ sess' \in Seq(Sessions(0..calls, Uploaded', Settled))
          /\ Len(sess') = Len(sess) + 1 /\ child' = Len(sess) + 1
          /\ sess'[child'] = [open |-> TRUE, lines |-> <<Plain("login")>>,
                              out |-> <<>>, mode |-> Exec]
          /\ \A s \in DOMAIN sess : /\ s \in DOMAIN sess' /\ s # child'
                                    /\ sess'[s] = [sess[s] EXCEPT !.out = <<>>]
      BY <2>1, <3>1, Dialling
    <3>3. \A s \in DOMAIN sess : sess[s] \in Sessions(0..calls, Uploaded', Settled)
      BY <3>1, ElementOfSeq
    <3>4. \A s \in DOMAIN sess : sess'[s].open = sess[s].open /\ sess'[s].lines = sess[s].lines
      BY <3>2, <3>3 DEF Sessions
    <3>5. DOMAIN sess' = 1..(Len(sess) + 1) /\ DOMAIN sess = 1..Len(sess) /\ Len(sess) \in Nat
      BY <3>1, <3>2
    <3>6. \A s \in DOMAIN sess' : s \in DOMAIN sess \/ s = child'
      BY <3>2, <3>5
    <3>7. ClosedIsIdle'
      BY <3>2, <3>4, <3>6 DEF ClosedIsIdle
    <3>8. HasChild' /\ pc' = "login"
      BY <2>1, <3>2, <3>5 DEF HasChild, DialSucceeds
    <3> QED
      BY <3>2, <3>5, <3>7, <3>8 DEF Reach
  <2>2. CASE ~DialSucceeds
    <3>1. /\ sess' \in Seq(Sessions(0..calls, Uploaded', Settled))
          /\ Len(sess') = Len(sess) /\ DOMAIN sess' = DOMAIN sess
          /\ \A s \in DOMAIN sess : /\ sess'[s].open = sess[s].open
                                    /\ ~sess[s].open => sess'[s].lines = sess[s].lines
      BY <2>2, StepIsLocal DEF Local
    <3>2. /\ child' = child
          /\ pc' \notin Uploading \cup {"idle", "dial"} => HasChild
          /\ pc' = "dial" => op # "Connect" /\ HasChild /\ ~Open
      BY <2>2, StepKeeps
    <3>3. ClosedIsIdle'
      BY <3>1 DEF ClosedIsIdle
    <3>4. Reach'
      BY <1>2, <3>1, <3>2 DEF Reach, HasChild, Open
    <3> QED
      BY <3>1, <3>2, <3>3, <3>4 DEF Types, Scalars
  <2> QED
    BY <2>1, <2>2
<1>7. sess' \in Seq(Sessions(0..calls', Uploaded', Settled'))
  BY <1>2, <1>3, <1>4, <1>6, GrowthTyped
<1>8. Scalars'
  BY <1>1, <1>2, <1>6 DEF Scalars, Types
<1>9. {running, startup}' \subseteq Configurations'
  BY <1>2 DEF Types, Configurations, Doubtful, Repeats
<1> QED
  BY <1>1, <1>4, <1>5, <1>6, <1>7, <1>8, <1>9 DEF Types, Control

-----------------------------------------------------------------------------
(* The steps of the router *)

\* The session after an answer.
LEMMA ReplyIsLocal ==
  ASSUME NEW N, NEW U, NEW S, sess \in Seq(Sessions(N, U, S)),
         NEW s \in DOMAIN sess, sess[s].lines # <<>>,
         NEW marks \in Seq(Marks(N, S)), NEW mode \in Lines(N, U, S), Reply(s, marks, mode)
  PROVE  /\ sess' \in Seq(Sessions(N, U, S))
         /\ Len(sess') = Len(sess) /\ DOMAIN sess' = DOMAIN sess
         /\ sess'[s] = [open |-> sess[s].open, lines |-> Tail(sess[s].lines),
                        out |-> IF s = child THEN sess[s].out \o marks ELSE <<>>, mode |-> mode]
         /\ \A r \in DOMAIN sess : r # s => sess'[r] = sess[r]
<1> DEFINE R == Sessions(N, U, S)
           L == Lines(N, U, S)
           M == Marks(N, S)
           o == IF s = child THEN sess[s].out \o marks ELSE <<>>
           c == [open |-> sess[s].open, lines |-> Tail(sess[s].lines), out |-> o, mode |-> mode]
<1>1. sess[s] \in R
  BY ElementOfSeq
<1>2. c \in R
  <2>1. sess[s].lines \in Seq(L) /\ sess[s].out \in Seq(M) /\ sess[s].open \in BOOLEAN
    BY <1>1 DEF Sessions
  <2>2. Tail(sess[s].lines) \in Seq(L) /\ o \in Seq(M)
    <3> HIDE DEF L, M
    <3>1. <<>> \in Seq(M)
      BY EmptySeq
    <3> QED
      BY <2>1, <3>1 DEF M
  <2> HIDE DEF o
  <2> QED
    BY <2>1, <2>2 DEF Sessions
<1>3. sess' = [sess EXCEPT ![s] = c]
  <2>1. sess' = [sess EXCEPT ![s].lines = Tail(sess[s].lines), ![s].mode = mode, ![s].out = o]
    BY DEF Reply
  <2>2. sess[s] = [open |-> sess[s].open, lines |-> sess[s].lines, out |-> sess[s].out,
                   mode |-> sess[s].mode]
    BY <1>1 DEF Sessions
  <2> DEFINE x == Tail(sess[s].lines)
             c0 == sess[s]
             c1 == [c0 EXCEPT !.lines = x]
             c2 == [c1 EXCEPT !.mode = mode]
             c3 == [c2 EXCEPT !.out = o]
  <2>3. sess' = [sess EXCEPT ![s] = c3]
    <3> HIDE DEF o, x
    <3> QED
      BY <2>1 DEF x
  <2> HIDE DEF o, x
  <2>4. c1 = [open |-> c0.open, lines |-> x, out |-> c0.out, mode |-> c0.mode]
    <3> HIDE DEF c0
    <3> QED
      BY <2>2 DEF c0
  <2> HIDE DEF c1
  <2>5. c2 = [open |-> c0.open, lines |-> x, out |-> c0.out, mode |-> mode]
    BY <2>4
  <2> HIDE DEF c2
  <2>6. c3 = [open |-> c0.open, lines |-> x, out |-> o, mode |-> mode]
    BY <2>5
  <2> QED
    BY <2>3, <2>6 DEF x
<1>4. sess \in Seq(R) /\ s \in DOMAIN sess
  OBVIOUS
<1> HIDE DEF R, c
<1>5. /\ sess' \in Seq(R) /\ Len(sess') = Len(sess) /\ DOMAIN sess' = DOMAIN sess
      /\ sess'[s] = c
      /\ \A r \in DOMAIN sess : r # s => sess'[r] = sess[r]
  BY <1>2, <1>3, <1>4
<1> QED
  BY <1>5 DEF R, c

\* What the router prints is typed.
LEMMA AnswerTyped ==
  ASSUME NEW N, NEW S, NEW l, l.of \in N, NEW kind \in Kinds, kind = "checksum" => l.of \in S
  PROVE  /\ Says(l, kind) \in Seq(Marks(N, S))
         /\ Asks(l, kind) \in Seq(Marks(N, S))
         /\ Prompts(l) \in Seq(Marks(N, S))
         /\ <<Mark("prompt", l.of)>> \in Seq(Marks(N, S))
<1> DEFINE M == Marks(N, S)
<1>1. Mark(kind, l.of) \in M /\ Mark("newline", l.of) \in M /\ Mark("prompt", l.of) \in M
  BY DEF Marks, Mark, Kinds
<1> HIDE DEF M
<1>2. /\ Says(l, kind) \in Seq(M) /\ Asks(l, kind) \in Seq(M) /\ Prompts(l) \in Seq(M)
      /\ <<Mark("prompt", l.of)>> \in Seq(M)
  BY <1>1 DEF Says, Asks, Prompts
<1> QED
  BY <1>2 DEF M

\* What a session has in hand.
LEMMA HandTyped ==
  ASSUME NEW N, NEW U, NEW S, sess \in Seq(Sessions(N, U, S)), NEW s \in DOMAIN sess
  PROVE  /\ sess[s] \in Sessions(N, U, S)
         /\ sess[s].mode \in Lines(N, U, S) /\ sess[s].open \in BOOLEAN
         /\ sess[s].out \in Seq(Marks(N, S)) /\ sess[s].lines \in Seq(Lines(N, U, S))
         /\ sess[s].lines # <<>> =>
              /\ Typed(s) \in Lines(N, U, S)
              /\ 1 \in DOMAIN sess[s].lines /\ Typed(s) = sess[s].lines[1]
<1>1. sess[s] \in Sessions(N, U, S)
  BY ElementOfSeq
<1>2. /\ sess[s].mode \in Lines(N, U, S) /\ sess[s].open \in BOOLEAN
      /\ sess[s].lines \in Seq(Lines(N, U, S)) /\ sess[s].out \in Seq(Marks(N, S))
  BY <1>1 DEF Sessions
<1>3. ASSUME sess[s].lines # <<>>
      PROVE  /\ Typed(s) \in Lines(N, U, S)
             /\ 1 \in DOMAIN sess[s].lines /\ Typed(s) = sess[s].lines[1]
  <2> DEFINE L == Lines(N, U, S)
  <2>1. sess[s].lines \in Seq(L)
    BY <1>2
  <2> HIDE DEF L
  <2>2. Len(sess[s].lines) >= 1 /\ Head(sess[s].lines) = sess[s].lines[1]
    BY <1>3, <2>1
  <2> QED
    BY <2>1, <2>2 DEF Typed, L
<1> QED
  BY <1>1, <1>2, <1>3

\* The line the router works on: the one that is typed, or the one it has asked
\* about; and what its answer may be.
Hand(s) == IF sess[s].mode.what = "exec" THEN Typed(s) ELSE sess[s].mode

\* What the router has asked about is what it waits for.
Handed(s) ==
  sess[s].mode.what # "exec" <=> Hand(s).what \in {"destination", "overwrite", "name", "confirm"}

Copying == {"copy", "destination", "overwrite"}
Effect(l, kind) ==
  /\ UNCHANGED files
  /\ kind = "checksum" => files[l.of] = "whole"
  /\ runs' = IF l.what = "command" /\ kind = "text" /\ l.of = calls THEN runs + 1 ELSE runs
  /\ l.what \in Copying /\ kind = "text" => Put(l, files[l.of])
  /\ l.what = "save" /\ kind = "text" => startup' = running /\ running' = running
  /\ l.what \in Copying \cup {"save"} /\ kind # "text" => (OfCall(l) => complained')
  /\ l.what \notin Copying \cup {"save"} => UNCHANGED <<running, startup>>

Reports(s, marks, mode) ==
  /\ mode = Exec
  /\ Hand(s).what \in Copying \cup {"command", "verify", "save", "delete", "name", "confirm"}
  /\ Hand(s).what = "name" => Typed(s) # CR
  /\ \E kind \in Contents(Hand(s).what) : Effect(Hand(s), kind) /\ marks = Says(Hand(s), kind)
Queries(s, marks, mode) ==
  /\ UNCHANGED <<files, running, startup, runs>>
  /\ \E kind \in {"question", "warning", "delete_question", "confirm_question"} :
       /\ marks = Asks(Hand(s), kind)
       /\ \E what \in {"destination", "overwrite", "name", "confirm"} :
            /\ mode = [Hand(s) EXCEPT !.what = what]
            /\ what = "destination" => Hand(s).what = "copy" /\ kind = "question"
            /\ what = "overwrite" => Hand(s).what = "destination" /\ kind = "warning"
            /\ what = "name" => Hand(s).what = "delete" /\ kind = "delete_question"
            /\ what = "confirm" => Hand(s).what = "name" /\ kind = "confirm_question"
Finishes(s, marks, mode) ==
  /\ UNCHANGED <<running, startup, runs>>
  /\ mode = Exec
  /\ Hand(s).what \in {"login", "enter", "terminal", "n", "overwrite", "confirm"}
  /\ Hand(s).what # "confirm" => UNCHANGED files
  /\ Hand(s).what = "confirm" /\ Typed(s) = CR => files' = [files EXCEPT ![Hand(s).of] = "none"]
  /\ \/ marks \in {Prompts(Hand(s)), Prompts(CR), Says(CR, "denied")}
     \/ marks = <<Mark("prompt", 0)>> /\ Hand(s).what = "login"
  /\ Hand(s).what = "confirm" => marks = Prompts(Hand(s))

LEMMA ContentsAre ==
  ASSUME NEW what
  PROVE  /\ Contents(what) \subseteq
              {"text", "invalid", "error", "denied", "checksum", "other_checksum"}
         /\ "checksum" \in Contents(what) => what = "verify"
BY DEF Contents

LEMMA Complaining ==
  ASSUME NEW l, complained' = (complained \/ OfCall(l))
  PROVE  OfCall(l) => complained'
BY Zenon

LEMMA RouterAnswers ==
  ASSUME NEW s \in DOMAIN sess, Works(s), ~Exits(s)
  PROVE  \E marks, mode :
           /\ Reply(s, marks, mode)
           /\ Reports(s, marks, mode) \/ Queries(s, marks, mode) \/ Finishes(s, marks, mode)
<1> DEFINE Goal == \E marks, mode :
           /\ Reply(s, marks, mode)
           /\ Reports(s, marks, mode) \/ Queries(s, marks, mode) \/ Finishes(s, marks, mode)
<1> USE DEF InMode
<1>1. ASSUME NEW kind, kind \in Contents(Hand(s).what), Reply(s, Says(Hand(s), kind), Exec),
             Effect(Hand(s), kind), Hand(s).what = "name" => Typed(s) # CR,
             Hand(s).what \in Copying \cup {"command", "verify", "save", "delete", "name", "confirm"}
      PROVE  Goal
  <2>1. Reports(s, Says(Hand(s), kind), Exec)
    BY <1>1 DEF Reports
  <2> QED
    BY <1>1, <2>1
<1>2. ASSUME Echo(s) PROVE Goal
  <2>1. Hand(s) = Typed(s) /\ UNCHANGED <<files, running, startup, runs>>
    BY <1>2 DEF Echo, Hand, router
  <2>2. PICK marks \in {<<Mark("prompt", 0)>>, Prompts(CR), Says(CR, "denied")} :
          /\ Reply(s, marks, Exec)
          /\ marks = <<Mark("prompt", 0)>> => Typed(s).what = "login"
    <3>1. <<Mark("prompt", 0)>> # Prompts(CR) /\ <<Mark("prompt", 0)>> # Says(CR, "denied")
      BY DEF Prompts, Says, Mark
    <3> QED
      BY <1>2, <3>1 DEF Echo
  <2>3. Finishes(s, marks, Exec)
    BY <1>2, <2>1, <2>2 DEF Echo, Finishes
  <2> QED
    BY <2>2, <2>3
<1>3. ASSUME RunsCommand(s) PROVE Goal
  <2>1. /\ Hand(s) = Typed(s) /\ Hand(s).what = "command"
        /\ UNCHANGED <<files, running, startup>>
    BY <1>3 DEF RunsCommand, Hand, router
  <2>2. PICK kind \in {"text", "invalid"} :
          /\ Reply(s, Says(Hand(s), kind), Exec)
          /\ runs' = IF kind = "text" /\ Hand(s).of = calls THEN runs + 1 ELSE runs
    BY <1>3, <2>1 DEF RunsCommand
  <2>3. Effect(Hand(s), kind) /\ kind \in Contents(Hand(s).what)
    BY <2>1, <2>2 DEF Effect, Copying, Contents
  <2> QED
    BY <1>1, <2>1, <2>2, <2>3
<1>4. ASSUME Verifies(s) PROVE Goal
  <2>1. /\ Hand(s) = Typed(s) /\ Hand(s).what = "verify"
        /\ UNCHANGED <<files, running, startup, runs>>
    BY <1>4 DEF Verifies, Hand, router
  <2>2. PICK kind \in {"checksum", "other_checksum", "error", "invalid"} :
          /\ Reply(s, Says(Hand(s), kind), Exec)
          /\ kind = "checksum" => files[Hand(s).of] = "whole"
    BY <1>4, <2>1 DEF Verifies
  <2>3. Effect(Hand(s), kind) /\ kind \in Contents(Hand(s).what)
    BY <2>1, <2>2 DEF Effect, Copying, Contents
  <2> QED
    BY <1>1, <2>1, <2>2, <2>3
<1>5. ASSUME Copies(s, Hand(s)), Hand(s).what \in Copying, UNCHANGED runs PROVE Goal
  <2> DEFINE l == Hand(s)
  <2> HIDE DEF l
  <2>1. /\ Copies(s, l) /\ l.what \in Copying /\ UNCHANGED runs
    BY <1>5 DEF l
  <2>2. PICK kind \in {"text", "invalid", "error"} :
          /\ Reply(s, Says(l, kind), Exec)
          /\ UNCHANGED files
          /\ kind = "text" => Put(l, files[l.of])
          /\ kind # "text" => complained' = (complained \/ OfCall(l))
    BY <2>1 DEF Copies, Put, router
  <2>3. kind # "text" => (OfCall(l) => complained')
    BY <2>2, Complaining
  <2>4. Effect(l, kind) /\ kind \in Contents(l.what)
    BY <2>1, <2>2, <2>3 DEF Effect, Copying, Contents
  <2>5. l.what # "name" /\ l.what \in Copying
    BY <2>1 DEF Copying
  <2> QED
    BY <1>1, <2>2, <2>4, <2>5 DEF l
<1>6. ASSUME StartsCopy(s) PROVE Goal
  <2>1. Hand(s) = Typed(s) /\ Hand(s).what = "copy" /\ UNCHANGED runs
    BY <1>6 DEF StartsCopy, Hand
  <2>2. CASE Copies(s, Typed(s))
    BY <1>5, <2>1, <2>2 DEF Copying
  <2>3. ASSUME NEW kind \in {"invalid", "denied"}, Reply(s, Says(Typed(s), kind), Exec),
               complained' = (complained \/ OfCall(Typed(s))), UNCHANGED router
        PROVE  Goal
    <3>1. OfCall(Hand(s)) => complained'
      BY <2>1, <2>3, Complaining
    <3>2. Effect(Hand(s), kind) /\ kind \in Contents(Hand(s).what)
      BY <2>1, <2>3, <3>1 DEF Effect, Copying, Contents, router
    <3>3. Reply(s, Says(Hand(s), kind), Exec)
      BY <2>1, <2>3
    <3> QED
      BY <1>1, <2>1, <3>2, <3>3 DEF Copying
  <2>4. ASSUME Reply(s, Asks(Typed(s), "question"), [Typed(s) EXCEPT !.what = "destination"]),
               UNCHANGED <<router, complained>>
        PROVE  Goal
    <3>1. Queries(s, Asks(Typed(s), "question"), [Typed(s) EXCEPT !.what = "destination"])
      BY <2>1, <2>4 DEF Queries, router
    <3> QED
      BY <2>4, <3>1
  <2>5. \/ Copies(s, Typed(s))
        \/ \E kind \in {"invalid", "denied"} :
             /\ Reply(s, Says(Typed(s), kind), Exec)
             /\ complained' = (complained \/ OfCall(Typed(s))) /\ UNCHANGED router
        \/ /\ Reply(s, Asks(Typed(s), "question"), [Typed(s) EXCEPT !.what = "destination"])
           /\ UNCHANGED <<router, complained>>
    BY <1>6, Zenon DEF StartsCopy
  <2> QED
    BY <2>2, <2>3, <2>4, <2>5
<1>7. ASSUME TakesDestination(s) PROVE Goal
  <2>1. Hand(s) = sess[s].mode /\ Hand(s).what = "destination" /\ UNCHANGED runs
    BY <1>7 DEF TakesDestination, Hand
  <2>2. CASE Copies(s, sess[s].mode)
    BY <1>5, <2>1, <2>2 DEF Copying
  <2>3. ASSUME Reply(s, Asks(sess[s].mode, "warning"), [sess[s].mode EXCEPT !.what = "overwrite"]),
               UNCHANGED <<router, complained>>
        PROVE  Goal
    <3>1. Queries(s, Asks(sess[s].mode, "warning"), [sess[s].mode EXCEPT !.what = "overwrite"])
      BY <2>1, <2>3 DEF Queries, router
    <3> QED
      BY <2>3, <3>1
  <2> QED
    BY <1>7, <2>2, <2>3 DEF TakesDestination
<1>8. ASSUME TakesOverwrite(s) PROVE Goal
  <2>1. Hand(s) = sess[s].mode /\ Hand(s).what = "overwrite" /\ UNCHANGED runs
    BY <1>8 DEF TakesOverwrite, Hand
  <2>2. CASE Copies(s, sess[s].mode)
    BY <1>5, <2>1, <2>2 DEF Copying
  <2>3. ASSUME Reply(s, Prompts(sess[s].mode), Exec), UNCHANGED <<router, complained>>
        PROVE  Goal
    <3>1. Finishes(s, Prompts(sess[s].mode), Exec)
      BY <2>1, <2>3 DEF Finishes, router
    <3> QED
      BY <2>3, <3>1
  <2> QED
    BY <1>8, <2>2, <2>3 DEF TakesOverwrite
<1>9. ASSUME Saves(s) PROVE Goal
  <2>1. Hand(s) = Typed(s) /\ Hand(s).what = "save" /\ UNCHANGED <<files, running, runs>>
    BY <1>9 DEF Saves, Hand
  <2>2. PICK kind \in {"text", "error", "denied"} :
          /\ Reply(s, Says(Hand(s), kind), Exec)
          /\ kind = "text" => startup' = running
          /\ kind # "text" => complained' = (complained \/ OfCall(Hand(s)))
    BY <1>9, <2>1 DEF Saves
  <2>3. kind # "text" => (OfCall(Hand(s)) => complained')
    BY <2>2, Complaining
  <2>4. Effect(Hand(s), kind) /\ kind \in Contents(Hand(s).what)
    BY <2>1, <2>2, <2>3 DEF Effect, Copying, Contents
  <2> QED
    BY <1>1, <2>1, <2>2, <2>4
<1>10. ASSUME StartsDelete(s) PROVE Goal
  <2>1. /\ Hand(s) = Typed(s) /\ Hand(s).what = "delete"
        /\ UNCHANGED <<files, running, startup, runs>>
    BY <1>10 DEF StartsDelete, Hand, router
  <2>2. CASE Reply(s, Asks(Typed(s), "delete_question"), [Typed(s) EXCEPT !.what = "name"])
    <3>1. Queries(s, Asks(Typed(s), "delete_question"), [Typed(s) EXCEPT !.what = "name"])
      BY <2>1 DEF Queries
    <3> QED
      BY <2>2, <3>1
  <2>3. ASSUME NEW kind \in {"error", "denied"}, Reply(s, Says(Typed(s), kind), Exec)
        PROVE  Goal
    <3>1. Effect(Hand(s), kind) /\ kind \in Contents(Hand(s).what)
      BY <2>1, <2>3 DEF Effect, Copying, Contents
    <3>2. Reply(s, Says(Hand(s), kind), Exec)
      BY <2>1, <2>3
    <3> QED
      BY <1>1, <2>1, <3>1, <3>2
  <2> QED
    BY <1>10, <2>2, <2>3 DEF StartsDelete
<1>11. ASSUME TakesName(s) PROVE Goal
  <2>1. /\ Hand(s) = sess[s].mode /\ Hand(s).what = "name"
        /\ UNCHANGED <<files, running, startup, runs>>
    BY <1>11 DEF TakesName, Hand, router
  <2>2. CASE Reply(s, Asks(sess[s].mode, "confirm_question"), [sess[s].mode EXCEPT !.what = "confirm"])
    <3>1. Queries(s, Asks(sess[s].mode, "confirm_question"), [sess[s].mode EXCEPT !.what = "confirm"])
      BY <2>1 DEF Queries
    <3> QED
      BY <2>2, <3>1
  <2>3. CASE Typed(s) # CR /\ Reply(s, Says(sess[s].mode, "error"), Exec)
    <3>1. Effect(Hand(s), "error") /\ "error" \in Contents(Hand(s).what)
      BY <2>1 DEF Effect, Copying, Contents
    <3>2. Reply(s, Says(Hand(s), "error"), Exec)
      BY <2>1, <2>3
    <3> QED
      BY <1>1, <2>1, <2>3, <3>1, <3>2
  <2> QED
    BY <1>11, <2>2, <2>3 DEF TakesName
<1>12. ASSUME Deletes(s) PROVE Goal
  <2>1. Hand(s) = sess[s].mode /\ Hand(s).what = "confirm" /\ UNCHANGED <<running, startup, runs>>
    BY <1>12 DEF Deletes, Hand
  <2>2. CASE /\ Reply(s, Prompts(sess[s].mode), Exec)
             /\ Typed(s) = CR => files' = [files EXCEPT ![sess[s].mode.of] = "none"]
    <3>1. Finishes(s, Prompts(sess[s].mode), Exec)
      BY <2>1, <2>2 DEF Finishes
    <3> QED
      BY <2>2, <3>1
  <2>3. CASE Reply(s, Says(sess[s].mode, "error"), Exec) /\ UNCHANGED files
    <3>1. Effect(Hand(s), "error") /\ "error" \in Contents(Hand(s).what)
      BY <2>1, <2>3 DEF Effect, Copying, Contents
    <3>2. Reply(s, Says(Hand(s), "error"), Exec)
      BY <2>1, <2>3
    <3> QED
      BY <1>1, <2>1, <3>1, <3>2
  <2> QED
    BY <1>12, <2>2, <2>3 DEF Deletes
<1> HIDE DEF InMode, Goal
<1>13. Goal
  BY <1>2, <1>3, <1>4, <1>6, <1>7, <1>8, <1>9, <1>10, <1>11, <1>12, Zenon DEF Works
<1> QED
  BY <1>13 DEF Goal

\* What the router does to the sessions: it works on one of them.
RouterLocal(s) ==
  /\ sess' \in Seq(Sessions(0..calls, Uploaded, Settled))
  /\ Len(sess') = Len(sess) /\ DOMAIN sess' = DOMAIN sess
  /\ \A r \in DOMAIN sess : r # s => sess'[r] = sess[r]
  /\ sess'[s].open => sess[s].open
  /\ sess'[s].open \/ sess'[s].lines = <<>>

\* The answer to the line in hand is typed.
LEMMA HandAnswers ==
  ASSUME Types, NEW s \in DOMAIN sess, sess[s].lines # <<>>, NEW marks, NEW mode,
         Reports(s, marks, mode) \/ Queries(s, marks, mode) \/ Finishes(s, marks, mode),
         \A kind : marks = Says(Hand(s), kind) /\ kind = "checksum" => Hand(s).of \in Settled
  PROVE  /\ marks \in Seq(Marks(0..calls, Settled))
         /\ mode \in Lines(0..calls, Uploaded, Settled)
<1>1. /\ sess \in Seq(Sessions(0..calls, Uploaded, Settled))
      /\ 0 \in 0..calls
  BY DEF Types, Scalars
<1>2. Hand(s) \in Lines(0..calls, Uploaded, Settled)
  BY <1>1, HandTyped DEF Hand
<1>3. Hand(s).of \in 0..calls /\ CR.of = 0
  BY <1>2 DEF Lines, CR, Plain, Line
<1>4. Exec \in Lines(0..calls, Uploaded, Settled)
  BY <1>1, PlainLines DEF Exec
<1>5. CASE Reports(s, marks, mode)
  <2>1. PICK kind \in Contents(Hand(s).what) : marks = Says(Hand(s), kind)
    BY <1>5 DEF Reports
  <2>2. kind \in Kinds /\ mode = Exec
    BY <1>5, ContentsAre DEF Reports, Kinds
  <2>3. kind = "checksum" => Hand(s).of \in Settled
    BY <2>1
  <2> QED
    BY <1>3, <1>4, <2>1, <2>2, <2>3, AnswerTyped
<1>6. CASE Queries(s, marks, mode)
  <2>1. PICK kind \in {"question", "warning", "delete_question", "confirm_question"},
             what \in {"destination", "overwrite", "name", "confirm"} :
          /\ marks = Asks(Hand(s), kind)
          /\ mode = [Hand(s) EXCEPT !.what = what]
          /\ what \in {"destination", "overwrite"} => Hand(s).what \in {"copy", "destination"}
    BY <1>6 DEF Queries
  <2>2. marks \in Seq(Marks(0..calls, Settled))
    BY <1>3, <2>1, AnswerTyped DEF Kinds
  <2>3. mode \in Lines(0..calls, Uploaded, Settled)
    BY <1>2, <2>1 DEF Lines, Whats
  <2> QED
    BY <2>2, <2>3
<1>7. CASE Finishes(s, marks, mode)
  <2>1. /\ Prompts(Hand(s)) \in Seq(Marks(0..calls, Settled))
        /\ Prompts(CR) \in Seq(Marks(0..calls, Settled))
        /\ Says(CR, "denied") \in Seq(Marks(0..calls, Settled))
        /\ <<Mark("prompt", CR.of)>> \in Seq(Marks(0..calls, Settled))
    BY <1>1, <1>3, AnswerTyped DEF Kinds
  <2> QED
    BY <1>3, <1>4, <1>7, <2>1 DEF Finishes
<1> QED
  BY <1>5, <1>6, <1>7

\* An answer leaves the other sessions alone.
LEMMA Answering ==
  ASSUME Types, NEW s \in DOMAIN sess, Works(s), ~Exits(s)
  PROVE  \E marks \in Seq(Marks(0..calls, Settled)), mode \in Lines(0..calls, Uploaded, Settled) :
           /\ Reports(s, marks, mode) \/ Queries(s, marks, mode) \/ Finishes(s, marks, mode)
           /\ sess' \in Seq(Sessions(0..calls, Uploaded, Settled))
           /\ Len(sess') = Len(sess) /\ DOMAIN sess' = DOMAIN sess
           /\ sess'[s] = [open |-> sess[s].open, lines |-> Tail(sess[s].lines),
                          out |-> IF s = child THEN sess[s].out \o marks ELSE <<>>, mode |-> mode]
           /\ \A r \in DOMAIN sess : r # s => sess'[r] = sess[r]
<1>8. sess[s].open /\ sess[s].lines # <<>>
  BY DEF Works, Echo, Exits, RunsCommand, Verifies, StartsCopy, TakesDestination, TakesOverwrite,
         Saves, StartsDelete, TakesName, Deletes, InMode
<1>9. sess \in Seq(Sessions(0..calls, Uploaded, Settled)) /\ calls \in Nat
  BY DEF Types, Scalars
<1>1. PICK marks, mode :
        /\ Reply(s, marks, mode)
        /\ Reports(s, marks, mode) \/ Queries(s, marks, mode) \/ Finishes(s, marks, mode)
  BY RouterAnswers
<1>2. \A kind : marks = Says(Hand(s), kind) /\ kind = "checksum" => Hand(s).of \in Settled
  <2> SUFFICES ASSUME marks = Says(Hand(s), "checksum") PROVE Hand(s).of \in Settled
    OBVIOUS
  <2>1. marks[2].kind = "checksum"
    BY DEF Says, Mark
  <2>5. ~Queries(s, marks, mode) /\ ~Finishes(s, marks, mode)
    BY <2>1 DEF Queries, Finishes, Says, Asks, Prompts, Mark
  <2>6. PICK kind \in Contents(Hand(s).what) :
          /\ kind = "checksum" => files[Hand(s).of] = "whole"
          /\ marks = Says(Hand(s), kind)
    BY <1>1, <2>5 DEF Reports, Effect
  <2>7. kind = "checksum"
    BY <2>1, <2>6 DEF Says, Mark
  <2>2. Hand(s).what = "verify" /\ files[Hand(s).of] = "whole"
    BY <2>6, <2>7, ContentsAre
  <2>3. Hand(s) \in Lines(0..calls, Uploaded, Settled)
    BY <1>8, <1>9, HandTyped DEF Hand
  <2>4. Hand(s).of \in Uploaded
    BY <2>2, <2>3 DEF Lines
  <2> QED
    BY <2>2, <2>4 DEF Settled
<1>3. marks \in Seq(Marks(0..calls, Settled)) /\ mode \in Lines(0..calls, Uploaded, Settled)
  BY <1>8, <1>1, <1>2, HandAnswers
<1>4. /\ sess' \in Seq(Sessions(0..calls, Uploaded, Settled))
      /\ Len(sess') = Len(sess) /\ DOMAIN sess' = DOMAIN sess
      /\ sess'[s] = [open |-> sess[s].open, lines |-> Tail(sess[s].lines),
                     out |-> IF s = child THEN sess[s].out \o marks ELSE <<>>, mode |-> mode]
      /\ \A r \in DOMAIN sess : r # s => sess'[r] = sess[r]
  <2> DEFINE N == 0..calls
  <2>1. /\ sess \in Seq(Sessions(N, Uploaded, Settled)) /\ sess[s].lines # <<>>
        /\ marks \in Seq(Marks(N, Settled)) /\ mode \in Lines(N, Uploaded, Settled)
        /\ Reply(s, marks, mode) /\ s \in DOMAIN sess
    BY <1>8, <1>9, <1>1, <1>3
  <2> HIDE DEF N
  <2>2. /\ sess' \in Seq(Sessions(N, Uploaded, Settled))
        /\ Len(sess') = Len(sess) /\ DOMAIN sess' = DOMAIN sess
        /\ sess'[s] = [open |-> sess[s].open, lines |-> Tail(sess[s].lines),
                       out |-> IF s = child THEN sess[s].out \o marks ELSE <<>>, mode |-> mode]
        /\ \A r \in DOMAIN sess : r # s => sess'[r] = sess[r]
    BY <2>1, ReplyIsLocal, Zenon
  <2> QED
    BY <2>2 DEF N
<1> QED
  BY <1>1, <1>3, <1>4

LEMMA WorkIsHanded ==
  ASSUME NEW s \in DOMAIN sess, Works(s), ~Exits(s)
  PROVE  Handed(s)
BY DEF Works, Echo, RunsCommand, Verifies, StartsCopy, TakesDestination, TakesOverwrite,
   Saves, StartsDelete, TakesName, Deletes, InMode, Handed, Hand

LEMMA WorkIsLocal ==
  ASSUME Types, NEW s \in DOMAIN sess, Works(s)
  PROVE  RouterLocal(s) /\ sess[s].lines # <<>>
<1>0. sess[s].open /\ sess[s].lines # <<>>
  BY DEF Works, Echo, Exits, RunsCommand, Verifies, StartsCopy, TakesDestination, TakesOverwrite,
         Saves, StartsDelete, TakesName, Deletes, InMode
<1>1. sess \in Seq(Sessions(0..calls, Uploaded, Settled)) /\ calls \in Nat
  BY DEF Types, Scalars
<1>2. CASE Exits(s)
  <2> DEFINE R == Sessions(0..calls, Uploaded, Settled)
             c == [[sess[s] EXCEPT !.open = FALSE] EXCEPT !.lines = <<>>]
  <2>1. sess[s] \in R
    BY <1>1, ElementOfSeq
  <2>2. <<>> \in Seq(Lines(0..calls, Uploaded, Settled))
    BY EmptySeq
  <2>3. c \in R /\ ~c.open /\ c.lines = <<>>
    BY <2>1, <2>2 DEF Sessions
  <2>4. sess' = [sess EXCEPT ![s] = c]
    BY <1>2 DEF Exits
  <2> HIDE DEF R, c
  <2>5. /\ sess' \in Seq(R) /\ Len(sess') = Len(sess) /\ DOMAIN sess' = DOMAIN sess
        /\ sess'[s] = c /\ \A r \in DOMAIN sess : r # s => sess'[r] = sess[r]
    BY <1>1, <2>3, <2>4 DEF R
  <2> QED
    BY <1>0, <2>3, <2>5 DEF RouterLocal, R
<1>3. CASE ~Exits(s)
  <2>1. PICK marks, mode :
          /\ sess' \in Seq(Sessions(0..calls, Uploaded, Settled))
          /\ Len(sess') = Len(sess) /\ DOMAIN sess' = DOMAIN sess
          /\ sess'[s] = [open |-> sess[s].open, lines |-> Tail(sess[s].lines),
                         out |-> IF s = child THEN sess[s].out \o marks ELSE <<>>, mode |-> mode]
          /\ \A r \in DOMAIN sess : r # s => sess'[r] = sess[r]
    BY <1>3, Answering
  <2>2. sess'[s].open = sess[s].open
    BY <2>1
  <2> QED
    BY <1>0, <2>1, <2>2 DEF RouterLocal
<1> QED
  BY <1>0, <1>2, <1>3

\* A session without what it had to do, and without the end of its output.
Loses(s, closed, none, part) ==
  sess' = [sess EXCEPT ![s] = [open |-> closed, lines |-> none, out |-> part,
                               mode |-> sess[s].mode]]

LEMMA LostTalk ==
  ASSUME NEW N, NEW U, NEW S, sess \in Seq(Sessions(N, U, S)), NEW s \in DOMAIN sess,
         NEW closed, NEW none, NEW part,
         sess' = [sess EXCEPT ![s].open = closed, ![s].lines = none, ![s].out = part]
  PROVE  Loses(s, closed, none, part)
<1> DEFINE d == sess[s]
           d1 == [d EXCEPT !.open = closed]
           d2 == [d1 EXCEPT !.lines = none]
           d3 == [d2 EXCEPT !.out = part]
<1>1. d \in Sessions(N, U, S)
  BY ElementOfSeq
<1>2. d = [open |-> d.open, lines |-> d.lines, out |-> d.out, mode |-> d.mode]
  BY <1>1 DEF Sessions
<1>3. sess' = [sess EXCEPT ![s] = d3]
  OBVIOUS
<1>4. d1 = [open |-> closed, lines |-> d.lines, out |-> d.out, mode |-> d.mode]
  <2> HIDE DEF d
  <2> QED
    BY <1>2
<1> HIDE DEF d1
<1>5. d2 = [open |-> closed, lines |-> none, out |-> d.out, mode |-> d.mode]
  BY <1>4
<1> HIDE DEF d2
<1>6. d3 = [open |-> closed, lines |-> none, out |-> part, mode |-> d.mode]
  BY <1>5
<1> QED
  BY <1>3, <1>6 DEF Loses

LEMMA LossIsLocal ==
  ASSUME Types, NEW s \in DOMAIN sess, LoseSession(s)
  PROVE  /\ RouterLocal(s) /\ s = child
         /\ ~sess'[s].open /\ sess'[s].lines = <<>> /\ sess'[s].mode = sess[s].mode
         /\ Len(sess'[s].out) <= Len(sess[s].out)
         /\ \A i \in DOMAIN sess'[s].out : i \in DOMAIN sess[s].out /\ sess'[s].out[i] = sess[s].out[i]
<1> DEFINE R == Sessions(0..calls, Uploaded, Settled)
           M == Marks(0..calls, Settled)
<1>1. sess \in Seq(R)
  BY DEF Types
<1>2. sess[s] \in R
  BY <1>1, ElementOfSeq
<1>3. sess[s].out \in Seq(M) /\ <<>> \in Seq(Lines(0..calls, Uploaded, Settled))
  BY <1>2, EmptySeq DEF Sessions
<1>4. PICK k \in 0..Len(sess[s].out) :
        sess' = [sess EXCEPT ![s].open = FALSE, ![s].lines = <<>>, ![s].out = SubSeq(@, 1, k)]
  BY DEF LoseSession
<1> DEFINE o == SubSeq(sess[s].out, 1, k)
           c == [open |-> FALSE, lines |-> <<>>, out |-> o, mode |-> sess[s].mode]
<1>5. sess' = [sess EXCEPT ![s] = c]
  <2> DEFINE closed == FALSE
             none == <<>>
             N == 0..calls
  <2>1. /\ sess' = [sess EXCEPT ![s].open = closed, ![s].lines = none, ![s].out = o]
        /\ sess \in Seq(Sessions(N, Uploaded, Settled)) /\ s \in DOMAIN sess
    BY <1>1, <1>4
  <2> HIDE DEF closed, none, o, N
  <2>2. Loses(s, closed, none, o)
    BY <2>1, LostTalk, Zenon
  <2> QED
    BY <2>2 DEF Loses, closed, none
<1>6. /\ o \in Seq(M) /\ Len(o) <= Len(sess[s].out)
      /\ \A i \in DOMAIN o : i \in DOMAIN sess[s].out /\ o[i] = sess[s].out[i]
  <2> HIDE DEF M
  <2> QED
    BY <1>3, <1>4
<1> HIDE DEF o
<1>11. c \in R /\ ~c.open /\ c.lines = <<>> /\ c.mode = sess[s].mode /\ c.out = o
  BY <1>2, <1>3, <1>6 DEF Sessions
<1> HIDE DEF c, R
<1>12. /\ sess' \in Seq(R) /\ Len(sess') = Len(sess) /\ DOMAIN sess' = DOMAIN sess
       /\ sess'[s] = c /\ \A r \in DOMAIN sess : r # s => sess'[r] = sess[r]
  BY <1>1, <1>5, <1>11
<1>13. sess[s].open /\ s = child
  BY DEF LoseSession
<1> QED
  BY <1>6, <1>11, <1>12, <1>13 DEF RouterLocal, R

\* The router complains of the call in progress, if that is a SetConfig.
LEMMA Complaints ==
  ASSUME complained \in BOOLEAN, op # "SetConfig" => ~complained, NEW l,
         complained' = complained \/ (complained' = (complained \/ OfCall(l)))
  PROVE  complained' \in BOOLEAN /\ (op # "SetConfig" => ~complained')
<1>1. op # "SetConfig" => ~OfCall(l)
  BY DEF OfCall
<1>2. CASE complained' = complained
  BY <1>2
<1>3. CASE complained' = (complained \/ OfCall(l))
  <2>1. CASE complained \/ OfCall(l)
    <3>1. complained' = TRUE
      BY <1>3, <2>1, Zenon
    <3> QED
      BY <1>1, <2>1, <3>1
  <2>2. CASE ~(complained \/ OfCall(l))
    <3>1. complained' = FALSE
      BY <1>3, <2>2, Zenon
    <3> QED
      BY <3>1
  <2> QED
    BY <2>1, <2>2
<1> QED
  BY <1>2, <1>3

\* The router complains of what it copies or saves.
LEMMA ComplainsOfHand ==
  ASSUME NEW s \in DOMAIN sess, Works(s), ~complained, complained'
  PROVE  Hand(s).of = calls /\ Hand(s).what \in Copying \cup {"save"}
<1>1. ASSUME NEW l, complained' = (complained \/ OfCall(l)) PROVE l.of = calls
  <2>1. OfCall(l)
    BY <1>1, Zenon
  <2> QED
    BY <2>1 DEF OfCall
<1>2. ASSUME NEW l, Copies(s, l) PROVE l.of = calls
  BY <1>1, <1>2 DEF Copies
<1>3. CASE StartsCopy(s)
  BY <1>1, <1>2, <1>3 DEF StartsCopy, InMode, Hand, Copying
<1>4. CASE TakesDestination(s)
  BY <1>1, <1>2, <1>4 DEF TakesDestination, InMode, Hand, Copying
<1>5. CASE TakesOverwrite(s)
  BY <1>1, <1>2, <1>5 DEF TakesOverwrite, InMode, Hand, Copying
<1>6. CASE Saves(s)
  BY <1>1, <1>6 DEF Saves, InMode, Hand
<1>7. ~(Echo(s) \/ Exits(s) \/ RunsCommand(s) \/ Verifies(s) \/ StartsDelete(s) \/ TakesName(s)
        \/ Deletes(s))
  BY DEF Echo, Exits, RunsCommand, Verifies, StartsDelete, TakesName, Deletes
<1> QED
  BY <1>3, <1>4, <1>5, <1>6, <1>7 DEF Works

\* What the router does besides.
LEMMA WorkEffects ==
  ASSUME Types, Control, NEW s \in DOMAIN sess, Works(s)
  PROVE  /\ UNCHANGED client
         /\ files' \in [1..MaxCalls -> {"none", "part", "whole"}]
         /\ \A n \in 1..calls : files'[n] = files[n] \/ files'[n] = "none"
         /\ {running, startup}' \subseteq Configurations
         /\ runs' \in Nat /\ complained' \in BOOLEAN
         /\ op # "SetConfig" => ~complained'
<1>1. /\ files \in [1..MaxCalls -> {"none", "part", "whole"}] /\ calls \in 0..MaxCalls
      /\ {running, startup} \subseteq Configurations
      /\ runs \in Nat /\ complained \in BOOLEAN
      /\ op # "SetConfig" => ~complained
      /\ MaxCalls \in Nat
  BY IosAssumption DEF Types, Scalars, Control, Phase
<1>2. \A n \in 1..calls : n \in 1..MaxCalls
  BY <1>1
<1> DEFINE Goal ==
         /\ UNCHANGED client
         /\ files' \in [1..MaxCalls -> {"none", "part", "whole"}]
         /\ \A n \in 1..calls : files'[n] = files[n] \/ files'[n] = "none"
         /\ {running, startup}' \subseteq Configurations
         /\ runs' \in Nat /\ complained' \in BOOLEAN
         /\ op # "SetConfig" => ~complained'
<1>3. CASE UNCHANGED <<client, router, runs, complained>>
  BY <1>1, <1>3 DEF router
<1>4. CASE RunsCommand(s)
  BY <1>1, <1>4 DEF RunsCommand, router
<1>5. ASSUME NEW l, Copies(s, l), l = Hand(s), Hand(s).what \in {"copy", "destination", "overwrite"},
             UNCHANGED <<client, runs>>
      PROVE  Goal
  <2>1. l.of \in Settled
    <3>1. sess[s].lines # <<>>
      BY WorkIsLocal
    <3>2. sess \in Seq(Sessions(0..calls, Uploaded, Settled))
      BY DEF Types
    <3>3. Hand(s) \in Lines(0..calls, Uploaded, Settled)
      BY <3>1, <3>2, HandTyped DEF Hand
    <3> QED
      BY <1>5, <3>3 DEF Lines
  <2>2. l.of \in 0..MaxCalls /\ files[l.of] \in {"none", "part", "whole"}
    BY <1>1, <1>2, <2>1 DEF Settled, Uploaded
  <2>8. files[l.of] = "part" => l.of \in Doubtful
    BY <2>1 DEF Settled
  <2>3. files' = files /\ runs' = runs
    BY <1>5 DEF Copies, Put, router
  <2>4. \/ UNCHANGED <<running, startup>>
        \/ \E how \in {"whole", "bad_lines", "part"} :
             /\ running' \in {running, <<l.of, how>>} /\ startup' \in {startup, <<l.of, how>>}
             /\ how = "part" => l.of \in Doubtful
    BY <1>5, <2>2, <2>8 DEF Copies, Put, router
  <2>5. {running, startup}' \subseteq Configurations
    BY <1>1, <2>2, <2>4 DEF Configurations
  <2>6. complained' = complained \/ (complained' = (complained \/ OfCall(l)))
    BY <1>5 DEF Copies
  <2>7. complained' \in BOOLEAN /\ (op # "SetConfig" => ~complained')
    BY <1>1, <2>6, Complaints
  <2> QED
    BY <1>1, <1>5, <2>3, <2>5, <2>7
<1>6. CASE StartsCopy(s)
  <2>1. CASE Copies(s, Typed(s))
    BY <1>5, <1>6, <2>1 DEF StartsCopy, InMode, Hand
  <2>2. CASE UNCHANGED <<client, router, runs, complained>>
    BY <1>3, <2>2
  <2>3. CASE complained' = (complained \/ OfCall(Typed(s))) /\ UNCHANGED <<client, runs, router>>
    <3>1. complained' \in BOOLEAN /\ (op # "SetConfig" => ~complained')
      BY <1>1, <2>3, Complaints
    <3> QED
      BY <1>1, <2>3, <3>1 DEF router
  <2> QED
    BY <1>6, <2>1, <2>2, <2>3 DEF StartsCopy
<1>7. CASE TakesDestination(s)
  <2>1. CASE Copies(s, sess[s].mode)
    BY <1>5, <1>7, <2>1 DEF TakesDestination, InMode, Hand
  <2> QED
    BY <1>3, <1>7, <2>1 DEF TakesDestination
<1>8. CASE TakesOverwrite(s)
  <2>1. CASE Copies(s, sess[s].mode)
    BY <1>5, <1>8, <2>1 DEF TakesOverwrite, InMode, Hand
  <2> QED
    BY <1>3, <1>8, <2>1 DEF TakesOverwrite
<1>9. CASE Saves(s)
  <2>1. /\ startup' \in {startup, running} /\ UNCHANGED <<client, files, running, runs>>
        /\ complained' = complained \/ (complained' = (complained \/ OfCall(Typed(s))))
    BY <1>9 DEF Saves
  <2>2. complained' \in BOOLEAN /\ (op # "SetConfig" => ~complained')
    BY <1>1, <2>1, Complaints
  <2>3. {running, startup}' \subseteq Configurations
    BY <1>1, <2>1
  <2> QED
    BY <1>1, <2>1, <2>2, <2>3
<1>10. CASE Deletes(s)
  <2>1. /\ files' = files \/ files' = [files EXCEPT ![sess[s].mode.of] = "none"]
        /\ UNCHANGED <<client, running, startup, runs, complained>>
    BY <1>10 DEF Deletes
  <2> QED
    BY <1>1, <1>2, <2>1
<1>11. CASE Echo(s) \/ Exits(s) \/ Verifies(s) \/ StartsDelete(s) \/ TakesName(s)
  BY <1>3, <1>11 DEF Echo, Exits, Verifies, StartsDelete, TakesName
<1> QED
  BY <1>4, <1>6, <1>7, <1>8, <1>9, <1>10, <1>11 DEF Works

LEMMA RouterTypes ==
  ASSUME Types, Control, ClosedIsIdle, Router
  PROVE  Types' /\ Control' /\ ClosedIsIdle'
<1>1. PICK s \in DOMAIN sess : Works(s) \/ LoseSession(s)
  BY DEF Router
<1>2. /\ RouterLocal(s)
      /\ UNCHANGED <<object, pc, op, line, retrying, raised, warned, result, calls, ready, fresh, answer>>
      /\ files' \in [1..MaxCalls -> {"none", "part", "whole"}]
      /\ \A n \in 1..calls : files'[n] = files[n] \/ files'[n] = "none"
      /\ {running, startup}' \subseteq Configurations
      /\ runs' \in Nat /\ complained' \in BOOLEAN
      /\ op # "SetConfig" => ~complained'
  <2>1. CASE Works(s)
    BY <2>1, WorkIsLocal, WorkEffects DEF client
  <2>2. CASE LoseSession(s)
    <3>1. UNCHANGED <<object, pc, op, line, retrying, raised, warned, result, calls, ready, fresh,
                      answer, complained, runs, files, running, startup>>
      BY <2>2 DEF LoseSession, router, history
    <3> QED
      BY <2>2, <3>1, LossIsLocal DEF Types, Scalars, Control, Phase
  <2> QED
    BY <1>1, <2>1, <2>2
<1>3. calls \in Nat /\ calls' = calls
  BY <1>2 DEF Types, Scalars
<1>11. Configurations' = Configurations
  BY <1>2 DEF Configurations, Doubtful, Repeats
<1>4. Uploaded \subseteq Uploaded' /\ Settled \subseteq Settled'
  BY <1>2, <1>3, PlainGrowth
<1>5. /\ sess' \in Seq(Sessions(0..calls, Uploaded, Settled))
      /\ Len(sess') = Len(sess) /\ DOMAIN sess' = DOMAIN sess
      /\ \A r \in DOMAIN sess : r # s => sess'[r] = sess[r]
      /\ sess'[s].open => sess[s].open
      /\ sess'[s].open \/ sess'[s].lines = <<>>
  BY <1>2 DEF RouterLocal
<1>6. sess' \in Seq(Sessions(0..calls', Uploaded', Settled'))
  <2>1. sess' \in Seq(Sessions(0..calls, Uploaded', Settled))
    BY <1>4, <1>5, SessionsGrow
  <2> QED
    BY <1>3, <1>4, <2>1, GrowthTyped
<1>7. Types'
  BY <1>2, <1>3, <1>4, <1>5, <1>6, <1>11 DEF Types, Scalars, object
<1>8. ClosedIsIdle'
  BY <1>5 DEF ClosedIsIdle
<1>9. Phase'
  BY <1>2 DEF Control, Phase
<1>10. Reach'
  <2>1. child' = child /\ pc' = pc /\ op' = op
    BY <1>2 DEF object
  <2>2. HasChild' <=> HasChild
    BY <1>5, <2>1 DEF HasChild
  <2>3. HasChild => (Open' => Open)
    BY <1>5, <2>1 DEF HasChild, Open
  <2> QED
    BY <2>1, <2>2, <2>3 DEF Control, Reach
<1> QED
  BY <1>7, <1>8, <1>9, <1>10 DEF Control

-----------------------------------------------------------------------------
(* The calls, and what follows from the types *)

\* What a call does to the sessions: it may send a line of its own.
LEMMA CallIsLocal ==
  ASSUME Types, Call
  PROVE  /\ calls' \in 0..MaxCalls /\ calls <= calls'
         /\ UNCHANGED <<files, running, startup>> /\ Settled \subseteq Settled'
         /\ Doubtful \subseteq Doubtful'
         /\ sess' \in Seq(Sessions(0..calls', Uploaded', Settled'))
         /\ Len(sess') = Len(sess) /\ DOMAIN sess' = DOMAIN sess
         /\ \A s \in DOMAIN sess :
              /\ sess'[s].open = sess[s].open /\ sess'[s].mode = sess[s].mode
              /\ s # child => sess'[s] = sess[s]
              /\ ~sess[s].open => sess'[s].lines = sess[s].lines
<1> DEFINE N == 0..calls'
<1>1. /\ calls \in Nat /\ MaxCalls \in Nat /\ calls \in 0..MaxCalls
      /\ sess \in Seq(Sessions(0..calls, Uploaded, Settled))
  BY IosAssumption DEF Types, Scalars
<1>2. /\ calls' \in {calls, calls + 1} /\ calls' \in 0..MaxCalls
      /\ UNCHANGED <<files, running, startup>> /\ pc = "idle"
      /\ calls' = calls => pc' \notin Uploading
  BY <1>1 DEF Call, Connect, Cmd, SetConfig, Disconnect, Begin, NextCall, router, Return, Uploading
<1>3. Uploaded \subseteq Uploaded'
  BY <1>1, <1>2 DEF Uploaded
<1>9. Doubtful \subseteq Doubtful'
  <2>1. calls' = calls => op' # "SetConfig"
    BY <1>1 DEF Call, Connect, Cmd, SetConfig, Disconnect, Begin, NextCall
  <2> QED
    BY <1>1, <1>2, <2>1 DEF Doubtful, Repeats
<1>4. Settled \subseteq Settled'
  BY <1>2, <1>3, <1>9 DEF Settled
<1>5. sess \in Seq(Sessions(N, Uploaded', Settled')) /\ 0 \in N
  BY <1>1, <1>2, <1>3, <1>4, SessionsGrow
<1>6. UNCHANGED sess \/ (HasChild /\ \E l \in Lines(N, Uploaded', Settled') : Send(l))
  <2>1. CASE Cmd
    <3>1. Line("command", calls + 1, NONE) \in Lines(N, Uploaded', Settled')
      BY <1>1, <2>1 DEF Cmd, NextCall, Lines, Line, Whats
    <3> QED
      BY <2>1, <3>1 DEF Cmd
  <2>2. CASE Disconnect
    BY <1>5, <2>2, PlainLines DEF Disconnect
  <2>3. CASE Connect \/ SetConfig
    BY <2>3 DEF Connect, SetConfig
  <2> QED
    BY <2>1, <2>2, <2>3 DEF Call
<1> HIDE DEF N
<1>7. CASE UNCHANGED sess
  BY <1>1, <1>2, <1>4, <1>5, <1>7, <1>9 DEF N
<1>8. CASE HasChild /\ \E l \in Lines(N, Uploaded', Settled') : Send(l)
  <2>1. PICK l \in Lines(N, Uploaded', Settled') : Send(l)
    BY <1>8
  <2>2. /\ Out \in Seq(Marks(N, Settled'))
        /\ Written(l) \in Seq(Lines(N, Uploaded', Settled'))
        /\ ~Open => Written(l) = sess[child].lines
    BY <1>5, <1>8, TalkParts DEF Written
  <2>3. Talks(Out, Written(l))
    BY <1>5, <1>8, <2>1, ClientTalks
  <2>4. /\ sess' \in Seq(Sessions(N, Uploaded', Settled'))
        /\ Len(sess') = Len(sess) /\ DOMAIN sess' = DOMAIN sess
        /\ sess'[child] = [open |-> Open, lines |-> Written(l), out |-> Out,
                           mode |-> sess[child].mode]
        /\ \A s \in DOMAIN sess : s # child => sess'[s] = sess[s]
    BY <1>5, <1>8, <2>2, <2>3, TalkIsLocal
  <2> QED
    BY <1>1, <1>2, <1>4, <1>9, <2>2, <2>4 DEF N, Open
<1> QED
  BY <1>6, <1>7, <1>8

LEMMA CallTypes ==
  ASSUME Types, Control, ClosedIsIdle, Call
  PROVE  Types' /\ Control' /\ ClosedIsIdle'
<1>1. /\ calls' \in 0..MaxCalls /\ calls <= calls'
      /\ UNCHANGED <<files, running, startup>> /\ Settled \subseteq Settled'
      /\ Doubtful \subseteq Doubtful'
      /\ sess' \in Seq(Sessions(0..calls', Uploaded', Settled'))
      /\ Len(sess') = Len(sess) /\ DOMAIN sess' = DOMAIN sess
      /\ \A s \in DOMAIN sess :
           /\ sess'[s].open = sess[s].open
           /\ ~sess[s].open => sess'[s].lines = sess[s].lines
  BY CallIsLocal
<1>2. Begin("Connect") \/ Begin("Cmd") \/ Begin("SetConfig") \/ Begin("Disconnect")
  BY DEF Call, Connect, Cmd, SetConfig, Disconnect
<1>3. /\ hostStatus' = hostStatus /\ retrying' = FALSE /\ complained' = FALSE /\ raised' = NONE
      /\ runs' = 0 /\ op' \in Ops /\ fresh' \in BOOLEAN
  <2>1. NothingUnread \in BOOLEAN
    BY DEF NothingUnread
  <2>2. fresh' \in BOOLEAN
    BY <1>2, <2>1 DEF Begin
  <2> QED
    BY <1>2, <2>2 DEF Begin, Ops
<1>4. /\ pc' \in Pcs /\ result' \in Exceptions \cup {"none", "ok", "response"}
      /\ line' \in [what : Whats, of : 0..calls', dest : Destinations \cup {NONE}]
      /\ line' = line \/ line'.what # "copy"
      /\ child' \in {child, NoChild} /\ Phase'
  <2>0. Scalars /\ Phase
    BY DEF Types, Control
  <2> USE DEF Scalars, Phase, Return, Pcs, Uploading, Dialled, Erasing, NextCall, Exceptions
  <2>1. CASE Connect
    BY <2>0, <1>3, <2>1 DEF Connect, Begin
  <2>2. CASE Cmd
    BY <2>0, <1>3, <2>2 DEF Cmd, Begin, Line, Whats
  <2>3. CASE SetConfig
    BY <2>0, <1>3, <2>3 DEF SetConfig, Begin, Line, Whats
  <2>4. CASE Disconnect
    BY <2>0, <1>3, <2>4 DEF Disconnect, Begin
  <2> QED
    BY <2>1, <2>2, <2>3, <2>4 DEF Call
<1>5. Reach'
  <2>1. \/ pc' = "idle"
        \/ pc' = "dial" /\ op' = "Connect" /\ child' = NoChild
        \/ pc' = "upload"
        \/ pc' \in {"sent", "exit"} /\ HasChild /\ child' = child
    BY DEF Call, Connect, Cmd, SetConfig, Disconnect, Begin, Return
  <2>2. HasChild /\ child' = child => HasChild'
    BY <1>1 DEF HasChild
  <2> QED
    BY <2>1, <2>2 DEF Reach, Uploading
<1>6. child' \in (0..Len(sess')) \cup {NONE}
  BY <1>1, <1>4 DEF Types, Scalars, NoChild
<1>7. Scalars'
  <2>1. hostStatus \in BOOLEAN
    BY DEF Types, Scalars
  <2> QED
    BY <1>1, <1>3, <1>4, <1>6, <2>1 DEF Scalars
<1>8. line'.what = "copy" => line'.of \in Settled'
  BY <1>1, <1>4 DEF Types
<1>9. Types'
  BY <1>1, <1>7, <1>8 DEF Types, Configurations
<1>10. ClosedIsIdle'
  BY <1>1 DEF ClosedIsIdle
<1> QED
  BY <1>4, <1>5, <1>9, <1>10 DEF Control

LEMMA InitTypes ==
  ASSUME Init
  PROVE  Types /\ Control /\ ClosedIsIdle
<1>1. Scalars
  <2>1. line \in [what : Whats, of : 0..calls, dest : Destinations \cup {NONE}]
    BY DEF Init, CR, Plain, Line, Whats
  <2>2. calls \in 0..MaxCalls /\ runs \in Nat
    BY IosAssumption DEF Init
  <2>3. child \in (0..Len(sess)) \cup {NONE} /\ raised \in Exceptions \cup {NONE}
    BY DEF Init
  <2>4. /\ hostStatus \in BOOLEAN /\ retrying \in BOOLEAN /\ fresh \in BOOLEAN
        /\ complained \in BOOLEAN
    BY DEF Init
  <2>5. pc \in Pcs /\ op \in Ops /\ result \in Exceptions \cup {"none", "ok", "response"}
    BY DEF Init, Pcs, Ops
  <2> QED
    BY <2>1, <2>2, <2>3, <2>4, <2>5 DEF Scalars
<1>2. sess \in Seq(Sessions(0..calls, Uploaded, Settled))
  BY EmptySeq DEF Init
<1>3. Types
  BY <1>1, <1>2, IosAssumption DEF Init, Types, Configurations, CR, Plain, Line
<1>4. Control
  BY DEF Init, Control, Phase, Reach, CR, Plain, Line, Dialled, Uploading, Erasing
<1>5. ClosedIsIdle
  BY DEF Init, ClosedIsIdle
<1> QED
  BY <1>3, <1>4, <1>5

\* Nothing happens.
LEMMA StutterTypes ==
  ASSUME Types, Control, ClosedIsIdle, UNCHANGED vars
  PROVE  Types' /\ Control' /\ ClosedIsIdle'
<1> USE DEF vars, object, router, history
<1>1. Types'
  BY DEF Types, Scalars, Uploaded, Settled, Configurations, Doubtful, Repeats
<1>2. Control'
  BY DEF Control, Phase, Reach, HasChild, Open
<1>3. ClosedIsIdle'
  BY DEF ClosedIsIdle
<1> QED
  BY <1>1, <1>2, <1>3

LEMMA NextTypes ==
  ASSUME Types, Control, ClosedIsIdle, ReadsItsOwn, [Next]_vars
  PROVE  Types' /\ Control' /\ ClosedIsIdle'
BY CallTypes, StepTypes, RouterTypes, StutterTypes DEF Next

-----------------------------------------------------------------------------
(* What a step does to the session in hand *)

Becomes(lines, out, mode) ==
  /\ DOMAIN sess' = DOMAIN sess
  /\ sess'[child].open = Open
  /\ sess'[child].lines = lines
  /\ sess'[child].out = out
  /\ sess'[child].mode = mode

LEMMA Said ==
  ASSUME Types, HasChild, NEW kinds, NEW l
  PROVE  /\ Send(l) => Becomes(Written(l), Out, sess[child].mode)
         /\ Drop(kinds) => Becomes(sess[child].lines, After(kinds), sess[child].mode)
         /\ DropAndSend(kinds, l) => Becomes(Written(l), After(kinds), sess[child].mode)
         /\ UNCHANGED sess => Becomes(sess[child].lines, Out, sess[child].mode)
<1>1. /\ Send(l) => Talks(Out, Written(l))
      /\ Drop(kinds) => Talks(After(kinds), sess[child].lines)
      /\ DropAndSend(kinds, l) => Talks(After(kinds), Written(l))
      /\ UNCHANGED sess => Talks(Out, sess[child].lines)
  BY ClientTalks DEF Types
<1>2. ASSUME NEW out, NEW lines, Talks(out, lines)
      PROVE  Becomes(lines, out, sess[child].mode)
  BY <1>2 DEF Talks, Becomes, HasChild
<1> QED
  BY <1>1, <1>2

\* What is left when a wait has matched.
LEMMA WasRead ==
  ASSUME Types, HasChild, NEW kinds, Matched(kinds)
  PROVE  /\ Place(kinds) \in DOMAIN Out /\ Place(kinds) \in Nat \ {0} /\ Out # <<>>
         /\ Found(kinds) = Out[Place(kinds)].kind /\ Found(kinds) \in kinds
         /\ \A i \in DOMAIN Out : i < Place(kinds) => Out[i].kind \notin kinds
         /\ Len(After(kinds)) = Len(Out) - Place(kinds)
         /\ \A i \in DOMAIN After(kinds) :
              i + Place(kinds) \in DOMAIN Out /\ After(kinds)[i] = Out[i + Place(kinds)]
         /\ Place(kinds) = Len(Out) => After(kinds) = <<>>
<1> DEFINE M == Marks(0..calls, Settled)
           p == Place(kinds)
<1>1. Out \in Seq(M)
  BY TalkParts DEF Types
<1> HIDE DEF M
<1>2. /\ p \in DOMAIN Out /\ Found(kinds) \in kinds
      /\ \A i \in DOMAIN Out : i < p => Out[i].kind \notin kinds
  BY <1>1, PlaceIsFirst
<1>3. Found(kinds) = Out[p].kind
  BY DEF Found
<1>4. After(kinds) = SubSeq(Out, p + 1, Len(Out))
  BY DEF After
<1> HIDE DEF p
<1>5. p \in Nat \ {0} /\ p <= Len(Out) /\ Len(Out) \in Nat /\ Out # <<>>
  BY <1>1, <1>2
<1>6. Len(After(kinds)) = Len(Out) - p
  BY <1>1, <1>4, <1>5
<1>7. \A i \in DOMAIN After(kinds) : i + p \in DOMAIN Out /\ After(kinds)[i] = Out[i + p]
  BY <1>1, <1>4, <1>5
<1>8. p = Len(Out) => After(kinds) = <<>>
  BY <1>1, <1>4, <1>5
<1> QED
  BY <1>2, <1>3, <1>5, <1>6, <1>7, <1>8 DEF p

\* What is written comes last, or is lost.
LEMMA WasWritten ==
  ASSUME Types, HasChild, NEW l
  PROVE  /\ Written(l) = Append(sess[child].lines, l) \/ (~Open /\ Written(l) = sess[child].lines)
         /\ \A i \in DOMAIN Written(l) :
              \/ i \in DOMAIN sess[child].lines /\ Written(l)[i] = sess[child].lines[i]
              \/ i = Len(Written(l)) /\ Written(l)[i] = l
         /\ sess[child].lines = <<>> => Written(l) = IF Open THEN <<l>> ELSE <<>>
<1> DEFINE L == Lines(0..calls, Uploaded, Settled)
<1>1. sess[child].lines \in Seq(L)
  BY TalkParts DEF Types
<1> HIDE DEF L
<1>2. CASE Open
  <2> DEFINE a == sess[child].lines
             b == Append(a, l)
  <2>1. Written(l) = b
    BY <1>2 DEF Written
  <2>2. /\ Len(b) = Len(a) + 1 /\ DOMAIN b = 1..(Len(a) + 1) /\ DOMAIN a = 1..Len(a)
        /\ Len(a) \in Nat /\ b[Len(a) + 1] = l /\ \A i \in 1..Len(a) : b[i] = a[i]
    BY <1>1
  <2>3. a = <<>> => b = <<l>>
    BY <1>1
  <2> HIDE DEF a, b
  <2>4. \A i \in DOMAIN b : (i \in DOMAIN a /\ b[i] = a[i]) \/ (i = Len(b) /\ b[i] = l)
    BY <2>2
  <2>5. b = Append(a, l)
    BY DEF a, b
  <2> QED
    BY <1>2, <2>1, <2>3, <2>4, <2>5 DEF a
<1>3. CASE ~Open
  BY <1>1, <1>3 DEF Written
<1> QED
  BY <1>2, <1>3

\* What follows what.
LEMMA Joined ==
  ASSUME NEW M, NEW a \in Seq(M), NEW b \in Seq(M)
  PROVE  /\ Len(a \o b) = Len(a) + Len(b) /\ Len(a) \in Nat /\ Len(b) \in Nat
         /\ \A i \in DOMAIN (a \o b) :
              \/ i \in DOMAIN a /\ (a \o b)[i] = a[i]
              \/ i > Len(a) /\ i - Len(a) \in DOMAIN b /\ (a \o b)[i] = b[i - Len(a)]
         /\ a = <<>> => a \o b = b
OBVIOUS

\* Where a call goes, and by which step.
LEMMA Arriving ==
  ASSUME Types, Control, Step
  PROVE  /\ pc' \in Dialled => DialSucceeds \/ Login \/ PagerEcho \/ PagerPrompt
         /\ pc' = "sent" => \/ PagerOff /\ op # "Connect"
                            \/ Acknowledged /\ pc = "data" /\ HasChild /\ Send(line)
                            \/ CopyDone \/ LoadDone
         /\ pc' = "echoed" => Echoed
         /\ pc' \in Uploading => pc \in Uploading /\ UNCHANGED <<child, line, sess>>
         /\ pc' = "copy" => Verified /\ SameDigest
         /\ pc' = "load" => CopyAsks
         /\ pc' = "delete" /\ raised' = NONE => CopyDone \/ LoadDone \/ Saved
         /\ pc' \in Erasing \ {"delete"} => DeleteGoesOn
         /\ pc' = "dial" => Reconnect
         /\ pc' = "idle" /\ op = "SetConfig" => pc \in Uploading \cup Erasing
         /\ pc' = "idle" /\ op = "Cmd" => UNCHANGED sess \/ (Drop(Waits) /\ Matched(Waits) /\ pc = "echoed")
<1> DEFINE Goal ==
         /\ pc' \in Dialled => DialSucceeds \/ Login \/ PagerEcho \/ PagerPrompt
         /\ pc' = "sent" => \/ PagerOff /\ op # "Connect"
                            \/ Acknowledged /\ pc = "data" /\ HasChild /\ Send(line)
                            \/ CopyDone \/ LoadDone
         /\ pc' = "echoed" => Echoed
         /\ pc' \in Uploading => pc \in Uploading /\ UNCHANGED <<child, line, sess>>
         /\ pc' = "copy" => Verified /\ SameDigest
         /\ pc' = "load" => CopyAsks
         /\ pc' = "delete" /\ raised' = NONE => CopyDone \/ LoadDone \/ Saved
         /\ pc' \in Erasing \ {"delete"} => DeleteGoesOn
         /\ pc' = "dial" => Reconnect
         /\ pc' = "idle" /\ op = "SetConfig" => pc \in Uploading \cup Erasing
         /\ pc' = "idle" /\ op = "Cmd" => UNCHANGED sess \/ (Drop(Waits) /\ Matched(Waits) /\ pc = "echoed")
<1>0. NONE \notin Exceptions /\ (pc \in Uploading \cup Erasing \cup {"copy", "load"} => op = "SetConfig")
  BY IosAssumption DEF Control, Phase
<1> USE DEF Uploading, Dialled, Erasing, Return, DeleteFile, object
<1>1. ASSUME GivesUp PROVE Goal
  BY <1>0, <1>1 DEF GivesUp
<1>2. ASSUME DialSucceeds \/ Login \/ PagerEcho \/ PagerPrompt PROVE Goal
  BY <1>2 DEF DialSucceeds, Login, PagerEcho, PagerPrompt
<1>3. ASSUME PagerOff PROVE Goal
  BY <1>3 DEF PagerOff
<1>4. ASSUME Echoed \/ Reconnect \/ Closed PROVE Goal
  BY <1>4 DEF Echoed, Reconnect, Closed, Control, Phase
<1>5. ASSUME Refused \/ CmdDone PROVE Goal
  BY <1>0, <1>5 DEF Refused, CmdDone, Responded, Exceptions
<1>6. ASSUME UploadConnects \/ UploadUnconnected \/ NotAcknowledged PROVE Goal
  BY <1>6 DEF UploadConnects, UploadUnconnected, NotAcknowledged, UploadRaises
<1>7. ASSUME Acknowledged PROVE Goal
  BY <1>7 DEF Acknowledged
<1>8. ASSUME Verified PROVE Goal
  BY <1>0, <1>8 DEF Verified, Exceptions
<1>9. ASSUME CopyAsks PROVE Goal
  BY <1>9 DEF CopyAsks
<1>10. ASSUME CopyDone \/ LoadDone PROVE Goal
  BY <1>10 DEF CopyDone, LoadDone, Copied
<1>11. ASSUME LoadInvalid \/ LoadWarns \/ CopyFails PROVE Goal
  BY <1>0, <1>11 DEF LoadInvalid, LoadWarns, CopyFails, Exceptions
<1>12. ASSUME Saved PROVE Goal
  BY <1>12 DEF Saved
<1>13. ASSUME DeleteGoesOn PROVE Goal
  <2>1. PICK s \in Deleting : /\ pc = s.at
                              /\ IF s.next = "idle" THEN SetConfigDone(FALSE)
                                 ELSE pc' = s.next /\ UNCHANGED <<warned, result>>
    BY <1>13, Zenon DEF DeleteGoesOn
  <2> QED
    BY <1>0, <1>13, <2>1 DEF Deleting, SetConfigDone
<1>14. ASSUME DeleteFails PROVE Goal
  <2>1. PICK s \in Deleting : pc = s.at /\ SetConfigDone(TRUE)
    BY <1>14, Zenon DEF DeleteFails
  <2> QED
    BY <1>0, <2>1 DEF Deleting, SetConfigDone
<1> HIDE DEF Goal
<1>15. Goal
  BY <1>1, <1>2, <1>3, <1>4, <1>5, <1>6, <1>7, <1>8, <1>9, <1>10, <1>11, <1>12, <1>13, <1>14,
     FailuresGiveUp, Zenon DEF Step
<1> QED
  BY <1>15 DEF Goal

\* A session that is closed keeps the beginning of its output.
Cut(c, d) ==
  /\ ~d.open /\ d.lines = <<>> /\ d.mode = c.mode
  /\ Len(d.out) <= Len(c.out)
  /\ \A i \in DOMAIN d.out : i \in DOMAIN c.out /\ d.out[i] = c.out[i]

\* The answer to the line in hand.
Tells(marks, mode) ==
  /\ Handed(child)
  /\ marks \in Seq(Marks(0..calls, Settled)) /\ mode \in Lines(0..calls, Uploaded, Settled)
  /\ Reports(child, marks, mode) \/ Queries(child, marks, mode) \/ Finishes(child, marks, mode)
  /\ Becomes(Tail(sess[child].lines), Out \o marks, mode)

LEMMA RouterOnChild ==
  ASSUME Types, HasChild, NEW s \in DOMAIN sess, Works(s) \/ LoseSession(s)
  PROVE  /\ DOMAIN sess' = DOMAIN sess
         /\ \/ s # child /\ sess'[child] = sess[child]
            \/ /\ s = child /\ Cut(sess[child], sess'[child])
               /\ UNCHANGED <<files, running, startup, runs, complained>>
            \/ /\ s = child /\ Works(child) /\ ~Exits(child)
               /\ Open /\ sess[child].lines # <<>>
               /\ \E marks, mode : Tells(marks, mode)
<1>0. sess \in Seq(Sessions(0..calls, Uploaded, Settled))
  BY DEF Types
<1>1. CASE LoseSession(s)
  <2>1. RouterLocal(s) /\ Cut(sess[s], sess'[s]) /\ s = child
    BY <1>1, LossIsLocal DEF Cut
  <2>2. UNCHANGED <<files, running, startup, runs, complained>>
    BY <1>1 DEF LoseSession, router, history
  <2> QED
    BY <2>1, <2>2 DEF RouterLocal
<1>2. CASE Works(s) /\ s # child
  BY <1>2, WorkIsLocal DEF RouterLocal, HasChild
<1>3. CASE Exits(s) /\ s = child
  <2> DEFINE c == [[sess[s] EXCEPT !.open = FALSE] EXCEPT !.lines = <<>>]
  <2>1. sess' = [sess EXCEPT ![s] = c]
    BY <1>3 DEF Exits
  <2>2. sess[s] \in Sessions(0..calls, Uploaded, Settled)
    BY <1>0, ElementOfSeq
  <2>3. ~c.open /\ c.lines = <<>> /\ c.mode = sess[s].mode /\ c.out = sess[s].out
    BY <2>2 DEF Sessions
  <2> HIDE DEF c
  <2>4. DOMAIN sess' = DOMAIN sess /\ sess'[s] = c
    BY <1>0, <2>1
  <2>5. Len(c.out) <= Len(sess[s].out)
    <3>1. sess[s].out \in Seq(Marks(0..calls, Settled))
      BY <2>2 DEF Sessions
    <3> DEFINE M == Marks(0..calls, Settled)
    <3> HIDE DEF M
    <3>2. Len(sess[s].out) \in Nat
      BY <3>1, LenProperties
    <3> QED
      BY <2>3, <3>2
  <2>6. UNCHANGED <<files, running, startup, runs, complained>>
    BY <1>3 DEF Exits, router
  <2> QED
    BY <1>3, <2>3, <2>4, <2>5, <2>6 DEF Cut
<1>4. CASE Works(s) /\ s = child /\ ~Exits(s)
  <2>1. PICK marks \in Seq(Marks(0..calls, Settled)), mode \in Lines(0..calls, Uploaded, Settled) :
          /\ Reports(s, marks, mode) \/ Queries(s, marks, mode) \/ Finishes(s, marks, mode)
          /\ Len(sess') = Len(sess) /\ DOMAIN sess' = DOMAIN sess
          /\ sess'[s] = [open |-> sess[s].open, lines |-> Tail(sess[s].lines),
                         out |-> IF s = child THEN sess[s].out \o marks ELSE <<>>, mode |-> mode]
    BY <1>4, Answering
  <2>2. Becomes(Tail(sess[child].lines), Out \o marks, mode)
    BY <1>4, <2>1 DEF Becomes, Out, Open
  <2>3. sess[s].lines # <<>>
    BY <1>4, WorkIsLocal
  <2>4. sess[s].open
    BY <1>4 DEF Works, Echo, Exits, RunsCommand, Verifies, StartsCopy, TakesDestination,
         TakesOverwrite, Saves, StartsDelete, TakesName, Deletes, InMode
  <2> QED
    BY <1>4, <2>1, <2>2, <2>3, <2>4, WorkIsHanded DEF Tells, Open
<1> QED
  BY <1>1, <1>2, <1>3, <1>4

\* What the router leaves alone, whatever it does.
LEMMA RouterKeeps ==
  ASSUME NEW s \in DOMAIN sess, Works(s) \/ LoseSession(s)
  PROVE  /\ UNCHANGED <<connected, hostStatus, child, pc, op, line, retrying, raised, warned,
                        result, calls, ready, fresh, answer>>
         /\ complained => complained'
<1>1. CASE LoseSession(s)
  BY <1>1 DEF LoseSession, object, router, history
<1>2. CASE Works(s)
  <2>1. UNCHANGED client
    BY <1>2 DEF Works, Echo, Exits, RunsCommand, Verifies, StartsCopy, TakesDestination,
         TakesOverwrite, Saves, StartsDelete, TakesName, Deletes
  <2>2. complained' = complained \/ \E l : complained' = (complained \/ OfCall(l))
    BY <1>2 DEF Works, Echo, Exits, RunsCommand, Verifies, StartsCopy, TakesDestination,
         TakesOverwrite, Saves, StartsDelete, TakesName, Deletes, Copies
  <2>3. complained => complained'
    <3>1. ASSUME NEW l, complained, complained' = (complained \/ OfCall(l))
          PROVE  complained'
      BY <3>1, Zenon
    <3> QED
      BY <2>2, <3>1
  <2> QED
    BY <2>1, <2>3 DEF client, object
<1> QED
  BY <1>1, <1>2

LEMMA NewSession ==
  ASSUME Types, DialSucceeds
  PROVE  /\ HasChild' /\ pc = "dial" /\ pc' = "login"
         /\ sess'[child'] = [open |-> TRUE, lines |-> <<Plain("login")>>,
                             out |-> <<>>, mode |-> Exec]
         /\ \A s \in DOMAIN sess' : s # child' => s \in DOMAIN sess /\ sess'[s].lines = sess[s].lines
<1>1. sess \in Seq(Sessions(0..calls, Uploaded, Settled)) /\ 0 \in 0..calls
  BY DEF Types, Scalars
<1>2. /\ sess' \in Seq(Sessions(0..calls, Uploaded, Settled))
      /\ Len(sess') = Len(sess) + 1 /\ child' = Len(sess) + 1
      /\ sess'[child'] = [open |-> TRUE, lines |-> <<Plain("login")>>,
                          out |-> <<>>, mode |-> Exec]
      /\ \A s \in DOMAIN sess : /\ s \in DOMAIN sess' /\ s # child'
                                /\ sess'[s] = [sess[s] EXCEPT !.out = <<>>]
  BY <1>1, Dialling
<1>3. DOMAIN sess' = 1..(Len(sess) + 1) /\ DOMAIN sess = 1..Len(sess) /\ Len(sess) \in Nat
  BY <1>1, <1>2
<1>4. \A s \in DOMAIN sess : sess[s] \in Sessions(0..calls, Uploaded, Settled)
  BY <1>1, ElementOfSeq
<1>5. \A s \in DOMAIN sess : sess'[s].lines = sess[s].lines
  BY <1>2, <1>4 DEF Sessions
<1> QED
  BY <1>2, <1>3, <1>5 DEF HasChild, DialSucceeds

-----------------------------------------------------------------------------
(* In peace, only the session in hand has something to do *)

LEMMA KeepsOthersIdle ==
  ASSUME Types, Control, ClosedIsIdle, ReadsItsOwn, OthersIdle, Next
  PROVE  OthersIdle'
<1>1. CASE Call
  <2>1. /\ fresh' = NothingUnread
        /\ child' = child \/ UNCHANGED sess
    BY <1>1 DEF Call, Connect, Cmd, SetConfig, Disconnect, Begin
  <2>2. /\ DOMAIN sess' = DOMAIN sess
        /\ \A s \in DOMAIN sess : s # child => sess'[s] = sess[s]
    BY <1>1, CallIsLocal
  <2> SUFFICES ASSUME fresh', NEW s \in DOMAIN sess', s # child'
               PROVE  sess'[s].lines = <<>>
    BY DEF OthersIdle
  <2>3. sess[s].lines = <<>> /\ s \in DOMAIN sess
    BY <2>1, <2>2 DEF NothingUnread
  <2> QED
    BY <2>1, <2>2, <2>3
<1>2. CASE DialSucceeds
  <2>1. /\ pc = "dial" /\ fresh' = fresh
        /\ \A s \in DOMAIN sess' : s # child' => s \in DOMAIN sess /\ sess'[s].lines = sess[s].lines
    BY <1>2, NewSession DEF DialSucceeds, fixed
  <2>2. child \in DOMAIN sess => sess[child].lines = <<>>
    <3>1. 0 \notin DOMAIN sess
      <4>1. sess \in Seq(Sessions(0..calls, Uploaded, Settled))
        BY DEF Types
      <4> DEFINE R == Sessions(0..calls, Uploaded, Settled)
      <4> HIDE DEF R
      <4> QED
        BY <4>1 DEF R
    <3> QED
      BY <2>1, <3>1 DEF Control, Reach, HasChild, Open, NoChild, ClosedIsIdle
  <2> QED
    BY <2>1, <2>2 DEF OthersIdle
<1>3. CASE Step /\ ~DialSucceeds
  <2>1. Local /\ child' = child /\ fresh' = fresh
    BY <1>3, StepIsLocal, StepKeeps DEF Keeps
  <2> QED
    BY <2>1 DEF Local, OthersIdle
<1>4. CASE Router
  <2>1. PICK s \in DOMAIN sess : Works(s) \/ LoseSession(s)
    BY <1>4 DEF Router
  <2>2. child' = child /\ fresh' = fresh
    BY <2>1, RouterKeeps
  <2>3. RouterLocal(s) /\ (s = child \/ sess[s].lines # <<>>)
    BY <2>1, WorkIsLocal, LossIsLocal
  <2> QED
    BY <2>2, <2>3 DEF RouterLocal, OthersIdle
<1> QED
  BY <1>1, <1>2, <1>3, <1>4 DEF Next

\* In peace the router works on the session in hand.
LEMMA RouterInPeace ==
  ASSUME Types, OthersIdle, fresh, NEW s \in DOMAIN sess, Works(s) \/ LoseSession(s)
  PROVE  s = child
BY WorkIsLocal, LossIsLocal DEF OthersIdle

-----------------------------------------------------------------------------
(* A session begins with a login and the pager *)

\* The lines of the login are answered by at most a prompt, the last.
LEMMA BeginningGoesOn ==
  ASSUME Types, HasChild, Beginning(sess[child]), NEW s \in DOMAIN sess, Works(s) \/ LoseSession(s)
  PROVE  /\ Beginning(sess'[child])
         /\ s = child => /\ UNCHANGED <<running, startup>>
                         /\ Texts(sess'[child]) => Texts(sess[child])
<1>1. CASE s # child /\ sess'[child] = sess[child]
  BY <1>1
<1>2. CASE Cut(sess[child], sess'[child]) /\ UNCHANGED <<files, running, startup, runs, complained>>
  <2>1. PromptIsLast(sess'[child].out)
    <3> SUFFICES ASSUME NEW i \in DOMAIN sess'[child].out, sess'[child].out[i].kind = "prompt"
                 PROVE  i = Len(sess'[child].out)
      BY DEF PromptIsLast
    <3>1. i \in DOMAIN sess[child].out /\ sess[child].out[i].kind = "prompt"
      BY <1>2 DEF Cut
    <3>2. i = Len(sess[child].out) /\ Len(sess'[child].out) <= Len(sess[child].out)
      BY <1>2, <3>1 DEF Beginning, PromptIsLast, Cut
    <3> QED
      BY <3>2
  <2> QED
    BY <1>2, <2>1 DEF Beginning, Cut, Texts
<1>3. ASSUME NEW marks, NEW mode, Tells(marks, mode), sess[child].lines # <<>>
      PROVE  /\ Beginning(sess'[child]) /\ ~Texts(sess'[child])
             /\ UNCHANGED <<running, startup>>
  <2>1. PICK x \in {"login", "enter", "terminal"} :
          sess[child].out = <<>> /\ sess[child].lines = <<Plain(x)>> /\ sess[child].mode = Exec
    BY <1>3 DEF Beginning
  <2>2. Typed(child) = Plain(x) /\ Hand(child) = Plain(x) /\ Plain(x).what = x /\ Plain(x).of = 0
    BY <2>1 DEF Hand, Exec, Plain, Line, Typed
  <2>3. Finishes(child, marks, mode)
    BY <1>3, <2>2 DEF Tells, Reports, Queries, Copying
  <2>4. mode = Exec /\ marks \in {Prompts(CR), Says(CR, "denied"), <<Mark("prompt", 0)>>}
    BY <2>2, <2>3 DEF Finishes, Prompts, CR, Plain, Line
  <2>5. /\ PromptIsLast(marks)
        /\ \A i \in DOMAIN marks : marks[i].kind \in {"newline", "denied", "prompt"}
    <3>1. CASE marks = Prompts(CR)
      BY <3>1 DEF PromptIsLast, Prompts, Mark
    <3>2. CASE marks = Says(CR, "denied")
      BY <3>2 DEF PromptIsLast, Says, Mark
    <3>3. CASE marks = <<Mark("prompt", 0)>>
      BY <3>3 DEF PromptIsLast, Mark
    <3> QED
      BY <2>4, <3>1, <3>2, <3>3
  <2>6. sess'[child].lines = <<>> /\ sess'[child].out = marks /\ sess'[child].mode = Exec
    <3>1. /\ sess'[child].lines = Tail(sess[child].lines) /\ sess'[child].out = Out \o marks
          /\ sess'[child].mode = Exec /\ marks \in Seq(Marks(0..calls, Settled))
      BY <1>3, <2>4 DEF Tells, Becomes
    <3>2. Tail(sess[child].lines) = <<>>
      BY <2>1
    <3>3. Out \o marks = marks
      <4> DEFINE M == Marks(0..calls, Settled)
      <4> HIDE DEF M
      <4>1. marks \in Seq(M)
        BY <3>1 DEF M
      <4> QED
        BY <2>1, <4>1 DEF Out
    <3> QED
      BY <3>1, <3>2, <3>3
  <2> QED
    BY <2>3, <2>5, <2>6 DEF Beginning, Finishes, Texts
<1> QED
  BY <1>1, <1>2, <1>3, RouterOnChild

LEMMA KeepsBeginnings ==
  ASSUME Types, Control, ClosedIsIdle, BeginsWell, Next
  PROVE  BeginsWell'
<1> SUFFICES ASSUME pc' \in Dialled PROVE Beginning(sess[child])'
  BY DEF BeginsWell
<1>0. pc \in Dialled => HasChild
  BY DEF Control, Reach, Dialled, Uploading
<1>1. CASE Call
  BY <1>1 DEF Call, Connect, Cmd, SetConfig, Disconnect, Return, Dialled
<1>2. CASE DialSucceeds
  <2>1. sess'[child'] = [open |-> TRUE, lines |-> <<Plain("login")>>, out |-> <<>>, mode |-> Exec]
    BY <1>2, NewSession
  <2> QED
    BY <2>1 DEF Beginning, PromptIsLast
<1>3. ASSUME HasChild, NEW kinds, Matched(kinds), Beginning(sess[child]),
             Becomes(sess[child].lines, After(kinds), sess[child].mode)
      PROVE  Beginning(sess'[child])
  <2>1. PromptIsLast(After(kinds))
    <3> SUFFICES ASSUME NEW i \in DOMAIN After(kinds), After(kinds)[i].kind = "prompt"
                 PROVE  i = Len(After(kinds))
      BY DEF PromptIsLast
    <3>1. /\ i + Place(kinds) \in DOMAIN Out /\ Out[i + Place(kinds)].kind = "prompt"
          /\ Len(After(kinds)) = Len(Out) - Place(kinds) /\ Place(kinds) \in Nat
      BY <1>3, WasRead
    <3>2. i + Place(kinds) = Len(Out)
      BY <1>3, <3>1 DEF Beginning, PromptIsLast, Out
    <3>3. i \in Nat
      <4> DEFINE M == Marks(0..calls, Settled)
      <4>1. After(kinds) \in Seq(M)
        BY <1>3, TalkParts DEF Types
      <4> HIDE DEF M
      <4> QED
        BY <4>1
    <3> QED
      BY <3>1, <3>2, <3>3
  <2>2. sess[child].lines = <<>>
    BY <1>3, WasRead DEF Beginning, Out
  <2> QED
    BY <1>3, <2>1, <2>2 DEF Beginning, Becomes
<1>4. ASSUME HasChild, NEW kinds, Matched(kinds), Found(kinds) = "prompt", Beginning(sess[child]),
             NEW x \in {"enter", "terminal"},
             Becomes(Written(Plain(x)), After(kinds), sess[child].mode)
      PROVE  Beginning(sess'[child])
  <2>1. Place(kinds) \in DOMAIN Out /\ Out[Place(kinds)].kind = "prompt" /\ Out # <<>>
    BY <1>4, WasRead
  <2>2. Place(kinds) = Len(Out) /\ sess[child].lines = <<>>
    BY <1>4, <2>1 DEF Beginning, PromptIsLast, Out
  <2>3. After(kinds) = <<>> /\ Written(Plain(x)) \in {<<>>, <<Plain(x)>>}
    BY <1>4, <2>2, WasRead, WasWritten
  <2> QED
    BY <1>4, <2>3 DEF Beginning, Becomes, PromptIsLast
<1>5. CASE Login
  <2>1. /\ pc \in Dialled /\ Matched({"prompt"}) /\ child' = child
        /\ DropAndSend({"prompt"}, Plain("enter"))
    BY <1>5 DEF Login, object, CR, Dialled
  <2>2. Becomes(Written(Plain("enter")), After({"prompt"}), sess[child].mode)
    BY <1>0, <2>1, Said
  <2>3. Found({"prompt"}) = "prompt"
    BY <1>0, <2>1, WasRead
  <2> QED
    BY <1>0, <1>4, <2>1, <2>2, <2>3 DEF BeginsWell
<1>6. CASE PagerEcho
  <2>1. pc \in Dialled /\ Matched({"newline"}) /\ child' = child /\ Drop({"newline"})
    BY <1>6 DEF PagerEcho, object, Dialled
  <2>2. Becomes(sess[child].lines, After({"newline"}), sess[child].mode)
    BY <1>0, <2>1, Said
  <2> QED
    BY <1>0, <1>3, <2>1, <2>2 DEF BeginsWell
<1>7. CASE PagerPrompt
  <2>1. /\ pc \in Dialled /\ Matched({"prompt"}) /\ child' = child
        /\ DropAndSend({"prompt"}, Plain("terminal"))
    BY <1>7 DEF PagerPrompt, object, Dialled
  <2>2. Becomes(Written(Plain("terminal")), After({"prompt"}), sess[child].mode)
    BY <1>0, <2>1, Said
  <2>3. Found({"prompt"}) = "prompt"
    BY <1>0, <2>1, WasRead
  <2> QED
    BY <1>0, <1>4, <2>1, <2>2, <2>3 DEF BeginsWell
<1>8. CASE Router
  <2>1. PICK s \in DOMAIN sess : Works(s) \/ LoseSession(s)
    BY <1>8 DEF Router
  <2>2. child' = child /\ pc' = pc
    BY <2>1, RouterKeeps
  <2> QED
    BY <1>0, <2>1, <2>2, BeginningGoesOn DEF BeginsWell
<1> QED
  BY <1>1, <1>2, <1>5, <1>6, <1>7, <1>8, Arriving DEF Next

-----------------------------------------------------------------------------
(* In peace, a session says nothing but the answer to the line that was sent *)

\* What was sent has not been answered.
LEMMA JustSent ==
  ASSUME NEW c, NEW l, l.what \in {"command", "verify", "save"}, c.mode = Exec,
         c.out = <<>>, c.lines \in {<<>>, <<l>>}
  PROVE  Answered(c, l, "sent")
<1>1. PICK k : k \in Expected(l.what)
  BY DEF Expected, Contents
<1>2. Begins(c.out, Says(l, k))
  BY DEF Begins, Says
<1> QED
  BY <1>1, <1>2 DEF Answered

\* The router takes the line in hand.
LEMMA LineInHand ==
  ASSUME Types, HasChild, line.what \in {"command", "verify", "save"}, Answered(sess[child], line, pc),
         NEW marks, NEW mode, Tells(marks, mode), sess[child].lines # <<>>
  PROVE  \E kind \in Contents(line.what) :
           /\ Effect(line, kind)
           /\ sess'[child].lines = <<>> /\ sess'[child].mode = Exec /\ pc = "sent"
           /\ sess'[child].out = Says(line, kind)
<1>1. sess[child].lines = <<line>> /\ sess[child].out = <<>> /\ sess[child].mode = Exec /\ pc = "sent"
  BY DEF Answered
<1>2. Hand(child) = line
  BY <1>1 DEF Hand, Exec, Plain, Line, Typed
<1>3. Reports(child, marks, mode)
  BY <1>2 DEF Tells, Queries, Finishes
<1>4. PICK kind \in Contents(line.what) : Effect(line, kind) /\ marks = Says(line, kind)
  BY <1>2, <1>3 DEF Reports
<1>5. /\ sess'[child].lines = Tail(sess[child].lines) /\ sess'[child].out = Out \o marks
      /\ sess'[child].mode = Exec
  BY <1>3 DEF Tells, Becomes, Reports
<1>6. Tail(sess[child].lines) = <<>>
  BY <1>1
<1>7. Out \o marks = marks
  BY <1>1, <1>4 DEF Out, Says
<1> QED
  BY <1>1, <1>4, <1>5, <1>6, <1>7

\* The answer, or its beginning when the session is lost.
LEMMA AnswerComes ==
  ASSUME Types, Control, HasChild, pc \in {"sent", "echoed"}, Answered(sess[child], line, pc),
         NEW s \in DOMAIN sess, Works(s) \/ LoseSession(s), ~complained'
  PROVE  Answered(sess'[child], line, pc)
<1>0. /\ op \in {"Cmd", "SetConfig"} /\ line.of = calls /\ line.what \in {"command", "verify", "save"}
      /\ line.what = "save" => op = "SetConfig"
  BY DEF Control, Phase
<1>1. CASE sess'[child] = sess[child]
  BY <1>1
<1>2. CASE Cut(sess[child], sess'[child])
  <2>1. ASSUME NEW a, Begins(sess[child].out, a) PROVE Begins(sess'[child].out, a)
    <3>1. /\ Len(sess'[child].out) <= Len(sess[child].out) /\ Len(sess[child].out) <= Len(a)
          /\ \A i \in DOMAIN sess'[child].out : i \in DOMAIN sess[child].out /\ sess'[child].out[i] = sess[child].out[i]
      BY <1>2, <2>1 DEF Cut, Begins
    <3> QED
      BY <2>1, <3>1 DEF Begins
  <2> QED
    BY <1>2, <2>1 DEF Answered, Cut
<1>3. ASSUME NEW marks, NEW mode, Tells(marks, mode), sess[child].lines # <<>>
      PROVE  Answered(sess'[child], line, pc)
  <2>1. PICK kind \in Contents(line.what) :
          /\ Effect(line, kind)
          /\ sess'[child].lines = <<>> /\ sess'[child].mode = Exec /\ pc = "sent"
          /\ sess'[child].out = Says(line, kind)
    BY <1>0, <1>3, LineInHand DEF Answered
  <2>2. kind \in Expected(line.what)
    BY <1>0, <2>1 DEF Effect, OfCall, Expected
  <2>3. Begins(sess'[child].out, Says(line, kind))
    BY <2>1 DEF Begins, Says
  <2> QED
    BY <2>1, <2>2, <2>3 DEF Answered
<1> QED
  BY <1>1, <1>2, <1>3, RouterOnChild

\* The echo is the first thing a session says.
LEMMA EchoIsRead ==
  ASSUME Types, HasChild, Answered(sess[child], line, "sent"), Matched({"newline"}),
         Becomes(sess[child].lines, After({"newline"}), sess[child].mode)
  PROVE  Answered(sess'[child], line, "echoed")
<1> DEFINE p == Place({"newline"})
           a == After({"newline"})
<1>1. PICK k \in Expected(line.what) : Begins(Out, Says(line, k))
  BY DEF Answered, Out
<1>2. /\ p \in DOMAIN Out /\ p \in Nat \ {0} /\ Out # <<>>
      /\ \A i \in DOMAIN Out : i < p => Out[i].kind # "newline"
      /\ Len(a) = Len(Out) - p
      /\ \A i \in DOMAIN a : i + p \in DOMAIN Out /\ a[i] = Out[i + p]
  BY WasRead
<1>3. Out \in Seq(Marks(0..calls, Settled)) /\ a \in Seq(Marks(0..calls, Settled))
  BY TalkParts DEF Types
<1> HIDE DEF a
<1>4. /\ 1 \in DOMAIN Out /\ DOMAIN Out = 1..Len(Out) /\ DOMAIN a = 1..Len(a)
      /\ Len(a) \in Nat /\ Len(Out) \in Nat
  <2> DEFINE M == Marks(0..calls, Settled)
  <2>1. Out \in Seq(M) /\ a \in Seq(M)
    BY <1>3
  <2> HIDE DEF M
  <2> QED
    BY <1>2, <2>1
<1>5. Out[1].kind = "newline"
  BY <1>1, <1>4 DEF Begins, Says, Mark
<1>6. p = 1
  BY <1>2, <1>4, <1>5
<1> DEFINE w == Says(line, k)
<1>7. Len(w) = 4 /\ Len(Tail(w)) = 3 /\ \A i \in 1..3 : Tail(w)[i] = w[i + 1]
  BY DEF Says
<1> HIDE DEF w, p
<1>8. Len(Out) <= 4 /\ \A i \in DOMAIN Out : Out[i] = w[i]
  BY <1>1, <1>7 DEF Begins, w
<1>9. Begins(a, Tail(w))
  <2>1. Len(a) <= 3
    BY <1>2, <1>4, <1>6, <1>8
  <2>2. ASSUME NEW i \in DOMAIN a PROVE a[i] = Tail(w)[i]
    <3>1. i \in 1..3 /\ i + 1 \in DOMAIN Out /\ a[i] = Out[i + 1]
      BY <1>2, <1>4, <1>6, <2>1
    <3> QED
      BY <1>7, <1>8, <3>1
  <2> QED
    BY <1>7, <2>1, <2>2 DEF Begins
<1>10. sess[child].lines = <<>> /\ sess[child].mode = Exec
  BY <1>2 DEF Answered, Out
<1>11. /\ sess'[child].mode = Exec /\ sess'[child].lines = <<>>
       /\ Begins(sess'[child].out, Tail(Says(line, k)))
  BY <1>9, <1>10, Zenon DEF Becomes, a, w
<1> QED
  BY <1>11 DEF Answered

\* The pager is off, _Cmd sends its command again.
LEMMA PagerDone ==
  ASSUME Types, Control, BeginsWell, PagerOff, op # "Connect"
  PROVE  /\ HasChild /\ UNCHANGED <<child, line>>
         /\ line.what \in {"command", "verify", "save"}
         /\ sess[child].lines = <<>> /\ sess[child].mode = Exec
         /\ Becomes(Written(line), <<>>, Exec)
<1> DEFINE answers == {"prompt", "denied"}
<1>1. /\ pc = "terminal" /\ Matched(answers) /\ Found(answers) = "prompt"
      /\ DropAndSend(answers, line) /\ UNCHANGED <<child, line>>
  BY DEF PagerOff
<1>2. HasChild /\ Beginning(sess[child]) /\ line.what \in {"command", "verify", "save"}
  <2>1. HasChild /\ Beginning(sess[child])
    BY <1>1 DEF BeginsWell, Dialled, Uploading, Control, Reach
  <2>2. op \in {"Cmd", "SetConfig"} /\ pc \in Dialled
    BY <1>1 DEF Control, Phase, Dialled, Ops, Types, Scalars
  <2>3. line.what \in {"command", "verify", "save"}
    BY <2>2 DEF Control, Phase
  <2> QED
    BY <2>1, <2>3
<1> HIDE DEF answers
<1>3. Place(answers) \in DOMAIN Out /\ Out[Place(answers)].kind = "prompt" /\ Out # <<>>
  BY <1>1, <1>2, WasRead
<1>4. After(answers) = <<>>
  BY <1>1, <1>2, <1>3, WasRead DEF Beginning, PromptIsLast, Out
<1>5. Becomes(Written(line), <<>>, Exec) /\ sess[child].lines = <<>> /\ sess[child].mode = Exec
  BY <1>1, <1>2, <1>3, <1>4, Said DEF Beginning, Out
<1> QED
  BY <1>1, <1>2, <1>5

LEMMA KeepsAnswers ==
  ASSUME Types, Control, ClosedIsIdle, OthersIdle, BeginsWell, AnswersOnly, Applies, Next
  PROVE  AnswersOnly'
<1> SUFFICES ASSUME InPeace', HasChild'
             PROVE  /\ pc' \in {"sent", "echoed"} => Answered(sess'[child'], line', pc')
                    /\ pc' \in Uploading => Quiet(sess'[child'])
  BY DEF AnswersOnly
<1> DEFINE Goal == /\ pc' \in {"sent", "echoed"} => Answered(sess'[child'], line', pc')
                   /\ pc' \in Uploading => Quiet(sess'[child'])
<1>0. "sent" \notin Uploading /\ "echoed" \notin Uploading
  BY DEF Uploading
<1>1. CASE Connect \/ Disconnect
  BY <1>1 DEF Connect, Disconnect, Return, Uploading
<1>2. CASE SetConfig
  <2>1. /\ NothingUnread /\ UNCHANGED <<child, sess>> /\ pc' = "upload"
    BY <1>2 DEF SetConfig, Begin, InPeace
  <2> QED
    BY <2>1 DEF NothingUnread, HasChild, Quiet, Out
<1>3. CASE Cmd
  <2>1. NothingUnread /\ child' = child
    BY <1>3 DEF Cmd, Begin, InPeace
  <2>2. CASE HasChild
    <3> DEFINE l == Line("command", calls + 1, NONE)
    <3>1. Send(l) /\ line' = l /\ pc' = "sent" /\ l.what = "command"
      BY <1>3, <2>2 DEF Cmd, Line
    <3> HIDE DEF l
    <3>2. Becomes(Written(l), Out, sess[child].mode)
      BY <2>2, <3>1, Said
    <3>3. sess[child].lines = <<>> /\ Out = <<>> /\ sess[child].mode = Exec
      BY <2>1, <2>2 DEF NothingUnread, HasChild
    <3>4. Written(l) \in {<<>>, <<l>>}
      BY <2>2, <3>3, WasWritten
    <3>5. Answered(sess'[child], l, "sent")
      BY <3>1, <3>2, <3>3, <3>4, JustSent DEF Becomes
    <3> QED
      BY <1>0, <2>1, <3>1, <3>5
  <2>3. CASE ~HasChild
    BY <1>3, <2>3 DEF Cmd, Return, Uploading
  <2> QED
    BY <2>2, <2>3
<1>4. CASE Router
  <2>1. PICK s \in DOMAIN sess : Works(s) \/ LoseSession(s)
    BY <1>4 DEF Router
  <2>2. UNCHANGED <<child, pc, op, line, fresh>> /\ InPeace /\ ~complained'
    BY <2>1, RouterKeeps DEF InPeace
  <2>3. HasChild
    BY <2>1, <2>2, RouterInPeace DEF InPeace, HasChild
  <2>4. CASE pc \in {"sent", "echoed"}
    BY <1>0, <2>1, <2>2, <2>3, <2>4, AnswerComes DEF AnswersOnly
  <2>5. CASE pc \in Uploading
    <3>1. Quiet(sess[child])
      BY <2>2, <2>3, <2>5 DEF AnswersOnly
    <3>2. \/ sess'[child] = sess[child] \/ Cut(sess[child], sess'[child])
      BY <2>1, <2>3, <3>1, RouterOnChild DEF Quiet
    <3>3. Cut(sess[child], sess'[child]) => sess'[child].out = <<>>
      <4> SUFFICES ASSUME Cut(sess[child], sess'[child]) PROVE sess'[child].out = <<>>
        OBVIOUS
      <4>1. Len(sess'[child].out) <= 0
        BY <3>1 DEF Cut, Quiet
      <4>2. RouterLocal(s)
        BY <2>1, WorkIsLocal, LossIsLocal
      <4>3. sess' \in Seq(Sessions(0..calls, Uploaded, Settled)) /\ child \in DOMAIN sess'
        BY <2>3, <4>2 DEF RouterLocal, HasChild
      <4>4. sess'[child] \in Sessions(0..calls, Uploaded, Settled)
        BY <4>3, ElementOfSeq
      <4>5. sess'[child].out \in Seq(Marks(0..calls, Settled))
        BY <4>4 DEF Sessions
      <4> DEFINE M == Marks(0..calls, Settled)
      <4> HIDE DEF M
      <4> QED
        BY <4>1, <4>5, EmptySeq, LenProperties
    <3>4. Quiet(sess'[child])
      BY <3>1, <3>2, <3>3 DEF Quiet, Cut
    <3> QED
      BY <1>0, <2>2, <2>5, <3>4
  <2> QED
    BY <2>2, <2>4, <2>5
<1>5. CASE Step
  <2>1. Keeps /\ InPeace
    <3>1. Keeps
      BY <1>5, StepKeeps
    <3> QED
      BY <3>1 DEF Keeps, InPeace
  <2>2. CASE pc' \in Uploading
    <3>1. pc \in Uploading /\ UNCHANGED <<child, line, sess>>
      BY <1>5, <2>2, Arriving
    <3> QED
      BY <1>0, <2>1, <2>2, <3>1 DEF AnswersOnly, HasChild
  <2>3. CASE pc' = "echoed"
    <3>1. Echoed
      BY <1>5, <2>3, Arriving
    <3>2. /\ pc = "sent" /\ Matched({"newline"}) /\ Drop({"newline"}) /\ UNCHANGED <<child, line>>
      BY <3>1 DEF Echoed, Waits, object
    <3>3. HasChild
      BY <3>2 DEF Control, Reach, Uploading
    <3>4. Becomes(sess[child].lines, After({"newline"}), sess[child].mode)
      BY <3>2, <3>3, Said
    <3>5. Answered(sess'[child], line, "echoed")
      BY <2>1, <3>2, <3>3, <3>4, EchoIsRead DEF AnswersOnly
    <3> QED
      BY <1>0, <2>3, <3>2, <3>5
  <2>4. CASE pc' = "sent"
    <3>1. ASSUME HasChild, NEW l, l.what \in {"command", "verify", "save"},
                 sess[child].lines = <<>>, sess[child].mode = Exec,
                 Becomes(Written(l), <<>>, Exec)
          PROVE  Answered(sess'[child], l, "sent")
      <4>1. Written(l) \in {<<>>, <<l>>}
        BY <3>1, WasWritten
      <4> QED
        BY <3>1, <4>1, JustSent DEF Becomes
    <3>2. CASE PagerOff /\ op # "Connect"
      <4>1. Answered(sess'[child], line, "sent")
        BY <3>1, <3>2, PagerDone
      <4> QED
        BY <1>0, <2>4, <3>2, <4>1, PagerDone
    <3>3. CASE Acknowledged /\ pc = "data" /\ HasChild /\ Send(line)
      <4>1. UNCHANGED <<child, line>> /\ line.what = "verify"
        BY <3>3 DEF Acknowledged, object, Control, Phase, Uploading
      <4>2. Quiet(sess[child])
        BY <2>1, <3>3 DEF AnswersOnly, Uploading
      <4>3. Becomes(Written(line), <<>>, Exec)
        BY <3>3, <4>2, Said DEF Quiet, Out
      <4>4. Answered(sess'[child], line, "sent")
        BY <3>1, <3>3, <4>1, <4>2, <4>3 DEF Quiet
      <4> QED
        BY <1>0, <2>4, <4>1, <4>4
    <3>4. ASSUME NEW kinds, Copied(kinds), Matched(kinds), Found(kinds) = "prompt", child' = child,
                 pc \in {"copy", "load"}
          PROVE  Goal
      <4> DEFINE l == [line EXCEPT !.what = "save"]
      <4>1. line' = l /\ DropAndSend(kinds, l)
        BY <2>4, <3>4 DEF Copied, DeleteFile
      <4>2. l.what = "save"
        BY DEF Types, Scalars
      <4> HIDE DEF l
      <4>3. HasChild /\ op = "SetConfig" /\ raised = NONE
        BY <3>4 DEF Control, Reach, Phase, Uploading, Erasing
      <4>4. /\ Place(kinds) \in DOMAIN Out /\ Out[Place(kinds)].kind = "prompt" /\ Out # <<>>
            /\ Place(kinds) = Len(Out) => After(kinds) = <<>>
        BY <3>4, <4>3, WasRead
      <4>5. Place(kinds) = Len(Out) /\ sess[child].mode = Exec /\ sess[child].lines = <<>>
        BY <2>1, <3>4, <4>3, <4>4 DEF Applies, CopyApplies, CopyGoesOn, LoadGoesOn, Out
      <4>6. Becomes(Written(l), <<>>, Exec)
        BY <4>1, <4>3, <4>4, <4>5, Said
      <4>7. Answered(sess'[child], l, "sent")
        BY <3>1, <4>2, <4>3, <4>5, <4>6
      <4> QED
        BY <1>0, <2>4, <3>4, <4>1, <4>7
    <3>5. CASE CopyDone
      <4>1. /\ Copied(CopyWaits) /\ Matched(CopyWaits) /\ Found(CopyWaits) # "question"
            /\ child' = child /\ pc = "copy"
        BY <3>5 DEF CopyDone, object
      <4>2. HasChild /\ op = "SetConfig" /\ raised = NONE
        BY <4>1 DEF Control, Reach, Phase, Uploading, Erasing
      <4>3. /\ Place(CopyWaits) \in DOMAIN Out /\ Found(CopyWaits) = Out[Place(CopyWaits)].kind
            /\ Found(CopyWaits) \in CopyWaits
        BY <4>1, <4>2, WasRead
      <4>4. Found(CopyWaits) \notin Percent
        BY <2>1, <4>1, <4>2, <4>3 DEF Applies, CopyApplies, CopyGoesOn, Out
      <4>5. Found(CopyWaits) = "prompt"
        BY <4>1, <4>3, <4>4 DEF CopyWaits
      <4> QED
        BY <3>4, <4>1, <4>5
    <3>6. CASE LoadDone
      <4>1. /\ Copied(LoadWaits) /\ Matched(LoadWaits) /\ Found(LoadWaits) = "prompt"
            /\ child' = child /\ pc = "load"
        BY <3>6 DEF LoadDone, object
      <4> QED
        BY <3>4, <4>1
    <3> QED
      BY <1>5, <2>4, <3>2, <3>3, <3>5, <3>6, Arriving
  <2> QED
    BY <2>2, <2>3, <2>4
<1> QED
  BY <1>1, <1>2, <1>3, <1>4, <1>5 DEF Next, Call

\* The response is what the line was answered with.
LEMMA ResponseRead ==
  ASSUME Types, HasChild, pc = "echoed", Answered(sess[child], line, "echoed"), Matched(Waits)
  PROVE  \E k \in Expected(line.what) :
           /\ Response = {Mark(k, line.of)}
           /\ Invalid <=> k \in {"invalid", "denied"}
           /\ 1 \in DOMAIN Out /\ Out[1].kind = k /\ After(Waits) = <<>>
<1> DEFINE p == Place(Waits)
           b == Before(Waits)
<1>1. PICK k \in Expected(line.what) : Begins(Out, Tail(Says(line, k)))
  BY DEF Answered, Out
<1>2. /\ p \in DOMAIN Out /\ p \in Nat \ {0} /\ Out[p].kind = "prompt"
      /\ p = Len(Out) => After(Waits) = <<>>
  BY WasRead DEF Waits
<1>3. k \in {"text", "invalid", "error", "denied", "checksum", "other_checksum"}
  BY <1>1, ContentsAre DEF Expected
<1>4. Out \in Seq(Marks(0..calls, Settled))
  BY TalkParts DEF Types
<1>5. DOMAIN Out = 1..Len(Out) /\ Len(Out) \in Nat
  <2> DEFINE M == Marks(0..calls, Settled)
  <2> HIDE DEF M
  <2> QED
    BY <1>4 DEF M
<1>6. /\ Len(Out) <= 3
      /\ 1 \in DOMAIN Out => Out[1] = Mark(k, line.of)
      /\ 2 \in DOMAIN Out => Out[2] = Mark("newline", line.of)
      /\ 3 \in DOMAIN Out => Out[3] = Mark("prompt", line.of)
  BY <1>1 DEF Begins, Says
<1>7. p = 3 /\ Len(Out) = 3
  <2>1. p # 1 /\ p # 2
    BY <1>2, <1>3, <1>6 DEF Mark
  <2> QED
    BY <1>2, <1>5, <1>6, <2>1
<1>8. DOMAIN b = 1..2 /\ b[1] = Mark(k, line.of) /\ b[2] = Mark("newline", line.of)
  <2> DEFINE M == Marks(0..calls, Settled)
  <2>1. Out \in Seq(M)
    BY <1>4
  <2> HIDE DEF M
  <2>2. LET a == SubSeq(Out, 1, 2) IN DOMAIN a = 1..2 /\ a[1] = Out[1] /\ a[2] = Out[2]
    BY <1>7, <2>1
  <2>3. b = SubSeq(Out, 1, 2)
    BY <1>7 DEF Before
  <2> QED
    BY <1>5, <1>6, <1>7, <2>2, <2>3
<1> HIDE DEF b, p
<1>9. Response = {Mark(k, line.of)}
  <2>1. ToSet(b) = {Mark(k, line.of), Mark("newline", line.of)}
    BY <1>8 DEF ToSet
  <2> QED
    BY <1>3, <2>1 DEF Response, Mark, b
<1>10. Invalid <=> k \in {"invalid", "denied"}
  <2>1. DOMAIN b = 1..2 /\ b[1].kind = k /\ b[2].kind = "newline"
    BY <1>8 DEF Mark
  <2> HIDE DEF b
  <2>2. Invalid <=> \E i \in DOMAIN b : /\ b[i].kind \in {"invalid", "denied"}
                                        /\ \A j \in DOMAIN b : j > i => b[j].kind = "newline"
    BY DEF Invalid, b
  <2> QED
    BY <2>1, <2>2
<1> QED
  BY <1>1, <1>2, <1>5, <1>6, <1>7, <1>9, <1>10 DEF Mark, p

\* A step is one of a call that is in progress; only CmdDone returns a response.
LEMMA Returning ==
  ASSUME Types, Control, Step
  PROVE  /\ pc # "idle"
         /\ result' = "response" => CmdDone
<1> USE DEF Return, UploadRaises, SetConfigDone, Uploading, Dialled
<1>0. /\ NONE \notin Exceptions /\ "response" \notin Exceptions
      /\ pc # "idle" => result = "none"
      /\ raised \in Exceptions \cup {NONE}
  BY IosAssumption DEF Exceptions, Control, Phase, Types, Scalars
<1>1. CASE GivesUp
  BY <1>0, <1>1 DEF GivesUp
<1>2. CASE Login \/ PagerEcho \/ PagerPrompt \/ PagerOff \/ Echoed \/ Reconnect
  BY <1>0, <1>2 DEF Login, PagerEcho, PagerPrompt, PagerOff, Echoed, Reconnect, Waiting
<1>7. CASE Verified \/ CopyAsks \/ UploadConnects \/ DialSucceeds \/ Saved
  BY <1>0, <1>7 DEF Verified, CopyAsks, UploadConnects, DialSucceeds, Saved, Responded
<1>3. CASE CopyDone \/ LoadDone \/ LoadInvalid \/ LoadWarns \/ CopyFails \/ Refused \/ Closed
  BY <1>0, <1>3 DEF CopyDone, LoadDone, LoadInvalid, LoadWarns, CopyFails, Refused, Closed, Responded
<1>4. CASE UploadUnconnected \/ NotAcknowledged \/ Acknowledged
  BY <1>0, <1>4 DEF UploadUnconnected, NotAcknowledged, Acknowledged, Received
<1>5. CASE CmdDone
  BY <1>5 DEF CmdDone, Responded
<1>6. CASE DeleteGoesOn \/ DeleteFails
  <2>1. PICK s \in Deleting : pc = s.at /\ (SetConfigDone(FALSE) \/ SetConfigDone(TRUE) \/ UNCHANGED result)
    BY <1>6, Zenon DEF DeleteGoesOn, DeleteFails
  <2>2. pc # "idle"
    BY <2>1 DEF Deleting
  <2> QED
    BY <1>0, <2>1, <2>2
<1> QED
  BY <1>1, <1>2, <1>3, <1>4, <1>5, <1>6, <1>7, FailuresGiveUp, Zenon DEF Step

LEMMA KeepsResponses ==
  ASSUME Types, Control, AnswersOnly, ResponseIsOwn, Next
  PROVE  ResponseIsOwn'
<1> SUFFICES ASSUME op' = "Cmd", fresh', result' = "response" PROVE answer' = {calls'}
  BY DEF ResponseIsOwn
<1>1. CASE Call
  BY <1>1 DEF Call, Connect, Cmd, SetConfig, Disconnect, Begin, Return
<1>2. CASE Step
  <2>1. CmdDone
    BY <1>2, Returning
  <2>2. /\ pc = "echoed" /\ Matched(Waits) /\ answer' = {m.of : m \in Response} /\ calls' = calls
        /\ op = "Cmd" /\ fresh
    BY <2>1 DEF CmdDone, Responded, fixed
  <2>3. HasChild /\ InPeace /\ line.of = calls
    BY <2>2 DEF Control, Reach, Phase, InPeace, Uploading
  <2>4. PICK k : Response = {Mark(k, calls)}
    BY <2>2, <2>3, ResponseRead DEF AnswersOnly
  <2> QED
    BY <2>2, <2>4 DEF Mark
<1>3. CASE Router
  BY <1>3, RouterKeeps DEF Router, ResponseIsOwn
<1> QED
  BY <1>1, <1>2, <1>3 DEF Next

-----------------------------------------------------------------------------
(* How often a command is run *)

LEMMA AtMostOne ==
  ASSUME NEW x, NEW a, a = <<>> \/ a = <<x>>
  PROVE  Len(a) <= 1
<1>1. Len(<<>>) = 0 /\ Len(<<x>>) = 1
  OBVIOUS
<1>2. Len(a) = 0 \/ Len(a) = 1
  BY <1>1, Zenon
<1> QED
  BY <1>2

LEMMA KeepsRuns ==
  ASSUME Types, Control, ClosedIsIdle, ReadsItsOwn, OthersIdle, BeginsWell, AnswersOnly,
         RunsBounded, Next,
         Control', BeginsWell', AnswersOnly'
  PROVE  RunsBounded'
<1> DEFINE lines == sess'[child'].lines
<1> SUFFICES ASSUME fresh', op' = "Cmd"
             PROVE  /\ runs' <= 2
                    /\ pc' \in {"dial"} \cup Dialled => runs' <= 1
                    /\ pc' \in {"sent", "echoed"} /\ ~retrying' => runs' <= 1
                    /\ HasChild' =>
                         /\ Len(lines) <= 1
                         /\ lines # <<>> /\ Head(lines).what = "command" =>
                              runs' <= 1 /\ (pc' = "sent" /\ ~retrying' => runs' = 0)
                    /\ pc' \in {"sent", "echoed"} /\ Texts(sess'[child']) => runs' # 0
  BY DEF RunsBounded, Texts
<1> DEFINE Goal == /\ runs' <= 2
                   /\ pc' \in {"dial"} \cup Dialled => runs' <= 1
                   /\ pc' \in {"sent", "echoed"} /\ ~retrying' => runs' <= 1
                   /\ HasChild' =>
                        /\ Len(lines) <= 1
                        /\ lines # <<>> /\ Head(lines).what = "command" =>
                             runs' <= 1 /\ (pc' = "sent" /\ ~retrying' => runs' = 0)
                   /\ pc' \in {"sent", "echoed"} /\ Texts(sess'[child']) => runs' # 0
<1>0. runs \in Nat /\ Len(<<>>) = 0
  BY DEF Types, Scalars
<1>1. CASE Call
  <2>1. Cmd /\ NothingUnread /\ runs' = 0 /\ child' = child
    BY <1>1 DEF Call, Connect, Cmd, SetConfig, Disconnect, Begin
  <2>2. CASE HasChild
    <3>1. /\ pc' = "sent" /\ Answered(sess'[child], line', "sent") /\ DOMAIN sess' = DOMAIN sess
      <4>1. pc' = "sent" /\ Send(Line("command", calls + 1, NONE))
        BY <2>1, <2>2 DEF Cmd
      <4>2. DOMAIN sess' = DOMAIN sess
        BY <2>2, <4>1, Said DEF Becomes
      <4>3. op' = "Cmd" => ~complained'
        BY <2>1 DEF Cmd, Begin
      <4> QED
        BY <2>1, <2>2, <4>1, <4>2, <4>3 DEF AnswersOnly, InPeace, HasChild
    <3>2. sess'[child].out = <<>>
      <4>1. Send(Line("command", calls + 1, NONE)) /\ Out = <<>>
        BY <2>1, <2>2 DEF Cmd, NothingUnread
      <4> QED
        BY <2>2, <4>1, Said DEF Becomes
    <3>3. Len(lines) <= 1
      <4>1. lines = <<>> \/ lines = <<line'>>
        BY <2>1, <3>1 DEF Answered
      <4> QED
        BY <4>1, AtMostOne, Zenon
    <3> QED
      BY <2>1, <3>1, <3>2, <3>3 DEF Texts, Dialled
  <2>3. CASE ~HasChild
    <3>1. pc' = "idle" /\ ~HasChild'
      BY <2>1, <2>3 DEF Cmd, Return, HasChild
    <3> QED
      BY <2>1, <3>1 DEF Dialled
  <2> QED
    BY <2>2, <2>3
<1>2. CASE DialSucceeds
  <2>1. /\ pc = "dial" /\ pc' = "login" /\ runs' = runs /\ fresh /\ op = "Cmd"
    BY <1>2 DEF DialSucceeds, fixed
  <2>2. lines = <<Plain("login")>>
    BY <1>2, NewSession
  <2>3. Len(lines) <= 1 /\ Head(lines).what = "login"
    BY <2>2 DEF Plain, Line
  <2>4. runs <= 1
    BY <2>1 DEF RunsBounded
  <2> HIDE DEF lines
  <2> QED
    BY <1>0, <2>1, <2>3, <2>4
<1>3. CASE Step /\ ~DialSucceeds
  <2>1. Keeps /\ child' = child /\ Local
    BY <1>3, StepKeeps, StepIsLocal
  <2>2. fresh /\ op = "Cmd" /\ runs' = runs /\ ~complained /\ ~complained'
    BY <2>1 DEF Keeps, Control, Phase
  <2>3. DOMAIN sess' = DOMAIN sess
    BY <2>1 DEF Local
  <2>4. runs <= 2
    BY <2>2 DEF RunsBounded
  <2>5. CASE pc' \in Dialled
    <3>1. pc \in Dialled
      BY <1>3, <2>5, Arriving DEF Login, PagerEcho, PagerPrompt, Dialled
    <3>2. runs <= 1
      BY <2>2, <3>1 DEF RunsBounded
    <3>3. Beginning(sess'[child])
      BY <2>1, <2>5 DEF BeginsWell
    <3>4. Len(lines) <= 1 /\ (lines # <<>> => Head(lines).what # "command")
      <4>1. CASE lines = <<>>
        BY <4>1
      <4>2. ASSUME NEW x \in {"login", "enter", "terminal"}, lines = <<Plain(x)>>
            PROVE  Len(lines) <= 1 /\ Head(lines).what # "command"
        BY <4>2 DEF Plain, Line
      <4> QED
        BY <1>0, <2>1, <3>3, <4>1, <4>2 DEF Beginning
    <3>5. pc' \notin {"sent", "echoed"}
      BY <2>5 DEF Dialled
    <3> HIDE DEF lines
    <3> QED
      BY <2>2, <2>4, <3>2, <3>4, <3>5
  <2>6. CASE pc' = "dial"
    <3>1. /\ Waiting /\ ~retrying /\ ~Open /\ UNCHANGED sess
      BY <1>3, <2>6, Arriving DEF Reconnect, AtEof
    <3>2. runs <= 1
      BY <2>2, <3>1 DEF RunsBounded, Waiting
    <3>3. HasChild => lines = <<>>
      BY <2>1, <3>1 DEF ClosedIsIdle, Open, HasChild
    <3> QED
      BY <1>0, <2>1, <2>2, <2>3, <2>4, <2>6, <3>2, <3>3 DEF HasChild
  <2>7. CASE pc' = "sent"
    <3>1. PagerOff
      BY <1>3, <2>2, <2>7, Arriving DEF CopyDone, LoadDone, Control, Phase, Uploading
    <3>2. retrying' /\ runs <= 1
      <4>1. retrying' = retrying /\ pc \in Dialled
        BY <3>1 DEF PagerOff, Dialled
      <4>2. retrying
        BY <2>2, <4>1 DEF Control, Phase
      <4> QED
        BY <2>2, <4>1, <4>2 DEF RunsBounded
    <3>3. HasChild /\ Becomes(Written(line), <<>>, Exec) /\ sess[child].lines = <<>>
      BY <2>2, <3>1, PagerDone
    <3>4. Len(lines) <= 1 /\ ~Texts(sess'[child])
      <4>1. Written(line) = <<>> \/ Written(line) = <<line>>
        BY <3>3, WasWritten
      <4>2. Len(Written(line)) <= 1
        BY <4>1, AtMostOne, Zenon
      <4> QED
        BY <2>1, <3>3, <4>2 DEF Becomes, Texts
    <3> HIDE DEF lines
    <3> QED
      BY <2>1, <2>2, <2>4, <2>7, <3>2, <3>4 DEF Dialled
  <2>8. CASE pc' = "echoed"
    <3>1. /\ pc = "sent" /\ Matched({"newline"}) /\ Drop({"newline"}) /\ retrying' = retrying
      BY <1>3, <2>8, Arriving DEF Echoed, Waits
    <3>2. HasChild
      BY <3>1 DEF Control, Reach, Uploading
    <3>3. Answered(sess'[child], line', "echoed")
      BY <2>1, <2>2, <2>3, <2>8, <3>2 DEF AnswersOnly, InPeace, HasChild
    <3>4. lines = <<>>
      BY <2>1, <3>3 DEF Answered
    <3>5. ~retrying => runs <= 1
      BY <2>2, <3>1 DEF RunsBounded
    <3>6. Texts(sess'[child]) => Texts(sess[child])
      <4> SUFFICES ASSUME NEW i \in DOMAIN sess'[child].out, sess'[child].out[i].kind = "text"
                   PROVE  Texts(sess[child])
        BY DEF Texts
      <4>1. sess'[child].out = After({"newline"})
        BY <3>1, <3>2, Said DEF Becomes
      <4>2. i + Place({"newline"}) \in DOMAIN Out /\ Out[i + Place({"newline"})].kind = "text"
        BY <3>1, <3>2, <4>1, WasRead
      <4> QED
        BY <4>2 DEF Texts, Out
    <3>7. Texts(sess'[child]) => runs # 0
      BY <2>2, <3>1, <3>6 DEF RunsBounded
    <3> QED
      BY <1>0, <2>1, <2>2, <2>4, <2>8, <3>1, <3>4, <3>5, <3>7 DEF Dialled
  <2>9. CASE pc' = "idle"
    <3>1. UNCHANGED sess \/ (Drop(Waits) /\ Matched(Waits) /\ pc = "echoed")
      BY <1>3, <2>2, <2>9, Arriving
    <3>2. HasChild => sess'[child].lines = sess[child].lines
      BY <3>1, Said DEF Becomes
    <3>3. HasChild' => /\ HasChild
                       /\ Len(lines) <= 1
                       /\ lines # <<>> /\ Head(lines).what = "command" => runs <= 1
      BY <2>1, <2>2, <2>3, <3>2 DEF RunsBounded, HasChild
    <3> HIDE DEF lines
    <3> QED
      BY <2>2, <2>4, <2>9, <3>3 DEF Dialled
  <2>10. pc' \in {"idle", "dial", "sent", "echoed"} \cup Dialled
    <3>1. pc' \in Pcs
      BY <1>3, StepPhase
    <3>2. pc' \notin Uploading \cup {"copy", "load", "exit"} \cup Erasing
      BY DEF Control, Phase
    <3> QED
      BY <3>1, <3>2 DEF Pcs
  <2> QED
    BY <2>5, <2>6, <2>7, <2>8, <2>9, <2>10
<1>4. CASE Router
  <2>1. PICK s \in DOMAIN sess : Works(s) \/ LoseSession(s)
    BY <1>4 DEF Router
  <2>2. UNCHANGED <<child, pc, op, line, fresh, retrying, calls>> /\ fresh /\ op = "Cmd"
    BY <2>1, RouterKeeps
  <2>3. HasChild /\ InPeace
    BY <2>1, <2>2, RouterInPeace DEF HasChild, Control, Phase, InPeace
  <2>4. ASSUME NEW marks, NEW mode, Tells(marks, mode), Open, sess[child].lines # <<>>
        PROVE  Goal
    <3>1. /\ Len(sess[child].lines) <= 1
          /\ Head(sess[child].lines).what = "command" =>
               runs <= 1 /\ (pc = "sent" /\ ~retrying => runs = 0)
      BY <2>2, <2>3, <2>4 DEF RunsBounded
    <3>2. lines = Tail(sess[child].lines) /\ DOMAIN sess' = DOMAIN sess
      BY <2>2, <2>4 DEF Tells, Becomes
    <3>3. lines = <<>>
      <4> DEFINE L == Lines(0..calls, Uploaded, Settled)
      <4>1. sess[child].lines \in Seq(L)
        BY <2>3, TalkParts DEF Types
      <4> HIDE DEF L
      <4> QED
        BY <2>4, <3>1, <3>2, <4>1
    <3>4. \/ runs' = runs
          \/ /\ runs' = runs + 1 /\ Head(sess[child].lines).what = "command"
             /\ Reports(child, marks, mode)
      BY <2>4 DEF Tells, Reports, Queries, Finishes, Effect, Typed, Handed, Hand
    <3>5. pc \in {"dial"} \cup Dialled => runs' = runs
      <4>1. pc # "dial"
        BY <2>2, <2>4 DEF Control, Reach
      <4>2. pc \in Dialled => Head(sess[child].lines).what # "command"
        <5> SUFFICES ASSUME pc \in Dialled PROVE Head(sess[child].lines).what # "command"
          OBVIOUS
        <5>1. PICK x \in {"login", "enter", "terminal"} : sess[child].lines = <<Plain(x)>>
          BY <2>4 DEF BeginsWell, Beginning
        <5> QED
          BY <5>1 DEF Plain, Line
      <4> QED
        BY <3>4, <4>1, <4>2
    <3>6. pc \in {"sent", "echoed"} => /\ pc = "sent" /\ sess[child].lines = <<line>>
                                      /\ sess[child].mode = Exec /\ Out = <<>>
      BY <2>3, <2>4 DEF AnswersOnly, Answered, Out
    <3>7. pc = "sent" /\ Texts(sess'[child]) => runs' # 0
      <4> SUFFICES ASSUME pc = "sent", Texts(sess'[child]) PROVE runs' # 0
        OBVIOUS
      <4>1. line.what = "command" /\ line.of = calls
        BY <2>2 DEF Control, Phase
      <4>2. Hand(child) = line
        BY <3>6 DEF Hand, Exec, Plain, Line, Typed
      <4>3. PICK kind : Effect(line, kind) /\ marks = Says(line, kind)
        BY <2>4, <4>1, <4>2 DEF Tells, Reports, Queries, Finishes
      <4>4. sess'[child].out = marks
        <5>1. sess'[child].out = Out \o marks
          BY <2>4 DEF Tells, Becomes
        <5> QED
          BY <3>6, <4>3, <5>1 DEF Says
      <4>5. kind = "text"
        BY <4>3, <4>4 DEF Texts, Says, Mark
      <4> QED
        BY <1>0, <4>1, <4>3, <4>5 DEF Effect
    <3> HIDE DEF lines
    <3> QED
      BY <1>0, <2>2, <3>1, <3>3, <3>4, <3>5, <3>6, <3>7 DEF RunsBounded
  <2>5. CASE Cut(sess[child], sess'[child]) /\ UNCHANGED runs
    <3>1. lines = <<>>
      BY <2>2, <2>5 DEF Cut
    <3>2. Texts(sess'[child]) => Texts(sess[child])
      BY <2>5 DEF Cut, Texts
    <3> HIDE DEF lines
    <3> QED
      BY <1>0, <2>2, <2>5, <3>1, <3>2 DEF RunsBounded
  <2> QED
    BY <2>1, <2>2, <2>3, <2>4, <2>5, RouterOnChild, RouterInPeace
<1> QED
  BY <1>1, <1>2, <1>3, <1>4 DEF Next

-----------------------------------------------------------------------------
(* The promise of Cmd *)

\* What the steps of the abstract channel are in terms of the calls.
Followed == op = "Cmd" /\ fresh
Busy == Followed /\ pc # "idle"
Done == Followed /\ result = "response"
Ran == IF Followed THEN runs ELSE 0

LEMMA ChannelSteps ==
  ASSUME \/ Ran' = Ran /\ (Busy' <=> Busy) /\ (Done' <=> Done)
         \/ ~Busy /\ Busy' /\ Ran' = 0 /\ ~Done'
         \/ ~Busy /\ ~Busy' /\ Ran' = 0 /\ ~Done'
         \/ Ran < 2 /\ Ran' = Ran + 1 /\ (Busy' <=> Busy) /\ (Done' <=> Done)
         \/ Busy /\ Ran > 0 /\ ~Busy' /\ Ran' = Ran /\ Done'
         \/ Busy /\ ~Busy' /\ Ran' \in Ran..2 /\ ~Done /\ ~Done'
  PROVE  [Channel!Next]_(Channel!channel)
BY DEF Channel!Next, Channel!channel, Channel!Begin, Channel!Run, Channel!Answer, Channel!Fail,
   Channel!Other, Busy, Ran, Done, Followed

LEMMA ChannelStep ==
  ASSUME Types, Control, OthersIdle, AnswersOnly, RunsBounded, Control', RunsBounded', [Next]_vars
  PROVE  [Channel!Next]_(Channel!channel)
<1>0. runs \in Nat /\ (pc # "idle" => result = "none") /\ (pc' # "idle" => result' = "none")
  BY DEF Types, Scalars, Control, Phase
<1>1. CASE Call
  <2>1. ~Busy /\ runs' = 0 /\ (result' # "response")
    BY <1>1 DEF Call, Connect, Cmd, SetConfig, Disconnect, Begin, Busy, Return
  <2>2. Ran' = 0 /\ ~Done'
    BY <2>1 DEF Ran, Done
  <2> QED
    BY <2>1, <2>2, ChannelSteps
<1>2. CASE Step
  <2>1. Keeps /\ pc # "idle"
    BY <1>2, StepKeeps, Returning
  <2>2. (Followed' <=> Followed) /\ Ran' = Ran /\ ~Done
    BY <1>0, <2>1 DEF Keeps, Followed, Ran, Done
  <2>3. CASE ~Followed
    <3>1. ~Busy /\ ~Busy' /\ ~Done'
      BY <2>2, <2>3 DEF Busy, Done
    <3> QED
      BY <2>2, <3>1, ChannelSteps
  <2>4. CASE Followed /\ pc' # "idle"
    <3>1. Busy /\ Busy' /\ ~Done'
      BY <1>0, <2>1, <2>2, <2>4 DEF Busy, Done
    <3> QED
      BY <2>2, <3>1, ChannelSteps
  <2>5. CASE Followed /\ pc' = "idle" /\ result' # "response"
    <3>1. Busy /\ ~Busy' /\ ~Done'
      BY <2>1, <2>5 DEF Busy, Done
    <3>2. Ran \in Ran..2
      BY <1>0, <2>5 DEF RunsBounded, Ran, Followed
    <3> QED
      BY <2>2, <3>1, <3>2, ChannelSteps
  <2>6. CASE Followed /\ pc' = "idle" /\ result' = "response"
    <3>1. CmdDone
      BY <1>2, <2>6, Returning
    <3>2. pc = "echoed" /\ Matched(Waits) /\ ~Invalid
      BY <3>1 DEF CmdDone, Responded
    <3>3. HasChild /\ InPeace /\ line.what = "command"
      BY <2>6, <3>2 DEF Control, Reach, Phase, InPeace, Uploading, Followed
    <3>4. PICK k \in {"text", "invalid"} :
            /\ Invalid <=> k \in {"invalid", "denied"}
            /\ 1 \in DOMAIN Out /\ Out[1].kind = k
      BY <3>2, <3>3, ResponseRead DEF AnswersOnly, Expected, Contents
    <3>5. Texts(sess[child])
      BY <3>2, <3>4 DEF Texts, Out
    <3>6. Ran > 0
      BY <1>0, <2>6, <3>2, <3>5 DEF RunsBounded, Ran, Followed
    <3>7. Busy /\ ~Busy' /\ Done'
      BY <2>1, <2>2, <2>6 DEF Busy, Done
    <3> QED
      BY <2>2, <3>6, <3>7, ChannelSteps
  <2> QED
    BY <2>3, <2>4, <2>5, <2>6
<1>3. CASE Router
  <2>1. PICK s \in DOMAIN sess : Works(s) \/ LoseSession(s)
    BY <1>3 DEF Router
  <2>2. UNCHANGED <<op, fresh, pc, result>>
    BY <2>1, RouterKeeps
  <2>3. (Followed' <=> Followed) /\ (Busy' <=> Busy) /\ (Done' <=> Done)
    BY <2>2 DEF Followed, Busy, Done
  <2>4. runs' = runs \/ runs' = runs + 1
    BY <2>1 DEF LoseSession, Works, Echo, Exits, RunsCommand, Verifies, StartsCopy,
       TakesDestination, TakesOverwrite, Saves, StartsDelete, TakesName, Deletes
  <2>5. Ran' = Ran \/ (Ran < 2 /\ Ran' = Ran + 1)
    <3>1. Followed => runs' <= 2
      BY <2>3 DEF RunsBounded, Followed
    <3> QED
      BY <1>0, <2>3, <2>4, <3>1 DEF Ran
  <2> QED
    BY <2>3, <2>5, ChannelSteps
<1>4. CASE UNCHANGED vars
  <2>1. Ran' = Ran /\ (Busy' <=> Busy) /\ (Done' <=> Done)
    BY <1>4 DEF vars, history, Ran, Busy, Done, Followed
  <2> QED
    BY <2>1, ChannelSteps
<1> QED
  BY <1>1, <1>2, <1>3, <1>4 DEF Next

-----------------------------------------------------------------------------
(* The checksum of a file is the last the router has to say about it *)

\* What the session in hand is after an answer.
LEMMA Told ==
  ASSUME Types, HasChild, NEW marks, NEW mode, Tells(marks, mode), sess[child].lines # <<>>
  PROVE  LET c == sess[child]
             d == sess'[child]
         IN  /\ 1 \in DOMAIN c.lines /\ Typed(child) = c.lines[1]
             /\ Len(d.lines) = Len(c.lines) - 1 /\ Len(c.lines) \in Nat
             /\ \A i \in DOMAIN d.lines : i \in Nat /\ i + 1 \in DOMAIN c.lines /\ d.lines[i] = c.lines[i + 1]
             /\ Len(c.lines) = 1 => d.lines = <<>>
             /\ Len(d.out) = Len(Out) + Len(marks) /\ Len(Out) \in Nat /\ Len(marks) \in Nat
             /\ \A i \in DOMAIN d.out :
                  \/ i \in DOMAIN Out /\ d.out[i] = Out[i]
                  \/ i > Len(Out) /\ i - Len(Out) \in DOMAIN marks /\ d.out[i] = marks[i - Len(Out)]
             /\ \A i \in DOMAIN d.out : i \in 1..Len(d.out)
             /\ Out = <<>> => d.out = marks
             /\ d.mode = mode
<1> DEFINE L == Lines(0..calls, Uploaded, Settled)
           M == Marks(0..calls, Settled)
<1>1. sess[child].lines \in Seq(L) /\ Out \in Seq(M) /\ marks \in Seq(M)
  BY TalkParts DEF Types, Tells
<1>2. /\ sess'[child].lines = Tail(sess[child].lines) /\ sess'[child].out = Out \o marks
      /\ sess'[child].mode = mode
  BY DEF Tells, Becomes
<1> HIDE DEF L, M
<1>3. /\ Len(Out \o marks) = Len(Out) + Len(marks) /\ Len(Out) \in Nat /\ Len(marks) \in Nat
      /\ \A i \in DOMAIN (Out \o marks) :
           \/ i \in DOMAIN Out /\ (Out \o marks)[i] = Out[i]
           \/ i > Len(Out) /\ i - Len(Out) \in DOMAIN marks /\ (Out \o marks)[i] = marks[i - Len(Out)]
      /\ Out = <<>> => Out \o marks = marks
      /\ \A i \in DOMAIN (Out \o marks) : i \in 1..Len(Out \o marks)
  BY <1>1, Joined
<1> DEFINE a == sess[child].lines
<1>4. a \in Seq(L) /\ a # <<>>
  BY <1>1
<1> HIDE DEF a
<1>5. /\ Len(Tail(a)) = Len(a) - 1 /\ Len(a) \in Nat
      /\ \A i \in DOMAIN Tail(a) : i \in Nat /\ i + 1 \in DOMAIN a /\ Tail(a)[i] = a[i + 1]
      /\ 1 \in DOMAIN a /\ Head(a) = a[1]
      /\ Len(a) = 1 => Tail(a) = <<>>
  <2>1. /\ Len(Tail(a)) = Len(a) - 1 /\ Len(a) \in Nat /\ Tail(a) \in Seq(L)
        /\ 1 \in DOMAIN a /\ Head(a) = a[1]
    BY <1>4
  <2>2. \A i \in DOMAIN Tail(a) : i + 1 \in DOMAIN a /\ Tail(a)[i] = a[i + 1]
    BY <1>4
  <2>3. \A i \in DOMAIN Tail(a) : i \in Nat
    BY <2>1
  <2>4. Len(a) = 1 => Tail(a) = <<>>
    <3> DEFINE b == Tail(a)
    <3>1. b \in Seq(L) /\ (Len(a) = 1 => Len(b) = 0)
      BY <2>1
    <3> HIDE DEF b
    <3>2. Len(b) = 0 => b = <<>>
      BY <3>1, EmptySeq, Zenon
    <3> QED
      BY <3>1, <3>2 DEF b
  <2> QED
    BY <2>1, <2>2, <2>3, <2>4
<1> QED
  BY <1>2, <1>3, <1>5 DEF a, Typed

\* What is said is about the line in hand.
LEMMA SaidOfHand ==
  ASSUME NEW marks, NEW mode, Tells(marks, mode)
  PROVE  /\ \A i \in DOMAIN marks : marks[i].of \in {0, Hand(child).of}
         /\ mode.of \in {0, Hand(child).of}
<1>1. ASSUME NEW kind PROVE /\ \A i \in DOMAIN Says(Hand(child), kind) : Says(Hand(child), kind)[i].of = Hand(child).of
                            /\ \A i \in DOMAIN Asks(Hand(child), kind) : Asks(Hand(child), kind)[i].of = Hand(child).of
  BY DEF Says, Asks, Mark
<1>2. /\ \A i \in DOMAIN Prompts(Hand(child)) : Prompts(Hand(child))[i].of = Hand(child).of
      /\ \A i \in DOMAIN Prompts(CR) : Prompts(CR)[i].of = 0
      /\ \A i \in DOMAIN Says(CR, "denied") : Says(CR, "denied")[i].of = 0
      /\ \A i \in DOMAIN <<Mark("prompt", 0)>> : <<Mark("prompt", 0)>>[i].of = 0
      /\ Exec.of = 0
  BY DEF Says, Prompts, Mark, CR, Exec, Plain, Line
<1>3. ASSUME NEW x PROVE [Hand(child) EXCEPT !.what = x].of = Hand(child).of
  OBVIOUS
<1>4. CASE Reports(child, marks, mode)
  <2>1. PICK kind : marks = Says(Hand(child), kind) /\ mode = Exec
    BY <1>4 DEF Reports
  <2> QED
    BY <1>1, <1>2, <2>1
<1>5. CASE Queries(child, marks, mode)
  <2>1. PICK kind, what : marks = Asks(Hand(child), kind) /\ mode = [Hand(child) EXCEPT !.what = what]
    BY <1>5 DEF Queries
  <2> QED
    BY <1>1, <1>3, <2>1
<1>6. CASE Finishes(child, marks, mode)
  BY <1>2, <1>6, Zenon DEF Finishes
<1> QED
  BY <1>4, <1>5, <1>6 DEF Tells

LEMMA UnmentionedGoesOn ==
  ASSUME Types, HasChild, calls # 0, Unmentioned(sess[child]),
         NEW s \in DOMAIN sess, Works(s) \/ LoseSession(s)
  PROVE  Unmentioned(sess'[child])
<1>1. CASE sess'[child] = sess[child]
  BY <1>1
<1>2. CASE Cut(sess[child], sess'[child])
  BY <1>2 DEF Cut, Unmentioned
<1>3. ASSUME NEW marks, NEW mode, Tells(marks, mode), sess[child].lines # <<>>
      PROVE  Unmentioned(sess'[child])
  <2>1. Hand(child).of # calls
    BY <1>3, Told DEF Unmentioned, Hand
  <2>2. mode.of # calls /\ \A i \in DOMAIN marks : marks[i].of # calls
    BY <1>3, <2>1, SaidOfHand
  <2>3. \A i \in DOMAIN sess'[child].lines : sess'[child].lines[i].of # calls
    BY <1>3, Told DEF Unmentioned
  <2>4. \A i \in DOMAIN sess'[child].out : sess'[child].out[i].of # calls
    BY <1>3, <2>2, Told DEF Unmentioned, Out
  <2> QED
    BY <1>3, <2>2, <2>3, <2>4, Told DEF Unmentioned
<1> QED
  BY <1>1, <1>2, <1>3, RouterOnChild

LEMMA OutputTyped ==
  ASSUME Types, HasChild, NEW s \in DOMAIN sess, Works(s) \/ LoseSession(s)
  PROVE  /\ \A i \in DOMAIN sess'[child].out : i \in Nat /\ i <= Len(sess'[child].out)
         /\ Len(sess'[child].out) \in Nat /\ Len(sess[child].out) \in Nat
<1> DEFINE c == sess[child]
           d == sess'[child]
<1>1. RouterLocal(s) /\ sess \in Seq(Sessions(0..calls, Uploaded, Settled))
  BY WorkIsLocal, LossIsLocal DEF Types
<1>2. sess' \in Seq(Sessions(0..calls, Uploaded, Settled)) /\ child \in DOMAIN sess'
  BY <1>1 DEF RouterLocal, HasChild
<1>3. c \in Sessions(0..calls, Uploaded, Settled) /\ d \in Sessions(0..calls, Uploaded, Settled)
  BY <1>1, <1>2, ElementOfSeq DEF HasChild
<1>4. c.out \in Seq(Marks(0..calls, Settled)) /\ d.out \in Seq(Marks(0..calls, Settled))
  BY <1>3 DEF Sessions
<1>5. /\ \A i \in DOMAIN d.out : i \in Nat /\ i <= Len(d.out)
      /\ Len(d.out) \in Nat /\ Len(c.out) \in Nat
  <2> DEFINE M == Marks(0..calls, Settled)
  <2> HIDE DEF M, c, d
  <2> QED
    BY <1>4 DEF M
<1> QED
  BY <1>5

LEMMA ChecksumStaysLast ==
  ASSUME Types, HasChild, calls # 0, ChecksumIsLast(sess[child]),
         NEW s \in DOMAIN sess, Works(s) \/ LoseSession(s)
  PROVE  ChecksumIsLast(sess'[child])
<1>1. CASE sess'[child] = sess[child]
  BY <1>1
<1>2. CASE Cut(sess[child], sess'[child])
  <2> DEFINE c == sess[child]
             d == sess'[child]
  <2>1. /\ d.lines = <<>> /\ d.mode = c.mode /\ c.mode.of # calls
        /\ Len(d.out) <= Len(c.out)
        /\ \A i \in DOMAIN d.out : i \in DOMAIN c.out /\ d.out[i] = c.out[i]
    BY <1>2 DEF Cut, ChecksumIsLast
  <2>2. /\ \A i \in DOMAIN d.out : i \in Nat
        /\ Len(d.out) \in Nat /\ Len(c.out) \in Nat
    BY OutputTyped
  <2>3. ASSUME NEW i \in DOMAIN d.out, d.out[i] = Mark("checksum", calls)
        PROVE  /\ d.mode = Exec /\ Len(d.out) <= i + 2
               /\ i + 1 \in DOMAIN d.out => d.out[i + 1].kind = "newline"
    <3>1. i \in DOMAIN c.out /\ c.out[i] = Mark("checksum", calls)
      BY <2>1, <2>3
    <3>2. /\ c.mode = Exec /\ Len(c.out) <= i + 2
          /\ i + 1 \in DOMAIN c.out => c.out[i + 1].kind = "newline"
      BY <3>1 DEF ChecksumIsLast
    <3> HIDE DEF c, d
    <3> QED
      BY <2>1, <2>2, <2>3, <3>2
  <2> QED
    BY <2>1, <2>3 DEF ChecksumIsLast
<1>3. ASSUME NEW marks, NEW mode, Tells(marks, mode), sess[child].lines # <<>>
      PROVE  ChecksumIsLast(sess'[child])
  <2> DEFINE d == sess'[child]
  <2>1. /\ \A i \in DOMAIN sess[child].lines : sess[child].lines[i].of = calls =>
             i = Len(sess[child].lines) /\ sess[child].lines[i].what = "verify"
        /\ \A i \in DOMAIN Out : Out[i] # Mark("checksum", calls)
        /\ sess[child].mode.of # calls
    BY <1>3 DEF ChecksumIsLast, Out
  <2>2. /\ 1 \in DOMAIN sess[child].lines /\ Typed(child) = sess[child].lines[1]
        /\ Len(d.lines) = Len(sess[child].lines) - 1 /\ Len(sess[child].lines) \in Nat
        /\ \A i \in DOMAIN d.lines : /\ i \in Nat /\ i + 1 \in DOMAIN sess[child].lines
                                     /\ d.lines[i] = sess[child].lines[i + 1]
        /\ Len(sess[child].lines) = 1 => d.lines = <<>>
        /\ Len(d.out) = Len(Out) + Len(marks) /\ Len(Out) \in Nat /\ Len(marks) \in Nat
        /\ \A i \in DOMAIN d.out :
             \/ i \in DOMAIN Out /\ d.out[i] = Out[i]
             \/ i > Len(Out) /\ i - Len(Out) \in DOMAIN marks /\ d.out[i] = marks[i - Len(Out)]
        /\ \A i \in DOMAIN d.out : i \in 1..Len(d.out)
        /\ d.mode = mode
    BY <1>3, Told
  <2> HIDE DEF d
  <2>3. \A i \in DOMAIN d.lines : d.lines[i].of = calls => i = Len(d.lines) /\ d.lines[i].what = "verify"
    BY <2>1, <2>2
  <2>4. CASE Hand(child).of # calls
    <3>1. mode.of # calls /\ \A i \in DOMAIN marks : marks[i].of # calls
      BY <1>3, <2>4, SaidOfHand
    <3>2. \A i \in DOMAIN d.out : d.out[i] # Mark("checksum", calls)
      BY <2>1, <2>2, <3>1 DEF Mark
    <3> QED
      BY <2>2, <2>3, <3>1, <3>2 DEF ChecksumIsLast, d
  <2>5. CASE Hand(child).of = calls
    <3>1. Hand(child) = Typed(child) /\ Hand(child).what = "verify" /\ d.lines = <<>>
      BY <2>1, <2>2, <2>5 DEF Hand
    <3>2. PICK kind : marks = Says(Hand(child), kind)
      BY <1>3, <3>1 DEF Tells, Reports, Queries, Finishes
    <3>3. mode = Exec
      BY <1>3, <3>1 DEF Tells, Reports, Queries, Finishes
    <3>4. /\ DOMAIN marks = 1..4 /\ Len(marks) = 4
          /\ marks[1] # Mark("checksum", calls) /\ marks[3].kind = "newline" /\ marks[3] # Mark("checksum", calls)
          /\ marks[4] # Mark("checksum", calls)
      BY <3>2 DEF Says, Mark
    <3>5. ASSUME NEW i \in DOMAIN d.out, d.out[i] = Mark("checksum", calls)
          PROVE  /\ Len(d.out) <= i + 2
                 /\ i + 1 \in DOMAIN d.out => d.out[i + 1].kind = "newline"
      <4> HIDE DEF Mark
      <4>1. i - Len(Out) \in 1..4 /\ marks[i - Len(Out)] = Mark("checksum", calls) /\ i \in Nat
        BY <2>1, <2>2, <3>4, <3>5
      <4>2. i = Len(Out) + 2
        <5>1. i - Len(Out) = 2
          BY <3>4, <4>1
        <5> QED
          BY <2>2, <4>1, <5>1
      <4>3. i + 1 \in DOMAIN d.out => d.out[i + 1] = marks[3]
        <5> SUFFICES ASSUME i + 1 \in DOMAIN d.out PROVE d.out[i + 1] = marks[3]
          OBVIOUS
        <5>1. i + 1 \notin DOMAIN Out
          <6>1. Out \in Seq(Marks(0..calls, Settled))
            BY TalkParts DEF Types
          <6> DEFINE M == Marks(0..calls, Settled)
          <6> HIDE DEF M
          <6>2. DOMAIN Out = 1..Len(Out)
            BY <6>1 DEF M
          <6> QED
            BY <2>2, <4>2, <6>2
        <5>2. (i + 1) - Len(Out) = 3
          BY <2>2, <4>2
        <5> QED
          BY <2>2, <5>1, <5>2
      <4> QED
        BY <2>2, <3>4, <4>2, <4>3
    <3>6. Exec.of = 0
      BY DEF Exec, Plain, Line
    <3> QED
      BY <2>2, <2>3, <3>1, <3>3, <3>5, <3>6 DEF ChecksumIsLast, d
  <2> QED
    BY <2>4, <2>5
<1> QED
  BY <1>1, <1>2, <1>3, RouterOnChild

\* What is known of the calls begins with the last one.
LEMMA NothingOfNext ==
  ASSUME Types, HasChild, NEW n, n = calls + 1
  PROVE  LET c == sess[child]
         IN  /\ c.mode.of # n
             /\ \A i \in DOMAIN c.lines : c.lines[i].of # n
             /\ \A i \in DOMAIN c.out : c.out[i].of # n
<1> DEFINE L == Lines(0..calls, Uploaded, Settled)
           M == Marks(0..calls, Settled)
           c == sess[child]
<1>1. calls \in Nat /\ sess \in Seq(Sessions(0..calls, Uploaded, Settled))
  BY DEF Types, Scalars
<1>2. c \in Sessions(0..calls, Uploaded, Settled)
  BY <1>1, ElementOfSeq DEF HasChild
<1>3. c.mode \in L /\ c.lines \in Seq(L) /\ c.out \in Seq(M)
  BY <1>2 DEF Sessions
<1>4. (\A l \in L : l.of \in 0..calls) /\ (\A m \in M : m.of \in 0..calls)
  BY DEF Lines, Marks
<1> HIDE DEF L, M, c
<1>5. /\ \A i \in DOMAIN c.lines : c.lines[i] \in L
      /\ \A i \in DOMAIN c.out : c.out[i] \in M
  BY <1>3, ElementOfSeq
<1>6. n \notin 0..calls
  BY <1>1
<1>7. c.mode.of # n /\ \A i \in DOMAIN c.lines : c.lines[i].of # n
  BY <1>3, <1>4, <1>5, <1>6
<1>8. \A i \in DOMAIN c.out : c.out[i].of # n
  BY <1>4, <1>5, <1>6
<1> QED
  BY <1>7, <1>8 DEF c

LEMMA KeepsChecksums ==
  ASSUME Types, Control, BeginsWell, VerifiesLast, Next, Control'
  PROVE  VerifiesLast'
<1> SUFFICES ASSUME Verifying', HasChild'
             PROVE  /\ pc' \in Uploading => Unmentioned(sess[child])'
                    /\ pc' \in {"sent", "echoed"} => ChecksumIsLast(sess[child])'
  BY DEF VerifiesLast
<1>0. /\ "sent" \notin Uploading /\ "echoed" \notin Uploading
      /\ op' = "SetConfig" /\ line'.what = "verify" /\ raised' = NONE
  BY DEF Uploading, Verifying
<1>1. CASE Call
  <2>1. /\ pc' = "upload" /\ UNCHANGED <<child, sess>> /\ calls' = calls + 1
    BY <1>0, <1>1 DEF Call, Connect, Cmd, SetConfig, Disconnect, Begin, NextCall
  <2>2. HasChild
    BY <2>1 DEF HasChild
  <2> QED
    BY <1>0, <2>1, <2>2, NothingOfNext DEF Unmentioned
<1>2. CASE Step
  <2>1. Keeps /\ op = "SetConfig" /\ calls' = calls /\ calls # 0
    <3>1. Keeps
      BY <1>2, StepKeeps
    <3>2. op = "SetConfig" /\ calls' = calls
      BY <1>0, <3>1 DEF Keeps
    <3> QED
      BY <3>1, <3>2 DEF Control, Phase
  <2>2. CASE pc' \in Uploading
    <3>1. pc \in Uploading /\ UNCHANGED <<child, line, sess>>
      BY <1>2, <2>2, Arriving
    <3>2. pc # "idle" /\ raised = NONE
      BY <3>1 DEF Uploading, Erasing, Control, Phase
    <3> QED
      BY <1>0, <2>1, <2>2, <3>1, <3>2 DEF VerifiesLast, Verifying, HasChild, Unmentioned
  <2>3. CASE pc' = "sent"
    <3>1. ASSUME HasChild, child' = child, line.of = calls, line.what = "verify", Becomes(Written(line), Out, sess[child].mode),
                 Unmentioned(sess[child])
          PROVE  ChecksumIsLast(sess[child])'
      <4>1. \A i \in DOMAIN Written(line) : Written(line)[i].of = calls =>
              i = Len(Written(line)) /\ Written(line)[i].what = "verify"
        BY <3>1, WasWritten DEF Unmentioned
      <4>2. \A i \in DOMAIN Out : Out[i] # Mark("checksum", calls)
        BY <3>1 DEF Unmentioned, Out, Mark
      <4> QED
        BY <2>1, <3>1, <4>1, <4>2 DEF ChecksumIsLast, Becomes, Unmentioned
    <3>2. CASE PagerOff
      <4>1. /\ HasChild /\ UNCHANGED <<child, line>> /\ sess[child].lines = <<>>
            /\ Becomes(Written(line), <<>>, Exec)
        BY <2>1, <3>2, PagerDone
      <4>2. Written(line) = <<>> \/ Written(line) = <<line>>
        BY <4>1, WasWritten
      <4>3. \A i \in DOMAIN Written(line) : i = Len(Written(line)) /\ Written(line)[i] = line
        BY <4>2
      <4>4. Exec.of = 0
        BY DEF Exec, Plain, Line
      <4>5. line.what = "verify" /\ sess'[child].lines = Written(line)
        BY <1>0, <4>1 DEF Becomes
      <4>6. sess'[child].out = <<>> /\ sess'[child].mode = Exec /\ calls' = calls /\ child' = child
        BY <2>1, <4>1 DEF Becomes
      <4>7. ChecksumIsLast(sess[child])'
        <5>1. \A i \in DOMAIN sess'[child].lines : i = Len(sess'[child].lines) /\ sess'[child].lines[i].what = "verify"
          BY <4>3, <4>5
        <5> QED
          BY <2>1, <4>4, <4>6, <5>1 DEF ChecksumIsLast
      <4> QED
        BY <2>3, <4>7 DEF Uploading
    <3>3. CASE Acknowledged /\ pc = "data" /\ HasChild /\ Send(line)
      <4>1. UNCHANGED <<child, line>> /\ line.what = "verify" /\ line.of = calls /\ raised = NONE
        BY <2>1, <3>3 DEF Acknowledged, object, Control, Phase, Uploading, Erasing
      <4>2. Unmentioned(sess[child])
        BY <2>1, <3>3, <4>1 DEF VerifiesLast, Verifying, Uploading
      <4>3. Becomes(Written(line), Out, sess[child].mode)
        BY <3>3, Said
      <4> QED
        BY <1>0, <2>3, <3>1, <3>3, <4>1, <4>2, <4>3
    <3>4. ~(CopyDone \/ LoadDone)
      <4> SUFFICES ASSUME CopyDone \/ LoadDone PROVE FALSE
        OBVIOUS
      <4>1. line' = [line EXCEPT !.what = "save"]
        BY <2>3 DEF CopyDone, LoadDone, Copied, DeleteFile
      <4> QED
        BY <1>0, <4>1 DEF Types, Scalars
    <3> QED
      BY <1>0, <1>2, <2>3, <3>2, <3>3, <3>4, Arriving
  <2>4. CASE pc' = "echoed"
    <3>1. /\ pc = "sent" /\ Matched({"newline"}) /\ Drop({"newline"}) /\ UNCHANGED <<child, line, raised>>
      BY <1>2, <2>4, Arriving DEF Echoed, Waits, object
    <3>2. HasChild /\ Verifying
      BY <1>0, <2>1, <3>1 DEF Control, Reach, Uploading, Verifying
    <3> DEFINE p == Place({"newline"})
               a == After({"newline"})
    <3>3. /\ p \in Nat \ {0} /\ Len(a) = Len(Out) - p
          /\ \A i \in DOMAIN a : i + p \in DOMAIN Out /\ a[i] = Out[i + p]
      BY <3>1, <3>2, WasRead
    <3>4. ChecksumIsLast(sess[child])
      BY <3>1, <3>2 DEF VerifiesLast
    <3>5. Becomes(sess[child].lines, a, sess[child].mode)
      BY <3>1, <3>2, Said
    <3>6. \A i \in DOMAIN a : i \in Nat
      <4>1. a \in Seq(Marks(0..calls, Settled))
        BY <3>2, TalkParts DEF Types
      <4> DEFINE M == Marks(0..calls, Settled)
      <4> HIDE DEF M, a
      <4> QED
        BY <4>1 DEF M
    <3>7. Len(Out) \in Nat
      <4>1. Out \in Seq(Marks(0..calls, Settled))
        BY <3>2, TalkParts DEF Types
      <4> DEFINE M == Marks(0..calls, Settled)
      <4> HIDE DEF M
      <4> QED
        BY <4>1 DEF M
    <3> HIDE DEF a, p
    <3>8. ASSUME NEW i \in DOMAIN a, a[i] = Mark("checksum", calls)
          PROVE  /\ sess[child].lines = <<>> /\ sess[child].mode = Exec
                 /\ Len(a) <= i + 2
                 /\ i + 1 \in DOMAIN a => a[i + 1].kind = "newline"
      <4>1. /\ i + p \in DOMAIN Out /\ Out[i + p] = Mark("checksum", calls)
            /\ sess[child].lines = <<>> /\ sess[child].mode = Exec
            /\ Len(Out) <= (i + p) + 2
            /\ (i + p) + 1 \in DOMAIN Out => Out[(i + p) + 1].kind = "newline"
        BY <3>3, <3>4, <3>8 DEF ChecksumIsLast, Out
      <4>2. (i + p) + 1 = (i + 1) + p
        BY <3>3, <3>6
      <4>3. Len(a) <= i + 2
        BY <3>3, <3>6, <3>7, <4>1
      <4> QED
        BY <3>3, <4>1, <4>2, <4>3
    <3> QED
      BY <1>0, <2>1, <2>4, <3>1, <3>4, <3>5, <3>8 DEF Becomes, ChecksumIsLast
  <2> QED
    BY <2>2, <2>3, <2>4
<1>3. CASE Router
  <2>1. PICK s \in DOMAIN sess : Works(s) \/ LoseSession(s)
    BY <1>3 DEF Router
  <2>2. UNCHANGED <<child, pc, op, line, raised, calls>>
    BY <2>1, RouterKeeps
  <2>3. Verifying /\ calls # 0
    BY <1>0, <2>2 DEF Verifying, Control, Phase
  <2>4. CASE ~HasChild
    <3>1. DOMAIN sess' = DOMAIN sess
      BY <2>1, WorkIsLocal, LossIsLocal DEF RouterLocal
    <3> QED
      BY <2>2, <2>4, <3>1 DEF HasChild
  <2>5. CASE HasChild /\ pc \in Uploading
    <3>1. Unmentioned(sess'[child])
      BY <2>1, <2>3, <2>5, UnmentionedGoesOn DEF VerifiesLast
    <3> QED
      BY <1>0, <2>2, <2>5, <3>1 DEF Unmentioned
  <2>6. CASE HasChild /\ pc \in {"sent", "echoed"}
    <3>1. ChecksumIsLast(sess'[child])
      BY <2>1, <2>3, <2>6, ChecksumStaysLast DEF VerifiesLast
    <3> QED
      BY <1>0, <2>2, <2>6, <3>1 DEF ChecksumIsLast
  <2> QED
    BY <2>2, <2>4, <2>5, <2>6
<1> QED
  BY <1>1, <1>2, <1>3 DEF Next

\* What the session in hand says to verify in peace is all of this call.
LEMMA OwnIsRead ==
  ASSUME Types, Control, AnswersOnly, CopiesLater
  PROVE  ReadsItsOwn
<1> SUFFICES ASSUME fresh, op = "SetConfig", line.what = "verify", pc = "echoed", NEW i \in DOMAIN Out
             PROVE  Out[i].of = calls
  BY DEF ReadsItsOwn
<1>1. HasChild /\ InPeace /\ line.of = calls
  BY DEF Control, Phase, Reach, Uploading, CopiesLater, InPeace
<1>2. PICK k : Begins(Out, Tail(Says(line, k)))
  BY <1>1 DEF AnswersOnly, Answered, Out
<1>3. Tail(Says(line, k)) = <<Mark(k, calls), Mark("newline", calls), Mark("prompt", calls)>>
  BY <1>1 DEF Says
<1>4. i \in 1..3
  <2>1. Out \in Seq(Marks(0..calls, Settled))
    BY <1>1, TalkParts DEF Types
  <2> DEFINE M == Marks(0..calls, Settled)
  <2> HIDE DEF M
  <2>2. i \in 1..Len(Out)
    BY <2>1 DEF M
  <2>3. Len(Out) \in Nat
    BY <2>1 DEF M
  <2>4. Len(Out) <= 3
    BY <1>2, <1>3 DEF Begins
  <2> QED
    BY <2>2, <2>3, <2>4
<1>5. Out[i] = Tail(Says(line, k))[i]
  BY <1>2 DEF Begins
<1>6. <<Mark(k, calls), Mark("newline", calls), Mark("prompt", calls)>>[i].of = calls
  BY <1>4 DEF Mark
<1> QED
  BY <1>3, <1>5, <1>6

LEMMA KeepsCopiesLater ==
  ASSUME Types, Control, ClosedIsIdle, OthersIdle, BeginsWell, VerifiesLast, CopiesLater, Next
  PROVE  CopiesLater'
<1> DEFINE at == Uploading \cup Dialled \cup {"dial", "sent", "echoed"}
<1> SUFFICES ASSUME fresh', op' = "SetConfig", line'.what = "verify", pc' \in at, complained'
             PROVE  FALSE
  BY DEF CopiesLater
<1>1. CASE Call
  BY <1>1 DEF Call, Connect, Cmd, SetConfig, Disconnect, Begin
<1>2. CASE Step
  <2>1. UNCHANGED <<op, fresh, complained>>
    BY <1>2, StepKeeps DEF Keeps
  <2>2. CASE CopyDone \/ LoadDone
    <3>1. pc' = "sent" => line' = [line EXCEPT !.what = "save"]
      BY <2>2 DEF CopyDone, LoadDone, Copied, DeleteFile
    <3>2. pc' \in {"sent", "delete"}
      BY <2>2 DEF CopyDone, LoadDone, Copied, DeleteFile
    <3> QED
      BY <3>1, <3>2 DEF Types, Scalars, Uploading, Dialled
  <2>3. CASE pc \in at /\ line.what = "verify"
    BY <2>1, <2>3 DEF CopiesLater
  <2>4. CASE \/ DialSucceeds \/ Login \/ PagerEcho \/ PagerPrompt \/ PagerOff \/ Echoed
             \/ Reconnect \/ Acknowledged
    BY <2>3, <2>4 DEF DialSucceeds, Login, PagerEcho, PagerPrompt, PagerOff, Echoed, Reconnect,
                      Acknowledged, Waiting, Uploading, Dialled
  <2>5. CASE pc' \in Uploading
    BY <1>2, <2>3, <2>5, Arriving
  <2> QED
    BY <1>2, <2>2, <2>4, <2>5, Arriving
<1>3. CASE Router
  <2>1. PICK s \in DOMAIN sess : Works(s) \/ LoseSession(s)
    BY <1>3 DEF Router
  <2>2. UNCHANGED <<child, pc, op, line, fresh, calls>>
    BY <2>1, RouterKeeps
  <2>3. ~complained /\ Works(s)
    <3>1. ~complained
      BY <2>2 DEF CopiesLater
    <3> QED
      BY <2>1, <3>1 DEF LoseSession, history
  <2>4. s = child /\ HasChild /\ sess[s].lines # <<>> /\ Open
    BY <2>1, <2>2, <2>3, WorkIsLocal, WorkIsHanded DEF OthersIdle, HasChild, Open, ClosedIsIdle
  <2>5. calls # 0 /\ raised = NONE
    BY <2>2 DEF Control, Phase, Erasing, Uploading, Dialled
  <2>6. Hand(s).of = calls /\ Hand(s).what \in Copying \cup {"save"}
    BY <2>3, ComplainsOfHand
  <2>7. 1 \in DOMAIN sess[s].lines /\ Typed(s) = sess[s].lines[1]
    <3>1. sess[s].lines \in Seq(Lines(0..calls, Uploaded, Settled))
      BY <2>4, TalkParts DEF Types
    <3> DEFINE L == Lines(0..calls, Uploaded, Settled)
               a == sess[s].lines
    <3>2. a \in Seq(L) /\ a # <<>>
      BY <2>4, <3>1
    <3> HIDE DEF L, a
    <3>3. 1 \in DOMAIN a /\ Head(a) = a[1]
      BY <3>2
    <3> QED
      BY <3>3 DEF a, Typed
  <2>8. CASE pc \in Uploading
    <3>1. Unmentioned(sess[child])
      BY <2>2, <2>4, <2>5, <2>8 DEF VerifiesLast, Verifying, Uploading
    <3> QED
      BY <2>4, <2>6, <2>7, <3>1 DEF Unmentioned, Hand
  <2>9. CASE pc \in {"sent", "echoed"}
    <3>1. ChecksumIsLast(sess[child])
      BY <2>2, <2>4, <2>5, <2>9 DEF VerifiesLast, Verifying
    <3> QED
      BY <2>4, <2>6, <2>7, <3>1 DEF ChecksumIsLast, Hand, Copying
  <2>10. CASE pc \in Dialled
    <3>1. Beginning(sess[child])
      BY <2>10 DEF BeginsWell
    <3>2. Hand(s).of = 0
      <4>1. \E x \in {"login", "enter", "terminal"} : sess[s].lines = <<Plain(x)>>
        BY <2>4, <3>1 DEF Beginning
      <4> QED
        BY <2>4, <2>7, <3>1, <4>1 DEF Beginning, Hand, Exec, Plain, Line
    <3> QED
      BY <2>5, <2>6, <3>2
  <2>11. pc # "dial"
    BY <2>2, <2>4 DEF Control, Reach
  <2> QED
    BY <2>2, <2>8, <2>9, <2>10, <2>11
<1> QED
  BY <1>1, <1>2, <1>3 DEF Next

-----------------------------------------------------------------------------
(* The file is deleted last *)

\* What the router asks, and what it waits for then.
LEMMA Asked ==
  ASSUME Types, HasChild, NEW marks, NEW mode, Tells(marks, mode), sess[child].lines # <<>>
  PROVE  /\ mode.what = "name" => Hand(child).what = "delete" /\ mode.of = Hand(child).of
         /\ mode.what = "confirm" => Hand(child).what = "name" /\ mode.of = Hand(child).of
         /\ mode.what \in {"name", "confirm"} => mode # Exec
         /\ \A i \in DOMAIN marks :
              /\ marks[i].kind = "delete_question" =>
                   Hand(child).what = "delete" /\ mode.what = "name" /\ i = Len(marks)
              /\ marks[i].kind = "confirm_question" =>
                   Hand(child).what = "name" /\ mode.what = "confirm" /\ i = Len(marks)
<1>0. Exec.what = "exec"
  BY DEF Exec, Plain, Line
<1>1. CASE Queries(child, marks, mode)
  <2>1. PICK kind \in {"question", "warning", "delete_question", "confirm_question"},
             what \in {"destination", "overwrite", "name", "confirm"} :
          /\ marks = Asks(Hand(child), kind)
          /\ mode = [Hand(child) EXCEPT !.what = what]
          /\ what = "destination" => kind = "question"
          /\ what = "overwrite" => kind = "warning"
          /\ what = "name" => Hand(child).what = "delete" /\ kind = "delete_question"
          /\ what = "confirm" => Hand(child).what = "name" /\ kind = "confirm_question"
    BY <1>1 DEF Queries
  <2>2. mode.what = what /\ mode.of = Hand(child).of
    <3>1. Hand(child) \in Lines(0..calls, Uploaded, Settled)
      BY HandTyped DEF Hand, Types, HasChild
    <3> QED
      BY <2>1, <3>1 DEF Lines
  <2>3. DOMAIN marks = 1..2 /\ Len(marks) = 2 /\ marks[1].kind = "newline" /\ marks[2].kind = kind
    BY <2>1 DEF Asks, Mark
  <2>4. \A i \in DOMAIN marks : marks[i].kind \in {"newline", kind} /\ (marks[i].kind # "newline" => i = Len(marks))
    <3>1. \A i \in DOMAIN marks : i = 1 \/ i = 2
      BY <2>3
    <3> QED
      BY <2>3, <3>1
  <2>5. /\ kind = "delete_question" => Hand(child).what = "delete" /\ mode.what = "name"
        /\ kind = "confirm_question" => Hand(child).what = "name" /\ mode.what = "confirm"
    BY <2>1, <2>2
  <2>6. /\ mode.what = "name" => Hand(child).what = "delete" /\ mode.of = Hand(child).of
        /\ mode.what = "confirm" => Hand(child).what = "name" /\ mode.of = Hand(child).of
        /\ mode.what \in {"name", "confirm"} => mode # Exec
    BY <1>0, <2>1, <2>2
  <2> QED
    BY <2>4, <2>5, <2>6
<1>2. CASE Reports(child, marks, mode)
  <2>1. PICK kind \in Contents(Hand(child).what) : marks = Says(Hand(child), kind)
    BY <1>2 DEF Reports
  <2>2. /\ DOMAIN marks = 1..4 /\ marks[1].kind = "newline" /\ marks[2].kind = kind
        /\ marks[3].kind = "newline" /\ marks[4].kind = "prompt"
    BY <2>1 DEF Says, Mark
  <2>3. kind \notin {"delete_question", "confirm_question"}
    BY ContentsAre
  <2>4. mode = Exec
    BY <1>2 DEF Reports
  <2> QED
    BY <1>0, <2>2, <2>3, <2>4
<1>3. CASE Finishes(child, marks, mode)
  <2>1. mode = Exec /\ marks \in {Prompts(Hand(child)), Prompts(CR), Says(CR, "denied"), <<Mark("prompt", 0)>>}
    BY <1>3 DEF Finishes
  <2>2. \A i \in DOMAIN marks : marks[i].kind \in {"newline", "prompt", "denied"}
    <3>1. CASE marks = Prompts(Hand(child)) \/ marks = Prompts(CR)
      BY <3>1 DEF Prompts, Mark
    <3>2. CASE marks = Says(CR, "denied")
      BY <3>2 DEF Says, Mark
    <3>3. CASE marks = <<Mark("prompt", 0)>>
      BY <3>3 DEF Mark
    <3> QED
      BY <2>1, <3>1, <3>2, <3>3
  <2> QED
    BY <1>0, <2>1, <2>2
<1> QED
  BY <1>1, <1>2, <1>3 DEF Tells

LEMMA UndeletedGoesOn ==
  ASSUME Types, HasChild, Undeleted(sess[child]),
         NEW s \in DOMAIN sess, Works(s) \/ LoseSession(s)
  PROVE  Undeleted(sess'[child])
<1>1. CASE sess'[child] = sess[child]
  BY <1>1
<1>2. CASE Cut(sess[child], sess'[child])
  BY <1>2 DEF Cut, Undeleted
<1>3. ASSUME NEW marks, NEW mode, Tells(marks, mode), sess[child].lines # <<>>
      PROVE  Undeleted(sess'[child])
  <2>1. Hand(child).what \notin {"delete", "name", "confirm"}
    <3>1. Typed(child).what # "delete"
      BY <1>3, Told DEF Undeleted
    <3> QED
      BY <1>3, <3>1 DEF Undeleted, Hand, Handed, Tells
  <2>2. /\ mode.what \notin {"name", "confirm"}
        /\ \A i \in DOMAIN marks : marks[i].kind \notin {"delete_question", "confirm_question"}
    BY <1>3, <2>1, Asked
  <2>3. \A i \in DOMAIN sess'[child].lines : sess'[child].lines[i].what # "delete"
    BY <1>3, Told DEF Undeleted
  <2>4. \A i \in DOMAIN sess'[child].out : sess'[child].out[i].kind \notin {"delete_question", "confirm_question"}
    BY <1>3, <2>2, Told DEF Undeleted, Out
  <2> QED
    BY <1>3, <2>2, <2>3, <2>4, Told DEF Undeleted
<1> QED
  BY <1>1, <1>2, <1>3, RouterOnChild

LEMMA UndeletedTalk ==
  ASSUME Types, HasChild, Undeleted(sess[child]), NEW kinds, Matched(kinds),
         \/ Becomes(sess[child].lines, After(kinds), sess[child].mode)
         \/ \E l : l.what # "delete" /\ Becomes(Written(l), After(kinds), sess[child].mode)
  PROVE  Undeleted(sess'[child])
<1>1. \A i \in DOMAIN After(kinds) : After(kinds)[i].kind \notin {"delete_question", "confirm_question"}
  BY WasRead DEF Undeleted, Out
<1>2. ASSUME NEW l, l.what # "delete"
      PROVE  \A i \in DOMAIN Written(l) : Written(l)[i].what # "delete"
  BY <1>2, WasWritten DEF Undeleted
<1> QED
  BY <1>1, <1>2 DEF Undeleted, Becomes

LEMMA NameIsAskedStill ==
  ASSUME Types, HasChild, NameIsAsked(sess[child]),
         NEW s \in DOMAIN sess, Works(s) \/ LoseSession(s)
  PROVE  NameIsAsked(sess'[child])
<1> DEFINE c == sess[child]
           d == sess'[child]
<1>1. CASE d = c
  BY <1>1
<1>2. CASE Cut(c, d)
  <2>1. /\ d.lines = <<>> /\ d.mode = c.mode /\ ~d.open /\ Len(d.out) <= Len(c.out)
        /\ \A i \in DOMAIN d.out : i \in DOMAIN c.out /\ d.out[i] = c.out[i]
    BY <1>2 DEF Cut
  <2>2. ASSUME NEW i \in DOMAIN d.out
        PROVE  /\ d.out[i].kind = "delete_question" => i = Len(d.out)
               /\ d.out[i].kind # "confirm_question"
    <3>1. /\ d.out[i].kind = "delete_question" => i = Len(c.out)
          /\ d.out[i].kind # "confirm_question"
      BY <2>1 DEF NameIsAsked
    <3>2. i <= Len(d.out) /\ Len(d.out) \in Nat /\ Len(c.out) \in Nat /\ i \in Nat
      BY OutputTyped
    <3> HIDE DEF c, d
    <3> QED
      BY <2>1, <3>1, <3>2
  <2> QED
    BY <2>1, <2>2 DEF NameIsAsked
<1>3. ASSUME NEW marks, NEW mode, Tells(marks, mode), c.lines # <<>>
      PROVE  NameIsAsked(d)
  <2>1. /\ c.mode.what \notin {"name", "confirm"}
        /\ \A i \in DOMAIN c.lines : c.lines[i].what = "delete" => i = Len(c.lines) /\ c.lines[i].of = calls
        /\ \A i \in DOMAIN Out : Out[i].kind \notin {"delete_question", "confirm_question"}
    BY <1>3 DEF NameIsAsked, Out
  <2>2. /\ 1 \in DOMAIN c.lines /\ Typed(child) = c.lines[1]
        /\ Len(d.lines) = Len(c.lines) - 1 /\ Len(c.lines) \in Nat
        /\ \A i \in DOMAIN d.lines : i \in Nat /\ i + 1 \in DOMAIN c.lines /\ d.lines[i] = c.lines[i + 1]
        /\ Len(c.lines) = 1 => d.lines = <<>>
        /\ Len(d.out) = Len(Out) + Len(marks) /\ Len(Out) \in Nat /\ Len(marks) \in Nat
        /\ \A i \in DOMAIN d.out :
             \/ i \in DOMAIN Out /\ d.out[i] = Out[i]
             \/ i > Len(Out) /\ i - Len(Out) \in DOMAIN marks /\ d.out[i] = marks[i - Len(Out)]
        /\ \A i \in DOMAIN d.out : i \in 1..Len(d.out)
        /\ d.mode = mode
    BY <1>3, Told
  <2>3. /\ mode.what = "name" => Hand(child).what = "delete" /\ mode.of = Hand(child).of
        /\ mode.what = "confirm" => Hand(child).what = "name"
        /\ \A i \in DOMAIN marks :
             /\ marks[i].kind = "delete_question" => mode.what = "name" /\ i = Len(marks)
             /\ marks[i].kind = "confirm_question" => Hand(child).what = "name"
    BY <1>3, Asked
  <2>4. Hand(child).what \notin {"name", "confirm"}
    BY <1>3, <2>1 DEF Tells, Handed, Hand
  <2>5. Hand(child).what = "delete" => Hand(child) = Typed(child)
    BY <1>3 DEF Tells, Handed, Hand
  <2> HIDE DEF c, d
  <2>6. mode.what = "name" => d.lines = <<>> /\ mode.of = calls
    BY <2>1, <2>2, <2>3, <2>5
  <2>7. \A i \in DOMAIN d.lines : d.lines[i].what = "delete" => i = Len(d.lines) /\ d.lines[i].of = calls
    BY <2>1, <2>2
  <2>8. ASSUME NEW i \in DOMAIN d.out
        PROVE  /\ d.out[i].kind = "delete_question" => i = Len(d.out) /\ mode.what = "name"
               /\ d.out[i].kind # "confirm_question"
    <3>1. CASE i \in DOMAIN Out /\ d.out[i] = Out[i]
      BY <2>1, <3>1
    <3>2. CASE i > Len(Out) /\ i - Len(Out) \in DOMAIN marks /\ d.out[i] = marks[i - Len(Out)]
      <4>1. /\ d.out[i].kind = "delete_question" => mode.what = "name" /\ i - Len(Out) = Len(marks)
            /\ d.out[i].kind # "confirm_question"
        BY <2>3, <2>4, <3>2
      <4>2. i \in Nat
        BY <2>2
      <4> QED
        BY <2>2, <4>1, <4>2
    <3> QED
      BY <2>2, <3>1, <3>2
  <2>9. mode.what # "confirm"
    BY <2>3, <2>4
  <2> QED
    BY <2>2, <2>6, <2>7, <2>8, <2>9 DEF NameIsAsked
<1> HIDE DEF c, d
<1>4. d = c \/ Cut(c, d) \/ (c.lines # <<>> /\ \E marks, mode : Tells(marks, mode))
  BY RouterOnChild DEF c, d
<1> QED
  BY <1>1, <1>2, <1>3, <1>4 DEF d

LEMMA ConfirmIsAskedStill ==
  ASSUME Types, HasChild, ConfirmIsAsked(sess[child]),
         NEW s \in DOMAIN sess, Works(s) \/ LoseSession(s)
  PROVE  ConfirmIsAsked(sess'[child])
<1> DEFINE c == sess[child]
           d == sess'[child]
<1>1. CASE d = c
  BY <1>1
<1>2. CASE Cut(c, d)
  <2>1. /\ d.lines = <<>> /\ ~d.open /\ Len(d.out) <= Len(c.out)
        /\ \A i \in DOMAIN d.out : i \in DOMAIN c.out /\ d.out[i] = c.out[i]
    BY <1>2 DEF Cut
  <2>2. ASSUME NEW i \in DOMAIN d.out, d.out[i].kind = "confirm_question" PROVE i = Len(d.out)
    <3>1. i = Len(c.out)
      BY <2>1, <2>2 DEF ConfirmIsAsked
    <3>2. i <= Len(d.out) /\ Len(d.out) \in Nat /\ Len(c.out) \in Nat /\ i \in Nat
      BY OutputTyped
    <3> HIDE DEF c, d
    <3> QED
      BY <2>1, <3>1, <3>2
  <2> QED
    BY <2>1, <2>2 DEF ConfirmIsAsked
<1>3. ASSUME NEW marks, NEW mode, Tells(marks, mode), c.lines # <<>>
      PROVE  ConfirmIsAsked(d)
  <2>1. c.lines = <<CR>> /\ Out = <<>> /\ c.mode.what = "name" /\ c.mode.of = calls
    BY <1>3 DEF ConfirmIsAsked, Out
  <2>2. Hand(child) = c.mode /\ Typed(child) = CR
    BY <2>1 DEF Hand, Typed
  <2>3. PICK kind, what :
          /\ marks = Asks(Hand(child), kind) /\ kind = "confirm_question"
          /\ mode = [Hand(child) EXCEPT !.what = what] /\ what = "confirm"
    <3>1. Queries(child, marks, mode)
      BY <1>3, <2>1, <2>2 DEF Tells, Reports, Finishes
    <3> QED
      BY <2>1, <2>2, <3>1 DEF Queries
  <2>4. mode.what = "confirm" /\ mode.of = calls
    <3>1. c.mode \in Lines(0..calls, Uploaded, Settled)
      BY HandTyped DEF Types, HasChild
    <3> QED
      BY <2>1, <2>2, <2>3, <3>1 DEF Lines
  <2>5. d.lines = <<>> /\ d.out = marks /\ d.mode = mode
    <3>1. Len(c.lines) = 1
      BY <2>1
    <3> QED
      BY <1>3, <2>1, <3>1, Told
  <2>6. \A i \in DOMAIN marks : marks[i].kind = "confirm_question" => i = Len(marks)
    BY <2>3 DEF Asks, Mark
  <2> QED
    BY <2>4, <2>5, <2>6 DEF ConfirmIsAsked
<1> HIDE DEF c, d
<1>4. d = c \/ Cut(c, d) \/ (c.lines # <<>> /\ \E marks, mode : Tells(marks, mode))
  BY RouterOnChild DEF c, d
<1> QED
  BY <1>1, <1>2, <1>3, <1>4 DEF d

\* A file that is gone stays away, once it has been uploaded.
LEMMA GoneForGood ==
  ASSUME Types, Control, calls # 0, files[calls] = "none", NEW s \in DOMAIN sess, Works(s) \/ LoseSession(s)
  PROVE  files'[calls] = "none"
<1>1. calls \in 1..calls
  BY DEF Types, Scalars
<1> QED
  BY <1>1, WorkEffects DEF LoseSession, router

LEMMA IsDeletedStill ==
  ASSUME Types, Control, HasChild, calls # 0, IsDeleted(sess[child]),
         NEW s \in DOMAIN sess, Works(s) \/ LoseSession(s)
  PROVE  IsDeleted(sess[child])'
<1> DEFINE c == sess[child]
           d == sess'[child]
<1>0. child' = child /\ calls' = calls
  BY RouterKeeps
<1>5. files[calls] = "none" => files'[calls] = "none"
  BY GoneForGood
<1>1. CASE d = c
  BY <1>0, <1>1, <1>5 DEF IsDeleted
<1>2. CASE Cut(c, d)
  <2>1. /\ d.lines = <<>> /\ Len(d.out) <= Len(c.out)
        /\ \A i \in DOMAIN d.out : i \in DOMAIN c.out /\ d.out[i] = c.out[i]
    BY <1>2 DEF Cut
  <2>2. ASSUME NEW i \in DOMAIN d.out, d.out[i].kind = "prompt"
        PROVE  files'[calls] = "none" \/ \E j \in DOMAIN d.out : j < i /\ d.out[j].kind = "error"
    <3>1. \/ files[calls] = "none"
          \/ \E j \in DOMAIN c.out : j < i /\ c.out[j].kind = "error"
      BY <2>1, <2>2 DEF IsDeleted
    <3>2. ASSUME NEW j \in DOMAIN c.out, j < i PROVE j \in DOMAIN d.out
      <4>1. /\ c.out \in Seq(Marks(0..calls, Settled))
            /\ d.out \in Seq(Marks(0..calls, Settled))
        <5>1. RouterLocal(s) /\ sess \in Seq(Sessions(0..calls, Uploaded, Settled))
          BY WorkIsLocal, LossIsLocal DEF Types
        <5>2. sess' \in Seq(Sessions(0..calls, Uploaded, Settled)) /\ child \in DOMAIN sess'
          BY <5>1 DEF RouterLocal, HasChild
        <5>3. c \in Sessions(0..calls, Uploaded, Settled) /\ d \in Sessions(0..calls, Uploaded, Settled)
          BY <5>1, <5>2, ElementOfSeq DEF HasChild
        <5> QED
          BY <5>3 DEF Sessions
      <4> DEFINE M == Marks(0..calls, Settled)
      <4> HIDE DEF M, c, d
      <4> QED
        BY <2>2, <3>2, <4>1 DEF M
    <3> QED
      BY <1>5, <2>1, <3>1, <3>2
  <2> QED
    BY <1>0, <2>1, <2>2 DEF IsDeleted
<1>3. ASSUME NEW marks, NEW mode, Tells(marks, mode), c.lines # <<>>
      PROVE  IsDeleted(sess[child])'
  <2>1. c.lines = <<CR>> /\ Out = <<>> /\ c.mode.what = "confirm" /\ c.mode.of = calls
    BY <1>3 DEF IsDeleted, Out
  <2>2. Hand(child) = c.mode /\ Typed(child) = CR
    BY <2>1 DEF Hand, Typed
  <2>3. d.lines = <<>> /\ d.out = marks
    <3>1. Len(c.lines) = 1
      BY <2>1
    <3> QED
      BY <1>3, <2>1, <3>1, Told
  <2>4. CASE Reports(child, marks, mode)
    <3>1. PICK kind \in Contents("confirm") : marks = Says(c.mode, kind)
      BY <2>1, <2>2, <2>4 DEF Reports
    <3>2. marks[2].kind = "error" /\ DOMAIN marks = 1..4 /\ marks[1].kind = "newline"
      BY <3>1 DEF Says, Mark, Contents
    <3>3. \A i \in DOMAIN marks : marks[i].kind = "prompt" => 2 < i /\ 2 \in DOMAIN marks
      BY <3>2
    <3> QED
      BY <1>0, <2>3, <3>2, <3>3 DEF IsDeleted
  <2>5. CASE Finishes(child, marks, mode)
    <3>1. files' = [files EXCEPT ![calls] = "none"]
      BY <2>1, <2>2, <2>5 DEF Finishes
    <3>2. files'[calls] = "none"
      <4>1. files \in [1..MaxCalls -> {"none", "part", "whole"}] /\ calls \in 1..MaxCalls
        BY IosAssumption DEF Types, Scalars
      <4> QED
        BY <3>1, <4>1
    <3> QED
      BY <1>0, <2>3, <3>2 DEF IsDeleted
  <2>6. ~Queries(child, marks, mode)
    BY <2>1, <2>2 DEF Queries
  <2> QED
    BY <1>3, <2>4, <2>5, <2>6 DEF Tells
<1> HIDE DEF c, d
<1>4. d = c \/ Cut(c, d) \/ (c.lines # <<>> /\ \E marks, mode : Tells(marks, mode))
  BY RouterOnChild DEF c, d
<1> QED
  BY <1>1, <1>2, <1>3, <1>4

\* When the checksum has been read, the session has nothing more to say or do.
LEMMA ChecksumRead ==
  ASSUME Types, HasChild, ChecksumIsLast(sess[child]), pc = "echoed", Matched(Waits),
         NEW m \in Response, m = Mark("checksum", calls)
  PROVE  sess[child].lines = <<>> /\ sess[child].mode = Exec /\ After(Waits) = <<>>
<1> DEFINE p == Place(Waits)
           b == Before(Waits)
<1>1. /\ p \in DOMAIN Out /\ p \in Nat \ {0} /\ Out[p].kind = "prompt"
      /\ p = Len(Out) => After(Waits) = <<>>
  BY WasRead DEF Waits
<1>2. PICK i \in DOMAIN b : b[i] = Mark("checksum", calls)
  BY DEF Response, ToSet
<1>3. i \in DOMAIN Out /\ Out[i] = b[i] /\ i < p /\ i \in Nat /\ Len(Out) \in Nat /\ p <= Len(Out)
  <2>1. Out \in Seq(Marks(0..calls, Settled))
    BY TalkParts DEF Types
  <2>2. b = SubSeq(Out, 1, p - 1)
    BY DEF Before
  <2> DEFINE M == Marks(0..calls, Settled)
  <2> HIDE DEF M, b, p
  <2> QED
    BY <1>1, <2>1, <2>2 DEF M
<1>4. /\ sess[child].lines = <<>> /\ sess[child].mode = Exec
      /\ Len(Out) <= i + 2 /\ (i + 1 \in DOMAIN Out => Out[i + 1].kind = "newline")
  BY <1>2, <1>3 DEF ChecksumIsLast, Out
<1> HIDE DEF p, b
<1>5. p # i + 1
  BY <1>1, <1>4
<1>6. p = Len(Out)
  BY <1>1, <1>3, <1>4, <1>5
<1> QED
  BY <1>1, <1>4, <1>6

LEMMA DeletionBegins ==
  ASSUME Types, Control, BeginsWell, VerifiesLast, ReadsItsOwn, DeletesLast, Unmistaken, Step,
         op = "SetConfig", raised' = NONE,
         \/ pc' \in {"copy", "load", "delete", "delete_prompt"}
         \/ pc' \in {"sent", "echoed"} /\ line'.what = "save"
  PROVE  child' = child /\ Undeleted(sess'[child])
<1>0. [line EXCEPT !.what = "save"].what = "save" /\ [line EXCEPT !.what = "copy"].what = "copy"
  BY DEF Types, Scalars
<1> USE DEF DeleteFile
<1>1. CASE Verified /\ SameDigest
  <2> DEFINE l == [line EXCEPT !.what = "copy"]
  <2>1. /\ pc = "echoed" /\ Matched(Waits) /\ line.what = "verify" /\ UNCHANGED child
        /\ DropAndSend(Waits, l)
    BY <1>1 DEF Verified, Responded, object
  <2>2. l.what # "delete"
    BY <1>0
  <2> HIDE DEF l
  <2>3. HasChild /\ Verifying
    BY <2>1 DEF Control, Reach, Phase, Uploading, Erasing, Verifying
  <2>4. sess[child].lines = <<>> /\ sess[child].mode = Exec /\ After(Waits) = <<>>
    <3>1. PICK m \in Response : m.kind = "checksum" /\ m.of = calls
      BY <1>1, DigestIsOwn
    <3>2. m = Mark("checksum", calls)
      <4>1. \E i \in DOMAIN Out : m = Out[i]
        BY <2>1, <2>3, ReadIsSettled
      <4>2. Out \in Seq(Marks(0..calls, Settled))
        BY <2>3, TalkParts DEF Types
      <4>3. m \in Marks(0..calls, Settled)
        BY <4>1, <4>2, ElementOfSeq
      <4> QED
        BY <3>1, <4>3 DEF Marks, Mark
    <3> QED
      BY <2>1, <2>3, <3>2, ChecksumRead DEF VerifiesLast
  <2>5. Becomes(Written(l), <<>>, Exec)
    BY <2>1, <2>3, <2>4, Said
  <2>6. Undeleted(sess[child]) \/ Written(l) \in {<<>>, <<l>>}
    BY <2>3, <2>4, WasWritten
  <2>7. \A i \in DOMAIN Written(l) : Written(l)[i].what # "delete"
    BY <2>2, <2>3, <2>4, WasWritten
  <2> QED
    BY <2>1, <2>5, <2>7 DEF Undeleted, Becomes, Exec, Plain, Line
<1>2. ASSUME HasChild, NEW kinds, Matched(kinds), child' = child, Undeleted(sess[child]),
             NEW l, l.what # "delete", DropAndSend(kinds, l)
      PROVE  child' = child /\ Undeleted(sess'[child])
  <2>1. Becomes(Written(l), After(kinds), sess[child].mode)
    BY <1>2, Said
  <2> QED
    BY <1>2, <2>1, UndeletedTalk
<1>3. ASSUME HasChild, NEW kinds, Matched(kinds), child' = child, Undeleted(sess[child]), Drop(kinds)
      PROVE  child' = child /\ Undeleted(sess'[child])
  <2>1. Becomes(sess[child].lines, After(kinds), sess[child].mode)
    BY <1>3, Said
  <2> QED
    BY <1>3, <2>1, UndeletedTalk
<1>4. CR.what # "delete" /\ CR.what = "enter"
  BY DEF CR, Plain, Line
<1>5. CASE CopyAsks
  <2>1. /\ pc = "copy" /\ Matched(CopyWaits) /\ DropAndSend(CopyWaits, CR) /\ child' = child
    BY <1>5 DEF CopyAsks, object
  <2>2. HasChild /\ Undeleted(sess[child])
    BY <2>1 DEF Control, Reach, Phase, Uploading, Erasing, DeletesLast
  <2> QED
    BY <1>2, <1>4, <2>1, <2>2
<1>6. CASE CopyDone \/ LoadDone
  <2>1. PICK kinds : /\ Matched(kinds) /\ Copied(kinds) /\ child' = child
                     /\ pc \in {"copy", "load"}
    BY <1>6 DEF CopyDone, LoadDone, object
  <2>2. HasChild /\ Undeleted(sess[child])
    BY <2>1 DEF Control, Reach, Phase, Uploading, Erasing, DeletesLast
  <2> DEFINE l == [line EXCEPT !.what = "save"]
  <2>3. DropAndSend(kinds, l) \/ DropAndSend(kinds, CR)
    BY <2>1 DEF Copied
  <2>4. l.what # "delete"
    BY <1>0
  <2> HIDE DEF l
  <2> QED
    BY <1>2, <1>4, <2>1, <2>2, <2>3, <2>4
<1>7. CASE Saved
  <2>1. /\ pc = "echoed" /\ line.what = "save" /\ Matched(Waits) /\ DropAndSend(Waits, CR) /\ child' = child
    BY <1>7 DEF Saved, Responded, object
  <2>2. HasChild /\ Undeleted(sess[child])
    BY <2>1 DEF Control, Reach, Phase, Uploading, Erasing, DeletesLast
  <2> QED
    BY <1>2, <1>4, <2>1, <2>2
<1>8. CASE PagerOff /\ line'.what = "save"
  <2>1. HasChild /\ child' = child /\ line.what = "save" /\ sess[child].lines = <<>> /\ Becomes(Written(line), <<>>, Exec)
    BY <1>8, PagerDone
  <2>2. \A i \in DOMAIN Written(line) : Written(line)[i].what # "delete"
    BY <2>1, WasWritten
  <2> QED
    BY <2>1, <2>2 DEF Undeleted, Becomes, Exec, Plain, Line
<1>9. CASE Echoed /\ line'.what = "save"
  <2>1. /\ pc = "sent" /\ line.what = "save" /\ Matched(Waits) /\ Drop(Waits) /\ child' = child
        /\ raised = NONE
    BY <1>9 DEF Echoed, object
  <2>2. HasChild /\ Undeleted(sess[child])
    BY <2>1 DEF Control, Reach, Uploading, DeletesLast
  <2> QED
    BY <1>3, <2>1, <2>2
<1>10. CASE DeleteGoesOn /\ pc' = "delete_prompt"
  <2>1. PICK s \in Deleting :
          /\ pc = s.at /\ Matched(s.waits)
          /\ s.at \in {"delete", "deleted"} => Drop(s.waits)
          /\ s.next = "idle" \/ pc' = s.next
          /\ s.next = "idle" => pc' = "idle"
          /\ UNCHANGED <<object, raised>>
    BY <1>10, Zenon DEF DeleteGoesOn, SetConfigDone, Return
  <2>2. pc = "delete" /\ Drop(s.waits) /\ raised = NONE /\ child' = child
    BY <1>10, <2>1 DEF Deleting, object
  <2>3. HasChild /\ Undeleted(sess[child])
    BY <2>2 DEF Control, Reach, Uploading, DeletesLast
  <2> QED
    BY <1>3, <2>1, <2>2, <2>3
<1>11. ~Acknowledged \/ line'.what # "save" \/ pc' # "sent"
  BY DEF Acknowledged, object, Control, Phase, Uploading
<1> QED
  BY <1>1, <1>5, <1>6, <1>7, <1>8, <1>9, <1>10, <1>11, Arriving DEF Erasing

\* The steps of the deletion.
LEMMA DeletionStep ==
  ASSUME Types, Control, DeleteGoesOn
  PROVE  /\ UNCHANGED <<child, line, raised, files, op, calls>> /\ op = "SetConfig" /\ HasChild
         /\ line.of = calls
         /\ pc' = "delete_name" =>
              /\ pc = "delete_prompt" /\ Matched({"prompt"})
              /\ DropAndSend({"prompt"}, [line EXCEPT !.what = "delete"])
         /\ pc' = "delete_confirm" =>
              /\ pc = "delete_name" /\ Matched({"delete_question", "error"})
              /\ Found({"delete_question", "error"}) = "delete_question"
              /\ DropAndSend({"delete_question", "error"}, CR)
         /\ pc' = "deleted" =>
              /\ pc = "delete_confirm" /\ Matched({"confirm_question"})
              /\ DropAndSend({"confirm_question"}, CR)
         /\ pc' = "idle" =>
              /\ pc = "deleted" /\ Matched({"prompt", "error"}) /\ Found({"prompt", "error"}) = "prompt"
<1>1. PICK s \in Deleting :
        /\ pc = s.at /\ Matched(s.waits) /\ Found(s.waits) = s.good
        /\ IF s.at \in {"delete", "deleted"}
           THEN Drop(s.waits)
           ELSE DropAndSend(s.waits, IF s.at = "delete_prompt"
                                     THEN [line EXCEPT !.what = "delete"] ELSE CR)
        /\ IF s.next = "idle" THEN SetConfigDone(FALSE)
           ELSE pc' = s.next /\ UNCHANGED <<warned, result>>
        /\ UNCHANGED <<object, line, retrying, raised, answer, fixed>>
  BY Zenon DEF DeleteGoesOn
<1>2. UNCHANGED <<child, line, raised, files, op, calls>>
  BY <1>1 DEF object, fixed, router
<1>3. pc \in Erasing
  BY <1>1 DEF Deleting, Erasing
<1>4. op = "SetConfig" /\ HasChild /\ line.of = calls
  BY <1>3 DEF Control, Reach, Phase, Uploading, Erasing
<1>5. s.next = "idle" => pc' = "idle"
  BY <1>1 DEF SetConfigDone, Return
<1>6. s.next # "idle" => pc' = s.next
  BY <1>1
<1>7. CASE s.at = "delete"
  BY <1>1, <1>2, <1>4, <1>6, <1>7 DEF Deleting
<1>8. CASE s.at = "delete_prompt"
  <2>1. s.waits = {"prompt"} /\ s.next = "delete_name"
    BY <1>8 DEF Deleting
  <2>2. DropAndSend({"prompt"}, [line EXCEPT !.what = "delete"])
    BY <1>1, <1>8, <2>1
  <2> QED
    BY <1>1, <1>2, <1>4, <1>6, <1>8, <2>1, <2>2
<1>9. CASE s.at = "delete_name"
  <2>1. s.waits = {"delete_question", "error"} /\ s.next = "delete_confirm" /\ s.good = "delete_question"
    BY <1>9 DEF Deleting
  <2>2. DropAndSend({"delete_question", "error"}, CR)
    BY <1>1, <1>9, <2>1
  <2> QED
    BY <1>1, <1>2, <1>4, <1>6, <1>9, <2>1, <2>2
<1>10. CASE s.at = "delete_confirm"
  <2>1. s.waits = {"confirm_question"} /\ s.next = "deleted"
    BY <1>10 DEF Deleting
  <2>2. DropAndSend({"confirm_question"}, CR)
    BY <1>1, <1>10, <2>1
  <2> QED
    BY <1>1, <1>2, <1>4, <1>6, <1>10, <2>1, <2>2
<1>11. CASE s.at = "deleted"
  <2>1. s.waits = {"prompt", "error"} /\ s.next = "idle" /\ s.good = "prompt"
    BY <1>11 DEF Deleting
  <2> QED
    BY <1>1, <1>2, <1>4, <1>5, <1>11, <2>1
<1> QED
  BY <1>7, <1>8, <1>9, <1>10, <1>11 DEF Deleting

LEMMA NameIsTyped ==
  ASSUME Types, HasChild, Undeleted(sess[child]), line.of = calls, Matched({"prompt"}),
         DropAndSend({"prompt"}, [line EXCEPT !.what = "delete"])
  PROVE  NameIsAsked(sess'[child])
<1> DEFINE l == [line EXCEPT !.what = "delete"]
           a == After({"prompt"})
<1>1. l.of = calls
  BY DEF Types, Scalars
<1>2. DropAndSend({"prompt"}, l)
  OBVIOUS
<1> HIDE DEF l
<1>3. Becomes(Written(l), a, sess[child].mode)
  BY <1>2, Said
<1>4. \A i \in DOMAIN a : a[i].kind \notin {"delete_question", "confirm_question"}
  BY WasRead DEF Undeleted, Out
<1>5. \A i \in DOMAIN Written(l) : Written(l)[i].what = "delete" => i = Len(Written(l)) /\ Written(l)[i].of = calls
  BY <1>1, WasWritten DEF Undeleted
<1> HIDE DEF a
<1> QED
  BY <1>3, <1>4, <1>5 DEF NameIsAsked, Becomes, Undeleted

LEMMA NameIsConfirmed ==
  ASSUME Types, HasChild, NameIsAsked(sess[child]), Matched({"delete_question", "error"}),
         Found({"delete_question", "error"}) = "delete_question",
         DropAndSend({"delete_question", "error"}, CR)
  PROVE  ConfirmIsAsked(sess'[child])
<1> DEFINE kinds == {"delete_question", "error"}
<1>1. /\ Place(kinds) \in DOMAIN Out /\ Out[Place(kinds)].kind = "delete_question"
      /\ Place(kinds) = Len(Out) => After(kinds) = <<>>
  BY WasRead
<1>2. Becomes(Written(CR), After(kinds), sess[child].mode)
  BY Said
<1> HIDE DEF kinds
<1>3. /\ After(kinds) = <<>> /\ sess[child].lines = <<>>
      /\ Open => sess[child].mode.what = "name" /\ sess[child].mode.of = calls
  BY <1>1 DEF NameIsAsked, Out, Open
<1>4. Written(CR) = IF Open THEN <<CR>> ELSE <<>>
  BY <1>3, WasWritten
<1>5. /\ sess'[child].open = Open /\ sess'[child].out = <<>> /\ sess'[child].mode = sess[child].mode
      /\ sess'[child].lines = IF Open THEN <<CR>> ELSE <<>>
  BY <1>2, <1>3, <1>4 DEF Becomes
<1>6. CASE Open
  BY <1>3, <1>5, <1>6 DEF ConfirmIsAsked
<1>7. CASE ~Open
  BY <1>5, <1>7 DEF ConfirmIsAsked
<1> QED
  BY <1>6, <1>7

LEMMA DeletionIsConfirmed ==
  ASSUME Types, HasChild, ConfirmIsAsked(sess[child]), Matched({"confirm_question"}),
         DropAndSend({"confirm_question"}, CR), UNCHANGED <<child, calls>>
  PROVE  IsDeleted(sess[child])'
<1> DEFINE kinds == {"confirm_question"}
<1>1. /\ Place(kinds) \in DOMAIN Out /\ Out[Place(kinds)].kind = "confirm_question" /\ Out # <<>>
      /\ Place(kinds) = Len(Out) => After(kinds) = <<>>
  BY WasRead
<1>2. Becomes(Written(CR), After(kinds), sess[child].mode)
  BY Said
<1> HIDE DEF kinds
<1>3. /\ After(kinds) = <<>> /\ sess[child].lines = <<>>
      /\ Open => sess[child].mode.what = "confirm" /\ sess[child].mode.of = calls
  BY <1>1 DEF ConfirmIsAsked, Out, Open
<1>4. Written(CR) = IF Open THEN <<CR>> ELSE <<>>
  BY <1>3, WasWritten
<1>5. /\ sess'[child].out = <<>> /\ sess'[child].mode = sess[child].mode
      /\ sess'[child].lines = IF Open THEN <<CR>> ELSE <<>>
  BY <1>2, <1>3, <1>4 DEF Becomes
<1>6. CASE Open
  <2>1. CR' = CR
    BY DEF CR, Plain, Line
  <2> QED
    BY <1>3, <1>5, <1>6 DEF IsDeleted
<1>7. CASE ~Open
  BY <1>5, <1>7 DEF IsDeleted
<1> QED
  BY <1>6, <1>7

LEMMA KeepsDeletion ==
  ASSUME Types, Control, BeginsWell, VerifiesLast, ReadsItsOwn, DeletesLast, Next
  PROVE  DeletesLast'
<1> SUFFICES ASSUME op' = "SetConfig", raised' = NONE, Unmistaken'
             PROVE  /\ \/ pc' \in {"copy", "load", "delete", "delete_prompt"}
                       \/ pc' \in {"sent", "echoed"} /\ line'.what = "save"
                       => Undeleted(sess[child])'
                    /\ pc' = "delete_name" => NameIsAsked(sess[child])'
                    /\ pc' = "delete_confirm" => ConfirmIsAsked(sess[child])'
                    /\ pc' = "deleted" => IsDeleted(sess[child])'
  BY DEF DeletesLast
<1>1. CASE Call
  BY <1>1 DEF Call, Connect, Cmd, SetConfig, Disconnect, Begin
<1>2. CASE Step
  <2>1. op = "SetConfig" /\ calls' = calls /\ Unmistaken
    BY <1>2, StepKeeps DEF Keeps, Unmistaken, Repeats
  <2>2. \/ pc' \in {"copy", "load", "delete", "delete_prompt"}
        \/ pc' \in {"sent", "echoed"} /\ line'.what = "save"
        => Undeleted(sess[child])'
    BY <1>2, <2>1, DeletionBegins DEF Undeleted
  <2>3. CASE pc' = "delete_name"
    <3>1. DeleteGoesOn
      BY <1>2, <2>3, Arriving DEF Erasing
    <3>2. /\ UNCHANGED <<child, raised>> /\ pc = "delete_prompt" /\ Matched({"prompt"})
          /\ DropAndSend({"prompt"}, [line EXCEPT !.what = "delete"]) /\ HasChild /\ line.of = calls
      BY <2>3, <3>1, DeletionStep
    <3>3. NameIsAsked(sess'[child])
      BY <2>1, <3>2, NameIsTyped DEF DeletesLast
    <3> QED
      BY <2>1, <2>3, <3>2, <3>3 DEF NameIsAsked
  <2>4. CASE pc' = "delete_confirm"
    <3>1. DeleteGoesOn
      BY <1>2, <2>4, Arriving DEF Erasing
    <3>2. /\ UNCHANGED <<child, raised>> /\ pc = "delete_name" /\ Matched({"delete_question", "error"})
          /\ Found({"delete_question", "error"}) = "delete_question"
          /\ DropAndSend({"delete_question", "error"}, CR) /\ HasChild
      BY <2>4, <3>1, DeletionStep
    <3>3. ConfirmIsAsked(sess'[child])
      BY <2>1, <3>2, NameIsConfirmed DEF DeletesLast
    <3> QED
      BY <2>1, <2>4, <3>2, <3>3 DEF ConfirmIsAsked, CR, Plain, Line
  <2>5. CASE pc' = "deleted"
    <3>1. DeleteGoesOn
      BY <1>2, <2>5, Arriving DEF Erasing
    <3>2. /\ UNCHANGED <<child, raised>> /\ pc = "delete_confirm" /\ Matched({"confirm_question"})
          /\ DropAndSend({"confirm_question"}, CR) /\ HasChild
      BY <2>5, <3>1, DeletionStep
    <3>3. IsDeleted(sess[child])'
      BY <2>1, <3>2, DeletionIsConfirmed DEF DeletesLast
    <3> QED
      BY <2>5, <3>3
  <2> QED
    BY <2>2, <2>3, <2>4, <2>5
<1>3. CASE Router
  <2>1. PICK s \in DOMAIN sess : Works(s) \/ LoseSession(s)
    BY <1>3 DEF Router
  <2>2. /\ UNCHANGED <<child, pc, op, line, raised, calls>> /\ op = "SetConfig" /\ raised = NONE
        /\ Unmistaken
    BY <2>1, RouterKeeps DEF Unmistaken, Repeats
  <2>3. calls # 0
    BY <2>2 DEF Control, Phase
  <2>4. pc \in {"copy", "load", "sent", "echoed"} \cup Erasing => HasChild
    BY DEF Control, Reach, Uploading, Erasing
  <2>5. \/ pc' \in {"copy", "load", "delete", "delete_prompt"}
        \/ pc' \in {"sent", "echoed"} /\ line'.what = "save"
        => Undeleted(sess[child])'
    <3> SUFFICES ASSUME \/ pc' \in {"copy", "load", "delete", "delete_prompt"}
                        \/ pc' \in {"sent", "echoed"} /\ line'.what = "save"
                 PROVE  Undeleted(sess[child])'
      OBVIOUS
    <3>1. HasChild /\ Undeleted(sess[child])
      BY <2>2, <2>4 DEF DeletesLast, Erasing
    <3>2. Undeleted(sess'[child])
      BY <2>1, <3>1, UndeletedGoesOn
    <3> QED
      BY <2>2, <3>2 DEF Undeleted
  <2>6. CASE pc' = "delete_name"
    <3>1. HasChild /\ NameIsAsked(sess[child])
      BY <2>2, <2>4, <2>6 DEF DeletesLast, Erasing
    <3>2. NameIsAsked(sess'[child])
      BY <2>1, <3>1, NameIsAskedStill
    <3> QED
      BY <2>2, <2>6, <3>2 DEF NameIsAsked
  <2>7. CASE pc' = "delete_confirm"
    <3>1. HasChild /\ ConfirmIsAsked(sess[child])
      BY <2>2, <2>4, <2>7 DEF DeletesLast, Erasing
    <3>2. ConfirmIsAsked(sess'[child])
      BY <2>1, <3>1, ConfirmIsAskedStill
    <3> QED
      BY <2>2, <2>7, <3>2 DEF ConfirmIsAsked, CR, Plain, Line
  <2>8. CASE pc' = "deleted"
    <3>1. HasChild /\ IsDeleted(sess[child])
      BY <2>2, <2>4, <2>8 DEF DeletesLast, Erasing
    <3>2. IsDeleted(sess[child])'
      BY <2>1, <2>3, <3>1, IsDeletedStill
    <3> QED
      BY <2>8, <3>2
  <2> QED
    BY <2>5, <2>6, <2>7, <2>8
<1> QED
  BY <1>1, <1>2, <1>3 DEF Next

\* A SetConfig only returns when the deletion is over.
LEMMA Succeeding ==
  ASSUME Types, Control, Step, op = "SetConfig", result' = "ok"
  PROVE  /\ raised = NONE /\ raised' = NONE /\ pc \in Erasing /\ HasChild
         /\ \/ DeleteGoesOn /\ pc' = "idle"
            \/ DeleteFails /\ warned' = TRUE
<1> DEFINE Goal ==
      /\ raised = NONE /\ raised' = NONE /\ pc \in Erasing
      /\ \/ DeleteGoesOn /\ pc' = "idle"
         \/ DeleteFails /\ warned' = TRUE
<1> USE DEF Return, UploadRaises, SetConfigDone, Uploading, Dialled, Erasing
<1>0. /\ NONE \notin Exceptions /\ "ok" \notin Exceptions
      /\ pc # "idle" => result = "none"
      /\ raised \in Exceptions \cup {NONE}
      /\ pc # "idle"
  BY IosAssumption, Returning DEF Exceptions, Control, Phase, Types, Scalars
<1>1. CASE GivesUp
  BY <1>0, <1>1 DEF GivesUp
<1>2. CASE Login \/ PagerEcho \/ PagerPrompt \/ PagerOff \/ Echoed \/ Reconnect
  BY <1>0, <1>2 DEF Login, PagerEcho, PagerPrompt, PagerOff, Echoed, Reconnect, Waiting
<1>3. CASE Verified \/ CopyAsks \/ UploadConnects \/ DialSucceeds \/ Saved
  BY <1>0, <1>3 DEF Verified, CopyAsks, UploadConnects, DialSucceeds, Saved, Responded
<1>4. CASE CopyDone \/ LoadDone \/ LoadInvalid \/ LoadWarns \/ CopyFails
  BY <1>0, <1>4 DEF CopyDone, LoadDone, LoadInvalid, LoadWarns, CopyFails
<1>5. CASE Refused \/ Closed \/ CmdDone
  BY <1>0, <1>5 DEF Refused, Closed, CmdDone, Responded, Control, Phase
<1>6. CASE UploadUnconnected \/ NotAcknowledged \/ Acknowledged
  BY <1>0, <1>6 DEF UploadUnconnected, NotAcknowledged, Acknowledged, Received
<1> HIDE DEF SetConfigDone
<1>7. ASSUME DeleteGoesOn PROVE Goal
  <2>1. PICK s \in Deleting :
          /\ pc = s.at
          /\ SetConfigDone(FALSE) \/ UNCHANGED result
          /\ UNCHANGED raised
    BY <1>7, Zenon DEF DeleteGoesOn
  <2>2. pc \in Erasing
    BY <2>1 DEF Deleting
  <2>3. raised = NONE /\ pc' = "idle"
    <3>1. SetConfigDone(FALSE)
      BY <1>0, <2>1
    <3> QED
      BY <1>0, <3>1 DEF SetConfigDone
  <2> QED
    BY <1>7, <2>1, <2>2, <2>3
<1>8. ASSUME DeleteFails PROVE Goal
  <2>1. PICK s \in Deleting : pc = s.at /\ SetConfigDone(TRUE) /\ UNCHANGED raised
    BY <1>8, Zenon DEF DeleteFails
  <2>2. pc \in Erasing
    BY <2>1 DEF Deleting
  <2>3. raised = NONE
    BY <1>0, <2>1 DEF SetConfigDone
  <2>4. warned' = TRUE
    BY <2>1 DEF SetConfigDone
  <2> QED
    BY <1>8, <2>1, <2>2, <2>3, <2>4
<1> HIDE DEF Goal
<1>9. Goal
  BY <1>1, <1>2, <1>3, <1>4, <1>5, <1>6, <1>7, <1>8, FailuresGiveUp, Zenon DEF Step
<1> QED
  BY <1>9 DEF Goal, Control, Reach

LEMMA KeepsNoFile ==
  ASSUME Types, Control, DeletesLast, SuccessLeavesNoFile, Next
  PROVE  SuccessLeavesNoFile'
<1> SUFFICES ASSUME op' = "SetConfig", result' = "ok", ~warned', Unmistaken'
             PROVE  files'[calls'] = "none"
  BY DEF SuccessLeavesNoFile, Unmistaken
<1>1. CASE Call
  BY <1>1 DEF Call, Connect, Cmd, SetConfig, Disconnect, Begin
<1>2. CASE Step
  <2>1. op = "SetConfig" /\ Unmistaken
    BY <1>2, StepKeeps DEF Keeps, Unmistaken, Repeats
  <2>2. DeleteGoesOn /\ pc' = "idle" /\ raised = NONE /\ HasChild
    BY <1>2, <2>1, Succeeding
  <2> DEFINE kinds == {"prompt", "error"}
  <2>3. /\ pc = "deleted" /\ Matched(kinds) /\ Found(kinds) = "prompt" /\ UNCHANGED <<files, calls>>
    BY <2>2, DeletionStep
  <2>4. /\ Place(kinds) \in DOMAIN Out /\ Out[Place(kinds)].kind = "prompt" /\ Out # <<>>
        /\ \A i \in DOMAIN Out : i < Place(kinds) => Out[i].kind # "error"
    BY <2>2, <2>3, WasRead
  <2>5. IsDeleted(sess[child])
    BY <2>1, <2>2, <2>3 DEF DeletesLast
  <2> HIDE DEF kinds
  <2>6. files[calls] = "none"
    BY <2>4, <2>5 DEF IsDeleted, Out
  <2> QED
    BY <2>3, <2>6
<1>3. CASE Router
  <2>1. PICK s \in DOMAIN sess : Works(s) \/ LoseSession(s)
    BY <1>3 DEF Router
  <2>2. UNCHANGED <<op, result, warned, calls>> /\ Unmistaken
    BY <2>1, RouterKeeps DEF Unmistaken, Repeats
  <2>3. files[calls] = "none" /\ calls # 0
    BY <2>2 DEF SuccessLeavesNoFile, Unmistaken, Control, Phase
  <2> QED
    BY <2>1, <2>2, <2>3, GoneForGood
<1> QED
  BY <1>1, <1>2, <1>3 DEF Next

-----------------------------------------------------------------------------
(* A SetConfig that returns has been applied *)

\* The router answers verify with the checksum of a file that is whole, and
\* says that it has saved when it has.
LEMMA AnswerApplies ==
  ASSUME Types, Control, HasChild, op = "SetConfig", pc \in {"sent", "echoed"},
         Answered(sess[child], line, pc), ChecksumApplies, SaveApplies,
         Works(child) \/ LoseSession(child), ~complained'
  PROVE  ChecksumApplies' /\ SaveApplies'
<1>0. /\ line.of = calls /\ line.what \in {"verify", "save"}
      /\ UNCHANGED <<child, pc, line, calls>>
      /\ "sent" \notin Erasing /\ "echoed" \notin Erasing
  BY RouterKeeps DEF Control, Phase, HasChild, Erasing
<1>1. CASE Cut(sess[child], sess'[child]) /\ UNCHANGED <<files, running, startup, runs, complained>>
  BY <1>0, <1>1 DEF Cut, ChecksumApplies, SaveApplies, Placed, Stored, Texts, Out
<1>2. ASSUME NEW marks, NEW mode, Tells(marks, mode), sess[child].lines # <<>>
      PROVE  ChecksumApplies' /\ SaveApplies'
  <2>1. PICK kind \in Contents(line.what) : Effect(line, kind) /\ sess'[child].out = Says(line, kind)
    BY <1>0, <1>2, LineInHand
  <2>2. ChecksumApplies'
    <3> SUFFICES ASSUME NEW i \in DOMAIN sess'[child].out, sess'[child].out[i].kind = "checksum"
                 PROVE  files'[calls] = "whole"
      BY <1>0 DEF ChecksumApplies, Out
    <3>1. kind = "checksum"
      BY <2>1 DEF Says, Mark
    <3> QED
      BY <1>0, <2>1, <3>1 DEF Effect
  <2>3. line.what = "save" => kind = "text"
    BY <1>0, <2>1 DEF Effect, OfCall
  <2>4. SaveApplies'
    <3> SUFFICES ASSUME line.what = "save"
                 PROVE  line.dest = "running" /\ Placed' /\ Stored'
      BY <1>0 DEF SaveApplies
    <3>1. line.dest = "running" /\ Placed /\ startup' = running /\ running' = running
      BY <1>0, <2>1, <2>3 DEF SaveApplies, Effect
    <3> QED
      BY <1>0, <3>1 DEF Placed, Stored
  <2> QED
    BY <2>2, <2>4
<1> QED
  BY <1>1, <1>2, RouterOnChild DEF HasChild

\* A whole file that is copied is placed.
LEMMA FileIsPlaced ==
  ASSUME NEW l, l.of = calls, l.dest = line.dest, line.dest \in Destinations,
         Put(l, files[l.of]), files[calls] = "whole", UNCHANGED <<line, calls>>
  PROVE  Placed'
<1>1. CASE line.dest = "running"
  <2>1. running' = <<calls, "whole">>
    BY <1>1 DEF Put
  <2> QED
    BY <1>1, <2>1 DEF Placed
<1>2. CASE line.dest = "startup"
  <2>1. startup' = <<calls, "whole">>
    BY <1>2 DEF Put
  <2> QED
    BY <1>2, <2>1 DEF Placed
<1> QED
  BY <1>1, <1>2 DEF Destinations

\* It takes a copy for granted, or asks for the destination.
LEMMA CopyIsAnswered ==
  ASSUME Types, Control, HasChild, op = "SetConfig", pc = "copy", CopyApplies,
         Works(child) \/ LoseSession(child), ~complained'
  PROVE  CopyApplies'
<1>0. /\ line.of = calls /\ line.what = "copy" /\ files[calls] = "whole" /\ line.dest \in Destinations
      /\ CopyGoesOn(sess[child])
      /\ UNCHANGED <<child, pc, line, calls, op>>
  BY RouterKeeps DEF Control, Phase, HasChild, CopyApplies
<1>1. CASE Cut(sess[child], sess'[child]) /\ UNCHANGED <<files, running, startup, runs, complained>>
  <2>1. ASSUME NEW i \in DOMAIN sess'[child].out, i = Len(sess[child].out)
        PROVE  i = Len(sess'[child].out)
    BY <1>1, <2>1, OutputTyped DEF Cut, HasChild
  <2>2. /\ sess'[child].lines = <<>> /\ sess'[child].mode = sess[child].mode
        /\ \A i \in DOMAIN sess'[child].out :
             i \in DOMAIN sess[child].out /\ sess'[child].out[i] = sess[child].out[i]
    BY <1>1 DEF Cut
  <2>3. CopyGoesOn(sess[child])'
    BY <1>0, <1>1, <2>1, <2>2 DEF CopyGoesOn, Asking, Placed
  <2> QED
    BY <1>0, <1>1, <2>3 DEF CopyApplies
<1>2. ASSUME NEW marks, NEW mode, Tells(marks, mode), sess[child].lines # <<>>
      PROVE  CopyApplies'
  <2>1. sess[child].lines = <<line>> /\ sess[child].out = <<>> /\ sess[child].mode = Exec
    BY <1>0, <1>2 DEF CopyGoesOn
  <2>2. Hand(child) = line
    BY <2>1 DEF Hand, Exec, Plain, Line, Typed
  <2>3. sess'[child].lines = <<>> /\ sess'[child].mode = mode /\ sess'[child].out = marks
    BY <1>2, <2>1, Told DEF Out
  <2>4. CASE Reports(child, marks, mode)
    <3>1. PICK kind : Effect(line, kind) /\ marks = Says(line, kind) /\ mode = Exec
      BY <2>2, <2>4 DEF Reports
    <3>2. kind = "text"
      BY <1>0, <3>1 DEF Effect, OfCall, Copying
    <3>3. Placed' /\ files' = files
      <4>1. Put(line, files[line.of]) /\ files' = files
        BY <1>0, <3>1, <3>2 DEF Effect, Copying
      <4> QED
        BY <1>0, <4>1, FileIsPlaced
    <3>4. \A i \in DOMAIN marks : /\ marks[i].kind \in {"newline", "text", "prompt"}
                                  /\ marks[i].kind = "prompt" => i = Len(marks)
      BY <3>1, <3>2 DEF Says, Mark
    <3> QED
      BY <1>0, <2>3, <3>1, <3>3, <3>4 DEF CopyApplies, CopyGoesOn, Percent
  <2>5. CASE Queries(child, marks, mode)
    <3>1. /\ marks = Asks(line, "question") /\ mode = [line EXCEPT !.what = "destination"]
          /\ UNCHANGED files
      BY <1>0, <2>2, <2>5 DEF Queries
    <3>2. \A i \in DOMAIN marks : /\ marks[i].kind \in {"newline", "question"}
                                  /\ marks[i].kind = "question" => i = Len(marks)
      BY <3>1 DEF Asks, Mark
    <3>3. Asking(sess[child], "destination")'
      BY <1>0, <2>3, <3>1 DEF Asking
    <3> QED
      BY <1>0, <2>3, <3>1, <3>2, <3>3 DEF CopyApplies, CopyGoesOn, Percent
  <2>6. ~Finishes(child, marks, mode)
    BY <1>0, <2>2 DEF Finishes
  <2> QED
    BY <1>2, <2>4, <2>5, <2>6 DEF Tells
<1> QED
  BY <1>1, <1>2, RouterOnChild DEF HasChild

\* The same once the destination has been confirmed.
LEMMA LoadIsAnswered ==
  ASSUME Types, Control, HasChild, op = "SetConfig", pc = "load", CopyApplies,
         Works(child) \/ LoseSession(child), ~complained'
  PROVE  CopyApplies'
<1>0. /\ line.of = calls /\ line.what = "copy" /\ files[calls] = "whole" /\ line.dest \in Destinations
      /\ line \in [what : Whats, of : 0..calls, dest : Destinations \cup {NONE}]
      /\ LoadGoesOn(sess[child])
      /\ UNCHANGED <<child, pc, line, calls, op>>
  BY RouterKeeps DEF Control, Phase, HasChild, CopyApplies, Types, Scalars
<1>1. CASE Cut(sess[child], sess'[child]) /\ UNCHANGED <<files, running, startup, runs, complained>>
  <2>1. ASSUME NEW i \in DOMAIN sess'[child].out, i = Len(sess[child].out)
        PROVE  i = Len(sess'[child].out)
    BY <1>1, <2>1, OutputTyped DEF Cut, HasChild
  <2>2. /\ sess'[child].lines = <<>> /\ sess'[child].mode = sess[child].mode
        /\ \A i \in DOMAIN sess'[child].out :
             i \in DOMAIN sess[child].out /\ sess'[child].out[i] = sess[child].out[i]
    BY <1>1 DEF Cut
  <2>3. LoadGoesOn(sess[child])'
    BY <1>0, <1>1, <2>1, <2>2 DEF LoadGoesOn, Placed
  <2> QED
    BY <1>0, <1>1, <2>3 DEF CopyApplies
<1>2. ASSUME NEW marks, NEW mode, Tells(marks, mode), sess[child].lines # <<>>
      PROVE  CopyApplies'
  <2> DEFINE l == [line EXCEPT !.what = "destination"]
  <2>0. l.what = "destination" /\ l.of = calls /\ l.dest = line.dest
    BY <1>0
  <2>1. sess[child].lines = <<CR>> /\ sess[child].out = <<>> /\ sess[child].mode = l
    BY <1>0, <1>2 DEF LoadGoesOn, Asking
  <2> HIDE DEF l
  <2>2. Hand(child) = l
    BY <2>0, <2>1 DEF Hand
  <2>3. sess'[child].lines = <<>> /\ sess'[child].mode = mode /\ sess'[child].out = marks
    BY <1>2, <2>1, Told DEF Out
  <2>4. CASE Reports(child, marks, mode)
    <3>1. PICK kind : Effect(l, kind) /\ marks = Says(l, kind) /\ mode = Exec
      BY <2>2, <2>4 DEF Reports
    <3>2. kind = "text"
      BY <1>0, <2>0, <3>1 DEF Effect, OfCall, Copying
    <3>3. Placed' /\ files' = files
      <4>1. Put(l, files[l.of]) /\ files' = files
        BY <2>0, <3>1, <3>2 DEF Effect, Copying
      <4> QED
        BY <1>0, <2>0, <4>1, FileIsPlaced
    <3>4. \A i \in DOMAIN marks : marks[i].kind = "prompt" => i = Len(marks)
      BY <3>1, <3>2 DEF Says, Mark
    <3> QED
      BY <1>0, <2>3, <3>1, <3>3, <3>4 DEF CopyApplies, LoadGoesOn
  <2>5. CASE Queries(child, marks, mode)
    <3>1. marks = Asks(l, "warning") /\ UNCHANGED files
      BY <2>0, <2>2, <2>5 DEF Queries
    <3>2. \A i \in DOMAIN marks : marks[i].kind # "prompt"
      BY <3>1 DEF Asks, Mark
    <3> QED
      BY <1>0, <2>3, <3>1, <3>2 DEF CopyApplies, LoadGoesOn
  <2>6. ~Finishes(child, marks, mode)
    BY <2>0, <2>2 DEF Finishes
  <2> QED
    BY <1>2, <2>4, <2>5, <2>6 DEF Tells
<1> QED
  BY <1>1, <1>2, RouterOnChild DEF HasChild

\* Nothing that is typed to delete a file changes a configuration.
LEMMA ErasingIsHarmless ==
  ASSUME Types, Control, HasChild, EraseApplies, pc \in Erasing \/ (pc = "idle" /\ result = "ok"),
         Works(child) \/ LoseSession(child)
  PROVE  EraseApplies'
<1>0. /\ Stored /\ Harmless(sess[child])
      /\ UNCHANGED <<child, pc, line, calls, op, result>>
      /\ Exec.what = "exec"
  BY RouterKeeps DEF HasChild, EraseApplies, Exec, Plain, Line
<1>1. CASE Cut(sess[child], sess'[child]) /\ UNCHANGED <<files, running, startup, runs, complained>>
  <2>1. Harmless(sess'[child])
    BY <1>0, <1>1 DEF Harmless, Cut
  <2> QED
    BY <1>0, <1>1, <2>1 DEF EraseApplies, Stored, Placed
<1>2. ASSUME NEW marks, NEW mode, Tells(marks, mode), sess[child].lines # <<>>
      PROVE  EraseApplies'
  <2>1. Hand(child).what \in {"enter", "delete", "name", "confirm"}
    <3>1. sess[child].mode.what = "exec" => Hand(child).what \in {"enter", "delete"}
      BY <1>0, <1>2, Told DEF Harmless, Hand
    <3> QED
      BY <1>0, <3>1 DEF Harmless, Hand
  <2>2. mode.what \in {"exec", "name", "confirm"} /\ UNCHANGED <<running, startup>>
    <3>1. CASE Reports(child, marks, mode)
      <4>1. PICK kind : Effect(Hand(child), kind) /\ mode = Exec
        BY <3>1 DEF Reports
      <4> QED
        BY <1>0, <2>1, <4>1 DEF Effect, Copying
    <3>2. CASE Queries(child, marks, mode)
      <4>1. PICK what \in {"destination", "overwrite", "name", "confirm"} :
              /\ mode = [Hand(child) EXCEPT !.what = what]
              /\ what = "destination" => Hand(child).what = "copy"
              /\ what = "overwrite" => Hand(child).what = "destination"
        BY <3>2 DEF Queries
      <4>2. what \in {"name", "confirm"}
        BY <2>1, <4>1
      <4>3. mode.what = what
        <5>1. Hand(child) \in Lines(0..calls, Uploaded, Settled)
          BY <1>2, HandTyped DEF Hand, Types, HasChild
        <5>2. Hand(child) \in [what : Whats, of : 0..calls, dest : Destinations \cup {NONE}]
          BY <5>1 DEF Lines
        <5> QED
          BY <4>1, <5>2
      <4> QED
        BY <3>2, <4>2, <4>3 DEF Queries
    <3>3. CASE Finishes(child, marks, mode)
      BY <1>0, <3>3 DEF Finishes
    <3> QED
      BY <1>2, <3>1, <3>2, <3>3 DEF Tells
  <2>3. sess'[child].mode = mode /\ \A i \in DOMAIN sess'[child].lines : sess'[child].lines[i].what \in {"enter", "delete"}
    BY <1>0, <1>2, Told DEF Harmless
  <2>4. Harmless(sess'[child])
    BY <2>2, <2>3 DEF Harmless
  <2> QED
    BY <1>0, <2>2, <2>4 DEF EraseApplies, Stored, Placed
<1> QED
  BY <1>1, <1>2, RouterOnChild DEF HasChild

LEMMA RouterApplies ==
  ASSUME Types, Control, ClosedIsIdle, OthersIdle, BeginsWell, AnswersOnly, Applies, Router
  PROVE  Applies'
<1> SUFFICES ASSUME op' = "SetConfig", InPeace', raised' = NONE
             PROVE  ChecksumApplies' /\ CopyApplies' /\ SaveApplies' /\ EraseApplies'
  BY DEF Applies
<1>1. PICK s \in DOMAIN sess : Works(s) \/ LoseSession(s)
  BY DEF Router
<1>2. UNCHANGED <<child, pc, op, line, raised, fresh, calls, result>> /\ InPeace /\ ~complained'
  BY <1>1, RouterKeeps DEF InPeace
<1>3. s = child /\ HasChild
  BY <1>1, <1>2, RouterInPeace DEF InPeace, HasChild
<1>4. ChecksumApplies /\ CopyApplies /\ SaveApplies /\ EraseApplies
  BY <1>2 DEF Applies
<1> DEFINE Goal == ChecksumApplies' /\ CopyApplies' /\ SaveApplies' /\ EraseApplies'
<1>5. CASE pc \in {"sent", "echoed"}
  <2>1. Answered(sess[child], line, pc)
    BY <1>2, <1>3, <1>5 DEF AnswersOnly
  <2>2. ChecksumApplies' /\ SaveApplies'
    BY <1>1, <1>2, <1>3, <1>4, <1>5, <2>1, AnswerApplies
  <2> QED
    BY <1>2, <1>5, <2>2 DEF CopyApplies, EraseApplies, Erasing
<1>6. CASE pc \in {"copy", "load"}
  <2>1. CopyApplies'
    BY <1>1, <1>2, <1>3, <1>4, <1>6, CopyIsAnswered, LoadIsAnswered
  <2> QED
    BY <1>2, <1>6, <2>1 DEF ChecksumApplies, SaveApplies, EraseApplies, Erasing, Dialled
<1>7. CASE pc \in Erasing \/ (pc = "idle" /\ result = "ok")
  <2>1. EraseApplies'
    BY <1>1, <1>2, <1>3, <1>4, <1>7, ErasingIsHarmless
  <2> QED
    BY <1>2, <1>7, <2>1 DEF ChecksumApplies, SaveApplies, CopyApplies, Erasing, Dialled
<1>8. CASE pc \in Dialled
  <2>1. Beginning(sess[child])
    BY <1>8 DEF BeginsWell
  <2>2. UNCHANGED <<running, startup>> /\ (Texts(sess'[child]) => Texts(sess[child]))
    BY <1>1, <1>3, <2>1, BeginningGoesOn
  <2>3. SaveApplies'
    BY <1>2, <1>4, <2>2 DEF SaveApplies, Placed, Stored
  <2> QED
    BY <1>2, <1>8, <2>3 DEF ChecksumApplies, EraseApplies, CopyApplies, Erasing, Dialled
<1>9. CASE pc = "dial"
  <2>1. ~Open /\ sess[child].lines = <<>>
    BY <1>2, <1>3, <1>9 DEF Control, Reach, ClosedIsIdle, HasChild, Open
  <2>2. FALSE
    BY <1>1, <1>3, <2>1, WorkIsLocal DEF LoseSession, Open
  <2> QED
    BY <2>2
<1>10. CASE pc \in Uploading \cup {"exit"} \/ (pc = "idle" /\ result # "ok")
  BY <1>2, <1>10 DEF ChecksumApplies, EraseApplies, CopyApplies, SaveApplies, Erasing, Dialled, Uploading
<1> QED
  BY <1>5, <1>6, <1>7, <1>8, <1>9, <1>10 DEF Types, Scalars, Pcs

\* The deletion types nothing but empty lines and delete.
LEMMA ErasingGoesOn ==
  ASSUME Types, Control, DeleteGoesOn \/ DeleteFails
  PROVE  /\ pc \in Erasing /\ HasChild
         /\ UNCHANGED <<child, line, calls, running, startup, raised>>
         /\ Harmless(sess[child]) => Harmless(sess'[child])
<1>1. PICK s \in Deleting :
        /\ pc = s.at
        /\ \/ Drop(s.waits)
           \/ DropAndSend(s.waits, [line EXCEPT !.what = "delete"])
           \/ DropAndSend(s.waits, CR)
           \/ UNCHANGED sess
        /\ UNCHANGED <<object, line, raised, fixed>>
  BY Zenon DEF DeleteGoesOn, DeleteFails
<1>2. pc \in Erasing
  BY <1>1 DEF Deleting, Erasing
<1>3. HasChild
  BY <1>2 DEF Control, Reach, Erasing, Uploading
<1> DEFINE l == [line EXCEPT !.what = "delete"]
<1>4. l.what = "delete" /\ CR.what = "enter"
  BY DEF Types, Scalars, CR, Plain, Line
<1> HIDE DEF l
<1>5. ASSUME NEW x, x.what \in {"enter", "delete"}, Harmless(sess[child])
      PROVE  \A i \in DOMAIN Written(x) : Written(x)[i].what \in {"enter", "delete"}
  BY <1>3, <1>5, WasWritten DEF Harmless
<1>6. Harmless(sess[child]) => Harmless(sess'[child])
  <2> SUFFICES ASSUME Harmless(sess[child]) PROVE Harmless(sess'[child])
    OBVIOUS
  <2>1. \/ sess'[child].lines = sess[child].lines
        \/ sess'[child].lines = Written(l)
        \/ sess'[child].lines = Written(CR)
    BY <1>1, <1>3, Said DEF Becomes, l
  <2>2. sess'[child].mode = sess[child].mode
    BY <1>1, <1>3, Said DEF Becomes, l
  <2>3. \A i \in DOMAIN sess'[child].lines : sess'[child].lines[i].what \in {"enter", "delete"}
    BY <1>4, <1>5, <2>1 DEF Harmless
  <2> QED
    BY <2>2, <2>3 DEF Harmless
<1>7. UNCHANGED <<child, line, calls, running, startup, raised>>
  BY <1>1 DEF object, fixed, router
<1> QED
  BY <1>2, <1>3, <1>6, <1>7

\* A file that has the right checksum is whole.
LEMMA ChecksumIsLookedFor ==
  ASSUME Types, Control, AnswersOnly, Applies, Step, op = "SetConfig", InPeace, pc' = "copy"
  PROVE  CopyApplies'
<1> DEFINE l == [line EXCEPT !.what = "copy"]
<1>1. /\ pc = "echoed" /\ Matched(Waits) /\ line.what = "verify" /\ child' = child /\ line' = l
      /\ DropAndSend(Waits, l) /\ UNCHANGED <<files, calls>>
      /\ SameDigest
  BY Arriving DEF Verified, Responded, object, fixed, router, DeleteFile
<1> HIDE DEF l
<1>2. HasChild /\ raised = NONE /\ line.of = calls
  BY <1>1 DEF Control, Reach, Phase, Uploading, Erasing
<1>3. Answered(sess[child], line, "echoed")
  BY <1>1, <1>2 DEF AnswersOnly
<1>4. PICK k : Response = {Mark(k, line.of)} /\ 1 \in DOMAIN Out /\ Out[1].kind = k /\ After(Waits) = <<>>
  BY <1>1, <1>2, <1>3, ResponseRead
<1>5. k = "checksum"
  BY <1>1, <1>4, DigestIsRead DEF Mark
<1>6. files[calls] = "whole"
  BY <1>1, <1>2, <1>4, <1>5 DEF Applies, ChecksumApplies
<1>7. sess[child].lines = <<>> /\ sess[child].mode = Exec
  BY <1>3 DEF Answered
<1>8. Becomes(Written(l), <<>>, Exec) /\ Written(l) \in {<<>>, <<l>>}
  BY <1>1, <1>2, <1>4, <1>7, Said, WasWritten
<1>9. CopyGoesOn(sess[child])'
  <2>1. sess'[child].lines \in {<<>>, <<l>>} /\ sess'[child].out = <<>> /\ sess'[child].mode = Exec
    BY <1>8 DEF Becomes
  <2> QED
    BY <1>1, <2>1 DEF CopyGoesOn
<1> QED
  BY <1>1, <1>6, <1>9 DEF CopyApplies

\* The destination is asked for when the router waits for it.
LEMMA DestinationIsConfirmed ==
  ASSUME Types, Control, Applies, Step, op = "SetConfig", InPeace, pc' = "load"
  PROVE  CopyApplies'
<1>1. /\ pc = "copy" /\ Matched(CopyWaits) /\ Found(CopyWaits) = "question"
      /\ DropAndSend(CopyWaits, CR) /\ UNCHANGED <<child, line, files, calls>>
  BY Arriving DEF CopyAsks, object, fixed, router
<1>2. HasChild /\ raised = NONE
  BY <1>1 DEF Control, Reach, Phase, Uploading, Erasing
<1>3. files[calls] = "whole" /\ CopyGoesOn(sess[child])
  BY <1>1, <1>2 DEF Applies, CopyApplies
<1>4. /\ Place(CopyWaits) \in DOMAIN Out /\ Out[Place(CopyWaits)].kind = "question" /\ Out # <<>>
      /\ Place(CopyWaits) = Len(Out) => After(CopyWaits) = <<>>
  BY <1>1, <1>2, WasRead
<1>5. sess[child].lines = <<>> /\ Asking(sess[child], "destination") /\ After(CopyWaits) = <<>>
  BY <1>3, <1>4 DEF CopyGoesOn, Out
<1>6. Becomes(Written(CR), <<>>, sess[child].mode) /\ Written(CR) \in {<<>>, <<CR>>}
  BY <1>1, <1>2, <1>5, Said, WasWritten
<1>7. LoadGoesOn(sess[child])'
  <2>1. sess'[child].lines \in {<<>>, <<CR>>} /\ sess'[child].out = <<>> /\ sess'[child].mode = sess[child].mode
    BY <1>6 DEF Becomes
  <2>2. Asking(sess[child], "destination")'
    BY <1>1, <1>5, <2>1 DEF Asking
  <2> QED
    BY <1>1, <2>1, <2>2 DEF LoadGoesOn
<1> QED
  BY <1>1, <1>3, <1>7 DEF CopyApplies

\* The prompt after the copy comes when the file is placed, and nothing else.
LEMMA CopyIsPlaced ==
  ASSUME Types, Control, Applies, op = "SetConfig", InPeace, CopyDone \/ LoadDone
  PROVE  /\ HasChild /\ raised = NONE /\ Placed
         /\ line.dest \in Destinations
         /\ UNCHANGED <<child, calls, running, startup>>
         /\ sess[child].mode = Exec
         /\ IF line.dest = "running"
            THEN /\ pc' = "sent" /\ line' = [line EXCEPT !.what = "save"]
                 /\ sess'[child].out = <<>>
            ELSE /\ pc' = "delete" /\ UNCHANGED line
                 /\ Becomes(Written(CR), <<>>, Exec)
                 /\ Written(CR) \in {<<>>, <<CR>>}
<1>1. PICK kinds : /\ kinds \in {CopyWaits, LoadWaits}
                   /\ Matched(kinds) /\ Copied(kinds) /\ UNCHANGED <<object, fixed>>
                   /\ \/ pc = "copy" /\ kinds = CopyWaits /\ Found(kinds) # "question"
                      \/ pc = "load" /\ Found(kinds) = "prompt"
  BY DEF CopyDone, LoadDone
<1>2. HasChild /\ raised = NONE /\ line.dest \in Destinations /\ UNCHANGED <<child, calls, running, startup>>
  BY <1>1 DEF Control, Reach, Phase, Uploading, Erasing, object, fixed, router
<1>3. pc = "copy" => CopyGoesOn(sess[child])
  BY <1>2 DEF Applies, CopyApplies
<1>4. pc = "load" => LoadGoesOn(sess[child])
  BY <1>2 DEF Applies, CopyApplies
<1>5. /\ Place(kinds) \in DOMAIN Out /\ Found(kinds) = Out[Place(kinds)].kind /\ Found(kinds) \in kinds
      /\ Out # <<>>
      /\ Place(kinds) = Len(Out) => After(kinds) = <<>>
  BY <1>1, <1>2, WasRead
<1>6. Found(kinds) = "prompt"
  BY <1>1, <1>3, <1>5 DEF CopyGoesOn, CopyWaits, Out
<1>7. Place(kinds) = Len(Out) /\ sess[child].mode = Exec /\ sess[child].lines = <<>> /\ Placed
  BY <1>1, <1>3, <1>4, <1>5, <1>6 DEF CopyGoesOn, LoadGoesOn, Out
<1>8. \A l : DropAndSend(kinds, l) => Becomes(Written(l), <<>>, Exec)
  BY <1>1, <1>2, <1>5, <1>7, Said
<1>9. Written(CR) \in {<<>>, <<CR>>}
  BY <1>2, <1>7, WasWritten
<1>10. CASE line.dest = "running"
  <2>1. sess'[child].out = <<>>
    BY <1>1, <1>8, <1>10 DEF Copied, Becomes
  <2> QED
    BY <1>1, <1>2, <1>7, <1>10, <2>1 DEF Copied
<1>11. CASE line.dest # "running"
  <2>1. Becomes(Written(CR), <<>>, Exec)
    BY <1>1, <1>8, <1>11 DEF Copied
  <2> QED
    BY <1>1, <1>2, <1>7, <1>9, <1>11, <2>1 DEF Copied, DeleteFile
<1> QED
  BY <1>10, <1>11

\* wr mem is sent when the file is in running-config, and taken to be done when
\* the router has said so.
LEMMA SaveGoesOn ==
  ASSUME Types, Control, BeginsWell, AnswersOnly, Applies, Step, op = "SetConfig", InPeace,
         line'.what = "save", pc' \in Dialled \cup {"dial", "sent", "echoed"}
  PROVE  line'.dest = "running" /\ Placed' /\ (Texts(sess[child]) => Stored)'
<1> DEFINE Goal == line'.dest = "running" /\ Placed' /\ (Texts(sess[child]) => Stored)'
<1>1. ASSUME pc \in Dialled \cup {"dial", "sent", "echoed"}, raised = NONE,
             UNCHANGED <<line, calls, running, startup>>,
             Texts(sess'[child']) => Texts(sess[child])
      PROVE  Goal
  <2>1. line.dest = "running" /\ Placed /\ (Texts(sess[child]) => Stored)
    BY <1>1 DEF Applies, SaveApplies
  <2>2. Placed' /\ (Stored => Stored')
    BY <1>1, <2>1 DEF Placed, Stored
  <2> QED
    BY <1>1, <2>1, <2>2
<1>2. ASSUME HasChild, NEW kinds, Matched(kinds), child' = child,
             Drop(kinds) \/ \E l : DropAndSend(kinds, l)
      PROVE  Texts(sess'[child']) => Texts(sess[child])
  <2>1. sess'[child].out = After(kinds)
    BY <1>2, Said DEF Becomes
  <2> QED
    BY <1>2, <2>1, WasRead DEF Texts, Out
<1>3. ASSUME Login \/ PagerEcho \/ PagerPrompt \/ Echoed PROVE Goal
  <2>1. /\ pc \in Dialled \cup {"sent"} /\ UNCHANGED <<child, line, calls, running, startup>>
        /\ \E kinds : Matched(kinds) /\ (Drop(kinds) \/ \E l : DropAndSend(kinds, l))
    BY <1>3 DEF Login, PagerEcho, PagerPrompt, Echoed, object, fixed, router, Dialled
  <2>2. HasChild /\ raised = NONE
    BY <2>1 DEF Control, Reach, Phase, Dialled, Uploading, Erasing
  <2> QED
    BY <1>1, <1>2, <2>1, <2>2
<1>4. ASSUME DialSucceeds PROVE Goal
  <2>1. /\ pc = "dial" /\ UNCHANGED <<line, calls, running, startup>>
        /\ ~Texts(sess'[child'])
    BY <1>4, NewSession DEF DialSucceeds, fixed, router, Texts
  <2>2. raised = NONE
    BY <2>1 DEF Control, Phase, Erasing
  <2> QED
    BY <1>1, <2>1, <2>2
<1>5. ASSUME Reconnect PROVE Goal
  <2>1. /\ pc \in {"sent", "echoed"} /\ UNCHANGED <<child, sess, line, calls, running, startup>>
    BY <1>5 DEF Reconnect, Waiting, fixed, router
  <2>2. raised = NONE
    BY <2>1 DEF Control, Phase, Erasing
  <2> QED
    BY <1>1, <2>1, <2>2
<1>6. ASSUME PagerOff PROVE Goal
  <2>1. pc \in Dialled /\ UNCHANGED <<child, line, calls, running, startup>>
    BY <1>6 DEF PagerOff, router, Dialled
  <2>2. sess'[child].out = <<>>
    BY <1>6, PagerDone DEF Becomes
  <2>3. raised = NONE /\ ~Texts(sess'[child'])
    BY <2>1, <2>2 DEF Control, Phase, Dialled, Erasing, Texts
  <2> QED
    BY <1>1, <2>1, <2>3
<1>7. ASSUME CopyDone \/ LoadDone PROVE Goal
  <2>1. CASE line.dest = "running"
    <3>1. /\ line' = [line EXCEPT !.what = "save"] /\ ~Texts(sess'[child'])
          /\ Placed /\ UNCHANGED <<calls, running, startup>>
      BY <1>7, <2>1, CopyIsPlaced DEF Texts
    <3>2. line'.dest = "running"
      BY <2>1, <3>1 DEF Types, Scalars
    <3> QED
      BY <2>1, <3>1, <3>2 DEF Placed
  <2>2. CASE line.dest # "running"
    BY <1>7, <2>2, CopyIsPlaced DEF Dialled
  <2> QED
    BY <2>1, <2>2
<1>8. ~Acknowledged \/ pc' # "sent"
  BY DEF Acknowledged, object, Control, Phase, Uploading
<1> HIDE DEF Goal
<1>9. Goal
  BY <1>3, <1>4, <1>5, <1>6, <1>7, <1>8, Arriving
<1> QED
  BY <1>9 DEF Goal

LEMMA EraseBegins ==
  ASSUME Types, Control, AnswersOnly, Applies, Step, op = "SetConfig", InPeace,
         raised' = NONE, pc' \in Erasing \/ (pc' = "idle" /\ result' = "ok")
  PROVE  Stored' /\ Harmless(sess'[child']) /\ HasChild
<1>0. CR.what = "enter" /\ Exec.what = "exec"
  BY DEF CR, Exec, Plain, Line
<1>1. ASSUME Becomes(Written(CR), <<>>, Exec), Written(CR) \in {<<>>, <<CR>>}
      PROVE  Harmless(sess'[child])
  BY <1>0, <1>1 DEF Becomes, Harmless
<1>2. CASE CopyDone \/ LoadDone
  <2>1. line.dest = "startup" /\ Placed /\ UNCHANGED <<child, line, calls, running, startup>> /\ HasChild
    BY <1>2, CopyIsPlaced DEF Erasing, Destinations
  <2>2. Becomes(Written(CR), <<>>, Exec) /\ Written(CR) \in {<<>>, <<CR>>}
    BY <1>2, <2>1, CopyIsPlaced
  <2>3. Stored'
    BY <2>1 DEF Placed, Stored
  <2> QED
    BY <1>1, <2>1, <2>2, <2>3
<1>3. CASE Saved
  <2>1. /\ pc = "echoed" /\ Matched(Waits) /\ line.what = "save" /\ DropAndSend(Waits, CR)
        /\ UNCHANGED <<child, line, calls, running, startup>>
    BY <1>3 DEF Saved, Responded, object, fixed, router
  <2>2. HasChild /\ raised = NONE
    BY <2>1 DEF Control, Reach, Phase, Uploading, Erasing
  <2>3. Answered(sess[child], line, "echoed")
    BY <2>1, <2>2 DEF AnswersOnly
  <2>4. 1 \in DOMAIN Out /\ Out[1].kind = "text" /\ After(Waits) = <<>>
    BY <2>1, <2>2, <2>3, ResponseRead DEF Expected
  <2>5. Stored
    BY <2>1, <2>2, <2>4 DEF Applies, SaveApplies, Texts, Out
  <2>6. sess[child].lines = <<>> /\ sess[child].mode = Exec
    BY <2>3 DEF Answered
  <2>7. Becomes(Written(CR), <<>>, Exec) /\ Written(CR) \in {<<>>, <<CR>>}
    BY <2>1, <2>2, <2>4, <2>6, Said, WasWritten
  <2>8. Stored'
    BY <2>1, <2>5 DEF Stored, Placed
  <2> QED
    BY <1>1, <2>1, <2>2, <2>7, <2>8
<1>4. CASE DeleteGoesOn \/ DeleteFails
  <2>1. /\ pc \in Erasing /\ HasChild
        /\ UNCHANGED <<child, line, calls, running, startup, raised>>
        /\ Harmless(sess[child]) => Harmless(sess'[child])
    BY <1>4, ErasingGoesOn
  <2>2. Stored /\ Harmless(sess[child])
    BY <2>1 DEF Applies, EraseApplies
  <2> QED
    BY <2>1, <2>2 DEF Stored, Placed
<1>5. CASE pc' \in Erasing
  BY <1>2, <1>3, <1>4, <1>5, Arriving
<1>6. CASE pc' = "idle" /\ result' = "ok"
  BY <1>4, <1>6, Succeeding
<1> QED
  BY <1>5, <1>6

LEMMA KeepsApplied ==
  ASSUME Types, Control, ClosedIsIdle, OthersIdle, BeginsWell, AnswersOnly, Applies, Next
  PROVE  Applies'
<1>1. CASE Call
  <2>1. op' = "SetConfig" => pc' = "upload"
    BY <1>1 DEF Call, Connect, Cmd, SetConfig, Disconnect, Begin
  <2> QED
    BY <2>1 DEF Applies, ChecksumApplies, CopyApplies, SaveApplies, EraseApplies, Dialled, Erasing
<1>2. CASE Step
  <2> SUFFICES ASSUME op' = "SetConfig", InPeace', raised' = NONE
               PROVE  ChecksumApplies' /\ CopyApplies' /\ SaveApplies' /\ EraseApplies'
    BY DEF Applies
  <2>1. InPeace /\ op = "SetConfig" /\ calls' = calls
    <3>1. Keeps
      BY <1>2, StepKeeps
    <3> QED
      BY <3>1 DEF Keeps, InPeace
  <2>2. ChecksumApplies'
    <3> SUFFICES ASSUME line'.what = "verify", pc' \in {"sent", "echoed"},
                        NEW i \in DOMAIN sess'[child'].out, sess'[child'].out[i].kind = "checksum"
                 PROVE  files'[calls'] = "whole"
      BY DEF ChecksumApplies, Out
    <3>1. CASE Echoed
      <4>1. /\ pc = "sent" /\ Matched(Waits) /\ Drop(Waits) /\ UNCHANGED <<child, line, files, raised>>
        BY <3>1 DEF Echoed, object, fixed, router
      <4>2. HasChild
        BY <4>1 DEF Control, Reach, Uploading
      <4>3. sess'[child].out = After(Waits)
        BY <4>1, <4>2, Said DEF Becomes
      <4>4. i + Place(Waits) \in DOMAIN Out /\ Out[i + Place(Waits)].kind = "checksum"
        BY <4>1, <4>2, <4>3, WasRead
      <4> QED
        BY <2>1, <4>1, <4>4 DEF Applies, ChecksumApplies
    <3>2. CASE PagerOff /\ op # "Connect"
      BY <3>2, PagerDone DEF Becomes
    <3>3. CASE Acknowledged /\ pc = "data" /\ HasChild /\ Send(line)
      <4>1. child' = child /\ Quiet(sess[child])
        BY <2>1, <3>3 DEF Acknowledged, object, AnswersOnly, Uploading
      <4>2. sess'[child].out = <<>>
        BY <3>3, <4>1, Said DEF Becomes, Quiet, Out
      <4> QED
        BY <4>1, <4>2
    <3>4. CASE CopyDone \/ LoadDone
      <4>1. line'.what = "save" \/ pc' = "delete"
        BY <2>1, <3>4, CopyIsPlaced DEF Types, Scalars
      <4> QED
        BY <4>1
    <3> QED
      BY <1>2, <3>1, <3>2, <3>3, <3>4, Arriving
  <2>3. CopyApplies'
    <3>1. CASE pc' \in {"copy", "load"}
      BY <1>2, <2>1, <3>1, ChecksumIsLookedFor, DestinationIsConfirmed
    <3>2. CASE pc' \notin {"copy", "load"}
      BY <3>2 DEF CopyApplies
    <3> QED
      BY <3>1, <3>2
  <2>4. SaveApplies'
    BY <1>2, <2>1, SaveGoesOn DEF SaveApplies
  <2>5. EraseApplies'
    BY <1>2, <2>1, EraseBegins DEF EraseApplies
  <2> QED
    BY <2>2, <2>3, <2>4, <2>5
<1>3. CASE Router
  BY <1>3, RouterApplies
<1> QED
  BY <1>1, <1>2, <1>3 DEF Next

-----------------------------------------------------------------------------
(* What holds for any number of calls, sessions and losses *)

LEMMA InitHolds ==
  ASSUME Init
  PROVE  IInv
<1>1. Types /\ Control /\ ClosedIsIdle
  BY InitTypes
<1>2. OthersIdle /\ ResponseIsOwn /\ SuccessLeavesNoFile
  BY DEF Init, OthersIdle, ResponseIsOwn, SuccessLeavesNoFile
<1>3. BeginsWell /\ AnswersOnly /\ RunsBounded
  BY DEF Init, BeginsWell, AnswersOnly, RunsBounded, Dialled, Uploading
<1>4. VerifiesLast /\ CopiesLater /\ DeletesLast /\ Applies
  BY DEF Init, VerifiesLast, Verifying, CopiesLater, DeletesLast, Applies
<1> QED
  BY <1>1, <1>2, <1>3, <1>4 DEF IInv

LEMMA StutterHolds ==
  ASSUME IInv, UNCHANGED vars
  PROVE  IInv'
<1>1. Types' /\ Control' /\ ClosedIsIdle'
  BY StutterTypes DEF IInv
<1> USE DEF IInv, vars, object, router, history, HasChild, Out, Open
<1>2. OthersIdle' /\ ResponseIsOwn' /\ SuccessLeavesNoFile' /\ CopiesLater'
  BY DEF OthersIdle, ResponseIsOwn, SuccessLeavesNoFile, Repeats, CopiesLater
<1>3. BeginsWell' /\ AnswersOnly' /\ RunsBounded'
  BY DEF BeginsWell, AnswersOnly, RunsBounded, InPeace
<1>4. VerifiesLast'
  BY DEF VerifiesLast, Verifying, Unmentioned, ChecksumIsLast
<1>5. DeletesLast'
  BY DEF DeletesLast, Undeleted, NameIsAsked, ConfirmIsAsked, IsDeleted, Unmistaken, Repeats
<1>6. Applies'
  <2>1. CopyApplies' = CopyApplies
    BY DEF CopyApplies, CopyGoesOn, LoadGoesOn, Asking, Placed
  <2>2. (ChecksumApplies <=> ChecksumApplies') /\ (SaveApplies <=> SaveApplies')
    BY DEF ChecksumApplies, SaveApplies, Placed, Stored
  <2>3. EraseApplies <=> EraseApplies'
    BY DEF EraseApplies, Placed, Stored
  <2> QED
    BY <2>1, <2>2, <2>3 DEF Applies, InPeace
<1> QED
  BY <1>1, <1>2, <1>3, <1>4, <1>5, <1>6

LEMMA NextHolds ==
  ASSUME IInv, [Next]_vars
  PROVE  IInv'
<1>1. CASE UNCHANGED vars
  BY <1>1, StutterHolds
<1>2. CASE Next
  <2> USE DEF IInv
  <2>0. ReadsItsOwn
    BY OwnIsRead
  <2>1. Types' /\ Control' /\ ClosedIsIdle'
    BY <2>0, NextTypes
  <2>2. OthersIdle'
    BY <1>2, <2>0, KeepsOthersIdle
  <2>3. BeginsWell'
    BY <1>2, KeepsBeginnings
  <2>4. AnswersOnly'
    BY <1>2, KeepsAnswers
  <2>5. RunsBounded'
    BY <1>2, <2>0, <2>1, <2>3, <2>4, KeepsRuns
  <2>6. VerifiesLast'
    BY <1>2, <2>1, KeepsChecksums
  <2>7. CopiesLater' /\ DeletesLast'
    BY <1>2, <2>0, KeepsCopiesLater, KeepsDeletion
  <2>8. Applies'
    BY <1>2, KeepsApplied
  <2>9. ResponseIsOwn' /\ SuccessLeavesNoFile'
    BY <1>2, KeepsResponses, KeepsNoFile
  <2> QED
    BY <2>1, <2>2, <2>3, <2>4, <2>5, <2>6, <2>7, <2>8, <2>9
<1> QED
  BY <1>1, <1>2

\* The inductive invariant.
THEOREM Invariant == Spec => []IInv
BY InitHolds, NextHolds, PTL DEF Spec

\* A file cut short is in a configuration only if an earlier call had the same
\* data, and was never put there by a call that found the router waiting, while it
\* was at work (ios.py:193-211: any line that looks like the answer to verify is
\* taken for it).
THEOREM OnlyWholeFilesReach == Spec => []OnlyWholeFiles
<1>1. IInv => OnlyWholeFiles
  <2> SUFFICES ASSUME IInv, NEW c \in {running, startup}, c[2] = "part"
               PROVE  Repeats(c[1]) /\ (c[1] = calls /\ op = "SetConfig" => ~fresh)
    BY DEF OnlyWholeFiles
  <2>1. c \in Doubtful \X {"part"}
    BY DEF IInv, Types, Configurations
  <2> QED
    BY <2>1 DEF Doubtful
<1> QED
  BY <1>1, Invariant, PTL

\* A call that finds the router waiting and all its output read returns the
\* output of its own command, whatever is lost or late while it runs (ios.py:101-148:
\* a session is sent the command once, and a new one has nothing else to say).
THEOREM ResponsesAreOwn == Spec => []ResponseIsOwn
<1>1. IInv => ResponseIsOwn
  BY DEF IInv
<1> QED
  BY <1>1, Invariant, PTL

\* For such a call, Cmd keeps the promise of base_device.py: its command is run
\* at most twice, the second time after the reconnection of ios.py:121-128, and a
\* response is that of a command that was run.  That a call ends is not part of
\* this: it needs fairness.
THEOREM CommandIsKept == Spec => Channel!Spec
<1>1. Init => Channel!Init
  BY DEF Init, Channel!Init
<1>2. IInv /\ IInv' /\ [Next]_vars => [Channel!Next]_(Channel!channel)
  BY ChannelStep DEF IInv
<1> QED
  BY <1>1, <1>2, Invariant, PTL DEF Spec, Channel!Spec

\* A SetConfig that returns without a warning has deleted its file (ios.py:277-282,
\* _DeleteFile), also when the router has complained, or when the conversation was out
\* of step and no earlier call put the same data.
THEOREM SuccessCleansUp == Spec => []SuccessLeavesNoFile
<1>1. IInv => SuccessLeavesNoFile
  BY DEF IInv
<1> QED
  BY <1>1, Invariant, PTL

\* A SetConfig that found the router waiting, and that it did not refuse, has put
\* the whole file where it was told and saved it when it returns (ios.py:186-276).
THEOREM SuccessApplies == Spec => []SuccessIsApplied
<1>1. IInv => SuccessIsApplied
  <2> SUFFICES ASSUME IInv, op = "SetConfig", result = "ok", fresh, ~complained
               PROVE  /\ line.dest = "running" => running = <<calls, "whole">>
                      /\ startup = <<calls, "whole">>
    BY DEF SuccessIsApplied
  <2>1. raised = NONE /\ pc = "idle"
    BY DEF IInv, Control, Phase
  <2>2. Stored
    BY <2>1 DEF IInv, Applies, InPeace, EraseApplies
  <2> QED
    BY <2>2 DEF Stored, Placed
<1> QED
  BY <1>1, Invariant, PTL
=============================================================================
