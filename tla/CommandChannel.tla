--------------------------- MODULE CommandChannel ---------------------------
(***************************************************************************)
(* What BaseDevice.Cmd (tools/ldpush/base_device.py) promises its caller,  *)
(* whatever the vendor: a command is run a bounded number of times, a      *)
(* response is only given for a command that was run, and a call ends.     *)
(* The device objects are shown to implement this.                         *)
(***************************************************************************)
EXTENDS Naturals

CONSTANT MaxRuns   \* how often the device may run the command of one Cmd

VARIABLES
  busy,      \* is a Cmd in progress?
  ran,       \* how often the device ran its command
  answered   \* did the last Cmd return a response?

channel == <<busy, ran, answered>>

Init == busy = FALSE /\ ran = 0 /\ answered = FALSE

\* Cmd is called.
Begin ==
  /\ ~busy
  /\ busy' = TRUE
  /\ ran' = 0
  /\ answered' = FALSE

\* The device runs the command, maybe after the call has been given up.
Run ==
  /\ ran < MaxRuns
  /\ ran' = ran + 1
  /\ UNCHANGED <<busy, answered>>

\* A response is returned.
Answer ==
  /\ busy
  /\ ran > 0
  /\ busy' = FALSE
  /\ answered' = TRUE
  /\ UNCHANGED ran

\* An exception is raised, when the device may just have run the command.
Fail ==
  /\ busy
  /\ busy' = FALSE
  /\ ran' \in ran..MaxRuns
  /\ UNCHANGED answered

\* Another call begins.
Other ==
  /\ ~busy
  /\ ran' = 0
  /\ answered' = FALSE
  /\ UNCHANGED busy

Next == Begin \/ Run \/ Answer \/ Fail \/ Other

Spec == Init /\ [][Next]_channel

\* A Cmd that has begun ends.
FairSpec == Spec /\ WF_channel(Answer \/ Fail)
=============================================================================
