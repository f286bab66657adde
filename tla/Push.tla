-------------------------------- MODULE Push --------------------------------
(***************************************************************************)
(* tools/ldpush/push.py: main starts one thread for each target, and the   *)
(* threads push at the same time, each with a device object of its own.    *)
(* What they share is the SSH configuration (SshOptions), which every      *)
(* session they open goes through: the one of device.Connect, and those    *)
(* the operation opens to connect again or to copy a file.                 *)
(*                                                                         *)
(* What the operations do to a device is in the modules of the devices;    *)
(* here they end, need another session, or raise.  Nothing is caught: what *)
(* a thread raises ends that thread, what main raises ends main, and the   *)
(* process lives until the last thread has ended.                          *)
(***************************************************************************)
EXTENDS SshOptions

CONSTANTS
  MaxTargets,  \* bound on the number of targets
  BarMax       \* the value at which the progress bar is full: 100

ASSUME PushAssumption ==
  /\ MaxTargets \in Nat
  /\ Threads = 1..MaxTargets
  /\ BarMax \in Nat \ {0}

VARIABLES
  targets,   \* how many targets there are
  command,   \* --command: a command is pushed, not files
  main,      \* where main is
  started,   \* how many threads it has started
  push       \* where run of each thread is

pushing == <<targets, command, main, started, push>>
pushVars == <<vars, pushing>>

PushInit ==
  /\ Init
  /\ targets \in 1..MaxTargets
  /\ command \in BOOLEAN
  /\ main = "loop"
  /\ started = 0
  /\ push = [t \in Threads |-> "new"]

-----------------------------------------------------------------------------
(* main *)

\* Mutant of BarOverflows: the division is that of two integers.
BarOverflowsDiv(counter) == (targets \div BarMax) * counter > BarMax

\* The bar is given (targets / 100.0) * counter and refuses what is beyond its
\* end.
BarOverflows(counter) == targets * counter > BarMax * BarMax

\* JoinFiles, for each target anew: an IOError is let happen.
FilesUnreadable ==
  /\ main = "loop"
  /\ ~command
  /\ main' = "raised"
  /\ UNCHANGED <<vars, targets, command, started, push>>

\* The next thread is started and the bar updated; what the bar raises ends
\* the loop.
StartThread ==
  /\ main = "loop"
  /\ started' = started + 1
  /\ push' = [push EXCEPT ![started + 1] = "connecting"]
  /\ main' = IF BarOverflows(started) THEN "stopped"
             ELSE IF started + 1 = targets THEN "done"
             ELSE "loop"
  /\ UNCHANGED <<vars, targets, command>>

-----------------------------------------------------------------------------
(* PushThread.run *)

Become(t, state) == push' = [push EXCEPT ![t] = state]

\* sshclient.Connect goes on: it opens a session, or what it raises ends the
\* thread.
Connecting(t) ==
  /\ push[t] = "connecting"
  /\ Connect(t)
  /\ \/ pc'[t] # "idle" /\ UNCHANGED push
     \/ pc[t] = "connect" /\ Become(t, "working")
     \/ pc'[t] = "idle" /\ Become(t, "died")
  /\ UNCHANGED <<targets, command, main, started>>

\* Cmd or SetConfig needs a session more: the one it had is lost, or a file is
\* to be copied.
NeedsSession(t) ==
  /\ push[t] = "working"
  /\ connects[t] < MaxConnects
  /\ Become(t, "connecting")
  /\ UNCHANGED <<vars, targets, command, main, started>>

\* The operation is over and device.Disconnect too, or one of them raises.
Finish(t) ==
  /\ push[t] = "working"
  /\ Become(t, "ended") \/ Become(t, "died")
  /\ UNCHANGED <<vars, targets, command, main, started>>

Main == FilesUnreadable \/ StartThread
Run(t) == Connecting(t) \/ NeedsSession(t) \/ Finish(t)

PushNext == Main \/ \E t \in Threads : Run(t)

\* main goes on, and so does each thread that can run.  Weak fairness is enough,
\* for the lock too: once one thread has cleared the flag no other joins the
\* queue, so the lock is free for good after finitely many turns.
PushSpec == PushInit /\ [][PushNext]_pushVars
FairPushSpec == PushSpec /\ WF_pushVars(Main) /\ \A t \in Threads : WF_pushVars(Run(t))

-----------------------------------------------------------------------------
(* Properties *)

\* Every push that is started ends, whatever the other threads meet and
\* wherever main stops: none waits forever for the configuration that they
\* share.
EveryPushEnds == \A t \in Threads : push[t] # "new" ~> push[t] \in {"ended", "died"}

\* Whether every target gets its push is decided by the progress bar: it stops
\* main when there are more targets than the bar has room for, and only then,
\* and a target that main did not come to is not pushed to.
BarStopsLargePushes ==
  /\ main = "done" => targets <= BarMax /\ started = targets
  /\ main = "stopped" => targets > BarMax
=============================================================================
