------------------------ MODULE ParamikoDeviceProofs ------------------------
(***************************************************************************)
(* What a device object promises however its sessions are lost, for every  *)
(* number of calls: a command runs at most once, an answer means that it   *)
(* ran, a call opens no more than three sessions, and an object that       *)
(* believes to be connected has a session.                                 *)
(***************************************************************************)
EXTENDS ParamikoDevice, TLAPS

\* Inside _Cmd, before the command has been sent.
Sending ==
  \/ pc \in {"open", "reopen", "drop", "exec", "retry"}
  \/ pc = "connect" /\ op = "Cmd"

\* The command of a Cmd in progress has run when its output is read and not
\* before, and a call in progress has no result.
Progress ==
  /\ pc # "idle" => result = "none"
  /\ pc \in {"open", "reopen", "drop", "exec", "read", "retry"} => op = "Cmd"
  /\ pc = "connect" => op \in {"Connect", "Cmd"}
  /\ Sending => runs = 0
  /\ pc = "read" => runs = 1

\* A Cmd that has used its retry may have opened two sessions before it started
\* again; each start opens one when it drops a session, and the retry another.
\* Connect opens one and is then connected.
Effort ==
  /\ op = "Connect" =>
       /\ tries <= 1
       /\ pc = "connect" /\ ~connected => tries = 0
  /\ op = "Cmd" =>
       /\ retriesLeft <= 1
       /\ tries <= 3
       /\ pc \in {"open", "drop"} => tries + 2 * retriesLeft <= 2
       /\ pc = "connect" /\ ~connected => tries + 2 * retriesLeft <= 2
       /\ pc \in {"connect", "reopen", "exec", "read", "retry"}
            => tries + 2 * retriesLeft <= 3

IInv ==
  /\ TypeOK
  /\ CommandRunsAtMostOnce
  /\ ResponseMeansRun
  /\ ConnectedHasClient
  /\ Progress
  /\ Effort

-----------------------------------------------------------------------------

\* Each step keeps the types.
LEMMA TypeStep == TypeOK /\ [Next]_vars => TypeOK'
<1> SUFFICES ASSUME TypeOK, [Next]_vars PROVE TypeOK'
  OBVIOUS
<1> USE DEF TypeOK, PC, Results, ConnectErrors, OtherErrors, object, cmd
<1>1. CASE Connect
  <2>1. connected' \in BOOLEAN /\ hostStatus' \in BOOLEAN
    BY <1>1 DEF Connect, Begin
  <2>2. low' \in BOOLEAN /\ timed' \in BOOLEAN
    BY <1>1 DEF Connect, Begin
  <2>3. /\ pc' \in PC
        /\ op' \in {"Connect", "Cmd", "Disconnect"}
        /\ result' \in Results
    BY <1>1 DEF Connect, Begin
  <2>4. /\ client' \in Nat \cup {NONE} /\ live' \subseteq Nat /\ opened' \in Nat
        /\ retriesLeft' \in Nat /\ runs' \in Nat
        /\ tries' \in Nat /\ calls' \in Nat
    BY <1>1 DEF Connect, Begin
  <2>5. QED
    BY <2>1, <2>2, <2>3, <2>4
<1>2. CASE Cmd
  <2>1. connected' \in BOOLEAN /\ hostStatus' \in BOOLEAN
    BY <1>2 DEF Cmd, Begin
  <2>2. low' \in BOOLEAN /\ timed' \in BOOLEAN
    BY <1>2 DEF Cmd, Begin
  <2>3. /\ pc' \in PC
        /\ op' \in {"Connect", "Cmd", "Disconnect"}
        /\ result' \in Results
    BY <1>2 DEF Cmd, Begin
  <2>4. /\ client' \in Nat \cup {NONE} /\ live' \subseteq Nat /\ opened' \in Nat
        /\ retriesLeft' \in Nat /\ runs' \in Nat
        /\ tries' \in Nat /\ calls' \in Nat
    BY <1>2 DEF Cmd, Begin
  <2>5. QED
    BY <2>1, <2>2, <2>3, <2>4
<1>3. CASE Disconnect
  <2>1. connected' \in BOOLEAN /\ hostStatus' \in BOOLEAN
    BY <1>3 DEF Disconnect, CloseClient
  <2>2. low' \in BOOLEAN /\ timed' \in BOOLEAN
    BY <1>3 DEF Disconnect
  <2>3. client' \in Nat \cup {NONE} /\ live' \subseteq Nat /\ opened' \in Nat
    BY <1>3 DEF Disconnect, CloseClient
  <2>4. /\ pc' \in PC
        /\ op' \in {"Connect", "Cmd", "Disconnect"}
        /\ result' \in Results
    BY <1>3 DEF Disconnect
  <2>5. /\ retriesLeft' \in Nat /\ runs' \in Nat
        /\ tries' \in Nat /\ calls' \in Nat
    BY <1>3 DEF Disconnect
  <2>6. QED
    BY <2>1, <2>2, <2>3, <2>4, <2>5
<1>4. CASE AlreadyConnected
  BY <1>4 DEF AlreadyConnected, Return
<1>5. CASE ConnectSucceeds
  BY <1>5 DEF ConnectSucceeds, OpenClient
<1>6. CASE ConnectFails
  BY <1>6 DEF ConnectFails, Return
<1>7. CASE ConnectHostDown
  BY <1>7 DEF ConnectHostDown, Return
<1>8. CASE OpenChannel
  BY <1>8 DEF OpenChannel
<1>9. CASE NoTransport
  BY <1>9 DEF NoTransport
<1>10. CASE OpenRefused
  BY <1>10 DEF OpenRefused, Return
<1>11. CASE DropSession
  BY <1>11 DEF DropSession, CloseClient
<1>12. CASE Exec
  BY <1>12 DEF Exec, Return
<1>13. CASE Read
  BY <1>13 DEF Read, Return
<1>14. CASE RetrySucceeds
  BY <1>14 DEF RetrySucceeds, OpenClient
<1>15. CASE RetryFails
  BY <1>15 DEF RetryFails, Return
<1>16. CASE NoRetryLeft
  BY <1>16 DEF NoRetryLeft, Return
<1>17. CASE LoseSession
  BY <1>17 DEF LoseSession
<1>18. CASE UNCHANGED vars
  BY <1>18 DEF vars
<1>19. QED
  BY <1>1, <1>2, <1>3, <1>4, <1>5, <1>6, <1>7, <1>8, <1>9,
     <1>10, <1>11, <1>12, <1>13, <1>14, <1>15, <1>16, <1>17, <1>18
  DEF Next, Call, Work

\* Nothing but CloseClient drops the session, and it clears the flag with it.
LEMMA ConnectedStep ==
  ASSUME TypeOK, ConnectedHasClient, [Next]_vars
  PROVE  ConnectedHasClient'
<1> USE DeviceAssumption DEF TypeOK, ConnectedHasClient, object
<1>1. CASE Connect
  BY <1>1 DEF Connect, Begin
<1>2. CASE Cmd
  BY <1>2 DEF Cmd, Begin
<1>3. CASE Disconnect
  BY <1>3 DEF Disconnect, CloseClient
<1>4. CASE AlreadyConnected
  BY <1>4 DEF AlreadyConnected, Return
<1>5. CASE ConnectSucceeds
  BY <1>5 DEF ConnectSucceeds, OpenClient
<1>6. CASE ConnectFails
  BY <1>6 DEF ConnectFails, Return
<1>7. CASE ConnectHostDown
  BY <1>7 DEF ConnectHostDown, Return
<1>8. CASE OpenChannel
  BY <1>8 DEF OpenChannel
<1>9. CASE NoTransport
  BY <1>9 DEF NoTransport
<1>10. CASE OpenRefused
  BY <1>10 DEF OpenRefused, Return
<1>11. CASE DropSession
  BY <1>11 DEF DropSession, CloseClient
<1>12. CASE Exec
  BY <1>12 DEF Exec, Return
<1>13. CASE Read
  BY <1>13 DEF Read, Return
<1>14. CASE RetrySucceeds
  BY <1>14 DEF RetrySucceeds, OpenClient
<1>15. CASE RetryFails
  BY <1>15 DEF RetryFails, Return
<1>16. CASE NoRetryLeft
  BY <1>16 DEF NoRetryLeft, Return
<1>17. CASE LoseSession
  BY <1>17 DEF LoseSession
<1>18. CASE UNCHANGED vars
  BY <1>18 DEF vars
<1>19. QED
  BY <1>1, <1>2, <1>3, <1>4, <1>5, <1>6, <1>7, <1>8, <1>9,
     <1>10, <1>11, <1>12, <1>13, <1>14, <1>15, <1>16, <1>17, <1>18
  DEF Next, Call, Work

\* A command is run by Exec alone, which leaves "exec" for good, and answers are
\* given by Read alone.
LEMMA ProgressStep ==
  ASSUME TypeOK, Progress, CommandRunsAtMostOnce, ResponseMeansRun, [Next]_vars
  PROVE  (Progress /\ CommandRunsAtMostOnce /\ ResponseMeansRun)'
<1> USE DEF TypeOK, Progress, Sending, CommandRunsAtMostOnce, ResponseMeansRun,
            ConnectErrors, OtherErrors, cmd
<1>1. CASE Connect
  BY <1>1 DEF Connect, Begin
<1>2. CASE Cmd
  BY <1>2 DEF Cmd, Begin
<1>3. CASE Disconnect
  BY <1>3 DEF Disconnect, CloseClient
<1>4. CASE AlreadyConnected
  BY <1>4 DEF AlreadyConnected, Return
<1>5. CASE ConnectSucceeds
  BY <1>5 DEF ConnectSucceeds, OpenClient
<1>6. CASE ConnectFails
  BY <1>6 DEF ConnectFails, Return
<1>7. CASE ConnectHostDown
  BY <1>7 DEF ConnectHostDown, Return
<1>8. CASE OpenChannel
  BY <1>8 DEF OpenChannel
<1>9. CASE NoTransport
  BY <1>9 DEF NoTransport
<1>10. CASE OpenRefused
  BY <1>10 DEF OpenRefused, Return
<1>11. CASE DropSession
  BY <1>11 DEF DropSession, CloseClient
<1>12. CASE Exec
  BY <1>12 DEF Exec, Return
<1>13. CASE Read
  BY <1>13 DEF Read, Return
<1>14. CASE RetrySucceeds
  BY <1>14 DEF RetrySucceeds, OpenClient
<1>15. CASE RetryFails
  BY <1>15 DEF RetryFails, Return
<1>16. CASE NoRetryLeft
  BY <1>16 DEF NoRetryLeft, Return
<1>17. CASE LoseSession
  BY <1>17 DEF LoseSession
<1>18. CASE UNCHANGED vars
  BY <1>18 DEF vars
<1>19. QED
  BY <1>1, <1>2, <1>3, <1>4, <1>5, <1>6, <1>7, <1>8, <1>9,
     <1>10, <1>11, <1>12, <1>13, <1>14, <1>15, <1>16, <1>17, <1>18
  DEF Next, Call, Work

\* Each session that is opened is paid for by the retry or by having been
\* disconnected.
LEMMA EffortStep == TypeOK /\ Progress /\ Effort /\ [Next]_vars => Effort'
<1> SUFFICES ASSUME TypeOK, Progress, Effort, [Next]_vars PROVE Effort'
  OBVIOUS
<1> USE DEF TypeOK, Progress, Sending, Effort, object, cmd
<1>1. CASE Connect
  BY <1>1 DEF Connect, Begin
<1>2. CASE Cmd
  BY <1>2 DEF Cmd, Begin
<1>3. CASE Disconnect
  BY <1>3 DEF Disconnect, CloseClient
<1>4. CASE AlreadyConnected
  BY <1>4 DEF AlreadyConnected, Return
<1>5. CASE ConnectSucceeds
  BY <1>5 DEF ConnectSucceeds, OpenClient
<1>6. CASE ConnectFails
  BY <1>6 DEF ConnectFails, Return
<1>7. CASE ConnectHostDown
  BY <1>7 DEF ConnectHostDown, Return
<1>8. CASE OpenChannel
  BY <1>8 DEF OpenChannel
<1>9. CASE NoTransport
  BY <1>9 DEF NoTransport
<1>10. CASE OpenRefused
  BY <1>10 DEF OpenRefused, Return
<1>11. CASE DropSession
  BY <1>11 DEF DropSession, CloseClient
<1>12. CASE Exec
  BY <1>12 DEF Exec, Return
<1>13. CASE Read
  BY <1>13 DEF Read, Return
<1>14. CASE RetrySucceeds
  BY <1>14 DEF RetrySucceeds, OpenClient
<1>15. CASE RetryFails
  BY <1>15 DEF RetryFails, Return
<1>16. CASE NoRetryLeft
  BY <1>16 DEF NoRetryLeft, Return
<1>17. CASE LoseSession
  BY <1>17 DEF LoseSession
<1>18. CASE UNCHANGED vars
  BY <1>18 DEF vars
<1>19. QED
  BY <1>1, <1>2, <1>3, <1>4, <1>5, <1>6, <1>7, <1>8, <1>9,
     <1>10, <1>11, <1>12, <1>13, <1>14, <1>15, <1>16, <1>17, <1>18
  DEF Next, Call, Work

-----------------------------------------------------------------------------

LEMMA Invariant == Spec => []IInv
<1>1. Init => IInv
  <2> SUFFICES ASSUME Init PROVE IInv
    OBVIOUS
  <2>1. TypeOK
    BY DEF Init, TypeOK, PC, Results
  <2>2. CommandRunsAtMostOnce /\ ResponseMeansRun /\ ConnectedHasClient
    BY DEF Init, CommandRunsAtMostOnce, ResponseMeansRun, ConnectedHasClient
  <2>3. Progress /\ Effort
    BY DEF Init, Progress, Sending, Effort
  <2>4. QED
    BY <2>1, <2>2, <2>3 DEF IInv
<1>2. IInv /\ [Next]_vars => IInv'
  BY TypeStep, ConnectedStep, ProgressStep, EffortStep DEF IInv
<1>3. QED
  BY <1>1, <1>2, PTL DEF Spec

\* A step of the device object is a step of the abstract channel, or stutters.
LEMMA ChannelStep ==
  ASSUME IInv, [Next]_vars
  PROVE  [Channel!Next]_(Channel!channel)
<1> USE DEF IInv, TypeOK, Progress, Sending, CommandRunsAtMostOnce,
            ConnectErrors, OtherErrors, cmd,
            Channel!Next, Channel!channel, Channel!Begin, Channel!Run,
            Channel!Answer, Channel!Fail, Channel!Other
<1>1. CASE Connect
  BY <1>1 DEF Connect, Begin
<1>2. CASE Cmd
  BY <1>2 DEF Cmd, Begin
<1>3. CASE Disconnect
  BY <1>3 DEF Disconnect
<1>4. CASE AlreadyConnected
  BY <1>4 DEF AlreadyConnected, Return
<1>5. CASE ConnectSucceeds
  BY <1>5 DEF ConnectSucceeds
<1>6. CASE ConnectFails
  BY <1>6 DEF ConnectFails, Return
<1>7. CASE ConnectHostDown
  BY <1>7 DEF ConnectHostDown, Return
<1>8. CASE OpenChannel
  BY <1>8 DEF OpenChannel
<1>9. CASE NoTransport
  BY <1>9 DEF NoTransport
<1>10. CASE OpenRefused
  BY <1>10 DEF OpenRefused, Return
<1>11. CASE DropSession
  BY <1>11 DEF DropSession
<1>12. CASE Exec
  BY <1>12 DEF Exec, Return
<1>13. CASE Read
  BY <1>13 DEF Read, Return
<1>14. CASE RetrySucceeds
  BY <1>14 DEF RetrySucceeds
<1>15. CASE RetryFails
  BY <1>15 DEF RetryFails, Return
<1>16. CASE NoRetryLeft
  BY <1>16 DEF NoRetryLeft, Return
<1>17. CASE LoseSession
  BY <1>17 DEF LoseSession
<1>18. CASE UNCHANGED vars
  BY <1>18 DEF vars
<1>19. QED
  BY <1>1, <1>2, <1>3, <1>4, <1>5, <1>6, <1>7, <1>8, <1>9,
     <1>10, <1>11, <1>12, <1>13, <1>14, <1>15, <1>16, <1>17, <1>18
  DEF Next, Call, Work

\* However its sessions are lost, a device object implements the abstract
\* channel: one run of a command at most, none after the call has ended, and a
\* response only for a command that ran.
THEOREM DeviceImplementsChannel == Spec => ImplementsChannel
<1>1. Init => Channel!Init
  BY DEF Init, Channel!Init
<1>2. IInv /\ [Next]_vars => [Channel!Next]_(Channel!channel)
  BY ChannelStep
<1>3. QED
  BY <1>1, <1>2, Invariant, PTL DEF Spec, ImplementsChannel, Channel!Spec

\* The variables keep their types.
THEOREM DeviceTypeCorrect == Spec => []TypeOK
<1>1. IInv => TypeOK
  BY DEF IInv
<1>2. QED
  BY <1>1, Invariant, PTL

\* Cmd connects again and starts over, for a lost session or a low channel id, but
\* never after the device may have run its command.
THEOREM CommandNeverRunsTwice == Spec => []CommandRunsAtMostOnce
<1>1. IInv => CommandRunsAtMostOnce
  BY DEF IInv
<1>2. QED
  BY <1>1, Invariant, PTL

\* What Cmd returns, even an empty output, comes from a command that was run.
THEOREM ResponseIsOfARun == Spec => []ResponseMeansRun
<1>1. IInv => ResponseMeansRun
  BY DEF IInv
<1>2. QED
  BY <1>1, Invariant, PTL

\* An object that believes to be connected has a session to use.
THEOREM ConnectedObjectHasClient == Spec => []ConnectedHasClient
<1>1. IInv => ConnectedHasClient
  BY DEF IInv
<1>2. QED
  BY <1>1, Invariant, PTL

\* A Connect opens one session and a Cmd three at most, whatever is lost.
THEOREM SessionsAreBounded == Spec => []EffortIsBounded
<1>1. IInv => EffortIsBounded
  BY DEF IInv, Effort, TypeOK, EffortIsBounded
<1>2. QED
  BY <1>1, Invariant, PTL
=============================================================================
