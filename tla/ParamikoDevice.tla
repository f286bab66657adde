--------------------------- MODULE ParamikoDevice ---------------------------
(***************************************************************************)
(* One device object of tools/ldpush: BaseDevice (base_device.py) with the *)
(* SSH session of ParamikoDevice (paramiko_device.py).                     *)
(*                                                                         *)
(* A client calls Connect, Cmd and Disconnect in any order, one at a time, *)
(* while the session may be lost at any moment.  What the object believes  *)
(* (connected, _host_status, _ssh_client) and what is open on the wire are *)
(* separate state: nothing tells the object of a loss.                     *)
(*                                                                         *)
(* `connected' is a property that BaseDevice binds to its own accessors,   *)
(* so that reading it reads _connected; ParamikoDevice._GetConnected is    *)
(* never called.  _dampen_end_time is assigned nowhere.                    *)
(***************************************************************************)
EXTENDS Naturals, FiniteSets

CONSTANTS
  NONE,      \* Python's None
  MaxCalls   \* bound on the calls the client makes

ASSUME DeviceAssumption ==
  /\ NONE \notin Nat
  /\ MaxCalls \in Nat

VARIABLES
  connected,    \* _connected
  hostStatus,   \* _host_status
  client,       \* _ssh_client: a session, or None
  live,         \* the sessions that are open
  opened,       \* sessions opened so far: the next one's number
  pc,           \* where the call in progress is
  op,           \* the call in progress, or the last one
  low,          \* require_low_chanid of that Cmd
  timed,        \* was its channel given the timeout for responses?
  retriesLeft,  \* retries_left of that Cmd
  runs,         \* history: how often the device ran its command
  tries,        \* history: how often it tried to open a session
  result,       \* how the last call ended
  calls         \* calls begun

vars == <<connected, hostStatus, client, live, opened, pc, op, low, timed,
          retriesLeft, runs, tries, result, calls>>

object == <<connected, hostStatus, client>>
cmd == <<low, timed, retriesLeft, runs>>

ConnectErrors == {"ConnectError", "AuthenticationError"}

\* Raised by the translation of the name, outside what Connect catches.
OtherErrors == {"SshConfigError"}

Init ==
  /\ connected = FALSE
  /\ hostStatus = TRUE
  /\ client = NONE
  /\ live = {}
  /\ opened = 0
  /\ pc = "idle"
  /\ op = "Connect"
  /\ low = FALSE
  /\ timed = FALSE
  /\ retriesLeft = 0
  /\ runs = 0
  /\ tries = 0
  /\ result = "none"
  /\ calls = 0

Return(r) ==
  /\ result' = r
  /\ pc' = "idle"

Alive == client \in live

\* sshclient.Connect succeeds: a new session, which the object keeps in place of
\* the one it had.
OpenClient ==
  /\ opened' = opened + 1
  /\ client' = opened + 1
  /\ live' = live \cup {opened + 1}

-----------------------------------------------------------------------------
(* The calls of the client *)

Begin(o) ==
  /\ pc = "idle"
  /\ calls < MaxCalls
  /\ calls' = calls + 1
  /\ op' = o
  /\ result' = "none"

\* Connect with some authentication information and a management address.
Connect ==
  /\ Begin("Connect")
  /\ pc' = "connect"
  /\ tries' = 0
  /\ UNCHANGED <<object, live, opened, cmd>>

\* The client sends commands once a Connect of it has succeeded, whatever became
\* of the session since.  JunosDevice asks for a low channel id, other devices
\* may not.
Cmd ==
  /\ Begin("Cmd")
  /\ opened > 0
  /\ low' \in BOOLEAN
  /\ retriesLeft' = 1
  /\ runs' = 0
  /\ tries' = 0
  /\ pc' = "open"
  /\ UNCHANGED <<object, live, opened, timed>>

\* BaseDevice.Disconnect: _Disconnect closes what it believes is connected.
CloseClient ==
  /\ connected' = FALSE
  /\ IF connected /\ client # NONE
     THEN client' = NONE /\ live' = live \ {client}
     ELSE UNCHANGED <<client, live>>

Disconnect ==
  /\ pc = "idle"
  /\ calls < MaxCalls
  /\ calls' = calls + 1
  /\ op' = "Disconnect"
  /\ CloseClient
  /\ result' = "ok"
  /\ UNCHANGED <<hostStatus, opened, pc, cmd, tries>>

-----------------------------------------------------------------------------
(* BaseDevice.Connect: while not self.connected.  _Cmd calls it too. *)

AlreadyConnected ==
  /\ pc = "connect"
  /\ connected
  /\ \/ op = "Connect" /\ Return("ok")
     \/ op = "Cmd" /\ pc' = "reopen" /\ UNCHANGED result
  /\ UNCHANGED <<object, live, opened, op, cmd, tries, calls>>

ConnectSucceeds ==
  /\ pc = "connect"
  /\ ~connected
  /\ hostStatus
  /\ OpenClient
  /\ connected' = TRUE
  /\ tries' = tries + 1
  /\ UNCHANGED <<hostStatus, pc, op, cmd, result, calls>>

\* A connect error marks the host down and is raised again, any other passes
\* through; _Cmd turns every exception of the Connect it calls into a CmdError.
ConnectFails ==
  /\ pc = "connect"
  /\ ~connected
  /\ hostStatus
  /\ tries' = tries + 1
  /\ \E e \in ConnectErrors \cup OtherErrors :
       /\ hostStatus' = (e \in OtherErrors)
       /\ Return(IF op = "Connect" THEN e ELSE "CmdError")
  /\ UNCHANGED <<connected, client, live, opened, op, cmd, calls>>

\* The host is down: _HostDownPrepareConnect reads _dampen_end_time, an
\* AttributeError, which _Cmd takes for a session that is None.
ConnectHostDown ==
  /\ pc = "connect"
  /\ ~connected
  /\ ~hostStatus
  /\ \/ op = "Connect" /\ Return("AttributeError")
     \/ op = "Cmd" /\ pc' = "retry" /\ UNCHANGED result
  /\ UNCHANGED <<object, live, opened, op, cmd, tries, calls>>

-----------------------------------------------------------------------------
(* ParamikoDevice._Cmd *)

\* open_session() on the transport of the session that is kept.  The timeout is
\* set for the first channel only, not for the one that is opened after a
\* session was dropped.
OpenChannel ==
  /\ pc \in {"open", "reopen"}
  /\ Alive
  /\ timed' = (pc = "open")
  /\ \/ pc' = "exec"
     \/ pc = "open" /\ low /\ pc' = "drop"
  /\ UNCHANGED <<object, live, opened, op, low, retriesLeft, runs, tries, result, calls>>

\* Mutant of NoTransport: the loop goes on without connecting again.
NoTransportLoops ==
  /\ pc \in {"open", "reopen"}
  /\ ~Alive
  /\ UNCHANGED vars

\* None, or a transport that is gone, has no open_session.
NoTransport ==
  /\ pc \in {"open", "reopen"}
  /\ ~Alive
  /\ pc' = "retry"
  /\ UNCHANGED <<object, live, opened, op, cmd, tries, result, calls>>

\* A transport that is still there but dead, or a device that refuses another
\* channel, raises SSHException.
OpenRefused ==
  /\ pc \in {"open", "reopen"}
  /\ client # NONE
  /\ Return("CmdError")
  /\ UNCHANGED <<object, live, opened, op, cmd, tries, calls>>

\* Too many channels in this session: it is closed and Connect is called.
DropSession ==
  /\ pc = "drop"
  /\ CloseClient
  /\ pc' = "connect"
  /\ UNCHANGED <<hostStatus, opened, op, cmd, tries, result, calls>>

\* Mutant of Exec: a channel that failed is retried too.
ExecRetries ==
  /\ pc = "exec"
  /\ \/ Alive /\ runs' = runs + 1 /\ pc' = "read"
     \/ runs' \in {runs} \cup {runs + 1 : s \in live \cap {client}} /\ pc' = "retry"
  /\ UNCHANGED <<object, live, opened, op, low, timed, retriesLeft, tries, result, calls>>

\* The command is sent and run, and the rest of its output is awaited; or the
\* channel fails, before the device has run the command or after.
Exec ==
  /\ pc = "exec"
  /\ \/ Alive /\ runs' = runs + 1 /\ pc' = "read" /\ UNCHANGED result
     \/ runs' \in {runs} \cup {runs + 1 : s \in live \cap {client}} /\ Return("CmdError")
  /\ UNCHANGED <<object, live, opened, op, low, timed, retriesLeft, tries, calls>>

\* Both streams are read to their end.  A session that is gone ends them too,
\* which cuts the output short; something on stderr, or the timeout of a channel
\* that has one, is a CmdError.
Read ==
  /\ pc = "read"
  /\ \/ Return("output")
     \/ Return("CmdError")
     \/ IF connected THEN Return("empty") ELSE Return("CmdError")
  /\ UNCHANGED <<object, live, opened, op, cmd, tries, calls>>

\* Mutant of RetrySucceeds: retries are not counted.
RetriesForever ==
  /\ pc = "retry"
  /\ retriesLeft > 0
  /\ OpenClient
  /\ tries' = tries + 1
  /\ pc' = "open"
  /\ UNCHANGED <<connected, hostStatus, op, low, timed, retriesLeft, runs, result, calls>>

\* After an AttributeError: one more _Connect, then the command from the start.
RetrySucceeds ==
  /\ pc = "retry"
  /\ retriesLeft > 0
  /\ OpenClient
  /\ retriesLeft' = retriesLeft - 1
  /\ tries' = tries + 1
  /\ pc' = "open"
  /\ UNCHANGED <<connected, hostStatus, op, low, timed, runs, result, calls>>

\* What _Connect raises here, inside the handler, is caught by none of the others.
RetryFails ==
  /\ pc = "retry"
  /\ retriesLeft > 0
  /\ tries' = tries + 1
  /\ \E e \in ConnectErrors \cup OtherErrors : Return(e)
  /\ UNCHANGED <<object, live, opened, op, cmd, calls>>

NoRetryLeft ==
  /\ pc = "retry"
  /\ retriesLeft = 0
  /\ Return("CmdError")
  /\ UNCHANGED <<object, live, opened, op, cmd, tries, calls>>

\* The network, the device or its idle timer ends a session.
LoseSession ==
  /\ \E s \in live : live' = live \ {s}
  /\ UNCHANGED <<object, opened, pc, op, cmd, tries, result, calls>>

Call == Connect \/ Cmd \/ Disconnect

Work ==
  \/ AlreadyConnected \/ ConnectSucceeds \/ ConnectFails \/ ConnectHostDown
  \/ OpenChannel \/ NoTransport \/ OpenRefused \/ DropSession
  \/ Exec \/ Read
  \/ RetrySucceeds \/ RetryFails \/ NoRetryLeft

Next == Call \/ Work \/ LoseSession

\* Waiting for output on a channel without a timeout: nothing but the device, or
\* the end of the session, ends it.
Untimed == pc = "read" /\ ~timed /\ Alive

\* A thread that is inside a call goes on, as the SSH server answers a request
\* or is found to be gone, and a channel with a timeout ends its reads.
Spec == Init /\ [][Next]_vars
FairSpec == Spec /\ WF_vars(Work /\ ~Untimed)

-----------------------------------------------------------------------------
(* Properties *)

PC == {"idle", "connect", "open", "reopen", "drop", "exec", "read", "retry"}
Results ==
  {"none", "ok", "output", "empty", "CmdError", "AttributeError"}
    \cup ConnectErrors \cup OtherErrors

TypeOK ==
  /\ connected \in BOOLEAN
  /\ hostStatus \in BOOLEAN
  /\ client \in Nat \cup {NONE}
  /\ live \subseteq Nat
  /\ opened \in Nat
  /\ pc \in PC
  /\ op \in {"Connect", "Cmd", "Disconnect"}
  /\ low \in BOOLEAN
  /\ timed \in BOOLEAN
  /\ retriesLeft \in Nat
  /\ runs \in Nat
  /\ tries \in Nat
  /\ result \in Results
  /\ calls \in Nat

\* Cmd keeps the promise of the abstract specification: its command is run once
\* at most, however often it connects again, and never after the end of the
\* call; a response is that of a command that was run.
Channel == INSTANCE CommandChannel WITH
  MaxRuns <- 1,
  busy <- op = "Cmd" /\ pc # "idle",
  ran <- IF op = "Cmd" THEN runs ELSE 0,
  answered <- op = "Cmd" /\ result \in {"output", "empty"}

ImplementsChannel == Channel!Spec

\* However often Cmd connects again, it never sends a command a second time
\* when the device may have run it.
CommandRunsAtMostOnce == runs <= 1

\* Cmd returns a response, even an empty one, only for a command that was run.
ResponseMeansRun ==
  op = "Cmd" /\ result \in {"output", "empty"} => runs = 1

\* A call gives up: Connect tries to open one session, Cmd three at most (its
\* one retry, and the reconnect for a low channel id before and after it).
EffortIsBounded == tries <= (IF op = "Cmd" THEN 3 ELSE 1) \/ op = "Disconnect"

\* The object never believes to be connected without a session to use.
ConnectedHasClient == connected => client # NONE

\* Every call ends, whatever sessions are lost under it, unless it comes to
\* wait for a device that says nothing on a channel without a timeout.
CallEnds == pc # "idle" ~> pc = "idle" \/ Untimed

=============================================================================
