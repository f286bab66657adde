------------------------------ MODULE IosDevice -----------------------------
(***************************************************************************)
(* A device object for routers with an IOS-like command line: IosDevice    *)
(* (tools/ldpush/ios.py) on the shell of a ParamikoSshConnection           *)
(* (pexpect_connection.py), and the router at the other end of it.         *)
(*                                                                         *)
(* The object writes lines to the shell and waits for the patterns of a    *)
(* list, as pexpect does: what comes before the first match is dropped,    *)
(* what comes after it stays for the next wait.  The router works on the   *)
(* lines in its own time, one after the other, so that its output may come *)
(* after the object has given up waiting, and a line may be taken as the   *)
(* answer to a question the object has not seen.  Sessions may be lost at  *)
(* any moment, with the end of their output.                               *)
(*                                                                         *)
(* The output of the router is abstracted to the marks the object's        *)
(* patterns tell apart; each carries the number of the call whose line it  *)
(* answers.  Writing to a session that is closed is not an error.  The     *)
(* router is modelled from what ios.py expects of it, refusals included.   *)
(***************************************************************************)
EXTENDS Naturals, Sequences, SequencesExt

CONSTANTS
  NONE,        \* Python's None
  MaxCalls,    \* bound on the calls other than Connect
  Data,        \* what may be put on a router
  DataOf,      \* the data of each call, if it is a SetConfig
  MaxSessions, \* bound on the sessions opened
  MaxLosses    \* bound on the sessions that are lost

\* What a call may raise.
Exceptions ==
  {"AttributeError", "ConnectError", "AuthenticationError", "SshConfigError",
   "SSHException", "CmdError", "SetConfigError", "SetConfigSyntaxError",
   "DisconnectError", "pexpect.TIMEOUT", "socket.timeout"}

ASSUME IosAssumption ==
  /\ NONE \notin Nat \cup Exceptions
  /\ MaxCalls \in Nat
  /\ DataOf \in [1..MaxCalls -> Data]
  /\ MaxSessions \in Nat
  /\ MaxLosses \in Nat

VARIABLES
  connected,   \* _connected
  hostStatus,  \* _host_status
  child,       \* the session of _connection.child, NoChild, or None: no _connection
  sess,        \* the sessions: is it open, lines to come, output to come, mode
  losses,      \* how many have been lost
  pc,          \* where the call in progress is
  op,          \* the call in progress, or the last one
  line,        \* the line the object works on
  retrying,    \* is _Cmd in its handler of EOF?
  raised,      \* what _SetConfig raises when _DeleteFile is done, or None
  warned,      \* did _DeleteFile fail?
  result,      \* how the last call ended
  calls,       \* calls begun, Connect aside: the number of the last one
  files,       \* the router: the file each call has put there
  running,     \* the router: the call running-config comes from, and how it went
  startup,     \* the router: startup-config
  runs,        \* history: how often the router ran the command of the last Cmd
  ready,       \* history: has a Connect succeeded?
  fresh,       \* history: was the router waiting, and all read, as the call began?
  complained,  \* history: did the router complain when it copied or saved for this call?
  answer       \* history: the calls whose output the last response is made of

object == <<connected, hostStatus, child>>
router == <<files, running, startup>>
history == <<ready, fresh, complained, answer>>
vars == <<object, sess, losses, pc, op, line, retrying, raised, warned, result,
          calls, router, runs, history>>

\* A connection that has not opened a session yet.
NoChild == 0

Mark(kind, of) == [kind |-> kind, of |-> of]

\* What is typed: for which call, and where its file is to go.
Line(what, of, dest) == [what |-> what, of |-> of, dest |-> dest]
Plain(what) == Line(what, 0, NONE)
CR == Plain("enter")
Exec == Plain("exec")

\* destination_file: 'running-config' or 'startup-config'.
Destinations == {"running", "startup"}

Init ==
  /\ connected = FALSE
  /\ hostStatus = TRUE
  /\ child = NONE
  /\ sess = <<>>
  /\ losses = 0
  /\ pc = "idle"
  /\ op = "Connect"
  /\ line = CR
  /\ retrying = FALSE
  /\ raised = NONE
  /\ warned = FALSE
  /\ result = "none"
  /\ calls = 0
  /\ files = [n \in 1..MaxCalls |-> "none"]
  /\ running = <<0, "whole">>
  /\ startup = <<0, "whole">>
  /\ runs = 0
  /\ ready = FALSE
  /\ fresh = TRUE
  /\ complained = FALSE
  /\ answer = {}

-----------------------------------------------------------------------------
(* The shell: send and expect of the child *)

HasChild == child \in DOMAIN sess
Out == sess[child].out
Open == sess[child].open

\* The place of the first mark that a wait for these kinds matches, or 0.
Place(kinds) == LET Wanted(m) == m.kind \in kinds IN SelectInSeq(Out, Wanted)

Matched(kinds) == Place(kinds) # 0
Found(kinds) == Out[Place(kinds)].kind
Before(kinds) == SubSeq(Out, 1, Place(kinds) - 1)
After(kinds) == SubSeq(Out, Place(kinds) + 1, Len(Out))

\* A wait ends without a match: in a TIMEOUT while the session is open, in an
\* EOF when it is not.
TimesOut(kinds) == ~Matched(kinds) /\ Open
AtEof(kinds) == ~Matched(kinds) /\ ~Open

Written(l) == IF Open THEN Append(sess[child].lines, l) ELSE sess[child].lines

Send(l) == sess' = [sess EXCEPT ![child].lines = Written(l)]

\* The wait has matched: what it matched, and all before it, is gone.
Drop(kinds) == sess' = [sess EXCEPT ![child].out = After(kinds)]

DropAndSend(kinds, l) ==
  sess' = [sess EXCEPT ![child].out = After(kinds), ![child].lines = Written(l)]

Return(r) ==
  /\ result' = r
  /\ pc' = "idle"

-----------------------------------------------------------------------------
(* The calls of the client *)

\* The router has nothing left to do, the object has read all it printed, and
\* a line that is sent now is a command.
NothingUnread ==
  /\ \A s \in DOMAIN sess : sess[s].lines = <<>>
  /\ HasChild => Out = <<>> /\ sess[child].mode = Exec

Begin(o) ==
  /\ pc = "idle"
  /\ op' = o
  /\ fresh' = NothingUnread
  /\ retrying' = FALSE
  /\ raised' = NONE
  /\ warned' = FALSE
  /\ runs' = 0
  /\ complained' = FALSE
  /\ answer' = {}
  /\ UNCHANGED <<connected, hostStatus, losses, router, ready>>

\* BaseDevice.Connect with some authentication information and an address.  A
\* connection object is made anew.  A host that is down gets an AttributeError.
Connect ==
  /\ Len(sess) < MaxSessions
  /\ Begin("Connect")
  /\ IF connected \/ ~hostStatus
     THEN Return(IF connected THEN "ok" ELSE "AttributeError") /\ UNCHANGED child
     ELSE pc' = "dial" /\ result' = "none" /\ child' = NoChild
  /\ UNCHANGED <<sess, line, calls>>

NextCall == calls < MaxCalls /\ calls' = calls + 1

\* BaseDevice.Cmd, once a Connect has succeeded, whatever became of the session.
Cmd ==
  LET l == Line("command", calls + 1, NONE)
  IN
  /\ ready
  /\ Begin("Cmd")
  /\ NextCall
  /\ line' = l
  /\ IF HasChild
     THEN Send(l) /\ pc' = "sent" /\ result' = "none"
     ELSE Return("AttributeError") /\ UNCHANGED sess
  /\ UNCHANGED child

\* BaseDevice.SetConfig without canary, for a destination that is allowed.
SetConfig ==
  /\ ready
  /\ Begin("SetConfig")
  /\ NextCall
  /\ \E d \in Destinations : line' = Line("verify", calls + 1, d)
  /\ pc' = "upload"
  /\ result' = "none"
  /\ UNCHANGED <<child, sess>>

\* BaseDevice.Disconnect: connected is not looked at.
Disconnect ==
  /\ Begin("Disconnect")
  /\ NextCall
  /\ IF HasChild
     THEN Send(Plain("exit")) /\ pc' = "exit" /\ result' = "none"
     ELSE /\ Return(IF child = NONE THEN "ok" ELSE "AttributeError")
          /\ UNCHANGED sess
  /\ UNCHANGED <<child, line>>

-----------------------------------------------------------------------------
(* _Connect, and the reconnection of _Cmd: the session, then the pager *)

\* What a call leaves alone while it runs.
fixed == <<losses, op, calls, router, runs, ready, fresh, complained>>

\* _Cmd raises: to the client, or to SetConfig, whose finally clause then begins
\* to delete the file.
CmdFails(e) ==
  IF op = "Cmd"
  THEN Return(e) /\ UNCHANGED <<sess, raised>>
  ELSE /\ raised' = IF e = "CmdError" THEN "SetConfigError" ELSE e
       /\ Send(CR)
       /\ pc' = "delete"
       /\ UNCHANGED result

\* No connection.  Connect marks the host down; in _Cmd, what the connection
\* raises becomes a CmdError, and what _DisablePager raises passes through.
NotConnected(e) ==
  IF op = "Connect"
  THEN /\ hostStatus' = (e = "SshConfigError")
       /\ Return(IF e = "CmdError" THEN "ConnectError" ELSE e)
       /\ UNCHANGED <<sess, raised>>
  ELSE CmdFails(e) /\ UNCHANGED hostStatus

DialSucceeds ==
  /\ pc = "dial"
  /\ Len(sess) < MaxSessions
  /\ sess' = Append([s \in DOMAIN sess |-> [sess[s] EXCEPT !.out = <<>>]],
                    [open |-> TRUE, lines |-> <<Plain("login")>>,
                     out |-> <<>>, mode |-> Exec])
  /\ child' = Len(sess) + 1
  /\ pc' = "login"
  /\ UNCHANGED <<connected, hostStatus, line, retrying, raised, warned, result,
                 answer, fixed>>

DialFails ==
  /\ pc = "dial"
  /\ \E e \in {"CmdError", "SshConfigError"} : NotConnected(e)
  /\ UNCHANGED <<connected, child, line, retrying, warned, answer, fixed>>

\* The router's first prompt, then an empty line for _DisablePager.
Login ==
  /\ pc = "login"
  /\ Matched({"prompt"})
  /\ DropAndSend({"prompt"}, CR)
  /\ pc' = "pager"
  /\ UNCHANGED <<object, line, retrying, raised, warned, result, answer, fixed>>

LoginFails ==
  /\ pc = "login"
  /\ ~Matched({"prompt"})
  /\ NotConnected("CmdError")
  /\ UNCHANGED <<connected, child, line, retrying, warned, answer, fixed>>

PagerEcho ==
  /\ pc = "pager"
  /\ Matched({"newline"})
  /\ Drop({"newline"})
  /\ pc' = "pager_prompt"
  /\ UNCHANGED <<object, line, retrying, raised, warned, result, answer, fixed>>

PagerPrompt ==
  /\ pc = "pager_prompt"
  /\ Matched({"prompt"})
  /\ DropAndSend({"prompt"}, Plain("terminal"))
  /\ pc' = "terminal"
  /\ UNCHANGED <<object, line, retrying, raised, warned, result, answer, fixed>>

\* Mutant of PagerOff: the prompt after the pager is not awaited.
PagerNotAwaited ==
  /\ pc = "terminal"
  /\ connected' = TRUE
  /\ \/ op = "Connect" /\ Return("ok") /\ UNCHANGED sess
     \/ op # "Connect" /\ Send(line) /\ pc' = "sent" /\ UNCHANGED result
  /\ ready' = TRUE
  /\ UNCHANGED <<hostStatus, child, losses, op, line, retrying, raised, warned,
                 calls, router, runs, fresh, complained, answer>>

\* The pager is off: Connect is done, _Cmd sends its command again.
PagerOff ==
  LET answers == {"prompt", "denied"}
  IN
  /\ pc = "terminal"
  /\ Matched(answers)
  /\ Found(answers) = "prompt"
  /\ connected' = TRUE
  /\ \/ op = "Connect" /\ Drop(answers) /\ Return("ok")
     \/ op # "Connect" /\ DropAndSend(answers, line) /\ pc' = "sent" /\ UNCHANGED result
  /\ ready' = TRUE
  /\ UNCHANGED <<hostStatus, child, losses, op, line, retrying, raised, warned,
                 calls, router, runs, fresh, complained, answer>>

PagerWaits(kinds) ==
  \/ pc = "pager" /\ kinds = {"newline"}
  \/ pc = "pager_prompt" /\ kinds = {"prompt"}
  \/ pc = "terminal" /\ kinds = {"prompt", "denied"}

PagerFails ==
  /\ \E kinds \in {{"newline"}, {"prompt"}, {"prompt", "denied"}} :
       /\ PagerWaits(kinds)
       /\ Matched(kinds) => Found(kinds) = "denied"
  /\ NotConnected("ConnectError")
  /\ UNCHANGED <<connected, child, line, retrying, warned, answer, fixed>>

-----------------------------------------------------------------------------
(* _Cmd: SendAndWait has sent line; its echo and the next prompt are awaited *)

Waits == IF pc = "sent" THEN {"newline"} ELSE {"prompt"}

Waiting == pc \in {"sent", "echoed"}

Echoed ==
  /\ pc = "sent"
  /\ Matched(Waits)
  /\ Drop(Waits)
  /\ pc' = "echoed"
  /\ UNCHANGED <<object, line, retrying, raised, warned, result, answer, fixed>>

\* Mutant of CmdTimesOut: what has been read by then is the response.
CmdTakesWhatCame ==
  /\ Waiting
  /\ TimesOut(Waits)
  /\ op = "Cmd"
  /\ Return("response")
  /\ UNCHANGED <<object, sess, line, retrying, raised, warned, answer, fixed>>

CmdTimesOut ==
  /\ Waiting
  /\ TimesOut(Waits)
  /\ connected' = (connected /\ retrying)
  /\ CmdFails(IF retrying THEN "pexpect.TIMEOUT" ELSE "CmdError")
  /\ UNCHANGED <<hostStatus, child, line, retrying, warned, answer, fixed>>

\* EOF: the connection is made again, once, and the command sent again.
Reconnect ==
  /\ Waiting
  /\ AtEof(Waits)
  /\ ~retrying
  /\ retrying' = TRUE
  /\ connected' = FALSE
  /\ pc' = "dial"
  /\ UNCHANGED <<hostStatus, child, sess, line, raised, warned, result, answer, fixed>>

EofTwice ==
  /\ Waiting
  /\ AtEof(Waits)
  /\ retrying
  /\ CmdFails("CmdError")
  /\ UNCHANGED <<connected, hostStatus, child, line, retrying, warned, answer, fixed>>

\* The response: what was read before the prompt.
Response == {m \in ToSet(Before(Waits)) : m.kind # "newline"}

\* It ends with one of the refusals _Cmd knows.
Invalid ==
  \E i \in DOMAIN Before(Waits) :
    /\ Before(Waits)[i].kind \in {"invalid", "denied"}
    /\ \A j \in DOMAIN Before(Waits) : j > i => Before(Waits)[j].kind = "newline"

Responded ==
  /\ pc = "echoed"
  /\ Matched(Waits)
  /\ retrying' = FALSE

Refused ==
  /\ Responded
  /\ Invalid
  /\ \/ op = "Cmd" /\ Drop(Waits) /\ Return("CmdError") /\ UNCHANGED raised
     \/ /\ op = "SetConfig"
        /\ DropAndSend(Waits, CR)
        /\ raised' = "SetConfigError"
        /\ pc' = "delete"
        /\ UNCHANGED result
  /\ UNCHANGED <<object, line, warned, answer, fixed>>

CmdDone ==
  /\ Responded
  /\ ~Invalid
  /\ op = "Cmd"
  /\ Drop(Waits)
  /\ answer' = {m.of : m \in Response}
  /\ Return("response")
  /\ UNCHANGED <<object, line, raised, warned, fixed>>

-----------------------------------------------------------------------------
(* _SetConfig: the upload, on a session of its own (ScpPut) *)

\* What _ScpRecvResponse makes of what the router sends.  A file `created
\* successfully' is a message of the minor kind.
Replies ==
  {"ok", "created", "minor", "fatal", "unknown", "partial", "stderr", "closed", "none"}

Received(reply) ==
  IF reply \in {"ok", "created"} THEN "ok"
  ELSE IF reply = "none" THEN "socket.timeout"
  ELSE "ScpError"

\* ScpPutConnection is made outside of any handler.
UploadConnects ==
  /\ pc = "upload"
  /\ pc' = "begin"
  /\ UNCHANGED <<object, sess, line, retrying, raised, warned, result, answer, fixed>>

UploadRaises(e) ==
  /\ Return(e)
  /\ UNCHANGED <<object, sess, line, retrying, raised, warned, answer, fixed>>

UploadUnconnected ==
  /\ pc = "upload"
  /\ \E e \in {"ConnectError", "AuthenticationError", "SshConfigError", "SSHException"} :
       UploadRaises(e)

\* The next step of scp is acknowledged: the command, the attributes, the data.
\* From the attributes on the router has a file.
Acknowledged ==
  LET rest == <<losses, op, calls, running, startup, runs, ready, fresh, complained>>
      n == calls
  IN
  /\ \E reply \in Replies : Received(reply) = "ok"
  /\ \/ pc = "begin" /\ pc' = "attributes" /\ UNCHANGED <<files, sess, result>>
     \/ /\ pc = "attributes"
        /\ pc' = "data"
        /\ files' = [files EXCEPT ![n] = "part"]
        /\ UNCHANGED <<sess, result>>
     \/ /\ pc = "data"
        /\ files' \in {[files EXCEPT ![n] = "whole"], files}
        /\ IF HasChild
           THEN Send(line) /\ pc' = "sent" /\ UNCHANGED result
           ELSE Return("AttributeError") /\ UNCHANGED sess
  /\ UNCHANGED <<object, line, retrying, raised, warned, answer, rest>>

\* An error of scp is a SetConfigError, the timeout of the first byte is not
\* caught.  The finally clause that deletes the file has not been entered.
NotAcknowledged ==
  /\ pc \in {"begin", "attributes", "data"}
  /\ \E reply \in Replies :
       /\ Received(reply) # "ok"
       /\ UploadRaises(IF Received(reply) = "ScpError" THEN "SetConfigError"
                       ELSE Received(reply))

-----------------------------------------------------------------------------
(* _SetConfig: the checksum, the copy, and `wr mem' *)

\* The finally clause is entered with this exception, or None.
DeleteFile(e) ==
  /\ raised' = e
  /\ pc' = "delete"

\* Mutant of Verified: the checksum is not looked for.
VerifiedBlindly ==
  /\ Responded
  /\ ~Invalid
  /\ op = "SetConfig"
  /\ line.what = "verify"
  /\ line' = [line EXCEPT !.what = "copy"]
  /\ DropAndSend(Waits, [line EXCEPT !.what = "copy"])
  /\ pc' = "copy"
  /\ UNCHANGED <<object, raised, warned, result, answer, fixed>>

Digests == {"checksum", "other_checksum"}

\* The first line of the response that looks like the answer to a verify, of any
\* file, has the digest of the data.  (A file cut short has a digest of its own.)
SameDigest ==
  \E i \in DOMAIN Before(Waits) :
    /\ Before(Waits)[i].kind = "checksum"
    /\ DataOf[Before(Waits)[i].of] = DataOf[calls]
    /\ \A j \in 1..(i - 1) : Before(Waits)[j].kind \notin Digests

\* The response to verify has the checksum of the data.
Verified ==
  /\ Responded
  /\ ~Invalid
  /\ op = "SetConfig"
  /\ line.what = "verify"
  /\ IF SameDigest
     THEN /\ line' = [line EXCEPT !.what = "copy"]
          /\ DropAndSend(Waits, [line EXCEPT !.what = "copy"])
          /\ pc' = "copy"
          /\ UNCHANGED raised
     ELSE DropAndSend(Waits, CR) /\ DeleteFile("SetConfigError") /\ UNCHANGED line
  /\ UNCHANGED <<object, warned, result, answer, fixed>>

\* The patterns after copy; the second, which matches any line with a %, hides
\* the third, %Error.
Percent == {"error", "invalid", "warning"}
CopyWaits == {"question", "prompt"} \cup Percent
LoadWaits == {"invalid", "prompt", "warning"}

\* Mutant of Copied: running-config is not saved.
CopiedUnsaved(kinds) ==
  DropAndSend(kinds, CR) /\ DeleteFile(NONE) /\ UNCHANGED line

\* copy, or the confirmation of it, is taken to be done.
Copied(kinds) ==
  IF line.dest = "running"
  THEN /\ line' = [line EXCEPT !.what = "save"]
       /\ DropAndSend(kinds, [line EXCEPT !.what = "save"])
       /\ pc' = "sent"
       /\ UNCHANGED raised
  ELSE DropAndSend(kinds, CR) /\ DeleteFile(NONE) /\ UNCHANGED line

CopyAsks ==
  /\ pc = "copy"
  /\ Matched(CopyWaits)
  /\ Found(CopyWaits) = "question"
  /\ DropAndSend(CopyWaits, CR)
  /\ pc' = "load"
  /\ UNCHANGED <<object, line, retrying, raised, warned, result, answer, fixed>>

CopyDone ==
  /\ pc = "copy"
  /\ Matched(CopyWaits)
  /\ Found(CopyWaits) # "question"
  /\ Copied(CopyWaits)
  /\ UNCHANGED <<object, retrying, warned, result, answer, fixed>>

LoadDone ==
  /\ pc = "load"
  /\ Matched(LoadWaits)
  /\ Found(LoadWaits) = "prompt"
  /\ Copied(LoadWaits)
  /\ UNCHANGED <<object, retrying, warned, result, answer, fixed>>

\* Lines of the configuration were not understood.
LoadInvalid ==
  /\ pc = "load"
  /\ Matched(LoadWaits)
  /\ Found(LoadWaits) = "invalid"
  /\ DropAndSend(LoadWaits, CR)
  /\ DeleteFile("SetConfigSyntaxError")
  /\ UNCHANGED <<object, line, retrying, warned, result, answer, fixed>>

\* The file exists: n, and then the empty line of _DeleteFile.
LoadWarns ==
  /\ pc = "load"
  /\ Matched(LoadWaits)
  /\ Found(LoadWaits) = "warning"
  /\ sess' = [sess EXCEPT ![child].out = After(LoadWaits),
                          ![child].lines = IF Open THEN @ \o <<Plain("n"), CR>> ELSE @]
  /\ DeleteFile("SetConfigError")
  /\ UNCHANGED <<object, line, retrying, warned, result, answer, fixed>>

CopyFails ==
  /\ \/ pc = "copy" /\ ~Matched(CopyWaits)
     \/ pc = "load" /\ ~Matched(LoadWaits)
  /\ Send(CR)
  /\ DeleteFile("SetConfigError")
  /\ UNCHANGED <<object, line, retrying, warned, result, answer, fixed>>

Saved ==
  /\ Responded
  /\ ~Invalid
  /\ op = "SetConfig"
  /\ line.what = "save"
  /\ DropAndSend(Waits, CR)
  /\ DeleteFile(NONE)
  /\ UNCHANGED <<object, line, warned, result, answer, fixed>>

-----------------------------------------------------------------------------
(* _DeleteFile, in the finally clause of _SetConfig *)

SetConfigDone(failed) ==
  /\ warned' = failed
  /\ Return(IF raised = NONE THEN "ok" ELSE raised)

\* Mutant of Deleting: the end of the deletion is not awaited.
DeletingUnawaited ==
  {[at |-> "delete", waits |-> {"newline"}, good |-> "newline", next |-> "delete_prompt"],
   [at |-> "delete_prompt", waits |-> {"prompt"}, good |-> "prompt", next |-> "delete_name"],
   [at |-> "delete_name", waits |-> {"delete_question", "error"},
    good |-> "delete_question", next |-> "delete_confirm"],
   [at |-> "delete_confirm", waits |-> {"confirm_question"},
    good |-> "confirm_question", next |-> "idle"]}

\* The steps: what each waits for, which of it is good, and what is sent next.
Deleting ==
  {[at |-> "delete", waits |-> {"newline"}, good |-> "newline", next |-> "delete_prompt"],
   [at |-> "delete_prompt", waits |-> {"prompt"}, good |-> "prompt", next |-> "delete_name"],
   [at |-> "delete_name", waits |-> {"delete_question", "error"},
    good |-> "delete_question", next |-> "delete_confirm"],
   [at |-> "delete_confirm", waits |-> {"confirm_question"},
    good |-> "confirm_question", next |-> "deleted"],
   [at |-> "deleted", waits |-> {"prompt", "error"}, good |-> "prompt", next |-> "idle"]}

DeleteGoesOn ==
  \E s \in Deleting :
    /\ pc = s.at
    /\ Matched(s.waits)
    /\ Found(s.waits) = s.good
    /\ IF s.at \in {"delete", "deleted"}
       THEN Drop(s.waits)
       ELSE DropAndSend(s.waits, IF s.at = "delete_prompt"
                                 THEN [line EXCEPT !.what = "delete"] ELSE CR)
    /\ IF s.next = "idle" THEN SetConfigDone(FALSE)
       ELSE pc' = s.next /\ UNCHANGED <<warned, result>>
    /\ UNCHANGED <<object, line, retrying, raised, answer, fixed>>

\* An error of the router, a TIMEOUT or an EOF: a warning.
DeleteFails ==
  \E s \in Deleting :
    /\ pc = s.at
    /\ \/ ~Matched(s.waits) /\ UNCHANGED sess
       \/ Matched(s.waits) /\ Found(s.waits) # s.good /\ Drop(s.waits)
    /\ SetConfigDone(TRUE)
    /\ UNCHANGED <<object, line, retrying, raised, answer, fixed>>

-----------------------------------------------------------------------------
(* _Disconnect *)

Closed ==
  /\ pc = "exit"
  /\ connected' = FALSE
  /\ Return(IF Open THEN "DisconnectError" ELSE "ok")
  /\ UNCHANGED <<hostStatus, child, sess, line, retrying, raised, warned, answer, fixed>>

-----------------------------------------------------------------------------
(* The router *)

client == <<object, losses, pc, op, line, retrying, raised, warned, result, calls,
            ready, fresh, answer>>

\* An answer to the line in hand, and what the session waits for after it.
\* Nobody will read what a session prints that the object has left.
Reply(s, marks, mode) ==
  sess' = [sess EXCEPT ![s].lines = Tail(@), ![s].mode = mode,
                       ![s].out = IF s = child THEN @ \o marks ELSE <<>>]

\* Its end of line, some lines of text and the prompt; or no text.
Says(l, kind) == <<Mark("newline", l.of), Mark(kind, l.of),
                   Mark("newline", l.of), Mark("prompt", l.of)>>
Prompts(l) == <<Mark("newline", l.of), Mark("prompt", l.of)>>

Asks(l, kind) == <<Mark("newline", l.of), Mark(kind, l.of)>>

InMode(s, what) ==
  /\ sess[s].open
  /\ sess[s].lines # <<>>
  /\ sess[s].mode.what = what

Typed(s) == Head(sess[s].lines)

OfCall(l) == op = "SetConfig" /\ l.of = calls

\* Lines that change nothing: the login, an empty line, the pager.
Echo(s) ==
  /\ InMode(s, "exec")
  /\ Typed(s).what \in {"login", "enter", "terminal", "n"}
  /\ \/ Reply(s, IF Typed(s).what = "login" THEN <<Mark("prompt", 0)>> ELSE Prompts(CR),
              Exec)
     \/ Typed(s).what = "terminal" /\ Reply(s, Says(CR, "denied"), Exec)
  /\ UNCHANGED <<client, router, runs, complained>>

Exits(s) ==
  /\ InMode(s, "exec")
  /\ Typed(s).what = "exit"
  /\ sess' = [sess EXCEPT ![s].open = FALSE, ![s].lines = <<>>]
  /\ UNCHANGED <<client, router, runs, complained>>

\* A command of the client is run, or refused.
RunsCommand(s) ==
  LET l == Typed(s)
  IN
  /\ InMode(s, "exec")
  /\ l.what = "command"
  /\ \/ /\ Reply(s, Says(l, "text"), Exec)
        /\ runs' = IF l.of = calls THEN runs + 1 ELSE runs
     \/ Reply(s, Says(l, "invalid"), Exec) /\ UNCHANGED runs
  /\ UNCHANGED <<client, router, complained>>

Verifies(s) ==
  LET l == Typed(s)
  IN
  /\ InMode(s, "exec")
  /\ l.what = "verify"
  /\ \/ files[l.of] = "whole" /\ Reply(s, Says(l, "checksum"), Exec)
     \/ files[l.of] = "part" /\ Reply(s, Says(l, "other_checksum"), Exec)
     \/ Reply(s, Says(l, "error"), Exec)
     \/ Reply(s, Says(l, "invalid"), Exec)
  /\ UNCHANGED <<client, router, runs, complained>>

\* The file of a call takes the place of its destination.
Put(l, how) ==
  /\ running' = IF l.dest = "running" THEN <<l.of, how>> ELSE running
  /\ startup' = IF l.dest = "startup" THEN <<l.of, how>> ELSE startup
  /\ UNCHANGED files

Copies(s, l) ==
  \/ /\ files[l.of] # "none"
     /\ Put(l, files[l.of])
     /\ Reply(s, Says(l, "text"), Exec)
     /\ UNCHANGED complained
  \/ /\ files[l.of] # "none"
     /\ l.dest = "running"
     /\ Put(l, "bad_lines")
     /\ Reply(s, Says(l, "invalid"), Exec)
     /\ complained' = (complained \/ OfCall(l))
  \/ /\ Reply(s, Says(l, "error"), Exec)
     /\ complained' = (complained \/ OfCall(l))
     /\ UNCHANGED router

\* copy: the destination is asked for, or taken from the line, or the command
\* is refused.
StartsCopy(s) ==
  LET l == Typed(s)
  IN
  /\ InMode(s, "exec")
  /\ l.what = "copy"
  /\ \/ /\ Reply(s, Asks(l, "question"), [l EXCEPT !.what = "destination"])
        /\ UNCHANGED <<router, complained>>
     \/ Copies(s, l)
     \/ /\ \E kind \in {"invalid", "denied"} : Reply(s, Says(l, kind), Exec)
        /\ complained' = (complained \/ OfCall(l))
        /\ UNCHANGED router
  /\ UNCHANGED <<client, runs>>

\* The destination is confirmed by an empty line; the router may warn that it
\* exists.
TakesDestination(s) ==
  LET l == sess[s].mode
  IN
  /\ InMode(s, "destination")
  /\ Typed(s) = CR
  /\ \/ Copies(s, l)
     \/ /\ Reply(s, Asks(l, "warning"), [l EXCEPT !.what = "overwrite"])
        /\ UNCHANGED <<router, complained>>
  /\ UNCHANGED <<client, runs>>

\* The warning is confirmed by an empty line; anything else is a no.
TakesOverwrite(s) ==
  LET l == sess[s].mode
  IN
  /\ InMode(s, "overwrite")
  /\ \/ Typed(s) = CR /\ Copies(s, l)
     \/ Typed(s) # CR /\ Reply(s, Prompts(l), Exec) /\ UNCHANGED <<router, complained>>
  /\ UNCHANGED <<client, runs>>

Saves(s) ==
  LET l == Typed(s)
  IN
  /\ InMode(s, "exec")
  /\ l.what = "save"
  /\ \/ /\ startup' = running
        /\ Reply(s, Says(l, "text"), Exec)
        /\ UNCHANGED complained
     \/ /\ \E kind \in {"error", "denied"} : Reply(s, Says(l, kind), Exec)
        /\ complained' = (complained \/ OfCall(l))
        /\ UNCHANGED startup
  /\ UNCHANGED <<client, files, running, runs>>

StartsDelete(s) ==
  LET l == Typed(s)
  IN
  /\ InMode(s, "exec")
  /\ l.what = "delete"
  /\ \/ Reply(s, Asks(l, "delete_question"), [l EXCEPT !.what = "name"])
     \/ \E kind \in {"error", "denied"} : Reply(s, Says(l, kind), Exec)
  /\ UNCHANGED <<client, router, runs, complained>>

TakesName(s) ==
  LET l == sess[s].mode
  IN
  /\ InMode(s, "name")
  /\ IF Typed(s) = CR
     THEN Reply(s, Asks(l, "confirm_question"), [l EXCEPT !.what = "confirm"])
     ELSE Reply(s, Says(l, "error"), Exec)
  /\ UNCHANGED <<client, router, runs, complained>>

Deletes(s) ==
  LET l == sess[s].mode
  IN
  /\ InMode(s, "confirm")
  /\ \/ /\ Typed(s) = CR
        /\ files' = [files EXCEPT ![l.of] = "none"]
        /\ Reply(s, Prompts(l), Exec)
     \/ Typed(s) = CR /\ Reply(s, Says(l, "error"), Exec) /\ UNCHANGED files
     \/ Typed(s) # CR /\ Reply(s, Prompts(l), Exec) /\ UNCHANGED files
  /\ UNCHANGED <<client, running, startup, runs, complained>>

Works(s) ==
  \/ Echo(s) \/ Exits(s) \/ RunsCommand(s) \/ Verifies(s)
  \/ StartsCopy(s) \/ TakesDestination(s) \/ TakesOverwrite(s) \/ Saves(s)
  \/ StartsDelete(s) \/ TakesName(s) \/ Deletes(s)

\* The network, the router or its idle timer ends the session in use; the
\* router may never work on one that has been left.
LoseSession(s) ==
  /\ s = child
  /\ sess[s].open
  /\ losses < MaxLosses
  /\ losses' = losses + 1
  /\ \E k \in 0..Len(sess[s].out) :
       sess' = [sess EXCEPT ![s].open = FALSE, ![s].lines = <<>>,
                            ![s].out = SubSeq(@, 1, k)]
  /\ UNCHANGED <<object, pc, op, line, retrying, raised, warned, result, calls,
                 router, runs, history>>

-----------------------------------------------------------------------------

Call == Connect \/ Cmd \/ SetConfig \/ Disconnect

Step ==
  \/ DialSucceeds \/ DialFails \/ Login \/ LoginFails
  \/ PagerEcho \/ PagerPrompt \/ PagerOff \/ PagerFails
  \/ Echoed \/ CmdTimesOut \/ Reconnect \/ EofTwice \/ Refused \/ CmdDone
  \/ UploadConnects \/ UploadUnconnected \/ Acknowledged \/ NotAcknowledged
  \/ Verified \/ CopyAsks \/ CopyDone \/ LoadDone \/ LoadInvalid \/ LoadWarns
  \/ CopyFails \/ Saved \/ DeleteGoesOn \/ DeleteFails \/ Closed

Router == \E s \in DOMAIN sess : Works(s) \/ LoseSession(s)

Next == Call \/ Step \/ Router

\* A call goes on: each wait has a timeout.  The router need not work.
Spec == Init /\ [][Next]_vars
FairSpec == Spec /\ WF_vars(Step)

-----------------------------------------------------------------------------
(* Properties *)

\* For a call that finds the router waiting and all its output read, Cmd keeps
\* the promise of the abstract specification, with one run more than other
\* devices: a command may be run again after a loss.
Channel == INSTANCE CommandChannel WITH
  MaxRuns <- 2,
  busy <- op = "Cmd" /\ fresh /\ pc # "idle",
  ran <- IF op = "Cmd" /\ fresh THEN runs ELSE 0,
  answered <- op = "Cmd" /\ fresh /\ result = "response"

ImplementsChannel == Channel!FairSpec

\* The response of such a call is the output of its own command, not of one
\* that the object had given up.
ResponseIsOwn ==
  op = "Cmd" /\ fresh /\ result = "response" => answer = {calls}

\* A SetConfig that returns has put the whole file where it was told, and saved
\* it, unless the router refused to.
SuccessIsApplied ==
  op = "SetConfig" /\ result = "ok" /\ fresh /\ ~complained =>
    /\ line.dest = "running" => running = <<calls, "whole">>
    /\ startup = <<calls, "whole">>

\* An earlier call had the data of this one.
Repeats(n) == \E m \in 1..(n - 1) : DataOf[m] = DataOf[n]

\* A file cut short reaches a configuration only if an earlier call put the same
\* data, the checksum of which may come late, and never while a call that found
\* the router waiting is at work on it, whatever is lost or late.
OnlyWholeFiles ==
  \A c \in {running, startup} : c[2] = "part" =>
    /\ Repeats(c[1])
    /\ c[1] = calls /\ op = "SetConfig" => ~fresh

\* A SetConfig that returns without a warning leaves no file, where no checksum
\* that was due earlier can have been taken for its own.
SuccessLeavesNoFile ==
  op = "SetConfig" /\ result = "ok" /\ ~warned /\ (fresh \/ ~Repeats(calls)) =>
    files[calls] = "none"

\* "Catch errors that may occur during application, and report these to the
\* user" (ios.py:215): a SetConfig that returns was not refused.
RefusalIsReported ==
  op = "SetConfig" /\ result = "ok" => ~complained
=============================================================================
