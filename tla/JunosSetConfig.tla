--------------------------- MODULE JunosSetConfig ---------------------------
(***************************************************************************)
(* JunosDevice.SetConfig (tools/ldpush/junos.py): pushes of configurations *)
(* to one Junos router.                                                    *)
(*                                                                         *)
(* A push uploads a temporary file, compares checksums, hands the router   *)
(* one command line that edits, loads, commits and saves a patch to undo   *)
(* the commit, judges the transcript, fetches the patch and, in a finally  *)
(* clause, deletes the files.  Several pushes to the router may be under   *)
(* way.  The router works through a command line on its own: it may be cut *)
(* off in the middle, and it goes on after the client has timed out.       *)
(*                                                                         *)
(* A transcript is the sequence of the kinds of its lines.  What the       *)
(* router prints for each command is taken from the transcripts of         *)
(* junos_test.py; the outcome of a Cmd is that of ParamikoDevice: output,  *)
(* perhaps cut short, or an exception.                                     *)
(***************************************************************************)
EXTENDS Naturals, Sequences, FiniteSets, SequencesExt

CONSTANTS
  Pushes,  \* the calls of SetConfig
  Calls,   \* arguments a call may have
  NONE

\* The destination is the configuration, or a file on the router; whether to
\* canary, to skip `show | compare' and `commit check', to get a patch.
Arguments ==
  [dest : {"config", "file"}, canary : BOOLEAN, skipCompare : BOOLEAN,
   skipCheck : BOOLEAN, patch : BOOLEAN]

ASSUME JunosAssumption ==
  /\ Calls \subseteq Arguments
  /\ NONE \notin Pushes

VARIABLES
  arg,        \* the arguments of each call
  pc,         \* where each call is
  copied,     \* copied
  outcome,    \* what the call will return or raise: "ok" or an error
  fetched,    \* result.rollback_patch: the commit it undoes, or NONE
  files,      \* the router's files, by name
  lock,       \* the push whose session has the configuration, or NONE
  candidate,  \* the loads in the router's candidate configuration
  older,      \* is the candidate the configuration before the last commit?
  history,    \* the router's commits: by whom, and of which loads
  batch,      \* the commands the router has still to run for each push
  lines       \* the transcript of each push

client == <<arg, pc, copied, outcome, fetched>>
router == <<files, lock, candidate, older, history, batch, lines>>
vars == <<client, router>>

Tmp(p) == <<"tmp", p>>
Patch(p) == <<"patch", p>>

\* file_name
FileName(p) == IF arg[p].dest = "config" THEN Tmp(p) ELSE <<"file">>

\* rollback_patch is not None
WantsPatch(p) == arg[p].dest = "config" /\ arg[p].patch

FileNames == {Tmp(p) : p \in Pushes} \cup {Patch(p) : p \in Pushes} \cup {<<"file">>}

Init ==
  /\ arg \in [Pushes -> Calls]
  /\ pc = [p \in Pushes |-> "start"]
  /\ copied = [p \in Pushes |-> FALSE]
  /\ outcome = [p \in Pushes |-> "ok"]
  /\ fetched = [p \in Pushes |-> NONE]
  /\ files = [f \in FileNames |-> NONE]
  /\ lock = NONE
  /\ candidate = {}
  /\ older = FALSE
  /\ history = <<>>
  /\ batch = [p \in Pushes |-> <<>>]
  /\ lines = [p \in Pushes |-> <<>>]

Goto(p, l) == pc' = [pc EXCEPT ![p] = l]

\* An exception inside the try: the finally clause is next.
Raise(p, e) ==
  /\ outcome' = [outcome EXCEPT ![p] = e]
  /\ Goto(p, "delete")

-----------------------------------------------------------------------------
(* Uploading and comparing *)

\* The local temporary file is written before the try.
LocalWrite(p) ==
  /\ pc[p] = "start"
  /\ \/ Goto(p, "upload") /\ UNCHANGED outcome
     \/ Goto(p, "done") /\ outcome' = [outcome EXCEPT ![p] = "SetConfigError"]
  /\ UNCHANGED <<arg, copied, fetched, router>>

\* _SendFileViaSftp; what arrives may be corrupt.
Upload(p) ==
  /\ pc[p] = "upload"
  /\ \E intact \in BOOLEAN :
       files' = [files EXCEPT ![FileName(p)] = [of |-> p, intact |-> intact]]
  /\ copied' = [copied EXCEPT ![p] = TRUE]
  /\ Goto(p, "checksum")
  /\ UNCHANGED <<arg, outcome, fetched, lock, candidate, older, history, batch,
                 lines>>

\* An SFTPError or IOError is a SetConfigError; what a dead session raises is
\* not caught.  A part of the file may be there.
UploadFails(p) ==
  /\ pc[p] = "upload"
  /\ \E e \in {"SetConfigError", "other"} : Raise(p, e)
  /\ \E f \in {files[FileName(p)], [of |-> p, intact |-> FALSE]} :
       files' = [files EXCEPT ![FileName(p)] = f]
  /\ UNCHANGED <<arg, copied, fetched, lock, candidate, older, history, batch,
                 lines>>

\* The command line _JunosLoad builds.
Batch(a) ==
  LET compare == IF a.skipCompare THEN <<>> ELSE <<"compare">>
      check == IF a.skipCheck THEN <<>> ELSE <<"check">>
      save == IF a.patch THEN <<"rollback_1", "save", "rollback">> ELSE <<>>
  IN <<"edit", "load">> \o compare
       \o (IF a.canary THEN check \o <<"rollback">> ELSE <<"commit">> \o save)
       \o <<"exit">>

\* Mutant of Checksum: an output that is not understood passes for a match.
ChecksumTrusted(p) ==
  /\ pc[p] = "checksum"
  /\ IF arg[p].dest = "file"
     THEN Goto(p, "delete") /\ UNCHANGED batch
     ELSE Goto(p, "load") /\ batch' = [batch EXCEPT ![p] = Batch(arg[p])]
  /\ UNCHANGED <<arg, copied, outcome, fetched, files, lock, candidate, older,
                 history, lines>>

\* _ChecksumsMatch: the command may fail, or its output not be understood; two
\* files that differ do not match.
Checksum(p) ==
  /\ pc[p] = "checksum"
  /\ \/ /\ \E e \in {"CmdError", "SetConfigError"} : Raise(p, e)
        /\ UNCHANGED batch
     \/ /\ files[FileName(p)] = [of |-> p, intact |-> TRUE]
        /\ UNCHANGED outcome
        /\ IF arg[p].dest = "file"
           THEN Goto(p, "delete") /\ UNCHANGED batch
           ELSE Goto(p, "load") /\ batch' = [batch EXCEPT ![p] = Batch(arg[p])]
  /\ UNCHANGED <<arg, copied, fetched, files, lock, candidate, older, history,
                 lines>>

-----------------------------------------------------------------------------
(* The router *)

\* The first command of p's line is done and has printed out.
Ran(p, out) ==
  /\ batch' = [batch EXCEPT ![p] = Tail(@)]
  /\ lines' = [lines EXCEPT ![p] = @ \o out]

\* p's session has the configuration and is at command c.
Holds(p, c) == batch[p] # <<>> /\ Head(batch[p]) = c /\ lock = p

\* One session edits at a time.
Edit(p) ==
  /\ batch[p] # <<>> /\ Head(batch[p]) = "edit"
  /\ IF lock = NONE
     THEN lock' = p /\ Ran(p, <<"text">>)
     ELSE Ran(p, <<"error">>) /\ UNCHANGED lock
  /\ UNCHANGED <<client, files, candidate, older, history>>

\* What is in the file is loaded, all of it or up to its errors; or the file is
\* not there any more.
Load(p) ==
  /\ Holds(p, "load")
  /\ \/ /\ files[Tmp(p)] # NONE
        /\ \/ candidate' = candidate \cup {[of |-> p, whole |-> files[Tmp(p)].intact]}
              /\ Ran(p, <<"text">>)
           \/ candidate' = candidate \cup {[of |-> p, whole |-> FALSE]}
              /\ Ran(p, <<"error">>)
           \/ candidate' = candidate \cup {[of |-> p, whole |-> FALSE]}
              /\ Ran(p, <<"syntax", "error">>)
     \/ /\ files[Tmp(p)] = NONE
        /\ Ran(p, <<"error">>)
        /\ UNCHANGED candidate
  /\ UNCHANGED <<client, files, lock, older, history>>

\* `show | compare': a diff follows a line in brackets.
Compare(p) ==
  /\ Holds(p, "compare")
  /\ Ran(p, IF candidate = {} THEN <<>> ELSE <<"[]", "+">>)
  /\ UNCHANGED <<client, files, lock, candidate, older, history>>

CommitCheck(p) ==
  /\ Holds(p, "check")
  /\ Ran(p, <<"check">>) \/ Ran(p, <<"[]", "error", "error">>)
  /\ UNCHANGED <<client, files, lock, candidate, older, history>>

\* A commit may do without the other routing engine, or be refused: with an
\* error, or for want of that engine only.
Commit(p) ==
  /\ Holds(p, "commit")
  /\ \/ /\ \E out \in {<<"commit">>, <<"re", "commit">>} : Ran(p, out)
        /\ history' = Append(history, [by |-> p, loads |-> candidate])
        /\ candidate' = {}
     \/ /\ \E out \in {<<"[]", "text", "error">>, <<"text", "re", "[]">>} : Ran(p, out)
        /\ UNCHANGED <<history, candidate>>
  /\ UNCHANGED <<client, files, lock, older>>

RollbackOne(p) ==
  /\ Holds(p, "rollback_1")
  /\ Ran(p, <<"text">>)
  /\ candidate' = {}
  /\ older' = TRUE
  /\ UNCHANGED <<client, files, lock, history>>

\* show | compare | save: what turns the last commit into the candidate.
SavePatch(p) ==
  /\ Holds(p, "save")
  /\ Ran(p, <<"text">>)
  /\ files' = [files EXCEPT ![Patch(p)] = IF older THEN Len(history) ELSE NONE]
  /\ UNCHANGED <<client, lock, candidate, older, history>>

Rollback(p) ==
  /\ Holds(p, "rollback")
  /\ Ran(p, <<"text">>)
  /\ candidate' = {}
  /\ older' = FALSE
  /\ UNCHANGED <<client, files, lock, history>>

Exit(p) ==
  /\ Holds(p, "exit")
  /\ Ran(p, <<"text">>)
  /\ lock' = NONE
  /\ candidate' = {}
  /\ older' = FALSE
  /\ UNCHANGED <<client, files, history>>

\* A session that could not enter configuration mode knows none of these.
Unknown(p) ==
  /\ batch[p] # <<>>
  /\ Head(batch[p]) # "edit"
  /\ lock # p
  /\ Ran(p, <<"error">>)
  /\ UNCHANGED <<client, files, lock, candidate, older, history>>

\* The session is lost: the rest of the line is not run, and what was being
\* edited is discarded.  The client reads what was printed so far.
Hangup(p) ==
  /\ batch[p] # <<>>
  /\ batch' = [batch EXCEPT ![p] = <<>>]
  /\ IF lock = p
     THEN lock' = NONE /\ candidate' = {} /\ older' = FALSE
     ELSE UNCHANGED <<lock, candidate, older>>
  /\ UNCHANGED <<client, files, history, lines>>

Router(p) ==
  \/ Edit(p) \/ Load(p) \/ Compare(p) \/ CommitCheck(p) \/ Commit(p)
  \/ RollbackOne(p) \/ SavePatch(p) \/ Rollback(p) \/ Exit(p) \/ Unknown(p)

-----------------------------------------------------------------------------
(* The client after the load *)

\* Does a diff start on line k?  The line after is part of the diff, whatever
\* it is: of several lines in brackets on end, the first starts one, the third
\* and so on.
DiffStart(l, k) ==
  \E j \in 1..k : /\ (k - j) % 2 = 0
                  /\ \A i \in j..k : l[i] = "[]"
                  /\ j > 1 => l[j - 1] # "[]"

\* The kinds of the lines that are neither ignored nor cleaned up.
Relevant(l) ==
  {l[k] : k \in {j \in DOMAIN l : /\ ~DiffStart(l, j)
                                  /\ ~DiffStart(l, j - 1)
                                  /\ l[j] \notin {"+", "re"}}}

\* Mutant of LoadError: a canary and a push are judged alike.
LoadErrorCommitUnseen(l, expectCheck, expectCommit) ==
  LET found == Relevant(l)
  IN IF found \cap {"syntax", "error"} = {} THEN "ok"
     ELSE IF "syntax" \in found \/ (expectCheck /\ "check" \notin found)
     THEN "SetConfigSyntaxError"
     ELSE "SetConfigError"

\* _RaiseExceptionIfLoadError
LoadError(l, expectCheck, expectCommit) ==
  LET found == Relevant(l)
  IN IF found \cap {"syntax", "error"} = {}
     THEN IF expectCommit /\ "commit" \notin found THEN "SetConfigError" ELSE "ok"
     ELSE IF "syntax" \in found \/ (expectCheck /\ "check" \notin found)
     THEN "SetConfigSyntaxError"
     ELSE "SetConfigError"

Judge(p) ==
  LET a == arg[p]
      verdict == LoadError(lines[p], a.canary /\ ~a.skipCheck, ~a.canary)
  IN
  /\ pc[p] = "load"
  /\ batch[p] = <<>>
  /\ IF verdict = "ok" /\ WantsPatch(p) /\ ~a.canary
     THEN Goto(p, "fetch") /\ UNCHANGED outcome
     ELSE Raise(p, verdict)
  /\ UNCHANGED <<arg, copied, fetched, router>>

\* The Cmd raises: it timed out, the channel failed, or the output starts with
\* an error.
GiveUp(p) ==
  /\ pc[p] = "load"
  /\ Raise(p, "CmdError")
  /\ UNCHANGED <<arg, copied, fetched, router>>

\* The patch is fetched; an SFTPError or IOError is only noted.
Fetch(p) ==
  /\ pc[p] = "fetch"
  /\ \/ /\ files[Patch(p)] # NONE
        /\ fetched' = [fetched EXCEPT ![p] = files[Patch(p)]]
        /\ Raise(p, "ok")
     \/ /\ \E e \in {"ok", "other"} : Raise(p, e)
        /\ UNCHANGED fetched
  /\ UNCHANGED <<arg, copied, router>>

-----------------------------------------------------------------------------
(* finally *)

\* self.Cmd('file delete ' + name): it may fail after the router did as told.
\* Its exception takes the place of what was to be returned or raised, and
\* ends the clause.
Delete(p, name, next) ==
  \/ /\ files' = [files EXCEPT ![name] = NONE]
     /\ Goto(p, next)
     /\ UNCHANGED outcome
  \/ /\ \E f \in {files[name], NONE} : files' = [files EXCEPT ![name] = f]
     /\ outcome' = [outcome EXCEPT ![p] = "CmdError"]
     /\ Goto(p, "done")

\* Mutant of DeleteTmp: the file is kept when the load succeeded.
DeleteTmpOnError(p) ==
  /\ pc[p] = "delete"
  /\ IF copied[p] /\ arg[p].dest = "config" /\ outcome[p] # "ok"
     THEN Delete(p, Tmp(p), "delete_patch")
     ELSE Goto(p, "delete_patch") /\ UNCHANGED <<files, outcome>>
  /\ UNCHANGED <<arg, copied, fetched, lock, candidate, older, history, batch,
                 lines>>

DeleteTmp(p) ==
  /\ pc[p] = "delete"
  /\ IF copied[p] /\ arg[p].dest = "config"
     THEN Delete(p, Tmp(p), "delete_patch")
     ELSE Goto(p, "delete_patch") /\ UNCHANGED <<files, outcome>>
  /\ UNCHANGED <<arg, copied, fetched, lock, candidate, older, history, batch,
                 lines>>

DeletePatch(p) ==
  /\ pc[p] = "delete_patch"
  /\ IF WantsPatch(p)
     THEN Delete(p, Patch(p), "local")
     ELSE Goto(p, "local") /\ UNCHANGED <<files, outcome>>
  /\ UNCHANGED <<arg, copied, fetched, lock, candidate, older, history, batch,
                 lines>>

\* An error in closing the local files, earlier in the clause, is raised last.
LocalDeletes(p) ==
  /\ pc[p] = "local"
  /\ \E e \in {outcome[p], "SetConfigError"} : outcome' = [outcome EXCEPT ![p] = e]
  /\ Goto(p, "done")
  /\ UNCHANGED <<arg, copied, fetched, router>>

Client(p) ==
  \/ LocalWrite(p) \/ Upload(p) \/ UploadFails(p) \/ Checksum(p)
  \/ Judge(p) \/ GiveUp(p) \/ Fetch(p)
  \/ DeleteTmp(p) \/ DeletePatch(p) \/ LocalDeletes(p)

Next == \E p \in Pushes : Client(p) \/ Router(p) \/ Hangup(p)

Spec == Init /\ [][Next]_vars

-----------------------------------------------------------------------------
(* Properties *)

Succeeded(p) == pc[p] = "done" /\ outcome[p] = "ok"

\* A push that returns without an exception has been committed, with all of its
\* data and nothing of another push: whatever the transcript lost, hid or
\* added, and whoever else was editing.
SuccessIsCommitted ==
  \A p \in Pushes :
    Succeeded(p) /\ arg[p].dest = "config" /\ ~arg[p].canary =>
      \E k \in DOMAIN history :
        history[k] = [by |-> p, loads |-> {[of |-> p, whole |-> TRUE]}]

\* The patch a push returns undoes the commit of that very push.
PatchUndoesOwnCommit ==
  \A p \in Pushes :
    fetched[p] # NONE => fetched[p] \in DOMAIN history /\ history[fetched[p]].by = p

\* A push that succeeds leaves none of its temporary files on the router.
SuccessLeavesNoFiles ==
  \A p \in Pushes : Succeeded(p) => files[Tmp(p)] = NONE /\ files[Patch(p)] = NONE

=============================================================================
