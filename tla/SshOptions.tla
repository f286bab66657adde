----------------------------- MODULE SshOptions -----------------------------
(***************************************************************************)
(* The process-wide SSH configuration of tools/ldpush/sshclient.py.        *)
(*                                                                         *)
(* class SshOptions keeps three class variables that every pushing thread  *)
(* shares: _lock, _need_init and _ssh_options.  sshclient.Connect first    *)
(* builds SshOptions() -- the double-checked initialisation -- and then    *)
(* calls Lookup, which reads _ssh_options twice, without the lock.         *)
(*                                                                         *)
(* One step of the model is one access to the shared variables, so that    *)
(* every interleaving of the threads is explored.  Connect runs again when *)
(* a device is connected to again: a thread takes at most MaxConnects      *)
(* turns.  What the configuration file says is abstracted to a member of   *)
(* Configs; a read picks one or fails, because the file may be rewritten   *)
(* or removed between two reads of it.                                     *)
(***************************************************************************)
EXTENDS Naturals, FiniteSets

CONSTANTS
  Threads,      \* the threads push.py starts, one for each device
  Configs,      \* parsed SSH configurations
  NONE,         \* Python's None
  FlagIsSet,    \* is --paramiko_ssh_config given?
  MaxConnects   \* bound on the calls of Connect one thread makes

ASSUME SshAssumption ==
  /\ NONE \notin Configs
  /\ NONE \notin Threads
  /\ FlagIsSet \in BOOLEAN
  /\ MaxConnects \in Nat

VARIABLES
  needInit,     \* SshOptions._need_init
  lock,         \* SshOptions._lock: its owner, or NONE
  options,      \* SshOptions._ssh_options
  pc,           \* where in Connect each thread is
  connects,     \* calls of Connect each thread has begun
  used,         \* the configuration the thread's last Lookup consulted
  failures      \* history: how often reading the file failed

vars == <<needInit, lock, options, pc, connects, used, failures>>

PC == {"idle", "acquire", "recheck", "read", "release", "finally",
       "test", "use", "connect"}

Init ==
  /\ needInit = TRUE
  /\ lock = NONE
  /\ options = NONE
  /\ pc = [t \in Threads |-> "idle"]
  /\ connects = [t \in Threads |-> 0]
  /\ used = [t \in Threads |-> NONE]
  /\ failures = 0

Goto(t, l) == pc' = [pc EXCEPT ![t] = l]

-----------------------------------------------------------------------------
(* SshOptions.__init__ *)

\* Mutant of FirstCheck: a thread that finds the lock taken trusts its owner to
\* have loaded the file.
FirstCheckNoWait(t) ==
  /\ pc[t] = "idle"
  /\ connects[t] < MaxConnects
  /\ connects' = [connects EXCEPT ![t] = @ + 1]
  /\ Goto(t, IF needInit /\ lock = NONE THEN "acquire" ELSE "test")
  /\ UNCHANGED <<needInit, lock, options, used, failures>>

\* Connect calls SshOptions(), whose first test is made without the lock.
FirstCheck(t) ==
  /\ pc[t] = "idle"
  /\ connects[t] < MaxConnects
  /\ connects' = [connects EXCEPT ![t] = @ + 1]
  /\ Goto(t, IF needInit THEN "acquire" ELSE "test")
  /\ UNCHANGED <<needInit, lock, options, used, failures>>

\* with SshOptions._lock:
Acquire(t) ==
  /\ pc[t] = "acquire"
  /\ lock = NONE
  /\ lock' = t
  /\ Goto(t, "recheck")
  /\ UNCHANGED <<needInit, options, connects, used, failures>>

\* The second test, under the lock: nothing is read unless the flag is given.
Recheck(t) ==
  /\ pc[t] = "recheck"
  /\ Goto(t, IF needInit /\ FlagIsSet THEN "read" ELSE "release")
  /\ UNCHANGED <<needInit, lock, options, connects, used, failures>>

\* The file is opened, parsed and stored.
ReadConfig(t) ==
  /\ pc[t] = "read"
  /\ options' \in Configs
  /\ Goto(t, "release")
  /\ UNCHANGED <<needInit, lock, connects, used, failures>>

\* Mutant of ReadFails: the error leaves the method with the lock held.
ReadFailsKeepsLock(t) ==
  /\ pc[t] = "read"
  /\ failures' = failures + 1
  /\ Goto(t, "finally")
  /\ UNCHANGED <<needInit, lock, options, connects, used>>

\* The file cannot be opened or parsed: the error is logged (logging.fatal
\* does not exit) and what was stored before is kept.
ReadFails(t) ==
  /\ pc[t] = "read"
  /\ failures' = failures + 1
  /\ Goto(t, "release")
  /\ UNCHANGED <<needInit, lock, options, connects, used>>

\* Leaving the with block.
Release(t) ==
  /\ pc[t] = "release"
  /\ lock' = NONE
  /\ Goto(t, "finally")
  /\ UNCHANGED <<needInit, options, connects, used, failures>>

\* finally: SshOptions._need_init = False, after the lock was given back.
Finally(t) ==
  /\ pc[t] = "finally"
  /\ needInit' = FALSE
  /\ Goto(t, "test")
  /\ UNCHANGED <<lock, options, connects, used, failures>>

-----------------------------------------------------------------------------
(* SshOptions.Lookup, then the rest of sshclient.Connect *)

\* if SshOptions._ssh_options: -- read once here ...
LookupTest(t) ==
  /\ pc[t] = "test"
  /\ IF options # NONE
     THEN Goto(t, "use") /\ UNCHANGED used
     ELSE Goto(t, "connect") /\ used' = [used EXCEPT ![t] = NONE]
  /\ UNCHANGED <<needInit, lock, options, connects, failures>>

\* ... and a second time to call lookup() on it.  An entry whose port is no
\* number raises SshConfigError: Connect is left without a connection.
LookupUse(t) ==
  /\ pc[t] = "use"
  /\ used' = [used EXCEPT ![t] = options]
  /\ \/ Goto(t, "connect")
     \/ Goto(t, "idle")
  /\ UNCHANGED <<needInit, lock, options, connects, failures>>

\* The SSH session is opened (or refused) with the translated name.
OpenSession(t) ==
  /\ pc[t] = "connect"
  /\ Goto(t, "idle")
  /\ UNCHANGED <<needInit, lock, options, connects, used, failures>>

InitOptions(t) ==
  \/ FirstCheck(t)
  \/ Acquire(t)
  \/ Recheck(t)
  \/ ReadConfig(t)
  \/ ReadFails(t)
  \/ Release(t)
  \/ Finally(t)

Connect(t) ==
  \/ InitOptions(t)
  \/ LookupTest(t)
  \/ LookupUse(t)
  \/ OpenSession(t)

Next == \E t \in Threads : Connect(t)

Spec == Init /\ [][Next]_vars

-----------------------------------------------------------------------------
(* Properties *)

TypeOK ==
  /\ needInit \in BOOLEAN
  /\ lock \in Threads \cup {NONE}
  /\ options \in Configs \cup {NONE}
  /\ pc \in [Threads -> PC]
  /\ connects \in [Threads -> Nat]
  /\ used \in [Threads -> Configs \cup {NONE}]
  /\ failures \in Nat

InLock == {"recheck", "read", "release"}
InLookup == {"test", "use"}

\* Lookup's comment "We can't arrive here without first executing __init__, so
\* we can assume that the _ssh_option is set" (sshclient.py:137-139): with the
\* flag given and no read that failed, no thread is in Lookup, or opens a
\* session, before a configuration is stored.
LookupAfterInit ==
  \A t \in Threads :
    pc[t] \in InLookup /\ FlagIsSet /\ failures = 0 => options # NONE

\* A thread between the test of _ssh_options and the call of its lookup()
\* still finds a configuration there: no thread stores None over another's.
UseFindsOptions ==
  \A t \in Threads : pc[t] = "use" => options # NONE

\* A session is never opened with the untranslated name when every read of
\* the file succeeded: the stale None a thread could have seen is never used.
ConnectsTranslated ==
  \A t \in Threads :
    pc[t] = "connect" /\ FlagIsSet /\ failures = 0 => used[t] # NONE
=============================================================================
