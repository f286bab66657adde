----------------------------- MODULE PushProofs -----------------------------
(***************************************************************************)
(* What SshOptions guarantees for every number of threads, every set of    *)
(* configurations and every bound on the connections: its type invariant   *)
(* and the safety invariants the runs check.  Then what push.py adds takes *)
(* nothing from it: for any number of targets, a push uses the shared      *)
(* configuration as SshOptions says, so that what is proved of it there    *)
(* holds here; and how many targets the progress bar lets main come to.    *)
(***************************************************************************)
EXTENDS Push, TLAPS

-----------------------------------------------------------------------------
(* The shared configuration *)

\* "Since this class is called from several threads, it uses a lock to
\* protect concurrent attempts to load the configuration": one at a time, by
\* the thread that owns the lock.
OneLoaderAtATime ==
  \A t \in Threads : pc[t] \in InLock => lock = t

\* A thread past the point where the flag is known to be cleared, or past the
\* read, has the configuration.
PastRead == {"release", "finally", "test", "use"}

\* The inductive strengthening.  LookupAfterInit alone is not inductive: a
\* thread reaches Lookup either because it read the file itself or because it
\* saw the flag cleared, so a cleared flag must imply a stored configuration,
\* and the flag is cleared by a thread that has left the lock.
IInv ==
  /\ TypeOK
  /\ OneLoaderAtATime
  /\ UseFindsOptions
  /\ FlagIsSet /\ failures = 0 =>
       /\ ~needInit => options # NONE
       /\ \A t \in Threads : pc[t] \in PastRead => options # NONE
       /\ \A t \in Threads : pc[t] = "connect" => used[t] # NONE

\* The variables keep their types in every state.
THEOREM TypeCorrect == Spec => []TypeOK
<1> USE SshAssumption
<1>1. Init => TypeOK
  BY DEF Init, TypeOK, PC
<1>2. TypeOK /\ [Next]_vars => TypeOK'
  <2> SUFFICES ASSUME TypeOK, [Next]_vars PROVE TypeOK'
    OBVIOUS
  <2> USE DEF TypeOK, PC, Goto
  <2>1. ASSUME NEW t \in Threads, FirstCheck(t) PROVE TypeOK'
    BY <2>1 DEF FirstCheck
  <2>2. ASSUME NEW t \in Threads, Acquire(t) PROVE TypeOK'
    BY <2>2 DEF Acquire
  <2>3. ASSUME NEW t \in Threads, Recheck(t) PROVE TypeOK'
    BY <2>3 DEF Recheck
  <2>4. ASSUME NEW t \in Threads, ReadConfig(t) PROVE TypeOK'
    BY <2>4 DEF ReadConfig
  <2>5. ASSUME NEW t \in Threads, ReadFails(t) PROVE TypeOK'
    BY <2>5 DEF ReadFails
  <2>6. ASSUME NEW t \in Threads, Release(t) PROVE TypeOK'
    BY <2>6 DEF Release
  <2>7. ASSUME NEW t \in Threads, Finally(t) PROVE TypeOK'
    BY <2>7 DEF Finally
  <2>8. ASSUME NEW t \in Threads, LookupTest(t) PROVE TypeOK'
    BY <2>8 DEF LookupTest
  <2>9. ASSUME NEW t \in Threads, LookupUse(t) PROVE TypeOK'
    BY <2>9 DEF LookupUse
  <2>10. ASSUME NEW t \in Threads, OpenSession(t) PROVE TypeOK'
    BY <2>10 DEF OpenSession
  <2>11. CASE UNCHANGED vars
    BY <2>11 DEF vars
  <2> QED
    BY <2>1, <2>2, <2>3, <2>4, <2>5, <2>6, <2>7, <2>8, <2>9, <2>10, <2>11
       DEF Next, Connect, InitOptions
<1> QED
  BY <1>1, <1>2, PTL DEF Spec

\* No step leaves the inductive invariant.
LEMMA Inductive == IInv /\ TypeOK' /\ [Next]_vars => IInv'
<1> SUFFICES ASSUME IInv, TypeOK', [Next]_vars PROVE IInv'
  OBVIOUS
<1> USE SshAssumption
    DEF IInv, TypeOK, OneLoaderAtATime, UseFindsOptions, PastRead, InLock, Goto
<1>1. ASSUME NEW t \in Threads, FirstCheck(t) PROVE IInv'
  BY <1>1 DEF FirstCheck
<1>2. ASSUME NEW t \in Threads, Acquire(t) PROVE IInv'
  BY <1>2 DEF Acquire
<1>3. ASSUME NEW t \in Threads, Recheck(t) PROVE IInv'
  BY <1>3 DEF Recheck
<1>4. ASSUME NEW t \in Threads, ReadConfig(t) PROVE IInv'
  BY <1>4 DEF ReadConfig
<1>5. ASSUME NEW t \in Threads, ReadFails(t) PROVE IInv'
  BY <1>5 DEF ReadFails
<1>6. ASSUME NEW t \in Threads, Release(t) PROVE IInv'
  BY <1>6 DEF Release
<1>7. ASSUME NEW t \in Threads, Finally(t) PROVE IInv'
  BY <1>7 DEF Finally
<1>8. ASSUME NEW t \in Threads, LookupTest(t) PROVE IInv'
  BY <1>8 DEF LookupTest
<1>9. ASSUME NEW t \in Threads, LookupUse(t) PROVE IInv'
  BY <1>9 DEF LookupUse
<1>10. ASSUME NEW t \in Threads, OpenSession(t) PROVE IInv'
  BY <1>10 DEF OpenSession
<1>11. CASE UNCHANGED vars
  BY <1>11 DEF vars
<1> QED
  BY <1>1, <1>2, <1>3, <1>4, <1>5, <1>6, <1>7, <1>8, <1>9, <1>10, <1>11
     DEF Next, Connect, InitOptions

\* The inductive invariant holds throughout.
LEMMA Invariant == Spec => []IInv
<1>1. Init => IInv
  BY SshAssumption
     DEF Init, IInv, TypeOK, PC, OneLoaderAtATime, UseFindsOptions, PastRead, InLock
<1> QED
  BY <1>1, Inductive, TypeCorrect, PTL DEF Spec

\* Lookup is never entered before the configuration is stored: the assumption
\* sshclient.py makes when it reads _ssh_options without the lock.
THEOREM LookupIsAfterInit == Spec => []LookupAfterInit
<1>1. IInv => LookupAfterInit
  BY DEF IInv, LookupAfterInit, PastRead, InLookup
<1> QED
  BY <1>1, Invariant, PTL

\* The second, unlocked read of _ssh_options in Lookup never finds None.
THEOREM UseNeverFindsNone == Spec => []UseFindsOptions
<1>1. IInv => UseFindsOptions
  BY DEF IInv
<1> QED
  BY <1>1, Invariant, PTL

\* At most one thread reads the configuration file at any time.
THEOREM LoadersExcludeEachOther == Spec => []OneLoaderAtATime
<1>1. IInv => OneLoaderAtATime
  BY DEF IInv
<1> QED
  BY <1>1, Invariant, PTL

\* No session is opened with an untranslated host name when every read of the
\* configuration file succeeded.
THEOREM SessionsAreTranslated == Spec => []ConnectsTranslated
<1>1. IInv => ConnectsTranslated
  BY DEF IInv, ConnectsTranslated
<1> QED
  BY <1>1, Invariant, PTL

-----------------------------------------------------------------------------
(* A push *)

\* A push is a behaviour of SshOptions: whatever main and the threads do
\* besides, they go through the configuration as its specification says.
THEOREM PushUsesOptions == PushSpec => Spec
<1>1. PushInit => Init
  BY DEF PushInit
<1>2. [PushNext]_pushVars => [Next]_vars
  <2> SUFFICES ASSUME [PushNext]_pushVars PROVE [Next]_vars
    OBVIOUS
  <2>1. CASE Main
    BY <2>1 DEF Main, FilesUnreadable, StartThread
  <2>2. ASSUME NEW t \in Threads, Run(t) PROVE [Next]_vars
    BY <2>2 DEF Run, Connecting, NeedsSession, Finish, Next
  <2>3. CASE UNCHANGED pushVars
    BY <2>3 DEF pushVars
  <2>4. QED
    BY <2>1, <2>2, <2>3 DEF PushNext
<1>3. QED
  BY <1>1, <1>2, PTL DEF PushSpec, Spec

\* No pushing thread opens a session with the untranslated name of its target
\* when every read of the file succeeded.
THEOREM PushedToTranslated == PushSpec => []ConnectsTranslated
  BY PushUsesOptions, SessionsAreTranslated, PTL

-----------------------------------------------------------------------------

\* With as many targets as the bar has room for no value is beyond its end,
\* and with one more the last one is.
LEMMA BarHasRoom ==
  ASSUME NEW n \in Nat, NEW k \in Nat, NEW max \in Nat, k < n, n <= max
  PROVE  n * k <= max * max
<1>1. n * k <= n * n
  OBVIOUS
<1>2. n * n <= n * max
  OBVIOUS
<1>3. n * max <= max * max
  OBVIOUS
<1>4. n * k \in Nat /\ n * n \in Nat /\ n * max \in Nat /\ max * max \in Nat
  OBVIOUS
<1>5. QED
  BY <1>1, <1>2, <1>3, <1>4

LEMMA BarIsFull ==
  ASSUME NEW n \in Nat, NEW max \in Nat \ {0}, n > max
  PROVE  n * (n - 1) > max * max
<1>1. /\ n - 1 \in Nat
      /\ n - 1 >= max
      /\ n >= max + 1
  OBVIOUS
<1>2. n * (n - 1) >= n * max
  BY <1>1
<1>3. n * max >= (max + 1) * max
  BY <1>1
<1>4. (max + 1) * max = max * max + max
  OBVIOUS
<1>5. /\ n * (n - 1) \in Nat /\ n * max \in Nat
      /\ (max + 1) * max \in Nat /\ max * max \in Nat
  BY <1>1
<1>6. QED
  BY <1>2, <1>3, <1>4, <1>5

\* The inductive strengthening: main is in the loop as long as there are
\* targets left, and done when it has come to the last one.
MainInv ==
  /\ targets \in 1..MaxTargets
  /\ started \in Nat
  /\ main \in {"loop", "done", "stopped", "raised"}
  /\ main = "loop" => started < targets
  /\ main = "done" => started = targets
  /\ BarStopsLargePushes

LEMMA MainStep == ASSUME MainInv, [PushNext]_pushVars PROVE MainInv'
<1> USE PushAssumption DEF MainInv, BarStopsLargePushes
<1>1. CASE FilesUnreadable
  BY <1>1 DEF FilesUnreadable
<1>2. CASE StartThread
  <2>1. targets \in Nat /\ started \in Nat /\ started < targets
    BY <1>2 DEF StartThread
  <2>2. targets' = targets /\ started' = started + 1
    BY <1>2 DEF StartThread
  <2>3. CASE BarOverflows(started)
    <3>1. main' = "stopped"
      BY <1>2, <2>3 DEF StartThread
    <3>2. targets > BarMax
      BY <2>1, <2>3, BarHasRoom DEF BarOverflows
    <3>3. QED
      BY <2>1, <2>2, <3>1, <3>2
  <2>4. CASE ~BarOverflows(started) /\ started + 1 = targets
    <3>1. main' = "done"
      BY <1>2, <2>4 DEF StartThread
    <3>2. started = targets - 1
      BY <2>1, <2>4
    <3>3. targets <= BarMax
      BY <2>1, <2>4, <3>2, BarIsFull DEF BarOverflows
    <3>4. QED
      BY <2>1, <2>2, <2>4, <3>1, <3>3
  <2>5. CASE ~BarOverflows(started) /\ started + 1 # targets
    <3>1. main' = "loop"
      BY <1>2, <2>5 DEF StartThread
    <3>2. QED
      BY <2>1, <2>2, <2>5, <3>1
  <2>6. QED
    BY <2>3, <2>4, <2>5
<1>3. ASSUME NEW t \in Threads, Run(t) PROVE MainInv'
  BY <1>3 DEF Run, Connecting, NeedsSession, Finish
<1>4. CASE UNCHANGED pushVars
  BY <1>4 DEF pushVars, pushing
<1>5. QED
  BY <1>1, <1>2, <1>3, <1>4 DEF PushNext, Main

\* A push to more targets than the bar has room for, 100, is stopped by it, and
\* no other one is: then every target gets its thread.
THEOREM BarStopsMain == PushSpec => []BarStopsLargePushes
<1>1. PushInit => MainInv
  BY PushAssumption DEF PushInit, MainInv, BarStopsLargePushes
<1>2. MainInv /\ [PushNext]_pushVars => MainInv'
  BY MainStep
<1>3. MainInv => BarStopsLargePushes
  BY DEF MainInv
<1>4. QED
  BY <1>1, <1>2, <1>3, PTL DEF PushSpec
=============================================================================
