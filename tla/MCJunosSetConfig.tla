-------------------------- MODULE MCJunosSetConfig --------------------------
(* Two pushes to one router: TLC instances of JunosSetConfig.               *)
EXTENDS JunosSetConfig, TLC

CONSTANTS p1, p2

MCPushes == {p1, p2}

MCCall(dest, canary, patch) ==
  [dest |-> dest, canary |-> canary, skipCompare |-> FALSE, skipCheck |-> FALSE,
   patch |-> patch]

\* A push, with and without a patch, a canary and an upload of a file; the
\* switches that leave a command out change the transcript only.
MCCalls ==
  {MCCall("config", FALSE, TRUE), MCCall("config", TRUE, FALSE),
   MCCall("file", FALSE, FALSE)}

Symmetry == Permutations(MCPushes)
=============================================================================
