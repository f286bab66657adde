------------------------------- MODULE MCPush -------------------------------
(* Three targets racing for one configuration: TLC instances of Push, with  *)
(* a progress bar that is full at two.                                      *)
EXTENDS Push

CONSTANTS c1, c2

MCThreads == 1..3
MCConfigs == {c1, c2}
=============================================================================
