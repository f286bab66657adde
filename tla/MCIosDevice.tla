---------------------------- MODULE MCIosDevice ------------------------------
(* Two calls, which put the same data on the router.                         *)
EXTENDS IosDevice

MCSameData == <<"d", "d">>
=============================================================================
