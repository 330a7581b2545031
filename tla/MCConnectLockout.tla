-------------------------- MODULE MCConnectLockout --------------------------
(***************************************************************************)
(* Lockout.cfg has three viewers race for two targets, each of which two   *)
(* failures lock for two ticks of a window of three.                       *)
(***************************************************************************)
EXTENDS ConnectLockout
=============================================================================
