--------------------------- MODULE MCSignalingHub ---------------------------
(***************************************************************************)
(* Instances of SignalingHub: HubReconnect.cfg overlaps a host's old and   *)
(* new connection, HubTakeover.cfg has two viewers dial one host.          *)
(***************************************************************************)
EXTENDS SignalingHub, TLC

\* Nothing tells one viewer from the other, and no liveness is checked there.
ViewerSymmetry == Permutations(ViewerConn)
=============================================================================
