---------------------------- MODULE ReliableLane ----------------------------
(***************************************************************************)
(* What a reliable lane of the worker link promises (agent/ipc/ipc.go):    *)
(* messages are sent one at a time, in the order in which they were        *)
(* accepted, and none is lost before the link is cut; then the one being   *)
(* sent is, and so is what is still queued if sending stops.               *)
(***************************************************************************)
EXTENDS Sequences

CONSTANTS Item, NoItem

VARIABLES
    accepted, \* what has been accepted and is not being sent yet
    sending,  \* the message being sent, or NoItem
    cut       \* whether the link is cut

laneVars == <<accepted, sending, cut>>

LaneInit == accepted = <<>> /\ sending = NoItem /\ cut = FALSE

Accept(x) ==
    /\ accepted' = Append(accepted, x)
    /\ UNCHANGED <<sending, cut>>

Start ==
    /\ sending = NoItem /\ accepted # <<>>
    /\ sending'  = Head(accepted)
    /\ accepted' = Tail(accepted)
    /\ UNCHANGED cut

Finish ==
    /\ sending' = NoItem
    /\ UNCHANGED <<accepted, cut>>

Cut ==
    /\ cut' = TRUE
    /\ sending' \in {sending, NoItem}
    /\ UNCHANGED accepted

LaneNext == (\E x \in Item : Accept(x)) \/ Start \/ Finish \/ Cut

LaneSpec == LaneInit /\ [][LaneNext]_laneVars
=============================================================================
