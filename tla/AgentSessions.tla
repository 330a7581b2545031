----------------------------- MODULE AgentSessions -----------------------------
(***************************************************************************)
(* The sessions of the single-process agent (agent/core/agent.go).  Every  *)
(* message of the signaling server is handled in a goroutine of its own:   *)
(* a connect closes the peer it finds under the viewer's id, makes another *)
(* and lists that one after its video pipeline has been built, with the    *)
(* mutex released in between.  The callbacks of each peer, and Stop, come  *)
(* when they come.                                                         *)
(*                                                                         *)
(* What goes over the channels, and the WebRTC library that connects a     *)
(* peer and loses it, are left out but for the callbacks they end in.      *)
(***************************************************************************)
EXTENDS Naturals

CONSTANTS Controllers, \* ids of viewers
          Peers,       \* each connect makes one
          NoPeer

ASSUME AgentAssumption == NoPeer \notin Peers

VARIABLES
  peerOf,   \* the controller that a peer was made for
  peer,     \* a peer: none, open, closed
  setup,    \* its connect: none, building, listed
  video,    \* its pipeline: none, built, running
  lossy,    \* the library has lost it and attemptReconnect runs
  unseen,   \* history: peers whose connect overlapped another one's, or whose entry was
            \* taken out by OnDisconnected
  sessions, \* AgentInstance.sessions
  leaving,  \* a bye has taken this peer out of the map and not yet closed it
  running   \* the agent's context is not cancelled

agentVars == <<peerOf, peer, setup, video, lossy, unseen, sessions, leaving, running>>

AgentInit ==
  /\ peerOf \in [Peers -> Controllers]
  /\ peer = [p \in Peers |-> "none"] /\ setup = [p \in Peers |-> "none"]
  /\ video = [p \in Peers |-> "none"] /\ lossy = [p \in Peers |-> FALSE]
  /\ unseen = {} /\ sessions = [c \in Controllers |-> NoPeer] /\ leaving = {} /\ running = TRUE

\* The map without the entry of c.
Without(c) == [sessions EXCEPT ![c] = NoPeer]

-----------------------------------------------------------------------------
\* A connect: what is listed is closed, and stays in the map until the new one is.
MakePeer(p) ==
  /\ peer[p] = "none" /\ setup[p] = "none"
  /\ LET old    == sessions[peerOf[p]]
         closed == IF old = NoPeer THEN peer ELSE [peer EXCEPT ![old] = "closed"]
         others == {q \in Peers : peerOf[q] = peerOf[p] /\ setup[q] = "building"}
     IN \/ /\ peer' = [closed EXCEPT ![p] = "open"]
           /\ setup' = [setup EXCEPT ![p] = "building"]
           /\ unseen' = IF others = {} THEN unseen ELSE unseen \cup others \cup {p}
        \/ peer' = closed /\ setup' = [setup EXCEPT ![p] = "failed"] /\ UNCHANGED unseen
  /\ UNCHANGED <<peerOf, video, lossy, sessions, leaving, running>>

\* The displays, the capturer, the pipeline and the callbacks; then the map.  Without a
\* capturer there is no pipeline, and the viewer is told why.
ListPeer(p) ==
  /\ setup[p] = "building" /\ setup' = [setup EXCEPT ![p] = "listed"]
  /\ video' \in {[video EXCEPT ![p] = v] : v \in {"none", "built"}}
  /\ sessions' = [sessions EXCEPT ![peerOf[p]] = p]
  /\ UNCHANGED <<peerOf, peer, lossy, unseen, leaving, running>>

\* An offer is answered by the peer that is listed; when it connects, its pipeline runs
\* for as long as the agent does.
Connected(c) ==
  /\ sessions[c] # NoPeer
  /\ LET p == sessions[c]
     IN /\ peer[p] = "open" /\ lossy' = [lossy EXCEPT ![p] = FALSE]
        /\ video' = IF video[p] = "built" /\ running
                    THEN [video EXCEPT ![p] = "running"] ELSE video
  /\ UNCHANGED <<peerOf, peer, setup, unseen, sessions, leaving, running>>

LosePeer(p) ==
  /\ peer[p] = "open" /\ setup[p] = "listed" /\ lossy' = [lossy EXCEPT ![p] = TRUE]
  /\ UNCHANGED <<peerOf, peer, setup, video, unseen, sessions, leaving, running>>

\* OnDisconnected, also of a peer that was closed while attemptReconnect ran: it takes the
\* controller's entry out, whichever peer that is.  The peer is not closed.
Disconnected(p) ==
  /\ lossy[p] /\ lossy' = [lossy EXCEPT ![p] = FALSE]
  /\ sessions' = Without(peerOf[p]) /\ unseen' = unseen \cup ({sessions[peerOf[p]]} \ {NoPeer})
  /\ UNCHANGED <<peerOf, peer, setup, video, leaving, running>>

\* Mutant of TakeBye: a bye that only takes the entry out.
TakeByeKeepsPeer(c) ==
  /\ sessions[c] # NoPeer /\ sessions' = Without(c)
  /\ UNCHANGED <<peerOf, peer, setup, video, lossy, unseen, leaving, running>>

\* MsgBye: out of the map under the mutex, closed after it.
TakeBye(c) ==
  /\ sessions[c] # NoPeer /\ sessions' = Without(c) /\ leaving' = leaving \cup {sessions[c]}
  /\ UNCHANGED <<peerOf, peer, setup, video, lossy, unseen, running>>

CloseLeft(p) ==
  /\ p \in leaving /\ leaving' = leaving \ {p} /\ peer' = [peer EXCEPT ![p] = "closed"]
  /\ UNCHANGED <<peerOf, setup, video, lossy, unseen, sessions, running>>

\* Stop cancels the context, which ends the pipelines, and closes what is listed.
Stop ==
  /\ running /\ running' = FALSE
  /\ peer' = [p \in Peers |-> IF \E c \in Controllers : sessions[c] = p THEN "closed" ELSE peer[p]]
  /\ video' = [p \in Peers |-> IF video[p] = "running" THEN "built" ELSE video[p]]
  /\ sessions' = [c \in Controllers |-> NoPeer]
  /\ UNCHANGED <<peerOf, setup, lossy, unseen, leaving>>

AgentNext ==
  \/ \E p \in Peers : MakePeer(p) \/ ListPeer(p) \/ LosePeer(p) \/ Disconnected(p) \/ CloseLeft(p)
  \/ \E c \in Controllers : Connected(c) \/ TakeBye(c)
  \/ Stop

AgentSpec == AgentInit /\ [][AgentNext]_agentVars

-----------------------------------------------------------------------------
AgentTypeOK ==
  /\ peerOf \in [Peers -> Controllers] /\ peer \in [Peers -> {"none", "open", "closed"}]
  /\ setup \in [Peers -> {"none", "building", "listed", "failed"}]
  /\ video \in [Peers -> {"none", "built", "running"}]
  /\ lossy \in [Peers -> BOOLEAN] /\ unseen \subseteq Peers /\ running \in BOOLEAN
  /\ sessions \in [Controllers -> Peers \cup {NoPeer}] /\ leaving \subseteq Peers

\* An open peer can be reached by the bye of its controller and by Stop, unless its connect
\* overlapped another one of that controller or a loss took its entry (agent.go, MsgConnect
\* and MsgBye).
OpenIsListed ==
  \A p \in Peers :
    peer[p] = "open" /\ setup[p] = "listed" =>
      sessions[peerOf[p]] = p \/ p \in leaving \/ p \in unseen
=============================================================================
