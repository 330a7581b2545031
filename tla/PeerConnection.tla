---------------------------- MODULE PeerConnection ----------------------------
(***************************************************************************)
(* A WebRTC peer of this program (agent/network/peer.go): who offers and   *)
(* who answers, candidates that come early, the ten second timer, the data *)
(* channels and the attempts to reconnect.  Peer.mu guards the pending     *)
(* candidates, the mode and the channels; everything done under it is one  *)
(* step that needs it free.  The timer's callback may leave it locked.     *)
(*                                                                         *)
(* The WebRTC library is external: it gathers, connects, loses and regains *)
(* the connection as it likes, and refuses a candidate that it is given    *)
(* before the remote description.  Codecs, tracks and the text of the      *)
(* descriptions are left out.                                              *)
(***************************************************************************)
EXTENDS Naturals

CONSTANTS Cands,    \* the remote candidates, each relayed once
          Retriers, \* the goroutines of attemptReconnect
          Callers,  \* threads that send on the control channel
          Ticks     \* the ticks of attemptReconnect before its deadline

ASSUME PeerAssumption == Ticks \in Nat \ {0}

VARIABLES
  offerer,  \* whether this side offers: the host's transport and the client do
  nego,     \* how far the offer or the answer has come
  remote,   \* the remote description is set
  cand,     \* a remote candidate: coming, queued, added
  locked,   \* mu is held by a goroutine that has ended
  timer,    \* iceTimeoutTimer: armed, stopped, fired
  mode,     \* connMode is set
  phase,    \* icePhase is relay
  servers,  \* fallbackICEservers is set
  fallback, \* OnFallbackAttempt was called
  channel,  \* the control channel is there
  conn,     \* the library's connection state
  retry,    \* a goroutine of attemptReconnect: the ticks it has left, 0 when it is none
  dropped,  \* OnDisconnected was called
  restart,  \* an ICE restart's offer: none, or local, which is never sent
  caller    \* a sender: idle, or waiting for mu

negoVars == <<offerer, nego, remote, cand, channel>>
iceVars  == <<locked, timer, mode, servers, fallback>>
connVars == <<conn, retry, dropped, restart, phase>>
peerVars == <<negoVars, iceVars, connVars, caller>>

PeerInit ==
  /\ offerer \in BOOLEAN /\ servers \in BOOLEAN
  /\ nego = "new" /\ remote = FALSE /\ cand = [c \in Cands |-> "coming"] /\ channel = FALSE
  /\ locked = FALSE /\ timer = "armed" /\ mode = FALSE /\ phase = FALSE /\ fallback = FALSE
  /\ conn = "new" /\ retry = [g \in Retriers |-> 0] /\ dropped = FALSE /\ restart = "none"
  /\ caller = [c \in Callers |-> "idle"]

MuFree == ~locked

-----------------------------------------------------------------------------
\* Negotiation.

\* CreateOffer and CreateAgentOffer: the channels, the local description, the message.
MakeOffer ==
  /\ offerer /\ nego = "new" /\ MuFree
  /\ \/ channel' = TRUE /\ nego' = "offered"
     \/ channel' \in {channel, TRUE} /\ nego' = "failed"
  /\ UNCHANGED <<offerer, remote, cand, iceVars, connVars, caller>>

\* HandleAnswer leaves the queue of candidates alone.
TakeRemoteAnswer ==
  /\ offerer /\ nego = "offered"
  /\ \/ remote' = TRUE /\ nego' = "done"
     \/ nego' = "failed" /\ UNCHANGED remote
  /\ UNCHANGED <<offerer, cand, channel, iceVars, connVars, caller>>

\* HandleOffer: the remote description, the queue, the answer, one after the other.
SetRemoteOffer ==
  /\ ~offerer /\ nego = "new"
  /\ \/ remote' = TRUE /\ nego' = "drain"
     \/ nego' = "failed" /\ UNCHANGED remote
  /\ UNCHANGED <<offerer, cand, channel, iceVars, connVars, caller>>

DrainCandidates ==
  /\ nego = "drain" /\ MuFree /\ nego' = "answer"
  /\ cand' = [c \in Cands |-> IF cand[c] = "queued" THEN "added" ELSE cand[c]]
  /\ UNCHANGED <<offerer, remote, channel, iceVars, connVars, caller>>

MakeAnswer ==
  /\ nego = "answer" /\ nego' \in {"done", "failed"}
  /\ UNCHANGED <<offerer, remote, cand, channel, iceVars, connVars, caller>>

\* Mutant of TakeCandidate: a candidate is looked at before the mutex is taken, and queued
\* for good.
TakeCandidateQueues(c) ==
  /\ cand[c] = "coming" /\ MuFree
  /\ cand' = [cand EXCEPT ![c] = IF nego \in {"new", "offered", "drain", "answer"}
                                 THEN "queued" ELSE "added"]
  /\ UNCHANGED <<offerer, nego, remote, channel, iceVars, connVars, caller>>

\* HandleCandidate: queued before the remote description, given to the library after.
TakeCandidate(c) ==
  /\ cand[c] = "coming" /\ MuFree
  /\ cand' = [cand EXCEPT ![c] = IF remote THEN "added" ELSE "queued"]
  /\ UNCHANGED <<offerer, nego, remote, channel, iceVars, connVars, caller>>

\* The far side's channel arrives (OnDataChannel).
ChannelArrives ==
  /\ ~offerer /\ ~channel /\ conn = "connected" /\ MuFree /\ channel' = TRUE
  /\ UNCHANGED <<offerer, nego, remote, cand, iceVars, connVars, caller>>

-----------------------------------------------------------------------------
\* Gathering and the timer.

\* The first candidate that is GATHERED sets the mode, whatever comes of it.
Gathered ==
  /\ nego \in {"offered", "done", "answer"} /\ MuFree /\ ~mode /\ mode' = TRUE
  /\ UNCHANGED <<negoVars, locked, timer, servers, fallback, connVars, caller>>

\* Ten seconds without a connection.  The mutex is released on one branch only.
TimerFires ==
  /\ timer = "armed" /\ MuFree /\ timer' = "fired"
  /\ locked' = mode /\ fallback' = (fallback \/ ~mode)
  /\ UNCHANGED <<negoVars, mode, servers, connVars, caller>>

\* SetFallbackServers
GiveServers ==
  /\ ~servers /\ MuFree /\ servers' = TRUE
  /\ UNCHANGED <<negoVars, locked, timer, mode, fallback, connVars, caller>>

-----------------------------------------------------------------------------
\* The connection: what the library reports, and what the peer makes of it.

Connect ==
  /\ conn \in {"new", "lost"} /\ nego = "done" /\ ~dropped /\ conn' = "connected"
  /\ timer' = IF timer = "armed" THEN "stopped" ELSE timer
  /\ UNCHANGED <<negoVars, locked, mode, servers, fallback, retry, dropped, restart, phase, caller>>

\* ICE fails: the fallback, when there are servers for it and its callback, which logs the
\* mode first, gets the mutex; and OnDisconnected.
ConnectFails ==
  /\ conn \in {"new", "lost"} /\ nego = "done" /\ conn' = "failed" /\ dropped' = TRUE
  /\ fallback' = (fallback \/ (servers /\ MuFree))
  /\ UNCHANGED <<negoVars, locked, timer, mode, servers, retry, restart, phase, caller>>

\* Each loss starts an attempt of its own.
Lost(g) ==
  /\ conn = "connected" /\ retry[g] = 0
  /\ conn' = "lost" /\ retry' = [retry EXCEPT ![g] = Ticks]
  /\ UNCHANGED <<negoVars, iceVars, dropped, restart, phase, caller>>

\* A tick of attemptReconnect: it is back, or TryNextCandidatePair, whose new offer stays
\* here; after the last one the loss is reported.
RetryTick(g) ==
  /\ retry[g] > 0
  /\ \/ conn = "connected" /\ retry' = [retry EXCEPT ![g] = 0]
        /\ UNCHANGED <<phase, restart, dropped>>
     \/ /\ conn # "connected" /\ MuFree /\ phase' = TRUE
        /\ restart' = IF servers THEN "local" ELSE restart
        /\ retry' = [retry EXCEPT ![g] = @ - 1]
        /\ dropped' = (dropped \/ retry[g] = 1)
  /\ UNCHANGED <<negoVars, iceVars, conn, caller>>

-----------------------------------------------------------------------------
\* SendControl and its like: the channel is read under mu, and used after it.
BeginSend(c) ==
  /\ caller[c] = "idle" /\ caller' = [caller EXCEPT ![c] = "waiting"]
  /\ UNCHANGED <<negoVars, iceVars, connVars>>

EndSend(c) ==
  /\ caller[c] = "waiting" /\ MuFree /\ caller' = [caller EXCEPT ![c] = "idle"]
  /\ UNCHANGED <<negoVars, iceVars, connVars>>

Negotiate ==
  MakeOffer \/ TakeRemoteAnswer \/ SetRemoteOffer \/ DrainCandidates \/ MakeAnswer

PeerNext ==
  \/ Negotiate \/ ChannelArrives \/ Gathered \/ TimerFires \/ GiveServers
  \/ \E c \in Cands : TakeCandidate(c)
  \/ Connect \/ ConnectFails
  \/ \E g \in Retriers : Lost(g) \/ RetryTick(g)
  \/ \E c \in Callers : BeginSend(c) \/ EndSend(c)

\* The peer's own goroutines go on; what the network does is never promised.
PeerSpec ==
  /\ PeerInit /\ [][PeerNext]_peerVars
  /\ WF_peerVars(DrainCandidates) /\ WF_peerVars(MakeAnswer)
  /\ \A g \in Retriers : WF_peerVars(RetryTick(g))
  /\ \A c \in Callers : WF_peerVars(EndSend(c))

-----------------------------------------------------------------------------
PeerTypeOK ==
  /\ nego \in {"new", "offered", "drain", "answer", "done", "failed"}
  /\ cand \in [Cands -> {"coming", "queued", "added"}] /\ timer \in {"armed", "stopped", "fired"}
  /\ {offerer, remote, locked, mode, phase, servers, fallback, channel, dropped} \subseteq BOOLEAN
  /\ conn \in {"new", "connected", "lost", "failed"} /\ restart \in {"none", "local"}
  /\ retry \in [Retriers -> 0 .. Ticks] /\ caller \in [Callers -> {"idle", "waiting"}]

\* Once the answering side has drained its queue, no candidate is left in it or joins it,
\* however candidates and the offer interleave (peer.go, HandleOffer and HandleCandidate).
EarlyCandidatesUsed ==
  ~offerer /\ nego \in {"answer", "done"} => \A c \in Cands : cand[c] # "queued"

\* The timer that runs out leaves the peer usable: a call on it returns (peer.go:254,
\* "ICE connection state for debugging + fallback trigger").
SendsReturn == \A c \in Callers : caller[c] = "waiting" ~> caller[c] = "idle"
=============================================================================
