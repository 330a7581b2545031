----------------------------- MODULE MCProgress -----------------------------
(***************************************************************************)
(* Small instances of the parts whose promise is that something happens in *)
(* the end: privacy mode, the picture of a host with capture workers, the  *)
(* pipeline of the single-process agent, a peer, and the desktop client.   *)
(*                                                                         *)
(* A behaviour is one part's, chosen by part; the others keep their first  *)
(* states, and are fair to what they do not do.  Properties of one part    *)
(* hold in another's behaviours because nothing happens there.             *)
(***************************************************************************)
EXTENDS PrivacyLease, FrameSource, StreamLoop, PeerConnection, ClientSession

CONSTANTS w1, w2, helper, nobody, c1, c2, g1, g2, t1, s1, s2, none

VARIABLE part

MCFeeders  == {w1, w2}
MCRates    == [severe |-> 1, moderate |-> 2, normal |-> 3]
MCCands    == {c1, c2}
MCRetriers == {g1, g2}
MCCallers  == {t1}
MCCalls    == {s1, s2}

partsVars == <<part, privacyVars, frameVars, streamVars, peerVars, clientVars>>

Init ==
  /\ part \in {"privacy", "frames", "stream", "peer", "client"}
  /\ PrivacyInit /\ FrameInit /\ StreamInit /\ PeerInit /\ ClientInit
  /\ part # "peer" => offerer /\ servers

Next ==
  \/ part = "privacy" /\ PrivacyNext
     /\ UNCHANGED <<part, frameVars, streamVars, peerVars, clientVars>>
  \/ part = "frames" /\ FrameNext
     /\ UNCHANGED <<part, privacyVars, streamVars, peerVars, clientVars>>
  \/ part = "stream" /\ StreamNext
     /\ UNCHANGED <<part, privacyVars, frameVars, peerVars, clientVars>>
  \/ part = "peer" /\ PeerNext
     /\ UNCHANGED <<part, privacyVars, frameVars, streamVars, clientVars>>
  \/ part = "client" /\ ClientNext
     /\ UNCHANGED <<part, privacyVars, frameVars, streamVars, peerVars>>

Spec == Init /\ [][Next]_partsVars

\* The type invariants of the five parts, each in its own behaviours.
ProgressTypeOK ==
  /\ part = "privacy" => PrivacyTypeOK
  /\ part = "frames" => FrameTypeOK
  /\ part = "stream" => StreamTypeOK
  /\ part = "peer" => PeerTypeOK
  /\ part = "client" => ClientTypeOK

\* The lease: once the viewer has vanished the screen is restored and stays so
\* (privacyguard.go, runPrivacyWatchdog).
LeaseRestores == PrivacyFairness => RestoredInTheEnd

\* The picture: the viewer comes to decode the worker that is left (transport.go,
\* handleWorker; securebridge.go).
SourceRestored == FrameFairness => PictureReturns

\* The pipeline: a picture loss is followed by a keyframe (pipeline.go, Start).
LossServed == StreamFairness => LossIsServed

\* The window: it does not go on saying connecting (app.go, Connect and monitorSession).
ConnectSettles == ClientFairness => ConnectingEnds
=============================================================================
