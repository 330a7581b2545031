----------------------------- MODULE FrameSource -----------------------------
(***************************************************************************)
(* Who feeds a viewer's picture (agent/session/transport.go, handleWorker, *)
(* and agent/session/securebridge.go).  Each capture worker that connects  *)
(* has a goroutine that reads its frames; the bridge to the SYSTEM helper  *)
(* has one of its own and feeds the secure desktop's frames while that is  *)
(* up.  A frame is passed or dropped by three tests, one after the other,  *)
(* none of which is held while the frame is sent.                          *)
(*                                                                         *)
(* A picture stream is a keyframe and the frames that build on it: the     *)
(* viewer decodes a source's frames from a keyframe of that source on, and *)
(* any other frame in between breaks the picture.  The link's queues are   *)
(* IpcConn and left out, and so are all of a frame but whether it is a     *)
(* key, and messages other than frames, which meet the first test only.    *)
(***************************************************************************)
EXTENDS Naturals

CONSTANTS Feeders, \* the workers' connections, each made once
          Helper,  \* the bridge, as a source of frames
          Nobody

ASSUME FrameAssumption == Helper # Nobody /\ {Helper, Nobody} \cap Feeders = {}

VARIABLES
  worker,   \* Transport.worker
  wlink,    \* a connection: new, up, gone
  pump,     \* the step of its goroutine, and the message it holds
  wkey,     \* a worker's wantKeyframe
  moving,   \* the screen changes, so that there is something to capture
  secure,   \* secureBridge.secure
  forceKey, \* secureBridge.forceKey
  pipe,     \* the bridge's pipe: down, up, or a frame of its being sent
  pipeKey,  \*   and whether that is a keyframe
  reverted, \* Transport.secureWas
  asked,    \* a keyframe was asked for less than 200 ms ago
  decodes   \* the source whose frames the viewer can decode

bridgeVars == <<secure, forceKey, pipe, pipeKey>>
askVars    == <<wkey, asked>>
frameVars  == <<worker, wlink, pump, bridgeVars, askVars, moving, reverted, decodes>>

NoMsg == [at |-> "read", key |-> FALSE]

FrameInit ==
  /\ worker = Nobody
  /\ wlink = [w \in Feeders |-> "new"] /\ pump = [w \in Feeders |-> NoMsg]
  /\ wkey = [w \in Feeders |-> TRUE] /\ moving = TRUE
  /\ secure = FALSE /\ forceKey = FALSE /\ pipe = "down" /\ pipeKey = FALSE
  /\ reverted = FALSE /\ asked = FALSE /\ decodes = Nobody

PumpAt(w, p) == pump[w].at = p
PumpTo(w, p) ==
  pump' = [pump EXCEPT ![w] = IF p = "read" THEN NoMsg ELSE [@ EXCEPT !.at = p]]

\* distributeFrame, and what a frame of s does to the viewer's picture.
Distribute(s, key) ==
  decodes' = IF key THEN s ELSE IF decodes = s THEN s ELSE Nobody

\* requestKeyframe: at most one in 200 ms, to whichever worker is current.
RequestKeyframe ==
  /\ asked' = TRUE
  /\ wkey' = IF asked \/ worker = Nobody THEN wkey ELSE [wkey EXCEPT ![worker] = TRUE]

Elapse ==
  /\ asked /\ asked' = FALSE
  /\ UNCHANGED <<worker, wlink, pump, bridgeVars, wkey, reverted, decodes, moving>>

-----------------------------------------------------------------------------
\* The workers' connections.

Attached(w) ==
  /\ wlink[w] = "new"
  /\ wlink' = [wlink EXCEPT ![w] = "up"] /\ worker' = w
  /\ UNCHANGED <<pump, bridgeVars, askVars, reverted, decodes, moving>>

\* The read fails; the transport forgets the worker if it is still this one, and the worker,
\* with what it wanted, is gone.
Detached(w) ==
  /\ wlink[w] = "up" /\ PumpAt(w, "read")
  /\ wlink' = [wlink EXCEPT ![w] = "gone"]
  /\ worker' = IF worker = w THEN Nobody ELSE worker
  /\ wkey' = [wkey EXCEPT ![w] = FALSE]
  /\ UNCHANGED <<pump, bridgeVars, asked, reverted, decodes, moving>>

\* A turn of the worker gives a frame, a keyframe if one is wanted, and it is read here ...
ReadFrame(w) ==
  /\ wlink[w] = "up" /\ PumpAt(w, "read") /\ moving
  /\ \E key \in {wkey[w], TRUE} :
       pump' = [pump EXCEPT ![w] = [at |-> "guard", key |-> key]]
  /\ wkey' = [wkey EXCEPT ![w] = FALSE]
  /\ UNCHANGED <<worker, wlink, bridgeVars, asked, moving, reverted, decodes>>

\* ... or takes the wish for a keyframe and gives nothing: the encoder fails or is empty,
\* or the full queue drops the frame ...
LoseFrame(w) ==
  /\ wlink[w] = "up" /\ PumpAt(w, "read") /\ moving
  /\ wkey' = [wkey EXCEPT ![w] = FALSE]
  /\ UNCHANGED <<worker, wlink, pump, bridgeVars, asked, moving, reverted, decodes>>

\* ... or captures nothing, nobody watching or nothing having changed: the next frame, if
\* there is one, is to be a keyframe.
IdleTurn(w) ==
  /\ wlink[w] = "up" /\ wkey' = [wkey EXCEPT ![w] = TRUE]
  /\ UNCHANGED <<worker, wlink, pump, bridgeVars, asked, moving, reverted, decodes>>

\* The screen, which is one for all sessions, comes to rest or begins to change.
ScreenTurns ==
  /\ moving' = ~moving
  /\ UNCHANGED <<worker, wlink, pump, bridgeVars, askVars, reverted, decodes>>

\* The single-producer guard, under workerMu.
Guard(w) ==
  /\ PumpAt(w, "guard")
  /\ PumpTo(w, IF worker = w THEN "secure?" ELSE "read")
  /\ UNCHANGED <<worker, wlink, bridgeVars, askVars, reverted, decodes, moving>>

\* The bridge owns the picture while the secure desktop is up.
SecureGuard(w) ==
  /\ PumpAt(w, "secure?")
  /\ PumpTo(w, IF secure THEN "read" ELSE "reverted?")
  /\ reverted' = (reverted \/ secure)
  /\ UNCHANGED <<worker, wlink, bridgeVars, askVars, decodes, moving>>

\* Mutant of RevertGuard: the flag is read and left.
RevertGuardLoads(w) ==
  /\ PumpAt(w, "reverted?")
  /\ IF reverted
     THEN RequestKeyframe /\ PumpTo(w, "read")
     ELSE PumpTo(w, "send") /\ UNCHANGED askVars
  /\ UNCHANGED <<worker, wlink, bridgeVars, reverted, decodes, moving>>

\* secureWas.Swap(false): the first frame after the secure desktop is dropped, and a
\* keyframe asked for.
RevertGuard(w) ==
  /\ PumpAt(w, "reverted?") /\ reverted' = FALSE
  /\ IF reverted
     THEN RequestKeyframe /\ PumpTo(w, "read")
     ELSE PumpTo(w, "send") /\ UNCHANGED askVars
  /\ UNCHANGED <<worker, wlink, bridgeVars, decodes, moving>>

SendFrame(w) ==
  /\ PumpAt(w, "send") /\ PumpTo(w, "read") /\ Distribute(w, pump[w].key)
  /\ UNCHANGED <<worker, wlink, bridgeVars, askVars, reverted, moving>>

PumpStep(w) ==
  Guard(w) \/ SecureGuard(w) \/ RevertGuard(w) \/ SendFrame(w)

-----------------------------------------------------------------------------
\* The bridge.

OnlyBridge == UNCHANGED <<worker, wlink, pump, askVars, reverted, moving>>

PipeOpens == pipe = "down" /\ pipe' = "up" /\ OnlyBridge /\ UNCHANGED <<secure, forceKey, pipeKey, decodes>>

\* The pipe drops: no frame stays pinned to a desktop nobody reports on.
PipeDrops ==
  /\ pipe = "up" /\ pipe' = "down" /\ secure' = FALSE
  /\ OnlyBridge /\ UNCHANGED <<forceKey, pipeKey, decodes>>

SecureAppears ==
  /\ pipe = "up" /\ secure' = TRUE /\ forceKey' = (forceKey \/ ~secure)
  /\ OnlyBridge /\ UNCHANGED <<pipe, pipeKey, decodes>>

SecureGone ==
  /\ pipe = "up" /\ secure' = FALSE
  /\ OnlyBridge /\ UNCHANGED <<forceKey, pipe, pipeKey, decodes>>

\* handleFrame: forceKey is taken before the encoder runs, which may give nothing.
HelperFrame ==
  /\ pipe = "up" /\ secure /\ forceKey' = FALSE
  /\ \/ UNCHANGED <<pipe, pipeKey>>
     \/ pipe' = "send" /\ pipeKey' \in {forceKey, TRUE}
  /\ OnlyBridge /\ UNCHANGED <<secure, decodes>>

HelperSends ==
  /\ pipe = "send" /\ pipe' = "up" /\ pipeKey' = FALSE
  /\ IF secure THEN Distribute(Helper, pipeKey) ELSE UNCHANGED decodes
  /\ OnlyBridge /\ UNCHANGED <<secure, forceKey>>

BridgeStep ==
  PipeOpens \/ PipeDrops \/ SecureAppears \/ SecureGone \/ HelperFrame \/ HelperSends

-----------------------------------------------------------------------------
\* The viewer: OnConnected, and a picture loss it reports (watchRTCP).

ViewerConnects ==
  /\ decodes' = Nobody /\ forceKey' = TRUE /\ RequestKeyframe
  /\ UNCHANGED <<worker, wlink, pump, secure, pipe, pipeKey, reverted, moving>>

PictureLoss ==
  /\ decodes = Nobody /\ RequestKeyframe
  /\ UNCHANGED <<worker, wlink, pump, bridgeVars, reverted, decodes, moving>>

FrameNext ==
  \/ \E w \in Feeders : \/ Attached(w) \/ Detached(w) \/ PumpStep(w)
                        \/ ReadFrame(w) \/ LoseFrame(w) \/ IdleTurn(w)
  \/ BridgeStep \/ ViewerConnects \/ PictureLoss \/ Elapse \/ ScreenTurns

\* A worker's goroutine goes on with the frame it has read, a viewer without a picture goes on
\* reporting it, and time passes.  That there is a frame to read is not promised.
FrameFairness ==
  /\ \A w \in Feeders : WF_frameVars(PumpStep(w))
  /\ SF_frameVars(PictureLoss /\ ~asked) /\ WF_frameVars(Elapse)

FrameSpec == FrameInit /\ [][FrameNext]_frameVars /\ FrameFairness

-----------------------------------------------------------------------------
FrameTypeOK ==
  /\ worker \in Feeders \cup {Nobody}
  /\ wlink \in [Feeders -> {"new", "up", "gone"}]
  /\ pump \in [Feeders -> [at : {"read", "guard", "secure?", "reverted?", "send"}, key : BOOLEAN]]
  /\ wkey \in [Feeders -> BOOLEAN] /\ pipe \in {"down", "up", "send"}
  /\ {secure, forceKey, pipeKey, reverted, asked, moving} \subseteq BOOLEAN
  /\ decodes \in Feeders \cup {Helper, Nobody}

\* What a worker cannot do by itself: neither all of its frames nor all of the keyframes it
\* is asked for are lost.
EncoderWorks(w) == SF_frameVars(ReadFrame(w)) /\ SF_frameVars(ReadFrame(w) /\ wkey[w])

\* When the sources stop changing and the secure desktop is gone, the viewer comes to
\* decode the current worker's picture, again after every viewer that joins, if the screen
\* changes again and again and the encoder works (transport.go:1067, "so the viewer's
\* decoder re-syncs").
PictureReturns ==
  []<>moving =>
    \A w \in Feeders : EncoderWorks(w) /\ <>[](worker = w /\ ~secure) => []<>(decodes = w)
=============================================================================
