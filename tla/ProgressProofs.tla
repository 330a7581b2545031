---------------------------- MODULE ProgressProofs ----------------------------
(***************************************************************************)
(* Proofs about the parts of MCProgress, for every value of their          *)
(* constants: what a peer does with the candidates that come early         *)
(* (PeerConnection), and the types of privacy mode (PrivacyLease), of a    *)
(* host's picture (FrameSource), of the pipeline (StreamLoop), of a peer   *)
(* and of the desktop client (ClientSession).  What these parts must come  *)
(* to do under fairness is model-checked.                                  *)
(***************************************************************************)
EXTENDS MCProgress, TLAPS

-----------------------------------------------------------------------------
(***************************************************************************)
(* The candidates of a peer (PeerConnection).                              *)
(***************************************************************************)

\* The answering side gets to drain its queue with the remote description set.
CandidateInv ==
  /\ cand \in [Cands -> {"coming", "queued", "added"}] /\ offerer \in BOOLEAN
  /\ ~offerer /\ nego \in {"drain", "answer", "done"} => remote
  /\ EarlyCandidatesUsed

LEMMA PeerStarts == PeerInit => CandidateInv
BY DEF PeerInit, CandidateInv, EarlyCandidatesUsed

LEMMA PeerPreserves == CandidateInv /\ [PeerNext]_peerVars => CandidateInv'
<1> SUFFICES ASSUME CandidateInv, [PeerNext]_peerVars PROVE CandidateInv'
  OBVIOUS
<1> USE DEF CandidateInv, EarlyCandidatesUsed
<1>1. CASE UNCHANGED negoVars
  BY <1>1 DEF negoVars
<1>2. CASE MakeOffer \/ TakeRemoteAnswer \/ SetRemoteOffer \/ MakeAnswer
  BY <1>2 DEF MakeOffer, TakeRemoteAnswer, SetRemoteOffer, MakeAnswer
<1>3. CASE DrainCandidates
  BY <1>3 DEF DrainCandidates
<1>4. ASSUME NEW c \in Cands, TakeCandidate(c) PROVE CandidateInv'
  BY <1>4 DEF TakeCandidate
<1>5. CASE ChannelArrives
  BY <1>5 DEF ChannelArrives
<1> QED
  BY <1>1, <1>2, <1>3, <1>4, <1>5
     DEF PeerNext, Negotiate, Gathered, TimerFires, GiveServers, Connect, ConnectFails, Lost, RetryTick,
         BeginSend, EndSend, peerVars

LEMMA CandidateInvariant == PeerSpec => []CandidateInv
BY PeerStarts, PeerPreserves, PTL DEF PeerSpec

\* However many candidates come before the offer, with it or after it, the answering side
\* leaves none of them queued (peer.go, HandleOffer).
THEOREM NoCandidateLeftQueued == PeerSpec => []EarlyCandidatesUsed
<1>1. CandidateInv => EarlyCandidatesUsed
  BY DEF CandidateInv
<1> QED
  BY <1>1, CandidateInvariant, PTL

-----------------------------------------------------------------------------
(***************************************************************************)
(* The types of the parts.                                                 *)
(***************************************************************************)

\* Privacy mode.
PrivacyTyped ==
  /\ cmds \in 0 .. MaxCmds /\ gone \in BOOLEAN /\ isOn \in BOOLEAN /\ lease \in BOOLEAN
  /\ blank \in BOOLEAN /\ reader \in Cmds \cup {Nothing} /\ watchdog \in Cmds \cup {Nothing}
  /\ queue \in Seq(Cmds) /\ Len(queue) <= QueueLen

LEMMA PrivacyTypesStart == PrivacyInit => PrivacyTyped
<1> SUFFICES ASSUME PrivacyInit PROVE PrivacyTyped
  OBVIOUS
<1>1. queue \in Seq(Cmds) /\ Len(queue) = 0
  BY DEF PrivacyInit
<1>2. /\ gone \in BOOLEAN /\ isOn \in BOOLEAN /\ lease \in BOOLEAN /\ blank \in BOOLEAN
      /\ reader \in Cmds \cup {Nothing} /\ watchdog \in Cmds \cup {Nothing}
  BY DEF PrivacyInit
<1>3. cmds \in 0 .. MaxCmds /\ QueueLen \in Nat
  BY PrivacyAssumption DEF PrivacyInit
<1> QED BY <1>1, <1>2, <1>3 DEF PrivacyTyped

LEMMA PrivacyTypesKept == PrivacyTyped /\ [PrivacyNext]_privacyVars => PrivacyTyped'
<1> SUFFICES ASSUME PrivacyTyped, [PrivacyNext]_privacyVars PROVE PrivacyTyped'
  OBVIOUS
<1> USE DEF privacyVars, PrivacyNext, WatchLease
<1>1. cmds' \in 0 .. MaxCmds
  <2>1. cmds' = cmds \/ (cmds < MaxCmds /\ cmds' = cmds + 1)
    BY DEF Assert, Clear, ReaderDrives, Expire, WatchdogDrives, DriveScreen, LeaseRunsOut, Vanish
  <2> QED BY <2>1, PrivacyAssumption DEF PrivacyTyped
<1>2. gone' \in BOOLEAN /\ isOn' \in BOOLEAN
  BY DEF PrivacyTyped, Assert, Clear, ReaderDrives, Expire, WatchdogDrives, DriveScreen,
         LeaseRunsOut, Vanish
<1>3. lease' \in BOOLEAN /\ blank' \in BOOLEAN
  BY DEF PrivacyTyped, Assert, Clear, ReaderDrives, Expire, WatchdogDrives, DriveScreen,
         LeaseRunsOut, Vanish
<1>4. reader' \in Cmds \cup {Nothing} /\ watchdog' \in Cmds \cup {Nothing}
  BY DEF PrivacyTyped, Assert, Clear, ReaderDrives, Expire, WatchdogDrives, DriveScreen,
         LeaseRunsOut, Vanish, Cmds, Nothing
<1>5. queue' \in Seq(Cmds) /\ Len(queue') <= QueueLen
  <2>1. \/ queue' = queue
        \/ \E on \in Cmds : Len(queue) < QueueLen /\ queue' = Append(queue, on)
        \/ queue # <<>> /\ queue' = Tail(queue)
    <3>1. (reader # Nothing => reader \in Cmds) /\ (watchdog # Nothing => watchdog \in Cmds)
      BY DEF PrivacyTyped
    <3> QED BY <3>1 DEF Queued, Assert, Clear, ReaderDrives, Expire, WatchdogDrives, DriveScreen,
                        LeaseRunsOut, Vanish
  <2>2. queue \in Seq(Cmds) /\ Len(queue) <= QueueLen /\ QueueLen \in Nat
    BY PrivacyAssumption DEF PrivacyTyped
  <2>3. ASSUME NEW on \in Cmds, Len(queue) < QueueLen, queue' = Append(queue, on)
        PROVE  queue' \in Seq(Cmds) /\ Len(queue') <= QueueLen
    BY <2>2, <2>3
  <2>4. ASSUME queue # <<>>, queue' = Tail(queue)
        PROVE  queue' \in Seq(Cmds) /\ Len(queue') <= QueueLen
    BY <2>2, <2>4
  <2> QED BY <2>1, <2>2, <2>3, <2>4
<1> QED BY <1>1, <1>2, <1>3, <1>4, <1>5 DEF PrivacyTyped

\* A host's picture.
FrameTyped ==
  /\ worker \in Feeders \cup {Nobody} /\ wlink \in [Feeders -> {"new", "up", "gone"}]
  /\ pump \in [Feeders -> [at : {"read", "guard", "secure?", "reverted?", "send"}, key : BOOLEAN]]
  /\ wkey \in [Feeders -> BOOLEAN] /\ pipe \in {"down", "up", "send"}
  /\ secure \in BOOLEAN /\ forceKey \in BOOLEAN /\ pipeKey \in BOOLEAN
  /\ reverted \in BOOLEAN /\ asked \in BOOLEAN /\ moving \in BOOLEAN
  /\ decodes \in Feeders \cup {Helper, Nobody}

LEMMA FrameTypesStart == FrameInit => FrameTyped
<1> SUFFICES ASSUME FrameInit PROVE FrameTyped
  OBVIOUS
<1>1. /\ worker \in Feeders \cup {Nobody} /\ wlink \in [Feeders -> {"new", "up", "gone"}]
      /\ pipe \in {"down", "up", "send"} /\ decodes \in Feeders \cup {Helper, Nobody}
  BY DEF FrameInit
<1>2. NoMsg \in [at : {"read", "guard", "secure?", "reverted?", "send"}, key : BOOLEAN]
  BY DEF NoMsg
<1>3. pump \in [Feeders -> [at : {"read", "guard", "secure?", "reverted?", "send"}, key : BOOLEAN]]
  BY <1>2 DEF FrameInit
<1>4. wkey \in [Feeders -> BOOLEAN]
  BY DEF FrameInit
<1>5. /\ secure \in BOOLEAN /\ forceKey \in BOOLEAN /\ pipeKey \in BOOLEAN
      /\ reverted \in BOOLEAN /\ asked \in BOOLEAN /\ moving \in BOOLEAN
  BY DEF FrameInit
<1> QED BY <1>1, <1>3, <1>4, <1>5 DEF FrameTyped

LEMMA PumpMoves ==
  ASSUME FrameTyped, NEW w \in Feeders, NEW p \in {"read", "reverted?", "secure?", "send"}, PumpTo(w, p)
  PROVE  pump' \in [Feeders -> [at : {"read", "guard", "secure?", "reverted?", "send"}, key : BOOLEAN]]
<1>1. CASE p = "read"
  <2>1. NoMsg \in [at : {"read", "guard", "secure?", "reverted?", "send"}, key : BOOLEAN]
    BY DEF NoMsg
  <2>2. pump' = [pump EXCEPT ![w] = NoMsg]
    BY <1>1 DEF PumpTo
  <2> QED BY <2>1, <2>2 DEF FrameTyped
<1>2. CASE p # "read"
  <2>1. pump' = [pump EXCEPT ![w] = [@ EXCEPT !.at = p]]
    BY <1>2 DEF PumpTo
  <2> QED BY <2>1 DEF FrameTyped
<1> QED BY <1>1, <1>2

LEMMA FrameTypesKept == FrameTyped /\ [FrameNext]_frameVars => FrameTyped'
<1> SUFFICES ASSUME FrameTyped, [FrameNext]_frameVars PROVE FrameTyped'
  OBVIOUS
<1> USE DEF FrameTyped
<1>1. CASE UNCHANGED frameVars
  BY <1>1 DEF frameVars, bridgeVars, askVars
<1>2. ASSUME NEW w \in Feeders, Attached(w) \/ Detached(w) PROVE FrameTyped'
  BY <1>2 DEF Attached, Detached, bridgeVars, askVars
<1>3. ASSUME NEW w \in Feeders, ReadFrame(w) PROVE FrameTyped'
  <2>1. PICK key \in {wkey[w], TRUE} : pump' = [pump EXCEPT ![w] = [at |-> "guard", key |-> key]]
    BY <1>3 DEF ReadFrame
  <2>2. [at |-> "guard", key |-> key]
          \in [at : {"read", "guard", "secure?", "reverted?", "send"}, key : BOOLEAN]
    <3>1. key \in BOOLEAN
      BY <2>1
    <3> QED BY <3>1
  <2>3. wkey' \in [Feeders -> BOOLEAN]
    BY <1>3 DEF ReadFrame
  <2> QED BY <1>3, <2>1, <2>2, <2>3 DEF ReadFrame, bridgeVars
<1>4. ASSUME NEW w \in Feeders, PumpStep(w) PROVE FrameTyped'
  <2>1. \E p \in {"read", "reverted?", "secure?", "send"} : PumpTo(w, p)
    BY <1>4 DEF PumpStep, Guard, SecureGuard, RevertGuard, SendFrame
  <2>2. pump' \in [Feeders -> [at : {"read", "guard", "secure?", "reverted?", "send"}, key : BOOLEAN]]
    BY <2>1, PumpMoves
  <2>3. CASE Guard(w) \/ SecureGuard(w)
    BY <2>2, <2>3 DEF Guard, SecureGuard, bridgeVars, askVars
  <2>4. CASE RevertGuard(w)
    <3>1. wkey' \in [Feeders -> BOOLEAN]
      BY <2>4 DEF RevertGuard, RequestKeyframe, askVars
    <3>2. asked' \in BOOLEAN
      BY <2>4 DEF RevertGuard, RequestKeyframe, askVars
    <3> QED BY <2>2, <2>4, <3>1, <3>2 DEF RevertGuard, bridgeVars
  <2>5. CASE SendFrame(w)
    BY <2>2, <2>5 DEF SendFrame, Distribute, bridgeVars, askVars
  <2> QED BY <1>4, <2>3, <2>4, <2>5 DEF PumpStep
<1>5. CASE BridgeStep
  BY <1>5 DEF BridgeStep, PipeOpens, PipeDrops, SecureAppears, SecureGone, HelperFrame, HelperSends,
              Distribute, OnlyBridge, askVars
<1>6. CASE ViewerConnects \/ PictureLoss \/ Elapse
  BY <1>6 DEF ViewerConnects, PictureLoss, Elapse, RequestKeyframe, bridgeVars
<1>7. ASSUME NEW w \in Feeders, LoseFrame(w) \/ IdleTurn(w) PROVE FrameTyped'
  <2>1. wkey' \in [Feeders -> BOOLEAN]
    BY <1>7 DEF LoseFrame, IdleTurn
  <2> QED BY <1>7, <2>1 DEF LoseFrame, IdleTurn, bridgeVars
<1>8. CASE ScreenTurns
  BY <1>8 DEF ScreenTurns, bridgeVars, askVars
<1> QED BY <1>1, <1>2, <1>3, <1>4, <1>5, <1>6, <1>7, <1>8 DEF FrameNext

\* The pipeline.
Ladder == [step : 0 .. BitRates - 1, down : 0 .. DownAfter, up : 0 .. UpAfter]

StreamTyped ==
  /\ at \in {"select", "frame", "backing off", "ended"}
  /\ changed \in BOOLEAN /\ pli \in BOOLEAN /\ forceNext \in BOOLEAN /\ owed \in BOOLEAN
  /\ \E class \in DOMAIN Rates : rate = Rates[class]
  /\ \E class \in DOMAIN Rates : tickRate = Rates[class]
  /\ frameCount \in 0 .. KeyEvery + 1 /\ still \in 0 .. 2 * Rates["normal"]
  /\ abr \in Ladder

LEMMA StreamTypesStart == StreamInit => StreamTyped
<1> SUFFICES ASSUME StreamInit PROVE StreamTyped
  OBVIOUS
<1>1. "normal" \in DOMAIN Rates /\ Rates["normal"] \in Nat
  BY StreamAssumption
<1>2. abr \in Ladder /\ KeyEvery \in Nat
  BY StreamAssumption DEF StreamInit, NewABR, Ladder
<1>3. frameCount \in 0 .. KeyEvery + 1 /\ still \in 0 .. 2 * Rates["normal"]
  BY <1>1, <1>2 DEF StreamInit
<1>4. changed \in BOOLEAN /\ pli \in BOOLEAN /\ forceNext \in BOOLEAN /\ owed \in BOOLEAN
  BY DEF StreamInit
<1> QED BY <1>1, <1>2, <1>3, <1>4 DEF StreamInit, StreamTyped

LEMMA StreamTypesKept == StreamTyped /\ [StreamNext]_streamVars => StreamTyped'
<1> SUFFICES ASSUME StreamTyped, [StreamNext]_streamVars PROVE StreamTyped'
  OBVIOUS
<1> USE DEF StreamNext, TakeTick, Emit, streamVars, keyVars, rateVars
<1>1. /\ KeyEvery \in Nat \ {0} /\ DownAfter \in Nat \ {0} /\ UpAfter \in Nat \ {0}
      /\ BitRates \in Nat \ {0}
      /\ "normal" \in DOMAIN Rates /\ Rates["normal"] \in Nat
  BY StreamAssumption
<1>2. at' \in {"select", "frame", "backing off", "ended"}
  BY DEF StreamTyped, Loss, TakeLoss, NewFrame, NothingNew, Refresh, GrabFails, DesktopGone, Grab, BackOff,
         Skip, EncodeGivesNothing, SendPicture, SendFails, Sent, Counted, TickOver, Measure
<1>3. changed' \in BOOLEAN /\ pli' \in BOOLEAN
  BY DEF StreamTyped, Loss, TakeLoss, NewFrame, NothingNew, Refresh, GrabFails, DesktopGone, Grab, BackOff,
         Skip, EncodeGivesNothing, SendPicture, SendFails, Sent, Counted, TickOver, Measure
<1>4. forceNext' \in BOOLEAN /\ owed' \in BOOLEAN
  BY DEF StreamTyped, Loss, TakeLoss, NewFrame, NothingNew, Refresh, GrabFails, DesktopGone, Grab, BackOff,
         Skip, EncodeGivesNothing, SendPicture, SendFails, Sent, Counted, TickOver, Measure
<1>5. \E class \in DOMAIN Rates : rate' = Rates[class]
  <2>1. rate' = rate \/ \E class \in DOMAIN Rates : rate' = Rates[class]
    BY DEF Loss, TakeLoss, NewFrame, NothingNew, Refresh, GrabFails, DesktopGone, Grab, BackOff,
           Skip, EncodeGivesNothing, SendPicture, SendFails, Sent, Counted, TickOver, Measure
  <2> QED BY <2>1 DEF StreamTyped
<1>6. \E class \in DOMAIN Rates : tickRate' = Rates[class]
  <2>1. tickRate' \in {tickRate, rate, Rates["normal"]}
    BY DEF Loss, TakeLoss, NewFrame, NothingNew, Refresh, GrabFails, DesktopGone, Grab, BackOff,
           Skip, EncodeGivesNothing, SendPicture, SendFails, Sent, Counted, TickOver, Measure
  <2> QED BY <1>1, <2>1 DEF StreamTyped
<1>7. \A n \in Nat, bound \in Nat : AtMost(n, bound) \in 0 .. bound
  BY DEF AtMost
<1>8. frameCount' \in 0 .. KeyEvery + 1
  <2>1. frameCount' \in {frameCount, 0, AtMost(frameCount + 1, KeyEvery + 1)}
    BY DEF Loss, TakeLoss, NewFrame, NothingNew, Refresh, GrabFails, DesktopGone, Grab, BackOff,
           Skip, EncodeGivesNothing, SendPicture, SendFails, Sent, Counted, TickOver, Measure
  <2>2. frameCount \in 0 .. KeyEvery + 1 /\ frameCount + 1 \in Nat /\ KeyEvery + 1 \in Nat /\ 0 \in 0 .. KeyEvery + 1
    <3>1. frameCount \in 0 .. KeyEvery + 1
      BY DEF StreamTyped
    <3>2. KeyEvery + 1 \in Nat
      BY <1>1
    <3> QED BY <3>1, <3>2
  <2>3. AtMost(frameCount + 1, KeyEvery + 1) \in 0 .. KeyEvery + 1
    BY <1>7, <2>2
  <2> QED BY <2>1, <2>2, <2>3
<1>9. still' \in 0 .. 2 * Rates["normal"]
  <2>1. still' \in {still, 0, AtMost(still + 1, 2 * Rates["normal"])}
    BY DEF Loss, TakeLoss, NewFrame, NothingNew, Refresh, GrabFails, DesktopGone, Grab, BackOff,
           Skip, EncodeGivesNothing, SendPicture, SendFails, Sent, Counted, TickOver, Measure
  <2>2. still \in 0 .. 2 * Rates["normal"] /\ still + 1 \in Nat /\ 2 * Rates["normal"] \in Nat /\ 0 \in 0 .. 2 * Rates["normal"]
    <3>1. still \in 0 .. 2 * Rates["normal"]
      BY DEF StreamTyped
    <3>2. 2 * Rates["normal"] \in Nat
      BY <1>1
    <3> QED BY <3>1, <3>2
  <2>3. AtMost(still + 1, 2 * Rates["normal"]) \in 0 .. 2 * Rates["normal"]
    BY <1>7, <2>2
  <2> QED BY <2>1, <2>2, <2>3
<1>10. abr' \in Ladder
  <2>1. abr' \in {abr, NewABR} \/ \E class \in DOMAIN Rates : Evaluate(class)
    BY DEF Loss, TakeLoss, NewFrame, NothingNew, Refresh, GrabFails, DesktopGone, Grab, BackOff,
           Skip, EncodeGivesNothing, SendPicture, SendFails, Sent, Counted, TickOver, Measure
  <2>2. abr \in Ladder /\ NewABR \in Ladder
    <3>1. 0 \in 0 .. BitRates - 1 /\ 0 \in 0 .. DownAfter /\ 0 \in 0 .. UpAfter
      BY <1>1
    <3> QED BY <3>1 DEF StreamTyped, Ladder, NewABR
  <2>3. ASSUME NEW class \in DOMAIN Rates, Evaluate(class) PROVE abr' \in Ladder
    <3>1. /\ abr.step \in 0 .. BitRates - 1 /\ abr.down \in 0 .. DownAfter /\ abr.up \in 0 .. UpAfter
          /\ abr = [step |-> abr.step, down |-> abr.down, up |-> abr.up]
      BY <2>2 DEF Ladder
    <3>2. PICK down, good :
            /\ down = (IF class = "severe" THEN abr.down + 1 ELSE IF class = "normal" THEN 0 ELSE abr.down)
            /\ good = (IF class = "normal" THEN abr.up + 1 ELSE 0)
      OBVIOUS
    <3>3. abr' = IF down >= DownAfter /\ abr.step < BitRates - 1 /\ class = "severe"
                 THEN [step |-> abr.step + 1, down |-> 0, up |-> good]
                 ELSE IF good >= UpAfter /\ abr.step > 0
                 THEN [step |-> abr.step - 1, down |-> down, up |-> 0]
                 ELSE [abr EXCEPT !.down = AtMost(down, DownAfter), !.up = AtMost(good, UpAfter)]
      BY <2>3, <3>2 DEF Evaluate
    <3>4. down \in Nat /\ good \in Nat
      BY <1>1, <3>1, <3>2
    <3>5. AtMost(down, DownAfter) \in 0 .. DownAfter /\ AtMost(good, UpAfter) \in 0 .. UpAfter
      BY <1>1, <1>7, <3>4
    <3>6. CASE down >= DownAfter /\ abr.step < BitRates - 1 /\ class = "severe"
      <4>1. good = 0
        BY <3>2, <3>6
      <4> QED BY <1>1, <3>1, <3>3, <3>6, <4>1 DEF Ladder
    <3>7. CASE ~(down >= DownAfter /\ abr.step < BitRates - 1 /\ class = "severe")
      <4>1. CASE good >= UpAfter /\ abr.step > 0
        <5>1. down = 0
          BY <1>1, <3>2, <4>1
        <5> QED BY <1>1, <3>1, <3>3, <3>7, <4>1, <5>1 DEF Ladder
      <4>2. CASE ~(good >= UpAfter /\ abr.step > 0)
        <5>1. abr' = [abr EXCEPT !.down = AtMost(down, DownAfter), !.up = AtMost(good, UpAfter)]
          BY <3>3, <3>7, <4>2
        <5> QED BY <2>2, <3>5, <5>1 DEF Ladder
      <4> QED BY <4>1, <4>2
    <3> QED BY <3>6, <3>7
  <2> QED BY <2>1, <2>2, <2>3
<1> QED BY <1>2, <1>3, <1>4, <1>5, <1>6, <1>8, <1>9, <1>10 DEF StreamTyped

\* A peer.
PeerTyped ==
  /\ nego \in {"new", "offered", "drain", "answer", "done", "failed"}
  /\ cand \in [Cands -> {"coming", "queued", "added"}] /\ timer \in {"armed", "stopped", "fired"}
  /\ offerer \in BOOLEAN /\ remote \in BOOLEAN /\ locked \in BOOLEAN /\ mode \in BOOLEAN
  /\ phase \in BOOLEAN /\ servers \in BOOLEAN /\ fallback \in BOOLEAN /\ channel \in BOOLEAN
  /\ dropped \in BOOLEAN
  /\ conn \in {"new", "connected", "lost", "failed"} /\ restart \in {"none", "local"}
  /\ retry \in [Retriers -> 0 .. Ticks] /\ caller \in [Callers -> {"idle", "waiting"}]

LEMMA PeerTypesStart == PeerInit => PeerTyped
<1> SUFFICES ASSUME PeerInit PROVE PeerTyped
  OBVIOUS
<1>1. /\ cand \in [Cands -> {"coming", "queued", "added"}] /\ caller \in [Callers -> {"idle", "waiting"}]
      /\ retry \in [Retriers -> 0 .. Ticks]
  BY PeerAssumption DEF PeerInit
<1>2. /\ offerer \in BOOLEAN /\ remote \in BOOLEAN /\ locked \in BOOLEAN /\ mode \in BOOLEAN
      /\ phase \in BOOLEAN /\ servers \in BOOLEAN /\ fallback \in BOOLEAN /\ channel \in BOOLEAN
      /\ dropped \in BOOLEAN
  BY DEF PeerInit
<1> QED BY <1>1, <1>2 DEF PeerInit, PeerTyped

LEMMA PeerTypesKept == PeerTyped /\ [PeerNext]_peerVars => PeerTyped'
<1> SUFFICES ASSUME PeerTyped, [PeerNext]_peerVars PROVE PeerTyped'
  OBVIOUS
<1> USE DEF PeerTyped, negoVars, iceVars, connVars, peerVars
<1>1. CASE UNCHANGED peerVars
  BY <1>1
<1>2. CASE Negotiate
  <2>1. CASE MakeOffer
    <3>1. nego' \in {"offered", "failed"} /\ channel' \in BOOLEAN
      BY <2>1 DEF MakeOffer
    <3>2. UNCHANGED <<offerer, remote, cand, iceVars, connVars, caller>>
      BY <2>1 DEF MakeOffer
    <3> QED BY <3>1, <3>2
  <2>2. CASE TakeRemoteAnswer \/ SetRemoteOffer
    <3>1. nego' \in {"drain", "done", "failed"} /\ remote' \in BOOLEAN
      BY <2>2 DEF TakeRemoteAnswer, SetRemoteOffer
    <3>2. UNCHANGED <<offerer, cand, channel, iceVars, connVars, caller>>
      BY <2>2 DEF TakeRemoteAnswer, SetRemoteOffer
    <3> QED BY <3>1, <3>2
  <2>3. CASE DrainCandidates
    BY <2>3 DEF DrainCandidates
  <2>4. CASE MakeAnswer
    BY <2>4 DEF MakeAnswer
  <2> QED BY <1>2, <2>1, <2>2, <2>3, <2>4 DEF Negotiate
<1>3. CASE ChannelArrives \/ Gathered \/ TimerFires \/ GiveServers
  <2>1. CASE ChannelArrives
    BY <2>1 DEF ChannelArrives
  <2>2. CASE Gathered \/ GiveServers
    <3>1. mode' \in BOOLEAN /\ servers' \in BOOLEAN
      BY <2>2 DEF Gathered, GiveServers
    <3>2. UNCHANGED <<negoVars, locked, timer, fallback, connVars, caller>>
      BY <2>2 DEF Gathered, GiveServers
    <3> QED BY <3>1, <3>2
  <2>3. CASE TimerFires
    BY <2>3 DEF TimerFires
  <2> QED BY <1>3, <2>1, <2>2, <2>3
<1>4. ASSUME NEW c \in Cands, TakeCandidate(c) PROVE PeerTyped'
  BY <1>4 DEF TakeCandidate
<1>5. CASE Connect
  BY <1>5 DEF Connect
<1>6. CASE ConnectFails
  BY <1>6 DEF ConnectFails
<1>7. ASSUME NEW g \in Retriers, Lost(g) PROVE PeerTyped'
  BY <1>7, PeerAssumption DEF Lost
<1>8. ASSUME NEW g \in Retriers, RetryTick(g) PROVE PeerTyped'
  <2>1. retry[g] \in 0 .. Ticks /\ retry[g] > 0 /\ Ticks \in Nat
    BY <1>8, PeerAssumption DEF RetryTick
  <2>2. retry' = [retry EXCEPT ![g] = 0] \/ retry' = [retry EXCEPT ![g] = retry[g] - 1]
    BY <1>8 DEF RetryTick
  <2>3. retry' \in [Retriers -> 0 .. Ticks]
    BY <2>1, <2>2
  <2>4. phase' \in BOOLEAN /\ dropped' \in BOOLEAN
    BY <1>8 DEF RetryTick
  <2>5. restart' \in {"none", "local"}
    BY <1>8 DEF RetryTick
  <2> QED BY <1>8, <2>3, <2>4, <2>5 DEF RetryTick
<1>9. ASSUME NEW c \in Callers, BeginSend(c) \/ EndSend(c) PROVE PeerTyped'
  BY <1>9 DEF BeginSend, EndSend
<1> QED BY <1>1, <1>2, <1>3, <1>4, <1>5, <1>6, <1>7, <1>8, <1>9 DEF PeerNext

\* The desktop client.
LEMMA ClientTypesStart == ClientInit => ClientTypeOK
<1> SUFFICES ASSUME ClientInit PROVE ClientTypeOK
  OBVIOUS
<1>1. /\ call \in [Calls -> {"idle", "closing", "asked", "told", "gathering", "gathered", "stuck",
                             "made", "stored", "failed"}]
      /\ monitor \in [Calls -> {"none", "waiting", "watching", "ended"}]
  BY DEF ClientInit
<1>2. /\ joined \cup done \cup rtc \subseteq Calls /\ closer \subseteq Calls \X Closers
  BY DEF ClientInit
<1>3. crashed \in BOOLEAN
  BY DEF ClientInit
<1>4. shown.state = "idle" /\ shown.of = NoCall
  BY DEF ClientInit
<1> QED BY <1>1, <1>2, <1>3, <1>4 DEF ClientInit, ClientTypeOK

LEMMA ClientTypesKept == ClientTypeOK /\ [ClientNext]_clientVars => ClientTypeOK'
<1> SUFFICES ASSUME ClientTypeOK, [ClientNext]_clientVars PROVE ClientTypeOK'
  OBVIOUS
<1> USE DEF ClientTypeOK, callVars, sessVars
<1>1. CASE UNCHANGED clientVars
  BY <1>1 DEF clientVars
<1>2. ASSUME NEW c \in Calls, CallConnect(c) PROVE ClientTypeOK'
  <2>1. CASE session = NoCall
    BY <1>2, <2>1 DEF CallConnect, Show
  <2>2. CASE session # NoCall
    BY <1>2, <2>2 DEF CallConnect, BeginClose, Closers
  <2> QED BY <2>1, <2>2
<1>3. ASSUME NEW c \in Calls, OldClosed(c) PROVE ClientTypeOK'
  BY <1>3 DEF OldClosed, Show
<1>4. ASSUME NEW c \in Calls, MakeSession(c) PROVE ClientTypeOK'
  BY <1>4 DEF MakeSession, Show
<1>5. ASSUME NEW c \in Calls, StoreSession(c) PROVE ClientTypeOK'
  BY <1>5 DEF StoreSession
<1>6. ASSUME NEW c \in Calls, PeerConnects(c) PROVE ClientTypeOK'
  BY <1>6 DEF PeerConnects
<1>7. ASSUME NEW c \in Calls, HostEnds(c) PROVE ClientTypeOK'
  BY <1>7 DEF HostEnds, BeginClose, Closers
<1>8. ASSUME NEW c \in Calls, Watch(c) PROVE ClientTypeOK'
  BY <1>8 DEF Watch, Show
<1>9. ASSUME NEW c \in Calls, NEW who \in Closers, EndClose(c, who) PROVE ClientTypeOK'
  BY <1>9 DEF EndClose
<1>10. CASE CallDisconnect
  <2>1. CASE session = NoCall
    BY <1>10, <2>1 DEF CallDisconnect
  <2>2. CASE session # NoCall
    BY <1>10, <2>2 DEF CallDisconnect, BeginClose, Closers
  <2> QED BY <2>1, <2>2
<1>11. CASE TellDisconnected
  BY <1>11 DEF TellDisconnected, Show
<1>12. ASSUME NEW c \in Calls, OfferGathered(c) \/ GatheringJams(c) PROVE ClientTypeOK'
  BY <1>12 DEF OfferGathered, GatheringJams
<1> QED BY <1>1, <1>2, <1>3, <1>4, <1>5, <1>6, <1>7, <1>8, <1>9, <1>10, <1>11, <1>12 DEF ClientNext

-----------------------------------------------------------------------------
TypesInv == PrivacyTyped /\ FrameTyped /\ StreamTyped /\ PeerTyped /\ ClientTypeOK

\* The state of every part that MCProgress composes is of its types, for every value of the
\* constants: no queue outgrows its bound and no step of the bit rate leaves the ladder
\* (privacyguard.go, securebridge.go, pipeline.go, abr.go, peer.go, app.go).
THEOREM ProgressTypeCorrect == Spec => []ProgressTypeOK
<1>1. Init => TypesInv
  BY PrivacyTypesStart, FrameTypesStart, StreamTypesStart, PeerTypesStart, ClientTypesStart
     DEF Init, TypesInv
<1>2. TypesInv /\ [Next]_partsVars => TypesInv'
  <2> SUFFICES ASSUME TypesInv, [Next]_partsVars PROVE TypesInv'
    OBVIOUS
  <2>1. /\ [PrivacyNext]_privacyVars /\ [FrameNext]_frameVars /\ [StreamNext]_streamVars
        /\ [PeerNext]_peerVars /\ [ClientNext]_clientVars
    BY DEF Next, partsVars
  <2> QED BY <2>1, PrivacyTypesKept, FrameTypesKept, StreamTypesKept, PeerTypesKept, ClientTypesKept
             DEF TypesInv
<1>3. TypesInv => ProgressTypeOK
  <2> SUFFICES ASSUME TypesInv PROVE ProgressTypeOK
    OBVIOUS
  <2>1. PrivacyTypeOK
    BY DEF TypesInv, PrivacyTyped, PrivacyTypeOK
  <2>2. FrameTypeOK
    BY DEF TypesInv, FrameTyped, FrameTypeOK
  <2>3. StreamTypeOK
    BY DEF TypesInv, StreamTyped, StreamTypeOK, Ladder
  <2>4. PeerTypeOK
    BY DEF TypesInv, PeerTyped, PeerTypeOK
  <2> QED BY <2>1, <2>2, <2>3, <2>4 DEF TypesInv, ProgressTypeOK
<1> QED BY <1>1, <1>2, <1>3, PTL DEF Spec
=============================================================================
