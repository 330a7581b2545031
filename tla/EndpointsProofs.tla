---------------------------- MODULE EndpointsProofs ----------------------------
(***************************************************************************)
(* Proofs about the parts of an agent, each for every value of its         *)
(* constants, and about their composition (MCEndpoints): the sound and the *)
(* recordings of a host (HostAudio, CaptureLoop, Recording), the           *)
(* rectangles of a changed screen (DirtyRects), the agent's connection to  *)
(* the relay and its sessions (SignalingClient, AgentSessions), the        *)
(* viewers' input (InputSink) and the decisions of the person at the host  *)
(* (ConsentStore).  The transfers of files are proved about in             *)
(* TransfersProofs.                                                        *)
(***************************************************************************)
EXTENDS MCEndpoints, TransfersProofs

-----------------------------------------------------------------------------
(***************************************************************************)
(* The microphone and the system sound (HostAudio).                        *)
(***************************************************************************)

\* The mutex is held by the click that stops the microphone and by nobody else, and the
\* device is off all the time.
HolderInv ==
  /\ click \in [Clicks -> {"idle", "mic on", "mic off", "stop mic", "stop sound", "wait loop"}]
  /\ \A c \in Clicks : click[c] = "stop mic" <=> holder = c
  /\ holder \in Clicks \cup {NoOne}
  /\ micOn \in BOOLEAN /\ soundOn \in BOOLEAN /\ sink \in BOOLEAN /\ capture \in BOOLEAN
  /\ device \in BOOLEAN
  /\ ~Free => ~capture
  /\ capture => device

\* The flag is the device's state, and what is on has a destination.
FlagInv ==
  /\ Free => (micOn <=> capture)
  /\ micOn \/ soundOn => sink

\* A click that did not come on the heels of another is alone, and asks for what the bar says;
\* once it is carried out, a bar that says off is right.
BarInv ==
  /\ bar \in BOOLEAN /\ overlaid \in BOOLEAN
  /\ ~overlaid =>
       /\ \A c, d \in Clicks : AboutMic(c) /\ AboutMic(d) => c = d
       /\ \A c \in Clicks : AboutMic(c) => (bar <=> click[c] = "mic on")
       /\ MicQuiet /\ ~bar => ~capture

AudioInv == HolderInv /\ FlagInv /\ BarInv

LEMMA AudioStarts == AudioInit => AudioInv
BY AudioAssumption
   DEF AudioInit, AudioInv, HolderInv, FlagInv, BarInv, Free, AboutMic, MicQuiet

LEMMA FlagsKept == HolderInv /\ FlagInv /\ [AudioNext]_audioVars => HolderInv' /\ FlagInv'
<1> SUFFICES ASSUME HolderInv, FlagInv, [AudioNext]_audioVars PROVE HolderInv' /\ FlagInv'
  OBVIOUS
<1> USE AudioAssumption DEF HolderInv, FlagInv, Free, flagVars, devVars, ClickTo
<1>1. CASE UNCHANGED audioVars
  BY <1>1 DEF audioVars
<1>2. ASSUME NEW c \in Clicks, ClickMic(c) PROVE HolderInv' /\ FlagInv'
  <2>1. /\ click[c] = "idle" /\ UNCHANGED <<holder, device, micOn, soundOn, sink, capture>>
        /\ \E s \in {"mic on", "mic off"} : click' = [click EXCEPT ![c] = s]
    BY <1>2 DEF ClickMic
  <2> QED
    BY <2>1
<1>3. ASSUME NEW c \in Clicks, StartMic(c) PROVE HolderInv' /\ FlagInv'
  <2>1. /\ click[c] = "mic on" /\ holder = NoOne /\ UNCHANGED <<holder, soundOn>>
        /\ click' = [click EXCEPT ![c] = "idle"]
    BY <1>3 DEF StartMic
  <2>2. CASE UNCHANGED <<device, micOn, sink, capture>>
    BY <2>1, <2>2
  <2>3. CASE device' = TRUE /\ sink' = TRUE /\ micOn' = TRUE /\ capture' = TRUE
    BY <2>1, <2>3
  <2>4. CASE device' = TRUE /\ sink' = TRUE /\ UNCHANGED <<micOn, capture>>
    BY <2>1, <2>4
  <2> QED
    BY <1>3, <2>2, <2>3, <2>4 DEF StartMic
<1>4. ASSUME NEW c \in Clicks, StopMic(c) PROVE HolderInv' /\ FlagInv'
  <2>1. /\ click[c] = "mic off" /\ holder = NoOne /\ UNCHANGED <<device, micOn, soundOn, sink>>
    BY <1>4 DEF StopMic
  <2>2. CASE holder' = c /\ capture' = FALSE /\ click' = [click EXCEPT ![c] = "stop mic"]
    BY <2>1, <2>2
  <2>3. CASE UNCHANGED <<holder, capture>> /\ click' = [click EXCEPT ![c] = "idle"]
    BY <2>1, <2>3
  <2> QED
    BY <1>4, <2>2, <2>3 DEF StopMic
<1>5. ASSUME NEW c \in Clicks, StartSound(c) PROVE HolderInv' /\ FlagInv'
  BY <1>5 DEF StartSound
<1>6. ASSUME NEW c \in Clicks, StopSound(c) PROVE HolderInv' /\ FlagInv'
  BY <1>6 DEF StopSound
<1>7. ASSUME NEW c \in Clicks, Stopping(c) PROVE HolderInv' /\ FlagInv'
  <2>1. CASE MicStopped(c)
    <3>1. /\ holder = c /\ ~capture /\ micOn' = FALSE /\ sink' = (sink /\ soundOn) /\ holder' = NoOne
          /\ click' = [click EXCEPT ![c] = "idle"] /\ UNCHANGED <<soundOn, capture, device>>
      BY <2>1 DEF MicStopped
    <3> QED
      BY <3>1
  <2>2. CASE StopLoopback(c) \/ LoopStopped(c)
    <3>1. /\ click[c] # "stop mic"
          /\ UNCHANGED <<holder, device, micOn, soundOn, sink, capture>>
          /\ \E s \in {"idle", "wait loop"} : click' = [click EXCEPT ![c] = s]
      BY <2>2 DEF StopLoopback, LoopStopped
    <3> QED
      BY <3>1
  <2> QED
    BY <1>7, <2>1, <2>2 DEF Stopping
<1>8. CASE SetSink \/ MicFrame \/ LoopFrame \/ Callbacks
  <2>1. /\ UNCHANGED <<holder, device, micOn, soundOn, capture, click>>
        /\ sink' = TRUE \/ UNCHANGED sink
    BY <1>8 DEF SetSink, MicFrame, LoopFrame, Callbacks, MicMix, MicSend,
                LoopPark, LoopSend
  <2> QED
    BY <2>1
<1> QED
  BY <1>1, <1>2, <1>3, <1>4, <1>5, <1>6, <1>7, <1>8 DEF AudioNext

LEMMA BarKept == HolderInv /\ BarInv /\ [AudioNext]_audioVars => BarInv'
<1> SUFFICES ASSUME HolderInv, BarInv, [AudioNext]_audioVars PROVE BarInv'
  OBVIOUS
<1> USE AudioAssumption DEF HolderInv, BarInv, AboutMic, MicQuiet, flagVars, devVars, barVars, ClickTo
<1>1. CASE UNCHANGED audioVars
  BY <1>1 DEF audioVars
<1>2. ASSUME NEW c \in Clicks, ClickMic(c) PROVE BarInv'
  <2>1. /\ click[c] = "idle" /\ bar' = ~bar /\ overlaid' = ~MicQuiet /\ UNCHANGED capture
        /\ click' = [click EXCEPT ![c] = IF bar THEN "mic off" ELSE "mic on"]
    BY <1>2 DEF ClickMic
  <2> QED
    BY <2>1
<1>3. ASSUME NEW c \in Clicks, StartMic(c) PROVE BarInv'
  <2>1. /\ click[c] = "mic on" /\ click' = [click EXCEPT ![c] = "idle"] /\ UNCHANGED barVars
    BY <1>3 DEF StartMic
  <2> QED
    BY <2>1
<1>4. ASSUME NEW c \in Clicks, StopMic(c) PROVE BarInv'
  <2>1. click[c] = "mic off" /\ UNCHANGED barVars
    BY <1>4 DEF StopMic
  <2>2. CASE capture' = FALSE /\ click' = [click EXCEPT ![c] = "stop mic"]
    BY <2>1, <2>2
  <2>3. CASE ~device /\ UNCHANGED capture /\ click' = [click EXCEPT ![c] = "idle"]
    BY <2>1, <2>3
  <2> QED
    BY <1>4, <2>2, <2>3 DEF StopMic
<1>5. ASSUME NEW c \in Clicks, MicStopped(c) PROVE BarInv'
  <2>1. ~capture
    BY <1>5 DEF MicStopped, Free
  <2> QED
    BY <1>5, <2>1 DEF MicStopped
<1>6. ASSUME NEW c \in Clicks, StartSound(c) \/ StopSound(c) \/ StopLoopback(c) \/ LoopStopped(c)
      PROVE BarInv'
  <2>1. /\ UNCHANGED <<bar, overlaid, capture>> /\ ~AboutMic(c)
        /\ \E s \in {"idle", "stop sound", "wait loop"} : click' = [click EXCEPT ![c] = s]
    <3>1. CASE StartSound(c)
      BY <3>1 DEF StartSound
    <3>2. CASE StopSound(c)
      BY <3>2 DEF StopSound
    <3>3. CASE StopLoopback(c) \/ LoopStopped(c)
      BY <3>3 DEF StopLoopback, LoopStopped
    <3> QED
      BY <1>6, <3>1, <3>2, <3>3
  <2> QED
    BY <2>1
<1>7. CASE SetSink \/ MicFrame \/ LoopFrame \/ Callbacks
  <2>1. UNCHANGED <<bar, overlaid, capture, click>>
    BY <1>7 DEF SetSink, MicFrame, LoopFrame, Callbacks, MicMix, MicSend, LoopPark, LoopSend
  <2> QED
    BY <2>1
<1> QED
  BY <1>1, <1>2, <1>3, <1>4, <1>5, <1>6, <1>7 DEF AudioNext, Stopping

LEMMA AudioPreserves == AudioInv /\ [AudioNext]_audioVars => AudioInv'
BY FlagsKept, BarKept DEF AudioInv

LEMMA AudioInvariant == AudioSpec => []AudioInv
BY AudioStarts, AudioPreserves, PTL DEF AudioSpec

\* However clicks overlap and whenever the devices call back, the microphone's flag says what
\* the device does, and the bar does not say off of a live microphone unless clicks overlapped
\* (hostaudio.go; sessionbar_windows.go, sessionBarProc).
THEOREM MicFlagTrue == AudioSpec => []MicSaysWhatItDoes
<1>1. AudioInv => MicSaysWhatItDoes
  BY DEF AudioInv, FlagInv, BarInv, MicSaysWhatItDoes
<1> QED
  BY <1>1, AudioInvariant, PTL

\* The devices' own threads and what they leave parked.
AudioTyped == AudioTypeOK /\ AudioInv

LEMMA AudioTypesKept == AudioTyped /\ [AudioNext]_audioVars => AudioTyped'
<1> SUFFICES ASSUME AudioTyped, [AudioNext]_audioVars PROVE AudioTypeOK'
  BY AudioPreserves DEF AudioTyped
<1>1. HolderInv /\ HolderInv' /\ BarInv'
  BY AudioPreserves DEF AudioTyped, AudioInv
<1>2. /\ parked \in BOOLEAN /\ loopback \in BOOLEAN
      /\ mic \in {"idle", "mix", "send"} /\ soundLoop \in {"idle", "park", "send"}
  BY DEF AudioTyped, AudioTypeOK
<1>3. loopback' \in BOOLEAN
  BY <1>2 DEF AudioNext, ClickMic, StartMic, StopMic, StartSound, StopSound, Stopping, MicStopped, StopLoopback,
              LoopStopped, SetSink, MicFrame, LoopFrame, Callbacks, MicMix, MicSend, LoopPark,
              LoopSend, audioVars, devVars
<1>4. parked' \in BOOLEAN
  BY <1>1, <1>2 DEF AudioNext, ClickMic, StartMic, StopMic, StartSound, StopSound, Stopping, MicStopped,
              StopLoopback, LoopStopped, SetSink, MicFrame, LoopFrame, Callbacks, MicMix, MicSend,
              LoopPark, LoopSend, audioVars, flagVars, HolderInv
<1>5. mic' \in {"idle", "mix", "send"} /\ soundLoop' \in {"idle", "park", "send"}
  BY <1>2 DEF AudioNext, ClickMic, StartMic, StopMic, StartSound, StopSound, Stopping, MicStopped, StopLoopback,
              LoopStopped, SetSink, MicFrame, LoopFrame, Callbacks, MicMix, MicSend, LoopPark,
              LoopSend, audioVars
<1> QED BY <1>1, <1>3, <1>4, <1>5 DEF AudioTypeOK, HolderInv, BarInv

LEMMA AudioTypesStart == AudioInit => AudioTyped
BY AudioStarts, AudioAssumption DEF AudioInit, AudioTyped, AudioTypeOK

-----------------------------------------------------------------------------
(***************************************************************************)
(* The recordings of a session (CaptureLoop).                              *)
(***************************************************************************)

\* A thread that closes holds a recorder, and one that starts has read a size.
Jobs == [at : {"idle", "start?", "start", "started", "stop", "close", "taken"},
         of : Recorders \cup Sizes \cup {None}]

LoopSteps == {"tick", "resized", "stop old", "rekey", "encode", "encoding", "record", "write failed"}
LoopType ==
  /\ capSize \in Sizes /\ wantKey \in BOOLEAN
  /\ loop \in [at : LoopSteps, size : Sizes \cup {None}, force : BOOLEAN]

JobInv ==
  /\ LoopType
  /\ doing \in [Threads -> Jobs]
  /\ recorder \in [Recorders -> [is : {"new", "open", "closed"}, size : Sizes \cup {None}]]
  /\ recCur \in Recorders \cup {None}
  /\ \A t \in Threads : /\ At(t, "close") => doing[t].of \in Recorders
                        /\ At(t, "start") => doing[t].of \in Sizes

RecorderInv == JobInv /\ RecordersAccounted

LEMMA CaptureStarts == CaptureInit => RecorderInv
BY CaptureAssumption
   DEF CaptureInit, RecorderInv, JobInv, LoopType, LoopSteps, Jobs, RecordersAccounted, At, NoJob, Threads

\* What a thread that closes nothing does next, with the recorders left alone.
LEMMA MoveJob ==
  ASSUME RecorderInv, NEW t \in Threads, ~At(t, "close"), NEW j \in Jobs, j.at # "close",
         j.at = "start" => j.of \in Sizes, doing' = [doing EXCEPT ![t] = j], UNCHANGED <<recCur, recorder>>, LoopType'
  PROVE  RecorderInv'
BY DEF RecorderInv, JobInv, RecordersAccounted, At

LEMMA RecorderOps ==
  ASSUME RecorderInv, NEW t \in Threads, LoopType'
  PROVE  /\ \A size \in Sizes \cup {None}, next \in {"idle", "started"} :
              ~At(t, "close") /\ StartRecording(t, size, next) => RecorderInv'
         /\ ~At(t, "close") /\ TakeRecorder(t) => RecorderInv'
         /\ CloseRecorder(t) => RecorderInv'
<1> USE CaptureAssumption
<1>1. ASSUME NEW size \in Sizes \cup {None}, NEW next \in {"idle", "started"},
             ~At(t, "close"), StartRecording(t, size, next)
      PROVE  RecorderInv'
  <2>1. PICK n \in {"idle", "started"} : doing' = [doing EXCEPT ![t] = [at |-> n, of |-> None]]
    BY <1>1 DEF StartRecording, Goto
  <2>2. [at |-> n, of |-> None] \in Jobs
    BY DEF Jobs
  <2>3. CASE UNCHANGED <<recCur, recorder>>
    BY <1>1, <2>1, <2>2, <2>3, MoveJob
  <2>4. ASSUME recCur = None, NEW r \in Recorders, recorder[r].is = "new", recCur' = r,
               recorder' = [recorder EXCEPT ![r] = [is |-> "open", size |-> size]]
        PROVE  RecorderInv'
    <3>1. JobInv'
      BY <1>1, <2>1, <2>2, <2>4 DEF RecorderInv, JobInv, At
    <3>2. \A u \in Threads : At(u, "close")' => At(u, "close") /\ doing'[u] = doing[u]
      BY <1>1, <2>1, <2>2 DEF RecorderInv, JobInv, At
    <3>3. \A u \in Threads : At(u, "close") => At(u, "close")' /\ doing'[u] = doing[u]
      BY <1>1, <2>1, <2>2 DEF RecorderInv, JobInv, At
    <3>4. RecordersAccounted'
      BY <2>4, <3>2, <3>3 DEF RecorderInv, JobInv, RecordersAccounted, At
    <3> QED
      BY <3>1, <3>4 DEF RecorderInv
  <2> QED
    BY <1>1, <2>3, <2>4 DEF StartRecording
<1>2. ASSUME ~At(t, "close"), TakeRecorder(t)
      PROVE  RecorderInv'
  <2> DEFINE j == [at |-> IF recCur = None THEN "taken" ELSE "close", of |-> recCur]
  <2>1. /\ j \in Jobs /\ doing' = [doing EXCEPT ![t] = j] /\ recCur' = None /\ UNCHANGED recorder
        /\ j.at = "close" => j.of \in Recorders /\ j.of = recCur
        /\ j.at # "close" => recCur = None
    BY <1>2 DEF TakeRecorder, Goto, Jobs, RecorderInv, JobInv
  <2> HIDE DEF j
  <2>2. JobInv'
    <3>1. \A u \in Threads : At(u, "start")' => At(u, "start") /\ doing'[u] = doing[u]
      <4>1. j.at # "start"
        BY DEF j
      <4> QED
        BY <1>2, <2>1, <4>1 DEF RecorderInv, JobInv, At
    <3> QED
      BY <1>2, <2>1, <3>1 DEF RecorderInv, JobInv, At
  <2>3. RecordersAccounted'
    BY <1>2, <2>1 DEF RecorderInv, JobInv, RecordersAccounted, At
  <2> QED
    BY <2>2, <2>3 DEF RecorderInv
<1>3. ASSUME CloseRecorder(t)
      PROVE  RecorderInv'
  <2> DEFINE r == doing[t].of
  <2>1. /\ r \in Recorders /\ At(t, "close") /\ UNCHANGED recCur /\ recCur # r
        /\ recorder' = [recorder EXCEPT ![r].is = "closed"]
        /\ doing' = [doing EXCEPT ![t] = [at |-> "taken", of |-> None]]
    BY <1>3 DEF CloseRecorder, Goto, RecorderInv, JobInv, RecordersAccounted
  <2>2. [at |-> "taken", of |-> None] \in Jobs
    BY DEF Jobs
  <2>3. JobInv'
    BY <2>1, <2>2 DEF RecorderInv, JobInv, At
  <2>4. RecordersAccounted'
    BY <2>1, <2>2 DEF RecorderInv, JobInv, RecordersAccounted, At
  <2> QED
    BY <2>3, <2>4 DEF RecorderInv
<1> QED
  BY <1>1, <1>2, <1>3

LEMMA UserPreserves == RecorderInv /\ UserStep => RecorderInv'
<1> SUFFICES ASSUME RecorderInv, UserStep PROVE RecorderInv'
  OBVIOUS
<1>1. LoopType' /\ capSize \in Sizes /\ Reader \in Threads
  BY DEF UserStep, RecorderInv, JobInv, LoopType, Threads
<1>2. CASE ViewerStarts
  <2>1. [at |-> "start", of |-> capSize] \in Jobs
    BY <1>1 DEF Jobs
  <2> QED
    BY <1>1, <1>2, <2>1, MoveJob DEF ViewerStarts, BeginStart, Goto, At
<1>3. CASE ViewerStops
  BY <1>1, <1>3, RecorderOps DEF ViewerStops, At
<1>4. CASE ShowStarted
  <2>1. [at |-> "idle", of |-> None] \in Jobs
    BY DEF Jobs
  <2> QED
    BY <1>1, <1>4, <2>1, MoveJob DEF ShowStarted, Goto, At
<1>5. ASSUME NEW c \in BarClicks, Click(c) \/ ClickStarts(c) \/ ClickStops(c)
      PROVE  RecorderInv'
  <2>1. c \in Threads
    BY DEF Threads
  <2>2. CASE ClickStops(c)
    BY <1>1, <2>1, <2>2, RecorderOps DEF ClickStops, At
  <2>3. /\ [at |-> "stop", of |-> None] \in Jobs /\ [at |-> "start?", of |-> None] \in Jobs
        /\ [at |-> "start", of |-> capSize] \in Jobs
    BY <1>1 DEF Jobs
  <2>4. CASE ClickStarts(c)
    BY <1>1, <2>1, <2>3, <2>4, MoveJob DEF ClickStarts, Goto, At
  <2>5. CASE Click(c) /\ recOn
    BY <1>1, <2>1, <2>3, <2>5, MoveJob DEF Click, Goto, At
  <2>6. CASE Click(c) /\ ~recOn
    BY <1>1, <2>1, <2>3, <2>6, MoveJob DEF Click, Goto, At
  <2> QED
    BY <1>5, <2>2, <2>4, <2>5, <2>6
<1>6. ASSUME NEW t \in BarClicks \cup {Reader}, RecordStep(t)
      PROVE  RecorderInv'
  <2>1. t \in Threads /\ doing[t] \in Jobs
    BY DEF Threads, RecorderInv, JobInv
  <2>2. CASE CloseRecorder(t)
    BY <1>1, <2>1, <2>2, RecorderOps
  <2>3. CASE At(t, "taken") /\ Goto(t, "idle", None) /\ UNCHANGED <<recCur, recorder>>
    <3>1. [at |-> "idle", of |-> None] \in Jobs
      BY DEF Jobs
    <3> QED
      BY <1>1, <2>1, <2>3, <3>1, MoveJob DEF Goto, At
  <2>4. CASE At(t, "start") /\ StartRecording(t, doing[t].of, IF t = Reader THEN "started" ELSE "idle")
    <3>1. doing[t].of \in Sizes \cup {None}
      BY <2>1, <2>4 DEF RecorderInv, JobInv
    <3> QED
      BY <1>1, <2>1, <2>4, <3>1, RecorderOps DEF At
  <2> QED
    BY <1>6, <2>2, <2>3, <2>4 DEF RecordStep
<1> QED
  BY <1>2, <1>3, <1>4, <1>5, <1>6 DEF UserStep

LEMMA LoopPreserves == RecorderInv /\ LoopStep => RecorderInv'
<1> SUFFICES ASSUME RecorderInv, LoopStep PROVE RecorderInv'
  OBVIOUS
<1>1. LoopType' /\ Loop \in Threads
  <2>1. LoopType /\ Loop \in Threads
    BY DEF RecorderInv, JobInv, Threads
  <2>2. ASSUME NEW p \in LoopSteps, LoopTo(p), UNCHANGED <<wantKey, capSize>> PROVE LoopType'
    BY <2>1, <2>2 DEF LoopTo, LoopType
  <2>3. CASE UNCHANGED <<loop, capSize>> /\ wantKey' \in BOOLEAN
    BY <2>1, <2>3 DEF LoopType
  <2>4. CASE Capture
    <3>1. PICK s \in Sizes, p \in {"encode", "resized"} :
            loop' = [loop EXCEPT !.at = p, !.size = s] /\ capSize' = s /\ UNCHANGED wantKey
      BY <2>4 DEF Capture
    <3> QED
      BY <2>1, <3>1 DEF LoopSteps, LoopType
  <2>5. CASE Rekey \/ TakeRequest
    BY <2>1, <2>5 DEF Rekey, TakeRequest, LoopTo, LoopSteps, LoopType
  <2> QED
    BY <2>1, <2>2, <2>3, <2>4, <2>5
       DEF LoopStep, TickIdle, RestartRecording, Record, StopFailed, EncodeFails, Encode, LoopSteps, LoopType
<1>2. CASE UNCHANGED recVars
  BY <1>1, <1>2 DEF recVars, RecorderInv, JobInv, RecordersAccounted, At
<1>3. CASE RestartRecording
  <2>1. CASE At(Loop, "idle") /\ TakeRecorder(Loop)
    BY <1>1, <2>1, RecorderOps DEF At
  <2>2. CASE CloseRecorder(Loop)
    BY <1>1, <2>2, RecorderOps
  <2>3. CASE At(Loop, "taken") /\ StartRecording(Loop, loop.size, "idle")
    <3>1. loop.size \in Sizes \cup {None}
      BY DEF RecorderInv, JobInv, LoopType
    <3> QED
      BY <1>1, <2>3, <3>1, RecorderOps DEF At
  <2> QED
    BY <1>2, <1>3, <2>1, <2>2, <2>3 DEF RestartRecording
<1>4. CASE StopFailed
  <2>1. CASE At(Loop, "idle") /\ TakeRecorder(Loop)
    BY <1>1, <2>1, RecorderOps DEF At
  <2>2. CASE CloseRecorder(Loop)
    BY <1>1, <2>2, RecorderOps
  <2>3. CASE At(Loop, "taken") /\ Goto(Loop, "idle", None) /\ UNCHANGED <<recCur, recorder>>
    <3>1. [at |-> "idle", of |-> None] \in Jobs
      BY DEF Jobs
    <3> QED
      BY <1>1, <2>3, <3>1, MoveJob DEF Goto, At
  <2> QED
    BY <1>4, <2>1, <2>2, <2>3 DEF StopFailed
<1> QED
  BY <1>2, <1>3, <1>4 DEF LoopStep, TickIdle, Capture, Rekey, TakeRequest, Record

LEMMA RecorderPreserves == RecorderInv /\ [CaptureNext]_captureVars => RecorderInv'
<1> SUFFICES ASSUME RecorderInv, [CaptureNext]_captureVars PROVE RecorderInv'
  OBVIOUS
<1>1. CASE KeyframeReq \/ SessionState \/ UNCHANGED captureVars
  <2>1. UNCHANGED <<recVars, loop, capSize>> /\ (wantKey' = TRUE \/ UNCHANGED wantKey)
    BY <1>1 DEF KeyframeReq, SessionState, captureVars
  <2>2. LoopType'
    BY <2>1 DEF RecorderInv, JobInv, LoopType
  <2> QED
    BY <2>1, <2>2 DEF recVars, RecorderInv, JobInv, RecordersAccounted, At
<1> QED
  BY <1>1, UserPreserves, LoopPreserves DEF CaptureNext

LEMMA RecorderInvariant == CaptureSpec => []RecorderInv
BY CaptureStarts, RecorderPreserves, PTL DEF CaptureSpec

\* Whatever clicks, commands, resizes and write errors meet, a recording that is open is the
\* current one or in the hands of one thread, so it is closed and delivered once
\* (hostrecord.go).
THEOREM RecordingsDeliveredOnce == CaptureSpec => []RecordersAccounted
<1>1. RecorderInv => RecordersAccounted
  BY DEF RecorderInv
<1> QED
  BY <1>1, RecorderInvariant, PTL

\* What the loop and the bar keep beside the recorders.
CaptureTyped == CaptureTypeOK /\ RecorderInv

LEMMA CaptureTypesStart == CaptureInit => CaptureTyped
<1> SUFFICES ASSUME CaptureInit PROVE CaptureTyped
  OBVIOUS
<1>1. RecorderInv
  BY CaptureStarts
<1>2. viewers \in {"unknown", "none", "some"} /\ encSize \in Sizes /\ recOn \in BOOLEAN
  BY DEF CaptureInit
<1> QED BY <1>1, <1>2 DEF CaptureTyped, CaptureTypeOK, RecorderInv, JobInv, LoopType, LoopSteps, Jobs

LEMMA CaptureTypesKept == CaptureTyped /\ [CaptureNext]_captureVars => CaptureTyped'
<1> SUFFICES ASSUME CaptureTyped, [CaptureNext]_captureVars PROVE CaptureTyped'
  OBVIOUS
<1>1. RecorderInv'
  BY RecorderPreserves DEF CaptureTyped
<1>2. viewers \in {"unknown", "none", "some"} /\ encSize \in Sizes /\ recOn \in BOOLEAN
  BY DEF CaptureTyped, CaptureTypeOK
<1>3. viewers' \in {"unknown", "none", "some"} /\ encSize' \in Sizes
  BY <1>2 DEF CaptureNext, UserStep, KeyframeReq, SessionState, LoopStep, TickIdle, Capture,
              RestartRecording, Rekey, TakeRequest, Record, StopFailed, captureVars
<1>4. recOn' \in BOOLEAN
  BY <1>2 DEF CaptureNext, UserStep, ViewerStarts, ViewerStops, ShowStarted, Click, ClickStarts,
              ClickStops, RecordStep, KeyframeReq, SessionState, LoopStep, TickIdle, Capture,
              RestartRecording, Rekey, TakeRequest, Record, StopFailed, captureVars, recVars
<1> QED BY <1>1, <1>3, <1>4
           DEF CaptureTyped, CaptureTypeOK, RecorderInv, JobInv, LoopType, LoopSteps, Jobs

-----------------------------------------------------------------------------
(***************************************************************************)
(* The rectangles of a changed screen (DirtyRects).                        *)
(***************************************************************************)

\* The blocks that still wait in the search's queue.
Waiting == {queue[i] : i \in DOMAIN queue}

\* No changed block outside S touches a block of S.
Sealed(S) == \A a \in S, b \in dirty \ S : ~Adjacent(a, b)

RectTypes ==
  /\ dirty \subseteq Grid /\ visited \subseteq dirty /\ scan \in 0 .. GridW * GridH
  /\ queue \in Seq(visited)
  /\ bounds \in [minX : Nat, maxX : Nat, minY : Nat, maxY : Nat]

\* What the scan has passed is visited, and it does not end during a search.
PassedInv ==
  /\ \A i \in 0 .. scan - 1 : Block(i) \in dirty => Block(i) \in visited
  /\ queue # << >> => scan # GridW * GridH

\* What the search under way has reached: one linked set, whose blocks that are no longer in
\* the queue have all their changed neighbours in it.
ReachedBy(C) ==
  /\ C \subseteq visited /\ Waiting \subseteq C
  /\ queue = << >> <=> C = {}
  /\ Linked(C)
  /\ \A a \in C \ Waiting, b \in dirty \ C : ~Adjacent(a, b)

\* The bounds are those of blocks the search has reached, and hold all it has taken out.
BoundOn(C) == C # {} =>
  /\ \E a \in C : bounds.minX = a[1]
  /\ \E a \in C : bounds.maxX = a[1]
  /\ \E a \in C : bounds.minY = a[2]
  /\ \E a \in C : bounds.maxY = a[2]
  /\ \A a \in C \ Waiting : /\ bounds.minX <= a[1] /\ a[1] <= bounds.maxX
                            /\ bounds.minY <= a[2] /\ a[2] <= bounds.maxY

BoxesOf(V) == {Pixels(BoxOf(S)) : S \in {P \in Parts : P \subseteq V}}

\* What is visited is what the search under way has reached and what earlier ones have.
SearchInv == \E C, V \in SUBSET visited :
  /\ C \cup V = visited /\ C \cap V = {}
  /\ ReachedBy(C) /\ BoundOn(C)
  /\ Sealed(V) /\ rects = BoxesOf(V)

InFrame(r) == r.x + r.w <= Width /\ r.y + r.h <= Height /\ r.w > 0 /\ r.h > 0
FrameInv == \A r \in rects : InFrame(r)

RectsInv == RectTypes /\ PassedInv /\ SearchInv /\ FrameInv

LEMMA Division == \A a \in Nat : \A b \in Nat \ {0} :
  /\ a \div b \in Nat /\ a % b \in 0 .. b - 1
  /\ (a \div b) * b <= a /\ a < (a \div b) * b + b
  OBVIOUS

LEMMA RowAndColumn == \A n \in Nat \ {0} : \A x \in 0 .. n - 1 : \A y \in Nat :
  (y * n + x) % n = x /\ (y * n + x) \div n = y
  OBVIOUS

LEMMA Products == \A a, b, c \in Nat :
  /\ a * b \in Nat
  /\ a <= b => a * c <= b * c
  /\ (a > 0 /\ c > 0) => a * c > 0
<1> SUFFICES ASSUME NEW a \in Nat, NEW b \in Nat, NEW c \in Nat
             PROVE  /\ a * b \in Nat
                    /\ a <= b => a * c <= b * c
                    /\ (a > 0 /\ c > 0) => a * c > 0
  OBVIOUS
<1>1. \A m, n \in Nat : m * n \in Nat
  OBVIOUS
<1>2. ASSUME a <= b PROVE a * c <= b * c
  <2>1. PICK d \in Nat : b = a + d
    BY <1>2, b - a \in Nat
  <2>2. b * c = a * c + d * c
    BY <2>1
  <2> QED BY <1>1, <2>2
<1>3. ASSUME a > 0, c > 0 PROVE a * c > 0
  BY <1>3
<1> QED BY <1>1, <1>2, <1>3

\* A frame of size is covered by a positive number of blocks, and the last one starts in it.
LEMMA Blocks ==
  ASSUME NEW size \in Nat \ {0}, NEW n, n = (size + BlockSize - 1) \div BlockSize
  PROVE  /\ n \in Nat \ {0}
         /\ \A m \in 0 .. n - 1 : m * BlockSize \in Nat /\ m * BlockSize < size
<1> DEFINE a == size + BlockSize - 1
<1>1. BlockSize \in Nat \ {0} /\ a \in Nat
  BY RectsAssumption
<1>2. n \in Nat /\ n * BlockSize <= a /\ a < n * BlockSize + BlockSize
  BY <1>1, Division
<1>3. n # 0
  BY <1>1, <1>2
<1>4. ASSUME NEW m \in 0 .. n - 1
      PROVE  m * BlockSize \in Nat /\ m * BlockSize < size
  <2>1. (m + 1) * BlockSize <= n * BlockSize
    BY <1>1, <1>2, Products, m + 1 \in Nat, m + 1 <= n
  <2>2. (m + 1) * BlockSize = m * BlockSize + BlockSize /\ m * BlockSize \in Nat
    BY <1>1
  <2> QED BY <1>1, <1>2, <2>1, <2>2
<1> QED BY <1>2, <1>3, <1>4

LEMMA GridSize ==
  /\ GridW \in Nat \ {0} /\ GridH \in Nat \ {0}
  /\ \A m \in 0 .. GridW - 1 : m * BlockSize \in Nat /\ m * BlockSize < Width
  /\ \A m \in 0 .. GridH - 1 : m * BlockSize \in Nat /\ m * BlockSize < Height
  BY RectsAssumption, Blocks DEF GridW, GridH

\* The scan comes by every block of the grid.
LEMMA ScanIsWhole == \A b \in Grid : \E i \in 0 .. GridW * GridH - 1 : b = Block(i)
<1> SUFFICES ASSUME NEW x \in 0 .. GridW - 1, NEW y \in 0 .. GridH - 1
             PROVE  \E i \in 0 .. GridW * GridH - 1 : <<x, y>> = Block(i)
  BY DEF Grid
<1> DEFINE i == y * GridW + x
<1>1. GridW \in Nat \ {0} /\ GridH \in Nat \ {0}
  BY GridSize
<1> HIDE DEF GridW, GridH
<1>2. (y + 1) * GridW <= GridH * GridW
  BY <1>1, Products, y + 1 \in Nat, y + 1 <= GridH
<1>3. i \in 0 .. GridW * GridH - 1
  <2>1. (y + 1) * GridW = y * GridW + GridW /\ GridH * GridW = GridW * GridH
    BY <1>1
  <2>2. y * GridW \in Nat
    BY <1>1
  <2> QED BY <1>1, <1>2, <2>1, <2>2
<1>4. Block(i) = <<x, y>>
  BY <1>1, RowAndColumn DEF Block
<1> QED BY <1>3, <1>4

\* What lies within the grid is, in pixels, within the frame.
LEMMA PixelsInFrame ==
  ASSUME NEW r \in [minX : Nat, maxX : Nat, minY : Nat, maxY : Nat],
         r.minX <= r.maxX, r.maxX < GridW, r.minY <= r.maxY, r.maxY < GridH
  PROVE  InFrame(Pixels(r))
<1>1. GridW \in Nat \ {0} /\ GridH \in Nat \ {0}
  BY GridSize
<1>2. ASSUME NEW p \in Nat, NEW k \in Nat, NEW size \in Nat, p < size, k > 0
      PROVE  /\ Least(p, size) = p
             /\ p + Least(k, size - p) <= size
             /\ Least(k, size - p) > 0
  BY <1>2 DEF Least
<1>3. BlockSize \in Nat \ {0} /\ Width \in Nat /\ Height \in Nat
  BY RectsAssumption
<1>4. /\ r.minX * BlockSize \in Nat /\ r.minX * BlockSize < Width
      /\ r.minY * BlockSize \in Nat /\ r.minY * BlockSize < Height
  <2>1. r.minX \in 0 .. GridW - 1 /\ r.minY \in 0 .. GridH - 1
    BY <1>1
  <2> QED BY <2>1, GridSize
<1>5. /\ (r.maxX - r.minX + 1) * BlockSize \in Nat /\ (r.maxX - r.minX + 1) * BlockSize > 0
      /\ (r.maxY - r.minY + 1) * BlockSize \in Nat /\ (r.maxY - r.minY + 1) * BlockSize > 0
  <2>1. r.maxX - r.minX + 1 \in Nat /\ r.maxX - r.minX + 1 > 0
    OBVIOUS
  <2>2. r.maxY - r.minY + 1 \in Nat /\ r.maxY - r.minY + 1 > 0
    OBVIOUS
  <2> QED BY <1>3, <2>1, <2>2, Products
<1>6. /\ Pixels(r).x = r.minX * BlockSize
      /\ Pixels(r).w = Least((r.maxX - r.minX + 1) * BlockSize, Width - r.minX * BlockSize)
  BY <1>2, <1>3, <1>4, <1>5 DEF Pixels
<1>7. /\ Pixels(r).y = r.minY * BlockSize
      /\ Pixels(r).h = Least((r.maxY - r.minY + 1) * BlockSize, Height - r.minY * BlockSize)
  BY <1>2, <1>3, <1>4, <1>5 DEF Pixels
<1>8. Pixels(r).x + Pixels(r).w <= Width /\ Pixels(r).w > 0
  BY <1>2, <1>3, <1>4, <1>5, <1>6
<1>9. Pixels(r).y + Pixels(r).h <= Height /\ Pixels(r).h > 0
  BY <1>2, <1>3, <1>4, <1>5, <1>7
<1> QED BY <1>8, <1>9 DEF InFrame

LEMMA AdjacentIsMutual == ASSUME NEW a, NEW b PROVE Adjacent(a, b) <=> Adjacent(b, a)
  BY DEF Adjacent

LEMMA OneIsLinked == ASSUME NEW b PROVE Linked({b})
  BY DEF Linked

\* What a search adds touches the block it looked at: the set it has reached stays linked.
LEMMA LinkedGrows ==
  ASSUME NEW S, Linked(S), NEW b \in S, NEW N, \A n \in N : Adjacent(n, b)
  PROVE  Linked(S \cup N)
<1> SUFFICES ASSUME NEW T \in SUBSET (S \cup N), T # {}, T # S \cup N
             PROVE  \E x \in T, y \in (S \cup N) \ T : Adjacent(x, y)
  BY DEF Linked
<1>1. CASE S \subseteq T
  <2>1. PICK n \in (S \cup N) \ T : n \in N
    BY <1>1
  <2>2. b \in T /\ Adjacent(b, n)
    BY <1>1, <2>1, AdjacentIsMutual
  <2> QED BY <2>1, <2>2
<1>2. CASE T \cap S = {}
  <2>1. PICK n \in T : n \in N
    BY <1>2
  <2>2. b \in (S \cup N) \ T /\ Adjacent(n, b)
    BY <1>2, <2>1
  <2> QED BY <2>1, <2>2
<1>3. CASE ~ S \subseteq T /\ T \cap S # {}
  <2>1. T \cap S \in SUBSET S /\ T \cap S # {} /\ T \cap S # S
    BY <1>3
  <2>2. PICK x \in T \cap S, y \in S \ (T \cap S) : Adjacent(x, y)
    BY <2>1 DEF Linked
  <2> QED BY <2>2
<1> QED BY <1>1, <1>2, <1>3

\* Two of the connected parts are one, or have no block in common.
LEMMA PartsApart ==
  ASSUME NEW P \in Parts, NEW Q \in Parts, NEW b \in P \cap Q
  PROVE  P = Q
<1>1. ASSUME NEW A \in Parts, NEW B \in Parts, b \in A, b \in B
      PROVE  A \subseteq B
  <2> SUFFICES ASSUME ~ A \subseteq B PROVE FALSE
    OBVIOUS
  <2>1. A \cap B \in SUBSET A /\ A \cap B # {} /\ A \cap B # A
    BY <1>1
  <2>2. Linked(A) /\ A \subseteq dirty
    BY <1>1 DEF Parts
  <2>3. PICK x \in A \cap B, y \in A \ (A \cap B) : Adjacent(x, y)
    BY <2>1, <2>2 DEF Linked
  <2>4. x \in B /\ y \in dirty \ B
    BY <2>2, <2>3
  <2> QED BY <1>1, <2>3, <2>4 DEF Parts
<1> QED BY <1>1

\* The bounds of a set are found once each of them is reached and none is passed.
LEMMA BoxFound ==
  ASSUME NEW S \in SUBSET Grid, NEW r \in [minX : Nat, maxX : Nat, minY : Nat, maxY : Nat],
         \E a \in S : r.minX = a[1], \E a \in S : r.maxX = a[1],
         \E a \in S : r.minY = a[2], \E a \in S : r.maxY = a[2],
         \A a \in S : /\ r.minX <= a[1] /\ a[1] <= r.maxX
                      /\ r.minY <= a[2] /\ a[2] <= r.maxY
  PROVE  BoxOf(S) = r
<1> DEFINE xs == {b[1] : b \in S}
           ys == {b[2] : b \in S}
<1>1. xs \subseteq Nat /\ ys \subseteq Nat
  <2>1. \A b \in Grid : b[1] \in Nat /\ b[2] \in Nat
    BY GridSize DEF Grid
  <2> QED BY <2>1
<1>2. ASSUME NEW N \in SUBSET Nat, NEW n \in N, \A m \in N : n <= m
      PROVE  n = CHOOSE k \in N : \A m \in N : k <= m
  <2>1. \A k \in N : (\A m \in N : k <= m) => k = n
    BY <1>2
  <2> QED BY <1>2, <2>1
<1>3. ASSUME NEW N \in SUBSET Nat, NEW n \in N, \A m \in N : n >= m
      PROVE  n = CHOOSE k \in N : \A m \in N : k >= m
  <2>1. \A k \in N : (\A m \in N : k >= m) => k = n
    BY <1>3
  <2> QED BY <1>3, <2>1
<1>4. r.minX \in xs /\ \A m \in xs : r.minX <= m
  OBVIOUS
<1>5. r.maxX \in xs /\ \A m \in xs : r.maxX >= m
  BY <1>1
<1>6. r.minY \in ys /\ \A m \in ys : r.minY <= m
  OBVIOUS
<1>7. r.maxY \in ys /\ \A m \in ys : r.maxY >= m
  BY <1>1
<1> HIDE DEF xs, ys
<1>8. r.minX = (CHOOSE n \in xs : \A m \in xs : n <= m)
  BY <1>1, <1>2, <1>4
<1>9. r.maxX = (CHOOSE n \in xs : \A m \in xs : n >= m)
  BY <1>1, <1>3, <1>5
<1>10. r.minY = (CHOOSE n \in ys : \A m \in ys : n <= m)
  BY <1>1, <1>2, <1>6
<1>11. r.maxY = (CHOOSE n \in ys : \A m \in ys : n >= m)
  BY <1>1, <1>3, <1>7
<1>12. r = [minX |-> r.minX, maxX |-> r.maxX, minY |-> r.minY, maxY |-> r.maxY]
  OBVIOUS
<1> QED BY <1>8, <1>9, <1>10, <1>11, <1>12 DEF BoxOf, xs, ys

\* The neighbours a search appends, in whatever order, are the elements of a sequence.
LEMMA ListedOnce ==
  ASSUME NEW S, IsFiniteSet(S)
  PROVE  /\ SetToSeq(S) \in Seq(S)
         /\ {SetToSeq(S)[i] : i \in DOMAIN SetToSeq(S)} = S
<1> DEFINE n == Cardinality(S)
           f == SetToSeq(S)
<1>1. n \in Nat
  BY FS_CardinalityType
<1>2. PICK g : g \in Bijection(1 .. n, S)
  BY FS_CardinalityType DEF ExistsBijection
<1>3. g \in [1 .. n -> S] /\ IsInjective(g)
  BY <1>2 DEF Bijection, Injection
<1>4. f \in [1 .. n -> S] /\ IsInjective(f)
  BY <1>3 DEF SetToSeq
<1> HIDE DEF f
<1>5. f \in Seq(S)
  BY <1>1, <1>4
<1>6. {f[i] : i \in DOMAIN f} = S
  <2>1. IsFiniteSet(1 .. n) /\ Cardinality(1 .. n) = n
    BY <1>1, FS_Interval
  <2>2. f \in Injection(1 .. n, S)
    BY <1>4 DEF Injection
  <2>3. f \in Surjection(1 .. n, S)
    BY <2>1, <2>2, FS_Injection
  <2> QED BY <1>4, <2>3 DEF Surjection
<1> QED BY <1>5, <1>6 DEF f

LEMMA RectsStart == RectsInit => RectsInv
<1> SUFFICES ASSUME RectsInit PROVE RectsInv
  OBVIOUS
<1> USE DEF RectsInit
<1>1. RectTypes
  <2>1. bounds = [minX |-> 0, maxX |-> 0, minY |-> 0, maxY |-> 0]
    BY DEF BoundsOf
  <2>2. GridW * GridH \in Nat
    BY GridSize, Products
  <2> QED BY <2>1, <2>2 DEF RectTypes
<1>2. PassedInv
  BY DEF PassedInv
<1>3. SearchInv
  <2>1. Waiting = {}
    BY DEF Waiting
  <2>2. ReachedBy({}) /\ BoundOn({}) /\ Sealed({})
    BY <2>1 DEF ReachedBy, BoundOn, Sealed, Linked
  <2>3. BoxesOf({}) = {}
    BY DEF BoxesOf, Parts
  <2> QED BY <2>2, <2>3 DEF SearchInv
<1>4. FrameInv
  BY DEF FrameInv
<1> QED BY <1>1, <1>2, <1>3, <1>4 DEF RectsInv

LEMMA PassPreserves == RectsInv /\ Pass => RectsInv'
<1> SUFFICES ASSUME RectsInv, Pass PROVE RectsInv'
  OBVIOUS
<1> USE DEF Pass
<1>1. GridW * GridH \in Nat
  BY GridSize, Products
<1>2. RectTypes'
  BY <1>1 DEF RectsInv, RectTypes, Scanned
<1>3. PassedInv'
  <2>1. scan \in Nat
    BY <1>1 DEF RectsInv, RectTypes
  <2>2. ASSUME NEW i \in 0 .. scan, Block(i) \in dirty PROVE Block(i) \in visited
    BY <2>1, <2>2 DEF RectsInv, PassedInv
  <2> QED BY <2>1, <2>2 DEF PassedInv
<1>4. SearchInv'
  <2>1. PICK C, V \in SUBSET visited :
          /\ C \cup V = visited /\ C \cap V = {} /\ ReachedBy(C) /\ BoundOn(C)
          /\ Sealed(V) /\ rects = BoxesOf(V)
    BY DEF RectsInv, SearchInv
  <2>2. ReachedBy(C)' /\ BoundOn(C)'
    BY <2>1 DEF ReachedBy, BoundOn, Waiting
  <2>3. Sealed(V)' /\ BoxesOf(V)' = BoxesOf(V)
    BY <2>1 DEF Sealed, BoxesOf, Parts
  <2> QED BY <2>1, <2>2, <2>3 DEF SearchInv
<1>5. FrameInv'
  BY DEF RectsInv, FrameInv
<1> QED BY <1>2, <1>3, <1>4, <1>5 DEF RectsInv

LEMMA BeginPreserves == RectsInv /\ Begin => RectsInv'
<1> SUFFICES ASSUME RectsInv, Begin PROVE RectsInv'
  OBVIOUS
<1>1. PICK b : b = Block(scan)
  OBVIOUS
<1>2. /\ queue = << >> /\ ~Scanned /\ b \in dirty \ visited /\ queue' = <<b>>
      /\ visited' = visited \cup {b} /\ bounds' = BoundsOf(b)
      /\ UNCHANGED <<dirty, scan, rects>>
  BY <1>1 DEF Begin
<1>3. RectTypes'
  <2>1. b[1] \in Nat /\ b[2] \in Nat
    BY <1>2, GridSize DEF RectsInv, RectTypes, Grid
  <2>2. bounds' \in [minX : Nat, maxX : Nat, minY : Nat, maxY : Nat]
    BY <1>2, <2>1 DEF BoundsOf
  <2> QED BY <1>2, <2>2 DEF RectsInv, RectTypes
<1>4. PassedInv'
  BY <1>2 DEF RectsInv, PassedInv, Scanned
<1>5. SearchInv'
  <2>1. PICK C, V \in SUBSET visited :
          /\ C \cup V = visited /\ ReachedBy(C) /\ Sealed(V) /\ rects = BoxesOf(V)
    BY DEF RectsInv, SearchInv
  <2>2. C = {} /\ V = visited
    BY <1>2, <2>1 DEF ReachedBy
  <2>3. PICK B : B = {b}
    OBVIOUS
  <2>4. B \cup V = visited' /\ B \cap V = {} /\ B \in SUBSET visited' /\ V \in SUBSET visited'
    BY <1>2, <2>2, <2>3
  <2>5. Waiting' = B
    BY <1>2, <2>3 DEF Waiting
  <2>6. ReachedBy(B)'
    <3>1. Linked(B)
      BY <2>3, OneIsLinked
    <3> QED BY <1>2, <2>3, <2>4, <2>5, <3>1 DEF ReachedBy
  <2>7. BoundOn(B)'
    BY <1>2, <2>3, <2>5 DEF BoundOn, BoundsOf
  <2>8. Sealed(V)' /\ BoxesOf(V)' = BoxesOf(V)
    BY <1>2, <2>1 DEF Sealed, BoxesOf, Parts
  <2> QED BY <1>2, <2>1, <2>4, <2>6, <2>7, <2>8 DEF SearchInv
<1>6. FrameInv'
  BY <1>2 DEF RectsInv, FrameInv
<1> QED BY <1>3, <1>4, <1>5, <1>6 DEF RectsInv

\* One round, whose queue then holds what waited behind the block and what touches it.
LEMMA SearchPreserves == RectsInv /\ Search => RectsInv'
<1> SUFFICES ASSUME RectsInv, Search PROVE RectsInv'
  OBVIOUS
<1>1. PICK b, next, more :
        /\ b = Head(queue) /\ next = {n \in dirty \ visited : Adjacent(n, b)}
        /\ more = SetToSeq(next)
  OBVIOUS
<1>2. /\ queue # << >> /\ bounds' = Expanded(bounds, b)
      /\ visited' = visited \cup next /\ queue' = Tail(queue) \o more
      /\ rects' = IF queue' = << >> THEN rects \cup {Pixels(bounds')} ELSE rects
      /\ dirty' = dirty /\ scan' = scan
  BY <1>1 DEF Search
<1>3. PICK C, V \in SUBSET visited :
        /\ C \cup V = visited /\ C \cap V = {} /\ ReachedBy(C) /\ BoundOn(C)
        /\ Sealed(V) /\ rects = BoxesOf(V)
  BY DEF RectsInv, SearchInv
<1>4. /\ dirty \subseteq Grid /\ visited \subseteq dirty /\ queue \in Seq(visited)
      /\ bounds \in [minX : Nat, maxX : Nat, minY : Nat, maxY : Nat]
  BY DEF RectsInv, RectTypes
<1>5. \A a \in Grid : /\ a[1] \in Nat /\ a[2] \in Nat
                      /\ a[1] < GridW /\ a[2] < GridH
  BY GridSize DEF Grid
<1>6. more \in Seq(next) /\ {more[i] : i \in DOMAIN more} = next
  <2>1. IsFiniteSet(Grid)
    <3>1. IsFiniteSet(0 .. GridW - 1) /\ IsFiniteSet(0 .. GridH - 1)
      BY GridSize, FS_Interval
    <3> QED BY <3>1, FS_Product DEF Grid
  <2>2. next \in SUBSET Grid
    BY <1>1, <1>4
  <2>3. IsFiniteSet(next)
    BY <2>1, <2>2, FS_Subset
  <2>4. /\ SetToSeq(next) \in Seq(next)
        /\ {SetToSeq(next)[i] : i \in DOMAIN SetToSeq(next)} = next
    BY <2>3, ListedOnce
  <2> QED BY <1>1, <2>4
<1>7. /\ b \in visited /\ b \in Waiting /\ Tail(queue) \in Seq(visited)
      /\ Waiting \subseteq {b} \cup {Tail(queue)[i] : i \in DOMAIN Tail(queue)}
      /\ {Tail(queue)[i] : i \in DOMAIN Tail(queue)} \subseteq Waiting
  <2>1. queue \in Seq(visited) /\ queue # << >>
    BY <1>2, <1>4
  <2>2. Len(queue) \in Nat \ {0} /\ DOMAIN queue = 1 .. Len(queue) /\ b = queue[1]
    BY <1>1, <2>1
  <2>3. /\ Tail(queue) \in Seq(visited) /\ DOMAIN Tail(queue) = 1 .. Len(queue) - 1
        /\ \A i \in 1 .. Len(queue) - 1 : Tail(queue)[i] = queue[i + 1]
    BY <2>1, <2>2
  <2>4. b \in visited /\ b \in Waiting
    BY <2>1, <2>2 DEF Waiting
  <2>5. ASSUME NEW i \in DOMAIN queue, queue[i] # b
        PROVE  \E j \in DOMAIN Tail(queue) : Tail(queue)[j] = queue[i]
    <3>1. i - 1 \in 1 .. Len(queue) - 1 /\ (i - 1) + 1 = i
      BY <2>2, <2>5
    <3> QED BY <2>3, <3>1
  <2>6. ASSUME NEW j \in DOMAIN Tail(queue)
        PROVE  \E i \in DOMAIN queue : queue[i] = Tail(queue)[j]
    <3>1. j + 1 \in DOMAIN queue
      BY <2>2, <2>3
    <3> QED BY <2>3, <3>1
  <2> QED BY <2>3, <2>4, <2>5, <2>6 DEF Waiting
<1>8. /\ queue' \in Seq(visited')
      /\ Waiting' = {Tail(queue)[i] : i \in DOMAIN Tail(queue)} \cup next
      /\ queue' = << >> <=> Waiting' = {}
  <2>1. PICK left : left = Tail(queue)
    OBVIOUS
  <2>2. left \in Seq(visited') /\ more \in Seq(visited')
    BY <1>2, <1>6, <1>7, <2>1
  <2>3. /\ left \o more \in Seq(visited')
        /\ DOMAIN (left \o more) = 1 .. Len(left) + Len(more)
        /\ DOMAIN left = 1 .. Len(left) /\ DOMAIN more = 1 .. Len(more)
        /\ Len(left) \in Nat /\ Len(more) \in Nat
    BY <2>2
  <2>4. /\ \A i \in 1 .. Len(left) : (left \o more)[i] = left[i]
        /\ \A i \in 1 .. Len(more) : (left \o more)[Len(left) + i] = more[i]
    BY <2>2
  <2>5. {(left \o more)[i] : i \in DOMAIN (left \o more)}
          = {left[i] : i \in DOMAIN left} \cup {more[i] : i \in DOMAIN more}
    <3>1. ASSUME NEW i \in DOMAIN (left \o more)
          PROVE  \/ \E j \in DOMAIN left : left[j] = (left \o more)[i]
                 \/ \E j \in DOMAIN more : more[j] = (left \o more)[i]
      <4>1. CASE i \in 1 .. Len(left)
        BY <2>3, <2>4, <4>1
      <4>2. CASE i \notin 1 .. Len(left)
        <5>1. i - Len(left) \in 1 .. Len(more) /\ Len(left) + (i - Len(left)) = i
          BY <2>3, <4>2
        <5> QED BY <2>3, <2>4, <5>1
      <4> QED BY <4>1, <4>2
    <3>2. ASSUME NEW i \in DOMAIN left
          PROVE  \E j \in DOMAIN (left \o more) : (left \o more)[j] = left[i]
      BY <2>3, <2>4
    <3>3. ASSUME NEW i \in DOMAIN more
          PROVE  \E j \in DOMAIN (left \o more) : (left \o more)[j] = more[i]
      <4>1. Len(left) + i \in DOMAIN (left \o more)
        BY <2>3
      <4> QED BY <2>3, <2>4, <4>1
    <3> QED BY <3>1, <3>2, <3>3
  <2>6. Waiting' = {left[i] : i \in DOMAIN left} \cup next
    BY <1>2, <1>6, <2>1, <2>5 DEF Waiting
  <2>7. queue' = << >> => Waiting' = {}
    BY DEF Waiting
  <2>8. ASSUME queue' # << >> PROVE Waiting' # {}
    <3>1. 1 \in DOMAIN queue'
      BY <1>2, <2>1, <2>3, <2>8
    <3> QED BY <3>1 DEF Waiting
  <2> QED BY <1>2, <2>1, <2>3, <2>6, <2>7, <2>8
<1>9. PICK D : D = C \cup next
  OBVIOUS
<1>10. b \in C /\ Waiting \subseteq C /\ Linked(C) /\ C # {}
       /\ \A a \in C \ Waiting, n \in dirty \ C : ~Adjacent(a, n)
  BY <1>2, <1>3, <1>7 DEF ReachedBy
<1>11. /\ D \in SUBSET visited' /\ V \in SUBSET visited' /\ D \cup V = visited' /\ D \cap V = {}
       /\ Waiting' \subseteq D /\ D # {}
       /\ D \ Waiting' \subseteq (C \ Waiting) \cup {b}
  BY <1>1, <1>2, <1>3, <1>7, <1>8, <1>9, <1>10
<1>12. Linked(D)
  BY <1>1, <1>9, <1>10, LinkedGrows
<1>13. \A a \in D \ Waiting', n \in dirty \ D : ~Adjacent(a, n)
  <2> SUFFICES ASSUME NEW a \in D \ Waiting', NEW n \in dirty \ D, Adjacent(a, n) PROVE FALSE
    OBVIOUS
  <2>1. a = b
    BY <1>9, <1>10, <1>11
  <2>2. Adjacent(n, b)
    BY <2>1, AdjacentIsMutual
  <2>3. n \in V
    BY <1>1, <1>3, <1>9, <2>2
  <2>4. b \in dirty \ V
    BY <1>3, <1>4, <1>10
  <2> QED BY <1>4, <2>2, <2>3, <2>4, <1>3 DEF Sealed
<1>14. PICK r : r = bounds'
  OBVIOUS
<1>15. /\ r \in [minX : Nat, maxX : Nat, minY : Nat, maxY : Nat]
       /\ (r.minX = bounds.minX \/ r.minX = b[1]) /\ r.minX <= bounds.minX /\ r.minX <= b[1]
       /\ (r.maxX = bounds.maxX \/ r.maxX = b[1]) /\ bounds.maxX <= r.maxX /\ b[1] <= r.maxX
       /\ (r.minY = bounds.minY \/ r.minY = b[2]) /\ r.minY <= bounds.minY /\ r.minY <= b[2]
       /\ (r.maxY = bounds.maxY \/ r.maxY = b[2]) /\ bounds.maxY <= r.maxY /\ b[2] <= r.maxY
  <2>1. b[1] \in Nat /\ b[2] \in Nat
    BY <1>4, <1>5, <1>7
  <2>2. /\ bounds.minX \in Nat /\ bounds.maxX \in Nat
        /\ bounds.minY \in Nat /\ bounds.maxY \in Nat
    BY <1>4
  <2>3. r = [minX |-> Least(bounds.minX, b[1]), maxX |-> Greatest(bounds.maxX, b[1]),
             minY |-> Least(bounds.minY, b[2]), maxY |-> Greatest(bounds.maxY, b[2])]
    BY <1>2, <1>14 DEF Expanded
  <2>4. \A m, n \in Nat :
          /\ Least(m, n) \in {m, n} /\ Least(m, n) <= m /\ Least(m, n) <= n
          /\ Greatest(m, n) \in {m, n} /\ m <= Greatest(m, n) /\ n <= Greatest(m, n)
    BY DEF Least, Greatest
  <2> QED BY <2>1, <2>2, <2>3, <2>4
<1>16. /\ \E a \in D : r.minX = a[1]
       /\ \E a \in D : r.maxX = a[1]
       /\ \E a \in D : r.minY = a[2]
       /\ \E a \in D : r.maxY = a[2]
  BY <1>3, <1>9, <1>10, <1>15 DEF BoundOn
<1>17. \A a \in D \ Waiting' : /\ r.minX <= a[1] /\ a[1] <= r.maxX
                               /\ r.minY <= a[2] /\ a[2] <= r.maxY
  <2> SUFFICES ASSUME NEW a \in D \ Waiting'
               PROVE  /\ r.minX <= a[1] /\ a[1] <= r.maxX
                      /\ r.minY <= a[2] /\ a[2] <= r.maxY
    OBVIOUS
  <2>1. CASE a = b
    BY <1>15, <2>1
  <2>2. CASE a # b
    <3>1. a \in C \ Waiting
      BY <1>11, <2>2
    <3>2. /\ bounds.minX <= a[1] /\ a[1] <= bounds.maxX
          /\ bounds.minY <= a[2] /\ a[2] <= bounds.maxY
      BY <1>3, <1>10, <3>1 DEF BoundOn
    <3>3. a[1] \in Nat /\ a[2] \in Nat
      BY <1>3, <1>4, <1>5, <3>1
    <3>4. \A k, m, n \in Nat : k <= m /\ m <= n => k <= n
      OBVIOUS
    <3> QED BY <1>4, <1>15, <3>2, <3>3, <3>4
  <2> QED BY <2>1, <2>2
<1>18. RectTypes'
  <2>1. visited' \subseteq dirty
    BY <1>1, <1>2, <1>4
  <2> QED BY <1>2, <1>4, <1>8, <1>14, <1>15, <2>1 DEF RectsInv, RectTypes
<1>19. PassedInv'
  BY <1>2 DEF RectsInv, PassedInv
<1>20. Sealed(V)' /\ BoxesOf(V)' = BoxesOf(V)
  BY <1>2, <1>3 DEF Sealed, BoxesOf, Parts
<1>21. CASE queue' # << >>
  <2>1. ReachedBy(D)'
    BY <1>2, <1>8, <1>11, <1>12, <1>13, <1>21 DEF ReachedBy
  <2>2. BoundOn(D)'
    BY <1>14, <1>16, <1>17 DEF BoundOn
  <2>3. rects' = BoxesOf(V)'
    BY <1>2, <1>3, <1>20, <1>21
  <2>4. SearchInv'
    BY <1>11, <1>20, <2>1, <2>2, <2>3 DEF SearchInv
  <2>5. FrameInv'
    BY <1>2, <1>21 DEF RectsInv, FrameInv
  <2> QED BY <1>18, <1>19, <2>4, <2>5 DEF RectsInv
<1>22. CASE queue' = << >>
  <2>1. Waiting' = {} /\ D \in SUBSET dirty
    BY <1>4, <1>8, <1>9, <1>22, <1>1, <1>3
  <2>2. D \in Parts
    BY <1>11, <1>12, <1>13, <2>1 DEF Parts
  <2>3. BoxOf(D) = r
    BY <1>4, <1>15, <1>16, <1>17, <2>1, BoxFound
  <2>4. {P \in Parts : P \subseteq visited'} = {P \in Parts : P \subseteq V} \cup {D}
    <3>1. ASSUME NEW P \in Parts, P \subseteq visited', P # D PROVE P \subseteq V
      BY <1>11, <2>2, <3>1, PartsApart
    <3> QED BY <1>11, <2>2, <3>1
  <2>5. PICK W : W = visited'
    OBVIOUS
  <2>6. BoxesOf(W) = BoxesOf(V) \cup {Pixels(r)}
    BY <2>3, <2>4, <2>5 DEF BoxesOf
  <2>7. rects' = BoxesOf(W)'
    <3>1. BoxesOf(W)' = BoxesOf(W)
      BY <1>2 DEF BoxesOf, Parts
    <3> QED BY <1>2, <1>3, <1>14, <1>22, <2>6, <3>1
  <2>8. Sealed(W)'
    BY <1>2, <1>3, <1>11, <1>13, <2>1, <2>5 DEF Sealed
  <2>9. PICK E : E = {}
    OBVIOUS
  <2>10. ReachedBy(E)' /\ BoundOn(E)'
    BY <1>22, <2>1, <2>9 DEF ReachedBy, BoundOn, Linked
  <2>11. SearchInv'
    BY <2>5, <2>7, <2>8, <2>9, <2>10 DEF SearchInv
  <2>12. InFrame(Pixels(r))
    <3>1. PICK a \in D : TRUE
      BY <1>11
    <3>2. /\ r.minX <= a[1] /\ a[1] <= r.maxX /\ r.minY <= a[2] /\ a[2] <= r.maxY
          /\ a[1] \in Nat /\ a[2] \in Nat
      BY <1>4, <1>5, <1>17, <2>1
    <3>3. r.maxX < GridW /\ r.maxY < GridH
      BY <1>4, <1>5, <1>16, <2>1
    <3> QED BY <1>15, <3>2, <3>3, PixelsInFrame
  <2>13. FrameInv'
    BY <1>2, <1>14, <1>22, <2>12 DEF RectsInv, FrameInv, InFrame
  <2> QED BY <1>18, <1>19, <2>11, <2>13 DEF RectsInv
<1> QED BY <1>21, <1>22

LEMMA RectsPreserve == RectsInv /\ [RectsNext]_rectVars => RectsInv'
<1> SUFFICES ASSUME RectsInv, [RectsNext]_rectVars PROVE RectsInv'
  OBVIOUS
<1>1. CASE UNCHANGED rectVars
  <2>1. RectTypes' /\ PassedInv' /\ FrameInv'
    BY <1>1 DEF RectsInv, RectTypes, PassedInv, FrameInv, rectVars
  <2>2. PICK C, V \in SUBSET visited :
          /\ C \cup V = visited /\ C \cap V = {} /\ ReachedBy(C) /\ BoundOn(C)
          /\ Sealed(V) /\ rects = BoxesOf(V)
    BY DEF RectsInv, SearchInv
  <2>3. ReachedBy(C)' /\ BoundOn(C)'
    BY <1>1, <2>2 DEF ReachedBy, BoundOn, Waiting, rectVars
  <2>4. Sealed(V)' /\ BoxesOf(V)' = BoxesOf(V)
    BY <1>1, <2>2 DEF Sealed, BoxesOf, Parts, rectVars
  <2>5. SearchInv'
    BY <1>1, <2>2, <2>3, <2>4 DEF SearchInv, rectVars
  <2> QED BY <2>1, <2>5 DEF RectsInv
<1>2. CASE Pass
  BY <1>2, PassPreserves
<1>3. CASE Begin
  BY <1>3, BeginPreserves
<1>4. CASE Search
  BY <1>4, SearchPreserves
<1> QED BY <1>1, <1>2, <1>3, <1>4 DEF RectsNext

\* A scan that is over has begun a search from every changed block.
LEMMA RectsImply == RectsInv => RectsTypeOK /\ RectsAreParts
<1> SUFFICES ASSUME RectsInv PROVE RectsTypeOK /\ RectsAreParts
  OBVIOUS
<1>1. RectsTypeOK
  <2>1. \A i \in DOMAIN queue : queue[i] \in visited
    BY DEF RectsInv, RectTypes
  <2> QED BY <2>1 DEF RectsInv, RectTypes, FrameInv, InFrame, RectsTypeOK
<1>2. ASSUME Scanned PROVE rects = {Pixels(BoxOf(S)) : S \in Parts}
  <2>1. PICK C, V \in SUBSET visited :
          /\ C \cup V = visited /\ ReachedBy(C) /\ rects = BoxesOf(V)
    BY DEF RectsInv, SearchInv
  <2>2. queue = << >>
    BY <1>2 DEF RectsInv, PassedInv, Scanned
  <2>3. V = visited
    BY <2>1, <2>2 DEF ReachedBy
  <2>4. dirty \subseteq visited
    BY <1>2, ScanIsWhole DEF RectsInv, RectTypes, PassedInv, Scanned
  <2>5. {P \in Parts : P \subseteq visited} = Parts
    BY <2>4 DEF Parts
  <2> QED BY <2>1, <2>3, <2>5 DEF BoxesOf
<1> QED BY <1>1, <1>2 DEF RectsAreParts

\* For every frame, every size of block and every set of changed blocks, the rectangles sent
\* are the boxes of the connected parts of what changed, none missed, split or joined, and
\* each lies within the frame and is not empty (diff.go, mergeBlocksToRects).
THEOREM RectanglesFound == RectsSpec => [](RectsTypeOK /\ RectsAreParts)
<1>1. RectsSpec => []RectsInv
  BY RectsStart, RectsPreserve, PTL DEF RectsSpec
<1> QED BY <1>1, RectsImply, PTL

-----------------------------------------------------------------------------
(***************************************************************************)
(* The connection to the relay (SignalingClient).                          *)
(***************************************************************************)

Goroutines == Updaters \cup {ReadLoop}

\* The loop is in register exactly where its step says so.
LoopInv ==
  /\ reg \in [Goroutines -> [at : {"out", "in", "sending"}, hash : Nat]] /\ hash \in Nat
  /\ step = "register" <=> reg[ReadLoop].at # "out"

\* One registration at a time, and while there is a connection what it is about to send is
\* the hash of now: a rotation would have been a second registration.
SoleInv ==
  ~met => /\ \A t, u \in Goroutines : reg[t].at # "out" /\ reg[u].at # "out" => t = u
          /\ conn # "none" =>
               \A t \in Goroutines : reg[t].at = "sending" => reg[t].hash = hash

ClientInv == LoopInv /\ SoleInv /\ RotationTakesEffect

LEMMA ClientStarts == ClientInit => ClientInv
BY ClientAssumption DEF ClientInit, ClientInv, LoopInv, SoleInv, RotationTakesEffect, Registering, Goroutines, Out

LEMMA ClientPreserves == ClientInv /\ [ClientNext]_clientVars => ClientInv'
<1> SUFFICES ASSUME ClientInv, [ClientNext]_clientVars PROVE ClientInv'
  OBVIOUS
<1> USE ClientAssumption DEF ClientInv, LoopInv, SoleInv, RotationTakesEffect, Registering, Goroutines, loopVars
<1>1. CASE UNCHANGED clientVars
  BY <1>1 DEF clientVars
<1>2. CASE DialFails \/ Waited \/ Cancel \/ Break \/ ReadFails \/ Certificate \/ ReadNothing
  BY <1>2 DEF DialFails, Waited, Cancel, Break, ReadFails, Certificate, ReadNothing
<1>3. CASE Dial
  BY <1>3 DEF Dial, Enter
<1>4. ASSUME NEW t \in Goroutines, ReadHash(t) PROVE ClientInv'
  BY <1>4 DEF ReadHash
<1>5. ASSUME NEW t \in Goroutines, SendRegister(t) PROVE ClientInv'
  BY <1>5 DEF SendRegister, Out
<1>6. ASSUME NEW t \in Updaters, UpdateHash(t) PROVE ClientInv'
  <2>1. LoopInv'
    BY <1>6 DEF UpdateHash, Enter
  <2>2. CASE conn = "none"
    BY <1>6, <2>1, <2>2 DEF UpdateHash
  <2>3. CASE conn # "none"
    <3>1. /\ reg' = [reg EXCEPT ![t] = [at |-> "in", hash |-> 0]] /\ reg[t].at = "out"
          /\ met' = (met \/ \E u \in Goroutines : reg[u].at # "out")
      BY <1>6, <2>3 DEF UpdateHash, Enter
    <3>2. SoleInv'
      BY <3>1
    <3>3. RotationTakesEffect'
      BY <3>1
    <3> QED
      BY <2>1, <3>2, <3>3
  <2> QED
    BY <2>2, <2>3
<1> QED
  BY <1>1, <1>2, <1>3, <1>4, <1>5, <1>6 DEF ClientNext

LEMMA ClientInvariant == ClientSpec => []ClientInv
BY ClientStarts, ClientPreserves, PTL DEF ClientSpec

\* Whatever is rotated and however often the connection breaks, the relay has the password
\* of now whenever nothing is under way and no two registrations met (client.go, register
\* and UpdatePasswordHash).
THEOREM RelayHasTheHash == ClientSpec => []RotationTakesEffect
<1>1. ClientInv => RotationTakesEffect
  BY DEF ClientInv
<1> QED
  BY <1>1, ClientInvariant, PTL

\* A heartbeat goroutine runs while the loop reads, and after it has panicked there.
BeatsInv ==
  /\ step = "read" => beats = 1
  /\ step \in {"dial", "wait", "register"} => beats = 0

ClientTyped == ClientTypeOK /\ ClientInv /\ BeatsInv

LEMMA ClientTypesStart == ClientInit => ClientTyped
<1> SUFFICES ASSUME ClientInit PROVE ClientTyped
  OBVIOUS
<1>1. ClientInv
  BY ClientStarts
<1>2. {met, panicked} \subseteq BOOLEAN /\ MaxWait \in Nat /\ MaxHash \in Nat
  BY ClientAssumption DEF ClientInit
<1>3. reg \in [Goroutines -> [at : {"out", "in", "sending"}, hash : 0 .. (MaxHash + 1)]]
  BY <1>2 DEF ClientInit, Out, Goroutines
<1> QED BY <1>1, <1>2, <1>3 DEF ClientInit, ClientTyped, ClientTypeOK, BeatsInv, Goroutines

LEMMA ClientTypesKept == ClientTyped /\ [ClientNext]_clientVars => ClientTyped'
<1> SUFFICES ASSUME ClientTyped, [ClientNext]_clientVars PROVE ClientTypeOK' /\ BeatsInv'
  BY ClientPreserves DEF ClientTyped
<1> DEFINE Reg == [Goroutines -> [at : {"out", "in", "sending"}, hash : 0 .. (MaxHash + 1)]]
<1>1. /\ wait \in 0 .. MaxWait /\ step \in {"dial", "wait", "register", "read", "gone"}
      /\ conn \in {"none", "open", "broken"} /\ certFile \in {"none", "pair", "mismatch"}
      /\ hash \in 1 .. (MaxHash + 1) /\ relay \in 0 .. (MaxHash + 1)
      /\ met \in BOOLEAN /\ panicked \in BOOLEAN /\ reg \in Reg /\ beats \in {0, 1} /\ BeatsInv
      /\ MaxHash \in Nat /\ MaxWait \in Nat
      /\ \A t \in Goroutines : reg[t].at \in {"out", "in", "sending"} /\ reg[t].hash \in 0 .. (MaxHash + 1)
  BY ClientAssumption DEF ClientTyped, ClientTypeOK, Goroutines
<1> HIDE DEF Reg
<1>2. step = "register" <=> reg[ReadLoop].at # "out"
  BY DEF ClientTyped, ClientInv, LoopInv
<1> USE DEF loopVars, clientVars, ClientNext
<1>3. wait' \in 0 .. MaxWait /\ step' \in {"dial", "wait", "register", "read", "gone"}
  <2>1. wait' \in {0, wait} \/ (wait < MaxWait /\ wait' = wait + 1)
    BY DEF DialFails, Waited, Dial, Cancel, Break, ReadFails, Certificate, ReadNothing, ReadHash,
           SendRegister, UpdateHash
  <2>2. step' \in {step, "dial", "wait", "register", "read", "gone"}
    BY DEF DialFails, Waited, Dial, Cancel, Break, ReadFails, Certificate, ReadNothing, ReadHash,
           SendRegister, UpdateHash
  <2> QED BY <1>1, <2>1, <2>2
<1>4. conn' \in {"none", "open", "broken"} /\ certFile' \in {"none", "pair", "mismatch"}
  BY <1>1 DEF DialFails, Waited, Dial, Cancel, Break, ReadFails, Certificate, ReadNothing, ReadHash,
              SendRegister, UpdateHash
<1>5. hash' \in 1 .. (MaxHash + 1) /\ relay' \in 0 .. (MaxHash + 1)
  <2>1. hash' = hash \/ (hash < MaxHash /\ hash' = hash + 1)
    BY DEF DialFails, Waited, Dial, Cancel, Break, ReadFails, Certificate, ReadNothing, ReadHash,
           SendRegister, UpdateHash
  <2>2. relay' \in {relay, 0} \/ \E t \in Goroutines : relay' = reg[t].hash
    BY DEF DialFails, Waited, Dial, Cancel, Break, ReadFails, Certificate, ReadNothing, ReadHash,
           SendRegister, UpdateHash, Goroutines
  <2> QED BY <1>1, <2>1, <2>2
<1>6. met' \in BOOLEAN
  BY <1>1 DEF DialFails, Waited, Dial, Cancel, Break, ReadFails, Certificate, ReadNothing, ReadHash,
              SendRegister, UpdateHash, Enter
<1>7. panicked' \in BOOLEAN
  BY <1>1 DEF DialFails, Waited, Dial, Cancel, Break, ReadFails, Certificate, ReadNothing, ReadHash,
              SendRegister, UpdateHash
<1>8. reg' \in Reg
  <2>1. reg' = reg \/ \E t \in Goroutines, h \in {0, hash}, p \in {"out", "in", "sending"} :
                        reg' = [reg EXCEPT ![t] = [at |-> p, hash |-> h]]
    BY DEF DialFails, Waited, Dial, Cancel, Break, ReadFails, Certificate, ReadNothing, ReadHash,
           SendRegister, UpdateHash, Enter, Out, Goroutines
  <2>2. \A h \in {0, hash} : h \in 0 .. (MaxHash + 1)
    BY <1>1
  <2> QED BY <1>1, <2>1, <2>2 DEF Reg
<1>9. beats' \in {0, 1} /\ BeatsInv'
  BY <1>1, <1>2 DEF BeatsInv, DialFails, Waited, Dial, Cancel, Break, ReadFails, Certificate,
              ReadNothing, ReadHash, SendRegister, UpdateHash
<1> QED BY <1>3, <1>4, <1>5, <1>6, <1>7, <1>8, <1>9 DEF ClientTypeOK, Goroutines, Reg

-----------------------------------------------------------------------------
(***************************************************************************)
(* The sessions of the single-process agent (AgentSessions).               *)
(***************************************************************************)

\* The map and the setups agree.
MapInv ==
  /\ peerOf \in [Peers -> Controllers] /\ sessions \in [Controllers -> Peers \cup {NoPeer}]
  /\ peer \in [Peers -> {"none", "open", "closed"}]
  /\ setup \in [Peers -> {"none", "building", "listed", "failed"}]
  /\ \A c \in Controllers : sessions[c] # NoPeer => peerOf[sessions[c]] = c

\* Whoever is building beside another connect of its controller is known to overlap, and
\* so is an open peer that is in the map meanwhile: the connect closed the one it found.
OverlapInv ==
  \A p, q \in Peers :
    setup[p] = "building" /\ p # q /\ peerOf[p] = peerOf[q] =>
      /\ setup[q] = "building" => p \in unseen /\ q \in unseen
      /\ setup[q] = "listed" /\ peer[q] = "open" /\ sessions[peerOf[q]] = q => q \in unseen

AgentInv == MapInv /\ OverlapInv /\ OpenIsListed

LEMMA AgentStarts == AgentInit => AgentInv
BY DEF AgentInit, AgentInv, MapInv, OverlapInv, OpenIsListed

LEMMA AgentPreserves == AgentInv /\ [AgentNext]_agentVars => AgentInv'
<1> SUFFICES ASSUME AgentInv, [AgentNext]_agentVars PROVE AgentInv'
  OBVIOUS
<1> USE AgentAssumption DEF AgentInv, MapInv, OverlapInv, OpenIsListed
<1>1. CASE UNCHANGED agentVars
  BY <1>1 DEF agentVars
<1>2. ASSUME NEW p \in Peers, MakePeer(p) PROVE AgentInv'
  BY <1>2 DEF MakePeer
<1>3. ASSUME NEW p \in Peers, ListPeer(p) PROVE AgentInv'
  BY <1>3 DEF ListPeer
<1>4. ASSUME NEW p \in Peers, LosePeer(p) PROVE AgentInv'
  BY <1>4 DEF LosePeer
<1>5. ASSUME NEW p \in Peers, Disconnected(p) PROVE AgentInv'
  BY <1>5 DEF Disconnected, Without
<1>6. ASSUME NEW p \in Peers, CloseLeft(p) PROVE AgentInv'
  BY <1>6 DEF CloseLeft
<1>7. ASSUME NEW c \in Controllers, Connected(c) PROVE AgentInv'
  BY <1>7 DEF Connected
<1>8. ASSUME NEW c \in Controllers, TakeBye(c) PROVE AgentInv'
  BY <1>8 DEF TakeBye, Without
<1>9. CASE Stop
  BY <1>9 DEF Stop
<1> QED
  BY <1>1, <1>2, <1>3, <1>4, <1>5, <1>6, <1>7, <1>8, <1>9 DEF AgentNext

LEMMA AgentInvariant == AgentSpec => []AgentInv
BY AgentStarts, AgentPreserves, PTL DEF AgentSpec

\* An open peer stays within reach of its controller's bye and of Stop through any order of
\* connects, byes and losses that the history does not set aside (agent.go).
THEOREM OpenWithinReach == AgentSpec => []OpenIsListed
<1>1. AgentInv => OpenIsListed
  BY DEF AgentInv
<1> QED
  BY <1>1, AgentInvariant, PTL

AgentTyped == AgentTypeOK /\ AgentInv

LEMMA AgentTypesStart == AgentInit => AgentTyped
BY AgentStarts DEF AgentInit, AgentTyped, AgentTypeOK

LEMMA AgentTypesKept == AgentTyped /\ [AgentNext]_agentVars => AgentTyped'
<1> SUFFICES ASSUME AgentTyped, [AgentNext]_agentVars PROVE AgentTypeOK'
  BY AgentPreserves DEF AgentTyped
<1>1. MapInv'
  BY AgentPreserves DEF AgentTyped, AgentInv
<1>2. /\ video \in [Peers -> {"none", "built", "running"}] /\ lossy \in [Peers -> BOOLEAN]
      /\ unseen \subseteq Peers /\ running \in BOOLEAN /\ leaving \subseteq Peers
      /\ sessions \in [Controllers -> Peers \cup {NoPeer}] /\ peerOf \in [Peers -> Controllers]
  BY DEF AgentTyped, AgentTypeOK
<1>3. video' \in [Peers -> {"none", "built", "running"}]
  <2>1. \/ video' = video
        \/ \E p \in Peers, v \in {"none", "built", "running"} : video' = [video EXCEPT ![p] = v]
        \/ video' = [p \in Peers |-> IF video[p] = "running" THEN "built" ELSE video[p]]
    <3>1. \A c \in Controllers : Connected(c) => sessions[c] \in Peers
      BY <1>2 DEF Connected
    <3> QED BY <3>1 DEF AgentNext, MakePeer, ListPeer, LosePeer, Disconnected, CloseLeft, Connected,
                        TakeBye, Stop, agentVars
  <2> QED BY <1>2, <2>1
<1>4. lossy' \in [Peers -> BOOLEAN]
  <2>1. lossy' = lossy \/ \E p \in Peers : \/ lossy' = [lossy EXCEPT ![p] = TRUE]
                                         \/ lossy' = [lossy EXCEPT ![p] = FALSE]
    <3>1. \A c \in Controllers : Connected(c) => sessions[c] \in Peers
      BY <1>2 DEF Connected
    <3> QED BY <3>1 DEF AgentNext, MakePeer, ListPeer, LosePeer, Disconnected, CloseLeft, Connected,
                        TakeBye, Stop, agentVars
  <2> QED BY <1>2, <2>1
<1>5. unseen' \subseteq Peers /\ leaving' \subseteq Peers
  <2>1. ASSUME NEW p \in Peers, MakePeer(p) \/ ListPeer(p) \/ LosePeer(p) \/ CloseLeft(p)
        PROVE  unseen' \subseteq Peers /\ leaving' \subseteq Peers
    BY <1>2, <2>1 DEF MakePeer, ListPeer, LosePeer, CloseLeft
  <2>2. ASSUME NEW p \in Peers, Disconnected(p)
        PROVE  unseen' \subseteq Peers /\ leaving' \subseteq Peers
    BY <1>2, <2>2 DEF Disconnected
  <2>3. ASSUME NEW c \in Controllers, Connected(c) \/ TakeBye(c)
        PROVE  unseen' \subseteq Peers /\ leaving' \subseteq Peers
    BY <1>2, <2>3 DEF Connected, TakeBye
  <2>4. CASE Stop \/ UNCHANGED agentVars
    BY <1>2, <2>4 DEF Stop, agentVars
  <2> QED BY <2>1, <2>2, <2>3, <2>4 DEF AgentNext
<1>6. running' \in BOOLEAN
  BY <1>2 DEF AgentNext, MakePeer, ListPeer, LosePeer, Disconnected, CloseLeft, Connected, TakeBye, Stop,
              agentVars
<1> QED BY <1>1, <1>3, <1>4, <1>5, <1>6 DEF AgentTypeOK, MapInv

-----------------------------------------------------------------------------
(***************************************************************************)
(* The viewers' input (InputSink).                                         *)
(***************************************************************************)

\* The events that are not injected yet: the queue, and the one the reader holds.
Pending  == IF post.at = "idle" THEN events ELSE Append(events, post.e)
Controls == {ButtonOf(e) : e \in Presses} \cup {KeyOf(e) : e \in Keys}

About(e, ctl) == \/ e.k = "btn" /\ ButtonOf(e) = ctl
                 \/ e.k = "key" /\ HidToVk(e.what) # 0 /\ KeyOf(e) = ctl
Points(e)     == e.k = "mv" \/ (e.k = "btn" /\ e.at # Origin)

\* What a sequence of events leaves of a control and of the pointer.
Untouched(p, ctl) == \A i \in 1 .. Len(p) : ~About(p[i], ctl)
Downs(p, ctl) == \E i \in 1 .. Len(p) : /\ About(p[i], ctl) /\ p[i].down
                                        /\ \A j \in i + 1 .. Len(p) : ~About(p[j], ctl)
Still(p)         == \A i \in 1 .. Len(p) : ~Points(p[i])
PointsTo(p, at)  == \E i \in 1 .. Len(p) : /\ Points(p[i]) /\ p[i].at = at
                                           /\ \A j \in i + 1 .. Len(p) : ~Points(p[j])

SinkTypes ==
  /\ events \in Seq(Events) /\ Len(events) <= Cap
  /\ post \in [at : {"idle", "drop", "again"}, e : Events \cup {NoEvent}]
  /\ post.at = "idle" <=> post.e = NoEvent
  /\ lastAt \in Spots \cup {Origin} /\ cursor \in Spots \cup {Origin} /\ saidAt \in Spots \cup {Origin}
  /\ held \subseteq Controls /\ said \subseteq Controls
  /\ dropped \in BOOLEAN /\ missed \in BOOLEAN

\* The reader alone fills the queue: where it took an event out there is room.
RoomInv == post.at = "again" => Len(events) < Cap

\* The newest event is the last that is pending, or it was the last injected.
NewestInv ==
  /\ newest = NoEvent => Pending = <<>>
  /\ newest # NoEvent =>
       /\ newest \in Events
       /\ Pending # <<>> => Pending[Len(Pending)] = newest
       /\ Pending = <<>> /\ ~missed =>
            /\ \A ctl \in Controls : About(newest, ctl) => (ctl \in held <=> newest.down)
            /\ Points(newest) => cursor = newest.at

\* What is pending makes of what is held what the viewers said.
SaidInv ==
  ~dropped /\ ~missed =>
    /\ \A ctl \in Controls : ctl \in said <=> \/ Downs(Pending, ctl)
                                              \/ Untouched(Pending, ctl) /\ ctl \in held
    /\ PointsTo(Pending, saidAt) \/ (Still(Pending) /\ lastAt = saidAt)

CursorInv == ~missed => cursor = lastAt

SinkInv == SinkTypes /\ RoomInv /\ NewestInv /\ SaidInv /\ CursorInv

LEMMA EventFacts ==
  ASSUME NEW e \in Events
  PROVE  /\ e.k \in {"mv", "btn", "key", "whl"} /\ e.at \in Spots \cup {Origin} /\ e.down \in BOOLEAN
         /\ e.k = "btn" => ButtonOf(e) \in Controls
         /\ e.k = "key" => KeyOf(e) \in Controls
         /\ e.k \in {"key", "whl"} => e.at = Origin
<1>1. e \in Moves \/ e \in Presses \/ e \in Keys \/ e \in Wheel
  BY DEF Events
<1>2. /\ e.k \in {"mv", "btn", "key", "whl"} /\ e.at \in Spots \cup {Origin} /\ e.down \in BOOLEAN
      /\ e.k = "btn" => e \in Presses
      /\ e.k = "key" => e \in Keys
      /\ e.k \in {"key", "whl"} => e.at = Origin
  BY <1>1 DEF Moves, Presses, Keys, Wheel
<1> QED
  BY <1>2 DEF Controls

LEMMA PressFacts ==
  ASSUME NEW down \in BOOLEAN, NEW c \in Controls, NEW S \in SUBSET Controls
  PROVE  /\ Press(down, c, S) \subseteq Controls
         /\ \A ctl \in Controls : ctl \in Press(down, c, S) <=> (IF ctl = c THEN down ELSE ctl \in S)
BY DEF Press

\* What a viewer says with an event, and what its injection does, are the same.
LEMMA SaidFacts ==
  ASSUME SinkTypes, NEW e \in Events, Said(e)
  PROVE  /\ said' \subseteq Controls /\ saidAt' \in Spots \cup {Origin} /\ newest' = e
         /\ \A ctl \in Controls : ctl \in said' <=> (IF About(e, ctl) THEN e.down ELSE ctl \in said)
         /\ saidAt' = IF Points(e) THEN e.at ELSE saidAt
<1>1. said \subseteq Controls /\ saidAt \in Spots \cup {Origin}
  BY DEF SinkTypes
<1>2. newest' = e /\ saidAt' = (IF Points(e) THEN e.at ELSE saidAt) /\ saidAt' \in Spots \cup {Origin}
  BY <1>1, EventFacts DEF Said, Points
<1>3. CASE e.k = "btn"
  <2>1. said' = Press(e.down, ButtonOf(e), said) /\ \A ctl : About(e, ctl) <=> ctl = ButtonOf(e)
    BY <1>3 DEF Said, About
  <2> QED
    BY <1>1, <1>2, <1>3, <2>1, EventFacts, PressFacts
<1>4. CASE e.k = "key" /\ HidToVk(e.what) # 0
  <2>1. said' = Press(e.down, KeyOf(e), said) /\ \A ctl : About(e, ctl) <=> ctl = KeyOf(e)
    BY <1>4 DEF Said, About
  <2> QED
    BY <1>1, <1>2, <1>4, <2>1, EventFacts, PressFacts
<1>5. CASE e.k # "btn" /\ ~(e.k = "key" /\ HidToVk(e.what) # 0)
  BY <1>1, <1>2, <1>5 DEF Said, About
<1> QED
  BY <1>3, <1>4, <1>5

LEMMA InjectFacts ==
  ASSUME SinkTypes, NEW e \in Events, Inject(e)
  PROVE  /\ held' \subseteq Controls /\ cursor' \in Spots \cup {Origin} /\ lastAt' \in Spots \cup {Origin}
         /\ missed' \in BOOLEAN /\ (missed => missed')
         /\ lastAt' = IF Points(e) THEN e.at ELSE lastAt
         /\ ~missed' =>
              /\ \A ctl \in Controls : ctl \in held' <=> (IF About(e, ctl) THEN e.down ELSE ctl \in held)
              /\ cursor' = IF e.k \in {"mv", "btn"} THEN lastAt' ELSE cursor
<1>1. /\ held \subseteq Controls /\ cursor \in Spots \cup {Origin} /\ lastAt \in Spots \cup {Origin}
      /\ missed \in BOOLEAN
  BY DEF SinkTypes
<1> DEFINE at == IF e.k = "btn" /\ e.at = Origin THEN lastAt ELSE e.at
<1>2. at \in Spots \cup {Origin}
  BY <1>1, EventFacts
<1>3. ASSUME NEW controls, NEW where, SendInput(controls, where),
             controls \subseteq Controls, where \in Spots \cup {Origin}
      PROVE  /\ held' \subseteq Controls /\ cursor' \in Spots \cup {Origin}
             /\ missed' \in BOOLEAN /\ (missed => missed')
             /\ ~missed' => held' = controls /\ cursor' = where
  <2>1. \/ held' = controls /\ cursor' = where /\ missed' = missed
        \/ missed' = TRUE /\ held' = held /\ cursor' = cursor
    BY <1>3 DEF SendInput
  <2>2. CASE held' = controls /\ cursor' = where /\ missed' = missed
    BY <1>1, <1>3, <2>2
  <2>3. CASE missed' = TRUE /\ held' = held /\ cursor' = cursor
    BY <1>1, <1>3, <2>3
  <2> QED
    BY <2>1, <2>2, <2>3
<1>4. CASE e.k = "mv"
  <2>1. SendInput(held, at) /\ lastAt' = at /\ Points(e) /\ at = e.at
    BY <1>4 DEF Inject, Points
  <2>2. \A ctl : ~About(e, ctl)
    BY <1>4 DEF About
  <2> QED
    BY <1>1, <1>2, <1>3, <1>4, <2>1, <2>2
<1>5. CASE e.k = "btn"
  <2>1. /\ SendInput(Press(e.down, ButtonOf(e), held), at) /\ lastAt' = at
        /\ at = IF Points(e) THEN e.at ELSE lastAt
    BY <1>5 DEF Inject, Points
  <2>2. \A ctl : About(e, ctl) <=> ctl = ButtonOf(e)
    BY <1>5 DEF About
  <2>3. /\ Press(e.down, ButtonOf(e), held) \subseteq Controls
        /\ \A ctl \in Controls : ctl \in Press(e.down, ButtonOf(e), held)
                                   <=> (IF ctl = ButtonOf(e) THEN e.down ELSE ctl \in held)
    BY <1>1, <1>5, EventFacts, PressFacts
  <2> QED
    BY <1>2, <1>3, <1>5, <2>1, <2>2, <2>3
<1>6. CASE e.k = "key" /\ HidToVk(e.what) # 0
  <2>1. SendInput(Press(e.down, KeyOf(e), held), cursor) /\ UNCHANGED lastAt /\ ~Points(e)
    BY <1>6 DEF Inject, Points
  <2>2. \A ctl : About(e, ctl) <=> ctl = KeyOf(e)
    BY <1>6 DEF About
  <2>3. /\ Press(e.down, KeyOf(e), held) \subseteq Controls
        /\ \A ctl \in Controls : ctl \in Press(e.down, KeyOf(e), held)
                                   <=> (IF ctl = KeyOf(e) THEN e.down ELSE ctl \in held)
    BY <1>1, <1>6, EventFacts, PressFacts
  <2> QED
    BY <1>1, <1>3, <1>6, <2>1, <2>2, <2>3
<1>7. CASE e.k = "key" /\ HidToVk(e.what) = 0
  BY <1>1, <1>7 DEF Inject, Points, About
<1>8. CASE e.k = "whl"
  <2>1. SendInput(held, cursor) /\ UNCHANGED lastAt /\ ~Points(e) /\ \A ctl : ~About(e, ctl)
    BY <1>8 DEF Inject, Points, About
  <2> QED
    BY <1>1, <1>3, <1>8, <2>1
<1> QED
  BY <1>4, <1>5, <1>6, <1>7, <1>8, EventFacts

\* What one more event does to what a sequence leaves.
LEMMA AppendLeaves ==
  ASSUME NEW p \in Seq(Events), NEW e \in Events
  PROVE  LET q == Append(p, e)
         IN  /\ \A ctl \in Controls :
                  /\ Untouched(q, ctl) <=> Untouched(p, ctl) /\ ~About(e, ctl)
                  /\ Downs(q, ctl) <=> IF About(e, ctl) THEN e.down ELSE Downs(p, ctl)
             /\ Still(q) <=> Still(p) /\ ~Points(e)
             /\ \A at : PointsTo(q, at) <=> IF Points(e) THEN e.at = at ELSE PointsTo(p, at)
<1> DEFINE q == Append(p, e)
<1>1. /\ Len(p) \in Nat /\ Len(q) = Len(p) + 1 /\ q[Len(p) + 1] = e
      /\ \A i \in 1 .. Len(p) : q[i] = p[i]
  OBVIOUS
<1> HIDE DEF q
<1>2. \A i \in 1 .. Len(q) : i \in 1 .. Len(p) \/ i = Len(p) + 1
  BY <1>1
<1>3. Len(p) + 1 \in 1 .. Len(q) /\ \A i \in 1 .. Len(p) : i \in 1 .. Len(q) /\ Len(p) + 1 \in i + 1 .. Len(q)
  BY <1>1
<1>4. \A i \in 1 .. Len(p) : \A j : j \in i + 1 .. Len(q) <=> j \in i + 1 .. Len(p) \/ j = Len(p) + 1
  BY <1>1
<1>5. \A j : j \notin Len(p) + 1 + 1 .. Len(q)
  BY <1>1
<1>6. \A i \in 1 .. Len(p) : \A j \in i + 1 .. Len(p) : j \in 1 .. Len(p)
  BY <1>1
<1>7. ASSUME NEW ctl \in Controls
      PROVE  /\ Untouched(q, ctl) <=> Untouched(p, ctl) /\ ~About(e, ctl)
             /\ Downs(q, ctl) <=> IF About(e, ctl) THEN e.down ELSE Downs(p, ctl)
  <2>1. Untouched(q, ctl) <=> Untouched(p, ctl) /\ ~About(e, ctl)
    BY <1>1, <1>2, <1>3 DEF Untouched
  <2>2. CASE About(e, ctl)
    <3>1. ASSUME Downs(q, ctl) PROVE e.down
      <4>1. PICK i \in 1 .. Len(q) : /\ About(q[i], ctl) /\ q[i].down
                                     /\ \A j \in i + 1 .. Len(q) : ~About(q[j], ctl)
        BY <3>1 DEF Downs
      <4>2. i = Len(p) + 1
        BY <1>1, <1>2, <1>3, <2>2, <4>1
      <4> QED
        BY <1>1, <4>1, <4>2
    <3>2. ASSUME e.down PROVE Downs(q, ctl)
      BY <1>1, <1>3, <1>5, <2>2, <3>2 DEF Downs
    <3>3. Downs(q, ctl) <=> e.down
      BY <3>1, <3>2, EventFacts DEF Downs
    <3> QED
      BY <2>1, <2>2, <3>3
  <2>3. CASE ~About(e, ctl)
    <3>1. ASSUME Downs(q, ctl) PROVE Downs(p, ctl)
      <4>1. PICK i \in 1 .. Len(q) : /\ About(q[i], ctl) /\ q[i].down
                                     /\ \A j \in i + 1 .. Len(q) : ~About(q[j], ctl)
        BY <3>1 DEF Downs
      <4>2. i \in 1 .. Len(p)
        BY <1>1, <1>2, <2>3, <4>1
      <4> QED
        BY <1>1, <1>4, <1>6, <4>1, <4>2 DEF Downs
    <3>2. ASSUME Downs(p, ctl) PROVE Downs(q, ctl)
      <4>1. PICK i \in 1 .. Len(p) : /\ About(p[i], ctl) /\ p[i].down
                                     /\ \A j \in i + 1 .. Len(p) : ~About(p[j], ctl)
        BY <3>2 DEF Downs
      <4>2. \A j \in i + 1 .. Len(q) : ~About(q[j], ctl)
        BY <1>1, <1>4, <1>6, <2>3, <4>1
      <4> QED
        BY <1>1, <1>3, <4>1, <4>2 DEF Downs
    <3>3. Downs(q, ctl) <=> Downs(p, ctl)
      BY <3>1, <3>2 DEF Downs
    <3> QED
      BY <2>1, <2>3, <3>3
  <2> QED
    BY <2>1, <2>2, <2>3
<1>8. Still(q) <=> Still(p) /\ ~Points(e)
  BY <1>1, <1>2, <1>3 DEF Still
<1>9. ASSUME NEW at PROVE PointsTo(q, at) <=> IF Points(e) THEN e.at = at ELSE PointsTo(p, at)
  <2>1. CASE Points(e)
    BY <1>1, <1>2, <1>3, <1>5, <2>1 DEF PointsTo
  <2>2. CASE ~Points(e)
    BY <1>1, <1>2, <1>3, <1>4, <1>6, <2>2 DEF PointsTo
  <2> QED
    BY <2>1, <2>2
<1> QED
  BY <1>7, <1>8, <1>9 DEF q

\* What a sequence leaves after its first event.
LEMMA TailLeaves ==
  ASSUME NEW q \in Seq(Events), q # <<>>
  PROVE  LET p == Tail(q)  e == Head(q)
         IN  /\ p \in Seq(Events) /\ e \in Events
             /\ \A ctl \in Controls :
                  /\ Untouched(q, ctl) <=> Untouched(p, ctl) /\ ~About(e, ctl)
                  /\ Downs(q, ctl) <=> Downs(p, ctl) \/ (Untouched(p, ctl) /\ About(e, ctl) /\ e.down)
             /\ Still(q) <=> Still(p) /\ ~Points(e)
             /\ \A at : PointsTo(q, at) <=> PointsTo(p, at) \/ (Still(p) /\ Points(e) /\ e.at = at)
<1> DEFINE p == Tail(q)  e == Head(q)
<1>1. /\ p \in Seq(Events) /\ e \in Events /\ e = q[1] /\ Len(p) \in Nat /\ Len(q) = Len(p) + 1
      /\ \A i \in 1 .. Len(p) : p[i] = q[i + 1]
  OBVIOUS
<1> HIDE DEF p, e
<1>2. /\ 1 \in 1 .. Len(q)
      /\ \A i \in 1 .. Len(p) : i + 1 \in 1 .. Len(q) /\ i + 1 \in 1 + 1 .. Len(q)
      /\ \A i \in 1 .. Len(q) : i = 1 \/ (i - 1 \in 1 .. Len(p) /\ q[i] = p[i - 1])
      /\ \A i \in 1 + 1 .. Len(q) : i - 1 \in 1 .. Len(p) /\ q[i] = p[i - 1]
  BY <1>1
<1>3. \A i \in 1 .. Len(p) : /\ \A j \in i + 1 .. Len(p) : /\ j \in 1 .. Len(p) /\ q[j + 1] = p[j]
                                                           /\ j + 1 \in (i + 1) + 1 .. Len(q)
                             /\ \A j \in (i + 1) + 1 .. Len(q) : /\ j - 1 \in i + 1 .. Len(p)
                                                                 /\ j - 1 \in 1 .. Len(p) /\ q[j] = p[j - 1]
  BY <1>1
<1>4. ASSUME NEW ctl \in Controls
      PROVE  /\ Untouched(q, ctl) <=> Untouched(p, ctl) /\ ~About(e, ctl)
             /\ Downs(q, ctl) <=> Downs(p, ctl) \/ (Untouched(p, ctl) /\ About(e, ctl) /\ e.down)
  <2>1. Untouched(q, ctl) <=> Untouched(p, ctl) /\ ~About(e, ctl)
    BY <1>1, <1>2 DEF Untouched
  <2>2. ASSUME NEW i \in 1 .. Len(p)
        PROVE  (\A j \in (i + 1) + 1 .. Len(q) : ~About(q[j], ctl)) <=> (\A j \in i + 1 .. Len(p) : ~About(p[j], ctl))
    BY <1>3
  <2>3. (\A j \in 1 + 1 .. Len(q) : ~About(q[j], ctl)) <=> Untouched(p, ctl)
    BY <1>1, <1>2 DEF Untouched
  <2>4. ASSUME Downs(q, ctl) PROVE Downs(p, ctl) \/ (Untouched(p, ctl) /\ About(e, ctl) /\ e.down)
    <3>1. PICK i \in 1 .. Len(q) : /\ About(q[i], ctl) /\ q[i].down
                                   /\ \A j \in i + 1 .. Len(q) : ~About(q[j], ctl)
      BY <2>4 DEF Downs
    <3>2. CASE i = 1
      BY <1>1, <2>3, <3>1, <3>2
    <3>3. CASE i # 1
      <4>1. PICK k \in 1 .. Len(p) : i = k + 1 /\ q[i] = p[k]
        BY <1>2, <3>1, <3>3
      <4> QED
        BY <2>2, <3>1, <4>1 DEF Downs
    <3> QED
      BY <3>2, <3>3
  <2>5. ASSUME Downs(p, ctl) PROVE Downs(q, ctl)
    <3>1. PICK i \in 1 .. Len(p) : /\ About(p[i], ctl) /\ p[i].down
                                   /\ \A j \in i + 1 .. Len(p) : ~About(p[j], ctl)
      BY <2>5 DEF Downs
    <3> QED
      BY <1>1, <1>2, <2>2, <3>1 DEF Downs
  <2>6. ASSUME Untouched(p, ctl), About(e, ctl), e.down PROVE Downs(q, ctl)
    BY <1>1, <1>2, <2>3, <2>6 DEF Downs
  <2> QED
    BY <2>1, <2>4, <2>5, <2>6
<1>5. Still(q) <=> Still(p) /\ ~Points(e)
  BY <1>1, <1>2 DEF Still
<1>6. ASSUME NEW at PROVE PointsTo(q, at) <=> PointsTo(p, at) \/ (Still(p) /\ Points(e) /\ e.at = at)
  <2>2. ASSUME NEW i \in 1 .. Len(p)
        PROVE  (\A j \in (i + 1) + 1 .. Len(q) : ~Points(q[j])) <=> (\A j \in i + 1 .. Len(p) : ~Points(p[j]))
    BY <1>3
  <2>3. (\A j \in 1 + 1 .. Len(q) : ~Points(q[j])) <=> Still(p)
    BY <1>1, <1>2 DEF Still
  <2>4. ASSUME PointsTo(q, at) PROVE PointsTo(p, at) \/ (Still(p) /\ Points(e) /\ e.at = at)
    <3>1. PICK i \in 1 .. Len(q) : /\ Points(q[i]) /\ q[i].at = at
                                   /\ \A j \in i + 1 .. Len(q) : ~Points(q[j])
      BY <2>4 DEF PointsTo
    <3>2. CASE i = 1
      BY <1>1, <2>3, <3>1, <3>2
    <3>3. CASE i # 1
      <4>1. PICK k \in 1 .. Len(p) : i = k + 1 /\ q[i] = p[k]
        BY <1>2, <3>1, <3>3
      <4> QED
        BY <2>2, <3>1, <4>1 DEF PointsTo
    <3> QED
      BY <3>2, <3>3
  <2>5. ASSUME PointsTo(p, at) PROVE PointsTo(q, at)
    <3>1. PICK i \in 1 .. Len(p) : /\ Points(p[i]) /\ p[i].at = at
                                   /\ \A j \in i + 1 .. Len(p) : ~Points(p[j])
      BY <2>5 DEF PointsTo
    <3> QED
      BY <1>1, <1>2, <2>2, <3>1 DEF PointsTo
  <2>6. ASSUME Still(p), Points(e), e.at = at PROVE PointsTo(q, at)
    BY <1>1, <1>2, <2>3, <2>6 DEF PointsTo
  <2> QED
    BY <2>4, <2>5, <2>6
<1> QED
  BY <1>1, <1>4, <1>5, <1>6 DEF p, e

LEMMA EmptyLeaves ==
  /\ \A ctl \in Controls : Untouched(<<>>, ctl) /\ ~Downs(<<>>, ctl)
  /\ Still(<<>>) /\ \A at : ~PointsTo(<<>>, at)
BY DEF Untouched, Downs, Still, PointsTo

LEMMA SinkStarts == SinkInit => SinkInv
<1> SUFFICES ASSUME SinkInit PROVE SinkInv
  OBVIOUS
<1>1. events \in Seq(Events) /\ Len(events) <= Cap /\ post = [at |-> "idle", e |-> NoEvent]
  BY SinkAssumption DEF SinkInit
<1>2. SinkTypes /\ RoomInv /\ CursorInv
  <2>1. post \in [at : {"idle", "drop", "again"}, e : Events \cup {NoEvent}] /\ post.at = "idle" /\ post.e = NoEvent
    BY <1>1
  <2> QED
    BY <1>1, <2>1 DEF SinkInit, SinkTypes, RoomInv, CursorInv
<1>3. Pending = <<>> /\ newest = NoEvent /\ held = {} /\ said = {} /\ lastAt = saidAt
  BY DEF SinkInit, Pending
<1> QED
  BY <1>2, <1>3, EmptyLeaves DEF SinkInv, NewestInv, SaidInv

LEMMA PendingFacts ==
  ASSUME SinkTypes
  PROVE  /\ Pending \in Seq(Events) /\ Len(events) \in Nat /\ Cap \in Nat \ {0}
         /\ post.at # "idle" => post.e \in Events /\ Pending # <<>> /\ Pending[Len(Pending)] = post.e
         /\ events # <<>> => /\ Pending # <<>> /\ Head(Pending) = Head(events) /\ Head(events) \in Events
                             /\ Tail(Pending) = IF post.at = "idle" THEN Tail(events)
                                                ELSE Append(Tail(events), post.e)
<1>1. /\ events \in Seq(Events) /\ (post.at # "idle" => post.e \in Events)
  BY DEF SinkTypes
<1>2. CASE post.at = "idle"
  BY <1>1, <1>2, SinkAssumption DEF Pending
<1>3. CASE post.at # "idle"
  <2> PICK e \in Events : e = post.e
    BY <1>1, <1>3
  <2>1. Append(events, e) \in Seq(Events) /\ Append(events, e) # <<>>
        /\ Append(events, e)[Len(Append(events, e))] = e
    BY <1>1
  <2>2. ASSUME events # <<>>
        PROVE  /\ Head(Append(events, e)) = Head(events) /\ Head(events) \in Events
               /\ Tail(Append(events, e)) = Append(Tail(events), e)
    BY <1>1, <2>2
  <2> QED
    BY <1>1, <1>3, <2>1, <2>2, SinkAssumption DEF Pending
<1> QED
  BY <1>2, <1>3

\* An event that is posted is one more that is pending.
LEMMA PostPreserves == SinkInv /\ (\E e \in Events : Post(e)) => SinkInv'
<1> SUFFICES ASSUME SinkInv, NEW e \in Events, Post(e) PROVE SinkInv'
  OBVIOUS
<1>1. SinkTypes /\ RoomInv /\ NewestInv /\ SaidInv /\ CursorInv
  BY DEF SinkInv
<1>2. /\ said' \subseteq Controls /\ saidAt' \in Spots \cup {Origin} /\ newest' = e
      /\ \A ctl \in Controls : ctl \in said' <=> (IF About(e, ctl) THEN e.down ELSE ctl \in said)
      /\ saidAt' = IF Points(e) THEN e.at ELSE saidAt
  BY <1>1, SaidFacts DEF Post
<1>3. UNCHANGED <<lastAt, injecting, sinkClosed, held, cursor, dropped, missed>> /\ post.at = "idle"
  BY DEF Post
<1>4. Pending = events /\ events \in Seq(Events) /\ Len(events) \in Nat /\ Cap \in Nat /\ Len(events) <= Cap
  BY <1>1, <1>3, PendingFacts DEF Pending, SinkTypes
<1>5. Pending' = Append(events, e) /\ SinkTypes' /\ RoomInv'
  <2>1. CASE Len(events) < Cap
    <3>1. events' = Append(events, e) /\ UNCHANGED post
      BY <2>1 DEF Post
    <3>2. events' \in Seq(Events) /\ Len(events') <= Cap
      BY <1>4, <2>1, <3>1
    <3> QED
      BY <1>1, <1>2, <1>3, <3>1, <3>2 DEF Pending, SinkTypes, RoomInv
  <2>2. CASE ~(Len(events) < Cap)
    <3>1. post' = [at |-> "drop", e |-> e] /\ UNCHANGED events
      BY <2>2 DEF Post
    <3> QED
      BY <1>1, <1>2, <1>3, <3>1, SinkAssumption DEF Pending, SinkTypes, RoomInv
  <2> QED
    BY <2>1, <2>2
<1>6. Pending' # <<>> /\ Pending'[Len(Pending')] = e
  BY <1>4, <1>5
<1>7. NewestInv'
  BY <1>2, <1>6, SinkAssumption DEF NewestInv
<1>8. SaidInv'
  <2> SUFFICES ASSUME ~dropped, ~missed
               PROVE  /\ \A ctl \in Controls : ctl \in said' <=> \/ Downs(Pending', ctl)
                                                                 \/ Untouched(Pending', ctl) /\ ctl \in held
                      /\ PointsTo(Pending', saidAt') \/ (Still(Pending') /\ lastAt = saidAt')
    BY <1>3 DEF SaidInv
  <2>1. ASSUME NEW ctl \in Controls
        PROVE  ctl \in said' <=> \/ Downs(Pending', ctl)
                                 \/ Untouched(Pending', ctl) /\ ctl \in held
    <3>1. ctl \in said <=> \/ Downs(events, ctl)
                           \/ Untouched(events, ctl) /\ ctl \in held
      BY <1>1, <1>4 DEF SaidInv
    <3> QED
      BY <1>2, <1>4, <1>5, <3>1, AppendLeaves, EventFacts
  <2>2. PointsTo(Pending', saidAt') \/ (Still(Pending') /\ lastAt = saidAt')
    BY <1>1, <1>2, <1>4, <1>5, AppendLeaves DEF SaidInv
  <2> QED
    BY <2>1, <2>2
<1> QED
  BY <1>1, <1>3, <1>5, <1>7, <1>8 DEF SinkInv, CursorInv

LEMMA DropPreserves == SinkInv /\ DropOldest => SinkInv'
<1> SUFFICES ASSUME SinkInv, DropOldest PROVE SinkInv'
  OBVIOUS
<1>1. SinkTypes /\ RoomInv /\ NewestInv /\ SaidInv /\ CursorInv
  BY DEF SinkInv
<1>2. /\ post.at = "drop" /\ post' = [post EXCEPT !.at = "again"]
      /\ UNCHANGED <<lastAt, injecting, sinkClosed, held, cursor, posted, said, saidAt, newest, missed>>
  BY DEF DropOldest
<1>3. /\ post'.at = "again" /\ post'.e = post.e /\ post.e \in Events /\ events \in Seq(Events)
      /\ Len(events) <= Cap /\ Len(events) \in Nat /\ Cap \in Nat \ {0}
  BY <1>1, <1>2, PendingFacts DEF SinkTypes
<1>4. Pending = Append(events, post.e) /\ Pending' = Append(events', post.e)
  BY <1>2, <1>3 DEF Pending
<1>5. /\ events' \in Seq(Events) /\ Len(events') < Cap
      /\ (events' = events /\ dropped' = dropped) \/ dropped' = TRUE
  BY <1>3 DEF DropOldest
<1>6. Pending' # <<>> /\ Pending'[Len(Pending')] = post.e /\ Pending # <<>> /\ Pending[Len(Pending)] = post.e
  BY <1>3, <1>4, <1>5
<1>7. SinkTypes' /\ RoomInv'
  <2>1. Len(events') <= Cap /\ post' \in [at : {"idle", "drop", "again"}, e : Events \cup {NoEvent}]
    BY <1>1, <1>2, <1>3, <1>5 DEF SinkTypes
  <2>2. dropped' \in BOOLEAN
    BY <1>1, <1>5 DEF SinkTypes
  <2>3. post'.at # "idle" /\ post'.e # NoEvent
    BY <1>3, SinkAssumption
  <2> QED
    BY <1>1, <1>2, <1>5, <2>1, <2>2, <2>3 DEF SinkTypes, RoomInv
<1>8. NewestInv'
  BY <1>1, <1>2, <1>6 DEF NewestInv
<1>9. SaidInv'
  BY <1>1, <1>2, <1>4, <1>5 DEF SaidInv
<1> QED
  BY <1>1, <1>2, <1>7, <1>8, <1>9 DEF SinkInv, CursorInv

LEMMA AgainPreserves == SinkInv /\ PostAgain => SinkInv'
<1> SUFFICES ASSUME SinkInv, PostAgain PROVE SinkInv'
  OBVIOUS
<1>1. SinkTypes /\ RoomInv /\ NewestInv /\ SaidInv /\ CursorInv
  BY DEF SinkInv
<1>2. /\ post.at = "again" /\ post' = [at |-> "idle", e |-> NoEvent]
      /\ events' = Append(events, post.e)
      /\ UNCHANGED <<dropped, lastAt, injecting, sinkClosed, held, cursor, posted, said, saidAt, newest, missed>>
  BY <1>1 DEF PostAgain, RoomInv
<1>3. /\ post.e \in Events /\ events \in Seq(Events) /\ Len(events) < Cap
      /\ Len(events) \in Nat /\ Cap \in Nat \ {0}
  BY <1>1, <1>2, PendingFacts DEF SinkTypes, RoomInv
<1>4. events' \in Seq(Events) /\ Len(events') <= Cap
  BY <1>2, <1>3
<1>5. Pending' = Pending
  BY <1>2 DEF Pending
<1>6. SinkTypes' /\ RoomInv'
  BY <1>1, <1>2, <1>4 DEF SinkTypes, RoomInv
<1> QED
  BY <1>1, <1>2, <1>5, <1>6 DEF SinkInv, NewestInv, SaidInv, CursorInv

\* An event that is injected is the first that is pending.
LEMMA RunPreserves == SinkInv /\ RunOne => SinkInv'
<1> SUFFICES ASSUME SinkInv, RunOne PROVE SinkInv'
  OBVIOUS
<1>1. SinkTypes /\ RoomInv /\ NewestInv /\ SaidInv /\ CursorInv
  BY DEF SinkInv
<1>2. /\ events # <<>> /\ events' = Tail(events)
      /\ UNCHANGED <<post, injecting, sinkClosed, posted, said, saidAt, newest, dropped>>
  BY DEF RunOne
<1>3. PICK e \in Events : e = Head(events) /\ Inject(e) /\ e = Head(Pending)
  BY <1>1, <1>2, PendingFacts DEF RunOne
<1>4. /\ held' \subseteq Controls /\ cursor' \in Spots \cup {Origin} /\ lastAt' \in Spots \cup {Origin}
      /\ missed' \in BOOLEAN /\ (missed => missed')
      /\ lastAt' = IF Points(e) THEN e.at ELSE lastAt
      /\ ~missed' =>
           /\ \A ctl \in Controls : ctl \in held' <=> (IF About(e, ctl) THEN e.down ELSE ctl \in held)
           /\ cursor' = IF e.k \in {"mv", "btn"} THEN lastAt' ELSE cursor
  BY <1>1, <1>3, InjectFacts
<1>5. events \in Seq(Events) /\ events' \in Seq(Events) /\ Len(events') < Len(events) /\ Len(events) \in Nat
      /\ Len(events') \in Nat /\ Len(events) <= Cap /\ Cap \in Nat
  BY <1>1, <1>2, PendingFacts DEF SinkTypes
<1>6. Pending' = Tail(Pending) /\ Pending # <<>> /\ Pending \in Seq(Events)
  BY <1>1, <1>2, PendingFacts DEF Pending
<1>7. SinkTypes' /\ RoomInv'
  <2>1. Len(events') <= Cap /\ (Len(events) < Cap => Len(events') < Cap)
    BY <1>5
  <2> QED
    BY <1>1, <1>2, <1>4, <1>5, <2>1 DEF SinkTypes, RoomInv
<1>8. NewestInv'
  <2>1. newest \in Events /\ newest # NoEvent /\ Pending[Len(Pending)] = newest
    BY <1>1, <1>6 DEF NewestInv
  <2>2. Pending' # <<>> => Pending'[Len(Pending')] = newest
    BY <1>6, <2>1
  <2>3. ASSUME Pending' = <<>>, ~missed'
        PROVE  /\ \A ctl \in Controls : About(newest, ctl) => (ctl \in held' <=> newest.down)
               /\ Points(newest) => cursor' = newest.at
    <3>1. newest = e
      <4>1. Len(Pending) = 1
        <5>1. Len(Tail(Pending)) = Len(Pending) - 1 /\ Len(Pending) \in Nat
          BY <1>6
        <5>2. Tail(Pending) = <<>>
          BY <1>6, <2>3
        <5>3. \A p \in Seq(Events) : p = <<>> => Len(p) = 0
          OBVIOUS
        <5>4. Tail(Pending) \in Seq(Events)
          BY <1>6
        <5>5. Len(Tail(Pending)) = 0
          BY <5>2, <5>3, <5>4, Zenon
        <5> QED
          BY <5>1, <5>5
      <4> QED
        BY <1>3, <1>6, <2>1, <4>1
    <3>2. Points(e) => e.k \in {"mv", "btn"}
      BY DEF Points
    <3> QED
      BY <1>4, <2>3, <3>1, <3>2, EventFacts
  <2> QED
    BY <1>2, <2>1, <2>2, <2>3 DEF NewestInv
<1>9. SaidInv'
  <2> SUFFICES ASSUME ~dropped, ~missed'
               PROVE  /\ \A ctl \in Controls : ctl \in said <=> \/ Downs(Pending', ctl)
                                                                \/ Untouched(Pending', ctl) /\ ctl \in held'
                      /\ PointsTo(Pending', saidAt) \/ (Still(Pending') /\ lastAt' = saidAt)
    BY <1>2 DEF SaidInv
  <2>1. ~missed
    BY <1>4
  <2>2. ASSUME NEW ctl \in Controls
        PROVE  ctl \in said <=> \/ Downs(Pending', ctl)
                                \/ Untouched(Pending', ctl) /\ ctl \in held'
    <3>1. ctl \in said <=> \/ Downs(Pending, ctl)
                           \/ Untouched(Pending, ctl) /\ ctl \in held
      BY <1>1, <2>1 DEF SaidInv
    <3>2. /\ Untouched(Pending, ctl) <=> Untouched(Pending', ctl) /\ ~About(e, ctl)
          /\ Downs(Pending, ctl) <=> Downs(Pending', ctl) \/ (Untouched(Pending', ctl) /\ About(e, ctl) /\ e.down)
      BY <1>3, <1>6, TailLeaves
    <3> QED
      BY <1>4, <3>1, <3>2, EventFacts
  <2>3. /\ Still(Pending) <=> Still(Pending') /\ ~Points(e)
        /\ PointsTo(Pending, saidAt) <=> PointsTo(Pending', saidAt) \/ (Still(Pending') /\ Points(e) /\ e.at = saidAt)
    BY <1>3, <1>6, TailLeaves
  <2>4. PointsTo(Pending', saidAt) \/ (Still(Pending') /\ lastAt' = saidAt)
    BY <1>1, <1>4, <2>1, <2>3 DEF SaidInv
  <2> QED
    BY <2>2, <2>4
<1>10. CursorInv'
  <2>1. e.k \notin {"mv", "btn"} => ~Points(e)
    BY DEF Points
  <2> QED
    BY <1>1, <1>4, <2>1 DEF CursorInv
<1> QED
  BY <1>7, <1>8, <1>9, <1>10 DEF SinkInv

LEMMA SinkPreserves == SinkInv /\ [SinkNext]_sinkVars => SinkInv'
<1>1. SinkInv /\ (CloseSink \/ RunEnds \/ UNCHANGED sinkVars) => SinkInv'
  BY DEF CloseSink, RunEnds, sinkVars, SinkInv, SinkTypes, RoomInv, NewestInv, SaidInv, CursorInv, Pending
<1> QED
  BY <1>1, PostPreserves, DropPreserves, AgainPreserves, RunPreserves DEF SinkNext

LEMMA SinkImplies == SinkInv => SinkTypeOK /\ InputAsSaid
<1> SUFFICES ASSUME SinkInv PROVE SinkTypeOK /\ InputAsSaid
  OBVIOUS
<1>1. SinkTypes /\ NewestInv /\ SaidInv /\ CursorInv
  BY DEF SinkInv
<1>2. SinkTypeOK
  BY <1>1 DEF SinkTypes, SinkTypeOK
<1>3. ASSUME events = <<>>, post.at = "idle", newest # NoEvent, ~missed
      PROVE  /\ ~dropped => held = said /\ cursor = saidAt
             /\ newest.k = "btn" => (ButtonOf(newest) \in held) = newest.down
             /\ (newest.k = "key" /\ HidToVk(newest.what) # 0) => (KeyOf(newest) \in held) = newest.down
             /\ (newest.at # Origin) => cursor = newest.at
  <2>1. Pending = <<>>
    BY <1>3 DEF Pending
  <2>2. ~dropped => held = said /\ cursor = saidAt
    <3>1. ASSUME ~dropped PROVE held = said
      <4>1. held \subseteq Controls /\ said \subseteq Controls
        BY <1>1 DEF SinkTypes
      <4>2. \A ctl \in Controls : ctl \in said <=> ctl \in held
        BY <1>1, <1>3, <2>1, <3>1, EmptyLeaves DEF SaidInv
      <4> QED
        BY <4>1, <4>2
    <3>2. ASSUME ~dropped PROVE cursor = saidAt
      BY <1>1, <1>3, <2>1, <3>2, EmptyLeaves DEF SaidInv, CursorInv
    <3> QED
      BY <3>1, <3>2
  <2>3. /\ newest \in Events
        /\ \A ctl \in Controls : About(newest, ctl) => (ctl \in held <=> newest.down)
        /\ Points(newest) => cursor = newest.at
    BY <1>1, <1>3, <2>1 DEF NewestInv
  <2>4. newest.down \in BOOLEAN
    BY <2>3, EventFacts
  <2>5. newest.k = "btn" => (ButtonOf(newest) \in held <=> newest.down)
    BY <2>3, EventFacts DEF About
  <2>6. newest.k = "key" /\ HidToVk(newest.what) # 0 => (KeyOf(newest) \in held <=> newest.down)
    BY <2>3, EventFacts DEF About
  <2>7. newest.at # Origin => cursor = newest.at
    BY <2>3, EventFacts DEF Points
  <2> QED
    BY <2>2, <2>4, <2>5, <2>6, <2>7
<1> QED
  BY <1>2, <1>3 DEF InputAsSaid

\* The host's buttons, keys and pointer end up as the viewers said, and a full queue never
\* loses the newest event (inject_windows.go).
THEOREM InputFollowed == SinkSpec => [](SinkTypeOK /\ InputAsSaid)
BY SinkStarts, SinkPreserves, SinkImplies, PTL DEF SinkSpec

-----------------------------------------------------------------------------
(***************************************************************************)
(* The file of a recording (Recording).                                    *)
(***************************************************************************)

LEMMA Parted ==
  ASSUME NEW n \in Nat
  PROVE  \E q \in Nat, r \in Nat : n = 256 * q + r /\ r < 256
<1>1. n = 256 * (n \div 256) + (n % 256) /\ n % 256 \in 0 .. 255 /\ n \div 256 \in Nat
  OBVIOUS
<1>2. n % 256 \in Nat /\ n % 256 < 256
  BY <1>1
<1> WITNESS n \div 256 \in Nat, n % 256 \in Nat
<1> QED BY <1>1, <1>2

\* A number below 2^31 is given back by its bytes.
LEMMA BytesJoin ==
  ASSUME NEW n \in Nat
  PROVE  /\ Byte(n, 1) \in 0 .. 255 /\ Byte(n, 256) \in 0 .. 255
         /\ Byte(n, 256 * 256) \in 0 .. 255 /\ Byte(n, 256 * 256 * 256) \in 0 .. 255
         /\ n < 256 => Byte(n, 1) = n
         /\ n < 256 * 256 => 256 * Byte(n, 256) + Byte(n, 1) = n
         /\ n < 256 * 256 * 256 => 256 * (256 * Byte(n, 256 * 256) + Byte(n, 256)) + Byte(n, 1) = n
         /\ n < 128 * 256 * 256 * 256 =>
              256 * (256 * (256 * Byte(n, 256 * 256 * 256) + Byte(n, 256 * 256)) + Byte(n, 256))
                + Byte(n, 1) = n
<1>1. PICK q1 \in Nat, r1 \in Nat : n = 256 * q1 + r1 /\ r1 < 256
  BY Parted
<1>2. PICK q2 \in Nat, r2 \in Nat : q1 = 256 * q2 + r2 /\ r2 < 256
  BY Parted
<1>3. PICK q3 \in Nat, r3 \in Nat : q2 = 256 * q3 + r3 /\ r3 < 256
  BY Parted
<1>4. PICK q4 \in Nat, r4 \in Nat : q3 = 256 * q4 + r4 /\ r4 < 256
  BY Parted
<1>5. /\ n = 256 * q1 + r1 /\ q1 = 256 * q2 + r2 /\ q2 = 256 * q3 + r3 /\ q3 = 256 * q4 + r4
      /\ r1 < 256 /\ r2 < 256 /\ r3 < 256 /\ r4 < 256
  BY <1>1, <1>2, <1>3, <1>4
<1>6. Byte(n, 1) = r1
  BY <1>5 DEF Byte
<1>7. Byte(n, 256) = r2
  <2>1. n \div 256 = q1
    BY <1>5
  <2>2. q1 % 256 = r2
    BY <1>5
  <2> QED BY <2>1, <2>2 DEF Byte
<1>8. Byte(n, 256 * 256) = r3
  <2>1. PICK r \in Nat : r = 256 * r2 + r1
    BY <1>5
  <2>2. n = (256 * 256) * q2 + r /\ r < 256 * 256
    BY <1>5, <2>1
  <2>3. n \div (256 * 256) = q2
    BY <2>2
  <2>4. q2 % 256 = r3
    BY <1>5
  <2> QED BY <2>3, <2>4 DEF Byte
<1>9. Byte(n, 256 * 256 * 256) = r4
  <2>1. PICK r \in Nat : r = 256 * (256 * r3 + r2) + r1
    BY <1>5
  <2>2. n = (256 * 256 * 256) * q3 + r /\ r < 256 * 256 * 256
    BY <1>5, <2>1
  <2>3. n \div (256 * 256 * 256) = q3
    BY <2>2
  <2>4. q3 % 256 = r4
    BY <1>5
  <2> QED BY <2>3, <2>4 DEF Byte
<1>10. n < 256 => q1 = 0 /\ q2 = 0
  BY <1>5
<1>11. n < 256 * 256 => q2 = 0
  BY <1>5
<1>12. n < 256 * 256 * 256 => q3 = 0
  BY <1>5
<1>13. n < 128 * 256 * 256 * 256 => q4 = 0
  BY <1>5
<1>14. /\ r1 \in 0 .. 255 /\ r2 \in 0 .. 255 /\ r3 \in 0 .. 255 /\ r4 \in 0 .. 255
  BY <1>5
<1>15. /\ n < 256 => r1 = n
       /\ n < 256 * 256 => 256 * r2 + r1 = n
       /\ n < 256 * 256 * 256 => 256 * (256 * r3 + r2) + r1 = n
       /\ n < 128 * 256 * 256 * 256 => 256 * (256 * (256 * r4 + r3) + r2) + r1 = n
  BY <1>5, <1>10, <1>11, <1>12, <1>13
<1> QED BY <1>6, <1>7, <1>8, <1>9, <1>14, <1>15
LEMMA SizesRead ==
  ASSUME NEW n \in Nat, n < 128 * 256 * 256 * 256
  PROVE  ReadSize(EncodeSize(n)) = n /\ ~Unknown(EncodeSize(n))
<1>1. PICK b : b = EncodeSize(n)
  OBVIOUS
<1>2. PICK w, x, y, z : /\ w = Byte(n, 256 * 256 * 256) /\ x = Byte(n, 256 * 256)
                         /\ y = Byte(n, 256) /\ z = Byte(n, 1)
  OBVIOUS
<1>9. w \in 0 .. 255 /\ x \in 0 .. 255 /\ y \in 0 .. 255 /\ z \in 0 .. 255
  BY <1>2, BytesJoin
<1>3. /\ n < 256 => z = n
      /\ n < 256 * 256 => 256 * y + z = n
      /\ n < 256 * 256 * 256 => 256 * (256 * x + y) + z = n
      /\ 256 * (256 * (256 * w + x) + y) + z = n
  BY <1>2, BytesJoin
<1>4. CASE n < 127
  <2>1. b = <<128 + z>> /\ z = n
    BY <1>1, <1>2, <1>3, <1>4 DEF EncodeSize
  <2>2. b[1] = 128 + n /\ Len(b) = 1
    BY <2>1, <1>9
  <2>3. ReadSize(b) = n
    BY <2>2, <1>4, <1>9 DEF ReadSize
  <2>4. ~Unknown(b)
    BY <2>1, <2>2, <1>4 DEF Unknown
  <2> QED BY <1>1, <2>3, <2>4
<1>5. CASE n >= 127 /\ n < 128 * 128 - 1
  <2>1. b = <<64 + y, z>> /\ 256 * y + z = n
    BY <1>1, <1>2, <1>3, <1>5 DEF EncodeSize
  <2>2. b[1] = 64 + y /\ b[2] = z /\ Len(b) = 2 /\ y < 64 /\ ~(y = 63 /\ z = 255)
    BY <2>1, <1>5, <1>9
  <2>3. ReadSize(b) = n
    BY <2>1, <2>2, <1>9 DEF ReadSize, ReadTwo
  <2>4. ~Unknown(b)
    BY <2>1, <2>2, <1>9 DEF Unknown
  <2> QED BY <1>1, <2>3, <2>4
<1>6. CASE n >= 128 * 128 - 1 /\ n < 128 * 128 * 128 - 1
  <2>1. b = <<32 + x, y, z>> /\ 256 * (256 * x + y) + z = n
    BY <1>1, <1>2, <1>3, <1>6 DEF EncodeSize
  <2>2. /\ b[1] = 32 + x /\ b[2] = y /\ b[3] = z /\ Len(b) = 3 /\ x < 32
        /\ ~(x = 31 /\ y = 255 /\ z = 255)
    BY <2>1, <1>6, <1>9
  <2>3. ReadSize(b) = n
    BY <2>1, <2>2, <1>9 DEF ReadSize, ReadTwo, ReadThree
  <2>4. ~Unknown(b)
    BY <2>1, <2>2, <1>9 DEF Unknown
  <2> QED BY <1>1, <2>3, <2>4
<1>7. CASE n >= 128 * 128 * 128 - 1 /\ n < 128 * 128 * 128 * 128 - 1
  <2>1. b = <<16 + w, x, y, z>>
    BY <1>1, <1>2, <1>7 DEF EncodeSize, LowBytes
  <2>2. /\ b[1] = 16 + w /\ b[2] = x /\ b[3] = y /\ b[4] = z /\ Len(b) = 4 /\ w < 16
        /\ ~(w = 15 /\ x = 255 /\ y = 255 /\ z = 255)
    BY <2>1, <1>3, <1>7, <1>9
  <2>3. ReadSize(b) = n
    BY <1>3, <2>2, <1>9 DEF ReadSize, ReadTwo, ReadThree, ReadFour
  <2>4. ~Unknown(b)
    BY <2>1, <2>2, <1>9 DEF Unknown
  <2> QED BY <1>1, <2>3, <2>4
<1>8. CASE n >= 128 * 128 * 128 * 128 - 1
  <2>1. b = <<1, 0, 0, 0>> \o <<0 + w, x, y, z>>
    BY <1>1, <1>2, <1>8 DEF EncodeSize, LowBytes
  <2>2. /\ b[1] = 1 /\ b[2] = 0 /\ b[3] = 0 /\ b[4] = 0
        /\ b[5] = w /\ b[6] = x /\ b[7] = y /\ b[8] = z /\ Len(b) = 8
    BY <2>1, <1>9
  <2>3. ReadSize(b) = n
    BY <1>3, <2>2, <1>9 DEF ReadSize, ReadTwo, ReadThree, ReadFour
  <2>4. ~Unknown(b)
    BY <2>2, <1>9 DEF Unknown
  <2> QED BY <1>1, <2>3, <2>4
<1> QED BY <1>4, <1>5, <1>6, <1>7, <1>8

LEMMA TimesRead ==
  ASSUME NEW rel \in Nat, rel < 128 * 256
  PROVE  ReadRel(BlockTime(rel)) = rel
<1>1. PICK y, z : y = Byte(rel, 256) /\ z = Byte(rel, 1)
  OBVIOUS
<1>3. y \in 0 .. 255 /\ z \in 0 .. 255 /\ 256 * y + z = rel
  BY <1>1, BytesJoin
<1>2. BlockTime(rel) = <<y, z>>
  BY <1>1 DEF BlockTime
<1> QED BY <1>2, <1>3 DEF ReadRel, ReadTwo

LEMMA Halves ==
  ASSUME NEW a \in Nat, NEW b \in Nat, NEW c \in Nat, a <= b, b <= c
  PROVE  /\ c \div 2 - (a \div 2 + ((c - a) \div 2)) \in {0, 1}
         /\ a \div 2 + ((b - a) \div 2) <= a \div 2 + ((c - a) \div 2)
         /\ a \div 2 + ((b - a) \div 2) <= c \div 2
         /\ a \div 2 \in Nat /\ (c - a) \div 2 \in Nat
OBVIOUS

\* An element is in one cluster.
LEMMA InOne ==
  ASSUME NEW film, NEW i \in Nat, NEW j, IsIn(film, i, j)
  PROVE  PlaysAt(film, i) = film[j].time + ReadRel(film[i].rel)
<1>1. PICK c : c = CHOOSE k \in 1 .. i : IsIn(film, i, k)
  OBVIOUS
<1>2. IsIn(film, i, c) /\ c \in 1 .. i
  BY <1>1 DEF IsIn
<1>3. c = j
  BY <1>2 DEF IsIn
<1> QED BY <1>1, <1>3 DEF PlaysAt

\* What the file is made of.
Elements == {[is |-> "header"], [is |-> "part"]} \cup {Cluster(t) : t \in Nat}
              \cup {SimpleBlock(n, t, start) : n \in Lengths, t \in Nat, start \in Nat}

RecFileTyped ==
  /\ ts \in Nat /\ clusterStart \in 0 .. ts
  /\ clusterOpen \in BOOLEAN /\ fileClosed \in BOOLEAN /\ failed \in BOOLEAN
  /\ webm \in Seq(Elements)

LEMMA RecFileImplies == RecFileTyped => RecFileTypeOK
<1>1. \A e \in Elements : e.is \in {"header", "cluster", "block", "part"}
  BY DEF Elements, Cluster, SimpleBlock
<1> QED BY <1>1 DEF RecFileTyped, RecFileTypeOK

LEMMA RecFileStarts == RecFileInit => RecFileTyped
<1>1. <<[is |-> "header"]>> \in Seq(Elements)
  BY DEF Elements
<1> SUFFICES ASSUME RecFileInit PROVE RecFileTyped
  OBVIOUS
<1>2. ts \in Nat /\ clusterStart \in 0 .. ts
  BY DEF RecFileInit
<1>3. clusterOpen \in BOOLEAN /\ fileClosed \in BOOLEAN /\ failed \in BOOLEAN
  BY DEF RecFileInit
<1>4. webm \in Seq(Elements)
  BY <1>1 DEF RecFileInit
<1> QED BY <1>2, <1>3, <1>4 DEF RecFileTyped

LEMMA RecFileKept == RecFileTyped /\ [RecFileNext]_recFileVars => RecFileTyped'
<1> SUFFICES ASSUME RecFileTyped, [RecFileNext]_recFileVars PROVE RecFileTyped'
  OBVIOUS
<1>1. CASE UNCHANGED recFileVars
  BY <1>1 DEF recFileVars, RecFileTyped
<1>2. CASE StopFile
  BY <1>2 DEF StopFile, RecFileTyped
<1>3. ASSUME NEW length \in Lengths, NEW gap \in Gaps, WriteFrame(length, gap)
      PROVE  RecFileTyped'
  <2>1. PICK start, head :
          /\ start \in {clusterStart, ts + gap} /\ head \in {<<Cluster(ts + gap)>>, <<>>}
          /\ ts' = ts + gap /\ clusterOpen' = TRUE /\ clusterStart' = start
          /\ \/ webm' = webm \o head \o <<SimpleBlock(length, ts + gap, start)>> /\ UNCHANGED failed
             \/ \E p \in Broken : webm' = webm \o head \o p /\ failed' = TRUE
             \/ (\E p \in Broken : webm' = webm \o p) /\ failed' = TRUE
          /\ UNCHANGED fileClosed
    BY <1>3 DEF WriteFrame, NewStart
  <2>2. ts' \in Nat /\ start \in Nat /\ start \in 0 .. ts'
    BY <2>1, RecordingAssumption DEF RecFileTyped
  <2>3. Cluster(ts + gap) \in Elements /\ SimpleBlock(length, ts + gap, start) \in Elements
        /\ [is |-> "part"] \in Elements
    BY <2>1, <2>2 DEF Elements
  <2>4. PICK block : block = SimpleBlock(length, ts + gap, start)
    OBVIOUS
  <2>5. webm \in Seq(Elements) /\ head \in Seq(Elements) /\ <<block>> \in Seq(Elements)
        /\ \A p \in Broken : p \in Seq(Elements)
    <3>1. \A e \in Elements : <<e>> \in Seq(Elements)
      OBVIOUS
    <3>2. <<>> \in Seq(Elements)
      OBVIOUS
    <3> QED BY <2>1, <2>3, <2>4, <3>1, <3>2 DEF RecFileTyped, Broken
  <2>6. \A s, t \in Seq(Elements) : s \o t \in Seq(Elements)
    OBVIOUS
  <2>7. webm' \in Seq(Elements)
    BY <2>1, <2>4, <2>5, <2>6
  <2>8. failed' \in BOOLEAN
    BY <2>1 DEF RecFileTyped
  <2> QED BY <2>1, <2>2, <2>7, <2>8 DEF RecFileTyped
<1> QED BY <1>1, <1>2, <1>3 DEF RecFileNext

\* A block that a player finds in a cluster, with the length and the time of its frame.
BlockRight(film, i) ==
  /\ \E j \in 1 .. i : IsIn(film, i, j)
  /\ ReadSize(film[i].size) = film[i].length + 4 /\ ~Unknown(film[i].size)
  /\ PlaysAt(film, i) \in Int /\ film[i].at \div 2 - PlaysAt(film, i) \in {0, 1}

BlocksRight(film) ==
  /\ \A i \in DOMAIN film : film[i].is = "block" => BlockRight(film, i)
  /\ \A i, j \in DOMAIN film :
       j <= i /\ film[i].is = "block" /\ film[j].is = "block" => PlaysAt(film, j) <= PlaysAt(film, i)

\* What a player knows of the time of the last frame.
Reached == clusterStart \div 2 + ((ts - clusterStart) \div 2)

PartsLast(film) == \A i \in DOMAIN film : film[i].is = "part" => i = Len(film)

\* Until a write has failed every element is whole, no block is after the last frame, and the
\* open cluster is the last one.
CurrentInv ==
  /\ \A i \in DOMAIN webm : webm[i].is # "part"
  /\ \A i \in DOMAIN webm : webm[i].is = "block" => PlaysAt(webm, i) <= Reached
  /\ clusterOpen => \E c \in DOMAIN webm : IsIn(webm, Len(webm), c) /\ webm[c] = Cluster(clusterStart)

RecFileInv ==
  /\ RecFileTyped
  /\ BlocksRight(webm)
  /\ PartsLast(webm)
  /\ ~failed => CurrentInv

LEMMA RecFilePlays == RecFileInv => RecFileTypeOK /\ RecordingPlays
<1> SUFFICES ASSUME RecFileInv PROVE RecFileTypeOK /\ RecordingPlays
  OBVIOUS
<1>1. RecFileTypeOK
  BY RecFileImplies DEF RecFileInv
<1>2. PartsLast(webm) /\ BlocksRight(webm) /\ webm \in Seq(Elements)
  BY DEF RecFileInv, RecFileTyped
<1>3. ASSUME NEW i \in DOMAIN webm, webm[i].is = "block"
      PROVE  /\ \E j \in 1 .. i : webm[j].is = "cluster"
             /\ ReadSize(webm[i].size) = webm[i].length + 4 /\ ~Unknown(webm[i].size)
             /\ webm[i].at \div 2 - PlaysAt(webm, i) \in {0, 1}
             /\ \A j \in 1 .. i : webm[j].is = "block" => PlaysAt(webm, j) <= PlaysAt(webm, i)
  <2>1. BlockRight(webm, i)
    BY <1>2, <1>3 DEF BlocksRight
  <2>2. \E j \in 1 .. i : webm[j].is = "cluster"
    BY <2>1 DEF BlockRight, IsIn
  <2>3. \A j \in 1 .. i : j \in DOMAIN webm /\ j <= i
    BY <1>2
  <2>4. \A j \in 1 .. i : webm[j].is = "block" => PlaysAt(webm, j) <= PlaysAt(webm, i)
    BY <1>2, <1>3, <2>3 DEF BlocksRight
  <2> QED BY <2>1, <2>2, <2>4 DEF BlockRight
<1> QED BY <1>1, <1>2, <1>3 DEF RecordingPlays, PartsLast

\* What is written later changes nothing about a block.
LEMMA BlockStays ==
  ASSUME NEW S, NEW film \in Seq(S), NEW more \in Seq(S), NEW i \in DOMAIN film, BlockRight(film, i)
  PROVE  BlockRight(film \o more, i) /\ PlaysAt(film \o more, i) = PlaysAt(film, i)
<1>1. PICK longer : longer = film \o more
  OBVIOUS
<1>2. i \in Nat /\ \A k \in 1 .. i : longer[k] = film[k]
  BY <1>1
<1>3. PICK j \in 1 .. i : IsIn(film, i, j)
  BY DEF BlockRight
<1>4. longer[i] = film[i] /\ longer[j] = film[j]
  BY <1>2, <1>3
<1>5. IsIn(longer, i, j)
  <2>1. \A k \in j + 1 .. i : k \in 1 .. i
    BY <1>2, <1>3
  <2> QED BY <1>2, <1>3, <1>4, <2>1 DEF IsIn
<1>6. PlaysAt(longer, i) = PlaysAt(film, i)
  <2>1. PlaysAt(longer, i) = longer[j].time + ReadRel(longer[i].rel)
    BY <1>2, <1>5, InOne
  <2>2. PlaysAt(film, i) = film[j].time + ReadRel(film[i].rel)
    BY <1>2, <1>3, InOne
  <2> QED BY <1>4, <2>1, <2>2
<1>7. BlockRight(longer, i)
  BY <1>4, <1>5, <1>3, <1>6 DEF BlockRight
<1> QED BY <1>1, <1>6, <1>7

\* Nor does an element that is no block.
LEMMA AddOther ==
  ASSUME NEW S, NEW film \in Seq(S), BlocksRight(film), NEW e \in S, e.is # "block"
  PROVE  /\ BlocksRight(film \o <<e>>)
         /\ \A i \in DOMAIN (film \o <<e>>) : (film \o <<e>>)[i].is = "block" =>
              i \in DOMAIN film /\ film[i].is = "block"
              /\ PlaysAt(film \o <<e>>, i) = PlaysAt(film, i)
<1>1. PICK longer : longer = film \o <<e>>
  OBVIOUS
<1>2. <<e>> \in Seq(S)
  OBVIOUS
<1>3. DOMAIN longer = 1 .. Len(film) + 1 /\ longer[Len(film) + 1] = e /\ DOMAIN film = 1 .. Len(film)
      /\ \A i \in DOMAIN film : longer[i] = film[i]
  BY <1>1
<1>4. \A i \in DOMAIN longer : longer[i].is = "block" => i \in DOMAIN film /\ film[i].is = "block"
  <2> SUFFICES ASSUME NEW i \in DOMAIN longer, longer[i].is = "block"
               PROVE  i \in DOMAIN film /\ film[i].is = "block"
    OBVIOUS
  <2>1. i # Len(film) + 1
    BY <1>3
  <2>2. i \in DOMAIN film
    BY <1>3, <2>1
  <2> QED BY <1>3, <2>2
<1>5. ASSUME NEW i \in DOMAIN longer, longer[i].is = "block"
      PROVE  BlockRight(longer, i) /\ PlaysAt(longer, i) = PlaysAt(film, i)
  <2>1. i \in DOMAIN film /\ BlockRight(film, i)
    BY <1>4, <1>5 DEF BlocksRight
  <2> QED BY <1>1, <1>2, <2>1, BlockStays
<1>6. BlocksRight(longer)
  BY <1>4, <1>5 DEF BlocksRight
<1> QED BY <1>1, <1>4, <1>5, <1>6

\* A block that is written to the last cluster, for a frame not before those of the file.
LEMMA AddBlock ==
  ASSUME NEW S, NEW film \in Seq(S), BlocksRight(film),
         NEW length \in Lengths, NEW t \in Nat, NEW start \in 0 .. t, (t - start) \div 2 < 128 * 256,
         NEW b \in S, b = SimpleBlock(length, t, start),
         NEW c \in DOMAIN film, IsIn(film, Len(film), c), film[c] = Cluster(start),
         \A i \in DOMAIN film : film[i].is = "block" =>
           PlaysAt(film, i) <= start \div 2 + ((t - start) \div 2)
  PROVE  /\ BlocksRight(film \o <<b>>)
         /\ \A i \in DOMAIN (film \o <<b>>) : (film \o <<b>>)[i].is = "block" =>
              PlaysAt(film \o <<b>>, i) <= start \div 2 + ((t - start) \div 2)
         /\ IsIn(film \o <<b>>, Len(film) + 1, c)
<1>1. PICK longer, end : longer = film \o <<b>> /\ end = Len(film) + 1
  OBVIOUS
<1>2. <<b>> \in Seq(S) /\ Len(film) \in Nat /\ end \in Nat
  BY <1>1
<1>3. /\ DOMAIN longer = 1 .. end /\ longer[end] = b /\ DOMAIN film = 1 .. Len(film)
      /\ \A i \in DOMAIN film : longer[i] = film[i]
  BY <1>1
<1>4. b.is = "block" /\ b.size = EncodeSize(length + 4) /\ b.rel = BlockTime((t - start) \div 2)
      /\ b.length = length /\ b.at = t
  BY DEF SimpleBlock
<1>5. IsIn(longer, end, c)
  <2>1. c \in 1 .. end /\ longer[c].is = "cluster"
    BY <1>1, <1>2, <1>3 DEF IsIn
  <2>2. ASSUME NEW k \in c + 1 .. end PROVE longer[k].is # "cluster"
    <3>1. CASE k = end
      BY <1>3, <1>4, <3>1
    <3>2. CASE k # end
      <4>1. k \in c + 1 .. Len(film) /\ k \in DOMAIN film
        BY <1>1, <1>2, <1>3, <3>2
      <4> QED BY <1>3, <4>1 DEF IsIn
    <3> QED BY <3>1, <3>2
  <2> QED BY <2>1, <2>2 DEF IsIn
<1>6. PICK rel : rel = (t - start) \div 2
  OBVIOUS
<1>7. /\ rel \in Nat /\ rel < 128 * 256 /\ start \div 2 \in Nat
      /\ t \div 2 - (start \div 2 + rel) \in {0, 1}
  BY <1>6, Halves
<1>8. PlaysAt(longer, end) = start \div 2 + rel
  <2>1. PlaysAt(longer, end) = longer[c].time + ReadRel(longer[end].rel)
    BY <1>2, <1>5, InOne
  <2>2. longer[c].time = start \div 2
    BY <1>3 DEF Cluster
  <2>3. ReadRel(longer[end].rel) = rel
    BY <1>3, <1>4, <1>6, <1>7, TimesRead
  <2> QED BY <2>1, <2>2, <2>3
<1>9. BlockRight(longer, end)
  <2>1. \E j \in 1 .. end : IsIn(longer, end, j)
    BY <1>5 DEF IsIn
  <2>2. length + 4 \in Nat /\ length + 4 < 128 * 256 * 256 * 256
    BY RecordingAssumption
  <2>3. ReadSize(longer[end].size) = longer[end].length + 4 /\ ~Unknown(longer[end].size)
    BY <1>3, <1>4, <2>2, SizesRead
  <2>4. PlaysAt(longer, end) \in Int /\ longer[end].at \div 2 - PlaysAt(longer, end) \in {0, 1}
    BY <1>3, <1>4, <1>7, <1>8
  <2> QED BY <2>1, <2>3, <2>4 DEF BlockRight
<1>10. ASSUME NEW i \in DOMAIN longer, longer[i].is = "block", i # end
       PROVE  /\ i \in DOMAIN film /\ film[i].is = "block"
              /\ BlockRight(longer, i) /\ PlaysAt(longer, i) = PlaysAt(film, i)
  <2>1. i \in DOMAIN film
    BY <1>1, <1>2, <1>3, <1>10
  <2>2. film[i].is = "block" /\ BlockRight(film, i)
    BY <1>3, <1>10, <2>1 DEF BlocksRight
  <2> QED BY <1>1, <1>2, <2>1, <2>2, BlockStays
<1>11. ASSUME NEW i \in DOMAIN longer, longer[i].is = "block"
       PROVE  BlockRight(longer, i) /\ PlaysAt(longer, i) <= start \div 2 + rel
  <2>1. CASE i = end
    BY <1>7, <1>8, <1>9, <2>1
  <2>2. CASE i # end
    BY <1>6, <1>10, <1>11, <2>2
  <2> QED BY <2>1, <2>2
<1>12. ASSUME NEW i \in DOMAIN longer, NEW j \in DOMAIN longer, j <= i,
              longer[i].is = "block", longer[j].is = "block"
       PROVE  PlaysAt(longer, j) <= PlaysAt(longer, i)
  <2>1. CASE i = end
    BY <1>8, <1>11, <1>12, <2>1
  <2>2. CASE i # end
    <3>1. j # end
      BY <1>1, <1>2, <1>3, <1>12, <2>2
    <3> QED BY <1>10, <1>12, <2>2, <3>1 DEF BlocksRight
  <2> QED BY <2>1, <2>2
<1>13. BlocksRight(longer)
  BY <1>11, <1>12 DEF BlocksRight
<1> QED BY <1>1, <1>5, <1>6, <1>11, <1>13

LEMMA RecFileInvStarts == RecFileInit => RecFileInv
<1> SUFFICES ASSUME RecFileInit PROVE RecFileInv
  OBVIOUS
<1>1. webm = <<[is |-> "header"]>> /\ clusterOpen = FALSE
  BY DEF RecFileInit
<1>2. DOMAIN webm = 1 .. 1 /\ webm[1].is = "header"
  BY <1>1
<1>3. \A i \in DOMAIN webm : webm[i].is # "block" /\ webm[i].is # "part"
  BY <1>2
<1> QED BY <1>1, <1>3, RecFileStarts DEF RecFileInv, BlocksRight, PartsLast, CurrentInv

LEMMA RecFileInvKept == RecFileInv /\ [RecFileNext]_recFileVars => RecFileInv'
<1> SUFFICES ASSUME RecFileInv, [RecFileNext]_recFileVars PROVE RecFileInv'
  OBVIOUS
<1>1. RecFileTyped'
  BY RecFileKept DEF RecFileInv
<1>2. CASE UNCHANGED <<ts, clusterOpen, clusterStart, failed, webm>>
  <2>1. BlocksRight(webm') /\ PartsLast(webm')
    BY <1>2 DEF RecFileInv
  <2>2. ~failed' => CurrentInv'
    BY <1>2 DEF RecFileInv, CurrentInv, Reached
  <2> QED BY <1>1, <2>1, <2>2 DEF RecFileInv
<1>3. ASSUME NEW length \in Lengths, NEW gap \in Gaps, WriteFrame(length, gap)
      PROVE  RecFileInv'
  <2>1. PICK t : t = ts + gap
    OBVIOUS
  <2>2. PICK opens \in BOOLEAN :
          opens <=> ~clusterOpen \/ t - clusterStart >= Span \/ (t - clusterStart) \div 2 > MaxRel
    OBVIOUS
  <2>3. PICK start : start = IF opens THEN t ELSE clusterStart
    OBVIOUS
  <2>4. PICK block : block = SimpleBlock(length, t, start)
    OBVIOUS
  <2>5. PICK film : film = IF opens THEN webm \o <<Cluster(t)>> ELSE webm
    OBVIOUS
  <2>6. PICK cut : cut = [is |-> "part"]
    OBVIOUS
  <2>7. webm \in Seq(Elements) /\ BlocksRight(webm) /\ CurrentInv /\ ~failed
    BY <1>3 DEF RecFileInv, RecFileTyped, WriteFrame
  <2>8. /\ ts \in Nat /\ clusterStart \in 0 .. ts /\ t \in Nat /\ ts <= t
        /\ start \in 0 .. t /\ (t - start) \div 2 < 128 * 256
    <3>1. ts \in Nat /\ clusterStart \in 0 .. ts /\ t \in Nat /\ ts <= t
      BY <2>1, RecordingAssumption DEF RecFileInv, RecFileTyped
    <3>2. CASE opens
      BY <2>3, <3>1, <3>2
    <3>3. CASE ~opens
      <4>1. start = clusterStart /\ ~((t - clusterStart) \div 2 > MaxRel)
        BY <2>2, <2>3, <3>3
      <4>2. MaxRel \in Nat /\ MaxRel < 128 * 256
        BY RecordingAssumption
      <4> QED BY <3>1, <4>1, <4>2
    <3> QED BY <3>1, <3>2, <3>3
  <2>9. Cluster(t) \in Elements /\ cut \in Elements /\ block \in Elements
    BY <2>4, <2>6, <2>8 DEF Elements
  <2>10. /\ ts' = t /\ clusterOpen' = TRUE /\ clusterStart' = start
         /\ \/ webm' = film \o <<block>> /\ UNCHANGED failed
            \/ webm' \in {film, film \o <<cut>>, webm, webm \o <<cut>>} /\ failed' = TRUE
    <3>1. /\ ts' = t /\ clusterOpen' = TRUE /\ clusterStart' = start
      BY <1>3, <2>1, <2>2, <2>3 DEF WriteFrame, NewStart
    <3>2. PICK head : head = IF opens THEN <<Cluster(t)>> ELSE <<>>
      OBVIOUS
    <3>3. \/ webm' = webm \o head \o <<block>> /\ UNCHANGED failed
          \/ \E p \in Broken : webm' = webm \o head \o p /\ failed' = TRUE
          \/ (\E p \in Broken : webm' = webm \o p) /\ failed' = TRUE
      BY <1>3, <2>1, <2>2, <2>3, <2>4, <3>2 DEF WriteFrame, NewStart
    <3>4. film = webm \o head /\ film \in Seq(Elements)
      BY <2>5, <2>7, <2>9, <3>2
    <3>5. \A p \in Broken : p = <<>> \/ p = <<cut>>
      BY <2>6 DEF Broken
    <3>6. film \o <<>> = film /\ webm \o <<>> = webm
      BY <2>7, <3>4
    <3> QED BY <3>1, <3>3, <3>4, <3>5, <3>6
  \* Whether the frame opens a cluster or not, what follows is written to the one at c.
  <2>11. /\ film \in Seq(Elements) /\ BlocksRight(film)
         /\ \A i \in DOMAIN film : film[i].is # "part"
         /\ \A i \in DOMAIN film : film[i].is = "block" =>
              PlaysAt(film, i) <= start \div 2 + ((t - start) \div 2)
         /\ \E c \in DOMAIN film : IsIn(film, Len(film), c) /\ film[c] = Cluster(start)
    <3>1. CASE opens
      <4>1. PICK e : e = Cluster(t)
        OBVIOUS
      <4>2. e \in Elements /\ e.is = "cluster" /\ film = webm \o <<e>> /\ start = t
        BY <2>3, <2>5, <2>9, <3>1, <4>1 DEF Cluster
      <4>3. /\ BlocksRight(film)
            /\ \A i \in DOMAIN film : film[i].is = "block" =>
                 i \in DOMAIN webm /\ webm[i].is = "block" /\ PlaysAt(film, i) = PlaysAt(webm, i)
        BY <2>7, <4>2, AddOther
      <4>4. /\ film \in Seq(Elements) /\ Len(film) = Len(webm) + 1 /\ film[Len(film)] = e
            /\ DOMAIN film = 1 .. Len(film) /\ Len(film) \in Nat
            /\ \A i \in DOMAIN film : i # Len(film) => i \in DOMAIN webm /\ film[i] = webm[i]
        BY <2>7, <4>2
      <4>5. \A i \in DOMAIN film : film[i].is # "part"
        BY <2>7, <4>2, <4>4 DEF CurrentInv
      <4>6. IsIn(film, Len(film), Len(film)) /\ Len(film) \in DOMAIN film /\ film[Len(film)] = Cluster(start)
        BY <4>1, <4>2, <4>4 DEF IsIn
      <4>7. Reached <= start \div 2 + ((t - start) \div 2) /\ Reached \in Int
        BY <2>8, <4>2, Halves DEF Reached
      <4>8. start \div 2 + ((t - start) \div 2) \in Int
        BY <2>8
      <4>9. ASSUME NEW i \in DOMAIN film, film[i].is = "block"
            PROVE  PlaysAt(film, i) <= start \div 2 + ((t - start) \div 2)
        <5>1. PlaysAt(webm, i) <= Reached /\ PlaysAt(film, i) = PlaysAt(webm, i)
          BY <2>7, <4>3, <4>9 DEF CurrentInv
        <5>2. PlaysAt(webm, i) \in Int
          BY <2>7, <4>3, <4>9 DEF BlocksRight, BlockRight
        <5> QED BY <4>7, <4>8, <5>1, <5>2
      <4> QED BY <4>3, <4>4, <4>5, <4>6, <4>9
    <3>2. CASE ~opens
      <4>1. film = webm /\ start = clusterStart /\ clusterOpen
        BY <2>2, <2>3, <2>5, <3>2
      <4>2. \E c \in DOMAIN film : IsIn(film, Len(film), c) /\ film[c] = Cluster(start)
        BY <2>7, <4>1 DEF CurrentInv
      <4>3. Reached <= start \div 2 + ((t - start) \div 2) /\ Reached \in Int
        BY <2>8, <4>1, Halves DEF Reached
      <4>4. start \div 2 + ((t - start) \div 2) \in Int
        BY <2>8
      <4>5. ASSUME NEW i \in DOMAIN film, film[i].is = "block"
            PROVE  PlaysAt(film, i) <= start \div 2 + ((t - start) \div 2)
        <5>1. PlaysAt(film, i) <= Reached
          BY <2>7, <4>1, <4>5 DEF CurrentInv
        <5>2. PlaysAt(film, i) \in Int
          BY <2>7, <4>1, <4>5 DEF BlocksRight, BlockRight
        <5> QED BY <4>3, <4>4, <5>1, <5>2
      <4>6. \A i \in DOMAIN film : film[i].is # "part"
        BY <2>7, <4>1 DEF CurrentInv
      <4> QED BY <2>7, <4>1, <4>2, <4>5, <4>6
    <3> QED BY <3>1, <3>2
  <2>12. CASE webm' = film \o <<block>> /\ UNCHANGED failed
    <3>1. PICK longer : longer = film \o <<block>>
      OBVIOUS
    <3>2. PICK c \in DOMAIN film : IsIn(film, Len(film), c) /\ film[c] = Cluster(start)
      BY <2>11
    <3>3. /\ BlocksRight(longer)
          /\ \A i \in DOMAIN longer : longer[i].is = "block" =>
               PlaysAt(longer, i) <= start \div 2 + ((t - start) \div 2)
          /\ IsIn(longer, Len(film) + 1, c)
      BY <2>4, <2>8, <2>9, <2>11, <3>1, <3>2, AddBlock
    <3>4. /\ Len(longer) = Len(film) + 1 /\ DOMAIN longer = 1 .. Len(longer) /\ Len(longer) \in Nat
          /\ longer[Len(longer)] = block /\ DOMAIN film = 1 .. Len(film)
          /\ \A i \in DOMAIN longer : i # Len(longer) => i \in DOMAIN film /\ longer[i] = film[i]
      BY <2>11, <3>1
    <3>5. \A i \in DOMAIN longer : longer[i].is # "part"
      <4>1. block.is = "block"
        BY <2>4 DEF SimpleBlock
      <4> QED BY <2>11, <3>4, <4>1
    <3>6. IsIn(longer, Len(longer), c) /\ c \in DOMAIN longer /\ longer[c] = Cluster(start)
      BY <3>1, <3>2, <3>3, <3>4, <2>11
    <3>7. PartsLast(longer)
      BY <3>5 DEF PartsLast
    <3>8. webm' = longer /\ ts' = t /\ clusterStart' = start
      BY <2>10, <2>12, <3>1
    <3>9. CurrentInv'
      BY <3>3, <3>5, <3>6, <3>8 DEF CurrentInv, Reached
    <3> QED BY <1>1, <3>3, <3>7, <3>8, <3>9 DEF RecFileInv
  <2>13. CASE webm' \in {film, film \o <<cut>>, webm, webm \o <<cut>>} /\ failed' = TRUE
    <3>1. \A i \in DOMAIN webm : webm[i].is # "part"
      BY <2>7 DEF CurrentInv
    <3>2. ASSUME NEW whole \in Seq(Elements), BlocksRight(whole),
                 \A i \in DOMAIN whole : whole[i].is # "part"
          PROVE  /\ PartsLast(whole)
                 /\ BlocksRight(whole \o <<cut>>) /\ PartsLast(whole \o <<cut>>)
      <4>1. cut.is # "block"
        BY <2>6
      <4>2. BlocksRight(whole \o <<cut>>)
        BY <2>9, <3>2, <4>1, AddOther
      <4>3. \A i \in DOMAIN (whole \o <<cut>>) : i # Len(whole \o <<cut>>) =>
              i \in DOMAIN whole /\ (whole \o <<cut>>)[i] = whole[i]
        BY <2>9
      <4>4. PartsLast(whole \o <<cut>>)
        BY <3>2, <4>3 DEF PartsLast
      <4> QED BY <3>2, <4>2, <4>4 DEF PartsLast
    <3>3. \A s \in {film, film \o <<cut>>, webm, webm \o <<cut>>} : BlocksRight(s) /\ PartsLast(s)
      <4>1. PartsLast(film) /\ BlocksRight(film \o <<cut>>) /\ PartsLast(film \o <<cut>>)
        BY <2>11, <3>2
      <4>2. PartsLast(webm) /\ BlocksRight(webm \o <<cut>>) /\ PartsLast(webm \o <<cut>>)
        BY <2>7, <3>1, <3>2
      <4> QED BY <2>7, <2>11, <4>1, <4>2
    <3>4. BlocksRight(webm') /\ PartsLast(webm')
      BY <2>13, <3>3
    <3> QED BY <1>1, <2>13, <3>4 DEF RecFileInv
  <2> QED BY <2>10, <2>12, <2>13
<1> QED
  <2>1. CASE UNCHANGED recFileVars
    BY <1>2, <2>1 DEF recFileVars
  <2>2. CASE StopFile
    BY <1>2, <2>2 DEF StopFile
  <2> QED BY <1>3, <2>1, <2>2 DEF RecFileNext

\* Every block of a recording, of one that was cut short too, can be played: it is in a cluster,
\* its bytes give back the length of its frame and a time at most a millisecond before the
\* frame's, and playback never goes back (webm.go, Write).
THEOREM RecordingsPlay == RecFileSpec => [](RecFileTypeOK /\ RecordingPlays)
BY RecFileInvStarts, RecFileInvKept, RecFilePlays, PTL DEF RecFileSpec

-----------------------------------------------------------------------------
(***************************************************************************)
(* The decisions of the person at the host (ConsentStore).                 *)
(***************************************************************************)

Recalled == [Devices -> Verdicts \cup {"none"}]
Places   == {"new", "dialog", "save", "over"} \cup Saving

StoreTypes ==
  /\ cache \in {Unloaded} \cup Recalled /\ decided \in Recalled
  /\ content \in [Requests \cup {First} -> {Torn} \cup [Devices -> Entries]]
  /\ decisions \in Requests \cup {First, Absent} /\ tmp \in Requests \cup {First, Absent}
  /\ request \in [Requests -> [at : Places, device : Devices \cup {"none"},
                               choice : Verdicts \cup {"none"}]]
  /\ writing \in [Requests -> Requests \cup {First, Absent}]
  /\ snapshot \in [Requests -> {Torn} \cup Recalled]
  /\ reply \in [Requests -> Verdicts \cup {"none"}]
  /\ made \in [Devices -> SUBSET Verdicts]

\* What a request is for, and the files it writes: one of its own only when it opens it.
PlaceInv ==
  /\ tmp # Absent => tmp # decisions
  /\ \A r \in Requests :
      /\ request[r].at # "new" => request[r].device \in Devices
      /\ request[r].at = "new" => reply[r] = "none"
      /\ request[r].at = "save" => request[r].choice \in made[request[r].device]
      /\ request[r].at \in Saving => snapshot[r] \in Recalled
      /\ request[r].at = "fill" => writing[r] \in Requests \cup {First}
      /\ request[r].at \in {"new", "dialog", "save", "open"} => decisions # r /\ tmp # r

\* Whatever is recalled, in memory or in any file, was chosen for its device.
MadeInv ==
  \A d \in Devices :
    /\ cache # Unloaded => cache[d] \in made[d] \cup {"none"}
    /\ \A f \in Requests \cup {First} :
         content[f] # Torn => Migrated(content[f][d]) \in made[d] \cup {"none"}
    /\ \A r \in Requests : request[r].at \in Saving => snapshot[r][d] \in made[d] \cup {"none"}

AnswerInv == \A r \in Requests : reply[r] # "none" => reply[r] \in made[request[r].device]

\* One save at a time writes the temporary file and leaves the decisions alone.
SaveInv ==
  ~overlapped =>
    /\ \A r, q \in Requests : request[r].at \in Saving /\ request[q].at \in Saving => r = q
    /\ decisions # Absent => content[decisions] # Torn
    /\ \A r \in Requests :
         /\ request[r].at = "fill" => writing[r] = tmp /\ content[tmp] = Torn
         /\ request[r].at = "rename" => tmp # Absent /\ content[tmp] = snapshot[r]

\* While no save failed, memory, the save under way and what is in the file are the decisions.
LatestInv ==
  ~overlapped /\ ~unsure =>
    /\ cache \in {Unloaded, decided}
    /\ \A r \in Requests : request[r].at \in Saving => snapshot[r] = decided /\ cache = decided
    /\ (\A r \in Requests : request[r].at \notin Saving) => Decoded(decisions) = decided

StoreInv == StoreTypes /\ PlaceInv /\ MadeInv /\ AnswerInv /\ SaveInv /\ LatestInv

Entered == [at : Places, device : Devices \cup {"none"}, choice : Verdicts \cup {"none"}]

\* A request that moves on is still a request.
LEMMA MovesKeepType ==
  ASSUME NEW all \in [Requests -> Entered], NEW r \in Requests, NEW p \in Places
  PROVE  [all EXCEPT ![r].at = p] \in [Requests -> Entered]
<1>1. [all[r] EXCEPT !.at = p] \in Entered
  BY DEF Entered
<1> QED
  BY <1>1

LEMMA RecalledFacts ==
  /\ Recalled \subseteq [Devices -> Entries] /\ Torn \notin Recalled /\ Unloaded \notin Recalled
  /\ \A v \in Verdicts \cup {"none"} : Migrated(v) = v
  /\ \A entry \in Entries : Migrated(entry) \in Verdicts \cup {"none"}
<1>1. Verdicts \cup {"none"} \subseteq Entries
  BY DEF Entries
<1>2. Recalled \subseteq [Devices -> Entries]
  BY <1>1 DEF Recalled
<1> QED
  BY <1>2, StoreAssumption DEF Recalled, Verdicts, Entries, Migrated

\* Decoding a file gives something to recall, and for a save what was saved.
LEMMA DecodedFacts ==
  ASSUME StoreTypes, NEW f \in Requests \cup {First, Absent}
  PROVE  /\ Decoded(f) \in Recalled
         /\ f # Absent /\ content[f] \in Recalled => Decoded(f) = content[f]
         /\ MadeInv => \A d \in Devices : Decoded(f)[d] \in made[d] \cup {"none"}
<1>1. f # Absent => content[f] \in {Torn} \cup [Devices -> Entries]
  BY DEF StoreTypes
<1>2. Decoded(f) \in Recalled
  BY <1>1, RecalledFacts DEF Decoded, Recalled
<1>3. ASSUME f # Absent, content[f] \in Recalled PROVE Decoded(f) = content[f]
  <2>1. content[f] # Torn
    BY <1>3, RecalledFacts
  <2> QED
    BY <1>3, <2>1, RecalledFacts DEF Decoded, Recalled
<1>4. ASSUME MadeInv, NEW d \in Devices PROVE Decoded(f)[d] \in made[d] \cup {"none"}
  BY <1>1, <1>4 DEF Decoded, MadeInv
<1> QED
  BY <1>2, <1>3, <1>4

LEMMA StoreStarts == StoreInit => StoreInv
<1> SUFFICES ASSUME StoreInit PROVE StoreInv
  OBVIOUS
<1>1. PICK d \in Devices, entry \in Entries \cup {Absent} :
        /\ decisions = IF entry = Absent THEN Absent ELSE First
        /\ content = [f \in Requests \cup {First} |->
                        IF f = First /\ entry # Absent
                        THEN [e \in Devices |-> IF e = d THEN entry ELSE "none"] ELSE Torn]
  BY DEF StoreInit
<1>2. /\ cache = Unloaded /\ tmp = Absent /\ decided = Decoded(decisions)
      /\ request = [r \in Requests |-> [at |-> "new", device |-> "none", choice |-> "none"]]
      /\ writing = [r \in Requests |-> Absent] /\ snapshot = [r \in Requests |-> Torn]
      /\ reply = [r \in Requests |-> "none"] /\ made = [e \in Devices |-> {decided[e]} \ {"none"}]
  BY DEF StoreInit
<1>3. content \in [Requests \cup {First} -> {Torn} \cup [Devices -> Entries]]
  <2>1. entry # Absent => [e \in Devices |-> IF e = d THEN entry ELSE "none"] \in [Devices -> Entries]
    BY DEF Entries
  <2> QED
    BY <1>1, <2>1
<1>4. decided \in Recalled
  <2>1. decisions # Absent => content[decisions] \in {Torn} \cup [Devices -> Entries]
    BY <1>1, <1>3
  <2> QED
    BY <1>2, <2>1, RecalledFacts DEF Decoded, Recalled
<1>5. StoreTypes
  BY <1>1, <1>2, <1>3, <1>4 DEF StoreTypes, Places, Recalled
<1>6. PlaceInv /\ AnswerInv
  BY <1>1, <1>2, StoreAssumption DEF PlaceInv, AnswerInv, Saving
<1>7. MadeInv
  <2>1. ASSUME NEW e \in Devices, NEW f \in Requests \cup {First}, content[f] # Torn
        PROVE  Migrated(content[f][e]) \in made[e] \cup {"none"}
    <3>1. decisions = f /\ decisions # Absent
      BY <1>1, <2>1, StoreAssumption
    <3>2. decided[e] = Migrated(content[f][e])
      BY <1>2, <2>1, <3>1 DEF Decoded
    <3> QED
      BY <1>2, <3>2
  <2> QED
    BY <1>2, <2>1 DEF MadeInv, Saving
<1>8. SaveInv /\ LatestInv
  <2>1. entry # Absent => content[First] \in [Devices -> Entries]
    BY <1>1 DEF Entries
  <2>2. decisions # Absent => content[decisions] # Torn
    BY <1>1, <2>1, StoreAssumption
  <2> QED
    BY <1>2, <2>2 DEF SaveInv, LatestInv, Saving
<1> QED
  BY <1>5, <1>6, <1>7, <1>8 DEF StoreInv

\* What memory holds once the file was read.
LEMMA LoadedFacts ==
  ASSUME StoreInv
  PROVE  /\ Loaded \in Recalled /\ Loaded # Unloaded
         /\ \A d \in Devices : Loaded[d] \in made[d] \cup {"none"}
         /\ ~overlapped /\ ~unsure /\ (\A r \in Requests : request[r].at \notin Saving) => Loaded = decided
         /\ ~overlapped /\ ~unsure /\ cache # Unloaded => Loaded = decided
<1>1. Decoded(decisions) \in Recalled /\ \A d \in Devices : Decoded(decisions)[d] \in made[d] \cup {"none"}
  BY DecodedFacts DEF StoreInv, StoreTypes
<1>2. cache \in {Unloaded} \cup Recalled
  BY DEF StoreInv, StoreTypes
<1> QED
  BY <1>1, <1>2, RecalledFacts DEF StoreInv, MadeInv, LatestInv, Loaded

\* The steps that touch no file.
LEMMA AskPreserves == StoreInv /\ (\E r \in Requests, d \in Devices : Ask(r, d)) => StoreInv'
<1> SUFFICES ASSUME StoreInv, NEW r \in Requests, NEW d \in Devices, Ask(r, d) PROVE StoreInv'
  OBVIOUS
<1>1. StoreTypes /\ PlaceInv /\ MadeInv /\ AnswerInv /\ SaveInv /\ LatestInv
  BY DEF StoreInv
<1>2. PICK at \in {"dialog", "over"} :
        /\ request' = [request EXCEPT ![r].device = d, ![r].at = at]
        /\ at = IF Loaded[d] = "none" THEN "dialog" ELSE "over"
  BY DEF Ask
<1>3. /\ request[r].at = "new" /\ cache' = Loaded /\ reply' = [reply EXCEPT ![r] = Loaded[d]]
      /\ UNCHANGED <<savedVars, snapshot, made, decided, overlapped, unsure>>
  BY DEF Ask
<1>4. /\ request'[r].at = at /\ request'[r].device = d /\ request'[r].choice = request[r].choice
      /\ \A q \in Requests : q # r => request'[q] = request[q]
      /\ \A q \in Requests : request'[q].at \in Saving <=> request[q].at \in Saving
  BY <1>1, <1>2, <1>3 DEF StoreTypes, Saving
<1>5. Loaded \in Recalled /\ Loaded[d] \in Verdicts \cup {"none"} /\ Loaded # Unloaded
      /\ \A e \in Devices : Loaded[e] \in made[e] \cup {"none"}
  BY LoadedFacts DEF Recalled
<1>6. StoreTypes'
  BY <1>1, <1>2, <1>3, <1>5 DEF StoreTypes, savedVars, Places
<1>7. PlaceInv'
  BY <1>1, <1>2, <1>3, <1>4 DEF PlaceInv, StoreTypes, savedVars, Saving
<1>8. MadeInv'
  BY <1>1, <1>3, <1>4, <1>5 DEF MadeInv, savedVars
<1>9. AnswerInv'
  BY <1>1, <1>3, <1>4, <1>5 DEF AnswerInv, StoreTypes
<1>10. SaveInv'
  BY <1>1, <1>2, <1>3, <1>4 DEF SaveInv, savedVars, Saving
<1>11. LatestInv'
  <2>1. Decoded(decisions)' = Decoded(decisions)
    BY <1>3 DEF Decoded, savedVars
  <2>2. ASSUME ~overlapped, ~unsure PROVE Loaded = decided
    <3>1. (\E q \in Requests : request[q].at \in Saving) => cache = decided /\ cache # Unloaded
      BY <1>1, <2>2, RecalledFacts DEF LatestInv, StoreTypes
    <3> QED
      BY <2>2, <3>1, LoadedFacts
  <2> QED
    BY <1>1, <1>3, <1>4, <2>1, <2>2, LoadedFacts DEF LatestInv, savedVars
<1> QED
  BY <1>6, <1>7, <1>8, <1>9, <1>10, <1>11 DEF StoreInv

LEMMA AnswerPreserves ==
  StoreInv /\ (\E r \in Requests, choice \in Verdicts, remember \in BOOLEAN : Answer(r, choice, remember))
    => StoreInv'
<1> SUFFICES ASSUME StoreInv, NEW r \in Requests, NEW choice \in Verdicts, NEW remember \in BOOLEAN,
                    Answer(r, choice, remember)
             PROVE  StoreInv'
  OBVIOUS
<1>1. StoreTypes /\ PlaceInv /\ MadeInv /\ AnswerInv /\ SaveInv /\ LatestInv
  BY DEF StoreInv
<1>2. PICK at \in {"save", "over"} : request' = [request EXCEPT ![r].choice = choice, ![r].at = at]
  BY DEF Answer
<1>3. PICK d \in Devices : d = request[r].device
  BY <1>1 DEF PlaceInv, Answer
<1>4. /\ request[r].at = "dialog" /\ reply' = [reply EXCEPT ![r] = choice]
      /\ made' = [made EXCEPT ![d] = @ \cup {choice}]
      /\ UNCHANGED <<cache, savedVars, snapshot, decided, overlapped, unsure>>
  BY <1>3 DEF Answer
<1>5. /\ request'[r].at = at /\ request'[r].device = d /\ request'[r].choice = choice
      /\ \A q \in Requests : q # r => request'[q] = request[q]
      /\ \A q \in Requests : request'[q].at \in Saving <=> request[q].at \in Saving
  BY <1>1, <1>2, <1>3, <1>4 DEF StoreTypes, Saving
<1>6. /\ choice \in made'[d] /\ \A e \in Devices : made[e] \subseteq made'[e]
      /\ made' \in [Devices -> SUBSET Verdicts]
  BY <1>1, <1>4 DEF StoreTypes
<1>7. StoreTypes'
  BY <1>1, <1>2, <1>4, <1>6 DEF StoreTypes, savedVars, Places
<1>8. PlaceInv'
  BY <1>1, <1>2, <1>4, <1>5, <1>6 DEF PlaceInv, StoreTypes, savedVars, Saving
<1>9. MadeInv'
  BY <1>1, <1>4, <1>5, <1>6 DEF MadeInv, savedVars
<1>10. AnswerInv'
  <2>1. \A q \in Requests : reply[q] # "none" => request[q].device \in Devices
    BY <1>1 DEF PlaceInv
  <2> QED
    BY <1>1, <1>4, <1>5, <1>6, <2>1 DEF AnswerInv, StoreTypes
<1>11. SaveInv'
  BY <1>1, <1>2, <1>4, <1>5 DEF SaveInv, savedVars, Saving
<1>12. LatestInv'
  BY <1>1, <1>4, <1>5 DEF LatestInv, savedVars, Decoded
<1> QED
  BY <1>7, <1>8, <1>9, <1>10, <1>11, <1>12 DEF StoreInv

LEMMA PutPreserves == StoreInv /\ (\E r \in Requests : Put(r)) => StoreInv'
<1> SUFFICES ASSUME StoreInv, NEW r \in Requests, Put(r) PROVE StoreInv'
  OBVIOUS
<1>1. StoreTypes /\ PlaceInv /\ MadeInv /\ AnswerInv /\ SaveInv /\ LatestInv
  BY DEF StoreInv
<1>2. PICK d \in Devices, c \in Verdicts :
        d = request[r].device /\ c = request[r].choice /\ c \in made[d]
  BY <1>1 DEF Put, PlaceInv, StoreTypes
<1>3. /\ request[r].at = "save" /\ cache' = [Loaded EXCEPT ![d] = c]
      /\ snapshot' = [snapshot EXCEPT ![r] = cache'] /\ decided' = [decided EXCEPT ![d] = c]
      /\ overlapped' = (overlapped \/ \E q \in Requests : request[q].at \in Saving)
      /\ request' = [request EXCEPT ![r].at = "open"]
      /\ UNCHANGED <<savedVars, reply, made, unsure>>
  BY <1>2 DEF Put, MoveOn
<1>4. /\ request'[r].at = "open" /\ request'[r].device = d
      /\ \A q \in Requests : q # r => request'[q] = request[q]
      /\ \A q \in Requests : request'[q].at \in Saving <=> (q = r \/ request[q].at \in Saving)
  BY <1>1, <1>2, <1>3 DEF StoreTypes, Saving
<1>5. /\ cache' \in Recalled /\ cache' # Unloaded /\ decided' \in Recalled
      /\ \A e \in Devices : cache'[e] \in made[e] \cup {"none"}
  BY <1>1, <1>2, <1>3, LoadedFacts, RecalledFacts DEF Recalled, StoreTypes
<1>6. StoreTypes'
  <2>1. request' \in [Requests -> Entered]
    <3>1. request \in [Requests -> Entered]
      BY <1>1 DEF StoreTypes, Entered
    <3>2. request' = [request EXCEPT ![r].at = "open"]
      BY <1>3
    <3>3. "open" \in Places
      BY DEF Places, Saving
    <3> QED
      BY <3>1, <3>2, <3>3, MovesKeepType
  <2>2. snapshot' \in [Requests -> {Torn} \cup Recalled]
    BY <1>1, <1>3, <1>5 DEF StoreTypes
  <2> QED
    BY <1>1, <1>3, <1>5, <2>1, <2>2 DEF StoreTypes, savedVars, Entered
<1>7. snapshot'[r] = cache' /\ \A q \in Requests : q # r => snapshot'[q] = snapshot[q]
  BY <1>1, <1>3 DEF StoreTypes
<1>8. PlaceInv'
  BY <1>1, <1>2, <1>3, <1>4, <1>5, <1>7 DEF PlaceInv, savedVars, Saving
<1>9. MadeInv'
  BY <1>1, <1>3, <1>4, <1>5, <1>7 DEF MadeInv, savedVars
<1>10. AnswerInv'
  BY <1>1, <1>2, <1>3, <1>4 DEF AnswerInv
<1>11. SaveInv'
  <2>1. ASSUME ~overlapped' PROVE \A q \in Requests : request'[q].at \in Saving => q = r
    BY <1>3, <1>4, <2>1
  <2>2. \A q \in Requests : request'[q].at \notin {"fill", "rename"} \/ q # r
    BY <1>4
  <2>3. ~overlapped' => ~overlapped
    BY <1>3
  <2> QED
    BY <1>1, <1>3, <1>4, <2>1, <2>2, <2>3 DEF SaveInv, savedVars, Saving
<1>12. LatestInv'
  <2>1. ASSUME ~overlapped', ~unsure PROVE cache' = decided' /\ \A q \in Requests : request[q].at \notin Saving
    BY <1>1, <1>3, <2>1, LoadedFacts
  <2> QED
    BY <1>3, <1>4, <1>7, <2>1 DEF LatestInv
<1> QED
  BY <1>6, <1>8, <1>9, <1>10, <1>11, <1>12 DEF StoreInv

\* The steps of a save.
LEMMA OpenPreserves == StoreInv /\ (\E r \in Requests : Open(r)) => StoreInv'
<1> SUFFICES ASSUME StoreInv, NEW r \in Requests, Open(r) PROVE StoreInv'
  OBVIOUS
<1>1. StoreTypes /\ PlaceInv /\ MadeInv /\ AnswerInv /\ SaveInv /\ LatestInv
  BY DEF StoreInv
<1>2. PICK f \in Requests \cup {First} : f = FileOf(r, tmp)
  BY <1>1 DEF StoreTypes, FileOf
<1>3. /\ request[r].at = "open" /\ request' = [request EXCEPT ![r].at = "fill"]
      /\ tmp' = f /\ writing' = [writing EXCEPT ![r] = f] /\ content' = [content EXCEPT ![f] = Torn]
      /\ UNCHANGED <<decisions, cache, snapshot, reply, made, decided, overlapped, unsure>>
  BY <1>2 DEF Open, OpenFile, MoveOn
<1>4. /\ request'[r].at = "fill" /\ request'[r].device = request[r].device
      /\ \A q \in Requests : q # r => request'[q] = request[q]
      /\ \A q \in Requests : request'[q].at \in Saving <=> request[q].at \in Saving
  BY <1>1, <1>3 DEF StoreTypes, Saving
<1>5. /\ content'[f] = Torn /\ \A g \in Requests \cup {First} : g # f => content'[g] = content[g]
      /\ writing'[r] = f /\ \A q \in Requests : q # r => writing'[q] = writing[q]
  BY <1>1, <1>3 DEF StoreTypes
<1>6. f # decisions /\ f # Absent /\ \A q \in Requests : q # r /\ tmp # q => f # q
  BY <1>1, <1>2, <1>3, StoreAssumption DEF PlaceInv, FileOf
<1>7. StoreTypes'
  BY <1>1, <1>3 DEF StoreTypes, Places, Saving
<1>8. PlaceInv'
  BY <1>1, <1>3, <1>4, <1>5, <1>6 DEF PlaceInv, Saving
<1>9. MadeInv'
  BY <1>1, <1>3, <1>4, <1>5 DEF MadeInv
<1>10. AnswerInv'
  BY <1>1, <1>3, <1>4 DEF AnswerInv
<1>11. decisions # Absent => content'[decisions] = content[decisions]
  BY <1>1, <1>5, <1>6 DEF StoreTypes
<1>12. SaveInv'
  BY <1>1, <1>3, <1>4, <1>5, <1>11 DEF SaveInv, Saving
<1>13. LatestInv'
  BY <1>1, <1>3, <1>4 DEF LatestInv, Saving
<1> QED
  BY <1>7, <1>8, <1>9, <1>10, <1>12, <1>13 DEF StoreInv

LEMMA FillPreserves == StoreInv /\ (\E r \in Requests : Fill(r)) => StoreInv'
<1> SUFFICES ASSUME StoreInv, NEW r \in Requests, Fill(r) PROVE StoreInv'
  OBVIOUS
<1>1. StoreTypes /\ PlaceInv /\ MadeInv /\ AnswerInv /\ SaveInv /\ LatestInv
  BY DEF StoreInv
<1>2. PICK f \in Requests \cup {First} : f = writing[r]
  BY <1>1 DEF PlaceInv, Fill
<1>3. PICK new \in {Torn} \cup Recalled :
        /\ content' = [content EXCEPT ![f] = new]
        /\ (new = snapshot[r] /\ new \in Recalled) \/ (content[f] # Torn /\ new = Torn)
  BY <1>1, <1>2 DEF Fill, PlaceInv, Saving
<1>4. /\ request[r].at = "fill" /\ request' = [request EXCEPT ![r].at = "rename"]
      /\ writing' = [writing EXCEPT ![r] = Absent]
      /\ UNCHANGED <<cache, decisions, tmp, snapshot, reply, made, decided, overlapped, unsure>>
  BY DEF Fill, MoveOn
<1>5. /\ request'[r].at = "rename" /\ request'[r].device = request[r].device
      /\ \A q \in Requests : q # r => request'[q] = request[q]
      /\ \A q \in Requests : request'[q].at \in Saving <=> request[q].at \in Saving
  BY <1>1, <1>4 DEF StoreTypes, Saving
<1>6. /\ content'[f] = new /\ \A g \in Requests \cup {First} : g # f => content'[g] = content[g]
      /\ \A q \in Requests : q # r => writing'[q] = writing[q]
  BY <1>1, <1>3, <1>4 DEF StoreTypes
<1>7. StoreTypes'
  <2>1. new \in {Torn} \cup [Devices -> Entries]
    BY RecalledFacts
  <2>2. request' \in [Requests -> Entered]
    <3>1. request \in [Requests -> Entered]
      BY <1>1 DEF StoreTypes, Entered
    <3>2. request' = [request EXCEPT ![r].at = "rename"]
      BY <1>4
    <3>3. "rename" \in Places
      BY DEF Places, Saving
    <3> QED
      BY <3>1, <3>2, <3>3, MovesKeepType
  <2>3. content' \in [Requests \cup {First} -> {Torn} \cup [Devices -> Entries]]
    BY <1>1, <1>3, <1>4, <2>1 DEF StoreTypes
  <2> QED
    BY <1>1, <1>4, <2>2, <2>3 DEF StoreTypes, Entered
<1>8. PlaceInv'
  BY <1>1, <1>4, <1>5, <1>6 DEF PlaceInv, Saving
<1>9. MadeInv'
  <2>1. ASSUME NEW d \in Devices, new # Torn PROVE Migrated(new[d]) \in made[d] \cup {"none"}
    <3>1. new = snapshot[r] /\ new[d] \in Verdicts \cup {"none"}
      BY <1>3, <2>1 DEF Recalled
    <3>2. new[d] \in made[d] \cup {"none"}
      BY <1>1, <1>4, <3>1 DEF MadeInv, Saving
    <3> QED
      BY <3>1, <3>2, RecalledFacts
  <2> QED
    BY <1>1, <1>4, <1>5, <1>6, <2>1 DEF MadeInv
<1>10. AnswerInv'
  BY <1>1, <1>4, <1>5 DEF AnswerInv
<1>11. ASSUME ~overlapped PROVE f = tmp /\ f # decisions /\ f # Absent /\ content[f] = Torn /\ new = snapshot[r]
  BY <1>1, <1>2, <1>3, <1>4, <1>11, StoreAssumption DEF SaveInv, PlaceInv
<1>12. ~overlapped /\ decisions # Absent => content'[decisions] = content[decisions]
  BY <1>1, <1>6, <1>11 DEF StoreTypes
<1>13. SaveInv'
  BY <1>1, <1>4, <1>5, <1>6, <1>11, <1>12 DEF SaveInv, Saving
<1>14. LatestInv'
  BY <1>1, <1>4, <1>5 DEF LatestInv, Saving
<1> QED
  BY <1>7, <1>8, <1>9, <1>10, <1>13, <1>14 DEF StoreInv

LEMMA RenamePreserves == StoreInv /\ (\E r \in Requests : Rename(r)) => StoreInv'
<1> SUFFICES ASSUME StoreInv, NEW r \in Requests, Rename(r) PROVE StoreInv'
  OBVIOUS
<1>1. StoreTypes /\ PlaceInv /\ MadeInv /\ AnswerInv /\ SaveInv /\ LatestInv
  BY DEF StoreInv
<1>2. /\ request[r].at = "rename" /\ request' = [request EXCEPT ![r].at = "over"] /\ tmp # Absent
      /\ decisions' = tmp /\ tmp' = Absent
      /\ UNCHANGED <<cache, content, writing, snapshot, reply, made, decided, overlapped, unsure>>
  BY DEF Rename, MoveOn
<1>3. /\ request'[r].at = "over" /\ request'[r].device = request[r].device
      /\ \A q \in Requests : q # r => request'[q] = request[q]
      /\ \A q \in Requests : request'[q].at \in Saving => request[q].at \in Saving
  BY <1>1, <1>2 DEF StoreTypes, Saving
<1>4. StoreTypes'
  <2>1. request' \in [Requests -> Entered]
    BY <1>1, <1>2, MovesKeepType DEF StoreTypes, Entered, Places
  <2>2. writing' \in [Requests -> Requests \cup {First, Absent}]
    BY <1>1, <1>2 DEF StoreTypes
  <2> QED
    BY <1>1, <1>2, <2>1, <2>2 DEF StoreTypes, Entered
<1>5. PlaceInv'
  BY <1>1, <1>2, <1>3, StoreAssumption DEF PlaceInv, Saving
<1>6. MadeInv' /\ AnswerInv'
  BY <1>1, <1>2, <1>3 DEF MadeInv, AnswerInv
<1>7. ASSUME ~overlapped
      PROVE  content[tmp] = snapshot[r] /\ content[tmp] \in Recalled /\ \A q \in Requests : request'[q].at \notin Saving
  BY <1>1, <1>2, <1>3, <1>7 DEF SaveInv, PlaceInv, Saving
<1>8. SaveInv'
  BY <1>1, <1>2, <1>3, <1>7, RecalledFacts DEF SaveInv, Saving
<1>9. LatestInv'
  <2>1. Decoded(decisions)' = Decoded(tmp)
    BY <1>2 DEF Decoded
  <2>2. ASSUME ~overlapped, ~unsure PROVE Decoded(tmp) = decided /\ cache = decided
    <3>1. snapshot[r] = decided /\ cache = decided
      BY <1>1, <1>2, <2>2 DEF LatestInv, Saving
    <3> QED
      BY <1>1, <1>2, <1>7, <2>2, <3>1, DecodedFacts DEF StoreTypes
  <2> QED
    BY <1>2, <1>7, <2>1, <2>2 DEF LatestInv
<1> QED
  BY <1>4, <1>5, <1>6, <1>8, <1>9 DEF StoreInv

LEMMA SaveFailsPreserves == StoreInv /\ (\E r \in Requests : SaveFails(r)) => StoreInv'
<1> SUFFICES ASSUME StoreInv, NEW r \in Requests, SaveFails(r) PROVE StoreInv'
  OBVIOUS
<1>1. StoreTypes /\ PlaceInv /\ MadeInv /\ AnswerInv /\ SaveInv /\ LatestInv
  BY DEF StoreInv
<1>2. /\ request[r].at \in Saving /\ request' = [request EXCEPT ![r].at = "over"] /\ unsure'
      /\ writing' = [writing EXCEPT ![r] = Absent] /\ tmp' \in {tmp, Absent}
      /\ UNCHANGED <<cache, content, decisions, snapshot, reply, made, decided, overlapped>>
  BY DEF SaveFails, Fails, MoveOn
<1>3. /\ request'[r].at = "over" /\ request'[r].device = request[r].device
      /\ \A q \in Requests : q # r => request'[q] = request[q] /\ writing'[q] = writing[q]
      /\ \A q \in Requests : request'[q].at \in Saving => request[q].at \in Saving /\ q # r
  BY <1>1, <1>2 DEF StoreTypes, Saving
<1>4. StoreTypes'
  <2>1. request' \in [Requests -> Entered]
    BY <1>1, <1>2, MovesKeepType DEF StoreTypes, Entered, Places
  <2>2. writing' \in [Requests -> Requests \cup {First, Absent}]
    BY <1>1, <1>2 DEF StoreTypes
  <2> QED
    BY <1>1, <1>2, <2>1, <2>2 DEF StoreTypes, Entered
<1>5. PlaceInv'
  BY <1>1, <1>2, <1>3, StoreAssumption DEF PlaceInv, Saving
<1>6. MadeInv' /\ AnswerInv'
  BY <1>1, <1>2, <1>3 DEF MadeInv, AnswerInv
<1>7. ~overlapped => \A q \in Requests : request'[q].at \notin Saving
  BY <1>1, <1>2, <1>3 DEF SaveInv
<1>8. SaveInv' /\ LatestInv'
  BY <1>1, <1>2, <1>7 DEF SaveInv, LatestInv, Saving
<1> QED
  BY <1>4, <1>5, <1>6, <1>8 DEF StoreInv

LEMMA RestartPreserves == StoreInv /\ Restart => StoreInv'
<1> SUFFICES ASSUME StoreInv, Restart PROVE StoreInv'
  OBVIOUS
<1>1. StoreTypes /\ PlaceInv /\ MadeInv /\ AnswerInv /\ SaveInv /\ LatestInv
  BY DEF StoreInv
<1>2. /\ cache' = Unloaded /\ writing' = [r \in Requests |-> Absent]
      /\ request' = [r \in Requests |->
                       IF request[r].at = "new" THEN request[r] ELSE [request[r] EXCEPT !.at = "over"]]
      /\ unsure' = (unsure \/ \E r \in Requests : request[r].at \in Saving)
      /\ UNCHANGED <<content, decisions, tmp, snapshot, reply, made, decided, overlapped>>
  BY DEF Restart
<1>3. \A r \in Requests : /\ request'[r].at \in {"new", "over"} /\ request'[r].device = request[r].device
                          /\ request'[r].at = "new" <=> request[r].at = "new"
  BY <1>1, <1>2 DEF StoreTypes
<1>4. StoreTypes'
  <2>1. request' \in [Requests -> Entered]
    <3>1. ASSUME NEW r \in Requests
          PROVE  request[r] \in Entered /\ [request[r] EXCEPT !.at = "over"] \in Entered
      BY <1>1 DEF StoreTypes, Entered, Places
    <3> QED
      BY <1>2, <3>1
  <2>2. writing' \in [Requests -> Requests \cup {First, Absent}]
    BY <1>1, <1>2 DEF StoreTypes
  <2> QED
    BY <1>1, <1>2, <2>1, <2>2 DEF StoreTypes, Entered
<1>5. PlaceInv'
  BY <1>1, <1>2, <1>3 DEF PlaceInv, Saving
<1>6. MadeInv' /\ AnswerInv' /\ SaveInv'
  BY <1>1, <1>2, <1>3 DEF MadeInv, AnswerInv, SaveInv, Saving
<1>7. LatestInv'
  BY <1>1, <1>2, <1>3 DEF LatestInv, Saving, Decoded
<1> QED
  BY <1>4, <1>5, <1>6, <1>7 DEF StoreInv

LEMMA StorePreservesInv == StoreInv /\ [StoreNext]_storeVars => StoreInv'
<1>1. StoreInv /\ UNCHANGED storeVars => StoreInv'
  BY DEF storeVars, savedVars, StoreInv, StoreTypes, PlaceInv, MadeInv, AnswerInv, SaveInv, LatestInv, Decoded
<1> QED
  BY <1>1, AskPreserves, AnswerPreserves, PutPreserves, OpenPreserves, FillPreserves, RenamePreserves,
     SaveFailsPreserves, RestartPreserves DEF StoreNext

LEMMA StoreImplies == StoreInv => StoreTypeOK /\ RememberedAsDecided
<1> SUFFICES ASSUME StoreInv PROVE StoreTypeOK /\ RememberedAsDecided
  OBVIOUS
<1>1. StoreTypes /\ MadeInv /\ AnswerInv /\ SaveInv /\ LatestInv
  BY DEF StoreInv
<1>2. StoreTypeOK
  BY <1>1 DEF StoreTypes, StoreTypeOK, Recalled, Places
<1>3. \A d \in Devices : Decoded(decisions)[d] \in made[d] \cup {"none"}
  BY <1>1, DecodedFacts DEF StoreTypes
<1> QED
  BY <1>1, <1>2, <1>3 DEF AnswerInv, SaveInv, LatestInv, RememberedAsDecided

\* Whatever saves overlap, fail or are cut off, what is recalled for a device was chosen for it
\* (consentstore.go).
THEOREM DecisionsRecalled == StoreSpec => [](StoreTypeOK /\ RememberedAsDecided)
BY StoreStarts, StorePreservesInv, StoreImplies, PTL DEF StoreSpec

-----------------------------------------------------------------------------
(***************************************************************************)
(* The composition (MCEndpoints).                                          *)
(***************************************************************************)

\* Whichever part a behaviour is of, each of them takes one of its own steps or none.
LEMMA OneStep ==
  ASSUME [Next]_partsVars
  PROVE  /\ [FilesNext]_filesVars /\ [ExportNext]_exportVars /\ [AudioNext]_audioVars
         /\ [CaptureNext]_captureVars /\ [RectsNext]_rectVars /\ [ClientNext]_clientVars
         /\ [ClipNext]_clipVars /\ [AgentNext]_agentVars /\ [SinkNext]_sinkVars
         /\ [RecFileNext]_recFileVars /\ [StoreNext]_storeVars
<1>1. /\ FilesNext \/ UNCHANGED filesVars
      /\ ExportNext \/ UNCHANGED exportVars
  BY DEF Next, partsVars, transferVars
<1>2. /\ AudioNext \/ UNCHANGED audioVars
      /\ CaptureNext \/ UNCHANGED captureVars
      /\ RectsNext \/ UNCHANGED rectVars
  BY DEF Next, partsVars, mediaVars
<1>3. /\ ClientNext \/ UNCHANGED clientVars
      /\ ClipNext \/ UNCHANGED clipVars
      /\ AgentNext \/ UNCHANGED agentVars
  BY DEF Next, partsVars, hostVars
<1>4. /\ SinkNext \/ UNCHANGED sinkVars
      /\ RecFileNext \/ UNCHANGED recFileVars
      /\ StoreNext \/ UNCHANGED storeVars
  BY DEF Next, partsVars, inputVars
<1> QED BY <1>1, <1>2, <1>3, <1>4

\* The invariants of the parts.
PartsInv ==
  /\ FilesInv /\ ExportInv /\ AudioTyped /\ CaptureTyped /\ RectsInv /\ ClientTyped
  /\ ClipInv /\ AgentTyped /\ SinkInv /\ RecFileTyped /\ StoreInv

LEMMA PartsInvariant == Spec => []PartsInv
<1>1. Init => PartsInv
  BY FilesStarts, ExportStarts, AudioTypesStart, CaptureTypesStart, RectsStart, ClientTypesStart,
     ClipStarts, AgentTypesStart, SinkStarts, RecFileStarts, StoreStarts
     DEF Init, PartsInv
<1>2. PartsInv /\ [Next]_partsVars => PartsInv'
  <2> SUFFICES ASSUME PartsInv, [Next]_partsVars PROVE PartsInv'
    OBVIOUS
  <2>1. /\ [FilesNext]_filesVars /\ [ExportNext]_exportVars /\ [AudioNext]_audioVars
        /\ [CaptureNext]_captureVars /\ [RectsNext]_rectVars /\ [ClientNext]_clientVars
        /\ [ClipNext]_clipVars /\ [AgentNext]_agentVars /\ [SinkNext]_sinkVars
        /\ [RecFileNext]_recFileVars /\ [StoreNext]_storeVars
    BY OneStep
  <2> QED
    BY <2>1, FilesPreserves, ExportPreserves, AudioTypesKept, CaptureTypesKept, RectsPreserve,
       ClientTypesKept, ClipPreserves, AgentTypesKept, SinkPreserves, RecFileKept, StorePreservesInv
       DEF PartsInv
<1> QED BY <1>1, <1>2, PTL DEF Spec

\* The state of every part of an agent is of its types, for every value of the constants.
THEOREM EndpointsTypeCorrect == Spec => []EndpointsTypeOK
<1>1. PartsInv => EndpointsTypeOK
  <2> SUFFICES ASSUME PartsInv PROVE EndpointsTypeOK
    OBVIOUS
  <2>1. FilesTypeOK /\ ExportTypeOK /\ ClipTypeOK
    BY ExportImplies, ClipImplies DEF PartsInv, FilesInv
  <2>2. AudioTypeOK /\ CaptureTypeOK /\ RectsTypeOK
    BY RectsImply DEF PartsInv, AudioTyped, CaptureTyped
  <2>3. ClientTypeOK /\ AgentTypeOK
    BY DEF PartsInv, ClientTyped, AgentTyped
  <2>4. SinkTypeOK /\ RecFileTypeOK /\ StoreTypeOK
    BY SinkImplies, RecFileImplies, StoreImplies DEF PartsInv
  <2> QED BY <2>1, <2>2, <2>3, <2>4 DEF EndpointsTypeOK
<1> QED BY <1>1, PartsInvariant, PTL

\* Whatever a side reports or shows as complete is complete, in both directions of a transfer,
\* and what is received in part is somebody's to finish or to remove (filerecv.go;
\* file_transfer_service.dart, handleMessage).
THEOREM TransfersComplete == Spec => []TransfersAreWhole
<1>1. PartsInv => TransfersAreWhole
  BY ExportImplies DEF PartsInv, FilesInv, TransfersAreWhole
<1> QED BY <1>1, PartsInvariant, PTL
=============================================================================
