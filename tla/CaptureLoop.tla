----------------------------- MODULE CaptureLoop -----------------------------
(***************************************************************************)
(* The capture worker's loop (agent/session/worker.go, idle.go), the       *)
(* recording of a session (agent/session/hostrecord.go over                *)
(* agent/record/webm.go) and the record button of the host's session bar   *)
(* (sessionbar_windows.go).                                                *)
(*                                                                         *)
(* The loop captures, encodes, records and sends one frame per tick.  The  *)
(* reader of the link handles the transport's messages and the viewer's    *)
(* record command; a click of the host on the bar runs in a goroutine of   *)
(* its own.  They share wantKeyframe, the published screen size and the    *)
(* current recorder.                                                       *)
(***************************************************************************)
EXTENDS Naturals

CONSTANTS Sizes,     \* the sizes the screen may have
          Recorders, \* the recorders, each opened once
          BarClicks,    \* the goroutines of clicks on the record button
          Reader,    \* the goroutine that reads the link
          Loop,      \* the capture loop
          None

ASSUME CaptureAssumption ==
  /\ Reader \notin BarClicks /\ Loop \notin BarClicks /\ Reader # Loop
  /\ None \notin Sizes \cup Recorders

VARIABLES
  viewers,   \* viewersConnected, unknown before the first announcement
  wantKey,   \* wantKeyframe
  loop,      \* the loop's step, its frame's size, whether a keyframe is forced
  encSize,   \* the encoder's size
  capSize,   \* recW, recH
  recCur,    \* the current recorder
  recorder,  \* a recorder: new, open, closed; the size of its track
  doing,     \* the step of a thread in a record operation, and what it holds
  recOn      \* whether the bar shows a recording

recVars == <<recCur, recorder, doing, recOn>>
captureVars == <<viewers, wantKey, loop, encSize, capSize, recVars>>

Threads == BarClicks \cup {Reader, Loop}
NoJob == [at |-> "idle", of |-> None]

CaptureInit ==
  /\ viewers = "unknown"
  /\ wantKey = TRUE
  /\ \E s \in Sizes : encSize = s /\ capSize = s
  /\ loop = [at |-> "tick", size |-> None, force |-> FALSE]
  /\ recCur = None /\ recOn = FALSE
  /\ recorder = [r \in Recorders |-> [is |-> "new", size |-> None]]
  /\ doing = [t \in Threads |-> NoJob]

At(t, p)       == doing[t].at = p
Goto(t, p, of) == doing' = [doing EXCEPT ![t] = [at |-> p, of |-> of]]
LoopTo(p)      == loop' = [loop EXCEPT !.at = p]

-----------------------------------------------------------------------------
\* The recorder.

\* startRecording, with the size its caller has read: the running one, or a new file.
StartRecording(t, size, next) ==
  \/ /\ recCur # None
     /\ Goto(t, next, None) /\ UNCHANGED <<recCur, recorder>>
  \/ /\ recCur = None
     /\ \E r \in Recorders :
          /\ recorder[r].is = "new" /\ recCur' = r
          /\ recorder' = [recorder EXCEPT ![r] = [is |-> "open", size |-> size]]
     /\ Goto(t, next, None)
  \/ /\ recCur = None                         \* the file cannot be created
     /\ Goto(t, "idle", None) /\ UNCHANGED <<recCur, recorder>>

\* Mutant of TakeRecorder: stopRecording only looks, and clears what is there when it has
\* closed the file.
TakeLater(t) ==
  /\ UNCHANGED <<recCur, recorder>>
  /\ Goto(t, IF recCur = None THEN "taken" ELSE "close", recCur)

\* stopRecording takes the recorder under the mutex and closes it after.
TakeRecorder(t) ==
  /\ recCur' = None /\ UNCHANGED recorder
  /\ Goto(t, IF recCur = None THEN "taken" ELSE "close", recCur)

CloseRecorder(t) ==
  /\ At(t, "close")
  /\ recorder' = [recorder EXCEPT ![doing[t].of].is = "closed"]
  /\ Goto(t, "taken", None) /\ UNCHANGED recCur

-----------------------------------------------------------------------------
\* The reader and the clicks.

\* handleRecordCmd and the bar's callback: the size is read before startRecording.
BeginStart(t) == At(t, "idle") /\ Goto(t, "start", capSize) /\ UNCHANGED <<recCur, recorder>>

\* The viewer's command: the bar is set after a start, and before a stop.
ViewerStarts == BeginStart(Reader) /\ UNCHANGED recOn
ViewerStops  == At(Reader, "idle") /\ recOn' = FALSE /\ TakeRecorder(Reader)
ShowStarted  ==
  /\ At(Reader, "started")
  /\ recOn' = TRUE /\ Goto(Reader, "idle", None) /\ UNCHANGED <<recCur, recorder>>

\* A click flips the button under the bar's mutex and starts a goroutine for it.
Click(c) ==
  /\ At(c, "idle") /\ recOn' = ~recOn
  /\ Goto(c, IF recOn THEN "stop" ELSE "start?", None)
  /\ UNCHANGED <<recCur, recorder>>

ClickStarts(c) ==
  /\ At(c, "start?") /\ Goto(c, "start", capSize) /\ UNCHANGED <<recCur, recorder, recOn>>

ClickStops(c) == At(c, "stop") /\ TakeRecorder(c) /\ UNCHANGED recOn

\* Start, close, and what follows a stop: delivery, by a goroutine that only reads.
RecordStep(t) ==
  /\ \/ At(t, "start") /\ StartRecording(t, doing[t].of, IF t = Reader THEN "started" ELSE "idle")
     \/ CloseRecorder(t)
     \/ At(t, "taken") /\ Goto(t, "idle", None) /\ UNCHANGED <<recCur, recorder>>
  /\ UNCHANGED recOn

UserStep ==
  /\ \/ ViewerStarts \/ ViewerStops \/ ShowStarted
     \/ \E c \in BarClicks : Click(c) \/ ClickStarts(c) \/ ClickStops(c)
     \/ \E t \in BarClicks \cup {Reader} : RecordStep(t)
  /\ UNCHANGED <<viewers, wantKey, loop, encSize, capSize>>

\* The transport asks for a keyframe.
KeyframeReq ==
  /\ wantKey' = TRUE
  /\ UNCHANGED <<viewers, loop, encSize, capSize, recVars>>

\* The transport announces how many viewers there are.
SessionState ==
  /\ viewers' \in {"none", "some"} /\ UNCHANGED <<wantKey, loop, encSize, capSize, recVars>>

-----------------------------------------------------------------------------
\* The loop.

\* Nobody is watching: no capture, and a keyframe for whoever comes next.
TickIdle ==
  /\ loop.at = "tick" /\ viewers = "none"
  /\ wantKey' = TRUE
  /\ UNCHANGED <<viewers, loop, encSize, capSize, recVars>>

\* A frame; at another size the encoder is rebuilt and the size published first.
Capture ==
  /\ loop.at = "tick" /\ viewers # "none"
  /\ \E s \in Sizes :
       /\ encSize' = s
       /\ loop' = [loop EXCEPT !.at = IF s = encSize THEN "encode" ELSE "resized", !.size = s]
       /\ capSize' = s
  /\ UNCHANGED <<viewers, wantKey, recVars>>

\* recordingActive, then stopRecording, then startRecording at the new size.
RestartRecording ==
  /\ \/ /\ loop.at = "resized" /\ UNCHANGED recVars
        /\ LoopTo(IF recCur = None THEN "rekey" ELSE "stop old")
     \/ /\ loop.at = "stop old" /\ At(Loop, "idle")
        /\ TakeRecorder(Loop) /\ UNCHANGED <<loop, recOn>>
     \/ /\ loop.at = "stop old" /\ CloseRecorder(Loop) /\ UNCHANGED <<loop, recOn>>
     \/ /\ loop.at = "stop old" /\ At(Loop, "taken")
        /\ StartRecording(Loop, loop.size, "idle")
        /\ LoopTo("rekey") /\ UNCHANGED recOn
  /\ UNCHANGED <<viewers, wantKey, encSize, capSize>>

Rekey ==
  /\ loop.at = "rekey" /\ LoopTo("encode")
  /\ wantKey' = TRUE
  /\ UNCHANGED <<viewers, encSize, capSize, recVars>>

\* forceKey := wantKeyframe.Swap(false), before the frame is encoded.
TakeRequest ==
  /\ loop.at = "encode"
  /\ loop' = [loop EXCEPT !.at = "encoding", !.force = wantKey]
  /\ wantKey' = FALSE
  /\ UNCHANGED <<viewers, encSize, capSize, recVars>>

\* The encoder fails or gives nothing, and a request that was taken is gone; or it gives
\* a frame, a keyframe when that was forced or when the encoder chooses.
EncodeFails == loop.at = "encoding" /\ LoopTo("tick")
Encode      == loop.at = "encoding" /\ LoopTo("record")

\* writeRecordingFrame: a write error stops whatever is being recorded by then.
Record ==
  /\ loop.at = "record"
  /\ \/ LoopTo("tick") /\ UNCHANGED recVars
     \/ /\ recCur # None /\ LoopTo("write failed") /\ UNCHANGED recVars
  /\ UNCHANGED <<viewers, wantKey, encSize, capSize>>

StopFailed ==
  /\ loop.at = "write failed"
  /\ \/ At(Loop, "idle") /\ TakeRecorder(Loop) /\ UNCHANGED loop
     \/ CloseRecorder(Loop) /\ UNCHANGED loop
     \/ At(Loop, "taken") /\ Goto(Loop, "idle", None) /\ LoopTo("tick")
        /\ UNCHANGED <<recCur, recorder>>
  /\ UNCHANGED <<viewers, wantKey, encSize, capSize, recOn>>

LoopStep ==
  \/ TickIdle \/ Capture \/ RestartRecording \/ Rekey \/ TakeRequest \/ Record \/ StopFailed
  \/ (EncodeFails \/ Encode) /\ UNCHANGED <<viewers, wantKey, encSize, capSize, recVars>>

CaptureNext == UserStep \/ KeyframeReq \/ SessionState \/ LoopStep

CaptureSpec == CaptureInit /\ [][CaptureNext]_captureVars

-----------------------------------------------------------------------------
CaptureTypeOK ==
  /\ viewers \in {"unknown", "none", "some"}
  /\ wantKey \in BOOLEAN
  /\ loop.at \in {"tick", "resized", "stop old", "rekey", "encode", "encoding",
                  "record", "write failed"}
  /\ loop.size \in Sizes \cup {None} /\ loop.force \in BOOLEAN
  /\ {encSize, capSize} \subseteq Sizes /\ recCur \in Recorders \cup {None}
  /\ recorder \in [Recorders -> [is : {"new", "open", "closed"}, size : Sizes \cup {None}]]
  /\ doing \in [Threads -> [at : {"idle", "start?", "start", "started", "stop", "close", "taken"},
                            of : Recorders \cup Sizes \cup {None}]]
  /\ recOn \in BOOLEAN

\* Every recording that was opened is the current one or is being closed by exactly one
\* thread, which alone goes on to deliver it: no file stays open and none is delivered
\* twice (hostrecord.go, stopRecording).
RecordersAccounted ==
  \A r \in Recorders :
    LET closers == {t \in Threads : At(t, "close") /\ doing[t].of = r}
    IN  /\ recorder[r].is = "open" <=> (recCur = r \/ closers # {})
        /\ recCur = r => closers = {}
        /\ \A t, u \in closers : t = u
=============================================================================
