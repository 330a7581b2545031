------------------------------ MODULE StreamLoop ------------------------------
(***************************************************************************)
(* The streaming pipeline of the single-process agent                      *)
(* (agent/stream/pipeline.go, agent/capture/abr.go): the loop that         *)
(* captures, skips or encodes, and sends; the reader of the viewer's       *)
(* picture losses; and the goroutine that measures the network and sets    *)
(* the frame rate and the bit rate without a lock the loop would take.     *)
(*                                                                         *)
(* A frame is whether it differs from the last one by its hash.  Of the    *)
(* measurements only the class counts that the two controllers give them.  *)
(* Cursor messages, dirty rectangles (DirtyRects) and packets are left     *)
(* out.                                                                    *)
(***************************************************************************)
EXTENDS Naturals

CONSTANTS KeyEvery,  \* 60 in the code: frames from one keyframe to the next
          Rates,     \* 5, 15 and 30 in the code: the frame rates, the lowest first
          AliveRate, \* 5 in the code: frames a second that are sent in any case
          BitRates,  \* 4 in the code: the steps of the bit rate ladder
          DownAfter, \* 3 in the code: bad samples for a step down
          UpAfter    \* 10 in the code: good samples for a step up

ASSUME StreamAssumption ==
  /\ Rates \in [{"severe", "moderate", "normal"} -> Nat \ {0}]
  /\ \A class \in DOMAIN Rates : Rates["normal"] >= Rates[class] /\ Rates[class] >= AliveRate
  /\ {KeyEvery, AliveRate, BitRates, DownAfter, UpAfter} \subseteq Nat \ {0}

VARIABLES
  at,       \* the loop: select, frame, backing off, ended
  changed,  \* the frame in hand differs from the last one that was not skipped
  rate,     \* currentFPS, and what the tick in hand read of it
  tickRate, \*   (the tick's own variables go back to their first values when it is over)
  frameCount, \* the code's, as far as it is told apart
  still,    \* ticksSinceLastEncode
  pli,      \* pliChan holds a request
  forceNext,\* forceKeyframeNext
  owed,     \* a reported loss that no keyframe has followed
  abr       \* the bit rate's step, and its two counters

keyVars  == <<frameCount, still, pli, forceNext, owed>>
rateVars == <<rate, abr>>
streamVars == <<at, changed, tickRate, keyVars, rateVars>>

NewABR == [step |-> 0, down |-> 0, up |-> 0]

StreamInit ==
  /\ at = "select" /\ changed = FALSE
  /\ rate = Rates["normal"] /\ tickRate = Rates["normal"]
  /\ frameCount = 0 /\ still = 0 /\ pli = FALSE /\ forceNext = FALSE
  /\ owed = FALSE
  /\ abr = NewABR

AtMost(n, bound) == IF n > bound THEN bound ELSE n

-----------------------------------------------------------------------------
\* The viewer, and the reader of its reports.
Loss ==
  /\ pli' = TRUE /\ owed' = TRUE
  /\ UNCHANGED <<at, changed, tickRate, frameCount, still, forceNext, rateVars>>

TakeLoss ==
  /\ at = "select" /\ pli /\ pli' = FALSE /\ forceNext' = TRUE
  /\ UNCHANGED <<at, changed, tickRate, frameCount, still, owed, rateVars>>

-----------------------------------------------------------------------------
\* A tick.
Grab(goes, new) ==
  /\ at = "select" /\ tickRate' = IF goes = "frame" THEN rate ELSE tickRate
  /\ still' = AtMost(still + 1, 2 * Rates["normal"])
  /\ at' = goes /\ changed' = new
  /\ UNCHANGED <<frameCount, pli, forceNext, owed, rateVars>>

NewFrame    == \E new \in BOOLEAN : Grab("frame", new)
NothingNew  == still + 1 < 2 * rate /\ Grab("select", FALSE)
\* Two seconds without a frame sent: the last one again, or a placeholder before any.
Refresh     == still + 1 >= 2 * rate /\ \E new \in BOOLEAN : Grab("frame", new)
GrabFails   == Grab("backing off", FALSE)
\* the desktop is gone, or the context cancelled
DesktopGone == Grab("ended", FALSE)

BackOff == at = "backing off" /\ at' = "select" /\ UNCHANGED <<changed, tickRate, keyVars, rateVars>>

\* Mutant of Forced: a period that must be met to the frame.
ForcedExactly == frameCount + 1 = KeyEvery \/ frameCount + 1 = 1 \/ forceNext

\* The sixtieth frame or later, the first after a keyframe, or one that was asked for.
Forced == frameCount + 1 >= KeyEvery \/ frameCount + 1 = 1 \/ forceNext

KeepAlive == (frameCount + 1) % (tickRate \div AliveRate) = 0

TickOver == at' = "select" /\ changed' = FALSE /\ tickRate' = Rates["normal"]

\* The counter and the request are taken whatever becomes of the frame.
Counted ==
  /\ frameCount' = AtMost(frameCount + 1, KeyEvery + 1) /\ forceNext' = FALSE /\ TickOver
  /\ UNCHANGED <<still, pli, owed, rate>>

Skip == at = "frame" /\ ~changed /\ ~Forced /\ ~KeepAlive /\ Counted /\ UNCHANGED abr

\* The encoder cannot be rebuilt for a new size, or it fails, or it gives nothing yet.
EncodeGivesNothing ==
  /\ at = "frame" /\ (changed \/ Forced \/ KeepAlive)
  /\ Counted /\ abr' \in {abr, NewABR}

\* A frame is sent.  A rebuilt encoder forces a keyframe too, and starts the bit rate again.
Sent(forced, resized) ==
  /\ at = "frame" /\ (changed \/ forced \/ KeepAlive) /\ TickOver
  /\ still' = 0 /\ forceNext' = FALSE /\ abr' = IF resized THEN NewABR ELSE abr
  /\ IF forced \/ resized
     THEN frameCount' = 0 /\ owed' = FALSE
     ELSE frameCount' = AtMost(frameCount + 1, KeyEvery + 1) /\ UNCHANGED owed
  /\ UNCHANGED <<pli, rate>>

SendPicture == \E resized \in BOOLEAN : Sent(Forced, resized)

SendFails ==
  /\ at = "frame" /\ (changed \/ Forced \/ KeepAlive) /\ at' = "ended"
  /\ UNCHANGED <<changed, tickRate, keyVars, rateVars>>

-----------------------------------------------------------------------------
\* Mutant of Evaluate: the ladder is left at its lowest step.
EvaluateBelow(class) ==
  LET down == IF class = "severe" THEN abr.down + 1 ELSE IF class = "normal" THEN 0 ELSE abr.down
      good == IF class = "normal" THEN abr.up + 1 ELSE 0
  IN  abr' = IF down >= DownAfter /\ class = "severe"
             THEN [step |-> abr.step + 1, down |-> 0, up |-> good]
             ELSE IF good >= UpAfter /\ abr.step > 0
             THEN [step |-> abr.step - 1, down |-> down, up |-> 0]
             ELSE [abr EXCEPT !.down = AtMost(down, DownAfter), !.up = AtMost(good, UpAfter)]

\* collectStats.  The classes are those of computeTargetFPS; evaluate tells good from
\* the rest of the moderate ones by bounds of its own, which differ only on the edge.
Evaluate(class) ==
  LET down == IF class = "severe" THEN abr.down + 1 ELSE IF class = "normal" THEN 0 ELSE abr.down
      good == IF class = "normal" THEN abr.up + 1 ELSE 0
  IN  abr' = IF down >= DownAfter /\ abr.step < BitRates - 1 /\ class = "severe"
             THEN [step |-> abr.step + 1, down |-> 0, up |-> good]
             ELSE IF good >= UpAfter /\ abr.step > 0
             THEN [step |-> abr.step - 1, down |-> down, up |-> 0]
             ELSE [abr EXCEPT !.down = AtMost(down, DownAfter), !.up = AtMost(good, UpAfter)]

Measure ==
  /\ \E class \in DOMAIN Rates : Evaluate(class) /\ rate' = Rates[class]
  /\ UNCHANGED <<at, changed, tickRate, keyVars>>

TakeTick == NewFrame \/ NothingNew \/ Refresh \/ GrabFails \/ DesktopGone \/ BackOff
Emit == Skip \/ EncodeGivesNothing \/ SendPicture \/ SendFails

StreamNext == Loss \/ TakeLoss \/ TakeTick \/ Emit \/ Measure

\* Ticks come and what a tick began goes on.  Select takes a waiting request, and neither
\* the capture nor the encoder fails for ever; the screen may stay as it is for good.
StreamFairness ==
  /\ WF_streamVars(TakeTick) /\ WF_streamVars(Emit)
  /\ SF_streamVars(TakeLoss) /\ SF_streamVars(Refresh) /\ SF_streamVars(SendPicture)

StreamSpec == StreamInit /\ [][StreamNext]_streamVars /\ StreamFairness

-----------------------------------------------------------------------------
StreamTypeOK ==
  /\ at \in {"select", "frame", "backing off", "ended"}
  /\ {changed, pli, forceNext, owed} \subseteq BOOLEAN
  /\ \E class \in DOMAIN Rates : rate = Rates[class]
  /\ \E class \in DOMAIN Rates : tickRate = Rates[class]
  /\ frameCount \in 0 .. KeyEvery + 1 /\ still \in 0 .. 2 * Rates["normal"]
  /\ abr \in [step : 0 .. BitRates - 1, down : 0 .. DownAfter, up : 0 .. UpAfter]

\* A picture loss that the viewer reports is followed by a keyframe, also on a screen that
\* does not change, at a changing frame rate, and when the encode that was to serve it
\* failed (pipeline.go, Start).
LossIsServed == owed ~> ~owed \/ at = "ended"
=============================================================================
