------------------------------ MODULE HostAudio ------------------------------
(***************************************************************************)
(* The host's microphone and system sound in the capture worker            *)
(* (agent/session/hostaudio.go over agent/audio/device.go) and the session *)
(* bar's microphone button on Windows (sessionbar_windows.go).  The bar    *)
(* turns a flag of its own and lets a goroutine do what the click asks;    *)
(* the reader registers where audio goes when a session starts; each       *)
(* device calls back on a thread of its own, and stopping a device waits   *)
(* until its thread is out of the callback.                                *)
(*                                                                         *)
(* hostAudioMu is held across a step only by stopHostMic; everything else  *)
(* under it is one step that needs it free.  Samples are left out: a frame *)
(* is taken, mixed or sent as a whole.  So are the sound button's own flag *)
(* (its clicks come in any order), the end of the worker, which closes the *)
(* devices, and KindAudioCapture, which the worker would take for a click  *)
(* and which nothing in the repository sends.                              *)
(***************************************************************************)
EXTENDS Naturals

CONSTANTS Clicks,   \* the goroutines of clicks on the bar, each used again and again
          NoOne

ASSUME AudioAssumption == NoOne \notin Clicks

VARIABLES
  bar,      \* sessionBar.micOn, which the button shows
  overlaid, \* the last click on it came while another was being carried out
  holder,   \* who holds hostAudioMu
  device,   \* hostAudio is there
  micOn,    \* the flags
  soundOn,
  sink,     \* whether there is a destination for audio
  parked,   \* pendingSound: a frame of system sound waits for the microphone
  capture,  \* Device.capture and Device.loopback
  loopback,
  mic,      \* the thread of the microphone, and that of the loopback:
  soundLoop, \*  idle, or inside the callback
  click     \* where a goroutine is in an operation

flagVars  == <<micOn, soundOn, sink, parked>>
devVars   == <<capture, loopback>>
barVars   == <<bar, overlaid>>
audioVars == <<barVars, holder, device, flagVars, devVars, mic, soundLoop, click>>

AudioInit ==
  /\ bar = FALSE /\ overlaid = FALSE
  /\ holder = NoOne /\ device = FALSE
  /\ micOn = FALSE /\ soundOn = FALSE /\ sink = FALSE /\ parked = FALSE
  /\ capture = FALSE /\ loopback = FALSE /\ mic = "idle" /\ soundLoop = "idle"
  /\ click = [c \in Clicks |-> "idle"]

Free == holder = NoOne

\* A click on the microphone that is being carried out.
AboutMic(c) == click[c] \in {"mic on", "mic off", "stop mic"}
MicQuiet == \A c \in Clicks : ~AboutMic(c)

ClickTo(c, where) == click' = [click EXCEPT ![c] = where]

-----------------------------------------------------------------------------
\* The clicks.

\* The bar turns its flag and starts a goroutine; two need not run in the order of the clicks.
ClickMic(c) ==
  /\ click[c] = "idle" /\ bar' = ~bar /\ ClickTo(c, IF bar THEN "mic off" ELSE "mic on")
  /\ overlaid' = ~MicQuiet
  /\ UNCHANGED <<holder, device, flagVars, devVars, mic, soundLoop>>

\* Mutant of StartMic: a click turns over what the device does, whatever it asks.
StartMicToggles(c) ==
  /\ click[c] \in {"mic on", "mic off"} /\ Free /\ ~micOn /\ ClickTo(c, "idle")
  /\ device' = TRUE /\ sink' = TRUE
  /\ \/ micOn' = TRUE /\ capture' = TRUE
     \/ UNCHANGED <<micOn, capture>>
  /\ UNCHANGED <<barVars, holder, soundOn, parked, loopback, mic, soundLoop>>

\* startHostMic: nothing when it is on, or when there is no device to be had.
StartMic(c) ==
  /\ click[c] = "mic on" /\ Free /\ ClickTo(c, "idle")
  /\ \/ (micOn \/ ~device) /\ UNCHANGED <<device, micOn, sink, capture>>
     \/ /\ ~micOn /\ device' = TRUE /\ sink' = TRUE
        /\ \/ micOn' = TRUE /\ capture' = TRUE
           \/ UNCHANGED <<micOn, capture>>          \* the microphone cannot be opened
  /\ UNCHANGED <<barVars, holder, soundOn, parked, loopback, mic, soundLoop>>

\* stopHostMic keeps the mutex while the device stops, if there is one.
StopMic(c) ==
  /\ click[c] = "mic off" /\ Free
  /\ IF device
     THEN holder' = c /\ capture' = FALSE /\ ClickTo(c, "stop mic")
     ELSE ClickTo(c, "idle") /\ UNCHANGED <<holder, capture>>
  /\ UNCHANGED <<barVars, device, flagVars, loopback, mic, soundLoop>>

\* Device.Stop has waited for the callback to return.
MicStopped(c) ==
  /\ click[c] = "stop mic" /\ mic = "idle"
  /\ micOn' = FALSE /\ parked' = FALSE /\ sink' = (sink /\ soundOn)
  /\ holder' = NoOne /\ ClickTo(c, "idle")
  /\ UNCHANGED <<barVars, device, soundOn, devVars, mic, soundLoop>>

StartSound(c) ==
  /\ click[c] = "idle" /\ Free /\ ~soundOn
  /\ device' = TRUE /\ sink' = TRUE
  /\ \/ soundOn' = TRUE /\ loopback' = TRUE
     \/ UNCHANGED <<soundOn, loopback>>
  /\ UNCHANGED <<barVars, holder, micOn, parked, capture, mic, soundLoop, click>>

\* stopHostSound: the flags under the mutex, the device after it.
StopSound(c) ==
  /\ click[c] = "idle" /\ Free
  /\ soundOn' = FALSE /\ parked' = FALSE /\ sink' = (sink /\ micOn)
  /\ ClickTo(c, IF device THEN "stop sound" ELSE "idle")
  /\ UNCHANGED <<barVars, holder, device, micOn, devVars, mic, soundLoop>>

StopLoopback(c) ==
  /\ click[c] = "stop sound"
  /\ loopback' = FALSE
  /\ ClickTo(c, IF loopback THEN "wait loop" ELSE "idle")
  /\ UNCHANGED <<barVars, holder, device, flagVars, capture, mic, soundLoop>>

LoopStopped(c) ==
  /\ click[c] = "wait loop" /\ soundLoop = "idle"
  /\ ClickTo(c, "idle")
  /\ UNCHANGED <<barVars, holder, device, flagVars, devVars, mic, soundLoop>>

\* setAudioSink, by the reader, when the transport announces a session.
SetSink ==
  /\ Free /\ sink' = TRUE
  /\ UNCHANGED <<barVars, holder, device, micOn, soundOn, parked, devVars, mic, soundLoop, click>>

-----------------------------------------------------------------------------
\* The device threads.  A callback that has begun goes on although the device is
\* being stopped; encodeAndSend takes the mutex once more.

MicFrame ==
  /\ capture /\ mic = "idle" /\ mic' = "mix"
  /\ UNCHANGED <<barVars, holder, device, flagVars, devVars, soundLoop, click>>

MicMix ==
  /\ mic = "mix" /\ Free
  /\ parked' = FALSE /\ mic' = IF sink THEN "send" ELSE "idle"
  /\ UNCHANGED <<barVars, holder, device, micOn, soundOn, sink, devVars, soundLoop, click>>

MicSend ==
  /\ mic = "send" /\ Free /\ mic' = "idle"
  /\ UNCHANGED <<barVars, holder, device, flagVars, devVars, soundLoop, click>>

LoopFrame ==
  /\ loopback /\ soundLoop = "idle" /\ soundLoop' = "park"
  /\ UNCHANGED <<barVars, holder, device, flagVars, devVars, mic, click>>

LoopPark ==
  /\ soundLoop = "park" /\ Free
  /\ parked' = (parked \/ micOn)
  /\ soundLoop' = IF micOn \/ ~sink THEN "idle" ELSE "send"
  /\ UNCHANGED <<barVars, holder, device, micOn, soundOn, sink, devVars, mic, click>>

LoopSend ==
  /\ soundLoop = "send" /\ Free /\ soundLoop' = "idle"
  /\ UNCHANGED <<barVars, holder, device, flagVars, devVars, mic, click>>

Callbacks == MicMix \/ MicSend \/ LoopPark \/ LoopSend

Stopping(c) == MicStopped(c) \/ StopLoopback(c) \/ LoopStopped(c)

AudioNext ==
  \/ \E c \in Clicks : \/ ClickMic(c) \/ StartMic(c) \/ StopMic(c)
                        \/ StartSound(c) \/ StopSound(c) \/ Stopping(c)
  \/ SetSink \/ MicFrame \/ LoopFrame \/ Callbacks

AudioSpec == AudioInit /\ [][AudioNext]_audioVars

-----------------------------------------------------------------------------
AudioTypeOK ==
  /\ holder \in Clicks \cup {NoOne}
  /\ {bar, overlaid, device, micOn, soundOn, sink, parked, capture, loopback} \subseteq BOOLEAN
  /\ mic \in {"idle", "mix", "send"} /\ soundLoop \in {"idle", "park", "send"}
  /\ click \in [Clicks -> {"idle", "mic on", "mic off", "stop mic", "stop sound", "wait loop"}]

\* Between clicks the microphone's flag says what the device does, and a source that is on has
\* somewhere to send to.  No live microphone is behind a bar that says off, when the click that
\* turned it off is carried out, though starts before it failed, unless that click came on the
\* heels of another (hostaudio.go, startHostMic to stopHostSound; sessionbar_windows.go:283).
MicSaysWhatItDoes ==
  /\ Free => (micOn <=> capture)
  /\ micOn \/ soundOn => sink
  /\ MicQuiet /\ ~overlaid /\ ~bar => ~capture
=============================================================================
