------------------------------ MODULE Recording ------------------------------
(***************************************************************************)
(* The file of a recording (agent/record/webm.go): a header, then clusters *)
(* of VP8 frames.  A cluster has its time in milliseconds, a block its     *)
(* time within the cluster as a signed 16-bit number.  The segment and the *)
(* clusters are opened without a length; a block begins with its own, as a *)
(* variable-length number.                                                 *)
(*                                                                         *)
(* The capture loop writes and, when a write fails, stops the recording    *)
(* (hostrecord.go, writeRecordingFrame); a viewer, the person at the host  *)
(* or a change of the screen's size stop it too (CaptureLoop).  Time is in *)
(* half milliseconds.                                                      *)
(***************************************************************************)
EXTENDS Integers, Sequences

CONSTANTS Span,        \* clusterSpan: 4000, that is 2 s
          MaxRel,      \* math.MaxInt16
          Gaps,        \* the times between two frames
          Lengths,     \* the lengths of frames, below 2^31
          MaxElements  \* bound on the elements of the file

ASSUME RecordingAssumption ==
  /\ Span \in Nat /\ MaxRel \in Nat /\ MaxRel < 128 * 256 /\ Gaps \subseteq Nat
  /\ \A length \in Lengths : length \in Nat /\ length < 127 * 256 * 256 * 256

VARIABLES
  ts,           \* the time of the last frame, since started
  clusterOpen,
  clusterStart,
  fileClosed,   \* closed
  failed,       \* Write has returned an error
  webm          \* the elements written

recFileVars == <<ts, clusterOpen, clusterStart, fileClosed, failed, webm>>

-----------------------------------------------------------------------------
\* byte(n >> k), where unit is 2 ^ k.
Byte(n, unit) == (n \div unit) % 256

LowBytes(mark, n) == <<mark + Byte(n, 256 * 256 * 256), Byte(n, 256 * 256), Byte(n, 256), Byte(n, 1)>>

\* encodeSize writes a length in one to four bytes, or in eight: the first bit that is set
\* says how many.  A length of ones only would say that it is unknown.
EncodeSize(n) ==
  CASE n < 127 -> <<128 + Byte(n, 1)>>
    [] n >= 127 /\ n < 128 * 128 - 1 -> <<64 + Byte(n, 256), Byte(n, 1)>>
    [] n >= 128 * 128 - 1 /\ n < 128 * 128 * 128 - 1 ->
         <<32 + Byte(n, 256 * 256), Byte(n, 256), Byte(n, 1)>>
    [] n >= 128 * 128 * 128 - 1 /\ n < 128 * 128 * 128 * 128 - 1 -> LowBytes(16, n)
    [] OTHER -> <<1, 0, 0, 0>> \o LowBytes(0, n)

\* The low 16 bits, high byte first.
BlockTime(rel) == <<Byte(rel, 256), Byte(rel, 1)>>

Cluster(t) == [is |-> "cluster", time |-> t \div 2]

\* Four bytes come before the frame: the track, the time and the flags.
SimpleBlock(length, t, start) ==
  [is |-> "block", size |-> EncodeSize(length + 4), rel |-> BlockTime((t - start) \div 2),
   length |-> length, at |-> t]

RecFileInit ==
  /\ ts = 0
  /\ clusterOpen = FALSE /\ clusterStart = 0
  /\ fileClosed = FALSE /\ failed = FALSE
  /\ webm = <<[is |-> "header"]>>

\* (The time of the first cluster stays.)
FirstStart(t, opens) == IF opens /\ ~clusterOpen THEN t ELSE clusterStart

NewStart(t, opens) == IF opens THEN t ELSE clusterStart

\* A write that fails may leave a part of its element.
Broken == {<<>>, <<[is |-> "part"]>>}

\* Whether the frame is a keyframe makes no difference: a frame opens a cluster when the
\* last one is as long as clusterSpan, or when its time in the cluster would not fit.
WriteFrame(length, gap) ==
  LET t == ts + gap
      Opens == \/ ~clusterOpen
               \/ t - clusterStart >= Span
               \/ (t - clusterStart) \div 2 > MaxRel
      start == NewStart(t, Opens)
      head == IF Opens THEN <<Cluster(t)>> ELSE <<>>
  IN /\ ~fileClosed /\ ~failed /\ Len(webm) < MaxElements
     /\ ts' = t
     /\ clusterOpen' = TRUE /\ clusterStart' = start
     /\ \/ webm' = webm \o head \o <<SimpleBlock(length, t, start)>> /\ UNCHANGED failed
        \/ \E p \in Broken : webm' = webm \o head \o p /\ failed' = TRUE
        \/ Opens /\ (\E p \in Broken : webm' = webm \o p) /\ failed' = TRUE
     /\ UNCHANGED fileClosed

StopFile ==
  /\ ~fileClosed /\ fileClosed' = TRUE
  /\ UNCHANGED <<ts, clusterOpen, clusterStart, failed, webm>>

RecFileNext ==
  \/ \E length \in Lengths, gap \in Gaps : WriteFrame(length, gap)
  \/ StopFile

RecFileSpec == RecFileInit /\ [][RecFileNext]_recFileVars

-----------------------------------------------------------------------------
RecFileTypeOK ==
  /\ ts \in Nat /\ clusterStart \in 0 .. ts
  /\ clusterOpen \in BOOLEAN /\ fileClosed \in BOOLEAN /\ failed \in BOOLEAN
  /\ \A i \in DOMAIN webm : webm[i].is \in {"header", "cluster", "block", "part"}

\* What a player reads: the bytes after the first one, high byte first.
ReadTwo(high, b)   == 256 * high + b[2]
ReadThree(high, b) == 256 * ReadTwo(high, b) + b[3]
ReadFour(high, b)  == 256 * ReadThree(high, b) + b[4]

ReadSize(b) ==
  CASE b[1] >= 128        -> b[1] - 128
    [] b[1] \in 64 .. 127 -> ReadTwo(b[1] - 64, b)
    [] b[1] \in 32 .. 63  -> ReadThree(b[1] - 32, b)
    [] b[1] \in 16 .. 31  -> ReadFour(b[1] - 16, b)
    [] OTHER -> 256 * (256 * (256 * (256 * ReadFour(0, b) + b[5]) + b[6]) + b[7]) + b[8]

Unknown(b) == b \in {<<255>>, <<127, 255>>, <<63, 255, 255>>, <<31, 255, 255, 255>>,
                    <<1, 255, 255, 255, 255, 255, 255, 255>>}

ReadRel(b) == LET v == ReadTwo(b[1], b) IN IF v < 128 * 256 THEN v ELSE v - 256 * 256

\* The cluster that element i of a film is in, at j.
IsIn(film, i, j) == /\ j \in 1 .. i /\ film[j].is = "cluster"
                   /\ \A k \in j + 1 .. i : film[k].is # "cluster"

PlaysAt(film, i) == film[CHOOSE j \in 1 .. i : IsIn(film, i, j)].time + ReadRel(film[i].rel)

\* Every block of the file, of one that was cut short too, is in a cluster, has the length of
\* its frame and a time at most a millisecond before the frame's, and no block is before an
\* earlier one; an element that is not whole is the last (webm.go, Write: "rather than write a
\* value that wraps and scrambles playback order").
RecordingPlays ==
  /\ \A i \in DOMAIN webm : webm[i].is = "block" =>
       /\ \E j \in 1 .. i : webm[j].is = "cluster"
       /\ ReadSize(webm[i].size) = webm[i].length + 4 /\ ~Unknown(webm[i].size)
       /\ webm[i].at \div 2 - PlaysAt(webm, i) \in {0, 1}
       /\ \A j \in 1 .. i : webm[j].is = "block" => PlaysAt(webm, j) <= PlaysAt(webm, i)
  /\ \A i \in DOMAIN webm : webm[i].is = "part" => i = Len(webm)
=============================================================================
