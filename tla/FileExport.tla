----------------------------- MODULE FileExport -----------------------------
(***************************************************************************)
(* Files sent by the host to a viewer (agent/session/filerecv.go,          *)
(* ExportFileStreaming and serveExport; the viewer's side is               *)
(* lib/data/services/file_transfer_service.dart, handleMessage).           *)
(*                                                                         *)
(* Offers and failures travel on the hi lane of the worker's link, chunks  *)
(* and ends on its bulk lane.  Each lane keeps its order, and the writer   *)
(* may take from either (IpcConn): a message of one lane may overtake one  *)
(* of the other.                                                           *)
(***************************************************************************)
EXTENDS Naturals, Sequences

CONSTANTS Exports,  \* the exports, by the ids they get from fileReceiver.seq
          MaxFile,  \* bound on a file's size, in chunks
          NotHeld

ASSUME ExportAssumption == MaxFile \in Nat

VARIABLES
  export,   \* the goroutine that exports: where it is, the size it announced, what it sent
  hi,       \* the lanes of the link to the viewer
  bulk,
  incoming, \* _incoming: what the viewer holds of an export
  listed    \* FileStatus of an export in the viewer's list

exportVars == <<export, hi, bulk, incoming, listed>>

ExportInit ==
  /\ export = [e \in Exports |-> [at |-> "start", size |-> 0, sent |-> 0]]
  /\ hi = <<>> /\ bulk = <<>>
  /\ incoming = [e \in Exports |-> NotHeld]
  /\ listed = [e \in Exports |-> "none"]

-----------------------------------------------------------------------------
\* The host.

Announce(e, size, how) ==
  /\ export[e].at = "start"
  /\ export' = [export EXCEPT ![e] = [at |-> how, size |-> size, sent |-> 0]]
  /\ hi' = Append(hi, [t |-> "offer", e |-> e, size |-> size])
  /\ UNCHANGED bulk

\* serveExport has read the whole file and offers what it read (readFileVerified:
\* never short, never empty).
OfferRead(e, size) == size > 0 /\ Announce(e, size, "send")

\* ExportFileStreaming offers the size Stat gave, and reads as it sends.
OfferStream(e, size) == size > 0 /\ Announce(e, size, "stream")

\* The picker was cancelled, or the file is empty or cannot be read: no export.
\* The failure goes out under an id that was never offered.
Refuse(e) ==
  /\ export[e].at = "start"
  /\ export' = [export EXCEPT ![e].at = "over"]
  /\ hi' \in {hi, Append(hi, [t |-> "failed", e |-> e, size |-> 0])}
  /\ UNCHANGED bulk

\* A file that is being written may have grown since Stat.
SendChunk(e) ==
  /\ \/ export[e].at = "send" /\ export[e].sent < export[e].size
     \/ export[e].at = "stream" /\ export[e].sent < MaxFile
  /\ export' = [export EXCEPT ![e].sent = @ + 1]
  /\ bulk' = Append(bulk, [t |-> "data", e |-> e, size |-> 0])
  /\ UNCHANGED hi

SendEnd(e) ==
  /\ export[e].at \in {"send", "stream"} /\ export[e].sent = export[e].size
  /\ export' = [export EXCEPT ![e].at = "over"]
  /\ bulk' = Append(bulk, [t |-> "end", e |-> e, size |-> 0])
  /\ UNCHANGED hi

\* A read error, or a file whose end came at another size than announced.
GiveUp(e) ==
  /\ export[e].at = "stream"
  /\ export' = [export EXCEPT ![e].at = "over"]
  /\ hi' = Append(hi, [t |-> "failed", e |-> e, size |-> 0])
  /\ UNCHANGED bulk

HostExports ==
  /\ \E e \in Exports :
       \/ \E size \in 1 .. MaxFile : OfferRead(e, size) \/ OfferStream(e, size)
       \/ Refuse(e) \/ SendChunk(e) \/ SendEnd(e) \/ GiveUp(e)
  /\ UNCHANGED <<incoming, listed>>

-----------------------------------------------------------------------------
\* The viewer.

Finish(e, got) ==
  /\ incoming' = [incoming EXCEPT ![e] = NotHeld]
  /\ listed' = [listed EXCEPT ![e] = IF got = export[e].size THEN "done" ELSE "error"]

Hear(m) ==
  LET e == m.e   inc == incoming[m.e]
  IN CASE m.t = "offer" ->
            /\ incoming' = [incoming EXCEPT ![e] = [got |-> 0, endSeen |-> FALSE]]
            /\ listed' = [listed EXCEPT ![e] = "active"]
       [] m.t = "data" /\ inc # NotHeld ->
            IF inc.endSeen /\ inc.got + 1 >= export[e].size
            THEN Finish(e, inc.got + 1)
            ELSE incoming' = [incoming EXCEPT ![e].got = @ + 1] /\ UNCHANGED listed
       [] m.t = "end" /\ inc # NotHeld ->
            IF inc.got < export[e].size
            THEN incoming' = [incoming EXCEPT ![e].endSeen = TRUE] /\ UNCHANGED listed
            ELSE Finish(e, inc.got)
       \* Only an outgoing transfer can fail; what was never offered is ignored.
       [] OTHER -> UNCHANGED <<incoming, listed>>

HearHi   == hi # <<>> /\ Hear(Head(hi)) /\ hi' = Tail(hi) /\ UNCHANGED <<export, bulk>>
HearBulk == bulk # <<>> /\ Hear(Head(bulk)) /\ bulk' = Tail(bulk) /\ UNCHANGED <<export, hi>>

\* The timer that waits for the tail of a file whose end came first.
TailTimeout(e) ==
  /\ incoming[e] # NotHeld /\ incoming[e].endSeen
  /\ Finish(e, incoming[e].got) /\ UNCHANGED <<export, hi, bulk>>

ViewerHears == HearHi \/ HearBulk \/ \E e \in Exports : TailTimeout(e)

ExportNext == HostExports \/ ViewerHears

ExportSpec == ExportInit /\ [][ExportNext]_exportVars

-----------------------------------------------------------------------------
ExportTypeOK ==
  /\ export \in [Exports -> [at : {"start", "send", "stream", "over"},
                              size : 0 .. MaxFile, sent : 0 .. MaxFile]]
  /\ \A i \in DOMAIN hi : hi[i].t \in {"offer", "failed"}
  /\ \A i \in DOMAIN bulk : bulk[i].t \in {"data", "end"}
  /\ \A e \in Exports : incoming[e] = NotHeld \/ incoming[e].got \in 0 .. MaxFile
  /\ listed \in [Exports -> {"none", "active", "done", "error"}]

\* An export that the viewer shows as done has every chunk that was announced, although an
\* end or the chunks may overtake the offer (file_transfer_service.dart, handleMessage).
DoneIsWhole ==
  \A e \in Exports : listed[e] = "done" =>
    export[e].sent = export[e].size /\ \A i \in DOMAIN bulk : bulk[i].e # e
=============================================================================
