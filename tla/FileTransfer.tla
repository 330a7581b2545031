---------------------------- MODULE FileTransfer ----------------------------
(***************************************************************************)
(* Files sent by viewers to the host (agent/session/filerecv.go, with the  *)
(* file lane of agent/session/worker.go).  The viewer offers a file, sends *)
(* its chunks and an end, or cancels; the lane goroutine of the capture    *)
(* worker handles the messages one at a time, in order.  The goroutine     *)
(* that runs the worker calls closeAll on its way out, at any moment, while *)
(* the lane goroutine is still draining, and the process exits after it.   *)
(*                                                                         *)
(* A chunk counts for one unit of size.  A transfer is known by an id that *)
(* its viewer never uses again.  The acknowledgements that pace the viewer *)
(* are left out: it may pause, stall or go on at any moment.               *)
(* The model starts with the worker attached; a transfer it gets only the  *)
(* rest of is like one whose offer was refused.                            *)
(***************************************************************************)
EXTENDS Naturals, Sequences, FiniteSets

CONSTANTS Xfers,    \* the transfers, by their ids
          Names,    \* the names files are offered under
          Copies,   \* how many paths uniquePath tries for a name
          Mine,     \* the paths the host's own files are at
          MaxLen,   \* bound on the units a viewer announces or sends
          MaxLane,  \* how many messages the lane and the link hold
          Limit,    \* maxTransferBytes
          NoXfer

Paths == Names \X (0 .. Copies - 1)

ASSUME FilesAssumption ==
  /\ IsFiniteSet(Xfers) /\ IsFiniteSet(Mine) /\ Mine \subseteq Paths
  /\ Copies \in Nat /\ Limit \in Nat /\ MaxLen \in Nat /\ MaxLane \in Nat
  /\ Copies >= Cardinality(Xfers) + Cardinality(Mine)
  /\ NoXfer \notin Xfers

VARIABLES
  push,     \* what a viewer does with a transfer, and the units it has sent
  lane,     \* the messages on their way to the lane goroutine
  job,      \* the message it is handling, and the next step of that
  file,     \* recvFile of a transfer
  opened,   \* fileReceiver.open: the transfers it holds
  onDisk,   \* the file at a path
  stage,    \* the goroutine that runs the worker: run, closing, exited
  closing,  \* the transfers closeAll took and has not closed yet
  told      \* the reports queued for the viewer

diskVars   == <<file, onDisk>>
exitVars   == <<stage, closing>>
filesVars  == <<push, lane, job, diskVars, opened, exitVars, told>>

NoFile == [of |-> NoXfer, len |-> 0]
Own    == [of |-> NoXfer, len |-> 1]     \* a file of the host's own
Held(x, n) == [of |-> x, len |-> n]    \* n units of transfer x

Idle == [at |-> "idle", x |-> NoXfer]
Fresh == [path |-> <<>>, size |-> 0, written |-> 0, shut |-> FALSE]

FilesInit ==
  /\ push = [x \in Xfers |-> [to |-> "start", sent |-> 0]]
  /\ lane = <<>> /\ job = Idle
  /\ file = [x \in Xfers |-> Fresh] /\ opened = {}
  /\ onDisk = [p \in Paths |-> IF p \in Mine THEN Own ELSE NoFile]
  /\ stage = "run" /\ closing = {} /\ told = {}

-----------------------------------------------------------------------------
\* The viewer, and the transport that forwards its messages to the worker.

\* sendToWorker: in order, waiting for room, and dropped when the worker has gone.
Send(t, x, n) ==
  IF stage = "exited"
  THEN UNCHANGED lane
  ELSE Len(lane) < MaxLane /\ lane' = Append(lane, [at |-> t, x |-> x, size |-> n])

Offer(x, n) ==
  /\ push[x].to = "start"
  /\ push' = [push EXCEPT ![x].to = "send"] /\ Send("offer", x, n)

\* Nothing ties the chunks to the size that was announced.
Chunk(x) ==
  /\ push[x].to = "send" /\ push[x].sent < MaxLen
  /\ push' = [push EXCEPT ![x].sent = @ + 1] /\ Send("data", x, 0)

End(x) ==
  /\ push[x].to = "send"
  /\ push' = [push EXCEPT ![x].to = "ended"] /\ Send("end", x, 0)

\* The user cancels, or the host stopped acknowledging.
CancelPush(x) ==
  /\ push[x].to = "send"
  /\ push' = [push EXCEPT ![x].to = "given up"] /\ Send("cancel", x, 0)

\* A viewer that is told of a failure stops sending.
HearFailure(x) ==
  /\ push[x].to = "send" /\ <<x, "failed">> \in told
  /\ push' = [push EXCEPT ![x].to = "given up"] /\ UNCHANGED lane

ViewerStep ==
  /\ \E x \in Xfers : \/ \E n \in 0 .. MaxLen : Offer(x, n)
                      \/ Chunk(x) \/ End(x) \/ CancelPush(x) \/ HearFailure(x)
  /\ UNCHANGED <<job, diskVars, opened, exitVars, told>>

-----------------------------------------------------------------------------
\* The lane goroutine.

JobTo(x, p) == job' = [at |-> p, x |-> x]
Done       == job' = Idle
Tell(x, verdict) == told' = told \cup {<<x, verdict>>}

\* The goroutine takes the next message, one of type t.
Take(t) == job = Idle /\ lane # <<>> /\ Head(lane).at = t /\ lane' = Tail(lane)

\* Close and os.Remove, whose errors are ignored.
RemoveFile(x) ==
  /\ file' = [file EXCEPT ![x].shut = TRUE]
  /\ onDisk' = [onDisk EXCEPT ![file[x].path] = NoFile]

\* uniquePath: a path nothing is at, or the plain one when all are taken.
UniquePaths(n) ==
  LET free == {p \in {n} \X (0 .. Copies - 1) : onDisk[p] = NoFile}
  IN  IF free = {} THEN {<<n, 0>>} ELSE free

OfferRefused ==
  /\ Take("offer")      \* too large, or os.Create fails
  /\ Tell(Head(lane).x, "failed") /\ UNCHANGED <<job, diskVars, opened>>

OfferCreates ==
  /\ Take("offer") /\ Head(lane).size <= Limit
  /\ \E n \in Names : \E p \in UniquePaths(n) :
       /\ onDisk' = [onDisk EXCEPT ![p] = Held(Head(lane).x, 0)]
       /\ file' = [file EXCEPT ![Head(lane).x] =
                     [path |-> p, size |-> Head(lane).size, written |-> 0, shut |-> FALSE]]
  /\ JobTo(Head(lane).x, "insert") /\ UNCHANGED <<opened, told>>

OfferInserts ==
  /\ job.at = "insert"
  /\ opened' = opened \cup {job.x} /\ Done
  /\ UNCHANGED <<lane, diskVars, told>>

\* data, end and cancel look the transfer up under the lock; end and cancel take it out.
Lookup(t, next, left) ==
  /\ Take(t) /\ opened' = left
  /\ IF Head(lane).x \in opened THEN JobTo(Head(lane).x, next) ELSE UNCHANGED job
  /\ UNCHANGED <<diskVars, told>>

DataLookup   == Lookup("data", "write", opened)
EndLookup    == Lookup("end", "verify", opened \ {Head(lane).x})
CancelLookup == Lookup("cancel", "drop", opened \ {Head(lane).x})

\* Mutant of Write: the limit is left to what was announced.
WriteUnlimited ==
  /\ job.at = "write" /\ ~file[job.x].shut
  /\ file' = [file EXCEPT ![job.x].written = @ + 1]
  /\ onDisk' = [onDisk EXCEPT ![file[job.x].path] = Held(job.x, file[job.x].written + 1)]
  /\ Done /\ UNCHANGED <<lane, opened, told>>

Write ==
  /\ job.at = "write" /\ file[job.x].written < Limit /\ ~file[job.x].shut
  /\ file' = [file EXCEPT ![job.x].written = @ + 1]
  /\ onDisk' = [onDisk EXCEPT ![file[job.x].path] = Held(job.x, file[job.x].written + 1)]
  /\ Done /\ UNCHANGED <<lane, opened, told>>

\* The limit holds for what arrives, whatever was announced.
WriteTooMuch ==
  /\ job.at = "write" /\ file[job.x].written >= Limit
  /\ RemoveFile(job.x) /\ JobTo(job.x, "unmap") /\ UNCHANGED <<lane, opened, told>>

Unmap ==
  /\ job.at = "unmap"
  /\ opened' = opened \ {job.x} /\ Tell(job.x, "failed") /\ Done
  /\ UNCHANGED <<lane, diskVars>>

\* The disk is full, or closeAll has closed the file: fail() looks it up again.
WriteFails ==
  /\ job.at = "write" /\ file[job.x].written < Limit
  /\ JobTo(job.x, "fail") /\ UNCHANGED <<lane, diskVars, opened, told>>

Fail ==
  /\ job.at = "fail" /\ opened' = opened \ {job.x}
  /\ IF job.x \in opened THEN JobTo(job.x, "discard") /\ UNCHANGED told
                         ELSE Done /\ Tell(job.x, "failed")
  /\ UNCHANGED <<lane, diskVars>>

FailRemoves ==
  /\ job.at = "discard"
  /\ RemoveFile(job.x) /\ Tell(job.x, "failed") /\ Done /\ UNCHANGED <<lane, opened>>

CancelRemoves ==
  /\ job.at = "drop"
  /\ RemoveFile(job.x) /\ Done /\ UNCHANGED <<lane, opened, told>>

\* Mutant of Complete: an announced size of 0 is not checked.
CompleteUnlessZero(x) == file[x].size > 0 => file[x].written = file[x].size

\* What the file must have when the end arrives.
Complete(x) == file[x].written = file[x].size

EndSaves ==
  /\ job.at = "verify" /\ Complete(job.x)
  /\ file' = [file EXCEPT ![job.x].shut = TRUE]
  /\ Tell(job.x, "saved") /\ Done /\ UNCHANGED <<lane, onDisk, opened>>

EndRemoves ==
  /\ job.at = "verify" /\ ~Complete(job.x)
  /\ RemoveFile(job.x) /\ Tell(job.x, "failed") /\ Done /\ UNCHANGED <<lane, opened>>

Handle ==
  /\ stage # "exited"
  /\ \/ OfferRefused \/ OfferCreates \/ OfferInserts
     \/ DataLookup \/ EndLookup \/ CancelLookup
     \/ Write \/ WriteTooMuch \/ Unmap \/ WriteFails \/ Fail \/ FailRemoves
     \/ CancelRemoves \/ EndSaves \/ EndRemoves
  /\ UNCHANGED <<push, exitVars>>

-----------------------------------------------------------------------------
\* The worker leaves: closeAll, and the process exits.

CloseAll ==
  /\ stage = "run"
  /\ stage' = "closing" /\ closing' = opened /\ opened' = {}
  /\ UNCHANGED <<lane, job, diskVars, told>>

CloseOne(x) ==
  /\ x \in closing
  /\ closing' = closing \ {x} /\ RemoveFile(x) /\ Tell(x, "failed")
  /\ UNCHANGED <<lane, job, opened, stage>>

Exit ==
  /\ stage = "closing" /\ closing = {}
  /\ stage' = "exited" /\ UNCHANGED <<lane, job, diskVars, opened, closing, told>>

Leave ==
  /\ CloseAll \/ (\E x \in Xfers : CloseOne(x)) \/ Exit
  /\ UNCHANGED push

FilesNext == ViewerStep \/ Handle \/ Leave

FilesSpec == FilesInit /\ [][FilesNext]_filesVars

-----------------------------------------------------------------------------
Msgs  == [at : {"offer", "data", "end", "cancel"}, x : Xfers, size : 0 .. MaxLen]
JobSteps == {"insert", "write", "unmap", "fail", "discard", "drop", "verify"}

FilesTypeOK ==
  /\ push \in [Xfers -> [to : {"start", "send", "ended", "given up"}, sent : 0 .. MaxLen]]
  /\ lane \in Seq(Msgs) /\ Len(lane) <= MaxLane
  /\ job = Idle \/ job \in [at : JobSteps, x : Xfers]
  /\ file \in [Xfers -> [path : Paths \cup {<<>>}, size : 0 .. Limit,
                         written : 0 .. Limit, shut : BOOLEAN]]
  /\ opened \subseteq Xfers /\ closing \subseteq Xfers
  /\ onDisk \in [Paths -> [of : Xfers \cup {NoXfer}, len : 0 .. Limit + 1]]
  /\ stage \in {"run", "closing", "exited"}
  /\ told \subseteq Xfers \X {"saved", "failed"}

\* A transfer that was reported saved has every unit that was announced and is never also
\* reported failed, and until the worker leaves it stays on disk whole, whatever transfers
\* come after it; the host's own files stay as they were.  It takes the verification at the
\* end, the map that hands a transfer to the lane goroutine or to closeAll but never to
\* both, and paths that nothing else is at (filerecv.go: "end", closeAll, uniquePath).
SavedIsWhole ==
  /\ \A x \in Xfers : <<x, "saved">> \in told =>
       /\ <<x, "failed">> \notin told /\ file[x].written = file[x].size
       /\ stage = "run" => file[x].path \in Paths
                            /\ onDisk[file[x].path] = Held(x, file[x].size)
  /\ \A p \in Mine : onDisk[p] = Own

\* What is on disk of a transfer that is not saved is still somebody's to finish or to
\* remove, until the process exits: the map's, closeAll's, or the lane goroutine's
\* (filerecv.go, fail and closeAll: "never leave a truncated file").
PartialIsHeld ==
  \A x \in Xfers : \A p \in Paths :
    onDisk[p].of = x /\ <<x, "saved">> \notin told =>
      \/ x \in opened \cup closing
      \/ job.x = x /\ job.at \in {"insert", "verify", "drop", "discard"}
      \/ stage = "exited"
=============================================================================
