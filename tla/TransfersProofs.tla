--------------------------- MODULE TransfersProofs ---------------------------
(***************************************************************************)
(* Proofs about the transfers of files, for any number of transfers,       *)
(* names, paths, exports and units: uploads of viewers (FileTransfer),     *)
(* exports of the host (FileExport) and the files of a viewer's clipboard  *)
(* (ClipboardSync).                                                        *)
(***************************************************************************)
EXTENDS FileTransfer, FileExport, ClipboardSync, FiniteSetTheorems, TLAPS

Offers(x)    == {i \in 1 .. Len(lane) : lane[i].at = "offer" /\ lane[i].x = x}
Unoffered(x) == push[x].to = "start" \/ Offers(x) # {}

\* A transfer is offered once.
QueueInv ==
  \A x \in Xfers : /\ \A i, j \in Offers(x) : i = j
                   /\ push[x].to = "start" => Offers(x) = {}

\* Nothing is known of it before the lane goroutine has the offer.
UnofferedInv ==
  \A x \in Xfers : Unoffered(x) =>
    /\ file[x] = Fresh /\ x \notin opened \cup closing /\ job.x # x
    /\ <<x, "saved">> \notin told /\ <<x, "failed">> \notin told
    /\ \A p \in Paths : onDisk[p].of # x

\* The steps in which the goroutine has taken the transfer out of everybody else's reach.
Keeps == {"insert", "verify", "drop", "discard"}

\* The map, closeAll and the goroutine's steps that finish a transfer exclude each other.
HandsInv ==
  /\ opened \cap closing = {} /\ (closing # {} => stage = "closing")
  /\ job.at \in Keeps => job.x \notin opened \cup closing
  /\ job.at = "write" /\ ~file[job.x].shut => job.x \in opened \cup closing
  /\ job.at = "unmap" => \A p \in Paths : onDisk[p].of # job.x

\* What is at a path is nothing, a file of the host's own or that of the transfer it is for.
PathInv ==
  /\ \A x \in Xfers : x \in opened \cup closing \/ job.x = x => file[x].path \in Paths \ Mine
  /\ \A p \in Paths : \/ onDisk[p] = NoFile
                      \/ onDisk[p].of = NoXfer /\ p \in Mine
                      \/ onDisk[p].of \in Xfers /\ file[onDisk[p].of].path = p

\* Until the worker leaves, what is written is on disk.
OpenInv ==
  stage = "run" =>
    /\ \A x \in opened : (job.at = "unmap" /\ job.x = x) \/ ~file[x].shut
    /\ job.at \in Keeps \cup {"write", "fail"} => ~file[job.x].shut
    /\ \A x \in Xfers : ~file[x].shut /\ (x \in opened \/ job.x = x)
                         => onDisk[file[x].path] = Held(x, file[x].written)

\* A transfer that was reported saved is out of every hand, and one that may still be saved
\* was not reported failed.
ToldInv ==
  \A x \in Xfers :
    /\ <<x, "saved">> \in told => x \notin opened \cup closing /\ job.x # x
    /\ x \in opened \/ (job.x = x /\ job.at \in Keeps) => <<x, "failed">> \notin told

FilesInv == /\ FilesTypeOK /\ QueueInv /\ UnofferedInv /\ HandsInv /\ PathInv /\ OpenInv
            /\ ToldInv /\ SavedIsWhole /\ PartialIsHeld

LEMMA FilesStarts == FilesInit => FilesInv
<1> SUFFICES ASSUME FilesInit PROVE FilesInv
  OBVIOUS
<1> USE FilesAssumption DEF FilesInit, Idle, Fresh, NoFile, Own
<1>1. FilesTypeOK
  BY DEF FilesTypeOK, Msgs, Paths
<1>2. QueueInv /\ UnofferedInv
  BY DEF QueueInv, UnofferedInv, Unoffered, Offers
<1>3. HandsInv /\ PathInv /\ OpenInv /\ ToldInv
  BY DEF HandsInv, PathInv, OpenInv, ToldInv, Keeps
<1>4. SavedIsWhole /\ PartialIsHeld
  BY DEF SavedIsWhole, PartialIsHeld
<1> QED
  BY <1>1, <1>2, <1>3, <1>4 DEF FilesInv

\* The goroutine takes a message of some transfer, and if it is an offer it is the only one.
LEMMA TakeFacts ==
  ASSUME NEW t, FilesTypeOK, QueueInv, Take(t), UNCHANGED push
  PROVE  /\ Head(lane) \in Msgs /\ lane' \in Seq(Msgs) /\ Len(lane') <= MaxLane
         /\ QueueInv'
         /\ \A x \in Xfers : Unoffered(x)' => Unoffered(x) /\ (t = "offer" => x # Head(lane).x)
         /\ t = "offer" => Unoffered(Head(lane).x)
<1>1. lane \in Seq(Msgs) /\ lane # <<>> /\ lane' = Tail(lane) /\ Head(lane) = lane[1] /\ lane[1].at = t
  <2>1. lane \in Seq(Msgs)
    BY DEF FilesTypeOK
  <2>2. lane # <<>> /\ lane' = Tail(lane) /\ Head(lane).at = t
    BY DEF Take
  <2>3. Head(lane) = lane[1]
    BY <2>1, <2>2
  <2> QED
    BY <2>1, <2>2, <2>3
<1>2. /\ Head(lane) \in Msgs /\ lane' \in Seq(Msgs) /\ Len(lane') = Len(lane) - 1
      /\ Len(lane) \in Nat /\ Len(lane) > 0
      /\ \A i \in 1 .. Len(lane') : lane'[i] = lane[i + 1] /\ i + 1 \in 1 .. Len(lane)
  BY <1>1
<1>3. \A x \in Xfers : \A i \in Offers(x)' : i + 1 \in Offers(x) /\ i \in Nat /\ i # 0
  BY <1>2 DEF Offers
<1>4. t = "offer" => 1 \in Offers(Head(lane).x)
  BY <1>1, <1>2 DEF Offers
<1>5. QueueInv'
  BY <1>3 DEF QueueInv
<1>6. ASSUME NEW x \in Xfers, Unoffered(x)' PROVE Unoffered(x) /\ (t = "offer" => x # Head(lane).x)
  <2>1. CASE push[x].to = "start"
    BY <2>1, <1>4 DEF Unoffered, QueueInv
  <2>2. CASE Offers(x)' # {}
    <3>1. PICK i \in Offers(x)' : TRUE
      BY <2>2
    <3>2. i + 1 \in Offers(x) /\ i + 1 # 1
      BY <1>3, <3>1
    <3> QED
      BY <3>2, <1>4 DEF Unoffered, QueueInv
  <2> QED
    BY <1>6, <2>1, <2>2 DEF Unoffered
<1>7. t = "offer" => Unoffered(Head(lane).x)
  BY <1>4 DEF Unoffered
<1>8. Len(lane') <= MaxLane
  <2>1. Len(lane) <= MaxLane /\ MaxLane \in Nat
    BY FilesAssumption DEF FilesTypeOK
  <2> QED
    BY <1>2, <2>1
<1> QED
  BY <1>2, <1>5, <1>6, <1>7, <1>8

\* uniquePath finds a free path: all the others may be taken by other transfers and by the
\* host's own files, and there are more paths than those.
LEMMA UniquePathIsFree ==
  ASSUME FilesTypeOK, PathInv, NEW y \in Xfers, \A p \in Paths : onDisk[p].of # y,
         NEW n \in Names, NEW p \in UniquePaths(n)
  PROVE  p \in Paths /\ onDisk[p] = NoFile
<1> DEFINE all == {n} \X (0 .. Copies - 1)
           others == Xfers \ {y}
           theirs == {file[x].path : x \in others}
<1>1. IsFiniteSet(others) /\ Cardinality(others) = Cardinality(Xfers) - 1
  BY FilesAssumption, FS_RemoveElement
<1>2. IsFiniteSet(theirs) /\ Cardinality(theirs) <= Cardinality(others)
  <2> DEFINE f == [x \in others |-> file[x].path]
  <2>1. f \in Surjection(others, theirs)
    BY DEF Surjection
  <2> QED
    BY <1>1, <2>1, FS_Surjection
<1>3. IsFiniteSet(Mine \cup theirs) /\ Cardinality(Mine \cup theirs) < Copies
  <2>1. /\ IsFiniteSet(Mine \cup theirs)
        /\ Cardinality(Mine \cup theirs) = Cardinality(Mine) + Cardinality(theirs) - Cardinality(Mine \cap theirs)
    BY <1>2, FilesAssumption, FS_Union
  <2>2. IsFiniteSet(Mine \cap theirs)
    BY <1>2, FS_Intersection
  <2>3. /\ Cardinality(Mine) \in Nat /\ Cardinality(theirs) \in Nat /\ Cardinality(Xfers) \in Nat
        /\ Cardinality(Mine \cap theirs) \in Nat
    BY <1>2, <2>2, FS_CardinalityType, FilesAssumption
  <2> QED
    BY <1>1, <1>2, <2>1, <2>3, FilesAssumption
<1>4. IsFiniteSet(all) /\ Cardinality(all) = Copies
  <2>1. IsFiniteSet(0 .. Copies - 1) /\ Cardinality(0 .. Copies - 1) = Copies
    BY FS_Interval, FilesAssumption
  <2> DEFINE g == [i \in 0 .. Copies - 1 |-> <<n, i>>]
  <2>2. g \in Bijection(0 .. Copies - 1, all)
    <3>1. g \in Injection(0 .. Copies - 1, all)
      BY DEF Injection, IsInjective
    <3>2. g \in Surjection(0 .. Copies - 1, all)
      BY DEF Surjection
    <3> QED
      BY <3>1, <3>2 DEF Bijection
  <2> QED
    BY <2>1, <2>2, FS_Bijection DEF ExistsBijection
<1>5. ~(all \subseteq Mine \cup theirs)
  <2> SUFFICES ASSUME all \in SUBSET (Mine \cup theirs) PROVE FALSE
    OBVIOUS
  <2> HIDE DEF all, theirs
  <2>1. Cardinality(all) <= Cardinality(Mine \cup theirs)
    BY <1>3, FS_Subset
  <2> QED
    BY <1>3, <1>4, <2>1, FilesAssumption, FS_CardinalityType
<1>6. PICK q \in all : q \notin Mine \cup theirs
  BY <1>5
<1>7. q \in Paths /\ all \subseteq Paths
  BY DEF Paths
<1>8. onDisk[q] = NoFile
  <2>1. onDisk[q].of # y
    BY <1>7
  <2> QED
    BY <1>6, <1>7, <2>1 DEF PathInv
<1> QED
  BY <1>6, <1>7, <1>8 DEF UniquePaths

\* What a viewer sends is queued behind the rest; only its first message is an offer.
LEMMA SendFacts ==
  ASSUME FilesTypeOK, NEW t \in {"offer", "data", "end", "cancel"}, NEW y \in Xfers,
         NEW n \in 0 .. MaxLen, Send(t, y, n)
  PROVE  /\ lane' \in Seq(Msgs) /\ Len(lane') <= MaxLane
         /\ \A x \in Xfers : Offers(x) \subseteq Offers(x)'
         /\ \A x \in Xfers : \A i \in Offers(x)' :
              i \in Offers(x) \/ (i = Len(lane) + 1 /\ t = "offer" /\ x = y)
<1> DEFINE m == [at |-> t, x |-> y, size |-> n]
<1>1. m \in Msgs /\ lane \in Seq(Msgs) /\ Len(lane) <= MaxLane /\ Len(lane) \in Nat /\ MaxLane \in Nat
  <2>1. m \in Msgs
    BY DEF Msgs
  <2> HIDE DEF m
  <2>2. lane \in Seq(Msgs) /\ Len(lane) <= MaxLane
    BY DEF FilesTypeOK
  <2> QED
    BY <2>1, <2>2, FilesAssumption
<1>2. CASE UNCHANGED lane
  BY <1>1, <1>2 DEF Offers
<1>3. CASE Len(lane) < MaxLane /\ lane' = Append(lane, m)
  <2> HIDE DEF m
  <2>1. /\ lane' \in Seq(Msgs) /\ Len(lane') = Len(lane) + 1 /\ lane'[Len(lane) + 1] = m
        /\ \A i \in 1 .. Len(lane) : lane'[i] = lane[i]
    BY <1>1, <1>3
  <2>2. m.at = t /\ m.x = y
    BY DEF m
  <2> QED
    BY <1>1, <1>3, <2>1, <2>2 DEF Offers
<1> QED
  BY <1>2, <1>3 DEF Send

LEMMA ViewerPreserves == FilesInv /\ ViewerStep => FilesInv'
<1> SUFFICES ASSUME FilesInv, ViewerStep PROVE FilesInv'
  OBVIOUS
<1>1. FilesTypeOK /\ QueueInv /\ UnofferedInv
  BY DEF FilesInv
<1>2. UNCHANGED <<job, diskVars, opened, exitVars, told>>
  BY DEF ViewerStep
<1>3. /\ HandsInv' /\ PathInv' /\ OpenInv' /\ ToldInv' /\ SavedIsWhole' /\ PartialIsHeld'
  BY <1>2 DEF FilesInv, HandsInv, PathInv, OpenInv, ToldInv, SavedIsWhole, PartialIsHeld, diskVars, exitVars
<1>4. PICK y \in Xfers : \/ \E n \in 0 .. MaxLen : Offer(y, n)
                         \/ Chunk(y) \/ End(y) \/ CancelPush(y) \/ HearFailure(y)
  BY DEF ViewerStep
<1>5. /\ push' \in [Xfers -> [to : {"start", "send", "ended", "given up"}, sent : 0 .. MaxLen]]
      /\ \A x \in Xfers : push'[x].to = "start" => push[x].to = "start" /\ x # y
  <2> DEFINE States == {"start", "send", "ended", "given up"}
  <2>1. push \in [Xfers -> [to : States, sent : 0 .. MaxLen]] /\ MaxLen \in Nat
    BY <1>1, FilesAssumption DEF FilesTypeOK
  <2>2. CASE Chunk(y)
    <3>1. push[y].to \in States /\ push[y].sent + 1 \in 0 .. MaxLen
      <4>1. push[y].to \in States /\ push[y].sent \in 0 .. MaxLen
        BY <2>1
      <4>2. push[y].sent < MaxLen
        BY <2>2 DEF Chunk
      <4>3. ASSUME NEW k \in 0 .. MaxLen, k < MaxLen PROVE k + 1 \in 0 .. MaxLen
        BY <4>3, FilesAssumption
      <4> QED
        BY <4>1, <4>2, <4>3
    <3>2. push' = [push EXCEPT ![y].sent = push[y].sent + 1] /\ push[y].to = "send"
      BY <2>2 DEF Chunk
    <3> QED
      BY <2>1, <3>1, <3>2
  <2>3. CASE ~Chunk(y)
    <3>1. PICK s \in {"send", "ended", "given up"} : push' = [push EXCEPT ![y].to = s]
      BY <1>4, <2>3 DEF Offer, End, CancelPush, HearFailure
    <3> QED
      BY <2>1, <3>1
  <2> QED
    BY <2>2, <2>3
<1>6. /\ lane' \in Seq(Msgs) /\ Len(lane') <= MaxLane
      /\ \A x \in Xfers : Offers(x) \subseteq Offers(x)'
      /\ \A x \in Xfers : \A i \in Offers(x)' :
           i \in Offers(x) \/ (i = Len(lane) + 1 /\ x = y /\ push[y].to = "start")
  <2>0. 0 \in 0 .. MaxLen
    BY FilesAssumption
  <2>1. ASSUME NEW n \in 0 .. MaxLen, Offer(y, n) PROVE <1>6!:
    BY <1>1, <2>1, SendFacts DEF Offer
  <2>2. CASE Chunk(y)
    <3>1. Send("data", y, 0)
      BY <2>2 DEF Chunk
    <3> QED
      BY <1>1, <2>0, <3>1, SendFacts
  <2>3. CASE End(y)
    <3>1. Send("end", y, 0)
      BY <2>3 DEF End
    <3> QED
      BY <1>1, <2>0, <3>1, SendFacts
  <2>4. CASE CancelPush(y)
    <3>1. Send("cancel", y, 0)
      BY <2>4 DEF CancelPush
    <3> QED
      BY <1>1, <2>0, <3>1, SendFacts
  <2>5. CASE HearFailure(y)
    BY <1>1, <2>5 DEF HearFailure, Offers, FilesTypeOK
  <2> QED
    BY <1>4, <2>1, <2>2, <2>3, <2>4, <2>5
<1>7. FilesTypeOK'
  BY <1>1, <1>2, <1>5, <1>6 DEF FilesTypeOK, diskVars, exitVars, Msgs
<1>8. QueueInv'
  <2>1. \A x \in Xfers : push[x].to = "start" => Offers(x) = {}
    BY <1>1 DEF QueueInv
  <2>2. ASSUME NEW x \in Xfers PROVE \A i, j \in Offers(x)' : i = j
    BY <1>1, <1>6, <2>1 DEF QueueInv
  <2>3. ASSUME NEW x \in Xfers, push'[x].to = "start" PROVE Offers(x)' = {}
    BY <1>5, <1>6, <2>1, <2>3
  <2> QED
    BY <2>2, <2>3 DEF QueueInv
<1>9. UnofferedInv'
  <2>1. \A x \in Xfers : Unoffered(x)' => Unoffered(x)
    BY <1>5, <1>6 DEF Unoffered
  <2> QED
    BY <1>1, <1>2, <2>1 DEF UnofferedInv, diskVars, exitVars, Fresh
<1> QED
  BY <1>3, <1>7, <1>8, <1>9 DEF FilesInv

LEMMA TypeFacts ==
  ASSUME FilesTypeOK
  PROVE  /\ lane \in Seq(Msgs) /\ opened \subseteq Xfers /\ closing \subseteq Xfers
         /\ job = Idle \/ (job.at \in JobSteps /\ job.x \in Xfers)
         /\ \A x \in Xfers : job.x = x => job.at \in JobSteps
         /\ Idle.at \notin JobSteps /\ Idle.x = NoXfer
<1>1. Idle.at \notin JobSteps /\ Idle.x = NoXfer
  BY DEF Idle, JobSteps
<1> QED
  BY <1>1, FilesAssumption DEF FilesTypeOK

LEMMA QuietPreserves ==
  FilesInv /\ (OfferInserts \/ Unmap \/ WriteFails \/ Fail) /\ UNCHANGED <<push, exitVars>> => FilesInv'
<1> SUFFICES ASSUME FilesInv, OfferInserts \/ Unmap \/ WriteFails \/ Fail, UNCHANGED <<push, exitVars>>
             PROVE  FilesInv'
  OBVIOUS
<1> USE FilesAssumption DEF OfferInserts, Unmap, WriteFails, Fail, exitVars, diskVars, JobTo, Done, Tell
<1>1. FilesTypeOK /\ QueueInv /\ UnofferedInv /\ HandsInv /\ PathInv /\ OpenInv /\ ToldInv
  BY DEF FilesInv
<1>2. QueueInv' /\ \A x \in Xfers : Unoffered(x)' => Unoffered(x)
  BY DEF FilesInv, QueueInv, Unoffered, Offers
<1>3. FilesTypeOK'
  <2>1. job.x \in Xfers /\ job.at \in JobSteps
    BY <1>1, TypeFacts DEF JobSteps
  <2>2. (job' = Idle \/ job' \in [at : JobSteps, x : Xfers]) /\ opened' \subseteq Xfers
    BY <1>1, <2>1, TypeFacts DEF JobSteps
  <2>3. told' \subseteq Xfers \X {"saved", "failed"}
    <3>1. told' = told \/ told' = told \cup {<<job.x, "failed">>}
      OBVIOUS
    <3>2. told \subseteq Xfers \X {"saved", "failed"}
      BY <1>1 DEF FilesTypeOK
    <3> QED
      BY <2>1, <3>1, <3>2
  <2> QED
    BY <1>1, <2>2, <2>3 DEF FilesTypeOK, Msgs
<1>4. UnofferedInv'
  BY <1>1, <1>2, TypeFacts DEF UnofferedInv, Idle, JobSteps
<1>5. HandsInv'
  BY <1>1, TypeFacts DEF HandsInv, Keeps, Idle, JobSteps
<1>6. PathInv'
  BY <1>1, TypeFacts DEF PathInv, Idle, JobSteps
<1>7. OpenInv'
  BY <1>1, TypeFacts DEF OpenInv, HandsInv, Keeps, Idle, JobSteps
<1>8. ToldInv'
  <2>1. CASE OfferInserts
    BY <1>1, <2>1, TypeFacts DEF ToldInv, Keeps, Idle, JobSteps
  <2>2. CASE WriteFails
    BY <1>1, <2>2, TypeFacts DEF ToldInv, Keeps, Idle, JobSteps
  <2>3. CASE Unmap
    BY <1>1, <2>3, TypeFacts DEF ToldInv, Keeps, Idle, JobSteps
  <2>4. CASE Fail
    <3>1. CASE job.x \in opened
      <4>1. told' = told /\ opened' = opened \ {job.x} /\ job'.x = job.x
        BY <2>4, <3>1
      <4> QED
        BY <1>1, <3>1, <4>1 DEF ToldInv
    <3>2. CASE job.x \notin opened
      <4>1. told' = told \cup {<<job.x, "failed">>} /\ opened' = opened /\ job' = Idle
        BY <2>4, <3>2
      <4> QED
        BY <1>1, <3>2, <4>1, TypeFacts DEF ToldInv, Idle
    <3> QED
      BY <3>1, <3>2
  <2> QED
    BY <2>1, <2>2, <2>3, <2>4
<1>9. SavedIsWhole'
  BY <1>1, TypeFacts DEF FilesInv, SavedIsWhole, ToldInv, Idle, JobSteps
<1>10. PartialIsHeld'
  BY <1>1, TypeFacts DEF FilesInv, PartialIsHeld, HandsInv, PathInv, Idle, JobSteps
<1> QED
  BY <1>1, <1>2, <1>3, <1>4, <1>5, <1>6, <1>7, <1>8, <1>9, <1>10 DEF FilesInv

LEMMA LookupPreserves ==
  FilesInv /\ (DataLookup \/ EndLookup \/ CancelLookup) /\ UNCHANGED <<push, exitVars>> => FilesInv'
<1> SUFFICES ASSUME FilesInv, DataLookup \/ EndLookup \/ CancelLookup, UNCHANGED <<push, exitVars>>
             PROVE  FilesInv'
  OBVIOUS
<1> DEFINE y == Head(lane).x
<1>1. FilesTypeOK /\ QueueInv /\ UnofferedInv /\ HandsInv /\ PathInv /\ OpenInv /\ ToldInv
  BY DEF FilesInv
<1>2. PICK t \in {"data", "end", "cancel"} : Take(t)
  BY DEF DataLookup, EndLookup, CancelLookup, Lookup
<1>3. y \in Xfers /\ lane' \in Seq(Msgs) /\ Len(lane') <= MaxLane
  BY <1>1, <1>2, TakeFacts DEF Msgs
<1>4. QueueInv' /\ \A x \in Xfers : Unoffered(x)' => Unoffered(x)
  BY <1>1, <1>2, TakeFacts
<1>5. /\ job = Idle /\ UNCHANGED <<file, onDisk, stage, closing, told>>
      /\ \/ y \notin opened /\ job' = job /\ opened' = opened
         \/ y \in opened /\ opened' = opened /\ job' = [at |-> "write", x |-> y]
         \/ y \in opened /\ opened' = opened \ {y} /\ job' = [at |-> "verify", x |-> y]
         \/ y \in opened /\ opened' = opened \ {y} /\ job' = [at |-> "drop", x |-> y]
  BY <1>2 DEF DataLookup, EndLookup, CancelLookup, Lookup, Take, JobTo, exitVars, diskVars
<1> HIDE DEF y
<1>6. Idle.x = NoXfer /\ NoXfer \notin Xfers /\ Idle.at \notin JobSteps
  BY FilesAssumption, <1>1, TypeFacts
<1>7. FilesTypeOK'
  <2>1. (job' = Idle \/ job' \in [at : JobSteps, x : Xfers]) /\ opened' \subseteq Xfers
    BY <1>1, <1>3, <1>5, TypeFacts DEF JobSteps
  <2> QED
    BY <1>1, <1>3, <1>5, <2>1 DEF FilesTypeOK, Msgs
<1>8. UnofferedInv'
  BY <1>1, <1>3, <1>4, <1>5 DEF UnofferedInv, Fresh
<1>9. HandsInv'
  BY <1>1, <1>3, <1>5, <1>6 DEF HandsInv, Keeps, JobSteps
<1>10. PathInv' /\ OpenInv'
  BY <1>1, <1>3, <1>5, <1>6 DEF PathInv, OpenInv, HandsInv, Keeps, JobSteps
<1>11. ToldInv'
  <2>1. /\ opened' \subseteq opened /\ told' = told
        /\ \A x \in Xfers : job'.x = x => x \in opened /\ (x \in opened' => job'.at \notin Keeps)
    BY <1>5, <1>6 DEF Keeps
  <2> QED
    BY <1>1, <1>5, <2>1 DEF ToldInv
<1>12. SavedIsWhole' /\ PartialIsHeld'
  BY <1>3, <1>5, <1>6 DEF FilesInv, SavedIsWhole, PartialIsHeld
<1> QED
  BY <1>4, <1>7, <1>8, <1>9, <1>10, <1>11, <1>12 DEF FilesInv

LEMMA OfferRefusedPreserves == FilesInv /\ OfferRefused /\ UNCHANGED <<push, exitVars>> => FilesInv'
<1> SUFFICES ASSUME FilesInv, OfferRefused, UNCHANGED <<push, exitVars>> PROVE FilesInv'
  OBVIOUS
<1> DEFINE y == Head(lane).x
<1>1. FilesTypeOK /\ QueueInv /\ UnofferedInv /\ HandsInv /\ PathInv /\ OpenInv /\ ToldInv
  BY DEF FilesInv
<1>2. y \in Xfers /\ lane' \in Seq(Msgs) /\ Len(lane') <= MaxLane /\ Unoffered(y)
  BY <1>1, TakeFacts DEF Msgs, OfferRefused
<1>3. QueueInv' /\ \A x \in Xfers : Unoffered(x)' => Unoffered(x) /\ x # y
  BY <1>1, TakeFacts DEF OfferRefused
<1>4. UNCHANGED <<job, file, onDisk, opened, stage, closing>> /\ told' = told \cup {<<y, "failed">>}
  BY DEF OfferRefused, Tell, exitVars, diskVars
<1> HIDE DEF y
<1>5. <<y, "saved">> \notin told /\ y \notin opened /\ job.x # y
  BY <1>1, <1>2 DEF UnofferedInv
<1>6. FilesTypeOK'
  <2>1. told' \subseteq Xfers \X {"saved", "failed"}
    <3>1. told \subseteq Xfers \X {"saved", "failed"}
      BY <1>1 DEF FilesTypeOK
    <3> QED
      BY <1>2, <1>4, <3>1
  <2> QED
    BY <1>1, <1>2, <1>4, <2>1 DEF FilesTypeOK, Msgs
<1>7. UnofferedInv'
  BY <1>1, <1>3, <1>4 DEF UnofferedInv, Fresh
<1>8. HandsInv' /\ PathInv' /\ OpenInv'
  BY <1>1, <1>4 DEF HandsInv, PathInv, OpenInv
<1>9. ToldInv' /\ SavedIsWhole' /\ PartialIsHeld'
  BY <1>4, <1>5 DEF FilesInv, ToldInv, SavedIsWhole, PartialIsHeld
<1> QED
  BY <1>3, <1>6, <1>7, <1>8, <1>9 DEF FilesInv

\* A transfer's file is removed by whoever has it in hand, and no other file goes with it
\* while the worker runs.
LEMMA RemoveFacts ==
  ASSUME FilesInv, NEW y \in Xfers, RemoveFile(y), y \in opened \cup closing \/ job.x = y,
         stage = "run" => y \in opened \/ job.x = y,
         stage = "run" => ~file[y].shut
  PROVE  /\ file' \in [Xfers -> [path : Paths \cup {<<>>}, size : 0 .. Limit,
                                 written : 0 .. Limit, shut : BOOLEAN]]
         /\ onDisk' \in [Paths -> [of : Xfers \cup {NoXfer}, len : 0 .. Limit + 1]]
         /\ file'[y].shut
         /\ \A z \in Xfers : /\ z # y => file'[z] = file[z]
                             /\ file'[z].path = file[z].path
                             /\ file'[z].size = file[z].size
                             /\ file'[z].written = file[z].written
         /\ \A p \in Paths : /\ onDisk'[p] = NoFile \/ onDisk'[p] = onDisk[p]
                             /\ onDisk'[p].of # y
                             /\ p \in Mine => onDisk'[p] = onDisk[p]
         /\ stage = "run" => \A p \in Paths : onDisk[p].of # y => onDisk'[p] = onDisk[p]
<1> DEFINE q == file[y].path
           States == [path : Paths \cup {<<>>}, size : 0 .. Limit, written : 0 .. Limit, shut : BOOLEAN]
           Disk == [of : Xfers \cup {NoXfer}, len : 0 .. Limit + 1]
<1>1. file \in [Xfers -> States] /\ onDisk \in [Paths -> Disk]
  BY DEF FilesInv, FilesTypeOK
<1>2. file' = [file EXCEPT ![y].shut = TRUE] /\ onDisk' = [onDisk EXCEPT ![q] = NoFile]
  BY DEF RemoveFile
<1>3. q \in Paths /\ q \notin Mine
  BY DEF FilesInv, PathInv
<1>4. NoFile \in Disk /\ NoFile.of = NoXfer /\ NoXfer # y
  BY FilesAssumption DEF NoFile
<1>5. \A p \in Paths : onDisk[p].of = y => p = q
  BY <1>4 DEF FilesInv, PathInv
<1>6. stage = "run" => onDisk[q].of = y
  <2> SUFFICES ASSUME stage = "run" PROVE onDisk[q].of = y
    OBVIOUS
  <2>1. onDisk[q] = Held(y, file[y].written)
    BY DEF FilesInv, OpenInv
  <2> QED
    BY <2>1 DEF Held
<1>7. /\ file' \in [Xfers -> States] /\ file'[y].shut
      /\ \A z \in Xfers : /\ z # y => file'[z] = file[z]
                          /\ file'[z].path = file[z].path
                          /\ file'[z].size = file[z].size
                          /\ file'[z].written = file[z].written
  BY <1>1, <1>2
<1> HIDE DEF q, States, Disk
<1>8. /\ onDisk' \in [Paths -> Disk] /\ onDisk'[q] = NoFile
      /\ \A p \in Paths : p # q => onDisk'[p] = onDisk[p]
  BY <1>1, <1>2, <1>3, <1>4
<1> QED
  BY <1>3, <1>4, <1>5, <1>6, <1>7, <1>8 DEF States, Disk

\* A step in which the goroutine or closeAll is done with a transfer it removes.
LEMMA RemovingPreserves ==
  ASSUME FilesInv, UNCHANGED <<push, lane, stage>>, NEW y \in Xfers, RemoveFile(y),
         \/ job.x = y /\ job.at = "write" /\ UNCHANGED <<opened, closing, told>>
            /\ job' = [at |-> "unmap", x |-> y]
         \/ job.x = y /\ job.at = "drop" /\ UNCHANGED <<opened, closing, told>> /\ job' = Idle
         \/ job.x = y /\ job.at \in {"discard", "verify"} /\ UNCHANGED <<opened, closing>>
            /\ job' = Idle /\ Tell(y, "failed")
         \/ y \in closing /\ closing' = closing \ {y} /\ UNCHANGED <<job, opened>> /\ Tell(y, "failed")
  PROVE  FilesInv'
<1>1. FilesTypeOK /\ QueueInv /\ UnofferedInv /\ HandsInv /\ PathInv /\ OpenInv /\ ToldInv
  BY DEF FilesInv
<1>2. Idle.x = NoXfer /\ NoXfer \notin Xfers /\ Idle.at \notin JobSteps
  BY FilesAssumption, <1>1, TypeFacts
<1>3. /\ y \in opened \cup closing \/ job.x = y
      /\ stage = "run" => y \in opened \/ job.x = y
      /\ stage = "run" => ~file[y].shut
  BY <1>1 DEF HandsInv, OpenInv, Keeps
<1> DEFINE Facts ==
         /\ file' \in [Xfers -> [path : Paths \cup {<<>>}, size : 0 .. Limit,
                                 written : 0 .. Limit, shut : BOOLEAN]]
         /\ onDisk' \in [Paths -> [of : Xfers \cup {NoXfer}, len : 0 .. Limit + 1]]
         /\ file'[y].shut
         /\ \A z \in Xfers : /\ z # y => file'[z] = file[z]
                             /\ file'[z].path = file[z].path
                             /\ file'[z].size = file[z].size
                             /\ file'[z].written = file[z].written
         /\ \A p \in Paths : /\ onDisk'[p] = NoFile \/ onDisk'[p] = onDisk[p]
                             /\ onDisk'[p].of # y
                             /\ p \in Mine => onDisk'[p] = onDisk[p]
         /\ stage = "run" => \A p \in Paths : onDisk[p].of # y => onDisk'[p] = onDisk[p]
<1>4. Facts
  BY <1>3, RemoveFacts
<1>5. /\ opened' = opened /\ closing' \subseteq closing /\ closing \ {y} \subseteq closing'
      /\ told' = told \/ told' = told \cup {<<y, "failed">>}
      /\ \A x \in Xfers : job'.x = x => job.x = x
      /\ job' = Idle \/ job' = job \/ (job' = [at |-> "unmap", x |-> y] /\ job.x = y)
  BY <1>2 DEF Tell
<1>6. QueueInv' /\ \A x \in Xfers : Unoffered(x)' => Unoffered(x) /\ x # y
  <2>1. QueueInv' /\ \A x \in Xfers : Unoffered(x)' => Unoffered(x)
    BY <1>1 DEF QueueInv, Unoffered, Offers
  <2> QED
    BY <1>1, <1>3, <2>1 DEF UnofferedInv
<1>7. FilesTypeOK'
  <2>1. job' = Idle \/ job' \in [at : JobSteps, x : Xfers]
    <3>1. job = Idle \/ job \in [at : JobSteps, x : Xfers]
      BY <1>1 DEF FilesTypeOK
    <3>2. [at |-> "unmap", x |-> y] \in [at : JobSteps, x : Xfers]
      BY DEF JobSteps
    <3> QED
      BY <1>5, <3>1, <3>2
  <2>2. told' \subseteq Xfers \X {"saved", "failed"}
    <3>1. told \subseteq Xfers \X {"saved", "failed"}
      BY <1>1 DEF FilesTypeOK
    <3> QED
      BY <1>5, <3>1
  <2> QED
    BY <1>1, <1>4, <1>5, <2>1, <2>2 DEF FilesTypeOK, Msgs
<1>8. UnofferedInv'
  <2> SUFFICES ASSUME NEW x \in Xfers, Unoffered(x)'
               PROVE  /\ file'[x] = Fresh /\ x \notin opened' \cup closing' /\ job'.x # x
                      /\ <<x, "saved">> \notin told' /\ <<x, "failed">> \notin told'
                      /\ \A p \in Paths : onDisk'[p].of # x
    BY DEF UnofferedInv, Fresh
  <2>1. /\ x # y /\ file[x] = Fresh /\ x \notin opened \cup closing /\ job.x # x
        /\ <<x, "saved">> \notin told /\ <<x, "failed">> \notin told
        /\ \A p \in Paths : onDisk[p].of # x
    BY <1>1, <1>6 DEF UnofferedInv
  <2>2. \A p \in Paths : onDisk'[p].of # x
    BY <1>2, <1>4, <2>1 DEF NoFile
  <2>3. <<x, "saved">> \notin told' /\ <<x, "failed">> \notin told'
    BY <1>5, <2>1
  <2> QED
    BY <1>4, <1>5, <2>1, <2>2, <2>3
<1>9. HandsInv'
  <2>1. opened' \cap closing' = {} /\ (closing' # {} => stage' = "closing")
    BY <1>1, <1>5 DEF HandsInv
  <2>2. job'.at \in Keeps => job' = job /\ job.x \notin opened' \cup closing'
    BY <1>1, <1>2, <1>5 DEF HandsInv, Keeps, JobSteps
  <2>3. ASSUME job'.at = "write", ~file'[job'.x].shut PROVE job'.x \in opened' \cup closing'
    <3>1. job' = job /\ job.x \in Xfers
      BY <1>1, <1>2, <1>5, <2>3, TypeFacts DEF JobSteps
    <3>2. job.x # y
      BY <1>4, <2>3, <3>1
    <3> QED
      BY <1>1, <1>4, <1>5, <2>3, <3>1, <3>2 DEF HandsInv
  <2>4. ASSUME job'.at = "unmap", NEW p \in Paths PROVE onDisk'[p].of # job'.x
    <3>1. job'.x = y \/ (job' = job /\ job.x \in Xfers)
      BY <1>1, <1>2, <1>5, <2>4, TypeFacts DEF JobSteps
    <3> QED
      <4>1. CASE job'.x = y
        BY <1>4, <4>1
      <4>2. CASE job' = job /\ job.x \in Xfers
        <5>1. onDisk[p].of # job.x
          BY <1>1, <2>4, <4>2 DEF HandsInv
        <5> QED
          BY <1>2, <1>4, <4>2, <5>1 DEF NoFile
      <4> QED
        BY <3>1, <4>1, <4>2
  <2> QED
    BY <2>1, <2>2, <2>3, <2>4 DEF HandsInv
<1>10. PathInv'
  <2>1. ASSUME NEW x \in Xfers, x \in opened' \cup closing' \/ job'.x = x
        PROVE  file'[x].path \in Paths \ Mine
    BY <1>1, <1>4, <1>5, <2>1 DEF PathInv
  <2>2. ASSUME NEW p \in Paths
        PROVE  \/ onDisk'[p] = NoFile
               \/ onDisk'[p].of = NoXfer /\ p \in Mine
               \/ onDisk'[p].of \in Xfers /\ file'[onDisk'[p].of].path = p
    BY <1>1, <1>4 DEF PathInv
  <2> QED
    BY <2>1, <2>2 DEF PathInv
<1>11. OpenInv'
  <2> SUFFICES ASSUME stage = "run"
               PROVE  /\ \A x \in opened' : (job'.at = "unmap" /\ job'.x = x) \/ ~file'[x].shut
                      /\ job'.at \in Keeps \cup {"write", "fail"} => ~file'[job'.x].shut
                      /\ \A x \in Xfers : ~file'[x].shut /\ (x \in opened' \/ job'.x = x)
                            => onDisk'[file'[x].path] = Held(x, file'[x].written)
    BY DEF OpenInv, Held
  <2>1. closing = {} /\ job.x = y /\ job.at \in {"write", "drop", "discard", "verify"}
    BY <1>1 DEF HandsInv
  <2>2. \/ job' = Idle /\ y \notin opened
        \/ job' = [at |-> "unmap", x |-> y]
    BY <1>1, <2>1 DEF HandsInv, Keeps
  <2>3. ASSUME NEW x \in Xfers, ~file'[x].shut, x \in opened' \/ job'.x = x
        PROVE  onDisk'[file'[x].path] = Held(x, file'[x].written)
    <3>1. x # y /\ ~file[x].shut /\ x \in opened
      BY <1>2, <1>4, <1>5, <2>1, <2>3
    <3>2. onDisk[file[x].path] = Held(x, file[x].written) /\ file[x].path \in Paths
      BY <1>1, <3>1 DEF OpenInv, PathInv
    <3> QED
      BY <1>4, <3>1, <3>2 DEF Held
  <2>4. ASSUME NEW x \in opened' PROVE (job'.at = "unmap" /\ job'.x = x) \/ ~file'[x].shut
    <3>1. x \in Xfers /\ x \in opened
      BY <1>1, <1>5, TypeFacts
    <3> QED
      BY <1>1, <1>4, <2>1, <2>2, <3>1 DEF OpenInv
  <2> QED
    BY <1>2, <2>2, <2>3, <2>4 DEF Keeps, JobSteps
<1>12. ToldInv'
  <2> SUFFICES ASSUME NEW x \in Xfers
               PROVE  /\ <<x, "saved">> \in told' => x \notin opened' \cup closing' /\ job'.x # x
                      /\ x \in opened' \/ (job'.x = x /\ job'.at \in Keeps) => <<x, "failed">> \notin told'
    BY DEF ToldInv
  <2>1. <<x, "saved">> \in told' => <<x, "saved">> \in told
    BY <1>5
  <2>2. <<x, "saved">> \in told' => x \notin opened' \cup closing' /\ job'.x # x
    BY <1>1, <1>5, <2>1 DEF ToldInv
  <2>3. ASSUME x \in opened' \/ (job'.x = x /\ job'.at \in Keeps) PROVE <<x, "failed">> \notin told'
    <3>1. x \in opened \/ (job' = job /\ job.x = x /\ job.at \in Keeps)
      BY <1>2, <1>5, <2>3 DEF Keeps, JobSteps
    <3>2. <<x, "failed">> \notin told
      BY <1>1, <3>1 DEF ToldInv
    <3>3. told' = told \/ x # y
      BY <1>1, <1>2, <3>1 DEF HandsInv, Keeps, Idle
    <3> QED
      BY <1>5, <3>2, <3>3
  <2> QED
    BY <2>2, <2>3
<1>13. SavedIsWhole'
  <2>1. ASSUME NEW x \in Xfers, <<x, "saved">> \in told'
        PROVE  /\ <<x, "failed">> \notin told' /\ file'[x].written = file'[x].size
               /\ stage' = "run" => /\ file'[x].path \in Paths
                                    /\ onDisk'[file'[x].path] = Held(x, file'[x].size)
    <3>1. <<x, "saved">> \in told
      BY <1>5, <2>1
    <3>2. x # y
      BY <1>1, <1>3, <3>1 DEF ToldInv
    <3>3. /\ <<x, "failed">> \notin told /\ file[x].written = file[x].size
          /\ stage = "run" => /\ file[x].path \in Paths
                              /\ onDisk[file[x].path] = Held(x, file[x].size)
      BY <3>1 DEF FilesInv, SavedIsWhole
    <3>4. <<x, "failed">> \notin told'
      BY <1>5, <3>2, <3>3
    <3> QED
      BY <1>4, <3>2, <3>3, <3>4 DEF Held
  <2>2. \A p \in Mine : onDisk'[p] = Own
    BY <1>4, FilesAssumption DEF FilesInv, SavedIsWhole
  <2> QED
    BY <2>1, <2>2 DEF SavedIsWhole, Held, Own
<1>14. PartialIsHeld'
  BY <1>1, <1>2, <1>4, <1>5 DEF FilesInv, PartialIsHeld, NoFile
<1> QED
  BY <1>6, <1>7, <1>8, <1>9, <1>10, <1>11, <1>12, <1>13, <1>14 DEF FilesInv

LEMMA OfferCreatesPreserves == FilesInv /\ OfferCreates /\ UNCHANGED <<push, exitVars>> => FilesInv'
<1> SUFFICES ASSUME FilesInv, OfferCreates, UNCHANGED <<push, exitVars>> PROVE FilesInv'
  OBVIOUS
<1> DEFINE y == Head(lane).x
           n == Head(lane).size
<1>1. FilesTypeOK /\ QueueInv /\ UnofferedInv /\ HandsInv /\ PathInv /\ OpenInv /\ ToldInv
  BY DEF FilesInv
<1>2. /\ y \in Xfers /\ n \in 0 .. Limit
      /\ lane' \in Seq(Msgs) /\ Len(lane') <= MaxLane /\ Unoffered(y)
  <2>1. Head(lane) \in Msgs /\ lane' \in Seq(Msgs) /\ Len(lane') <= MaxLane /\ Unoffered(y)
    BY <1>1, TakeFacts DEF OfferCreates
  <2>2. y \in Xfers /\ n \in 0 .. MaxLen /\ n <= Limit
    BY <2>1 DEF Msgs, OfferCreates
  <2> QED
    BY <2>1, <2>2, FilesAssumption
<1>3. QueueInv' /\ \A x \in Xfers : Unoffered(x)' => Unoffered(x) /\ x # y
  BY <1>1, TakeFacts DEF OfferCreates
<1>4. /\ y \notin opened \cup closing /\ <<y, "saved">> \notin told /\ <<y, "failed">> \notin told
      /\ \A p \in Paths : onDisk[p].of # y
  BY <1>1, <1>2 DEF UnofferedInv
<1>5. PICK q \in Paths : /\ onDisk[q] = NoFile /\ onDisk' = [onDisk EXCEPT ![q] = Held(y, 0)]
                         /\ file' = [file EXCEPT ![y] = [path |-> q, size |-> n, written |-> 0, shut |-> FALSE]]
  BY <1>1, <1>2, <1>4, UniquePathIsFree DEF OfferCreates
<1>6. /\ job = Idle /\ job' = [at |-> "insert", x |-> y]
      /\ UNCHANGED <<opened, closing, stage, told>>
  BY DEF OfferCreates, Take, JobTo, exitVars
<1> HIDE DEF y, n
<1> DEFINE new == [path |-> q, size |-> n, written |-> 0, shut |-> FALSE]
<1>7. /\ file' \in [Xfers -> [path : Paths \cup {<<>>}, size : 0 .. Limit,
                              written : 0 .. Limit, shut : BOOLEAN]]
      /\ file'[y] = new /\ \A x \in Xfers : x # y => file'[x] = file[x]
  <2>1. new \in [path : Paths \cup {<<>>}, size : 0 .. Limit, written : 0 .. Limit, shut : BOOLEAN]
    BY <1>2, FilesAssumption
  <2>2. file' = [file EXCEPT ![y] = new]
    BY <1>5
  <2> HIDE DEF new
  <2> QED
    BY <1>1, <1>2, <2>1, <2>2 DEF FilesTypeOK
<1>8. /\ onDisk' \in [Paths -> [of : Xfers \cup {NoXfer}, len : 0 .. Limit + 1]]
      /\ onDisk'[q] = Held(y, 0) /\ \A p \in Paths : p # q => onDisk'[p] = onDisk[p]
  <2>1. Held(y, 0) \in [of : Xfers \cup {NoXfer}, len : 0 .. Limit + 1]
    BY <1>2, FilesAssumption DEF Held
  <2>2. onDisk \in [Paths -> [of : Xfers \cup {NoXfer}, len : 0 .. Limit + 1]]
    BY <1>1 DEF FilesTypeOK
  <2> QED
    BY <1>5, <2>1, <2>2
<1>9. q \notin Mine
  BY <1>5 DEF FilesInv, SavedIsWhole, NoFile, Own
<1>10. Idle.x = NoXfer /\ NoXfer \notin Xfers /\ Idle.at \notin JobSteps
  BY FilesAssumption, <1>1, TypeFacts
<1>11. FilesTypeOK'
  <2>1. job' \in [at : JobSteps, x : Xfers]
    BY <1>2, <1>6 DEF JobSteps
  <2> QED
    BY <1>1, <1>2, <1>6, <1>7, <1>8, <2>1 DEF FilesTypeOK, Msgs
<1>12. UnofferedInv'
  <2> SUFFICES ASSUME NEW x \in Xfers, Unoffered(x)'
               PROVE  /\ file'[x] = Fresh /\ x \notin opened' \cup closing' /\ job'.x # x
                      /\ <<x, "saved">> \notin told' /\ <<x, "failed">> \notin told'
                      /\ \A p \in Paths : onDisk'[p].of # x
    BY DEF UnofferedInv, Fresh
  <2> QED
    BY <1>1, <1>3, <1>6, <1>7, <1>8 DEF UnofferedInv, Held
<1>13. HandsInv'
  BY <1>1, <1>4, <1>6 DEF HandsInv, Keeps
<1>14. PathInv'
  <2>1. \A x \in Xfers : x \in opened' \cup closing' \/ job'.x = x => file'[x].path \in Paths \ Mine
    BY <1>1, <1>4, <1>6, <1>7, <1>9 DEF PathInv
  <2>2. ASSUME NEW p \in Paths
        PROVE  \/ onDisk'[p] = NoFile
               \/ onDisk'[p].of = NoXfer /\ p \in Mine
               \/ onDisk'[p].of \in Xfers /\ file'[onDisk'[p].of].path = p
    <3>1. CASE p = q
      BY <1>2, <1>7, <1>8, <3>1 DEF Held
    <3>2. CASE p # q
      <4>1. onDisk'[p] = onDisk[p] /\ onDisk[p].of # y
        BY <1>4, <1>8, <3>2
      <4>2. \/ onDisk[p] = NoFile
            \/ onDisk[p].of = NoXfer /\ p \in Mine
            \/ onDisk[p].of \in Xfers /\ file[onDisk[p].of].path = p
        BY <1>1 DEF PathInv
      <4> QED
        BY <1>7, <4>1, <4>2
    <3> QED
      BY <3>1, <3>2
  <2> QED
    BY <2>1, <2>2 DEF PathInv, NoFile
<1>15. OpenInv'
  <2> SUFFICES ASSUME stage = "run"
               PROVE  /\ \A x \in opened' : ~file'[x].shut
                      /\ ~file'[job'.x].shut
                      /\ \A x \in Xfers : ~file'[x].shut /\ (x \in opened' \/ job'.x = x)
                            => onDisk'[file'[x].path] = Held(x, file'[x].written)
    BY <1>6 DEF OpenInv, Held
  <2>1. \A x \in opened' : ~file'[x].shut
    BY <1>1, <1>4, <1>6, <1>7, <1>10, TypeFacts DEF OpenInv, JobSteps
  <2>2. ~file'[job'.x].shut
    BY <1>6, <1>7
  <2>3. ASSUME NEW x \in Xfers, ~file'[x].shut, x \in opened, x # y
        PROVE  onDisk'[file'[x].path] = Held(x, file'[x].written)
    <3>1. onDisk[file[x].path] = Held(x, file[x].written) /\ file[x].path \in Paths
      BY <1>1, <1>7, <2>3 DEF OpenInv, PathInv
    <3>2. file[x].path # q
      BY <1>5, <1>10, <3>1 DEF Held, NoFile
    <3> QED
      BY <1>7, <1>8, <2>3, <3>1, <3>2
  <2>4. onDisk'[file'[y].path] = Held(y, file'[y].written)
    BY <1>7, <1>8
  <2> QED
    BY <1>4, <1>6, <2>1, <2>2, <2>3, <2>4
<1>16. ToldInv'
  BY <1>1, <1>4, <1>6 DEF ToldInv, Keeps
<1>17. SavedIsWhole'
  <2>1. ASSUME NEW x \in Xfers, <<x, "saved">> \in told'
        PROVE  /\ <<x, "failed">> \notin told' /\ file'[x].written = file'[x].size
               /\ stage' = "run" => /\ file'[x].path \in Paths
                                    /\ onDisk'[file'[x].path] = Held(x, file'[x].size)
    <3>1. /\ <<x, "failed">> \notin told /\ file[x].written = file[x].size
          /\ stage = "run" => /\ file[x].path \in Paths
                              /\ onDisk[file[x].path] = Held(x, file[x].size)
      BY <1>6, <2>1 DEF FilesInv, SavedIsWhole
    <3>2. x # y
      BY <1>4, <1>6, <2>1
    <3>3. stage = "run" => file[x].path # q
      BY <1>5, <1>10, <3>1 DEF Held, NoFile
    <3> QED
      BY <1>6, <1>7, <1>8, <3>1, <3>2, <3>3
  <2>2. \A p \in Mine : onDisk'[p] = Own
    BY <1>8, <1>9, FilesAssumption DEF FilesInv, SavedIsWhole
  <2> QED
    BY <2>1, <2>2 DEF SavedIsWhole, Held, Own
<1>18. PartialIsHeld'
  <2>1. ASSUME NEW x \in Xfers, NEW p \in Paths, onDisk'[p].of = x, <<x, "saved">> \notin told'
        PROVE  \/ x \in opened' \cup closing' \/ (job'.x = x /\ job'.at = "insert")
               \/ stage' = "exited"
    <3>1. CASE p = q
      BY <1>6, <1>8, <2>1, <3>1 DEF Held
    <3>2. CASE p # q
      BY <1>6, <1>8, <1>10, <2>1, <3>2 DEF FilesInv, PartialIsHeld
    <3> QED
      BY <3>1, <3>2
  <2> QED
    BY <2>1 DEF PartialIsHeld
<1> QED
  BY <1>3, <1>11, <1>12, <1>13, <1>14, <1>15, <1>16, <1>17, <1>18 DEF FilesInv

LEMMA WritePreserves == FilesInv /\ Write /\ UNCHANGED <<push, exitVars>> => FilesInv'
<1> SUFFICES ASSUME FilesInv, Write, UNCHANGED <<push, exitVars>> PROVE FilesInv'
  OBVIOUS
<1> DEFINE y == job.x
           q == file[job.x].path
           k == file[job.x].written + 1
<1>1. FilesTypeOK /\ QueueInv /\ UnofferedInv /\ HandsInv /\ PathInv /\ OpenInv /\ ToldInv
  BY DEF FilesInv
<1>2. Idle.x = NoXfer /\ NoXfer \notin Xfers /\ Idle.at \notin JobSteps
  BY FilesAssumption, <1>1, TypeFacts
<1>3. /\ y \in Xfers /\ job.x = y /\ job.at = "write" /\ job' = Idle
      /\ UNCHANGED <<push, lane, opened, stage, closing, told>>
  BY <1>1, <1>2, TypeFacts DEF Write, Done, exitVars, JobSteps
<1>4. /\ file' = [file EXCEPT ![y].written = k] /\ onDisk' = [onDisk EXCEPT ![q] = Held(y, k)]
      /\ ~file[y].shut /\ file[y].written < Limit /\ q = file[y].path
  BY DEF Write
<1>5. y \in opened \cup closing /\ q \in Paths \ Mine
  BY <1>1, <1>3, <1>4 DEF HandsInv, PathInv
<1>6. k \in 0 .. Limit
  <2>1. file[y].written \in 0 .. Limit
    BY <1>1, <1>3 DEF FilesTypeOK
  <2>2. ASSUME NEW w \in 0 .. Limit, w < Limit PROVE w + 1 \in 0 .. Limit
    BY <2>2, FilesAssumption
  <2> QED
    BY <1>4, <2>1, <2>2
<1> HIDE DEF y, q, k
<1>7. /\ file' \in [Xfers -> [path : Paths \cup {<<>>}, size : 0 .. Limit,
                              written : 0 .. Limit, shut : BOOLEAN]]
      /\ file'[y].path = q /\ file'[y].size = file[y].size /\ ~file'[y].shut /\ file'[y].written = k
      /\ \A x \in Xfers : x # y => file'[x] = file[x]
  <2>1. file \in [Xfers -> [path : Paths \cup {<<>>}, size : 0 .. Limit,
                            written : 0 .. Limit, shut : BOOLEAN]]
    BY <1>1 DEF FilesTypeOK
  <2>2. PICK g : g = [file[y] EXCEPT !.written = k]
    OBVIOUS
  <2>3. /\ g \in [path : Paths \cup {<<>>}, size : 0 .. Limit, written : 0 .. Limit, shut : BOOLEAN]
        /\ g.path = q /\ g.size = file[y].size /\ ~g.shut /\ g.written = k
    BY <1>3, <1>4, <1>6, <2>1, <2>2
  <2>4. file' = [file EXCEPT ![y] = g]
    BY <1>4, <2>2
  <2> QED
    BY <1>3, <2>1, <2>3, <2>4
<1>8. /\ onDisk' \in [Paths -> [of : Xfers \cup {NoXfer}, len : 0 .. Limit + 1]]
      /\ onDisk'[q] = Held(y, k) /\ \A p \in Paths : p # q => onDisk'[p] = onDisk[p]
  <2>1. Held(y, k) \in [of : Xfers \cup {NoXfer}, len : 0 .. Limit + 1]
    BY <1>3, <1>6, FilesAssumption DEF Held
  <2>2. onDisk \in [Paths -> [of : Xfers \cup {NoXfer}, len : 0 .. Limit + 1]]
    BY <1>1 DEF FilesTypeOK
  <2> QED
    BY <1>4, <1>5, <2>1, <2>2
<1>9. QueueInv' /\ \A x \in Xfers : Unoffered(x)' => Unoffered(x) /\ x # y
  <2>1. QueueInv' /\ \A x \in Xfers : Unoffered(x)' => Unoffered(x)
    BY <1>1, <1>3 DEF QueueInv, Unoffered, Offers
  <2> QED
    BY <1>1, <1>3, <2>1 DEF UnofferedInv
<1>10. stage = "run" => onDisk[q].of = y
  <2> SUFFICES ASSUME stage = "run" PROVE onDisk[q].of = y
    OBVIOUS
  <2>1. onDisk[q] = Held(y, file[y].written)
    BY <1>1, <1>3, <1>4, <1>5 DEF OpenInv, HandsInv
  <2> QED
    BY <2>1 DEF Held
<1>11. FilesTypeOK'
  BY <1>1, <1>3, <1>7, <1>8 DEF FilesTypeOK, Msgs
<1>12. UnofferedInv'
  <2> SUFFICES ASSUME NEW x \in Xfers, Unoffered(x)'
               PROVE  /\ file'[x] = Fresh /\ x \notin opened' \cup closing' /\ job'.x # x
                      /\ <<x, "saved">> \notin told' /\ <<x, "failed">> \notin told'
                      /\ \A p \in Paths : onDisk'[p].of # x
    BY DEF UnofferedInv, Fresh
  <2> QED
    <3>1. /\ x # y /\ file[x] = Fresh /\ x \notin opened \cup closing /\ job.x # x
          /\ <<x, "saved">> \notin told /\ <<x, "failed">> \notin told
          /\ \A p \in Paths : onDisk[p].of # x
      BY <1>1, <1>9 DEF UnofferedInv
    <3>2. \A p \in Paths : onDisk'[p].of # x
      BY <1>8, <3>1 DEF Held
    <3> QED
      BY <1>2, <1>3, <1>7, <3>1, <3>2
<1>13. HandsInv'
  BY <1>1, <1>2, <1>3 DEF HandsInv, Keeps, JobSteps
<1>14. PathInv'
  <2>1. \A x \in Xfers : x \in opened' \cup closing' \/ job'.x = x => file'[x].path \in Paths \ Mine
    BY <1>1, <1>2, <1>3, <1>5, <1>7 DEF PathInv
  <2>2. ASSUME NEW p \in Paths
        PROVE  \/ onDisk'[p] = NoFile
               \/ onDisk'[p].of = NoXfer /\ p \in Mine
               \/ onDisk'[p].of \in Xfers /\ file'[onDisk'[p].of].path = p
    <3>1. CASE p = q
      BY <1>3, <1>7, <1>8, <3>1 DEF Held
    <3>2. CASE p # q
      <4>1. onDisk'[p] = onDisk[p]
        BY <1>8, <3>2
      <4>2. \/ onDisk[p] = NoFile
            \/ onDisk[p].of = NoXfer /\ p \in Mine
            \/ onDisk[p].of \in Xfers /\ file[onDisk[p].of].path = p
        BY <1>1 DEF PathInv
      <4> QED
        BY <1>4, <1>7, <3>2, <4>1, <4>2
    <3> QED
      BY <3>1, <3>2
  <2> QED
    BY <2>1, <2>2 DEF PathInv, NoFile
<1>15. OpenInv'
  <2> SUFFICES ASSUME stage = "run"
               PROVE  /\ \A x \in opened' : ~file'[x].shut
                      /\ \A x \in Xfers : ~file'[x].shut /\ x \in opened'
                            => onDisk'[file'[x].path] = Held(x, file'[x].written)
    BY <1>2, <1>3 DEF OpenInv, Held, Keeps, JobSteps
  <2>1. \A x \in opened' : ~file'[x].shut
    BY <1>1, <1>3, <1>7, TypeFacts DEF OpenInv
  <2>2. ASSUME NEW x \in Xfers, ~file'[x].shut, x \in opened, x # y
        PROVE  onDisk'[file'[x].path] = Held(x, file'[x].written)
    <3>1. onDisk[file[x].path] = Held(x, file[x].written) /\ file[x].path \in Paths
      BY <1>1, <1>7, <2>2 DEF OpenInv, PathInv
    <3>2. file[x].path # q
      BY <1>10, <2>2, <3>1 DEF Held
    <3> QED
      BY <1>7, <1>8, <2>2, <3>1, <3>2
  <2>3. onDisk'[file'[y].path] = Held(y, file'[y].written)
    BY <1>7, <1>8
  <2> QED
    BY <1>3, <2>1, <2>2, <2>3
<1>16. ToldInv'
  BY <1>1, <1>2, <1>3 DEF ToldInv, Keeps, JobSteps
<1>17. SavedIsWhole'
  <2>1. ASSUME NEW x \in Xfers, <<x, "saved">> \in told'
        PROVE  /\ <<x, "failed">> \notin told' /\ file'[x].written = file'[x].size
               /\ stage' = "run" => /\ file'[x].path \in Paths
                                    /\ onDisk'[file'[x].path] = Held(x, file'[x].size)
    <3>1. /\ <<x, "failed">> \notin told /\ file[x].written = file[x].size
          /\ stage = "run" => /\ file[x].path \in Paths
                              /\ onDisk[file[x].path] = Held(x, file[x].size)
      BY <1>3, <2>1 DEF FilesInv, SavedIsWhole
    <3>2. x # y
      BY <1>1, <1>3, <2>1 DEF ToldInv
    <3>3. stage = "run" => file[x].path # q
      BY <1>10, <3>1, <3>2 DEF Held
    <3> QED
      BY <1>3, <1>7, <1>8, <3>1, <3>2, <3>3
  <2>2. \A p \in Mine : onDisk'[p] = Own
    BY <1>5, <1>8, FilesAssumption DEF FilesInv, SavedIsWhole
  <2> QED
    BY <2>1, <2>2 DEF SavedIsWhole, Held, Own
<1>18. PartialIsHeld'
  <2>1. ASSUME NEW x \in Xfers, NEW p \in Paths, onDisk'[p].of = x, <<x, "saved">> \notin told'
        PROVE  x \in opened' \cup closing' \/ stage' = "exited"
                 \/ (job'.x = x /\ job'.at \in Keeps)
    <3>1. CASE p = q
      BY <1>3, <1>5, <1>8, <2>1, <3>1 DEF Held
    <3>2. CASE p # q
      BY <1>3, <1>8, <1>5, <2>1, <3>2 DEF FilesInv, PartialIsHeld
    <3> QED
      BY <3>1, <3>2
  <2> QED
    BY <2>1 DEF PartialIsHeld, Keeps
<1> QED
  BY <1>9, <1>11, <1>12, <1>13, <1>14, <1>15, <1>16, <1>17, <1>18 DEF FilesInv

LEMMA EndSavesPreserves == FilesInv /\ EndSaves /\ UNCHANGED <<push, exitVars>> => FilesInv'
<1> SUFFICES ASSUME FilesInv, EndSaves, UNCHANGED <<push, exitVars>> PROVE FilesInv'
  OBVIOUS
<1> DEFINE y == job.x
<1>1. FilesTypeOK /\ QueueInv /\ UnofferedInv /\ HandsInv /\ PathInv /\ OpenInv /\ ToldInv
  BY DEF FilesInv
<1>2. Idle.x = NoXfer /\ NoXfer \notin Xfers /\ Idle.at \notin JobSteps
  BY FilesAssumption, <1>1, TypeFacts
<1>3. /\ y \in Xfers /\ job.x = y /\ job.at = "verify" /\ job' = Idle
      /\ UNCHANGED <<push, lane, opened, stage, closing, onDisk>>
      /\ told' = told \cup {<<y, "saved">>}
      /\ file' = [file EXCEPT ![y].shut = TRUE] /\ file[y].written = file[y].size
  BY <1>1, <1>2, TypeFacts DEF EndSaves, Complete, Done, Tell, exitVars, JobSteps
<1>4. /\ y \notin opened \cup closing /\ <<y, "failed">> \notin told /\ file[y].path \in Paths
      /\ stage = "run" => ~file[y].shut
  BY <1>1, <1>3 DEF HandsInv, ToldInv, PathInv, OpenInv, Keeps
<1> HIDE DEF y
<1>5. /\ file' \in [Xfers -> [path : Paths \cup {<<>>}, size : 0 .. Limit,
                              written : 0 .. Limit, shut : BOOLEAN]]
      /\ \A x \in Xfers : /\ x # y => file'[x] = file[x]
                          /\ file'[x].path = file[x].path
                          /\ file'[x].size = file[x].size
                          /\ file'[x].written = file[x].written
  <2>1. file \in [Xfers -> [path : Paths \cup {<<>>}, size : 0 .. Limit,
                            written : 0 .. Limit, shut : BOOLEAN]]
    BY <1>1 DEF FilesTypeOK
  <2>2. ASSUME NEW x \in Xfers
        PROVE  /\ x # y => file'[x] = file[x]
               /\ file'[x].path = file[x].path /\ file'[x].size = file[x].size
               /\ file'[x].written = file[x].written
    <3>1. CASE x = y
      BY <1>3, <2>1, <3>1
    <3>2. CASE x # y
      BY <1>3, <2>1, <3>2
    <3> QED
      BY <3>1, <3>2
  <2>3. file' \in [Xfers -> [path : Paths \cup {<<>>}, size : 0 .. Limit,
                             written : 0 .. Limit, shut : BOOLEAN]]
    BY <1>3, <2>1
  <2> QED
    BY <2>2, <2>3
<1>6. QueueInv' /\ \A x \in Xfers : Unoffered(x)' => Unoffered(x) /\ x # y
  <2>1. QueueInv' /\ \A x \in Xfers : Unoffered(x)' => Unoffered(x)
    BY <1>1, <1>3 DEF QueueInv, Unoffered, Offers
  <2> QED
    BY <1>1, <1>3, <2>1 DEF UnofferedInv
<1>7. \A x \in Xfers : /\ <<x, "failed">> \in told' <=> <<x, "failed">> \in told
                       /\ <<x, "saved">> \in told' <=> <<x, "saved">> \in told \/ x = y
  BY <1>3
<1>8. FilesTypeOK'
  <2>1. told' \subseteq Xfers \X {"saved", "failed"}
    <3>1. told \subseteq Xfers \X {"saved", "failed"}
      BY <1>1 DEF FilesTypeOK
    <3> QED
      BY <1>3, <3>1
  <2>2. /\ push \in [Xfers -> [to : {"start", "send", "ended", "given up"}, sent : 0 .. MaxLen]]
        /\ lane \in Seq(Msgs) /\ Len(lane) <= MaxLane
        /\ opened \subseteq Xfers /\ closing \subseteq Xfers
        /\ onDisk \in [Paths -> [of : Xfers \cup {NoXfer}, len : 0 .. Limit + 1]]
        /\ stage \in {"run", "closing", "exited"}
    BY <1>1 DEF FilesTypeOK
  <2> QED
    BY <1>3, <1>5, <2>1, <2>2 DEF FilesTypeOK
<1>9. UnofferedInv'
  <2> SUFFICES ASSUME NEW x \in Xfers, Unoffered(x)'
               PROVE  /\ file'[x] = Fresh /\ x \notin opened' \cup closing' /\ job'.x # x
                      /\ <<x, "saved">> \notin told' /\ <<x, "failed">> \notin told'
                      /\ \A p \in Paths : onDisk'[p].of # x
    BY DEF UnofferedInv, Fresh
  <2>1. Unoffered(x) /\ x # y /\ file'[x] = file[x]
    BY <1>5, <1>6
  <2>2. /\ file[x] = Fresh /\ x \notin opened \cup closing
        /\ <<x, "saved">> \notin told /\ <<x, "failed">> \notin told
        /\ \A p \in Paths : onDisk[p].of # x
    BY <1>1, <2>1 DEF UnofferedInv
  <2> QED
    BY <1>2, <1>3, <1>7, <2>1, <2>2
<1>10. HandsInv'
  BY <1>1, <1>2, <1>3 DEF HandsInv, Keeps, JobSteps
<1>11. PathInv'
  BY <1>1, <1>2, <1>3, <1>5 DEF PathInv, NoFile
<1>12. OpenInv'
  <2> SUFFICES ASSUME stage = "run"
               PROVE  /\ \A x \in opened : ~file'[x].shut
                      /\ \A x \in Xfers : ~file'[x].shut /\ x \in opened
                            => onDisk[file'[x].path] = Held(x, file'[x].written)
    BY <1>2, <1>3 DEF OpenInv, Held, Keeps, JobSteps
  <2>1. \A x \in opened : x \in Xfers /\ x # y
    BY <1>1, <1>4, TypeFacts
  <2> QED
    BY <1>1, <1>3, <1>5, <2>1 DEF OpenInv
<1>13. ToldInv'
  BY <1>1, <1>2, <1>3, <1>4, <1>7 DEF ToldInv, Keeps, JobSteps
<1>14. stage = "run" => onDisk[file[y].path] = Held(y, file[y].size)
  BY <1>1, <1>3, <1>4 DEF OpenInv
<1>15. SavedIsWhole'
  BY <1>3, <1>4, <1>5, <1>7, <1>14 DEF FilesInv, SavedIsWhole, Held, Own
<1>16. PartialIsHeld'
  BY <1>2, <1>3, <1>7 DEF FilesInv, PartialIsHeld
<1> QED
  BY <1>6, <1>8, <1>9, <1>10, <1>11, <1>12, <1>13, <1>15, <1>16 DEF FilesInv

LEMMA LeavePreserves == FilesInv /\ (CloseAll \/ Exit) /\ UNCHANGED push => FilesInv'
<1> SUFFICES ASSUME FilesInv, CloseAll \/ Exit, UNCHANGED push PROVE FilesInv'
  OBVIOUS
<1>1. FilesTypeOK /\ QueueInv /\ UnofferedInv /\ HandsInv /\ PathInv /\ OpenInv /\ ToldInv
  BY DEF FilesInv
<1>2. /\ UNCHANGED <<push, lane, job, file, onDisk, told>> /\ stage' \in {"closing", "exited"}
      /\ opened' \cup closing' = opened \cup closing /\ opened' \subseteq opened
      /\ opened' \cap closing' = {} /\ (closing' # {} => stage' = "closing")
      /\ stage = "exited" => stage' = "exited"
  BY <1>1 DEF CloseAll, Exit, diskVars, HandsInv
<1>3. FilesTypeOK'
  BY <1>1, <1>2 DEF FilesTypeOK, Msgs
<1>4. QueueInv' /\ \A x \in Xfers : Unoffered(x)' => Unoffered(x)
  BY <1>1, <1>2 DEF QueueInv, Unoffered, Offers
<1>5. UnofferedInv'
  BY <1>1, <1>2, <1>4 DEF UnofferedInv, Fresh
<1>6. HandsInv' /\ PathInv' /\ OpenInv'
  BY <1>1, <1>2 DEF HandsInv, PathInv, OpenInv, NoFile, Keeps
<1>7. ToldInv' /\ SavedIsWhole' /\ PartialIsHeld'
  BY <1>1, <1>2 DEF FilesInv, ToldInv, SavedIsWhole, PartialIsHeld, Held, Own, Keeps
<1> QED
  BY <1>3, <1>4, <1>5, <1>6, <1>7 DEF FilesInv

LEMMA FilesPreserves == FilesInv /\ [FilesNext]_filesVars => FilesInv'
<1> SUFFICES ASSUME FilesInv, [FilesNext]_filesVars PROVE FilesInv'
  OBVIOUS
<1>1. FilesTypeOK
  BY DEF FilesInv
<1>2. CASE UNCHANGED filesVars
  <2> USE <1>2 DEF filesVars, diskVars, exitVars, FilesInv
  <2>1. FilesTypeOK'
    BY DEF FilesTypeOK
  <2>2. QueueInv' /\ UnofferedInv'
    BY DEF QueueInv, UnofferedInv, Unoffered, Offers
  <2>3. HandsInv' /\ PathInv' /\ OpenInv' /\ ToldInv' /\ SavedIsWhole' /\ PartialIsHeld'
    BY DEF HandsInv, PathInv, OpenInv, ToldInv, SavedIsWhole, PartialIsHeld
  <2> QED
    BY <2>1, <2>2, <2>3
<1>3. CASE ViewerStep
  BY <1>3, ViewerPreserves
<1>4. CASE Handle
  <2>1. UNCHANGED <<push, exitVars>>
    BY <1>4 DEF Handle
  <2>2. CASE OfferInserts \/ Unmap \/ WriteFails \/ Fail
    BY <2>1, <2>2, QuietPreserves
  <2>3. CASE DataLookup \/ EndLookup \/ CancelLookup
    BY <2>1, <2>3, LookupPreserves
  <2>4. CASE OfferRefused \/ OfferCreates \/ Write \/ EndSaves
    BY <2>1, <2>4, OfferRefusedPreserves, OfferCreatesPreserves, WritePreserves, EndSavesPreserves
  <2>5. CASE WriteTooMuch \/ FailRemoves \/ CancelRemoves \/ EndRemoves
    <3>1. job.x \in Xfers
      BY <1>1, <2>5, TypeFacts DEF WriteTooMuch, FailRemoves, CancelRemoves, EndRemoves, JobSteps
    <3> QED
      BY <2>1, <2>5, <3>1, RemovingPreserves
         DEF WriteTooMuch, FailRemoves, CancelRemoves, EndRemoves, Done, JobTo, exitVars
  <2> QED
    BY <1>4, <2>2, <2>3, <2>4, <2>5 DEF Handle
<1>5. CASE Leave
  <2>1. ASSUME NEW x \in Xfers, CloseOne(x) PROVE FilesInv'
    BY <1>5, <2>1, RemovingPreserves DEF CloseOne, Leave
  <2> QED
    BY <1>5, <2>1, LeavePreserves DEF Leave
<1> QED
  BY <1>2, <1>3, <1>4, <1>5 DEF FilesNext

\* The invariant of the host's uploads holds of every behaviour of FileTransfer (filerecv.go).
THEOREM FilesAlways == FilesSpec => []FilesInv
BY FilesStarts, FilesPreserves, PTL DEF FilesSpec

-----------------------------------------------------------------------------
Bulks == [t : {"data", "end"}, e : Exports, size : {0}]
Notes  == [t : {"offer", "failed"}, e : Exports, size : 0 .. MaxFile]
DataAt(e) == {i \in 1 .. Len(bulk) : bulk[i].t = "data" /\ bulk[i].e = e}
Holding(e)  == incoming[e] # NotHeld

ExportStates ==
  /\ export \in [Exports -> [at : {"start", "send", "stream", "over"},
                              size : 0 .. MaxFile, sent : 0 .. MaxFile]]
  /\ hi \in Seq(Notes) /\ bulk \in Seq(Bulks)
  /\ incoming \in [Exports -> {NotHeld} \cup [got : Nat, endSeen : BOOLEAN]]
  /\ listed \in [Exports -> {"none", "active", "done", "error"}]

\* What the viewer has and what is on its way was sent.
CountInv ==
  \A e \in Exports : /\ Cardinality(DataAt(e)) <= export[e].sent
                     /\ Holding(e) => incoming[e].got + Cardinality(DataAt(e)) <= export[e].sent

\* An end is the last of an export, and it follows as many chunks as were announced.
EndInv ==
  \A e \in Exports :
    /\ \A i \in 1 .. Len(bulk) : bulk[i].e = e /\ bulk[i].t = "end" =>
         /\ export[e].at = "over" /\ export[e].sent = export[e].size
         /\ \A j \in 1 .. Len(bulk) : bulk[j].e = e => j <= i
    /\ Holding(e) /\ incoming[e].endSeen =>
         /\ export[e].at = "over" /\ export[e].sent = export[e].size
         /\ \A i \in 1 .. Len(bulk) : bulk[i].e = e => bulk[i].t = "data"
    /\ export[e].at = "start" => export[e].sent = 0
    /\ listed[e] = "done" => export[e].at = "over"

ExportInv == ExportStates /\ CountInv /\ EndInv /\ DoneIsWhole

LEMMA ExportStarts == ExportInit => ExportInv
<1> SUFFICES ASSUME ExportInit PROVE ExportInv
  OBVIOUS
<1>1. \A e \in Exports : DataAt(e) = {}
  BY DEF ExportInit, DataAt
<1>2. ExportStates
  BY ExportAssumption DEF ExportInit, ExportStates
<1>3. CountInv
  <2>1. Cardinality({}) = 0
    BY FS_EmptySet
  <2>2. \A e \in Exports : export[e].sent = 0 /\ incoming[e] = NotHeld
    BY DEF ExportInit
  <2>3. \A e \in Exports : Cardinality(DataAt(e)) <= export[e].sent
    BY <1>1, <2>1, <2>2
  <2> QED
    BY <2>2, <2>3 DEF CountInv, Holding
<1>4. EndInv /\ DoneIsWhole
  BY DEF ExportInit, EndInv, DoneIsWhole, Holding
<1> QED
  BY <1>2, <1>3, <1>4 DEF ExportInv

LEMMA DataFinite == \A e \in Exports : bulk \in Seq(Bulks) => IsFiniteSet(DataAt(e)) /\ Cardinality(DataAt(e)) \in Nat
<1> SUFFICES ASSUME NEW e \in Exports, bulk \in Seq(Bulks)
             PROVE  IsFiniteSet(DataAt(e)) /\ Cardinality(DataAt(e)) \in Nat
  OBVIOUS
<1>1. IsFiniteSet(1 .. Len(bulk)) /\ DataAt(e) \in SUBSET (1 .. Len(bulk))
  BY FS_Interval DEF DataAt
<1> QED
  BY <1>1, FS_Subset, FS_CardinalityType

LEMMA HeardFinite ==
  ASSUME bulk' \in Seq(Bulks)
  PROVE  \A e \in Exports : IsFiniteSet(DataAt(e)') /\ Cardinality(DataAt(e)') \in Nat
<1> SUFFICES ASSUME NEW e \in Exports PROVE IsFiniteSet(DataAt(e)') /\ Cardinality(DataAt(e)') \in Nat
  OBVIOUS
<1>1. IsFiniteSet(1 .. Len(bulk')) /\ DataAt(e)' \in SUBSET (1 .. Len(bulk'))
  BY FS_Interval DEF DataAt
<1> QED
  BY <1>1, FS_Subset, FS_CardinalityType

LEMMA ChunkFacts ==
  ASSUME bulk \in Seq(Bulks)
  PROVE  \A i \in 1 .. Len(bulk) : bulk[i].t \in {"data", "end"} /\ bulk[i].e \in Exports
<1>1. \A i \in 1 .. Len(bulk) : bulk[i] \in Bulks
  OBVIOUS
<1> QED
  BY <1>1 DEF Bulks

\* One more chunk on the lane, or one less, is one more or less to count.
LEMMA SentData ==
  ASSUME bulk \in Seq(Bulks), NEW m \in Bulks, bulk' = Append(bulk, m)
  PROVE  /\ bulk' \in Seq(Bulks) /\ Len(bulk') = Len(bulk) + 1 /\ Len(bulk) \in Nat
         /\ bulk'[Len(bulk) + 1] = m /\ \A i \in 1 .. Len(bulk) : bulk'[i] = bulk[i]
         /\ \A e \in Exports : Cardinality(DataAt(e)') =
              Cardinality(DataAt(e)) + (IF m.t = "data" /\ m.e = e THEN 1 ELSE 0)
<1>1. /\ bulk' \in Seq(Bulks) /\ Len(bulk') = Len(bulk) + 1 /\ Len(bulk) \in Nat
      /\ bulk'[Len(bulk) + 1] = m /\ \A i \in 1 .. Len(bulk) : bulk'[i] = bulk[i]
  OBVIOUS
<1>2. ASSUME NEW e \in Exports
      PROVE  Cardinality(DataAt(e)') = Cardinality(DataAt(e)) + (IF m.t = "data" /\ m.e = e THEN 1 ELSE 0)
  <2>1. IsFiniteSet(DataAt(e)) /\ Cardinality(DataAt(e)) \in Nat
    BY DataFinite
  <2>2. CASE m.t = "data" /\ m.e = e
    <3>1. DataAt(e)' = DataAt(e) \cup {Len(bulk) + 1} /\ Len(bulk) + 1 \notin DataAt(e)
      BY <1>1, <2>2 DEF DataAt
    <3> QED
      BY <2>1, <2>2, <3>1, FS_AddElement
  <2>3. CASE ~(m.t = "data" /\ m.e = e)
    <3>1. DataAt(e)' = DataAt(e)
      BY <1>1, <2>3 DEF DataAt
    <3> QED
      BY <2>1, <2>3, <3>1
  <2> QED
    BY <2>2, <2>3
<1> QED
  BY <1>1, <1>2

LEMMA HeardData ==
  ASSUME bulk \in Seq(Bulks), bulk # <<>>, bulk' = Tail(bulk)
  PROVE  /\ bulk' \in Seq(Bulks) /\ Len(bulk') = Len(bulk) - 1 /\ Len(bulk) \in Nat \ {0}
         /\ Head(bulk) = bulk[1] /\ Head(bulk) \in Bulks
         /\ \A i \in 1 .. Len(bulk') : bulk'[i] = bulk[i + 1] /\ i + 1 \in 1 .. Len(bulk)
         /\ \A e \in Exports : Cardinality(DataAt(e)) =
              Cardinality(DataAt(e)') + (IF bulk[1].t = "data" /\ bulk[1].e = e THEN 1 ELSE 0)
<1>1. /\ bulk' \in Seq(Bulks) /\ Len(bulk') = Len(bulk) - 1 /\ Len(bulk) \in Nat \ {0}
      /\ Head(bulk) = bulk[1] /\ Head(bulk) \in Bulks
      /\ \A i \in 1 .. Len(bulk') : bulk'[i] = bulk[i + 1] /\ i + 1 \in 1 .. Len(bulk)
  OBVIOUS
<1>2. ASSUME NEW e \in Exports
      PROVE  Cardinality(DataAt(e)) = Cardinality(DataAt(e)') + (IF bulk[1].t = "data" /\ bulk[1].e = e THEN 1 ELSE 0)
  <2> DEFINE later == DataAt(e) \ {1}
  <2>1. IsFiniteSet(DataAt(e)) /\ Cardinality(DataAt(e)) \in Nat
    BY DataFinite
  <2>2. IsFiniteSet(later) /\ Cardinality(later) = Cardinality(DataAt(e)) - (IF 1 \in DataAt(e) THEN 1 ELSE 0)
    BY <2>1, FS_RemoveElement
  <2>3. 1 \in DataAt(e) <=> bulk[1].t = "data" /\ bulk[1].e = e
    BY <1>1 DEF DataAt
  <2> DEFINE f == [i \in later |-> i - 1]
  <2>4. f \in Bijection(later, DataAt(e)')
    <3>1. \A i \in later : i \in Nat /\ i > 1 /\ i - 1 \in DataAt(e)'
      BY <1>1 DEF DataAt
    <3>2. \A i \in DataAt(e)' : i + 1 \in later /\ i \in Nat
      BY <1>1 DEF DataAt
    <3>3. f \in [later -> DataAt(e)']
      BY <3>1
    <3>4. \A i, j \in later : f[i] = f[j] => i = j
      BY <3>1
    <3>5. \A i \in DataAt(e)' : f[i + 1] = i
      BY <3>2
    <3> HIDE DEF f, later
    <3> QED
      BY <3>2, <3>3, <3>4, <3>5 DEF Bijection, Injection, Surjection, IsInjective
  <2>5. Cardinality(DataAt(e)') = Cardinality(later)
    BY <2>2, <2>4, FS_Bijection DEF ExistsBijection
  <2> QED
    BY <2>1, <2>2, <2>3, <2>5
<1> QED
  BY <1>1, <1>2

LEMMA HostPreserves == ExportInv /\ HostExports => ExportInv'
<1> SUFFICES ASSUME ExportInv, HostExports PROVE ExportInv'
  OBVIOUS
<1>1. ExportStates /\ CountInv /\ EndInv /\ DoneIsWhole /\ UNCHANGED <<incoming, listed>>
  BY DEF ExportInv, HostExports
<1>2. PICK e \in Exports :
        \/ \E size \in 1 .. MaxFile : OfferRead(e, size) \/ OfferStream(e, size)
        \/ Refuse(e) \/ SendChunk(e) \/ SendEnd(e) \/ GiveUp(e)
  BY DEF HostExports
<1> DEFINE Places == [at : {"start", "send", "stream", "over"}, size : 0 .. MaxFile, sent : 0 .. MaxFile]
<1>3. /\ export \in [Exports -> Places] /\ bulk \in Seq(Bulks) /\ hi \in Seq(Notes)
      /\ \A d \in Exports : Cardinality(DataAt(d)) \in Nat /\ export[d].sent \in 0 .. MaxFile
                            /\ export[d].size \in 0 .. MaxFile
  BY <1>1, DataFinite DEF ExportStates
<1>4. ASSUME NEW size \in 1 .. MaxFile, NEW how \in {"send", "stream"}, Announce(e, size, how)
      PROVE  ExportInv'
  <2> DEFINE r == [at |-> how, size |-> size, sent |-> 0]
             m == [t |-> "offer", e |-> e, size |-> size]
  <2>1. r \in Places /\ m \in Notes /\ r.sent = 0 /\ r.at = how
    BY ExportAssumption DEF Notes
  <2>2. export' = [export EXCEPT ![e] = r] /\ hi' = Append(hi, m) /\ bulk' = bulk
        /\ export[e].at = "start" /\ export[e].sent = 0 /\ listed[e] # "done"
    BY <1>1, <1>4 DEF Announce, EndInv
  <2> HIDE DEF r, m
  <2>3. /\ export' \in [Exports -> Places] /\ hi' \in Seq(Notes)
        /\ export'[e] = r /\ \A d \in Exports : d # e => export'[d] = export[d]
    BY <1>3, <2>1, <2>2
  <2>4. ExportStates'
    BY <1>1, <2>2, <2>3 DEF ExportStates, Bulks, Notes
  <2>5. CountInv'
    BY <1>1, <2>1, <2>2, <2>3 DEF CountInv, DataAt, Holding
  <2>6. EndInv' /\ DoneIsWhole'
    BY <1>1, <2>1, <2>2, <2>3 DEF EndInv, DoneIsWhole, Holding
  <2> QED
    BY <2>4, <2>5, <2>6 DEF ExportInv
<1>5. CASE Refuse(e) \/ GiveUp(e)
  <2>1. /\ export' = [export EXCEPT ![e].at = "over"] /\ bulk' = bulk
        /\ export[e].at \in {"start", "stream"}
        /\ hi' \in {hi, Append(hi, [t |-> "failed", e |-> e, size |-> 0])}
    BY <1>5 DEF Refuse, GiveUp
  <2>2. [t |-> "failed", e |-> e, size |-> 0] \in Notes
    BY ExportAssumption DEF Notes
  <2>3. hi' \in Seq(Notes)
    <3> DEFINE m == [t |-> "failed", e |-> e, size |-> 0]
    <3>1. m \in Notes /\ (hi' = hi \/ hi' = Append(hi, m)) /\ hi \in Seq(Notes)
      BY <1>3, <2>1, <2>2
    <3> HIDE DEF m
    <3> QED
      BY <3>1
  <2>4. /\ export' \in [Exports -> Places] /\ export'[e].at = "over"
        /\ \A d \in Exports : /\ d # e => export'[d] = export[d]
                              /\ export'[d].size = export[d].size /\ export'[d].sent = export[d].sent
    BY <1>3, <2>1
  <2>5. ExportStates'
    BY <1>1, <2>1, <2>3, <2>4 DEF ExportStates, Bulks, Notes
  <2>6. CountInv'
    BY <1>1, <2>1, <2>4 DEF CountInv, DataAt, Holding
  <2>7. EndInv' /\ DoneIsWhole'
    BY <1>1, <2>1, <2>4 DEF EndInv, DoneIsWhole, Holding
  <2> QED
    BY <2>5, <2>6, <2>7 DEF ExportInv
<1>6. CASE SendChunk(e)
  <2> DEFINE m == [t |-> "data", e |-> e, size |-> 0]
  <2>1. m \in Bulks /\ m.t = "data" /\ m.e = e
    BY DEF Bulks
  <2>2. /\ export' = [export EXCEPT ![e].sent = export[e].sent + 1] /\ hi' = hi /\ bulk' = Append(bulk, m)
        /\ export[e].at \in {"send", "stream"}
        /\ export[e].sent < export[e].size \/ export[e].sent < MaxFile
    BY <1>6 DEF SendChunk
  <2> HIDE DEF m
  <2>3. export[e].sent + 1 \in 0 .. MaxFile
    <3>1. ASSUME NEW a \in 0 .. MaxFile, NEW b \in 0 .. MaxFile, a < b \/ a < MaxFile
          PROVE  a + 1 \in 0 .. MaxFile
      BY <3>1, ExportAssumption
    <3> QED
      BY <1>3, <2>2, <3>1
  <2>4. /\ export' \in [Exports -> Places] /\ export'[e].sent = export[e].sent + 1
        /\ export'[e].at = export[e].at
        /\ \A d \in Exports : d # e => export'[d] = export[d]
    BY <1>3, <2>2, <2>3
  <2>5. /\ bulk' \in Seq(Bulks) /\ Len(bulk') = Len(bulk) + 1 /\ Len(bulk) \in Nat
        /\ bulk'[Len(bulk) + 1] = m /\ \A i \in 1 .. Len(bulk) : bulk'[i] = bulk[i]
        /\ \A d \in Exports : Cardinality(DataAt(d)') = Cardinality(DataAt(d)) + (IF d = e THEN 1 ELSE 0)
    BY <1>3, <2>1, <2>2, SentData
  <2>6. ExportStates'
    BY <1>1, <2>2, <2>4, <2>5 DEF ExportStates, Bulks, Notes
  <2>7. CountInv'
    <3> SUFFICES ASSUME NEW d \in Exports
                 PROVE  /\ Cardinality(DataAt(d)') <= export'[d].sent
                        /\ Holding(d)' => incoming'[d].got + Cardinality(DataAt(d)') <= export'[d].sent
      BY DEF CountInv
    <3>1. /\ Cardinality(DataAt(d)) <= export[d].sent
          /\ Holding(d) => incoming[d].got + Cardinality(DataAt(d)) <= export[d].sent
      BY <1>1 DEF CountInv
    <3>2. Holding(d)' = Holding(d) /\ incoming'[d] = incoming[d] /\ (Holding(d) => incoming[d].got \in Nat)
      BY <1>1 DEF Holding, ExportStates
    <3>3. export[d].sent \in Nat /\ Cardinality(DataAt(d)) \in Nat
      BY <1>3
    <3>4. CASE d = e
      <4>1. /\ export'[d].sent = export[d].sent + 1
            /\ Cardinality(DataAt(d)') = Cardinality(DataAt(d)) + 1
        BY <2>4, <2>5, <3>4
      <4> QED
        BY <3>1, <3>2, <3>3, <4>1
    <3>5. CASE d # e
      BY <2>4, <2>5, <3>1, <3>2, <3>3, <3>5
    <3> QED
      BY <3>4, <3>5
  <2>8. EndInv' /\ DoneIsWhole'
    <3>1. \A i \in 1 .. Len(bulk) : bulk[i].e = e => bulk[i].t = "data"
      <4>1. \A i \in 1 .. Len(bulk) : bulk[i].t \in {"data", "end"}
        BY <1>3, ChunkFacts
      <4> QED
        BY <1>1, <2>2, <4>1 DEF EndInv
    <3>2. listed[e] # "done"
      BY <1>1, <2>2 DEF EndInv
    <3>3. EndInv'
      BY <1>1, <2>1, <2>2, <2>4, <2>5, <3>1 DEF EndInv, Holding
    <3>4. ASSUME NEW d \in Exports, listed'[d] = "done"
          PROVE  export'[d].sent = export'[d].size /\ \A i \in DOMAIN bulk' : bulk'[i].e # d
      <4>1. d # e /\ listed[d] = "done"
        BY <1>1, <3>2, <3>4
      <4>2. DOMAIN bulk' = 1 .. Len(bulk) + 1 /\ DOMAIN bulk = 1 .. Len(bulk)
        BY <1>3, <2>5
      <4>3. export[d].sent = export[d].size /\ \A i \in 1 .. Len(bulk) : bulk[i].e # d
        BY <1>1, <4>1, <4>2 DEF DoneIsWhole
      <4>4. \A i \in DOMAIN bulk' : bulk'[i].e # d
        BY <2>1, <2>5, <4>1, <4>2, <4>3
      <4> QED
        BY <2>4, <4>1, <4>3, <4>4
    <3> QED
      BY <3>3, <3>4 DEF DoneIsWhole
  <2> QED
    BY <2>6, <2>7, <2>8 DEF ExportInv
<1>7. CASE SendEnd(e)
  <2> DEFINE m == [t |-> "end", e |-> e, size |-> 0]
  <2>1. m \in Bulks /\ m.t = "end" /\ m.e = e
    BY DEF Bulks
  <2>2. /\ export' = [export EXCEPT ![e].at = "over"] /\ hi' = hi /\ bulk' = Append(bulk, m)
        /\ export[e].at \in {"send", "stream"} /\ export[e].sent = export[e].size
    BY <1>7 DEF SendEnd
  <2> HIDE DEF m
  <2>3. /\ export' \in [Exports -> Places] /\ export'[e].at = "over"
        /\ \A d \in Exports : /\ d # e => export'[d] = export[d]
                              /\ export'[d].size = export[d].size /\ export'[d].sent = export[d].sent
    BY <1>3, <2>2
  <2>4. /\ bulk' \in Seq(Bulks) /\ Len(bulk') = Len(bulk) + 1 /\ Len(bulk) \in Nat
        /\ bulk'[Len(bulk) + 1] = m /\ \A i \in 1 .. Len(bulk) : bulk'[i] = bulk[i]
        /\ \A d \in Exports : Cardinality(DataAt(d)') = Cardinality(DataAt(d))
    <3>1. \A d \in Exports : Cardinality(DataAt(d)') =
              Cardinality(DataAt(d)) + (IF m.t = "data" /\ m.e = d THEN 1 ELSE 0)
      BY <1>3, <2>1, <2>2, SentData
    <3>2. \A d \in Exports : Cardinality(DataAt(d)') = Cardinality(DataAt(d)) + 0
      BY <2>1, <3>1
    <3> QED
      BY <1>3, <2>1, <2>2, <3>2, SentData
  <2>5. ExportStates'
    BY <1>1, <2>2, <2>3, <2>4 DEF ExportStates, Bulks, Notes
  <2>6. CountInv'
    BY <1>1, <2>3, <2>4 DEF CountInv, Holding
  <2>7. /\ \A i \in 1 .. Len(bulk) : bulk[i].e = e => bulk[i].t = "data"
        /\ ~(Holding(e) /\ incoming[e].endSeen) /\ listed[e] # "done"
    <3>1. \A i \in 1 .. Len(bulk) : bulk[i].t \in {"data", "end"}
      BY <1>3, ChunkFacts
    <3> QED
      BY <1>1, <2>2, <3>1 DEF EndInv
  <2>8. EndInv'
    BY <1>1, <2>1, <2>2, <2>3, <2>4, <2>7 DEF EndInv, Holding
  <2>9. DoneIsWhole'
    <3>1. ASSUME NEW d \in Exports, listed'[d] = "done"
          PROVE  export'[d].sent = export'[d].size /\ \A i \in DOMAIN bulk' : bulk'[i].e # d
      <4>1. d # e /\ listed[d] = "done"
        BY <1>1, <2>7, <3>1
      <4>2. DOMAIN bulk' = 1 .. Len(bulk) + 1 /\ DOMAIN bulk = 1 .. Len(bulk)
        BY <1>3, <2>4
      <4>3. export[d].sent = export[d].size /\ \A i \in 1 .. Len(bulk) : bulk[i].e # d
        BY <1>1, <4>1, <4>2 DEF DoneIsWhole
      <4> QED
        <5>1. export'[d].sent = export'[d].size
          BY <2>3, <4>1, <4>3
        <5>2. \A i \in 1 .. Len(bulk) + 1 : bulk'[i].e # d
          BY <2>1, <2>4, <4>1, <4>3
        <5> QED
          BY <4>2, <5>1, <5>2
    <3> QED
      BY <3>1 DEF DoneIsWhole
  <2> QED
    BY <2>5, <2>6, <2>8, <2>9 DEF ExportInv
<1> QED
  BY <1>2, <1>4, <1>5, <1>6, <1>7 DEF OfferRead, OfferStream

\* What the viewer does with one export's message leaves the others as they were.
LEMMA HearingPreserves ==
  ASSUME ExportInv, UNCHANGED export, hi' \in Seq(Notes),
         bulk' = bulk \/ (bulk # <<>> /\ bulk' = Tail(bulk)), NEW e \in Exports,
         \A d \in Exports : d # e => incoming'[d] = incoming[d] /\ listed'[d] = listed[d],
         incoming' \in [Exports -> {NotHeld} \cup [got : Nat, endSeen : BOOLEAN]],
         listed' \in [Exports -> {"none", "active", "done", "error"}],
         Holding(e)' => incoming'[e].got + Cardinality(DataAt(e)') <= export[e].sent,
         Holding(e)' /\ incoming'[e].endSeen =>
           /\ export[e].at = "over" /\ export[e].sent = export[e].size
           /\ \A i \in 1 .. Len(bulk') : bulk'[i].e = e => bulk'[i].t = "data",
         listed'[e] = "done" =>
           /\ export[e].at = "over" /\ export[e].sent = export[e].size
           /\ \A i \in 1 .. Len(bulk') : bulk'[i].e # e
  PROVE  ExportInv'
<1>1. ExportStates /\ CountInv /\ EndInv /\ DoneIsWhole
  BY DEF ExportInv
<1> DEFINE Shifted(s) ==
        /\ bulk \in Seq(Bulks) /\ bulk' \in Seq(Bulks) /\ Len(bulk') = Len(bulk) - s
        /\ \A i \in 1 .. Len(bulk') : i + s \in 1 .. Len(bulk) /\ bulk'[i] = bulk[i + s]
        /\ \A d \in Exports : Cardinality(DataAt(d)') <= Cardinality(DataAt(d))
        /\ DOMAIN bulk = 1 .. Len(bulk) /\ DOMAIN bulk' = 1 .. Len(bulk')
        /\ Len(bulk) \in Nat /\ Len(bulk') \in Nat
<1>2. PICK s \in {0, 1} : Shifted(s)
  <2>1. bulk \in Seq(Bulks) /\ \A d \in Exports : Cardinality(DataAt(d)) \in Nat
    BY <1>1, DataFinite DEF ExportStates
  <2>2. CASE bulk' = bulk
    <3>1. \A d \in Exports : DataAt(d)' = DataAt(d)
      BY <2>2 DEF DataAt
    <3>2. \A d \in Exports : Cardinality(DataAt(d)') <= Cardinality(DataAt(d))
      BY <2>1, <3>1
    <3>3. /\ bulk' \in Seq(Bulks) /\ Len(bulk') = Len(bulk) - 0 /\ Len(bulk) \in Nat
          /\ \A i \in 1 .. Len(bulk') : i + 0 \in 1 .. Len(bulk) /\ bulk'[i] = bulk[i + 0]
      BY <2>1, <2>2
    <3>4. Shifted(0)
      BY <2>1, <2>2, <3>2, <3>3
    <3> HIDE DEF Shifted
    <3> QED
      BY <3>4
  <2>3. CASE bulk # <<>> /\ bulk' = Tail(bulk)
    <3>1. /\ bulk' \in Seq(Bulks) /\ Len(bulk') = Len(bulk) - 1 /\ Len(bulk) \in Nat \ {0}
          /\ \A i \in 1 .. Len(bulk') : bulk'[i] = bulk[i + 1] /\ i + 1 \in 1 .. Len(bulk)
          /\ \A d \in Exports : Cardinality(DataAt(d)) =
               Cardinality(DataAt(d)') + (IF bulk[1].t = "data" /\ bulk[1].e = d THEN 1 ELSE 0)
      BY <2>1, <2>3, HeardData
    <3>2. \A d \in Exports : Cardinality(DataAt(d)') \in Nat
      BY <3>1, HeardFinite
    <3>3. \A d \in Exports : Cardinality(DataAt(d)') <= Cardinality(DataAt(d))
      BY <2>1, <3>1, <3>2
    <3>4. Shifted(1)
      BY <2>1, <3>1, <3>3
    <3> HIDE DEF Shifted
    <3> QED
      BY <3>4
  <2> QED
    BY <2>2, <2>3
<1>7. /\ s \in Nat /\ Len(bulk) \in Nat /\ Len(bulk') \in Nat
      /\ \A i \in 1 .. Len(bulk') : i + s \in 1 .. Len(bulk) /\ bulk'[i] = bulk[i + s]
  BY <1>2
<1>3. ExportStates'
  BY <1>1, <1>2 DEF ExportStates, Bulks, Notes
<1>4. CountInv'
  <2> SUFFICES ASSUME NEW d \in Exports
               PROVE  /\ Cardinality(DataAt(d)') <= export[d].sent
                      /\ Holding(d)' => incoming'[d].got + Cardinality(DataAt(d)') <= export[d].sent
    BY DEF CountInv
  <2>1. Cardinality(DataAt(d)) \in Nat /\ Cardinality(DataAt(d)') \in Nat /\ export[d].sent \in 0 .. MaxFile
    <3>1. Cardinality(DataAt(d)) \in Nat
      BY <1>1, DataFinite DEF ExportStates
    <3>2. Cardinality(DataAt(d)') \in Nat
      BY <1>2, HeardFinite
    <3> QED
      BY <1>1, <3>1, <3>2 DEF ExportStates
  <2>2. Cardinality(DataAt(d)') <= Cardinality(DataAt(d)) /\ Cardinality(DataAt(d)) <= export[d].sent
    BY <1>1, <1>2 DEF CountInv
  <2>3. ASSUME d # e, Holding(d)' PROVE incoming'[d].got + Cardinality(DataAt(d)') <= export[d].sent
    <3>1. incoming'[d] = incoming[d] /\ Holding(d)
      BY <2>3 DEF Holding
    <3>2. incoming[d].got \in Nat /\ incoming[d].got + Cardinality(DataAt(d)) <= export[d].sent
      BY <1>1, <3>1 DEF CountInv, ExportStates, Holding
    <3> QED
      BY <2>1, <2>2, <3>1, <3>2, ExportAssumption
  <2> QED
    BY <2>1, <2>2, <2>3, ExportAssumption
<1>5. EndInv'
  <2> SUFFICES ASSUME NEW d \in Exports
               PROVE  /\ \A i \in 1 .. Len(bulk') : bulk'[i].e = d /\ bulk'[i].t = "end" =>
                           /\ export[d].at = "over" /\ export[d].sent = export[d].size
                           /\ \A j \in 1 .. Len(bulk') : bulk'[j].e = d => j <= i
                      /\ Holding(d)' /\ incoming'[d].endSeen =>
                           /\ export[d].at = "over" /\ export[d].sent = export[d].size
                           /\ \A i \in 1 .. Len(bulk') : bulk'[i].e = d => bulk'[i].t = "data"
                      /\ export[d].at = "start" => export[d].sent = 0
                      /\ listed'[d] = "done" => export[d].at = "over"
    BY DEF EndInv
  <2>1. ASSUME NEW i \in 1 .. Len(bulk'), bulk'[i].e = d, bulk'[i].t = "end"
        PROVE  /\ export[d].at = "over" /\ export[d].sent = export[d].size
               /\ \A j \in 1 .. Len(bulk') : bulk'[j].e = d => j <= i
    <3>1. /\ export[d].at = "over" /\ export[d].sent = export[d].size
          /\ \A j \in 1 .. Len(bulk) : bulk[j].e = d => j <= i + s
      BY <1>1, <1>7, <2>1 DEF EndInv
    <3> QED
      <4>1. ASSUME NEW j \in 1 .. Len(bulk'), bulk'[j].e = d PROVE j <= i
        <5>1. j + s \in 1 .. Len(bulk) /\ bulk[j + s].e = d
          BY <1>7, <4>1
        <5>2. j + s <= i + s
          BY <3>1, <5>1
        <5> QED
          BY <1>7, <5>2
      <4> QED
        BY <3>1, <4>1
  <2>2. ASSUME d # e, Holding(d)', incoming'[d].endSeen
        PROVE  /\ export[d].at = "over" /\ export[d].sent = export[d].size
               /\ \A i \in 1 .. Len(bulk') : bulk'[i].e = d => bulk'[i].t = "data"
    <3>1. Holding(d) /\ incoming[d].endSeen
      BY <2>2 DEF Holding
    <3>2. /\ export[d].at = "over" /\ export[d].sent = export[d].size
          /\ \A i \in 1 .. Len(bulk) : bulk[i].e = d => bulk[i].t = "data"
      BY <1>1, <3>1 DEF EndInv
    <3> QED
      BY <1>7, <3>2
  <2> QED
    BY <1>1, <2>1, <2>2 DEF EndInv
<1>6. DoneIsWhole'
  <2> SUFFICES ASSUME NEW d \in Exports, listed'[d] = "done"
               PROVE  export[d].sent = export[d].size /\ \A i \in DOMAIN bulk' : bulk'[i].e # d
    BY DEF DoneIsWhole
  <2>1. CASE d = e
    BY <1>2, <2>1
  <2>2. CASE d # e
    <3>1. listed[d] = "done" /\ DOMAIN bulk = 1 .. Len(bulk)
      BY <1>2, <2>2
    <3>2. export[d].sent = export[d].size /\ \A i \in 1 .. Len(bulk) : bulk[i].e # d
      BY <1>1, <3>1 DEF DoneIsWhole
    <3>3. \A i \in 1 .. Len(bulk') : bulk'[i].e # d
      BY <1>7, <3>2
    <3>4. DOMAIN bulk' = 1 .. Len(bulk')
      BY <1>2
    <3> QED
      BY <3>2, <3>3, <3>4
  <2> QED
    BY <2>1, <2>2
<1> QED
  BY <1>3, <1>4, <1>5, <1>6 DEF ExportInv

LEMMA HearHiPreserves == ExportInv /\ HearHi => ExportInv'
<1> SUFFICES ASSUME ExportInv, HearHi PROVE ExportInv'
  OBVIOUS
<1> DEFINE new == [got |-> 0, endSeen |-> FALSE]
<1>1. ExportStates /\ CountInv /\ EndInv /\ DoneIsWhole
  BY DEF ExportInv
<1>2. Head(hi) \in Notes /\ hi' \in Seq(Notes) /\ bulk \in Seq(Bulks) /\ UNCHANGED <<export, bulk>>
  BY <1>1 DEF HearHi, ExportStates
<1> PICK e \in Exports : e = Head(hi).e
  BY <1>2 DEF Notes
<1>3. CASE UNCHANGED <<incoming, listed>>
  BY <1>1, <1>2, <1>3 DEF ExportInv, ExportStates, CountInv, EndInv, DoneIsWhole, Holding, DataAt, Bulks, Notes
<1>4. CASE incoming' = [incoming EXCEPT ![e] = new] /\ listed' = [listed EXCEPT ![e] = "active"]
  <2>1. /\ incoming' \in [Exports -> {NotHeld} \cup [got : Nat, endSeen : BOOLEAN]]
        /\ listed' \in [Exports -> {"none", "active", "done", "error"}]
        /\ incoming'[e] = new /\ listed'[e] = "active"
        /\ \A d \in Exports : d # e => incoming'[d] = incoming[d] /\ listed'[d] = listed[d]
    BY <1>1, <1>2, <1>4 DEF ExportStates
  <2>2. incoming'[e].got + Cardinality(DataAt(e)') <= export[e].sent
    <3>1. DataAt(e)' = DataAt(e)
      BY <1>2 DEF DataAt
    <3>2. Cardinality(DataAt(e)) \in Nat
      BY <1>2, DataFinite
    <3> QED
      BY <1>1, <2>1, <3>1, <3>2 DEF CountInv
  <2> QED
    BY <1>2, <2>1, <2>2, HearingPreserves
<1> QED
  <2>1. Head(hi).t \in {"offer", "failed"} /\ Hear(Head(hi))
    BY <1>2 DEF HearHi, Notes
  <2> QED
    BY <1>3, <1>4, <2>1 DEF Hear

LEMMA TailTimeoutPreserves ==
  ASSUME ExportInv, NEW e \in Exports, TailTimeout(e)
  PROVE  ExportInv'
<1> DEFINE got == incoming[e].got
<1>1. ExportStates /\ CountInv /\ EndInv /\ DoneIsWhole
  BY DEF ExportInv
<1>2. /\ UNCHANGED <<export, hi, bulk>> /\ hi \in Seq(Notes) /\ bulk \in Seq(Bulks) /\ Len(bulk) \in Nat
      /\ Holding(e) /\ incoming[e].endSeen /\ Finish(e, got)
  BY <1>1 DEF TailTimeout, ExportStates, Holding
<1>3. \A d \in Exports : DataAt(d)' = DataAt(d) /\ Cardinality(DataAt(d)) \in Nat
  BY <1>2, DataFinite DEF DataAt
<1>4. /\ export[e].at = "over" /\ export[e].sent = export[e].size
      /\ \A i \in 1 .. Len(bulk) : bulk[i].e = e => bulk[i].t = "data"
      /\ got + Cardinality(DataAt(e)) <= export[e].sent /\ got \in Nat
  BY <1>1, <1>2 DEF EndInv, CountInv, ExportStates, Holding
<1>5. got = export[e].size => \A i \in 1 .. Len(bulk) : bulk[i].e # e
  <2> SUFFICES ASSUME got = export[e].size PROVE \A i \in 1 .. Len(bulk) : bulk[i].e # e
    OBVIOUS
  <2>1. Cardinality(DataAt(e)) = 0
    BY <1>3, <1>4
  <2>2. DataAt(e) = {}
    BY <1>2, <2>1, DataFinite, FS_EmptySet
  <2> QED
    BY <1>4, <2>2 DEF DataAt
<1> HIDE DEF got
<1>6. /\ incoming' = [incoming EXCEPT ![e] = NotHeld]
      /\ listed' = [listed EXCEPT ![e] = IF got = export[e].size THEN "done" ELSE "error"]
  BY <1>2 DEF Finish
<1>7. /\ incoming' \in [Exports -> {NotHeld} \cup [got : Nat, endSeen : BOOLEAN]] /\ ~Holding(e)'
      /\ listed' \in [Exports -> {"none", "active", "done", "error"}]
      /\ listed'[e] = "done" => got = export[e].size
      /\ \A d \in Exports : d # e => incoming'[d] = incoming[d] /\ listed'[d] = listed[d]
  BY <1>1, <1>6 DEF ExportStates, Holding
<1> QED
  BY <1>2, <1>4, <1>5, <1>7, HearingPreserves

LEMMA InFacts ==
  ASSUME NEW inc \in [got : Nat, endSeen : BOOLEAN]
  PROVE  /\ [inc EXCEPT !.got = inc.got + 1] \in [got : Nat, endSeen : BOOLEAN]
         /\ [inc EXCEPT !.got = inc.got + 1].got = inc.got + 1
         /\ [inc EXCEPT !.got = inc.got + 1].endSeen = inc.endSeen
         /\ [inc EXCEPT !.endSeen = TRUE] \in [got : Nat, endSeen : BOOLEAN]
         /\ [inc EXCEPT !.endSeen = TRUE].got = inc.got
<1>1. [inc EXCEPT !.got = inc.got + 1] \in [got : Nat, endSeen : BOOLEAN]
  OBVIOUS
<1>2. [inc EXCEPT !.got = inc.got + 1].got = inc.got + 1
  OBVIOUS
<1>3. [inc EXCEPT !.got = inc.got + 1].endSeen = inc.endSeen
  OBVIOUS
<1>4. [inc EXCEPT !.endSeen = TRUE] \in [got : Nat, endSeen : BOOLEAN]
  OBVIOUS
<1>5. [inc EXCEPT !.endSeen = TRUE].got = inc.got
  OBVIOUS
<1> QED
  BY <1>1, <1>2, <1>3, <1>4, <1>5

LEMMA HearBulkPreserves == ExportInv /\ HearBulk => ExportInv'
<1> SUFFICES ASSUME ExportInv, HearBulk PROVE ExportInv'
  OBVIOUS
<1>1. ExportStates /\ CountInv /\ EndInv /\ DoneIsWhole
  BY DEF ExportInv
<1>2. UNCHANGED <<export, hi>> /\ hi \in Seq(Notes) /\ bulk \in Seq(Bulks) /\ bulk # <<>> /\ bulk' = Tail(bulk)
  BY <1>1 DEF HearBulk, ExportStates
<1>3. PICK m \in Bulks, e \in Exports, inc \in {NotHeld} \cup [got : Nat, endSeen : BOOLEAN] :
        m = bulk[1] /\ m = Head(bulk) /\ e = m.e /\ inc = incoming[e] /\ m.t \in {"data", "end"} /\ Hear(m)
  BY <1>1, <1>2, HeardData DEF Bulks, HearBulk, ExportStates
<1>4. /\ bulk' \in Seq(Bulks) /\ Len(bulk') = Len(bulk) - 1 /\ Len(bulk) \in Nat \ {0}
      /\ \A i \in 1 .. Len(bulk') : i + 1 \in 1 .. Len(bulk) /\ bulk'[i] = bulk[i + 1]
      /\ \A d \in Exports : Cardinality(DataAt(d)) =
           Cardinality(DataAt(d)') + (IF m.t = "data" /\ m.e = d THEN 1 ELSE 0)
  BY <1>2, <1>3, HeardData
<1>5. \A d \in Exports : /\ Cardinality(DataAt(d)) \in Nat /\ Cardinality(DataAt(d)') \in Nat
                         /\ IsFiniteSet(DataAt(d)') /\ export[d].sent \in Nat /\ export[d].size \in Nat
  <2>1. ASSUME NEW d \in Exports PROVE IsFiniteSet(DataAt(d)') /\ Cardinality(DataAt(d)') \in Nat
    BY <1>4, HeardFinite
  <2>2. \A d \in Exports : export[d].sent \in 0 .. MaxFile /\ export[d].size \in 0 .. MaxFile
    BY <1>1 DEF ExportStates
  <2> QED
    BY <1>2, <2>1, <2>2, DataFinite, ExportAssumption
<1>6. \A d \in Exports : Cardinality(DataAt(d)') <= Cardinality(DataAt(d))
  BY <1>4, <1>5
<1>7. inc # NotHeld => /\ inc.got \in Nat /\ inc.endSeen \in BOOLEAN
                       /\ inc.got + Cardinality(DataAt(e)) <= export[e].sent
  BY <1>1, <1>3 DEF ExportStates, CountInv, Holding
\* An end is the last there is.
<1>8. m.t = "end" => /\ export[e].at = "over" /\ export[e].sent = export[e].size
                     /\ \A i \in 1 .. Len(bulk') : bulk'[i].e # e
  <2> SUFFICES ASSUME m.t = "end"
               PROVE  /\ export[e].at = "over" /\ export[e].sent = export[e].size
                      /\ \A i \in 1 .. Len(bulk') : bulk'[i].e # e
    OBVIOUS
  <2>1. /\ export[e].at = "over" /\ export[e].sent = export[e].size
        /\ \A j \in 1 .. Len(bulk) : bulk[j].e = e => j <= 1
    BY <1>1, <1>3, <1>4 DEF EndInv
  <2> QED
    BY <1>3, <1>4, <2>1
\* After the end, what is on its way is what the viewer still lacks.
<1>9. inc # NotHeld /\ inc.endSeen =>
        /\ export[e].at = "over" /\ export[e].sent = export[e].size
        /\ \A i \in 1 .. Len(bulk') : bulk'[i].e = e => bulk'[i].t = "data"
  <2> SUFFICES ASSUME inc # NotHeld, inc.endSeen
               PROVE  /\ export[e].at = "over" /\ export[e].sent = export[e].size
                      /\ \A i \in 1 .. Len(bulk') : bulk'[i].e = e => bulk'[i].t = "data"
    OBVIOUS
  <2>1. /\ export[e].at = "over" /\ export[e].sent = export[e].size
        /\ \A i \in 1 .. Len(bulk) : bulk[i].e = e => bulk[i].t = "data"
    BY <1>1, <1>3 DEF EndInv, Holding
  <2> QED
    BY <1>4, <2>1
<1>10. CASE UNCHANGED <<incoming, listed>>
  <2>1. Holding(e)' => incoming'[e].got + Cardinality(DataAt(e)') <= export[e].sent
    BY <1>3, <1>4, <1>5, <1>6, <1>7, <1>10 DEF Holding
  <2>2. listed'[e] = "done" => /\ export[e].at = "over" /\ export[e].sent = export[e].size
                               /\ \A i \in 1 .. Len(bulk') : bulk'[i].e # e
    <3> SUFFICES ASSUME listed[e] = "done"
                 PROVE  FALSE
      BY <1>10, <1>3
    <3>1. 1 \in DOMAIN bulk /\ bulk[1].e = e
      BY <1>2, <1>3
    <3> QED
      BY <1>1, <1>3, <1>4, <3>1 DEF DoneIsWhole
  <2>3. Holding(e)' /\ incoming'[e].endSeen =>
          /\ export[e].at = "over" /\ export[e].sent = export[e].size
          /\ \A i \in 1 .. Len(bulk') : bulk'[i].e = e => bulk'[i].t = "data"
    BY <1>9, <1>3, <1>10 DEF Holding
  <2>4. /\ incoming' \in [Exports -> {NotHeld} \cup [got : Nat, endSeen : BOOLEAN]]
        /\ listed' \in [Exports -> {"none", "active", "done", "error"}]
    BY <1>1, <1>3, <1>10 DEF ExportStates
  <2> QED
    BY <1>2, <1>3, <1>4, <1>6, <1>10, <2>1, <2>2, <2>3, <2>4, HearingPreserves
<1>11. CASE m.t = "data" /\ inc # NotHeld
            /\ incoming' = [incoming EXCEPT ![e].got = inc.got + 1] /\ UNCHANGED listed
  <2>1. /\ incoming' \in [Exports -> {NotHeld} \cup [got : Nat, endSeen : BOOLEAN]]
        /\ listed' \in [Exports -> {"none", "active", "done", "error"}]
        /\ incoming'[e].got = inc.got + 1 /\ incoming'[e].endSeen = inc.endSeen
        /\ \A d \in Exports : d # e => incoming'[d] = incoming[d] /\ listed'[d] = listed[d]
    <3>1. inc \in [got : Nat, endSeen : BOOLEAN]
      BY <1>1, <1>3, <1>11 DEF ExportStates
    <3> DEFINE r == [inc EXCEPT !.got = inc.got + 1]
    <3>3. r \in [got : Nat, endSeen : BOOLEAN] /\ r.got = inc.got + 1 /\ r.endSeen = inc.endSeen
      BY <3>1, InFacts
    <3>4. incoming' = [incoming EXCEPT ![e] = r] /\ listed' = listed
      BY <1>3, <1>11
    <3> HIDE DEF r
    <3>5. /\ incoming \in [Exports -> {NotHeld} \cup [got : Nat, endSeen : BOOLEAN]]
          /\ listed \in [Exports -> {"none", "active", "done", "error"}]
      BY <1>1 DEF ExportStates
    <3> QED
      BY <3>3, <3>4, <3>5
  <2>2. incoming'[e].got + Cardinality(DataAt(e)') <= export[e].sent
    BY <1>3, <1>4, <1>5, <1>7, <1>11, <2>1
  <2>3. listed'[e] # "done"
    <3>1. 1 \in DOMAIN bulk /\ bulk[1].e = e
      BY <1>2, <1>3
    <3> QED
      BY <1>1, <1>3, <1>4, <1>11, <3>1 DEF DoneIsWhole
  <2> QED
    BY <1>2, <1>3, <1>4, <1>6, <1>9, <1>11, <2>1, <2>2, <2>3, HearingPreserves
<1>12. CASE m.t = "end" /\ inc # NotHeld
            /\ incoming' = [incoming EXCEPT ![e].endSeen = TRUE] /\ UNCHANGED listed
  <2>1. /\ incoming' \in [Exports -> {NotHeld} \cup [got : Nat, endSeen : BOOLEAN]]
        /\ listed' \in [Exports -> {"none", "active", "done", "error"}]
        /\ incoming'[e].got = inc.got
        /\ \A d \in Exports : d # e => incoming'[d] = incoming[d] /\ listed'[d] = listed[d]
    <3>1. inc \in [got : Nat, endSeen : BOOLEAN]
      BY <1>1, <1>3, <1>12 DEF ExportStates
    <3> DEFINE r == [inc EXCEPT !.endSeen = TRUE]
    <3>3. r \in [got : Nat, endSeen : BOOLEAN] /\ r.got = inc.got
      BY <3>1, InFacts
    <3>4. incoming' = [incoming EXCEPT ![e] = r] /\ listed' = listed
      BY <1>3, <1>12
    <3> HIDE DEF r
    <3>5. /\ incoming \in [Exports -> {NotHeld} \cup [got : Nat, endSeen : BOOLEAN]]
          /\ listed \in [Exports -> {"none", "active", "done", "error"}]
      BY <1>1 DEF ExportStates
    <3> QED
      BY <3>3, <3>4, <3>5
  <2>2. incoming'[e].got + Cardinality(DataAt(e)') <= export[e].sent
    BY <1>3, <1>4, <1>5, <1>6, <1>7, <1>12, <2>1
  <2> QED
    <3>1. \A i \in 1 .. Len(bulk') : bulk'[i].e = e => bulk'[i].t = "data"
      BY <1>8, <1>12
    <3>2. /\ export[e].at = "over" /\ export[e].sent = export[e].size
          /\ \A i \in 1 .. Len(bulk') : bulk'[i].e # e
      BY <1>8, <1>12
    <3> QED
      BY <1>2, <2>1, <2>2, <3>1, <3>2, HearingPreserves
<1>13. ASSUME NEW got \in Nat, Finish(e, got), inc # NotHeld,
              got = export[e].size =>
                /\ export[e].at = "over" /\ export[e].sent = export[e].size
                /\ \A i \in 1 .. Len(bulk') : bulk'[i].e # e
       PROVE  ExportInv'
  <2>1. /\ incoming' = [incoming EXCEPT ![e] = NotHeld]
        /\ listed' = [listed EXCEPT ![e] = IF got = export[e].size THEN "done" ELSE "error"]
    BY <1>13, <1>3 DEF Finish
  <2>2. /\ incoming' \in [Exports -> {NotHeld} \cup [got : Nat, endSeen : BOOLEAN]] /\ ~Holding(e)'
        /\ listed' \in [Exports -> {"none", "active", "done", "error"}]
        /\ listed'[e] = "done" => got = export[e].size
        /\ \A d \in Exports : d # e => incoming'[d] = incoming[d] /\ listed'[d] = listed[d]
    BY <1>1, <1>3, <1>4, <2>1 DEF ExportStates, Holding
  <2> QED
    BY <1>2, <1>3, <1>4, <1>6, <1>13, <2>2, HearingPreserves
<1>14. CASE m.t = "data" /\ inc # NotHeld /\ inc.endSeen /\ Finish(e, inc.got + 1)
  <2>1. ASSUME inc.got + 1 = export[e].size
        PROVE  /\ export[e].at = "over" /\ export[e].sent = export[e].size
               /\ \A i \in 1 .. Len(bulk') : bulk'[i].e # e
    <3>1. Cardinality(DataAt(e)') = 0
      BY <1>3, <1>4, <1>5, <1>7, <1>9, <1>14, <2>1
    <3>2. DataAt(e)' = {}
      BY <1>3, <1>4, <1>5, <3>1, FS_EmptySet
    <3> QED
      BY <1>9, <1>3, <1>14, <3>2 DEF DataAt
  <2> QED
    BY <1>7, <1>3, <1>13, <1>14, <2>1
<1>15. CASE m.t = "end" /\ inc # NotHeld /\ Finish(e, inc.got)
  BY <1>7, <1>3, <1>8, <1>13, <1>15
<1> QED
  <2>1. \/ UNCHANGED <<incoming, listed>>
        \/ /\ m.t = "data" /\ inc # NotHeld
           /\ \/ inc.endSeen /\ Finish(e, inc.got + 1)
              \/ incoming' = [incoming EXCEPT ![e].got = inc.got + 1] /\ UNCHANGED listed
        \/ /\ m.t = "end" /\ inc # NotHeld
           /\ \/ incoming' = [incoming EXCEPT ![e].endSeen = TRUE] /\ UNCHANGED listed
              \/ Finish(e, inc.got)
    BY <1>3, <1>4 DEF Hear
  <2> QED
    BY <1>10, <1>3, <1>11, <1>12, <1>14, <1>15, <2>1

LEMMA ExportPreserves == ExportInv /\ [ExportNext]_exportVars => ExportInv'
<1>1. ExportInv /\ UNCHANGED exportVars => ExportInv'
  BY DEF exportVars, ExportInv, ExportStates, CountInv, EndInv, DoneIsWhole, Holding, DataAt, Bulks, Notes
<1> QED
  BY <1>1, HostPreserves, HearHiPreserves, HearBulkPreserves, TailTimeoutPreserves
     DEF ExportNext, ViewerHears

\* What FileExport promises of its state.
LEMMA ExportImplies == ExportInv => ExportTypeOK /\ DoneIsWhole
<1> SUFFICES ASSUME ExportInv PROVE ExportTypeOK
  BY DEF ExportInv
<1>1. ExportStates /\ CountInv
  BY DEF ExportInv
<1>2. (\A i \in DOMAIN hi : hi[i].t \in {"offer", "failed"}) /\ \A i \in DOMAIN bulk : bulk[i].t \in {"data", "end"}
  <2>1. (\A i \in DOMAIN hi : hi[i] \in Notes) /\ \A i \in DOMAIN bulk : bulk[i] \in Bulks
    BY <1>1 DEF ExportStates
  <2> QED
    BY <2>1 DEF Notes, Bulks
<1>3. ASSUME NEW e \in Exports, incoming[e] # NotHeld PROVE incoming[e].got \in 0 .. MaxFile
  <2>1. incoming[e].got \in Nat /\ export[e].sent \in 0 .. MaxFile /\ Cardinality(DataAt(e)) \in Nat
    BY <1>1, <1>3, DataFinite DEF ExportStates
  <2>2. incoming[e].got + Cardinality(DataAt(e)) <= export[e].sent
    BY <1>1, <1>3 DEF CountInv, Holding
  <2> QED
    BY <2>1, <2>2, ExportAssumption
<1> QED
  BY <1>1, <1>2, <1>3 DEF ExportTypeOK, ExportStates

\* The host's uploads are of their types: the pusher's and the host's records, the lane between
\* them, the disk and the host's job (filerecv.go).
THEOREM FilesTypeCorrect == FilesSpec => []FilesTypeOK
BY FilesAlways, PTL DEF FilesInv

\* What a viewer is told is saved is saved whole, for good and next to the host's own files,
\* and what is not saved is somebody's to remove (filerecv.go).
THEOREM UploadsAreWhole == FilesSpec => [](SavedIsWhole /\ PartialIsHeld)
BY FilesAlways, PTL DEF FilesInv

\* What FileExport's viewer shows as done has every chunk, whatever overtakes what, and its
\* state is of its types (file_transfer_service.dart, handleMessage).
THEOREM ExportsAreWhole == ExportSpec => [](ExportTypeOK /\ DoneIsWhole)
BY ExportStarts, ExportPreserves, ExportImplies, PTL DEF ExportSpec

-----------------------------------------------------------------------------
(***************************************************************************)
(* What the clipboard stages of a viewer's files (ClipboardSync).          *)
(***************************************************************************)

\* A file that is received has the chunks up to the one due next.
Assembly == [parts : [Files -> SUBSET Nat], got : [Files -> 0 .. Chunks],
             done : SUBSET Files, written : SUBSET Files]

ReceiveInv ==
  /\ upto \in [Tokens -> [Files -> 0 .. Chunks]] /\ asm \in [Tokens -> {Nothing} \cup Assembly]
  /\ \A t \in Tokens : asm[t] # Nothing => \A f \in Files : asm[t].parts[f] = 0 .. asm[t].got[f] - 1

\* The file of that name is as t wrote it, whole, unless another has written there since.
AsWritten(t, f) == disk[f].by \in Tokens /\ (disk[f].by = t => disk[f].chunks = 0 .. Chunks - 1)

\* Nothing has been received of an announcement.
NotBegun(t) == upto[t] = [f \in Files |-> 0]

\* What an announcement has written so far is as it was written, because a file is done once;
\* one that has been handed over is over, and it does not begin again.
StagingInv ==
  /\ ReceiveInv
  /\ DOMAIN disk = Files /\ staging \subseteq Sets
  /\ \A t \in Tokens : asm[t] # Nothing =>
       asm[t].written \subseteq asm[t].done /\ \A f \in asm[t].written : AsWritten(t, f)
  /\ \A s \in Handed : asm[s.by] = Nothing /\ ~NotBegun(s.by)
                      /\ \A f \in s.files : AsWritten(s.by, f)

\* An image that is received has as many chunks as were put together.
ImageInv ==
  /\ sending \in [Viewers -> 0 .. Chunks]
  /\ image # Nothing => \A k \in Nat : DOMAIN image = 1 .. k => image \in [1 .. k -> Viewers]

GuardInv ==
  /\ clip \in Items /\ news \in BOOLEAN /\ inbound \in {Nothing, ViewerText} \cup Images
  /\ last \in [{"text", "image", "files"} -> {Nothing} \cup Items]
  /\ \A k \in {"text", "image", "files"} : last[k] # Nothing => last[k].kind = k
  /\ poll \in [at : {"rest", "image", "text"}, read : {Nothing} \cup Items]
  /\ poll.read # Nothing => poll.at \in {"image", "text"} /\ poll.read.kind = poll.at
  /\ sent \in {Nothing} \cup Items /\ seq \in 0 .. MaxSeq /\ out \subseteq 1 .. seq

ClipInv == StagingInv /\ ImageInv /\ GuardInv

LEMMA ItemFacts ==
  /\ HostItems \subseteq Items /\ ViewerText \in Items /\ Images \subseteq Items /\ Stagings \subseteq Items
  /\ \A item \in HostItems : item.kind \in {"text", "image", "files"}
  /\ ViewerText.kind = "text" /\ \A item \in Images : item.kind = "image"
  /\ \A z \in Sets : Item("files", "viewer", z) \in Items
  /\ \A vs \in [1 .. Chunks -> Viewers] : Item("image", "viewer", vs) \in Images
<1>1. HostItems \subseteq Items /\ ViewerText \in Items /\ Images \subseteq Items /\ Stagings \subseteq Items
  BY DEF Items
<1>2. /\ \A item \in HostItems : item.kind \in {"text", "image", "files"}
      /\ ViewerText.kind = "text" /\ \A item \in Images : item.kind = "image"
  BY DEF HostItems, ViewerText, Images, Item
<1>3. /\ \A z \in Sets : Item("files", "viewer", z) \in Stagings
      /\ \A vs \in [1 .. Chunks -> Viewers] : Item("image", "viewer", vs) \in Images
  BY DEF Stagings, Images
<1> QED
  BY <1>1, <1>2, <1>3

\* Only a set that is staged comes to the clipboard as a set of a viewer's files.
LEMMA NoneHanded ==
  \A item \in HostItems \cup {ViewerText} \cup Images : \A z \in Sets : item # Item("files", "viewer", z)
BY DEF HostItems, ViewerText, Images, Item

LEMMA StagingKept ==
  ASSUME StagingInv, UNCHANGED fileVars,
         clip' = clip \/ clip' \in HostItems \cup {ViewerText} \cup Images
  PROVE  StagingInv'
<1>1. UNCHANGED <<upto, asm, disk, staging>>
  BY DEF fileVars
<1>2. Handed' \subseteq Handed
  BY <1>1, NoneHanded DEF Handed
<1>3. ReceiveInv'
  BY <1>1 DEF StagingInv, ReceiveInv
<1>4. ASSUME NEW u, NEW g PROVE AsWritten(u, g)' <=> AsWritten(u, g)
  BY <1>1 DEF AsWritten
<1>5. ASSUME NEW u PROVE NotBegun(u)' <=> NotBegun(u)
  BY <1>1 DEF NotBegun
<1> QED
  BY <1>1, <1>2, <1>3, <1>4, <1>5 DEF StagingInv

LEMMA ClipStarts == ClipInit => ClipInv
<1> SUFFICES ASSUME ClipInit PROVE ClipInv
  OBVIOUS
<1>1. StagingInv
  <2>1. Handed = {}
    BY NoneHanded DEF ClipInit, Handed
  <2>2. ReceiveInv
    BY ClipAssumption DEF ClipInit, ReceiveInv
  <2>3. DOMAIN disk = Files /\ staging \subseteq Sets /\ \A t \in Tokens : asm[t] = Nothing
    BY DEF ClipInit
  <2> QED
    BY <2>1, <2>2, <2>3 DEF StagingInv
<1>2. ImageInv
  BY ClipAssumption DEF ClipInit, ImageInv
<1>3. GuardInv
  BY ItemFacts, ClipAssumption DEF ClipInit, GuardInv
<1> QED
  BY <1>1, <1>2, <1>3 DEF ClipInv

\* The files of a viewer.
LEMMA FinishFacts ==
  ASSUME StagingInv, NEW t \in Tokens, NEW f \in Files, asm[t] # Nothing, NEW a \in Assembly,
         \A g \in Files : a.parts[g] = 0 .. a.got[g] - 1,
         a.done = asm[t].done, a.written = asm[t].written,
         NEW data \in {Nothing, 0 .. Chunks - 1}, FinishFile(t, f, a, data),
         upto' \in [Tokens -> [Files -> 0 .. Chunks]], ~NotBegun(t)', clip' = clip,
         \A u \in Tokens : u # t => upto'[u] = upto[u]
  PROVE  StagingInv'
<1> DEFINE Whole(b) == /\ b \in Assembly /\ \A g \in Files : b.parts[g] = 0 .. b.got[g] - 1
                       /\ b.written \subseteq b.done
           Wrote(b)  == \A g \in b.written : AsWritten(t, g)'
           Set(b)    == [by |-> t, files |-> b.written]
\* Either the file was done before, or it is now, and the set is handed over with the last.
<1>1. /\ a.written \subseteq a.done /\ a.done \subseteq Files
      /\ \A g \in a.written : AsWritten(t, g)
      /\ \A z \in Handed : z.by # t
  BY DEF StagingInv, Assembly
<1>2. /\ DOMAIN disk' = Files
      /\ \A u \in Tokens \ {t}, g \in Files : AsWritten(u, g) => AsWritten(u, g)'
      /\ \A g \in Files \ {f} : AsWritten(t, g) => AsWritten(t, g)'
      /\ f \in a.done => UNCHANGED disk
  <2>1. disk' = disk \/ \E c : disk' = [disk EXCEPT ![f] = [by |-> t, chunks |-> c]]
    BY DEF FinishFile, WriteFile
  <2>2. DOMAIN disk = Files
    BY DEF StagingInv
  <2>3. f \in a.done => UNCHANGED disk
    BY DEF FinishFile
  <2>4. CASE disk' = disk
    BY <2>2, <2>3, <2>4 DEF AsWritten
  <2>5. CASE \E c : disk' = [disk EXCEPT ![f] = [by |-> t, chunks |-> c]]
    <3>1. DOMAIN disk' = Files /\ disk'[f].by = t /\ \A g \in Files \ {f} : disk'[g] = disk[g]
      BY <2>2, <2>5
    <3>2. ASSUME NEW u \in Tokens, NEW g \in Files, u # t \/ g # f, AsWritten(u, g)
          PROVE  AsWritten(u, g)'
      <4>1. CASE g = f
        BY <3>1, <3>2, <4>1 DEF AsWritten
      <4>2. CASE g # f
        BY <3>1, <3>2, <4>2 DEF AsWritten
      <4> QED
        BY <4>1, <4>2
    <3> QED
      BY <2>3, <3>1, <3>2
  <2> QED
    BY <2>1, <2>4, <2>5
<1>3. PICK b : /\ Whole(b) /\ Wrote(b)
               /\ \/ asm' = [asm EXCEPT ![t] = b] /\ staging' = staging
                  \/ /\ asm' = [asm EXCEPT ![t] = Nothing]
                     /\ staging' \in {staging, staging \cup {Set(b)}}
  <2>1. CASE f \in a.done
    <3>1. asm' = [asm EXCEPT ![t] = a] /\ UNCHANGED <<disk, staging>>
      BY <2>1 DEF FinishFile
    <3>2. Whole(a) /\ Wrote(a)
      BY <1>1, <3>1 DEF AsWritten
    <3> QED
      BY <3>1, <3>2
  <2>2. CASE f \notin a.done
    <3>1. PICK ok \in IF data = Nothing THEN {FALSE} ELSE BOOLEAN :
            LET b == [a EXCEPT !.done = @ \cup {f}, !.written = IF ok THEN @ \cup {f} ELSE @]
            IN /\ IF data = Nothing THEN UNCHANGED disk ELSE WriteFile(t, f, data, ok)
               /\ asm' = [asm EXCEPT ![t] = IF b.done = Files THEN Nothing ELSE b]
               /\ staging' = IF b.done = Files /\ b.written # {}
                             THEN staging \cup {[by |-> t, files |-> b.written]} ELSE staging
      BY <2>2 DEF FinishFile
    <3> DEFINE b == [a EXCEPT !.done = @ \cup {f}, !.written = IF ok THEN @ \cup {f} ELSE @]
    <3>2. /\ b \in Assembly /\ b.parts = a.parts /\ b.got = a.got /\ b.done = a.done \cup {f}
          /\ b.written = IF ok THEN a.written \cup {f} ELSE a.written
      BY <1>1 DEF Assembly
    <3>3. Whole(b)
      BY <1>1, <3>2
    <3>4. ok => AsWritten(t, f)'
      <4>1. SUFFICES ASSUME ok PROVE AsWritten(t, f)'
        OBVIOUS
      <4>2. data = 0 .. Chunks - 1 /\ WriteFile(t, f, data, ok)
        BY <3>1, <4>1
      <4>3. disk' = [disk EXCEPT ![f] = [by |-> t, chunks |-> data \cap (0 .. Chunks - 1)]]
        BY <4>1, <4>2 DEF WriteFile
      <4> QED
        BY <4>2, <4>3 DEF AsWritten, StagingInv
    <3>5. Wrote(b)
      BY <1>1, <1>2, <2>2, <3>2, <3>4
    <3>6. /\ asm' = [asm EXCEPT ![t] = IF b.done = Files THEN Nothing ELSE b]
          /\ staging' = IF b.done = Files /\ b.written # {} THEN staging \cup {Set(b)} ELSE staging
      BY <3>1
    <3> HIDE DEF b
    <3> QED
      BY <3>3, <3>5, <3>6
  <2> QED
    BY <2>1, <2>2
<1>4. asm \in [Tokens -> {Nothing} \cup Assembly] /\ ReceiveInv
  BY DEF StagingInv, ReceiveInv
<1>5. ReceiveInv'
  <2>1. asm' \in [Tokens -> {Nothing} \cup Assembly]
    BY <1>3, <1>4
  <2>2. ASSUME NEW u \in Tokens, asm'[u] # Nothing, NEW g \in Files
        PROVE  asm'[u].parts[g] = 0 .. asm'[u].got[g] - 1
    <3>1. CASE u = t
      BY <1>3, <1>4, <2>2, <3>1
    <3>2. CASE u # t
      BY <1>3, <1>4, <2>2, <3>2 DEF ReceiveInv
    <3> QED
      BY <3>1, <3>2
  <2> QED
    BY <2>1, <2>2 DEF ReceiveInv
<1>6. staging' \subseteq Sets
  <2>1. b.written \subseteq Files
    BY <1>3 DEF Assembly
  <2> QED
    BY <1>3, <2>1 DEF StagingInv, Sets
<1>7. ASSUME NEW u \in Tokens, asm'[u] # Nothing
      PROVE  asm'[u].written \subseteq asm'[u].done /\ \A g \in asm'[u].written : AsWritten(u, g)'
  <2>1. CASE u = t
    BY <1>3, <1>4, <1>7, <2>1
  <2>2. CASE u # t
    <3>1. asm'[u] = asm[u] /\ asm[u] \in Assembly
      BY <1>3, <1>4, <1>7, <2>2
    <3>2. asm[u].written \subseteq asm[u].done /\ asm[u].written \subseteq Files
          /\ \A g \in asm[u].written : AsWritten(u, g)
      BY <1>7, <3>1 DEF StagingInv, Assembly
    <3> QED
      BY <1>2, <2>2, <3>1, <3>2
  <2> QED
    BY <2>1, <2>2
<1>8. ASSUME NEW z \in Handed'
      PROVE  asm'[z.by] = Nothing /\ ~NotBegun(z.by)' /\ \A g \in z.files : AsWritten(z.by, g)'
  <2>1. CASE z \in Handed
    <3>1. /\ z.by \in Tokens /\ z.by # t /\ z.files \subseteq Files
          /\ asm[z.by] = Nothing /\ ~NotBegun(z.by) /\ \A g \in z.files : AsWritten(z.by, g)
      BY <1>1, <2>1 DEF StagingInv, Handed, Sets
    <3>2. asm'[z.by] = Nothing /\ upto'[z.by] = upto[z.by]
      BY <1>3, <1>4, <3>1
    <3> QED
      BY <1>2, <3>1, <3>2 DEF NotBegun
  <2>2. CASE z \notin Handed
    <3>1. z = Set(b) /\ asm'[t] = Nothing
      BY <1>3, <1>4, <2>2 DEF Handed
    <3> QED
      BY <1>3, <3>1
  <2> QED
    BY <2>1, <2>2
<1> QED
  BY <1>2, <1>5, <1>6, <1>7, <1>8 DEF StagingInv

\* A step that only receives, or loses, a chunk of an announcement.
LEMMA ReceivedMore ==
  ASSUME StagingInv, NEW t \in Tokens, asm[t] # Nothing, NEW a \in Assembly,
         \A g \in Files : a.parts[g] = 0 .. a.got[g] - 1,
         a.done = asm[t].done, a.written = asm[t].written,
         asm' = [asm EXCEPT ![t] = a], UNCHANGED <<disk, staging>>, clip' = clip,
         upto' \in [Tokens -> [Files -> 0 .. Chunks]],
         \A u \in Tokens : u # t => upto'[u] = upto[u]
  PROVE  StagingInv'
<1>1. asm \in [Tokens -> {Nothing} \cup Assembly] /\ ReceiveInv
  BY DEF StagingInv, ReceiveInv
<1>2. ReceiveInv'
  BY <1>1 DEF ReceiveInv
<1>3. Handed' = Handed /\ \A z \in Handed : z.by \in Tokens /\ z.by # t
  BY DEF StagingInv, Handed, Sets
<1>4. \A u, g : AsWritten(u, g)' <=> AsWritten(u, g)
  BY DEF AsWritten
<1>5. ASSUME NEW u \in Tokens, asm'[u] # Nothing
      PROVE  asm'[u].written \subseteq asm'[u].done /\ \A g \in asm'[u].written : AsWritten(u, g)'
  BY <1>1, <1>4, <1>5 DEF StagingInv
<1>6. ASSUME NEW z \in Handed'
      PROVE  asm'[z.by] = Nothing /\ ~NotBegun(z.by)' /\ \A g \in z.files : AsWritten(z.by, g)'
  <2>1. z \in Handed /\ asm'[z.by] = asm[z.by] /\ upto'[z.by] = upto[z.by]
    BY <1>1, <1>3, <1>6
  <2> QED
    BY <1>4, <2>1 DEF StagingInv, NotBegun
<1> QED
  BY <1>2, <1>5, <1>6 DEF StagingInv

LEMMA RecvPreserves ==
  ASSUME StagingInv, NEW t \in Tokens, NEW f \in Files,
         RecvChunk(t, f) \/ RecvFailed(t, f) \/ ChunkElsewhere(t, f)
  PROVE  StagingInv'
<1>1. /\ asm[t] # Nothing /\ asm[t] \in Assembly /\ upto[t][f] \in 0 .. Chunks /\ upto[t][f] < Chunks
      /\ \A g \in Files : asm[t].parts[g] = 0 .. asm[t].got[g] - 1
  BY DEF StagingInv, ReceiveInv, RecvChunk, RecvFailed, ChunkElsewhere
<1>2. PICK n \in 0 .. Chunks : upto' = [upto EXCEPT ![t][f] = n] /\ n # 0
  <2>1. /\ upto[t][f] + 1 \in 0 .. Chunks /\ Chunks \in 0 .. Chunks
        /\ upto[t][f] + 1 # 0 /\ Chunks # 0
    BY <1>1, ClipAssumption
  <2> QED
    BY <2>1 DEF RecvChunk, RecvFailed, ChunkElsewhere
<1>3. /\ upto' \in [Tokens -> [Files -> 0 .. Chunks]] /\ ~NotBegun(t)' /\ clip' = clip
      /\ \A u \in Tokens : u # t => upto'[u] = upto[u]
  <2>1. upto \in [Tokens -> [Files -> 0 .. Chunks]] /\ [upto[t] EXCEPT ![f] = n] \in [Files -> 0 .. Chunks]
    BY DEF StagingInv, ReceiveInv
  <2>2. upto'[t][f] = n
    BY <1>2, <2>1
  <2>3. clip' = clip
    BY DEF RecvChunk, RecvFailed, ChunkElsewhere
  <2> QED
    BY <1>2, <2>1, <2>2, <2>3 DEF NotBegun
<1>4. CASE RecvChunk(t, f)
  <2> DEFINE a == IF upto[t][f] # asm[t].got[f] THEN asm[t]
                  ELSE [asm[t] EXCEPT !.parts[f] = @ \cup {upto[t][f]}, !.got[f] = @ + 1]
  <2>1. /\ a \in Assembly /\ \A g \in Files : a.parts[g] = 0 .. a.got[g] - 1
        /\ a.done = asm[t].done /\ a.written = asm[t].written
    <3>1. CASE upto[t][f] # asm[t].got[f]
      BY <1>1, <3>1
    <3>2. CASE upto[t][f] = asm[t].got[f]
      <4>1. /\ [asm[t].parts EXCEPT ![f] = @ \cup {upto[t][f]}] \in [Files -> SUBSET Nat]
            /\ [asm[t].got EXCEPT ![f] = @ + 1] \in [Files -> 0 .. Chunks]
        BY <1>1, <3>2, ClipAssumption DEF Assembly
      <4>2. a = [parts |-> [asm[t].parts EXCEPT ![f] = @ \cup {upto[t][f]}],
                 got |-> [asm[t].got EXCEPT ![f] = @ + 1],
                 done |-> asm[t].done, written |-> asm[t].written]
        BY <1>1, <3>2 DEF Assembly
      <4>3. a \in Assembly
        BY <1>1, <4>1, <4>2 DEF Assembly
      <4>4. ASSUME NEW g \in Files PROVE a.parts[g] = 0 .. a.got[g] - 1
        <5>1. CASE g = f
          <6>1. a.parts[g] = asm[t].parts[f] \cup {asm[t].got[f]} /\ a.got[g] = asm[t].got[f] + 1
            BY <1>1, <3>2, <4>2, <5>1 DEF Assembly
          <6>2. asm[t].parts[f] = 0 .. asm[t].got[f] - 1 /\ asm[t].got[f] \in Nat
            BY <1>1, ClipAssumption DEF Assembly
          <6>3. \A k \in Nat : (0 .. k - 1) \cup {k} = 0 .. (k + 1) - 1
            OBVIOUS
          <6> QED
            BY <6>1, <6>2, <6>3
        <5>2. CASE g # f
          BY <1>1, <4>2, <5>2 DEF Assembly
        <5> QED
          BY <5>1, <5>2
      <4> QED
        BY <4>2, <4>3, <4>4
    <3> QED
      BY <3>1, <3>2
  <2>2. IF a.got[f] = Chunks THEN FinishFile(t, f, a, a.parts[f])
        ELSE asm' = [asm EXCEPT ![t] = a] /\ UNCHANGED <<disk, staging>>
    BY <1>4 DEF RecvChunk
  <2> HIDE DEF a
  <2>3. CASE a.got[f] = Chunks
    <3>1. a.parts[f] = 0 .. Chunks - 1
      BY <2>1, <2>3
    <3> QED
      BY <1>1, <1>3, <2>1, <2>2, <2>3, <3>1, FinishFacts
  <2>4. CASE a.got[f] # Chunks
    BY <1>1, <1>3, <2>1, <2>2, <2>4, ReceivedMore
  <2> QED
    BY <2>3, <2>4
<1>5. CASE RecvFailed(t, f)
  <2>1. FinishFile(t, f, asm[t], Nothing)
    BY <1>5 DEF RecvFailed
  <2> QED
    BY <1>1, <1>3, <2>1, FinishFacts
<1>6. CASE ChunkElsewhere(t, f)
  <2>1. asm' = [asm EXCEPT ![t] = asm[t]] /\ UNCHANGED <<disk, staging>>
    BY <1>6 DEF ChunkElsewhere, StagingInv, ReceiveInv
  <2> QED
    BY <1>1, <1>3, <2>1, ReceivedMore
<1> QED
  BY <1>4, <1>5, <1>6

LEMMA ClipPreserves == ClipInv /\ [ClipNext]_clipVars => ClipInv'
<1> SUFFICES ASSUME ClipInv, [ClipNext]_clipVars PROVE ClipInv'
  OBVIOUS
<1>1. StagingInv /\ ImageInv /\ GuardInv
  BY DEF ClipInv
<1>2. \A kind \in {"text", "image", "files"} : Read(kind) # Nothing => Read(kind) \in Items /\ Read(kind).kind = kind
  BY <1>1 DEF Read, GuardInv
<1>3. CASE UNCHANGED clipVars
  <2>1. StagingInv'
    BY <1>1, <1>3, StagingKept DEF clipVars
  <2> QED
    BY <1>1, <1>3, <2>1 DEF ClipInv, ImageInv, GuardInv, clipVars, textVars, imageVars, outVars
<1>4. CASE HostCopies
  <2>1. StagingInv'
    BY <1>1, <1>4, StagingKept DEF HostCopies, PutClip
  <2> QED
    BY <1>1, <1>4, <2>1, ItemFacts
       DEF ClipInv, ImageInv, GuardInv, HostCopies, PutClip, textVars, imageVars, outVars
<1>5. CASE InboundText
  <2>1. GuardInv'
    BY <1>1, <1>5, ItemFacts DEF GuardInv, InboundText, imageVars, outVars
  <2> QED
    BY <1>1, <1>5, <2>1, StagingKept DEF ClipInv, ImageInv, InboundText, imageVars
<1>6. CASE InboundWrite
  <2>1. inbound \in {ViewerText} \cup Images
    BY <1>1, <1>6 DEF InboundWrite, GuardInv
  <2>2. StagingInv'
    BY <1>1, <1>6, <2>1, StagingKept DEF InboundWrite, PutClip
  <2> QED
    BY <1>1, <1>6, <2>2, ItemFacts
       DEF ClipInv, ImageInv, GuardInv, InboundWrite, PutClip, imageVars, outVars
<1>7. CASE PollBegins
  BY <1>1, <1>7, StagingKept DEF ClipInv, ImageInv, GuardInv, PollBegins, imageVars, outVars
<1>8. CASE PollReads
  <2>1. GuardInv'
    BY <1>1, <1>2, <1>8 DEF GuardInv, PollReads, outVars
  <2> QED
    BY <1>1, <1>8, <2>1, StagingKept DEF ClipInv, ImageInv, PollReads, imageVars, outVars
<1>9. CASE PollSends
  <2>1. GuardInv'
    BY <1>1, <1>9 DEF GuardInv, PollSends, outVars
  <2> QED
    BY <1>1, <1>9, <2>1, StagingKept DEF ClipInv, ImageInv, PollSends, imageVars, outVars
<1>10. CASE FilesPoll
  <2>1. /\ last' = [last EXCEPT !["files"] = Read("files")]
        /\ UNCHANGED <<clip, news, textVars, imageVars, fileVars>>
    BY <1>10 DEF FilesPoll
  <2>2. sent' \in {Nothing} \cup Items /\ seq' \in 0 .. MaxSeq /\ out' \subseteq 1 .. seq'
    <3>1. CASE UNCHANGED <<seq, out, sent>>
      BY <1>1, <3>1 DEF GuardInv
    <3>2. CASE /\ Read("files") # Nothing /\ seq < MaxSeq /\ seq' = seq + 1 /\ sent' = Read("files")
               /\ out' \subseteq out \cup {seq + 1}
      <4>1. seq \in Nat /\ out \subseteq 1 .. seq /\ MaxSeq \in Nat
        BY <1>1, ClipAssumption DEF GuardInv
      <4>2. \A k \in out \cup {seq + 1} : k \in 1 .. seq + 1
        BY <4>1
      <4> QED
        BY <1>2, <3>2, <4>1, <4>2
    <3> QED
      BY <1>10, <3>1, <3>2 DEF FilesPoll
  <2>3. GuardInv'
    BY <1>1, <1>2, <2>1, <2>2 DEF GuardInv, textVars
  <2> QED
    BY <1>1, <2>1, <2>3, StagingKept DEF ClipInv, ImageInv, imageVars
<1>11. ASSUME NEW v \in Viewers, InboundChunk(v) PROVE ClipInv'
  <2>1. PICK i \in 0 .. Chunks : i = sending[v] /\ i < Chunks
    BY <1>1, <1>11 DEF ImageInv, InboundChunk
  <2> DEFINE parts == IF i = 0 THEN <<v>>
                      ELSE IF image # Nothing /\ DOMAIN image = 1 .. i
                           THEN [j \in 1 .. i + 1 |-> IF j <= i THEN image[j] ELSE v]
                           ELSE Nothing
  <2>2. parts = Nothing \/ parts \in [1 .. i + 1 -> Viewers]
    <3>1. CASE i = 0
      <4>1. <<v>> \in [1 .. 1 -> Viewers]
        OBVIOUS
      <4> QED
        BY <3>1, <4>1
    <3>2. CASE i # 0 /\ image # Nothing /\ DOMAIN image = 1 .. i
      <4>1. image \in [1 .. i -> Viewers]
        BY <1>1, <3>2 DEF ImageInv
      <4> QED
        BY <3>2, <4>1
    <3> QED
      BY <3>1, <3>2
  <2>3. /\ sending' = [sending EXCEPT ![v] = i + 1]
        /\ image' \in {Nothing, parts}
        /\ \/ UNCHANGED <<inbound, last>>
           \/ /\ parts # Nothing /\ i + 1 = Chunks /\ inbound' = Item("image", "viewer", parts)
              /\ last' = [last EXCEPT !["image"] = Item("image", "viewer", parts)]
        /\ UNCHANGED <<clip, news, poll, sent, outVars, fileVars>>
    BY <1>11, <2>1 DEF InboundChunk
  <2> HIDE DEF parts
  <2>4. ImageInv'
    <3>1. sending' \in [Viewers -> 0 .. Chunks]
      BY <1>1, <2>1, <2>3, ClipAssumption DEF ImageInv
    <3>2. \A k \in Nat : 1 .. i + 1 = 1 .. k => k = i + 1
      BY <2>1
    <3> QED
      BY <2>2, <2>3, <3>1, <3>2 DEF ImageInv
  <2>5. GuardInv'
    <3>1. parts # Nothing /\ i + 1 = Chunks => Item("image", "viewer", parts) \in Images
      BY <2>2, ItemFacts
    <3> QED
      BY <1>1, <2>3, <3>1, ItemFacts DEF GuardInv, outVars
  <2> QED
    BY <1>1, <2>3, <2>4, <2>5, StagingKept DEF ClipInv
<1>12. ASSUME NEW t \in Tokens, Announced(t) PROVE ClipInv'
  <2> DEFINE a == [parts |-> [f \in Files |-> {}], got |-> [f \in Files |-> 0], done |-> {}, written |-> {}]
  <2>1. /\ a \in Assembly /\ \A f \in Files : a.parts[f] = 0 .. a.got[f] - 1
        /\ a.written = {} /\ a.done = {}
    BY ClipAssumption DEF Assembly
  <2>2. /\ asm[t] = Nothing /\ NotBegun(t) /\ asm' = [asm EXCEPT ![t] = a]
        /\ UNCHANGED <<clip, news, last, textVars, sent, imageVars, outVars, upto, disk, staging>>
    BY <1>12 DEF Announced, NotBegun
  <2> HIDE DEF a
  <2>3. StagingInv'
    <3>1. ReceiveInv'
      BY <1>1, <2>1, <2>2 DEF StagingInv, ReceiveInv
    <3>2. Handed' = Handed /\ \A z \in Handed : z.by # t
      BY <1>1, <2>2 DEF StagingInv, Handed
    <3>3. /\ \A u, g : AsWritten(u, g)' <=> AsWritten(u, g)
          /\ \A u : NotBegun(u)' <=> NotBegun(u)
      BY <2>2 DEF AsWritten, NotBegun
    <3>4. ASSUME NEW u \in Tokens, asm'[u] # Nothing
          PROVE  asm'[u].written \subseteq asm'[u].done /\ \A g \in asm'[u].written : AsWritten(u, g)'
      BY <1>1, <2>1, <2>2, <3>3, <3>4 DEF StagingInv, ReceiveInv
    <3>5. ASSUME NEW z \in Handed'
          PROVE  asm'[z.by] = Nothing /\ ~NotBegun(z.by)' /\ \A g \in z.files : AsWritten(z.by, g)'
      <4>1. z \in Handed /\ z.by \in Tokens /\ z.by # t
        BY <1>1, <3>2, <3>5 DEF StagingInv, Handed, Sets
      <4>2. asm'[z.by] = asm[z.by]
        BY <1>1, <2>2, <4>1 DEF StagingInv, ReceiveInv
      <4> QED
        BY <1>1, <3>3, <4>1, <4>2 DEF StagingInv
    <3> QED
      BY <1>1, <2>2, <3>1, <3>4, <3>5 DEF StagingInv
  <2> QED
    BY <1>1, <2>2, <2>3 DEF ClipInv, ImageInv, GuardInv, textVars, imageVars, outVars
<1>13. ASSUME NEW z \in staging, Stage(z) PROVE ClipInv'
  <2>1. /\ z \in Sets /\ staging' \subseteq staging /\ UNCHANGED <<upto, asm, disk>>
        /\ (clip' = Item("files", "viewer", z) /\ news' = TRUE) \/ UNCHANGED <<clip, news>>
    BY <1>1, <1>13 DEF Stage, PutClip, StagingInv
  <2>2. StagingInv'
    <3>1. Handed' \subseteq Handed
      <4>1. \A y \in Sets : Item("files", "viewer", y) = Item("files", "viewer", z) => y = z
        BY DEF Item
      <4> QED
        BY <2>1, <4>1 DEF Handed
    <3>2. /\ \A u, g : AsWritten(u, g)' <=> AsWritten(u, g)
          /\ \A u : NotBegun(u)' <=> NotBegun(u)
      BY <2>1 DEF AsWritten, NotBegun
    <3>3. ReceiveInv'
      BY <1>1, <2>1 DEF StagingInv, ReceiveInv
    <3> QED
      BY <1>1, <2>1, <3>1, <3>2, <3>3 DEF StagingInv
  <2>3. clip' \in Items /\ news' \in BOOLEAN
    <3>1. Item("files", "viewer", z) \in Items /\ clip \in Items /\ news \in BOOLEAN
      BY <1>1, <2>1, ItemFacts DEF GuardInv
    <3> QED
      BY <2>1, <3>1
  <2> QED
    BY <1>1, <1>13, <2>2, <2>3 DEF ClipInv, ImageInv, GuardInv, Stage, textVars, imageVars, outVars
<1>14. ASSUME NEW t \in Tokens, NEW f \in Files, RecvChunk(t, f) \/ RecvFailed(t, f) \/ ChunkElsewhere(t, f)
       PROVE  ClipInv'
  <2>1. StagingInv' /\ UNCHANGED <<clip, news, last, textVars, sent, imageVars, outVars>>
    BY <1>1, <1>14, RecvPreserves DEF RecvChunk, RecvFailed, ChunkElsewhere
  <2> QED
    BY <1>1, <2>1 DEF ClipInv, ImageInv, GuardInv, textVars, imageVars, outVars
<1> QED
  BY <1>3, <1>4, <1>5, <1>6, <1>7, <1>8, <1>9, <1>10, <1>11, <1>12, <1>13, <1>14 DEF ClipNext, PollSteps

LEMMA ClipImplies == ClipInv => ClipTypeOK /\ StagedIsWhole
BY DEF ClipInv, StagingInv, AsWritten, ImageInv, GuardInv, ClipTypeOK, StagedIsWhole

\* A viewer's file that is put on the host's clipboard is on the disk with all the chunks of
\* its announcement, whatever chunks or writes fail, until another announcement's file of
\* that name is written (clipfiles_windows.go).
THEOREM StagedFilesWhole == ClipSpec => [](ClipTypeOK /\ StagedIsWhole)
BY ClipStarts, ClipPreserves, ClipImplies, PTL DEF ClipSpec
=============================================================================
