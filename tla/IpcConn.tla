------------------------------ MODULE IpcConn -------------------------------
(***************************************************************************)
(* One direction of the link between the transport and a capture worker:   *)
(* ipc.Conn in agent/ipc/ipc.go, three bounded queues that any goroutine   *)
(* may write to and one goroutine, writeLoop, that drains them into the    *)
(* socket.                                                                 *)
(*                                                                         *)
(* The steps are the select statements: a channel operation, or the        *)
(* closed done, is what a goroutine can be held at.  Go chooses at random  *)
(* among the cases that are ready, here nondeterministically.  Framing and *)
(* the size limit of frame() are left out.                                 *)
(***************************************************************************)
EXTENDS Naturals, Sequences

CONSTANTS
    HiProducer,   \* the goroutines that call WriteMessage
    BulkProducer, \* those that call WriteBulk
    VidProducer,  \* those that call WriteDroppable
    Data,         \* the messages they write
    Nothing,      \* nil
    HiCap, BulkCap, VidCap, \* the queues' capacities
    MaxStreak     \* the hi messages after which bulk gets a slot

Producer == HiProducer \cup BulkProducer \cup VidProducer

Lane == {"hi", "bulk", "vid"}

ASSUME IpcAssumption ==
    /\ HiProducer \cap BulkProducer = {}
    /\ VidProducer \cap (HiProducer \cup BulkProducer) = {}
    /\ Nothing \notin Data \cup (Lane \X Data)
    /\ HiCap \in Nat \ {0} /\ BulkCap \in Nat \ {0} /\ VidCap \in Nat \ {0}
    /\ MaxStreak \in Nat \ {0}

LaneOf(p) ==
    IF p \in HiProducer THEN "hi" ELSE IF p \in BulkProducer THEN "bulk" ELSE "vid"

Cap == [l \in Lane |->
          IF l = "hi" THEN HiCap ELSE IF l = "bulk" THEN BulkCap ELSE VidCap]

VARIABLES
    queue,  \* Conn.hi, Conn.bulk and Conn.vid
    done,   \* whether Conn.done is closed
    open,   \* whether the socket is
    at,     \* the select, or the socket write, that writeLoop is at
    held,   \* the message writeLoop has taken, with its lane, or Nothing
    streak, \* hiStreak, as far as MaxStreak: only >= is asked of it
    item,   \* what producer p is writing, or Nothing
    full,   \* whether p has found the vid queue full and is about to drop
    passed  \* history: hi messages taken in a row while bulk waited

writerVars   == <<at, held, streak, passed>>
producerVars == <<item, full>>
vars == <<queue, done, open, writerVars, producerVars>>

TypeOK ==
    /\ queue  \in [Lane -> Seq(Data)]
    /\ \A l \in Lane : Len(queue[l]) <= Cap[l]
    /\ done   \in BOOLEAN
    /\ open   \in BOOLEAN
    /\ at     \in {"fair", "hi", "any", "write", "stopped"}
    /\ held   \in (Lane \X Data) \cup {Nothing}
    /\ streak \in 0 .. MaxStreak
    /\ item   \in [Producer -> Data \cup {Nothing}]
    /\ full   \in [Producer -> BOOLEAN]
    /\ passed \in 0 .. MaxStreak + 1

Init ==
    /\ queue  = [l \in Lane |-> <<>>]
    /\ done   = FALSE
    /\ open   = TRUE
    /\ at     = "fair"
    /\ held   = Nothing
    /\ streak = 0
    /\ item   = [p \in Producer |-> Nothing]
    /\ full   = [p \in Producer |-> FALSE]
    /\ passed = 0

-----------------------------------------------------------------------------
(***************************************************************************)
(* WriteMessage, WriteBulk and WriteDroppable.                             *)
(***************************************************************************)
Call(p, d) ==
    /\ item[p] = Nothing
    /\ item' = [item EXCEPT ![p] = d]
    /\ UNCHANGED <<queue, done, open, writerVars, full>>

Return(p) == item' = [item EXCEPT ![p] = Nothing] /\ UNCHANGED full

\* Mutant of Enqueue: a queue that grows instead of holding its producer up.
EnqueueUnbounded(p) ==
    /\ item[p] # Nothing /\ ~full[p]
    /\ queue' = [queue EXCEPT ![LaneOf(p)] = Append(@, item[p])]
    /\ Return(p)
    /\ UNCHANGED <<done, open, writerVars>>

\* The send case: the message is queued and the call returns nil.
Enqueue(p) ==
    /\ item[p] # Nothing /\ ~full[p]
    /\ Len(queue[LaneOf(p)]) < Cap[LaneOf(p)]
    /\ queue' = [queue EXCEPT ![LaneOf(p)] = Append(@, item[p])]
    /\ Return(p)
    /\ UNCHANGED <<done, open, writerVars>>

\* The done case: the call returns ErrConnClosed.
Refuse(p) ==
    /\ item[p] # Nothing /\ ~full[p] /\ done
    /\ Return(p)
    /\ UNCHANGED <<queue, done, open, writerVars>>

\* WriteDroppable's default case, for a queue that is full on an open link ...
FindFull(p) ==
    /\ p \in VidProducer /\ item[p] # Nothing /\ ~full[p] /\ ~done
    /\ Len(queue["vid"]) = VidCap
    /\ full' = [full EXCEPT ![p] = TRUE]
    /\ UNCHANGED <<queue, done, open, writerVars, item>>

\* Mutant of DropOldest: room is made in the wrong queue.
DropOldestBulk(p) ==
    /\ full[p]
    /\ full'  = [full EXCEPT ![p] = FALSE]
    /\ queue' = IF queue["bulk"] = <<>> THEN queue
                ELSE [queue EXCEPT !["bulk"] = Tail(@)]
    /\ UNCHANGED <<done, open, writerVars, item>>

\* ... and the drop: another producer or writeLoop may have been faster.
DropOldest(p) ==
    /\ full[p]
    /\ full'  = [full EXCEPT ![p] = FALSE]
    /\ queue' = IF queue["vid"] = <<>> THEN queue
                ELSE [queue EXCEPT !["vid"] = Tail(@)]
    /\ UNCHANGED <<done, open, writerVars, item>>

-----------------------------------------------------------------------------
(***************************************************************************)
(* writeLoop.                                                              *)
(***************************************************************************)
\* The history, which need not go beyond the first hi message too many.
Passing(l) ==
    IF l # "hi" \/ queue["bulk"] = <<>> THEN 0
    ELSE IF passed <= MaxStreak THEN passed + 1 ELSE passed

\* Mutant of Take: every message starts the streak again.
TakeForgetsStreak(l) ==
    /\ queue[l] # <<>>
    /\ held'   = <<l, Head(queue[l])>>
    /\ queue'  = [queue EXCEPT ![l] = Tail(@)]
    /\ streak' = 0
    /\ passed' = Passing(l)
    /\ at'     = "write"
    /\ UNCHANGED <<done, open, producerVars>>

\* Mutant of Take: the newest message goes first.
TakeNewest(l) ==
    /\ queue[l] # <<>>
    /\ held'   = <<l, queue[l][Len(queue[l])]>>
    /\ queue'  = [queue EXCEPT ![l] = SubSeq(@, 1, Len(@) - 1)]
    /\ streak' = IF l # "hi" THEN 0 ELSE IF streak < MaxStreak THEN streak + 1 ELSE streak
    /\ passed' = Passing(l)
    /\ at'     = "write"
    /\ UNCHANGED <<done, open, producerVars>>

\* A message is taken from lane l; after a hi message the streak grows, after
\* any other it starts again.
Take(l) ==
    /\ queue[l] # <<>>
    /\ held'   = <<l, Head(queue[l])>>
    /\ queue'  = [queue EXCEPT ![l] = Tail(@)]
    /\ streak' = IF l # "hi" THEN 0 ELSE IF streak < MaxStreak THEN streak + 1 ELSE streak
    /\ passed' = Passing(l)
    /\ at'     = "write"
    /\ UNCHANGED <<done, open, producerVars>>

\* The select that gives bulk its slot after a streak.
TakeFair == at = "fair" /\ streak >= MaxStreak /\ Take("bulk")

\* Mutant of PassFair: the slot is offered but never insisted on.
PassFairAlways ==
    /\ at = "fair"
    /\ at' = "hi"
    /\ UNCHANGED <<queue, done, open, held, streak, passed, producerVars>>

\* No streak, or its default case: on to the next select.
PassFair ==
    /\ at = "fair"
    /\ streak >= MaxStreak => queue["bulk"] = <<>> /\ ~done
    /\ at' = "hi"
    /\ UNCHANGED <<queue, done, open, held, streak, passed, producerVars>>

\* The select that prefers the hi lane, and its default case.
TakeHi == at = "hi" /\ Take("hi")

PassHi ==
    /\ at = "hi" /\ queue["hi"] = <<>> /\ ~done
    /\ at' = "any"
    /\ UNCHANGED <<queue, done, open, held, streak, passed, producerVars>>

\* The select that waits for whatever comes first.
TakeAny(l) == at = "any" /\ Take(l)

\* The done case of each of the three.
Stop ==
    /\ \/ at = "fair" /\ streak >= MaxStreak
       \/ at \in {"hi", "any"}
    /\ done
    /\ at' = "stopped"
    /\ UNCHANGED <<queue, done, open, held, streak, passed, producerVars>>

\* The socket takes the message ...
Write ==
    /\ at = "write" /\ open
    /\ at'   = "fair"
    /\ held' = Nothing
    /\ UNCHANGED <<queue, done, open, streak, passed, producerVars>>

\* Mutant of WriteError: writeLoop ends and nobody is told.
WriteErrorSilent ==
    /\ at = "write"
    /\ at'   = "stopped"
    /\ held' = Nothing
    /\ UNCHANGED <<queue, done, open, streak, passed, producerVars>>

\* ... or fails: writeLoop closes done for the producers' sake and ends.
WriteError ==
    /\ at = "write"
    /\ at'   = "stopped"
    /\ held' = Nothing
    /\ done' = TRUE
    /\ UNCHANGED <<queue, open, streak, passed, producerVars>>

\* Close, by the reader's side when the link is torn down.
Close ==
    /\ open
    /\ open' = FALSE
    /\ done' = TRUE
    /\ UNCHANGED <<queue, writerVars, producerVars>>

-----------------------------------------------------------------------------
WriterStep ==
    \/ TakeFair \/ PassFair \/ TakeHi \/ PassHi \/ Stop \/ Write \/ WriteError
    \/ \E l \in Lane : TakeAny(l)

ProducerStep(p) == Enqueue(p) \/ Refuse(p) \/ FindFull(p) \/ DropOldest(p)

Next ==
    \/ WriterStep \/ Close
    \/ \E p \in Producer : ProducerStep(p) \/ \E d \in Data : Call(p, d)

(***************************************************************************)
(* writeLoop runs, and the socket, which the peer's reader drains, takes a *)
(* message or fails.  A goroutine that waits at a channel is served in     *)
(* turn, whence the strong fairness of Enqueue; and the last select's      *)
(* random choice does not pass over bulk time and again.                   *)
(***************************************************************************)
Fairness ==
    /\ WF_vars(WriterStep)
    /\ SF_vars(TakeAny("bulk"))
    /\ \A p \in HiProducer \cup BulkProducer :
         SF_vars(Enqueue(p)) /\ WF_vars(ProducerStep(p))

Spec == Init /\ [][Next]_vars /\ Fairness

-----------------------------------------------------------------------------
(***************************************************************************)
(* While bulk data waits, no more than MaxStreak hi messages are taken in  *)
(* a row (ipc.go:197-202), although the two lanes are looked at in         *)
(* different selects and bulk may arrive in between.                       *)
(***************************************************************************)
BulkGetsItsSlot == passed <= MaxStreak

(***************************************************************************)
(* Bulk data always makes progress, however hard hi and vid are flooded:   *)
(* "large file stalls at ~8MB" (ipc.go:197-202) cannot recur.              *)
(***************************************************************************)
BulkProgress ==
    []<>(queue["bulk"] = <<>> \/ (held # Nothing /\ held[1] = "bulk") \/ done)

(***************************************************************************)
(* No call of WriteMessage or WriteBulk is stuck for ever: the queue moves *)
(* on, or a write error or Close lets go of it (ipc.go:237-242).           *)
(***************************************************************************)
CallsReturn ==
    \A p \in HiProducer \cup BulkProducer : item[p] # Nothing ~> item[p] = Nothing

\* What writeLoop holds of lane l.
HeldOf(l) == IF held # Nothing /\ held[1] = l THEN held[2] ELSE Nothing

HiLane ==
    INSTANCE ReliableLane WITH Item <- Data, NoItem <- Nothing,
        accepted <- queue["hi"], sending <- HeldOf("hi"), cut <- done
BulkLane ==
    INSTANCE ReliableLane WITH Item <- Data, NoItem <- Nothing,
        accepted <- queue["bulk"], sending <- HeldOf("bulk"), cut <- done

(***************************************************************************)
(* The hi and the bulk lane implement ReliableLane: one writer takes what  *)
(* several goroutines queue, and drops, reorders and repeats none of it    *)
(* while the link is up (ipc.go:155-167).                                  *)
(***************************************************************************)
ReliableLanes == HiLane!LaneSpec /\ BulkLane!LaneSpec
=============================================================================
