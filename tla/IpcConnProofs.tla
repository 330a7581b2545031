---------------------------- MODULE IpcConnProofs ---------------------------
(***************************************************************************)
(* Proofs about IpcConn for any number of producers, any messages and any  *)
(* capacities: its types, the bound on the hi lane's priority, and that    *)
(* the two reliable lanes implement ReliableLane.                          *)
(***************************************************************************)
EXTENDS IpcConn, TLAPS

\* The streak outlasts the hi messages that passed bulk by, and after a full
\* streak the later selects are reached only if no bulk data was waiting.
SlotInv ==
    /\ passed <= streak
    /\ passed > 0 => queue["bulk"] # <<>>
    /\ at \in {"hi", "any"} /\ streak = MaxStreak => passed = 0

\* writeLoop holds a message only while it writes.
HeldInv == at # "write" => held = Nothing

IpcInv == TypeOK /\ SlotInv /\ HeldInv

-----------------------------------------------------------------------------
LEMMA LaneOfType == \A p \in Producer : LaneOf(p) \in Lane
BY DEF LaneOf, Lane

LEMMA CapType == \A l \in Lane : Cap[l] \in Nat \ {0}
BY IpcAssumption DEF Cap, Lane

LEMMA IpcInit == Init => IpcInv
<1> SUFFICES ASSUME Init PROVE IpcInv
  OBVIOUS
<1>1. queue \in [Lane -> Seq(Data)] /\ \A l \in Lane : Len(queue[l]) <= Cap[l]
  BY CapType DEF Init
<1>2. streak \in 0 .. MaxStreak /\ passed \in 0 .. MaxStreak + 1
  BY IpcAssumption DEF Init
<1>3. item \in [Producer -> Data \cup {Nothing}] /\ full \in [Producer -> BOOLEAN]
  BY DEF Init
<1>4. TypeOK
  BY <1>1, <1>2, <1>3 DEF Init, TypeOK
<1> QED
  BY <1>4, IpcAssumption DEF Init, IpcInv, SlotInv, HeldInv

LEMMA TakeKeepsType ==
    ASSUME TypeOK, NEW l \in Lane, Take(l) PROVE TypeOK'
<1>1. Head(queue[l]) \in Data /\ Tail(queue[l]) \in Seq(Data)
      /\ Len(Tail(queue[l])) <= Len(queue[l])
  BY DEF Take, TypeOK
<1>2. queue' = [queue EXCEPT ![l] = Tail(queue[l])]
  BY DEF Take
<1>3. queue' \in [Lane -> Seq(Data)]
  BY <1>1, <1>2 DEF TypeOK
<1>4. \A k \in Lane : Len(queue'[k]) <= Cap[k]
  <2> SUFFICES ASSUME NEW k \in Lane PROVE Len(queue'[k]) <= Cap[k]
    OBVIOUS
  <2>1. CASE k = l
    <3>1. Len(queue[l]) \in Nat /\ Len(Tail(queue[l])) \in Nat /\ Cap[l] \in Nat
      BY <1>1, CapType DEF TypeOK
    <3> QED
      BY <1>1, <1>2, <2>1, <3>1 DEF TypeOK
  <2>2. CASE k # l
    BY <1>2, <2>2 DEF TypeOK
  <2> QED
    BY <2>1, <2>2
<1>5. held' \in (Lane \X Data) \cup {Nothing}
  BY <1>1 DEF Take
<1>6. streak' \in 0 .. MaxStreak
  BY IpcAssumption DEF Take, TypeOK
<1>7. passed' \in 0 .. MaxStreak + 1
  BY IpcAssumption DEF Take, Passing, TypeOK
<1>8. UNCHANGED <<done, open, item, full>> /\ at' = "write"
  BY DEF Take, producerVars
<1> QED
  BY <1>3, <1>4, <1>5, <1>6, <1>7, <1>8 DEF TypeOK

LEMMA EnqueueKeepsType ==
    ASSUME TypeOK, NEW p \in Producer, Enqueue(p) PROVE TypeOK'
<1>1. PICK l \in Lane : l = LaneOf(p)
  BY LaneOfType
<1>2. item[p] \in Data
  BY DEF Enqueue, TypeOK
<1>3. queue' = [queue EXCEPT ![l] = Append(queue[l], item[p])]
      /\ Len(queue[l]) < Cap[l]
  BY <1>1 DEF Enqueue
<1>4. Append(queue[l], item[p]) \in Seq(Data)
      /\ Len(Append(queue[l], item[p])) = Len(queue[l]) + 1
  BY <1>2 DEF TypeOK
<1>5. queue' \in [Lane -> Seq(Data)]
  BY <1>3, <1>4 DEF TypeOK
<1>6. \A k \in Lane : Len(queue'[k]) <= Cap[k]
  <2> SUFFICES ASSUME NEW k \in Lane PROVE Len(queue'[k]) <= Cap[k]
    OBVIOUS
  <2>1. CASE k = l
    <3>1. Len(queue[l]) \in Nat /\ Cap[l] \in Nat
      BY CapType DEF TypeOK
    <3> QED
      BY <1>3, <1>4, <2>1, <3>1 DEF TypeOK
  <2>2. CASE k # l
    BY <1>3, <2>2 DEF TypeOK
  <2> QED
    BY <2>1, <2>2
<1>7. item' \in [Producer -> Data \cup {Nothing}]
  BY DEF Enqueue, Return, TypeOK
<1>8. UNCHANGED <<done, open, at, held, streak, passed, full>>
  BY DEF Enqueue, Return, writerVars
<1> QED
  BY <1>5, <1>6, <1>7, <1>8 DEF TypeOK

LEMMA DropOldestKeepsType ==
    ASSUME TypeOK, NEW p \in Producer, DropOldest(p)
    PROVE  TypeOK' /\ queue'["hi"] = queue["hi"] /\ queue'["bulk"] = queue["bulk"]
<1>1. UNCHANGED <<done, open, at, held, streak, passed, item>>
  BY DEF DropOldest, writerVars
<1>2. full' \in [Producer -> BOOLEAN]
  BY DEF DropOldest, TypeOK
<1>3. CASE queue["vid"] = <<>>
  BY <1>1, <1>2, <1>3 DEF DropOldest, TypeOK
<1>4. CASE queue["vid"] # <<>>
  <2>0. "vid" \in Lane
    BY DEF Lane
  <2>1. queue' = [queue EXCEPT !["vid"] = Tail(queue["vid"])]
    BY <1>4 DEF DropOldest
  <2>2. Tail(queue["vid"]) \in Seq(Data)
        /\ Len(Tail(queue["vid"])) = Len(queue["vid"]) - 1
    BY <1>4, <2>0 DEF TypeOK
  <2>3. queue' \in [Lane -> Seq(Data)]
    BY <2>1, <2>2 DEF TypeOK
  <2>4. \A k \in Lane : Len(queue'[k]) <= Cap[k]
    <3> SUFFICES ASSUME NEW k \in Lane PROVE Len(queue'[k]) <= Cap[k]
      OBVIOUS
    <3>1. CASE k = "vid"
      <4>1. Len(queue["vid"]) \in Nat /\ Cap["vid"] \in Nat
            /\ Len(queue["vid"]) <= Cap["vid"]
        BY <2>0, CapType DEF TypeOK
      <4> QED
        BY <2>0, <2>1, <2>2, <3>1, <4>1 DEF TypeOK
    <3>2. CASE k # "vid"
      BY <2>1, <3>2 DEF TypeOK
    <3> QED
      BY <3>1, <3>2
  <2>5. queue'["hi"] = queue["hi"] /\ queue'["bulk"] = queue["bulk"]
    BY <2>1 DEF TypeOK, Lane
  <2> QED
    BY <1>1, <1>2, <2>3, <2>4, <2>5 DEF TypeOK
<1> QED
  BY <1>3, <1>4

-----------------------------------------------------------------------------
(***************************************************************************)
(* The invariant, one step per action.  Only Take counts hi messages and   *)
(* only it empties a queue of bulk data, which starts the count again.     *)
(***************************************************************************)
LEMMA IpcTypeStep == TypeOK /\ [Next]_vars => TypeOK'
<1> SUFFICES ASSUME TypeOK, [Next]_vars PROVE TypeOK'
  OBVIOUS
<1>1. ASSUME NEW l \in Lane, Take(l) PROVE TypeOK'
  BY <1>1, TakeKeepsType
<1>2. ASSUME PassFair \/ PassHi \/ Stop \/ Write \/ WriteError PROVE TypeOK'
  <2>1. UNCHANGED <<queue, open, streak, passed, item, full>>
    BY <1>2 DEF PassFair, PassHi, Stop, Write, WriteError, producerVars
  <2>2. at' \in {"fair", "hi", "any", "write", "stopped"} /\ done' \in BOOLEAN
        /\ held' \in {held, Nothing}
    BY <1>2 DEF PassFair, PassHi, Stop, Write, WriteError, TypeOK
  <2> QED
    BY <2>1, <2>2 DEF TypeOK
<1>3. ASSUME NEW p \in Producer, ProducerStep(p) PROVE TypeOK'
  <2>1. CASE Enqueue(p)
    BY <2>1, EnqueueKeepsType
  <2>2. CASE Refuse(p)
    BY <2>2 DEF Refuse, Return, writerVars, TypeOK
  <2>3. CASE FindFull(p)
    BY <2>3 DEF FindFull, writerVars, TypeOK
  <2>4. CASE DropOldest(p)
    BY <2>4, DropOldestKeepsType
  <2> QED
    BY <1>3, <2>1, <2>2, <2>3, <2>4 DEF ProducerStep
<1>4. ASSUME NEW p \in Producer, NEW d \in Data, Call(p, d) PROVE TypeOK'
  BY <1>4 DEF Call, writerVars, TypeOK
<1>5. ASSUME Close PROVE TypeOK'
  BY <1>5 DEF Close, writerVars, producerVars, TypeOK
<1>6. ASSUME UNCHANGED vars PROVE TypeOK'
  BY <1>6 DEF vars, writerVars, producerVars, TypeOK
<1> QED
  BY <1>1, <1>2, <1>3, <1>4, <1>5, <1>6
     DEF Next, WriterStep, TakeFair, TakeHi, TakeAny, Lane

LEMMA EnqueueOnlyAdds ==
    ASSUME TypeOK, NEW p \in Producer, Enqueue(p), NEW l \in Lane
    PROVE  queue'[l] = IF LaneOf(p) = l THEN Append(queue[l], item[p]) ELSE queue[l]
BY LaneOfType DEF Enqueue, TypeOK

LEMMA SlotStep == IpcInv /\ [Next]_vars => SlotInv' /\ HeldInv'
<1> SUFFICES ASSUME IpcInv, [Next]_vars PROVE SlotInv' /\ HeldInv'
  OBVIOUS
<1>0. TypeOK /\ SlotInv /\ HeldInv /\ "bulk" \in Lane
      /\ streak \in 0 .. MaxStreak /\ passed \in 0 .. MaxStreak + 1
  BY DEF IpcInv, TypeOK, Lane
<1>1. ASSUME NEW l \in Lane, Take(l), at \in {"hi", "any"} \/ l # "hi"
      PROVE  SlotInv' /\ HeldInv'
  <2>1. at' = "write" /\ queue' = [queue EXCEPT ![l] = Tail(queue[l])]
        /\ passed' = Passing(l)
    BY <1>1 DEF Take
  <2>2. CASE l # "hi"
    <3>1. passed' = 0 /\ streak' = 0
      BY <1>1, <2>1, <2>2 DEF Take, Passing
    <3> QED
      BY <2>1, <3>1 DEF SlotInv, HeldInv
  <2>3. CASE l = "hi"
    <3>1. queue'["bulk"] = queue["bulk"]
      BY <1>0, <2>1, <2>3 DEF TypeOK
    <3>2. streak' = IF streak < MaxStreak THEN streak + 1 ELSE streak
      BY <1>1, <2>3 DEF Take
    <3>3. passed' = 0 \/ passed' = passed + 1 \/ passed' = passed
      BY <2>1 DEF Passing
    <3>4. queue["bulk"] = <<>> => passed' = 0
      BY <2>1 DEF Passing
    <3>5. passed' <= streak'
      BY <1>0, <1>1, <2>3, <3>2, <3>3, IpcAssumption DEF SlotInv
    <3>6. passed' > 0 => queue'["bulk"] # <<>>
      BY <3>1, <3>4
    <3> QED
      BY <2>1, <3>5, <3>6 DEF SlotInv, HeldInv
  <2> QED
    BY <2>2, <2>3
<1>2. ASSUME PassFair PROVE SlotInv' /\ HeldInv'
  BY <1>0, <1>2 DEF PassFair, SlotInv, HeldInv
<1>3. ASSUME PassHi PROVE SlotInv' /\ HeldInv'
  BY <1>0, <1>3 DEF PassHi, SlotInv, HeldInv
<1>4. ASSUME Stop PROVE SlotInv' /\ HeldInv'
  BY <1>0, <1>4 DEF Stop, SlotInv, HeldInv
<1>5. ASSUME Write \/ WriteError PROVE SlotInv' /\ HeldInv'
  BY <1>0, <1>5 DEF Write, WriteError, SlotInv, HeldInv
<1>6. ASSUME NEW p \in Producer, Enqueue(p) PROVE SlotInv' /\ HeldInv'
  <2>1. queue["bulk"] # <<>> => queue'["bulk"] # <<>>
    <3>1. item[p] \in Data /\ queue["bulk"] \in Seq(Data)
      BY <1>0, <1>6 DEF TypeOK, Enqueue
    <3>2. Append(queue["bulk"], item[p]) # <<>>
      BY <3>1
    <3> QED
      BY <1>0, <1>6, <3>2, EnqueueOnlyAdds
  <2> QED
    BY <1>0, <1>6, <2>1 DEF Enqueue, writerVars, SlotInv, HeldInv
<1>7. ASSUME NEW p \in Producer, Refuse(p) PROVE SlotInv' /\ HeldInv'
  BY <1>0, <1>7 DEF Refuse, writerVars, SlotInv, HeldInv
<1>8. ASSUME NEW p \in Producer, FindFull(p) PROVE SlotInv' /\ HeldInv'
  BY <1>0, <1>8 DEF FindFull, writerVars, SlotInv, HeldInv
<1>9. ASSUME NEW p \in Producer, DropOldest(p) PROVE SlotInv' /\ HeldInv'
  <2>1. queue'["bulk"] = queue["bulk"]
    BY <1>0, <1>9, DropOldestKeepsType
  <2> QED
    BY <1>0, <1>9, <2>1 DEF DropOldest, writerVars, SlotInv, HeldInv
<1>10. ASSUME NEW p \in Producer, NEW d \in Data, Call(p, d)
       PROVE  SlotInv' /\ HeldInv'
  BY <1>0, <1>10 DEF Call, writerVars, SlotInv, HeldInv
<1>11. ASSUME Close \/ UNCHANGED vars PROVE SlotInv' /\ HeldInv'
  BY <1>0, <1>11 DEF Close, vars, writerVars, SlotInv, HeldInv
<1> QED
  BY <1>1, <1>2, <1>3, <1>4, <1>5, <1>6, <1>7, <1>8, <1>9, <1>10, <1>11
     DEF Next, WriterStep, ProducerStep, TakeFair, TakeHi, TakeAny, Lane

LEMMA IpcInvariant == Spec => []IpcInv
<1>1. IpcInv /\ [Next]_vars => IpcInv'
  BY IpcTypeStep, SlotStep DEF IpcInv
<1> QED
  BY IpcInit, <1>1, PTL DEF Spec

\* Every variable of the link keeps its type, the queues their capacities.
THEOREM IpcTypeCorrect == Spec => []TypeOK
BY IpcInvariant, PTL DEF IpcInv

\* However hi messages and bulk data interleave with the three selects, at
\* most MaxStreak hi messages in a row pass waiting bulk data by
\* (ipc.go:197-202).
THEOREM IpcBulkSlot == Spec => []BulkGetsItsSlot
<1>1. IpcInv => BulkGetsItsSlot
  BY IpcAssumption DEF IpcInv, SlotInv, TypeOK, BulkGetsItsSlot
<1> QED
  BY IpcInvariant, <1>1, PTL

-----------------------------------------------------------------------------
(***************************************************************************)
(* The refinement.  Seen from a reliable lane, a producer's send is Accept,*)
(* Take of that lane is Start, Write is Finish, and both ends of the link  *)
(* are Cut; every other step is a stutter.                                 *)
(***************************************************************************)
LaneChange(l) ==
    \/ /\ \E x \in Data : queue'[l] = Append(queue[l], x)
       /\ HeldOf(l)' = HeldOf(l) /\ done' = done
    \/ /\ HeldOf(l) = Nothing /\ queue[l] # <<>>
       /\ HeldOf(l)' = Head(queue[l]) /\ queue'[l] = Tail(queue[l])
       /\ done' = done
    \/ HeldOf(l)' = Nothing /\ queue'[l] = queue[l] /\ done' = done
    \/ /\ done' = TRUE /\ HeldOf(l)' \in {HeldOf(l), Nothing}
       /\ queue'[l] = queue[l]
    \/ queue'[l] = queue[l] /\ HeldOf(l)' = HeldOf(l) /\ done' = done

LEMMA LaneStep ==
    ASSUME IpcInv, [Next]_vars, NEW l \in {"hi", "bulk"}
    PROVE  LaneChange(l)
<1>0. TypeOK /\ HeldInv /\ l \in Lane
  BY DEF IpcInv, Lane
<1>1. ASSUME NEW k \in Lane, Take(k), at # "write" PROVE LaneChange(l)
  <2>1. held = Nothing /\ held' = <<k, Head(queue[k])>> /\ done' = done
        /\ queue[k] # <<>> /\ queue' = [queue EXCEPT ![k] = Tail(queue[k])]
    BY <1>0, <1>1 DEF Take, HeldInv
  <2>2. Head(queue[k]) \in Data
    BY <1>0, <2>1 DEF TypeOK
  <2>3. held' # Nothing
    BY <2>1, <2>2, IpcAssumption
  <2>4. CASE k = l
    BY <1>0, <2>1, <2>3, <2>4 DEF LaneChange, HeldOf, TypeOK
  <2>5. CASE k # l
    BY <1>0, <2>1, <2>5 DEF LaneChange, HeldOf, TypeOK
  <2> QED
    BY <2>4, <2>5
<1>2. ASSUME PassFair \/ PassHi \/ Stop PROVE LaneChange(l)
  BY <1>2 DEF PassFair, PassHi, Stop, LaneChange, HeldOf
<1>3. ASSUME Write \/ WriteError PROVE LaneChange(l)
  BY <1>3 DEF Write, WriteError, LaneChange, HeldOf
<1>4. ASSUME NEW p \in Producer, Enqueue(p) PROVE LaneChange(l)
  <2>1. item[p] \in Data /\ done' = done /\ held' = held
    BY <1>0, <1>4 DEF Enqueue, writerVars, TypeOK
  <2>2. queue'[l] = Append(queue[l], item[p]) \/ queue'[l] = queue[l]
    BY <1>0, <1>4, EnqueueOnlyAdds
  <2> QED
    BY <2>1, <2>2 DEF LaneChange, HeldOf
<1>5. ASSUME NEW p \in Producer, Refuse(p) \/ FindFull(p) PROVE LaneChange(l)
  BY <1>5 DEF Refuse, FindFull, writerVars, LaneChange, HeldOf
<1>6. ASSUME NEW p \in Producer, DropOldest(p) PROVE LaneChange(l)
  <2>1. queue'[l] = queue[l]
    BY <1>0, <1>6, DropOldestKeepsType
  <2>2. done' = done /\ held' = held
    BY <1>6 DEF DropOldest, writerVars
  <2> QED
    BY <2>1, <2>2 DEF LaneChange, HeldOf
<1>7. ASSUME NEW p \in Producer, NEW d \in Data, Call(p, d) PROVE LaneChange(l)
  BY <1>7 DEF Call, writerVars, LaneChange, HeldOf
<1>8. ASSUME Close \/ UNCHANGED vars PROVE LaneChange(l)
  BY <1>8 DEF Close, vars, writerVars, LaneChange, HeldOf
<1> QED
  BY <1>1, <1>2, <1>3, <1>4, <1>5, <1>6, <1>7, <1>8
     DEF Next, WriterStep, ProducerStep, TakeFair, TakeHi, TakeAny, Lane

LEMMA HiStep == IpcInv /\ [Next]_vars => [HiLane!LaneNext]_(HiLane!laneVars)
<1> SUFFICES ASSUME IpcInv, [Next]_vars
             PROVE  [HiLane!LaneNext]_(HiLane!laneVars)
  OBVIOUS
<1>1. LaneChange("hi")
  BY LaneStep
<1> QED
  BY <1>1 DEF LaneChange, HiLane!LaneNext, HiLane!laneVars, HiLane!Accept,
              HiLane!Start, HiLane!Finish, HiLane!Cut

LEMMA BulkStep == IpcInv /\ [Next]_vars => [BulkLane!LaneNext]_(BulkLane!laneVars)
<1> SUFFICES ASSUME IpcInv, [Next]_vars
             PROVE  [BulkLane!LaneNext]_(BulkLane!laneVars)
  OBVIOUS
<1>1. LaneChange("bulk")
  BY LaneStep
<1> QED
  BY <1>1 DEF LaneChange, BulkLane!LaneNext, BulkLane!laneVars, BulkLane!Accept,
              BulkLane!Start, BulkLane!Finish, BulkLane!Cut

\* The hi and the bulk lane lose, reorder and repeat nothing of what was
\* accepted while the link is up, whatever is written to the three lanes and
\* by however many goroutines (ipc.go:155-167).
THEOREM IpcImplementsLanes == Spec => ReliableLanes
<1>1. Init => HiLane!LaneInit /\ BulkLane!LaneInit
  BY DEF Init, HiLane!LaneInit, BulkLane!LaneInit, HeldOf, Lane
<1> QED
  BY <1>1, HiStep, BulkStep, IpcInvariant, PTL
     DEF Spec, ReliableLanes, HiLane!LaneSpec, BulkLane!LaneSpec
=============================================================================
