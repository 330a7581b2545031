------------------------- MODULE HostSessionsProofs -------------------------
(***************************************************************************)
(* Proofs about HostSessions for any number of ids, dials, workers, levels *)
(* and hang-ups.                                                           *)
(***************************************************************************)
EXTENDS HostSessions, FiniteSetTheorems, TLAPS

\* A thread that drops a peer has an id to drop and a place to return to; the bye of a dial comes after it, under its id.
ThreadInv ==
  /\ \A t \in Thread : /\ place[t] = "drop" => key[t] \in Ids
                      /\ back[t] \in {"insert", "failed", "serve", "done"}
  /\ \A d \in Dials : /\ place[Connect(d)] # "none" => Who(d) \in Ids
                      /\ key[Bye(d)] = Who(d)
                      /\ place[Connect(d)] = "none" => place[Bye(d)] = "none"

\* A dial becomes a peer once, and is past being replaced from then on.
EnterInv ==
  /\ open \subseteq entered
  /\ \A k \in Ids : peers[k] \in Dials => peers[k] \in entered /\ Who(peers[k]) = k
  /\ \A d \in entered : \/ place[Connect(d)] \in {"offer", "failed", "done"}
                        \/ Dropping(Connect(d)) /\ back[Connect(d)] \in {"failed", "done"}

\* Dials of an id that has not been mixed are handled one at a time.
SoloInv ==
  \A d, e \in Dials : Handling(d) /\ Handling(e) /\ Who(d) = Who(e) /\ d # e => Who(d) \in mixed

\* Such a dial finds nobody listed when it comes to insert its peer.
Cleared(d) == Replacing(d) /\ place[Connect(d)] # "drop"
FreeInv    == \A d \in Dials : Cleared(d) /\ Who(d) \notin mixed => peers[Who(d)] = None

\* Until its handler returns, such a dial governs what the id may do.
AllowedInv ==
  \A d \in Dials : Handling(d) /\ place[Connect(d)] # "decide" /\ Who(d) \notin mixed
    => allowed[Who(d)] = level[d]

SessionsInv == /\ TypeOK /\ ThreadInv /\ EnterInv /\ SoloInv /\ FreeInv /\ AllowedInv
               /\ EndedPasswordRetired /\ NoPeerLost /\ GrantIsThePeers

\* The names of threads are told apart.
LEMMA ThreadFacts ==
  /\ \A d \in Dials : Connect(d) \in Thread /\ Bye(d) \in Thread
  /\ \A w \in Workers : Reader(w) \in Thread
  /\ \A d, e \in Dials : Connect(d) # Bye(e) /\ (Connect(d) = Connect(e) => d = e)
                         /\ (Bye(d) = Bye(e) => d = e)
  /\ \A d \in Dials, w \in Workers : Connect(d) # Reader(w) /\ Bye(d) # Reader(w)
BY DEF Connect, Bye, Reader, Thread

LEMMA CountIsNat == Cardinality(Listed) \in Nat
<1>1. IsFiniteSet(Listed)
  BY SessionAssumption, FS_Subset DEF Listed
<1> QED
  BY <1>1, FS_CardinalityType

LEMMA SessionsInit == Init => SessionsInv
<1> USE SessionAssumption, ThreadFacts DEF Init, Who, Handling, Logins, Place
<1>1. Init => TypeOK
  BY DEF TypeOK
<1>2. Init => ThreadInv /\ EnterInv /\ SoloInv /\ FreeInv /\ AllowedInv
  BY DEF ThreadInv, EnterInv, SoloInv, FreeInv, AllowedInv, Cleared, Replacing, Dropping
<1>3. Init => EndedPasswordRetired /\ NoPeerLost /\ GrantIsThePeers
  BY DEF EndedPasswordRetired, NoPeerLost, GrantIsThePeers
<1> QED
  BY <1>1, <1>2, <1>3 DEF SessionsInv

LEMMA SessionsTypeStep == SessionsInv /\ [Next]_vars => TypeOK'
<1> SUFFICES ASSUME SessionsInv, [Next]_vars PROVE TypeOK'
  OBVIOUS
<1> USE SessionAssumption, ThreadFacts DEF SessionsInv, TypeOK, ThreadInv, Who, Place, Logins
<1>1. ASSUME NEW t \in Thread, Remove(t) PROVE TypeOK'
  <2>1. key[t] \in Ids /\ back[t] \in Place
    BY <1>1 DEF Remove
  <2>2. CASE peers[key[t]] = None
    BY <1>1, <2>1, <2>2 DEF Remove, Goto, workerVars, dialVars
  <2>3. CASE peers[key[t]] # None
    <3>1. place' \in [Thread -> Place] /\ last' \in [Thread -> BOOLEAN]
      BY <1>1, <2>3 DEF Remove, Goto
    <3>2. peers' \in [Ids -> Dials \cup {None}] /\ open' \subseteq Dials
      BY <1>1, <2>1, <2>3 DEF Remove
    <3> QED
      BY <1>1, <3>1, <3>2 DEF Remove, workerVars, dialVars
  <2> QED
    BY <2>2, <2>3
<1>2. ASSUME NEW t \in Thread, Count(t) PROVE TypeOK'
  BY <1>2, CountIsNat DEF Count, Goto, peerVars, workerVars, dialVars
<1>3. ASSUME NEW t \in Thread, Tell(t) PROVE TypeOK'
  BY <1>3 DEF Tell, Goto, peerVars, dialVars
<1>4. ASSUME NEW t \in Thread, Rotate(t) PROVE TypeOK'
  BY <1>4 DEF Rotate, Goto, peerVars, workerVars
<1>5. ASSUME NEW d \in Dials, Refuse(d) PROVE TypeOK'
  BY <1>5 DEF Refuse, Goto, peerVars, workerVars, dialVars
<1>6. ASSUME NEW d \in Dials, NEW l \in Levels, Admit(d, l) PROVE TypeOK'
  BY <1>6 DEF Admit, Goto, peerVars, workerVars
<1>7. ASSUME NEW d \in Dials, Insert(d) PROVE TypeOK'
  BY <1>7 DEF Insert, Goto, workerVars, dialVars
<1>8. ASSUME NEW d \in Dials, NewPeerFails(d) PROVE TypeOK'
  BY <1>8 DEF NewPeerFails, Announce, Goto, peerVars, workerVars, dialVars
<1>9. ASSUME NEW d \in Dials, Offer(d) PROVE TypeOK'
  BY <1>9 DEF Offer, Announce, Goto, peerVars, workerVars, dialVars
<1>10. ASSUME NEW d \in Dials, Failed(d) PROVE TypeOK'
  BY <1>10 DEF Failed, Announce, Goto, peerVars, workerVars, dialVars
<1>11. ASSUME NEW d \in Dials, ByeArrives(d) PROVE TypeOK'
  BY <1>11 DEF ByeArrives, Goto, peerVars, workerVars, dialVars
<1>12. ASSUME NEW d \in Dials, NEW k \in Ids, NEW pw \in {"session", "unattended"}, Dial(d, k, pw) PROVE TypeOK'
  BY <1>12 DEF Dial, Goto, peerVars, workerVars
<1>13. ASSUME NEW w \in Workers, Attach(w) PROVE TypeOK'
  BY <1>13 DEF Attach, Goto, peerVars, dialVars
<1>14. ASSUME NEW w \in Workers, Detach(w) PROVE TypeOK'
  BY <1>14 DEF Detach, Goto, peerVars, dialVars
<1>15. ASSUME NEW w \in Workers, NEW k \in Ids, DropNext(w, k) PROVE TypeOK'
  BY <1>15 DEF DropNext, Goto, peerVars, dialVars
<1>16. ASSUME NEW w \in Workers, NEW S \in SUBSET Ids, HangUp(w, S) PROVE TypeOK'
  BY <1>16 DEF HangUp, peerVars, dialVars, threadVars
<1>17. CASE UNCHANGED vars
  BY <1>17 DEF vars, threadVars, peerVars, workerVars, dialVars
<1> QED
  BY <1>1, <1>2, <1>3, <1>4, <1>5, <1>6, <1>7, <1>8, <1>9, <1>10, <1>11, <1>12, <1>13, <1>14, <1>15, <1>16, <1>17 DEF Next, DropPeer, Handler, DropAll, Listed

LEMMA ThreadStep == SessionsInv /\ [Next]_vars => ThreadInv'
<1> SUFFICES ASSUME SessionsInv, [Next]_vars PROVE ThreadInv'
  OBVIOUS
<1> USE SessionAssumption, ThreadFacts DEF SessionsInv, TypeOK, ThreadInv, Who
<1>1. ASSUME NEW t \in Thread, Remove(t) PROVE ThreadInv'
  BY <1>1 DEF Remove, Goto, workerVars, dialVars
<1>2. ASSUME NEW t \in Thread, Count(t) PROVE ThreadInv'
  BY <1>2 DEF Count, Goto, peerVars, workerVars, dialVars
<1>3. ASSUME NEW t \in Thread, Tell(t) PROVE ThreadInv'
  BY <1>3 DEF Tell, Goto, peerVars, dialVars
<1>4. ASSUME NEW t \in Thread, Rotate(t) PROVE ThreadInv'
  BY <1>4 DEF Rotate, Goto, peerVars, workerVars
<1>5. ASSUME NEW d \in Dials, Refuse(d) PROVE ThreadInv'
  BY <1>5 DEF Refuse, Goto, peerVars, workerVars, dialVars
<1>6. ASSUME NEW d \in Dials, NEW l \in Levels, Admit(d, l) PROVE ThreadInv'
  BY <1>6 DEF Admit, Goto, peerVars, workerVars
<1>7. ASSUME NEW d \in Dials, Insert(d) PROVE ThreadInv'
  BY <1>7 DEF Insert, Goto, workerVars, dialVars
<1>8. ASSUME NEW d \in Dials, NewPeerFails(d) PROVE ThreadInv'
  BY <1>8 DEF NewPeerFails, Announce, Goto, peerVars, workerVars, dialVars
<1>9. ASSUME NEW d \in Dials, Offer(d) PROVE ThreadInv'
  BY <1>9 DEF Offer, Announce, Goto, peerVars, workerVars, dialVars
<1>10. ASSUME NEW d \in Dials, Failed(d) PROVE ThreadInv'
  BY <1>10 DEF Failed, Announce, Goto, peerVars, workerVars, dialVars
<1>11. ASSUME NEW d \in Dials, ByeArrives(d) PROVE ThreadInv'
  BY <1>11 DEF ByeArrives, Goto, peerVars, workerVars, dialVars
<1>12. ASSUME NEW d \in Dials, NEW k \in Ids, NEW pw \in {"session", "unattended"}, Dial(d, k, pw) PROVE ThreadInv'
  BY <1>12 DEF Dial, Goto, peerVars, workerVars
<1>13. ASSUME NEW w \in Workers, Attach(w) PROVE ThreadInv'
  BY <1>13 DEF Attach, Goto, peerVars, dialVars
<1>14. ASSUME NEW w \in Workers, Detach(w) PROVE ThreadInv'
  BY <1>14 DEF Detach, Goto, peerVars, dialVars
<1>15. ASSUME NEW w \in Workers, NEW k \in Ids, DropNext(w, k) PROVE ThreadInv'
  BY <1>15 DEF DropNext, Goto, peerVars, dialVars
<1>16. ASSUME NEW w \in Workers, NEW S \in SUBSET Ids, HangUp(w, S) PROVE ThreadInv'
  BY <1>16 DEF HangUp, peerVars, dialVars, threadVars
<1>17. CASE UNCHANGED vars
  BY <1>17 DEF vars, threadVars, peerVars, workerVars, dialVars
<1> QED
  BY <1>1, <1>2, <1>3, <1>4, <1>5, <1>6, <1>7, <1>8, <1>9, <1>10, <1>11, <1>12, <1>13, <1>14, <1>15, <1>16, <1>17 DEF Next, DropPeer, Handler, DropAll, Listed

LEMMA EnterStep == SessionsInv /\ [Next]_vars => EnterInv'
<1> SUFFICES ASSUME SessionsInv, [Next]_vars PROVE EnterInv'
  OBVIOUS
<1> USE SessionAssumption, ThreadFacts DEF SessionsInv, TypeOK, ThreadInv, EnterInv, Who
<1>1. ASSUME NEW t \in Thread, Remove(t) PROVE EnterInv'
  BY <1>1 DEF Remove, Goto, workerVars, dialVars, Dropping
<1>2. ASSUME NEW t \in Thread, Count(t) PROVE EnterInv'
  BY <1>2 DEF Count, Goto, peerVars, workerVars, dialVars, Dropping
<1>3. ASSUME NEW t \in Thread, Tell(t) PROVE EnterInv'
  BY <1>3 DEF Tell, Goto, peerVars, dialVars, Dropping
<1>4. ASSUME NEW t \in Thread, Rotate(t) PROVE EnterInv'
  BY <1>4 DEF Rotate, Goto, peerVars, workerVars, Dropping
<1>5. ASSUME NEW d \in Dials, Refuse(d) PROVE EnterInv'
  BY <1>5 DEF Refuse, Goto, peerVars, workerVars, dialVars, Dropping
<1>6. ASSUME NEW d \in Dials, NEW l \in Levels, Admit(d, l) PROVE EnterInv'
  BY <1>6 DEF Admit, Goto, peerVars, workerVars, Dropping
<1>7. ASSUME NEW d \in Dials, Insert(d) PROVE EnterInv'
  BY <1>7 DEF Insert, Goto, workerVars, dialVars, Dropping
<1>8. ASSUME NEW d \in Dials, NewPeerFails(d) PROVE EnterInv'
  BY <1>8 DEF NewPeerFails, Announce, Goto, peerVars, workerVars, dialVars, Dropping
<1>9. ASSUME NEW d \in Dials, Offer(d) PROVE EnterInv'
  BY <1>9 DEF Offer, Announce, Goto, peerVars, workerVars, dialVars, Dropping
<1>10. ASSUME NEW d \in Dials, Failed(d) PROVE EnterInv'
  BY <1>10 DEF Failed, Announce, Goto, peerVars, workerVars, dialVars, Dropping
<1>11. ASSUME NEW d \in Dials, ByeArrives(d) PROVE EnterInv'
  BY <1>11 DEF ByeArrives, Goto, peerVars, workerVars, dialVars, Dropping
<1>12. ASSUME NEW d \in Dials, NEW k \in Ids, NEW pw \in {"session", "unattended"}, Dial(d, k, pw) PROVE EnterInv'
  BY <1>12 DEF Dial, Goto, peerVars, workerVars, Dropping
<1>13. ASSUME NEW w \in Workers, Attach(w) PROVE EnterInv'
  BY <1>13 DEF Attach, Goto, peerVars, dialVars, Dropping
<1>14. ASSUME NEW w \in Workers, Detach(w) PROVE EnterInv'
  BY <1>14 DEF Detach, Goto, peerVars, dialVars, Dropping
<1>15. ASSUME NEW w \in Workers, NEW k \in Ids, DropNext(w, k) PROVE EnterInv'
  BY <1>15 DEF DropNext, Goto, peerVars, dialVars, Dropping
<1>16. ASSUME NEW w \in Workers, NEW S \in SUBSET Ids, HangUp(w, S) PROVE EnterInv'
  BY <1>16 DEF HangUp, peerVars, dialVars, threadVars, Dropping
<1>17. CASE UNCHANGED vars
  BY <1>17 DEF vars, threadVars, peerVars, workerVars, dialVars, Dropping
<1> QED
  BY <1>1, <1>2, <1>3, <1>4, <1>5, <1>6, <1>7, <1>8, <1>9, <1>10, <1>11, <1>12, <1>13, <1>14, <1>15, <1>16, <1>17 DEF Next, DropPeer, Handler, DropAll, Listed

LEMMA SoloStep == SessionsInv /\ [Next]_vars => SoloInv'
<1> SUFFICES ASSUME SessionsInv, [Next]_vars PROVE SoloInv'
  OBVIOUS
<1> USE SessionAssumption, ThreadFacts DEF SessionsInv, TypeOK, ThreadInv, SoloInv, Who, Handling
<1>1. ASSUME NEW t \in Thread, Remove(t) PROVE SoloInv'
  BY <1>1 DEF Remove, Goto, workerVars, dialVars
<1>2. ASSUME NEW t \in Thread, Count(t) PROVE SoloInv'
  BY <1>2 DEF Count, Goto, peerVars, workerVars, dialVars
<1>3. ASSUME NEW t \in Thread, Tell(t) PROVE SoloInv'
  BY <1>3 DEF Tell, Goto, peerVars, dialVars
<1>4. ASSUME NEW t \in Thread, Rotate(t) PROVE SoloInv'
  BY <1>4 DEF Rotate, Goto, peerVars, workerVars
<1>5. ASSUME NEW d \in Dials, Refuse(d) PROVE SoloInv'
  BY <1>5 DEF Refuse, Goto, peerVars, workerVars, dialVars
<1>6. ASSUME NEW d \in Dials, NEW l \in Levels, Admit(d, l) PROVE SoloInv'
  BY <1>6 DEF Admit, Goto, peerVars, workerVars
<1>7. ASSUME NEW d \in Dials, Insert(d) PROVE SoloInv'
  BY <1>7 DEF Insert, Goto, workerVars, dialVars
<1>8. ASSUME NEW d \in Dials, NewPeerFails(d) PROVE SoloInv'
  BY <1>8 DEF NewPeerFails, Announce, Goto, peerVars, workerVars, dialVars
<1>9. ASSUME NEW d \in Dials, Offer(d) PROVE SoloInv'
  BY <1>9 DEF Offer, Announce, Goto, peerVars, workerVars, dialVars
<1>10. ASSUME NEW d \in Dials, Failed(d) PROVE SoloInv'
  BY <1>10 DEF Failed, Announce, Goto, peerVars, workerVars, dialVars
<1>11. ASSUME NEW d \in Dials, ByeArrives(d) PROVE SoloInv'
  BY <1>11 DEF ByeArrives, Goto, peerVars, workerVars, dialVars
<1>12. ASSUME NEW d \in Dials, NEW k \in Ids, NEW pw \in {"session", "unattended"}, Dial(d, k, pw) PROVE SoloInv'
  BY <1>12 DEF Dial, Goto, peerVars, workerVars
<1>13. ASSUME NEW w \in Workers, Attach(w) PROVE SoloInv'
  BY <1>13 DEF Attach, Goto, peerVars, dialVars
<1>14. ASSUME NEW w \in Workers, Detach(w) PROVE SoloInv'
  BY <1>14 DEF Detach, Goto, peerVars, dialVars
<1>15. ASSUME NEW w \in Workers, NEW k \in Ids, DropNext(w, k) PROVE SoloInv'
  BY <1>15 DEF DropNext, Goto, peerVars, dialVars
<1>16. ASSUME NEW w \in Workers, NEW S \in SUBSET Ids, HangUp(w, S) PROVE SoloInv'
  BY <1>16 DEF HangUp, peerVars, dialVars, threadVars
<1>17. CASE UNCHANGED vars
  BY <1>17 DEF vars, threadVars, peerVars, workerVars, dialVars
<1> QED
  BY <1>1, <1>2, <1>3, <1>4, <1>5, <1>6, <1>7, <1>8, <1>9, <1>10, <1>11, <1>12, <1>13, <1>14, <1>15, <1>16, <1>17 DEF Next, DropPeer, Handler, DropAll, Listed

LEMMA FreeStep == SessionsInv /\ [Next]_vars => FreeInv'
<1> SUFFICES ASSUME SessionsInv, [Next]_vars PROVE FreeInv'
  OBVIOUS
<1> USE SessionAssumption, ThreadFacts DEF SessionsInv, TypeOK, ThreadInv, SoloInv, FreeInv, Who, Handling
<1>1. ASSUME NEW t \in Thread, Remove(t) PROVE FreeInv'
  BY <1>1 DEF Remove, Goto, workerVars, dialVars, Cleared, Replacing, Dropping
<1>2. ASSUME NEW t \in Thread, Count(t) PROVE FreeInv'
  BY <1>2 DEF Count, Goto, peerVars, workerVars, dialVars, Cleared, Replacing, Dropping
<1>3. ASSUME NEW t \in Thread, Tell(t) PROVE FreeInv'
  BY <1>3 DEF Tell, Goto, peerVars, dialVars, Cleared, Replacing, Dropping
<1>4. ASSUME NEW t \in Thread, Rotate(t) PROVE FreeInv'
  BY <1>4 DEF Rotate, Goto, peerVars, workerVars, Cleared, Replacing, Dropping
<1>5. ASSUME NEW d \in Dials, Refuse(d) PROVE FreeInv'
  BY <1>5 DEF Refuse, Goto, peerVars, workerVars, dialVars, Cleared, Replacing, Dropping
<1>6. ASSUME NEW d \in Dials, NEW l \in Levels, Admit(d, l) PROVE FreeInv'
  BY <1>6 DEF Admit, Goto, peerVars, workerVars, Cleared, Replacing, Dropping
<1>7. ASSUME NEW d \in Dials, Insert(d) PROVE FreeInv'
  BY <1>7 DEF Insert, Goto, workerVars, dialVars, Cleared, Replacing, Dropping
<1>8. ASSUME NEW d \in Dials, NewPeerFails(d) PROVE FreeInv'
  BY <1>8 DEF NewPeerFails, Announce, Goto, peerVars, workerVars, dialVars, Cleared, Replacing, Dropping
<1>9. ASSUME NEW d \in Dials, Offer(d) PROVE FreeInv'
  BY <1>9 DEF Offer, Announce, Goto, peerVars, workerVars, dialVars, Cleared, Replacing, Dropping
<1>10. ASSUME NEW d \in Dials, Failed(d) PROVE FreeInv'
  BY <1>10 DEF Failed, Announce, Goto, peerVars, workerVars, dialVars, Cleared, Replacing, Dropping
<1>11. ASSUME NEW d \in Dials, ByeArrives(d) PROVE FreeInv'
  BY <1>11 DEF ByeArrives, Goto, peerVars, workerVars, dialVars, Cleared, Replacing, Dropping
<1>12. ASSUME NEW d \in Dials, NEW k \in Ids, NEW pw \in {"session", "unattended"}, Dial(d, k, pw) PROVE FreeInv'
  BY <1>12 DEF Dial, Goto, peerVars, workerVars, Cleared, Replacing, Dropping
<1>13. ASSUME NEW w \in Workers, Attach(w) PROVE FreeInv'
  BY <1>13 DEF Attach, Goto, peerVars, dialVars, Cleared, Replacing, Dropping
<1>14. ASSUME NEW w \in Workers, Detach(w) PROVE FreeInv'
  BY <1>14 DEF Detach, Goto, peerVars, dialVars, Cleared, Replacing, Dropping
<1>15. ASSUME NEW w \in Workers, NEW k \in Ids, DropNext(w, k) PROVE FreeInv'
  BY <1>15 DEF DropNext, Goto, peerVars, dialVars, Cleared, Replacing, Dropping
<1>16. ASSUME NEW w \in Workers, NEW S \in SUBSET Ids, HangUp(w, S) PROVE FreeInv'
  BY <1>16 DEF HangUp, peerVars, dialVars, threadVars, Cleared, Replacing, Dropping
<1>17. CASE UNCHANGED vars
  BY <1>17 DEF vars, threadVars, peerVars, workerVars, dialVars, Cleared, Replacing, Dropping
<1> QED
  BY <1>1, <1>2, <1>3, <1>4, <1>5, <1>6, <1>7, <1>8, <1>9, <1>10, <1>11, <1>12, <1>13, <1>14, <1>15, <1>16, <1>17 DEF Next, DropPeer, Handler, DropAll, Listed

LEMMA AllowedStep == SessionsInv /\ [Next]_vars => AllowedInv'
<1> SUFFICES ASSUME SessionsInv, [Next]_vars PROVE AllowedInv'
  OBVIOUS
<1> USE SessionAssumption, ThreadFacts DEF SessionsInv, TypeOK, ThreadInv, EnterInv, SoloInv, AllowedInv, Who, Handling
<1>1. ASSUME NEW t \in Thread, Remove(t) PROVE AllowedInv'
  BY <1>1 DEF Remove, Goto, workerVars, dialVars
<1>2. ASSUME NEW t \in Thread, Count(t) PROVE AllowedInv'
  BY <1>2 DEF Count, Goto, peerVars, workerVars, dialVars
<1>3. ASSUME NEW t \in Thread, Tell(t) PROVE AllowedInv'
  BY <1>3 DEF Tell, Goto, peerVars, dialVars
<1>4. ASSUME NEW t \in Thread, Rotate(t) PROVE AllowedInv'
  BY <1>4 DEF Rotate, Goto, peerVars, workerVars
<1>5. ASSUME NEW d \in Dials, Refuse(d) PROVE AllowedInv'
  BY <1>5 DEF Refuse, Goto, peerVars, workerVars, dialVars
<1>6. ASSUME NEW d \in Dials, NEW l \in Levels, Admit(d, l) PROVE AllowedInv'
  BY <1>6 DEF Admit, Goto, peerVars, workerVars
<1>7. ASSUME NEW d \in Dials, Insert(d) PROVE AllowedInv'
  BY <1>7 DEF Insert, Goto, workerVars, dialVars
<1>8. ASSUME NEW d \in Dials, NewPeerFails(d) PROVE AllowedInv'
  BY <1>8 DEF NewPeerFails, Announce, Goto, peerVars, workerVars, dialVars
<1>9. ASSUME NEW d \in Dials, Offer(d) PROVE AllowedInv'
  BY <1>9 DEF Offer, Announce, Goto, peerVars, workerVars, dialVars
<1>10. ASSUME NEW d \in Dials, Failed(d) PROVE AllowedInv'
  BY <1>10 DEF Failed, Announce, Goto, peerVars, workerVars, dialVars
<1>11. ASSUME NEW d \in Dials, ByeArrives(d) PROVE AllowedInv'
  BY <1>11 DEF ByeArrives, Goto, peerVars, workerVars, dialVars
<1>12. ASSUME NEW d \in Dials, NEW k \in Ids, NEW pw \in {"session", "unattended"}, Dial(d, k, pw) PROVE AllowedInv'
  BY <1>12 DEF Dial, Goto, peerVars, workerVars
<1>13. ASSUME NEW w \in Workers, Attach(w) PROVE AllowedInv'
  BY <1>13 DEF Attach, Goto, peerVars, dialVars
<1>14. ASSUME NEW w \in Workers, Detach(w) PROVE AllowedInv'
  BY <1>14 DEF Detach, Goto, peerVars, dialVars
<1>15. ASSUME NEW w \in Workers, NEW k \in Ids, DropNext(w, k) PROVE AllowedInv'
  BY <1>15 DEF DropNext, Goto, peerVars, dialVars
<1>16. ASSUME NEW w \in Workers, NEW S \in SUBSET Ids, HangUp(w, S) PROVE AllowedInv'
  BY <1>16 DEF HangUp, peerVars, dialVars, threadVars
<1>17. CASE UNCHANGED vars
  BY <1>17 DEF vars, threadVars, peerVars, workerVars, dialVars
<1> QED
  BY <1>1, <1>2, <1>3, <1>4, <1>5, <1>6, <1>7, <1>8, <1>9, <1>10, <1>11, <1>12, <1>13, <1>14, <1>15, <1>16, <1>17 DEF Next, DropPeer, Handler, DropAll, Listed

LEMMA PasswordStep == SessionsInv /\ [Next]_vars => EndedPasswordRetired'
<1> SUFFICES ASSUME SessionsInv, [Next]_vars PROVE EndedPasswordRetired'
  OBVIOUS
<1> USE SessionAssumption, ThreadFacts DEF SessionsInv, TypeOK, ThreadInv, EnterInv, EndedPasswordRetired, Rotating, Listed
<1>1. ASSUME NEW t \in Thread, Remove(t) PROVE EndedPasswordRetired'
  <2>1. CASE peers[key[t]] = None
    BY <1>1, <2>1 DEF Remove, Goto, workerVars, dialVars
  <2>2. CASE peers[key[t]] # None /\ Listed = {key[t]}
    BY <1>1, <2>2, ZenonT(60) DEF Remove, Goto, workerVars, dialVars
  <2>3. ASSUME peers[key[t]] # None, Listed # {key[t]} PROVE EndedPasswordRetired'
    <3>1. PICK k \in Ids : peers[k] # None /\ k # key[t]
      BY <1>1, <2>3 DEF Remove
    <3>2. peers'[k] = peers[k]
      BY <1>1, <2>3, <3>1 DEF Remove
    <3> QED
      BY <3>1, <3>2
  <2> QED
    BY <2>1, <2>2, <2>3
<1>2. ASSUME NEW t \in Thread, Count(t) PROVE EndedPasswordRetired'
  BY <1>2 DEF Count, Goto, peerVars, workerVars, dialVars, Dropping
<1>3. ASSUME NEW t \in Thread, Tell(t) PROVE EndedPasswordRetired'
  BY <1>3 DEF Tell, Goto, peerVars, dialVars, Dropping
<1>4. ASSUME NEW t \in Thread, Rotate(t) PROVE EndedPasswordRetired'
  BY <1>4 DEF Rotate, Goto, peerVars, workerVars, Dropping
<1>5. ASSUME NEW d \in Dials, Refuse(d) PROVE EndedPasswordRetired'
  BY <1>5 DEF Refuse, Goto, peerVars, workerVars, dialVars, Dropping
<1>6. ASSUME NEW d \in Dials, NEW l \in Levels, Admit(d, l) PROVE EndedPasswordRetired'
  BY <1>6 DEF Admit, Goto, peerVars, workerVars, Dropping
<1>7. ASSUME NEW d \in Dials, Insert(d) PROVE EndedPasswordRetired'
  BY <1>7 DEF Insert, Goto, workerVars, dialVars, Dropping
<1>8. ASSUME NEW d \in Dials, NewPeerFails(d) PROVE EndedPasswordRetired'
  BY <1>8 DEF NewPeerFails, Announce, Goto, peerVars, workerVars, dialVars, Dropping
<1>9. ASSUME NEW d \in Dials, Offer(d) PROVE EndedPasswordRetired'
  BY <1>9 DEF Offer, Announce, Goto, peerVars, workerVars, dialVars, Dropping
<1>10. ASSUME NEW d \in Dials, Failed(d) PROVE EndedPasswordRetired'
  BY <1>10 DEF Failed, Announce, Goto, peerVars, workerVars, dialVars, Dropping
<1>11. ASSUME NEW d \in Dials, ByeArrives(d) PROVE EndedPasswordRetired'
  BY <1>11 DEF ByeArrives, Goto, peerVars, workerVars, dialVars, Dropping
<1>12. ASSUME NEW d \in Dials, NEW k \in Ids, NEW pw \in {"session", "unattended"}, Dial(d, k, pw) PROVE EndedPasswordRetired'
  BY <1>12 DEF Dial, Goto, peerVars, workerVars, Dropping
<1>13. ASSUME NEW w \in Workers, Attach(w) PROVE EndedPasswordRetired'
  BY <1>13 DEF Attach, Goto, peerVars, dialVars, Dropping
<1>14. ASSUME NEW w \in Workers, Detach(w) PROVE EndedPasswordRetired'
  BY <1>14 DEF Detach, Goto, peerVars, dialVars, Dropping
<1>15. ASSUME NEW w \in Workers, NEW k \in Ids, DropNext(w, k) PROVE EndedPasswordRetired'
  BY <1>15 DEF DropNext, Goto, peerVars, dialVars, Dropping
<1>16. ASSUME NEW w \in Workers, NEW S \in SUBSET Ids, HangUp(w, S) PROVE EndedPasswordRetired'
  BY <1>16 DEF HangUp, peerVars, dialVars, threadVars, Dropping
<1>17. CASE UNCHANGED vars
  BY <1>17 DEF vars, threadVars, peerVars, workerVars, dialVars, Dropping
<1> QED
  BY <1>1, <1>2, <1>3, <1>4, <1>5, <1>6, <1>7, <1>8, <1>9, <1>10, <1>11, <1>12, <1>13, <1>14, <1>15, <1>16, <1>17 DEF Next, DropPeer, Handler, DropAll, Listed

LEMMA PeerStep == SessionsInv /\ [Next]_vars => NoPeerLost'
<1> SUFFICES ASSUME SessionsInv, [Next]_vars PROVE NoPeerLost'
  OBVIOUS
<1> USE SessionAssumption, ThreadFacts DEF SessionsInv, TypeOK, ThreadInv, EnterInv, SoloInv, FreeInv, NoPeerLost, Who, Handling
<1>1. ASSUME NEW t \in Thread, Remove(t) PROVE NoPeerLost'
  BY <1>1 DEF Remove, Goto, workerVars, dialVars, Cleared, Replacing, Dropping
<1>2. ASSUME NEW t \in Thread, Count(t) PROVE NoPeerLost'
  BY <1>2 DEF Count, Goto, peerVars, workerVars, dialVars, Cleared, Replacing, Dropping
<1>3. ASSUME NEW t \in Thread, Tell(t) PROVE NoPeerLost'
  BY <1>3 DEF Tell, Goto, peerVars, dialVars, Cleared, Replacing, Dropping
<1>4. ASSUME NEW t \in Thread, Rotate(t) PROVE NoPeerLost'
  BY <1>4 DEF Rotate, Goto, peerVars, workerVars, Cleared, Replacing, Dropping
<1>5. ASSUME NEW d \in Dials, Refuse(d) PROVE NoPeerLost'
  BY <1>5 DEF Refuse, Goto, peerVars, workerVars, dialVars, Cleared, Replacing, Dropping
<1>6. ASSUME NEW d \in Dials, NEW l \in Levels, Admit(d, l) PROVE NoPeerLost'
  BY <1>6 DEF Admit, Goto, peerVars, workerVars, Cleared, Replacing, Dropping
<1>7. ASSUME NEW d \in Dials, Insert(d) PROVE NoPeerLost'
  BY <1>7 DEF Insert, Goto, workerVars, dialVars, Cleared, Replacing, Dropping
<1>8. ASSUME NEW d \in Dials, NewPeerFails(d) PROVE NoPeerLost'
  BY <1>8 DEF NewPeerFails, Announce, Goto, peerVars, workerVars, dialVars, Cleared, Replacing, Dropping
<1>9. ASSUME NEW d \in Dials, Offer(d) PROVE NoPeerLost'
  BY <1>9 DEF Offer, Announce, Goto, peerVars, workerVars, dialVars, Cleared, Replacing, Dropping
<1>10. ASSUME NEW d \in Dials, Failed(d) PROVE NoPeerLost'
  BY <1>10 DEF Failed, Announce, Goto, peerVars, workerVars, dialVars, Cleared, Replacing, Dropping
<1>11. ASSUME NEW d \in Dials, ByeArrives(d) PROVE NoPeerLost'
  BY <1>11 DEF ByeArrives, Goto, peerVars, workerVars, dialVars, Cleared, Replacing, Dropping
<1>12. ASSUME NEW d \in Dials, NEW k \in Ids, NEW pw \in {"session", "unattended"}, Dial(d, k, pw) PROVE NoPeerLost'
  BY <1>12 DEF Dial, Goto, peerVars, workerVars, Cleared, Replacing, Dropping
<1>13. ASSUME NEW w \in Workers, Attach(w) PROVE NoPeerLost'
  BY <1>13 DEF Attach, Goto, peerVars, dialVars, Cleared, Replacing, Dropping
<1>14. ASSUME NEW w \in Workers, Detach(w) PROVE NoPeerLost'
  BY <1>14 DEF Detach, Goto, peerVars, dialVars, Cleared, Replacing, Dropping
<1>15. ASSUME NEW w \in Workers, NEW k \in Ids, DropNext(w, k) PROVE NoPeerLost'
  BY <1>15 DEF DropNext, Goto, peerVars, dialVars, Cleared, Replacing, Dropping
<1>16. ASSUME NEW w \in Workers, NEW S \in SUBSET Ids, HangUp(w, S) PROVE NoPeerLost'
  BY <1>16 DEF HangUp, peerVars, dialVars, threadVars, Cleared, Replacing, Dropping
<1>17. CASE UNCHANGED vars
  BY <1>17 DEF vars, threadVars, peerVars, workerVars, dialVars, Cleared, Replacing, Dropping
<1> QED
  BY <1>1, <1>2, <1>3, <1>4, <1>5, <1>6, <1>7, <1>8, <1>9, <1>10, <1>11, <1>12, <1>13, <1>14, <1>15, <1>16, <1>17 DEF Next, DropPeer, Handler, DropAll, Listed

LEMMA GrantStep == SessionsInv /\ [Next]_vars => GrantIsThePeers'
<1> SUFFICES ASSUME SessionsInv, [Next]_vars PROVE GrantIsThePeers'
  OBVIOUS
<1> USE SessionAssumption, ThreadFacts DEF SessionsInv, TypeOK, ThreadInv, EnterInv, SoloInv, FreeInv, AllowedInv, GrantIsThePeers, Who, Handling
<1>1. ASSUME NEW t \in Thread, Remove(t) PROVE GrantIsThePeers'
  <2> SUFFICES ASSUME NEW k \in Ids \ mixed', peers'[k] # None,
                      ~(\E d \in Dials : (Who(d) = k /\ Replacing(d))')
               PROVE  allowed'[k] = level'[peers'[k]]
    BY DEF GrantIsThePeers
  <2>1. key[t] \in Ids /\ peers \in [Ids -> Dials \cup {None}]
    BY <1>1 DEF Remove
  <2>2. /\ mixed' = mixed /\ allowed' = allowed /\ level' = level /\ key' = key /\ back' = back
        /\ peers' = peers \/ peers' = [peers EXCEPT ![key[t]] = None]
    BY ONLY <1>1 DEF Remove, dialVars
  <2>3. peers'[k] = peers[k] /\ peers[k] # None
    BY ONLY <2>1, <2>2, peers'[k] # None, k \in Ids \ mixed'
  <2>4. \A d \in Dials : Replacing(d) => Replacing(d)'
    <3> SUFFICES ASSUME NEW d \in Dials, Replacing(d) PROVE Replacing(d)'
      OBVIOUS
    <3>1. CASE t = Connect(d)
      BY <1>1, <3>1, <2>2 DEF Remove, Goto, Replacing, Dropping
    <3>2. CASE t # Connect(d)
      BY <1>1, <3>2, <2>2 DEF Remove, Goto, Replacing, Dropping
    <3> QED
      BY <3>1, <3>2
  <2>5. \A d \in Dials : Who(d)' = Who(d)
    BY ONLY <2>2 DEF Who
  <2>6. ~(\E d \in Dials : Who(d) = k /\ Replacing(d))
    BY ONLY <2>4, <2>5, ~(\E d \in Dials : (Who(d) = k /\ Replacing(d))')
  <2> QED
    BY <2>2, <2>3, <2>6
<1>2. ASSUME NEW t \in Thread, Count(t) PROVE GrantIsThePeers'
  BY <1>2 DEF Count, Goto, peerVars, workerVars, dialVars, Cleared, Replacing, Dropping
<1>3. ASSUME NEW t \in Thread, Tell(t) PROVE GrantIsThePeers'
  BY <1>3 DEF Tell, Goto, peerVars, dialVars, Cleared, Replacing, Dropping
<1>4. ASSUME NEW t \in Thread, Rotate(t) PROVE GrantIsThePeers'
  BY <1>4 DEF Rotate, Goto, peerVars, workerVars, Cleared, Replacing, Dropping
<1>5. ASSUME NEW d \in Dials, Refuse(d) PROVE GrantIsThePeers'
  BY <1>5 DEF Refuse, Goto, peerVars, workerVars, dialVars, Cleared, Replacing, Dropping
<1>6. ASSUME NEW d \in Dials, NEW l \in Levels, Admit(d, l) PROVE GrantIsThePeers'
  BY <1>6 DEF Admit, Goto, peerVars, workerVars, Cleared, Replacing, Dropping
<1>7. ASSUME NEW d \in Dials, Insert(d) PROVE GrantIsThePeers'
  BY <1>7 DEF Insert, Goto, workerVars, dialVars, Cleared, Replacing, Dropping
<1>8. ASSUME NEW d \in Dials, NewPeerFails(d) PROVE GrantIsThePeers'
  BY <1>8 DEF NewPeerFails, Announce, Goto, peerVars, workerVars, dialVars, Cleared, Replacing, Dropping
<1>9. ASSUME NEW d \in Dials, Offer(d) PROVE GrantIsThePeers'
  BY <1>9 DEF Offer, Announce, Goto, peerVars, workerVars, dialVars, Cleared, Replacing, Dropping
<1>10. ASSUME NEW d \in Dials, Failed(d) PROVE GrantIsThePeers'
  BY <1>10 DEF Failed, Announce, Goto, peerVars, workerVars, dialVars, Cleared, Replacing, Dropping
<1>11. ASSUME NEW d \in Dials, ByeArrives(d) PROVE GrantIsThePeers'
  BY <1>11 DEF ByeArrives, Goto, peerVars, workerVars, dialVars, Cleared, Replacing, Dropping
<1>12. ASSUME NEW d \in Dials, NEW k \in Ids, NEW pw \in {"session", "unattended"}, Dial(d, k, pw) PROVE GrantIsThePeers'
  BY <1>12 DEF Dial, Goto, peerVars, workerVars, Cleared, Replacing, Dropping
<1>13. ASSUME NEW w \in Workers, Attach(w) PROVE GrantIsThePeers'
  BY <1>13 DEF Attach, Goto, peerVars, dialVars, Cleared, Replacing, Dropping
<1>14. ASSUME NEW w \in Workers, Detach(w) PROVE GrantIsThePeers'
  BY <1>14 DEF Detach, Goto, peerVars, dialVars, Cleared, Replacing, Dropping
<1>15. ASSUME NEW w \in Workers, NEW k \in Ids, DropNext(w, k) PROVE GrantIsThePeers'
  BY <1>15 DEF DropNext, Goto, peerVars, dialVars, Cleared, Replacing, Dropping
<1>16. ASSUME NEW w \in Workers, NEW S \in SUBSET Ids, HangUp(w, S) PROVE GrantIsThePeers'
  BY <1>16 DEF HangUp, peerVars, dialVars, threadVars, Cleared, Replacing, Dropping
<1>17. CASE UNCHANGED vars
  BY <1>17 DEF vars, threadVars, peerVars, workerVars, dialVars, Cleared, Replacing, Dropping
<1> QED
  BY <1>1, <1>2, <1>3, <1>4, <1>5, <1>6, <1>7, <1>8, <1>9, <1>10, <1>11, <1>12, <1>13, <1>14, <1>15, <1>16, <1>17 DEF Next, DropPeer, Handler, DropAll, Listed

LEMMA SessionsInvariant == Spec => []SessionsInv
<1>1. SessionsInv /\ [Next]_vars => SessionsInv'
  BY SessionsTypeStep, ThreadStep, EnterStep, SoloStep, FreeStep, AllowedStep, PasswordStep, PeerStep,
     GrantStep DEF SessionsInv
<1> QED
  BY SessionsInit, <1>1, PTL DEF Spec

\* Every variable of the host's sessions keeps its type.
THEOREM SessionsTypeCorrect == Spec => []TypeOK
BY SessionsInvariant, PTL DEF SessionsInv

\* Once the last viewer is gone and its password rotated, the relay takes no password that a session
\* was entered with, however many threads drop, replace and rotate at once (transport.go:676-692,
\* 873-895).
THEOREM SessionsPasswordRetired == Spec => []EndedPasswordRetired
BY SessionsInvariant, PTL DEF SessionsInv

\* Under an id whose dials come one at a time no open peer is missing from the map
\* (transport.go:341-360, 873-883).
THEOREM SessionsNoPeerLost == Spec => []NoPeerLost
BY SessionsInvariant, PTL DEF SessionsInv

\* Under such an id the access that is enforced is what the listed peer was granted
\* (transport.go:331-335, 586-591).
THEOREM SessionsGrantIsThePeers == Spec => []GrantIsThePeers
BY SessionsInvariant, PTL DEF SessionsInv
=============================================================================
