---------------------------- MODULE HostSessions ---------------------------
(***************************************************************************)
(* The sessions of the host's transport process                            *)
(* (agent/session/transport.go): the peers, what each id is granted, what  *)
(* the capture worker is told of them, and how the session password is     *)
(* retired.  A thread is the goroutine of one connect or one bye (the      *)
(* signaling client starts one for every message, so they overtake each    *)
(* other), or the reader of one worker link.  It is cut wherever the code  *)
(* takes a lock, sends or waits.                                           *)
(*                                                                         *)
(* How a dial is decided is ConsentGate; here the decision comes at any    *)
(* time, with any outcome.                                                 *)
(***************************************************************************)
EXTENDS Integers, FiniteSets

CONSTANTS Ids,         \* the ids viewers are known by at the host
          Dials,       \* the connects that reach the host
          Workers,     \* the capture workers, each attached once
          Levels,      \* what a viewer may be granted: control, or to view only
          MaxHangUps,  \* bound on the host user's "end session"
          None

ASSUME SessionAssumption == /\ MaxHangUps \in Nat
                            /\ None \notin Ids \cup Dials \cup Workers
                            /\ IsFiniteSet(Ids)

VARIABLES
  place, back, key,   \* per thread: its next step, the step after dropPeer, the id dropPeer gets
  last, seen,         \* its locals: a rotation is due, the count it read
  peers,              \* Transport.peers
  open,               \* the peers not closed
  allowed,            \* Transport.controlAllowed
  worker,             \* Transport.worker
  told,               \* the viewer count the current worker was last told
  doomed, hangups,    \* the ids a hang-up has still to drop; hang-ups so far
  login, level,       \* per dial: the password it used, and what it is granted
  entered, mixed      \* history: dials that became peers; ids whose dials have overlapped

threadVars == <<place, back, key, last, seen>>
peerVars   == <<peers, open, entered>>
workerVars == <<worker, told, doomed, hangups>>
dialVars   == <<login, level, mixed>>
vars       == <<threadVars, peerVars, workerVars, dialVars, allowed>>

Connect(d) == <<"connect", d>>
Bye(d)     == <<"bye", d>>
Reader(w)  == <<"worker", w>>
Thread     == ({"connect", "bye"} \X Dials) \cup ({"worker"} \X Workers)

\* A session password is new every time, so all that matters of one is whether the relay still takes it.
Logins == {"none", "unattended", "session", "retired"}
Place  == {"none", "decide", "drop", "insert", "offer", "failed", "count", "tell", "rotate",
           "serve", "done"}

Who(d)      == key[Connect(d)]
Handling(d) == place[Connect(d)] \notin {"none", "done"}
Listed      == {k \in Ids : peers[k] # None}

Goto(t, p) == place' = [place EXCEPT ![t] = p]

Init ==
  /\ place = [t \in Thread |-> "none"]
  /\ back = [t \in Thread |-> "done"]
  /\ key = [t \in Thread |-> None]
  /\ last = [t \in Thread |-> FALSE]
  /\ seen = [t \in Thread |-> 0]
  /\ peers = [k \in Ids |-> None] /\ open = {} /\ entered = {}
  /\ allowed = [k \in Ids |-> None]
  /\ worker = None /\ told = 0
  /\ doomed = [w \in Workers |-> {}] /\ hangups = 0
  /\ login = [d \in Dials |-> "none"] /\ level = [d \in Dials |-> None] /\ mixed = {}

-----------------------------------------------------------------------------
\* The relay lets a viewer in, by the session password it checks at that moment or by the unattended
\* one, and forwards the connect.
Dial(d, k, pw) ==
  /\ place[Connect(d)] = "none"
  /\ Goto(Connect(d), "decide")
  /\ key' = [key EXCEPT ![Connect(d)] = k, ![Bye(d)] = k]
  /\ login' = [login EXCEPT ![d] = pw]
  /\ mixed' = IF \E e \in Dials : Who(e) = k /\ Handling(e) THEN mixed \cup {k} ELSE mixed
  /\ UNCHANGED <<back, last, seen, peerVars, workerVars, level, allowed>>

-----------------------------------------------------------------------------
\* onConnect

\* Mutant of Admit: a stale session is not dropped first.
AdmitOver(d, l) ==
  /\ place[Connect(d)] = "decide"
  /\ level' = [level EXCEPT ![d] = l]
  /\ allowed' = [allowed EXCEPT ![Who(d)] = l]
  /\ Goto(Connect(d), "insert")
  /\ UNCHANGED <<back, key, last, seen, peerVars, workerVars, login, mixed>>

\* Mutant of Admit: an id that has a grant keeps it.
AdmitKeepingGrant(d, l) ==
  /\ place[Connect(d)] = "decide"
  /\ level' = [level EXCEPT ![d] = l]
  /\ allowed' = [allowed EXCEPT ![Who(d)] = IF @ = None THEN l ELSE @]
  /\ back' = [back EXCEPT ![Connect(d)] = "insert"]
  /\ Goto(Connect(d), "drop")
  /\ UNCHANGED <<key, last, seen, peerVars, workerVars, login, mixed>>

\* Unattended, prompts off, or approved, at the level of the profile or of the person's answer.  The
\* grant is recorded under the id; then a stale session of the id is dropped.
Admit(d, l) ==
  /\ place[Connect(d)] = "decide"
  /\ level' = [level EXCEPT ![d] = l]
  /\ allowed' = [allowed EXCEPT ![Who(d)] = l]
  /\ back' = [back EXCEPT ![Connect(d)] = "insert"]
  /\ Goto(Connect(d), "drop")
  /\ UNCHANGED <<key, last, seen, peerVars, workerVars, login, mixed>>

\* Interactive access is off, or nobody said yes; an unattended login is not asked about.
Refuse(d) ==
  /\ place[Connect(d)] = "decide" /\ login[d] # "unattended"
  /\ Goto(Connect(d), "done")
  /\ UNCHANGED <<back, key, last, seen, peerVars, workerVars, dialVars, allowed>>

Insert(d) ==
  /\ place[Connect(d)] = "insert"
  /\ peers' = [peers EXCEPT ![Who(d)] = d]
  /\ open' = open \cup {d} /\ entered' = entered \cup {d}
  /\ Goto(Connect(d), "offer")
  /\ UNCHANGED <<back, key, last, seen, workerVars, dialVars, allowed>>

\* announceSessionState is deferred: it is made however onConnect ends.
Announce(d) == Goto(Connect(d), "count") /\ back' = [back EXCEPT ![Connect(d)] = "done"]

NewPeerFails(d) ==
  /\ place[Connect(d)] = "insert"
  /\ Announce(d)
  /\ UNCHANGED <<key, last, seen, peerVars, workerVars, dialVars, allowed>>

\* CreateAgentOffer: when it fails the peer is dropped again.
Offer(d) ==
  /\ place[Connect(d)] = "offer"
  /\ \/ Announce(d)
     \/ Goto(Connect(d), "drop") /\ back' = [back EXCEPT ![Connect(d)] = "failed"]
  /\ UNCHANGED <<key, last, seen, peerVars, workerVars, dialVars, allowed>>

Failed(d) ==
  /\ place[Connect(d)] = "failed"
  /\ Announce(d)
  /\ UNCHANGED <<key, last, seen, peerVars, workerVars, dialVars, allowed>>

-----------------------------------------------------------------------------
\* dropPeer, announceSessionState and rotateSessionPassword

\* Mutant of Remove: what remains is counted before the delete.
RemoveCountingFirst(t) ==
  /\ place[t] = "drop"
  /\ IF peers[key[t]] = None
     THEN Goto(t, back[t]) /\ UNCHANGED <<last, peers, open>>
     ELSE /\ peers' = [peers EXCEPT ![key[t]] = None]
          /\ open' = open \ {peers[key[t]]}
          /\ last' = [last EXCEPT ![t] = Listed = {}]
          /\ Goto(t, "count")
  /\ UNCHANGED <<back, key, seen, entered, workerVars, dialVars, allowed>>

\* The peer listed under the id leaves the map and is closed, whoever put it there.
Remove(t) ==
  /\ place[t] = "drop"
  /\ IF peers[key[t]] = None
     THEN Goto(t, back[t]) /\ UNCHANGED <<last, peers, open>>
     ELSE /\ peers' = [peers EXCEPT ![key[t]] = None]
          /\ open' = open \ {peers[key[t]]}
          /\ last' = [last EXCEPT ![t] = Listed = {key[t]}]
          /\ Goto(t, "count")
  /\ UNCHANGED <<back, key, seen, entered, workerVars, dialVars, allowed>>

\* announceSessionState: the peers are counted under their lock, and written to the worker later.
Count(t) ==
  /\ place[t] = "count"
  /\ seen' = [seen EXCEPT ![t] = Cardinality(Listed)]
  /\ Goto(t, "tell")
  /\ UNCHANGED <<back, key, last, peerVars, workerVars, dialVars, allowed>>

Tell(t) ==
  /\ place[t] = "tell"
  /\ told' = IF worker = None THEN 0 ELSE seen[t]
  /\ seen' = [seen EXCEPT ![t] = 0]
  /\ Goto(t, IF last[t] THEN "rotate" ELSE back[t])
  /\ UNCHANGED <<back, key, last, peerVars, worker, doomed, hangups, dialVars,
                 allowed>>

\* A new session password, and the host registers again with it: the one the relay took is retired.
Rotate(t) ==
  /\ place[t] = "rotate"
  /\ login' = [d \in Dials |-> IF login[d] = "session" THEN "retired" ELSE login[d]]
  /\ last' = [last EXCEPT ![t] = FALSE]
  /\ Goto(t, back[t])
  /\ UNCHANGED <<back, key, seen, peerVars, workerVars, level, mixed, allowed>>

-----------------------------------------------------------------------------
\* MsgBye, sent by the relay when the viewer ends or is gone
ByeArrives(d) ==
  /\ place[Bye(d)] = "none" /\ place[Connect(d)] # "none"
  /\ Goto(Bye(d), "drop")
  /\ UNCHANGED <<back, key, last, seen, peerVars, workerVars, dialVars, allowed>>

-----------------------------------------------------------------------------
\* handleWorker

\* A new worker takes the place of the one before, and is told how many viewers there are.
Attach(w) ==
  /\ place[Reader(w)] = "none"
  /\ worker' = w /\ told' = 0
  /\ Goto(Reader(w), "count")
  /\ back' = [back EXCEPT ![Reader(w)] = "serve"]
  /\ UNCHANGED <<key, last, seen, peerVars, doomed, hangups, dialVars, allowed>>

\* KindEndSession: for one viewer, or dropAllPeers for all that are listed.
HangUp(w, S) ==
  /\ place[Reader(w)] = "serve" /\ doomed[w] = {} /\ S # {} /\ hangups < MaxHangUps
  /\ doomed' = [doomed EXCEPT ![w] = S]
  /\ hangups' = hangups + 1
  /\ UNCHANGED <<threadVars, peerVars, worker, told, dialVars, allowed>>

DropNext(w, k) ==
  /\ place[Reader(w)] = "serve" /\ k \in doomed[w]
  /\ doomed' = [doomed EXCEPT ![w] = @ \ {k}]
  /\ key' = [key EXCEPT ![Reader(w)] = k]
  /\ Goto(Reader(w), "drop")
  /\ UNCHANGED <<back, last, seen, peerVars, worker, told, hangups, dialVars, allowed>>

Detach(w) ==
  /\ place[Reader(w)] = "serve" /\ doomed[w] = {}
  /\ IF worker = w THEN worker' = None /\ told' = 0 ELSE UNCHANGED <<worker, told>>
  /\ Goto(Reader(w), "done")
  /\ UNCHANGED <<back, key, last, seen, peerVars, doomed, hangups, dialVars, allowed>>

-----------------------------------------------------------------------------
DropPeer(t) == Remove(t) \/ Count(t) \/ Tell(t) \/ Rotate(t)

Handler(d) == \/ Refuse(d) \/ \E l \in Levels : Admit(d, l)
              \/ Insert(d) \/ NewPeerFails(d) \/ Offer(d) \/ Failed(d)

DropAll(w) == \E k \in Ids : DropNext(w, k)

Next ==
  \/ \E t \in Thread : DropPeer(t)
  \/ \E d \in Dials : \/ Handler(d) \/ ByeArrives(d)
                      \/ \E k \in Ids, pw \in {"session", "unattended"} : Dial(d, k, pw)
  \/ \E w \in Workers : \/ Attach(w) \/ Detach(w) \/ DropAll(w)
                        \/ \E S \in {Listed} \cup {{k} : k \in Listed} : HangUp(w, S)

Spec == Init /\ [][Next]_vars

-----------------------------------------------------------------------------
\* Every variable holds a value of its type (the fields and locals of transport.go).
TypeOK ==
  /\ place \in [Thread -> Place] /\ back \in [Thread -> Place]
  /\ key \in [Thread -> Ids \cup {None}]
  /\ last \in [Thread -> BOOLEAN] /\ seen \in [Thread -> Nat]
  /\ peers \in [Ids -> Dials \cup {None}] /\ open \subseteq Dials /\ entered \subseteq Dials
  /\ allowed \in [Ids -> Levels \cup {None}]
  /\ worker \in Workers \cup {None} /\ told \in Nat
  /\ doomed \in [Workers -> SUBSET Ids] /\ hangups \in 0..MaxHangUps
  /\ login \in [Dials -> Logins] /\ level \in [Dials -> Levels \cup {None}] /\ mixed \subseteq Ids

\* A password read out for one session cannot be used after it: when no peer is left and no rotation
\* is under way, no session was entered with the password the relay takes now, however drops,
\* replacements and rotations overlap (dropPeer, rotateSessionPassword).
Rotating(t) == last[t] /\ place[t] \in {"count", "tell", "rotate"}
EndedPasswordRetired ==
  Listed = {} /\ (\A t \in Thread : ~Rotating(t)) => \A d \in entered : login[d] # "session"

\* While the dials of an id come one at a time, whatever byes, hang-ups and worker swaps do meanwhile,
\* an open peer is the one listed under its id: it gets frames and can be dropped (onConnect).
NoPeerLost == \A d \in open : Who(d) \notin mixed => peers[Who(d)] = d

\* While the dials of an id come one at a time, what the id may do is what was granted to the peer
\* listed under it, except while the next dial is replacing it (onConnect, viewerMayControl).
Dropping(t)  == place[t] \in {"drop", "count", "tell", "rotate"}
Replacing(d) == \/ place[Connect(d)] = "insert"
                \/ Dropping(Connect(d)) /\ back[Connect(d)] = "insert"
GrantIsThePeers ==
  \A k \in Ids \ mixed :
    peers[k] # None /\ ~(\E d \in Dials : Who(d) = k /\ Replacing(d)) => allowed[k] = level[peers[k]]

\* A worker has been told of the session as it is once nothing is going on (handleWorker: "It must
\* also be TOLD the current session state").
Quiet == \A t \in Thread : place[t] \in {"none", "decide", "serve", "done"}
WorkerKnowsSession == worker # None /\ Quiet => told = Cardinality(Listed)
=============================================================================
