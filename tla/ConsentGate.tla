---------------------------- MODULE ConsentGate ----------------------------
(***************************************************************************)
(* How the host's transport process asks the person at the host about a    *)
(* viewer (agent/session/transport.go: askConsent, deliverConsent,         *)
(* cancelConsent and the bye handler), with the capture worker that shows  *)
(* the prompt.  A dial here is a connect that is asked about.              *)
(*                                                                         *)
(* Waiters, answers and windows are found by the viewer's id, and several  *)
(* dials can have the same id at once: the relay gives every viewer of a   *)
(* host the same one, and a viewer may leave and dial again.  Every        *)
(* message from the relay is handled in a goroutine of its own, so the bye *)
(* of a dial may be handled at any time after the dial was sent.           *)
(***************************************************************************)
EXTENDS Naturals

CONSTANTS Ids,      \* the ids viewers are known by at the host
          Dials,    \* the connects that are asked about
          Workers,  \* the capture workers, each attached once
          None

ASSUME ConsentAssumption == None \notin Ids \cup Dials \cup Workers

VARIABLES
  who,      \* the id a dial came with
  place,    \* the next step of its handler
  bye,      \* the next step of the handler of its viewer's bye
  waiters,  \* Transport.consentWaiters: whose channel is found under an id
  says,     \* what the channel of a dial received, and ...
  of,       \* ... the dial whose prompt was answered
  worker,   \* Transport.worker
  link,     \* the links of the workers
  prompt,   \* the prompt of a dial: sent to the worker, up, answered, read
  home,     \* the worker it was sent to
  window    \* a worker's map from ids to the window that is up

gateVars == <<waiters, says, of>>
linkVars == <<worker, link>>
vars     == <<who, place, bye, gateVars, linkVars, prompt, home, window>>

\* The level of an allowed dial, full control or view only, matters to HostSessions.
Answers == {"allow", "deny"}

Goto(d, p) == place' = [place EXCEPT ![d] = p]

Init ==
  /\ who = [d \in Dials |-> None]
  /\ place = [d \in Dials |-> "none"]
  /\ bye = [d \in Dials |-> "none"]
  /\ waiters = [k \in Ids |-> None]
  /\ says = [d \in Dials |-> "none"] /\ of = [d \in Dials |-> None]
  /\ worker = None /\ link = [w \in Workers |-> "new"]
  /\ prompt = [d \in Dials |-> "none"] /\ home = [d \in Dials |-> None]
  /\ window = [w \in Workers |-> [k \in Ids |-> None]]

-----------------------------------------------------------------------------
\* onConnect and askConsent

\* The relay forwards a connect.
Dial(d, k) ==
  /\ place[d] = "none"
  /\ Goto(d, "register")
  /\ who' = [who EXCEPT ![d] = k]
  /\ UNCHANGED <<bye, gateVars, linkVars, prompt, home, window>>

\* The waiter takes the place of one that an earlier dial left under the id.
Register(d) ==
  /\ place[d] = "register"
  /\ waiters' = [waiters EXCEPT ![who[d]] = d]
  /\ Goto(d, "ask")
  /\ UNCHANGED <<who, bye, says, of, linkVars, prompt, home, window>>

\* Without a worker, or when its link breaks on the request, there is nobody to ask.
AskWorker(d) ==
  /\ place[d] = "ask"
  /\ \/ Goto(d, "quit") /\ UNCHANGED <<prompt, home>>
     \/ /\ worker # None
        /\ Goto(d, "waiting")
        /\ prompt' = [prompt EXCEPT ![d] = "sent"]
        /\ home' = [home EXCEPT ![d] = worker]
  /\ UNCHANGED <<who, bye, gateVars, linkVars, window>>

TakeAnswer(d) ==
  /\ place[d] = "waiting" /\ says[d] # "none"
  /\ Goto(d, "answered")
  /\ UNCHANGED <<who, bye, gateVars, linkVars, prompt, home, window>>

\* Mutant of GiveUp: the wait ends only with the worker.
GiveUpWithWorker(d) ==
  /\ place[d] = "waiting" /\ worker = None
  /\ Goto(d, "quit")
  /\ UNCHANGED <<who, bye, gateVars, linkVars, prompt, home, window>>

\* Thirty seconds have passed.
GiveUp(d) ==
  /\ place[d] = "waiting"
  /\ Goto(d, "quit")
  /\ UNCHANGED <<who, bye, gateVars, linkVars, prompt, home, window>>

\* Mutant of StopWaiting: the clean-up clears the whole map.
StopAllWaiting(d) ==
  /\ place[d] \in {"answered", "quit"}
  /\ waiters' = [k \in Ids |-> None]
  /\ Goto(d, IF place[d] = "quit" THEN "withdraw"
             ELSE IF says[d] = "allow" THEN "admitted" ELSE "refused")
  /\ UNCHANGED <<who, bye, says, of, linkVars, prompt, home, window>>

\* The deferred delete removes whatever waiter the id has, and the outcome is acted on.
StopWaiting(d) ==
  /\ place[d] \in {"answered", "quit"}
  /\ waiters' = [waiters EXCEPT ![who[d]] = None]
  /\ Goto(d, IF place[d] = "quit" THEN "withdraw"
             ELSE IF says[d] = "allow" THEN "admitted" ELSE "refused")
  /\ UNCHANGED <<who, bye, says, of, linkVars, prompt, home, window>>

\* cancelConsent: the current worker closes the window it has for the id, if it has one; a closed
\* window counts as a refusal, and that answer is sent like any other.
CancelPrompt(k) ==
  IF worker # None /\ window[worker][k] # None
  THEN /\ prompt' = [prompt EXCEPT ![window[worker][k]] = "deny"]
       /\ window' = [window EXCEPT ![worker][k] = None]
  ELSE UNCHANGED <<prompt, window>>

Withdraw(d) ==
  /\ place[d] = "withdraw"
  /\ CancelPrompt(who[d])
  /\ Goto(d, "refused")
  /\ UNCHANGED <<who, bye, gateVars, linkVars, home>>

-----------------------------------------------------------------------------
\* Mutant of Deliver: everybody who waits under the id gets the answer.
DeliverToAll(k, a, p) ==
  LET heard == {d \in Dials : who[d] = k /\ place[d] = "waiting" /\ says[d] = "none"} IN
  /\ says' = [d \in Dials |-> IF d \in heard THEN a ELSE says[d]]
  /\ of' = [d \in Dials |-> IF d \in heard THEN p ELSE of[d]]

\* deliverConsent: the answer goes to the waiter of the id; its channel holds one.
Deliver(k, a, p) ==
  LET d == waiters[k] IN
  IF d # None /\ says[d] = "none"
  THEN says' = [says EXCEPT ![d] = a] /\ of' = [of EXCEPT ![d] = p]
  ELSE UNCHANGED <<says, of>>

\* MsgBye: a pending prompt is answered with no, and withdrawn.
ByeArrives(d) ==
  /\ bye[d] = "none" /\ place[d] # "none"
  /\ bye' = [bye EXCEPT ![d] = IF waiters[who[d]] # None THEN "deny" ELSE "done"]
  /\ UNCHANGED <<who, place, gateVars, linkVars, prompt, home, window>>

ByeDenies(d) ==
  /\ bye[d] = "deny"
  /\ Deliver(who[d], "deny", None)
  /\ bye' = [bye EXCEPT ![d] = "withdraw"]
  /\ UNCHANGED <<who, place, waiters, linkVars, prompt, home, window>>

ByeWithdraws(d) ==
  /\ bye[d] = "withdraw"
  /\ CancelPrompt(who[d])
  /\ bye' = [bye EXCEPT ![d] = "done"]
  /\ UNCHANGED <<who, place, gateVars, linkVars, home>>

-----------------------------------------------------------------------------
\* The worker, and handleWorker at the other end of its link

Attach(w) ==
  /\ link[w] = "new"
  /\ worker' = w /\ link' = [link EXCEPT ![w] = "up"]
  /\ UNCHANGED <<who, place, bye, gateVars, prompt, home, window>>

\* The link breaks: the prompts and answers still at that worker are lost.
Detach(w) ==
  /\ link[w] = "up"
  /\ worker' = IF worker = w THEN None ELSE worker
  /\ link' = [link EXCEPT ![w] = "down"]
  /\ prompt' = [d \in Dials |-> IF home[d] = w THEN "lost" ELSE prompt[d]]
  /\ window' = [window EXCEPT ![w] = [k \in Ids |-> None]]
  /\ UNCHANGED <<who, place, bye, gateVars, home>>

\* The window of a later prompt is remembered in place of an earlier one of the same id.
Show(d) ==
  /\ prompt[d] = "sent"
  /\ prompt' = [prompt EXCEPT ![d] = "up"]
  /\ window' = [window EXCEPT ![home[d]][who[d]] = d]
  /\ UNCHANGED <<who, place, bye, gateVars, linkVars, home>>

\* A decision remembered for the id answers without a prompt.
Remembered(d, a) ==
  /\ prompt[d] = "sent"
  /\ prompt' = [prompt EXCEPT ![d] = a]
  /\ UNCHANGED <<who, place, bye, gateVars, linkVars, home, window>>

\* The person answers, the window closes, and the worker forgets the window of the id.
Answer(d, a) ==
  /\ prompt[d] = "up"
  /\ prompt' = [prompt EXCEPT ![d] = a]
  /\ window' = [window EXCEPT ![home[d]][who[d]] = None]
  /\ UNCHANGED <<who, place, bye, gateVars, linkVars, home>>

\* KindConsentReply is read, from the current worker or an earlier one.
ReadReply(d) ==
  /\ prompt[d] \in Answers
  /\ Deliver(who[d], prompt[d], d)
  /\ prompt' = [prompt EXCEPT ![d] = "read"]
  /\ UNCHANGED <<who, place, bye, waiters, linkVars, home, window>>

-----------------------------------------------------------------------------
Handler(d) == \/ Register(d) \/ AskWorker(d) \/ TakeAnswer(d) \/ GiveUp(d) \/ StopWaiting(d)
              \/ Withdraw(d)

ByeHandler(d) == ByeDenies(d) \/ ByeWithdraws(d)

Person(d) == \E a \in Answers : Remembered(d, a) \/ Answer(d, a)

Next ==
  \/ \E d \in Dials : \/ Handler(d) \/ ByeHandler(d) \/ Show(d) \/ ReadReply(d) \/ Person(d)
                      \/ \E k \in Ids : Dial(d, k)
                      \/ ByeArrives(d)
  \/ \E w \in Workers : Attach(w) \/ Detach(w)

Spec == /\ Init /\ [][Next]_vars
        /\ \A d \in Dials : WF_vars(Handler(d)) /\ WF_vars(ByeHandler(d)) /\ WF_vars(ReadReply(d))

-----------------------------------------------------------------------------
\* Every variable holds a value of its type (the fields of transport.go and the worker's maps).
TypeOK ==
  /\ who \in [Dials -> Ids \cup {None}]
  /\ place \in [Dials -> {"none", "register", "ask", "waiting", "answered", "quit", "withdraw",
                          "admitted", "refused"}]
  /\ bye \in [Dials -> {"none", "deny", "withdraw", "done"}]
  /\ waiters \in [Ids -> Dials \cup {None}]
  /\ says \in [Dials -> Answers \cup {"none"}] /\ of \in [Dials -> Dials \cup {None}]
  /\ worker \in Workers \cup {None} /\ link \in [Workers -> {"new", "up", "down"}]
  /\ prompt \in [Dials -> Answers \cup {"none", "sent", "up", "read", "lost"}]
  /\ home \in [Dials -> Workers \cup {None}]
  /\ window \in [Workers -> [Ids -> Dials \cup {None}]]

\* Nobody gets in without a person's yes, and one yes admits one viewer: every admitted dial has its
\* own answered prompt, of the same id, however prompts, timeouts, byes and worker swaps overlap
\* (askConsent, deliverConsent).
Admitted == {d \in Dials : place[d] = "admitted"}
OneYesOneViewer ==
  \A d \in Admitted :
    /\ says[d] = "allow" /\ of[d] \in Dials /\ who[of[d]] = who[d]
    /\ \A e \in Admitted : of[e] = of[d] => e = d

\* A dial that is the only one under its id is decided by its own prompt alone: an answer that was
\* read while it waits has reached it, and nothing but that answer admits it (deliverConsent).
Alone(d) == \A e \in Dials \ {d} : who[e] # who[d]
LoneDialIsHeard ==
  \A d \in Dials : Alone(d) =>
    /\ place[d] = "admitted" => of[d] = d
    /\ place[d] = "waiting" /\ prompt[d] = "read" => says[d] # "none"

\* Every dial is decided, though no worker may be there, nobody may answer, and another dial's
\* clean-up may have removed its waiter (the thirty seconds of askConsent).
EveryDialDecided == \A d \in Dials : place[d] # "none" ~> place[d] \in {"admitted", "refused"}
=============================================================================
