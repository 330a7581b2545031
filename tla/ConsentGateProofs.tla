------------------------- MODULE ConsentGateProofs --------------------------
(***************************************************************************)
(* Proofs about ConsentGate for any number of ids, dials and workers.      *)
(***************************************************************************)
EXTENDS ConsentGate, TLAPS

\* A dial has an id once it has arrived, and neither prompt nor answer before it asks; its
\* viewer's bye comes after it.
DialInv ==
  \A d \in Dials :
    /\ IF place[d] = "none" THEN who[d] = None ELSE who[d] \in Ids
    /\ place[d] \in {"none", "register", "ask"} => prompt[d] = "none" /\ home[d] = None
    /\ place[d] \in {"none", "register"} => says[d] = "none"
    /\ place[d] = "admitted" => says[d] = "allow"
    /\ bye[d] # "none" => place[d] # "none"

\* Waiters and windows are found under the id of their dial; a window that is found is up.
WaiterInv ==
  \A k \in Ids : waiters[k] \in Dials =>
    who[waiters[k]] = k /\ place[waiters[k]] \notin {"none", "register"}

WindowInv ==
  \A w \in Workers, k \in Ids : window[w][k] \in Dials =>
    prompt[window[w][k]] = "up" /\ home[window[w][k]] = w /\ who[window[w][k]] = k

\* An answer is used up by the one dial it was delivered to.
AnswerInv ==
  /\ \A d \in Dials : says[d] = "allow" => of[d] \in Dials
  /\ \A d \in Dials : of[d] \in Dials => who[of[d]] = who[d] /\ prompt[of[d]] \in {"read", "lost"}
  /\ \A d, e \in Dials : of[d] \in Dials /\ of[d] = of[e] => d = e
  /\ \A d \in Dials : says[d] = "none" => of[d] = None

\* The waiter of a dial that is alone under its id stays in place while it waits.
LoneInv ==
  \A d \in Dials : Alone(d) =>
    /\ place[d] \in {"ask", "waiting"} => waiters[who[d]] = d
    /\ place[d] = "waiting" /\ prompt[d] = "read" => says[d] # "none"

ConsentInv == TypeOK /\ DialInv /\ WaiterInv /\ WindowInv /\ AnswerInv /\ LoneInv

LEMMA ConsentInit == Init => ConsentInv
BY ConsentAssumption DEF Init, ConsentInv, TypeOK, DialInv, WaiterInv, WindowInv, AnswerInv, LoneInv,
   Answers, Alone

\* The two effects of the helpers: a window is closed, a waiter is answered.
Closed(e, w, k) ==
  /\ prompt[e] = "up" /\ who[e] = k /\ home[e] = w
  /\ prompt' = [prompt EXCEPT ![e] = "deny"]
  /\ window' = [window EXCEPT ![w][k] = None]

Answered(e, k, a, p) ==
  /\ waiters[k] = e /\ says[e] = "none"
  /\ says' = [says EXCEPT ![e] = a] /\ of' = [of EXCEPT ![e] = p]

\* What cancelConsent does: nothing, or it closes the one window known for the id.
LEMMA CancelEffect ==
  ASSUME ConsentInv, NEW k \in Ids, CancelPrompt(k)
  PROVE  \/ prompt' = prompt /\ window' = window
         \/ \E e \in Dials, w \in Workers : Closed(e, w, k)
BY ConsentAssumption DEF Closed, CancelPrompt, ConsentInv, TypeOK, WindowInv

\* What deliverConsent does: nothing, or it answers the dial that waits under the id.
LEMMA DeliverEffect ==
  ASSUME ConsentInv, NEW k \in Ids, NEW a, NEW p, Deliver(k, a, p)
  PROVE  \/ /\ says' = says /\ of' = of
            /\ \A e \in Dials : waiters[k] = e => says[e] # "none"
         \/ \E e \in Dials : Answered(e, k, a, p)
BY ConsentAssumption DEF Answered, Deliver, ConsentInv, TypeOK

LEMMA ConsentTypeStep == ConsentInv /\ [Next]_vars => TypeOK'
<1> SUFFICES ASSUME ConsentInv, [Next]_vars PROVE TypeOK'
  OBVIOUS
<1> USE ConsentAssumption DEF ConsentInv, TypeOK, Answers, DialInv
<1>1. ASSUME NEW d \in Dials, NEW k \in Ids, Dial(d, k) PROVE TypeOK'
  BY <1>1 DEF Dial, Goto, gateVars, linkVars
<1>2. ASSUME NEW d \in Dials, Register(d) PROVE TypeOK'
  BY <1>2 DEF Register, Goto, gateVars, linkVars
<1>3. ASSUME NEW d \in Dials, AskWorker(d) PROVE TypeOK'
  <2>1. CASE Goto(d, "quit") /\ UNCHANGED <<prompt, home>>
    BY <1>3, <2>1 DEF AskWorker, Goto, gateVars, linkVars
  <2>2. CASE worker # None /\ Goto(d, "waiting") /\ prompt' = [prompt EXCEPT ![d] = "sent"]
             /\ home' = [home EXCEPT ![d] = worker]
    BY <1>3, <2>2 DEF AskWorker, Goto, gateVars, linkVars
  <2> QED
    BY <1>3, <2>1, <2>2 DEF AskWorker
<1>4. ASSUME NEW d \in Dials, TakeAnswer(d) PROVE TypeOK'
  BY <1>4 DEF TakeAnswer, Goto, gateVars, linkVars
<1>5. ASSUME NEW d \in Dials, GiveUp(d) PROVE TypeOK'
  BY <1>5 DEF GiveUp, Goto, gateVars, linkVars
<1>6. ASSUME NEW d \in Dials, StopWaiting(d) PROVE TypeOK'
  BY <1>6 DEF StopWaiting, Goto, gateVars, linkVars
<1>7. ASSUME NEW d \in Dials, Withdraw(d) PROVE TypeOK'
  <2>1. who[d] \in Ids /\ CancelPrompt(who[d])
    BY <1>7 DEF Withdraw
  <2>2. CASE prompt' = prompt /\ window' = window
    BY <1>7, <2>2 DEF Withdraw, Goto, gateVars, linkVars
  <2>3. ASSUME NEW e \in Dials, NEW w \in Workers, Closed(e, w, who[d]) PROVE TypeOK'
    BY <1>7, <2>1, <2>3 DEF Withdraw, Goto, Closed, gateVars, linkVars
  <2> QED
    BY <2>1, <2>2, <2>3, CancelEffect
<1>8. ASSUME NEW d \in Dials, ByeArrives(d) PROVE TypeOK'
  BY <1>8 DEF ByeArrives, gateVars, linkVars
<1>9. ASSUME NEW d \in Dials, ByeDenies(d) PROVE TypeOK'
  BY <1>9 DEF ByeDenies, Deliver, gateVars, linkVars
<1>10. ASSUME NEW d \in Dials, ByeWithdraws(d) PROVE TypeOK'
  BY <1>10, SMTT(60) DEF ByeWithdraws, CancelPrompt, gateVars, linkVars
<1>11. ASSUME NEW d \in Dials, Show(d) PROVE TypeOK'
  BY <1>11 DEF Show, gateVars, linkVars
<1>12. ASSUME NEW d \in Dials, ReadReply(d) PROVE TypeOK'
  BY <1>12 DEF ReadReply, Deliver, gateVars, linkVars
<1>13. ASSUME NEW d \in Dials, NEW a \in Answers, Remembered(d, a) PROVE TypeOK'
  BY <1>13 DEF Remembered, gateVars, linkVars
<1>14. ASSUME NEW d \in Dials, NEW a \in Answers, Answer(d, a) PROVE TypeOK'
  BY <1>14 DEF Answer, gateVars, linkVars
<1>15. ASSUME NEW w \in Workers, Attach(w) PROVE TypeOK'
  BY <1>15 DEF Attach, gateVars, linkVars
<1>16. ASSUME NEW w \in Workers, Detach(w) PROVE TypeOK'
  BY <1>16 DEF Detach, gateVars, linkVars
<1>17. ASSUME UNCHANGED vars PROVE TypeOK'
  BY <1>17 DEF vars, gateVars, linkVars
<1> QED
  BY <1>1, <1>2, <1>3, <1>4, <1>5, <1>6, <1>7, <1>8, <1>9, <1>10, <1>11, <1>12, <1>13, <1>14, <1>15, <1>16, <1>17 DEF Next, Handler, ByeHandler, Person

LEMMA DialStep == ConsentInv /\ [Next]_vars => DialInv'
<1> SUFFICES ASSUME ConsentInv, [Next]_vars PROVE DialInv'
  OBVIOUS
<1> USE ConsentAssumption DEF ConsentInv, TypeOK, Answers, DialInv, WaiterInv, WindowInv
<1>1. ASSUME NEW d \in Dials, NEW k \in Ids, Dial(d, k) PROVE DialInv'
  BY <1>1 DEF Dial, Goto, gateVars, linkVars
<1>2. ASSUME NEW d \in Dials, Register(d) PROVE DialInv'
  BY <1>2 DEF Register, Goto, gateVars, linkVars
<1>3. ASSUME NEW d \in Dials, AskWorker(d) PROVE DialInv'
  BY <1>3 DEF AskWorker, Goto, gateVars, linkVars
<1>4. ASSUME NEW d \in Dials, TakeAnswer(d) PROVE DialInv'
  BY <1>4 DEF TakeAnswer, Goto, gateVars, linkVars
<1>5. ASSUME NEW d \in Dials, GiveUp(d) PROVE DialInv'
  BY <1>5 DEF GiveUp, Goto, gateVars, linkVars
<1>6. ASSUME NEW d \in Dials, StopWaiting(d) PROVE DialInv'
  BY <1>6 DEF StopWaiting, Goto, gateVars, linkVars
<1>7. ASSUME NEW d \in Dials, Withdraw(d) PROVE DialInv'
  BY <1>7 DEF Withdraw, Goto, CancelPrompt, gateVars, linkVars
<1>8. ASSUME NEW d \in Dials, ByeArrives(d) PROVE DialInv'
  BY <1>8 DEF ByeArrives, gateVars, linkVars
<1>9. ASSUME NEW d \in Dials, ByeDenies(d) PROVE DialInv'
  BY <1>9 DEF ByeDenies, Deliver, gateVars, linkVars
<1>10. ASSUME NEW d \in Dials, ByeWithdraws(d) PROVE DialInv'
  BY <1>10 DEF ByeWithdraws, CancelPrompt, gateVars, linkVars
<1>11. ASSUME NEW d \in Dials, Show(d) PROVE DialInv'
  BY <1>11 DEF Show, gateVars, linkVars
<1>12. ASSUME NEW d \in Dials, ReadReply(d) PROVE DialInv'
  BY <1>12 DEF ReadReply, Deliver, gateVars, linkVars
<1>13. ASSUME NEW d \in Dials, NEW a \in Answers, Remembered(d, a) PROVE DialInv'
  BY <1>13 DEF Remembered, gateVars, linkVars
<1>14. ASSUME NEW d \in Dials, NEW a \in Answers, Answer(d, a) PROVE DialInv'
  BY <1>14 DEF Answer, gateVars, linkVars
<1>15. ASSUME NEW w \in Workers, Attach(w) PROVE DialInv'
  BY <1>15 DEF Attach, gateVars, linkVars
<1>16. ASSUME NEW w \in Workers, Detach(w) PROVE DialInv'
  BY <1>16 DEF Detach, gateVars, linkVars
<1>17. ASSUME UNCHANGED vars PROVE DialInv'
  BY <1>17 DEF vars, gateVars, linkVars
<1> QED
  BY <1>1, <1>2, <1>3, <1>4, <1>5, <1>6, <1>7, <1>8, <1>9, <1>10, <1>11, <1>12, <1>13, <1>14, <1>15, <1>16, <1>17 DEF Next, Handler, ByeHandler, Person

LEMMA WaiterStep == ConsentInv /\ [Next]_vars => WaiterInv'
<1> SUFFICES ASSUME ConsentInv, [Next]_vars PROVE WaiterInv'
  OBVIOUS
<1> USE ConsentAssumption DEF ConsentInv, TypeOK, Answers, DialInv, WaiterInv
<1>1. ASSUME NEW d \in Dials, NEW k \in Ids, Dial(d, k) PROVE WaiterInv'
  BY <1>1 DEF Dial, Goto, gateVars, linkVars
<1>2. ASSUME NEW d \in Dials, Register(d) PROVE WaiterInv'
  BY <1>2 DEF Register, Goto, gateVars, linkVars
<1>3. ASSUME NEW d \in Dials, AskWorker(d) PROVE WaiterInv'
  BY <1>3 DEF AskWorker, Goto, gateVars, linkVars
<1>4. ASSUME NEW d \in Dials, TakeAnswer(d) PROVE WaiterInv'
  BY <1>4 DEF TakeAnswer, Goto, gateVars, linkVars
<1>5. ASSUME NEW d \in Dials, GiveUp(d) PROVE WaiterInv'
  BY <1>5 DEF GiveUp, Goto, gateVars, linkVars
<1>6. ASSUME NEW d \in Dials, StopWaiting(d) PROVE WaiterInv'
  BY <1>6 DEF StopWaiting, Goto, gateVars, linkVars
<1>7. ASSUME NEW d \in Dials, Withdraw(d) PROVE WaiterInv'
  BY <1>7 DEF Withdraw, Goto, CancelPrompt, gateVars, linkVars
<1>8. ASSUME NEW d \in Dials, ByeArrives(d) PROVE WaiterInv'
  BY <1>8 DEF ByeArrives, gateVars, linkVars
<1>9. ASSUME NEW d \in Dials, ByeDenies(d) PROVE WaiterInv'
  BY <1>9 DEF ByeDenies, Deliver, gateVars, linkVars
<1>10. ASSUME NEW d \in Dials, ByeWithdraws(d) PROVE WaiterInv'
  BY <1>10 DEF ByeWithdraws, CancelPrompt, gateVars, linkVars
<1>11. ASSUME NEW d \in Dials, Show(d) PROVE WaiterInv'
  BY <1>11 DEF Show, gateVars, linkVars
<1>12. ASSUME NEW d \in Dials, ReadReply(d) PROVE WaiterInv'
  BY <1>12 DEF ReadReply, Deliver, gateVars, linkVars
<1>13. ASSUME NEW d \in Dials, NEW a \in Answers, Remembered(d, a) PROVE WaiterInv'
  BY <1>13 DEF Remembered, gateVars, linkVars
<1>14. ASSUME NEW d \in Dials, NEW a \in Answers, Answer(d, a) PROVE WaiterInv'
  BY <1>14 DEF Answer, gateVars, linkVars
<1>15. ASSUME NEW w \in Workers, Attach(w) PROVE WaiterInv'
  BY <1>15 DEF Attach, gateVars, linkVars
<1>16. ASSUME NEW w \in Workers, Detach(w) PROVE WaiterInv'
  BY <1>16 DEF Detach, gateVars, linkVars
<1>17. ASSUME UNCHANGED vars PROVE WaiterInv'
  BY <1>17 DEF vars, gateVars, linkVars
<1> QED
  BY <1>1, <1>2, <1>3, <1>4, <1>5, <1>6, <1>7, <1>8, <1>9, <1>10, <1>11, <1>12, <1>13, <1>14, <1>15, <1>16, <1>17 DEF Next, Handler, ByeHandler, Person

LEMMA WindowStep == ConsentInv /\ [Next]_vars => WindowInv'
<1> SUFFICES ASSUME ConsentInv, [Next]_vars PROVE WindowInv'
  OBVIOUS
<1> USE ConsentAssumption DEF ConsentInv, TypeOK, Answers, DialInv, WindowInv
<1>1. ASSUME NEW d \in Dials, NEW k \in Ids, Dial(d, k) PROVE WindowInv'
  BY <1>1 DEF Dial, Goto, gateVars, linkVars
<1>2. ASSUME NEW d \in Dials, Register(d) PROVE WindowInv'
  BY <1>2 DEF Register, Goto, gateVars, linkVars
<1>3. ASSUME NEW d \in Dials, AskWorker(d) PROVE WindowInv'
  BY <1>3 DEF AskWorker, Goto, gateVars, linkVars
<1>4. ASSUME NEW d \in Dials, TakeAnswer(d) PROVE WindowInv'
  BY <1>4 DEF TakeAnswer, Goto, gateVars, linkVars
<1>5. ASSUME NEW d \in Dials, GiveUp(d) PROVE WindowInv'
  BY <1>5 DEF GiveUp, Goto, gateVars, linkVars
<1>6. ASSUME NEW d \in Dials, StopWaiting(d) PROVE WindowInv'
  BY <1>6 DEF StopWaiting, Goto, gateVars, linkVars
<1>7. ASSUME NEW d \in Dials, Withdraw(d) PROVE WindowInv'
  <2>1. who[d] \in Ids /\ CancelPrompt(who[d])
    BY <1>7 DEF Withdraw
  <2>2. CASE prompt' = prompt /\ window' = window
    BY <1>7, <2>2 DEF Withdraw, Goto, gateVars, linkVars
  <2>3. ASSUME NEW e \in Dials, NEW w \in Workers, Closed(e, w, who[d]) PROVE WindowInv'
    BY <1>7, <2>1, <2>3 DEF Withdraw, Goto, Closed, gateVars, linkVars
  <2> QED
    BY <2>1, <2>2, <2>3, CancelEffect
<1>8. ASSUME NEW d \in Dials, ByeArrives(d) PROVE WindowInv'
  BY <1>8 DEF ByeArrives, gateVars, linkVars
<1>9. ASSUME NEW d \in Dials, ByeDenies(d) PROVE WindowInv'
  BY <1>9 DEF ByeDenies, Deliver, gateVars, linkVars
<1>10. ASSUME NEW d \in Dials, ByeWithdraws(d) PROVE WindowInv'
  BY <1>10, SMTT(60) DEF ByeWithdraws, CancelPrompt, gateVars, linkVars
<1>11. ASSUME NEW d \in Dials, Show(d) PROVE WindowInv'
  BY <1>11 DEF Show, gateVars, linkVars
<1>12. ASSUME NEW d \in Dials, ReadReply(d) PROVE WindowInv'
  BY <1>12 DEF ReadReply, Deliver, gateVars, linkVars
<1>13. ASSUME NEW d \in Dials, NEW a \in Answers, Remembered(d, a) PROVE WindowInv'
  BY <1>13 DEF Remembered, gateVars, linkVars
<1>14. ASSUME NEW d \in Dials, NEW a \in Answers, Answer(d, a) PROVE WindowInv'
  BY <1>14 DEF Answer, gateVars, linkVars
<1>15. ASSUME NEW w \in Workers, Attach(w) PROVE WindowInv'
  BY <1>15 DEF Attach, gateVars, linkVars
<1>16. ASSUME NEW w \in Workers, Detach(w) PROVE WindowInv'
  BY <1>16 DEF Detach, gateVars, linkVars
<1>17. ASSUME UNCHANGED vars PROVE WindowInv'
  BY <1>17 DEF vars, gateVars, linkVars
<1> QED
  BY <1>1, <1>2, <1>3, <1>4, <1>5, <1>6, <1>7, <1>8, <1>9, <1>10, <1>11, <1>12, <1>13, <1>14, <1>15, <1>16, <1>17, SMTT(60) DEF Next, Handler, ByeHandler, Person

LEMMA AnswerStep == ConsentInv /\ [Next]_vars => AnswerInv'
<1> SUFFICES ASSUME ConsentInv, [Next]_vars PROVE AnswerInv'
  OBVIOUS
<1> USE ConsentAssumption DEF ConsentInv, TypeOK, Answers, DialInv, WaiterInv, WindowInv, AnswerInv
<1>1. ASSUME NEW d \in Dials, NEW k \in Ids, Dial(d, k) PROVE AnswerInv'
  BY <1>1 DEF Dial, Goto, gateVars, linkVars
<1>2. ASSUME NEW d \in Dials, Register(d) PROVE AnswerInv'
  BY <1>2 DEF Register, Goto, gateVars, linkVars
<1>3. ASSUME NEW d \in Dials, AskWorker(d) PROVE AnswerInv'
  BY <1>3 DEF AskWorker, Goto, gateVars, linkVars
<1>4. ASSUME NEW d \in Dials, TakeAnswer(d) PROVE AnswerInv'
  BY <1>4 DEF TakeAnswer, Goto, gateVars, linkVars
<1>5. ASSUME NEW d \in Dials, GiveUp(d) PROVE AnswerInv'
  BY <1>5 DEF GiveUp, Goto, gateVars, linkVars
<1>6. ASSUME NEW d \in Dials, StopWaiting(d) PROVE AnswerInv'
  BY <1>6 DEF StopWaiting, Goto, gateVars, linkVars
<1>7. ASSUME NEW d \in Dials, Withdraw(d) PROVE AnswerInv'
  BY <1>7 DEF Withdraw, Goto, CancelPrompt, gateVars, linkVars
<1>8. ASSUME NEW d \in Dials, ByeArrives(d) PROVE AnswerInv'
  BY <1>8 DEF ByeArrives, gateVars, linkVars
<1>9. ASSUME NEW d \in Dials, ByeDenies(d) PROVE AnswerInv'
  BY <1>9 DEF ByeDenies, Deliver, gateVars, linkVars
<1>10. ASSUME NEW d \in Dials, ByeWithdraws(d) PROVE AnswerInv'
  <2>1. who[d] \in Ids /\ CancelPrompt(who[d])
    BY <1>10 DEF ByeWithdraws
  <2>2. CASE prompt' = prompt /\ window' = window
    BY <1>10, <2>2 DEF ByeWithdraws, gateVars, linkVars
  <2>3. ASSUME NEW e \in Dials, NEW w \in Workers, Closed(e, w, who[d]) PROVE AnswerInv'
    BY <1>10, <2>1, <2>3 DEF ByeWithdraws, Closed, gateVars, linkVars
  <2> QED
    BY <2>1, <2>2, <2>3, CancelEffect
<1>11. ASSUME NEW d \in Dials, Show(d) PROVE AnswerInv'
  BY <1>11 DEF Show, gateVars, linkVars
<1>12. ASSUME NEW d \in Dials, ReadReply(d) PROVE AnswerInv'
  <2>1. who[d] \in Ids /\ Deliver(who[d], prompt[d], d)
    BY <1>12 DEF ReadReply
  <2>2. CASE says' = says /\ of' = of /\ \A e \in Dials : waiters[who[d]] = e => says[e] # "none"
    BY <1>12, <2>2 DEF ReadReply, gateVars, linkVars
  <2>3. ASSUME NEW e \in Dials, Answered(e, who[d], prompt[d], d) PROVE AnswerInv'
    BY <1>12, <2>1, <2>3 DEF ReadReply, Answered, gateVars, linkVars
  <2> QED
    BY <2>1, <2>2, <2>3, DeliverEffect
<1>13. ASSUME NEW d \in Dials, NEW a \in Answers, Remembered(d, a) PROVE AnswerInv'
  BY <1>13 DEF Remembered, gateVars, linkVars
<1>14. ASSUME NEW d \in Dials, NEW a \in Answers, Answer(d, a) PROVE AnswerInv'
  BY <1>14 DEF Answer, gateVars, linkVars
<1>15. ASSUME NEW w \in Workers, Attach(w) PROVE AnswerInv'
  BY <1>15 DEF Attach, gateVars, linkVars
<1>16. ASSUME NEW w \in Workers, Detach(w) PROVE AnswerInv'
  BY <1>16 DEF Detach, gateVars, linkVars
<1>17. ASSUME UNCHANGED vars PROVE AnswerInv'
  BY <1>17 DEF vars, gateVars, linkVars
<1> QED
  BY <1>1, <1>2, <1>3, <1>4, <1>5, <1>6, <1>7, <1>8, <1>9, <1>10, <1>11, <1>12, <1>13, <1>14, <1>15, <1>16, <1>17 DEF Next, Handler, ByeHandler, Person

LEMMA LoneStep == ConsentInv /\ [Next]_vars => LoneInv'
<1> SUFFICES ASSUME ConsentInv, [Next]_vars PROVE LoneInv'
  OBVIOUS
<1> USE ConsentAssumption DEF ConsentInv, TypeOK, Answers, DialInv, WaiterInv, WindowInv, LoneInv, Alone
<1>1. ASSUME NEW d \in Dials, NEW k \in Ids, Dial(d, k) PROVE LoneInv'
  BY <1>1 DEF Dial, Goto, gateVars, linkVars
<1>2. ASSUME NEW d \in Dials, Register(d) PROVE LoneInv'
  BY <1>2 DEF Register, Goto, gateVars, linkVars
<1>3. ASSUME NEW d \in Dials, AskWorker(d) PROVE LoneInv'
  BY <1>3 DEF AskWorker, Goto, gateVars, linkVars
<1>4. ASSUME NEW d \in Dials, TakeAnswer(d) PROVE LoneInv'
  BY <1>4 DEF TakeAnswer, Goto, gateVars, linkVars
<1>5. ASSUME NEW d \in Dials, GiveUp(d) PROVE LoneInv'
  BY <1>5 DEF GiveUp, Goto, gateVars, linkVars
<1>6. ASSUME NEW d \in Dials, StopWaiting(d) PROVE LoneInv'
  BY <1>6 DEF StopWaiting, Goto, gateVars, linkVars
<1>7. ASSUME NEW d \in Dials, Withdraw(d) PROVE LoneInv'
  BY <1>7 DEF Withdraw, Goto, CancelPrompt, gateVars, linkVars
<1>8. ASSUME NEW d \in Dials, ByeArrives(d) PROVE LoneInv'
  BY <1>8 DEF ByeArrives, gateVars, linkVars
<1>9. ASSUME NEW d \in Dials, ByeDenies(d) PROVE LoneInv'
  BY <1>9 DEF ByeDenies, Deliver, gateVars, linkVars
<1>10. ASSUME NEW d \in Dials, ByeWithdraws(d) PROVE LoneInv'
  BY <1>10 DEF ByeWithdraws, CancelPrompt, gateVars, linkVars
<1>11. ASSUME NEW d \in Dials, Show(d) PROVE LoneInv'
  BY <1>11 DEF Show, gateVars, linkVars
<1>12. ASSUME NEW d \in Dials, ReadReply(d) PROVE LoneInv'
  BY <1>12 DEF ReadReply, Deliver, gateVars, linkVars
<1>13. ASSUME NEW d \in Dials, NEW a \in Answers, Remembered(d, a) PROVE LoneInv'
  BY <1>13 DEF Remembered, gateVars, linkVars
<1>14. ASSUME NEW d \in Dials, NEW a \in Answers, Answer(d, a) PROVE LoneInv'
  BY <1>14 DEF Answer, gateVars, linkVars
<1>15. ASSUME NEW w \in Workers, Attach(w) PROVE LoneInv'
  BY <1>15 DEF Attach, gateVars, linkVars
<1>16. ASSUME NEW w \in Workers, Detach(w) PROVE LoneInv'
  BY <1>16 DEF Detach, gateVars, linkVars
<1>17. ASSUME UNCHANGED vars PROVE LoneInv'
  BY <1>17 DEF vars, gateVars, linkVars
<1> QED
  BY <1>1, <1>2, <1>3, <1>4, <1>5, <1>6, <1>7, <1>8, <1>9, <1>10, <1>11, <1>12, <1>13, <1>14, <1>15, <1>16, <1>17 DEF Next, Handler, ByeHandler, Person

LEMMA ConsentInvariant == Spec => []ConsentInv
<1>1. ConsentInv /\ [Next]_vars => ConsentInv'
  BY ConsentTypeStep, DialStep, WaiterStep, WindowStep, AnswerStep, LoneStep DEF ConsentInv
<1> QED
  BY ConsentInit, <1>1, PTL DEF Spec

\* Every variable of the consent gate keeps its type.
THEOREM ConsentTypeCorrect == Spec => []TypeOK
BY ConsentInvariant, PTL DEF ConsentInv

\* One yes of the person at the host admits one viewer of that id, and without one nobody who was
\* asked about is admitted, although waiters and windows are found by id only (transport.go:1355-1450).
THEOREM ConsentOneYesOneViewer == Spec => []OneYesOneViewer
<1>1. ConsentInv => OneYesOneViewer
  BY DEF ConsentInv, DialInv, AnswerInv, OneYesOneViewer, Admitted
<1> QED
  BY <1>1, ConsentInvariant, PTL

\* A dial that is alone under its id is decided by its own prompt, and an answer read while it waits
\* reaches it (transport.go:1355-1391, 1440-1450).
THEOREM ConsentLoneDialIsHeard == Spec => []LoneDialIsHeard
<1>1. ConsentInv => LoneDialIsHeard
  BY DEF ConsentInv, DialInv, AnswerInv, LoneInv, LoneDialIsHeard, Alone
<1> QED
  BY <1>1, ConsentInvariant, PTL
=============================================================================
