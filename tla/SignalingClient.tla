---------------------------- MODULE SignalingClient ----------------------------
(***************************************************************************)
(* The agent's connection to the relay (agent/network/client.go): the loop *)
(* that dials, registers and reads, the rotation of the password from      *)
(* other goroutines, and the certificate the relay may issue.              *)
(*                                                                         *)
(* register reads the password hash and then writes the message under mu:  *)
(* two steps.  Of the relay only what it was registered with last on the   *)
(* current connection counts; each new connection starts without.  The     *)
(* handlers of other messages run in goroutines of their own and are the   *)
(* other modules.                                                          *)
(***************************************************************************)
EXTENDS Naturals

CONSTANTS Updaters,  \* the goroutines that rotate a password
          ReadLoop,  \* the goroutine of Connect
          MaxHash,   \* bound: the rotations of a run
          MaxWait    \* 30 s in the code: the longest wait between two dials, in doublings

ASSUME ClientAssumption == ReadLoop \notin Updaters /\ {MaxHash, MaxWait} \subseteq Nat

VARIABLES
  wait,     \* backoff
  step,     \* the loop: dial, wait, register, read, gone (cancelled or panicked)
  conn,     \* Client.conn: none, open, broken
  hash,     \* Client.passwordHash, as a number
  reg,      \* a goroutine in register: out, in, or holding the hash it has read
  relay,    \* the hash the relay has for this connection, 0 for none
  met,      \* two goroutines were in register at once
  certFile,     \* the certificate's files: none, pair, or a new one with an old key
  beats,    \* heartbeat goroutines that have not been told to stop
  panicked

loopVars == <<wait, step, beats, panicked>>
clientVars == <<loopVars, conn, hash, reg, relay, met, certFile>>

Out == [at |-> "out", hash |-> 0]

ClientInit ==
  /\ wait = 0 /\ step = "dial" /\ beats = 0 /\ panicked = FALSE
  /\ conn = "none" /\ hash = 1 /\ relay = 0 /\ met = FALSE /\ certFile = "none"
  /\ reg = [t \in Updaters \cup {ReadLoop} |-> Out]

Registering == {t \in DOMAIN reg : reg[t].at # "out"}
Enter(t) ==
  /\ reg' = [reg EXCEPT ![t] = [at |-> "in", hash |-> 0]]
  /\ met' = (met \/ Registering # {})

-----------------------------------------------------------------------------
\* Connect.

\* A certificate without its key fails every dial; any dial may fail.
DialFails ==
  /\ step = "dial" /\ step' = "wait"
  /\ UNCHANGED <<wait, beats, panicked, conn, hash, reg, relay, met, certFile>>

Waited ==
  /\ step = "wait" /\ step' = "dial" /\ wait' = IF wait < MaxWait THEN wait + 1 ELSE wait
  /\ UNCHANGED <<beats, panicked, conn, hash, reg, relay, met, certFile>>

Dial ==
  /\ step = "dial" /\ certFile # "mismatch"
  /\ step' = "register" /\ wait' = 0 /\ conn' = "open" /\ relay' = 0 /\ Enter(ReadLoop)
  /\ UNCHANGED <<beats, panicked, hash, certFile>>

Cancel ==
  /\ step \in {"dial", "wait"} /\ step' = "gone"
  /\ UNCHANGED <<wait, beats, panicked, conn, hash, reg, relay, met, certFile>>

\* register: the hash is read outside the lock, and the message written under it.
ReadHash(t) ==
  /\ reg[t].at = "in" /\ reg' = [reg EXCEPT ![t] = [at |-> "sending", hash |-> hash]]
  /\ UNCHANGED <<loopVars, conn, hash, relay, met, certFile>>

\* The loop goes on to read when it has registered, and dials again when it could not.
SendRegister(t) ==
  /\ reg[t].at = "sending" /\ reg' = [reg EXCEPT ![t] = Out]
  /\ relay' = IF conn = "open" THEN reg[t].hash ELSE relay
  /\ IF t = ReadLoop
     THEN IF conn = "open" THEN step' = "read" /\ beats' = beats + 1
                           ELSE step' = "dial" /\ UNCHANGED beats
     ELSE UNCHANGED <<step, beats>>
  /\ UNCHANGED <<wait, panicked, conn, hash, met, certFile>>

Break ==
  /\ conn = "open" /\ conn' = "broken"
  /\ UNCHANGED <<loopVars, hash, reg, relay, met, certFile>>

ReadFails ==
  /\ step = "read" /\ conn = "broken" /\ step' = "dial" /\ beats' = beats - 1
  /\ UNCHANGED <<wait, panicked, conn, hash, reg, relay, met, certFile>>

\* handleClientCertPayload: when both files are written the connection is closed, and
\* the reader finds no connection where it looks for the next message.
Certificate ==
  /\ step = "read" /\ conn = "open"
  /\ \/ UNCHANGED <<certFile, conn>>                  \* the first file cannot be written
     \/ certFile # "none" /\ certFile' = "mismatch" /\ UNCHANGED conn     \* nor can the second
     \/ certFile' = "pair" /\ conn' = "none"
  /\ UNCHANGED <<loopVars, hash, reg, relay, met>>

ReadNothing ==
  /\ step = "read" /\ conn = "none" /\ step' = "gone" /\ panicked' = TRUE
  /\ UNCHANGED <<wait, beats, conn, hash, reg, relay, met, certFile>>

-----------------------------------------------------------------------------
\* Mutant of UpdateHash: the new hash is stored when the relay has been told.
UpdateHashLast(t) ==
  /\ reg[t].at = "out" /\ hash < MaxHash
  /\ hash' = hash + 1
  /\ IF conn = "none" THEN UNCHANGED <<reg, met>>
     ELSE /\ reg' = [reg EXCEPT ![t] = [at |-> "sending", hash |-> hash]]
          /\ met' = (met \/ Registering # {})
  /\ UNCHANGED <<loopVars, conn, relay, certFile>>

\* UpdatePasswordHash: the hash, and a registration when there is a connection.
UpdateHash(t) ==
  /\ reg[t].at = "out" /\ hash < MaxHash
  /\ hash' = hash + 1
  /\ IF conn = "none" THEN UNCHANGED <<reg, met>> ELSE Enter(t)
  /\ UNCHANGED <<loopVars, conn, relay, certFile>>

ClientNext ==
  \/ DialFails \/ Waited \/ Dial \/ Cancel \/ Break \/ ReadFails \/ Certificate \/ ReadNothing
  \/ \E t \in Updaters \cup {ReadLoop} : ReadHash(t) \/ SendRegister(t)
  \/ \E t \in Updaters : UpdateHash(t)

\* The loop goes on, and a dial that can succeed does so in the end.
ClientSpec ==
  /\ ClientInit /\ [][ClientNext]_clientVars
  /\ WF_clientVars(Waited) /\ SF_clientVars(Dial) /\ WF_clientVars(ReadFails)
  /\ \A t \in Updaters \cup {ReadLoop} : WF_clientVars(ReadHash(t)) /\ WF_clientVars(SendRegister(t))

-----------------------------------------------------------------------------
ClientTypeOK ==
  /\ wait \in 0 .. MaxWait /\ step \in {"dial", "wait", "register", "read", "gone"}
  /\ conn \in {"none", "open", "broken"} /\ certFile \in {"none", "pair", "mismatch"}
  /\ hash \in 1 .. (MaxHash + 1) /\ relay \in 0 .. (MaxHash + 1) /\ {met, panicked} \subseteq BOOLEAN
  /\ reg \in [Updaters \cup {ReadLoop} -> [at : {"out", "in", "sending"}, hash : 0 .. (MaxHash + 1)]]
  /\ beats \in {0, 1}

\* While the client is registered and nothing of a registration is under way, the relay
\* has the password that was rotated to last, through any reconnects, as long as no two
\* registrations were under way at once (client.go:114, "so a
\* rotated password takes effect at the relay immediately").
RotationTakesEffect ==
  step = "read" /\ conn = "open" /\ Registering = {} /\ ~met => relay = hash

\* A client that is not cancelled comes to be connected again (client.go:163, "reconnects
\* automatically with exponential backoff on disconnection").
Reconnects == step = "read" /\ conn # "open" ~> step = "register" \/ (step = "gone" /\ ~panicked)
=============================================================================
