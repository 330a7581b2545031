--------------------------- MODULE ConnectLockout ---------------------------
(***************************************************************************)
(* The rate limit on wrong passwords in handleConnect                      *)
(* (server/signaling/hub.go): Hub.failCount under Hub.failMutex.           *)
(*                                                                         *)
(* A dial takes the mutex twice: to look whether its target is locked, and *)
(* again, after the host's record has come from Redis and the password has *)
(* been checked, to count the failure or to forget the record.  Dials of   *)
(* other viewers come in between.                                          *)
(*                                                                         *)
(* Time is counted in ticks, as ages that stop growing once they are       *)
(* beyond both limits; and a count stops at MaxFails, since the code only  *)
(* asks whether it has got there.  Neither bounds a behaviour.             *)
(***************************************************************************)
EXTENDS Naturals

CONSTANTS
    Viewer,     \* the connections that dial
    Target,     \* the ids they dial
    None,       \* no target
    MaxFails,   \* maxConnectFails
    LockoutFor, \* lockoutFor, in ticks
    FailWindow  \* failWindow, in ticks

ASSUME LockoutAssumption ==
    /\ None \notin Target
    /\ MaxFails \in Nat \ {0}
    /\ LockoutFor \in Nat \ {0} /\ FailWindow \in Nat
    /\ LockoutFor <= FailWindow

VARIABLES
    count,  \* failRecord.count of each target, 0 where there is no record
    recent, \* the ages of the last MaxFails failures, the newest first:
            \* recent[t][1] is the age of failRecord.last, the others history
    dialed, \* the target that viewer v is verifying a password for, or None
    late    \* history: the viewers that have failed since the target locked

vars == <<count, recent, dialed, late>>

Age == 0 .. FailWindow + 1

TypeOK ==
    /\ count  \in [Target -> 0 .. MaxFails]
    /\ recent \in [Target -> [1 .. MaxFails -> Age]]
    /\ dialed \in [Viewer -> Target \cup {None}]
    /\ late   \in [Target -> SUBSET Viewer]

Init ==
    /\ count  = [t \in Target |-> 0]
    /\ recent = [t \in Target |-> [i \in 1 .. MaxFails |-> FailWindow + 1]]
    /\ dialed = [v \in Viewer |-> None]
    /\ late   = [t \in Target |-> {}]

Locked(t)  == count[t] >= MaxFails /\ recent[t][1] < LockoutFor
Expired(t) == recent[t][1] > FailWindow

-----------------------------------------------------------------------------
\* Mutants of CheckRefused and CheckPassed: a refused dial prolongs the
\* lockout; a dial is not refused by it.
CheckRefusedProlongs(v, t) ==
    /\ dialed[v] = None /\ Locked(t)
    /\ recent' = [recent EXCEPT ![t][1] = 0]
    /\ UNCHANGED <<count, dialed, late>>

CheckAlwaysPassed(v, t) ==
    /\ dialed[v] = None
    /\ dialed' = [dialed EXCEPT ![v] = t]
    /\ count'  = IF Expired(t) THEN [count EXCEPT ![t] = 0] ELSE count
    /\ UNCHANGED <<recent, late>>

\* The first critical section.  A dial of a locked target is answered with
\* the seconds left and leaves the record as it is...
CheckRefused(v, t) ==
    /\ dialed[v] = None /\ Locked(t)
    /\ UNCHANGED vars

\* ... and any other goes on to verify; a record that is too old is deleted.
CheckPassed(v, t) ==
    /\ dialed[v] = None /\ ~Locked(t)
    /\ dialed' = [dialed EXCEPT ![v] = t]
    /\ count'  = IF Expired(t) THEN [count EXCEPT ![t] = 0] ELSE count
    /\ UNCHANGED <<recent, late>>

\* The target is not in the registry: nothing is counted.
NotFound(v) ==
    /\ dialed[v] # None
    /\ dialed' = [dialed EXCEPT ![v] = None]
    /\ UNCHANGED <<count, recent, late>>

\* The second critical section, after a wrong password.
Fail(v) ==
    LET t == dialed[v] IN
    /\ t # None
    /\ count'  = [count EXCEPT ![t] = IF @ < MaxFails THEN @ + 1 ELSE @]
    /\ recent' = [recent EXCEPT ![t] =
                    [i \in 1 .. MaxFails |-> IF i = 1 THEN 0 ELSE @[i - 1]]]
    /\ late'   = IF Locked(t) THEN [late EXCEPT ![t] = @ \cup {v}] ELSE late
    /\ dialed' = [dialed EXCEPT ![v] = None]

\* ... and after the right one: the record is deleted.
Succeed(v) ==
    /\ dialed[v] # None
    /\ count'  = [count EXCEPT ![dialed[v]] = 0]
    /\ late'   = [late EXCEPT ![dialed[v]] = {}]
    /\ dialed' = [dialed EXCEPT ![v] = None]
    /\ UNCHANGED recent

\* Time passes.
Tick ==
    /\ recent' = [t \in Target |-> [i \in 1 .. MaxFails |->
                    IF recent[t][i] > FailWindow THEN recent[t][i]
                                                 ELSE recent[t][i] + 1]]
    /\ UNCHANGED <<count, dialed>>
    /\ late' = [t \in Target |-> IF Locked(t)' THEN late[t] ELSE {}]

Next ==
    \/ \E v \in Viewer :
         \/ NotFound(v) \/ Fail(v) \/ Succeed(v)
         \/ \E t \in Target : CheckRefused(v, t) \/ CheckPassed(v, t)
    \/ Tick

\* Only time is sure to pass: a viewer may never dial again, and Redis may
\* never answer.
Spec == Init /\ [][Next]_vars /\ WF_vars(Tick)

-----------------------------------------------------------------------------
(***************************************************************************)
(* However many viewers were let past the check before the target locked,  *)
(* and however far their late failures push the end of the lockout, a      *)
(* viewer that has failed during the lockout is not verifying another      *)
(* password for that target: each gets one guess per lockout, although the *)
(* check and the count are two critical sections (hub.go:626-638, 688-693).*)
(***************************************************************************)
OneGuessPerLockout ==
    \A t \in Target, v \in Viewer : v \in late[t] => dialed[v] # t

(***************************************************************************)
(* A lockout ends, whoever goes on dialling: the mutex sections leave no   *)
(* way to keep a machine unreachable (hub.go:628-632, lockout_test.go:8).  *)
(***************************************************************************)
LockoutEnds == \A t \in Target : []<>~Locked(t)
=============================================================================
