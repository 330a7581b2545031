------------------------- MODULE RelayRecordsProofs -------------------------
(***************************************************************************)
(* Proofs about the records that the relay keeps, for any number of        *)
(* agents, names, handlers, certificates, accounts, requests, viewers and  *)
(* targets: the agents (AgentRegistry), the accounts (Accounts) and the    *)
(* guesses that lock a target (ConnectLockout).                            *)
(***************************************************************************)
EXTENDS AgentRegistry, Accounts, ConnectLockout, TLAPS

-----------------------------------------------------------------------------
\* The agents.

OpStates == {"idle", "heartbeat", "offline", "revoke", "reissue", "clear", "alias", "release", "rename",
          "bar", "swap", "swapped", "check", "compare", "enrol"}
Ops   == [at : OpStates, a : Agents \cup {NoName}, got : Records, x : Aliases \cup {NoName},
          cert : Certs, late : BOOLEAN]

\* An operation that is under way is for some agent.
OpInv == op \in [Handlers -> Ops] /\ \A t \in Handlers : op[t].at # "idle" => op[t].a \in Agents

\* A certificate is in the set before the record that revokes it is written.
BarInv == \A t \in Handlers : OpAt(t, "bar") => op[t].got.cert \in revoked \cup {0}

\* A registration whose certificate was retired before it began has still to be checked.
UncheckedInv ==
  \A t \in Handlers : /\ OpAt(t, "check") => (op[t].late => op[t].cert \in revoked)
                      /\ OpAt(t, "compare") \/ OpAt(t, "enrol") => ~op[t].late

RegistryInv == RegistryTypeOK /\ OpInv /\ BarInv /\ UncheckedInv

LEMMA ConstantFacts ==
  /\ NoRecord \in Records /\ NoOp \in Ops /\ NoRecord.cert = 0 /\ 0 \in Certs
  /\ NoOp.at = "idle" /\ ~NoOp.late
BY RegistryAssumption DEF NoRecord, NoOp, Records, Ops, Certs, OpStates

\* Updates of an operation and of a record keep their types.
LEMMA OpSteps ==
  ASSUME NEW o \in Ops, NEW p \in OpStates
  PROVE  /\ [o EXCEPT !.at = p] \in Ops /\ [o EXCEPT !.at = p].at = p
         /\ [o EXCEPT !.at = p].a = o.a /\ [o EXCEPT !.at = p].got = o.got
         /\ [o EXCEPT !.at = p].late = o.late /\ [o EXCEPT !.at = p].cert = o.cert
BY DEF Ops

LEMMA OpIssues ==
  ASSUME NEW o \in Ops, NEW p \in OpStates, NEW c \in Certs
  PROVE  /\ [o EXCEPT !.at = p, !.cert = c] \in Ops
         /\ [o EXCEPT !.at = p, !.cert = c].at = p /\ [o EXCEPT !.at = p, !.cert = c].a = o.a
BY DEF Ops

LEMMA OpFetches ==
  ASSUME NEW o \in Ops, NEW p \in OpStates, NEW r \in Records
  PROVE  /\ [o EXCEPT !.at = p, !.got = r] \in Ops
         /\ [o EXCEPT !.at = p, !.got = r].at = p /\ [o EXCEPT !.at = p, !.got = r].a = o.a
BY DEF Ops

LEMMA NewFetch ==
  ASSUME NEW p \in OpStates, NEW a \in Agents, NEW r \in Records, NEW x \in Aliases \cup {NoName}
  PROVE  [NoOp EXCEPT !.at = p, !.a = a, !.got = r, !.x = x] \in Ops
BY ConstantFacts DEF Ops, NoOp

LEMMA NewRegister ==
  ASSUME NEW p \in OpStates, NEW a \in Agents, NEW c \in Certs, NEW l \in BOOLEAN
  PROVE  [NoOp EXCEPT !.at = p, !.a = a, !.cert = c, !.late = l] \in Ops
BY ConstantFacts DEF Ops, NoOp

LEMMA RecordMarks ==
  ASSUME NEW r \in Records
  PROVE  /\ [r EXCEPT !.status = "offline"] \in Records /\ [r EXCEPT !.barred = TRUE] \in Records
         /\ r.cert \in Certs
BY DEF Records

LEMMA RecordNames ==
  ASSUME NEW r \in Records, NEW x \in Aliases \cup {NoName}
  PROVE  [r EXCEPT !.alias = x] \in Records
BY DEF Records

LEMMA RecordCerts ==
  ASSUME NEW r \in Records, NEW c \in Certs
  PROVE  [r EXCEPT !.cert = c, !.barred = FALSE] \in Records
BY DEF Records

LEMMA NewRecord ==
  ASSUME NEW c \in Certs
  PROVE  [NoRecord EXCEPT !.status = "waiting", !.cert = c] \in Records
BY ConstantFacts DEF Records, NoRecord

LEMMA OpTypes ==
  ASSUME NEW o \in Ops
  PROVE  o.got \in Records /\ o.x \in Aliases \cup {NoName} /\ o.cert \in Certs
BY DEF Ops

LEMMA RegistryStarts == RegistryInit => RegistryInv
<1> USE ConstantFacts DEF RegistryInit
<1>1. RegistryInit => RegistryTypeOK
  <2>1. \A t \in Handlers : RegistryInit => NoOp.got \in Records /\ NoOp.cert \in Certs
    BY DEF Ops
  <2> QED
    BY <2>1 DEF RegistryTypeOK
<1>2. RegistryInit => OpInv /\ BarInv /\ UncheckedInv
  BY DEF OpInv, BarInv, UncheckedInv, OpAt
<1> QED
  BY <1>1, <1>2 DEF RegistryInv

\* What the steps have in common: one handler's operation moves, and the sets only grow.
LEMMA OpMoves ==
  ASSUME RegistryInv, NEW t \in Handlers, NEW o \in Ops, op' = [op EXCEPT ![t] = o],
         o.at # "idle" => o.a \in Agents,
         revoked \subseteq revoked',
         o.at = "bar" => o.got.cert \in revoked' \cup {0},
         o.at = "check" => (o.late => o.cert \in revoked'),
         o.at \in {"compare", "enrol"} => ~o.late
  PROVE  OpInv' /\ BarInv' /\ UncheckedInv'
BY DEF RegistryInv, OpInv, BarInv, UncheckedInv, OpAt

LEMMA BeginPreserves ==
  ASSUME RegistryInv, NEW t \in Handlers, NEW a \in Agents
  PROVE  /\ BeginOp(t, a) => RegistryInv'
         /\ \A cert \in {0, devCert[a]} : BeginRegister(t, a, cert) => RegistryInv'
<1> USE ConstantFacts
<1>1. ASSUME NEW kind \in {"heartbeat", "offline", "revoke", "reissue", "clear", "alias"},
             NEW x \in Aliases \cup {NoName}, Fetch(t, a, kind, x),
             UNCHANGED <<record, named, revoked, issued, devCert, retired>>
      PROVE  RegistryInv'
  <2> DEFINE o == [NoOp EXCEPT !.at = kind, !.a = a, !.got = record[a], !.x = x]
  <2>1. o \in Ops /\ o.at = kind /\ o.a = a
    <3>1. kind \in OpStates /\ record[a] \in Records
      BY DEF OpStates, RegistryInv, RegistryTypeOK
    <3> QED
      BY <3>1, NewFetch DEF NoOp
  <2>2. op' = [op EXCEPT ![t] = o]
    BY <1>1 DEF Fetch
  <2>3. OpInv' /\ BarInv' /\ UncheckedInv'
    BY <1>1, <2>1, <2>2, OpMoves
  <2>4. RegistryTypeOK'
    BY <1>1, <2>3 DEF RegistryInv, RegistryTypeOK, OpInv, Ops
  <2> QED
    BY <2>3, <2>4 DEF RegistryInv
<1>2. BeginOp(t, a) => RegistryInv'
  BY <1>1 DEF BeginOp
<1>3. ASSUME NEW cert \in {0, devCert[a]}, BeginRegister(t, a, cert)
      PROVE  RegistryInv'
  <2> DEFINE o == [NoOp EXCEPT !.at = IF cert = 0 THEN "enrol" ELSE "check",
                               !.a = a, !.cert = cert, !.late = cert \in retired]
  <2>1. /\ o \in Ops /\ o.at \in {"enrol", "check"} /\ o.a = a
        /\ o.at = "enrol" => ~o.late
        /\ o.late => o.cert \in revoked
    <3>1. cert \in Certs /\ (cert \in retired => cert \in revoked /\ cert # 0)
      BY DEF RegistryInv, RegistryTypeOK
    <3>2. /\ o.a = a /\ o.cert = cert /\ o.late = (cert \in retired) /\ o.got = NoRecord
          /\ o.x = NoName /\ o.at = IF cert = 0 THEN "enrol" ELSE "check"
      BY DEF NoOp
    <3> DEFINE k == IF cert = 0 THEN "enrol" ELSE "check"   l == cert \in retired
    <3>3. k \in OpStates /\ l \in BOOLEAN
      BY DEF OpStates
    <3>4. [NoOp EXCEPT !.at = k, !.a = a, !.cert = cert, !.late = l] \in Ops
      <4> HIDE DEF k, l
      <4> QED
        BY <3>1, <3>3, NewRegister
    <3>5. o \in Ops
      BY <3>4
    <3> HIDE DEF o
    <3> QED
      BY <3>1, <3>2, <3>5
  <2>2. op' = [op EXCEPT ![t] = o]
    BY <1>3 DEF BeginRegister
  <2>3. OpInv' /\ BarInv' /\ UncheckedInv'
    <3> HIDE DEF o
    <3> QED
      BY <1>3, <2>1, <2>2, OpMoves DEF BeginRegister
  <2>4. RegistryTypeOK'
    BY <1>3, <2>3 DEF BeginRegister, RegistryInv, RegistryTypeOK, OpInv, Ops
  <2> QED
    BY <2>3, <2>4 DEF RegistryInv
<1> QED
  BY <1>2, <1>3

LEMMA NamesPreserve ==
  ASSUME RegistryInv, NEW t \in Handlers, StoreField(t) \/ Claim(t) \/ Release(t) \/ Rename(t)
  PROVE  RegistryInv'
<1> USE ConstantFacts
<1>1. OpInv' /\ BarInv' /\ UncheckedInv'
  <2>1. CASE op' = [op EXCEPT ![t] = NoOp] /\ UNCHANGED revoked
    BY <2>1, OpMoves
  <2>2. CASE \E p \in {"release", "rename"} : /\ op' = [op EXCEPT ![t] = [op[t] EXCEPT !.at = p]]
                                             /\ op[t].at # "idle" /\ UNCHANGED revoked
    <3>1. PICK p \in {"release", "rename"} : op' = [op EXCEPT ![t] = [op[t] EXCEPT !.at = p]]
      BY <2>2
    <3> DEFINE o == [op[t] EXCEPT !.at = p]
    <3>2. o \in Ops /\ o.at = p /\ o.a \in Agents
      <4>1. op[t] \in Ops /\ op[t].a \in Agents /\ p \in OpStates
        BY <2>2 DEF RegistryInv, OpInv, OpStates
      <4> QED
        BY <4>1, OpSteps
    <3> QED
      BY <2>2, <3>1, <3>2, OpMoves
  <2> QED
    BY <2>1, <2>2 DEF StoreField, Claim, Release, Rename, OpAt, OpTo, OpDone
<1>2. RegistryTypeOK'
  <2>1. op[t] \in Ops /\ op[t].at # "idle" /\ op[t].a \in Agents
    BY DEF StoreField, Heartbeat, SetOffline, Claim, Release, Rename, OpAt, RegistryInv, OpInv
  <2>2. record' \in [Agents -> Records]
    <3>1. /\ op[t].got \in Records /\ [op[t].got EXCEPT !.status = "offline"] \in Records
          /\ [op[t].got EXCEPT !.alias = op[t].x] \in Records
      BY <2>1, OpTypes, RecordMarks, RecordNames
    <3> QED
      BY <2>1, <3>1 DEF StoreField, Heartbeat, SetOffline, Claim, Release, Rename, Put, Got,
                        RegistryInv, RegistryTypeOK
  <2>3. named' \in [Aliases -> Agents \cup {NoName}]
    BY <2>1 DEF StoreField, Claim, Release, Rename, Got, Ops, RegistryInv, RegistryTypeOK
  <2> QED
    BY <1>1, <2>2, <2>3 DEF StoreField, Claim, Release, Rename, RegistryInv, RegistryTypeOK, OpInv, Ops
<1> QED
  BY <1>1, <1>2 DEF RegistryInv
LEMMA CertsPreserve ==
  ASSUME RegistryInv, NEW t \in Handlers, Revoke(t) \/ Bar(t) \/ Reissue(t) \/ FetchAgain(t) \/ Swap(t)
  PROVE  RegistryInv'
<1> USE ConstantFacts DEF Got
<1>1. op[t] \in Ops /\ op[t].at # "idle" /\ op[t].a \in Agents
  BY DEF Revoke, Bar, Reissue, FetchAgain, Swap, OpAt, RegistryInv, OpInv
<1>2. issued' \in Certs /\ (Reissue(t) => issued + 1 \in Certs)
  BY RegistryAssumption
     DEF Revoke, Bar, Reissue, FetchAgain, Swap, RegistryInv, RegistryTypeOK, Certs
<1>3. revoked' \subseteq Certs \ {0} /\ retired' \subseteq revoked' /\ revoked \subseteq revoked'
  BY <1>1 DEF Revoke, Bar, Reissue, FetchAgain, Swap, RegistryInv, RegistryTypeOK, BarInv, Ops, Records
<1>4. record' \in [Agents -> Records] /\ devCert' \in [Agents -> Certs]
  <2>1. /\ [op[t].got EXCEPT !.barred = TRUE] \in Records
        /\ [op[t].got EXCEPT !.cert = op[t].cert, !.barred = FALSE] \in Records
        /\ op[t].cert \in Certs
    BY <1>1, OpTypes, RecordMarks, RecordCerts
  <2> QED
    BY <1>1, <2>1 DEF Revoke, Bar, Reissue, FetchAgain, Swap, Put, RegistryInv, RegistryTypeOK
<1>5. OpInv' /\ BarInv' /\ UncheckedInv'
  <2>1. CASE op' = [op EXCEPT ![t] = NoOp]
    BY <1>3, <2>1, OpMoves
  <2>2. CASE Revoke(t)
    <3> DEFINE o == [op[t] EXCEPT !.at = "bar"]
    <3>1. o \in Ops /\ o.at = "bar" /\ o.a \in Agents /\ o.got = op[t].got
      <4>1. "bar" \in OpStates
        BY DEF OpStates
      <4> QED
        BY ONLY <1>1, <4>1, OpSteps
    <3>2. op' = [op EXCEPT ![t] = o] /\ o.got.cert \in revoked' \cup {0}
      BY <2>2, <3>1 DEF Revoke, OpTo
    <3> QED
      BY <1>3, <3>1, <3>2, OpMoves
  <2>3. CASE Reissue(t)
    <3> DEFINE o == [op[t] EXCEPT !.at = "swap", !.cert = issued + 1]
    <3>1. o \in Ops /\ o.at = "swap" /\ o.a \in Agents
      <4>1. issued + 1 \in Certs /\ "swap" \in OpStates
        BY <1>2, <2>3 DEF OpStates
      <4> QED
        BY ONLY <1>1, <4>1, OpIssues
    <3>2. op' = [op EXCEPT ![t] = o]
      BY <2>3 DEF Reissue
    <3> QED
      BY <1>3, <3>1, <3>2, OpMoves
  <2>4. CASE FetchAgain(t) /\ Exists(op[t].a)
    <3> DEFINE o == [op[t] EXCEPT !.at = "swapped", !.got = record[op[t].a]]
    <3>1. o \in Ops /\ o.at = "swapped" /\ o.a \in Agents
      <4>1. record[op[t].a] \in Records
        BY ONLY RegistryInv, <1>1 DEF RegistryInv, RegistryTypeOK
      <4>2. "swapped" \in OpStates
        BY ONLY DEF OpStates
      <4> QED
        BY ONLY <1>1, <4>1, <4>2, OpFetches, ZenonT(60)
    <3>2. op' = [op EXCEPT ![t] = o]
      BY <2>4 DEF FetchAgain
    <3> QED
      BY <1>3, <3>1, <3>2, OpMoves
  <2> QED
    BY <2>1, <2>2, <2>3, <2>4 DEF Bar, FetchAgain, Swap, OpDone
<1> QED
  BY <1>2, <1>3, <1>4, <1>5 DEF RegistryInv, RegistryTypeOK, OpInv, Ops, Revoke, Bar, Reissue, FetchAgain, Swap

LEMMA RegisterPreserves ==
  ASSUME RegistryInv, NEW t \in Handlers,
         CheckRevoked(t) \/ Compare(t) \/ Enrol(t) \/ EnrolIssuing(t)
  PROVE  RegistryInv'
<1> USE ConstantFacts
<1>1. op[t] \in Ops /\ op[t].at # "idle" /\ op[t].a \in Agents
  BY DEF CheckRevoked, Compare, Enrol, EnrolIssuing, OpAt, RegistryInv, OpInv
<1>2. issued' \in Certs /\ (EnrolIssuing(t) => issued + 1 \in Certs)
  BY RegistryAssumption
     DEF CheckRevoked, Compare, Enrol, EnrolIssuing, RegistryInv, RegistryTypeOK, Certs
<1>3. record' \in [Agents -> Records] /\ devCert' \in [Agents -> Certs]
  <2>1. /\ [NoRecord EXCEPT !.status = "waiting", !.cert = op[t].cert] \in Records
        /\ EnrolIssuing(t) => [NoRecord EXCEPT !.status = "waiting", !.cert = issued + 1] \in Records
    BY <1>1, <1>2, OpTypes, NewRecord
  <2> QED
    BY <1>1, <1>2, <2>1
       DEF CheckRevoked, Compare, Enrol, EnrolIssuing, Put, RegistryInv, RegistryTypeOK
<1>4. UNCHANGED <<named, revoked, retired>>
  BY DEF CheckRevoked, Compare, Enrol, EnrolIssuing
<1>5. OpInv' /\ BarInv' /\ UncheckedInv'
  <2>1. CASE op' = [op EXCEPT ![t] = NoOp]
    BY <1>4, <2>1, OpMoves
  <2>2. CASE OpAt(t, "check") /\ op[t].cert \notin revoked /\ OpTo(t, "compare")
    <3> DEFINE o == [op[t] EXCEPT !.at = "compare"]
    <3>1. o \in Ops /\ o.at = "compare" /\ o.a \in Agents /\ o.late = op[t].late
      <4>1. "compare" \in OpStates
        BY ONLY DEF OpStates
      <4> QED
        BY ONLY <1>1, <4>1, OpSteps
    <3>2. op' = [op EXCEPT ![t] = o] /\ ~o.late
      BY <2>2, <3>1 DEF OpTo, RegistryInv, UncheckedInv
    <3> QED
      BY <1>4, <3>1, <3>2, OpMoves
  <2>3. CASE OpAt(t, "compare") /\ OpTo(t, "enrol")
    <3> DEFINE o == [op[t] EXCEPT !.at = "enrol"]
    <3>1. o \in Ops /\ o.at = "enrol" /\ o.a \in Agents /\ o.late = op[t].late
      <4>1. "enrol" \in OpStates
        BY ONLY DEF OpStates
      <4> QED
        BY ONLY <1>1, <4>1, OpSteps
    <3>2. op' = [op EXCEPT ![t] = o] /\ ~o.late
      BY <2>3, <3>1 DEF OpTo, RegistryInv, UncheckedInv
    <3> QED
      BY <1>4, <3>1, <3>2, OpMoves
  <2> QED
    BY <2>1, <2>2, <2>3 DEF CheckRevoked, Compare, Enrol, EnrolIssuing, OpDone
<1> QED
  BY <1>2, <1>3, <1>4, <1>5 DEF RegistryInv, RegistryTypeOK, OpInv, Ops

LEMMA ExpirePreserves == RegistryInv /\ Expire => RegistryInv'
BY ConstantFacts DEF RegistryInv, RegistryTypeOK, OpInv, BarInv, UncheckedInv, OpAt, Expire

LEMMA RegistryPreserves == RegistryInv /\ [RegistryNext]_registryVars => RegistryInv'
<1> SUFFICES ASSUME RegistryInv, [RegistryNext]_registryVars PROVE RegistryInv'
  OBVIOUS
<1>1. CASE UNCHANGED registryVars
  BY <1>1 DEF RegistryInv, RegistryTypeOK, OpInv, BarInv, UncheckedInv, OpAt, registryVars
<1>2. CASE RegistryNext
  BY <1>2, BeginPreserves, NamesPreserve, CertsPreserve, RegisterPreserves, ExpirePreserves
     DEF RegistryNext, HandlerStep
<1> QED
  BY <1>1, <1>2

LEMMA RegistryInvariant == RegistrySpec => []RegistryInv
BY RegistryStarts, RegistryPreserves, PTL DEF RegistrySpec

\* The records, the names and the certificates keep their types, and what was retired is
\* in the set that a registration looks at (registry.go).
THEOREM RegistryTypeCorrect == RegistrySpec => []RegistryTypeOK
<1>1. RegistryInv => RegistryTypeOK
  BY DEF RegistryInv
<1> QED
  BY <1>1, RegistryInvariant, PTL

\* However many handlers write over each other's records, a certificate that was retired
\* before a registration began does not pass it (hub.go, handleRegister).
THEOREM RetiredNeverEnrols == RegistrySpec => []RevokedIsRefused
<1>1. RegistryInv => RevokedIsRefused
  BY DEF RegistryInv, UncheckedInv, RevokedIsRefused
<1> QED
  BY <1>1, RegistryInvariant, PTL

-----------------------------------------------------------------------------
\* The guesses.

\* The history of late failures lasts no longer than the lockout.
LateInv == \A t \in Target : late[t] # {} => Locked(t)

LockoutInv == TypeOK /\ LateInv /\ OneGuessPerLockout

LEMMA LockoutInit == Init => LockoutInv
BY LockoutAssumption
   DEF Init, LockoutInv, TypeOK, LateInv, OneGuessPerLockout, Age

LEMMA LockoutTypeStep == TypeOK /\ [Next]_vars => TypeOK'
<1> SUFFICES ASSUME TypeOK, [Next]_vars PROVE TypeOK'
  OBVIOUS
<1> USE LockoutAssumption DEF TypeOK, Age
<1>1. ASSUME NEW v \in Viewer, NotFound(v) PROVE TypeOK'
  BY <1>1 DEF NotFound
<1>2. ASSUME NEW v \in Viewer, Fail(v) PROVE TypeOK'
  <2> DEFINE t == dialed[v]
  <2>1. t \in Target /\ dialed' \in [Viewer -> Target \cup {None}]
    BY <1>2 DEF Fail
  <2>2. count' \in [Target -> 0 .. MaxFails]
    BY <1>2, <2>1 DEF Fail
  <2>3. [i \in 1 .. MaxFails |-> IF i = 1 THEN 0 ELSE recent[t][i - 1]]
          \in [1 .. MaxFails -> 0 .. FailWindow + 1]
    BY <2>1
  <2>4. recent' \in [Target -> [1 .. MaxFails -> 0 .. FailWindow + 1]]
    BY <1>2, <2>1, <2>3 DEF Fail
  <2>5. late' \in [Target -> SUBSET Viewer]
    BY <1>2, <2>1 DEF Fail
  <2> QED
    BY <2>1, <2>2, <2>4, <2>5
<1>3. ASSUME NEW v \in Viewer, Succeed(v) PROVE TypeOK'
  BY <1>3 DEF Succeed
<1>4. ASSUME NEW v \in Viewer, NEW t \in Target, CheckRefused(v, t) PROVE TypeOK'
  BY <1>4 DEF CheckRefused, vars
<1>5. ASSUME NEW v \in Viewer, NEW t \in Target, CheckPassed(v, t) PROVE TypeOK'
  BY <1>5 DEF CheckPassed
<1>6. ASSUME Tick PROVE TypeOK'
  <2>1. recent' \in [Target -> [1 .. MaxFails -> 0 .. FailWindow + 1]]
    BY <1>6 DEF Tick
  <2>2. late' \in [Target -> SUBSET Viewer]
    BY <1>6 DEF Tick
  <2> QED
    BY <1>6, <2>1, <2>2 DEF Tick
<1>7. ASSUME UNCHANGED vars PROVE TypeOK'
  BY <1>7 DEF vars
<1> QED
  BY <1>1, <1>2, <1>3, <1>4, <1>5, <1>6, <1>7 DEF Next

(***************************************************************************)
(* A failure that comes late leaves its viewer idle and the target locked; *)
(* from there a viewer can only be let past the check once the target is   *)
(* not locked, and by then the history is empty.                           *)
(***************************************************************************)
LEMMA LateStep == LockoutInv /\ [Next]_vars => LateInv' /\ OneGuessPerLockout'
<1> SUFFICES ASSUME LockoutInv, [Next]_vars PROVE LateInv' /\ OneGuessPerLockout'
  OBVIOUS
<1> USE LockoutAssumption DEF LockoutInv, TypeOK, Age
<1>0. LateInv /\ OneGuessPerLockout
  OBVIOUS
<1>1. ASSUME NEW v \in Viewer, NotFound(v)
      PROVE  LateInv' /\ OneGuessPerLockout'
  BY <1>0, <1>1 DEF NotFound, LateInv, OneGuessPerLockout, Locked
<1>2. ASSUME NEW v \in Viewer, Fail(v) PROVE LateInv' /\ OneGuessPerLockout'
  <2>0. PICK t \in Target : t = dialed[v]
    BY <1>2 DEF Fail
  <2>1. dialed' = [dialed EXCEPT ![v] = None]
    BY <1>2 DEF Fail
  <2>2. late' = IF Locked(t) THEN [late EXCEPT ![t] = @ \cup {v}] ELSE late
    BY <1>2, <2>0 DEF Fail
  <2>3. recent'[t] = [i \in 1 .. MaxFails |-> IF i = 1 THEN 0 ELSE recent[t][i - 1]]
    BY <1>2, <2>0 DEF Fail
  <2>4. recent'[t][1] = 0
    BY <2>3
  <2>5. count[t] >= MaxFails => count'[t] >= MaxFails
    BY <1>2, <2>0 DEF Fail
  <2>6. Locked(t) => Locked(t)'
    BY <2>4, <2>5 DEF Locked
  <2>7. \A s \in Target \ {t} : Locked(s) <=> Locked(s)'
    <3>1. \A s \in Target \ {t} : count'[s] = count[s] /\ recent'[s] = recent[s]
      BY <1>2, <2>0 DEF Fail
    <3> QED
      BY <3>1 DEF Locked
  <2>8. LateInv'
    BY <1>0, <2>2, <2>6, <2>7 DEF LateInv
  <2>9. OneGuessPerLockout'
    BY <1>0, <2>0, <2>1, <2>2 DEF OneGuessPerLockout
  <2> QED
    BY <2>8, <2>9
<1>3. ASSUME NEW v \in Viewer, Succeed(v) PROVE LateInv' /\ OneGuessPerLockout'
  BY <1>0, <1>3 DEF Succeed, LateInv, OneGuessPerLockout, Locked
<1>4. ASSUME NEW v \in Viewer, NEW t \in Target, CheckRefused(v, t)
      PROVE  LateInv' /\ OneGuessPerLockout'
  BY <1>0, <1>4 DEF CheckRefused, vars, LateInv, OneGuessPerLockout, Locked
<1>5. ASSUME NEW v \in Viewer, NEW t \in Target, CheckPassed(v, t)
      PROVE  LateInv' /\ OneGuessPerLockout'
  <2>1. late[t] = {} /\ late' = late
    BY <1>0, <1>5 DEF CheckPassed, LateInv
  <2>2. \A s \in Target \ {t} : Locked(s) <=> Locked(s)'
    BY <1>5 DEF CheckPassed, Locked
  <2> QED
    BY <1>0, <1>5, <2>1, <2>2 DEF CheckPassed, LateInv, OneGuessPerLockout
<1>6. ASSUME Tick PROVE LateInv' /\ OneGuessPerLockout'
  <2>1. \A t \in Target : late'[t] = IF Locked(t)' THEN late[t] ELSE {}
    BY <1>6 DEF Tick
  <2>2. LateInv'
    BY <2>1 DEF LateInv
  <2>3. OneGuessPerLockout'
    BY <1>0, <1>6, <2>1 DEF Tick, OneGuessPerLockout
  <2> QED
    BY <2>2, <2>3
<1>7. ASSUME UNCHANGED vars PROVE LateInv' /\ OneGuessPerLockout'
  BY <1>0, <1>7 DEF vars, LateInv, OneGuessPerLockout, Locked
<1> QED
  BY <1>1, <1>2, <1>3, <1>4, <1>5, <1>6, <1>7 DEF Next

LEMMA LockoutInvariant == Spec => []LockoutInv
<1>1. LockoutInv /\ [Next]_vars => LockoutInv'
  BY LockoutTypeStep, LateStep DEF LockoutInv
<1> QED
  BY LockoutInit, <1>1, PTL DEF Spec

\* Every variable of the rate limit keeps its type.
THEOREM LockoutTypeCorrect == Spec => []TypeOK
BY LockoutInvariant, PTL DEF LockoutInv

\* A viewer gets one guess per lockout, although looking at the record and
\* counting a failure are two critical sections (hub.go:626-638, 688-693).
THEOREM LockoutOneGuess == Spec => []OneGuessPerLockout
BY LockoutInvariant, PTL DEF LockoutInv

-----------------------------------------------------------------------------
\* The accounts.

\* The records that are written, and the updates that are left of an operation.
Written == [role : Roles, password : Passwords \cup {NoEmail}, mfa : BOOLEAN]
Updates == ({"password"} \X Passwords) \cup ({"role"} \X Roles) \cup ({"mfa"} \X BOOLEAN)
Todos   == {<< >>} \cup {<<c>> : c \in Updates} \cup {<<c, d>> : c, d \in Updates}
Works   == [at : {"idle", "fetch", "store", "list", "delete", "unlist"}, of : Emails \cup {NoEmail},
            todo : Todos, got : Written \cup {NoAccount}, from : Written \cup {NoAccount}]

\* A record after the updates that are left.
After(r, todo) == IF todo = << >> THEN r
                  ELSE IF Len(todo) = 1 THEN Set(r, todo[1]) ELSE Set(Set(r, todo[1]), todo[2])

RecordsInv ==
  /\ account \in [Emails -> Written \cup {NoAccount}] /\ want \in [Emails -> Written \cup {NoAccount}]
  /\ index \subseteq Emails /\ crossed \subseteq Emails /\ loose \subseteq Emails /\ serving \in BOOLEAN
  /\ token \in [Emails -> Roles \cup {"none"}]

RequestInv ==
  /\ request \in [Requests \cup {Start} -> Works]
  /\ \A t \in DOMAIN request : /\ request[t].at = "idle" <=> request[t].of = NoEmail
                               /\ request[t].at = "store" => request[t].got \in Written
                               /\ request[t].at = "fetch" => request[t].todo # << >>

\* An operation that is not crossed is alone on its account.
AloneInv ==
  \A t, u \in DOMAIN request :
    request[t].of = request[u].of /\ request[t].of \in Emails \ crossed => t = u

\* What an operation that is not crossed has left to do leads to what is wanted.
LeadsInv ==
  \A t \in DOMAIN request :
    LET e == request[t].of   todo == request[t].todo
    IN  e \in Emails \ crossed =>
          /\ request[t].at \in {"fetch", "store", "delete"} /\ e \notin loose => (e \in index <=> Known(e))
          /\ request[t].at = "fetch" => want[e] = IF Known(e) THEN After(account[e], todo) ELSE NoAccount
          /\ request[t].at = "store" => want[e] = After(request[t].got, todo)
          /\ request[t].at = "list" => Known(e) /\ want[e] = After(account[e], todo)
          /\ request[t].at \in {"delete", "unlist"} => want[e] = NoAccount
          /\ request[t].at = "unlist" => account[e] = NoAccount

AccountsInv == RecordsInv /\ RequestInv /\ AloneInv /\ LeadsInv /\ FinishedAsWanted

LEMMA RoleFacts == "none" \notin Roles /\ NoAccount \notin Written /\ "admin" \in Roles
BY AccountsAssumption DEF NoAccount, Written

LEMMA SetWrites ==
  ASSUME NEW r \in Written, NEW c \in Updates
  PROVE  Set(r, c) \in Written
<1>1. \/ c[1] = "password" /\ c[2] \in Passwords
      \/ c[1] = "role" /\ c[2] \in Roles
      \/ c[1] = "mfa" /\ c[2] \in BOOLEAN
  BY DEF Updates
<1>2. CASE c[1] = "password" /\ c[2] \in Passwords
  BY <1>2 DEF Set, Written
<1>3. CASE c[1] = "role" /\ c[2] \in Roles
  BY <1>3 DEF Set, Written
<1>4. CASE c[1] = "mfa" /\ c[2] \in BOOLEAN
  BY <1>4 DEF Set, Written
<1> QED
  BY <1>1, <1>2, <1>3, <1>4

LEMMA TodoFacts ==
  ASSUME NEW todo \in Todos, NEW r \in Written
  PROVE  /\ After(r, todo) \in Written
         /\ todo # << >> =>
              /\ Head(todo) \in Updates /\ Tail(todo) \in Todos
              /\ Set(r, Head(todo)) \in Written
              /\ After(r, todo) = After(Set(r, Head(todo)), Tail(todo))
<1>1. CASE todo = << >>
  BY <1>1 DEF After
<1>2. ASSUME NEW c \in Updates, todo = <<c>>
      PROVE  /\ After(r, todo) \in Written /\ Head(todo) \in Updates /\ Tail(todo) \in Todos
             /\ Set(r, Head(todo)) \in Written
             /\ After(r, todo) = After(Set(r, Head(todo)), Tail(todo))
  <2>1. Head(todo) = c /\ Tail(todo) = << >> /\ Len(todo) = 1 /\ todo # << >> /\ todo[1] = c
    BY <1>2
  <2> QED
    BY <2>1, <1>2, SetWrites DEF After, Todos
<1>3. ASSUME NEW c \in Updates, NEW d \in Updates, todo = <<c, d>>
      PROVE  /\ After(r, todo) \in Written /\ Head(todo) \in Updates /\ Tail(todo) \in Todos
             /\ Set(r, Head(todo)) \in Written
             /\ After(r, todo) = After(Set(r, Head(todo)), Tail(todo))
  <2>1. /\ Head(todo) = c /\ Tail(todo) = <<d>> /\ Len(todo) = 2 /\ todo # << >>
        /\ todo[1] = c /\ todo[2] = d /\ Len(<<d>>) = 1 /\ <<d>> # << >> /\ <<d>>[1] = d
    BY <1>3
  <2>2. Set(r, c) \in Written /\ Set(Set(r, c), d) \in Written
    BY SetWrites
  <2>3. After(r, todo) = Set(Set(r, c), d) /\ After(Set(r, c), <<d>>) = Set(Set(r, c), d)
    BY <2>1 DEF After
  <2>4. <<d>> \in Todos
    BY DEF Todos
  <2> QED
    BY <2>1, <2>2, <2>3, <2>4
<1> QED
  BY <1>1, <1>2, <1>3 DEF Todos

LEMMA AccountsStart == AccountsInit => AccountsInv
<1> SUFFICES ASSUME AccountsInit PROVE AccountsInv
  OBVIOUS
<1> USE DEF AccountsInit
<1>1. RecordsInv
  BY AccountsAssumption DEF RecordsInv
<1>2. RequestInv
  BY AccountsAssumption DEF RequestInv, Works, NoRequest, Todos
<1>3. AloneInv /\ LeadsInv
  BY AccountsAssumption DEF AloneInv, LeadsInv, NoRequest
<1>4. FinishedAsWanted
  BY DEF FinishedAsWanted, Known
<1> QED
  BY <1>1, <1>2, <1>3, <1>4 DEF AccountsInv

\* An operation that begins.
LEMMA LaunchPreserves ==
  ASSUME AccountsInv, NEW t \in Requests \cup {Start}, NEW e \in Emails,
         NEW at \in {"fetch", "store", "delete"}, NEW todo \in Todos,
         NEW got \in Written \cup {NoAccount}, NEW wanted \in Written \cup {NoAccount},
         Launch(t, e, at, todo, got, wanted),
         at = "store" => got \in Written /\ todo = << >> /\ wanted = got,
         at = "fetch" => todo # << >> /\ wanted = Changed(e, todo),
         at = "delete" => wanted = NoAccount
  PROVE  AccountsInv'
<1>1. RecordsInv /\ RequestInv /\ AloneInv /\ LeadsInv /\ FinishedAsWanted
  BY DEF AccountsInv
<1> DEFINE from == IF e \in crossed' THEN NoAccount ELSE want[e]
           work == [at |-> at, of |-> e, todo |-> todo, got |-> got, from |-> from]
<1>2. /\ request' = [request EXCEPT ![t] = work]
      /\ UNCHANGED <<account, index, token, serving>> /\ request[t].at = "idle"
      /\ loose' = loose \ crossed'
      /\ crossed' = IF Busy(e) THEN crossed \cup {e} ELSE crossed
      /\ want' = [want EXCEPT ![e] = IF e \in crossed' THEN NoAccount ELSE wanted]
  BY DEF Launch
<1>3. /\ DOMAIN request = Requests \cup {Start} /\ DOMAIN request' = Requests \cup {Start}
      /\ request'[t].at = at /\ request'[t].of = e /\ request'[t].todo = todo /\ request'[t].got = got
      /\ \A u \in DOMAIN request : u # t => request'[u] = request[u]
      /\ request[t].of = NoEmail
  BY <1>1, <1>2 DEF RequestInv, Works
<1>4. RecordsInv'
  BY <1>1, <1>2 DEF RecordsInv
<1>5. RequestInv'
  <2>1. work \in Works
    BY <1>1 DEF Works, RecordsInv
  <2>2. request' \in [Requests \cup {Start} -> Works]
    BY <1>1, <1>2, <2>1 DEF RequestInv
  <2>3. \A u \in DOMAIN request' : /\ request'[u].at = "idle" <=> request'[u].of = NoEmail
                                   /\ request'[u].at = "store" => request'[u].got \in Written
                                   /\ request'[u].at = "fetch" => request'[u].todo # << >>
    BY <1>1, <1>3, AccountsAssumption DEF RequestInv
  <2> QED
    BY <2>2, <2>3 DEF RequestInv
<1>6. AloneInv'
  BY <1>1, <1>2, <1>3, AccountsAssumption DEF AloneInv, Busy
<1>7. /\ \A d \in Emails \ crossed' : d \in Emails \ crossed /\ (d # e => want'[d] = want[d])
      /\ e \in Emails \ crossed' => want'[e] = wanted /\ ~Busy(e)
  BY <1>1, <1>2 DEF RecordsInv
<1>8. e \in Emails \ crossed' =>
        /\ want[e] = account[e] /\ (e \notin loose => (e \in index <=> Known(e)))
        /\ at = "fetch" => wanted = IF Known(e) THEN After(account[e], todo) ELSE NoAccount
  <2> SUFFICES ASSUME e \in Emails \ crossed'
               PROVE  /\ want[e] = account[e] /\ (e \notin loose => (e \in index <=> Known(e)))
                      /\ at = "fetch" => wanted = IF Known(e) THEN After(account[e], todo) ELSE NoAccount
    OBVIOUS
  <2>1. want[e] = account[e] /\ (e \notin loose => (e \in index <=> Known(e)))
    BY <1>1, <1>7 DEF FinishedAsWanted
  <2>2. ASSUME at = "fetch" PROVE Changed(e, todo) = IF Known(e) THEN After(account[e], todo) ELSE NoAccount
    <3>1. todo # << >>
      BY <2>2
    <3>2. \/ \E c \in Updates : todo = <<c>>
          \/ \E c, d \in Updates : todo = <<c, d>>
      BY <3>1 DEF Todos
    <3>3. ASSUME NEW c \in Updates, todo = <<c>>
          PROVE  Changed(e, todo) = IF Known(e) THEN After(account[e], todo) ELSE NoAccount
      BY <2>1, <3>3 DEF Changed, Known, After, Set
    <3>4. ASSUME NEW c \in Updates, NEW d \in Updates, todo = <<c, d>>
          PROVE  Changed(e, todo) = IF Known(e) THEN After(account[e], todo) ELSE NoAccount
      <4>1. Len(todo) = 2 /\ todo[1] = c /\ todo[2] = d /\ todo # << >>
        BY <3>4
      <4> QED
        BY <2>1, <4>1 DEF Changed, Known, After, Set
    <3> QED
      BY <3>2, <3>3, <3>4
  <2> QED
    BY <2>1, <2>2
<1>9. LeadsInv'
  <2> SUFFICES ASSUME NEW u \in DOMAIN request', NEW d \in Emails \ crossed', request'[u].of = d
               PROVE  /\ request'[u].at \in {"fetch", "store", "delete"} /\ d \notin loose' =>
                           (d \in index' <=> account'[d] # NoAccount)
                      /\ request'[u].at = "fetch" =>
                           want'[d] = IF account'[d] # NoAccount
                                        THEN After(account'[d], request'[u].todo) ELSE NoAccount
                      /\ request'[u].at = "store" => want'[d] = After(request'[u].got, request'[u].todo)
                      /\ request'[u].at = "list" =>
                           account'[d] # NoAccount /\ want'[d] = After(account'[d], request'[u].todo)
                      /\ request'[u].at \in {"delete", "unlist"} => want'[d] = NoAccount
                      /\ request'[u].at = "unlist" => account'[d] = NoAccount
    BY DEF LeadsInv, Known
  <2>1. CASE u = t
    BY <1>2, <1>3, <1>7, <1>8, <2>1 DEF Known, After
  <2>2. CASE u # t
    <3>1. request'[u] = request[u] /\ u \in DOMAIN request
      BY <1>3, <2>2
    <3>2. request[u].of # e
      BY <1>7, <3>1 DEF Busy
    <3> QED
      BY <1>1, <1>2, <1>7, <3>1, <3>2 DEF LeadsInv, Known
  <2> QED
    BY <2>1, <2>2
<1>10. FinishedAsWanted'
  <2> SUFFICES ASSUME NEW d \in Emails \ crossed', ~Busy(d)'
               PROVE  account'[d] = want'[d] /\ (d \notin loose' => (d \in index' <=> Known(d)'))
    BY DEF FinishedAsWanted
  <2>1. d # e /\ ~Busy(d)
    BY <1>3, AccountsAssumption DEF Busy
  <2> QED
    BY <1>1, <1>2, <1>7, <2>1 DEF FinishedAsWanted, Known
<1> QED
  BY <1>4, <1>5, <1>6, <1>9, <1>10 DEF AccountsInv

\* A step of the store on behalf of an operation: it takes the steps of no other account.
LEMMA StorePreserves ==
  ASSUME AccountsInv, NEW t \in Requests \cup {Start}, StoreStep(t)
  PROVE  AccountsInv'
<1>1. RecordsInv /\ RequestInv /\ AloneInv /\ LeadsInv /\ FinishedAsWanted
  BY DEF AccountsInv
<1>2. /\ UNCHANGED <<token, want, crossed>> /\ t \in DOMAIN request
      /\ request \in [Requests \cup {Start} -> Works]
  BY <1>1 DEF StoreStep, RequestInv
<1>3. PICK o \in Works : o = request[t] /\ (o.at = "store" => o.got \in Written)
                           /\ (o.at = "fetch" => o.todo # << >>)
  BY <1>1, <1>2 DEF RequestInv
<1>4. PICK e \in Emails \cup {NoEmail} : e = o.of
  BY <1>3 DEF Works
<1>5. o.at # "idle" => e \in Emails
  BY <1>1, <1>2, <1>3, <1>4 DEF RequestInv
\* What is left to show of a step that leads from o to n and changes e alone.
<1>6. ASSUME NEW n \in Works, request' = [request EXCEPT ![t] = n],
             e \in Emails, n.of = e \/ n = NoRequest,
             n.at = "idle" <=> n.of = NoEmail, n.at = "store" => n.got \in Written,
             n.at = "fetch" => n.todo # << >>,
             account' \in [Emails -> Written \cup {NoAccount}], index' \subseteq Emails,
             \A d \in Emails : d # e => account'[d] = account[d] /\ (d \in index' <=> d \in index),
             serving' \in BOOLEAN, loose' \in {loose, loose \ {e}},
             e \notin crossed =>
               /\ n.at \in {"fetch", "store", "delete", "idle"} /\ e \notin loose' =>
                    (e \in index' <=> account'[e] # NoAccount)
               /\ n.at = "fetch" =>
                    want[e] = IF account'[e] # NoAccount THEN After(account'[e], n.todo) ELSE NoAccount
               /\ n.at = "store" => want[e] = After(n.got, n.todo)
               /\ n.at = "list" => account'[e] # NoAccount /\ want[e] = After(account'[e], n.todo)
               /\ n.at \in {"delete", "unlist"} => want[e] = NoAccount
               /\ n.at = "unlist" => account'[e] = NoAccount
               /\ n.at = "idle" => account'[e] = want[e]
      PROVE  AccountsInv'
  <2>1. /\ DOMAIN request = Requests \cup {Start} /\ DOMAIN request' = Requests \cup {Start}
        /\ request'[t] = n /\ \A u \in DOMAIN request : u # t => request'[u] = request[u]
    BY <1>2, <1>6
  <2>2. RecordsInv'
    BY <1>1, <1>2, <1>6 DEF RecordsInv
  <2>3. RequestInv'
    <3>1. request' \in [Requests \cup {Start} -> Works]
      BY <1>2, <1>6
    <3>2. \A u \in DOMAIN request' : /\ request'[u].at = "idle" <=> request'[u].of = NoEmail
                                     /\ request'[u].at = "store" => request'[u].got \in Written
                                     /\ request'[u].at = "fetch" => request'[u].todo # << >>
      BY <1>1, <1>6, <2>1 DEF RequestInv
    <3> QED
      BY <3>1, <3>2 DEF RequestInv, Works
  <2>4. AloneInv'
    <3>1. \A u \in DOMAIN request : request'[u].of \in Emails => request'[u].of = request[u].of
      BY <1>3, <1>4, <1>6, <2>1, AccountsAssumption DEF NoRequest
    <3> QED
      BY <1>1, <1>2, <2>1, <3>1 DEF AloneInv
  <2>5. LeadsInv'
    <3> SUFFICES ASSUME NEW u \in DOMAIN request', NEW d \in Emails \ crossed', request'[u].of = d
                 PROVE  /\ request'[u].at \in {"fetch", "store", "delete"} /\ d \notin loose' =>
                             (d \in index' <=> account'[d] # NoAccount)
                        /\ request'[u].at = "fetch" =>
                             want'[d] = IF account'[d] # NoAccount
                                          THEN After(account'[d], request'[u].todo) ELSE NoAccount
                        /\ request'[u].at = "store" => want'[d] = After(request'[u].got, request'[u].todo)
                        /\ request'[u].at = "list" =>
                             account'[d] # NoAccount /\ want'[d] = After(account'[d], request'[u].todo)
                        /\ request'[u].at \in {"delete", "unlist"} => want'[d] = NoAccount
                        /\ request'[u].at = "unlist" => account'[d] = NoAccount
      BY DEF LeadsInv, Known
    <3>1. CASE u = t
      <4>1. d = e /\ request'[u] = n /\ e \notin crossed /\ want' = want
        BY <1>2, <1>6, <2>1, <3>1, AccountsAssumption DEF NoRequest
      <4> QED
        BY <1>6, <4>1
    <3>2. CASE u # t
      <4>1. request'[u] = request[u] /\ u \in DOMAIN request /\ d \in Emails \ crossed /\ want' = want
        BY <1>2, <2>1, <3>2
      <4>2. d # e
        BY <1>1, <1>2, <1>3, <1>4, <3>2, <4>1 DEF AloneInv
      <4> QED
        BY <1>1, <1>6, <4>1, <4>2 DEF LeadsInv, Known
    <3> QED
      BY <3>1, <3>2
  <2>6. FinishedAsWanted'
    <3> SUFFICES ASSUME NEW d \in Emails \ crossed', ~Busy(d)'
                 PROVE  account'[d] = want'[d] /\ (d \notin loose' => (d \in index' <=> account'[d] # NoAccount))
      BY DEF FinishedAsWanted, Known
    <3>1. CASE d = e
      <4>1. n.of # e
        BY <2>1, <3>1 DEF Busy
      <4>2. n.at = "idle" /\ e \notin crossed /\ want' = want
        BY <1>2, <1>6, <3>1, <4>1 DEF NoRequest
      <4> QED
        BY <1>6, <3>1, <4>2
    <3>2. CASE d # e
      <4>1. ~Busy(d)
        BY <1>3, <1>4, <2>1, <3>2 DEF Busy
      <4> QED
        BY <1>1, <1>2, <1>6, <3>2, <4>1 DEF FinishedAsWanted, Known
    <3> QED
      BY <3>1, <3>2
  <2> QED
    BY <2>2, <2>3, <2>4, <2>5, <2>6 DEF AccountsInv
<1>7. /\ account \in [Emails -> Written \cup {NoAccount}] /\ index \subseteq Emails /\ serving \in BOOLEAN
      /\ \A d \in Emails : account[d] # NoAccount => account[d] \in Written
      /\ NoRequest \in Works /\ NoRequest.at = "idle" /\ NoRequest.of = NoEmail
      /\ \A p \in {"fetch", "list", "unlist", "store"} :
           LET m == [o EXCEPT !.at = p]
           IN  m \in Works /\ m.at = p /\ m.of = o.of /\ m.todo = o.todo /\ m.got = o.got
  BY <1>1 DEF RecordsInv, NoRequest, Works, Todos
<1>8. e \in Emails /\ e \notin crossed =>
        /\ o.at \in {"fetch", "store", "delete"} /\ e \notin loose => (e \in index <=> account[e] # NoAccount)
        /\ o.at = "fetch" =>
             want[e] = IF account[e] # NoAccount THEN After(account[e], o.todo) ELSE NoAccount
        /\ o.at = "store" => want[e] = After(o.got, o.todo)
        /\ o.at = "list" => account[e] # NoAccount /\ want[e] = After(account[e], o.todo)
        /\ o.at \in {"delete", "unlist"} => want[e] = NoAccount
        /\ o.at = "unlist" => account[e] = NoAccount
  BY <1>1, <1>2, <1>3, <1>4 DEF LeadsInv, Known
<1>9. CASE FetchUser(t)
  <2>1. o.at = "fetch" /\ e \in Emails /\ UNCHANGED <<account, index, serving, loose>> /\ o.todo # << >> /\ o.todo \in Todos
    BY <1>1, <1>2, <1>3, <1>5, <1>9 DEF FetchUser, Steps, RequestInv, Works
  <2>2. CASE Known(e)
    <3>1. /\ Set(account[e], Head(o.todo)) \in Written /\ Tail(o.todo) \in Todos
          /\ After(account[e], o.todo) = After(Set(account[e], Head(o.todo)), Tail(o.todo))
      BY <1>7, <2>1, <2>2, TodoFacts DEF Known
    <3>2. PICK n \in Works : /\ n = [o EXCEPT !.at = "store", !.todo = Tail(o.todo),
                                             !.got = Set(account[e], Head(o.todo))]
                            /\ n.at = "store" /\ n.of = e /\ n.todo = Tail(o.todo)
                            /\ n.got = Set(account[e], Head(o.todo))
      <4> DEFINE n == [o EXCEPT !.at = "store", !.todo = Tail(o.todo), !.got = Set(account[e], Head(o.todo))]
      <4>1. n \in Works
        BY <3>1 DEF Works
      <4>2. n.at = "store" /\ n.of = e /\ n.todo = Tail(o.todo) /\ n.got = Set(account[e], Head(o.todo))
        BY <1>4 DEF Works
      <4> QED
        BY <4>1, <4>2
    <3>3. request' = [request EXCEPT ![t] = n]
      <4>1. request' = [request EXCEPT ![t] = [request[t] EXCEPT !.at = "store", !.todo = Tail(request[t].todo),
                                       !.got = Set(account[request[t].of], Head(request[t].todo))]]
        BY <1>3, <1>4, <1>9, <2>2, Zenon DEF FetchUser
      <4> QED
        BY <1>3, <1>4, <3>2, <4>1
    <3>4. e \notin crossed => /\ want[e] = After(n.got, n.todo)
                             /\ (e \notin loose' => (e \in index' <=> account'[e] # NoAccount))
      BY <1>8, <2>1, <2>2, <3>1, <3>2 DEF Known
    <3>5. e # NoEmail /\ n.got \in Written /\ account' = account /\ index' = index /\ serving' \in BOOLEAN
      BY <1>7, <2>1, <3>1, <3>2, AccountsAssumption
    <3> QED
      BY <1>6, <1>7, <2>1, <3>2, <3>3, <3>4, <3>5
  <2>3. CASE ~Known(e)
    <3>1. request' = [request EXCEPT ![t] = NoRequest]
      BY <1>3, <1>4, <1>9, <2>3 DEF FetchUser, Then
    <3> QED
      BY <1>6, <1>7, <1>8, <2>1, <2>3, <3>1 DEF Known
  <2> QED
    BY <2>2, <2>3
<1>10. CASE StoreUser(t)
  <2>1. /\ o.at = "store" /\ e \in Emails /\ UNCHANGED <<index, serving, loose>> /\ o.got \in Written
        /\ account' = [account EXCEPT ![e] = o.got] /\ request' = [request EXCEPT ![t].at = "list"]
    BY <1>1, <1>2, <1>3, <1>4, <1>5, <1>10 DEF StoreUser, Steps, Then, RequestInv
  <2>2. PICK n \in Works : n.at = "list" /\ n.of = e /\ n.todo = o.todo /\ n = [o EXCEPT !.at = "list"]
    BY <1>4, <1>7
  <2>3. request' = [request EXCEPT ![t] = n]
    BY <1>2, <1>3, <2>1, <2>2
  <2>4. /\ account' \in [Emails -> Written \cup {NoAccount}] /\ account'[e] = o.got /\ o.got # NoAccount
        /\ \A d \in Emails : d # e => account'[d] = account[d]
    BY <1>7, <2>1, RoleFacts
  <2>5. e \notin crossed => account'[e] # NoAccount /\ want[e] = After(account'[e], n.todo)
    BY <1>8, <2>1, <2>2, <2>4
  <2> QED
    BY <1>6, <1>7, <2>1, <2>2, <2>3, <2>4, <2>5, AccountsAssumption
<1>11. CASE ListUser(t)
  <2>1. /\ o.at = "list" /\ e \in Emails /\ UNCHANGED account /\ index' = index \cup {e}
        /\ loose' = loose \ {e}
        /\ serving' \in BOOLEAN
        /\ Then(t, IF o.todo = << >> THEN "idle" ELSE "fetch")
    BY <1>2, <1>3, <1>4, <1>5, <1>7, <1>11 DEF ListUser, Steps
  <2>2. CASE o.todo = << >>
    <3>1. request' = [request EXCEPT ![t] = NoRequest]
      BY <2>1, <2>2 DEF Then
    <3>2. e \notin crossed => account'[e] = want[e] /\ e \in index' /\ account'[e] # NoAccount
      BY <1>8, <2>1, <2>2 DEF After
    <3> QED
      BY <1>6, <1>7, <2>1, <3>1, <3>2
  <2>3. CASE o.todo # << >>
    <3>1. PICK n \in Works : n.at = "fetch" /\ n.of = e /\ n.todo = o.todo /\ n = [o EXCEPT !.at = "fetch"]
      BY <1>4, <1>7
    <3>2. request' = [request EXCEPT ![t] = n]
      BY <1>2, <1>3, <2>1, <2>3, <3>1 DEF Then
    <3>3. e \notin crossed =>
            e \in index' /\ account'[e] # NoAccount /\ want[e] = After(account'[e], n.todo)
      BY <1>8, <2>1, <3>1
    <3>4. \A d \in Emails : d # e => account'[d] = account[d] /\ (d \in index' <=> d \in index)
      BY <2>1
    <3>5. e # NoEmail /\ account' \in [Emails -> Written \cup {NoAccount}] /\ index' \subseteq Emails
      BY <1>7, <2>1, AccountsAssumption
    <3>6. n.of # NoEmail /\ n.at # "idle" /\ n.at # "store" /\ n.at # "list"
          /\ n.at \notin {"delete", "unlist"} /\ n.at # "unlist" /\ n.todo # << >>
      BY <2>3, <3>1, <3>5
    <3>7. e \notin crossed =>
            /\ e \in index' <=> account'[e] # NoAccount
            /\ want[e] = IF account'[e] # NoAccount THEN After(account'[e], n.todo) ELSE NoAccount
      BY <3>3
    <3> QED
      BY <1>6, <2>1, <3>1, <3>2, <3>4, <3>5, <3>6, <3>7
  <2> QED
    BY <2>2, <2>3
<1>12. CASE Delete(t)
  <2>1. /\ o.at = "delete" /\ e \in Emails /\ UNCHANGED <<index, serving, loose>>
        /\ account' = [account EXCEPT ![e] = NoAccount] /\ request' = [request EXCEPT ![t].at = "unlist"]
    BY <1>2, <1>3, <1>4, <1>5, <1>12 DEF Delete, Steps, Then
  <2>2. PICK n \in Works : n.at = "unlist" /\ n.of = e /\ n.todo = o.todo /\ n = [o EXCEPT !.at = "unlist"]
    BY <1>4, <1>7
  <2>3. request' = [request EXCEPT ![t] = n]
    BY <1>2, <1>3, <2>1, <2>2
  <2>4. /\ account' \in [Emails -> Written \cup {NoAccount}] /\ account'[e] = NoAccount
        /\ \A d \in Emails : d # e => account'[d] = account[d]
    BY <1>7, <2>1
  <2> QED
    BY <1>6, <1>7, <1>8, <2>1, <2>2, <2>3, <2>4, AccountsAssumption
<1>13. CASE Unlist(t)
  <2>1. /\ o.at = "unlist" /\ e \in Emails /\ UNCHANGED <<account, serving>>
        /\ index' = index \ {e} /\ request' = [request EXCEPT ![t] = NoRequest]
        /\ loose' = loose \ {e}
    BY <1>2, <1>3, <1>4, <1>5, <1>13 DEF Unlist, Steps, Then
  <2> QED
    BY <1>6, <1>7, <1>8, <2>1
<1> QED
  BY <1>9, <1>10, <1>11, <1>12, <1>13 DEF StoreStep

\* Operations that are cut off.
LEMMA CutPreserves ==
  ASSUME AccountsInv, NEW T \in SUBSET (Requests \cup {Start}), CutOff(T), serving' \in BOOLEAN
  PROVE  AccountsInv'
<1> DEFINE cut == {request[t].of : t \in T} \ (crossed \cup {NoEmail})
<1>1. RecordsInv /\ RequestInv /\ AloneInv /\ LeadsInv /\ FinishedAsWanted
  BY DEF AccountsInv
<1>2. /\ DOMAIN request = Requests \cup {Start} /\ DOMAIN request' = Requests \cup {Start}
      /\ \A t \in DOMAIN request : request'[t] = IF t \in T THEN NoRequest ELSE request[t]
      /\ UNCHANGED <<account, index, token, crossed>>
      /\ \A e \in Emails : want'[e] = IF e \in cut THEN account[e] ELSE want[e]
      /\ loose' = loose \cup {e \in cut : \E t \in T : request[t].of = e
                                                      /\ request[t].at \in {"list", "unlist"}}
  BY <1>1 DEF CutOff, RequestInv
<1>3. cut \subseteq Emails
  BY <1>1 DEF RequestInv, Works
<1>4. NoRequest \in Works /\ NoRequest.of = NoEmail /\ NoRequest.at = "idle"
  BY DEF NoRequest, Works, Todos
<1>5. RecordsInv'
  <2>1. want' \in [Emails -> Written \cup {NoAccount}]
    BY <1>1 DEF CutOff, RecordsInv
  <2> QED
    BY <1>1, <1>2, <1>3, <2>1 DEF RecordsInv
<1>6. RequestInv'
  <2>1. request' \in [Requests \cup {Start} -> Works]
    BY <1>1, <1>4 DEF CutOff, RequestInv
  <2> QED
    BY <1>1, <1>2, <1>4, <2>1 DEF RequestInv
<1>7. AloneInv'
  BY <1>1, <1>2, <1>4, AccountsAssumption DEF AloneInv
<1> HIDE DEF cut
\* What is under way, and not cut off, is of other accounts than those cut off.
<1>8. ASSUME NEW t \in DOMAIN request', NEW e \in Emails \ crossed, request'[t].of = e
      PROVE  /\ request'[t] = request[t] /\ t \notin T /\ want'[e] = want[e]
             /\ e \in loose' <=> e \in loose
  <2>1. t \in DOMAIN request /\ t \notin T /\ request'[t] = request[t]
    BY <1>2, <1>4, <1>8, AccountsAssumption
  <2>2. e \notin cut
    <3>1. ASSUME e \in cut PROVE FALSE
      <4>1. PICK u \in T : request[u].of = e
        BY <3>1 DEF cut
      <4>2. u = t
        BY <1>1, <1>2, <1>8, <2>1, <4>1 DEF AloneInv
      <4> QED
        BY <2>1, <4>2
    <3> QED
      BY <3>1
  <2> QED
    BY <1>2, <2>1, <2>2
<1>9. LeadsInv'
  <2> SUFFICES ASSUME NEW t \in DOMAIN request', NEW e \in Emails \ crossed', request'[t].of = e
               PROVE  /\ request'[t].at \in {"fetch", "store", "delete"} /\ e \notin loose' =>
                           (e \in index' <=> account'[e] # NoAccount)
                      /\ request'[t].at = "fetch" =>
                           want'[e] = IF account'[e] # NoAccount
                                      THEN After(account'[e], request'[t].todo) ELSE NoAccount
                      /\ request'[t].at = "store" => want'[e] = After(request'[t].got, request'[t].todo)
                      /\ request'[t].at = "list" =>
                           account'[e] # NoAccount /\ want'[e] = After(account'[e], request'[t].todo)
                      /\ request'[t].at \in {"delete", "unlist"} => want'[e] = NoAccount
                      /\ request'[t].at = "unlist" => account'[e] = NoAccount
    BY DEF LeadsInv, Known
  <2>1. request'[t] = request[t] /\ want'[e] = want[e] /\ (e \in loose' <=> e \in loose)
    BY <1>2, <1>8
  <2> QED
    BY <1>1, <1>2, <2>1 DEF LeadsInv, Known
<1>10. FinishedAsWanted'
  <2> SUFFICES ASSUME NEW e \in Emails \ crossed', ~Busy(e)'
               PROVE  account'[e] = want'[e] /\ (e \notin loose' => (e \in index' <=> account'[e] # NoAccount))
    BY DEF FinishedAsWanted, Known
  <2>1. CASE e \in cut
    <3>1. PICK u \in T : request[u].of = e
      BY <2>1 DEF cut
    <3>2. /\ u \in DOMAIN request
          /\ request[u].at \in {"fetch", "store", "list", "delete", "unlist"}
      BY <1>1, <1>2, <3>1, AccountsAssumption DEF RequestInv, Works
    <3>3. e \notin loose' => request[u].at \in {"fetch", "store", "delete"} /\ e \notin loose
      BY <1>2, <2>1, <3>1, <3>2
    <3> QED
      BY <1>1, <1>2, <2>1, <3>1, <3>2, <3>3 DEF LeadsInv, Known
  <2>2. CASE e \notin cut
    <3>1. ~Busy(e)
      <4>1. ASSUME NEW t \in DOMAIN request, request[t].of = e PROVE FALSE
        <5>1. t \notin T
          BY <1>2, <2>2, <4>1, AccountsAssumption DEF cut
        <5> QED
          BY <1>2, <4>1, <5>1 DEF Busy
      <4> QED
        BY <4>1 DEF Busy
    <3> QED
      BY <1>1, <1>2, <2>2, <3>1 DEF FinishedAsWanted, Known
  <2> QED
    BY <2>1, <2>2
<1> QED
  BY <1>5, <1>6, <1>7, <1>9, <1>10 DEF AccountsInv

LEMMA AccountsPreserve == AccountsInv /\ [AccountsNext]_accountVars => AccountsInv'
<1> SUFFICES ASSUME AccountsInv, [AccountsNext]_accountVars PROVE AccountsInv'
  OBVIOUS
<1>1. /\ want \in [Emails -> Written \cup {NoAccount}] /\ << >> \in Todos
      /\ \A c \in Updates : <<c>> \in Todos /\ <<c>> # << >>
      /\ \A c, d \in Updates : <<c, d>> \in Todos /\ <<c, d>> # << >>
      /\ \A r \in Roles, p \in Passwords : [role |-> r, password |-> p, mfa |-> FALSE] \in Written
  BY DEF AccountsInv, RecordsInv, Todos, Written
<1>2. ASSUME NEW e \in Emails, NEW todo \in Todos, todo # << >>
      PROVE  Changed(e, todo) \in Written \cup {NoAccount}
  <2>1. CASE want[e] = NoAccount
    BY <2>1 DEF Changed
  <2>2. CASE want[e] # NoAccount
    <3>1. want[e] \in Written
      BY <1>1, <2>2
    <3>2. ASSUME NEW c \in Updates, todo = <<c>> PROVE Changed(e, todo) = Set(want[e], c)
      BY <2>2, <3>2 DEF Changed, Set
    <3>3. ASSUME NEW c \in Updates, NEW d \in Updates, todo = <<c, d>>
          PROVE  Changed(e, todo) = Set(Set(want[e], c), d)
      <4>1. Len(todo) = 2 /\ todo[1] = c /\ todo[2] = d /\ todo # << >>
        BY <3>3
      <4> QED
        BY <2>2, <4>1 DEF Changed, Set
    <3> QED
      BY <1>2, <3>1, <3>2, <3>3, SetWrites DEF Todos
  <2> QED
    BY <2>1, <2>2
<1>3. ASSUME NEW e \in Emails, Login(e) PROVE AccountsInv'
  <2>1. RecordsInv'
    BY <1>3, RoleFacts DEF AccountsInv, RecordsInv, Login, Known, Written
  <2>2. UNCHANGED <<account, index, request, serving, want, crossed, loose>>
    BY <1>3 DEF Login
  <2> QED
    BY <2>1, <2>2 DEF AccountsInv, RequestInv, AloneInv, LeadsInv, FinishedAsWanted, Busy, Known
<1>4. ASSUME NEW t \in Requests, NEW by \in Emails, NEW e \in Emails, CreateUser(t, by, e) PROVE AccountsInv'
  BY <1>1, <1>4, LaunchPreserves DEF CreateUser
<1>5. ASSUME NEW t \in Requests, NEW by \in Emails, NEW e \in Emails, UpdateUser(t, by, e) PROVE AccountsInv'
  <2>1. PICK p \in Passwords, r \in Roles :
          \E todo \in {<<<<"password", p>>>>, <<<<"role", r>>>>, <<<<"password", p>>, <<"role", r>>>>} :
            Launch(t, e, "fetch", todo, NoAccount, Changed(e, todo))
    BY <1>5 DEF UpdateUser
  <2>2. <<"password", p>> \in Updates /\ <<"role", r>> \in Updates
    BY DEF Updates
  <2>3. PICK todo \in Todos : todo # << >> /\ Launch(t, e, "fetch", todo, NoAccount, Changed(e, todo))
    BY <1>1, <2>1, <2>2
  <2> QED
    BY <1>2, <2>3, LaunchPreserves
<1>6. ASSUME NEW t \in Requests, NEW e \in Emails, ChangeMFA(t, e) PROVE AccountsInv'
  <2>1. PICK on \in BOOLEAN : Launch(t, e, "fetch", <<<<"mfa", on>>>>, NoAccount, Changed(e, <<<<"mfa", on>>>>))
    BY <1>6 DEF ChangeMFA
  <2>2. <<"mfa", on>> \in Updates
    BY DEF Updates
  <2> QED
    BY <1>1, <1>2, <2>1, <2>2, LaunchPreserves
<1>7. ASSUME NEW t \in Requests, NEW by \in Emails, NEW e \in Emails, DeleteUser(t, by, e) PROVE AccountsInv'
  BY <1>1, <1>7, LaunchPreserves DEF DeleteUser
<1>8. CASE Bootstrap
  <2>1. CASE serving' = TRUE /\ UNCHANGED <<account, index, token, request, want, crossed, loose>>
    BY <2>1 DEF AccountsInv, RecordsInv, RequestInv, AloneInv, LeadsInv, FinishedAsWanted, Busy, Known
  <2>2. CASE \E p \in Passwords : LET new == [role |-> "admin", password |-> p, mfa |-> FALSE]
                                 IN  Launch(Start, Boot, "store", << >>, new, new)
    BY <1>1, <2>2, LaunchPreserves, AccountsAssumption
  <2> QED
    BY <1>8, <2>1, <2>2 DEF Bootstrap
<1>10. ASSUME NEW t \in Requests, RedisFails(t) PROVE AccountsInv'
  BY <1>10, CutPreserves DEF RedisFails, AccountsInv, RecordsInv
<1>11. CASE StopRelay
  BY <1>11, CutPreserves DEF StopRelay, AccountsInv, RequestInv
<1>9. CASE UNCHANGED accountVars
  BY <1>9 DEF accountVars, AccountsInv, RecordsInv, RequestInv, AloneInv, LeadsInv, FinishedAsWanted, Busy, Known
<1> QED
  BY <1>3, <1>4, <1>5, <1>6, <1>7, <1>8, <1>9, <1>10, <1>11, StorePreserves DEF AccountsNext

LEMMA AccountsImply == AccountsInv => AccountsTypeOK /\ FinishedAsWanted
<1> SUFFICES ASSUME AccountsInv PROVE AccountsTypeOK
  BY DEF AccountsInv
<1>1. NoAccount \in AccountRecords /\ \A r \in Written : r \in AccountRecords
  BY DEF Written, NoAccount, AccountRecords
<1>2. RecordsInv /\ \A t \in DOMAIN request : request[t].got \in Written \cup {NoAccount}
  BY DEF AccountsInv, RequestInv, Works
<1> QED
  BY <1>1, <1>2 DEF RecordsInv, AccountsTypeOK

\* An operation leaves each field as it was or as it is to be: it changes no field twice, and
\* the record that it holds has nothing else.
FieldsInv ==
  /\ \A t \in DOMAIN request : \A c, d \in Updates : request[t].todo = <<c, d>> => c[1] # d[1]
  /\ PartlyAsWanted
  /\ \A t \in DOMAIN request, e \in Emails \ crossed :
       request[t].of = e /\ request[t].at = "store" =>
         \A field \in DOMAIN NoAccount : request[t].got[field] \in {request[t].from[field], want[e][field]}

\* Enough for a step that changes one goroutine and the account it works on.
LEMMA FieldsStep ==
  ASSUME AccountsInv, FieldsInv, NEW t \in Requests \cup {Start}, NEW e \in Emails,
         request[t].of \in {e, NoEmail}, DOMAIN request' = DOMAIN request, crossed \subseteq crossed',
         \A u \in DOMAIN request : u # t => request'[u] = request[u],
         \A d \in Emails \ crossed' : d # e => want'[d] = want[d],
         \A d \in Emails : d # e => account'[d] = account[d],
         \A u \in DOMAIN request : u # t /\ request[u].of = e => e \in crossed',
         request'[t].of \in {e, NoEmail},
         \A c, d \in Updates : request'[t].todo = <<c, d>> => c[1] # d[1],
         request'[t].of = e /\ e \notin crossed' => \A field \in DOMAIN NoAccount :
           /\ account'[e][field] \in {request'[t].from[field], want'[e][field]}
           /\ request'[t].at = "store" =>
                request'[t].got[field] \in {request'[t].from[field], want'[e][field]}
  PROVE  FieldsInv'
<1>1. e # NoEmail
  BY AccountsAssumption
<1>2. ASSUME NEW u \in DOMAIN request', NEW d \in Emails \ crossed', request'[u].of = d
      PROVE  \A field \in DOMAIN NoAccount :
               /\ account'[d][field] \in {request'[u].from[field], want'[d][field]}
               /\ request'[u].at = "store" =>
                    request'[u].got[field] \in {request'[u].from[field], want'[d][field]}
  <2>1. CASE u = t
    <3>1. d = e
      BY <1>1, <1>2, <2>1, AccountsAssumption
    <3> QED
      BY <1>2, <2>1, <3>1
  <2>2. CASE u # t
    <3>1. u \in DOMAIN request /\ request'[u] = request[u] /\ request[u].of = d /\ d # e
      BY <1>2, <2>2
    <3>2. d \in Emails \ crossed /\ account'[d] = account[d] /\ want'[d] = want[d]
      BY <1>2, <3>1
    <3> QED
      BY <3>1, <3>2 DEF FieldsInv, PartlyAsWanted
  <2> QED
    BY <2>1, <2>2
<1>3. \A u \in DOMAIN request' : \A c, d \in Updates : request'[u].todo = <<c, d>> => c[1] # d[1]
  BY DEF FieldsInv
<1>4. UNCHANGED NoAccount
  BY DEF NoAccount
<1> QED
  BY <1>2, <1>3, <1>4 DEF FieldsInv, PartlyAsWanted

LEMMA FieldsLaunch ==
  ASSUME AccountsInv, FieldsInv, NEW t \in Requests \cup {Start}, NEW e \in Emails, NEW at, NEW todo,
         NEW got, NEW wanted, Launch(t, e, at, todo, got, wanted), at = "store" => wanted = got,
         \A c, d \in Updates : todo = <<c, d>> => c[1] # d[1]
  PROVE  FieldsInv'
<1>1. /\ request \in [Requests \cup {Start} -> Works] /\ want \in [Emails -> Written \cup {NoAccount}]
      /\ request[t].of = NoEmail /\ crossed \subseteq crossed' /\ account' = account
  BY DEF AccountsInv, RequestInv, RecordsInv, Launch
<1> DEFINE from == IF e \in crossed' THEN NoAccount ELSE want[e]
           work == [at |-> at, of |-> e, todo |-> todo, got |-> got, from |-> from]
<1>2. /\ request' = [request EXCEPT ![t] = work]
      /\ want' = [want EXCEPT ![e] = IF e \in crossed' THEN NoAccount ELSE wanted]
  BY DEF Launch
<1>3. /\ DOMAIN request' = DOMAIN request /\ request'[t].at = at /\ request'[t].of = e
      /\ request'[t].todo = todo /\ request'[t].got = got /\ request'[t].from = from
      /\ \A u \in DOMAIN request : u # t => request'[u] = request[u]
      /\ \A d \in Emails : d # e => want'[d] = want[d]
      /\ want'[e] = IF e \in crossed' THEN NoAccount ELSE wanted
  BY <1>1, <1>2
<1>4. e \notin crossed' => ~Busy(e) /\ e \in Emails \ crossed
  BY <1>1 DEF Launch
<1>5. e \notin crossed' => account[e] = from
  BY <1>4 DEF AccountsInv, FinishedAsWanted
<1>6. \A u \in DOMAIN request : u # t /\ request[u].of = e => e \in crossed'
  BY <1>4 DEF Busy
<1>7. e \notin crossed' => \A field \in DOMAIN NoAccount :
        /\ account'[e][field] \in {request'[t].from[field], want'[e][field]}
        /\ request'[t].at = "store" =>
             request'[t].got[field] \in {request'[t].from[field], want'[e][field]}
  BY <1>1, <1>3, <1>5
<1>8. \A c, d \in Updates : request'[t].todo = <<c, d>> => c[1] # d[1]
  BY <1>3
<1>9. /\ request[t].of \in {e, NoEmail} /\ request'[t].of \in {e, NoEmail}
      /\ \A d \in Emails \ crossed' : d # e => want'[d] = want[d]
      /\ \A d \in Emails : d # e => account'[d] = account[d]
  BY <1>1, <1>3
<1> HIDE DEF from, work
<1> QED
  BY <1>1, <1>3, <1>6, <1>7, <1>8, <1>9, FieldsStep, ZenonT(60)

LEMMA FieldsStore ==
  ASSUME AccountsInv, FieldsInv, NEW t \in Requests \cup {Start}, StoreStep(t)
  PROVE  FieldsInv'
<1>1. /\ UNCHANGED <<token, want, crossed>> /\ DOMAIN request = Requests \cup {Start}
      /\ account \in [Emails -> Written \cup {NoAccount}]
      /\ request \in [Requests \cup {Start} -> Works]
      /\ request[t].at # "idle" => request[t].of \in Emails
  BY AccountsAssumption DEF StoreStep, AccountsInv, RequestInv, RecordsInv, Works
<1>2. PICK e \in Emails : e = request[t].of
  BY <1>1 DEF StoreStep, FetchUser, StoreUser, ListUser, Delete, Unlist, Steps
<1>3. \A u \in DOMAIN request : u # t /\ request[u].of = e => e \in crossed
  BY <1>1, <1>2 DEF AccountsInv, AloneInv
\* A step to n, which holds nothing that o did not.
<1>4. ASSUME NEW n, request' = [request EXCEPT ![t] = n], n.of \in {e, NoEmail},
             \A d \in Emails : d # e => account'[d] = account[d],
             \A c, d \in Updates : n.todo = <<c, d>> => c[1] # d[1],
             n.of = e /\ e \notin crossed => \A field \in DOMAIN NoAccount :
               /\ account'[e][field] \in {n.from[field], want[e][field]}
               /\ n.at = "store" => n.got[field] \in {n.from[field], want[e][field]}
      PROVE  FieldsInv'
  <2>1. /\ DOMAIN request' = DOMAIN request /\ request'[t] = n
        /\ \A u \in DOMAIN request : u # t => request'[u] = request[u]
    BY <1>1, <1>4
  <2> QED
    BY <1>1, <1>2, <1>3, <1>4, <2>1, FieldsStep
<1>5. NoRequest.of = NoEmail /\ NoRequest.of # e /\ NoRequest.todo = << >>
  BY <1>2, AccountsAssumption DEF NoRequest
<1>6. \A c, d \in Updates : request[t].todo = <<c, d>> => c[1] # d[1]
  BY <1>1 DEF FieldsInv
<1>7. e \notin crossed => \A field \in DOMAIN NoAccount :
        /\ account[e][field] \in {request[t].from[field], want[e][field]}
        /\ request[t].at = "store" => request[t].got[field] \in {request[t].from[field], want[e][field]}
  BY <1>1, <1>2 DEF FieldsInv, PartlyAsWanted
\* Whatever ends.
<1>8. ASSUME request' = [request EXCEPT ![t] = NoRequest], UNCHANGED account PROVE FieldsInv'
  <2>1. \A c, d \in Updates : NoRequest.todo # <<c, d>>
    BY <1>5
  <2> QED
    BY <1>4, <1>5, <1>8, <2>1
<1>9. ASSUME NEW at, Then(t, at), at # "idle", at # "store",
             \A d \in Emails : d # e => account'[d] = account[d],
             e \notin crossed => \A field \in DOMAIN NoAccount :
               account'[e][field] \in {request[t].from[field], want[e][field]}
      PROVE  FieldsInv'
  <2>0. PICK m : m = [request[t] EXCEPT !.at = at]
    OBVIOUS
  <2>1. request' = [request EXCEPT ![t] = m]
    BY <1>1, <1>9, <2>0 DEF Then
  <2>2. m.of = e /\ m.todo = request[t].todo /\ m.from = request[t].from /\ m.at = at
    BY <1>1, <1>2, <2>0 DEF Works
  <2> QED
    <3>1. \A c, d \in Updates : m.todo = <<c, d>> => c[1] # d[1]
      BY <1>6, <2>2
    <3>2. m.of = e /\ e \notin crossed => \A field \in DOMAIN NoAccount :
            /\ account'[e][field] \in {m.from[field], want[e][field]}
            /\ m.at = "store" => m.got[field] \in {m.from[field], want[e][field]}
      BY <1>9, <2>2
    <3> QED
      BY <1>1, <1>2, <1>3, <1>9, <2>1, <2>2, <3>1, <3>2, FieldsStep
<1>10. CASE FetchUser(t)
  <2>1. CASE ~Known(e)
    BY <1>2, <1>8, <1>10, <2>1 DEF FetchUser, Then
  <2>2. CASE Known(e)
    <3> DEFINE first == Head(request[t].todo)
               n == [request[t] EXCEPT !.at = "store", !.todo = Tail(@), !.got = Set(account[e], first)]
    <3>1. request' = [request EXCEPT ![t] = n] /\ account' = account /\ request[t].at = "fetch"
      BY <1>2, <1>10, <2>2 DEF FetchUser, Steps
    <3>2. /\ n.of = e /\ n.todo = Tail(request[t].todo) /\ n.from = request[t].from
          /\ n.got = Set(account[e], first)
      BY <1>1, <1>2 DEF Works
    <3>3. request[t].todo \in Todos /\ request[t].todo # << >> /\ account[e] \in Written
      BY <1>1, <2>2, <3>1 DEF AccountsInv, RequestInv, Works, Known
    <3>4. \/ \E c \in Updates : request[t].todo = <<c>>
          \/ \E c, d \in Updates : request[t].todo = <<c, d>>
      BY <3>3 DEF Todos
    <3>5. /\ first \in Updates
          /\ Tail(request[t].todo) = << >> \/ \E d \in Updates : Tail(request[t].todo) = <<d>>
      <4>1. ASSUME NEW c \in Updates, request[t].todo = <<c>>
            PROVE  first = c /\ Tail(request[t].todo) = << >>
        BY <4>1
      <4>2. ASSUME NEW c \in Updates, NEW d \in Updates, request[t].todo = <<c, d>>
            PROVE  first = c /\ Tail(request[t].todo) = <<d>>
        BY <4>2
      <4> QED
        BY <3>4, <4>1, <4>2
    <3>6. \A c, d \in Updates : n.todo # <<c, d>>
      BY <3>2, <3>5
    <3>7. ASSUME e \notin crossed, NEW field \in DOMAIN NoAccount
          PROVE  n.got[field] \in {request[t].from[field], want[e][field]}
      <4>1. want[e] = After(account[e], request[t].todo)
        BY <1>1, <1>2, <2>2, <3>1, <3>7 DEF AccountsInv, LeadsInv
      <4>2. /\ DOMAIN account[e] = {"role", "password", "mfa"}
            /\ first[1] \in {"role", "password", "mfa"} /\ field \in {"role", "password", "mfa"}
            /\ Set(account[e], first) \in Written
        BY <3>3, <3>5, SetWrites DEF Written, Updates, NoAccount
      <4>3. CASE field # first[1]
        <5>1. n.got[field] = account[e][field]
          BY <3>2, <4>2, <4>3 DEF Set
        <5> QED
          BY <1>7, <3>7, <5>1
      <4>4. CASE field = first[1]
        <5>1. Set(account[e], first)[field] = first[2]
          BY <4>2, <4>4 DEF Set
        <5>2. CASE \E c \in Updates : request[t].todo = <<c>>
          <6>1. want[e] = Set(account[e], first)
            BY <4>1, <5>2 DEF After
          <6> QED
            BY <3>2, <6>1
        <5>3. CASE \E c, d \in Updates : request[t].todo = <<c, d>>
          <6>1. PICK d \in Updates : want[e] = Set(Set(account[e], first), d) /\ d[1] # first[1]
            <7>1. PICK c \in Updates, d \in Updates : request[t].todo = <<c, d>>
              BY <5>3
            <7>2. /\ first = c /\ Len(request[t].todo) = 2 /\ request[t].todo # << >>
                  /\ request[t].todo[1] = c /\ request[t].todo[2] = d
              BY <7>1
            <7>3. c[1] # d[1]
              BY <1>6, <7>1
            <7> QED
              BY <4>1, <7>2, <7>3 DEF After
          <6>2. want[e][field] = Set(account[e], first)[field]
            BY <4>2, <4>4, <6>1 DEF Set, Written
          <6> QED
            BY <3>2, <6>2
        <5> QED
          BY <3>4, <5>2, <5>3
      <4> QED
        BY <4>3, <4>4
    <3> HIDE DEF n, first
    <3> QED
      BY <1>4, <1>7, <3>1, <3>2, <3>6, <3>7
  <2> QED
    BY <2>1, <2>2
<1>11. CASE StoreUser(t)
  <2>1. /\ request[t].at = "store" /\ account' = [account EXCEPT ![e] = request[t].got] /\ Then(t, "list")
    BY <1>2, <1>11 DEF StoreUser, Steps
  <2> QED
    BY <1>1, <1>7, <1>9, <2>1
<1>12. CASE ListUser(t)
  <2>1. CASE request[t].todo = << >>
    BY <1>8, <1>12, <2>1 DEF ListUser, Then
  <2>2. CASE request[t].todo # << >>
    BY <1>7, <1>9, <1>12, <2>2 DEF ListUser
  <2> QED
    BY <2>1, <2>2
<1>13. CASE Delete(t)
  <2>1. account' = [account EXCEPT ![e] = NoAccount] /\ Then(t, "unlist") /\ request[t].at = "delete"
    BY <1>2, <1>13 DEF Delete, Steps
  <2>2. e \notin crossed => want[e] = NoAccount
    BY <1>1, <1>2, <2>1 DEF AccountsInv, LeadsInv
  <2> QED
    BY <1>1, <1>9, <2>1, <2>2
<1>14. CASE Unlist(t)
  BY <1>8, <1>14 DEF Unlist, Then
<1> QED
  BY <1>10, <1>11, <1>12, <1>13, <1>14 DEF StoreStep

LEMMA FieldsCut ==
  ASSUME AccountsInv, FieldsInv, NEW T \in SUBSET (Requests \cup {Start}), CutOff(T)
  PROVE  FieldsInv'
<1>1. /\ DOMAIN request = Requests \cup {Start} /\ DOMAIN request' = Requests \cup {Start}
      /\ \A t \in DOMAIN request : request'[t] = IF t \in T THEN NoRequest ELSE request[t]
      /\ UNCHANGED <<account, crossed, NoAccount>>
      /\ \A e \in Emails : want'[e] \in {account[e], want[e]}
  BY DEF CutOff, AccountsInv, RequestInv, NoAccount
<1>2. NoRequest.of = NoEmail /\ NoRequest.todo = << >> /\ NoEmail \notin Emails
  BY AccountsAssumption DEF NoRequest
<1>3. \A t \in DOMAIN request' : \A c, d \in Updates : request'[t].todo = <<c, d>> => c[1] # d[1]
  BY <1>1, <1>2 DEF FieldsInv
<1>4. ASSUME NEW t \in DOMAIN request', NEW e \in Emails \ crossed', request'[t].of = e
      PROVE  t \in DOMAIN request /\ request'[t] = request[t] /\ want'[e] = want[e]
  <2>1. t \in DOMAIN request /\ t \notin T /\ request'[t] = request[t]
    BY <1>1, <1>2, <1>4
  <2>2. \A u \in T : request[u].of # e
    BY <1>1, <1>4, <2>1 DEF AccountsInv, AloneInv
  <2> QED
    BY <2>1, <2>2 DEF CutOff
<1> QED
  BY <1>1, <1>3, <1>4 DEF FieldsInv, PartlyAsWanted

LEMMA FieldsPreserve == AccountsInv /\ FieldsInv /\ [AccountsNext]_accountVars => FieldsInv'
<1> SUFFICES ASSUME AccountsInv, FieldsInv, [AccountsNext]_accountVars PROVE FieldsInv'
  OBVIOUS
<1>1. \A c, d \in Updates : << >> # <<c, d>> /\ \A b : <<b>> # <<c, d>>
  OBVIOUS
<1>2. ASSUME NEW e \in Emails, Login(e) PROVE FieldsInv'
  BY <1>2 DEF Login, FieldsInv, PartlyAsWanted, NoAccount
<1>3. ASSUME NEW t \in Requests, NEW by \in Emails, NEW e \in Emails, CreateUser(t, by, e) PROVE FieldsInv'
  BY <1>1, <1>3, FieldsLaunch DEF CreateUser
<1>4. ASSUME NEW t \in Requests, NEW by \in Emails, NEW e \in Emails, UpdateUser(t, by, e) PROVE FieldsInv'
  <2>1. PICK p \in Passwords, r \in Roles :
          \E todo \in {<<<<"password", p>>>>, <<<<"role", r>>>>, <<<<"password", p>>, <<"role", r>>>>} :
            Launch(t, e, "fetch", todo, NoAccount, Changed(e, todo))
    BY <1>4 DEF UpdateUser
  <2>2. ASSUME NEW c \in Updates, NEW d \in Updates, <<<<"password", p>>, <<"role", r>>>> = <<c, d>>
        PROVE  c[1] # d[1]
    BY <2>2
  <2>3. PICK todo : /\ Launch(t, e, "fetch", todo, NoAccount, Changed(e, todo))
                    /\ \A c, d \in Updates : todo = <<c, d>> => c[1] # d[1]
    BY <1>1, <2>1, <2>2
  <2> QED
    BY <2>3, FieldsLaunch
<1>5. ASSUME NEW t \in Requests, NEW e \in Emails, ChangeMFA(t, e) PROVE FieldsInv'
  BY <1>1, <1>5, FieldsLaunch DEF ChangeMFA
<1>6. ASSUME NEW t \in Requests, NEW by \in Emails, NEW e \in Emails, DeleteUser(t, by, e) PROVE FieldsInv'
  BY <1>1, <1>6, FieldsLaunch DEF DeleteUser
<1>7. CASE Bootstrap
  <2>1. CASE UNCHANGED <<account, index, token, request, want, crossed, loose>>
    BY <2>1 DEF FieldsInv, PartlyAsWanted, NoAccount
  <2>2. CASE \E p \in Passwords : LET new == [role |-> "admin", password |-> p, mfa |-> FALSE]
                                 IN  Launch(Start, Boot, "store", << >>, new, new)
    BY <1>1, <2>2, FieldsLaunch, AccountsAssumption
  <2> QED
    BY <1>7, <2>1, <2>2 DEF Bootstrap
<1>8. ASSUME NEW t \in Requests, RedisFails(t) PROVE FieldsInv'
  BY <1>8, FieldsCut DEF RedisFails
<1>9. CASE StopRelay
  BY <1>9, FieldsCut DEF StopRelay, AccountsInv, RequestInv
<1>10. CASE UNCHANGED accountVars
  BY <1>10 DEF accountVars, FieldsInv, PartlyAsWanted, NoAccount
<1> QED
  BY <1>2, <1>3, <1>4, <1>5, <1>6, <1>7, <1>8, <1>9, <1>10, FieldsStore DEF AccountsNext

LEMMA FieldsStart == AccountsInit => FieldsInv
<1> SUFFICES ASSUME AccountsInit PROVE FieldsInv
  OBVIOUS
<1>1. \A t \in DOMAIN request : request[t] = NoRequest
  BY DEF AccountsInit
<1>2. NoRequest.of \notin Emails /\ NoRequest.todo = << >>
  BY AccountsAssumption DEF NoRequest
<1> QED
  BY <1>1, <1>2 DEF FieldsInv, PartlyAsWanted

\* An account whose operations came one at a time is as they want it, and listed when it
\* exists, whatever the other requests do; failing commands and stops leave each field as it
\* was or was to be (server/auth/store.go).
THEOREM AccountsKept == AccountsSpec => [](AccountsTypeOK /\ AccountAsWanted)
<1>1. AccountsInit => AccountsInv /\ FieldsInv
  BY AccountsStart, FieldsStart
<1>2. AccountsInv /\ FieldsInv /\ [AccountsNext]_accountVars => AccountsInv' /\ FieldsInv'
  BY AccountsPreserve, FieldsPreserve
<1>3. AccountsInv /\ FieldsInv => AccountsTypeOK /\ AccountAsWanted
  BY AccountsImply DEF FieldsInv, AccountAsWanted
<1> QED
  BY <1>1, <1>2, <1>3, PTL DEF AccountsSpec
=============================================================================
