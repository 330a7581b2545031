---------------------------- MODULE AgentRegistry ----------------------------
(***************************************************************************)
(* The relay's records of its agents (server/session/registry.go, with the *)
(* handlers of server/signaling/hub.go that write them).  A record is one  *)
(* Redis value.  Every operation but a registration reads it, changes a    *)
(* field and writes all of it back, in two or more commands, and the       *)
(* goroutines of the agent's connections, of its viewers and of the        *)
(* administrator's requests do so at once.  A name (alias) is a key of its *)
(* own, and so is the set of revoked certificates.                         *)
(*                                                                         *)
(* Redis answers; what an operation does when it fails is left out, and so *)
(* are the fields that every registration sends anew.  Keys run out a day  *)
(* after they were last written, when no operation is under way.           *)
(***************************************************************************)
EXTENDS Naturals

CONSTANTS Agents, Aliases,
          Handlers,  \* the goroutines that work on the records
          MaxCerts,  \* bound: the certificates issued
          NoName     \* no alias, or no agent

ASSUME RegistryAssumption ==
  /\ MaxCerts \in Nat /\ NoName \notin Agents \cup Aliases

VARIABLES
  record,   \* the record of an agent, or NoRecord
  named,    \* the alias keys: the agent each leads to
  revoked,  \* the set revokedCertIndex
  issued,   \* certificates issued so far, numbered from 1
  devCert,  \* the certificate a device has, 0 for none
  op,       \* the operation of a goroutine
  retired   \* history: certificates whose revocation or replacement has ended

registryVars == <<record, named, revoked, issued, devCert, op, retired>>

Certs    == 0 .. MaxCerts     \* 0 is no certificate
NoRecord == [status |-> "none", alias |-> NoName, cert |-> 0, barred |-> FALSE]
NoOp     == [at |-> "idle", a |-> NoName, got |-> NoRecord, x |-> NoName, cert |-> 0, late |-> FALSE]

RegistryInit ==
  /\ record = [a \in Agents |-> NoRecord] /\ named = [x \in Aliases |-> NoName]
  /\ revoked = {} /\ issued = 0 /\ devCert = [a \in Agents |-> 0]
  /\ op = [t \in Handlers |-> NoOp] /\ retired = {}

OpAt(t, p)   == op[t].at = p
OpTo(t, p)   == op' = [op EXCEPT ![t].at = p]
OpDone(t)    == op' = [op EXCEPT ![t] = NoOp]
Got(t)       == op[t].got
Exists(a)    == record[a] # NoRecord

\* Registry.Register: the whole record is written.
Put(t, r)    == record' = [record EXCEPT ![op[t].a] = r]

-----------------------------------------------------------------------------
\* Registry.Get, with which every read-modify-write begins.
Fetch(t, a, kind, x) ==
  /\ OpAt(t, "idle") /\ Exists(a)
  /\ op' = [op EXCEPT ![t] = [NoOp EXCEPT !.at = kind, !.a = a, !.got = record[a], !.x = x]]

\* Heartbeat and IncrementSessionCount, SetStatus after a disconnect, revocation, and
\* changes of the certificate and the name.
BeginOp(t, a) ==
  /\ \/ \E kind \in {"heartbeat", "offline", "revoke", "reissue", "clear"} : Fetch(t, a, kind, NoName)
     \/ \E x \in Aliases : Fetch(t, a, "alias", x)
  /\ UNCHANGED <<record, named, revoked, issued, devCert, retired>>

\* The time of the heartbeat and the count of sessions are left out of a record.
Heartbeat(t) == OpAt(t, "heartbeat") /\ Put(t, Got(t))
SetOffline(t) == OpAt(t, "offline") /\ Put(t, [Got(t) EXCEPT !.status = "offline"])

StoreField(t) ==
  /\ Heartbeat(t) \/ SetOffline(t)
  /\ OpDone(t) /\ UNCHANGED <<named, revoked, issued, devCert, retired>>

-----------------------------------------------------------------------------
\* Names.

\* SETNX: the name is taken when it leads to another agent.
Claim(t) ==
  /\ OpAt(t, "alias")
  /\ IF named[op[t].x] \in {NoName, op[t].a}
     THEN OpTo(t, "release") /\ named' = [named EXCEPT ![op[t].x] = op[t].a]
     ELSE OpDone(t) /\ UNCHANGED named
  /\ UNCHANGED <<record, revoked, issued, devCert, retired>>

\* The name the record had when it was read is deleted, whoever it leads to by now.
Release(t) ==
  /\ OpAt(t, "release") \/ OpAt(t, "clear")
  /\ named' = IF Got(t).alias \in Aliases \ {op[t].x}
              THEN [named EXCEPT ![Got(t).alias] = NoName] ELSE named
  /\ OpTo(t, "rename") /\ UNCHANGED <<record, revoked, issued, devCert, retired>>

Rename(t) ==
  /\ OpAt(t, "rename") /\ Put(t, [Got(t) EXCEPT !.alias = op[t].x]) /\ OpDone(t)
  /\ UNCHANGED <<named, revoked, issued, devCert, retired>>

-----------------------------------------------------------------------------
\* Certificates.

\* RevokeClientCert: first the set, then the record; then the agent is disconnected.
Revoke(t) ==
  /\ OpAt(t, "revoke") /\ OpTo(t, "bar")
  /\ revoked' = revoked \cup ({Got(t).cert} \ {0})
  /\ UNCHANGED <<record, named, issued, devCert, retired>>

Bar(t) ==
  /\ OpAt(t, "bar") /\ Put(t, [Got(t) EXCEPT !.barred = TRUE]) /\ OpDone(t)
  /\ retired' = retired \cup ({Got(t).cert} \ {0})
  /\ UNCHANGED <<named, revoked, issued, devCert>>

\* ReissueClientCertificate: a new one, the old one into the set, and then the record,
\* which is read again.
Reissue(t) ==
  /\ OpAt(t, "reissue") /\ issued < MaxCerts
  /\ issued' = issued + 1
  /\ revoked' = revoked \cup ({Got(t).cert} \ {0})
  /\ retired' = retired \cup ({Got(t).cert} \ {0})
  /\ op' = [op EXCEPT ![t].at = "swap", ![t].cert = issued + 1]
  /\ UNCHANGED <<record, named, devCert>>

FetchAgain(t) ==
  /\ OpAt(t, "swap")
  /\ IF Exists(op[t].a)
     THEN op' = [op EXCEPT ![t].at = "swapped", ![t].got = record[op[t].a]]
     ELSE OpDone(t)
  /\ UNCHANGED <<record, named, revoked, issued, devCert, retired>>

\* The new one is pushed to the agent's connection, if it has one.
Swap(t) ==
  /\ OpAt(t, "swapped") /\ OpDone(t)
  /\ Put(t, [Got(t) EXCEPT !.cert = op[t].cert, !.barred = FALSE])
  /\ devCert' \in {devCert, [devCert EXCEPT ![op[t].a] = op[t].cert]}
  /\ UNCHANGED <<named, revoked, issued, retired>>

-----------------------------------------------------------------------------
\* handleRegister.

\* The connection's own certificate, checked by the TLS listener, or none.
BeginRegister(t, a, cert) ==
  /\ OpAt(t, "idle")
  /\ op' = [op EXCEPT ![t] = [NoOp EXCEPT !.at = IF cert = 0 THEN "enrol" ELSE "check",
                              !.a = a, !.cert = cert, !.late = cert \in retired]]
  /\ UNCHANGED <<record, named, revoked, issued, devCert, retired>>

\* Mutant of CheckRevoked: the record's own flag is enough.
CheckRevokedFlag(t) ==
  /\ OpAt(t, "check") /\ OpTo(t, "compare")
  /\ UNCHANGED <<record, named, revoked, issued, devCert, retired>>

\* IsClientCertRevoked
CheckRevoked(t) ==
  /\ OpAt(t, "check")
  /\ IF op[t].cert \in revoked THEN OpDone(t) ELSE OpTo(t, "compare")
  /\ UNCHANGED <<record, named, revoked, issued, devCert, retired>>

\* The record that is there must not be barred, nor be of another certificate.
Compare(t) ==
  /\ OpAt(t, "compare")
  /\ LET r == record[op[t].a]
     IN  IF r.barred \/ r.cert \notin {0, op[t].cert} THEN OpDone(t) ELSE OpTo(t, "enrol")
  /\ UNCHANGED <<record, named, revoked, issued, devCert, retired>>

\* The record is made from the payload: the name starts again.
Enrol(t) ==
  /\ OpAt(t, "enrol") /\ OpDone(t)
  /\ Put(t, [NoRecord EXCEPT !.status = "waiting", !.cert = op[t].cert])
  /\ UNCHANGED <<named, revoked, issued, devCert, retired>>

\* A connection without a certificate registers once more: now it is an agent's, the record
\* is looked at, and it gets a certificate.
EnrolIssuing(t) ==
  /\ OpAt(t, "enrol") /\ op[t].cert = 0 /\ ~record[op[t].a].barred /\ issued < MaxCerts
  /\ issued' = issued + 1 /\ OpDone(t)
  /\ Put(t, [NoRecord EXCEPT !.status = "waiting", !.cert = issued + 1])
  /\ devCert' = [devCert EXCEPT ![op[t].a] = issued + 1]
  /\ UNCHANGED <<named, revoked, retired>>

-----------------------------------------------------------------------------
\* A day without a write; ResolveAlias renews a name that is asked for.
Expire ==
  /\ \A t \in Handlers : OpAt(t, "idle")
  /\ \/ \E a \in Agents : Exists(a) /\ record' = [record EXCEPT ![a] = NoRecord] /\ UNCHANGED named
     \/ \E x \in Aliases : named[x] # NoName /\ named' = [named EXCEPT ![x] = NoName]
                           /\ UNCHANGED record
  /\ UNCHANGED <<revoked, issued, devCert, op, retired>>

HandlerStep(t) ==
  \/ \E a \in Agents : BeginOp(t, a)
                       \/ \E cert \in {0, devCert[a]} : BeginRegister(t, a, cert)
  \/ StoreField(t) \/ Claim(t) \/ Release(t) \/ Rename(t)
  \/ Revoke(t) \/ Bar(t) \/ Reissue(t) \/ FetchAgain(t) \/ Swap(t)
  \/ CheckRevoked(t) \/ Compare(t) \/ Enrol(t) \/ EnrolIssuing(t)

RegistryNext == (\E t \in Handlers : HandlerStep(t)) \/ Expire

RegistrySpec == RegistryInit /\ [][RegistryNext]_registryVars

-----------------------------------------------------------------------------
Records == [status : {"none", "waiting", "offline"}, alias : Aliases \cup {NoName}, cert : Certs, barred : BOOLEAN]

RegistryTypeOK ==
  /\ record \in [Agents -> Records] /\ named \in [Aliases -> Agents \cup {NoName}]
  /\ revoked \subseteq Certs \ {0} /\ retired \subseteq revoked /\ issued \in Certs
  /\ devCert \in [Agents -> Certs]
  /\ \A t \in Handlers : op[t].got \in Records /\ op[t].cert \in Certs

\* A certificate that was revoked or replaced never registers a device again, although
\* the record that says so may be overwritten by any of the operations that had read it
\* before (hub.go, handleRegister; registry.go, RevokeClientCert).
RevokedIsRefused == \A t \in Handlers : OpAt(t, "enrol") => ~op[t].late
=============================================================================
