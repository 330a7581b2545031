------------------------------ MODULE Accounts ------------------------------
(***************************************************************************)
(* The accounts of the relay's dashboard: server/auth/store.go, what a     *)
(* token opens (server/auth/token.go, server/api/auth.go) and the requests *)
(* that change accounts (server/api/admin.go).  An account is a record in  *)
(* Redis and a member of an index, written one after the other; a change   *)
(* reads the record, and writes all of it back.  Requests run at once, any *)
(* command of Redis may fail, and the relay may stop between two of them.  *)
(*                                                                         *)
(* That a password, a one-time code and a token are checked is external:   *)
(* a token is the role it was issued for, and its owner may not use it.  A *)
(* login, or a check of a token, whose read fails is refused like any that *)
(* is not made.  A record is never lost in Redis, which is external too.   *)
(***************************************************************************)
EXTENDS Naturals, Sequences

CONSTANTS Emails, Passwords,
          Roles,     \* the roles given out: of viewer, support and admin
          Boot,      \* bootstrap_email
          Requests,  \* the goroutines of requests
          Start,     \* the goroutine that starts the relay
          NoEmail

ASSUME AccountsAssumption == Boot \in Emails /\ Start \notin Requests /\ NoEmail \notin Emails
                            /\ "admin" \in Roles /\ Roles \subseteq {"viewer", "support", "admin"}

VARIABLES
  account,  \* the record of an email, or NoAccount
  index,    \* userIndex
  token,    \* the role of the token an email's owner holds, or none
  request,  \* a goroutine: the record it changes, what is left to do, the record it holds
            \* and, as history, what was wanted before it
  serving,  \* the relay has started
  crossed,  \* history: operations on it were under way at once
  loose,    \* history: cut off between record and index, and not written since
  want      \* history: as its operations want it that is not crossed

accountVars == <<account, index, token, request, serving, want, crossed, loose>>

Rank(r)   == CASE r = "viewer" -> 1 [] r = "support" -> 2 [] r = "admin" -> 3 [] OTHER -> 0
NoAccount == [role |-> "none", password |-> NoEmail, mfa |-> FALSE]
NoRequest == [at |-> "idle", of |-> NoEmail, todo |-> << >>, got |-> NoAccount, from |-> NoAccount]
Known(e)  == account[e] # NoAccount

Admitted(e, role) ==
  /\ serving /\ token[e] # "none" /\ Known(e)
  /\ Rank(account[e].role) >= Rank(token[e]) /\ Rank(account[e].role) >= Rank(role)

AccountsInit ==
  /\ account = [e \in Emails |-> NoAccount] /\ index = {}
  /\ token = [e \in Emails |-> "none"] /\ serving = FALSE
  /\ request = [t \in Requests \cup {Start} |-> NoRequest]
  /\ want = account /\ crossed = {} /\ loose = {}

Busy(e) == \E t \in DOMAIN request : request[t].of = e

\* A goroutine starts to work on an account, which is wanted to be as the operation says.
Launch(t, e, at, todo, got, wanted) ==
  /\ request[t].at = "idle"
  /\ crossed' = IF Busy(e) THEN crossed \cup {e} ELSE crossed
  /\ request' = [request EXCEPT ![t] = [at |-> at, of |-> e, todo |-> todo, got |-> got,
                                        from |-> IF e \in crossed' THEN NoAccount ELSE want[e]]]
  /\ loose' = loose \ crossed'
  /\ want' = [want EXCEPT ![e] = IF e \in crossed' THEN NoAccount ELSE wanted]
  /\ UNCHANGED <<account, index, token, serving>>

-----------------------------------------------------------------------------
\* Mutant of Set: One field set anew, the others lost.
SetAfresh(r, change) == [[NoAccount EXCEPT !.role = "viewer"] EXCEPT ![change[1]] = change[2]]

\* A change of one field of a record that was read.
Set(r, change) == [r EXCEPT ![change[1]] = change[2]]

Changed(e, todo) ==
  LET Step(n) == IF n > Len(todo) THEN want[e] ELSE [want[e] EXCEPT ![todo[n][1]] = todo[n][2]]
  IN  IF want[e] = NoAccount \/ todo = << >> THEN want[e]
      ELSE IF Len(todo) = 1 THEN Step(1) ELSE [Step(1) EXCEPT ![todo[2][1]] = todo[2][2]]

Login(e) ==
  /\ serving /\ Known(e) /\ token' = [token EXCEPT ![e] = account[e].role]
  /\ UNCHANGED <<account, index, request, serving, want, crossed, loose>>

\* createUser writes a record whether or not there is one.
CreateUser(t, by, e) ==
  /\ Admitted(by, "admin")
  /\ \E p \in Passwords, r \in Roles :
       LET new == [role |-> r, password |-> p, mfa |-> FALSE]
       IN  Launch(t, e, "store", << >>, new, new)

\* updateUser: the password and then the role, each if it is given.
UpdateUser(t, by, e) ==
  /\ Admitted(by, "admin")
  /\ \E p \in Passwords, r \in Roles :
       \E todo \in {<<<<"password", p>>>>, <<<<"role", r>>>>, <<<<"password", p>>, <<"role", r>>>>} :
         Launch(t, e, "fetch", todo, NoAccount, Changed(e, todo))

\* confirmMFA and disableMFA, each of one's own account.
ChangeMFA(t, e) ==
  /\ Admitted(e, "viewer")
  /\ \E on \in BOOLEAN :
       Launch(t, e, "fetch", <<<<"mfa", on>>>>, NoAccount, Changed(e, <<<<"mfa", on>>>>))

DeleteUser(t, by, e) ==
  /\ Admitted(by, "admin") /\ e # by
  /\ Launch(t, e, "delete", << >>, NoAccount, NoAccount)

-----------------------------------------------------------------------------
\* The store.
Steps(t, at) == request[t].at = at
Then(t, at)  == IF at = "idle" THEN request' = [request EXCEPT ![t] = NoRequest]
                ELSE request' = [request EXCEPT ![t].at = at]

\* GetUser; without a record the request fails.
FetchUser(t) ==
  /\ Steps(t, "fetch")
  /\ IF Known(request[t].of)
     THEN request' = [request EXCEPT ![t] =
            [request[t] EXCEPT !.at = "store", !.todo = Tail(@),
                               !.got = Set(account[request[t].of], Head(request[t].todo))]]
     ELSE Then(t, "idle")
  /\ UNCHANGED <<account, index, serving, loose>>

\* UpsertUser: the record, and the index.
StoreUser(t) ==
  /\ Steps(t, "store") /\ account' = [account EXCEPT ![request[t].of] = request[t].got]
  /\ Then(t, "list") /\ UNCHANGED <<index, serving, loose>>

ListUser(t) ==
  /\ Steps(t, "list") /\ index' = index \cup {request[t].of} /\ loose' = loose \ {request[t].of}
  /\ Then(t, IF request[t].todo = << >> THEN "idle" ELSE "fetch")
  /\ serving' = (serving \/ t = Start) /\ UNCHANGED account

Delete(t) ==
  /\ Steps(t, "delete") /\ account' = [account EXCEPT ![request[t].of] = NoAccount]
  /\ Then(t, "unlist") /\ UNCHANGED <<index, serving, loose>>

Unlist(t) ==
  /\ Steps(t, "unlist") /\ index' = index \ {request[t].of} /\ loose' = loose \ {request[t].of}
  /\ Then(t, "idle") /\ UNCHANGED <<account, serving>>

StoreStep(t) ==
  /\ FetchUser(t) \/ StoreUser(t) \/ ListUser(t) \/ Delete(t) \/ Unlist(t)
  /\ UNCHANGED <<token, want, crossed>>

\* What the goroutines of T had not done stays undone: such an account is left as it is.
CutOff(T) ==
  LET cut == {request[t].of : t \in T} \ (crossed \cup {NoEmail})
  IN  /\ request' = [t \in DOMAIN request |-> IF t \in T THEN NoRequest ELSE request[t]]
      /\ want' = [e \in Emails |-> IF e \in cut THEN account[e] ELSE want[e]]
      /\ loose' = loose \cup {e \in cut : \E t \in T : request[t].of = e
                                                       /\ request[t].at \in {"list", "unlist"}}
      /\ UNCHANGED <<account, index, token, crossed>>

\* A command of Redis fails, and the request with it.  One that was carried out and whose
\* answer was lost is a step of the store and then this.
RedisFails(t) == request[t].at # "idle" /\ CutOff({t}) /\ UNCHANGED serving

\* EnsureBootstrapUser, before the relay serves: an account that it can read is left alone.
\* Any error of the read is taken for there being none.
Bootstrap ==
  /\ ~serving /\ request[Start].at = "idle"
  /\ \/ /\ Known(Boot) /\ serving' = TRUE
        /\ UNCHANGED <<account, index, token, request, want, crossed, loose>>
     \/ \E p \in Passwords : LET new == [role |-> "admin", password |-> p, mfa |-> FALSE]
                              IN  Launch(Start, Boot, "store", << >>, new, new)

\* The relay stops, at any moment; it does so as well when a command of its start fails.
StopRelay == serving' = FALSE /\ CutOff(DOMAIN request)

AccountsNext ==
  \/ \E e \in Emails : Login(e)
  \/ \E t \in Requests, by, e \in Emails :
       CreateUser(t, by, e) \/ UpdateUser(t, by, e) \/ DeleteUser(t, by, e)
  \/ \E t \in Requests, e \in Emails : ChangeMFA(t, e)
  \/ \E t \in Requests \cup {Start} : StoreStep(t)
  \/ \E t \in Requests : RedisFails(t)
  \/ Bootstrap \/ StopRelay

AccountsSpec == AccountsInit /\ [][AccountsNext]_accountVars

-----------------------------------------------------------------------------
AccountRecords == [role : Roles \cup {"none"}, password : Passwords \cup {NoEmail}, mfa : BOOLEAN]

AccountsTypeOK ==
  /\ account \in [Emails -> AccountRecords] /\ want \in [Emails -> AccountRecords]
  /\ index \subseteq Emails /\ crossed \subseteq Emails /\ loose \subseteq Emails /\ serving \in BOOLEAN
  /\ token \in [Emails -> Roles \cup {"none"}]
  /\ \A t \in DOMAIN request : request[t].got \in AccountRecords

FinishedAsWanted ==
  \A e \in Emails \ crossed :
    ~Busy(e) => account[e] = want[e] /\ (e \notin loose => (e \in index <=> Known(e)))

PartlyAsWanted ==
  \A t \in DOMAIN request, e \in Emails \ crossed : request[t].of = e =>
    \A field \in DOMAIN NoAccount : account[e][field] \in {request[t].from[field], want[e][field]}

\* An account whose operations came one at a time, whatever happens to the others, is as the
\* last of them wants it, which may be a start that could not read it; one that was cut off by
\* a failing command or a stop leaves each field as it was or as it was to be, and the account
\* listed if it exists unless it fell between the two commands (store.go, UpsertUser to
\* SetPasswordAndRole).
AccountAsWanted == FinishedAsWanted /\ PartlyAsWanted
=============================================================================
