--------------------------- MODULE MCRelayRecords ---------------------------
(***************************************************************************)
(* Small instances of what the relay keeps in Redis: the records of agents *)
(* (AgentRegistry) and the dashboard's accounts (Accounts).  A behaviour   *)
(* is one part's, chosen by part; the other keeps its first state.  The    *)
(* goroutines that work on the records are interchangeable.                *)
(***************************************************************************)
EXTENDS AgentRegistry, Accounts, TLC

CONSTANTS agent, alias, hand1, hand2, noName,
          boot, user, pass, req1, req2, start, noEmail

VARIABLE part

MCAgents    == {agent}
MCAliases   == {alias}
MCHandlers  == {hand1, hand2}
MCEmails    == {boot, user}
MCPasswords == {pass}
MCRoles     == {"viewer", "admin"}
MCRequests  == {req1, req2}

Symmetry == Permutations(MCHandlers) \cup Permutations(MCRequests)

Init == part \in {"registry", "accounts"} /\ RegistryInit /\ AccountsInit

Next ==
  \/ part = "registry" /\ RegistryNext /\ UNCHANGED <<part, accountVars>>
  \/ part = "accounts" /\ AccountsNext /\ UNCHANGED <<part, registryVars>>

Spec == Init /\ [][Next]_<<part, registryVars, accountVars>>

\* Behaviours are followed until two operations meet on one account: AccountAsWanted says
\* nothing more of that account then.
Apart == crossed = {}
=============================================================================
