----------------------------- MODULE RouteTable -----------------------------
(***************************************************************************)
(* What the hub's map of ids to clients promises (Hub.agents in            *)
(* server/signaling/hub.go), without handlers, locks or Redis: an id leads *)
(* to at most one client, a client is found under at most one id, and a    *)
(* client that has left is found under none, ever again.                   *)
(***************************************************************************)
CONSTANTS RouteKey, Client, NoClient

VARIABLES
    table, \* the client each key leads to, or NoClient
    gone   \* the clients that have left

tableVars == <<table, gone>>

TableInit ==
    /\ table = [k \in RouteKey |-> NoClient]
    /\ gone  = {}

\* A client takes a key, whoever held it before.
Publish(c, k) ==
    /\ c \notin gone
    /\ \A j \in RouteKey \ {k} : table[j] # c
    /\ table' = [table EXCEPT ![k] = c]
    /\ UNCHANGED gone

\* A client leaves, and takes away exactly the entries that lead to it.
Withdraw(c) ==
    /\ gone'  = gone \cup {c}
    /\ table' = [k \in RouteKey |-> IF table[k] = c THEN NoClient ELSE table[k]]

TableNext ==
    \E c \in Client : Withdraw(c) \/ \E k \in RouteKey : Publish(c, k)

TableSpec == TableInit /\ [][TableNext]_tableVars
=============================================================================
