----------------------------- MODULE MCIpcConn ------------------------------
(***************************************************************************)
(* A producer for each reliable lane and two for video fill queues of two, *)
(* two and one.  Of the messages on their way on the reliable lanes one at *)
(* most can be told from the others: no step depends on what a message     *)
(* says, so that one shows whether any changes places with another.        *)
(***************************************************************************)
EXTENDS IpcConn, FiniteSets

CONSTANT marked

Marks ==
  {p \in Producer : item[p] = marked}
    \cup UNION {{<<l, n>> : n \in {k \in DOMAIN queue[l] : queue[l][k] = marked}} : l \in Lane}
    \cup {<<l, 0>> : l \in {k \in Lane : held = <<k, marked>>}}

OneMarked == Cardinality(Marks) <= 1 /\ \A p \in VidProducer : item[p] # marked

MCNext == Next /\ OneMarked'

MCSpec == Init /\ [][MCNext]_vars /\ Fairness
=============================================================================
