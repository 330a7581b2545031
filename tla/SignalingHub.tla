---------------------------- MODULE SignalingHub ----------------------------
(***************************************************************************)
(* The relay's signaling hub, server/signaling/hub.go: one goroutine per   *)
(* WebSocket connection, all of them sharing the map Hub.agents (under     *)
(* Hub.mu) and the agent and session records kept in Redis.                *)
(*                                                                         *)
(* A handler is cut into steps where another goroutine can come between:   *)
(* at every Redis write and every critical section of Hub.mu.  Each step   *)
(* is one action, and pc[c] is the step that connection c's goroutine      *)
(* takes next; "reading" is ReadJSON at the head of HandleWS's loop.       *)
(*                                                                         *)
(* A viewer dials once per connection, as both clients do, so a session    *)
(* record is named by the viewer connection it was made for.  The agent    *)
(* records are AgentRegistry's, the password check and its lockout are     *)
(* ConnectLockout's.  A message stays in inbox as long as its connection:  *)
(* the properties are about what was delivered.                            *)
(***************************************************************************)
EXTENDS Naturals, FiniteSets

CONSTANTS
    Host,              \* the machines that register to be reached
    HostConn,          \* connections opened by hosts
    ViewerConn,        \* connections opened by viewers
    RegisteringViewer, \* the viewers that register before they dial
    None,              \* nil, the empty id, no entry
    MaxKills,          \* bound on the administrator's disconnects
    MaxSignals         \* bound on the signals in all inboxes

Conn == HostConn \cup ViewerConn

ASSUME HubAssumption ==
    /\ HostConn \cap ViewerConn = {}
    /\ None \notin Conn \cup Host
    /\ RegisteringViewer \subseteq ViewerConn
    /\ MaxKills \in Nat /\ MaxSignals \in Nat

(***************************************************************************)
(* The keys of Hub.agents: a host's own id; "ctrl-<host>", which           *)
(* handleConnect gives to a viewer; and the id generated for a viewer that *)
(* registers without one (client/backend does, the Flutter viewer does     *)
(* not).  normAgentID maps every spelling of an id to one key.             *)
(***************************************************************************)
AgentKey(h) == <<"agent", h>>
CtrlKey(h)  == <<"ctrl", h>>
OwnKey(c)   == <<"own", c>>
NoKey       == <<"none", None>>

Key == {AgentKey(h) : h \in Host} \cup {CtrlKey(h) : h \in Host}
           \cup {OwnKey(c) : c \in RegisteringViewer}

\* peerOf strips or adds "ctrl-".  Nobody dials a generated id, so it has no
\* peer in the map.
PeerOf(k) ==
    IF k[1] = "ctrl" THEN AgentKey(k[2])
    ELSE IF k[1] = "agent" THEN CtrlKey(k[2]) ELSE NoKey

\* The steps after a handler has left HandleWS's loop and before disconnect
\* has dropped the map entry; the steps after that.
Alive == {"reading", "publish", "record", "bind", "route", "notify", "activate",
          "leave"}
Gone  == {"endSession", "tellPeer", "closed"}

Farewell == {"no", "left", "refused"}

\* A delivered message, as far as the hub writes it.
Message == [type   : {"connect", "signal", "bye"},
            from   : Key \cup {NoKey},
            to     : Key \cup {NoKey},
            reason : {"none", "peer_left", "peer_dropped", "killed"}]

Msg(t, k, r) == [type |-> t, from |-> k, to |-> NoKey, reason |-> r]

Signal(from, to) == [type |-> "signal", from |-> from, to |-> to, reason |-> "none"]

VARIABLES
    agents,   \* Hub.agents
    pc,       \* the step connection c's goroutine is at
    up,       \* whether c's socket still carries data
    id,       \* client.agentID
    role,     \* client.role
    sess,     \* client.sessionID
    said,     \* the bye c sent; client.saidBye is said[c] # "no"
    named,    \* the host named by the message being handled
    dest,     \* handleConnect's target pointer
    record,   \* Redis: SessionInfo.Status of each viewer's session
    inbox,    \* what has been delivered to c
    killing,  \* connections an administrator's disconnect has yet to close
    kills     \* administrator's disconnects so far

clientVars == <<up, id, role, sess, said>>
localVars  == <<named, dest>>
killVars   == <<killing, kills>>
vars == <<agents, pc, clientVars, localVars, record, inbox, killVars>>

TypeOK ==
    /\ agents  \in [Key -> Conn \cup {None}]
    /\ pc      \in [Conn -> {"new"} \cup Alive \cup Gone]
    /\ up      \in [Conn -> BOOLEAN]
    /\ id      \in [Conn -> Key \cup {NoKey}]
    /\ role    \in [Conn -> {"none", "agent", "controller"}]
    /\ sess    \in [Conn -> ViewerConn \cup {None}]
    /\ said    \in [Conn -> Farewell]
    /\ named   \in [Conn -> Host \cup {None}]
    /\ dest    \in [Conn -> Conn \cup {None}]
    /\ record  \in [ViewerConn -> {"none", "connecting", "active", "ended"}]
    /\ inbox   \in [Conn -> SUBSET Message]
    /\ killing \in SUBSET Conn
    /\ kills   \in Nat

Init ==
    /\ agents  = [k \in Key |-> None]
    /\ pc      = [c \in Conn |-> "new"]
    /\ up      = [c \in Conn |-> FALSE]
    /\ id      = [c \in Conn |-> NoKey]
    /\ role    = [c \in Conn |-> "none"]
    /\ sess    = [c \in Conn |-> None]
    /\ said    = [c \in Conn |-> "no"]
    /\ named   = [c \in Conn |-> None]
    /\ dest    = [c \in Conn |-> None]
    /\ record  = [v \in ViewerConn |-> "none"]
    /\ inbox   = [c \in Conn |-> {}]
    /\ killing = {}
    /\ kills   = 0

-----------------------------------------------------------------------------
Goto(c, from, to) ==
    /\ pc[c] = from
    /\ pc' = [pc EXCEPT ![c] = to]

\* client.send: a write to a dead socket fails, and every caller ignores it.
Sent(c, m) == IF up[c] THEN [inbox EXCEPT ![c] = @ \cup {m}] ELSE inbox

\* A WebSocket upgrade: HandleWS starts with the role of the route's guard,
\* "agent" on /agent/ws, where a host's certificate is checked.
Accept(c, guard) ==
    /\ guard = "agent" => c \in HostConn
    /\ Goto(c, "new", "reading")
    /\ up'   = [up EXCEPT ![c] = TRUE]
    /\ role' = [role EXCEPT ![c] = guard]
    /\ UNCHANGED <<agents, id, sess, said, localVars, record, inbox, killVars>>

\* The network, or the process at the other end, drops the socket.
Drop(c) ==
    /\ up[c]
    /\ up' = [up EXCEPT ![c] = FALSE]
    /\ UNCHANGED <<agents, pc, id, role, sess, said, localVars, record,
                   inbox, killVars>>

\* Mutant of ReadError: a read error is taken for a bad message and skipped.
ReadErrorSkipped(c) ==
    /\ ~up[c]
    /\ Goto(c, "reading", "reading")
    /\ UNCHANGED <<agents, clientVars, localVars, record, inbox, killVars>>

\* ReadJSON fails on a dead socket and HandleWS returns into disconnect.
ReadError(c) ==
    /\ ~up[c]
    /\ Goto(c, "reading", "leave")
    /\ UNCHANGED <<agents, clientVars, localVars, record, inbox, killVars>>

(***************************************************************************)
(* A client says bye: because it is done ("left"), or, a host only, to     *)
(* refuse the viewer it was just asked about ("refused"), in which case    *)
(* the viewer's id is in Message.To and the reason in Message.Error.       *)
(* HandleWS looks at neither field.                                        *)
(***************************************************************************)
ReadBye(c, farewell) ==
    /\ up[c]
    /\ farewell = "refused" =>
         c \in HostConn /\ \E m \in inbox[c] : m.type = "connect"
    /\ Goto(c, "reading", "leave")
    /\ said' = [said EXCEPT ![c] = farewell]
    /\ UNCHANGED <<agents, up, id, role, sess, localVars, record, inbox,
                   killVars>>

-----------------------------------------------------------------------------
(***************************************************************************)
(* handleRegister for a host: a first registration, or a later one on the  *)
(* same connection (a changed password), which keeps its id.  The agent's  *)
(* record is written to Redis first, the map entry after it.               *)
(***************************************************************************)
RegisterRecord(c, h) ==
    /\ c \in HostConn /\ up[c]
    /\ id[c] \in {NoKey, AgentKey(h)}
    /\ Goto(c, "reading", "publish")
    /\ named' = [named EXCEPT ![c] = h]
    /\ UNCHANGED <<agents, clientVars, dest, record, inbox, killVars>>

RegisterPublish(c) ==
    /\ Goto(c, "publish", "reading")
    /\ id'     = [id EXCEPT ![c] = AgentKey(named[c])]
    /\ role'   = [role EXCEPT ![c] = "agent"]
    /\ agents' = [agents EXCEPT ![AgentKey(named[c])] = c]
    /\ named'  = [named EXCEPT ![c] = None]
    /\ UNCHANGED <<up, sess, said, dest, record, inbox, killVars>>

\* A certificate is refused or Redis fails: an error, and no entry.
RegisterFails(c) ==
    /\ Goto(c, "publish", "reading")
    /\ named' = [named EXCEPT ![c] = None]
    /\ UNCHANGED <<agents, clientVars, dest, record, inbox, killVars>>

\* handleRegister for a viewer: a generated id, no password and no record.
RegisterViewer(c) ==
    /\ c \in RegisteringViewer /\ up[c]
    /\ pc[c] = "reading" /\ id[c] = NoKey
    /\ id'     = [id EXCEPT ![c] = OwnKey(c)]
    /\ role'   = [role EXCEPT ![c] = "controller"]
    /\ agents' = [agents EXCEPT ![OwnKey(c)] = c]
    /\ UNCHANGED <<pc, up, sess, said, localVars, record, inbox, killVars>>

-----------------------------------------------------------------------------
(***************************************************************************)
(* handleConnect.  A lockout, an unknown host, a wrong password and a host *)
(* with no connection are answered with an error and change nothing here.  *)
(***************************************************************************)
ConnectLookup(v, h) ==
    /\ v \in ViewerConn /\ up[v] /\ record[v] = "none"
    /\ v \in RegisteringViewer => id[v] # NoKey
    /\ agents[AgentKey(h)] # None
    /\ Goto(v, "reading", "record")
    /\ named' = [named EXCEPT ![v] = h]
    /\ dest'  = [dest EXCEPT ![v] = agents[AgentKey(h)]]
    /\ UNCHANGED <<agents, clientVars, record, inbox, killVars>>

\* StartSession.
ConnectRecord(v) ==
    /\ Goto(v, "record", "bind")
    /\ record' = [record EXCEPT ![v] = "connecting"]
    /\ UNCHANGED <<agents, clientVars, localVars, inbox, killVars>>

\* ... or its failure: the viewer gets an error and may dial again.
ConnectFails(v) ==
    /\ Goto(v, "record", "reading")
    /\ named' = [named EXCEPT ![v] = None]
    /\ dest'  = [dest EXCEPT ![v] = None]
    /\ UNCHANGED <<agents, clientVars, record, inbox, killVars>>

\* Mutant of ConnectBind: the session goes to whoever holds the id by now.
ConnectBindCurrent(v) ==
    /\ Goto(v, "bind", "route")
    /\ id'   = [id EXCEPT ![v] = CtrlKey(named[v])]
    /\ role' = [role EXCEPT ![v] = "controller"]
    /\ sess' = [c \in Conn |->
                  IF c \in {v, agents[AgentKey(named[v])]} THEN v ELSE sess[c]]
    /\ UNCHANGED <<agents, up, said, localVars, record, inbox, killVars>>

\* Both clients get the session's id, the host's without a lock; the viewer
\* becomes "ctrl-<host>".
ConnectBind(v) ==
    /\ Goto(v, "bind", "route")
    /\ id'   = [id EXCEPT ![v] = CtrlKey(named[v])]
    /\ role' = [role EXCEPT ![v] = "controller"]
    /\ sess' = [sess EXCEPT ![v] = v, ![dest[v]] = v]
    /\ UNCHANGED <<agents, up, said, localVars, record, inbox, killVars>>

\* The entry by which the host reaches the viewer, whoever held it before.
ConnectRoute(v) ==
    /\ Goto(v, "route", "notify")
    /\ agents' = [agents EXCEPT ![CtrlKey(named[v])] = v]
    /\ UNCHANGED <<clientVars, localVars, record, inbox, killVars>>

\* The request goes to the host; the viewer's own confirmation is left out.
ConnectNotify(v) ==
    /\ Goto(v, "notify", "activate")
    /\ inbox' = Sent(dest[v], Msg("connect", CtrlKey(named[v]), "none"))
    /\ UNCHANGED <<agents, clientVars, localVars, record, killVars>>

\* SetSessionStatus writes "active" over whatever the record says by now.
ConnectActivate(v) ==
    /\ Goto(v, "activate", "reading")
    /\ record' = [record EXCEPT ![v] = "active"]
    /\ UNCHANGED <<agents, clientVars, localVars, inbox, killVars>>

\* The signals that connections which have not gone have been sent.
Signals == UNION {{<<c, m>> : m \in {n \in inbox[c] : n.type = "signal"}} : c \in Conn}

\* Mutant of Relay: the sender's own Message.From goes on.
RelayUnstamped(c, k) ==
    /\ up[c] /\ pc[c] = "reading" /\ agents[k] # None
    /\ Cardinality(Signals) < MaxSignals
    /\ \E from \in Key : inbox' = Sent(agents[k], Signal(from, k))
    /\ UNCHANGED <<agents, pc, clientVars, localVars, record, killVars>>

\* handleRelay, for an offer, an answer or a candidate: it goes to the holder of whatever id
\* the sender wrote into Message.To, and all the hub adds is the sender's id.
Relay(c, k) ==
    /\ up[c] /\ pc[c] = "reading" /\ agents[k] # None
    /\ Cardinality(Signals) < MaxSignals
    /\ inbox' = Sent(agents[k], Signal(id[c], k))
    /\ UNCHANGED <<agents, pc, clientVars, localVars, record, killVars>>

-----------------------------------------------------------------------------
\* Mutants of Leave: the entry goes whoever holds it; an agent's entry stays.
LeaveUnguarded(c) ==
    /\ pc[c] = "leave"
    /\ agents' = [k \in Key |-> IF k = id[c] THEN None ELSE agents[k]]
    /\ pc' = [pc EXCEPT ![c] = IF id[c] = NoKey THEN "closed" ELSE "endSession"]
    /\ up' = [up EXCEPT ![c] = @ /\ id[c] # NoKey]
    /\ UNCHANGED <<id, role, sess, said, localVars, record, inbox, killVars>>

LeaveKeepsAgent(c) ==
    /\ pc[c] = "leave"
    /\ agents' = [k \in Key |-> IF k = id[c] /\ agents[k] = c /\ role[c] # "agent"
                                THEN None ELSE agents[k]]
    /\ pc' = [pc EXCEPT ![c] = IF id[c] = NoKey THEN "closed" ELSE "endSession"]
    /\ up' = [up EXCEPT ![c] = @ /\ id[c] # NoKey]
    /\ UNCHANGED <<id, role, sess, said, localVars, record, inbox, killVars>>

(***************************************************************************)
(* disconnect.  Only an entry that still points at this client is removed; *)
(* the session is ended and the peer is told in any case.                  *)
(***************************************************************************)
Leave(c) ==
    /\ pc[c] = "leave"
    /\ LET owner == id[c] # NoKey /\ agents[id[c]] = c
       IN /\ agents' = IF owner THEN [agents EXCEPT ![id[c]] = None] ELSE agents
          /\ pc' = [pc EXCEPT ![c] =
                      IF id[c] = NoKey THEN "closed" ELSE "endSession"]
          /\ up' = [up EXCEPT ![c] = @ /\ id[c] # NoKey]
    /\ UNCHANGED <<id, role, sess, said, localVars, record, inbox, killVars>>

\* Mutant of EndSession: only for the client that still held its entry.
EndSessionIfOwner(c) ==
    /\ Goto(c, "endSession", "tellPeer")
    /\ record' = IF sess[c] # None /\ agents[id[c]] = None
                 THEN [record EXCEPT ![sess[c]] = "ended"] ELSE record
    /\ UNCHANGED <<agents, clientVars, localVars, inbox, killVars>>

EndSession(c) ==
    /\ Goto(c, "endSession", "tellPeer")
    /\ record' = IF sess[c] # None THEN [record EXCEPT ![sess[c]] = "ended"]
                                   ELSE record
    /\ UNCHANGED <<agents, clientVars, localVars, inbox, killVars>>

\* Mutant of ByeFrom: the client's own farewell is passed on as the reason.
ByeInOwnWords(c) == Msg("bye", id[c], said[c])

ByeFrom(c) ==
    Msg("bye", id[c], IF said[c] = "no" THEN "peer_dropped" ELSE "peer_left")

\* Mutant of TellPeer: a client that has been replaced tells nobody.
TellPeerIfNotReplaced(c) ==
    /\ Goto(c, "tellPeer", "closed")
    /\ LET told == IF /\ agents[id[c]] = None
                      /\ PeerOf(id[c]) \in Key /\ agents[PeerOf(id[c])] # None
                   THEN Sent(agents[PeerOf(id[c])], ByeFrom(c))
                   ELSE inbox
       IN inbox' = [told EXCEPT ![c] = {}]
    /\ up'   = [up EXCEPT ![c] = FALSE]
    /\ said' = [said EXCEPT ![c] = "no"]
    /\ UNCHANGED <<agents, id, role, sess, localVars, record, killVars>>

\* The last step of disconnect; when HandleWS returns, the WebSocket is closed
\* and the client forgotten.
TellPeer(c) ==
    /\ Goto(c, "tellPeer", "closed")
    /\ LET told == IF PeerOf(id[c]) \in Key /\ agents[PeerOf(id[c])] # None
                   THEN Sent(agents[PeerOf(id[c])], ByeFrom(c))
                   ELSE inbox
       IN inbox' = [told EXCEPT ![c] = {}]
    /\ up'   = [up EXCEPT ![c] = FALSE]
    /\ said' = [said EXCEPT ![c] = "no"]
    /\ UNCHANGED <<agents, id, role, sess, localVars, record, killVars>>

-----------------------------------------------------------------------------
\* KillAllSessions: the targets are copied under the lock...
KillAll ==
    /\ kills < MaxKills /\ killing = {}
    /\ kills'   = kills + 1
    /\ killing' = {agents[k] : k \in Key} \ {None}
    /\ UNCHANGED <<agents, pc, clientVars, localVars, record, inbox>>

\* ... and so is the one target of disconnectAgent, after a revocation.
DisconnectAgent(h) ==
    /\ kills < MaxKills /\ killing = {}
    /\ kills'   = kills + 1
    /\ killing' = {agents[AgentKey(h)]} \ {None}
    /\ UNCHANGED <<agents, pc, clientVars, localVars, record, inbox>>

\* Then each is sent a bye and closed, outside the lock.
CloseKilled(c) ==
    /\ c \in killing
    /\ killing' = killing \ {c}
    /\ inbox' = Sent(c, Msg("bye", NoKey, "killed"))
    /\ up' = [up EXCEPT ![c] = FALSE]
    /\ UNCHANGED <<agents, pc, id, role, sess, said, localVars, record, kills>>

-----------------------------------------------------------------------------
\* What a connection's goroutine does without waiting for its client.
Step(c) ==
    \/ ReadError(c) \/ RegisterPublish(c) \/ RegisterFails(c)
    \/ ConnectRecord(c) \/ ConnectFails(c) \/ ConnectBind(c) \/ ConnectRoute(c)
    \/ ConnectNotify(c) \/ ConnectActivate(c)
    \/ Leave(c) \/ EndSession(c) \/ TellPeer(c)

\* What its client, or the network, may or may not do.
Input(c) ==
    \/ \E guard \in {"agent", "controller"} : Accept(c, guard)
    \/ Drop(c) \/ RegisterViewer(c)
    \/ \E k \in Key : Relay(c, k)
    \/ \E farewell \in {"left", "refused"} : ReadBye(c, farewell)
    \/ \E h \in Host : RegisterRecord(c, h) \/ ConnectLookup(c, h)

Next ==
    \/ \E c \in Conn : Step(c) \/ Input(c) \/ CloseKilled(c)
    \/ \E h \in Host : DisconnectAgent(h)
    \/ KillAll

\* The Go scheduler runs every goroutine that can run; nothing is assumed of
\* the clients, the network or the administrator.
Fairness == \A c \in Conn : WF_vars(Step(c)) /\ WF_vars(CloseKilled(c))

Spec == Init /\ [][Next]_vars /\ Fairness
-----------------------------------------------------------------------------
(***************************************************************************)
(* Hub.agents never routes to a connection that has left, and a route's    *)
(* holder knows itself by that id: replacing an entry on a re-registration *)
(* or a takeover and removing it on a late disconnect never cross          *)
(* (hub.go:438-444, 930-935).  A presence answer, which wants the role     *)
(* "agent", therefore agrees with what a dial finds.  The ids generated    *)
(* for registering viewers are left out: a viewer that dials forgets its   *)
(* generated id, and that entry outlives the connection.                   *)
(***************************************************************************)
RoutesOwned ==
    \A k \in Key : agents[k] # None /\ k[1] # "own" =>
        /\ id[agents[k]] = k
        /\ pc[agents[k]] \in Alive
        /\ role[agents[k]] = IF k[1] = "agent" THEN "agent" ELSE "controller"

(***************************************************************************)
(* The hub lets a client signal anybody, but not as anybody: an offer,     *)
(* answer or candidate only reaches the client that holds the id it was    *)
(* sent to, and one stamped "ctrl-<host>" comes from a viewer which the    *)
(* hub has let past that host's password, and of which the connection it   *)
(* dialled was told first (hub.go:910-923, 755-784).  A viewer that has    *)
(* lost its "ctrl-" id to a later one still signals under it, and a host   *)
(* that has reconnected may hear from a viewer that dialled it before.     *)
(***************************************************************************)
SignalsVouchedFor ==
    \A c \in Conn : \A m \in inbox[c] : m.type = "signal" =>
        /\ m.to \in {id[c], OwnKey(c)}
        /\ m.from[1] = "agent" => \E t \in HostConn : id[t] = m.from
        /\ m.from[1] = "ctrl" =>
             \E v \in ViewerConn :
                 /\ id[v] = m.from /\ record[v] # "none"
                 /\ dest[v] = c => Msg("connect", m.from, "none") \in inbox[c]

(***************************************************************************)
(* The session id a host's connection carries is that of a viewer which    *)
(* dialled this very connection under this host's id, although another     *)
(* goroutine, the viewer's, writes it there without a lock (hub.go:759).   *)
(***************************************************************************)
SessionNamesItsPair ==
    \A t \in HostConn : sess[t] # None =>
        /\ dest[sess[t]] = t
        /\ id[sess[t]] = PeerOf(id[t])

(***************************************************************************)
(* Once a viewer is gone its session record says "ended" and nothing, not  *)
(* the host's own disconnect nor a late "active", changes that back: the   *)
(* dashboard's active sessions (server.go:546-549) never count it again.   *)
(***************************************************************************)
GoneViewerEnded ==
    \A v \in ViewerConn :
        pc[v] = "closed" /\ record[v] # "none" => record[v] = "ended"

\* The map, but for the generated ids, is the abstract table of RouteTable.
SharedKey == {k \in Key : k[1] # "own"}
Routes == INSTANCE RouteTable
            WITH RouteKey <- SharedKey, Client <- Conn, NoClient <- None,
                 table <- [k \in SharedKey |-> agents[k]],
                 gone  <- {c \in Conn : pc[c] \in Gone}

(***************************************************************************)
(* The hub's map implements RouteTable: every handler step, whatever it    *)
(* races with, publishes one client under its one id, withdraws a client   *)
(* for good, or leaves the table alone (hub.go:551-553, 761-763, 930-935). *)
(***************************************************************************)
RouteTableSpec == Routes!TableSpec

(***************************************************************************)
(* When the socket of a routed host dies under the viewer it is paired     *)
(* with, that viewer is eventually told, unless it has gone or been        *)
(* replaced itself (hub.go:954-969): also if the host has re-registered    *)
(* on a new connection before the old goroutine gets to its disconnect.    *)
(***************************************************************************)
HostDead(h) == agents[AgentKey(h)] # None /\ ~up[agents[AgentKey(h)]]

Paired(h, v) ==
    /\ agents[AgentKey(h)] # None /\ agents[CtrlKey(h)] = v
    /\ sess[agents[AgentKey(h)]] = v /\ up[v]

DropIsAnnounced ==
    \A h \in Host, v \in ViewerConn :
        Paired(h, v) /\ HostDead(h) ~>
            \/ \E m \in inbox[v] : m.type = "bye"
            \/ ~up[v] \/ agents[CtrlKey(h)] # v

\* A host whose socket has died does not stay dialable through it, also when
\* an administrator closed it (hub.go:373-376, 303-316).
DeadHostUnrouted == \A h \in Host : HostDead(h) ~> ~HostDead(h)
=============================================================================
