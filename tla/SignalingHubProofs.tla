------------------------- MODULE SignalingHubProofs -------------------------
(***************************************************************************)
(* Proofs about SignalingHub for any number of hosts, connections and      *)
(* administrator's disconnects.                                            *)
(***************************************************************************)
EXTENDS SignalingHub, TLAPS

(***************************************************************************)
(* What a goroutine's place in a handler says about its client's fields.   *)
(* Only the goroutine of c writes id[c] and named[c], so these hold        *)
(* whatever the others do.                                                 *)
(***************************************************************************)
Dialling == {"record", "bind", "route", "notify", "activate"}

PlaceInv ==
    \A c \in Conn :
        /\ pc[c] = "new" => id[c] = NoKey
        /\ pc[c] = "publish" =>
             /\ c \in HostConn /\ named[c] \in Host
             /\ id[c] \in {NoKey, AgentKey(named[c])}
        /\ pc[c] \in Dialling =>
             /\ c \in ViewerConn /\ named[c] \in Host /\ dest[c] \in HostConn
             /\ id[dest[c]] = AgentKey(named[c])
        /\ pc[c] \in {"record", "bind"} => id[c] \in {NoKey, OwnKey(c)}
        /\ pc[c] \in {"route", "notify", "activate"} =>
             id[c] = CtrlKey(named[c]) /\ role[c] = "controller"

(***************************************************************************)
(* Hosts have agent ids; a viewer has its generated id or, once its        *)
(* session record exists, a "ctrl-" id.                                    *)
(***************************************************************************)
IdInv ==
    \A c \in Conn :
        /\ c \in HostConn => id[c] = NoKey \/ \E h \in Host : id[c] = AgentKey(h)
        /\ c \in ViewerConn =>
             id[c] \in {NoKey, OwnKey(c)} \/ \E h \in Host : id[c] = CtrlKey(h)
        /\ c \in ViewerConn /\ record[c] = "none" => id[c] \in {NoKey, OwnKey(c)}
        /\ c \in HostConn /\ id[c] # NoKey => role[c] = "agent"

(***************************************************************************)
(* A viewer's session record, its own session id and its "ctrl-" id come   *)
(* together; a host's session id is that of a viewer that dialled it.  A   *)
(* viewer that is past EndSession has an ended record.                     *)
(***************************************************************************)
SessionInv ==
    /\ \A v \in ViewerConn :
        /\ pc[v] = "record" => record[v] = "none"
        /\ pc[v] \in {"bind", "route", "notify", "activate"} => record[v] # "none"
        /\ record[v] = "none" => sess[v] = None
        /\ record[v] # "none" /\ pc[v] # "bind" => sess[v] = v /\ id[v] # NoKey
        /\ pc[v] \in {"tellPeer", "closed"} => record[v] \in {"none", "ended"}
    /\ \A t \in HostConn : sess[t] # None =>
        /\ sess[t] \in ViewerConn /\ id[t] # NoKey
        /\ pc[sess[t]] # "bind" /\ record[sess[t]] # "none"

(***************************************************************************)
(* The host's connection that a viewer has dialled was told of it, unless  *)
(* its socket has been closed since; it keeps its id.                      *)
(***************************************************************************)
ToldInv ==
    \A v \in ViewerConn :
        record[v] # "none" /\ pc[v] \notin {"bind", "route", "notify"} =>
            /\ dest[v] \in HostConn /\ id[dest[v]] # NoKey
            /\ up[dest[v]] => Msg("connect", id[v], "none") \in inbox[dest[v]]

\* A generated id leads to the viewer it was made for, and a signal was sent to some id.
SentInv ==
    /\ \A v \in RegisteringViewer : agents[OwnKey(v)] \in {None, v}
    /\ \A c \in Conn : \A m \in inbox[c] : m.type = "signal" => m.to \in Key

HubInv ==
    /\ TypeOK /\ PlaceInv /\ IdInv /\ SessionInv /\ ToldInv /\ SentInv
    /\ RoutesOwned /\ SessionNamesItsPair /\ SignalsVouchedFor

LEMMA KeyKinds ==
    /\ NoKey \notin Key
    /\ \A h \in Host : AgentKey(h) \in Key /\ CtrlKey(h) \in Key
    /\ \A c \in RegisteringViewer : OwnKey(c) \in Key
    /\ \A h, g : AgentKey(h) # CtrlKey(g) /\ AgentKey(h) # OwnKey(g)
                 /\ CtrlKey(h) # OwnKey(g)
    /\ \A h, g : AgentKey(h) = AgentKey(g) => h = g
    /\ \A h, g : CtrlKey(h) = CtrlKey(g) => h = g
    /\ \A c, d : OwnKey(c) = OwnKey(d) => c = d
    /\ \A h : AgentKey(h)[1] = "agent" /\ CtrlKey(h)[1] = "ctrl"
              /\ OwnKey(h)[1] = "own" /\ NoKey # AgentKey(h)
              /\ NoKey # CtrlKey(h) /\ NoKey # OwnKey(h)
    /\ \A h : PeerOf(AgentKey(h)) = CtrlKey(h) /\ PeerOf(CtrlKey(h)) = AgentKey(h)
    /\ \A c : PeerOf(OwnKey(c)) = NoKey
    /\ PeerOf(NoKey) = NoKey
BY DEF Key, NoKey, AgentKey, CtrlKey, OwnKey, PeerOf

LEMMA Fields ==
    /\ \A t, k, r : Msg(t, k, r).type = t /\ Msg(t, k, r).from = k
    /\ \A f, k : Signal(f, k).type = "signal" /\ Signal(f, k).from = f /\ Signal(f, k).to = k
BY DEF Msg, Signal

LEMMA HubInit == Init => HubInv
<1> SUFFICES ASSUME Init PROVE HubInv
  OBVIOUS
<1> USE HubAssumption DEF Init
<1>1. TypeOK
  BY DEF TypeOK, Farewell, Conn
<1>2. PlaceInv
  BY DEF PlaceInv, Dialling
<1>3. IdInv
  BY KeyKinds DEF IdInv
<1>4. RoutesOwned
  BY DEF RoutesOwned
<1>5. SessionInv /\ ToldInv /\ SessionNamesItsPair
  BY DEF SessionInv, ToldInv, SessionNamesItsPair, Conn
<1>6. \A c \in Conn : inbox[c] = {}
  OBVIOUS
<1>7. SentInv /\ SignalsVouchedFor
  BY <1>6, KeyKinds DEF SentInv, SignalsVouchedFor
<1> QED
  BY <1>1, <1>2, <1>3, <1>4, <1>5, <1>7 DEF HubInv

LEMMA SentType ==
    ASSUME TypeOK, NEW c \in Conn, NEW m \in Message
    PROVE  Sent(c, m) \in [Conn -> SUBSET Message]
BY DEF TypeOK, Sent

LEMMA HubTypeStep == HubInv /\ [Next]_vars => TypeOK'
<1> SUFFICES ASSUME HubInv, [Next]_vars PROVE TypeOK'
  OBVIOUS
<1> USE HubAssumption DEF HubInv
<1>0. ASSUME UNCHANGED vars PROVE TypeOK'
  BY <1>0 DEF vars, clientVars, localVars, killVars, TypeOK
<1>1. ASSUME NEW c \in Conn, Step(c) PROVE TypeOK'
  <2>1. CASE ReadError(c)
    BY <2>1 DEF ReadError, Goto, clientVars, localVars, killVars, TypeOK, Alive, Gone
  <2>2. CASE RegisterPublish(c)
    <3>1. named[c] \in Host /\ AgentKey(named[c]) \in Key
      BY <2>2, KeyKinds DEF RegisterPublish, Goto, PlaceInv
    <3> QED
      BY <2>2, <3>1 DEF RegisterPublish, Goto, killVars, TypeOK, Alive, Gone
  <2>11. CASE RegisterFails(c)
    BY <2>11 DEF RegisterFails, Goto, clientVars, killVars, TypeOK, Alive, Gone
  <2>12. CASE ConnectFails(c)
    BY <2>12 DEF ConnectFails, Goto, clientVars, killVars, TypeOK, Alive, Gone
  <2>3. CASE ConnectRecord(c)
    <3>1. c \in ViewerConn
      BY <2>3 DEF ConnectRecord, Goto, PlaceInv, Dialling
    <3> QED
      BY <2>3, <3>1 DEF ConnectRecord, Goto, clientVars, localVars, killVars, TypeOK, Alive, Gone
  <2>4. CASE ConnectBind(c)
    <3>1. named[c] \in Host /\ CtrlKey(named[c]) \in Key /\ c \in ViewerConn
      BY <2>4, KeyKinds DEF ConnectBind, Goto, PlaceInv, Dialling
    <3> QED
      BY <2>4, <3>1 DEF ConnectBind, Goto, localVars, killVars, TypeOK, Alive, Gone
  <2>10. CASE ConnectRoute(c)
    <3>1. CtrlKey(named[c]) \in Key /\ c \in ViewerConn
      BY <2>10, KeyKinds DEF ConnectRoute, Goto, PlaceInv, Dialling
    <3> QED
      BY <2>10, <3>1 DEF ConnectRoute, Goto, clientVars, localVars, killVars, TypeOK, Alive, Gone
  <2>5. CASE ConnectNotify(c)
    <3>1. CtrlKey(named[c]) \in Key /\ c \in ViewerConn /\ dest[c] \in Conn
      BY <2>5, KeyKinds DEF ConnectNotify, Goto, PlaceInv, Dialling, Conn
    <3>2. Msg("connect", CtrlKey(named[c]), "none") \in Message
      BY <3>1 DEF Msg, Message, Farewell
    <3>3. inbox' \in [Conn -> SUBSET Message]
      BY <2>5, <3>1, <3>2, SentType DEF ConnectNotify
    <3> QED
      BY <2>5, <3>3 DEF ConnectNotify, Goto, clientVars, localVars, killVars, TypeOK, Alive, Gone
  <2>6. CASE ConnectActivate(c)
    <3>1. c \in ViewerConn
      BY <2>6 DEF ConnectActivate, Goto, PlaceInv, Dialling
    <3> QED
      BY <2>6, <3>1 DEF ConnectActivate, Goto, clientVars, localVars, killVars, TypeOK, Alive, Gone
  <2>7. CASE Leave(c)
    BY <2>7 DEF Leave, localVars, killVars, TypeOK, Alive, Gone
  <2>8. CASE EndSession(c)
    BY <2>8 DEF EndSession, Goto, clientVars, localVars, killVars, TypeOK, Alive, Gone
  <2>9. CASE TellPeer(c)
    <3> DEFINE p == agents[PeerOf(id[c])]
               told == IF PeerOf(id[c]) \in Key /\ p # None
                       THEN Sent(p, ByeFrom(c)) ELSE inbox
    <3>1. ByeFrom(c) \in Message
      BY DEF ByeFrom, Msg, Message, TypeOK, Farewell
    <3>2. told \in [Conn -> SUBSET Message]
      <4>1. CASE PeerOf(id[c]) \in Key /\ p # None
        <5>1. p \in Conn
          BY <4>1 DEF TypeOK
        <5> QED
          BY <4>1, <5>1, <3>1, SentType
      <4>2. CASE ~(PeerOf(id[c]) \in Key /\ p # None)
        BY <4>2 DEF TypeOK
      <4> QED
        BY <4>1, <4>2
    <3>3. inbox' = [told EXCEPT ![c] = {}]
      BY <2>9 DEF TellPeer
    <3>4. inbox' \in [Conn -> SUBSET Message]
      BY <3>2, <3>3
    <3> QED
      BY <2>9, <3>4 DEF TellPeer, Goto, localVars, killVars, TypeOK, Alive, Gone, Farewell
  <2> QED
    BY <1>1, <2>1, <2>2, <2>3, <2>4, <2>5, <2>6, <2>7, <2>8, <2>9, <2>10,
       <2>11, <2>12 DEF Step
<1>2. ASSUME NEW c \in Conn, Input(c) PROVE TypeOK'
  <2>1. ASSUME NEW g \in {"agent", "controller"}, Accept(c, g) PROVE TypeOK'
    BY <2>1 DEF Accept, Goto, localVars, killVars, TypeOK, Alive, Gone
  <2>2. CASE Drop(c)
    BY <2>2 DEF Drop, localVars, killVars, TypeOK
  <2>3. CASE RegisterViewer(c)
    <3>1. c \in RegisteringViewer /\ OwnKey(c) \in Key
      BY <2>3, KeyKinds DEF RegisterViewer
    <3> QED
      BY <2>3, <3>1 DEF RegisterViewer, localVars, killVars, TypeOK
  <2>4. ASSUME NEW k \in Key, Relay(c, k) PROVE TypeOK'
    <3>1. agents[k] \in Conn
      BY <2>4 DEF Relay, TypeOK
    <3>2. Signal(id[c], k) \in Message
      BY DEF Signal, Message, TypeOK
    <3>3. inbox' \in [Conn -> SUBSET Message]
      BY <2>4, <3>1, <3>2, SentType DEF Relay
    <3> QED
      BY <2>4, <3>3 DEF Relay, clientVars, localVars, killVars, TypeOK
  <2>5. ASSUME NEW f \in {"left", "refused"}, ReadBye(c, f) PROVE TypeOK'
    BY <2>5 DEF ReadBye, Goto, localVars, killVars, TypeOK, Alive, Gone, Farewell
  <2>6. ASSUME NEW h \in Host, RegisterRecord(c, h) PROVE TypeOK'
    BY <2>6 DEF RegisterRecord, Goto, clientVars, killVars, TypeOK, Alive, Gone
  <2>7. ASSUME NEW h \in Host, ConnectLookup(c, h) PROVE TypeOK'
    <3>1. agents[AgentKey(h)] \in Conn
      BY <2>7, KeyKinds DEF ConnectLookup, TypeOK
    <3> QED
      BY <2>7, <3>1 DEF ConnectLookup, Goto, clientVars, killVars, TypeOK, Alive, Gone
  <2> QED
    BY <1>2, <2>1, <2>2, <2>3, <2>4, <2>5, <2>6, <2>7 DEF Input
<1>3. ASSUME NEW c \in Conn, CloseKilled(c) PROVE TypeOK'
  <2>1. Msg("bye", NoKey, "killed") \in Message
    BY DEF Msg, Message, Farewell
  <2>2. inbox' \in [Conn -> SUBSET Message]
    BY <1>3, <2>1, SentType DEF CloseKilled
  <2> QED
    BY <1>3, <2>2 DEF CloseKilled, localVars, killVars, TypeOK
<1>4. ASSUME NEW h \in Host, DisconnectAgent(h) PROVE TypeOK'
  BY <1>4, KeyKinds DEF DisconnectAgent, clientVars, localVars, TypeOK
<1>5. ASSUME KillAll PROVE TypeOK'
  BY <1>5 DEF KillAll, clientVars, localVars, TypeOK
<1> QED
  BY <1>0, <1>1, <1>2, <1>3, <1>4, <1>5 DEF Next

\* A goroutine's place in a handler.
LEMMA PlaceInvStep == HubInv /\ [Next]_vars => PlaceInv'
<1> SUFFICES ASSUME HubInv, [Next]_vars PROVE PlaceInv'
  OBVIOUS
<1>t. TypeOK'
  BY HubTypeStep
<1> USE HubAssumption, KeyKinds, <1>t
    DEF HubInv, TypeOK, Goto, clientVars, localVars, killVars, Dialling,
           Alive, Gone, Msg, Conn, ByeFrom, Sent,
           PlaceInv, IdInv, RoutesOwned
<1>0. ASSUME UNCHANGED vars PROVE PlaceInv'
  BY <1>0 DEF vars
<1>1. ASSUME NEW c \in Conn, Step(c) PROVE PlaceInv'
  <2>1. CASE ReadError(c)
    BY <2>1 DEF ReadError
  <2>2. CASE RegisterPublish(c)
    BY <2>2 DEF RegisterPublish
  <2>11. CASE RegisterFails(c)
    BY <2>11 DEF RegisterFails
  <2>12. CASE ConnectFails(c)
    BY <2>12 DEF ConnectFails
  <2>3. CASE ConnectRecord(c)
    BY <2>3 DEF ConnectRecord
  <2>4. CASE ConnectBind(c)
    BY <2>4 DEF ConnectBind
  <2>10. CASE ConnectRoute(c)
    BY <2>10 DEF ConnectRoute
  <2>5. CASE ConnectNotify(c)
    BY <2>5 DEF ConnectNotify
  <2>6. CASE ConnectActivate(c)
    BY <2>6 DEF ConnectActivate
  <2>7. CASE Leave(c)
    BY <2>7 DEF Leave
  <2>8. CASE EndSession(c)
    BY <2>8 DEF EndSession
  <2>9. CASE TellPeer(c)
    BY <2>9 DEF TellPeer
  <2> QED
    BY <1>1, <2>1, <2>2, <2>3, <2>4, <2>5, <2>6, <2>7, <2>8, <2>9, <2>10,
       <2>11, <2>12 DEF Step
<1>2. ASSUME NEW c \in Conn, Input(c) PROVE PlaceInv'
  <2>1. ASSUME NEW g \in {"agent", "controller"}, Accept(c, g) PROVE PlaceInv'
    BY <2>1 DEF Accept
  <2>2. CASE Drop(c)
    BY <2>2 DEF Drop
  <2>3. CASE RegisterViewer(c)
    BY <2>3 DEF RegisterViewer
  <2>4. ASSUME NEW k \in Key, Relay(c, k) PROVE PlaceInv'
    BY <2>4 DEF Relay
  <2>5. ASSUME NEW f \in {"left", "refused"}, ReadBye(c, f) PROVE PlaceInv'
    BY <2>5 DEF ReadBye
  <2>6. ASSUME NEW h \in Host, RegisterRecord(c, h) PROVE PlaceInv'
    BY <2>6 DEF RegisterRecord
  <2>7. ASSUME NEW h \in Host, ConnectLookup(c, h) PROVE PlaceInv'
    BY <2>7 DEF ConnectLookup
  <2> QED
    BY <1>2, <2>1, <2>2, <2>3, <2>4, <2>5, <2>6, <2>7 DEF Input
<1>3. ASSUME NEW c \in Conn, CloseKilled(c) PROVE PlaceInv'
  BY <1>3 DEF CloseKilled
<1>4. ASSUME NEW h \in Host, DisconnectAgent(h) PROVE PlaceInv'
  BY <1>4 DEF DisconnectAgent
<1>5. ASSUME KillAll PROVE PlaceInv'
  BY <1>5 DEF KillAll
<1> QED
  BY <1>0, <1>1, <1>2, <1>3, <1>4, <1>5 DEF Next

\* Ids and roles.
LEMMA IdInvStep == HubInv /\ [Next]_vars => IdInv'
<1> SUFFICES ASSUME HubInv, [Next]_vars PROVE IdInv'
  OBVIOUS
<1>t. TypeOK'
  BY HubTypeStep
<1> USE HubAssumption, KeyKinds, <1>t
    DEF HubInv, TypeOK, Goto, clientVars, localVars, killVars, Dialling,
           Alive, Gone, Msg, Conn, ByeFrom, Sent,
           IdInv, PlaceInv, SessionInv
<1>0. ASSUME UNCHANGED vars PROVE IdInv'
  BY <1>0 DEF vars
<1>1. ASSUME NEW c \in Conn, Step(c) PROVE IdInv'
  <2>1. CASE ReadError(c)
    BY <2>1 DEF ReadError
  <2>2. CASE RegisterPublish(c)
    BY <2>2 DEF RegisterPublish
  <2>11. CASE RegisterFails(c)
    BY <2>11 DEF RegisterFails
  <2>12. CASE ConnectFails(c)
    BY <2>12 DEF ConnectFails
  <2>3. CASE ConnectRecord(c)
    BY <2>3 DEF ConnectRecord
  <2>4. CASE ConnectBind(c)
    BY <2>4 DEF ConnectBind
  <2>10. CASE ConnectRoute(c)
    BY <2>10 DEF ConnectRoute
  <2>5. CASE ConnectNotify(c)
    BY <2>5 DEF ConnectNotify
  <2>6. CASE ConnectActivate(c)
    BY <2>6 DEF ConnectActivate
  <2>7. CASE Leave(c)
    BY <2>7 DEF Leave
  <2>8. CASE EndSession(c)
    BY <2>8 DEF EndSession
  <2>9. CASE TellPeer(c)
    BY <2>9 DEF TellPeer
  <2> QED
    BY <1>1, <2>1, <2>2, <2>3, <2>4, <2>5, <2>6, <2>7, <2>8, <2>9, <2>10,
       <2>11, <2>12 DEF Step
<1>2. ASSUME NEW c \in Conn, Input(c) PROVE IdInv'
  <2>1. ASSUME NEW g \in {"agent", "controller"}, Accept(c, g) PROVE IdInv'
    BY <2>1 DEF Accept
  <2>2. CASE Drop(c)
    BY <2>2 DEF Drop
  <2>3. CASE RegisterViewer(c)
    BY <2>3 DEF RegisterViewer
  <2>4. ASSUME NEW k \in Key, Relay(c, k) PROVE IdInv'
    BY <2>4 DEF Relay
  <2>5. ASSUME NEW f \in {"left", "refused"}, ReadBye(c, f) PROVE IdInv'
    BY <2>5 DEF ReadBye
  <2>6. ASSUME NEW h \in Host, RegisterRecord(c, h) PROVE IdInv'
    BY <2>6 DEF RegisterRecord
  <2>7. ASSUME NEW h \in Host, ConnectLookup(c, h) PROVE IdInv'
    BY <2>7 DEF ConnectLookup
  <2> QED
    BY <1>2, <2>1, <2>2, <2>3, <2>4, <2>5, <2>6, <2>7 DEF Input
<1>3. ASSUME NEW c \in Conn, CloseKilled(c) PROVE IdInv'
  BY <1>3 DEF CloseKilled
<1>4. ASSUME NEW h \in Host, DisconnectAgent(h) PROVE IdInv'
  BY <1>4 DEF DisconnectAgent
<1>5. ASSUME KillAll PROVE IdInv'
  BY <1>5 DEF KillAll
<1> QED
  BY <1>0, <1>1, <1>2, <1>3, <1>4, <1>5 DEF Next

\* Session records and session ids.
LEMMA SessionInvStep == HubInv /\ [Next]_vars => SessionInv'
<1> SUFFICES ASSUME HubInv, [Next]_vars PROVE SessionInv'
  OBVIOUS
<1>t. TypeOK'
  BY HubTypeStep
<1> USE HubAssumption, KeyKinds, <1>t
    DEF HubInv, TypeOK, Goto, clientVars, localVars, killVars, Dialling,
           Alive, Gone, Msg, Conn, ByeFrom, Sent,
           SessionInv, PlaceInv, IdInv
<1>0. ASSUME UNCHANGED vars PROVE SessionInv'
  BY <1>0 DEF vars
<1>1. ASSUME NEW c \in Conn, Step(c) PROVE SessionInv'
  <2>1. CASE ReadError(c)
    BY <2>1 DEF ReadError
  <2>2. CASE RegisterPublish(c)
    BY <2>2 DEF RegisterPublish
  <2>11. CASE RegisterFails(c)
    BY <2>11 DEF RegisterFails
  <2>12. CASE ConnectFails(c)
    BY <2>12 DEF ConnectFails
  <2>3. CASE ConnectRecord(c)
    BY <2>3 DEF ConnectRecord
  <2>4. CASE ConnectBind(c)
    BY <2>4 DEF ConnectBind
  <2>10. CASE ConnectRoute(c)
    BY <2>10 DEF ConnectRoute
  <2>5. CASE ConnectNotify(c)
    BY <2>5 DEF ConnectNotify
  <2>6. CASE ConnectActivate(c)
    BY <2>6 DEF ConnectActivate
  <2>7. CASE Leave(c)
    BY <2>7 DEF Leave
  <2>8. CASE EndSession(c)
    BY <2>8 DEF EndSession
  <2>9. CASE TellPeer(c)
    BY <2>9 DEF TellPeer
  <2> QED
    BY <1>1, <2>1, <2>2, <2>3, <2>4, <2>5, <2>6, <2>7, <2>8, <2>9, <2>10,
       <2>11, <2>12 DEF Step
<1>2. ASSUME NEW c \in Conn, Input(c) PROVE SessionInv'
  <2>1. ASSUME NEW g \in {"agent", "controller"}, Accept(c, g) PROVE SessionInv'
    BY <2>1 DEF Accept
  <2>2. CASE Drop(c)
    BY <2>2 DEF Drop
  <2>3. CASE RegisterViewer(c)
    BY <2>3 DEF RegisterViewer
  <2>4. ASSUME NEW k \in Key, Relay(c, k) PROVE SessionInv'
    BY <2>4 DEF Relay
  <2>5. ASSUME NEW f \in {"left", "refused"}, ReadBye(c, f) PROVE SessionInv'
    BY <2>5 DEF ReadBye
  <2>6. ASSUME NEW h \in Host, RegisterRecord(c, h) PROVE SessionInv'
    BY <2>6 DEF RegisterRecord
  <2>7. ASSUME NEW h \in Host, ConnectLookup(c, h) PROVE SessionInv'
    BY <2>7 DEF ConnectLookup
  <2> QED
    BY <1>2, <2>1, <2>2, <2>3, <2>4, <2>5, <2>6, <2>7 DEF Input
<1>3. ASSUME NEW c \in Conn, CloseKilled(c) PROVE SessionInv'
  BY <1>3 DEF CloseKilled
<1>4. ASSUME NEW h \in Host, DisconnectAgent(h) PROVE SessionInv'
  BY <1>4 DEF DisconnectAgent
<1>5. ASSUME KillAll PROVE SessionInv'
  BY <1>5 DEF KillAll
<1> QED
  BY <1>0, <1>1, <1>2, <1>3, <1>4, <1>5 DEF Next

\* Viewers that are announced.
LEMMA ToldInvStep == HubInv /\ [Next]_vars => ToldInv'
<1> SUFFICES ASSUME HubInv, [Next]_vars PROVE ToldInv'
  OBVIOUS
<1>t. TypeOK'
  BY HubTypeStep
<1> USE HubAssumption, KeyKinds, Fields, <1>t
    DEF HubInv, TypeOK, Goto, clientVars, localVars, killVars, Dialling,
           Alive, Gone, Conn, ByeFrom, Sent,
           ToldInv, PlaceInv, IdInv, SessionInv
<1>0. ASSUME UNCHANGED vars PROVE ToldInv'
  BY <1>0 DEF vars
<1>1. ASSUME NEW c \in Conn, Step(c) PROVE ToldInv'
  <2>1. CASE ReadError(c)
    BY <2>1 DEF ReadError
  <2>2. CASE RegisterPublish(c)
    BY <2>2 DEF RegisterPublish
  <2>11. CASE RegisterFails(c)
    BY <2>11 DEF RegisterFails
  <2>12. CASE ConnectFails(c)
    BY <2>12 DEF ConnectFails
  <2>3. CASE ConnectRecord(c)
    BY <2>3 DEF ConnectRecord
  <2>4. CASE ConnectBind(c)
    BY <2>4 DEF ConnectBind
  <2>10. CASE ConnectRoute(c)
    BY <2>10 DEF ConnectRoute
  <2>5. CASE ConnectNotify(c)
    BY <2>5 DEF ConnectNotify
  <2>6. CASE ConnectActivate(c)
    BY <2>6 DEF ConnectActivate
  <2>7. CASE Leave(c)
    BY <2>7 DEF Leave
  <2>8. CASE EndSession(c)
    BY <2>8 DEF EndSession
  <2>9. CASE TellPeer(c)
    BY <2>9 DEF TellPeer
  <2> QED
    BY <1>1, <2>1, <2>2, <2>3, <2>4, <2>5, <2>6, <2>7, <2>8, <2>9, <2>10,
       <2>11, <2>12 DEF Step
<1>2. ASSUME NEW c \in Conn, Input(c) PROVE ToldInv'
  <2>1. ASSUME NEW g \in {"agent", "controller"}, Accept(c, g) PROVE ToldInv'
    BY <2>1 DEF Accept
  <2>2. CASE Drop(c)
    BY <2>2 DEF Drop
  <2>3. CASE RegisterViewer(c)
    BY <2>3 DEF RegisterViewer
  <2>4. ASSUME NEW k \in Key, Relay(c, k) PROVE ToldInv'
    BY <2>4 DEF Relay
  <2>5. ASSUME NEW f \in {"left", "refused"}, ReadBye(c, f) PROVE ToldInv'
    BY <2>5 DEF ReadBye
  <2>6. ASSUME NEW h \in Host, RegisterRecord(c, h) PROVE ToldInv'
    BY <2>6 DEF RegisterRecord
  <2>7. ASSUME NEW h \in Host, ConnectLookup(c, h) PROVE ToldInv'
    BY <2>7 DEF ConnectLookup
  <2> QED
    BY <1>2, <2>1, <2>2, <2>3, <2>4, <2>5, <2>6, <2>7 DEF Input
<1>3. ASSUME NEW c \in Conn, CloseKilled(c) PROVE ToldInv'
  BY <1>3 DEF CloseKilled
<1>4. ASSUME NEW h \in Host, DisconnectAgent(h) PROVE ToldInv'
  BY <1>4 DEF DisconnectAgent
<1>5. ASSUME KillAll PROVE ToldInv'
  BY <1>5 DEF KillAll
<1> QED
  BY <1>0, <1>1, <1>2, <1>3, <1>4, <1>5 DEF Next

\* Where signals go.
LEMMA SentInvStep == HubInv /\ [Next]_vars => SentInv'
<1> SUFFICES ASSUME HubInv, [Next]_vars PROVE SentInv'
  OBVIOUS
<1>t. TypeOK'
  BY HubTypeStep
<1> USE HubAssumption, KeyKinds, Fields, <1>t
    DEF HubInv, TypeOK, Goto, clientVars, localVars, killVars, Dialling,
           Alive, Gone, Conn, ByeFrom, Sent,
           SentInv, PlaceInv
<1>0. ASSUME UNCHANGED vars PROVE SentInv'
  BY <1>0 DEF vars
<1>1. ASSUME NEW c \in Conn, Step(c) PROVE SentInv'
  <2>1. CASE ReadError(c)
    BY <2>1 DEF ReadError
  <2>2. CASE RegisterPublish(c)
    BY <2>2 DEF RegisterPublish
  <2>11. CASE RegisterFails(c)
    BY <2>11 DEF RegisterFails
  <2>12. CASE ConnectFails(c)
    BY <2>12 DEF ConnectFails
  <2>3. CASE ConnectRecord(c)
    BY <2>3 DEF ConnectRecord
  <2>4. CASE ConnectBind(c)
    BY <2>4 DEF ConnectBind
  <2>10. CASE ConnectRoute(c)
    BY <2>10 DEF ConnectRoute
  <2>5. CASE ConnectNotify(c)
    BY <2>5 DEF ConnectNotify
  <2>6. CASE ConnectActivate(c)
    BY <2>6 DEF ConnectActivate
  <2>7. CASE Leave(c)
    BY <2>7 DEF Leave
  <2>8. CASE EndSession(c)
    BY <2>8 DEF EndSession
  <2>9. CASE TellPeer(c)
    BY <2>9 DEF TellPeer
  <2> QED
    BY <1>1, <2>1, <2>2, <2>3, <2>4, <2>5, <2>6, <2>7, <2>8, <2>9, <2>10,
       <2>11, <2>12 DEF Step
<1>2. ASSUME NEW c \in Conn, Input(c) PROVE SentInv'
  <2>1. ASSUME NEW g \in {"agent", "controller"}, Accept(c, g) PROVE SentInv'
    BY <2>1 DEF Accept
  <2>2. CASE Drop(c)
    BY <2>2 DEF Drop
  <2>3. CASE RegisterViewer(c)
    BY <2>3 DEF RegisterViewer
  <2>4. ASSUME NEW k \in Key, Relay(c, k) PROVE SentInv'
    BY <2>4 DEF Relay
  <2>5. ASSUME NEW f \in {"left", "refused"}, ReadBye(c, f) PROVE SentInv'
    BY <2>5 DEF ReadBye
  <2>6. ASSUME NEW h \in Host, RegisterRecord(c, h) PROVE SentInv'
    BY <2>6 DEF RegisterRecord
  <2>7. ASSUME NEW h \in Host, ConnectLookup(c, h) PROVE SentInv'
    BY <2>7 DEF ConnectLookup
  <2> QED
    BY <1>2, <2>1, <2>2, <2>3, <2>4, <2>5, <2>6, <2>7 DEF Input
<1>3. ASSUME NEW c \in Conn, CloseKilled(c) PROVE SentInv'
  BY <1>3 DEF CloseKilled
<1>4. ASSUME NEW h \in Host, DisconnectAgent(h) PROVE SentInv'
  BY <1>4 DEF DisconnectAgent
<1>5. ASSUME KillAll PROVE SentInv'
  BY <1>5 DEF KillAll
<1> QED
  BY <1>0, <1>1, <1>2, <1>3, <1>4, <1>5 DEF Next

\* The routes.
LEMMA RoutesOwnedStep == HubInv /\ [Next]_vars => RoutesOwned'
<1> SUFFICES ASSUME HubInv, [Next]_vars PROVE RoutesOwned'
  OBVIOUS
<1>t. TypeOK'
  BY HubTypeStep
<1> USE HubAssumption, KeyKinds, <1>t
    DEF HubInv, TypeOK, Goto, clientVars, localVars, killVars, Dialling,
           Alive, Gone, Msg, Conn, ByeFrom, Sent,
           RoutesOwned, PlaceInv, IdInv
<1>0. ASSUME UNCHANGED vars PROVE RoutesOwned'
  BY <1>0 DEF vars
<1>1. ASSUME NEW c \in Conn, Step(c) PROVE RoutesOwned'
  <2>1. CASE ReadError(c)
    BY <2>1 DEF ReadError
  <2>2. CASE RegisterPublish(c)
    BY <2>2 DEF RegisterPublish
  <2>11. CASE RegisterFails(c)
    BY <2>11 DEF RegisterFails
  <2>12. CASE ConnectFails(c)
    BY <2>12 DEF ConnectFails
  <2>3. CASE ConnectRecord(c)
    BY <2>3 DEF ConnectRecord
  <2>4. CASE ConnectBind(c)
    BY <2>4 DEF ConnectBind
  <2>10. CASE ConnectRoute(c)
    BY <2>10 DEF ConnectRoute
  <2>5. CASE ConnectNotify(c)
    BY <2>5 DEF ConnectNotify
  <2>6. CASE ConnectActivate(c)
    BY <2>6 DEF ConnectActivate
  <2>7. CASE Leave(c)
    BY <2>7 DEF Leave
  <2>8. CASE EndSession(c)
    BY <2>8 DEF EndSession
  <2>9. CASE TellPeer(c)
    BY <2>9 DEF TellPeer
  <2> QED
    BY <1>1, <2>1, <2>2, <2>3, <2>4, <2>5, <2>6, <2>7, <2>8, <2>9, <2>10,
       <2>11, <2>12 DEF Step
<1>2. ASSUME NEW c \in Conn, Input(c) PROVE RoutesOwned'
  <2>1. ASSUME NEW g \in {"agent", "controller"}, Accept(c, g) PROVE RoutesOwned'
    BY <2>1 DEF Accept
  <2>2. CASE Drop(c)
    BY <2>2 DEF Drop
  <2>3. CASE RegisterViewer(c)
    BY <2>3 DEF RegisterViewer
  <2>4. ASSUME NEW k \in Key, Relay(c, k) PROVE RoutesOwned'
    BY <2>4 DEF Relay
  <2>5. ASSUME NEW f \in {"left", "refused"}, ReadBye(c, f) PROVE RoutesOwned'
    BY <2>5 DEF ReadBye
  <2>6. ASSUME NEW h \in Host, RegisterRecord(c, h) PROVE RoutesOwned'
    BY <2>6 DEF RegisterRecord
  <2>7. ASSUME NEW h \in Host, ConnectLookup(c, h) PROVE RoutesOwned'
    BY <2>7 DEF ConnectLookup
  <2> QED
    BY <1>2, <2>1, <2>2, <2>3, <2>4, <2>5, <2>6, <2>7 DEF Input
<1>3. ASSUME NEW c \in Conn, CloseKilled(c) PROVE RoutesOwned'
  BY <1>3 DEF CloseKilled
<1>4. ASSUME NEW h \in Host, DisconnectAgent(h) PROVE RoutesOwned'
  BY <1>4 DEF DisconnectAgent
<1>5. ASSUME KillAll PROVE RoutesOwned'
  BY <1>5 DEF KillAll
<1> QED
  BY <1>0, <1>1, <1>2, <1>3, <1>4, <1>5 DEF Next

\* A host's session id.
LEMMA SessionNamesItsPairStep == HubInv /\ [Next]_vars => SessionNamesItsPair'
<1> SUFFICES ASSUME HubInv, [Next]_vars PROVE SessionNamesItsPair'
  OBVIOUS
<1>t. TypeOK'
  BY HubTypeStep
<1> USE HubAssumption, KeyKinds, <1>t
    DEF HubInv, TypeOK, Goto, clientVars, localVars, killVars, Dialling,
           Alive, Gone, Msg, Conn, ByeFrom, Sent,
           SessionNamesItsPair, SessionInv, PlaceInv, IdInv
<1>0. ASSUME UNCHANGED vars PROVE SessionNamesItsPair'
  BY <1>0 DEF vars
<1>1. ASSUME NEW c \in Conn, Step(c) PROVE SessionNamesItsPair'
  <2>1. CASE ReadError(c)
    BY <2>1 DEF ReadError
  <2>2. CASE RegisterPublish(c)
    BY <2>2 DEF RegisterPublish
  <2>11. CASE RegisterFails(c)
    BY <2>11 DEF RegisterFails
  <2>12. CASE ConnectFails(c)
    BY <2>12 DEF ConnectFails
  <2>3. CASE ConnectRecord(c)
    BY <2>3 DEF ConnectRecord
  <2>4. CASE ConnectBind(c)
    BY <2>4 DEF ConnectBind
  <2>10. CASE ConnectRoute(c)
    BY <2>10 DEF ConnectRoute
  <2>5. CASE ConnectNotify(c)
    BY <2>5 DEF ConnectNotify
  <2>6. CASE ConnectActivate(c)
    BY <2>6 DEF ConnectActivate
  <2>7. CASE Leave(c)
    BY <2>7 DEF Leave
  <2>8. CASE EndSession(c)
    BY <2>8 DEF EndSession
  <2>9. CASE TellPeer(c)
    BY <2>9 DEF TellPeer
  <2> QED
    BY <1>1, <2>1, <2>2, <2>3, <2>4, <2>5, <2>6, <2>7, <2>8, <2>9, <2>10,
       <2>11, <2>12 DEF Step
<1>2. ASSUME NEW c \in Conn, Input(c) PROVE SessionNamesItsPair'
  <2>1. ASSUME NEW g \in {"agent", "controller"}, Accept(c, g) PROVE SessionNamesItsPair'
    BY <2>1 DEF Accept
  <2>2. CASE Drop(c)
    BY <2>2 DEF Drop
  <2>3. CASE RegisterViewer(c)
    BY <2>3 DEF RegisterViewer
  <2>4. ASSUME NEW k \in Key, Relay(c, k) PROVE SessionNamesItsPair'
    BY <2>4 DEF Relay
  <2>5. ASSUME NEW f \in {"left", "refused"}, ReadBye(c, f) PROVE SessionNamesItsPair'
    BY <2>5 DEF ReadBye
  <2>6. ASSUME NEW h \in Host, RegisterRecord(c, h) PROVE SessionNamesItsPair'
    BY <2>6 DEF RegisterRecord
  <2>7. ASSUME NEW h \in Host, ConnectLookup(c, h) PROVE SessionNamesItsPair'
    BY <2>7 DEF ConnectLookup
  <2> QED
    BY <1>2, <2>1, <2>2, <2>3, <2>4, <2>5, <2>6, <2>7 DEF Input
<1>3. ASSUME NEW c \in Conn, CloseKilled(c) PROVE SessionNamesItsPair'
  BY <1>3 DEF CloseKilled
<1>4. ASSUME NEW h \in Host, DisconnectAgent(h) PROVE SessionNamesItsPair'
  BY <1>4 DEF DisconnectAgent
<1>5. ASSUME KillAll PROVE SessionNamesItsPair'
  BY <1>5 DEF KillAll
<1> QED
  BY <1>0, <1>1, <1>2, <1>3, <1>4, <1>5 DEF Next

\* Signals: in Relay the receiver has the id by RoutesOwned, and ToldInv is about the sender.
LEMMA SignalsVouchedForStep == HubInv /\ [Next]_vars => SignalsVouchedFor'
<1> SUFFICES ASSUME HubInv, [Next]_vars PROVE SignalsVouchedFor'
  OBVIOUS
<1>t. TypeOK'
  BY HubTypeStep
<1> USE HubAssumption, KeyKinds, Fields, <1>t
    DEF HubInv, TypeOK, Goto, clientVars, localVars, killVars, Dialling,
           Alive, Gone, Conn, ByeFrom, Sent,
           SignalsVouchedFor, ToldInv, SentInv, RoutesOwned, IdInv, PlaceInv, SessionInv
<1>0. ASSUME UNCHANGED vars PROVE SignalsVouchedFor'
  BY <1>0 DEF vars
<1>1. ASSUME NEW c \in Conn, Step(c) PROVE SignalsVouchedFor'
  <2>1. CASE ReadError(c)
    BY <2>1 DEF ReadError
  <2>2. CASE RegisterPublish(c)
    <3>1. inbox' = inbox /\ record' = record /\ dest' = dest /\ c \in HostConn
          /\ id[c] \in {NoKey, AgentKey(named[c])} /\ id' = [id EXCEPT ![c] = AgentKey(named[c])]
      BY <2>2 DEF RegisterPublish
    <3> SUFFICES ASSUME NEW d \in Conn, NEW m \in inbox'[d], m.type = "signal"
                 PROVE  /\ m.to \in {id'[d], OwnKey(d)}
                        /\ m.from[1] = "agent" => \E t \in HostConn : id'[t] = m.from
                        /\ m.from[1] = "ctrl" =>
                             \E v \in ViewerConn :
                                 /\ id'[v] = m.from /\ record'[v] # "none"
                                 /\ dest'[v] = d => Msg("connect", m.from, "none") \in inbox'[d]
      BY DEF SignalsVouchedFor
    <3>2. m \in inbox[d] /\ m.to # NoKey
      BY <3>1
    <3>3. m.to \in {id'[d], OwnKey(d)}
      BY <3>1, <3>2
    <3>4. ASSUME m.from[1] = "agent" PROVE \E t \in HostConn : id'[t] = m.from
      <4>1. PICK t \in HostConn : id[t] = m.from
        BY <3>2, <3>4
      <4>2. id[t] # NoKey
        BY <3>4, <4>1 DEF NoKey
      <4>3. id'[t] = m.from
        BY <3>1, <4>1, <4>2
      <4> QED BY <4>3
    <3>5. ASSUME m.from[1] = "ctrl"
          PROVE  \E v \in ViewerConn :
                   /\ id'[v] = m.from /\ record'[v] # "none"
                   /\ dest'[v] = d => Msg("connect", m.from, "none") \in inbox'[d]
      <4>1. PICK v \in ViewerConn : /\ id[v] = m.from /\ record[v] # "none"
                                    /\ dest[v] = d => Msg("connect", m.from, "none") \in inbox[d]
        BY <3>2, <3>5
      <4>2. id'[v] = id[v]
        BY <3>1
      <4> QED BY <3>1, <4>1, <4>2
    <3> QED BY <3>3, <3>4, <3>5
  <2>11. CASE RegisterFails(c)
    BY <2>11 DEF RegisterFails
  <2>12. CASE ConnectFails(c)
    BY <2>12 DEF ConnectFails
  <2>3. CASE ConnectRecord(c)
    BY <2>3 DEF ConnectRecord
  <2>4. CASE ConnectBind(c)
    <3>1. inbox' = inbox /\ record' = record /\ dest' = dest /\ c \in ViewerConn
          /\ id[c] \in {NoKey, OwnKey(c)} /\ id' = [id EXCEPT ![c] = CtrlKey(named[c])]
      BY <2>4 DEF ConnectBind
    <3> SUFFICES ASSUME NEW d \in Conn, NEW m \in inbox'[d], m.type = "signal"
                 PROVE  /\ m.to \in {id'[d], OwnKey(d)}
                        /\ m.from[1] = "agent" => \E t \in HostConn : id'[t] = m.from
                        /\ m.from[1] = "ctrl" =>
                             \E v \in ViewerConn :
                                 /\ id'[v] = m.from /\ record'[v] # "none"
                                 /\ dest'[v] = d => Msg("connect", m.from, "none") \in inbox'[d]
      BY DEF SignalsVouchedFor
    <3>2. m \in inbox[d] /\ m.to # NoKey
      BY <3>1
    <3>3. m.to \in {id'[d], OwnKey(d)}
      BY <3>1, <3>2
    <3>4. ASSUME m.from[1] = "agent" PROVE \E t \in HostConn : id'[t] = m.from
      <4>1. PICK t \in HostConn : id[t] = m.from
        BY <3>2, <3>4
      <4>2. id'[t] = m.from
        BY <3>1, <4>1
      <4> QED BY <4>2
    <3>5. ASSUME m.from[1] = "ctrl"
          PROVE  \E v \in ViewerConn :
                   /\ id'[v] = m.from /\ record'[v] # "none"
                   /\ dest'[v] = d => Msg("connect", m.from, "none") \in inbox'[d]
      <4>1. PICK v \in ViewerConn : /\ id[v] = m.from /\ record[v] # "none"
                                    /\ dest[v] = d => Msg("connect", m.from, "none") \in inbox[d]
        BY <3>2, <3>5
      <4>2. v # c
        BY <3>1, <3>5, <4>1 DEF NoKey, OwnKey
      <4>3. id'[v] = id[v]
        BY <3>1, <4>2
      <4> QED BY <3>1, <4>1, <4>3
    <3> QED BY <3>3, <3>4, <3>5
  <2>10. CASE ConnectRoute(c)
    BY <2>10 DEF ConnectRoute
  <2>5. CASE ConnectNotify(c)
    BY <2>5 DEF ConnectNotify
  <2>6. CASE ConnectActivate(c)
    BY <2>6 DEF ConnectActivate
  <2>7. CASE Leave(c)
    BY <2>7 DEF Leave
  <2>8. CASE EndSession(c)
    BY <2>8 DEF EndSession
  <2>9. CASE TellPeer(c)
    BY <2>9 DEF TellPeer
  <2> QED
    BY <1>1, <2>1, <2>2, <2>3, <2>4, <2>5, <2>6, <2>7, <2>8, <2>9, <2>10,
       <2>11, <2>12 DEF Step
<1>2. ASSUME NEW c \in Conn, Input(c) PROVE SignalsVouchedFor'
  <2>1. ASSUME NEW g \in {"agent", "controller"}, Accept(c, g) PROVE SignalsVouchedFor'
    BY <2>1 DEF Accept
  <2>2. CASE Drop(c)
    BY <2>2 DEF Drop
  <2>3. CASE RegisterViewer(c)
    BY <2>3 DEF RegisterViewer
  <2>4. ASSUME NEW k \in Key, Relay(c, k) PROVE SignalsVouchedFor'
    <3>1. PICK r, s : r = agents[k] /\ s = Signal(id[c], k) /\ r \in Conn
      BY <2>4 DEF Relay
    <3>2. /\ id' = id /\ record' = record /\ dest' = dest /\ pc[c] = "reading" /\ up[c]
          /\ \A d \in Conn : inbox[d] \subseteq inbox'[d]
          /\ \A d \in Conn : \A m \in inbox'[d] : m \in inbox[d] \/ (d = r /\ m = s /\ up[r])
      BY <2>4, <3>1 DEF Relay
    <3> SUFFICES ASSUME NEW d \in Conn, NEW m \in inbox'[d], m.type = "signal"
                 PROVE  /\ m.to \in {id'[d], OwnKey(d)}
                        /\ m.from[1] = "agent" => \E t \in HostConn : id'[t] = m.from
                        /\ m.from[1] = "ctrl" =>
                             \E v \in ViewerConn :
                                 /\ id'[v] = m.from /\ record'[v] # "none"
                                 /\ dest'[v] = d => Msg("connect", m.from, "none") \in inbox'[d]
      BY DEF SignalsVouchedFor
    <3>3. CASE m \in inbox[d]
      BY <3>2, <3>3
    <3>4. CASE d = r /\ m = s /\ up[r]
      <4>1. m.from = id[c] /\ m.to = k
        BY <3>1, <3>4
      <4>2. m.to \in {id[d], OwnKey(d)}
        <5>1. CASE k[1] # "own"
          BY <2>4, <3>1, <3>4, <4>1, <5>1 DEF Relay
        <5>2. CASE k[1] = "own"
          <6>1. PICK v \in RegisteringViewer : k = OwnKey(v)
            BY <5>2 DEF Key
          <6>2. r = v
            BY <2>4, <3>1, <6>1 DEF Relay
          <6> QED BY <3>4, <4>1, <6>1, <6>2
        <5> QED BY <5>1, <5>2
      <4>3. ASSUME m.from[1] = "agent" PROVE \E t \in HostConn : id[t] = m.from
        <5>1. c \in HostConn
          BY <4>1, <4>3 DEF NoKey, OwnKey, CtrlKey
        <5> QED BY <4>1, <5>1
      <4>4. ASSUME m.from[1] = "ctrl"
            PROVE  \E v \in ViewerConn :
                     /\ id[v] = m.from /\ record[v] # "none"
                     /\ dest[v] = d => Msg("connect", m.from, "none") \in inbox[d]
        <5>1. c \in ViewerConn
          BY <4>1, <4>4 DEF NoKey, AgentKey
        <5>2. record[c] # "none"
          BY <4>1, <4>4, <5>1 DEF NoKey, OwnKey
        <5>3. dest[c] = d => Msg("connect", m.from, "none") \in inbox[d]
          BY <3>2, <3>4, <4>1, <5>1, <5>2
        <5> QED BY <4>1, <5>1, <5>2, <5>3
      <4> QED BY <3>2, <4>2, <4>3, <4>4
    <3> QED BY <3>2, <3>3, <3>4
  <2>5. ASSUME NEW f \in {"left", "refused"}, ReadBye(c, f) PROVE SignalsVouchedFor'
    BY <2>5 DEF ReadBye
  <2>6. ASSUME NEW h \in Host, RegisterRecord(c, h) PROVE SignalsVouchedFor'
    BY <2>6 DEF RegisterRecord
  <2>7. ASSUME NEW h \in Host, ConnectLookup(c, h) PROVE SignalsVouchedFor'
    <3>1. /\ inbox' = inbox /\ record' = record /\ id' = id /\ c \in ViewerConn
          /\ record[c] = "none" /\ \A v \in ViewerConn : v # c => dest'[v] = dest[v]
      BY <2>7 DEF ConnectLookup
    <3> SUFFICES ASSUME NEW d \in Conn, NEW m \in inbox'[d], m.type = "signal"
                 PROVE  /\ m.to \in {id'[d], OwnKey(d)}
                        /\ m.from[1] = "agent" => \E t \in HostConn : id'[t] = m.from
                        /\ m.from[1] = "ctrl" =>
                             \E v \in ViewerConn :
                                 /\ id'[v] = m.from /\ record'[v] # "none"
                                 /\ dest'[v] = d => Msg("connect", m.from, "none") \in inbox'[d]
      BY DEF SignalsVouchedFor
    <3>2. ASSUME m.from[1] = "ctrl"
          PROVE  \E v \in ViewerConn :
                   /\ id'[v] = m.from /\ record'[v] # "none"
                   /\ dest'[v] = d => Msg("connect", m.from, "none") \in inbox'[d]
      <4>1. PICK v \in ViewerConn : /\ id[v] = m.from /\ record[v] # "none"
                                    /\ dest[v] = d => Msg("connect", m.from, "none") \in inbox[d]
        BY <3>1, <3>2
      <4>2. dest'[v] = dest[v]
        BY <3>1, <4>1
      <4> QED BY <3>1, <4>1, <4>2
    <3> QED BY <3>1, <3>2
  <2> QED
    BY <1>2, <2>1, <2>2, <2>3, <2>4, <2>5, <2>6, <2>7 DEF Input
<1>3. ASSUME NEW c \in Conn, CloseKilled(c) PROVE SignalsVouchedFor'
  BY <1>3 DEF CloseKilled
<1>4. ASSUME NEW h \in Host, DisconnectAgent(h) PROVE SignalsVouchedFor'
  BY <1>4 DEF DisconnectAgent
<1>5. ASSUME KillAll PROVE SignalsVouchedFor'
  BY <1>5 DEF KillAll
<1> QED
  BY <1>0, <1>1, <1>2, <1>3, <1>4, <1>5 DEF Next

-----------------------------------------------------------------------------
LEMMA HubInvariant == Spec => []HubInv
<1>1. HubInv /\ [Next]_vars => HubInv'
  BY HubTypeStep, PlaceInvStep, IdInvStep, SessionInvStep, ToldInvStep, SentInvStep,
     RoutesOwnedStep, SessionNamesItsPairStep, SignalsVouchedForStep DEF HubInv
<1> QED
  BY HubInit, <1>1, PTL DEF Spec

\* Every variable of the hub keeps its type.
THEOREM HubTypeCorrect == Spec => []TypeOK
BY HubInvariant, PTL DEF HubInv

\* No route of a host or of a "ctrl-" id leads to a client that has left, or
\* that goes by another id or role (hub.go:551-553, 761-763, 930-935).
THEOREM HubRoutesOwned == Spec => []RoutesOwned
BY HubInvariant, PTL DEF HubInv

\* A host's session id names a viewer that dialled this very connection
\* (hub.go:756-759).
THEOREM HubSessionPairs == Spec => []SessionNamesItsPair
BY HubInvariant, PTL DEF HubInv

\* A signal reaches the client with the id it was sent to, and one under a "ctrl-" id comes from
\* a viewer that the hub has let past the password and announced (hub.go:755-784, 910-923).
THEOREM HubSignalsVouchedFor == Spec => []SignalsVouchedFor
BY HubInvariant, PTL DEF HubInv

\* A viewer that is gone leaves an ended session record (hub.go:939-941).
THEOREM HubGoneViewerEnded == Spec => []GoneViewerEnded
<1>1. HubInv => GoneViewerEnded
  BY DEF HubInv, SessionInv, GoneViewerEnded
<1> QED
  BY <1>1, HubInvariant, PTL

-----------------------------------------------------------------------------
(***************************************************************************)
(* The refinement of RouteTable.  A step that adds a route publishes a     *)
(* client that has no other (RoutesOwned and its one id); a step that      *)
(* takes one away is Leave.                                                *)
(***************************************************************************)
LEMMA TableInitial == Init => Routes!TableInit
<1> SUFFICES ASSUME Init PROVE Routes!TableInit
  OBVIOUS
<1>1. \A c \in Conn : pc[c] \notin Gone
  BY DEF Init, Gone
<1>2. \A k \in SharedKey : agents[k] = None
  BY DEF Init, SharedKey
<1> QED
  BY <1>1, <1>2 DEF Routes!TableInit

\* A step that touches neither the shared routes nor who is gone stutters.
LEMMA TableStutters ==
    ASSUME \A k \in SharedKey : agents'[k] = agents[k],
           \A c \in Conn : (pc[c] \in Gone)' <=> pc[c] \in Gone
    PROVE  UNCHANGED Routes!tableVars
BY DEF Routes!tableVars

\* Taking a shared key is Publish, if the client has no other.
LEMMA TablePublish ==
    ASSUME HubInv, NEW c \in Conn, NEW k \in SharedKey, pc[c] \notin Gone,
           \A j \in SharedKey \ {k} : agents[j] # c,
           agents' = [agents EXCEPT ![k] = c],
           \A d \in Conn : (pc[d] \in Gone)' <=> pc[d] \in Gone
    PROVE  Routes!TableNext
<1>1. \A j \in SharedKey : agents'[j] = IF j = k THEN c ELSE agents[j]
  BY DEF HubInv, TypeOK, SharedKey
<1>2. Routes!Publish(c, k)
  BY <1>1 DEF Routes!Publish
<1> QED
  BY <1>2 DEF Routes!TableNext

LEMMA TableStep ==
    HubInv /\ [Next]_vars => [Routes!TableNext]_(Routes!tableVars)
<1> SUFFICES ASSUME HubInv, [Next]_vars
             PROVE  Routes!TableNext \/ UNCHANGED Routes!tableVars
  OBVIOUS
<1>t. TypeOK'
  BY HubTypeStep
<1> USE HubAssumption, KeyKinds, <1>t
    DEF HubInv, TypeOK, Goto, clientVars, localVars, killVars, Alive, Gone
<1>0. CASE UNCHANGED vars
  BY <1>0, TableStutters DEF vars
<1>1. ASSUME NEW c \in Conn, Step(c)
      PROVE  Routes!TableNext \/ UNCHANGED Routes!tableVars
  <2>1. CASE ReadError(c) \/ ConnectRecord(c) \/ ConnectBind(c)
             \/ ConnectNotify(c) \/ ConnectActivate(c) \/ EndSession(c) \/ TellPeer(c)
             \/ RegisterFails(c) \/ ConnectFails(c)
    BY <2>1, TableStutters
       DEF ReadError, RegisterFails, ConnectFails, ConnectRecord, ConnectBind, ConnectNotify, ConnectActivate,
           EndSession, TellPeer
  <2>2. CASE RegisterPublish(c)
    <3> DEFINE k == AgentKey(named[c])
    <3>1. k \in SharedKey /\ id[c] \in {NoKey, k}
      BY <2>2 DEF RegisterPublish, PlaceInv, SharedKey
    <3>2. \A j \in SharedKey \ {k} : agents[j] # c
      BY <3>1 DEF RoutesOwned, SharedKey
    <3> QED
      BY <2>2, <3>1, <3>2, TablePublish DEF RegisterPublish
  <2>3. CASE ConnectRoute(c)
    <3> DEFINE k == CtrlKey(named[c])
    <3>1. k \in SharedKey /\ id[c] = k
      BY <2>3 DEF ConnectRoute, PlaceInv, Dialling, SharedKey
    <3>2. \A j \in SharedKey \ {k} : agents[j] # c
      BY <3>1 DEF RoutesOwned, SharedKey
    <3> QED
      BY <2>3, <3>1, <3>2, TablePublish DEF ConnectRoute
  <2>4. CASE Leave(c)
    <3>1. \A j \in SharedKey : agents[j] = c => j = id[c]
      BY DEF RoutesOwned, SharedKey
    <3>2. \A j \in SharedKey :
            agents'[j] = IF agents[j] = c THEN None ELSE agents[j]
      BY <2>4, <3>1 DEF Leave, SharedKey
    <3>3. {d \in Conn : pc'[d] \in Gone} = {d \in Conn : pc[d] \in Gone} \cup {c}
      BY <2>4 DEF Leave
    <3>4. Routes!Withdraw(c)
      BY <3>2, <3>3 DEF Routes!Withdraw
    <3> QED
      BY <3>4 DEF Routes!TableNext
  <2> QED
    BY <1>1, <2>1, <2>2, <2>3, <2>4 DEF Step
<1>2. ASSUME NEW c \in Conn, Input(c) PROVE UNCHANGED Routes!tableVars
  <2>1. CASE Drop(c)
    BY <2>1, TableStutters DEF Drop
  <2>6. ASSUME NEW k \in Key, Relay(c, k) PROVE UNCHANGED Routes!tableVars
    BY <2>6, TableStutters DEF Relay
  <2>5. ASSUME NEW g \in {"agent", "controller"}, Accept(c, g)
        PROVE  UNCHANGED Routes!tableVars
    BY <2>5, TableStutters DEF Accept
  <2>2. CASE RegisterViewer(c)
    BY <2>2, TableStutters DEF RegisterViewer, SharedKey
  <2>3. ASSUME NEW f \in {"left", "refused"}, ReadBye(c, f)
        PROVE  UNCHANGED Routes!tableVars
    BY <2>3, TableStutters DEF ReadBye
  <2>4. ASSUME NEW h \in Host, RegisterRecord(c, h) \/ ConnectLookup(c, h)
        PROVE  UNCHANGED Routes!tableVars
    BY <2>4, TableStutters DEF RegisterRecord, ConnectLookup
  <2> QED
    BY <1>2, <2>1, <2>2, <2>3, <2>4, <2>5, <2>6 DEF Input
<1>3. ASSUME NEW c \in Conn, CloseKilled(c) PROVE UNCHANGED Routes!tableVars
  BY <1>3, TableStutters DEF CloseKilled
<1>4. ASSUME NEW h \in Host, DisconnectAgent(h) PROVE UNCHANGED Routes!tableVars
  BY <1>4, TableStutters DEF DisconnectAgent
<1>5. ASSUME KillAll PROVE UNCHANGED Routes!tableVars
  BY <1>5, TableStutters DEF KillAll
<1> QED
  BY <1>0, <1>1, <1>2, <1>3, <1>4, <1>5 DEF Next

\* The hub implements the route table: a client that has left is never found
\* again, whatever re-registers or dials at the same moment.
THEOREM HubImplementsTable == Spec => RouteTableSpec
BY TableInitial, TableStep, HubInvariant, PTL
   DEF Spec, RouteTableSpec, Routes!TableSpec
=============================================================================
