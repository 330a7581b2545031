----------------------------- MODULE ClientSession -----------------------------
(***************************************************************************)
(* The desktop client's sessions (client/backend/app.go, session.go): the  *)
(* window calls Connect and Disconnect, each on a thread of its own; every *)
(* session that was made has a monitor, which tells the window how it      *)
(* goes, and ends when the host or the server says bye, when it is         *)
(* replaced, or when the user ends it.  Connect sends its offer only when  *)
(* the peer has gathered its candidates, and waits for that without a      *)
(* timeout.                                                                *)
(*                                                                         *)
(* The signaling client and the peer are external here: they register or   *)
(* time out, gather, connect, and deliver a bye or an error at any time.   *)
(* The list of recent hosts, the settings and the figures of a session are *)
(* left out.                                                               *)
(***************************************************************************)
EXTENDS FiniteSets

CONSTANTS Calls,   \* the calls of Connect, each of which makes a session
          NoCall

VARIABLES
  call,     \* a Connect: idle, closing, asked, told, gathering, gathered, stuck, made,
            \*   stored, failed
  old,      \* the session that a Connect or the Disconnect closes
  leave,    \* Disconnect: idle or closing
  session,  \* App.session
  joined,   \* controllerSession.connected is closed, once.Do was used
  done,     \* controllerSession.done is closed, and the peer
  rtc,      \* the peer has been connected
  closer,   \* who has seen done open and is about to close it
  monitor,  \* none, waiting, watching, ended
  shown,    \* what the window was told last: a state, and of which session
  crashed   \* a channel was closed twice

callVars   == <<call, old, leave>>
sessVars   == <<joined, done, rtc, closer>>
clientVars == <<callVars, session, sessVars, monitor, shown, crashed>>

ClientInit ==
  /\ call = [c \in Calls |-> "idle"] /\ old = [c \in Calls \cup {NoCall} |-> NoCall]
  /\ leave = "idle" /\ session = NoCall
  /\ joined = {} /\ done = {} /\ rtc = {} /\ closer = {}
  /\ monitor = [c \in Calls |-> "none"]
  /\ shown = [state |-> "idle", of |-> NoCall] /\ crashed = FALSE

Closers == {"user", "host"}

\* App.mu: a Connect holds it while it closes the session that it replaces.
AppFree == ~crashed /\ \A c \in Calls : call[c] # "closing"

Show(state, c) == shown' = [state |-> state, of |-> c]

\* closeOnce: connected counts as closed from now on, and done is looked at ...
BeginClose(c, who) ==
  /\ joined' = joined \cup {c}
  /\ closer' = IF c \in done THEN closer ELSE closer \cup {<<c, who>>}

\* ... and closed in another step, by each that has seen it open.
EndClose(c, who) ==
  /\ ~crashed /\ <<c, who>> \in closer /\ closer' = closer \ {<<c, who>>}
  /\ done' = done \cup {c} /\ crashed' = (c \in done)
  /\ UNCHANGED <<callVars, session, joined, rtc, monitor, shown>>

-----------------------------------------------------------------------------
\* Connect.

CallConnect(c) ==
  /\ AppFree /\ call[c] = "idle"
  /\ IF session = NoCall
     THEN call' = [call EXCEPT ![c] = "asked"] /\ Show("connecting", c)
          /\ UNCHANGED <<old, session, joined, closer>>
     ELSE /\ call' = [call EXCEPT ![c] = "closing"] /\ old' = [old EXCEPT ![c] = session]
          /\ session' = NoCall /\ BeginClose(session, "user") /\ UNCHANGED shown
  /\ UNCHANGED <<leave, done, rtc, monitor, crashed>>

OldClosed(c) ==
  /\ ~crashed /\ call[c] = "closing" /\ <<old[c], "user">> \notin closer
  /\ call' = [call EXCEPT ![c] = "asked"] /\ Show("connecting", c)
  /\ UNCHANGED <<old, leave, session, sessVars, monitor, crashed>>

\* newControllerSession: registered within ten seconds, the peer, its handlers and the
\* request; the offer, which a closed peer refuses to make; and, when the candidates are
\* there, the offer sent.  Or it fails on the way.
MakeSession(c) ==
  /\ ~crashed
  /\ \/ call[c] = "asked" /\ call' = [call EXCEPT ![c] = "told"] /\ UNCHANGED shown
     \/ call[c] = "told" /\ c \notin done
        /\ call' = [call EXCEPT ![c] = "gathering"] /\ UNCHANGED shown
     \/ call[c] = "gathered" /\ call' = [call EXCEPT ![c] = "made"] /\ UNCHANGED shown
     \/ call[c] \in {"asked", "told", "gathered"} /\ AppFree
        /\ call' = [call EXCEPT ![c] = "failed"] /\ Show("error", c)
  /\ UNCHANGED <<old, leave, session, sessVars, monitor, crashed>>

\* The peer has gathered its candidates, which one that is closed never says.
OfferGathered(c) ==
  /\ ~crashed /\ call[c] = "gathering" /\ c \notin done
  /\ call' = [call EXCEPT ![c] = "gathered"]
  /\ UNCHANGED <<old, leave, session, sessVars, monitor, shown, crashed>>

\* It takes more than ten seconds: the peer's timer leaves the mutex locked (PeerConnection,
\* Timeout) that the next candidate needs.
GatheringJams(c) ==
  /\ ~crashed /\ call[c] = "gathering" /\ call' = [call EXCEPT ![c] = "stuck"]
  /\ UNCHANGED <<old, leave, session, sessVars, monitor, shown, crashed>>

StoreSession(c) ==
  /\ AppFree /\ call[c] = "made" /\ call' = [call EXCEPT ![c] = "stored"]
  /\ session' = c /\ monitor' = [monitor EXCEPT ![c] = "waiting"]
  /\ UNCHANGED <<old, leave, sessVars, shown, crashed>>

-----------------------------------------------------------------------------
\* Disconnect, which tells the window whether or not there was a session.
CallDisconnect ==
  /\ AppFree /\ leave = "idle" /\ leave' = "closing"
  /\ session' = NoCall /\ old' = [old EXCEPT ![NoCall] = session]
  /\ IF session = NoCall THEN UNCHANGED <<joined, closer>> ELSE BeginClose(session, "user")
  /\ UNCHANGED <<call, done, rtc, monitor, shown, crashed>>

TellDisconnected ==
  /\ AppFree /\ leave = "closing" /\ <<old[NoCall], "user">> \notin closer
  /\ leave' = "idle" /\ Show("disconnected", NoCall)
  /\ UNCHANGED <<call, old, session, sessVars, monitor, crashed>>

-----------------------------------------------------------------------------
\* The host and the network.

\* peer.OnConnected, for which the offer must have been sent
PeerConnects(c) ==
  /\ ~crashed /\ call[c] \in {"made", "stored"} /\ c \notin done
  /\ rtc' = rtc \cup {c} /\ joined' = joined \cup {c}
  /\ UNCHANGED <<callVars, session, done, closer, monitor, shown, crashed>>

\* MsgBye and MsgError, which may answer the request
HostEnds(c) ==
  /\ ~crashed /\ call[c] \in {"told", "gathering", "gathered", "stuck", "made", "stored"}
  /\ BeginClose(c, "host")
  /\ UNCHANGED <<callVars, session, done, rtc, monitor, shown, crashed>>

-----------------------------------------------------------------------------
\* Mutant of Watch: monitorSession without its thirty seconds.
WatchForever(c) ==
  /\ AppFree
  /\ \/ /\ monitor[c] = "waiting" /\ c \in joined
        /\ monitor' = [monitor EXCEPT ![c] = "watching"] /\ Show("connected", c)
     \/ /\ monitor[c] = "watching" /\ c \in done
        /\ monitor' = [monitor EXCEPT ![c] = "ended"] /\ Show("disconnected", c)
  /\ UNCHANGED <<callVars, session, sessVars, crashed>>

\* monitorSession: whichever comes first, connected or thirty seconds; then done.
Watch(c) ==
  /\ AppFree
  /\ \/ /\ monitor[c] = "waiting" /\ c \in joined
        /\ monitor' = [monitor EXCEPT ![c] = "watching"] /\ Show("connected", c)
     \/ /\ monitor[c] = "waiting"
        /\ monitor' = [monitor EXCEPT ![c] = "ended"] /\ Show("error", c)
     \/ /\ monitor[c] = "watching" /\ c \in done
        /\ monitor' = [monitor EXCEPT ![c] = "ended"] /\ Show("disconnected", c)
  /\ UNCHANGED <<callVars, session, sessVars, crashed>>

ClientNext ==
  \/ \E c \in Calls : \/ CallConnect(c) \/ OldClosed(c) \/ MakeSession(c) \/ OfferGathered(c)
                      \/ GatheringJams(c) \/ StoreSession(c) \/ PeerConnects(c) \/ HostEnds(c)
                      \/ Watch(c)
  \/ \E c \in Calls, who \in Closers : EndClose(c, who)
  \/ CallDisconnect \/ TellDisconnected

\* Every goroutine that does not wait goes on, what is sent or fetched is so or fails, and a
\* peer that nobody closes and nothing jams gathers its candidates; that it connects is not
\* promised.  Each call holds the mutex across a step once, so weak fairness is enough.
ClientFairness ==
  /\ \A c \in Calls : /\ WF_clientVars(OldClosed(c)) /\ WF_clientVars(MakeSession(c))
                      /\ WF_clientVars(OfferGathered(c))
                      /\ WF_clientVars(StoreSession(c)) /\ WF_clientVars(Watch(c))
  /\ \A c \in Calls, who \in Closers : WF_clientVars(EndClose(c, who))

ClientSpec == ClientInit /\ [][ClientNext]_clientVars /\ ClientFairness

-----------------------------------------------------------------------------
ClientTypeOK ==
  /\ call \in [Calls -> {"idle", "closing", "asked", "told", "gathering", "gathered", "stuck",
                        "made", "stored", "failed"}]
  /\ leave \in {"idle", "closing"} /\ session \in Calls \cup {NoCall}
  /\ joined \cup done \cup rtc \subseteq Calls /\ closer \subseteq Calls \X Closers
  /\ monitor \in [Calls -> {"none", "waiting", "watching", "ended"}]
  /\ shown.state \in {"idle", "connecting", "connected", "error", "disconnected"}
  /\ shown.of \in Calls \cup {NoCall} /\ crashed \in BOOLEAN

\* A Connect waits for candidates of a peer that was closed meanwhile, or is jammed
\* (peer.go:415): it never returns, and its session gets no monitor.
Stranded(c) == call[c] = "stuck" \/ (call[c] = "gathering" /\ c \in done)

\* A window that says connecting says something else in the end, whatever the host does and
\* however calls overlap, if the program lives and the call it says so of is not stranded:
\* there is no other way to hang (app.go, Connect and monitorSession).
ConnectingEnds ==
  shown.state = "connecting" ~>
    shown.state # "connecting" \/ crashed \/ shown.of \in {c \in Calls : Stranded(c)}
=============================================================================
