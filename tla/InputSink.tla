------------------------------ MODULE InputSink ------------------------------
(***************************************************************************)
(* The viewers' mouse and keyboard at the host                             *)
(* (agent/session/inject_windows.go): the worker's reader posts each event *)
(* to a bounded queue, and one goroutine gives them to the system, which   *)
(* may insert none of an event (another desktop has the focus).            *)
(*                                                                         *)
(* Coordinates are members of a small set; scan codes are left out.        *)
(***************************************************************************)
EXTENDS Naturals, Sequences, SequencesExt

CONSTANTS Spots,     \* coordinates other than (0,0)
          Origin,    \* (0,0), what an event without coordinates has too
          Buttons,   \* button numbers the viewers send
          Usages,    \* HID usages of the keys the viewers press
          Cap,       \* 512 in the code
          MaxPosted, \* bound on the number of events
          NoEvent

VARIABLES
  events,  \* ch
  post,    \* the reader in Post: where it is, and the event it holds
  lastAt,  \* lastNx, lastNy
  injecting, \* run has not taken done
  sinkClosed,  \* done is closed
  held,    \* at the host: the buttons and keys that are down
  cursor,  \* at the host: where the pointer is
  \* History.
  posted,  \* the number of events posted
  said,    \* the buttons and keys that are down by what the viewers sent
  saidAt,  \* where they last pointed
  newest,  \* the last event posted
  dropped, \* Post took an event out of a full queue
  missed   \* the system inserted none of an event

sinkVars == <<events, post, lastAt, injecting, sinkClosed, held, cursor, posted, said, saidAt,
              newest, dropped, missed>>

-----------------------------------------------------------------------------
\* hidToVk: letters, digits and function keys are ranges, the others a table.
NamedKeys ==
  {<<40, 13>>, <<41, 27>>, <<42, 8>>, <<43, 9>>, <<44, 32>>, <<45, 189>>, <<46, 187>>,
   <<47, 219>>, <<48, 221>>, <<49, 220>>, <<51, 186>>, <<52, 222>>, <<53, 192>>, <<54, 188>>,
   <<55, 190>>, <<56, 191>>, <<57, 20>>, <<73, 45>>, <<74, 36>>, <<75, 33>>, <<76, 46>>,
   <<77, 35>>, <<78, 34>>, <<79, 39>>, <<80, 37>>, <<81, 40>>, <<82, 38>>, <<224, 162>>,
   <<225, 160>>, <<226, 164>>, <<227, 91>>, <<228, 163>>, <<229, 161>>, <<230, 165>>,
   <<231, 92>>}

HidToVk(usage) ==
  CASE usage \in 4 .. 29  -> 65 + (usage - 4)
    [] usage \in 30 .. 38 -> 49 + (usage - 30)
    [] usage = 39         -> 48
    [] usage \in 58 .. 69 -> 112 + (usage - 58)
    [] \E k \in NamedKeys : k[1] = usage -> (CHOOSE k \in NamedKeys : k[1] = usage)[2]
    [] OTHER -> 0

IsExtended(vk) == vk \in {33, 34, 35, 36, 37, 38, 39, 40, 45, 46, 91, 92, 163, 165}

\* What the system takes for one button or key, so that its up finds its down.
ButtonOf(e) == <<"button", IF e.what \in {1, 2} THEN e.what ELSE 0>>
KeyOf(e)    == LET vk == HidToVk(e.what) IN <<"key", vk, IsExtended(vk)>>

Moves  == [k : {"mv"}, what : {0}, down : {FALSE}, at : Spots \cup {Origin}]
Presses == [k : {"btn"}, what : Buttons, down : BOOLEAN, at : Spots \cup {Origin}]
Keys   == [k : {"key"}, what : Usages, down : BOOLEAN, at : {Origin}]
Wheel  == [k : {"whl"}, what : {0}, down : {FALSE}, at : {Origin}]
Events == Moves \cup Presses \cup Keys \cup Wheel

ASSUME SinkAssumption == Cap \in Nat \ {0} /\ NoEvent \notin Events

SinkInit ==
  /\ events = <<>>
  /\ post = [at |-> "idle", e |-> NoEvent]
  /\ lastAt = Origin
  /\ injecting = TRUE /\ sinkClosed = FALSE
  /\ held = {} /\ cursor = Origin
  /\ posted = 0 /\ said = {} /\ saidAt = Origin /\ newest = NoEvent
  /\ dropped = FALSE /\ missed = FALSE

-----------------------------------------------------------------------------
\* What a viewer means by an event.
Press(down, ctl, controls) ==
  IF down THEN controls \cup {ctl} ELSE controls \ {ctl}

Said(e) ==
  /\ said' = CASE e.k = "btn" -> Press(e.down, ButtonOf(e), said)
               [] e.k = "key" /\ HidToVk(e.what) # 0 -> Press(e.down, KeyOf(e), said)
               [] OTHER -> said
  /\ saidAt' = IF e.k = "mv" \/ (e.k = "btn" /\ e.at # Origin) THEN e.at ELSE saidAt
  /\ newest' = e /\ posted' = posted + 1

\* The reader posts: into the queue, or when it is full in two steps, between which the
\* goroutine may take an event.
Post(e) ==
  /\ post.at = "idle" /\ posted < MaxPosted
  /\ Said(e)
  /\ IF Len(events) < Cap
     THEN events' = Append(events, e) /\ UNCHANGED post
     ELSE post' = [at |-> "drop", e |-> e] /\ UNCHANGED events
  /\ UNCHANGED <<lastAt, injecting, sinkClosed, held, cursor, dropped, missed>>

DropOldest ==
  /\ post.at = "drop"
  /\ post' = [post EXCEPT !.at = "again"]
  /\ IF events # <<>> THEN events' = Tail(events) /\ dropped' = TRUE
                     ELSE UNCHANGED <<events, dropped>>
  /\ UNCHANGED <<lastAt, injecting, sinkClosed, held, cursor, posted, said, saidAt, newest, missed>>

PostAgain ==
  /\ post.at = "again"
  /\ post' = [at |-> "idle", e |-> NoEvent]
  /\ IF Len(events) < Cap THEN events' = Append(events, post.e) /\ UNCHANGED dropped
                         ELSE dropped' = TRUE /\ UNCHANGED events
  /\ UNCHANGED <<lastAt, injecting, sinkClosed, held, cursor, posted, said, saidAt, newest, missed>>

\* The worker is going.
CloseSink ==
  /\ ~sinkClosed /\ sinkClosed' = TRUE
  /\ UNCHANGED <<events, post, lastAt, injecting, held, cursor, posted, said, saidAt, newest,
                 dropped, missed>>

-----------------------------------------------------------------------------
\* The goroutine that injects.

\* What the system does with an event it inserts, and with one it does not.
SendInput(controls, at) ==
  \/ held' = controls /\ cursor' = at /\ UNCHANGED missed
  \/ missed' = TRUE /\ UNCHANGED <<held, cursor>>

Inject(e) ==
  LET at == IF e.k = "btn" /\ e.at = Origin THEN lastAt ELSE e.at
  IN \/ /\ e.k = "mv"
        /\ SendInput(held, at) /\ lastAt' = at
     \/ /\ e.k = "btn"
        /\ SendInput(Press(e.down, ButtonOf(e), held), at) /\ lastAt' = at
     \/ /\ e.k = "key" /\ HidToVk(e.what) # 0
        /\ SendInput(Press(e.down, KeyOf(e), held), cursor) /\ UNCHANGED lastAt
     \/ /\ e.k = "key" /\ HidToVk(e.what) = 0
        /\ UNCHANGED <<lastAt, held, cursor, missed>>
     \/ /\ e.k = "whl"
        /\ SendInput(held, cursor) /\ UNCHANGED lastAt

\* (The same with a goroutine for each event.)
RunAnyEvent ==
  /\ injecting
  /\ \E i \in DOMAIN events : Inject(events[i]) /\ events' = RemoveAt(events, i)
  /\ UNCHANGED <<post, injecting, sinkClosed, posted, said, saidAt, newest, dropped>>

\* run picks any case that is ready: it may go on for a while after Close.
RunOne ==
  /\ injecting /\ events # <<>>
  /\ Inject(Head(events)) /\ events' = Tail(events)
  /\ UNCHANGED <<post, injecting, sinkClosed, posted, said, saidAt, newest, dropped>>

RunEnds ==
  /\ injecting /\ sinkClosed /\ injecting' = FALSE
  /\ UNCHANGED <<events, post, lastAt, sinkClosed, held, cursor, posted, said, saidAt, newest,
                 dropped, missed>>

SinkNext ==
  \/ \E e \in Events : Post(e)
  \/ DropOldest \/ PostAgain \/ CloseSink
  \/ RunOne \/ RunEnds

SinkSpec == SinkInit /\ [][SinkNext]_sinkVars

-----------------------------------------------------------------------------
SinkTypeOK ==
  /\ events \in Seq(Events) /\ Len(events) <= Cap
  /\ post.at \in {"idle", "drop", "again"} /\ (post.e = NoEvent <=> post.at = "idle")
  /\ lastAt \in Spots \cup {Origin} /\ cursor \in Spots \cup {Origin}

\* When every event has been taken, the host's buttons, keys and pointer are as the viewers
\* last said, if no event was dropped or missed: each up came after its down, and a press
\* without coordinates is where they last pointed.  If some were dropped, the newest is not
\* among them (inject_windows.go: "a button-up must never overtake its button-down").
InputAsSaid ==
  (events = <<>> /\ post.at = "idle" /\ newest # NoEvent /\ ~missed) =>
    /\ ~dropped => held = said /\ cursor = saidAt
    /\ newest.k = "btn" => (ButtonOf(newest) \in held) = newest.down
    /\ (newest.k = "key" /\ HidToVk(newest.what) # 0) => (KeyOf(newest) \in held) = newest.down
    /\ (newest.at # Origin) => cursor = newest.at
=============================================================================
