# Verification of Neev

Neev is a remote-desktop system: a **host** shares its screen and input, a **viewer** sees and
controls it, and a **relay** introduces them to each other. Hosts and viewers hold a WebSocket to the
relay; once introduced they talk over WebRTC. This directory holds TLA+ models of the parts whose
correctness depends on the order of events or on arithmetic at its limits, their TLC configurations,
and TLAPS proofs.

Paths such as `hub.go:925` are below `src/`. A bare name is unique but for these: `hub.go` is
`server/signaling/hub.go`, `ipc.go` is `agent/ipc/ipc.go`, `transport.go`, `worker.go` and the other
files of a host are in `agent/session/`, `client.go` and `peer.go` in `agent/network/`, `agent.go` in
`agent/core/`, `store.go` in `server/auth/`, `app.go` and `session.go` in `client/backend/`.

## Inventory

| Component | State | Operations | Hard behaviour | What makes it correct |
|---|---|---|---|---|
| Signaling hub, `hub.go` | map id -> connection, per connection its id, role, session | register, connect, offer/answer/candidate, bye, disconnect, kill all, revoke | one goroutine per socket; handlers interrupted at every Redis call and lock; re-registration against late teardown; viewers taking over a host | routes lead to live owners; a signal is vouched for; ends are announced |
| Rate limit on passwords, `hub.go` | failure count and time per target | look up, fail, succeed | check and count are two critical sections; time | a lockout limits guesses, and ends |
| Registry, `server/session/registry.go` | agent, session and alias keys in Redis, the set of revoked certificates | register, heartbeat, status, alias, revoke, reissue | unsynchronised read-modify-write; expiry | a revoked certificate is refused whatever is lost |
| Accounts, `store.go`, `server/api/admin.go` | a record per account, an index, tokens | start-up, create, change, delete, list | two commands per change; failing commands and restarts in between | an account is as the last operation on it wants it, or as it was |
| Relay API, `server/api` | requests over the stores | login, devices, tickets, stats | hardly any of its own | request by request |
| Tokens and certificates, `server/auth` | CA key | issue, verify | none | cryptography |
| Signaling client, `client.go` | connection, password hash, certificate | connect loop, register, rotate, dispatch | reconnects; rotation while registering; a certificate issued under the read loop | the relay has the password of now; connected again after every loss |
| Peer connection, `peer.go` | negotiation state, early candidates, ICE timer, channels | offer, answer, candidate, send, reconnect, close | callbacks of the WebRTC library; early candidates; timeout against success | no candidate lost, no deadlock |
| Host transport, `transport.go` | peers, consent waiters, worker, recording | admit, ask, drop, attach worker, rotate password | consent timeouts against byes; worker swaps | nobody admitted without consent, nobody left behind |
| Remembered consent, `consentstore.go` | cached decisions, a file | load, decide, save | saves that overlap, fail or are cut off; older formats | what is recalled was chosen |
| Worker link, `ipc.go` | three queues | three kinds of write, writer loop, close | priorities, back-pressure, drops, socket errors | lanes lose nothing they must not, nobody starves or hangs |
| Frame source, `transport.go`, `securebridge.go` | current worker, secure flag, keyframe wishes | attach, switch, forward | two producers for one decoder; guards read one after the other; frames and keyframe wishes lost | the picture comes back after every switch, once there are frames |
| Capture loop and recording, `worker.go`, `hostrecord.go`, `webm.go` | encoder, recorder, file | capture, encode, record, send; start, stop, deliver | four threads start and stop recordings; time and size fields at their limits | each recording delivered once, each file plays |
| File transfer, `filerecv.go`, `file_transfer_service.dart` | open transfers on both sides | offer, data, end, cancel, export | interleaved ids, limits, truncation, the worker's end, two lanes | a file shown as complete is complete |
| Clipboard, `clipboard.go`, `clipfiles_windows.go` | what was seen last, chunks under assembly, announcements | poll, apply, announce, serve, stage | echoes; chunks lost to a worker switch; replacing sets; writes that fail half-way, one folder for all | a set's own files are whole when it is handed over |
| Input, `inject_windows.go` | bounded queue, last position | post, merge, inject | drops, merging, lost focus | the host holds down what the viewers do |
| Privacy lease, `privacyguard.go` | lease, screen | assert, clear, watchdog | screen driven outside the lock | the screen is never dark for good without a viewer |
| Audio, `hostaudio.go`, `agent/audio/device.go`, `sessionbar_windows.go` | the bar's flag, the worker's flags, devices, destination | click, start, stop, mix, send | clicks carried out in another order; callbacks while a device stops | the flag says what the device does; no live microphone behind a bar that says off |
| Single-process agent, `agent.go` | sessions | connect, bye, disconnect callback, stop | callbacks of replaced peers | an open peer can be reached |
| Streaming, `agent/stream/pipeline.go`, `agent/capture` | rate state, keyframe wishes | adapt, diff, encode | losses while capturing fails; rates change under the loop | a loss is served; nothing changed is missed |
| Desktop client, `app.go`, `session.go` | one session, what the window says | connect, disconnect, monitor | closed from three sides at once; a wait without a timeout | the window does not go on saying "connecting", but for that wait |
| Flutter app, `neev_remote/lib/data/services` | viewer and host state machines | dial, reconnect, transfer | timers against late answers | its side of file transfers is modelled |
| User interfaces, installers, start-up | - | - | layout, packaging | not modelled |

How they interact: hosts and viewers send JSON messages to the hub, which forwards them by id and
keeps the records in Redis. On a host, the transport process owns the signaling client and the WebRTC
peers; a capture worker in the user's session sends it frames and receives input, files, clipboard
contents and commands over the worker link. The single-process agent does the work of both in one
process.

## Modules

Every component has a module of its own, with its variables, an initial predicate, one action per
step, and a type invariant. An MC module gives it a small instance. Some components share no state
with one another; those are gathered into one instance, `MCProgress` (what happens in the end),
`MCEndpoints` (what never happens) or `MCRelayRecords` (what is in Redis). A behaviour of such an instance is one part's: the
variable `part` is chosen at the start, the parts' actions are conjoined with it, and the others keep
their first state. That loses nothing, since no action of a part reads a variable of another, and it
keeps each part's state space as if it were checked alone.

### `SignalingHub`, with `RouteTable` and `SignalingHubProofs`

One connection of the model is one WebSocket and its goroutine (`HandleWS`). `pc[c]` is the step the
goroutine takes next. A handler is cut where another goroutine can come between: at Redis writes and
at critical sections of `Hub.mu`.

| Code | Model |
|---|---|
| `Hub.agents` | `agents`, keys by kind: a host's id, `ctrl-<host>`, a generated id |
| `client.agentID/role/sessionID/saidBye` | `id`, `role`, `sess`, `said` |
| a socket that carries data | `up`; `Drop` is the network's or the other process's |
| `handleRegister` | `RegisterRecord` then `RegisterPublish` or `RegisterFails`; `RegisterViewer` for a viewer, which has no record |
| `handleConnect` | `ConnectLookup`, `ConnectRecord` or `ConnectFails`, `ConnectBind`, `ConnectRoute`, `ConnectNotify`, `ConnectActivate` |
| `handleRelay` | `Relay(c, k)`: to the holder of whatever id `k` the client wrote, with the sender's id as `from` |
| `disconnect` | `Leave`, `EndSession`, `TellPeer` |
| `KillAllSessions`, `disconnectAgent` | `KillAll`, `DisconnectAgent`, and `CloseKilled` for each connection |

`RouteTable` is the abstract map: a key leads to at most one client, a client is found under at most
one key, and one that has left under none, ever again. `RouteTableSpec` says the hub implements it.

Assumptions. A viewer dials once per connection, as both clients do, so a session record is named by
its viewer connection; a dial that fails may be repeated. What a client sends an offer, an answer or
a candidate to is not assumed: the hub checks neither pair nor session, so the model's clients address
any id. Redis may refuse a registration or a new session; the later status writes of a
session record succeed. Sending to a dead socket fails and is ignored, as in the code. The two
unsynchronised writes of `sessionID` are one step. Messages that ask and answer without touching the
hub's state (heartbeat, alias, discover, presence) are left out.

### `ConnectLockout`

The record of failures of each target, and the viewers that are between its two critical sections.
Time is the `Tick` action, a failure's age stops growing one tick after the window. `recent` keeps the
ages of as many failures as lock a target: the first is the code's `last`, the others are history.

### `IpcConn`, with `ReliableLane` and `IpcConnProofs`

One direction of the worker link. Steps are the cases of each `select`; `at` is the select, or the
socket write, that `writeLoop` is at. The capacities 1024, 256 and 8 and the streak of 8 are the
constants `HiCap`, `BulkCap`, `VidCap` and `MaxStreak`. `ReliableLane` is what a reliable lane
promises; the hi and the bulk lane are each shown to implement it. `passed` counts the hi messages
taken in a row while bulk data waited. `MCIpcConn` keeps at most one message that can be told from the
others on the reliable lanes. No step depends on what a message says, so a lane that let any message
pass another would let the marked one pass another or be passed, and would not be a queue.

### `ConsentGate` and `ConsentGateProofs`

How a viewer is asked about: `askConsent`, `deliverConsent`, `cancelConsent`, the bye handler, and the
worker that shows the prompts. A dial is a connect that is asked about; `place[d]` is the next step of
its handler and `bye[d]` that of the handler of its viewer's bye, since the signaling client starts a
goroutine for every message.

| Code | Model |
|---|---|
| `Transport.consentWaiters` | `waiters`: an id leads to the dial whose channel it is |
| a waiter's channel of one | `says`, and in `of`, for the properties, the dial whose prompt was answered |
| `Transport.worker`, the links | `worker`, `link` |
| a prompt on its way, on screen, answered, read | `prompt`, with the worker it is at in `home` |
| the worker's map from viewer to window | `window` |
| `askConsent` | `Register`, `AskWorker`, `TakeAnswer` or `GiveUp`, `StopWaiting`, `Withdraw` |
| `MsgBye` handler | `ByeArrives`, `ByeDenies`, `ByeWithdraws` |

Assumptions. The relay names every viewer of a host `ctrl-<host>` (`hub.go:730`), so any number of
dials may come under one id. A message on the worker link is a step of its reader. A worker's link
breaks once, with everything on it. The level granted with a yes is left to `HostSessions`. The stock
message box, used when the Windows prompt cannot be created and which nothing can withdraw, is left
out, as is the end of the process.

### `HostSessions` and `HostSessionsProofs`

What becomes of a dial that has been decided. A thread is the goroutine of a connect, of a bye, or
the reader of a worker link; `dropPeer` and `announceSessionState` are called from all three, so their
steps (`Remove`, `Count`, `Tell`, `Rotate`) belong to the thread, with `back` the step it returns to
and `last`, `seen` its locals.

| Code | Model |
|---|---|
| `Transport.peers`, a peer not closed | `peers`, `open` |
| `Transport.controlAllowed` | `allowed`; it is kept by id and never removed |
| the count last written to the worker | `told` |
| the password a viewer used | `login`: a new one is made each time, so only whether the relay still takes it matters |
| `onConnect` | `Admit` or `Refuse`, `Insert` or `NewPeerFails`, `Offer`, `Failed`, and the deferred `Announce` |
| `handleWorker` | `Attach`, `HangUp` with `DropNext` for each viewer, `Detach` |

Assumptions. The decision (unattended, prompts off, asked) comes at any time with any outcome. The
relay takes a new password when it is sent, and making one succeeds; a delay until it is taken would
only let in a dial that the model lets in earlier. The password on display, the profile's other
permissions, and the forwarding of frames and input are left out. `entered` and `mixed` are history:
the dials that became peers, and the ids that were dialled again before an earlier dial had been
handled. For a mixed id two `onConnect` calls interleave freely, the map keeps the later peer and the
code drops the earlier one without closing it; `NoPeerLost` and `GrantIsThePeers` are about the rest.

### The agent's connection: `SignalingClient`, `AgentSessions`, `PeerConnection`

| Code | Model |
|---|---|
| `Client.Connect`, `readLoop` | `step` of the loop: `Dial`, `DialFails`, `Waited`, `ReadFails`, `Cancel` |
| `Client.register` (called by the loop and by `UpdatePasswordHash`) | `ReadHash`, then `SendRegister`: the hash is read before the lock is taken |
| the handler that stores an issued certificate and closes the connection | `Certificate`, and `ReadNothing` for the nil connection the loop reads next |
| `AgentInstance.sessions` and a peer that is not closed | `sessions`, `peer` |
| `MsgConnect`, `MsgBye`, `OnDisconnected`, `Stop` | `MakePeer` and `ListPeer`, the bye in two steps with `leaving` between them, and the callbacks |
| `CreateOffer`, `HandleOffer`, `HandleAnswer`, `HandleCandidate` | `MakeOffer`, `SetRemoteOffer`, `DrainCandidates`, `MakeAnswer`, `TakeRemoteAnswer`, `TakeCandidate` |
| the ten second timer, `attemptReconnect` | `TimerFires`, which may leave `locked` true; `Lost`, `RetryTick` |

Assumptions. What the relay has of a password is what it was registered with last on the current
connection. `met`, `unseen` are history: two registrations that were under way at once; peers whose
connects overlapped, or whose entry a disconnect callback took out. The WebRTC library is external.

### The picture: `FrameSource`, `CaptureLoop`, `StreamLoop`, `DirtyRects`, `Recording`

`FrameSource` has a goroutine per worker connection, whose three tests on a frame (`Guard`,
`SecureGuard`, `RevertGuard`) are steps of their own, and the bridge to the secure desktop. The viewer
is one variable: the source whose frames it can decode. A turn of a worker gives a frame only while the
screen changes (`moving`, which `ScreenTurns` switches at any time): `ReadFrame`; or it takes the wish for
a keyframe and gives nothing, because the encoder failed, had nothing yet, or the queue was full
(`LoseFrame`); or it captures nothing (`IdleTurn`). `CaptureLoop` is the worker's loop and
the four threads that start and stop a recording. `StreamLoop` is the pipeline of the single-process
agent with its two rate controllers, whose measurements are the class they are put in. `DirtyRects` is
`mergeBlocksToRects`, a breadth-first search run step by step and compared with a definition that says
what its result is: the boxes of the connected parts. `Recording` is the WebM writer, with
its variable-length sizes and 16-bit times as bytes, and a reader of them to compare with.

### What a viewer does at a host: `FileTransfer`, `FileExport`, `ClipboardSync`, `InputSink`, `PrivacyLease`, `HostAudio`, `ConsentStore`

| Code | Model |
|---|---|
| `fileReceiver.open`, a `recvFile`, the files at a path | `opened`, `file`, `onDisk` |
| `fileReceiver.handle` in the lane goroutine | `job`: `OfferCreates`, `OfferInserts`; `Lookup`, `Write`; `EndSaves` or `EndRemoves`; the failures |
| `closeAll` in the goroutine of the worker | `CloseAll`, `CloseOne`, `Exit` |
| `serveExport`, `ExportFileStreaming`; `handleMessage` of the viewer | `OfferRead`, `OfferStream`, `SendChunk`, `SendEnd`, `GiveUp`; `Hear` |
| `clipSync.last`, `clipFiles`, `inAsm` | `last`, `out` and `seq`, `asm` |
| the injector's `ch`, `lastNx`, `lastNy`; the system's own state | `events`, `lastAt`; `held`, `cursor` |
| `privacyIsOn`, `privacyDeadline`, `privacyCmd` | `isOn`, `lease`, `queue`; `reader` and `watchdog` hold a command between the lock and the queue |
| `sessionBar.micOn`; `hostAudioMu`, the flags, `Device.capture` | `bar`; `holder`, `micOn`, `soundOn`, `capture` |
| `consentCache`, the file and its `.tmp` | `cache`, `decisions` and `tmp`, each naming a file whose bytes are in `content` |

Assumptions. A chunk is one unit of size. A viewer uses the id of a transfer once, as the viewers'
clocks and counters make it. Samples and pixels are left out. A file is told apart from its name,
because a save goes on writing to the file it opened after it was renamed. All sets of a viewer's
copied files go to one folder, so a name is one path: `disk` says which chunks are under it and whose
they are, and a write that fails (`WriteFile`) may leave the file that was there, an empty one or any
part of the new one. A click on the bar turns `bar` and is carried out later by a goroutine, before or
after that of the next click; `overlaid` is history: the last click came while another was on its way.
The sound button's own flag is left out, and so is `KindAudioCapture`, which a worker would take for a
click and which nothing in the repository sends. A privacy lease does not
run out between the two halves of one command, which are microseconds apart.

### The relay's records: `AgentRegistry`, `Accounts`

Each Redis command is a step. `op[t]` and `request[t]` are what a goroutine holds of a record between
its read and its write. In `Accounts` any command may fail, which ends its request (`RedisFails`), and
the relay may stop between any two (`StopRelay`); `CutOff` says what becomes of an operation that ends
so. `Bootstrap` leaves an account alone that it can read; as `EnsureBootstrapUser` does, it takes any
error of that read for there being no account, and writes the configured one over it, with the
configured password and without the second factor. `AgentRegistry` has no failing commands: a look at
the set of revoked certificates that fails lets the certificate pass (`hub.go:493`), and a failed
write of a replaced one into the set is ignored (`:224`), so `RevokedIsRefused` holds while Redis
answers. `retired`, `crossed`, `loose` and `want` are history: the
certificates whose revocation or replacement has ended; the accounts on which operations overlapped;
those that an operation was cut off on between record and index; and what the operations on an account
want. Passwords, one-time codes and tokens are checked by external code: a
token is the role it was issued for.

### The desktop client: `ClientSession`

`Connect` and `Disconnect` on threads of their own, a monitor per session, and `closeOnce`, whose look
at a channel and whose closing of it are two steps (`BeginClose`, `EndClose`). A Connect that has sent
its request (`told`) makes its offer and waits until the candidates are gathered (`gathering`,
`OfferGathered`), without a timeout: a peer that was closed meanwhile never says so, and neither does
one whose timer has left the mutex locked (`GatheringJams`, the trace of `peer_deadlock`). `Stranded`
names such a call. Its registration before dialling is the `RegisteringViewer` of `SignalingHub`.

## What the runs check

| Run | Instance | Shows |
|---|---|---|
| `hub_reconnect` | one host on two connections, one viewer that registers first | types; `RoutesOwned`; `SessionNamesItsPair`; refinement of `RouteTable`; `DropIsAnnounced` and `DeadHostUnrouted` (liveness) |
| `hub_takeover` | one host, two viewers, one administrator's disconnect | `SignalsVouchedFor`: whatever ids clients write, a signal reaches the holder of the id, and one from `ctrl-<host>` comes from a viewer that passed the host's password, whose dial that connection was told of first; `GoneViewerEnded` |
| `lockout` | three viewers, two targets, two failures lock for two ticks of a window of three | `OneGuessPerLockout`, `LockoutEnds` (liveness) |
| `ipc` | a producer for each reliable lane, two for video, capacities 2, 2, 1, streak 2, one marked message | types, `BulkGetsItsSlot`, `ReliableLanes`; `BulkProgress` and `CallsReturn` (liveness) |
| `consent` | two dials of two ids, one worker | `OneYesOneViewer`: nobody in without a yes, no yes for two; `LoneDialIsHeard`; `EveryDialDecided` (liveness) |
| `sessions` | two dials of one id, one worker, one hang-up, two levels | `EndedPasswordRetired`; `NoPeerLost`; `GrantIsThePeers` |
| `progress` | five parts that promise an end | types; see below |
| `endpoints` | eleven parts that promise what never happens | types; see below |
| `relay_records` | registry and accounts | see below |
| `sessions_told` | as `sessions` | violated: a worker attaches while a viewer connects, the older count arrives last, and the worker takes it that nobody is connected |
| `peer_deadlock` | one peer, one call | violated: the ICE timer leaves the peer's mutex locked, and a call on the peer waits for ever |
| `client_reconnect` | one client, two rotations | violated: an issued certificate ends the process instead of reconnecting it |

`progress` (about 316 000 states):

* `LeaseRestores`: once a viewer in privacy mode has vanished, the screen is restored and stays so,
  although the reader and the watchdog drive it in another order than they decide in.
* `SourceRestored`: when the sources have settled, the viewer decodes the current worker's picture
  again and again, through superseded workers, the secure desktop, and keyframe requests lost to the
  200 ms limit. It is promised if the screen changes again and again and if neither all of the
  worker's frames nor all keyframes it is asked for are lost (`EncoderWorks`); on a screen at rest
  the worker sends nothing, and a viewer that joins sees nothing.
* `LossServed`: a reported picture loss is followed by a keyframe, on a screen that does not change,
  at a changing rate, and when the capture or the encode that was to serve it failed.
* `ConnectSettles`: the desktop client's window does not go on saying "connecting", however Connect,
  Disconnect, the host and the monitor close one another's sessions, unless it says so of a Connect
  that waits for candidates which never come (`Stranded`): there is no other way to hang.
* `EarlyCandidatesUsed`: no candidate stays queued at the answering side.

`endpoints` (about 1.3 million states):

* `TransfersAreWhole`: a file reported saved has every unit and stays so; what is half received is
  somebody's to finish or remove; an export shown as done is whole although its end may overtake its offer.
* `StagedIsWhole`: a file of a set that is handed to the clipboard has all the chunks of its own
  announcement, whichever chunks went to another worker and whichever writes failed, until another
  set's write of the same name comes over it, whole or torn: that much the code does not prevent.
* `InputAsSaid`: what the host holds down and where it points is what the viewers said, and after a
  drop the newest event still counts.
* `MicSaysWhatItDoes`: the worker's flag is what the device does, and no live microphone is behind a
  bar that says off once the click is carried out, although starts before it failed, unless the click
  came on the heels of another: then the two may be carried out in the other order, and it is.
* `RecordersAccounted`, `RecordingPlays`: a recording is closed by one thread; a file's blocks are in order, in clusters, with true lengths and
  times within a millisecond.
* `RectsAreParts`: for every set of changed blocks of a screen of three by three blocks whose last
  row and column are cut, the rectangles are the boxes of its connected parts.
* `RotationTakesEffect`: registered, the agent has given the relay the password of now.
* `OpenIsListed`: an open peer of the single-process agent can be closed by a bye and by Stop.
* `RememberedAsDecided`: what a worker recalls was chosen, and is all of it when no saves overlapped
  or failed.

`relay_records` (about 1.6 million states): `RevokedIsRefused`, that a retired certificate never
registers a device again although the record that says so is overwritten; `AccountAsWanted`, that an
account whose operations came one at a time is as the last of them wants it, a start that could not
read it among them, and that one cut off by a failing command or a stop leaves each field as it was
or as it was to be, and the account listed unless it fell between the two commands.

### Bounds

Two connections of one host are what it takes for an old and a new one to overlap, and the two
viewers for a takeover; a host's entry is touched only by its own connections and `ctrl-<host>` only by
its viewers, so a second host adds no interaction. `MaxKills` bounds the administrator, and `MaxSignals`
the signals that have arrived: one in `hub_takeover`, since `SignalsVouchedFor` is about each by
itself, and none in `hub_reconnect`, whose properties are not about them. In
`hub_takeover` the viewers are symmetric (no liveness is checked there). A count of failures stops at
the limit and an age just beyond the window, because the code asks nothing further of either. Streak 2
and capacities 2 are the smallest at which a lane can be non-empty, partly full and full, and a streak
broken half-way. In `consent` and `sessions` an interaction needs two dials of an id, and another id to keep
apart from in `consent`; a second worker adds only that the first one's link is given up late.
`sessions` takes dials and levels as symmetric.

| Constants | Values | Why they are enough |
|---|---|---|
| `Xfers`, `Names`, `Copies`, `MaxLen`, `Limit`, `MaxLane` | 2 transfers of one name, 3 copies of which the host has the first, 2 units, a limit of 1, a lane of 1 | two transfers meet on a name, and the third name is the one that runs out; a transfer may be short, exact, too long as announced and as received |
| `MaxFile` | 2 chunks | an end and a chunk can both overtake an offer |
| `Feeders` | 2 workers and the helper | a superseded worker, a current one, and the bridge |
| `MaxCmds`, `QueueLen` | 4 commands, queue 8 | an on and its off on both sides of the watchdog's; `PrivacyAssumption` keeps the code's queue of 8 from filling: a command dropped because the screen was driven too slowly for more toggles than that is outside the model |
| `KeyEvery`, `Rates`, `BitRates`, `DownAfter`, `UpAfter` | 4; 1, 2, 3; 2; 2; 1 | each counter goes below, to and past its limit, each class differs |
| `Cands`, `Retriers`, `Callers`, `Ticks` | 2, 2, 1, 2 (`peer_deadlock`: 1, 1, 1, 2) | a candidate queued while another drains; two reconnect goroutines at once |
| `Calls` | 2 | one session and its replacement |
| `Data`, `marked` | 2 messages, one at a time marked | a marked message before, behind and between others |
| `Clicks`, `Recorders`, `BarClicks`, `Sizes` | 2, 2, 1, 2 | two clicks, and one recording after another, through a resize |
| `Width`, `Height`, `BlockSize` | 5, 5, 2 | all 512 sets of changed blocks of a 3 by 3 grid, cut at both edges |
| `Updaters`, `MaxHash`, `MaxWait` | 2, 4, 2 | two rotations meet each other and the loop |
| `Viewers`, `Tokens`, `Files`, `Chunks`, `MaxOut`, `MaxSeq` | 1, 2, 1, 2, 1, 1 | a chunk of two can be lost, and a write torn between them; two sets meet on one name; a new announcement pushes the kept one out. `SetsMeetAlone`: when both sets have been announced, nothing else of the clipboard has been used |
| `Controllers`, `Peers` | 1, 2 | a connect and the one it replaces |
| `Spots`, `Buttons`, `Usages`, `Cap`, `MaxPosted` | 1 and the origin, {2}, {39, 72}, 2, 3 | a full queue of two drops; 39 has a key and 72 has none |
| `Span`, `MaxRel`, `Gaps`, `Lengths`, `MaxElements` | the code's 4000 and 32767; {1, 3999, 70001}; 122, 123, 16378, 16379, 2097147, 268435451; 5 | gaps below, at and beyond a cluster and the 16 bits; lengths on both sides of the first two size classes and the first of the others; header, cluster, block, cluster, block |
| `Devices`, `Requests` of `ConsentStore` | 2, 2 | two saves of two devices |
| `Agents`, `Aliases`, `Handlers`, `MaxCerts` | 1, 1, 2, 2 | a read-modify-write over another; a certificate and its replacement |
| `Emails`, `Passwords`, `Roles`, `Requests` of `Accounts` | 2 of which one boots, 1, 2, 2 and the start | one operation on an account after another, and one on another account meanwhile. `Apart`: a behaviour is followed until two operations overlap on one account, of which nothing more is claimed |

The proofs hold for all values.

Deadlock is checked where the system runs for ever. In the hub every connection may have ended, so its
runs do not check it; nor do those of the host and of the parts, where everything may have been done,
as a program that was stopped or a file that was closed.

## Fairness

The hub: a goroutine that can take a step takes it (Go's scheduler), and an administrator's loop closes
every target it has copied. Nothing is assumed of clients or the network. The rate limit: time passes.
The link: the writer runs and its socket write returns, because the transport reads the other end or
tears the link down; goroutines blocked on a channel are served in turn, which is strong fairness of
their send; and the random choice of the last `select` does not for ever avoid bulk data that is ready
again and again. The consent gate: a handler's goroutine runs, its thirty seconds pass, and the reader
of a link reads; nothing is assumed of the person, the prompts, the worker or the viewer.

In `MCProgress` fairness is the antecedent of each property, since a behaviour is one part's:

* `PrivacyFairness`: the reader, the watchdog and the driver of the screen go on, and the lease runs
  out. Nothing of the viewer or the transport.
* `FrameFairness`: a worker's goroutine goes on with a frame that it has read; a viewer without a
  picture goes on reporting it (strong, as its reports may be swallowed by the limit); time passes.
  Frames are not promised: that there are some is a hypothesis of the property, `[]<>moving` and
  `EncoderWorks`.
* `StreamFairness`: ticks come; `select` takes a waiting request in the end, and neither the capture
  nor the encoder fails for ever (strong). The screen may stay as it is for good.
* `ClientFairness`: goroutines go on, the ten seconds of a registration and the thirty of the monitor
  pass, and a peer gathers its candidates unless it is closed or jammed. The wait for them returns
  only then. That a peer connects is not promised.

`PeerSpec` is fair to the peer's own goroutines and to callers that wait for its mutex, never to the
network. `ClientSpec` is fair to the loop and its registrations, and a dial that can succeed does so
in the end, if it is possible again and again (strong).

## What is proved

For every value of the constants, under the assumption each module names for its constants
(`HubAssumption` to `RecordingAssumption`: disjoint kinds of connections and threads, positive limits,
a value of its own for "none", finitely many ids). Three say more. `RecordingAssumption` takes a time within a
cluster to fit 15 bits (`MaxInt16`) and a frame to be below 2 GB. `FilesAssumption` takes it
that `uniquePath`, which tries a thousand names, finds a free one: there are as many as transfers and
files of the host. `PrivacyAssumption` keeps the queue of commands from filling.

* Hub: `TypeOK`, `RoutesOwned`, `SessionNamesItsPair`, `SignalsVouchedFor`, `GoneViewerEnded`, and
  that the map implements `RouteTable`. `RoutesOwned` is not inductive: that a goroutine may publish its
  client depends on where it is and on what it has written before. `HubInv` adds `PlaceInv` (what each
  place in a handler says about the client's fields, in particular that between lookup and notification
  the pointer kept is to a host that still has the dialled id), `IdInv` (which kinds of id a connection
  can have), `SessionInv` (record, session id and `ctrl-` id come together), `ToldInv` (past the
  notification, the connection dialled has the viewer's request, or is down) and `SentInv`.
* Rate limit: `TypeOK` and `OneGuessPerLockout`, with `LateInv`: the viewers counted as late are
  forgotten with the lockout, so a viewer can be let past the check only when there are none.
* Link: `TypeOK` (no queue beyond its capacity), `BulkGetsItsSlot`, and that both reliable lanes
  implement `ReliableLane`. `SlotInv` strengthens the bound: the streak is at least what has passed,
  and after a full streak the later selects are reached only if no bulk data was waiting.

* Consent: `TypeOK`, `OneYesOneViewer`, `LoneDialIsHeard`. That no yes counts twice rests on
  `AnswerInv`, an answered prompt is read once and reaches one channel; that it is of the right id on
  `WaiterInv` and `WindowInv`, what is found under an id belongs to it; `LoneInv` says that nothing but
  its own clean-up removes the waiter of a dial that is alone under its id.
* Sessions: `TypeOK`, `EndedPasswordRetired`, `NoPeerLost`, `GrantIsThePeers`. `SessionsInv` adds, for
  an id that is not mixed, that one dial at a time is in `onConnect` (`SoloInv`), that it finds nobody
  listed when it inserts its peer (`FreeInv`), which is why no peer is overwritten, and that its level
  is the one in force meanwhile (`AllowedInv`); `EnterInv` says that a dial becomes a peer once.
* Registry (`RelayRecordsProofs`): `RegistryTypeOK` and `RevokedIsRefused`. Records do get
  overwritten, so the argument cannot rest on them: `BarInv` says that a certificate is in the set of
  revoked ones before the record that bars it is written, and `UncheckedInv` that a registration whose
  certificate was retired before it began has the look at the set still before it.
* Accounts (`RelayRecordsProofs`): `AccountsTypeOK` and `AccountAsWanted`. `AloneInv` says that an
  operation that is not crossed is the only one on its account; `LeadsInv` that what it has left to do
  (`After`, the updates still to be applied to the record it has) leads to what is wanted, which gives
  `FinishedAsWanted`. `FieldsInv` is for `PartlyAsWanted`: the record that an operation holds has, field
  by field, what was there before it or what is wanted, so that it may be cut off anywhere.
* Uploads (`TransfersProofs`): `FilesTypeOK`, `SavedIsWhole`, `PartialIsHeld`. `HandsInv` says who has
  a transfer: the map, `closeAll` or the goroutine's last steps, never two of them. `PathInv` says that
  a path holds nothing, a file of the host or that of the transfer it was found for, so that no
  transfer writes or removes another's file; it needs `uniquePath` to find a free one, which is where
  `Copies` counts. `OpenInv` ties the size on disk to what was written; `QueueInv` and `UnofferedInv`
  say that a transfer is offered once and that nothing is known of it before.
* Exports (`TransfersProofs`): `ExportTypeOK` and `DoneIsWhole`. `CountInv`: what the viewer has and
  the chunks on their way are no more than were sent. `EndInv`: an end is the last of its export and
  follows as many chunks as were announced. So a viewer that has all of them has nothing to come.
* Clipboard (`TransfersProofs`): `ClipTypeOK` and `StagedIsWhole`. `ReceiveInv`: the chunks put
  together of a file are the first `got` ones, whatever failed or went to another worker. `StagingInv`:
  what an announcement has written is whole or has been written over by another one, since it is done
  with a file once; and a set that is handed over is of an announcement that is over, which does not
  begin again.
* Changed rectangles (`EndpointsProofs`): `RectsTypeOK` and `RectsAreParts`. `SearchInv` splits what is
  visited into what the search under way has reached, which is linked, bounded by `bounds` and waits
  in the queue only where it has neighbours to look at, and what earlier searches have, which is sealed:
  no changed block next to it is outside. Sealed and linked sets are the connected parts (`PartsApart`,
  `LinkedGrows`), and `PassedInv` says that the scan leaves nothing out.
* Input (`EndpointsProofs`): `SinkTypeOK` and `InputAsSaid`. `SaidInv` is about the pending events:
  carried out on what is held, they give what the viewers said. `NewestInv` says that the newest event
  is pending or was the last one carried out, `RoomInv` that the reader that dropped one has room.
* Decisions (`EndpointsProofs`): `StoreTypeOK` and `RememberedAsDecided`. `MadeInv` needs no order of
  the saves: memory, snapshots and files hold choices that were made. `SaveInv` and `LatestInv` are
  about saves that do not overlap: one file is written at a time, and it becomes the decisions.
* Signaling client (`EndpointsProofs`): `RotationTakesEffect`. `LoopInv` ties the loop's step to its
  registration; `SoleInv` says that while no two registrations have met there is one, and that what
  it is about to send is the hash of now, since a rotation in between would have been a second one.
* Single-process agent (`EndpointsProofs`): `OpenIsListed`, with `MapInv` (the map and the setups agree)
  and `OverlapInv` (a connect that builds beside another one of its controller is known to).
* Audio (`EndpointsProofs`): `MicSaysWhatItDoes`, with `HolderInv`: the mutex is held by the click that
  stops the microphone and by nobody else, and the device is off meanwhile; and `BarInv`: a click that
  did not come on the heels of another is carried out alone, and asks for what the bar says.
* Recordings (`EndpointsProofs`): `RecordersAccounted`, with `JobInv`, what a thread in each place of an
  operation holds; a recorder is in one thread's hands because taking it empties `recCur` in one step.
* Recording files (`EndpointsProofs`): `RecordingPlays`, for every length and time, and not only the
  few of the run. `BytesJoin` gives a number back from its bytes, `SizesRead` and `TimesRead` a
  length and a time from what is written of them; `Halves` bounds what two times lose that are
  each cut to milliseconds. `CurrentInv`, which a failed write ends, says that no block
  plays after the last frame and that the open cluster is the file's last. `BlockStays`: what is
  written later changes nothing about a block.
* Peers (`ProgressProofs`): `EarlyCandidatesUsed`, with `CandidateInv`: the queue is drained with the
  remote description set, so nothing joins it afterwards.
* Compositions: `EndpointsTypeCorrect` and `TransfersComplete` are about `MCEndpoints`,
  `ProgressTypeCorrect` about `MCProgress`. A behaviour of these is one part's; the invariant
  (`PartsInv`) says that the part that runs has its own invariant and that the others have not moved.

Only model-checked are the liveness properties, as they need fairness and `ENABLED`.

## Where the code and its text disagree

Three runs show such a place, as findings: `sessions_told`, `peer_deadlock`, `client_reconnect`.
The models below hold others, as actions that do what the code does:

* `hub.go:910`: a relayed message is forwarded without a look at pair or session, so a viewer that was
  taken over goes on signalling under its `ctrl-` id into its successor's session (`Relay`); what the
  hub does guarantee is `SignalsVouchedFor`.
* `hub.go:959`: a viewer that was taken over still says bye under its `ctrl-` id, and its successor's
  session gets it (`ByeFrom` of `SignalingHub`).
* `hub.go:395`: a host's refusal, a bye with a reason, is taken for its farewell; the viewer hears
  `peer_left` and not the reason that `transport.go:1157` sends (`ReadBye`).
* `hub.go:340`: the kill switch closes the sockets of all, so that hosts leave the map; its comment
  says "Agents are NOT unregistered" (`KillAll`, `CloseKilled`).
* `hub.go:633`: failures that are further apart than the window still add up, if each comes within it
  of the one before; the comment at `:853` says that typos "spread over a long session never
  accumulate" (the record keeps the time of the last failure only).
* `ipc.go:268`: a write on a closed link may report success, when its queue has room and the select
  takes that case; `:238` says it errors.
* `hostaudio.go:158`: `stopHostMic` waits for the device's callback while it holds the mutex the
  callback wants. Both wait for ever if the callback has been entered (`StopMic`, `MicFrame`).
* `sessionbar_windows.go:288`: each click's callback runs in a goroutine of its own, so two clicks may
  be carried out in the other order and leave a live microphone behind a bar that says off, which
  `hostaudio.go:165` wants to rule out; and a failed start leaves the bar saying on, although `:86`
  says that `micOn` "mirrors whether the host's microphone is currently open" (`ClickMic`, `StartMic`).
* `worker.go:478`: "Force a keepalive keyframe ~every 2s so a late viewer can still decode a static
  screen", but `:484` sends nothing and waits for the next real frame (`IdleTurn`); `:528` goes on after a
  failed encode without the keyframe wish that it took (`LoseFrame`).
* `clipfiles_windows.go:293`: a set's file may be torn or replaced by another set's write of that name
  while its own set waits to be pasted (`WriteFile`).
* `store.go:62`: `EnsureBootstrapUser` "creates the initial dashboard account if needed", and resets an
  existing one whenever Redis fails to give it (`Bootstrap`).
* `peer.go:415`: the wait for candidates has no timeout, so a Connect whose peer is closed meanwhile
  never returns and the window stays at "connecting" (`Stranded` of `ClientSession`).
* `pipeline.go:359` stores the frame before `:382` compares with the stored one, so the comparison is
  of a frame with itself and finds no rectangles.
* `session.go:176`: two closers that both find `done` open close it twice, which ends the process
  (`crashed` of `ClientSession`).
* `peer.go:531`: `HandleAnswer` leaves the offering side's early candidates queued.
* `inject_windows.go:275`: a full queue drops its oldest event, which may be a button's release; the
  comment there says "move-class event". Nothing releases what is held when a viewer goes.
* `consentstore.go:139`: two saves at once write the same `.tmp`, so an older set may win, or a mixed
  file that reads as no decisions at all. `ForgetConsentDecisions` has no caller.
* `filerecv.go:484`: when all thousand names of a file are taken, `uniquePath` returns the first, whose
  file `os.Create` empties (`UniquePaths`; `FilesAssumption` keeps the properties out of it).
* `webm.go:167`: "A new cluster on each keyframe", says the comment; the condition asks for the span
  in either case, so keyframes make no difference, and the guard on the 16-bit time below it is never
  true, as two seconds always fit (`WriteFrame`).

## Not modelled, and why

* The relay's HTTP API: request and response over the stores of `AgentRegistry` and `Accounts`; the
  two requests that act on live connections are in `SignalingHub`. Listing and the audit trail, which
  nothing reads back.
* Tokens, one-time codes, certificates, password hashes: cryptography without state of its own. That
  a device has a certificate and that one is revoked is in `AgentRegistry`.
* LAN discovery, presence, the local HTTP interface: they read state and change none.
* Codecs, tracks, session descriptions, and the layout of every window, the installers and start-up:
  no state a property is about. Playback on a host is a device of its own; that its `Play` and `Close`
  may meet (`device.go`) is not modelled.
* The injectors of other systems: a call per event, without a queue.
* The Flutter viewer's dialling, reconnecting and WebRTC session: timers and promises over a library;
  its dial is an input of `SignalingHub`, and its side of file transfers is in `FileTransfer` and
  `FileExport`. It is the largest part that a model could still be made of.
* The displayed credentials and the shutdown of the transport process.

What is left to do, in this order: the Flutter viewer's dial and reconnect machine composed with
`SignalingHub`; the offering side's candidates once `HandleAnswer` drains them.
