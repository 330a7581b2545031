---------------------------- MODULE ConsentStore ----------------------------
(***************************************************************************)
(* The decisions the person at a host asked to have remembered             *)
(* (agent/session/consentstore.go), and the capture worker's handler of a  *)
(* consent request that reads and saves them (worker.go).  Each request    *)
(* has a goroutine; ConsentGate models how its answer finds the viewer.    *)
(*                                                                         *)
(* A save writes a temporary file, always the same, outside the lock, and  *)
(* renames it.  Files are told apart from their names: a save goes on      *)
(* writing to the file it opened, whatever the file is called by then.      *)
(***************************************************************************)
EXTENDS Naturals

CONSTANTS Devices,  \* the viewers' ids, as normConsentID makes them equal
          Requests, \* the consent requests
          Absent,
          Torn,     \* what is not JSON: truncated, or written by two
          Unloaded

VARIABLES
  cache,      \* consentCache, or Unloaded
  content,    \* what is in a file, that is in the first one and in the requests'
  decisions,  \* the file called consent-decisions.json
  tmp,        \* the file called consent-decisions.json.tmp
  request,    \* a request: where its goroutine is, device, choice
  writing,    \* the file its save writes
  snapshot,   \* what it writes
  reply,      \* the answer it sent
  \* History.
  made,       \* every choice the person made for a device
  decided,    \* the last one saved in the cache
  overlapped, \* two saves were under way at once
  unsure      \* a save failed, or the worker died in one

savedVars == <<content, decisions, tmp, writing>>
storeVars == <<cache, savedVars, request, snapshot, reply, made, decided, overlapped, unsure>>

-----------------------------------------------------------------------------
\* consentDecision: whether the viewer is admitted, and at which level.
Verdicts == {"deny", "view", "control"}

\* What a file can hold for a device: an older build wrote true or false.
Entries == Verdicts \cup {"none", "true", "false", "unreadable"}

Saving == {"open", "fill", "rename"}

\* loadConsentDecisions, entry by entry.
Migrated(entry) ==
  CASE entry = "true"  -> "control"
    [] entry = "false" -> "deny"
    [] entry = "unreadable" -> "none"
    [] OTHER -> entry

Decoded(f) ==
  [d \in Devices |-> IF f = Absent \/ content[f] = Torn THEN "none" ELSE Migrated(content[f][d])]

MoveOn(r, at) == request' = [request EXCEPT ![r].at = at]

First == "first"

ASSUME StoreAssumption == /\ First \notin Requests /\ Absent \notin Requests \cup {First}
                          /\ Torn \notin [Devices -> Entries]
                          /\ Unloaded \notin [Devices -> Verdicts \cup {"none"}]

StoreInit ==
  /\ cache = Unloaded
  /\ \E d \in Devices, entry \in Entries \cup {Absent} :
       /\ decisions = IF entry = Absent THEN Absent ELSE First
       /\ content = [f \in Requests \cup {First} |->
                    IF f = First /\ entry # Absent
                    THEN [e \in Devices |-> IF e = d THEN entry ELSE "none"] ELSE Torn]
  /\ tmp = Absent
  /\ request = [r \in Requests |-> [at |-> "new", device |-> "none", choice |-> "none"]]
  /\ writing = [r \in Requests |-> Absent]
  /\ snapshot = [r \in Requests |-> Torn]
  /\ reply = [r \in Requests |-> "none"]
  /\ decided = Decoded(decisions)
  /\ made = [d \in Devices |-> {decided[d]} \ {"none"}]
  /\ overlapped = FALSE /\ unsure = FALSE

-----------------------------------------------------------------------------
Loaded == IF cache = Unloaded THEN Decoded(decisions) ELSE cache

\* A request: answered from memory, or the person is asked.
Ask(r, d) ==
  /\ request[r].at = "new"
  /\ cache' = Loaded
  /\ request' = [request EXCEPT ![r].device = d,
                                ![r].at = IF Loaded[d] = "none" THEN "dialog" ELSE "over"]
  /\ reply' = [reply EXCEPT ![r] = Loaded[d]]
  /\ UNCHANGED <<savedVars, snapshot, made, decided, overlapped, unsure>>

\* The answer is sent; "remember" has it saved.
Answer(r, choice, remember) ==
  /\ request[r].at = "dialog"
  /\ request' = [request EXCEPT ![r].choice = choice,
                                ![r].at = IF remember THEN "save" ELSE "over"]
  /\ reply' = [reply EXCEPT ![r] = choice]
  /\ made' = [made EXCEPT ![request[r].device] = @ \cup {choice}]
  /\ UNCHANGED <<cache, savedVars, snapshot, decided, overlapped, unsure>>

\* saveConsentDecision, under the lock.
Put(r) ==
  LET d == request[r].device   c == request[r].choice
  IN /\ request[r].at = "save"
     /\ cache' = [Loaded EXCEPT ![d] = c]
     /\ snapshot' = [snapshot EXCEPT ![r] = cache']
     /\ decided' = [decided EXCEPT ![d] = c]
     /\ overlapped' = (overlapped \/ \E q \in Requests : request[q].at \in Saving)
     /\ MoveOn(r, "open")
     /\ UNCHANGED <<savedVars, reply, made, unsure>>

Fails(r) == request[r].at \in Saving /\ MoveOn(r, "over") /\ unsure' = TRUE

\* Opening truncates the file, and makes one if there is none.
OpenFile(r, f, name) ==
  /\ request[r].at = "open" /\ MoveOn(r, "fill")
  /\ name' = f
  /\ writing' = [writing EXCEPT ![r] = f]
  /\ content' = [content EXCEPT ![f] = Torn]
  /\ UNCHANGED <<cache, snapshot, reply, made, decided, overlapped, unsure>>

FileOf(r, name) == IF name = Absent THEN r ELSE name

\* (Without the temporary file.)
OpenDecisions(r) == OpenFile(r, FileOf(r, decisions), decisions) /\ UNCHANGED tmp

Open(r) == OpenFile(r, FileOf(r, tmp), tmp) /\ UNCHANGED decisions

\* What another save has written since the file was opened may be longer: its tail stays.
Fill(r) ==
  LET f == writing[r]
  IN /\ request[r].at = "fill" /\ MoveOn(r, "rename")
     /\ \/ content' = [content EXCEPT ![f] = snapshot[r]]
        \/ content[f] # Torn /\ content' = [content EXCEPT ![f] = Torn]
     /\ writing' = [writing EXCEPT ![r] = Absent]
     /\ UNCHANGED <<cache, decisions, tmp, snapshot, reply, made, decided, overlapped, unsure>>

Rename(r) ==
  /\ request[r].at = "rename" /\ tmp # Absent
  /\ MoveOn(r, "over")
  /\ decisions' = tmp /\ tmp' = Absent
  /\ UNCHANGED <<cache, content, writing, snapshot, reply, made, decided, overlapped, unsure>>

\* The temporary file cannot be opened or written, or not be renamed: another save has
\* renamed it already, or has it open.  Only then it is removed, if it can be.
SaveFails(r) ==
  /\ Fails(r)
  /\ writing' = [writing EXCEPT ![r] = Absent]
  /\ tmp' \in IF request[r].at = "rename" THEN {tmp, Absent} ELSE {tmp}
  /\ UNCHANGED <<cache, content, decisions, snapshot, reply, made, decided, overlapped>>

\* The worker ends, at any point, and another starts.
Restart ==
  /\ cache' = Unloaded
  /\ request' = [r \in Requests |->
                   IF request[r].at = "new" THEN request[r] ELSE [request[r] EXCEPT !.at = "over"]]
  /\ writing' = [r \in Requests |-> Absent]
  /\ unsure' = (unsure \/ \E r \in Requests : request[r].at \in Saving)
  /\ UNCHANGED <<content, decisions, tmp, snapshot, reply, made, decided, overlapped>>

StoreNext ==
  \/ \E r \in Requests :
       \/ \E d \in Devices : Ask(r, d)
       \/ \E choice \in Verdicts, remember \in BOOLEAN : Answer(r, choice, remember)
       \/ Put(r) \/ Open(r) \/ Fill(r) \/ Rename(r) \/ SaveFails(r)
  \/ Restart

StoreSpec == StoreInit /\ [][StoreNext]_storeVars

-----------------------------------------------------------------------------
StoreTypeOK ==
  /\ cache = Unloaded \/ cache \in [Devices -> Verdicts \cup {"none"}]
  /\ decisions \in Requests \cup {First, Absent} /\ tmp \in Requests \cup {First, Absent}
  /\ \A f \in DOMAIN content : content[f] = Torn \/ content[f] \in [Devices -> Entries]
  /\ \A r \in Requests : request[r].at \in {"new", "dialog", "save", "over"} \cup Saving

\* Whatever saves overlapped, failed or were cut off, a worker that starts recalls for a
\* device a choice the person made for it or none, and answers with such a choice: a view-only
\* grant stays one.  As long as no two saves overlap the file is whole, and when none of them
\* failed it holds every decision as it was made last (consentstore.go: "so a crash mid-write
\* can't leave a truncated file that silently loses every remembered decision").
RememberedAsDecided ==
  LET recalled == Decoded(decisions)
      idle == \A r \in Requests : request[r].at \notin Saving
  IN /\ \A d \in Devices : recalled[d] \in made[d] \cup {"none"}
     /\ \A r \in Requests : reply[r] # "none" => reply[r] \in made[request[r].device]
     /\ (~overlapped /\ decisions # Absent) => content[decisions] # Torn
     /\ (~overlapped /\ ~unsure /\ idle) => recalled = decided
=============================================================================
