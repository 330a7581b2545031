---------------------------- MODULE PrivacyLease ----------------------------
(***************************************************************************)
(* Privacy mode in the capture worker (agent/session/privacyguard.go, with *)
(* setPrivacy of privacy_windows.go): the viewer's commands, the lease     *)
(* they renew, the watchdog that ends it, and the goroutine that drives    *)
(* the screen from a queue.                                                *)
(*                                                                         *)
(* The flag and the deadline change under privacyMu; the queue is written  *)
(* after it has been released, so the order of two writers' commands need  *)
(* not be that of their changes.  A lease does not run out between the two *)
(* halves of a command: they are microseconds apart and the lease is 12 s. *)
(***************************************************************************)
EXTENDS Naturals, Sequences

CONSTANTS MaxCmds,   \* bound on the commands of the viewer
          QueueLen   \* capacity of privacyCmd

ASSUME PrivacyAssumption == MaxCmds \in Nat /\ QueueLen \in Nat /\ MaxCmds + 2 <= QueueLen

VARIABLES
  cmds,      \* the commands the viewer has given
  gone,      \* the viewer has vanished
  isOn,      \* privacyIsOn
  lease,     \* whether privacyDeadline is still to come
  reader,    \* what the reader is about to queue, if anything
  watchdog,  \* the same of the watchdog
  queue,     \* privacyCmd
  blank      \* the screen is blanked

privacyVars == <<cmds, gone, isOn, lease, reader, watchdog, queue, blank>>

Nothing == "nothing"
Cmds    == {"on", "off"}

PrivacyInit ==
  /\ cmds = 0 /\ gone = FALSE /\ isOn = FALSE /\ lease = FALSE
  /\ reader = Nothing /\ watchdog = Nothing /\ queue = <<>> /\ blank = FALSE

\* assertPrivacy under the mutex.  A renewal does not drive the screen; OFF always does.
Assert(on) ==
  /\ ~gone /\ cmds < MaxCmds /\ reader = Nothing
  /\ cmds' = cmds + 1 /\ isOn' = (on = "on") /\ lease' = (on = "on" \/ lease)
  /\ reader' = IF on = "on" /\ isOn THEN Nothing ELSE on
  /\ UNCHANGED <<gone, watchdog, queue, blank>>

\* clearPrivacy, when the transport says that nobody is connected.
Clear ==
  /\ cmds < MaxCmds /\ reader = Nothing
  /\ cmds' = cmds + 1 /\ isOn' = FALSE /\ lease' = FALSE /\ reader' = "off"
  /\ UNCHANGED <<gone, watchdog, queue, blank>>

\* setPrivacy: dropped when the queue is full.
Queued(on) == queue' = IF Len(queue) < QueueLen THEN Append(queue, on) ELSE queue

ReaderDrives ==
  /\ reader # Nothing /\ Queued(reader) /\ reader' = Nothing
  /\ UNCHANGED <<cmds, gone, isOn, lease, watchdog, blank>>

\* Mutant of Expire: the flag is cleared and the screen is left to the viewer's next command.
ExpireFlagOnly ==
  /\ watchdog = Nothing /\ isOn /\ ~lease
  /\ isOn' = FALSE /\ UNCHANGED <<cmds, gone, lease, reader, watchdog, queue, blank>>

\* A tick of the watchdog that finds the lease over ends it.
Expire ==
  /\ watchdog = Nothing /\ isOn /\ ~lease
  /\ isOn' = FALSE /\ watchdog' = "off"
  /\ UNCHANGED <<cmds, gone, lease, reader, queue, blank>>

WatchdogDrives ==
  /\ watchdog # Nothing /\ Queued(watchdog) /\ watchdog' = Nothing
  /\ UNCHANGED <<cmds, gone, isOn, lease, reader, blank>>

\* A step of the watchdog: its tick, and what it does after it.
WatchLease == Expire \/ WatchdogDrives

\* privacyLoop takes a command and drives the screen and the input block.
DriveScreen ==
  /\ queue # <<>> /\ blank' = (Head(queue) = "on") /\ queue' = Tail(queue)
  /\ UNCHANGED <<cmds, gone, isOn, lease, reader, watchdog>>

LeaseRunsOut ==
  /\ lease /\ reader = Nothing /\ lease' = FALSE
  /\ UNCHANGED <<cmds, gone, isOn, reader, watchdog, queue, blank>>

Vanish ==
  /\ ~gone /\ gone' = TRUE
  /\ UNCHANGED <<cmds, isOn, lease, reader, watchdog, queue, blank>>

PrivacyNext ==
  \/ \E on \in Cmds : Assert(on)
  \/ Clear \/ ReaderDrives \/ WatchLease \/ DriveScreen \/ LeaseRunsOut \/ Vanish

\* Goroutines go on, the ticker ticks and time passes; nothing is asked of the viewer or
\* of the transport.
PrivacyFairness ==
  /\ WF_privacyVars(ReaderDrives) /\ WF_privacyVars(WatchLease)
  /\ WF_privacyVars(DriveScreen) /\ WF_privacyVars(LeaseRunsOut)

PrivacySpec == PrivacyInit /\ [][PrivacyNext]_privacyVars /\ PrivacyFairness

-----------------------------------------------------------------------------
PrivacyTypeOK ==
  /\ cmds \in 0 .. MaxCmds /\ {gone, isOn, lease, blank} \subseteq BOOLEAN
  /\ {reader, watchdog} \subseteq Cmds \cup {Nothing}
  /\ queue \in Seq(Cmds) /\ Len(queue) <= QueueLen

\* Once the viewer has vanished the screen is restored and stays so, even if the transport
\* never says that nobody is connected (privacyguard.go:79, "whatever else fails").
RestoredInTheEnd == gone ~> []~blank
=============================================================================
