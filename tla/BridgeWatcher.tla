---------------------------- MODULE BridgeWatcher ---------------------------
(***************************************************************************)
(* Layer 5 off chain: bridge messages waiting for their signed VAA.        *)
(*                                                                         *)
(* POST /v1/bridge/track adds a message to a file; the watcher, a process  *)
(* of its own, polls: it alerts about messages that wait for more than an  *)
(* hour, reads the file and asks for the VAA of every row, one after the   *)
(* other, dropping the rows that are signed.  Polls are started by a timer *)
(* and may overlap.  Both processes load the whole file, change the rows   *)
(* and write it back: truncated first, then filled.  Within a process      *)
(* nothing comes between these steps, between the processes anything may.  *)
(*                                                                         *)
(* The file is in SETTLEMENT_DATA_DIR.  Without it the route stores nothing *)
(* and answers tracked: true all the same, and the watcher polls nothing.  *)
(* A watcher that reads a half-written file ends, by an unhandled          *)
(* rejection; nothing in the repository starts it again, somebody may.     *)
(*                                                                         *)
(* A row's startedAt and alerted are stored and never read; a row is its   *)
(* id.  The event indexer would track messages too, but the events it      *)
(* queries have no bridge fields.  The VAA service is external.  Times are *)
(* in ticks, a poll's interval each.                                       *)
(***************************************************************************)
EXTENDS Naturals, FiniteSets

CONSTANTS
  Messages,     \* bridgeTxIds
  WatcherPolls,        \* polls of the watcher under way at once; bounds them
  TornFile,         \* a file truncated and not filled
  StallTicks,   \* an hour
  MaxWatcherCrashes    \* bounds the crashes of either process

ASSUME WatcherAssumption ==
  /\ {StallTicks, MaxWatcherCrashes} \subseteq Nat
  /\ \A rows \in SUBSET Messages : rows # TornFile

WatcherProcesses == {"api", "watcher"}

VARIABLES
  durable,   \* the processes that have SETTLEMENT_DATA_DIR set
  pendingFile,      \* pending.json: the ids of its rows, or Torn
  writeStep,      \* where each process is in changing the file
  copy,      \* the rows it will write
  target,    \* the messages it tracks or confirms, as a set of at most one
  alive,        \* the processes that run
  crashes,
  pending,   \* BridgeWatcher.pending: messages of the watcher's start
  since,     \* ticks since the watcher started, up to one over StallTicks
  checking,  \* rows each poll has still to ask about
  polled,    \* the timer fired in this tick
  signedMessages,    \* messages with a signed VAA
  alerted,   \* BridgeWatcher's flags: messages reported stalled
  tracked,   \* messages answered with tracked: true; history
  unstored,  \* those of an API without the directory; history
  raced      \* a process loaded while the other was changing; history

fileVars == <<pendingFile, writeStep, copy, target>>
watcherVars == <<pending, since, checking, polled, alerted>>
historyVars == <<tracked, unstored, raced>>
bridgeVars == <<durable, fileVars, alive, crashes, watcherVars, signedMessages, historyVars>>

WaitClock == 0 .. StallTicks + 1
TickLater(t) == IF t \in WaitClock \ {StallTicks + 1} THEN t + 1 ELSE t

WatcherTypeOK ==
  /\ durable \subseteq WatcherProcesses
  /\ pendingFile \in (SUBSET Messages) \cup {TornFile}
  /\ writeStep \in [WatcherProcesses -> {"idle", "loaded", "truncated"}]
  /\ copy \in [WatcherProcesses -> SUBSET Messages]
  /\ target \in [WatcherProcesses -> SUBSET Messages]
  /\ \A p \in WatcherProcesses : writeStep[p] # "idle" => p \in alive
  /\ alive \subseteq WatcherProcesses
  /\ crashes \in 0 .. MaxWatcherCrashes
  /\ pending \subseteq Messages
  /\ since \in WaitClock
  /\ checking \in [WatcherPolls -> SUBSET Messages]
  /\ polled \in BOOLEAN
  /\ signedMessages \subseteq Messages /\ alerted \subseteq Messages
  /\ tracked \subseteq Messages /\ unstored \subseteq Messages
  /\ raced \in BOOLEAN

\* The messages a watcher takes from the file as it starts.
Known == IF "watcher" \in durable THEN pendingFile ELSE {}

\* A start of the system with rows of an earlier one in the file.
WatcherInit ==
  /\ durable \in SUBSET WatcherProcesses
  /\ pendingFile \in SUBSET Messages
  /\ writeStep = [p \in WatcherProcesses |-> "idle"]
  /\ copy = [p \in WatcherProcesses |-> {}]
  /\ target = [p \in WatcherProcesses |-> {}]
  /\ alive = WatcherProcesses
  /\ crashes = 0
  /\ pending = Known
  /\ since = 0
  /\ checking = [p \in WatcherPolls |-> {}]
  /\ polled = FALSE
  /\ signedMessages = {}
  /\ alerted = {}
  /\ tracked = pendingFile
  /\ unstored = {}
  /\ raced = FALSE

-----------------------------------------------------------------------------
(* BridgeStateStore: load, filter or push, save.                           *)

WithRow(rows, m) == rows \cup {m}

\* WithoutRow that keeps nothing, and one that keeps everything.
NoRow(rows, m) == {}
EveryRow(rows, m) == rows

WithoutRow(rows, m) == rows \ {m}

Changing(p, m, rows) ==
  /\ writeStep' = [writeStep EXCEPT ![p] = "loaded"]
  /\ copy' = [copy EXCEPT ![p] = rows]
  /\ target' = [target EXCEPT ![p] = {m}]
  /\ raced' = (raced \/ \E q \in WatcherProcesses \ {p} : writeStep[q] # "idle")
  /\ UNCHANGED pendingFile

\* POST /v1/bridge/track; an unreadable file fails the request.
Track(m) ==
  /\ "api" \in alive \cap durable /\ writeStep["api"] = "idle"
  /\ pendingFile # TornFile
  /\ Changing("api", m, WithRow(pendingFile, m))
  /\ UNCHANGED <<durable, alive, crashes, watcherVars, signedMessages, tracked, unstored>>

\* Without the directory the message is stored nowhere, and answered alike.
TrackNothing(m) ==
  /\ "api" \in alive \ durable
  /\ tracked' = tracked \cup {m}
  /\ unstored' = unstored \cup {m}
  /\ UNCHANGED <<durable, fileVars, alive, crashes, watcherVars, signedMessages, raced>>

Truncate(p) ==
  /\ writeStep[p] = "loaded"
  /\ writeStep' = [writeStep EXCEPT ![p] = "truncated"]
  /\ pendingFile' = TornFile
  /\ UNCHANGED <<durable, copy, target, alive, crashes, watcherVars, signedMessages, historyVars>>

\* The write ends; tracking is answered with success.
Write(p) ==
  /\ writeStep[p] = "truncated"
  /\ writeStep' = [writeStep EXCEPT ![p] = "idle"]
  /\ pendingFile' = copy[p]
  /\ tracked' = IF p = "api" THEN tracked \cup target[p] ELSE tracked
  /\ UNCHANGED <<durable, copy, target, alive, crashes, watcherVars, signedMessages, unstored, raced>>

-----------------------------------------------------------------------------
(* The watcher.                                                            *)

Running == "watcher" \in alive /\ writeStep["watcher"] = "idle"

StopProcess(p) ==
  /\ alive' = alive \ {p}
  /\ writeStep' = [writeStep EXCEPT ![p] = "idle"]
  /\ checking' = IF p = "watcher" THEN [q \in WatcherPolls |-> {}] ELSE checking

Stalled == {m \in pending \ alerted : since > StallTicks}

\* The timer fires: alerts, then the rows of the file, if it has one.  An
\* unreadable file is an unhandled rejection and ends the process.
Poll(p) ==
  /\ Running /\ ~polled
  /\ checking[p] = {}
  /\ polled' = TRUE
  /\ alerted' = alerted \cup Stalled
  /\ \/ /\ "watcher" \in durable /\ pendingFile = TornFile
        /\ StopProcess("watcher")
     \/ /\ Known # TornFile
        /\ checking' = [checking EXCEPT ![p] = Known]
        /\ UNCHANGED <<alive, writeStep>>
  /\ UNCHANGED <<durable, pendingFile, copy, target, crashes, pending, since, signedMessages, historyVars>>

Checked(p, m) == checking' = [checking EXCEPT ![p] = @ \ {m}]

Forget(m) == pending \ {m}

\* The VAA is signed: the watcher forgets the message and drops its row from
\* the file as it is now; if that cannot be read, the row stays.
ConfirmBridge(p, m) ==
  /\ Running /\ m \in checking[p] /\ m \in signedMessages
  /\ Checked(p, m)
  /\ pending' = Forget(m)
  /\ IF pendingFile = TornFile THEN UNCHANGED <<fileVars, raced>>
     ELSE Changing("watcher", m, WithoutRow(pendingFile, m))
  /\ UNCHANGED <<durable, alive, crashes, since, polled, alerted, signedMessages, tracked, unstored>>

\* Not signed yet, or the request failed: the next row.
NotConfirmed(p, m) ==
  /\ Running /\ m \in checking[p]
  /\ Checked(p, m)
  /\ UNCHANGED <<durable, fileVars, alive, crashes, pending, since, polled, alerted, signedMessages, historyVars>>

\* Time passes once the watcher has polled.
WatcherTick ==
  /\ polled \/ "watcher" \notin alive
  /\ polled' = FALSE
  /\ since' = TickLater(since)
  /\ UNCHANGED <<durable, fileVars, alive, crashes, pending, checking, alerted, signedMessages, historyVars>>

\* The guardians sign a message.
SignMessage(m) ==
  /\ m \in tracked \ signedMessages
  /\ signedMessages' = signedMessages \cup {m}
  /\ UNCHANGED <<durable, fileVars, alive, crashes, watcherVars, historyVars>>

\* A crash may leave the file torn.
CrashProcess(p) ==
  /\ p \in alive /\ crashes < MaxWatcherCrashes
  /\ crashes' = crashes + 1
  /\ StopProcess(p)
  /\ UNCHANGED <<durable, pendingFile, copy, target, pending, since, polled, alerted, signedMessages, historyVars>>

RestartApi ==
  /\ "api" \notin alive
  /\ alive' = alive \cup {"api"}
  /\ UNCHANGED <<durable, fileVars, crashes, watcherVars, signedMessages, historyVars>>

\* Started by hand, the watcher takes the rows of the file as of now; it cannot
\* start on an unreadable one.
RestartWatcher ==
  /\ "watcher" \notin alive
  /\ Known # TornFile
  /\ alive' = alive \cup {"watcher"}
  /\ pending' = Known
  /\ since' = 0
  /\ polled' = FALSE
  /\ alerted' = {}
  /\ UNCHANGED <<durable, fileVars, crashes, checking, signedMessages, historyVars>>

BridgeNext ==
  \/ WatcherTick \/ RestartApi \/ RestartWatcher
  \/ \E m \in Messages : Track(m) \/ TrackNothing(m) \/ SignMessage(m)
  \/ \E p \in WatcherProcesses : Truncate(p) \/ Write(p) \/ CrashProcess(p)
  \/ \E p \in WatcherPolls : Poll(p) \/ \E m \in Messages : ConfirmBridge(p, m) \/ NotConfirmed(p, m)

\* Files are written and the timer of a watcher that runs fires.  The VAA
\* service answers for every message now and then, and confirmations do not
\* always meet the instant in which the file is half-written.  Nothing restarts
\* a process that has ended.
BridgeFairness ==
  /\ \A p \in WatcherProcesses : WF_bridgeVars(Truncate(p)) /\ WF_bridgeVars(Write(p))
  /\ WF_bridgeVars(\E p \in WatcherPolls : Poll(p))
  /\ \A p \in WatcherPolls : WF_bridgeVars(\E m \in Messages : ConfirmBridge(p, m) \/ NotConfirmed(p, m))
  /\ \A m \in Messages : SF_bridgeVars(\E p \in WatcherPolls : ConfirmBridge(p, m) /\ pendingFile # TornFile)
  /\ WF_bridgeVars(WatcherTick)

BridgeSafetySpec == WatcherInit /\ [][BridgeNext]_bridgeVars
BridgeSpec == BridgeSafetySpec /\ BridgeFairness

-----------------------------------------------------------------------------

AtRest == pendingFile # TornFile /\ \A p \in WatcherProcesses : writeStep[p] = "idle"

\* A message answered with tracked: true stays in the file until it is signed,
\* unless the API had no directory to store it in, the two processes changed the
\* file at once, or a crash tore it, and then it cannot be read at all
\* (BridgeStateStore.track, confirm, trackBridgeMessage).
LossNeedsRace == AtRest /\ ~raced => tracked \ (signedMessages \cup unstored) \subseteq pendingFile

\* The row of a signed message is dropped, and dropped again whatever races and
\* repeated requests bring it back, by a watcher that has the file; or the watcher
\* has ended, as it does when it meets a half-written file, and the row stays
\* for as long as nobody starts it (bridgeWatcherWorker.ts:38-59).
SignedIsCleared ==
  \A m \in Messages : m \in signedMessages /\ "watcher" \in durable ~>
    "watcher" \notin alive \/ (pendingFile # TornFile /\ m \notin pendingFile)

\* What a watcher knows from its start is confirmed or reported as stalled, whatever
\* its polls overlap with, unless it has ended (BridgeWatcher.poll).
StallIsReported ==
  \A m \in Messages : m \in pending ~>
    "watcher" \notin alive \/ m \notin pending \/ m \in alerted

\* A watcher that runs clears what is signed and reports what is not.
WatcherProgresses == SignedIsCleared /\ StallIsReported

\* A message stored as tracked is not lost without a race.
WatcherSafe == WatcherTypeOK /\ LossNeedsRace
=============================================================================
