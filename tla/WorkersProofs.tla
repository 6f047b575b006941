---------------------------- MODULE WorkersProofs ---------------------------
(***************************************************************************)
(* The workers of layer 5 and their readers, for any page size, timer and  *)
(* number of polls, events, messages, rows, crashes and restarts: the      *)
(* event indexer's cursor, the bridge watcher's file, the audit trail with *)
(* its streams, and the dashboard's page that shows the trail.             *)
(***************************************************************************)
EXTENDS EventIndexer, BridgeWatcher, AuditStream, Dashboard, SequenceTheorems, FiniteSetTheorems,
        TLAPS

-----------------------------------------------------------------------------
(* The event indexer.  Every poll starts at a cursor behind which nothing  *)
(* was left out, so its page joins on; and as long as polls have not       *)
(* overlapped the one under way starts at the cursor itself, behind which  *)
(* lies all that was handed over.                                          *)

\* The timer has a period, whatever the environment says.
LEMMA IntervalType == Interval \in Nat \ {0}
BY IndexerAssumption DEF Interval, PollMs, DefaultPollMs

\* A page ends behind its start and within the log, and is empty only when
\* there is nothing behind the start.
LEMMA PageFacts ==
  ASSUME IndexerTypeOK, NEW from \in 0 .. logged
  PROVE  /\ PageEnd(from) \in from .. logged
         /\ PageEnd(from) # from => PageEnd(from) \in Events
         /\ \A e \in Events : e <= PageEnd(from) => e \in 1 .. logged
BY IndexerAssumption DEF IndexerTypeOK, PageEnd, Events

PagesJoin ==
  /\ NoEventSkipped
  /\ \A p \in UnderWay : 1 .. poll[p] \subseteq handed

InOrder ==
  ~overlapped =>
    /\ repeated = {}
    /\ handed \subseteq 1 .. cursor
    /\ \A p \in UnderWay : poll[p] = cursor
    /\ \A p, q \in UnderWay : p = q

\* A process that is stopped can start again within the bound.
StopIsCounted == ~up => restarts < MaxRestarts

IndexerInv == IndexerTypeOK /\ PagesJoin /\ InOrder /\ StopIsCounted

LEMMA InitIndexer == IndexerInit => IndexerInv
<1> SUFFICES ASSUME IndexerInit PROVE IndexerInv
  OBVIOUS
<1>1. UnderWay = {} /\ 1 .. cursor = {}
  BY DEF IndexerInit, UnderWay
<1>2. IndexerTypeOK
  <2>1. /\ timer \in 0 .. Interval /\ age \in [Polls -> 0 .. AnswerTicks]
        /\ running \in [Events -> 0 .. MaxRunning] /\ \A e \in Events : running[e] = 0
        /\ 0 \in 0 .. MaxEvents /\ 0 \in 0 .. MaxRestarts
    BY IndexerAssumption, IntervalType DEF IndexerInit
  <2>2. /\ logged \in 0 .. MaxEvents /\ restarts \in 0 .. MaxRestarts
        /\ cursor \in 0 .. logged /\ rows \subseteq 1 .. logged
        /\ poll \in [Polls -> (0 .. logged) \cup {Idle}]
    BY <2>1 DEF IndexerInit
  <2>3. handed = {} /\ repeated = {} /\ unsettled = {} /\ up \in BOOLEAN /\ overlapped \in BOOLEAN
    BY DEF IndexerInit
  <2>4. QED
    BY <2>1, <2>2, <2>3 DEF IndexerTypeOK
<1>3. PagesJoin /\ InOrder
  BY <1>1 DEF IndexerInit, PagesJoin, InOrder, NoEventSkipped
<1>4. StopIsCounted
  BY DEF IndexerInit, StopIsCounted
<1>5. QED
  BY <1>2, <1>3, <1>4 DEF IndexerInv

\* An answer hands over a page that joins on to what was handed over.
LEMMA AnswerStep ==
  ASSUME IndexerInv, NEW p \in Polls, Answer(p)
  PROVE  IndexerInv' /\ (cursor' < cursor => overlapped)
<1> DEFINE from == poll[p]
           answer == {e \in Events : from < e /\ e <= PageEnd(from)}
<1>1. /\ IndexerTypeOK /\ from \in 0 .. logged /\ p \in UnderWay
      /\ cursor \in 0 .. logged /\ logged \in Nat /\ logged <= MaxEvents /\ MaxEvents \in Nat
      /\ MaxRunning \in Nat
  BY IndexerAssumption DEF IndexerInv, IndexerTypeOK, Answer, UnderWay
<1>2. /\ up
      /\ \A e \in answer : running[e] < MaxRunning
      /\ running' = [e \in Events |-> IF e \in answer THEN running[e] + 1 ELSE running[e]]
      /\ handed' = handed \cup answer
      /\ repeated' = repeated \cup (handed \cap answer)
      /\ cursor' = IF answer = {} THEN cursor ELSE PageEnd(from)
      /\ poll' = [poll EXCEPT ![p] = Idle]
      /\ UNCHANGED <<logged, up, timer, age, rows, restarts, unsettled, overlapped>>
  BY DEF Answer, NextCursor
<1>3. /\ PageEnd(from) \in from .. logged
      /\ answer \subseteq 1 .. logged
      /\ \A e \in answer : from < e /\ e <= PageEnd(from)
      /\ \A e \in 1 .. PageEnd(from) : e <= from \/ e \in answer
      /\ answer = {} => PageEnd(from) = from
  <2>1. PageEnd(from) \in from .. logged /\ (PageEnd(from) # from => PageEnd(from) \in Events)
    BY <1>1, PageFacts
  <2>2. QED
    BY <1>1, <2>1 DEF Events
<1>4. cursor' \in 0 .. logged
  BY <1>1, <1>2, <1>3
<1>5. UnderWay' = UnderWay \ {p} /\ \A q \in UnderWay' : poll'[q] = poll[q]
  BY <1>1, <1>2 DEF UnderWay, IndexerTypeOK
<1> HIDE DEF answer
<1>6. IndexerTypeOK'
  <2>1. poll' \in [Polls -> (0 .. logged') \cup {Idle}]
    BY <1>1, <1>2 DEF IndexerTypeOK
  <2>2. running' \in [Events -> 0 .. MaxRunning]
    BY <1>1, <1>2 DEF IndexerTypeOK
  <2>3. \A e \in Events : running'[e] > 0 => e \in handed'
    BY <1>1, <1>2 DEF IndexerTypeOK
  <2>4. QED
    BY <1>1, <1>2, <1>3, <1>4, <2>1, <2>2, <2>3 DEF IndexerTypeOK, Interval, PollMs
<1>7. PagesJoin'
  <2>1. 1 .. from \subseteq handed /\ 1 .. cursor \subseteq handed
    BY <1>1 DEF IndexerInv, PagesJoin, NoEventSkipped
  <2>2. 1 .. PageEnd(from) \subseteq handed'
    BY <1>1, <1>2, <1>3, <2>1
  <2>3. NoEventSkipped'
    BY <1>2, <2>1, <2>2 DEF NoEventSkipped
  <2>4. \A q \in UnderWay' : 1 .. poll'[q] \subseteq handed'
    BY <1>2, <1>5 DEF IndexerInv, PagesJoin
  <2>5. QED BY <2>3, <2>4 DEF PagesJoin
<1>8. ASSUME ~overlapped
      PROVE  /\ repeated' = {} /\ handed' \subseteq 1 .. cursor' /\ UnderWay' = {}
             /\ cursor' >= cursor
  <2>1. /\ repeated = {} /\ handed \subseteq 1 .. cursor /\ from = cursor
        /\ \A q \in UnderWay : q = p
    BY <1>1, <1>8 DEF IndexerInv, InOrder
  <2>2. handed \cap answer = {}
    BY <1>1, <1>3, <2>1
  <2>3. cursor' = PageEnd(from)
    BY <1>2, <1>3, <2>1
  <2>4. handed' \subseteq 1 .. cursor'
    BY <1>1, <1>2, <1>3, <2>1, <2>3
  <2>5. QED
    BY <1>1, <1>2, <1>3, <1>5, <2>1, <2>2, <2>3, <2>4
<1>9. InOrder'
  BY <1>2, <1>8 DEF InOrder
<1>10. cursor' < cursor => overlapped
  BY <1>1, <1>4, <1>8
<1>11. StopIsCounted'
  BY <1>2 DEF StopIsCounted
<1>12. QED
  BY <1>6, <1>7, <1>9, <1>10, <1>11 DEF IndexerInv

\* Of the other steps only a restart moves the cursor.
LEMMA IndexerStep ==
  IndexerInv /\ [IndexerNext]_indexerVars => IndexerInv' /\ (cursor' < cursor => overlapped \/ ~up)
<1> SUFFICES ASSUME IndexerInv, [IndexerNext]_indexerVars
             PROVE  IndexerInv' /\ (cursor' < cursor => overlapped \/ ~up)
  OBVIOUS
<1> USE DEF memory, history
<1>t. IndexerTypeOK /\ PagesJoin /\ InOrder /\ StopIsCounted /\ cursor \in Nat
  BY DEF IndexerInv, IndexerTypeOK
<1>c. ASSUME cursor' = cursor PROVE ~(cursor' < cursor)
  BY <1>t, <1>c
<1>1. CASE EmitEvent
  <2>1. IndexerTypeOK'
    BY <1>1, <1>t, IndexerAssumption DEF EmitEvent, IndexerTypeOK, Interval, PollMs
  <2>2. PagesJoin' /\ InOrder' /\ StopIsCounted' /\ cursor' = cursor
    BY <1>1, <1>t DEF EmitEvent, PagesJoin, InOrder, StopIsCounted, NoEventSkipped, UnderWay
  <2>3. QED BY <1>c, <2>1, <2>2 DEF IndexerInv
<1>2. CASE Tick
  <2>1. IndexerTypeOK'
    <3>1. timer' \in 0 .. Interval
      BY <1>2, <1>t, IntervalType DEF Tick, IndexerTypeOK
    <3>2. age' \in [Polls -> 0 .. AnswerTicks]
      BY <1>2, <1>t, IndexerAssumption DEF Tick, IndexerTypeOK, UnderWay
    <3>3. QED
      BY <1>2, <1>t, <3>1, <3>2 DEF Tick, IndexerTypeOK, Interval, PollMs
  <2>2. PagesJoin' /\ InOrder' /\ StopIsCounted' /\ cursor' = cursor
    BY <1>2, <1>t DEF Tick, PagesJoin, InOrder, StopIsCounted, NoEventSkipped, UnderWay
  <2>3. QED BY <1>c, <2>1, <2>2 DEF IndexerInv
<1>3. CASE Stop
  <2>1. IndexerTypeOK'
    BY <1>3, <1>t DEF Stop, IndexerTypeOK, Interval, PollMs
  <2>2. PagesJoin' /\ InOrder' /\ StopIsCounted' /\ cursor' = cursor
    BY <1>3, <1>t DEF Stop, PagesJoin, InOrder, StopIsCounted, NoEventSkipped, UnderWay
  <2>3. QED BY <1>c, <2>1, <2>2 DEF IndexerInv
<1>4. CASE Restart
  <2>1. IndexerTypeOK'
    <3>1. restarts' \in 0 .. MaxRestarts
      BY <1>4, <1>t, IndexerAssumption DEF Restart, IndexerTypeOK, StopIsCounted
    <3>2. /\ timer' \in 0 .. Interval /\ cursor' \in 0 .. logged
          /\ poll' \in [Polls -> (0 .. logged) \cup {Idle}]
          /\ age' \in [Polls -> 0 .. AnswerTicks]
          /\ running' \in [Events -> 0 .. MaxRunning]
          /\ \A e \in Events : running'[e] = 0
      BY <1>4, <1>t, IndexerAssumption, IntervalType DEF Restart, IndexerTypeOK
    <3>3. UNCHANGED <<logged, rows>> /\ up' \in BOOLEAN /\ overlapped' \in BOOLEAN
          /\ handed' = {} /\ repeated' = {} /\ unsettled' = {}
      BY <1>4 DEF Restart
    <3>4. QED
      BY <1>t, <3>1, <3>2, <3>3 DEF IndexerTypeOK, Interval, PollMs
  <2>2. UnderWay' = {} /\ 1 .. cursor' = {}
    BY <1>4 DEF Restart, UnderWay
  <2>3. PagesJoin' /\ InOrder' /\ StopIsCounted'
    BY <1>4, <2>2 DEF Restart, PagesJoin, InOrder, StopIsCounted, NoEventSkipped
  <2>4. QED BY <1>4, <2>1, <2>3 DEF IndexerInv, Restart
<1>5. ASSUME NEW p \in Polls, Fire(p)
      PROVE  IndexerInv' /\ cursor' = cursor
  <2>1. IndexerTypeOK'
    BY <1>5, <1>t, IntervalType, IndexerAssumption
       DEF Fire, IndexerTypeOK, Interval, PollMs
  <2>2. cursor' = cursor /\ handed' = handed /\ repeated' = repeated
        /\ \A q \in Polls : poll'[q] = IF q = p THEN cursor ELSE poll[q]
    BY <1>5, <1>t DEF Fire, IndexerTypeOK
  <2>3. UnderWay' = UnderWay \cup {p}
    BY <1>t, <2>2, IndexerAssumption DEF UnderWay
  <2>4. PagesJoin'
    BY <1>t, <2>2, <2>3 DEF PagesJoin, NoEventSkipped, UnderWay
  <2>5. InOrder'
    BY <1>5, <1>t, <2>2, <2>3 DEF Fire, InOrder
  <2>6. StopIsCounted'
    BY <1>5 DEF Fire, StopIsCounted
  <2>7. QED BY <2>1, <2>2, <2>4, <2>5, <2>6 DEF IndexerInv
<1>6. ASSUME NEW p \in Polls, PollFails(p)
      PROVE  IndexerInv' /\ cursor' = cursor
  <2>1. IndexerTypeOK'
    BY <1>6, <1>t DEF PollFails, IndexerTypeOK, Interval, PollMs
  <2>2. UnderWay' \subseteq UnderWay /\ \A q \in UnderWay' : poll'[q] = poll[q]
    BY <1>6, <1>t DEF PollFails, IndexerTypeOK, UnderWay
  <2>3. PagesJoin' /\ InOrder' /\ StopIsCounted' /\ cursor' = cursor
    BY <1>6, <1>t, <2>2 DEF PollFails, PagesJoin, InOrder, StopIsCounted, NoEventSkipped
  <2>4. QED BY <2>1, <2>3 DEF IndexerInv
<1>7. ASSUME NEW e \in Events, HandlerAudits(e) \/ HandlerFails(e)
      PROVE  IndexerInv' /\ cursor' = cursor
  <2>1. e \in handed /\ handed \subseteq 1 .. logged /\ running[e] \in 1 .. MaxRunning
    BY <1>7, <1>t, IndexerAssumption DEF HandlerAudits, HandlerFails, IndexerTypeOK
  <2>2. running' = [running EXCEPT ![e] = @ - 1]
    BY <1>7 DEF HandlerAudits, HandlerFails
  <2>3. /\ running' \in [Events -> 0 .. MaxRunning]
        /\ \A f \in Events : running'[f] > 0 => f \in handed
    BY <1>t, <2>1, <2>2, IndexerAssumption DEF IndexerTypeOK
  <2>4. IndexerTypeOK'
    BY <1>7, <1>t, <2>1, <2>3 DEF HandlerAudits, HandlerFails, IndexerTypeOK, Interval, PollMs
  <2>5. PagesJoin' /\ InOrder' /\ StopIsCounted' /\ cursor' = cursor
    BY <1>7, <1>t DEF HandlerAudits, HandlerFails, PagesJoin, InOrder, StopIsCounted, NoEventSkipped, UnderWay
  <2>6. QED BY <2>4, <2>5 DEF IndexerInv
<1>8. CASE UNCHANGED indexerVars
  BY <1>8, <1>t, <1>c DEF indexerVars, IndexerInv, IndexerTypeOK, PagesJoin, InOrder, StopIsCounted, NoEventSkipped,
                    UnderWay, Interval, PollMs
<1>9. QED
  BY <1>1, <1>2, <1>3, <1>4, <1>5, <1>6, <1>7, <1>8, <1>c, AnswerStep DEF IndexerNext

LEMMA IndexerInvariant == IndexerSafetySpec => []IndexerInv
<1>1. IndexerInv /\ [IndexerNext]_indexerVars => IndexerInv'
  BY IndexerStep
<1>2. QED
  BY <1>1, InitIndexer, PTL DEF IndexerSafetySpec

\* The indexer's timer, cursor, polls, handlers and history are what the code
\* says (SuiEventIndexer, eventIndexerWorker).
THEOREM IndexerTypes == IndexerSafetySpec => []IndexerTypeOK
<1>1. IndexerInv => IndexerTypeOK
  BY DEF IndexerInv
<1>2. QED
  BY <1>1, IndexerInvariant, PTL

\* Whatever polls overlap, fail or come late, no event before the cursor was
\* left out (SuiEventIndexer.pollOnce).
THEOREM NothingIsSkipped == IndexerSafetySpec => []NoEventSkipped
<1>1. IndexerInv => NoEventSkipped
  BY DEF IndexerInv, PagesJoin
<1>2. QED
  BY <1>1, IndexerInvariant, PTL

\* Only polls that overlapped hand an event over twice.
THEOREM RepetitionNeedsOverlap == IndexerSafetySpec => []RepeatsNeedOverlap
<1>1. IndexerInv => RepeatsNeedOverlap
  BY DEF IndexerInv, InOrder, RepeatsNeedOverlap
<1>2. QED
  BY <1>1, IndexerInvariant, PTL

\* The cursor goes back only at a restart or after polls overlapped.
THEOREM CursorGoesForward == IndexerSafetySpec => CursorReturnsOnlyByOverlap
<1>1. IndexerInv /\ [IndexerNext]_indexerVars => [cursor' < cursor => overlapped \/ ~up]_indexerVars
  BY IndexerStep
<1>2. QED
  BY <1>1, IndexerInvariant, PTL DEF IndexerSafetySpec, CursorReturnsOnlyByOverlap

\* Types, no event skipped and none repeated without an overlap, together.
THEOREM IndexerIsSafe == IndexerSafetySpec => []IndexerSafe
<1>1. IndexerTypeOK /\ NoEventSkipped /\ RepeatsNeedOverlap => IndexerSafe
  BY DEF IndexerSafe
<1>2. QED
  BY <1>1, IndexerTypes, NothingIsSkipped, RepetitionNeedsOverlap, PTL


-----------------------------------------------------------------------------
(* The bridge watcher's file.  As long as the processes have not changed   *)
(* it at once there is one that changes it, and every unsigned message     *)
(* that was stored is in the rows it will write; a message that            *)
(* is being tracked is among the rows its request will write, whatever     *)
(* races.                                                                  *)

Unsigned == tracked \ (signedMessages \cup unstored)

OneChanges ==
  \A p, q \in WatcherProcesses : writeStep[p] # "idle" /\ writeStep[q] # "idle" => p = q

Carried ==
  \A p \in WatcherProcesses :
    /\ writeStep[p] # "idle" => Unsigned \subseteq copy[p]
    /\ writeStep[p] = "loaded" => pendingFile # TornFile /\ Unsigned \subseteq pendingFile
    /\ writeStep[p] = "truncated" => pendingFile = TornFile

WatcherInv ==
  /\ WatcherTypeOK
  /\ writeStep["api"] # "idle" => target["api"] \subseteq copy["api"]
  /\ ~raced => OneChanges /\ Carried /\ LossNeedsRace

LEMMA WatcherInvStarts == WatcherInit => WatcherInv
<1> SUFFICES ASSUME WatcherInit PROVE WatcherInv
  OBVIOUS
<1>1. WatcherTypeOK
  <2>1. {StallTicks, MaxWatcherCrashes} \subseteq Nat
    BY WatcherAssumption
  <2>2. since \in WaitClock /\ crashes \in 0 .. MaxWatcherCrashes
    BY <2>1 DEF WatcherInit, WaitClock
  <2>3. /\ checking \in [WatcherPolls -> SUBSET Messages]
        /\ copy \in [WatcherProcesses -> SUBSET Messages]
        /\ target \in [WatcherProcesses -> SUBSET Messages]
        /\ writeStep \in [WatcherProcesses -> {"idle", "loaded", "truncated"}]
    BY DEF WatcherInit
  <2>4. pending \subseteq Messages
    BY DEF WatcherInit, Known
  <2>5. QED
    BY <2>2, <2>3, <2>4 DEF WatcherInit, WatcherTypeOK
<1>2. QED
  BY <1>1 DEF WatcherInit, WatcherInv, WatcherProcesses, OneChanges, Carried,
     LossNeedsRace, Unsigned, AtRest

\* Loading the file is either the only change under way or a race.
LEMMA ChangingKeepsWatcherInv ==
  ASSUME WatcherInv, NEW p \in WatcherProcesses, p \in alive, NEW m \in Messages,
         NEW kept \in SUBSET Messages,
         pendingFile # TornFile, writeStep[p] = "idle", Changing(p, m, kept),
         p = "api" => m \in kept,
         pendingFile \ {m} \subseteq kept, m \in kept \/ m \in signedMessages,
         UNCHANGED <<durable, alive, crashes, since, alerted, signedMessages, tracked, unstored>>,
         polled' \in BOOLEAN, pending' \subseteq Messages,
         checking' \in [WatcherPolls -> SUBSET Messages]
  PROVE  WatcherInv'
<1>1. WatcherTypeOK'
  BY DEF WatcherInv, WatcherTypeOK, Changing
<1>2. writeStep' = [writeStep EXCEPT ![p] = "loaded"] /\ copy' = [copy EXCEPT ![p] = kept]
      /\ target' = [target EXCEPT ![p] = {m}] /\ pendingFile' = pendingFile
      /\ writeStep \in [WatcherProcesses -> {"idle", "loaded", "truncated"}]
      /\ copy \in [WatcherProcesses -> SUBSET Messages]
      /\ target \in [WatcherProcesses -> SUBSET Messages]
  BY DEF WatcherInv, WatcherTypeOK, Changing
<1>3. writeStep'["api"] # "idle" => target'["api"] \subseteq copy'["api"]
  BY <1>2 DEF WatcherInv, WatcherProcesses
<1>4. ASSUME ~raced' PROVE OneChanges' /\ Carried' /\ LossNeedsRace'
  <2>1. ~raced /\ \A q \in WatcherProcesses \ {p} : writeStep[q] = "idle"
    BY <1>4 DEF Changing
  <2>2. Unsigned \subseteq pendingFile /\ Unsigned' = Unsigned
    BY <2>1 DEF WatcherInv, LossNeedsRace, AtRest, Unsigned
  <2>3. Unsigned \subseteq kept
    BY <2>2 DEF Unsigned
  <2>4. \A q \in WatcherProcesses : writeStep'[q] = IF q = p THEN "loaded" ELSE "idle"
    BY <1>2, <2>1
  <2>5. copy'[p] = kept
    BY <1>2
  <2>6. QED
    BY <1>2, <2>2, <2>3, <2>4, <2>5 DEF OneChanges, Carried, LossNeedsRace, AtRest
<1>5. QED
  BY <1>1, <1>3, <1>4 DEF WatcherInv

LEMMA WatcherInvSteps == WatcherInv /\ [BridgeNext]_bridgeVars => WatcherInv'
<1> SUFFICES ASSUME WatcherInv, [BridgeNext]_bridgeVars PROVE WatcherInv'
  OBVIOUS
<1>1. WatcherTypeOK
  BY DEF WatcherInv
<1>2. StallTicks \in Nat /\ MaxWatcherCrashes \in Nat
  <2>1. {StallTicks, MaxWatcherCrashes} \subseteq Nat
    BY WatcherAssumption
  <2>2. QED
    BY <2>1
<1>3. \A kept \in SUBSET Messages : kept # TornFile
  BY WatcherAssumption
<1>4. CASE UNCHANGED bridgeVars
  BY <1>4 DEF bridgeVars, fileVars, watcherVars, historyVars, WatcherInv, WatcherTypeOK,
     OneChanges, Carried, LossNeedsRace, AtRest, Unsigned
<1>5. ASSUME NEW m \in Messages, Track(m) PROVE WatcherInv'
  <2>1. pendingFile \in SUBSET Messages
    BY <1>1, <1>5 DEF Track, WatcherTypeOK
  <2> DEFINE kept == WithRow(pendingFile, m)
  <2>2. kept \in SUBSET Messages /\ m \in kept /\ pendingFile \ {m} \subseteq kept
    BY <2>1 DEF WithRow
  <2>3. Changing("api", m, kept) /\ "api" \in alive /\ writeStep["api"] = "idle"
        /\ pendingFile # TornFile /\ "api" \in WatcherProcesses
    BY <1>5 DEF Track, WatcherProcesses
  <2>4. /\ UNCHANGED <<durable, alive, crashes, since, alerted, signedMessages, tracked, unstored>>
        /\ polled' \in BOOLEAN /\ pending' \subseteq Messages
        /\ checking' \in [WatcherPolls -> SUBSET Messages]
    BY <1>1, <1>5 DEF Track, WatcherTypeOK, watcherVars
  <2> HIDE DEF kept
  <2>5. QED
    BY <2>2, <2>3, <2>4, ChangingKeepsWatcherInv
<1>6. ASSUME NEW p \in WatcherPolls, NEW m \in Messages, ConfirmBridge(p, m) PROVE WatcherInv'
  <2>1. /\ UNCHANGED <<durable, alive, crashes, since, alerted, signedMessages, tracked, unstored>>
        /\ polled' \in BOOLEAN /\ pending' \subseteq Messages
        /\ checking' \in [WatcherPolls -> SUBSET Messages]
    BY <1>1, <1>6 DEF ConfirmBridge, WatcherTypeOK, Checked, Forget
  <2>2. CASE pendingFile = TornFile
    <3>1. UNCHANGED <<pendingFile, writeStep, copy, target, raced>>
      BY <1>6, <2>2 DEF ConfirmBridge, fileVars
    <3>2. WatcherTypeOK'
      BY <1>1, <2>1, <3>1, <1>6 DEF WatcherTypeOK
    <3>3. QED
      BY <2>1, <3>1, <3>2 DEF WatcherInv, OneChanges, Carried, LossNeedsRace, AtRest,
         Unsigned
  <2>3. CASE pendingFile # TornFile
    <3> DEFINE kept == WithoutRow(pendingFile, m)
    <3>1. kept \in SUBSET Messages /\ pendingFile \ {m} \subseteq kept /\ m \in signedMessages
      BY <1>1, <1>6, <2>3 DEF WatcherTypeOK, WithoutRow, ConfirmBridge
    <3>2. Changing("watcher", m, kept) /\ "watcher" \in alive /\ writeStep["watcher"] = "idle"
          /\ "watcher" \in WatcherProcesses
      BY <1>6, <2>3 DEF ConfirmBridge, Running, WatcherProcesses
    <3> HIDE DEF kept
    <3>3. QED
      BY <2>1, <2>3, <3>1, <3>2, ChangingKeepsWatcherInv
  <2>4. QED
    BY <2>2, <2>3
<1>7. ASSUME NEW p \in WatcherProcesses, Truncate(p) PROVE WatcherInv'
  <2>1. /\ writeStep' = [writeStep EXCEPT ![p] = "truncated"] /\ pendingFile' = TornFile
        /\ writeStep[p] = "loaded"
        /\ UNCHANGED <<copy, target, signedMessages, tracked, unstored, raced>>
    BY <1>7 DEF Truncate, historyVars
  <2>2. WatcherTypeOK'
    BY <1>1, <1>7 DEF WatcherTypeOK, Truncate, watcherVars, historyVars
  <2>3. writeStep \in [WatcherProcesses -> {"idle", "loaded", "truncated"}]
    BY <1>1 DEF WatcherTypeOK
  <2>4. \A q \in WatcherProcesses : writeStep'[q] = IF q = p THEN "truncated" ELSE writeStep[q]
    BY <2>1, <2>3
  <2>5. "api" \in WatcherProcesses
    BY DEF WatcherProcesses
  <2>6. writeStep'["api"] # "idle" => target'["api"] \subseteq copy'["api"]
    BY <2>1, <2>4, <2>5 DEF WatcherInv
  <2>7. ASSUME ~raced' PROVE OneChanges' /\ Carried' /\ LossNeedsRace'
    <3>1. OneChanges /\ Carried
      BY <2>1, <2>7 DEF WatcherInv
    <3>2. \A q \in WatcherProcesses : writeStep[q] # "idle" => q = p
      BY <3>1, <2>1 DEF OneChanges
    <3>3. OneChanges'
      BY <2>4, <3>2 DEF OneChanges
    <3>4. Carried' /\ LossNeedsRace'
      BY <2>1, <2>4, <3>1, <3>2 DEF Carried, LossNeedsRace, AtRest, Unsigned
    <3>5. QED
      BY <3>3, <3>4
  <2>8. QED
    BY <2>2, <2>6, <2>7 DEF WatcherInv
<1>8. ASSUME NEW p \in WatcherProcesses, Write(p) PROVE WatcherInv'
  <2>1. /\ writeStep' = [writeStep EXCEPT ![p] = "idle"] /\ pendingFile' = copy[p]
        /\ writeStep[p] = "truncated"
        /\ tracked' = IF p = "api" THEN tracked \cup target[p] ELSE tracked
        /\ UNCHANGED <<copy, target, signedMessages, unstored, raced>>
    BY <1>8 DEF Write
  <2>2. WatcherTypeOK'
    BY <1>1, <1>8 DEF WatcherTypeOK, Write, watcherVars
  <2>3. writeStep \in [WatcherProcesses -> {"idle", "loaded", "truncated"}]
        /\ copy \in [WatcherProcesses -> SUBSET Messages]
    BY <1>1 DEF WatcherTypeOK
  <2>4. \A q \in WatcherProcesses : writeStep'[q] = IF q = p THEN "idle" ELSE writeStep[q]
    BY <2>1, <2>3
  <2>5. "api" \in WatcherProcesses
    BY DEF WatcherProcesses
  <2>6. writeStep'["api"] # "idle" => target'["api"] \subseteq copy'["api"]
    BY <2>1, <2>4, <2>5 DEF WatcherInv
  <2>7. ASSUME ~raced' PROVE OneChanges' /\ Carried' /\ LossNeedsRace'
    <3>1. OneChanges /\ Carried
      BY <2>1, <2>7 DEF WatcherInv
    <3>2. \A q \in WatcherProcesses : writeStep'[q] = "idle"
      BY <2>1, <2>4, <3>1 DEF OneChanges
    <3>3. Unsigned \subseteq copy[p]
      BY <2>1, <3>1 DEF Carried
    <3>4. p = "api" => target[p] \subseteq copy[p]
      BY <2>1 DEF WatcherInv
    <3>5. Unsigned' \subseteq pendingFile'
      BY <2>1, <3>3, <3>4 DEF Unsigned
    <3>6. QED
      BY <3>2, <3>5 DEF OneChanges, Carried, LossNeedsRace, Unsigned
  <2>8. QED
    BY <2>2, <2>6, <2>7 DEF WatcherInv
<1>9. ASSUME NEW p \in WatcherPolls, Poll(p) PROVE WatcherInv'
  <2>1. UNCHANGED <<durable, pendingFile, copy, target, signedMessages, tracked, unstored, raced>>
        /\ alerted' = alerted \cup Stalled
    BY <1>9 DEF Poll, historyVars
  <2>2. writeStep' = writeStep
    BY <1>1, <1>9 DEF Poll, StopProcess, Running, WatcherTypeOK, WatcherProcesses
  <2>3. WatcherTypeOK'
    <3>1. alerted' \subseteq Messages
      BY <1>1, <2>1 DEF WatcherTypeOK, Stalled
    <3>2. checking' \in [WatcherPolls -> SUBSET Messages]
      BY <1>1, <1>9 DEF Poll, StopProcess, WatcherTypeOK, Known
    <3>3. alive' \subseteq WatcherProcesses
          /\ \A q \in WatcherProcesses : writeStep'[q] # "idle" => q \in alive'
      BY <1>1, <1>9, <2>2 DEF Poll, StopProcess, WatcherTypeOK, Running
    <3>4. QED
      BY <1>1, <1>9, <2>1, <2>2, <3>1, <3>2, <3>3 DEF Poll, WatcherTypeOK
  <2>4. QED
    BY <2>1, <2>2, <2>3 DEF WatcherInv, OneChanges, Carried, LossNeedsRace, AtRest, Unsigned
<1>10. ASSUME NEW p \in WatcherProcesses, CrashProcess(p) PROVE WatcherInv'
  <2>1. UNCHANGED <<pendingFile, copy, target, signedMessages, tracked, unstored, raced>>
        /\ writeStep' = [writeStep EXCEPT ![p] = "idle"]
    BY <1>10 DEF CrashProcess, StopProcess, historyVars
  <2>2. writeStep \in [WatcherProcesses -> {"idle", "loaded", "truncated"}]
    BY <1>1 DEF WatcherTypeOK
  <2>3. \A q \in WatcherProcesses : writeStep'[q] = IF q = p THEN "idle" ELSE writeStep[q]
    BY <2>1, <2>2
  <2>4. WatcherTypeOK'
    <3>1. crashes' \in 0 .. MaxWatcherCrashes
      BY <1>1, <1>2, <1>10 DEF CrashProcess, WatcherTypeOK
    <3>2. /\ alive' \subseteq WatcherProcesses
          /\ \A q \in WatcherProcesses : writeStep'[q] # "idle" => q \in alive'
          /\ checking' \in [WatcherPolls -> SUBSET Messages]
      BY <1>1, <1>10, <2>3 DEF CrashProcess, StopProcess, WatcherTypeOK
    <3>3. QED
      BY <1>1, <1>10, <2>1, <3>1, <3>2 DEF CrashProcess, WatcherTypeOK, historyVars
  <2>5. "api" \in WatcherProcesses
    BY DEF WatcherProcesses
  <2>6. writeStep'["api"] # "idle" => target'["api"] \subseteq copy'["api"]
    BY <2>1, <2>3, <2>5 DEF WatcherInv
  <2>7. ASSUME ~raced' PROVE OneChanges' /\ Carried' /\ LossNeedsRace'
    <3>1. OneChanges /\ Carried /\ LossNeedsRace
      BY <2>1, <2>7 DEF WatcherInv
    <3>2. OneChanges' /\ Carried'
      BY <2>1, <2>3, <3>1 DEF OneChanges, Carried, Unsigned
    <3>3. LossNeedsRace'
      BY <2>1, <2>3, <2>7, <2>2, <3>1 DEF OneChanges, Carried, LossNeedsRace, AtRest, Unsigned
    <3>4. QED
      BY <3>2, <3>3
  <2>8. QED
    BY <2>4, <2>6, <2>7 DEF WatcherInv
<1>11. ASSUME NEW m \in Messages, SignMessage(m) PROVE WatcherInv'
  <2>1. WatcherTypeOK'
    BY <1>1, <1>11 DEF SignMessage, WatcherTypeOK, fileVars, watcherVars, historyVars
  <2>2. Unsigned' \subseteq Unsigned
    BY <1>11 DEF SignMessage, Unsigned, historyVars
  <2>3. UNCHANGED <<pendingFile, writeStep, copy, target, raced>>
    BY <1>11 DEF SignMessage, fileVars, historyVars
  <2>4. QED
    BY <2>1, <2>2, <2>3 DEF WatcherInv, OneChanges, Carried, LossNeedsRace, AtRest, Unsigned
<1>12. ASSUME NEW p \in WatcherPolls, NEW m \in Messages, NotConfirmed(p, m) PROVE WatcherInv'
  <2>1. WatcherTypeOK'
    BY <1>1, <1>12 DEF NotConfirmed, Checked, WatcherTypeOK, fileVars, historyVars
  <2>2. QED
    BY <1>12, <2>1 DEF NotConfirmed, fileVars, historyVars, WatcherInv, OneChanges,
       Carried, LossNeedsRace, AtRest, Unsigned
<1>13. CASE WatcherTick
  <2>1. since' \in WaitClock
    BY <1>1, <1>2, <1>13 DEF WatcherTick, TickLater, WaitClock, WatcherTypeOK
  <2>2. WatcherTypeOK'
    BY <1>1, <1>13, <2>1 DEF WatcherTick, WatcherTypeOK, fileVars, historyVars
  <2>3. QED
    BY <1>13, <2>2 DEF WatcherTick, fileVars, historyVars, WatcherInv, OneChanges,
       Carried, LossNeedsRace, AtRest, Unsigned
<1>14. CASE RestartApi
  <2>1. WatcherTypeOK'
    BY <1>1, <1>14 DEF RestartApi, WatcherTypeOK, fileVars, watcherVars, historyVars, WatcherProcesses
  <2>2. QED
    BY <1>14, <2>1 DEF RestartApi, fileVars, historyVars, WatcherInv, OneChanges,
       Carried, LossNeedsRace, AtRest, Unsigned
<1>15. CASE RestartWatcher
  <2>1. WatcherTypeOK'
    <3>1. since' \in WaitClock /\ pending' \subseteq Messages /\ alerted' \subseteq Messages
      BY <1>1, <1>2, <1>15 DEF RestartWatcher, Known, WatcherTypeOK, WaitClock
    <3>2. alive' \subseteq WatcherProcesses
          /\ \A q \in WatcherProcesses : writeStep'[q] # "idle" => q \in alive'
      BY <1>1, <1>15 DEF RestartWatcher, WatcherTypeOK, fileVars, WatcherProcesses
    <3>3. QED
      BY <1>1, <1>15, <3>1, <3>2 DEF RestartWatcher, WatcherTypeOK, fileVars, historyVars
  <2>2. QED
    BY <1>15, <2>1 DEF RestartWatcher, fileVars, historyVars, WatcherInv, OneChanges,
       Carried, LossNeedsRace, AtRest, Unsigned
<1>16. ASSUME NEW m \in Messages, TrackNothing(m) PROVE WatcherInv'
  <2>1. WatcherTypeOK'
    BY <1>1, <1>16 DEF TrackNothing, WatcherTypeOK, fileVars, watcherVars
  <2>2. Unsigned' \subseteq Unsigned
    BY <1>16 DEF TrackNothing, Unsigned
  <2>3. UNCHANGED <<pendingFile, writeStep, copy, target, raced>>
    BY <1>16 DEF TrackNothing, fileVars
  <2>4. QED
    BY <2>1, <2>2, <2>3 DEF WatcherInv, OneChanges, Carried, LossNeedsRace, AtRest, Unsigned
<1>17. QED
  BY <1>4, <1>5, <1>6, <1>7, <1>8, <1>9, <1>10, <1>11, <1>12, <1>13, <1>14, <1>15, <1>16 DEF BridgeNext

\* Whatever requests, polls, crashes and restarts come in whatever order, a
\* message answered with tracked: true stays in the file until it is signed,
\* unless the API had no directory to store it in, the two processes changed
\* the file at once or a crash tore it (BridgeStateStore, trackBridgeMessage).
THEOREM TrackedIsNotLost == BridgeSafetySpec => []WatcherSafe
<1>1. WatcherInv => WatcherSafe
  BY DEF WatcherInv, WatcherSafe, OneChanges, Carried, LossNeedsRace, AtRest
<1>2. QED
  BY <1>1, WatcherInvStarts, WatcherInvSteps, PTL DEF BridgeSafetySpec


-----------------------------------------------------------------------------
(* The audit trail and its streams.  A torn line without a line end is not *)
(* an acknowledged row, so the row written on it is the one the tear may   *)
(* still cost; a file that has become unreadable stays so, and as long as  *)
(* it can be read it only grows behind what a stream was sent.             *)

Streams == [open : BOOLEAN, lastIndex : 0 .. MaxRows, sent : Seq(Rows)]

\* The acknowledged rows that are not in the file, and the one a tail
\* without a line end is going to cost.
Missing == acked \ ToSet(file)
Owed == IF ended THEN 0 ELSE 1

TailIsOpen ==
  ~ended => store = "disk" /\ Len(file) > 0 /\ file[Len(file)] \notin acked

StreamFits ==
  \A c \in Clients :
    stream[c].open => /\ stream[c].lastIndex = Len(stream[c].sent)
                      /\ Readable("api") => IsPrefix(stream[c].sent, List("api"))

TrailInv ==
  /\ AuditTypeOK
  /\ stream \in [Clients -> Streams]
  /\ Len(file) <= appends /\ \A p \in Processes : Len(records[p]) <= appends
  /\ TailIsOpen
  /\ StreamFits
  /\ store = "disk" => Cardinality(Missing) + Owed <= tears

LEMMA AuditConstants ==
  /\ MaxRows \in Nat /\ MaxTears \in Nat /\ MaxCrashes \in Nat /\ Torn \notin Nat
  /\ Rows \subseteq Nat
<1>1. {MaxRows, MaxTears, MaxCrashes} \subseteq Nat
  BY AuditAssumption
<1>2. QED
  BY <1>1, AuditAssumption DEF Rows

\* A prefix element by element.
LEMMA PrefixByElements ==
  ASSUME NEW S, NEW s \in Seq(S), NEW t \in Seq(S)
  PROVE  IsPrefix(s, t) <=> Len(s) <= Len(t) /\ \A i \in 1 .. Len(s) : s[i] = t[i]
<1>1. CASE Len(s) <= Len(t)
  <2>1. SubSeq(s, 1, Len(s)) \in Seq(S) /\ SubSeq(t, 1, Len(s)) \in Seq(S)
        /\ Len(SubSeq(s, 1, Len(s))) = Len(s) /\ Len(SubSeq(t, 1, Len(s))) = Len(s)
        /\ \A i \in 1 .. Len(s) : SubSeq(s, 1, Len(s))[i] = s[i] /\ SubSeq(t, 1, Len(s))[i] = t[i]
    BY <1>1
  <2> DEFINE a == SubSeq(s, 1, Len(s))
             b == SubSeq(t, 1, Len(s))
  <2>2. a = b <=> \A i \in 1 .. Len(s) : a[i] = b[i]
    BY <2>1, SeqEqual
  <2>3. QED
    BY <1>1, <2>1, <2>2 DEF IsPrefix
<1>2. CASE ~(Len(s) <= Len(t))
  BY <1>2 DEF IsPrefix
<1>3. QED
  BY <1>1, <1>2

\* What is a prefix stays one of a longer sequence.
LEMMA PrefixOfAppend ==
  ASSUME NEW S, NEW s \in Seq(S), NEW t \in Seq(S), NEW e \in S, IsPrefix(s, t)
  PROVE  IsPrefix(s, Append(t, e))
<1>1. Append(t, e) \in Seq(S) /\ Len(Append(t, e)) = Len(t) + 1
      /\ \A i \in 1 .. Len(t) : Append(t, e)[i] = t[i]
  OBVIOUS
<1>2. Len(s) <= Len(t) /\ \A i \in 1 .. Len(s) : s[i] = t[i]
  BY PrefixByElements
<1>3. Len(s) \in Nat /\ Len(t) \in Nat
  OBVIOUS
<1>4. Len(s) <= Len(Append(t, e)) /\ \A i \in 1 .. Len(s) : s[i] = Append(t, e)[i]
  BY <1>1, <1>2, <1>3
<1>5. QED
  BY <1>1, <1>4, PrefixByElements

\* What a stream is sent after its prefix completes the list.
LEMMA RestCompletes ==
  ASSUME NEW S, NEW s \in Seq(S), NEW t \in Seq(S), IsPrefix(s, t)
  PROVE  s \o SubSeq(t, Len(s) + 1, Len(t)) = t
<1>1. Len(s) <= Len(t) /\ \A i \in 1 .. Len(s) : s[i] = t[i]
  BY PrefixByElements
<1>2. Len(s) \in Nat /\ Len(t) \in Nat
  OBVIOUS
<1> DEFINE rest == SubSeq(t, Len(s) + 1, Len(t))
<1>3. rest \in Seq(S) /\ Len(rest) = Len(t) - Len(s)
      /\ \A i \in 1 .. Len(rest) : rest[i] = t[Len(s) + i]
  <2>1. \A i \in Len(s) + 1 .. Len(t) : t[i] \in S
    BY <1>2, ElementOfSeq
  <2>2. rest = [i \in 1 .. Len(t) - Len(s) |-> t[Len(s) + i]]
    BY <1>1, <1>2
  <2>3. \A i \in 1 .. Len(t) - Len(s) : t[Len(s) + i] \in S
    BY <1>1, <1>2, <2>1
  <2>4. QED
    BY <1>1, <1>2, <2>2, <2>3, IsASeq, LenProperties
<1> HIDE DEF rest
<1>4. s \o rest \in Seq(S) /\ Len(s \o rest) = Len(t)
  BY <1>2, <1>3
<1>5. \A i \in 1 .. Len(t) : (s \o rest)[i] = t[i]
  <2>1. \A i \in 1 .. Len(s) + Len(rest) :
          (s \o rest)[i] = IF i <= Len(s) THEN s[i] ELSE rest[i - Len(s)]
    BY <1>3, ConcatProperties
  <2>2. TAKE i \in 1 .. Len(t)
  <2>3. CASE i <= Len(s)
    BY <1>1, <1>2, <1>3, <2>1, <2>3
  <2>4. CASE ~(i <= Len(s))
    <3>1. i - Len(s) \in 1 .. Len(rest) /\ Len(s) + (i - Len(s)) = i
      BY <1>2, <1>3, <2>4
    <3>2. rest[i - Len(s)] = t[i]
      BY <1>3, <3>1
    <3>3. i \in 1 .. Len(s) + Len(rest)
      BY <1>2, <1>3
    <3>4. QED
      BY <2>1, <2>4, <3>2, <3>3
  <2>5. QED
    BY <2>3, <2>4
<1>6. QED
  BY <1>4, <1>5, SeqEqual DEF rest

\* The lines of a file with one more piece of text: an appended line, or the
\* open tail made unreadable.
LEMMA ExtendedFacts ==
  ASSUME TrailInv, store = "disk", NEW piece \in Rows \cup {Torn}
  PROVE  /\ Extended(piece) \in Seq(Rows \cup {Torn})
         /\ Len(Extended(piece)) <= Len(file) + 1 /\ Len(Extended(piece)) > 0
         /\ ended => /\ Extended(piece) = Append(file, piece)
                     /\ Extended(piece)[Len(Extended(piece))] = piece
                     /\ ToSet(Extended(piece)) = ToSet(file) \cup {piece}
         /\ ~ended => /\ Extended(piece)[Len(Extended(piece))] = Torn
                      /\ Torn \in ToSet(Extended(piece))
                      /\ ToSet(file) \ {file[Len(file)]} \subseteq ToSet(Extended(piece))
         /\ Torn \in ToSet(file) => Torn \in ToSet(Extended(piece))
<1>1. file \in Seq(Rows \cup {Torn}) /\ Len(file) \in Nat /\ ended \in BOOLEAN
  BY DEF TrailInv, AuditTypeOK
<1>2. CASE ended
  <2>1. Extended(piece) = Append(file, piece)
    BY <1>2 DEF Extended
  <2>2. Append(file, piece) \in Seq(Rows \cup {Torn}) /\ Len(Append(file, piece)) = Len(file) + 1
        /\ Append(file, piece)[Len(file) + 1] = piece
        /\ \A i \in 1 .. Len(file) : Append(file, piece)[i] = file[i]
    BY <1>1
  <2>3. ToSet(Append(file, piece)) = ToSet(file) \cup {piece}
    <3>1. DOMAIN file = 1 .. Len(file) /\ DOMAIN Append(file, piece) = 1 .. Len(file) + 1
      BY <1>1, <2>2, LenProperties
    <3>2. 1 .. Len(file) + 1 = (1 .. Len(file)) \cup {Len(file) + 1}
      BY <1>1
    <3>3. QED
      BY <2>2, <3>1, <3>2 DEF ToSet
  <2>4. QED
    BY <1>1, <1>2, <2>1, <2>2, <2>3
<1>3. CASE ~ended
  <2>1. Len(file) > 0
    BY <1>3 DEF TrailInv, TailIsOpen
  <2> DEFINE n == Len(file)
             f == [file EXCEPT ![n] = Torn]
  <2>2. Extended(piece) = f /\ n \in 1 .. n
    BY <1>1, <1>3, <2>1 DEF Extended
  <2>3. f \in Seq(Rows \cup {Torn}) /\ Len(f) = n /\ f[n] = Torn
        /\ \A i \in 1 .. n : i # n => f[i] = file[i]
    BY <1>1, <2>2, ExceptSeq
  <2>4. DOMAIN f = 1 .. n /\ DOMAIN file = 1 .. n
    BY <1>1, <2>3, LenProperties
  <2> HIDE DEF f
  <2>5. Torn \in ToSet(f) /\ ToSet(file) \ {file[n]} \subseteq ToSet(f)
    BY <2>2, <2>3, <2>4 DEF ToSet
  <2>6. QED
    BY <1>1, <1>3, <2>1, <2>2, <2>3, <2>5
<1>4. QED
  BY <1>1, <1>2, <1>3

\* Fewer missing rows, or one more, than there were.
LEMMA MissingIsFinite ==
  ASSUME TrailInv
  PROVE  IsFiniteSet(Missing) /\ Cardinality(Missing) \in Nat
<1>1. appends \in Nat /\ acked \subseteq 1 .. appends
  BY AuditConstants DEF TrailInv, AuditTypeOK
<1>2. IsFiniteSet(1 .. appends)
  BY <1>1, FS_Interval
<1>3. QED
  BY <1>1, <1>2, FS_Subset, FS_CardinalityType DEF Missing

LEMMA TrailInvStarts == AuditInit => TrailInv
<1> SUFFICES ASSUME AuditInit PROVE TrailInv
  OBVIOUS
<1>1. Closed \in Streams
  BY AuditConstants DEF Closed, Streams
<1>2. stream \in [Clients -> Streams] /\ \A c \in Clients : stream[c] = Closed
  BY <1>1 DEF AuditInit
<1>3. AuditTypeOK
  <2>1. \A c \in Clients : /\ stream[c].open = FALSE /\ stream[c].lastIndex \in 0 .. MaxRows
                           /\ stream[c].sent \in Seq(Rows)
    BY <1>1, <1>2 DEF Streams, Closed
  <2>2. 0 \in 0 .. MaxRows /\ 0 \in 0 .. MaxTears /\ 0 \in 0 .. MaxCrashes
    BY AuditConstants
  <2>3. <<>> \in Seq(Rows \cup {Torn}) /\ records \in [Processes -> Seq(Rows)]
    BY DEF AuditInit
  <2>4. QED
    BY <2>1, <2>2, <2>3 DEF AuditInit, AuditTypeOK
<1>4. \A p \in Processes : Len(records[p]) = 0
  BY DEF AuditInit
<1>5. Cardinality(Missing) = 0 /\ Owed = 0
  BY FS_EmptySet DEF AuditInit, Missing, Owed
<1>6. QED
  BY <1>2, <1>3, <1>4, <1>5 DEF AuditInit, TrailInv, TailIsOpen, StreamFits, Closed

\* A list that is only appended to, or that cannot be read any more, still
\* starts with what was sent.
LEMMA StreamsFollow ==
  ASSUME TrailInv, stream' = stream,
         Readable("api")' => \/ List("api")' = List("api")
                             \/ \E e \in Rows : List("api")' = Append(List("api"), e),
         Readable("api")' => Readable("api")
  PROVE  StreamFits'
<1> SUFFICES ASSUME NEW c \in Clients, stream[c].open, Readable("api")'
             PROVE  IsPrefix(stream[c].sent, List("api")')
  BY DEF StreamFits, TrailInv
<1>1. IsPrefix(stream[c].sent, List("api"))
  BY DEF TrailInv, StreamFits
<1>2. stream[c].sent \in Seq(Rows \cup {Torn}) /\ List("api") \in Seq(Rows \cup {Torn})
  <2>1. stream[c].sent \in Seq(Rows) /\ records["api"] \in Seq(Rows) /\ file \in Seq(Rows \cup {Torn})
    BY DEF TrailInv, AuditTypeOK, Processes
  <2>2. QED
    BY <2>1, SeqMonotonic DEF List
<1>3. QED
  BY <1>1, <1>2, PrefixOfAppend

LEMMA MemoryIsReadable ==
  ASSUME NEW lines \in Seq(Rows)
  PROVE  Torn \notin ToSet(lines)
BY AuditConstants, ElementOfSeq, LenProperties DEF ToSet

LEMMA AppendKeepsTrailInv ==
  ASSUME TrailInv, NEW p \in Processes, AppendRow(p)
  PROVE  TrailInv'
<1>1. AuditTypeOK /\ stream' = stream /\ stream \in [Clients -> Streams]
  BY DEF TrailInv, AppendRow
<1>2. /\ appends' = appends + 1 /\ appends' \in Rows /\ appends \in Nat /\ appends' \in Nat
      /\ appends' \in 0 .. MaxRows
      /\ acked' = acked \cup {appends'} /\ acked' \subseteq 1 .. appends'
      /\ UNCHANGED <<store, serving, tears, processCrashes>>
  BY <1>1, AuditConstants DEF AppendRow, AuditTypeOK, Rows
<1>3. CASE store = "disk"
  <2>1. file' = Extended(appends') /\ ended' = TRUE /\ records' = records
    BY <1>3 DEF AppendRow, EndOfLine
  <2>2. file' \in Seq(Rows \cup {Torn}) /\ Len(file') <= Len(file) + 1
    BY <1>2, <1>3, <2>1, ExtendedFacts
  <2>3. AuditTypeOK'
    BY <1>1, <1>2, <1>3, <2>1, <2>2 DEF AuditTypeOK
  <2>4. Len(file') <= appends' /\ \A q \in Processes : Len(records'[q]) <= appends'
    <3>1. Len(file') \in Nat /\ Len(file) \in Nat
      BY <1>1, <2>2 DEF AuditTypeOK
    <3>2. Len(file) <= appends /\ \A q \in Processes : Len(records[q]) <= appends /\ Len(records[q]) \in Nat
      BY <1>1 DEF TrailInv, AuditTypeOK
    <3>3. QED
      BY <1>2, <2>1, <2>2, <3>1, <3>2
  <2>5. StreamFits'
    <3>1. List("api") = file /\ List("api")' = file'
      BY <1>2, <1>3 DEF List
    <3>2. Readable("api")' => Readable("api")
      BY <1>2, <1>3, <2>1, <3>1, ExtendedFacts DEF Readable
    <3>3. Readable("api")' => file' = Append(file, appends')
      BY <1>2, <1>3, <2>1, <3>1, ExtendedFacts DEF Readable
    <3>4. QED
      BY <1>1, <1>2, <3>1, <3>2, <3>3, StreamsFollow
  <2>6. Cardinality(Missing)' <= tears
    <3>1. Cardinality(Missing) + Owed <= tears /\ tears \in Nat
      BY <1>3, AuditConstants DEF TrailInv, AuditTypeOK
    <3>2. CASE ended
      <4>1. Missing' \subseteq Missing
        BY <1>2, <1>3, <2>1, <3>2, ExtendedFacts DEF Missing
      <4>2. Cardinality(Missing') <= Cardinality(Missing)
        BY <4>1, MissingIsFinite, FS_Subset
      <4>3. Owed = 0
        BY <3>2 DEF Owed
      <4>4. Cardinality(Missing') \in Nat
        BY <4>1, MissingIsFinite, FS_Subset, FS_CardinalityType
      <4>5. QED
        BY <3>1, <4>2, <4>3, <4>4, MissingIsFinite
    <3>3. CASE ~ended
      <4>1. file[Len(file)] \notin acked
        BY <3>3 DEF TrailInv, TailIsOpen
      <4>2. Missing' \subseteq Missing \cup {appends'}
        BY <1>2, <1>3, <2>1, <3>3, <4>1, ExtendedFacts DEF Missing
      <4>3. IsFiniteSet(Missing \cup {appends'})
            /\ Cardinality(Missing \cup {appends'}) <= Cardinality(Missing) + 1
            /\ Cardinality(Missing \cup {appends'}) \in Nat
        <5>1. IsFiniteSet(Missing) /\ Cardinality(Missing) \in Nat
          BY MissingIsFinite
        <5>2. IsFiniteSet(Missing \cup {appends'})
              /\ Cardinality(Missing \cup {appends'})
                   = IF appends' \in Missing THEN Cardinality(Missing) ELSE Cardinality(Missing) + 1
          BY <5>1, FS_AddElement
        <5>3. QED
          BY <5>1, <5>2
      <4>4. Cardinality(Missing') <= Cardinality(Missing \cup {appends'}) /\ Cardinality(Missing') \in Nat
        BY <4>2, <4>3, FS_Subset, FS_CardinalityType
      <4>5. Owed = 1
        BY <3>3 DEF Owed
      <4>6. QED
        BY <3>1, <4>3, <4>4, <4>5, MissingIsFinite
    <3>4. QED
      BY <1>1, <3>2, <3>3 DEF AuditTypeOK
  <2>7. Owed' = 0 /\ TailIsOpen'
    BY <2>1 DEF Owed, TailIsOpen
  <2>8. Cardinality(Missing)' \in Nat
    <3>1. IsFiniteSet(1 .. appends')
      BY <1>2, FS_Interval
    <3> Missing' \subseteq 1 .. appends'
      BY <1>2 DEF Missing
    <3>2. QED
      BY <3>1, FS_Subset, FS_CardinalityType
  <2>9. QED
    BY <1>1, <1>2, <2>3, <2>4, <2>5, <2>6, <2>7, <2>8 DEF TrailInv
<1>4. CASE store # "disk"
  <2>1. records' = [records EXCEPT ![p] = Append(@, appends')] /\ file' = file /\ ended' = ended
    BY <1>4 DEF AppendRow
  <2>2. records \in [Processes -> Seq(Rows)]
    BY <1>1 DEF AuditTypeOK
  <2>3. \A q \in Processes : records'[q] = IF q = p THEN Append(records[q], appends') ELSE records[q]
    BY <2>1, <2>2
  <2>4. \A q \in Processes : records'[q] \in Seq(Rows) /\ Len(records'[q]) <= Len(records[q]) + 1
                             /\ Len(records[q]) \in Nat /\ Len(records'[q]) \in Nat
    <3>1. \A q \in Processes : records[q] \in Seq(Rows)
      BY <2>2
    <3>2. \A lines \in Seq(Rows) : /\ Append(lines, appends') \in Seq(Rows)
                                  /\ Len(Append(lines, appends')) = Len(lines) + 1
                                  /\ Len(lines) \in Nat
      BY <1>2, AppendProperties
    <3>3. TAKE q \in Processes
    <3>4. records[q] \in Seq(Rows) /\ Len(records[q]) \in Nat
      BY <3>1, <3>2
    <3>5. CASE q = p
      <4>1. records'[q] = Append(records[q], appends')
        BY <2>3, <3>5
      <4>2. Len(records'[q]) = Len(records[q]) + 1 /\ records'[q] \in Seq(Rows)
        BY <3>2, <3>4, <4>1
      <4>3. QED
        BY <3>4, <4>2
    <3>6. CASE q # p
      <4>1. records'[q] = records[q]
        BY <2>3, <3>6
      <4>2. QED
        BY <3>4, <4>1
    <3>7. QED
      BY <3>5, <3>6
  <2>5. records' \in [Processes -> Seq(Rows)]
    BY <2>1, <2>2, <2>4
  <2>6. AuditTypeOK'
    BY <1>1, <1>2, <1>4, <2>1, <2>5 DEF AuditTypeOK
  <2>7. Len(file') <= appends' /\ \A q \in Processes : Len(records'[q]) <= appends'
    <3>1. Len(file) \in Nat
      BY <1>1 DEF AuditTypeOK
    <3>2. Len(file) <= appends /\ \A q \in Processes : Len(records[q]) <= appends
      BY DEF TrailInv
    <3>3. QED
      BY <1>2, <2>1, <2>4, <3>1, <3>2
  <2>8. StreamFits'
    <3>1. List("api") = records["api"] /\ List("api")' = records'["api"] /\ "api" \in Processes
      BY <1>2, <1>4 DEF List, Processes
    <3>2. Readable("api")
      BY <2>2, <3>1, MemoryIsReadable DEF Readable
    <3>3. QED
      BY <1>1, <1>2, <2>3, <3>1, <3>2, StreamsFollow
  <2>9. TailIsOpen'
    BY <1>4, <2>1 DEF TrailInv, TailIsOpen
  <2>10. QED
    BY <1>1, <1>2, <1>4, <2>6, <2>7, <2>8, <2>9 DEF TrailInv
<1>5. QED
  BY <1>3, <1>4

LEMMA TearKeepsTrailInv ==
  ASSUME TrailInv, NEW p \in Processes, NEW piece \in Rows \cup {Torn}, TearRow(p, piece)
  PROVE  TrailInv'
<1>1. AuditTypeOK /\ stream' = stream /\ stream \in [Clients -> Streams] /\ store = "disk"
  BY DEF TrailInv, TearRow
<1>2. /\ appends' = appends + 1 /\ appends' \in Rows /\ appends \in Nat /\ appends' \in Nat
      /\ appends' \in 0 .. MaxRows
      /\ acked' = acked /\ acked \subseteq 1 .. appends /\ acked' \subseteq 1 .. appends'
      /\ tears' = tears + 1 /\ tears' \in 0 .. MaxTears /\ tears \in Nat
      /\ UNCHANGED <<store, serving, records, processCrashes>>
  BY <1>1, AuditConstants DEF TearRow, AuditTypeOK, Rows
<1>3. file' = Extended(piece) /\ ended' = FALSE /\ piece \in {appends', Torn}
  BY DEF TearRow
<1>4. file' \in Seq(Rows \cup {Torn}) /\ Len(file') <= Len(file) + 1 /\ Len(file') > 0
  BY <1>1, <1>3, ExtendedFacts
<1>5. AuditTypeOK'
  BY <1>1, <1>2, <1>3, <1>4 DEF AuditTypeOK
<1>6. Len(file') <= appends' /\ \A q \in Processes : Len(records'[q]) <= appends'
  <2>1. Len(file') \in Nat /\ Len(file) \in Nat
    BY <1>1, <1>4 DEF AuditTypeOK
  <2>2. Len(file) <= appends /\ \A q \in Processes : Len(records[q]) <= appends /\ Len(records[q]) \in Nat
    BY <1>1 DEF TrailInv, AuditTypeOK
  <2>3. QED
    BY <1>2, <1>4, <2>1, <2>2
<1>7. StreamFits'
  <2>1. List("api") = file /\ List("api")' = file'
    BY <1>1, <1>2 DEF List
  <2>2. Readable("api")' => Readable("api")
    BY <1>1, <1>3, <2>1, ExtendedFacts DEF Readable
  <2>3. Readable("api")' => file' = Append(file, piece) /\ piece \in Rows
    <3>1. Readable("api")' => ended /\ Torn \notin ToSet(Extended(piece))
      BY <1>1, <1>3, <2>1, ExtendedFacts DEF Readable, AuditTypeOK
    <3>2. ended => Extended(piece) = Append(file, piece) /\ piece \in ToSet(Extended(piece))
      BY <1>1, ExtendedFacts
    <3>3. QED
      BY <1>3, <3>1, <3>2
  <2>4. QED
    BY <1>1, <2>1, <2>2, <2>3, StreamsFollow
<1>8. TailIsOpen'
  <2>1. Torn \notin acked /\ appends' \notin acked
    <3>1. \A r \in acked : r \in Nat /\ r <= appends
      BY <1>2
    <3>2. Torn \notin acked
      BY <3>1, AuditConstants
    <3>3. ~(appends' <= appends)
      BY <1>2
    <3>4. QED
      BY <3>1, <3>2, <3>3
  <2>2. ended \in BOOLEAN
    BY <1>1 DEF AuditTypeOK
  <2>3. file'[Len(file')] \in {piece, Torn}
    BY <1>1, <1>3, <2>2, ExtendedFacts
  <2>4. QED
    BY <1>1, <1>2, <1>3, <1>4, <2>1, <2>3 DEF TailIsOpen
<1>9. Cardinality(Missing)' + Owed' <= tears'
  <2>1. Cardinality(Missing) + Owed <= tears
    BY <1>1 DEF TrailInv
  <2>2. Missing' \subseteq Missing
    <3>1. ~ended => file[Len(file)] \notin acked
      BY DEF TrailInv, TailIsOpen
    <3>2. QED
      BY <1>1, <1>2, <1>3, <3>1, ExtendedFacts DEF Missing, AuditTypeOK
  <2>3. Cardinality(Missing') <= Cardinality(Missing) /\ Cardinality(Missing') \in Nat
    BY <2>2, MissingIsFinite, FS_Subset, FS_CardinalityType
  <2>4. Owed' = 1 /\ Owed \in {0, 1}
    BY <1>3 DEF Owed
  <2>5. QED
    BY <1>2, <2>1, <2>3, <2>4, MissingIsFinite
<1>10. QED
  BY <1>1, <1>2, <1>5, <1>6, <1>7, <1>8, <1>9 DEF TrailInv

\* A process that ends: the API's streams close, its memory is emptied.
LEMMA DeadKeepsTrailInv ==
  ASSUME TrailInv, NEW p \in Processes, Dead(p),
         UNCHANGED <<store, file, ended, appends, acked, tears>>,
         processCrashes' \in 0 .. MaxCrashes
  PROVE  TrailInv'
<1>1. AuditTypeOK /\ stream \in [Clients -> Streams]
  BY DEF TrailInv
<1>2. records \in [Processes -> Seq(Rows)] /\ records' = [records EXCEPT ![p] = <<>>]
  BY <1>1 DEF AuditTypeOK, Dead
<1>3. records' \in [Processes -> Seq(Rows)]
      /\ \A q \in Processes : records'[q] = IF q = p THEN <<>> ELSE records[q]
  BY <1>2
<1>4. stream' \in [Clients -> Streams]
      /\ \A c \in Clients : stream'[c].open => p # "api" /\ stream'[c] = stream[c] /\ stream[c].open
  BY <1>1 DEF Dead, Streams
<1>5. AuditTypeOK'
  <2>1. \A c \in Clients : /\ stream'[c].open \in BOOLEAN /\ stream'[c].lastIndex \in 0 .. MaxRows
                           /\ stream'[c].sent \in Seq(Rows)
    BY <1>4 DEF Streams
  <2>2. \A c \in Clients : stream'[c].open => "api" \in serving'
    BY <1>1, <1>4 DEF AuditTypeOK, Dead
  <2>3. serving' \subseteq Processes
    BY <1>1 DEF AuditTypeOK, Dead
  <2>4. QED
    BY <1>1, <1>3, <2>1, <2>2, <2>3 DEF AuditTypeOK
<1>6. \A q \in Processes : Len(records'[q]) <= appends'
  <2>1. \A q \in Processes : Len(records[q]) <= appends /\ appends \in Nat
    BY <1>1, AuditConstants DEF TrailInv, AuditTypeOK
  <2>2. QED
    BY <1>3, <2>1
<1>7. StreamFits'
  <2>1. p # "api" => List("api")' = List("api")
    BY <1>3 DEF List, Processes
  <2>2. QED
    BY <1>4, <2>1 DEF TrailInv, StreamFits, Readable
<1>8. QED
  BY <1>4, <1>5, <1>6, <1>7 DEF TrailInv, TailIsOpen, Missing, Owed

\* A stream that shows the whole list, and the others as they were.
LEMMA ShownKeepsTrailInv ==
  ASSUME TrailInv, NEW c \in Clients, "api" \in serving, Readable("api"),
         stream' \in [Clients -> Streams],
         stream'[c].lastIndex = Len(List("api")), stream'[c].sent = List("api"),
         \A d \in Clients : d # c => stream'[d] = stream[d],
         UNCHANGED <<store, file, ended, appends, acked, tears, serving, records, processCrashes>>
  PROVE  TrailInv'
<1>1. AuditTypeOK
  BY DEF TrailInv
<1>2. AuditTypeOK'
  <2>1. \A d \in Clients : /\ stream'[d].open \in BOOLEAN /\ stream'[d].lastIndex \in 0 .. MaxRows
                           /\ stream'[d].sent \in Seq(Rows)
                           /\ stream'[d].open => "api" \in serving'
    BY <1>1 DEF Streams, AuditTypeOK
  <2>2. QED
    BY <1>1, <2>1 DEF AuditTypeOK
<1>3. List("api")' = List("api") /\ Readable("api")'
  BY DEF List, Readable
<1>4. IsPrefix(List("api"), List("api"))
  <2>1. List("api") \in Seq(Rows \cup {Torn})
    <3>1. records["api"] \in Seq(Rows) /\ file \in Seq(Rows \cup {Torn})
      BY <1>1 DEF AuditTypeOK, Processes
    <3>2. QED
      BY <3>1, SeqMonotonic DEF List
  <2>2. QED
    BY <2>1, PrefixByElements
<1>5. StreamFits'
  BY <1>3, <1>4 DEF TrailInv, StreamFits
<1>6. QED
  BY <1>2, <1>5 DEF TrailInv, TailIsOpen, Missing, Owed

\* What the API can read are rows, no more than there were appends.
LEMMA ReadableRows ==
  ASSUME TrailInv, Readable("api")
  PROVE  List("api") \in Seq(Rows) /\ Len(List("api")) \in 0 .. MaxRows
<1>1. /\ records["api"] \in Seq(Rows) /\ Len(records["api"]) <= appends
      /\ file \in Seq(Rows \cup {Torn}) /\ Len(file) <= appends
      /\ appends \in Nat /\ appends <= MaxRows
  BY AuditConstants DEF TrailInv, AuditTypeOK, Processes
<1>2. Len(List("api")) \in 0 .. MaxRows
  BY <1>1, AuditConstants DEF List
<1>3. CASE store = "disk"
  <2>1. List("api") = file /\ Torn \notin ToSet(file)
    BY <1>3 DEF List, Readable
  <2>2. \A i \in 1 .. Len(file) : file[i] \in Rows
    BY <1>1, <2>1, ElementOfSeq, LenProperties DEF ToSet
  <2>3. file \in Seq(Rows)
    <3>1. file = [i \in 1 .. Len(file) |-> file[i]] /\ Len(file) \in Nat
      BY <1>1, LenProperties
    <3>2. QED
      BY <2>2, <3>1, IsASeq
  <2>4. QED
    BY <1>2, <2>1, <2>3
<1>4. CASE store # "disk"
  BY <1>1, <1>2, <1>4 DEF List
<1>5. QED
  BY <1>3, <1>4

LEMMA TrailInvSteps == TrailInv /\ [AuditNext]_auditVars => TrailInv'
<1> SUFFICES ASSUME TrailInv, [AuditNext]_auditVars PROVE TrailInv'
  OBVIOUS
<1>1. AuditTypeOK /\ stream \in [Clients -> Streams]
  BY DEF TrailInv
<1>2. processCrashes \in 0 .. MaxCrashes /\ "api" \in Processes
  BY <1>1 DEF AuditTypeOK, Processes
<1>3. CASE UNCHANGED auditVars
  BY <1>3 DEF auditVars, trailVars, TrailInv, AuditTypeOK, TailIsOpen, StreamFits, Missing, Owed,
     Readable, List
<1>4. ASSUME NEW p \in Processes, AppendRow(p) PROVE TrailInv'
  BY <1>4, AppendKeepsTrailInv
<1>5. ASSUME NEW p \in Processes, NEW piece \in Rows \cup {Torn}, TearRow(p, piece) PROVE TrailInv'
  BY <1>5, TearKeepsTrailInv
<1>6. ASSUME NEW p \in Processes, Crash(p) PROVE TrailInv'
  <2>1. processCrashes' \in 0 .. MaxCrashes
    BY <1>2, <1>6, AuditConstants DEF Crash
  <2>2. QED
    BY <1>6, <2>1, DeadKeepsTrailInv DEF Crash
<1>7. ASSUME NEW p \in Processes, RestartProcess(p) PROVE TrailInv'
  <2>1. UNCHANGED <<store, file, ended, records, appends, acked, tears, stream, processCrashes>>
        /\ serving' = serving \cup {p}
    BY <1>7 DEF RestartProcess, trailVars
  <2>2. AuditTypeOK'
    BY <1>1, <2>1 DEF AuditTypeOK
  <2>3. QED
    BY <2>1, <2>2 DEF TrailInv, TailIsOpen, StreamFits, Missing, Owed, Readable, List
<1>8. ASSUME NEW c \in Clients, Connect(c) PROVE TrailInv'
  <2>1. UNCHANGED <<store, file, ended, appends, acked, tears, processCrashes>> /\ "api" \in serving
    BY <1>8 DEF Connect
  <2>2. CASE Readable("api")
    <3>1. UNCHANGED <<serving, records>>
          /\ stream' = [stream EXCEPT ![c] = [open |-> TRUE, lastIndex |-> Len(List("api")),
                                              sent |-> List("api")]]
      BY <1>8, <2>2 DEF Connect, First
    <3> DEFINE shown == [open |-> TRUE, lastIndex |-> Len(List("api")), sent |-> List("api")]
    <3>2. shown \in Streams
      BY <2>2, ReadableRows DEF Streams
    <3>3. stream' \in [Clients -> Streams] /\ stream'[c] = shown
          /\ \A d \in Clients : d # c => stream'[d] = stream[d]
      BY <1>1, <3>1, <3>2
    <3>4. QED
      BY <2>1, <2>2, <3>1, <3>3, ShownKeepsTrailInv
  <2>3. CASE ~Readable("api")
    BY <1>2, <1>8, <2>1, <2>3, DeadKeepsTrailInv DEF Connect
  <2>4. QED
    BY <2>2, <2>3
<1>9. ASSUME NEW c \in Clients, PushNew(c) PROVE TrailInv'
  <2>1. UNCHANGED <<store, file, ended, appends, acked, tears, processCrashes>> /\ stream[c].open
    BY <1>9 DEF PushNew
  <2>2. CASE Readable("api")
    <3>1. UNCHANGED <<serving, records>>
          /\ stream' = [stream EXCEPT ![c].lastIndex = Len(List("api")),
                                      ![c].sent = @ \o NewFrom(c)]
      BY <1>9, <2>2 DEF PushNew
    <3>2. List("api") \in Seq(Rows) /\ Len(List("api")) \in 0 .. MaxRows
      BY <2>2, ReadableRows
    <3>3. stream[c].sent \in Seq(Rows) /\ stream[c].lastIndex = Len(stream[c].sent)
          /\ IsPrefix(stream[c].sent, List("api"))
      BY <1>1, <2>1, <2>2 DEF TrailInv, StreamFits, Streams
    <3>4. stream[c].sent \o NewFrom(c) = List("api")
      BY <3>2, <3>3, RestCompletes DEF NewFrom
    <3>5. stream[c] \in Streams
      BY <1>1
    <3>6. stream'[c] = [stream[c] EXCEPT !.lastIndex = Len(List("api")), !.sent = List("api")]
          /\ \A d \in Clients : d # c => stream'[d] = stream[d]
      BY <1>1, <3>1, <3>4, <3>5 DEF Streams
    <3>7. stream'[c] \in Streams /\ stream'[c].lastIndex = Len(List("api"))
          /\ stream'[c].sent = List("api")
      BY <3>2, <3>5, <3>6 DEF Streams
    <3>8. stream' \in [Clients -> Streams]
      <4>1. DOMAIN stream' = Clients /\ stream' = [d \in Clients |-> stream'[d]]
        BY <1>1, <3>1
      <4>2. \A d \in Clients : stream'[d] \in Streams
        BY <1>1, <3>6, <3>7
      <4>3. QED
        BY <4>1, <4>2
    <3>9. "api" \in serving
      BY <1>1, <2>1 DEF AuditTypeOK
    <3>10. QED
      BY <2>1, <2>2, <3>1, <3>6, <3>7, <3>8, <3>9, ShownKeepsTrailInv
  <2>3. CASE ~Readable("api")
    BY <1>2, <1>9, <2>1, <2>3, DeadKeepsTrailInv DEF PushNew
  <2>4. QED
    BY <2>2, <2>3
<1>10. ASSUME NEW c \in Clients, Disconnect(c) PROVE TrailInv'
  <2>1. UNCHANGED <<store, file, ended, records, appends, acked, tears, serving, processCrashes>>
        /\ stream' = [stream EXCEPT ![c].open = FALSE]
    BY <1>10 DEF Disconnect, trailVars
  <2>2. stream' \in [Clients -> Streams]
        /\ \A d \in Clients : stream'[d].open => stream'[d] = stream[d] /\ stream[d].open
    BY <1>1, <2>1 DEF Streams
  <2>3. AuditTypeOK'
    <3>1. \A d \in Clients : /\ stream'[d].open \in BOOLEAN /\ stream'[d].lastIndex \in 0 .. MaxRows
                             /\ stream'[d].sent \in Seq(Rows)
      BY <2>2 DEF Streams
    <3>2. QED
      BY <1>1, <2>1, <2>2, <3>1 DEF AuditTypeOK
  <2>4. QED
    BY <2>1, <2>2, <2>3 DEF TrailInv, TailIsOpen, StreamFits, Missing, Owed, Readable, List
<1>11. QED
  BY <1>3, <1>4, <1>5, <1>6, <1>7, <1>8, <1>9, <1>10 DEF AuditNext

\* Whatever is appended, torn, crashed and connected in whatever order, an open
\* stream was sent the head of a trail that can be read, and of the rows whose
\* append returned the file lacks no more than there were torn appends
\* (diskAuditStore.append, the stream of settlementBackendServer).
THEOREM TrailIsStreamed == AuditSpec => []AuditSafe
<1>1. TrailInv => AuditSafe
  <2> SUFFICES ASSUME TrailInv PROVE AuditSafe
    OBVIOUS
  <2>1. StreamIsHead
    BY DEF TrailInv, StreamFits, StreamIsHead
  <2>2. TearCostsOneRow
    <3>1. Owed \in {0, 1} /\ tears \in Nat
      BY AuditConstants DEF Owed, TrailInv, AuditTypeOK
    <3>2. QED
      BY <3>1, MissingIsFinite DEF TrailInv, TearCostsOneRow, Missing
  <2>3. QED
    BY <2>1, <2>2 DEF TrailInv, AuditSafe
<1>2. QED
  BY <1>1, TrailInvStarts, TrailInvSteps, PTL DEF AuditSpec


-----------------------------------------------------------------------------
(* The audit page of the dashboard.  A fetch of the trail that is not      *)
(* older than the user's last success has counted its row once it is       *)
(* answered; data that is fresh has the row, so that coming to the page    *)
(* without a fetch shows it, and on the page data without the row is being *)
(* fetched.                                                                *)

QueryNames == {"pipeline-status", "gates", "audit", "status-health", "status-gates", "status-audit"}
Retried == [Started EXCEPT !.again = TRUE]
FetchStates == [at : Nat, again : BOOLEAN, thrown : BOOLEAN, got : Shown]

CacheTypes ==
  /\ fetches \in [Queries -> FetchStates]
  /\ data \in [Queries -> Shown \cup {NoData}]
  /\ failed \in [Queries -> BOOLEAN]
  /\ fresh \in [Queries -> BOOLEAN]

\* The trail's query is at rest with data it believes in.
TrailAtRest == ~Fetching("audit") /\ ~failed["audit"] /\ ~older
RowShown == data["audit"] # NoData /\ data["audit"].count >= due

TrailIsCurrent ==
  "audit" \in Queries =>
    /\ fetches["audit"].at = 2 /\ ~older => fetches["audit"].got.count >= due
    /\ TrailAtRest /\ (fresh["audit"] \/ page = "audit") => RowShown

DashInv == DashboardTypeOK /\ CacheTypes /\ TrailIsCurrent

LEMMA DashboardConstants ==
  /\ MaxAuditRows \in Nat /\ Queries \subseteq QueryNames
  /\ \A p \in Pages : Mounted(p) \subseteq Queries
  /\ "audit" \in Pages => "audit" \in Queries /\ Mounted("audit") = {"audit"}
<1>1. \A p : Mounted(p) \subseteq QueryNames
  BY DEF Mounted, QueryNames
<1>2. Mounted("audit") = {"audit"}
  BY DEF Mounted
<1>3. QED
  BY <1>1, <1>2, DashboardAssumption DEF Queries

LEMMA RouteFacts ==
  ASSUME NEW q
  PROVE  /\ Len(RoutesOf(q)) \in 1 .. 3
         /\ \A i \in 1 .. Len(RoutesOf(q)) : RoutesOf(q)[i] \in {"health", "gates", "audit"}
         /\ q = "audit" => RoutesOf(q) = <<"audit">> /\ Len(RoutesOf(q)) = 1
         /\ q = "pipeline-status" \/ q = "status-health" \/ q \in {"gates", "status-gates"}
              \/ RoutesOf(q) = <<"audit">>
<1>1. CASE q = "pipeline-status"
  BY <1>1 DEF RoutesOf
<1>2. CASE q = "status-health"
  BY <1>2 DEF RoutesOf
<1>3. CASE q \in {"gates", "status-gates"}
  BY <1>3 DEF RoutesOf
<1>4. CASE q # "pipeline-status" /\ q # "status-health" /\ q \notin {"gates", "status-gates"}
  <2>1. RoutesOf(q) = <<"audit">>
    BY <1>4 DEF RoutesOf
  <2>2. QED
    BY <2>1
<1>5. QED
  BY <1>1, <1>2, <1>3, <1>4

LEMMA FetchTypes ==
  /\ Blank \in Shown /\ NoFetch \in FetchStates /\ Started \in FetchStates
  /\ NoFetch.at = 0 /\ Started.at = 1 /\ NoFetch.got = Blank /\ Started.got = Blank
  /\ Retried \in FetchStates /\ Retried.at = 1 /\ Retried.got = Blank
<1>1. Blank \in Shown
  BY DashboardConstants DEF Blank, Shown
<1>2. QED
  BY <1>1 DEF NoFetch, Started, Retried, FetchStates

\* The answered route is added to what a fetch got.
LEMMA GotFacts ==
  ASSUME NEW got \in Shown, NEW route \in {"health", "gates", "audit"}, auditRows \in 0 .. MaxAuditRows
  PROVE  Got(got, route) \in Shown /\ (route = "audit" => Got(got, route).count = auditRows)
<1>1. CASE route = "health"
  BY <1>1 DEF Got, Shown
<1>2. CASE route = "gates"
  BY <1>2 DEF Got, Shown
<1>3. CASE route = "audit"
  BY <1>3 DEF Got, Shown
<1>4. QED
  BY <1>1, <1>2, <1>3

LEMMA DashInvStarts == DashboardInit => DashInv
<1> SUFFICES ASSUME DashboardInit PROVE DashInv
  OBVIOUS
<1>1. CacheTypes
  BY FetchTypes DEF DashboardInit, CacheTypes
<1>2. \A q \in Queries : fetches[q] = IF q \in Mounted(page) THEN Started ELSE NoFetch
  BY DEF DashboardInit
<1>3. DashboardTypeOK
  <2>1. \A q \in Queries : fetches[q].at \in {0, 1} /\ fetches[q].got \in Shown
    BY <1>2, FetchTypes
  <2>2. \A q \in Queries : fetches[q].at \in 0 .. Len(RoutesOf(q)) + 1
    BY <2>1, RouteFacts
  <2>3. auditRows = 0 /\ due = 0 /\ 0 \in 0 .. MaxAuditRows /\ 0 \in 0 .. 0
    BY DashboardConstants DEF DashboardInit
  <2>4. QED
    BY <1>1, <2>1, <2>2, <2>3 DEF DashboardInit, DashboardTypeOK, CacheTypes
<1>4. TrailIsCurrent
  <2> SUFFICES ASSUME "audit" \in Queries
               PROVE  /\ fetches["audit"].at # 2 /\ fresh["audit"] = FALSE
                      /\ page = "audit" => fetches["audit"].at = 1
    BY DEF TrailIsCurrent, TrailAtRest, Fetching
  <2>1. QED
    BY <1>2, FetchTypes, DashboardConstants DEF DashboardInit
<1>5. QED
  BY <1>1, <1>3, <1>4 DEF DashInv

\* Fetches that are started, also when the user comes to a page.
LEMMA StartingKeepsDashInv ==
  ASSUME DashInv, NEW qs \in SUBSET Queries, StartAll(qs), page' \in Pages,
         UNCHANGED <<reachable, ready, auditRows, mutation, due>>,
         page' = "audit" /\ page # "audit" /\ ~fresh["audit"] => "audit" \in qs
  PROVE  DashInv'
<1>1. DashboardTypeOK /\ CacheTypes /\ TrailIsCurrent
  BY DEF DashInv
<1>2. /\ fetches' = [q \in Queries |-> IF q \in qs /\ ~Fetching(q) THEN Started ELSE fetches[q]]
      /\ older' = (older /\ ~("audit" \in qs /\ ~Fetching("audit")))
      /\ UNCHANGED <<data, failed, fresh>>
  BY DEF StartAll
<1>3. CacheTypes'
  BY <1>1, <1>2, FetchTypes DEF CacheTypes
<1>4. \A q \in Queries : \/ fetches'[q] = fetches[q] /\ ~(q \in qs /\ ~Fetching(q))
                         \/ fetches'[q] = Started /\ q \in qs /\ ~Fetching(q)
  BY <1>2
<1>5. DashboardTypeOK'
  <2>1. \A q \in Queries : fetches'[q].at \in 0 .. Len(RoutesOf(q)) + 1 /\ fetches'[q].got \in Shown
    <3>1. TAKE q \in Queries
    <3>2. fetches[q].at \in 0 .. Len(RoutesOf(q)) + 1 /\ fetches[q].got \in Shown
      BY <1>1 DEF DashboardTypeOK
    <3>3. 1 \in 0 .. Len(RoutesOf(q)) + 1
      BY RouteFacts
    <3>4. QED
      BY <1>4, <3>2, <3>3, FetchTypes
  <2>2. older' \in BOOLEAN
    BY <1>2
  <2>3. QED
    BY <1>1, <1>2, <2>1, <2>2 DEF DashboardTypeOK
<1>6. ASSUME "audit" \in Queries
      PROVE  /\ fetches'["audit"].at = 2 /\ ~older' => fetches'["audit"].got.count >= due'
             /\ fetches'["audit"].at = 0 /\ ~failed'["audit"] /\ ~older'
                  /\ (fresh'["audit"] \/ page' = "audit")
                  => data'["audit"] # NoData /\ data'["audit"].count >= due'
  <2>1. CASE fetches'["audit"] = Started
    BY <2>1, FetchTypes
  <2>2. CASE fetches'["audit"] = fetches["audit"] /\ ~("audit" \in qs /\ ~Fetching("audit"))
    <3>1. older' = older /\ due' = due /\ UNCHANGED <<data, failed, fresh>>
      BY <1>1, <1>2, <2>2 DEF DashboardTypeOK
    <3>2. fetches["audit"].at = 0 => ~Fetching("audit") /\ "audit" \notin qs
      BY <2>2 DEF Fetching
    <3>3. /\ fetches["audit"].at = 2 /\ ~older => fetches["audit"].got.count >= due
          /\ ~Fetching("audit") /\ ~failed["audit"] /\ ~older /\ (fresh["audit"] \/ page = "audit")
               => data["audit"] # NoData /\ data["audit"].count >= due
      BY <1>1, <1>6 DEF TrailIsCurrent, TrailAtRest, RowShown
    <3>4. QED
      BY <2>2, <3>1, <3>2, <3>3
  <2>3. QED
    BY <1>4, <1>6, <2>1, <2>2
<1>7. TrailIsCurrent'
  BY <1>6 DEF TrailIsCurrent, TrailAtRest, RowShown, Fetching
<1>8. QED
  BY <1>3, <1>5, <1>7 DEF DashInv

\* The API's rows only grow in number, and nothing of a query changes.
LEMMA RowsKeepDashInv ==
  ASSUME DashInv, UNCHANGED <<page, fetches, data, failed, fresh, older, due>>,
         auditRows' \in 0 .. MaxAuditRows, auditRows <= auditRows',
         reachable' \in BOOLEAN, ready' \in BOOLEAN,
         mutation' \in [{"process", "dry-run"} -> {"idle", "sent", "applied", "refused"}]
  PROVE  DashInv'
<1>1. DashboardTypeOK /\ CacheTypes /\ TrailIsCurrent
  BY DEF DashInv
<1>2. due' \in 0 .. auditRows'
  BY <1>1, DashboardConstants DEF DashboardTypeOK
<1>3. DashboardTypeOK'
  BY <1>1, <1>2 DEF DashboardTypeOK
<1>4. CacheTypes' /\ TrailIsCurrent'
  BY <1>1 DEF CacheTypes, TrailIsCurrent, TrailAtRest, RowShown, Fetching
<1>5. QED
  BY <1>3, <1>4 DEF DashInv

LEMMA ServeKeepsDashInv ==
  ASSUME DashInv, NEW q \in Queries, Serve(q)
  PROVE  DashInv'
<1>1. DashboardTypeOK /\ CacheTypes /\ TrailIsCurrent
  BY DEF DashInv
<1>2. UNCHANGED <<reachable, ready, auditRows, page, data, failed, fresh, older, mutation, due>>
  BY DEF Serve, apiState
<1>3. /\ fetches[q] \in FetchStates /\ fetches[q].at # 0 /\ fetches[q].at <= Len(RoutesOf(q))
      /\ ~fetches[q].thrown
  <2>1. fetches[q] \in FetchStates
    BY <1>1 DEF CacheTypes
  <2>2. fetches[q].at # 0 /\ ~fetches[q].thrown /\ ~(fetches[q].at > Len(RoutesOf(q)))
    BY DEF Serve, Fetching, FetchAnswered
  <2>3. fetches[q].at \in Nat /\ Len(RoutesOf(q)) \in Nat
    BY <2>1, RouteFacts DEF FetchStates
  <2>4. QED
    BY <2>1, <2>2, <2>3
<1> DEFINE route == RoutesOf(q)[fetches[q].at]
<1>4. fetches[q].at \in 1 .. Len(RoutesOf(q)) /\ route \in {"health", "gates", "audit"}
      /\ Len(RoutesOf(q)) \in Nat
  <2>1. fetches[q].at \in Nat /\ Len(RoutesOf(q)) \in Nat
    BY <1>3, RouteFacts DEF FetchStates
  <2>2. QED
    BY <1>3, <2>1, RouteFacts
<1>5. auditRows \in 0 .. MaxAuditRows /\ reachable \in BOOLEAN /\ due \in 0 .. auditRows
      /\ {reachable, ready} \subseteq BOOLEAN
  BY <1>1 DEF DashboardTypeOK
<1>6. \E f \in FetchStates :
        /\ fetches' = [fetches EXCEPT ![q] = f]
        /\ \/ f.at = fetches[q].at
           \/ f.at = fetches[q].at + 1 /\ (route = "audit" => f.got.count = auditRows)
  <2>1. CASE Throws(route)
    <3> DEFINE f == [fetches[q] EXCEPT !.thrown = TRUE, !.got.met503 = reachable]
    <3>1. fetches' = [fetches EXCEPT ![q] = f]
      BY <1>1, <2>1 DEF Serve, CacheTypes
    <3>2. f \in FetchStates /\ f.at = fetches[q].at
      BY <1>3, <1>5 DEF FetchStates, Shown
    <3>3. QED
      BY <3>1, <3>2
  <2>2. CASE ~Throws(route)
    <3> DEFINE f == [fetches[q] EXCEPT !.at = fetches[q].at + 1, !.got = Got(fetches[q].got, route)]
    <3>1. fetches' = [fetches EXCEPT ![q] = f]
      BY <1>1, <2>2 DEF Serve, CacheTypes
    <3>2. fetches[q].got \in Shown
      BY <1>3 DEF FetchStates
    <3>3. Got(fetches[q].got, route) \in Shown
          /\ (route = "audit" => Got(fetches[q].got, route).count = auditRows)
      BY <1>4, <1>5, <3>2, GotFacts
    <3>4. f \in FetchStates /\ f.at = fetches[q].at + 1 /\ f.got = Got(fetches[q].got, route)
      <4> DEFINE g == Got(fetches[q].got, route)
                 n == fetches[q].at + 1
      <4>1. g \in Shown /\ n \in Nat
        BY <1>3, <3>3 DEF FetchStates
      <4> HIDE DEF g, n
      <4>2. /\ [fetches[q] EXCEPT !.at = n, !.got = g] \in FetchStates
            /\ [fetches[q] EXCEPT !.at = n, !.got = g].at = n
            /\ [fetches[q] EXCEPT !.at = n, !.got = g].got = g
        BY <1>3, <4>1 DEF FetchStates
      <4>3. QED
        BY <4>2 DEF g, n
    <3>5. QED
      BY <3>1, <3>3, <3>4
  <2>3. QED
    BY <2>1, <2>2
<1>7. PICK f \in FetchStates :
        /\ fetches' = [fetches EXCEPT ![q] = f]
        /\ \/ f.at = fetches[q].at
           \/ f.at = fetches[q].at + 1 /\ (route = "audit" => f.got.count = auditRows)
  BY <1>6
<1> HIDE DEF route
<1>8. CacheTypes' /\ fetches'[q] = f /\ \A r \in Queries : r # q => fetches'[r] = fetches[r]
  BY <1>1, <1>2, <1>7 DEF CacheTypes
<1>9. DashboardTypeOK'
  <2>1. f.at \in 0 .. Len(RoutesOf(q)) + 1 /\ f.got \in Shown
    BY <1>4, <1>7 DEF FetchStates
  <2>2. \A r \in Queries : fetches'[r].at \in 0 .. Len(RoutesOf(r)) + 1 /\ fetches'[r].got \in Shown
    BY <1>1, <1>8, <2>1 DEF DashboardTypeOK
  <2>3. QED
    BY <1>1, <1>2, <2>2 DEF DashboardTypeOK
<1>10. ASSUME "audit" \in Queries
       PROVE  /\ fetches'["audit"].at = 2 /\ ~older => fetches'["audit"].got.count >= due
              /\ fetches'["audit"].at = 0 => fetches["audit"].at = 0
  <2>1. CASE q # "audit"
    BY <1>1, <1>8, <1>10, <2>1 DEF TrailIsCurrent
  <2>2. CASE q = "audit"
    <3>1. fetches[q].at = 1 /\ route = "audit"
      BY <1>4, <2>2, RouteFacts DEF route
    <3>2. f.at # 0 /\ (f.at = 2 => f.got.count = auditRows)
      BY <1>7, <3>1
    <3>3. auditRows >= due
      BY <1>5, DashboardConstants
    <3>4. QED
      BY <1>8, <2>2, <3>2, <3>3
  <2>3. QED
    BY <2>1, <2>2
<1>11. TrailIsCurrent'
  BY <1>1, <1>2, <1>10 DEF TrailIsCurrent, TrailAtRest, RowShown, Fetching
<1>12. QED
  BY <1>8, <1>9, <1>11 DEF DashInv

LEMMA ShowKeepsDashInv ==
  ASSUME DashInv, NEW q \in Queries, Show(q)
  PROVE  DashInv'
<1>1. DashboardTypeOK /\ CacheTypes /\ TrailIsCurrent
  BY DEF DashInv
<1>2. UNCHANGED <<reachable, ready, auditRows, page, older, mutation, due>>
  BY DEF Show, apiState
<1>3. fetches[q] \in FetchStates /\ fetches[q].got \in Shown /\ fetches[q].thrown \in BOOLEAN
  BY <1>1 DEF CacheTypes, FetchStates
<1>4. CASE fetches[q].thrown /\ ~Caught(q)
  <2>1. /\ \E f \in {NoFetch, Retried} :
             /\ fetches' = [fetches EXCEPT ![q] = f]
             /\ f = NoFetch => failed' = [failed EXCEPT ![q] = TRUE]
             /\ f # NoFetch => failed' = failed
        /\ UNCHANGED <<data, fresh>>
    <3>1. Retried # NoFetch
      BY FetchTypes
    <3>2. QED
      BY <1>4, <3>1 DEF Show, Retried
  <2>2. PICK f \in {NoFetch, Retried} :
             /\ fetches' = [fetches EXCEPT ![q] = f]
             /\ f = NoFetch => failed' = [failed EXCEPT ![q] = TRUE]
             /\ f # NoFetch => failed' = failed
    BY <2>1
  <2>3. f \in FetchStates /\ f.at \in {0, 1} /\ f.got \in Shown /\ (f.at = 0 => f = NoFetch)
    BY FetchTypes
  <2>4. CacheTypes' /\ fetches'[q] = f /\ \A r \in Queries : r # q => fetches'[r] = fetches[r]
    BY <1>1, <2>1, <2>2, <2>3 DEF CacheTypes
  <2>5. /\ \A r \in Queries : r # q => failed'[r] = failed[r]
        /\ f = NoFetch => failed'[q]
        /\ f # NoFetch => failed'[q] = failed[q]
    BY <1>1, <2>2 DEF CacheTypes
  <2>6. DashboardTypeOK'
    <3>1. f.at \in 0 .. Len(RoutesOf(q)) + 1
      BY <2>3, RouteFacts
    <3>2. \A r \in Queries : fetches'[r].at \in 0 .. Len(RoutesOf(r)) + 1 /\ fetches'[r].got \in Shown
      BY <1>1, <2>3, <2>4, <3>1 DEF DashboardTypeOK
    <3>3. \A r \in Queries : r = "pipeline-status" => ~failed'[r]
      BY <1>1, <1>4, <2>5 DEF DashboardTypeOK, Caught
    <3>4. QED
      BY <1>1, <1>2, <2>1, <3>2, <3>3 DEF DashboardTypeOK
  <2>7. ASSUME "audit" \in Queries
        PROVE  /\ fetches'["audit"].at = 2 => fetches'["audit"] = fetches["audit"]
               /\ fetches'["audit"].at = 0 /\ ~failed'["audit"]
                    => fetches["audit"].at = 0 /\ ~failed["audit"]
    BY <2>3, <2>4, <2>5, <2>7
  <2>8. TrailIsCurrent'
    BY <1>1, <1>2, <2>1, <2>7 DEF TrailIsCurrent, TrailAtRest, RowShown, Fetching
  <2>9. QED
    BY <2>4, <2>6, <2>8 DEF DashInv
<1>5. CASE ~(fetches[q].thrown /\ ~Caught(q))
  <2>1. /\ fetches' = [fetches EXCEPT ![q] = NoFetch]
        /\ data' = [data EXCEPT ![q] = fetches[q].got]
        /\ failed' = [failed EXCEPT ![q] = FALSE]
        /\ fresh' = [fresh EXCEPT ![q] = TRUE]
    BY <1>5 DEF Show
  <2>2. CacheTypes'
    BY <1>1, <1>3, <2>1, FetchTypes DEF CacheTypes
  <2>3. /\ fetches'[q] = NoFetch /\ data'[q] = fetches[q].got /\ failed'[q] = FALSE /\ fresh'[q] = TRUE
        /\ \A r \in Queries : r # q => /\ fetches'[r] = fetches[r] /\ data'[r] = data[r]
                                       /\ failed'[r] = failed[r] /\ fresh'[r] = fresh[r]
    BY <1>1, <2>1 DEF CacheTypes
  <2>4. DashboardTypeOK'
    <3>1. \A r \in Queries :
            /\ fetches'[r].at \in 0 .. Len(RoutesOf(r)) + 1 /\ fetches'[r].got \in Shown
            /\ data'[r] \in Shown \cup {NoData} /\ (fresh'[r] => data'[r] # NoData)
            /\ r = "pipeline-status" => ~failed'[r]
      <4>1. TAKE r \in Queries
      <4>2. CASE r = q
        <5>1. 0 \in 0 .. Len(RoutesOf(r)) + 1
          BY RouteFacts
        <5>2. QED
          BY <1>3, <2>3, <4>2, <5>1, FetchTypes, NoDataAssumption
      <4>3. CASE r # q
        BY <1>1, <2>3, <4>3 DEF DashboardTypeOK
      <4>4. QED
        BY <4>2, <4>3
    <3>2. QED
      BY <1>1, <1>2, <3>1 DEF DashboardTypeOK
  <2>5. ASSUME "audit" \in Queries, q = "audit"
        PROVE  fetches'["audit"].at = 0 /\ (~older => RowShown')
    <3>1. fetches[q].at = 2
      <4>1. ~fetches[q].thrown /\ fetches[q].at > Len(RoutesOf(q)) /\ Len(RoutesOf(q)) = 1
        BY <1>3, <1>5, <2>5, RouteFacts DEF Show, FetchAnswered, Caught
      <4>2. fetches[q].at \in 0 .. Len(RoutesOf(q)) + 1
        BY <1>1 DEF DashboardTypeOK
      <4>3. QED
        BY <4>1, <4>2
    <3>2. ~older => fetches[q].got.count >= due
      BY <1>1, <2>5, <3>1 DEF TrailIsCurrent
    <3>3. QED
      BY <1>2, <1>3, <2>3, <2>5, <3>2, FetchTypes, NoDataAssumption DEF RowShown
  <2>6. TrailIsCurrent'
    <3>1. CASE q = "audit"
      BY <1>2, <2>5, <3>1 DEF TrailIsCurrent, TrailAtRest, Fetching
    <3>2. CASE q # "audit"
      BY <1>1, <1>2, <2>3, <3>2 DEF TrailIsCurrent, TrailAtRest, RowShown, Fetching
    <3>3. QED
      BY <3>1, <3>2
  <2>7. QED
    BY <2>2, <2>4, <2>6 DEF DashInv
<1>6. QED
  BY <1>4, <1>5

\* A success of the user's: the trail's query is not fresh, and is fetched
\* where it is mounted.
LEMMA SucceedKeepsDashInv ==
  ASSUME DashInv, NEW m \in {"process", "dry-run"}, Succeed(m)
  PROVE  DashInv'
<1>1. DashboardTypeOK /\ CacheTypes /\ TrailIsCurrent
  BY DEF DashInv
<1> DEFINE qs == Invalidated(m) \cap Queries
           Again(q) == q \in Mounted(page) /\ (~Fetching(q) \/ data[q] # NoData)
<1>2. /\ mutation' = [mutation EXCEPT ![m] = "idle"]
      /\ fresh' = [q \in Queries |-> fresh[q] /\ q \notin qs]
      /\ fetches' = [q \in Queries |-> IF q \in qs /\ Again(q) THEN Started ELSE fetches[q]]
      /\ due' = IF m = "process" THEN auditRows ELSE due
      /\ older' = ("audit" \in Queries /\ Fetching("audit") /\ ~Again("audit")
                     /\ (older \/ m = "process"))
      /\ UNCHANGED <<reachable, ready, auditRows, page, data, failed>>
  BY DEF Succeed, apiState
<1>3. CacheTypes'
  BY <1>1, <1>2, FetchTypes DEF CacheTypes
<1>4. \A q \in Queries : fetches'[q] = fetches[q] \/ fetches'[q] = Started
  BY <1>2
<1>5. DashboardTypeOK'
  <2>1. \A q \in Queries : fetches'[q].at \in 0 .. Len(RoutesOf(q)) + 1 /\ fetches'[q].got \in Shown
    <3>1. TAKE q \in Queries
    <3>2. fetches[q].at \in 0 .. Len(RoutesOf(q)) + 1 /\ fetches[q].got \in Shown
      BY <1>1 DEF DashboardTypeOK
    <3>3. 1 \in 0 .. Len(RoutesOf(q)) + 1
      BY RouteFacts
    <3>4. QED
      BY <1>4, <3>2, <3>3, FetchTypes
  <2>2. older' \in BOOLEAN
    BY <1>2
  <2>3. due' \in 0 .. auditRows'
    BY <1>1, <1>2, DashboardConstants DEF DashboardTypeOK
  <2>4. mutation' \in [{"process", "dry-run"} -> {"idle", "sent", "applied", "refused"}]
    BY <1>1, <1>2 DEF DashboardTypeOK
  <2>5. \A q \in Queries : fresh'[q] => fresh[q]
    BY <1>2
  <2>6. QED
    BY <1>1, <1>2, <2>1, <2>2, <2>3, <2>4, <2>5 DEF DashboardTypeOK
<1>6. ASSUME "audit" \in Queries PROVE TrailIsCurrent'
  <2>1. "audit" \in qs
    BY <1>6 DEF Invalidated
  <2>2. fresh'["audit"] = FALSE
    BY <1>2, <1>6, <2>1
  <2>3. CASE Again("audit")
    <3>1. fetches'["audit"] = Started
      BY <1>2, <1>6, <2>1, <2>3
    <3>2. QED
      BY <3>1, FetchTypes DEF TrailIsCurrent, TrailAtRest, Fetching
  <2>4. CASE ~Again("audit")
    <3>1. fetches'["audit"] = fetches["audit"]
      BY <1>2, <1>6, <2>4
    <3>2. page = "audit" => Fetching("audit")
      BY <1>1, <2>4, DashboardConstants DEF DashboardTypeOK
    <3>3. fetches["audit"].at = 2 /\ ~older' => due' = due /\ ~older
      <4>1. older \in BOOLEAN
        BY <1>1 DEF DashboardTypeOK
      <4>2. fetches["audit"].at = 2 => older' = (older \/ m = "process")
        BY <1>2, <1>6, <2>4 DEF Fetching
      <4>3. QED
        BY <1>2, <4>1, <4>2
    <3>4. QED
      BY <1>1, <1>2, <1>6, <2>2, <3>1, <3>2, <3>3 DEF TrailIsCurrent, TrailAtRest, Fetching
  <2>5. QED
    BY <2>3, <2>4
<1>7. QED
  BY <1>3, <1>5, <1>6 DEF DashInv, TrailIsCurrent

LEMMA DashInvSteps == DashInv /\ [DashboardNext]_dashboardVars => DashInv'
<1> SUFFICES ASSUME DashInv, [DashboardNext]_dashboardVars PROVE DashInv'
  OBVIOUS
<1>1. DashboardTypeOK /\ CacheTypes /\ TrailIsCurrent
  BY DEF DashInv
<1>2. /\ page \in Pages /\ auditRows \in 0 .. MaxAuditRows /\ auditRows \in Nat
      /\ reachable \in BOOLEAN /\ ready \in BOOLEAN
      /\ mutation \in [{"process", "dry-run"} -> {"idle", "sent", "applied", "refused"}]
  BY <1>1, DashboardConstants DEF DashboardTypeOK
<1>3. CASE UNCHANGED dashboardVars
  BY <1>3 DEF dashboardVars, apiState, cache, DashInv, DashboardTypeOK, CacheTypes, TrailIsCurrent,
     TrailAtRest, RowShown, Fetching
<1>4. CASE ApiChanges
  <2>1. UNCHANGED <<page, fetches, data, failed, fresh, older, mutation, due>>
    BY <1>4 DEF ApiChanges, cache
  <2>2. /\ auditRows' \in 0 .. MaxAuditRows /\ auditRows <= auditRows'
        /\ reachable' \in BOOLEAN /\ ready' \in BOOLEAN
    <3>1. CASE reachable' = ~reachable /\ UNCHANGED <<ready, auditRows>>
      BY <1>2, <3>1
    <3>2. CASE ready' = ~ready /\ UNCHANGED <<reachable, auditRows>>
      BY <1>2, <3>2
    <3>3. CASE auditRows < MaxAuditRows /\ auditRows' = auditRows + 1 /\ UNCHANGED <<reachable, ready>>
      BY <1>2, <3>3, DashboardConstants
    <3>4. QED
      BY <1>4, <3>1, <3>2, <3>3 DEF ApiChanges
  <2>3. QED
    BY <1>2, <2>1, <2>2, RowsKeepDashInv
<1>5. CASE Focus
  <2>1. Stale(Mounted(page)) \in SUBSET Queries
    BY <1>2, DashboardConstants DEF Stale
  <2>2. QED
    BY <1>2, <1>5, <2>1, StartingKeepsDashInv DEF Focus, apiState
<1>6. CASE RefetchInterval
  <2>1. {"pipeline-status"} \in SUBSET Queries
    BY <1>2, <1>6, DashboardConstants DEF RefetchInterval, Mounted
  <2>2. QED
    BY <1>2, <1>6, <2>1, StartingKeepsDashInv DEF RefetchInterval, apiState
<1>7. CASE Refresh
  <2>1. {"audit"} \in SUBSET Queries
    BY <1>2, <1>7, DashboardConstants DEF Refresh
  <2>2. QED
    BY <1>2, <1>7, <2>1, StartingKeepsDashInv DEF Refresh, apiState
<1>8. ASSUME NEW q \in Queries, Serve(q) PROVE DashInv'
  BY <1>8, ServeKeepsDashInv
<1>9. ASSUME NEW q \in Queries, Show(q) PROVE DashInv'
  BY <1>9, ShowKeepsDashInv
<1>10. ASSUME NEW q \in Queries, Age(q) PROVE DashInv'
  <2>1. /\ UNCHANGED <<reachable, ready, auditRows, page, fetches, data, failed, older, mutation, due>>
        /\ fresh' = [fresh EXCEPT ![q] = FALSE]
    BY <1>10 DEF Age, apiState
  <2>2. CacheTypes' /\ \A r \in Queries : fresh'[r] => fresh[r]
    BY <1>1, <2>1 DEF CacheTypes
  <2>3. DashboardTypeOK'
    BY <1>1, <2>1, <2>2 DEF DashboardTypeOK
  <2>4. TrailIsCurrent'
    BY <1>1, <2>1, <2>2 DEF TrailIsCurrent, TrailAtRest, RowShown, Fetching
  <2>5. QED
    BY <2>2, <2>3, <2>4 DEF DashInv
<1>11. ASSUME NEW p \in Pages, GoTo(p) PROVE DashInv'
  <2>1. /\ page' = p /\ StartAll(Stale(Mounted(p)))
        /\ UNCHANGED <<reachable, ready, auditRows, mutation, due>>
    BY <1>11 DEF GoTo, apiState
  <2>2. Stale(Mounted(p)) \in SUBSET Queries
    BY DashboardConstants DEF Stale
  <2>3. page' = "audit" /\ ~fresh["audit"] => "audit" \in Stale(Mounted(p))
    BY <2>1, DashboardConstants DEF Stale
  <2>4. QED
    BY <2>1, <2>2, <2>3, StartingKeepsDashInv
<1>12. ASSUME NEW m \in {"process", "dry-run"}, RunMutation(m) PROVE DashInv'
  <2>1. UNCHANGED <<reachable, ready, auditRows, page, fetches, data, failed, fresh, older, due>>
        /\ mutation' = [mutation EXCEPT ![m] = "sent"]
    BY <1>12 DEF RunMutation, apiState, cache
  <2>2. mutation' \in [{"process", "dry-run"} -> {"idle", "sent", "applied", "refused"}]
    BY <1>2, <2>1
  <2>3. QED
    BY <1>2, <2>1, <2>2, RowsKeepDashInv
<1>13. ASSUME NEW m \in {"process", "dry-run"}, ServeMutation(m) PROVE DashInv'
  <2>1. UNCHANGED <<reachable, ready, page, fetches, data, failed, fresh, older, due>>
    BY <1>13 DEF ServeMutation, cache
  <2>2. mutation' \in [{"process", "dry-run"} -> {"idle", "sent", "applied", "refused"}]
    BY <1>2, <1>13 DEF ServeMutation
  <2>3. auditRows' \in 0 .. MaxAuditRows /\ auditRows <= auditRows'
    BY <1>2, <1>13, DashboardConstants DEF ServeMutation
  <2>4. QED
    BY <1>2, <2>1, <2>2, <2>3, RowsKeepDashInv
<1>14. ASSUME NEW m \in {"process", "dry-run"}, Succeed(m) PROVE DashInv'
  BY <1>14, SucceedKeepsDashInv
<1>15. QED
  BY <1>3, <1>4, <1>5, <1>6, <1>7, <1>8, <1>9, <1>10, <1>11, <1>12, <1>13, <1>14 DEF DashboardNext

\* Whatever pages the user visits while fetches and mutations are under way,
\* the audit page at rest shows the row of the user's own success, unless a
\* fetch older than it was still under way (useSettlementApi's hooks, the
\* pages' mutations).
THEOREM SuccessesAreShown == DashboardSpec => []DashboardSafe
<1>1. DashInv => DashboardSafe
  <2> SUFFICES ASSUME DashInv PROVE DashboardSafe
    OBVIOUS
  <2>1. page = "audit" => "audit" \in Queries
    BY DashboardConstants DEF DashInv, DashboardTypeOK
  <2>2. QED
    BY <2>1 DEF DashInv, TrailIsCurrent, TrailAtRest, RowShown, DashboardSafe, OwnSuccessIsShown
<1>2. QED
  BY <1>1, DashInvStarts, DashInvSteps, PTL DEF DashboardSpec
=============================================================================
