---------------------------- MODULE EventIndexer ----------------------------
(***************************************************************************)
(* Layer 5 off chain: the event indexer process.  A timer starts polls of  *)
(* the chain's settlement events; each poll hands every event of its page  *)
(* to a handler that settles it, and then moves the cursor.  The timer     *)
(* does not wait for a poll, and a poll does not wait for its handlers.    *)
(*                                                                         *)
(* The chain's event log is external and append-only: events are numbered  *)
(* 1 .. logged, and a query answers with those after its cursor, at most   *)
(* Limit of them.  What a handler does beyond the audit row it writes is   *)
(* in Settlement.  Times are in ticks, one for the shortest timer the      *)
(* runtime sets; the answer to a query takes at most AnswerTicks.          *)
(***************************************************************************)
EXTENDS Naturals, FiniteSets

CONSTANTS
  Polls,          \* polls under way at once; bounds them
  EnvPollMs,      \* EVENT_INDEXER_POLL_MS in ticks, or Unset
  Unset, NaN, Idle,
  Limit,          \* events of a page: 50
  AnswerTicks,
  MaxEvents,      \* bounds the events of the chain
  MaxRunning,     \* bounds the handlers of one event that run at once
  MaxRestarts     \* bounds the restarts of the process

ASSUME IndexerAssumption ==
  /\ Unset \notin Nat /\ NaN \notin Nat /\ Idle \notin Nat
  /\ EnvPollMs \in (Nat \ {0}) \cup {Unset}
  /\ {Limit, AnswerTicks, MaxRunning} \subseteq Nat \ {0}
  /\ {MaxEvents, MaxRestarts} \subseteq Nat

VARIABLES
  logged,      \* events on the chain
  up,          \* the process runs
  timer,       \* ticks since the timer last fired
  cursor,      \* SuiEventIndexer.cursor: the last event of the last page
  poll,        \* the cursor each poll under way was started with, or Idle
  age,         \* ticks since each poll was started
  running,     \* handlers of each event that have not ended
  rows,        \* events with a row in the audit file
  restarts,
  handed,      \* events handed to a handler since the start; history
  repeated,    \* events handed over more than once since the start; history
  unsettled,   \* events of which a handler failed before its row; history
  overlapped   \* two polls were under way at once since the start; history

memory == <<timer, cursor, poll, age, running>>
history == <<handed, repeated, unsettled, overlapped>>
indexerVars == <<logged, up, memory, rows, restarts, history>>

Events == 1 .. MaxEvents
UnderWay == {p \in Polls : poll[p] # Idle}

\* Number("10_000"): the separator is source syntax and not part of a number.
DefaultPollMs == NaN
PollMs == IF EnvPollMs = Unset THEN DefaultPollMs ELSE EnvPollMs

\* setInterval takes a delay that is not a number for the shortest one.
Interval == IF PollMs = NaN THEN 1 ELSE PollMs

IndexerTypeOK ==
  /\ logged \in 0 .. MaxEvents
  /\ up \in BOOLEAN
  /\ timer \in 0 .. Interval
  /\ cursor \in 0 .. logged
  /\ poll \in [Polls -> (0 .. logged) \cup {Idle}]
  /\ age \in [Polls -> 0 .. AnswerTicks]
  /\ running \in [Events -> 0 .. MaxRunning]
  /\ \A e \in Events : running[e] > 0 => e \in handed
  /\ rows \subseteq 1 .. logged
  /\ restarts \in 0 .. MaxRestarts
  /\ repeated \subseteq handed /\ handed \subseteq 1 .. logged
  /\ unsettled \subseteq handed
  /\ overlapped \in BOOLEAN

IndexerInit ==
  /\ logged = 0
  /\ up = TRUE
  /\ timer = 0
  /\ cursor = 0
  /\ poll = [p \in Polls |-> Idle]
  /\ age = [p \in Polls |-> 0]
  /\ running = [e \in Events |-> 0]
  /\ rows = {}
  /\ restarts = 0
  /\ handed = {} /\ repeated = {} /\ unsettled = {}
  /\ overlapped = FALSE

-----------------------------------------------------------------------------

\* A redemption on chain emits its settlement events one after the other.
EmitEvent ==
  /\ logged < MaxEvents
  /\ logged' = logged + 1
  /\ UNCHANGED <<up, memory, rows, restarts, history>>

Tick ==
  /\ up /\ timer < Interval
  /\ \A p \in UnderWay : age[p] < AnswerTicks
  /\ timer' = timer + 1
  /\ age' = [p \in Polls |-> IF p \in UnderWay THEN age[p] + 1 ELSE 0]
  /\ UNCHANGED <<logged, up, cursor, poll, running, rows, restarts, history>>

\* The timer fires: pollOnce queries from the cursor as it is now.
Fire(p) ==
  /\ up /\ timer = Interval
  /\ poll[p] = Idle
  /\ poll' = [poll EXCEPT ![p] = cursor]
  /\ age' = [age EXCEPT ![p] = 0]
  /\ timer' = 0
  /\ overlapped' = (overlapped \/ UnderWay # {})
  /\ UNCHANGED <<logged, up, cursor, running, rows, restarts, handed, repeated, unsettled>>

PageEnd(from) == IF from + Limit < logged THEN from + Limit ELSE logged

\* NextCursor that takes the chain's last event.
NextLatest(from) == logged

\* NextCursor that is not moved.
NextStays(from) == from

NextCursor(from) == PageEnd(from)

\* The answer arrives: every event of the page is handed over, the handlers
\* not awaited, and the cursor set to the end of this page.
Answer(p) ==
  LET from == poll[p]
      page == {e \in Events : from < e /\ e <= PageEnd(from)}
  IN  /\ up /\ from # Idle
      /\ \A e \in page : running[e] < MaxRunning
      /\ running' = [e \in Events |-> IF e \in page THEN running[e] + 1 ELSE running[e]]
      /\ handed' = handed \cup page
      /\ repeated' = repeated \cup (handed \cap page)
      /\ cursor' = IF page = {} THEN cursor ELSE NextCursor(from)
      /\ poll' = [poll EXCEPT ![p] = Idle]
      /\ UNCHANGED <<logged, up, timer, age, rows, restarts, unsettled, overlapped>>

\* The query fails: pollOnce rejects and the error is logged.
PollFails(p) ==
  /\ up /\ poll[p] # Idle
  /\ poll' = [poll EXCEPT ![p] = Idle]
  /\ UNCHANGED <<logged, up, timer, age, cursor, running, rows, restarts, history>>

\* A handler writes its audit row; what it does afterwards may still fail.
HandlerAudits(e) ==
  /\ up /\ running[e] > 0
  /\ running' = [running EXCEPT ![e] = @ - 1]
  /\ rows' = rows \cup {e}
  /\ UNCHANGED <<logged, up, timer, age, cursor, poll, restarts, history>>

\* The archive throws before the row is written; the error is only logged.
HandlerFails(e) ==
  /\ up /\ running[e] > 0
  /\ running' = [running EXCEPT ![e] = @ - 1]
  /\ unsettled' = unsettled \cup {e}
  /\ UNCHANGED <<logged, up, timer, age, cursor, poll, rows, restarts, handed, repeated, overlapped>>

Stop ==
  /\ up /\ restarts < MaxRestarts
  /\ up' = FALSE
  /\ UNCHANGED <<logged, memory, rows, restarts, history>>

\* Cursor and handlers were in memory; the audit file remains.
Restart ==
  /\ ~up
  /\ up' = TRUE
  /\ restarts' = restarts + 1
  /\ timer' = 0
  /\ cursor' = 0
  /\ poll' = [p \in Polls |-> Idle]
  /\ age' = [p \in Polls |-> 0]
  /\ running' = [e \in Events |-> 0]
  /\ handed' = {} /\ repeated' = {} /\ unsettled' = {}
  /\ overlapped' = FALSE
  /\ UNCHANGED <<logged, rows>>

IndexerNext ==
  \/ EmitEvent \/ Tick \/ Stop \/ Restart
  \/ \E p \in Polls : Fire(p) \/ Answer(p) \/ PollFails(p)
  \/ \E e \in Events : HandlerAudits(e) \/ HandlerFails(e)

\* Timers fire, handlers end, and the endpoint answers a query now and then.
IndexerFairness ==
  /\ WF_indexerVars(Tick)
  /\ WF_indexerVars(\E p \in Polls : Fire(p))
  /\ \A p \in Polls : SF_indexerVars(Answer(p))
  /\ \A e \in Events : WF_indexerVars(HandlerAudits(e) \/ HandlerFails(e))

IndexerSafetySpec == IndexerInit /\ [][IndexerNext]_indexerVars
IndexerSpec == IndexerSafetySpec /\ IndexerFairness

-----------------------------------------------------------------------------

\* The cursor never passes an event no handler was given since the start:
\* however polls overlap and fail, pages join without a gap.
NoEventSkipped == 1 .. cursor \subseteq handed

\* An event is handed over twice only when polls overlapped: one poll after
\* the other, a page begins where the last one ended.
RepeatsNeedOverlap == repeated # {} => overlapped

\* The cursor moves back only at a restart or when an overlapped poll ends
\* after a younger one: a failed or empty poll never loses progress.
CursorReturnsOnlyByOverlap == [][cursor' < cursor => overlapped \/ ~up]_indexerVars

\* As long as the process runs, every event of the chain is handed over,
\* also when stale polls keep setting the cursor back.
EventsAreHandled ==
  \A e \in Events : (logged >= e) ~> (e \in handed \/ ~up)

\* No event before the cursor was left out, and one is handed over twice only when
\* polls overlapped (eventIndexer.ts, pollOnce).
IndexerSafe == IndexerTypeOK /\ NoEventSkipped /\ RepeatsNeedOverlap
=============================================================================
