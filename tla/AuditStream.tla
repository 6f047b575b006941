---------------------------- MODULE AuditStream -----------------------------
(***************************************************************************)
(* Layer 5 off chain: the audit trail and the stream that follows it.  The *)
(* API and the event indexer append rows; with a data directory both write *)
(* one file, without it each keeps rows of its own in memory.  The API     *)
(* lists the trail on every request and on every turn of a stream's timer. *)
(*                                                                         *)
(* An append is one write of a row and its line end.  It may fail with a   *)
(* part of them written, as when the disk is full: the part then has no    *)
(* line end, and the next row is written on the same line.                 *)
(***************************************************************************)
EXTENDS SequencesExt

CONSTANTS
  Clients,       \* readers of GET /audit/stream
  Stores,        \* the stores a deployment may have
  Torn,          \* a line that is not one row
  MaxRows, MaxTears, MaxCrashes   \* bound the rows and the faults

ASSUME AuditAssumption ==
  /\ Stores \subseteq {"disk", "memory"}
  /\ {MaxRows, MaxTears, MaxCrashes} \subseteq Nat
  /\ Torn \notin Nat

VARIABLES
  store,       \* createPersistenceFromEnv: is SETTLEMENT_DATA_DIR set
  file,        \* the lines of audit.jsonl
  ended,       \* the last line has its line end
  records,     \* AuditStore.records of each process, without a directory
  serving,          \* the processes that run
  stream,      \* each reader's connection: lastIndex, and what it was sent
  appends,    \* rows appended or torn; numbers them
  acked,       \* rows whose append returned; history
  tears, processCrashes

trailVars == <<file, ended, records, appends, acked, tears>>
auditVars == <<store, trailVars, serving, stream, processCrashes>>

Processes == {"api", "indexer"}
Rows == 1 .. MaxRows
Closed == [open |-> FALSE, lastIndex |-> 0, sent |-> <<>>]

\* What a process lists, and whether JSON.parse takes every line of it.
List(p) == IF store = "disk" THEN file ELSE records[p]
Readable(p) == Torn \notin ToSet(List(p))

AuditTypeOK ==
  /\ store \in Stores
  /\ file \in Seq(Rows \cup {Torn}) /\ ended \in BOOLEAN
  /\ records \in [Processes -> Seq(Rows)]
  /\ serving \subseteq Processes
  /\ \A c \in Clients :
       /\ stream[c].open \in BOOLEAN
       /\ stream[c].lastIndex \in 0 .. MaxRows
       /\ stream[c].sent \in Seq(Rows)
       /\ stream[c].open => "api" \in serving
  /\ appends \in 0 .. MaxRows /\ acked \subseteq 1 .. appends
  /\ tears \in 0 .. MaxTears /\ processCrashes \in 0 .. MaxCrashes
  /\ store = "memory" => file = <<>> /\ tears = 0

AuditInit ==
  /\ store \in Stores
  /\ file = <<>> /\ ended = TRUE
  /\ records = [p \in Processes |-> <<>>]
  /\ serving = Processes
  /\ stream = [c \in Clients |-> Closed]
  /\ appends = 0 /\ acked = {} /\ tears = 0 /\ processCrashes = 0

-----------------------------------------------------------------------------

\* The file with one more piece of text.
Extended(piece) ==
  IF ended THEN Append(file, piece) ELSE [file EXCEPT ![Len(file)] = Torn]

\* EndOfLine of an append that writes no line end.
EndOfRow == FALSE

EndOfLine == TRUE

AppendRow(p) ==
  /\ p \in serving /\ appends < MaxRows
  /\ appends' = appends + 1
  /\ acked' = acked \cup {appends'}
  /\ IF store = "disk"
     THEN file' = Extended(appends') /\ ended' = EndOfLine /\ UNCHANGED records
     ELSE records' = [records EXCEPT ![p] = Append(@, appends')] /\ UNCHANGED <<file, ended>>
  /\ UNCHANGED <<store, serving, stream, tears, processCrashes>>

\* An append that throws after a part of the row, or all but its line end.
TearRow(p, piece) ==
  /\ p \in serving /\ appends < MaxRows
  /\ store = "disk" /\ tears < MaxTears
  /\ appends' = appends + 1 /\ tears' = tears + 1
  /\ piece \in {appends', Torn}
  /\ file' = Extended(piece) /\ ended' = FALSE
  /\ UNCHANGED <<store, records, serving, stream, acked, processCrashes>>

-----------------------------------------------------------------------------

\* The process ends: its connections close, its memory is lost.
Dead(p) ==
  /\ serving' = serving \ {p}
  /\ stream' = IF p = "api" THEN [c \in Clients |-> [stream[c] EXCEPT !.open = FALSE]] ELSE stream
  /\ records' = [records EXCEPT ![p] = <<>>]

\* NewFrom that sends the newest row alone.
NewFromNewest(c) == SubSeq(List("api"), Len(List("api")), Len(List("api")))

\* The rows from lastIndex on.
NewFrom(c) == SubSeq(List("api"), stream[c].lastIndex + 1, Len(List("api")))

\* lastIndex starts at 0: a new stream begins with the whole trail.
First == List("api")

\* The answer's head is written before the list is read: the handler of the
\* error writes a second head, and that error nothing catches.
Connect(c) ==
  /\ "api" \in serving /\ ~stream[c].open
  /\ IF Readable("api")
     THEN /\ stream' = [stream EXCEPT ![c] = [open |-> TRUE, lastIndex |-> Len(First), sent |-> First]]
          /\ UNCHANGED <<serving, records>>
     ELSE Dead("api")
  /\ UNCHANGED <<store, file, ended, appends, acked, tears, processCrashes>>

\* A turn of the stream's timer, on which nothing catches an error either.
PushNew(c) ==
  /\ stream[c].open
  /\ stream[c].lastIndex # Len(List("api")) \/ ~Readable("api")
  /\ IF Readable("api")
     THEN /\ stream' = [stream EXCEPT ![c].lastIndex = Len(List("api")), ![c].sent = @ \o NewFrom(c)]
          /\ UNCHANGED <<serving, records>>
     ELSE Dead("api")
  /\ UNCHANGED <<store, file, ended, appends, acked, tears, processCrashes>>

\* The reader goes: cleanup stops the timers.
Disconnect(c) ==
  /\ stream[c].open
  /\ stream' = [stream EXCEPT ![c].open = FALSE]
  /\ UNCHANGED <<store, trailVars, serving, processCrashes>>

Crash(p) ==
  /\ p \in serving /\ processCrashes < MaxCrashes
  /\ processCrashes' = processCrashes + 1
  /\ Dead(p)
  /\ UNCHANGED <<store, file, ended, appends, acked, tears>>

\* An operator starts the process again.
RestartProcess(p) ==
  /\ p \notin serving
  /\ serving' = serving \cup {p}
  /\ UNCHANGED <<store, trailVars, stream, processCrashes>>

AuditNext ==
  \/ \E p \in Processes : AppendRow(p) \/ Crash(p) \/ RestartProcess(p)
  \/ \E p \in Processes, piece \in Rows \cup {Torn} : TearRow(p, piece)
  \/ \E c \in Clients : Connect(c) \/ PushNew(c) \/ Disconnect(c)

AuditSpec == AuditInit /\ [][AuditNext]_auditVars

\* The timer of an open stream keeps turning.
AuditFairSpec == AuditSpec /\ \A c \in Clients : WF_auditVars(PushNew(c))

-----------------------------------------------------------------------------
(* Properties *)

\* While the trail can be read, what an open stream was sent is the head of
\* the trail, every row once and in order, whoever appended and however the
\* timer and the appends interleave.
StreamIsHead ==
  \A c \in Clients :
    stream[c].open /\ Readable("api") => IsPrefix(stream[c].sent, List("api"))

\* A failed append costs at most one acknowledged row, the one written on its
\* line; crashes of either process cost none that is in the file.
TearCostsOneRow ==
  store = "disk" => Cardinality(acked \ ToSet(file)) <= tears

\* A row that the API lists reaches every stream that stays open.
ListedIsStreamed ==
  \A c \in Clients, r \in Rows :
    stream[c].open /\ r \in ToSet(List("api")) ~>
      r \in ToSet(stream[c].sent) \/ ~stream[c].open

\* What the stream has shown is the head of the file, and a torn write costs the
\* one row.
AuditSafe == AuditTypeOK /\ StreamIsHead /\ TearCostsOneRow
=============================================================================
