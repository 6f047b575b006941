----------------------------- MODULE Settlement -----------------------------
(***************************************************************************)
(* Layer 5 off chain: settling executions and planning redemptions.        *)
(*                                                                         *)
(* Two processes share one data directory.  The API process has two        *)
(* orchestrators of its own: one behind POST /v1/settlement/process, one   *)
(* behind the two redemption routes.  The event indexer has a third and    *)
(* settles every settlement event of the chain (EventIndexer says how      *)
(* often).  Each orchestrator remembers in memory which credit notes the   *)
(* grid operator's ERP has confirmed.                                      *)
(*                                                                         *)
(* A call is suspended at every await; an action is what it does from one  *)
(* await to the next.  External: the ERP, which may take a request and     *)
(* lose the answer, or take it after the client gave up; the pinning       *)
(* service; and the chain, which redeems an id once (UtilityBilling).      *)
(*                                                                         *)
(* Memos, gas budgets, the price fetch of mainnet (its errors are ignored) *)
(* and the event schema check, which this caller always passes, are left   *)
(* out.  Requests that are turned away are in ApiAccess.                   *)
(*                                                                         *)
(* An event's redemption id is a vector<u8>, an array in the indexer's     *)
(* hands however it is cast: a Map finds it by reference, that is never    *)
(* again, and a live PTB client throws on it, after the note was posted.   *)
(***************************************************************************)
EXTENDS Naturals, FiniteSets

CONSTANTS
  Calls,          \* requests and handled events
  Ids,            \* execution and redemption ids
  Keys,           \* keys of credit notes, as the ERP reads them
  KeyOf,          \* executionId.slice(2, 34), as text
  Live,           \* the PTB client is not a stub
  Pinning,        \* archives are pinned to IPFS first
  ErpAddressed,   \* GRID_OPERATOR_API is set, or the network is not mainnet
  MaxDeliveries,  \* bounds how often the indexer handles one event
  MaxCrashes,
  Nobody          \* route and id of a call not made yet

\* A redemption id is a note key as it is; the slice drops two characters.
ASSUME SettlementAssumption ==
  /\ Ids \subseteq Keys
  /\ KeyOf \in [Ids -> Keys]
  /\ \A i \in Ids : KeyOf[i] # i
  /\ {Live, Pinning, ErpAddressed} \subseteq BOOLEAN
  /\ {MaxDeliveries, MaxCrashes} \subseteq Nat
  /\ Nobody \notin Ids

VARIABLES
  at,         \* where each call is suspended, or how it ended
  route, id,  \* what each call was made with
  up,         \* the processes that run
  crashes,
  delivered,  \* keys of GridOperatorClient.delivered of each orchestrator
  burns,      \* BurnEngine's log of each orchestrator: the calls that wrote it
  proofs,     \* the proof files
  rows,       \* audit rows, by the call that appended them
  wire,       \* requests sent to the ERP that it has not taken
  taken,      \* requests the ERP took
  redeemed,   \* ids redeemed on chain
  excused     \* keys an orchestrator had a reason to send again; history

callVars == <<at, route, id>>
memoryVars == <<delivered, burns>>
diskVars == <<proofs, rows>>
erpVars == <<wire, taken>>
settlementVars == <<callVars, up, crashes, memoryVars, diskVars, erpVars, redeemed, excused>>

Routes == {"process", "event", "dry-run", "submit"}
Services == {"settlement", "planner", "indexer"}
Processes == {"api", "indexer"}

ServiceOf(r) == CASE r = "process" -> "settlement"
                  [] r = "event"   -> "indexer"
                  [] OTHER         -> "planner"
ProcessOf(r) == IF r = "event" THEN "indexer" ELSE "api"

Waiting == {"archiving", "reporting", "posting", "planning", "rehearsing", "executing", "executed"}
Ended == {"acknowledged", "answered", "failed", "lost"}

\* The idempotency-key header: processL4Execution settles under a key cut from
\* the execution id; a redemption request is planned under its own id.
NoteKey(c) == IF route[c] \in {"process", "event"} THEN KeyOf[id[c]] ELSE id[c]
ServiceOfCall(c) == ServiceOf(route[c])

\* What the client's Map compares: the text, or the array that this call cut.
MapKey(c) == IF route[c] = "event" THEN c ELSE NoteKey(c)

\* The proof file's name: the id as text, or the elements of the array.
ProofFile(c) == [array |-> route[c] = "event", of |-> id[c]]

Posting(s, k) == {c \in Calls : at[c] = "posting" /\ ServiceOfCall(c) = s /\ NoteKey(c) = k}

SettlementTypeOK ==
  /\ at \in [Calls -> {"free"} \cup Waiting \cup Ended]
  /\ route \in [Calls -> Routes \cup {Nobody}]
  /\ id \in [Calls -> Ids \cup {Nobody}]
  /\ \A c \in Calls : at[c] # "free" => route[c] \in Routes /\ id[c] \in Ids
  /\ \A c \in Calls : at[c] \in Waiting => ProcessOf(route[c]) \in up
  /\ up \subseteq Processes
  /\ crashes \in 0 .. MaxCrashes
  /\ delivered \in [Services -> SUBSET (Keys \cup Calls)]
  /\ burns \in [Services -> SUBSET Calls]
  /\ proofs \subseteq [array : BOOLEAN, of : Ids]
  /\ rows \subseteq Calls
  /\ wire \subseteq Calls /\ taken \subseteq Calls /\ wire \cap taken = {}
  /\ redeemed \subseteq Ids
  /\ excused \in [Services -> SUBSET Keys]

SettlementInit ==
  /\ at = [c \in Calls |-> "free"]
  /\ route = [c \in Calls |-> Nobody]
  /\ id = [c \in Calls |-> Nobody]
  /\ up = Processes
  /\ crashes = 0
  /\ delivered = [s \in Services |-> {}]
  /\ burns = [s \in Services |-> {}]
  /\ proofs = {}
  /\ rows = {}
  /\ wire = {} /\ taken = {}
  /\ redeemed = {}
  /\ excused = [s \in Services |-> {}]

Resume(c, stage) == at' = [at EXCEPT ![c] = stage]

-----------------------------------------------------------------------------
(* planRedemption and the grid operator client.                            *)

\* The client knows the note as confirmed.
Confirmed(s, m) == m \in delivered[s]

\* The note is posted unless it is confirmed or there is nobody to post to.
MustPost(s, m) == ErpAddressed /\ ~Confirmed(s, m)

\* planRedemption up to the next await: credit may be insufficient.  A
\* second post of a key that is still unconfirmed is sent all the same.
Plan(c, s, k, m) ==
  \/ Resume(c, "failed") /\ UNCHANGED <<wire, excused>>
  \/ ~MustPost(s, m) /\ Resume(c, "planning") /\ UNCHANGED <<wire, excused>>
  \/ /\ MustPost(s, m)
     /\ Resume(c, "posting")
     /\ wire' = wire \cup {c}
     /\ excused' = IF Posting(s, k) = {} THEN excused
                   ELSE [excused EXCEPT ![s] = @ \cup {k}]

\* The ERP takes a request, also one whose client has given up.
ErpTakes(c) ==
  /\ c \in wire
  /\ wire' = wire \ {c}
  /\ taken' = taken \cup {c}
  /\ UNCHANGED <<callVars, up, crashes, memoryVars, diskVars, redeemed, excused>>

\* Remember that keeps nothing.
Forget(s, m) == delivered' = delivered

Remember(s, m) == delivered' = [delivered EXCEPT ![s] = @ \cup {m}]

\* The answer has a status of success.
Succeeded(c) == c \in taken

ErpAnswers(c) ==
  /\ at[c] = "posting" /\ Succeeded(c)
  /\ Resume(c, "planning")
  /\ Remember(ServiceOfCall(c), MapKey(c))
  /\ UNCHANGED <<route, id, up, crashes, burns, diskVars, erpVars, redeemed, excused>>

\* The 15 seconds of the abort controller pass, or the post is refused.
AbortDue(c) == TRUE

\* A refusal, a lost answer or the time-out: logged, and the plan goes on.
PostFails(c) ==
  /\ at[c] = "posting" /\ AbortDue(c)
  /\ Resume(c, "planning")
  /\ excused' = [excused EXCEPT ![ServiceOfCall(c)] = @ \cup {NoteKey(c)}]
  /\ UNCHANGED <<route, id, up, crashes, memoryVars, diskVars, erpVars, redeemed>>

-----------------------------------------------------------------------------
(* SettlementService.process.                                              *)

\* An API request; a result that is not settled is answered at once,
\* unacknowledged, and leaves nothing behind.
Request(c, r, i) ==
  /\ at[c] = "free" /\ "api" \in up
  /\ r \in Routes \ {"event"}
  /\ route' = [route EXCEPT ![c] = r]
  /\ id' = [id EXCEPT ![c] = i]
  /\ IF r = "process"
     THEN /\ Resume(c, "archiving") \/ Resume(c, "answered")
          /\ UNCHANGED <<wire, excused>>
     ELSE Plan(c, "planner", i, i)
  /\ UNCHANGED <<up, crashes, memoryVars, diskVars, taken, redeemed>>

Handled(i) == {c \in Calls : route[c] = "event" /\ id[c] = i}

\* The indexer hands on an event of a redemption: there are two, one for the
\* redemption and one for the burn, and it does not tell them apart.
HandleEvent(c, i) ==
  /\ at[c] = "free" /\ "indexer" \in up
  /\ i \in redeemed
  /\ Cardinality(Handled(i)) < 2 * MaxDeliveries
  /\ route' = [route EXCEPT ![c] = "event"]
  /\ id' = [id EXCEPT ![c] = i]
  /\ Resume(c, "archiving")
  /\ UNCHANGED <<up, crashes, memoryVars, diskVars, erpVars, redeemed, excused>>

Archived(c) == proofs \cup {ProofFile(c)}

Archive(c) ==
  /\ at[c] = "archiving"
  /\ proofs' = Archived(c)
  /\ Resume(c, "reporting")
  /\ UNCHANGED <<route, id, up, crashes, memoryVars, rows, erpVars, redeemed, excused>>

\* Pinning fails and the call with it, before anything is on record.
ArchiveFails(c) ==
  /\ Pinning
  /\ at[c] = "archiving"
  /\ Resume(c, "failed")
  /\ UNCHANGED <<route, id, up, crashes, memoryVars, diskVars, erpVars, redeemed, excused>>

Appended(c) == rows \cup {c}

\* The report is made, or its failure caught, as it is for every event, whose
\* contract id has no replace; then the row is appended and
\* the redemption planned, without an await in between.
Report(c) ==
  /\ at[c] = "reporting"
  /\ rows' = Appended(c)
  /\ Plan(c, ServiceOfCall(c), NoteKey(c), MapKey(c))
  /\ UNCHANGED <<route, id, up, crashes, memoryVars, proofs, taken, redeemed>>

-----------------------------------------------------------------------------
(* Dry-run, submission and the end of a call.                              *)

\* The dry-run in planRedemption passes: an execution is acknowledged and
\* its burn logged; a redemption route makes a second dry-run.  A live client
\* asks an event's id for its startsWith, and throws.
PlanPasses(c) ==
  /\ at[c] = "planning"
  /\ ~(Live /\ route[c] = "event")
  /\ IF route[c] \in {"process", "event"}
     THEN /\ Resume(c, "acknowledged")
          /\ burns' = [burns EXCEPT ![ServiceOfCall(c)] = @ \cup {c}]
     ELSE Resume(c, "rehearsing") /\ UNCHANGED burns
  /\ UNCHANGED <<route, id, up, crashes, delivered, diskVars, erpVars, redeemed, excused>>

\* A stub always passes; the chain may refuse the redemption or not answer.
DryRunFails(c) ==
  /\ Live
  /\ at[c] \in {"planning", "rehearsing"}
  /\ Resume(c, "failed")
  /\ UNCHANGED <<route, id, up, crashes, memoryVars, diskVars, erpVars, redeemed, excused>>

\* A stub answers submit with a made-up digest.
RehearsalPasses(c) ==
  /\ at[c] = "rehearsing"
  /\ Resume(c, IF route[c] = "submit" /\ Live THEN "executing" ELSE "answered")
  /\ UNCHANGED <<route, id, up, crashes, memoryVars, diskVars, erpVars, redeemed, excused>>

\* The chain executes redeem_atomic, aborts it, or rejects the transaction.
\* One that aborts has a digest like any other: submit hands it out and does
\* not look at the effects it asked for.
Execute(c) ==
  /\ at[c] = "executing"
  /\ \/ /\ id[c] \notin redeemed
        /\ redeemed' = redeemed \cup {id[c]}
        /\ Resume(c, "executed")
     \/ Resume(c, "executed") /\ UNCHANGED redeemed
     \/ Resume(c, "failed") /\ UNCHANGED redeemed
  /\ UNCHANGED <<route, id, up, crashes, memoryVars, diskVars, erpVars, excused>>

\* The digest arrives, or is lost: the caller is then told of a failure.
SubmitEnds(c) ==
  /\ at[c] = "executed"
  /\ Resume(c, "answered") \/ Resume(c, "failed")
  /\ UNCHANGED <<route, id, up, crashes, memoryVars, diskVars, erpVars, redeemed, excused>>

-----------------------------------------------------------------------------

ServicesOf(p) == IF p = "indexer" THEN {"indexer"} ELSE {"settlement", "planner"}

\* Calls and memory are lost; the files, the ERP and the chain are not.
Crash(p) ==
  /\ p \in up /\ crashes < MaxCrashes
  /\ up' = up \ {p}
  /\ crashes' = crashes + 1
  /\ at' = [c \in Calls |-> IF at[c] \in Waiting /\ ProcessOf(route[c]) = p
                            THEN "lost" ELSE at[c]]
  /\ delivered' = [s \in Services |-> IF s \in ServicesOf(p) THEN {} ELSE delivered[s]]
  /\ burns' = [s \in Services |-> IF s \in ServicesOf(p) THEN {} ELSE burns[s]]
  /\ excused' = [s \in Services |-> IF s \in ServicesOf(p) THEN Keys ELSE excused[s]]
  /\ UNCHANGED <<route, id, diskVars, erpVars, redeemed>>

Restart(p) ==
  /\ p \notin up
  /\ up' = up \cup {p}
  /\ UNCHANGED <<callVars, crashes, memoryVars, diskVars, erpVars, redeemed, excused>>

CallStep(c) ==
  \/ Archive(c) \/ ArchiveFails(c) \/ Report(c)
  \/ ErpAnswers(c) \/ PostFails(c)
  \/ PlanPasses(c) \/ DryRunFails(c) \/ RehearsalPasses(c)
  \/ Execute(c) \/ SubmitEnds(c)

SettlementNext ==
  \/ \E c \in Calls : CallStep(c) \/ ErpTakes(c)
  \/ \E c \in Calls, i \in Ids : HandleEvent(c, i) \/ \E r \in Routes : Request(c, r, i)
  \/ \E p \in Processes : Crash(p) \/ Restart(p)

SettlementSafetySpec == SettlementInit /\ [][SettlementNext]_settlementVars

\* Only the ERP client has a time-out: pinning service and chain may leave a
\* call waiting for ever.  A stub without pinning waits for neither.
OwnStep(c) ==
  \/ Report(c) \/ ErpAnswers(c) \/ PostFails(c)
  \/ ~Pinning /\ Archive(c)
  \/ ~Live /\ (PlanPasses(c) \/ RehearsalPasses(c))

SettlementFairness == \A c \in Calls : WF_settlementVars(OwnStep(c))

SettlementSpec == SettlementSafetySpec /\ SettlementFairness

-----------------------------------------------------------------------------

\* An acknowledgement stands on what survives a crash: the row that this
\* very call appended and the proof of its execution; and no row is there
\* without its proof, wherever a process crashed (SettlementService.process).
TrailBacksAck ==
  /\ \A c \in rows : ProofFile(c) \in proofs
  /\ \A c \in Calls : at[c] = "acknowledged" => c \in rows

SameNote(c, d) == ServiceOfCall(c) = ServiceOfCall(d) /\ NoteKey(c) = NoteKey(d)

\* One orchestrator of the API makes the ERP take a key twice only with an excuse:
\* two of its posts were under way at once, an answer did not come, or its process
\* was restarted (GridOperatorClient.syncWithErp).  The indexer needs none.
RepostHasExcuse ==
  \A c, d \in taken :
    c # d /\ SameNote(c, d) /\ route[c] # "event" => NoteKey(c) \in excused[ServiceOfCall(c)]

\* What an orchestrator takes for confirmed, the ERP has taken, from that
\* orchestrator: a second plan that skips the post loses no note.
ConfirmedIsTaken ==
  \A s \in Services : \A m \in delivered[s] :
    \E c \in taken : ServiceOfCall(c) = s /\ MapKey(c) = m

\* No redemption of these calls is executed on chain unless the ERP was sent
\* its note before, by this call or an earlier one.
ExecutedWasNoted ==
  \A c \in Calls : ErpAddressed /\ at[c] \in {"executing", "executed"} =>
    \E d \in wire \cup taken : route[d] \in {"dry-run", "submit"} /\ id[d] = id[c]

\* Wherever the two processes crash, what is acknowledged, confirmed or executed
\* left its trace first, and a second delivery by the API has an excuse.
SettlementSafe ==
  /\ SettlementTypeOK
  /\ TrailBacksAck
  /\ RepostHasExcuse
  /\ ConfirmedIsTaken
  /\ ExecutedWasNoted
=============================================================================
