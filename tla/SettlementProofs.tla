-------------------------- MODULE SettlementProofs --------------------------
(***************************************************************************)
(* What Settlement keeps of records, credit notes and executions, for any  *)
(* number of calls, ids, crashes and deliveries; and of the redemptions of *)
(* layer 4 and the evidence archive beside it.                             *)
(*                                                                         *)
(* Records: a call on its way to the ERP or past it has its row, and a row *)
(* its proof.  Notes: whatever an orchestrator has sent to the ERP is still *)
(* under way, confirmed, or has an excuse for being sent again.            *)
(* Redemptions: a run has settled, noted and recorded before it redeems.   *)
(* Evidence: a file is pinned under the name it is given before a row      *)
(* names it, and a file without a row has its call under way.              *)
(***************************************************************************)
EXTENDS Settlement, RedemptionHook, EvidenceArchive, TLAPS

\* The routes that settle an execution, and those that plan a redemption.
Settling == {"process", "event"}
Redeeming == {"dry-run", "submit"}

LEMMA RoutesSplit ==
  /\ Routes = Settling \cup Redeeming
  /\ \A r \in Routes : ServiceOf(r) \in Services
  /\ \A r \in Routes : r \in Redeeming <=> ServiceOf(r) = "planner"
  /\ \A r \in Routes : ProcessOf(r) = "indexer" <=> ServiceOf(r) = "indexer"
BY DEF Routes, Settling, Redeeming, ServiceOf, Services, ProcessOf

\* Of any call that was made, service and key are known.
LEMMA NoteTypes ==
  ASSUME SettlementTypeOK, NEW c \in Calls, at[c] # "free"
  PROVE  /\ route[c] \in Routes /\ id[c] \in Ids
         /\ ServiceOfCall(c) \in Services
         /\ NoteKey(c) \in Keys
         /\ MapKey(c) \in Keys \cup Calls
         /\ ProofFile(c) \in [array : BOOLEAN, of : Ids]
<1>1. route[c] \in Routes /\ id[c] \in Ids
  BY DEF SettlementTypeOK
<1>2. ServiceOfCall(c) \in Services
  BY <1>1, RoutesSplit DEF ServiceOfCall
<1>3. NoteKey(c) \in Keys
  BY <1>1, SettlementAssumption DEF NoteKey
<1>4. MapKey(c) \in Keys \cup Calls
  BY <1>3 DEF MapKey
<1>5. ProofFile(c) \in [array : BOOLEAN, of : Ids]
  BY <1>1 DEF ProofFile
<1> QED
  BY <1>1, <1>2, <1>3, <1>4, <1>5

-----------------------------------------------------------------------------
(* Types.                                                                  *)

LEMMA InitType == SettlementInit => SettlementTypeOK
BY SettlementAssumption
   DEF SettlementInit, SettlementTypeOK, Processes, Services, Waiting, Ended

\* A call before its plan has sent no note and appended no row.
Unplanned == {"free", "archiving", "reporting"}
NothingYet == \A c \in Calls : at[c] \in Unplanned => c \notin wire \cup taken \cup rows

\* What a plan leaves: its stage, its note, its excuse.
LEMMA PlanTypes ==
  ASSUME SettlementTypeOK, NEW c \in Calls, NEW s \in Services, NEW k \in Keys,
         NEW m \in Keys \cup Calls, Plan(c, s, k, m), c \notin taken
  PROVE  /\ \E stage \in {"failed", "planning", "posting"} : Resume(c, stage)
         /\ wire \subseteq wire' /\ wire' \subseteq wire \cup {c}
         /\ wire' \cap taken = {}
         /\ excused' \in [Services -> SUBSET Keys]
BY DEF SettlementTypeOK, Plan

\* Where the calls are suspended, and whether a process of theirs runs.
PlaceTypeOK ==
  /\ at \in [Calls -> {"free"} \cup Waiting \cup Ended]
  /\ route \in [Calls -> Routes \cup {Nobody}]
  /\ id \in [Calls -> Ids \cup {Nobody}]
  /\ \A c \in Calls : at[c] # "free" => route[c] \in Routes /\ id[c] \in Ids
  /\ \A c \in Calls : at[c] \in Waiting => ProcessOf(route[c]) \in up
  /\ up \subseteq Processes

\* A call that is under way may be suspended elsewhere, or end.
LEMMA ResumeType ==
  ASSUME PlaceTypeOK, NEW c \in Calls, at[c] \in Waiting,
         NEW stage \in Waiting \cup Ended, Resume(c, stage), UNCHANGED <<route, id, up>>
  PROVE  PlaceTypeOK'
BY DEF PlaceTypeOK, Resume, Waiting, Ended

\* A new call on a route of a process that runs.
LEMMA BeginType ==
  ASSUME PlaceTypeOK, NEW c \in Calls, NEW r \in Routes, NEW i \in Ids,
         ProcessOf(r) \in up, NEW stage \in Waiting \cup Ended, Resume(c, stage),
         route' = [route EXCEPT ![c] = r], id' = [id EXCEPT ![c] = i], up' = up
  PROVE  PlaceTypeOK'
BY DEF PlaceTypeOK, Resume, Waiting, Ended

LEMMA StepType == SettlementTypeOK /\ NothingYet /\ [SettlementNext]_settlementVars => SettlementTypeOK'
<1> SUFFICES ASSUME SettlementTypeOK, NothingYet, [SettlementNext]_settlementVars
             PROVE  SettlementTypeOK'
  OBVIOUS
<1> DEFINE Rest ==
      /\ crashes \in 0 .. MaxCrashes
      /\ delivered \in [Services -> SUBSET (Keys \cup Calls)]
      /\ burns \in [Services -> SUBSET Calls]
      /\ proofs \subseteq [array : BOOLEAN, of : Ids]
      /\ rows \subseteq Calls
      /\ wire \subseteq Calls /\ taken \subseteq Calls /\ wire \cap taken = {}
      /\ redeemed \subseteq Ids
      /\ excused \in [Services -> SUBSET Keys]
<1>0. /\ SettlementTypeOK <=> PlaceTypeOK /\ Rest
      /\ SettlementTypeOK' <=> PlaceTypeOK' /\ Rest'
  BY DEF SettlementTypeOK, PlaceTypeOK
<1>p. PlaceTypeOK /\ Rest
  BY <1>0
<1>1. ASSUME NEW c \in Calls, Archive(c)
      PROVE  SettlementTypeOK'
  <2>1. PlaceTypeOK'
    BY <1>1, <1>p, ResumeType DEF Archive, Waiting
  <2>2. Rest'
    BY <1>1, NoteTypes DEF Archive, Archived, memoryVars, erpVars, SettlementTypeOK
  <2>3. QED BY <1>0, <2>1, <2>2
<1>2. ASSUME NEW c \in Calls, Report(c)
      PROVE  SettlementTypeOK'
  <2>1. /\ ServiceOfCall(c) \in Services /\ NoteKey(c) \in Keys /\ c \notin taken
        /\ MapKey(c) \in Keys \cup Calls
        /\ Plan(c, ServiceOfCall(c), NoteKey(c), MapKey(c))
    BY <1>2, NoteTypes DEF Report, NothingYet, Unplanned
  <2>2. PICK stage \in {"failed", "planning", "posting"} : Resume(c, stage)
    BY <2>1, PlanTypes
  <2>3. PlaceTypeOK'
    BY <1>2, <1>p, <2>2, ResumeType DEF Report, Waiting, Ended
  <2>4. Rest'
    BY <1>2, <1>p, <2>1, PlanTypes DEF Report, Appended, memoryVars
  <2>5. QED BY <1>0, <2>3, <2>4
<1>3. ASSUME NEW c \in Calls, ErpAnswers(c)
      PROVE  SettlementTypeOK'
  <2>1. PlaceTypeOK'
    BY <1>3, <1>p, ResumeType DEF ErpAnswers, Waiting
  <2>2. ServiceOfCall(c) \in Services /\ MapKey(c) \in Keys \cup Calls
    BY <1>3, NoteTypes DEF ErpAnswers
  <2>3. Rest'
    BY <1>3, <1>p, <2>2 DEF ErpAnswers, Remember, diskVars, erpVars
  <2>4. QED BY <1>0, <2>1, <2>3
<1>4. ASSUME NEW c \in Calls, PostFails(c)
      PROVE  SettlementTypeOK'
  <2>1. PlaceTypeOK'
    BY <1>4, <1>p, ResumeType DEF PostFails, Waiting
  <2>2. ServiceOfCall(c) \in Services /\ NoteKey(c) \in Keys
    BY <1>4, NoteTypes DEF PostFails
  <2>3. Rest'
    BY <1>4, <1>p, <2>2 DEF PostFails, diskVars, erpVars, memoryVars
  <2>4. QED BY <1>0, <2>1, <2>3
<1>5. ASSUME NEW c \in Calls, PlanPasses(c)
      PROVE  SettlementTypeOK'
  <2>1. PlaceTypeOK'
    BY <1>5, <1>p, ResumeType DEF PlanPasses, Waiting, Ended
  <2>2. Rest'
    BY <1>5, <1>p, NoteTypes DEF PlanPasses, diskVars, erpVars
  <2>3. QED BY <1>0, <2>1, <2>2
<1>6. ASSUME NEW c \in Calls, Execute(c)
      PROVE  SettlementTypeOK'
  <2>1. PlaceTypeOK'
    BY <1>6, <1>p, ResumeType DEF Execute, Waiting, Ended
  <2>2. Rest'
    BY <1>6, <1>p, NoteTypes DEF Execute, diskVars, erpVars, memoryVars
  <2>3. QED BY <1>0, <2>1, <2>2
<1>7. ASSUME NEW c \in Calls,
             ArchiveFails(c) \/ DryRunFails(c) \/ RehearsalPasses(c) \/ SubmitEnds(c)
      PROVE  SettlementTypeOK'
  <2>1. PICK stage \in Waiting \cup Ended :
          Resume(c, stage) /\ at[c] \in Waiting /\ UNCHANGED <<route, id, up>>
    BY <1>7 DEF ArchiveFails, DryRunFails, RehearsalPasses, SubmitEnds, Waiting, Ended
  <2>2. PlaceTypeOK'
    BY <1>p, <2>1, ResumeType
  <2>3. Rest'
    BY <1>7, <1>p DEF ArchiveFails, DryRunFails, RehearsalPasses, SubmitEnds, diskVars,
                      erpVars, memoryVars
  <2>4. QED BY <1>0, <2>2, <2>3
<1>8. ASSUME NEW c \in Calls, ErpTakes(c)
      PROVE  SettlementTypeOK'
  <2>1. PlaceTypeOK'
    BY <1>8, <1>p DEF ErpTakes, PlaceTypeOK, callVars
  <2>2. Rest'
    BY <1>8, <1>p DEF ErpTakes, memoryVars, diskVars
  <2>3. QED BY <1>0, <2>1, <2>2
<1>9. ASSUME NEW c \in Calls, NEW i \in Ids, HandleEvent(c, i)
      PROVE  SettlementTypeOK'
  <2>1. PlaceTypeOK'
    <3>1. ProcessOf("event") \in up /\ "event" \in Routes /\ "archiving" \in Waiting
      BY <1>9 DEF HandleEvent, ProcessOf, Routes, Waiting
    <3>2. QED
      BY <1>9, <1>p, <3>1, BeginType DEF HandleEvent
  <2>2. Rest'
    BY <1>9, <1>p DEF HandleEvent, memoryVars, diskVars, erpVars
  <2>3. QED BY <1>0, <2>1, <2>2
<1>10. ASSUME NEW c \in Calls, NEW i \in Ids, NEW r \in Routes, Request(c, r, i)
       PROVE  SettlementTypeOK'
  <2>1. ProcessOf(r) \in up /\ c \notin taken /\ i \in Keys /\ "planner" \in Services
    BY <1>10, SettlementAssumption
       DEF Request, ProcessOf, NothingYet, Unplanned, Services
  <2>2. CASE r = "process"
    <3>1. PlaceTypeOK'
      BY <1>10, <1>p, <2>1, <2>2, BeginType DEF Request, Waiting, Ended
    <3>2. Rest'
      BY <1>10, <1>p, <2>2 DEF Request, memoryVars, diskVars
    <3>3. QED BY <1>0, <3>1, <3>2
  <2>3. CASE r # "process"
    <3>1. Plan(c, "planner", i, i) /\ i \in Keys \cup Calls
      BY <1>10, <2>1, <2>3 DEF Request
    <3>2. PICK stage \in {"failed", "planning", "posting"} : Resume(c, stage)
      BY <2>1, <3>1, PlanTypes
    <3>3. PlaceTypeOK'
      BY <1>10, <1>p, <2>1, <3>2, BeginType DEF Request, Waiting, Ended
    <3>4. Rest'
      BY <1>10, <1>p, <2>1, <3>1, PlanTypes DEF Request, memoryVars, diskVars
    <3>5. QED BY <1>0, <3>3, <3>4
  <2>4. QED BY <2>2, <2>3
<1>11. ASSUME NEW p \in Processes, Crash(p)
       PROVE  SettlementTypeOK'
  <2>1. PlaceTypeOK'
    BY <1>11, <1>p DEF Crash, PlaceTypeOK, Waiting, Ended
  <2>2. crashes' \in 0 .. MaxCrashes
    BY <1>11, <1>p, SettlementAssumption DEF Crash
  <2>3. Rest'
    BY <1>11, <1>p, <2>2 DEF Crash, diskVars, erpVars
  <2>4. QED BY <1>0, <2>1, <2>3
<1>12. ASSUME NEW p \in Processes, Restart(p)
       PROVE  SettlementTypeOK'
  <2>1. PlaceTypeOK'
    BY <1>12, <1>p DEF Restart, PlaceTypeOK, callVars
  <2>2. Rest'
    BY <1>12, <1>p DEF Restart, diskVars, erpVars, memoryVars
  <2>3. QED BY <1>0, <2>1, <2>2
<1>13. CASE UNCHANGED settlementVars
  BY <1>13 DEF settlementVars, callVars, memoryVars, diskVars, erpVars, SettlementTypeOK
<1>14. QED
  BY <1>1, <1>2, <1>3, <1>4, <1>5, <1>6, <1>7, <1>8, <1>9, <1>10, <1>11, <1>12, <1>13
     DEF SettlementNext, CallStep

-----------------------------------------------------------------------------
(* Records.                                                                *)

\* Rows come after proofs, and plans of executions after rows.
RecordInv ==
  /\ NothingYet
  /\ \A c \in rows : ProofFile(c) \in proofs
  /\ \A c \in Calls : at[c] = "reporting" => ProofFile(c) \in proofs
  /\ \A c \in Calls : at[c] \in {"archiving", "reporting", "acknowledged"} => route[c] \in Settling
  /\ \A c \in Calls :
       route[c] \in Settling /\ at[c] \in {"posting", "planning", "acknowledged"} => c \in rows

\* What a call was made with stays.
LEMMA CallKept ==
  ASSUME SettlementTypeOK, [SettlementNext]_settlementVars, NEW c \in Calls, at[c] # "free"
  PROVE  /\ at'[c] # "free" /\ route'[c] = route[c] /\ id'[c] = id[c]
         /\ ServiceOfCall(c)' = ServiceOfCall(c)
         /\ NoteKey(c)' = NoteKey(c) /\ MapKey(c)' = MapKey(c)
         /\ ProofFile(c)' = ProofFile(c)
<1>1. at'[c] # "free" /\ route'[c] = route[c] /\ id'[c] = id[c]
  <2>1. ASSUME NEW d \in Calls, CallStep(d)
        PROVE  \E stage \in Waiting \cup Ended : Resume(d, stage) /\ UNCHANGED <<route, id>>
    BY <2>1 DEF CallStep, Archive, ArchiveFails, Report, Plan, ErpAnswers, PostFails, PlanPasses,
                DryRunFails, RehearsalPasses, Execute, SubmitEnds, Waiting, Ended
  <2>2. ASSUME NEW d \in Calls, NEW i \in Ids, NEW r \in Routes,
               HandleEvent(d, i) \/ Request(d, r, i)
        PROVE  /\ at[d] = "free"
               /\ \E stage \in Waiting \cup Ended : Resume(d, stage)
               /\ \E r2 : route' = [route EXCEPT ![d] = r2]
               /\ id' = [id EXCEPT ![d] = i]
    BY <2>2 DEF HandleEvent, Request, Plan, Waiting, Ended
  <2>3. ASSUME NEW d \in Calls, ErpTakes(d)
        PROVE  UNCHANGED <<at, route, id>>
    BY <2>3 DEF ErpTakes, callVars
  <2>4. ASSUME NEW p \in Processes, Crash(p) \/ Restart(p)
        PROVE  at'[c] # "free" /\ UNCHANGED <<route, id>>
    BY <2>4 DEF Crash, Restart, callVars, SettlementTypeOK
  <2>5. CASE UNCHANGED settlementVars
    BY <2>5 DEF settlementVars, callVars
  <2>6. ASSUME NEW d \in Calls, NEW stage \in Waiting \cup Ended, Resume(d, stage)
        PROVE  at'[c] # "free" /\ \A e \in Calls : e # d => at'[e] = at[e]
    BY <2>6 DEF Resume, Waiting, Ended, SettlementTypeOK
  <2>7. route \in [Calls -> Routes \cup {Nobody}] /\ id \in [Calls -> Ids \cup {Nobody}]
    BY DEF SettlementTypeOK
  <2>8. QED
    BY <2>1, <2>2, <2>3, <2>4, <2>5, <2>6, <2>7 DEF SettlementNext, Routes
<1>2. QED
  BY <1>1 DEF ServiceOfCall, NoteKey, MapKey, ProofFile

LEMMA InitRecord == SettlementInit => RecordInv
BY DEF SettlementInit, RecordInv, NothingYet, Unplanned

LEMMA StepRecord ==
  SettlementTypeOK /\ RecordInv /\ [SettlementNext]_settlementVars => RecordInv'
<1> SUFFICES ASSUME SettlementTypeOK, RecordInv, [SettlementNext]_settlementVars
             PROVE  RecordInv'
  OBVIOUS
<1> USE DEF RecordInv, NothingYet, Unplanned
<1>t. /\ at \in [Calls -> {"free"} \cup Waiting \cup Ended]
      /\ route \in [Calls -> Routes \cup {Nobody}] /\ id \in [Calls -> Ids \cup {Nobody}]
      /\ wire \subseteq Calls /\ taken \subseteq Calls /\ rows \subseteq Calls
  BY DEF SettlementTypeOK
<1>k. \A c \in Calls : at[c] # "free" =>
        ProofFile(c)' = ProofFile(c) /\ at'[c] # "free" /\ route'[c] = route[c]
  BY CallKept
<1>1. ASSUME NEW c \in Calls, Archive(c)
      PROVE  RecordInv'
  BY <1>1, <1>t, <1>k DEF Archive, Archived, Resume, erpVars
<1>2. ASSUME NEW c \in Calls, Report(c)
      PROVE  RecordInv'
  <2>1. c \notin taken /\ Plan(c, ServiceOfCall(c), NoteKey(c), MapKey(c))
        /\ ServiceOfCall(c) \in Services /\ NoteKey(c) \in Keys /\ MapKey(c) \in Keys \cup Calls
    BY <1>2, NoteTypes DEF Report
  <2>2. PICK stage \in {"failed", "planning", "posting"} : Resume(c, stage)
    BY <2>1, PlanTypes
  <2>3. wire' \subseteq wire \cup {c}
    BY <2>1, PlanTypes
  <2>4. QED
    BY <1>2, <1>t, <1>k, <2>2, <2>3 DEF Report, Appended, Resume
<1>3. ASSUME NEW c \in Calls, ErpAnswers(c) \/ PostFails(c)
      PROVE  RecordInv'
  BY <1>3, <1>t, <1>k DEF ErpAnswers, PostFails, Resume, diskVars, erpVars
<1>4. ASSUME NEW c \in Calls, PlanPasses(c)
      PROVE  RecordInv'
  BY <1>4, <1>t, <1>k DEF PlanPasses, Settling, Resume, diskVars, erpVars
<1>5. ASSUME NEW c \in Calls,
             \/ ArchiveFails(c) \/ DryRunFails(c) \/ RehearsalPasses(c)
             \/ Execute(c) \/ SubmitEnds(c)
      PROVE  RecordInv'
  BY <1>5, <1>t, <1>k DEF ArchiveFails, DryRunFails, RehearsalPasses, Execute, SubmitEnds, Resume,
                    diskVars, erpVars
<1>6. ASSUME NEW c \in Calls, ErpTakes(c)
      PROVE  RecordInv'
  BY <1>6, <1>t, <1>k DEF ErpTakes, callVars, diskVars
<1>7. ASSUME NEW c \in Calls, NEW i \in Ids, HandleEvent(c, i)
      PROVE  RecordInv'
  BY <1>7, <1>t, <1>k DEF HandleEvent, Resume, Settling, diskVars, erpVars
<1>8. ASSUME NEW c \in Calls, NEW i \in Ids, NEW r \in Routes, Request(c, r, i)
      PROVE  RecordInv'
  <2>1. CASE r = "process"
    BY <1>8, <1>t, <1>k, <2>1 DEF Request, Resume, Settling, diskVars
  <2>2. CASE r # "process"
    <3>1. c \notin taken /\ Plan(c, "planner", i, i) /\ i \in Keys /\ i \in Keys \cup Calls
          /\ "planner" \in Services
      BY <1>8, <2>2, SettlementAssumption DEF Request, Services
    <3>2. PICK stage \in {"failed", "planning", "posting"} : Resume(c, stage)
      BY <3>1, PlanTypes
    <3>3. wire' \subseteq wire \cup {c}
      BY <3>1, PlanTypes
    <3>4. r \notin Settling
      BY <1>8, <2>2 DEF Request, Settling
    <3>5. QED
      BY <1>8, <1>t, <1>k, <3>2, <3>3, <3>4 DEF Request, Resume, diskVars
  <2>3. QED BY <2>1, <2>2
<1>9. ASSUME NEW p \in Processes, Crash(p)
      PROVE  RecordInv'
  BY <1>9, <1>t, <1>k DEF Crash, diskVars, erpVars
<1>10. ASSUME NEW p \in Processes, Restart(p)
       PROVE  RecordInv'
  BY <1>10, <1>t, <1>k DEF Restart, callVars, diskVars, erpVars
<1>11. CASE UNCHANGED settlementVars
  BY <1>11, <1>t, <1>k DEF settlementVars, callVars, diskVars, erpVars
<1>12. QED
  BY <1>1, <1>2, <1>3, <1>4, <1>5, <1>6, <1>7, <1>8, <1>9, <1>10, <1>11
     DEF SettlementNext, CallStep

-----------------------------------------------------------------------------
(* Credit notes.                                                           *)

Sent == wire \cup taken

\* A note sent is under way, confirmed, or excuses another.
Accounted(c) ==
  \/ at[c] = "posting"
  \/ MapKey(c) \in delivered[ServiceOfCall(c)]
  \/ NoteKey(c) \in excused[ServiceOfCall(c)]

\* The ERP was sent the note of a redemption request.
Noted(c) == \E d \in Sent : route[d] \in Redeeming /\ id[d] = id[c]

AfterPlan == {"posting", "planning", "rehearsing", "executing", "executed"}

NoteInv ==
  /\ \A c \in Calls : at[c] = "posting" => c \in Sent
  /\ \A c \in Sent : Accounted(c)
  /\ \A c, d \in Sent :
       c # d /\ SameNote(c, d) /\ route[c] # "event" => NoteKey(c) \in excused[ServiceOfCall(c)]
  /\ ConfirmedIsTaken

ExecuteInv ==
  /\ \A c \in Calls : at[c] \in {"rehearsing", "executing", "executed"} => route[c] \in Redeeming
  /\ \A c \in Calls :
       ErpAddressed /\ route[c] \in Redeeming /\ at[c] \in AfterPlan => Noted(c)

\* Notes that were sent belong to calls that were made and keep their keys.
LEMMA SentKept ==
  ASSUME SettlementTypeOK, NothingYet, [SettlementNext]_settlementVars, NEW c \in Sent
  PROVE  /\ c \in Calls /\ at[c] # "free" /\ at[c] \notin Unplanned
         /\ route[c] \in Routes
         /\ route'[c] = route[c] /\ id'[c] = id[c]
         /\ ServiceOfCall(c) \in Services /\ ServiceOfCall(c)' = ServiceOfCall(c)
         /\ NoteKey(c) \in Keys /\ NoteKey(c)' = NoteKey(c)
         /\ MapKey(c) \in Keys \cup Calls /\ MapKey(c)' = MapKey(c)
<1>1. c \in Calls /\ at[c] # "free" /\ at[c] \notin Unplanned
  BY DEF Sent, SettlementTypeOK, NothingYet, Unplanned
<1>2. QED
  BY <1>1, CallKept, NoteTypes

\* Steps that send nothing keep the account, if they keep what is confirmed
\* and excused, and end no post.
LEMMA NotesKept ==
  ASSUME SettlementTypeOK, NothingYet, NoteInv, [SettlementNext]_settlementVars,
         UNCHANGED <<wire, taken, delivered, excused>>,
         \A c \in Calls : at[c] = "posting" <=> at'[c] = "posting"
  PROVE  NoteInv'
<1> USE DEF NoteInv
<1>1. Sent' = Sent
  BY DEF Sent
<1>2. \A c \in Calls : at'[c] = "posting" => c \in Sent'
  BY <1>1
<1>3. ASSUME NEW c \in Sent' PROVE Accounted(c)'
  BY <1>1, <1>3, SentKept DEF Accounted
<1>4. ASSUME NEW c \in Sent', NEW d \in Sent', c # d, SameNote(c, d)', route'[c] # "event"
      PROVE  NoteKey(c)' \in excused'[ServiceOfCall(c)']
  BY <1>1, <1>4, SentKept DEF SameNote
<1>5. ConfirmedIsTaken'
  BY SentKept DEF ConfirmedIsTaken, Sent
<1>6. QED
  BY <1>2, <1>3, <1>4, <1>5

\* A plan that posts sends a note no other call of its orchestrator has sent,
\* or has an excuse.
LEMMA PlanNotes ==
  ASSUME SettlementTypeOK, NothingYet, NoteInv, [SettlementNext]_settlementVars,
         NEW c \in Calls, at[c] \in Unplanned,
         NEW s \in Services, NEW k \in Keys, NEW m \in Keys \cup Calls, Plan(c, s, k, m),
         UNCHANGED <<taken, delivered>>,
         ServiceOfCall(c)' = s, NoteKey(c)' = k, MapKey(c)' = m
  PROVE  NoteInv'
<1> USE DEF NoteInv
<1>1. c \notin Sent /\ at \in [Calls -> {"free"} \cup Waiting \cup Ended]
      /\ excused \in [Services -> SUBSET Keys]
  BY DEF NothingYet, Sent, SettlementTypeOK
<1>2. ASSUME NEW d \in Calls, d # c PROVE at'[d] = at[d]
  BY <1>2, <1>1 DEF Plan, Resume
<1>3. CASE UNCHANGED <<wire, excused>> /\ at'[c] # "posting"
  <2>1. \A d \in Calls : at[d] = "posting" <=> at'[d] = "posting"
    BY <1>2, <1>3 DEF Unplanned
  <2>2. QED
    BY <1>3, <2>1, NotesKept
<1>4. CASE /\ MustPost(s, m) /\ Resume(c, "posting") /\ wire' = wire \cup {c}
           /\ excused' = IF Posting(s, k) = {} THEN excused
                         ELSE [excused EXCEPT ![s] = @ \cup {k}]
  <2>1. Sent' = Sent \cup {c} /\ at'[c] = "posting"
    BY <1>1, <1>4 DEF Sent, Resume
  <2>2. \A x \in Services : excused[x] \subseteq excused'[x]
    BY <1>1, <1>4
  <2>3. ASSUME NEW d \in Sent PROVE Accounted(d)'
    <3>1. d \in Calls /\ d # c /\ ServiceOfCall(d) \in Services
          /\ ServiceOfCall(d)' = ServiceOfCall(d) /\ NoteKey(d)' = NoteKey(d)
          /\ MapKey(d)' = MapKey(d)
      BY <1>1, <2>3, SentKept
    <3>2. Accounted(d)
      BY <2>3
    <3>3. QED
      BY <1>2, <2>2, <3>1, <3>2 DEF Accounted
  <2>4. ASSUME NEW d \in Sent, ServiceOfCall(d) = s, NoteKey(d) = k, s # "indexer"
        PROVE  k \in excused'[s]
    <3>1. d \in Calls /\ Accounted(d)
      BY <2>4, SentKept
    <3>0. m = k /\ MapKey(d) = k
      BY <2>4 DEF MapKey, ServiceOfCall, ServiceOf
    <3>2. CASE at[d] = "posting"
      <4>1. Posting(s, k) # {}
        BY <2>4, <3>1, <3>2 DEF Posting
      <4>2. QED
        BY <1>1, <1>4, <4>1
    <3>3. CASE k \in delivered[s]
      BY <1>4, <3>0, <3>3 DEF MustPost, Confirmed
    <3>4. CASE k \in excused[s]
      BY <2>2, <3>4
    <3>5. QED
      BY <2>4, <3>0, <3>1, <3>2, <3>3, <3>4 DEF Accounted
  <2>5. ASSUME NEW d \in Sent', NEW e \in Sent', d # e, SameNote(d, e)', route'[d] # "event"
        PROVE  NoteKey(d)' \in excused'[ServiceOfCall(d)']
    <3>0. ServiceOfCall(d)' # "indexer" /\ (d = c \/ e = c => ServiceOfCall(d)' = s)
      BY <2>5 DEF SameNote, ServiceOfCall, ServiceOf
    <3>1. CASE d \in Sent /\ e \in Sent
      BY <2>2, <2>5, <3>1, SentKept DEF SameNote
    <3>2. CASE d = c
      <4>1. e \in Sent
        BY <2>1, <2>5, <3>2
      <4>2. ServiceOfCall(e) = s /\ NoteKey(e) = k
        BY <2>5, <3>2, <4>1, SentKept DEF SameNote
      <4>3. QED
        BY <2>4, <3>0, <3>2, <4>1, <4>2
    <3>3. CASE e = c
      <4>1. d \in Sent
        BY <2>1, <2>5, <3>3
      <4>2. ServiceOfCall(d) = s /\ NoteKey(d) = k
        BY <2>5, <3>3, <4>1, SentKept DEF SameNote
      <4>3. ServiceOfCall(d)' = s /\ NoteKey(d)' = k
        BY <4>1, <4>2, SentKept
      <4>4. QED
        BY <2>4, <3>0, <3>3, <4>1, <4>2, <4>3
    <3>4. QED BY <2>1, <2>5, <3>1, <3>2, <3>3
  <2>6. ConfirmedIsTaken'
    BY SentKept DEF ConfirmedIsTaken, Sent
  <2>7. Accounted(c)'
    BY <2>1 DEF Accounted
  <2>8. \A d \in Calls : at'[d] = "posting" => d \in Sent'
    BY <1>2, <2>1
  <2>9. QED
    BY <2>1, <2>3, <2>5, <2>6, <2>7, <2>8
<1>5. QED
  BY <1>1, <1>3, <1>4 DEF Plan, Resume

LEMMA InitNotes == SettlementInit => NoteInv /\ ExecuteInv
BY DEF SettlementInit, NoteInv, ExecuteInv, Sent, ConfirmedIsTaken, AfterPlan

LEMMA StepNotes ==
  SettlementTypeOK /\ NothingYet /\ NoteInv /\ [SettlementNext]_settlementVars => NoteInv'
<1> SUFFICES ASSUME SettlementTypeOK, NothingYet, NoteInv, [SettlementNext]_settlementVars
             PROVE  NoteInv'
  OBVIOUS
<1> USE DEF NoteInv
<1>t. /\ at \in [Calls -> {"free"} \cup Waiting \cup Ended]
      /\ delivered \in [Services -> SUBSET (Keys \cup Calls)]
      /\ excused \in [Services -> SUBSET Keys]
  BY DEF SettlementTypeOK
<1>1. ASSUME NEW c \in Calls,
             \/ Archive(c) \/ ArchiveFails(c) \/ PlanPasses(c) \/ DryRunFails(c)
             \/ RehearsalPasses(c) \/ Execute(c) \/ SubmitEnds(c)
      PROVE  NoteInv'
  <2>1. UNCHANGED <<wire, taken, delivered, excused>>
    BY <1>1 DEF Archive, ArchiveFails, PlanPasses, DryRunFails, RehearsalPasses, Execute,
                SubmitEnds, memoryVars, erpVars
  <2>2. \A d \in Calls : at[d] = "posting" <=> at'[d] = "posting"
    BY <1>1, <1>t DEF Archive, ArchiveFails, PlanPasses, DryRunFails, RehearsalPasses, Execute,
                      SubmitEnds, Resume
  <2>3. QED BY <2>1, <2>2, NotesKept
<1>2. ASSUME NEW c \in Calls, Report(c)
      PROVE  NoteInv'
  <2>1. /\ at[c] \in Unplanned /\ at[c] # "free"
        /\ Plan(c, ServiceOfCall(c), NoteKey(c), MapKey(c))
        /\ UNCHANGED <<taken, delivered>>
    BY <1>2 DEF Report, Unplanned, memoryVars
  <2>2. /\ ServiceOfCall(c) \in Services /\ NoteKey(c) \in Keys
        /\ ServiceOfCall(c)' = ServiceOfCall(c) /\ NoteKey(c)' = NoteKey(c)
        /\ MapKey(c) \in Keys \cup Calls /\ MapKey(c)' = MapKey(c)
    BY <2>1, NoteTypes, CallKept
  <2>3. QED BY <2>1, <2>2, PlanNotes
<1>3. ASSUME NEW c \in Calls, ErpAnswers(c)
      PROVE  NoteInv'
  <2>1. /\ Sent' = Sent /\ taken' = taken /\ excused' = excused /\ c \in taken
        /\ \A d \in Calls : d # c => at'[d] = at[d]
        /\ at'[c] = "planning"
        /\ delivered' = [delivered EXCEPT ![ServiceOfCall(c)] = @ \cup {MapKey(c)}]
    BY <1>3, <1>t DEF ErpAnswers, Succeeded, Resume, Remember, erpVars, Sent
  <2>2. c \in Sent /\ ServiceOfCall(c) \in Services /\ MapKey(c) \in Keys \cup Calls
    BY <2>1, SentKept DEF Sent
  <2>3. \A x \in Services : delivered[x] \subseteq delivered'[x]
    BY <1>t, <2>1
  <2>4. ASSUME NEW d \in Sent' PROVE Accounted(d)'
    <3>1. CASE d = c
      BY <1>t, <2>1, <2>2, <3>1, SentKept DEF Accounted
    <3>2. CASE d # c
      BY <2>1, <2>3, <2>4, <3>2, SentKept DEF Accounted
    <3>3. QED BY <3>1, <3>2
  <2>5. ASSUME NEW d \in Sent', NEW e \in Sent', d # e, SameNote(d, e)', route'[d] # "event"
        PROVE  NoteKey(d)' \in excused'[ServiceOfCall(d)']
    BY <2>1, <2>5, SentKept DEF SameNote
  <2>6. ASSUME NEW x \in Services, NEW k \in delivered'[x]
        PROVE  \E d \in taken' : ServiceOfCall(d)' = x /\ MapKey(d)' = k
    <3>1. CASE k \in delivered[x]
      BY <2>1, <3>1, SentKept DEF ConfirmedIsTaken, Sent
    <3>2. CASE k \notin delivered[x]
      <4>1. x = ServiceOfCall(c) /\ k = MapKey(c)
        BY <1>t, <2>1, <2>2, <2>6, <3>2
      <4>2. QED BY <2>1, <2>2, <4>1, SentKept
    <3>3. QED BY <3>1, <3>2
  <2>7. ConfirmedIsTaken'
    BY <2>6 DEF ConfirmedIsTaken
  <2>8. \A d \in Calls : at'[d] = "posting" => d \in Sent'
    BY <2>1
  <2>9. QED BY <2>4, <2>5, <2>7, <2>8
<1>4. ASSUME NEW c \in Calls, PostFails(c)
      PROVE  NoteInv'
  <2>1. /\ Sent' = Sent /\ taken' = taken /\ delivered' = delivered
        /\ \A d \in Calls : d # c => at'[d] = at[d]
        /\ at[c] = "posting" /\ at'[c] = "planning"
        /\ excused' = [excused EXCEPT ![ServiceOfCall(c)] = @ \cup {NoteKey(c)}]
    BY <1>4, <1>t DEF PostFails, Resume, memoryVars, erpVars, Sent
  <2>2. c \in Sent /\ ServiceOfCall(c) \in Services /\ NoteKey(c) \in Keys
    BY <2>1, SentKept
  <2>3. \A x \in Services : excused[x] \subseteq excused'[x]
    BY <1>t, <2>1
  <2>4. ASSUME NEW d \in Sent' PROVE Accounted(d)'
    <3>1. CASE d = c
      BY <1>t, <2>1, <2>2, <3>1, SentKept DEF Accounted
    <3>2. CASE d # c
      BY <2>1, <2>3, <2>4, <3>2, SentKept DEF Accounted
    <3>3. QED BY <3>1, <3>2
  <2>5. ASSUME NEW d \in Sent', NEW e \in Sent', d # e, SameNote(d, e)', route'[d] # "event"
        PROVE  NoteKey(d)' \in excused'[ServiceOfCall(d)']
    BY <2>1, <2>3, <2>5, SentKept DEF SameNote
  <2>6. ConfirmedIsTaken'
    BY <2>1, SentKept DEF ConfirmedIsTaken, Sent
  <2>7. \A d \in Calls : at'[d] = "posting" => d \in Sent'
    BY <2>1
  <2>8. QED BY <2>4, <2>5, <2>6, <2>7
<1>5. ASSUME NEW c \in Calls, ErpTakes(c)
      PROVE  NoteInv'
  <2>1. /\ Sent' = Sent /\ UNCHANGED <<at, delivered, excused>>
        /\ taken' = taken \cup {c}
    BY <1>5 DEF ErpTakes, callVars, memoryVars, Sent
  <2>2. ASSUME NEW d \in Sent' PROVE Accounted(d)'
    BY <2>1, <2>2, SentKept DEF Accounted
  <2>3. ASSUME NEW d \in Sent', NEW e \in Sent', d # e, SameNote(d, e)', route'[d] # "event"
        PROVE  NoteKey(d)' \in excused'[ServiceOfCall(d)']
    BY <2>1, <2>3, SentKept DEF SameNote
  <2>4. ConfirmedIsTaken'
    BY <2>1, SentKept DEF ConfirmedIsTaken, Sent
  <2>5. QED BY <2>1, <2>2, <2>3, <2>4
<1>6. ASSUME NEW c \in Calls, NEW i \in Ids, HandleEvent(c, i)
      PROVE  NoteInv'
  <2>1. UNCHANGED <<wire, taken, delivered, excused>>
    BY <1>6 DEF HandleEvent, memoryVars, erpVars
  <2>2. \A d \in Calls : at[d] = "posting" <=> at'[d] = "posting"
    BY <1>6, <1>t DEF HandleEvent, Resume
  <2>3. QED BY <2>1, <2>2, NotesKept
<1>7. ASSUME NEW c \in Calls, NEW i \in Ids, NEW r \in Routes, Request(c, r, i)
      PROVE  NoteInv'
  <2>1. CASE r = "process"
    <3>1. UNCHANGED <<wire, taken, delivered, excused>>
      BY <1>7, <2>1 DEF Request, memoryVars
    <3>2. \A d \in Calls : at[d] = "posting" <=> at'[d] = "posting"
      BY <1>7, <1>t, <2>1 DEF Request, Resume
    <3>3. QED BY <3>1, <3>2, NotesKept
  <2>2. CASE r # "process"
    <3>1. /\ at[c] \in Unplanned /\ Plan(c, "planner", i, i)
          /\ UNCHANGED <<taken, delivered>>
          /\ i \in Keys /\ i \in Keys \cup Calls /\ "planner" \in Services
      BY <1>7, <2>2, SettlementAssumption DEF Request, Unplanned, memoryVars, Services
    <3>2. route'[c] = r /\ id'[c] = i /\ r \in {"dry-run", "submit"}
      BY <1>7, <2>2 DEF Request, SettlementTypeOK, Routes
    <3>3. ServiceOfCall(c)' = "planner"
      BY <3>2 DEF ServiceOfCall, ServiceOf
    <3>4. NoteKey(c)' = i /\ MapKey(c)' = i
      BY <3>2 DEF NoteKey, MapKey
    <3>5. QED BY <3>1, <3>3, <3>4, PlanNotes
  <2>3. QED BY <2>1, <2>2
<1>8. ASSUME NEW p \in Processes, Crash(p)
      PROVE  NoteInv'
  <2>1. /\ Sent' = Sent /\ taken' = taken
        /\ \A d \in Calls : at'[d] = IF at[d] \in Waiting /\ ProcessOf(route[d]) = p
                                     THEN "lost" ELSE at[d]
        /\ \A x \in Services : delivered'[x] = IF x \in ServicesOf(p) THEN {} ELSE delivered[x]
        /\ \A x \in Services : excused'[x] = IF x \in ServicesOf(p) THEN Keys ELSE excused[x]
    BY <1>8 DEF Crash, erpVars, Sent
  <2>2. \A d \in Sent : ServiceOfCall(d) \in ServicesOf(p) <=> ProcessOf(route[d]) = p
    <3>1. ASSUME NEW d \in Sent
          PROVE  ServiceOfCall(d) \in ServicesOf(p) <=> ProcessOf(route[d]) = p
      <4>1. route[d] \in Routes
        BY SentKept
      <4>2. CASE route[d] = "event"
        BY <4>2 DEF ServiceOfCall, ServiceOf, ServicesOf, ProcessOf, Processes
      <4>3. CASE route[d] = "process"
        BY <4>3 DEF ServiceOfCall, ServiceOf, ServicesOf, ProcessOf, Processes
      <4>4. CASE route[d] \in {"dry-run", "submit"}
        BY <4>4 DEF ServiceOfCall, ServiceOf, ServicesOf, ProcessOf, Processes
      <4>5. QED BY <4>1, <4>2, <4>3, <4>4 DEF Routes
    <3>2. QED BY <3>1
  <2>3. ASSUME NEW d \in Sent' PROVE Accounted(d)'
    <3>1. CASE ServiceOfCall(d) \in ServicesOf(p)
      BY <2>1, <2>3, <3>1, SentKept DEF Accounted
    <3>2. CASE ServiceOfCall(d) \notin ServicesOf(p)
      BY <2>1, <2>2, <2>3, <3>2, SentKept DEF Accounted
    <3>3. QED BY <3>1, <3>2
  <2>4. ASSUME NEW d \in Sent', NEW e \in Sent', d # e, SameNote(d, e)', route'[d] # "event"
        PROVE  NoteKey(d)' \in excused'[ServiceOfCall(d)']
    BY <2>1, <2>4, SentKept DEF SameNote
  <2>5. ConfirmedIsTaken'
    BY <2>1, SentKept DEF ConfirmedIsTaken, Sent
  <2>6. \A d \in Calls : at'[d] = "posting" => d \in Sent'
    BY <2>1
  <2>7. QED BY <2>3, <2>4, <2>5, <2>6
<1>9. ASSUME NEW p \in Processes, Restart(p)
      PROVE  NoteInv'
  BY <1>9, NotesKept DEF Restart, callVars, memoryVars, erpVars
<1>10. CASE UNCHANGED settlementVars
  BY <1>10, NotesKept DEF settlementVars, callVars, memoryVars, erpVars
<1>11. QED
  BY <1>1, <1>2, <1>3, <1>4, <1>5, <1>6, <1>7, <1>8, <1>9, <1>10
     DEF SettlementNext, CallStep

\* Notes stay sent, so what was noted stays noted.
LEMMA NotedKept ==
  ASSUME SettlementTypeOK, NothingYet, [SettlementNext]_settlementVars, Sent \subseteq Sent',
         NEW c \in Calls, at[c] # "free", Noted(c)
  PROVE  Noted(c)'
<1>1. PICK d \in Sent : route[d] \in Redeeming /\ id[d] = id[c]
  BY DEF Noted
<1>2. d \in Sent' /\ route'[d] \in Redeeming /\ id'[d] = id'[c]
  BY <1>1, SentKept, CallKept
<1>3. QED
  BY <1>2 DEF Noted

LEMMA StepExecute ==
  SettlementTypeOK /\ RecordInv /\ NoteInv /\ ExecuteInv /\ [SettlementNext]_settlementVars
    => ExecuteInv'
<1> SUFFICES ASSUME SettlementTypeOK, RecordInv, NoteInv, ExecuteInv,
                    [SettlementNext]_settlementVars
             PROVE  ExecuteInv'
  OBVIOUS
<1>t. /\ NothingYet
      /\ at \in [Calls -> {"free"} \cup Waiting \cup Ended]
      /\ route \in [Calls -> Routes \cup {Nobody}] /\ id \in [Calls -> Ids \cup {Nobody}]
  BY DEF RecordInv, SettlementTypeOK
\* Steps that move on only calls that are noted already, or no call at all.
<1>k. ASSUME Sent \subseteq Sent',
             \A c \in Calls : at'[c] \in AfterPlan /\ route'[c] \in Redeeming
               => at[c] \in AfterPlan,
             \A c \in Calls : at'[c] \in {"rehearsing", "executing", "executed"}
               => at[c] # "free" /\ route[c] \in Redeeming
      PROVE  ExecuteInv'
  <2>1. ASSUME NEW c \in Calls, ErpAddressed, route'[c] \in Redeeming, at'[c] \in AfterPlan
        PROVE  Noted(c)'
    <3>1. at[c] \in AfterPlan /\ at[c] # "free"
      BY <1>k, <2>1 DEF AfterPlan
    <3>2. route[c] \in Redeeming
      BY <2>1, <3>1, CallKept
    <3>3. Noted(c)
      BY <2>1, <3>1, <3>2 DEF ExecuteInv
    <3>4. QED BY <1>k, <1>t, <3>1, <3>3, NotedKept
  <2>2. ASSUME NEW c \in Calls, at'[c] \in {"rehearsing", "executing", "executed"}
        PROVE  route'[c] \in Redeeming
    BY <1>k, <2>2, CallKept
  <2>3. QED BY <2>1, <2>2 DEF ExecuteInv
<1>1. ASSUME NEW c \in Calls,
             \/ Archive(c) \/ ArchiveFails(c) \/ ErpAnswers(c) \/ PostFails(c)
             \/ DryRunFails(c) \/ Execute(c) \/ SubmitEnds(c)
      PROVE  ExecuteInv'
  <2>1. Sent \subseteq Sent'
    BY <1>1 DEF Archive, ArchiveFails, ErpAnswers, PostFails, DryRunFails, Execute, SubmitEnds,
                erpVars, Sent
  <2>2. \A d \in Calls : at'[d] \in AfterPlan => at[d] \in AfterPlan
    BY <1>1, <1>t DEF Archive, ArchiveFails, ErpAnswers, PostFails, DryRunFails, Execute,
                      SubmitEnds, Resume, AfterPlan
  <2>3. \A d \in Calls : at'[d] \in {"rehearsing", "executing", "executed"} =>
          at[d] \in {"rehearsing", "executing", "executed"}
    BY <1>1, <1>t DEF Archive, ArchiveFails, ErpAnswers, PostFails, DryRunFails, Execute,
                      SubmitEnds, Resume
  <2>4. QED BY <1>k, <2>1, <2>2, <2>3 DEF ExecuteInv
<1>2. ASSUME NEW c \in Calls, PlanPasses(c) \/ RehearsalPasses(c)
      PROVE  ExecuteInv'
  <2>1. Sent \subseteq Sent'
    BY <1>2 DEF PlanPasses, RehearsalPasses, erpVars, Sent
  <2>2. \A d \in Calls : at'[d] \in AfterPlan => at[d] \in AfterPlan
    BY <1>2, <1>t DEF PlanPasses, RehearsalPasses, Resume, AfterPlan
  <2>3. at[c] # "free" /\ route[c] \in Routes
    BY <1>2 DEF PlanPasses, RehearsalPasses, SettlementTypeOK
  <2>4. ASSUME NEW d \in Calls, at'[d] \in {"rehearsing", "executing", "executed"}
        PROVE  at[d] # "free" /\ route[d] \in Redeeming
    <3>1. CASE d = c
      BY <1>2, <1>t, <2>3, <2>4, <3>1
         DEF PlanPasses, RehearsalPasses, Resume, ExecuteInv, Routes, Redeeming
    <3>2. CASE d # c
      BY <1>2, <1>t, <2>4, <3>2 DEF PlanPasses, RehearsalPasses, Resume, ExecuteInv
    <3>3. QED BY <3>1, <3>2
  <2>5. QED BY <1>k, <2>1, <2>2, <2>4
<1>3. ASSUME NEW c \in Calls, Report(c)
      PROVE  ExecuteInv'
  <2>1. /\ route[c] \in Settling /\ at[c] # "free" /\ c \notin taken
        /\ Plan(c, ServiceOfCall(c), NoteKey(c), MapKey(c))
    BY <1>3 DEF Report, RecordInv, NothingYet, Unplanned
  <2>2. ServiceOfCall(c) \in Services /\ NoteKey(c) \in Keys /\ MapKey(c) \in Keys \cup Calls
    BY <2>1, NoteTypes
  <2>3. Sent \subseteq Sent'
    BY <1>3, <2>1, <2>2, PlanTypes DEF Report, Sent
  <2>4. PICK stage \in {"failed", "planning", "posting"} : Resume(c, stage)
    BY <2>1, <2>2, PlanTypes
  <2>5. route'[c] \notin Redeeming
    BY <2>1, CallKept DEF Settling, Redeeming
  <2>6. \A d \in Calls : at'[d] \in AfterPlan /\ route'[d] \in Redeeming => at[d] \in AfterPlan
    BY <1>t, <2>4, <2>5 DEF Resume
  <2>7. \A d \in Calls : at'[d] \in {"rehearsing", "executing", "executed"} =>
          at[d] \in {"rehearsing", "executing", "executed"}
    BY <1>t, <2>4 DEF Resume
  <2>8. QED BY <1>k, <2>3, <2>6, <2>7 DEF ExecuteInv
<1>4. ASSUME NEW c \in Calls, ErpTakes(c)
      PROVE  ExecuteInv'
  <2>1. Sent \subseteq Sent' /\ at' = at /\ route' = route
    BY <1>4 DEF ErpTakes, callVars, Sent
  <2>2. QED BY <1>k, <2>1 DEF ExecuteInv
<1>5. ASSUME NEW c \in Calls, NEW i \in Ids, HandleEvent(c, i)
      PROVE  ExecuteInv'
  <2>1. Sent \subseteq Sent'
    BY <1>5 DEF HandleEvent, erpVars, Sent
  <2>2. \A d \in Calls : at'[d] \in AfterPlan => at[d] \in AfterPlan
    BY <1>5, <1>t DEF HandleEvent, Resume, AfterPlan
  <2>3. \A d \in Calls : at'[d] \in {"rehearsing", "executing", "executed"} =>
          at[d] \in {"rehearsing", "executing", "executed"}
    BY <1>5, <1>t DEF HandleEvent, Resume
  <2>4. QED BY <1>k, <2>1, <2>2, <2>3 DEF ExecuteInv
<1>6. ASSUME NEW c \in Calls, NEW i \in Ids, NEW r \in Routes, Request(c, r, i)
      PROVE  ExecuteInv'
  <2>1. CASE r = "process"
    <3>1. Sent \subseteq Sent'
      BY <1>6, <2>1 DEF Request, Sent
    <3>2. \A d \in Calls : at'[d] \in AfterPlan => at[d] \in AfterPlan
      BY <1>6, <1>t, <2>1 DEF Request, Resume, AfterPlan
    <3>3. \A d \in Calls : at'[d] \in {"rehearsing", "executing", "executed"} =>
            at[d] \in {"rehearsing", "executing", "executed"}
      BY <1>6, <1>t, <2>1 DEF Request, Resume
    <3>4. QED BY <1>k, <3>1, <3>2, <3>3 DEF ExecuteInv
  <2>2. CASE r # "process"
    <3>1. /\ at[c] = "free" /\ c \notin taken /\ Plan(c, "planner", i, i)
          /\ i \in Keys /\ i \in Keys \cup Calls /\ "planner" \in Services
          /\ route' = [route EXCEPT ![c] = r] /\ id' = [id EXCEPT ![c] = i]
          /\ r \in Redeeming
      BY <1>6, <1>t, <2>2, SettlementAssumption
         DEF Request, NothingYet, Unplanned, Services, Routes, Redeeming
    <3>2. wire \subseteq wire' /\ taken' = taken /\ Sent \subseteq Sent'
      BY <1>6, <3>1, PlanTypes DEF Request, Sent
    <3>3. PICK stage \in {"failed", "planning", "posting"} : Resume(c, stage)
      BY <3>1, PlanTypes
    <3>4. route'[c] = r /\ id'[c] = i /\ \A d \in Calls : d # c => at'[d] = at[d]
      BY <1>t, <3>1, <3>3 DEF Resume
    <3>5. ASSUME NEW d \in Calls, ErpAddressed, route'[d] \in Redeeming, at'[d] \in AfterPlan
          PROVE  Noted(d)'
      <4>1. CASE d # c
        <5>1. at[d] \in AfterPlan /\ at[d] # "free"
          BY <3>4, <3>5, <4>1 DEF AfterPlan
        <5>2. route[d] \in Redeeming
          BY <3>5, <5>1, CallKept
        <5>3. Noted(d)
          BY <3>5, <5>1, <5>2 DEF ExecuteInv
        <5>4. QED BY <1>t, <3>2, <5>1, <5>3, NotedKept
      <4>2. CASE d = c /\ c \in wire'
        BY <3>1, <3>4, <4>2 DEF Noted, Sent
      <4>3. CASE d = c /\ c \notin wire'
        <5>1. ~MustPost("planner", i)
          BY <1>t, <3>1, <3>5, <4>3 DEF Plan, Resume, AfterPlan
        <5>2. i \in delivered["planner"]
          BY <3>5, <5>1 DEF MustPost, Confirmed
        <5>3. PICK e \in taken : ServiceOfCall(e) = "planner" /\ MapKey(e) = i
          BY <3>1, <5>2 DEF NoteInv, ConfirmedIsTaken
        <5>4. e \in Sent
          BY <5>3 DEF Sent
        <5>5. route[e] \in Redeeming
          BY <1>t, <5>3, <5>4, SentKept, RoutesSplit DEF ServiceOfCall
        <5>6. id[e] = i
          BY <5>3, <5>5 DEF MapKey, NoteKey, Redeeming
        <5>7. route'[e] \in Redeeming /\ id'[e] = i /\ e \in Sent'
          BY <1>t, <3>2, <5>4, <5>5, <5>6, SentKept
        <5>8. QED BY <3>4, <4>3, <5>7 DEF Noted
      <4>4. QED BY <4>1, <4>2, <4>3
    <3>6. ASSUME NEW d \in Calls, at'[d] \in {"rehearsing", "executing", "executed"}
          PROVE  route'[d] \in Redeeming
      <4>1. at[d] \in {"rehearsing", "executing", "executed"}
        BY <1>t, <3>3, <3>6 DEF Resume
      <4>2. QED BY <4>1, CallKept DEF ExecuteInv
    <3>7. QED BY <3>5, <3>6 DEF ExecuteInv
  <2>3. QED BY <2>1, <2>2
<1>7. ASSUME NEW p \in Processes, Crash(p)
      PROVE  ExecuteInv'
  <2>1. Sent \subseteq Sent' /\ route' = route
    BY <1>7 DEF Crash, erpVars, Sent
  <2>2. \A d \in Calls : at'[d] = "lost" \/ at'[d] = at[d]
    BY <1>7 DEF Crash
  <2>3. QED BY <1>k, <2>1, <2>2 DEF ExecuteInv, AfterPlan
<1>8. ASSUME NEW p \in Processes, Restart(p)
      PROVE  ExecuteInv'
  <2>1. Sent \subseteq Sent' /\ at' = at /\ route' = route
    BY <1>8 DEF Restart, callVars, erpVars, Sent
  <2>2. QED BY <1>k, <2>1 DEF ExecuteInv
<1>9. CASE UNCHANGED settlementVars
  <2>1. Sent \subseteq Sent' /\ at' = at /\ route' = route
    BY <1>9 DEF settlementVars, callVars, erpVars, Sent
  <2>2. QED BY <1>k, <2>1 DEF ExecuteInv
<1>10. QED
  BY <1>1, <1>2, <1>3, <1>4, <1>5, <1>6, <1>7, <1>8, <1>9 DEF SettlementNext, CallStep

-----------------------------------------------------------------------------

SettlementInv == SettlementTypeOK /\ RecordInv /\ NoteInv /\ ExecuteInv

LEMMA SettlementInvariant == SettlementSafetySpec => []SettlementInv
<1>1. SettlementInit => SettlementInv
  BY InitType, InitRecord, InitNotes DEF SettlementInv
<1>2. SettlementInv /\ [SettlementNext]_settlementVars => SettlementInv'
  BY StepType, StepRecord, StepNotes, StepExecute DEF SettlementInv, RecordInv
<1>3. QED
  BY <1>1, <1>2, PTL DEF SettlementSafetySpec

\* The state of the calls, of the orchestrators' memory and of the files is
\* what the code says, and a call under way has a process that runs.
THEOREM SettlementTypes == SettlementSafetySpec => []SettlementTypeOK
<1>1. SettlementInv => SettlementTypeOK
  BY DEF SettlementInv
<1>2. QED
  BY <1>1, SettlementInvariant, PTL

\* An acknowledgement stands on a row of its own call, and a row on a proof,
\* wherever either process crashes (SettlementService.process).
THEOREM AcknowledgementsAreBacked == SettlementSafetySpec => []TrailBacksAck
<1>1. SettlementInv => TrailBacksAck
  BY DEF SettlementInv, RecordInv, TrailBacksAck
<1>2. QED
  BY <1>1, SettlementInvariant, PTL

\* The ERP takes a key twice from one orchestrator of the API only with an excuse
\* (GridOperatorClient.syncWithErp).
THEOREM RepostsAreExcused == SettlementSafetySpec => []RepostHasExcuse
<1>1. SettlementInv => RepostHasExcuse
  BY DEF SettlementInv, NoteInv, RepostHasExcuse, Sent
<1>2. QED
  BY <1>1, SettlementInvariant, PTL

\* What an orchestrator takes for confirmed was taken from it.
THEOREM ConfirmationsAreTrue == SettlementSafetySpec => []ConfirmedIsTaken
<1>1. SettlementInv => ConfirmedIsTaken
  BY DEF SettlementInv, NoteInv
<1>2. QED
  BY <1>1, SettlementInvariant, PTL

\* A redemption is executed only after its note was sent
\* (SettlementOrchestrator.planRedemption).
THEOREM ExecutionsAreNoted == SettlementSafetySpec => []ExecutedWasNoted
<1>1. SettlementInv => ExecutedWasNoted
  BY DEF SettlementInv, ExecuteInv, ExecutedWasNoted, AfterPlan, Noted, Sent, Redeeming
<1>2. QED
  BY <1>1, SettlementInvariant, PTL

\* Everything the run checks of the states of the settlement, for every one.
THEOREM SettlementIsSafe == SettlementSafetySpec => []SettlementSafe
<1>1. SettlementTypeOK /\ TrailBacksAck /\ RepostHasExcuse /\ ConfirmedIsTaken /\ ExecutedWasNoted
        => SettlementSafe
  BY DEF SettlementSafe
<1>2. QED
  BY <1>1, SettlementTypes, AcknowledgementsAreBacked, RepostsAreExcused, ConfirmationsAreTrue,
     ExecutionsAreNoted, PTL

-----------------------------------------------------------------------------
(* RedemptionHook.                                                         *)

InRedemption == {"dry run", "plan", "second dry run", "executing"}

\* What a run has behind it where it stands: layer 4's settlement, the note where
\* one is asked for, the record of the burn, and a deployment to redeem at.
RunsAreInOrder ==
  \A r \in Runs :
    /\ progress[r] \in {"credit", "posting"} \cup InRedemption => r \in settled
    /\ asks /\ progress[r] \in InRedemption => posted[IdOf(ExecutionOf[r])] > 0
    /\ progress[r] \in {"second dry run", "executing"} => r \in acked
    /\ progress[r] = "executing" => published
    /\ digest[r] = "stub" => ~published

\* What a client had planned was noted, where notes are asked for.
PlannedIsNoted == asks => \A i \in planned : posted[i] > 0

HookInv ==
  /\ HookTypeOK
  /\ RunsAreInOrder
  /\ PlannedIsNoted
  /\ BatchWasEarned
  /\ StubLeavesChain
  /\ CreditIsTheClaim

\* A coin of at least so many kilowatt hours holds so many.
LEMMA CoinHoldsClaim ==
  ASSUME NEW s \in Nat \ {0}, NEW claim \in Nat, NEW coin \in Nat, coin >= claim * s
  PROVE  coin \div s \in Nat /\ coin \div s >= claim
<1> DEFINE q == coin \div s
<1>1. q \in Nat /\ coin < s * q + s
  OBVIOUS
<1> HIDE DEF q
<1>2. ASSUME q < claim PROVE FALSE
  <2>1. q + 1 <= claim
    BY <1>1, <1>2
  <2>2. (claim - (q + 1)) * s \in Nat
    BY <1>1, <2>1
  <2>3. (claim - (q + 1)) * s = claim * s - s * q - s
    BY <1>1
  <2>4. claim * s \in Nat /\ s * q \in Nat
    BY <1>1
  <2>5. QED
    BY <1>1, <2>2, <2>3, <2>4
<1>3. QED
  BY <1>1, <1>2 DEF q

\* What a check answers, whoever asks.
LEMMA CreditChecks ==
  ASSUME HookAssumption,
         NEW input, input.claim \in Nat, input.coin \in Nat, input.batch \in Nat,
         input.redeemed \in BOOLEAN
  PROVE  LET checked == CreditOf(input)
         IN  /\ checked.ok \in BOOLEAN /\ checked.max \in Nat
             /\ checked.ok => checked.max = checked.input.claim
<1> DEFINE checked == CreditOf(input)
<1>1. /\ checked.input = input /\ checked.ok = validateCredit(input)
      /\ checked.max = IF validateCredit(input) THEN MaxCreditKwh(input) ELSE 0
  BY DEF CreditOf
<1>2. validateCredit(input) \in BOOLEAN
  BY DEF validateCredit
<1>3. ASSUME validateCredit(input)
      PROVE  MaxCreditKwh(input) = input.claim
  <2>1. input.coin >= input.claim * Scale /\ input.batch = input.claim
    BY <1>3 DEF validateCredit
  <2>2. input.coin \div Scale \in Nat /\ input.coin \div Scale >= input.claim
    BY <2>1, CoinHoldsClaim DEF HookAssumption
  <2>3. QED
    BY <2>1, <2>2 DEF MaxCreditKwh
<1> HIDE DEF checked
<1>4. QED
  BY <1>1, <1>2, <1>3 DEF checked

LEMMA InitHook == HookAssumption /\ HookInit => HookInv
<1> SUFFICES ASSUME HookAssumption, HookInit PROVE HookInv
  OBVIOUS
<1> DEFINE checked == CreditOf(HookCredit(0))
<1>1. /\ checked.ok \in BOOLEAN /\ checked.max \in Nat
      /\ checked.ok => checked.max = checked.input.claim
  <2>1. 0 * Scale \in Nat
    BY DEF HookAssumption
  <2>2. /\ HookCredit(0).claim \in Nat /\ HookCredit(0).coin \in Nat
        /\ HookCredit(0).batch \in Nat /\ HookCredit(0).redeemed \in BOOLEAN
    BY <2>1 DEF HookCredit
  <2> HIDE DEF checked
  <2>3. QED
    BY <2>2, CreditChecks DEF checked
<1> HIDE DEF checked
<1>2. credit = checked
  BY DEF HookInit, checked
<1>3. HookTypeOK
  BY <1>1, <1>2 DEF HookInit, HookTypeOK, Places
<1>4. RunsAreInOrder /\ PlannedIsNoted /\ BatchWasEarned /\ StubLeavesChain
  BY DEF HookInit, RunsAreInOrder, PlannedIsNoted, InRedemption, BatchWasEarned, StubLeavesChain
<1>5. CreditIsTheClaim
  BY <1>1, <1>2 DEF CreditIsTheClaim
<1>6. QED
  BY <1>3, <1>4, <1>5 DEF HookInv

\* What the steps of a run r that leave the chain alone have in common: r alone
\* moves, to where what it needs is behind it.
LEMMA RunGoes ==
  ASSUME HookInv, NEW r \in Runs, NEW place \in Places, Go(r, place),
         progress[r] # "done",
         settled \subseteq settled', settled' \subseteq Runs,
         acked \subseteq acked', acked' \subseteq settled',
         place \in {"credit", "posting"} \cup InRedemption => r \in settled',
         posted' \in [RedemptionIds -> Nat],
         \A i \in RedemptionIds : posted[i] > 0 => posted'[i] > 0,
         asks /\ place \in InRedemption => posted'[IdOf(ExecutionOf[r])] > 0,
         place \in {"second dry run", "executing"} => r \in acked',
         place = "executing" => published,
         NEW reply \in {"none", "stub", "digest"}, digest' = [digest EXCEPT ![r] = reply],
         reply # "none" => place = "done" /\ r \in acked',
         reply = "stub" => ~published,
         credit'.ok \in BOOLEAN, credit'.max \in Nat, CreditIsTheClaim',
         HookAssumption,
         UNCHANGED <<published, asks, batch, usedIds, planned>>
  PROVE  HookInv'
<1>1. /\ progress \in [Runs -> Places] /\ digest \in [Runs -> {"none", "stub", "digest"}]
      /\ digest[r] = "none"
      /\ settled \subseteq Runs /\ acked \subseteq settled
  BY DEF HookInv, HookTypeOK, BatchWasEarned
<1>2. /\ progress'[r] = place /\ digest'[r] = reply
      /\ \A s \in Runs \ {r} : progress'[s] = progress[s] /\ digest'[s] = digest[s]
      /\ progress' \in [Runs -> Places] /\ digest' \in [Runs -> {"none", "stub", "digest"}]
  BY <1>1 DEF Go
<1>3. HookTypeOK'
  BY <1>1, <1>2 DEF HookInv, HookTypeOK
<1>4. \A s \in Runs : IdOf(ExecutionOf[s]) \in RedemptionIds
  BY DEF HookAssumption, IdOf, RedemptionIds
<1>5. RunsAreInOrder'
  <2> SUFFICES ASSUME NEW s \in Runs
               PROVE  /\ progress'[s] \in {"credit", "posting"} \cup InRedemption => s \in settled'
                      /\ asks /\ progress'[s] \in InRedemption => posted'[IdOf(ExecutionOf[s])] > 0
                      /\ progress'[s] \in {"second dry run", "executing"} => s \in acked'
                      /\ progress'[s] = "executing" => published
                      /\ digest'[s] = "stub" => ~published
    BY DEF RunsAreInOrder
  <2>1. CASE s = r
    BY <1>2, <2>1
  <2>2. CASE s # r
    BY <1>2, <1>4, <2>2 DEF HookInv, RunsAreInOrder
  <2>3. QED
    BY <2>1, <2>2
<1>6. BatchWasEarned' /\ PlannedIsNoted'
  <2>1. ASSUME batch # NoId
        PROVE  /\ (\E s \in acked' : ExecutionOf[s] = batch)
                  \/ \E i \in planned' : redemptionIdBytes(i) = batch
               /\ asks => \E i \in RedemptionIds : redemptionIdBytes(i) = batch /\ posted'[i] > 0
    BY <2>1 DEF HookInv, BatchWasEarned
  <2>2. BatchWasEarned'
    BY <2>1 DEF BatchWasEarned
  <2>3. PlannedIsNoted'
    BY DEF HookInv, HookTypeOK, PlannedIsNoted
  <2>4. QED
    BY <2>2, <2>3
<1>7. StubLeavesChain'
  <2>1. ASSUME batch # NoId
        PROVE  published /\ \A s \in Runs : digest'[s] # "stub"
    BY <1>2, <2>1 DEF HookInv, StubLeavesChain
  <2>2. QED
    BY <2>1 DEF StubLeavesChain
<1>8. QED
  BY <1>3, <1>5, <1>6, <1>7 DEF HookInv

\* A run that is under way has reported nothing.
LEMMA NothingReported ==
  ASSUME HookTypeOK, NEW r \in Runs, progress[r] # "done", UNCHANGED digest
  PROVE  digest' = [digest EXCEPT ![r] = "none"]
BY DEF HookTypeOK

LEMMA PlanningKeepsHookInv ==
  ASSUME HookAssumption, HookInv, NEW r \in Runs,
         Outcome(r) \/ PlanRedemption(r) \/ Posted(r) \/ DryRun(r) \/ Acknowledge(r)
  PROVE  HookInv'
<1>1. /\ settled \subseteq Runs /\ acked \subseteq settled
      /\ posted \in [RedemptionIds -> Nat]
      /\ credit.ok \in BOOLEAN /\ credit.max \in Nat /\ CreditIsTheClaim
  BY DEF HookInv, HookTypeOK, BatchWasEarned
<1>2. /\ progress[r] \in {"credit", "posting"} \cup InRedemption => r \in settled
      /\ asks /\ progress[r] \in InRedemption => posted[IdOf(ExecutionOf[r])] > 0
  BY DEF HookInv, RunsAreInOrder
<1>3. progress[r] # "done" /\ UNCHANGED <<published, asks, batch, usedIds, planned, digest>>
  BY DEF Outcome, PlanRedemption, Posted, DryRun, Acknowledge
<1>4. digest' = [digest EXCEPT ![r] = "none"]
  BY <1>3, NothingReported DEF HookInv
<1>5. CASE Outcome(r)
  <2>1. PICK final \in BOOLEAN, isSettled \in BOOLEAN :
          /\ settled' = IF final /\ isSettled THEN settled \cup {r} ELSE settled
          /\ Go(r, IF HookRuns(final, isSettled) THEN "credit" ELSE "done")
    BY <1>5 DEF Outcome
  <2>2. UNCHANGED <<posted, acked, credit>> /\ CreditIsTheClaim'
    BY <1>1, <1>5 DEF Outcome, CreditIsTheClaim
  <2>3. CASE final /\ isSettled
    <3>1. Go(r, "credit") /\ settled' = settled \cup {r}
      BY <2>1, <2>3 DEF HookRuns
    <3>2. QED
      BY <1>1, <1>3, <1>4, <2>2, <3>1, RunGoes DEF Places, InRedemption
  <2>4. CASE ~(final /\ isSettled)
    <3>1. Go(r, "done") /\ settled' = settled
      BY <2>1, <2>4 DEF HookRuns
    <3>2. QED
      BY <1>1, <1>3, <1>4, <2>2, <3>1, RunGoes DEF Places, InRedemption
  <2>5. QED
    BY <2>3, <2>4
<1>6. CASE PlanRedemption(r)
  <2>1. PICK kwh \in Kwh :
          /\ credit' = CreditOf(HookCredit(kwh))
          /\ Go(r, IF ~validateCredit(HookCredit(kwh)) THEN "threw"
                   ELSE IF asks THEN "posting" ELSE "dry run")
    BY <1>6 DEF PlanRedemption
  <2>2. UNCHANGED <<settled, posted, acked>> /\ progress[r] = "credit"
    BY <1>6 DEF PlanRedemption
  <2>3. credit'.ok \in BOOLEAN /\ credit'.max \in Nat /\ CreditIsTheClaim'
    <3> DEFINE input == HookCredit(kwh)
               checked == CreditOf(input)
    <3>1. kwh \in Nat /\ kwh * Scale \in Nat
      BY DEF HookAssumption
    <3>2. /\ input.claim \in Nat /\ input.coin \in Nat
          /\ input.batch \in Nat /\ input.redeemed \in BOOLEAN
      BY <3>1 DEF HookCredit
    <3> HIDE DEF input
    <3>3. /\ checked.ok \in BOOLEAN /\ checked.max \in Nat
          /\ checked.ok => checked.max = checked.input.claim
      BY <3>2, CreditChecks
    <3> HIDE DEF checked
    <3>4. credit' = checked
      BY <2>1 DEF checked, input
    <3>5. QED
      BY <3>3, <3>4 DEF CreditIsTheClaim
  <2>4. PICK place \in {"threw", "posting", "dry run"} :
          Go(r, place) /\ (place = "dry run" => ~asks)
    BY <2>1
  <2>5. QED
    BY <1>1, <1>2, <1>3, <1>4, <2>2, <2>3, <2>4, RunGoes DEF Places, InRedemption
<1>7. CASE Posted(r)
  <2>1. /\ Go(r, "dry run") /\ progress[r] = "posting"
        /\ posted' = [posted EXCEPT ![IdOf(ExecutionOf[r])] = @ + 1]
        /\ UNCHANGED <<settled, acked, credit>>
    BY <1>7 DEF Posted
  <2>2. IdOf(ExecutionOf[r]) \in RedemptionIds
    BY DEF HookAssumption, IdOf, RedemptionIds
  <2>3. /\ posted' \in [RedemptionIds -> Nat] /\ posted'[IdOf(ExecutionOf[r])] > 0
        /\ \A i \in RedemptionIds : posted[i] > 0 => posted'[i] > 0
    <3> DEFINE named == IdOf(ExecutionOf[r])
    <3>1. named \in RedemptionIds /\ posted' = [posted EXCEPT ![named] = @ + 1]
      BY <2>1, <2>2
    <3> HIDE DEF named
    <3>2. posted' \in [RedemptionIds -> Nat] /\ posted'[named] = posted[named] + 1
      BY <1>1, <3>1
    <3>3. \A i \in RedemptionIds : posted'[i] = IF i = named THEN posted[i] + 1 ELSE posted[i]
      BY <1>1, <3>1
    <3>4. QED
      BY <1>1, <3>1, <3>2, <3>3 DEF named
  <2>4. CreditIsTheClaim'
    BY <1>1, <2>1 DEF CreditIsTheClaim
  <2>5. QED
    BY <1>1, <1>2, <1>3, <1>4, <2>1, <2>3, <2>4, RunGoes DEF Places, InRedemption
<1>8. CASE DryRun(r)
  <2>1. /\ progress[r] = "dry run" /\ UNCHANGED <<settled, posted, acked, credit>>
        /\ CreditIsTheClaim'
    BY <1>1, <1>8 DEF DryRun, CreditIsTheClaim
  <2>2. PICK place \in {"plan", "threw"} : Go(r, place)
    BY <1>8 DEF DryRun
  <2>3. QED
    BY <1>1, <1>2, <1>3, <1>4, <2>1, <2>2, RunGoes DEF Places, InRedemption
<1>9. CASE Acknowledge(r)
  <2>1. /\ progress[r] = "plan" /\ Go(r, "second dry run") /\ acked' = acked \cup {r}
        /\ UNCHANGED <<settled, posted, credit>> /\ CreditIsTheClaim'
    BY <1>1, <1>9 DEF Acknowledge, CreditIsTheClaim
  <2>2. QED
    BY <1>1, <1>2, <1>3, <1>4, <2>1, RunGoes DEF Places, InRedemption
<1>10. QED
  BY <1>5, <1>6, <1>7, <1>8, <1>9

LEMMA SecondDryRunKeepsHookInv ==
  ASSUME HookAssumption, HookInv, NEW r \in Runs, SecondDryRun(r)
  PROVE  HookInv'
<1>1. /\ settled \subseteq Runs /\ acked \subseteq settled
      /\ posted \in [RedemptionIds -> Nat]
      /\ credit.ok \in BOOLEAN /\ credit.max \in Nat /\ CreditIsTheClaim
      /\ published \in BOOLEAN
  BY DEF HookInv, HookTypeOK, BatchWasEarned
<1>2. /\ progress[r] = "second dry run"
      /\ UNCHANGED <<published, asks, settled, batch, usedIds, posted, planned, acked, credit>>
      /\ CreditIsTheClaim'
  BY <1>1 DEF SecondDryRun, CreditIsTheClaim
<1>3. /\ r \in settled /\ r \in acked
      /\ asks => posted[IdOf(ExecutionOf[r])] > 0
  BY <1>2 DEF HookInv, RunsAreInOrder, InRedemption
<1>4. CASE ~published /\ Go(r, "done") /\ digest' = [digest EXCEPT ![r] = "stub"]
  BY <1>1, <1>2, <1>3, <1>4, RunGoes DEF Places, InRedemption
<1>5. CASE published /\ digest' = digest /\ \E place \in {"executing", "threw"} : Go(r, place)
  <2>1. digest' = [digest EXCEPT ![r] = "none"]
    BY <1>2, <1>5, NothingReported DEF HookInv
  <2>2. QED
    BY <1>1, <1>2, <1>3, <1>5, <2>1, RunGoes DEF Places, InRedemption
<1>6. QED
  BY <1>4, <1>5 DEF SecondDryRun, UseStub

\* A run's redemption: the run is settled, noted and recorded.
LEMMA ExecuteKeepsHookInv ==
  ASSUME HookAssumption, HookInv, NEW r \in Runs, ExecuteRedemption(r)
  PROVE  HookInv'
<1>1. /\ progress[r] = "executing"
      /\ UNCHANGED <<published, asks, settled, posted, planned, acked, credit>>
  BY DEF ExecuteRedemption
<1>2. /\ published /\ r \in acked /\ r \in settled /\ (asks => posted[IdOf(ExecutionOf[r])] > 0)
      /\ ExecutionOf[r] \in Executions /\ redemptionIdBytes(IdOf(ExecutionOf[r])) = ExecutionOf[r]
  BY <1>1 DEF HookInv, RunsAreInOrder, InRedemption, HookAssumption, redemptionIdBytes, IdOf
<1>3. PICK reply \in {"none", "digest"}, place \in {"done", "threw"} :
        /\ Go(r, place) /\ digest' = [digest EXCEPT ![r] = reply]
        /\ reply = "digest" => place = "done"
  <2>1. UNCHANGED digest => digest' = [digest EXCEPT ![r] = "none"]
    BY <1>1, NothingReported DEF HookInv
  <2>2. QED
    BY <2>1 DEF ExecuteRedemption
<1>4. \/ UNCHANGED <<batch, usedIds>>
      \/ batch' = ExecutionOf[r] /\ usedIds' = usedIds \cup {ExecutionOf[r]}
  BY <1>2 DEF ExecuteRedemption
<1>5. /\ progress' \in [Runs -> Places] /\ progress'[r] = place
      /\ digest' \in [Runs -> {"none", "stub", "digest"}] /\ digest'[r] = reply
      /\ \A s \in Runs \ {r} : progress'[s] = progress[s] /\ digest'[s] = digest[s]
  BY <1>3 DEF Go, HookInv, HookTypeOK, Places
<1>6. HookTypeOK'
  <2>1. usedIds' \subseteq Executions /\ (batch' = NoId \/ batch' \in usedIds')
    BY <1>2, <1>4 DEF HookInv, HookTypeOK
  <2>2. \A s \in Runs : digest'[s] # "none" => progress'[s] = "done" /\ s \in acked
    BY <1>2, <1>3, <1>5 DEF HookInv, HookTypeOK
  <2>3. QED
    BY <1>1, <1>5, <2>1, <2>2 DEF HookInv, HookTypeOK
<1>7. RunsAreInOrder'
  BY <1>1, <1>2, <1>3, <1>5 DEF HookInv, RunsAreInOrder, InRedemption
<1>8. BatchWasEarned' /\ PlannedIsNoted'
  <2>1. IdOf(ExecutionOf[r]) \in RedemptionIds
    BY <1>2 DEF IdOf, RedemptionIds
  <2>2. PlannedIsNoted'
    BY <1>1 DEF HookInv, PlannedIsNoted
  <2>3. QED
    BY <1>1, <1>2, <1>4, <2>1, <2>2 DEF HookInv, BatchWasEarned
<1>9. StubLeavesChain'
  BY <1>1, <1>2, <1>5 DEF HookInv, RunsAreInOrder, StubLeavesChain
<1>10. CreditIsTheClaim'
  BY <1>1 DEF HookInv, CreditIsTheClaim
<1>11. QED
  BY <1>6, <1>7, <1>8, <1>9, <1>10 DEF HookInv

\* What others do to the chain, and checks.
LEMMA OthersKeepHookInv ==
  ASSUME HookAssumption, HookInv,
         \/ \E i \in RedemptionIds : ClientPlans(i) \/ ClientSubmits(i) \/ ClientRedeems(i)
         \/ CheckCredit
         \/ UNCHANGED hookVars
  PROVE  HookInv'
<1>1. ASSUME UNCHANGED <<published, asks, progress, settled, batch, posted, planned, acked, digest>>,
             usedIds \subseteq usedIds', usedIds' \subseteq Executions,
             credit'.ok \in BOOLEAN, credit'.max \in Nat, CreditIsTheClaim'
      PROVE  HookInv'
  BY <1>1 DEF HookInv, HookTypeOK, RunsAreInOrder, PlannedIsNoted, BatchWasEarned, StubLeavesChain
<1>2. ASSUME NEW i \in RedemptionIds, ClientRedeems(i) PROVE HookInv'
  <2>1. usedIds' \subseteq Executions
    BY <1>2 DEF ClientRedeems, HookInv, HookTypeOK, RedemptionIds, redemptionIdBytes
  <2>2. QED
    BY <1>1, <1>2, <2>1 DEF ClientRedeems, HookInv, HookTypeOK, CreditIsTheClaim
<1>3. CASE CheckCredit
  <2>1. PICK claim \in Kwh, inBatch \in Kwh, coin \in CheckedCoins, spent \in BOOLEAN :
          credit' = CreditOf([claim |-> claim, coin |-> coin, batch |-> inBatch,
                              redeemed |-> spent])
    BY <1>3 DEF CheckCredit
  <2>2. claim \in Nat /\ inBatch \in Nat /\ coin \in Nat
    <3>1. PICK k \in Kwh, d \in {0, Scale - 1} : coin = k * Scale + d
      BY DEF CheckedCoins
    <3>2. k * Scale \in Nat /\ d \in Nat
      BY DEF HookAssumption
    <3>3. QED
      BY <3>1, <3>2 DEF HookAssumption
  <2> DEFINE input == [claim |-> claim, coin |-> coin, batch |-> inBatch, redeemed |-> spent]
             checked == CreditOf(input)
  <2>3. /\ input.claim \in Nat /\ input.coin \in Nat
        /\ input.batch \in Nat /\ input.redeemed \in BOOLEAN
    BY <2>2
  <2> HIDE DEF input
  <2>4. /\ checked.ok \in BOOLEAN /\ checked.max \in Nat
        /\ checked.ok => checked.max = checked.input.claim
    BY <2>3, CreditChecks
  <2> HIDE DEF checked
  <2>5. credit' = checked
    BY <2>1 DEF checked, input
  <2>6. QED
    BY <1>1, <1>3, <2>4, <2>5 DEF CheckCredit, CreditIsTheClaim, HookInv, HookTypeOK
<1>4. CASE UNCHANGED hookVars
  BY <1>1, <1>4 DEF hookVars, HookInv, HookTypeOK, CreditIsTheClaim
<1>5. ASSUME NEW i \in RedemptionIds, ClientPlans(i) PROVE HookInv'
  <2>1. posted \in [RedemptionIds -> Nat]
    BY DEF HookInv, HookTypeOK
  <2>2. posted' \in [RedemptionIds -> Nat] /\ \A j \in RedemptionIds : posted[j] > 0 => posted'[j] > 0
    BY <1>5, <2>1 DEF ClientPlans
  <2>3. asks => posted'[i] > 0
    BY <1>5, <2>1 DEF ClientPlans
  <2>4. /\ UNCHANGED <<published, asks, progress, settled, batch, usedIds, acked, digest, credit>>
        /\ planned' = planned \cup {i}
    BY <1>5 DEF ClientPlans
  <2>5. HookTypeOK' /\ PlannedIsNoted' /\ StubLeavesChain' /\ CreditIsTheClaim'
    BY <2>2, <2>3, <2>4 DEF HookInv, HookTypeOK, PlannedIsNoted, StubLeavesChain, CreditIsTheClaim
  <2>6. \A r \in Runs : IdOf(ExecutionOf[r]) \in RedemptionIds
    BY DEF HookAssumption, IdOf, RedemptionIds
  <2>7. RunsAreInOrder'
    BY <2>2, <2>4, <2>6 DEF HookInv, RunsAreInOrder
  <2>8. BatchWasEarned'
    BY <2>2, <2>4 DEF HookInv, BatchWasEarned
  <2>9. QED
    BY <2>5, <2>7, <2>8 DEF HookInv
<1>6. ASSUME NEW i \in RedemptionIds, ClientSubmits(i) PROVE HookInv'
  <2>1. /\ i \in planned /\ published /\ redemptionIdBytes(i) \in Executions
        /\ batch' = redemptionIdBytes(i) /\ usedIds' = usedIds \cup {redemptionIdBytes(i)}
        /\ UNCHANGED <<published, asks, progress, settled, posted, planned, acked, digest, credit>>
    BY <1>6 DEF ClientSubmits, RedemptionIds, redemptionIdBytes
  <2>2. HookTypeOK' /\ PlannedIsNoted' /\ RunsAreInOrder' /\ CreditIsTheClaim'
    BY <2>1 DEF HookInv, HookTypeOK, PlannedIsNoted, RunsAreInOrder, CreditIsTheClaim
  <2>3. StubLeavesChain'
    BY <2>1 DEF HookInv, RunsAreInOrder, StubLeavesChain
  <2>4. BatchWasEarned'
    BY <2>1 DEF HookInv, PlannedIsNoted, BatchWasEarned
  <2>5. QED
    BY <2>2, <2>3, <2>4 DEF HookInv
<1>7. QED
  BY <1>2, <1>3, <1>4, <1>5, <1>6

\* A burn is recorded for what was settled, the deployment's batch redeemed for a
\* record of a run or for a client who planned it, after the note; a credit is what
\* is claimed, and a stub leaves the chain alone, however the runs and the clients
\* interleave (runFullPipeline.ts, settlementOrchestrator.ts, suiRedemptionHook.ts).
THEOREM RedemptionsAreEarned == HookSpec => []HookSafe
<1> USE HookAssumption
<1>1. HookInit => HookInv
  BY InitHook
<1>2. HookInv /\ [HookNext]_hookVars => HookInv'
  BY PlanningKeepsHookInv, SecondDryRunKeepsHookInv, ExecuteKeepsHookInv, OthersKeepHookInv
     DEF HookNext
<1>3. HookInv => HookSafe
  BY DEF HookInv, HookSafe
<1>4. QED
  BY <1>1, <1>2, <1>3, PTL DEF HookSpec

-----------------------------------------------------------------------------
(* EvidenceArchive.                                                        *)

\* A call under way knows what it pins, and once it makes its report the proof
\* is pinned and filed.
CallsAreInOrder ==
  \A c \in Settlers :
    /\ pinStage[c] \in {"pinning proof", "pinning report"} =>
         of[c] \in SettledIds /\ payload[c] \in Payloads /\ payload[c].of = of[c]
    /\ pinStage[c] = "pinning report" =>
         /\ proof[c] \in Cids /\ proof[c].payload \in pins
         /\ disk.proofs[of[c]] # None

\* The files of a store are where its rows look for them.
FilesFit(store) ==
  /\ \A k \in Contracts :
       store.reports[k] # None => ContractOf[store.reports[k].payload.of] = k
  /\ \A r \in store.rows :
       /\ store.proofs[r.execution] # None
       /\ r.report # Zero => store.reports[ContractOf[r.execution]] # None

\* A content id that names a pinned payload if it is an address.
PinnedIfUri(cid) == cid \notin {None, Zero} /\ cid.name = "uri" => cid.payload \in pins

\* NamedIsPinned, for a store at hand.
NamesPinned(store) ==
  /\ \A r \in store.rows : PinnedIfUri(r.proof) /\ PinnedIfUri(r.report)
  /\ \A e \in SettledIds : PinnedIfUri(store.proofs[e])
  /\ \A k \in Contracts : PinnedIfUri(store.reports[k])

EvidenceInv ==
  /\ EvidenceTypeOK
  /\ CallsAreInOrder
  /\ FilesFit(disk) /\ FilesFit(memory)
  /\ NamesPinned(disk)
  /\ FiledIsOnRecord

-----------------------------------------------------------------------------
(* What is written to a store.                                             *)

LEMMA StoreParts ==
  ASSUME NEW store \in Stores
  PROVE  /\ store.proofs \in [SettledIds -> Cids \cup {None}]
         /\ store.reports \in [Contracts -> Cids \cup {None}]
         /\ store.rows \subseteq Rows
BY DEF Stores

\* A proof is filed.
LEMMA FilingProof ==
  ASSUME NEW store \in Stores, NEW e \in SettledIds, NEW cid \in Cids, FilesFit(store),
         FilesAreSomething
  PROVE  LET after == ProofFiled(store, e, cid)
         IN  /\ after \in Stores /\ FilesFit(after)
             /\ after.rows = store.rows /\ after.reports = store.reports
             /\ after.proofs[e] = cid
             /\ \A f \in SettledIds \ {e} : after.proofs[f] = store.proofs[f]
<1> DEFINE after == ProofFiled(store, e, cid)
<1>1. /\ after.proofs = [store.proofs EXCEPT ![e] = cid]
      /\ after.rows = store.rows /\ after.reports = store.reports
      /\ after \in Stores
  BY DEF ProofFiled, Stores
<1> HIDE DEF after
<1>2. after.proofs[e] = cid /\ \A f \in SettledIds \ {e} : after.proofs[f] = store.proofs[f]
  BY <1>1, StoreParts
<1>3. \A r \in store.rows : r.execution \in SettledIds
  BY StoreParts DEF Rows
<1>4. cid # None
  BY FilesAreSomething DEF FilesAreSomething
<1>5. FilesFit(after)
  BY <1>1, <1>2, <1>3, <1>4 DEF FilesFit
<1>6. QED
  BY <1>1, <1>2, <1>5 DEF after

\* A report is filed under its contract.
LEMMA FilingReport ==
  ASSUME EvidenceAssumption, FilesAreSomething,
         NEW store \in Stores, NEW e \in SettledIds, NEW cid \in Cids, FilesFit(store),
         cid.payload.of = e
  PROVE  LET after == ReportFiled(store, e, cid)
         IN  /\ after \in Stores /\ FilesFit(after)
             /\ after.rows = store.rows /\ after.proofs = store.proofs
             /\ after.reports[ContractOf[e]] = cid
             /\ \A k \in Contracts \ {ContractOf[e]} : after.reports[k] = store.reports[k]
<1> DEFINE after == ReportFiled(store, e, cid)
           slot == ContractOf[e]
<1>1. slot \in Contracts
  BY DEF EvidenceAssumption
<1>2. /\ after.reports = [store.reports EXCEPT ![slot] = cid]
      /\ after.rows = store.rows /\ after.proofs = store.proofs
      /\ after \in Stores
  BY <1>1 DEF ReportFiled, Stores
<1>3. ContractOf[cid.payload.of] = slot
  OBVIOUS
<1> HIDE DEF after, slot
<1>4. after.reports[slot] = cid /\ \A k \in Contracts \ {slot} : after.reports[k] = store.reports[k]
  BY <1>1, <1>2, StoreParts
<1>5. cid # None
  BY FilesAreSomething DEF FilesAreSomething
<1>6. \A r \in store.rows : ContractOf[r.execution] \in Contracts
  BY StoreParts DEF Rows, EvidenceAssumption
<1>7. FilesFit(after)
  BY <1>2, <1>3, <1>4, <1>5, <1>6 DEF FilesFit
<1>8. QED
  BY <1>2, <1>4, <1>7 DEF after, slot

\* A row is appended whose files are there.
LEMMA AppendingRow ==
  ASSUME NEW store \in Stores, FilesFit(store),
         NEW c \in Settlers, NEW e \in SettledIds, NEW p \in Cids, NEW r \in Cids \cup {Zero},
         store.proofs[e] # None,
         r # Zero => store.reports[ContractOf[e]] # None
  PROVE  LET after == RowAppended(store, c, e, p, r)
         IN  /\ after \in Stores /\ FilesFit(after)
             /\ after.proofs = store.proofs /\ after.reports = store.reports
             /\ after.rows = store.rows \cup {Row(c, e, p, r)}
<1> DEFINE after == RowAppended(store, c, e, p, r)
           row == Row(c, e, p, r)
<1>1. row \in Rows /\ row.execution = e /\ row.report = r
  BY DEF Row, Rows
<1> HIDE DEF row
<1>2. /\ after.proofs = store.proofs /\ after.reports = store.reports
      /\ after.rows = store.rows \cup {row}
      /\ after \in Stores
  BY <1>1 DEF RowAppended, Stores, row
<1> HIDE DEF after
<1>3. FilesFit(after)
  BY <1>1, <1>2 DEF FilesFit
<1>4. QED
  BY <1>2, <1>3 DEF after, row

-----------------------------------------------------------------------------
(* The steps.                                                              *)

LEMMA PayloadsAreTyped ==
  ASSUME EvidenceAssumption, EvidenceTypeOK, NEW e \in SettledIds
  PROVE  /\ Payload("proof", e, now) \in Payloads /\ Payload("report", e, now) \in Payloads
         /\ HashedProof(e, now) \in Payloads
         /\ Payload("proof", e, now).of = e /\ Payload("report", e, now).of = e
         /\ \A p \in Payloads, name \in {"hash", "uri"} :
              /\ Cid(name, p) \in Cids
              /\ Cid(name, p).payload = p /\ Cid(name, p).name = name
<1>1. now \in 0 .. MaxTime /\ 0 \in 0 .. MaxTime
  <2>1. MaxTime \in Nat
    BY DEF EvidenceAssumption
  <2>2. now \in 1 .. MaxTime
    BY DEF EvidenceTypeOK
  <2>3. QED
    BY <2>1, <2>2
<1>2. /\ Payload("proof", e, now) \in Payloads /\ Payload("report", e, now) \in Payloads
      /\ Payload("proof", e, now).of = e /\ Payload("report", e, now).of = e
  BY <1>1 DEF Payload, Payloads
<1>3. HashedProof(e, now) \in Payloads
  BY <1>1 DEF Payload, HashedProof, Payloads
<1>4. ASSUME NEW p \in Payloads, NEW name \in {"hash", "uri"}
      PROVE  /\ Cid(name, p) \in Cids
             /\ Cid(name, p).payload = p /\ Cid(name, p).name = name
  BY DEF Cid, Cids
<1>5. QED
  BY <1>2, <1>3, <1>4

LEMMA EmptyStore ==
  /\ Empty \in Stores /\ FilesFit(Empty) /\ NamesPinned(Empty)
  /\ \A e \in SettledIds : Empty.proofs[e] = None
BY DEF Empty, Stores, FilesFit, NamesPinned, PinnedIfUri

LEMMA InitEvidence == EvidenceAssumption /\ EvidenceInit => EvidenceInv
<1> SUFFICES ASSUME EvidenceAssumption, EvidenceInit PROVE EvidenceInv
  OBVIOUS
<1>1. backend \in {"memory", "disk", "ipfs"} /\ pinnable \in BOOLEAN
  <2>1. PICK v \in Environments : backend = Backend(v) /\ pinnable = Pinnable(v)
    BY DEF EvidenceInit
  <2>2. QED
    BY <2>1 DEF Backend, Pinnable
<1>2. EvidenceTypeOK
  BY <1>1, EmptyStore DEF EvidenceInit, EvidenceTypeOK, EvidenceAssumption
<1>3. CallsAreInOrder /\ FiledIsOnRecord
  BY EmptyStore DEF EvidenceInit, CallsAreInOrder, FiledIsOnRecord
<1>4. FilesFit(disk) /\ FilesFit(memory) /\ NamesPinned(disk)
  BY EmptyStore DEF EvidenceInit
<1>5. QED
  BY <1>2, <1>3, <1>4 DEF EvidenceInv

\* A call writes a record in one go.
LEMMA RecordingStore ==
  ASSUME EvidenceAssumption, FilesAreSomething, EvidenceTypeOK,
         NEW c \in Settlers, NEW e \in SettledIds,
         NEW store \in Stores, FilesFit(store)
  PROVE  LET after == Recorded(store, c, e)
         IN  /\ after \in Stores /\ FilesFit(after)
             /\ NamesPinned(store) => NamesPinned(after)
             /\ store.rows \subseteq after.rows
             /\ \A f \in SettledIds \ {e} : after.proofs[f] = store.proofs[f]
             /\ \E row \in after.rows : row.proof = after.proofs[e]
<1> DEFINE p == Cid("hash", HashedProof(e, now))
           r == Cid("hash", Payload("report", e, now))
           first == ProofFiled(store, e, p)
           second == ReportFiled(first, e, r)
           after == RowAppended(second, c, e, p, r)
           row == Row(c, e, p, r)
<1>1. /\ p \in Cids /\ r \in Cids /\ p.name = "hash" /\ r.name = "hash" /\ r.payload.of = e
      /\ p # None /\ r # None /\ ContractOf[e] \in Contracts
  BY PayloadsAreTyped, FilesAreSomething DEF FilesAreSomething, EvidenceAssumption
<1> HIDE DEF p, r
<1>2. /\ first \in Stores /\ FilesFit(first) /\ first.rows = store.rows
      /\ first.reports = store.reports /\ first.proofs[e] = p
      /\ \A f \in SettledIds \ {e} : first.proofs[f] = store.proofs[f]
  BY <1>1, FilingProof
<1> HIDE DEF first
<1>3. /\ second \in Stores /\ FilesFit(second) /\ second.rows = store.rows
      /\ second.proofs = first.proofs /\ second.reports[ContractOf[e]] = r
      /\ \A k \in Contracts \ {ContractOf[e]} : second.reports[k] = store.reports[k]
  BY <1>1, <1>2, FilingReport
<1> HIDE DEF second
<1>4. /\ after \in Stores /\ FilesFit(after)
      /\ after.proofs = first.proofs /\ after.reports = second.reports
      /\ after.rows = store.rows \cup {row}
  BY <1>1, <1>2, <1>3, AppendingRow
<1>5. row.proof = p /\ row.report = r
  BY DEF Row
<1> HIDE DEF after, row
<1>6. NamesPinned(store) => NamesPinned(after)
  <2> SUFFICES ASSUME NamesPinned(store) PROVE NamesPinned(after)
    OBVIOUS
  <2>1. PinnedIfUri(p) /\ PinnedIfUri(r)
    BY <1>1 DEF PinnedIfUri
  <2>2. \A x \in after.rows : PinnedIfUri(x.proof) /\ PinnedIfUri(x.report)
    BY <1>4, <1>5, <2>1 DEF NamesPinned
  <2>3. \A f \in SettledIds : PinnedIfUri(after.proofs[f])
    BY <1>2, <1>4, <2>1 DEF NamesPinned
  <2>4. \A k \in Contracts : PinnedIfUri(after.reports[k])
    BY <1>3, <1>4, <2>1 DEF NamesPinned
  <2>5. QED
    BY <2>2, <2>3, <2>4 DEF NamesPinned
<1>7. after = Recorded(store, c, e)
  BY DEF Recorded, after, second, first, p, r
<1>8. QED
  BY <1>2, <1>4, <1>5, <1>6, <1>7

LEMMA RecordKeepsEvidenceInv ==
  ASSUME EvidenceAssumption, FilesAreSomething, EvidenceInv,
         NEW c \in Settlers, NEW e \in SettledIds, Record(c, e)
  PROVE  EvidenceInv'
<1> USE DEF EvidenceInv
<1>0. EvidenceTypeOK /\ disk \in Stores /\ memory \in Stores
  BY DEF EvidenceTypeOK
<1>1. /\ pinStage[c] = "free" /\ backend \in {"disk", "memory"}
      /\ of' = [of EXCEPT ![c] = e]
      /\ pinStage' = [pinStage EXCEPT ![c] = "recorded"]
      /\ UNCHANGED <<backend, pinnable, restarts, now, payload, proof, pins>>
  BY DEF Record, MoveOn, processVars
<1>2. /\ of' \in [Settlers -> SettledIds \cup {None}]
      /\ pinStage' \in [Settlers -> {"free", "pinning proof", "pinning report", "recorded", "failed", "lost"}]
      /\ pinStage'[c] = "recorded" /\ pinStage[c] = "free"
      /\ \A d \in Settlers \ {c} : pinStage'[d] = pinStage[d] /\ of'[d] = of[d]
  BY <1>1 DEF EvidenceTypeOK
<1>3. \A d \in Settlers : pinStage[d] \notin {"pinning proof", "pinning report"}
  BY <1>1 DEF EvidenceTypeOK
<1>4. CallsAreInOrder'
  BY <1>2, <1>3 DEF CallsAreInOrder
<1>5. CASE disk' = Recorded(disk, c, e) /\ UNCHANGED memory
  <2> DEFINE after == Recorded(disk, c, e)
  <2>1. /\ after \in Stores /\ FilesFit(after) /\ NamesPinned(after)
        /\ disk.rows \subseteq after.rows
        /\ \A f \in SettledIds \ {e} : after.proofs[f] = disk.proofs[f]
        /\ \E row \in after.rows : row.proof = after.proofs[e]
    BY <1>0, RecordingStore
  <2> HIDE DEF after
  <2>2. disk' = after
    BY <1>5 DEF after
  <2>3. EvidenceTypeOK'
    BY <1>1, <1>2, <1>3, <1>5, <2>1, <2>2 DEF EvidenceTypeOK
  <2>4. FiledIsOnRecord'
    <3> SUFFICES ASSUME NEW f \in SettledIds, after.proofs[f] # None
                 PROVE  \/ \E row \in after.rows : row.proof = after.proofs[f]
                        \/ \E d \in Settlers : /\ pinStage'[d] \in {"pinning report", "lost"}
                                              /\ proof[d] = after.proofs[f]
      BY <1>1, <2>2 DEF FiledIsOnRecord
    <3>1. CASE f = e
      BY <2>1, <3>1
    <3>2. CASE f # e
      <4>1. disk.proofs[f] # None /\ after.proofs[f] = disk.proofs[f]
        BY <2>1, <3>2
      <4>2. CASE \E row \in disk.rows : row.proof = disk.proofs[f]
        BY <2>1, <4>1, <4>2
      <4>3. CASE \E d \in Settlers : /\ pinStage[d] \in {"pinning report", "lost"}
                                     /\ proof[d] = disk.proofs[f]
        <5>1. PICK d \in Settlers : pinStage[d] \in {"pinning report", "lost"} /\ proof[d] = disk.proofs[f]
          BY <4>3
        <5>2. pinStage'[d] = pinStage[d]
          BY <1>2, <5>1
        <5>3. QED
          BY <4>1, <5>1, <5>2
      <4>4. QED
        BY <4>1, <4>2, <4>3 DEF FiledIsOnRecord
    <3>3. QED
      BY <3>1, <3>2
  <2>5. FilesFit(disk') /\ FilesFit(memory') /\ NamesPinned(disk)'
    BY <1>1, <1>5, <2>1, <2>2 DEF NamesPinned, PinnedIfUri
  <2>6. QED
    BY <1>4, <2>3, <2>4, <2>5 DEF FilesFit
<1>6. CASE memory' = Recorded(memory, c, e) /\ UNCHANGED disk
  <2> DEFINE after == Recorded(memory, c, e)
  <2>1. after \in Stores /\ FilesFit(after)
    BY <1>0, RecordingStore
  <2> HIDE DEF after
  <2>2. memory' = after
    BY <1>6 DEF after
  <2>3. EvidenceTypeOK'
    BY <1>1, <1>2, <1>3, <1>6, <2>1, <2>2 DEF EvidenceTypeOK
  <2>4. FiledIsOnRecord'
    <3>1. \A d \in Settlers : pinStage[d] \in {"pinning report", "lost"} => pinStage'[d] = pinStage[d]
      BY <1>2
    <3>2. QED
      BY <1>1, <1>6, <3>1 DEF FiledIsOnRecord
  <2>5. FilesFit(disk') /\ FilesFit(memory') /\ NamesPinned(disk)'
    BY <1>1, <1>6, <2>1, <2>2 DEF NamesPinned, PinnedIfUri
  <2>6. QED
    BY <1>4, <2>3, <2>4, <2>5 DEF FilesFit
<1>7. QED
  BY <1>5, <1>6 DEF Record

\* What stays when neither store nor the pins change.
LEMMA StoresStay ==
  ASSUME EvidenceInv, UNCHANGED <<disk, memory, pins>>
  PROVE  (FilesFit(disk) /\ FilesFit(memory) /\ NamesPinned(disk))'
BY DEF EvidenceInv, FilesFit, NamesPinned, PinnedIfUri

LEMMA StartKeepsEvidenceInv ==
  ASSUME EvidenceAssumption, EvidenceInv,
         NEW c \in Settlers, NEW e \in SettledIds, StartArchive(c, e)
  PROVE  EvidenceInv'
<1>0. EvidenceTypeOK /\ CallsAreInOrder /\ FiledIsOnRecord
  BY DEF EvidenceInv
<1>1. /\ pinStage[c] = "free" /\ backend = "ipfs"
      /\ of' = [of EXCEPT ![c] = e]
      /\ payload' = [payload EXCEPT ![c] = Payload("proof", e, now)]
      /\ pinStage' = [pinStage EXCEPT ![c] = "pinning proof"]
      /\ UNCHANGED <<backend, pinnable, restarts, now, proof, disk, memory, pins>>
  BY DEF StartArchive, Send, MoveOn, processVars
<1>2. Payload("proof", e, now) \in Payloads /\ Payload("proof", e, now).of = e
  BY <1>0, PayloadsAreTyped
<1>3. EvidenceTypeOK'
  BY <1>0, <1>1, <1>2 DEF EvidenceTypeOK
<1>4. /\ of'[c] = e /\ payload'[c] = Payload("proof", e, now) /\ pinStage'[c] = "pinning proof"
      /\ \A d \in Settlers \ {c} :
           pinStage'[d] = pinStage[d] /\ of'[d] = of[d] /\ payload'[d] = payload[d]
  BY <1>0, <1>1 DEF EvidenceTypeOK
<1>5. CallsAreInOrder'
  BY <1>0, <1>1, <1>2, <1>4 DEF CallsAreInOrder
<1>6. FiledIsOnRecord'
  <2>1. \A d \in Settlers : pinStage[d] \in {"pinning report", "lost"} => pinStage'[d] = pinStage[d]
    BY <1>1, <1>4
  <2>2. QED
    BY <1>0, <1>1, <2>1 DEF FiledIsOnRecord
<1>7. QED
  BY <1>1, <1>3, <1>5, <1>6, StoresStay DEF EvidenceInv

LEMMA PinsKeepEvidenceInv ==
  ASSUME EvidenceInv, NEW c \in Settlers, ServicePins(c)
  PROVE  EvidenceInv'
<1>0. EvidenceTypeOK /\ CallsAreInOrder /\ FiledIsOnRecord
      /\ FilesFit(disk) /\ FilesFit(memory) /\ NamesPinned(disk)
  BY DEF EvidenceInv
<1>1. /\ payload[c] # None /\ pins' = pins \cup {payload[c]}
      /\ UNCHANGED <<backend, pinnable, restarts, now, pinStage, of, payload, proof, disk, memory>>
  BY DEF ServicePins, processVars, settlerVars
<1>2. EvidenceTypeOK'
  BY <1>0, <1>1 DEF EvidenceTypeOK
<1>3. CallsAreInOrder'
  BY <1>0, <1>1 DEF CallsAreInOrder
<1>4. NamesPinned(disk)'
  BY <1>0, <1>1 DEF NamesPinned, PinnedIfUri
<1>5. FilesFit(disk)' /\ FilesFit(memory)' /\ FiledIsOnRecord'
  BY <1>0, <1>1 DEF FilesFit, FiledIsOnRecord
<1>6. QED
  BY <1>2, <1>3, <1>4, <1>5 DEF EvidenceInv

LEMMA ProofPinKeepsEvidenceInv ==
  ASSUME EvidenceAssumption, FilesAreSomething, EvidenceInv,
         NEW c \in Settlers, ProofPinned(c)
  PROVE  EvidenceInv'
<1> DEFINE e == of[c]
           cid == Cid("uri", payload[c])
           after == ProofFiled(disk, e, cid)
<1>0. /\ EvidenceTypeOK /\ CallsAreInOrder /\ FiledIsOnRecord
      /\ FilesFit(disk) /\ FilesFit(memory) /\ NamesPinned(disk)
      /\ disk \in Stores /\ memory \in Stores
  BY DEF EvidenceInv, EvidenceTypeOK
<1>1. /\ pinStage[c] = "pinning proof" /\ payload[c] \in pins
      /\ proof' = [proof EXCEPT ![c] = cid]
      /\ disk' = after
      /\ payload' = [payload EXCEPT ![c] = Payload("report", e, now)]
      /\ pinStage' = [pinStage EXCEPT ![c] = "pinning report"]
      /\ UNCHANGED <<backend, pinnable, restarts, now, of, memory, pins>>
  BY DEF ProofPinned, Answered, Send, MoveOn, processVars
<1>2. e \in SettledIds /\ payload[c] \in Payloads
  BY <1>0, <1>1 DEF CallsAreInOrder
<1>3. /\ cid \in Cids /\ cid.payload = payload[c] /\ cid.name = "uri" /\ cid # None
      /\ Payload("report", e, now) \in Payloads /\ Payload("report", e, now).of = e
  <2>1. \A name \in {"hash", "uri"} : Cid(name, payload[c]) \in Cids
          /\ Cid(name, payload[c]).payload = payload[c] /\ Cid(name, payload[c]).name = name
    BY <1>0, <1>2, PayloadsAreTyped
  <2>2. Payload("report", e, now) \in Payloads /\ Payload("report", e, now).of = e
    BY <1>0, <1>2, PayloadsAreTyped
  <2>3. QED
    BY <2>1, <2>2, FilesAreSomething DEF FilesAreSomething
<1> DEFINE sent == Payload("report", e, now)
<1> HIDE DEF cid, sent
<1>4. /\ after \in Stores /\ FilesFit(after)
      /\ after.rows = disk.rows /\ after.reports = disk.reports
      /\ after.proofs[e] = cid
      /\ \A f \in SettledIds \ {e} : after.proofs[f] = disk.proofs[f]
  BY <1>0, <1>2, <1>3, FilingProof
<1> HIDE DEF after
<1>5. payload' = [payload EXCEPT ![c] = sent] /\ sent \in Payloads /\ sent.of = e
  BY <1>1, <1>3 DEF sent
<1>6. EvidenceTypeOK'
  BY <1>0, <1>1, <1>3, <1>4, <1>5 DEF EvidenceTypeOK
<1>7. /\ payload'[c] = sent /\ proof'[c] = cid /\ pinStage'[c] = "pinning report"
      /\ \A d \in Settlers \ {c} :
           pinStage'[d] = pinStage[d] /\ payload'[d] = payload[d] /\ proof'[d] = proof[d]
  BY <1>0, <1>1, <1>5 DEF EvidenceTypeOK
<1>8. CallsAreInOrder'
  <2>1. \A f \in SettledIds : disk.proofs[f] # None => disk'.proofs[f] # None
    BY <1>1, <1>3, <1>4
  <2>2. disk'.proofs[e] # None /\ cid.payload \in pins /\ of' = of /\ pins' = pins
    BY <1>1, <1>3, <1>4
  <2> SUFFICES ASSUME NEW d \in Settlers
               PROVE  /\ pinStage'[d] \in {"pinning proof", "pinning report"} =>
                            of[d] \in SettledIds /\ payload'[d] \in Payloads /\ payload'[d].of = of[d]
                      /\ pinStage'[d] = "pinning report" =>
                            /\ proof'[d] \in Cids /\ proof'[d].payload \in pins
                            /\ disk'.proofs[of[d]] # None
    BY <2>2 DEF CallsAreInOrder
  <2>3. CASE d = c
    BY <1>2, <1>3, <1>5, <1>7, <2>2, <2>3
  <2>4. CASE d # c
    BY <1>0, <1>7, <2>1, <2>4 DEF CallsAreInOrder
  <2>5. QED
    BY <2>3, <2>4
<1>9. NamesPinned(disk)'
  <2>1. PinnedIfUri(cid)
    BY <1>1, <1>3 DEF PinnedIfUri
  <2>2. \A f \in SettledIds : PinnedIfUri(after.proofs[f])
    BY <1>0, <1>4, <2>1 DEF NamesPinned
  <2>3. NamesPinned(after)
    BY <1>0, <1>4, <2>2 DEF NamesPinned
  <2>4. QED
    BY <1>1, <2>3 DEF NamesPinned, PinnedIfUri
<1>10. FiledIsOnRecord'
  <2> SUFFICES ASSUME NEW f \in SettledIds, after.proofs[f] # None
               PROVE  \/ \E row \in after.rows : row.proof = after.proofs[f]
                      \/ \E d \in Settlers : /\ pinStage'[d] \in {"pinning report", "lost"}
                                            /\ proof'[d] = after.proofs[f]
    BY <1>1 DEF FiledIsOnRecord
  <2>1. CASE f = e
    BY <1>4, <1>7, <2>1
  <2>2. CASE f # e
    <3>1. after.proofs[f] = disk.proofs[f]
      BY <1>4, <2>2
    <3>2. \A d \in Settlers : pinStage[d] \in {"pinning report", "lost"} =>
            pinStage'[d] = pinStage[d] /\ proof'[d] = proof[d]
      BY <1>1, <1>7
    <3>3. QED
      BY <1>0, <1>4, <3>1, <3>2 DEF FiledIsOnRecord
  <2>3. QED
    BY <2>1, <2>2
<1>11. FilesFit(disk)' /\ FilesFit(memory)'
  BY <1>0, <1>1, <1>4 DEF FilesFit
<1>12. QED
  BY <1>6, <1>8, <1>9, <1>10, <1>11 DEF EvidenceInv

\* Once a call writes its row, with a report or with none, it has its record.
LEMMA LastRowKeepsEvidenceInv ==
  ASSUME EvidenceAssumption, FilesAreSomething, EvidenceInv,
         NEW c \in Settlers, NEW r \in Cids \cup {Zero},
         NEW filed \in Stores, FilesFit(filed), NamesPinned(filed),
         filed.rows = disk.rows, filed.proofs = disk.proofs,
         r # Zero => filed.reports[ContractOf[of[c]]] # None,
         PinnedIfUri(r),
         pinStage[c] = "pinning report",
         disk' = RowAppended(filed, c, of[c], proof[c], r),
         pinStage' = [pinStage EXCEPT ![c] = "recorded"],
         UNCHANGED <<backend, pinnable, restarts, now, of, payload, proof, memory, pins>>
  PROVE  EvidenceInv'
<1> DEFINE e == of[c]
           after == RowAppended(filed, c, e, proof[c], r)
           row == Row(c, e, proof[c], r)
<1>0. /\ EvidenceTypeOK /\ CallsAreInOrder /\ FiledIsOnRecord
      /\ FilesFit(memory) /\ NamesPinned(disk)
  BY DEF EvidenceInv
<1>a. /\ disk' = RowAppended(filed, c, e, proof[c], r)
      /\ pinStage' = [pinStage EXCEPT ![c] = "recorded"]
      /\ UNCHANGED <<backend, pinnable, restarts, now, of, payload, proof, memory, pins>>
  OBVIOUS
<1>b. /\ filed \in Stores /\ FilesFit(filed) /\ NamesPinned(filed) /\ r \in Cids \cup {Zero}
      /\ filed.rows = disk.rows /\ filed.proofs = disk.proofs
      /\ r # Zero => filed.reports[ContractOf[e]] # None
  OBVIOUS
<1>1. /\ e \in SettledIds /\ proof[c] \in Cids /\ proof[c].payload \in pins
      /\ filed.proofs[e] # None
  BY <1>0 DEF CallsAreInOrder
<1>2. /\ after \in Stores /\ FilesFit(after)
      /\ after.proofs = filed.proofs /\ after.reports = filed.reports
      /\ after.rows = filed.rows \cup {row}
  BY ONLY <1>1, <1>b, AppendingRow
<1>3. row.proof = proof[c] /\ row.report = r
  BY DEF Row
<1>4. disk' = after
  BY <1>a
<1> HIDE DEF after, row
<1>5. EvidenceTypeOK'
  BY <1>0, <1>a, <1>b, <1>2, <1>4 DEF EvidenceTypeOK
<1>6. /\ pinStage'[c] = "recorded"
      /\ \A d \in Settlers \ {c} : pinStage'[d] = pinStage[d]
  BY <1>0 DEF EvidenceTypeOK
<1>p. /\ disk'.proofs = disk.proofs /\ disk'.rows = after.rows
      /\ of' = of /\ payload' = payload /\ proof' = proof /\ pins' = pins
  BY <1>a, <1>b, <1>2, <1>4
<1>7. CallsAreInOrder'
  <2>1. \A d \in Settlers :
          pinStage'[d] \in {"pinning proof", "pinning report"} => pinStage'[d] = pinStage[d]
    BY <1>6
  <2>2. QED
    BY ONLY <1>0, <1>p, <2>1 DEF CallsAreInOrder
<1>8. NamesPinned(disk)'
  <2>1. PinnedIfUri(proof[c])
    BY <1>1 DEF PinnedIfUri
  <2>2. \A x \in after.rows : PinnedIfUri(x.proof) /\ PinnedIfUri(x.report)
    BY <1>2, <1>3, <2>1 DEF NamesPinned
  <2>3. NamesPinned(after)
    BY <1>2, <2>2 DEF NamesPinned
  <2>4. QED
    BY <1>a, <1>b, <1>4, <2>3 DEF NamesPinned, PinnedIfUri
<1>9. FiledIsOnRecord'
  <2> SUFFICES ASSUME NEW f \in SettledIds, disk'.proofs[f] # None
               PROVE  \/ \E x \in disk'.rows : x.proof = disk'.proofs[f]
                      \/ \E d \in Settlers : /\ pinStage'[d] \in {"pinning report", "lost"}
                                            /\ proof'[d] = disk'.proofs[f]
    BY DEF FiledIsOnRecord
  <2>0. disk.proofs[f] # None /\ disk'.proofs[f] = disk.proofs[f]
    BY <1>p
  <2>1. CASE \E x \in disk.rows : x.proof = disk.proofs[f]
    BY <1>2, <1>p, <2>0, <2>1
  <2>2. CASE \E d \in Settlers : /\ pinStage[d] \in {"pinning report", "lost"}
                                 /\ proof[d] = disk.proofs[f]
    <3>1. PICK d \in Settlers : pinStage[d] \in {"pinning report", "lost"} /\ proof[d] = disk.proofs[f]
      BY <2>2
    <3>2. CASE d = c
      BY <1>2, <1>3, <1>p, <2>0, <3>1, <3>2
    <3>3. CASE d # c
      BY <1>6, <1>p, <2>0, <3>1, <3>3
    <3>4. QED
      BY <3>2, <3>3
  <2>3. QED
    BY <1>0, <2>0, <2>1, <2>2 DEF FiledIsOnRecord
<1>10. FilesFit(disk)' /\ FilesFit(memory)'
  BY ONLY <1>0, <1>a, <1>b, <1>2, <1>4 DEF FilesFit
<1>11. QED
  BY <1>5, <1>7, <1>8, <1>9, <1>10 DEF EvidenceInv

LEMMA ReportPinKeepsEvidenceInv ==
  ASSUME EvidenceAssumption, FilesAreSomething, EvidenceInv,
         NEW c \in Settlers, ReportPinned(c)
  PROVE  EvidenceInv'
<1> DEFINE e == of[c]
           cid == Cid("uri", payload[c])
           filed == ReportFiled(disk, e, cid)
<1>0. /\ EvidenceTypeOK /\ CallsAreInOrder
      /\ FilesFit(disk) /\ NamesPinned(disk) /\ disk \in Stores
  BY DEF EvidenceInv, EvidenceTypeOK
<1>1. /\ pinStage[c] = "pinning report" /\ payload[c] \in pins
      /\ disk' = RowAppended(filed, c, e, proof[c], cid)
      /\ pinStage' = [pinStage EXCEPT ![c] = "recorded"]
      /\ UNCHANGED <<backend, pinnable, restarts, now, of, payload, proof, memory, pins>>
  BY DEF ReportPinned, Answered, MoveOn, processVars
<1>2. e \in SettledIds /\ payload[c] \in Payloads /\ payload[c].of = e
  BY <1>0, <1>1 DEF CallsAreInOrder
<1>3. \A name \in {"hash", "uri"} : Cid(name, payload[c]) \in Cids
        /\ Cid(name, payload[c]).payload = payload[c] /\ Cid(name, payload[c]).name = name
  BY <1>0, <1>2, PayloadsAreTyped
<1>4. cid \in Cids /\ cid.payload = payload[c] /\ cid.name = "uri" /\ cid # None
  BY <1>3, FilesAreSomething DEF FilesAreSomething
<1> HIDE DEF cid
<1>5. /\ filed \in Stores /\ FilesFit(filed)
      /\ filed.rows = disk.rows /\ filed.proofs = disk.proofs
      /\ filed.reports[ContractOf[e]] = cid
      /\ \A k \in Contracts \ {ContractOf[e]} : filed.reports[k] = disk.reports[k]
  BY <1>0, <1>2, <1>4, FilingReport
<1> HIDE DEF filed
<1>6. PinnedIfUri(cid)
  BY <1>1, <1>4 DEF PinnedIfUri
<1>7. NamesPinned(filed)
  <2>1. \A k \in Contracts : PinnedIfUri(filed.reports[k])
    BY <1>0, <1>5, <1>6 DEF NamesPinned
  <2>2. QED
    BY <1>0, <1>5, <2>1 DEF NamesPinned
<1>8. QED
  BY <1>1, <1>4, <1>5, <1>6, <1>7, LastRowKeepsEvidenceInv

LEMMA ReportPinFailureKeepsEvidenceInv ==
  ASSUME EvidenceAssumption, FilesAreSomething, EvidenceInv,
         NEW c \in Settlers, ReportPinFails(c)
  PROVE  EvidenceInv'
<1>1. disk \in Stores /\ FilesFit(disk) /\ NamesPinned(disk)
  BY DEF EvidenceInv, EvidenceTypeOK
<1>2. /\ pinStage[c] = "pinning report"
      /\ disk' = RowAppended(disk, c, of[c], proof[c], Zero)
      /\ pinStage' = [pinStage EXCEPT ![c] = "recorded"]
      /\ UNCHANGED <<backend, pinnable, restarts, now, of, payload, proof, memory, pins>>
  BY DEF ReportPinFails, WithoutReport, MoveOn, processVars
<1>3. PinnedIfUri(Zero) /\ Zero \in Cids \cup {Zero}
  BY DEF PinnedIfUri
<1>4. QED
  BY <1>1, <1>2, <1>3, LastRowKeepsEvidenceInv

LEMMA ProofPinFailureKeepsEvidenceInv ==
  ASSUME EvidenceInv, NEW c \in Settlers, ProofPinFails(c)
  PROVE  EvidenceInv'
<1>0. EvidenceTypeOK /\ CallsAreInOrder /\ FiledIsOnRecord
  BY DEF EvidenceInv
<1>1. /\ pinStage[c] = "pinning proof" /\ pinStage' = [pinStage EXCEPT ![c] = "failed"]
      /\ UNCHANGED <<backend, pinnable, restarts, now, of, payload, proof, disk, memory, pins>>
  BY DEF ProofPinFails, MoveOn, processVars
<1>2. EvidenceTypeOK'
  BY <1>0, <1>1 DEF EvidenceTypeOK
<1>3. pinStage'[c] = "failed" /\ \A d \in Settlers \ {c} : pinStage'[d] = pinStage[d]
  BY <1>0, <1>1 DEF EvidenceTypeOK
<1>4. CallsAreInOrder'
  BY <1>0, <1>1, <1>3 DEF CallsAreInOrder
<1>5. FiledIsOnRecord'
  <2>1. \A d \in Settlers : pinStage[d] \in {"pinning report", "lost"} => pinStage'[d] = pinStage[d]
    BY <1>1, <1>3
  <2>2. QED
    BY <1>0, <1>1, <2>1 DEF FiledIsOnRecord
<1>6. QED
  BY <1>1, <1>2, <1>4, <1>5, StoresStay DEF EvidenceInv

LEMMA RestartKeepsEvidenceInv ==
  ASSUME EvidenceAssumption, EvidenceInv, RestartArchive
  PROVE  EvidenceInv'
<1>0. /\ EvidenceTypeOK /\ CallsAreInOrder /\ FiledIsOnRecord
      /\ FilesFit(disk) /\ NamesPinned(disk)
  BY DEF EvidenceInv
<1>1. /\ restarts < MaxRestarts /\ restarts' = restarts + 1
      /\ pinStage' = [c \in Settlers |-> IF pinStage[c] \in {"pinning proof", "pinning report"}
                                        THEN "lost" ELSE pinStage[c]]
      /\ memory' = Empty
      /\ UNCHANGED <<now, of, payload, proof, disk, pins>>
  BY DEF RestartArchive
<1>2. backend' \in {"memory", "disk", "ipfs"} /\ pinnable' \in BOOLEAN
  <2>1. PICK v \in Environments : backend' = Backend(v) /\ pinnable' = Pinnable(v)
    BY DEF RestartArchive
  <2>2. QED
    BY <2>1 DEF Backend, Pinnable
<1>3. restarts' \in 0 .. MaxRestarts
  <2>1. MaxRestarts \in Nat
    BY DEF EvidenceAssumption
  <2>2. restarts \in 0 .. MaxRestarts
    BY <1>0 DEF EvidenceTypeOK
  <2>3. restarts < MaxRestarts /\ restarts' = restarts + 1
    BY <1>1
  <2>4. QED
    BY ONLY <2>1, <2>2, <2>3
<1>4. /\ pinStage' \in [Settlers -> {"free", "pinning proof", "pinning report", "recorded", "failed", "lost"}]
      /\ \A c \in Settlers : /\ pinStage'[c] \notin {"pinning proof", "pinning report"}
                             /\ pinStage[c] \in {"pinning report", "lost"} => pinStage'[c] = "lost"
  BY <1>0, <1>1 DEF EvidenceTypeOK
<1>5. EvidenceTypeOK'
  BY <1>0, <1>1, <1>2, <1>3, <1>4, EmptyStore DEF EvidenceTypeOK
<1>6. CallsAreInOrder' /\ FiledIsOnRecord'
  BY <1>0, <1>1, <1>4 DEF CallsAreInOrder, FiledIsOnRecord
<1>7. (FilesFit(disk) /\ FilesFit(memory) /\ NamesPinned(disk))'
  BY <1>0, <1>1, EmptyStore DEF FilesFit, NamesPinned, PinnedIfUri
<1>8. QED
  BY <1>5, <1>6, <1>7 DEF EvidenceInv

LEMMA TickKeepsEvidenceInv ==
  ASSUME EvidenceAssumption, EvidenceInv,
         Tick \/ UNCHANGED evidenceVars
  PROVE  EvidenceInv'
<1>0. EvidenceTypeOK /\ CallsAreInOrder /\ FiledIsOnRecord
  BY DEF EvidenceInv
<1>1. /\ now' = now \/ (now < MaxTime /\ now' = now + 1)
      /\ UNCHANGED <<backend, pinnable, restarts, pinStage, of, payload, proof, disk, memory, pins>>
  BY DEF Tick, processVars, settlerVars, evidenceVars
<1>2. now' \in 1 .. MaxTime
  <2>1. MaxTime \in Nat
    BY DEF EvidenceAssumption
  <2>2. now \in 1 .. MaxTime
    BY <1>0 DEF EvidenceTypeOK
  <2>3. QED
    BY <1>1, <2>1, <2>2
<1>3. EvidenceTypeOK'
  BY <1>0, <1>1, <1>2 DEF EvidenceTypeOK
<1>4. CallsAreInOrder' /\ FiledIsOnRecord'
  BY <1>0, <1>1 DEF CallsAreInOrder, FiledIsOnRecord
<1>5. QED
  BY <1>1, <1>3, <1>4, StoresStay DEF EvidenceInv

LEMMA StepKeepsEvidenceInv ==
  EvidenceAssumption /\ FilesAreSomething /\ EvidenceInv /\ [EvidenceNext]_evidenceVars => EvidenceInv'
<1> SUFFICES ASSUME EvidenceAssumption, FilesAreSomething, EvidenceInv,
                    [EvidenceNext]_evidenceVars
             PROVE  EvidenceInv'
  OBVIOUS
<1>1. CASE \E c \in Settlers, e \in SettledIds : Record(c, e)
  BY <1>1, RecordKeepsEvidenceInv
<1>2. CASE \E c \in Settlers, e \in SettledIds : StartArchive(c, e)
  BY <1>2, StartKeepsEvidenceInv
<1>3. CASE \E c \in Settlers : ServicePins(c)
  BY <1>3, PinsKeepEvidenceInv
<1>4. CASE \E c \in Settlers : ProofPinned(c)
  BY <1>4, ProofPinKeepsEvidenceInv
<1>5. CASE \E c \in Settlers : ProofPinFails(c)
  BY <1>5, ProofPinFailureKeepsEvidenceInv
<1>6. CASE \E c \in Settlers : ReportPinned(c)
  BY <1>6, ReportPinKeepsEvidenceInv
<1>7. CASE \E c \in Settlers : ReportPinFails(c)
  BY <1>7, ReportPinFailureKeepsEvidenceInv
<1>8. CASE Tick \/ UNCHANGED evidenceVars
  BY <1>8, TickKeepsEvidenceInv
<1>9. CASE RestartArchive
  BY <1>9, RestartKeepsEvidenceInv
<1>10. QED
  BY <1>1, <1>2, <1>3, <1>4, <1>5, <1>6, <1>7, <1>8, <1>9 DEF EvidenceNext

\* What the invariant gives.
LEMMA EvidenceInvIsSafe == EvidenceAssumption /\ EvidenceInv => EvidenceSafe
<1> SUFFICES ASSUME EvidenceAssumption, EvidenceInv PROVE EvidenceSafe
  OBVIOUS
<1>1. /\ EvidenceTypeOK /\ FiledIsOnRecord
      /\ FilesFit(disk) /\ FilesFit(memory) /\ NamesPinned(disk)
      /\ disk \in Stores /\ memory \in Stores
  BY DEF EvidenceInv, EvidenceTypeOK
<1>2. NamedIsPinned
  BY <1>1 DEF NamedIsPinned, NamesPinned, PinnedIfUri
<1>3. ASSUME NEW store \in Stores, FilesFit(store), NEW r \in store.rows
      PROVE  /\ store.proofs[r.execution] # None
             /\ r.report # Zero =>
                  /\ store.reports[ContractOf[r.execution]] # None
                  /\ ContractOf[store.reports[ContractOf[r.execution]].payload.of] = ContractOf[r.execution]
  <2>1. ContractOf[r.execution] \in Contracts
    BY <1>3, StoreParts DEF Rows, EvidenceAssumption
  <2>2. QED
    BY <1>3, <2>1 DEF FilesFit
<1>4. RowsFindFiles
  BY <1>1, <1>3 DEF RowsFindFiles
<1>5. QED
  BY <1>1, <1>2, <1>4 DEF EvidenceSafe

-----------------------------------------------------------------------------

\* The archive, wherever the process dies and whatever the pinning service
\* answers (SettlementService.process, ZKProofArchive, IpfsPinClient): rows find
\* their files, files their rows, and a name the pinned content.
THEOREM TrailIsComplete == EvidenceSpec => []EvidenceSafe
<1>1. EvidenceInit => EvidenceInv
  BY EvidenceAssumption, InitEvidence
<1>2. EvidenceInv /\ [EvidenceNext]_evidenceVars => EvidenceInv'
  BY EvidenceAssumption, FilesAreSomething, StepKeepsEvidenceInv
<1>3. EvidenceInv => EvidenceSafe
  BY EvidenceAssumption, EvidenceInvIsSafe
<1>4. QED
  BY <1>1, <1>2, <1>3, PTL DEF EvidenceSpec
=============================================================================
