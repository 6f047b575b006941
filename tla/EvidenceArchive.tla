--------------------------- MODULE EvidenceArchive ---------------------------
(***************************************************************************)
(* Layer 5 off chain: the evidence a settlement leaves behind.             *)
(*                                                                         *)
(* SettlementService.process archives a proof of the execution, makes a    *)
(* regulatory report and appends an audit row that names both by content   *)
(* id.  The environment picks where they go: the memory of the process, a  *)
(* data directory, or a data directory with the payloads pinned to IPFS.   *)
(* Proofs are filed by execution and reports by contract, the latest over  *)
(* the one before.                                                         *)
(*                                                                         *)
(* Settlement models the rest of the call; here a call is its two pins and *)
(* what is written after each.  Without pinning nothing is awaited and a   *)
(* call is one step.  A content id is its payload and how it was named: by *)
(* the hash of the payload or by that of an ipfs:// address.  External:    *)
(* the pinning service, which may keep a payload and lose the answer.  A   *)
(* full disk is left out, and so is a call the indexer makes: the contract *)
(* id of an event is an array, and ends with no report (Settlement).       *)
(* A report's file has the contract's id for its name, what is not         *)
(* hexadecimal replaced: ids are taken to be hexadecimal, and to differ.   *)
(***************************************************************************)
EXTENDS Naturals

CONSTANTS
  Settlers,
  SettledIds, Contracts,
  ContractOf,   \* the contract each execution settles
  MaxTime,      \* bounds Date.now()
  MaxRestarts,
  None,         \* no file, no payload under way
  Zero          \* ZERO_HEX_32

ASSUME EvidenceAssumption ==
  /\ ContractOf \in [SettledIds -> Contracts]
  /\ {MaxTime, MaxRestarts} \subseteq Nat /\ MaxTime > 0

VARIABLES
  backend,    \* what createPersistenceFromEnv returned to this process
  pinnable,   \* its pin client has what it needs
  now,
  pinStage, of,     \* where each call is, and the execution it settles
  payload,    \* what it has sent to be pinned
  proof,      \* the proof's content id, once archived
  disk, memory,
  pins,       \* payloads the pinning service keeps
  restarts

evidenceVars == <<backend, pinnable, now, pinStage, of, payload, proof, disk, memory, pins, restarts>>
settlerVars == <<pinStage, of, payload, proof>>
processVars == <<backend, pinnable, restarts>>

-----------------------------------------------------------------------------
(* The environment.                                                        *)

Environments == [IPFS_PROVIDER: {"unset", "none", "pinata", "kubo", "other"},
                 PINATA_JWT: BOOLEAN, IPFS_KUBO_API_URL: BOOLEAN,
                 SETTLEMENT_DATA_DIR: BOOLEAN]

\* An explicit provider wins; otherwise credentials say which.
Provider(v) ==
  CASE v.IPFS_PROVIDER = "none" -> "none"
    [] v.IPFS_PROVIDER = "pinata" -> "pinata"
    [] v.IPFS_PROVIDER # "kubo" /\ v.IPFS_PROVIDER # "none" /\ v.PINATA_JWT -> "pinata"
    [] v.IPFS_PROVIDER = "kubo" -> "kubo"
    [] v.IPFS_PROVIDER \in {"unset", "other"} /\ ~v.PINATA_JWT ->
         IF v.IPFS_KUBO_API_URL THEN "kubo" ELSE "none"

Backend(v) == IF ~v.SETTLEMENT_DATA_DIR THEN "memory"
              ELSE IF Provider(v) = "none" THEN "disk" ELSE "ipfs"

\* Pinata asked for by name may lack its token: every pin throws.
Pinnable(v) == Provider(v) = "kubo" \/ (Provider(v) = "pinata" /\ v.PINATA_JWT)

-----------------------------------------------------------------------------
(* Payloads and content ids.                                               *)

\* Every report and every pinned proof is stamped with the time.
Payload(kind, e, t) == [kind |-> kind, of |-> e, stamp |-> t]

\* A proof that is only hashed has no time in it.
HashedProof(e, t) == Payload("proof", e, 0)

Cid(name, p) == [name |-> name, payload |-> p]

Payloads == [kind: {"proof", "report"}, of: SettledIds, stamp: 0 .. MaxTime]
Cids == [name: {"hash", "uri"}, payload: Payloads]

ASSUME FilesAreSomething == None \notin Cids

Row(c, e, p, r) == [call |-> c, execution |-> e, proof |-> p, report |-> r]
Rows == [call: Settlers, execution: SettledIds, proof: Cids, report: Cids \cup {Zero}]

Empty == [proofs  |-> [e \in SettledIds |-> None],
          reports |-> [k \in Contracts |-> None],
          rows    |-> {}]

ProofFiled(store, e, cid) == [store EXCEPT !.proofs[e] = cid]

ReportFiled(store, e, cid) == [store EXCEPT !.reports[ContractOf[e]] = cid]
RowAppended(store, c, e, p, r) == [store EXCEPT !.rows = @ \cup {Row(c, e, p, r)}]

Stores == [proofs  : [SettledIds -> Cids \cup {None}],
           reports : [Contracts -> Cids \cup {None}],
           rows    : SUBSET Rows]

EvidenceTypeOK ==
  /\ backend \in {"memory", "disk", "ipfs"} /\ pinnable \in BOOLEAN
  /\ now \in 1 .. MaxTime
  /\ pinStage \in [Settlers -> {"free", "pinning proof", "pinning report", "recorded", "failed", "lost"}]
  /\ of \in [Settlers -> SettledIds \cup {None}]
  /\ payload \in [Settlers -> Payloads \cup {None}]
  /\ proof \in [Settlers -> Cids \cup {None}]
  /\ disk \in Stores /\ memory \in Stores
  /\ pins \subseteq Payloads
  /\ restarts \in 0 .. MaxRestarts
  /\ \A c \in Settlers : pinStage[c] \in {"pinning proof", "pinning report"} => backend = "ipfs"

EvidenceInit ==
  /\ \E v \in Environments : backend = Backend(v) /\ pinnable = Pinnable(v)
  /\ now = 1
  /\ pinStage = [c \in Settlers |-> "free"]
  /\ of = [c \in Settlers |-> None]
  /\ payload = [c \in Settlers |-> None]
  /\ proof = [c \in Settlers |-> None]
  /\ disk = Empty /\ memory = Empty
  /\ pins = {}
  /\ restarts = 0

MoveOn(c, stage) == pinStage' = [pinStage EXCEPT ![c] = stage]

\* A row and a report made without pinning, in one go.
Recorded(store, c, e) ==
  LET p == Cid("hash", HashedProof(e, now))
      r == Cid("hash", Payload("report", e, now))
  IN  RowAppended(ReportFiled(ProofFiled(store, e, p), e, r), c, e, p, r)

Record(c, e) ==
  /\ pinStage[c] = "free" /\ backend \in {"disk", "memory"}
  /\ of' = [of EXCEPT ![c] = e]
  /\ MoveOn(c, "recorded")
  /\ IF backend = "disk"
     THEN disk' = Recorded(disk, c, e) /\ UNCHANGED memory
     ELSE memory' = Recorded(memory, c, e) /\ UNCHANGED disk
  /\ UNCHANGED <<processVars, now, payload, proof, pins>>

Send(c, p) == payload' = [payload EXCEPT ![c] = p]

\* archive: the payload is made and sent to be pinned.
StartArchive(c, e) ==
  /\ pinStage[c] = "free" /\ backend = "ipfs"
  /\ of' = [of EXCEPT ![c] = e]
  /\ Send(c, Payload("proof", e, now))
  /\ MoveOn(c, "pinning proof")
  /\ UNCHANGED <<processVars, now, proof, disk, memory, pins>>

\* The service takes what a call has sent, also after the call is gone.
ServicePins(c) ==
  /\ pinnable
  /\ pinStage[c] \in {"pinning proof", "pinning report", "failed", "lost"} /\ payload[c] # None
  /\ pins' = pins \cup {payload[c]}
  /\ UNCHANGED <<processVars, now, settlerVars, disk, memory>>

\* The service has answered with a content id.
Answered(c) == payload[c] \in pins

\* The proof is filed and, with no await in between, the report sent.
ProofPinned(c) ==
  /\ pinStage[c] = "pinning proof" /\ Answered(c)
  /\ LET cid == Cid("uri", payload[c])
     IN  /\ proof' = [proof EXCEPT ![c] = cid]
         /\ disk' = ProofFiled(disk, of[c], cid)
  /\ Send(c, Payload("report", of[c], now))
  /\ MoveOn(c, "pinning report")
  /\ UNCHANGED <<processVars, now, of, memory, pins>>

\* A refusal or a lost answer: the call throws, with nothing on record.
ProofPinFails(c) ==
  /\ pinStage[c] = "pinning proof"
  /\ MoveOn(c, "failed")
  /\ UNCHANGED <<processVars, now, of, payload, proof, disk, memory, pins>>

ReportPinned(c) ==
  /\ pinStage[c] = "pinning report" /\ Answered(c)
  /\ LET cid == Cid("uri", payload[c])
     IN  disk' = RowAppended(ReportFiled(disk, of[c], cid), c, of[c], proof[c], cid)
  /\ MoveOn(c, "recorded")
  /\ UNCHANGED <<processVars, now, of, payload, proof, memory, pins>>

\* WithoutReport that lets the failure through.
NothingWritten(store, c) == store

\* The row of a call whose report failed names none.
WithoutReport(store, c) == RowAppended(store, c, of[c], proof[c], Zero)

\* The failure is caught.
ReportPinFails(c) ==
  /\ pinStage[c] = "pinning report"
  /\ disk' = WithoutReport(disk, c)
  /\ MoveOn(c, "recorded")
  /\ UNCHANGED <<processVars, now, of, payload, proof, memory, pins>>

Tick ==
  /\ now < MaxTime
  /\ now' = now + 1
  /\ UNCHANGED <<processVars, settlerVars, disk, memory, pins>>

\* The process dies and comes back, perhaps with another environment.
RestartArchive ==
  /\ restarts < MaxRestarts
  /\ restarts' = restarts + 1
  /\ \E v \in Environments : backend' = Backend(v) /\ pinnable' = Pinnable(v)
  /\ pinStage' = [c \in Settlers |-> IF pinStage[c] \in {"pinning proof", "pinning report"}
                            THEN "lost" ELSE pinStage[c]]
  /\ memory' = Empty
  /\ UNCHANGED <<now, of, payload, proof, disk, pins>>

EvidenceNext ==
  \/ \E c \in Settlers, e \in SettledIds : Record(c, e) \/ StartArchive(c, e)
  \/ \E c \in Settlers :
       \/ ServicePins(c)
       \/ ProofPinned(c) \/ ProofPinFails(c)
       \/ ReportPinned(c) \/ ReportPinFails(c)
  \/ Tick
  \/ RestartArchive

EvidenceSpec == EvidenceInit /\ [][EvidenceNext]_evidenceVars

-----------------------------------------------------------------------------

\* A content id that a row or a file names as pinned, the service keeps: none
\* is made up, whatever the service answered and wherever the process died
\* (IpfsPinClient.pinJson, SettlementService.process).
NamedIsPinned ==
  LET Named == {r.proof : r \in disk.rows} \cup {r.report : r \in disk.rows}
               \cup {disk.proofs[e] : e \in SettledIds}
               \cup {disk.reports[k] : k \in Contracts}
  IN  \A cid \in Named \ {None, Zero} : cid.name = "uri" => cid.payload \in pins

\* Whoever reads a row finds its evidence filed where the row is: a proof
\* under its execution, and under its contract a report of that contract,
\* unless this very row has none (ZKProofArchive.get, getReport).
RowsFindFiles ==
  \A store \in {disk, memory} : \A r \in store.rows :
    /\ store.proofs[r.execution] # None
    /\ r.report # Zero =>
         LET filed == store.reports[ContractOf[r.execution]]
         IN  filed # None /\ ContractOf[filed.payload.of] = ContractOf[r.execution]

\* A filed proof without a row is the trace of a call that is still making
\* its report or died doing so: a report that fails leaves none
\* (SettlementService.process).
FiledIsOnRecord ==
  \A e \in SettledIds : disk.proofs[e] # None =>
    \/ \E r \in disk.rows : r.proof = disk.proofs[e]
    \/ \E c \in Settlers : pinStage[c] \in {"pinning report", "lost"} /\ proof[c] = disk.proofs[e]

\* What the trail names is there: rows find their files, files their rows, and a
\* name the pinned content, wherever the archive stops.
EvidenceSafe == EvidenceTypeOK /\ NamedIsPinned /\ RowsFindFiles /\ FiledIsOnRecord
=============================================================================
