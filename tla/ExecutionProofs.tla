-------------------------- MODULE ExecutionProofs -------------------------
(***************************************************************************)
(* The execution engine pays safely for any number of contracts, proofs and*)
(* callers, and any order of their calls; and so it does when executions   *)
(* are handed over to it, for any owners of the Safe and lists of          *)
(* signatures, however often layer 3 restarts and runs again and whatever  *)
(* governance does between two steps of a run.  What one payment moves is  *)
(* proved for any list of obligations.                                     *)
(***************************************************************************)
EXTENDS ExecutionHandoff, ObligationPayments, SumLemmas, SequenceTheorems

-----------------------------------------------------------------------------
(* ExecutionEngine.                                                        *)

\* The types the steps rely on.
PaymentTypes ==
  /\ status \in [Contracts -> Statuses]
  /\ executionNonce \in [Contracts -> Nat]
  /\ openings \in [Contracts -> Nat]
  /\ executions \subseteq [contract : Contracts, proof : ProofKeys, opening : Nat]
  /\ executed \subseteq Contracts \X Nat \X Nat

\* No payment is recorded under an opening still to come.
OpeningsLead == \A e \in executions : e.opening <= openings[e.contract]

\* PaidOncePerOpening alone is not inductive: a second payment is refused
\* because of the status, so the status must tell of the first one.
PaymentInv ==
  /\ PaymentTypes
  /\ OpeningsLead
  /\ ProofSpentOnce
  /\ PaidOncePerOpening
  /\ KeysNeverRepeat
  /\ PaidStaysMarked

PaymentVars == <<status, executionNonce, openings, executions, executed, usedProofs>>

LEMMA InitPayment == EngineInit => PaymentInv
BY DEF EngineInit, PaymentInv, PaymentTypes, OpeningsLead, ProofSpentOnce,
       PaidOncePerOpening, KeysNeverRepeat, PaidStaysMarked, Statuses

\* The invariant reads nothing that governance, registry and clock change
\* without opening a contract anew.
LEMMA PaymentFrame == PaymentInv /\ UNCHANGED PaymentVars => PaymentInv'
BY DEF PaymentInv, PaymentTypes, PaymentVars, OpeningsLead, ProofSpentOnce,
       PaidOncePerOpening, KeysNeverRepeat, PaidStaysMarked

\* A new opening of c: no payment of it is recorded yet.
LEMMA OpeningKeepsInv ==
  ASSUME PaymentInv, NEW c \in Contracts, NEW next \in Statuses,
         status' = [status EXCEPT ![c] = next],
         openings' = [openings EXCEPT ![c] = @ + 1],
         UNCHANGED <<executionNonce, executions, executed, usedProofs>>
  PROVE  PaymentInv'
<1> USE DEF PaymentInv
<1>1. PaymentTypes'
  BY DEF PaymentTypes
<1>2. OpeningsLead'
  BY DEF PaymentTypes, OpeningsLead
<1>3. ProofSpentOnce' /\ PaidOncePerOpening' /\ KeysNeverRepeat'
  BY DEF ProofSpentOnce, PaidOncePerOpening, KeysNeverRepeat
<1>4. PaidStaysMarked'
  <2> SUFFICES ASSUME NEW e \in executions, e.opening = openings'[e.contract]
               PROVE  status'[e.contract] \in {"SETTLEMENT_PENDING", "SETTLED"}
    BY DEF PaidStaysMarked
  <2>1. e.contract \in Contracts /\ e.opening \in Nat /\ openings[e.contract] \in Nat
    BY DEF PaymentTypes
  <2>2. e.contract # c
    BY <2>1 DEF PaymentTypes, OpeningsLead
  <2>3. QED
    BY <2>1, <2>2 DEF PaymentTypes, PaidStaysMarked
<1>5. QED
  BY <1>1, <1>2, <1>3, <1>4

\* A status that tells of a payment replaces another.
LEMMA MarkingKeepsInv ==
  ASSUME PaymentInv, NEW c \in Contracts,
         NEW next \in {"SETTLEMENT_PENDING", "SETTLED"},
         status' = [status EXCEPT ![c] = next],
         UNCHANGED <<openings, executionNonce, executions, executed, usedProofs>>
  PROVE  PaymentInv'
<1> USE DEF PaymentInv
<1>1. PaymentTypes'
  BY DEF PaymentTypes, Statuses
<1>2. OpeningsLead' /\ ProofSpentOnce' /\ PaidOncePerOpening' /\ KeysNeverRepeat'
  BY DEF OpeningsLead, ProofSpentOnce, PaidOncePerOpening, KeysNeverRepeat
<1>3. PaidStaysMarked'
  BY DEF PaymentTypes, PaidStaysMarked
<1>4. QED
  BY <1>1, <1>2, <1>3

\* A payment: its proof is new, its contract not yet paid in this opening.
LEMMA ExecuteKeepsInv ==
  ASSUME EngineAssumption, PaymentInv, NEW caller, NEW c \in Contracts, NEW state,
         NEW obs \in ObligationLists, NEW snapshot, NEW proof \in Proofs,
         ExecuteBatch(caller, c, state, obs, snapshot, proof)
  PROVE  PaymentInv'
<1> DEFINE new == [contract |-> c, proof |-> proof.key, opening |-> openings[c]]
<1> USE DEF PaymentInv
<1>1. /\ proof.key \notin usedProofs
      /\ status[c] \notin {"SETTLEMENT_PENDING", "SETTLED"}
      /\ usedProofs' = usedProofs \cup {proof.key}
      /\ executed' = executed \cup IdempotencyKeys(c, obs)
      /\ executionNonce' = [executionNonce EXCEPT ![c] = @ + 1]
      /\ status' = [status EXCEPT ![c] = "SETTLEMENT_PENDING"]
      /\ executions' = executions \cup {new}
      /\ openings' = openings
  BY DEF ExecuteBatch, BatchPasses, ProofIsNew, NotYetExecuted, NextNonce
<1>2. new \in [contract : Contracts, proof : ProofKeys, opening : Nat]
  BY DEF PaymentTypes, ProofKeys
<1>3. /\ DOMAIN obs \subseteq Nat
      /\ executionNonce[c] \in Nat
  BY DEF EngineAssumption, PaymentTypes
<1>4. IdempotencyKeys(c, obs) \subseteq Contracts \X Nat \X Nat
  BY <1>3 DEF IdempotencyKeys
<1>5. new.contract = c /\ new.proof = proof.key /\ new.opening = openings[c]
  OBVIOUS
<1> HIDE DEF new
<1>6. PaymentTypes'
  BY <1>1, <1>2, <1>4 DEF PaymentTypes, Statuses
<1>7. OpeningsLead'
  BY <1>1, <1>5 DEF PaymentTypes, OpeningsLead
<1>8. ProofSpentOnce'
  BY <1>1, <1>5 DEF ProofSpentOnce
<1>9. PaidOncePerOpening'
  <2>1. \A e \in executions : ~(e.contract = c /\ e.opening = openings[c])
    BY <1>1 DEF PaidStaysMarked
  <2>2. QED
    BY <1>1, <1>5, <2>1 DEF PaidOncePerOpening
<1>10. KeysNeverRepeat'
  <2> SUFFICES ASSUME NEW key \in executed'
               PROVE  key[3] < executionNonce'[key[1]]
    BY DEF KeysNeverRepeat
  <2>1. CASE key \in executed
    <3>1. key[1] \in Contracts /\ key[3] \in Nat /\ key[3] < executionNonce[key[1]]
      BY <2>1 DEF PaymentTypes, KeysNeverRepeat
    <3>2. executionNonce[key[1]] <= executionNonce'[key[1]]
      BY <1>1, <1>3, <3>1 DEF PaymentTypes
    <3>3. executionNonce[key[1]] \in Nat /\ executionNonce'[key[1]] \in Nat
      BY <1>6, <3>1 DEF PaymentTypes
    <3>4. QED
      BY <3>1, <3>2, <3>3
  <2>2. CASE key \in IdempotencyKeys(c, obs)
    <3>1. key[1] = c /\ key[3] = executionNonce[c]
      BY <2>2 DEF IdempotencyKeys
    <3>2. QED
      BY <1>1, <1>3, <3>1 DEF PaymentTypes
  <2>3. QED
    BY <1>1, <2>1, <2>2
<1>11. PaidStaysMarked'
  BY <1>1, <1>5 DEF PaymentTypes, PaidStaysMarked
<1>12. QED
  BY <1>6, <1>7, <1>8, <1>9, <1>10, <1>11

-----------------------------------------------------------------------------

LEMMA GovernanceKeepsInv == PaymentInv /\ GovernanceNext => PaymentInv'
<1> SUFFICES ASSUME PaymentInv, GovernanceNext PROVE PaymentInv'
  OBVIOUS
<1>1. ASSUME NEW on \in BOOLEAN,
             \/ SetEmergencyPause(on)
             \/ \E a \in Accounts : SetOperator(a, on)
             \/ \E c \in Contracts : SetArbitrationOutcome(c, on)
      PROVE  PaymentInv'
  BY <1>1, PaymentFrame
     DEF SetEmergencyPause, SetOperator, SetArbitrationOutcome, PaymentVars, batchVars
<1>2. ASSUME NEW c \in Contracts, NEW obs \in ObligationLists, NEW snapshot \in Snapshots,
             NEW deadline \in Deadlines, RegisterContract(c, obs, snapshot, deadline)
      PROVE  PaymentInv'
  BY <1>2, OpeningKeepsInv DEF RegisterContract, batchVars, Statuses
<1>3. QED
  BY <1>1, <1>2 DEF GovernanceNext

LEMMA OperatorKeepsInv ==
  ASSUME EngineAssumption, PaymentInv, OperatorNext PROVE PaymentInv'
<1> PICK a \in Accounts, c \in Contracts :
      \/ \E state \in {"TRIGGERED", "ARBITRATION_RESOLVED"}, obs \in ObligationLists,
            snapshot \in Snapshots, proof \in Proofs :
           ExecuteBatch(a, c, state, obs, snapshot, proof)
      \/ SubmitExecution(a, c)
      \/ \E inclusion, current \in 0 .. MaxTime : ConfirmSettlement(a, c, inclusion, current)
      \/ Rollback(a, c)
  BY DEF OperatorNext
<1>1. CASE \E state \in {"TRIGGERED", "ARBITRATION_RESOLVED"}, obs \in ObligationLists,
              snapshot \in Snapshots, proof \in Proofs :
             ExecuteBatch(a, c, state, obs, snapshot, proof)
  BY <1>1, ExecuteKeepsInv
<1>2. CASE SubmitExecution(a, c)
  BY <1>2, MarkingKeepsInv DEF SubmitExecution, SetStatus, batchVars
<1>3. CASE \E inclusion, current \in 0 .. MaxTime : ConfirmSettlement(a, c, inclusion, current)
  BY <1>3, MarkingKeepsInv DEF ConfirmSettlement, SetStatus, batchVars
<1>4. CASE Rollback(a, c)
  BY <1>4, OpeningKeepsInv DEF Rollback, SetStatus, batchVars, Statuses
<1>5. QED
  BY <1>1, <1>2, <1>3, <1>4

LEMMA NextPayment == PaymentInv /\ [EngineNext]_engineVars => PaymentInv'
<1> SUFFICES ASSUME PaymentInv, [EngineNext]_engineVars PROVE PaymentInv'
  OBVIOUS
<1>1. CASE Tick
  BY <1>1, PaymentFrame DEF Tick, PaymentVars, batchVars
<1>2. CASE GovernanceNext
  BY <1>2, GovernanceKeepsInv
<1>3. CASE RegistryNext
  BY <1>3, PaymentFrame DEF RegistryNext, PaymentVars, batchVars
<1>4. CASE OperatorNext
  BY <1>4, OperatorKeepsInv, EngineAssumption
<1>5. CASE UNCHANGED engineVars
  BY <1>5, PaymentFrame DEF engineVars, PaymentVars, batchVars
<1>6. QED
  BY <1>1, <1>2, <1>3, <1>4, <1>5 DEF EngineNext

LEMMA PaymentInvariant == EngineSpec => []PaymentInv
BY InitPayment, NextPayment, PTL DEF EngineSpec

\* A ZK proof pays for at most one batch, however contracts are registered,
\* rolled back and executed again.
THEOREM ProofsPayOnce == EngineSpec => []ProofSpentOnce
BY PaymentInvariant, PTL DEF PaymentInv

\* The obligations of a contract are paid at most once between two
\* registrations or rollbacks.
THEOREM ObligationsPaidOnce == EngineSpec => []PaidOncePerOpening
BY PaymentInvariant, PTL DEF PaymentInv

\* The idempotency check on each obligation never rejects a batch.
THEOREM KeysAreAlwaysFresh == EngineSpec => []KeysNeverRepeat
BY PaymentInvariant, PTL DEF PaymentInv

\* A payment stays marked until its contract is opened anew.
THEOREM PaymentsStayMarked == EngineSpec => []PaidStaysMarked
BY PaymentInvariant, PTL DEF PaymentInv

-----------------------------------------------------------------------------
(* Type correctness of the whole engine, the registry included.            *)

LEMMA InitEngineTypes == EngineInit => EngineTypeOK
<1> SUFFICES ASSUME EngineInit PROVE EngineTypeOK
  OBVIOUS
<1>1. time \in 0 .. MaxTime /\ \A c \in Contracts : openings[c] \in 0 .. MaxOpenings
  BY EngineAssumption DEF EngineInit
<1>2. openings \in [Contracts -> 0 .. MaxOpenings]
  BY <1>1 DEF EngineInit
<1>3. /\ registered \in [Contracts -> [obligations : ObligationLists \cup {Nil},
                                        snapshot : Snapshots \cup {Nil},
                                        deadline : Deadlines \cup {0}]]
      /\ arbitration \in [Contracts -> [override : BOOLEAN, met : BOOLEAN]]
  BY DEF EngineInit
<1>4. identity \in [Accounts -> [verified : BOOLEAN, frozen : BOOLEAN,
                                 country : Countries \cup {Nil}]]
  BY DEF EngineInit
<1>5. QED
  BY <1>1, <1>2, <1>3, <1>4 DEF EngineInit, EngineTypeOK, Statuses

LEMMA GovernanceKeepsTypes == EngineTypeOK /\ GovernanceNext => EngineTypeOK'
<1> SUFFICES ASSUME EngineTypeOK, GovernanceNext PROVE EngineTypeOK'
  OBVIOUS
<1> USE EngineAssumption DEF EngineTypeOK, registryVars, batchVars
<1>1. ASSUME NEW on \in BOOLEAN, SetEmergencyPause(on) PROVE EngineTypeOK'
  BY <1>1 DEF SetEmergencyPause
<1>2. ASSUME NEW on \in BOOLEAN, NEW a \in Accounts, SetOperator(a, on) PROVE EngineTypeOK'
  BY <1>2 DEF SetOperator
<1>3. ASSUME NEW on \in BOOLEAN, NEW c \in Contracts, SetArbitrationOutcome(c, on)
      PROVE  EngineTypeOK'
  BY <1>3 DEF SetArbitrationOutcome
<1>4. ASSUME NEW c \in Contracts, NEW obs \in ObligationLists, NEW snapshot \in Snapshots,
             NEW deadline \in Deadlines, RegisterContract(c, obs, snapshot, deadline)
      PROVE  EngineTypeOK'
  <2>1. openings' \in [Contracts -> 0 .. MaxOpenings]
    BY <1>4 DEF RegisterContract
  <2>2. registered' \in [Contracts -> [obligations : ObligationLists \cup {Nil},
                                       snapshot : Snapshots \cup {Nil},
                                       deadline : Deadlines \cup {0}]]
    BY <1>4 DEF RegisterContract
  <2>3. status' \in [Contracts -> Statuses]
    BY <1>4 DEF RegisterContract, Statuses
  <2>4. QED
    BY <1>4, <2>1, <2>2, <2>3 DEF RegisterContract
<1>5. QED
  BY <1>1, <1>2, <1>3, <1>4 DEF GovernanceNext

LEMMA RegistryKeepsTypes == EngineTypeOK /\ RegistryNext => EngineTypeOK'
<1> SUFFICES ASSUME EngineTypeOK, RegistryNext PROVE EngineTypeOK'
  OBVIOUS
<1> USE DEF EngineTypeOK, adminVars, batchVars
<1>1. UNCHANGED <<time, adminVars, status, batchVars, openings, executions>>
  BY DEF RegistryNext
<1>2. ASSUME NEW a \in Accounts, NEW country \in Countries, RegisterIdentity(a, country)
      PROVE  EngineTypeOK'
  BY <1>1, <1>2 DEF RegisterIdentity
<1>3. ASSUME NEW a \in Accounts, RevokeIdentity(a) PROVE EngineTypeOK'
  BY <1>1, <1>3 DEF RevokeIdentity
<1>4. ASSUME NEW a \in Accounts, NEW on \in BOOLEAN, SetFrozen(a, on) \/ SetSanctioned(a, on)
      PROVE  EngineTypeOK'
  BY <1>1, <1>4 DEF SetFrozen, SetSanctioned
<1>5. ASSUME NEW partition \in Partitions, NEW country \in Countries, NEW on \in BOOLEAN,
             SetPartitionCountry(partition, country, on)
      PROVE  EngineTypeOK'
  BY <1>1, <1>5 DEF SetPartitionCountry
<1>6. QED
  BY <1>2, <1>3, <1>4, <1>5 DEF RegistryNext

LEMMA OperatorKeepsTypes == EngineTypeOK /\ OperatorNext => EngineTypeOK'
<1> SUFFICES ASSUME EngineTypeOK, NEW a \in Accounts, NEW c \in Contracts,
                    \/ \E state \in {"TRIGGERED", "ARBITRATION_RESOLVED"}, obs \in ObligationLists,
                          snapshot \in Snapshots, proof \in Proofs :
                         ExecuteBatch(a, c, state, obs, snapshot, proof)
                    \/ SubmitExecution(a, c)
                    \/ \E inclusion, current \in 0 .. MaxTime :
                         ConfirmSettlement(a, c, inclusion, current)
                    \/ Rollback(a, c)
             PROVE  EngineTypeOK'
  BY DEF OperatorNext
<1> USE EngineAssumption DEF EngineTypeOK, adminVars, registryVars, batchVars, SetStatus, Statuses
<1>1. ASSUME NEW state, NEW obs \in ObligationLists, NEW snapshot, NEW proof \in Proofs,
             ExecuteBatch(a, c, state, obs, snapshot, proof)
      PROVE  EngineTypeOK'
  <2>1. DOMAIN obs \subseteq Nat /\ executionNonce[c] \in Nat
    BY DEF EngineAssumption
  <2>2. executed' \subseteq Contracts \X Nat \X Nat
    BY <1>1, <2>1 DEF ExecuteBatch, IdempotencyKeys
  <2>3. usedProofs' \subseteq ProofKeys
    BY <1>1 DEF ExecuteBatch, ProofKeys
  <2>4. executions' \subseteq Executions
    BY <1>1 DEF ExecuteBatch, ProofKeys, Executions
  <2>5. executionNonce' \in [Contracts -> Nat] /\ status' \in [Contracts -> Statuses]
    BY <1>1 DEF ExecuteBatch, NextNonce
  <2>6. UNCHANGED <<time, adminVars, registryVars, openings>>
    BY <1>1 DEF ExecuteBatch
  <2>7. QED
    BY <2>2, <2>3, <2>4, <2>5, <2>6
<1>2. CASE SubmitExecution(a, c)
  BY <1>2 DEF SubmitExecution
<1>3. ASSUME NEW inclusion, NEW current, ConfirmSettlement(a, c, inclusion, current)
      PROVE  EngineTypeOK'
  BY <1>3 DEF ConfirmSettlement
<1>4. CASE Rollback(a, c)
  <2>1. openings' \in [Contracts -> 0 .. MaxOpenings]
    BY <1>4 DEF Rollback
  <2>2. QED
    BY <1>4, <2>1 DEF Rollback
<1>5. QED
  BY <1>1, <1>2, <1>3, <1>4

LEMMA NextEngineTypes == EngineTypeOK /\ [EngineNext]_engineVars => EngineTypeOK'
<1> SUFFICES ASSUME EngineTypeOK, [EngineNext]_engineVars PROVE EngineTypeOK'
  OBVIOUS
<1>1. CASE Tick
  BY <1>1, EngineAssumption DEF Tick, EngineTypeOK, adminVars, batchVars, registryVars
<1>2. CASE UNCHANGED engineVars
  BY <1>2 DEF engineVars, EngineTypeOK, adminVars, batchVars, registryVars
<1>3. QED
  BY <1>1, <1>2, GovernanceKeepsTypes, RegistryKeepsTypes, OperatorKeepsTypes DEF EngineNext

\* The engine keeps its types: what is stored was registered, allowed or paid.
THEOREM EngineTypes == EngineSpec => []EngineTypeOK
BY InitEngineTypes, NextEngineTypes, PTL DEF EngineSpec

\* Everything the run checks of the engine's states, for every engine: one
\* proof pays one batch, one opening is paid once, and what is paid stays
\* marked.
THEOREM EngineIsSafe == EngineSpec => []EngineSafe
<1>1. EngineTypeOK /\ PaymentInv => EngineSafe
  BY DEF EngineSafe, PaymentInv
<1>2. QED
  BY <1>1, EngineTypes, PaymentInvariant, PTL

-----------------------------------------------------------------------------
(* ExecutionHandoff.                                                       *)

RunRecords ==
  [pc : {"threshold", "owners", "sending", "waiting", "settling"}, request : Requests,
   threshold : Nat, signedOff : BOOLEAN, changed : BOOLEAN]

Reports ==
  {NoReport, [status |-> "FINALIZED"]}
    \cup [status : {"FAILED"}, recoverable : BOOLEAN, id : Ids]

AttemptRecords ==
  [request : Requests, signedOff : BOOLEAN, changed : BOOLEAN, result : Results,
   agreed : BOOLEAN, nonce : Nat]

L3States == Executable \cup {"MONITORING", "DISPUTING", "SETTLED"}

\* HandoffTypeOK with the records of runs and reports spelled out.
OffChainTypes ==
  /\ mode \in Modes
  /\ l3 \in [Contracts -> L3States]
  /\ safe \in SafeConfigs
  /\ module \in [enabled : BOOLEAN, deadline : [Contracts -> 0 .. MaxTime + Expiry]]
  /\ guard \in [Ids -> {"NONE", "QUEUED", "SUBMITTED", "FINALIZED"}]
  /\ run \in RunRecords \cup {Idle}
  /\ report \in Reports
  /\ attempts \in Seq(AttemptRecords)

\* The chain as the deployment left it; nobody in this module changes it.
Deployed ==
  /\ operators = {Relayer, Safe}
  /\ ~emergencyPause
  /\ sanctioned = {}
  /\ countryAllowed = Partitions \X Countries
  /\ \A a \in Accounts :
       identity[a].verified /\ ~identity[a].frozen /\ identity[a].country \in Countries

\* The chain has paid the contract, or a run for it lost its nonce to a payment.
Accounted(c) == PaidByChain(c) \/ NonceLost(c)

\* What a run is about stays what it was: it has a proof and room for its attempt,
\* its signatures are those of one Safe unless the Safe was changed since, the
\* nonce it waits for is that of its own attempt, and what it settles is accounted
\* for.
RunIsSound ==
  /\ run # Idle => run.request.proof \in Proofs
  /\ run.pc \in {"threshold", "owners", "sending"} => Len(attempts) < MaxAttempts
  /\ run.pc = "waiting" =>
       /\ attempts # <<>>
       /\ attempts[Len(attempts)].request = run.request
  /\ mode # "simulation" =>
       /\ run.pc = "owners" => run.changed \/ Len(run.request.signers) >= safe.threshold
       /\ run.pc = "sending" => run.signedOff \/ run.changed
       /\ run.pc = "settling" => Accounted(run.request.contract)

AttemptsAreSound ==
  /\ Len(attempts) <= MaxAttempts
  /\ \A i \in DOMAIN attempts :
       /\ attempts[i].request.proof \in Proofs
       /\ attempts[i].result = "succeeded" => PaidByChain(attempts[i].request.contract)
  /\ QuorumUnlessChanged

SucceededOf(c) ==
  {i \in DOMAIN attempts : attempts[i].result = "succeeded" /\ attempts[i].request.contract = c}

\* PaidOnceHoweverSent is not inductive alone: a second payment is refused for
\* the status, so a contract that may be paid has an opening to spare; and one
\* never opened has no obligations on record.
OpeningsToSpare ==
  \A c \in Contracts :
    /\ openings[c] = 0 => registered[c].obligations = Nil
    /\ Cardinality(SucceededOf(c)) <= openings[c]
    /\ NotYetExecuted(c) /\ openings[c] > 0 => Cardinality(SucceededOf(c)) < openings[c]

HandoffInv ==
  /\ EngineTypeOK
  /\ PaymentInv
  /\ OffChainTypes
  /\ Deployed
  /\ RunIsSound
  /\ AttemptsAreSound
  /\ SettledWasPaid
  /\ OpeningsToSpare
  /\ AgreedTriggerExecutes

-----------------------------------------------------------------------------
(* Attempts, runs and reports.                                             *)

\* A run that is not idle is a full record.
LEMMA RunFields ==
  ASSUME OffChainTypes, run.pc # "idle"
  PROVE  run \in RunRecords /\ run # Idle
BY DEF OffChainTypes, Idle

LEMMA IdleRun == Idle.pc = "idle"
BY DEF Idle

LEMMA AttemptFields ==
  ASSUME OffChainTypes, NEW i \in DOMAIN attempts
  PROVE  attempts[i] \in AttemptRecords
BY ElementOfSeq, LenProperties DEF OffChainTypes

\* What becomes of a transaction changes nothing else of any attempt.
LEMMA AttemptUpdate ==
  ASSUME OffChainTypes, NEW i \in DOMAIN attempts, NEW result \in Results,
         NEW agreed \in BOOLEAN, Becomes(i, result, agreed)
  PROVE  /\ attempts' \in Seq(AttemptRecords)
         /\ DOMAIN attempts' = DOMAIN attempts
         /\ Len(attempts') = Len(attempts)
         /\ attempts'[i].result = result
         /\ attempts'[i].agreed = agreed
         /\ \A j \in DOMAIN attempts :
              /\ attempts'[j].request = attempts[j].request
              /\ attempts'[j].signedOff = attempts[j].signedOff
              /\ attempts'[j].changed = attempts[j].changed
              /\ attempts'[j].nonce = attempts[j].nonce
              /\ j # i => attempts'[j] = attempts[j]
<1> DEFINE new == [attempts[i] EXCEPT !.result = result, !.agreed = agreed]
<1>1. attempts[i] \in AttemptRecords
  BY AttemptFields
<1>2. /\ new \in AttemptRecords
      /\ new.result = result /\ new.agreed = agreed
      /\ new.request = attempts[i].request
      /\ new.signedOff = attempts[i].signedOff
      /\ new.changed = attempts[i].changed
      /\ new.nonce = attempts[i].nonce
  BY <1>1 DEF AttemptRecords
<1>3. attempts' = [attempts EXCEPT ![i] = new]
  BY DEF Becomes
<1>4. attempts \in Seq(AttemptRecords) /\ i \in 1 .. Len(attempts)
  BY LenProperties DEF OffChainTypes
<1> HIDE DEF new
<1>5. /\ attempts' \in Seq(AttemptRecords)
      /\ Len(attempts') = Len(attempts)
      /\ \A j \in 1 .. Len(attempts) : attempts'[j] = IF j = i THEN new ELSE attempts[j]
  BY <1>2, <1>3, <1>4, ExceptSeq
<1>6. DOMAIN attempts = 1 .. Len(attempts) /\ DOMAIN attempts' = 1 .. Len(attempts')
  BY <1>4, <1>5, LenProperties
<1>7. QED
  BY <1>2, <1>4, <1>5, <1>6

LEMMA NextNonceIsNat ==
  ASSUME OffChainTypes
  PROVE  NextFromChain \in Nat
<1>1. Len(attempts) \in Nat /\ DOMAIN attempts = 1 .. Len(attempts)
  BY LenProperties DEF OffChainTypes
<1>2. IsFiniteSet(1 .. Len(attempts))
  BY <1>1, FS_Interval
<1>3. {i \in DOMAIN attempts : Mined(attempts[i])} \in SUBSET (1 .. Len(attempts))
  BY <1>1
<1>4. QED
  BY <1>2, <1>3, FS_Subset, FS_CardinalityType DEF NextFromChain

\* What became of an attempt that was mined stays, and so does a lost nonce.
LEMMA LostStaysLost ==
  ASSUME NEW c,
         DOMAIN attempts \subseteq DOMAIN attempts',
         \A j \in DOMAIN attempts :
           /\ attempts'[j].request = attempts[j].request
           /\ attempts'[j].nonce = attempts[j].nonce
           /\ attempts[j].result = "succeeded" => attempts'[j].result = "succeeded",
         NonceLost(c)
  PROVE  NonceLost(c)'
<1>1. PICK i \in DOMAIN attempts, j \in DOMAIN attempts :
        /\ attempts[i].request.contract = c
        /\ attempts[j].request.contract # c
        /\ attempts[j].result = "succeeded"
        /\ attempts[i].nonce = attempts[j].nonce
  BY DEF NonceLost
<1>2. /\ i \in DOMAIN attempts' /\ j \in DOMAIN attempts'
      /\ attempts'[i].request.contract = c
      /\ attempts'[j].request.contract # c
      /\ attempts'[j].result = "succeeded"
      /\ attempts'[i].nonce = attempts'[j].nonce
  BY <1>1
<1>3. QED
  BY <1>2 DEF NonceLost

\* A sent run is appended to the attempts.
LEMMA AttemptAppended ==
  ASSUME OffChainTypes, run \in RunRecords, NEW result \in Results, Attempt(result)
  PROVE  /\ attempts' \in Seq(AttemptRecords)
         /\ Len(attempts) \in Nat
         /\ Len(attempts') = Len(attempts) + 1
         /\ DOMAIN attempts = 1 .. Len(attempts)
         /\ DOMAIN attempts' = 1 .. Len(attempts) + 1
         /\ \A j \in DOMAIN attempts : attempts'[j] = attempts[j]
         /\ attempts'[Len(attempts) + 1] =
              [request |-> run.request, signedOff |-> run.signedOff, changed |-> run.changed,
               result |-> result, agreed |-> FALSE, nonce |-> NextFromChain]
<1> DEFINE new == [request |-> run.request, signedOff |-> run.signedOff,
                   changed |-> run.changed, result |-> result, agreed |-> FALSE,
                   nonce |-> NextFromChain]
<1>1. new \in AttemptRecords
  BY NextNonceIsNat DEF RunRecords, AttemptRecords
<1>2. attempts' = Append(attempts, new)
  BY DEF Attempt
<1> HIDE DEF new
<1>3. attempts \in Seq(AttemptRecords)
  BY DEF OffChainTypes
<1>4. /\ attempts' \in Seq(AttemptRecords)
      /\ Len(attempts') = Len(attempts) + 1
      /\ \A j \in 1 .. Len(attempts) : attempts'[j] = attempts[j]
      /\ attempts'[Len(attempts) + 1] = new
  BY <1>1, <1>2, <1>3, AppendProperties
<1>5. Len(attempts) \in Nat /\ DOMAIN attempts = 1 .. Len(attempts)
  BY <1>3, LenProperties
<1>6. DOMAIN attempts' = 1 .. Len(attempts) + 1
  BY <1>4, LenProperties
<1>7. QED
  BY <1>4, <1>5, <1>6 DEF new

\* A failure leaves the run and moves layer 3 and the report within their types.
LEMMA FailTypes ==
  ASSUME OffChainTypes, NEW request \in Requests, NEW recoverable \in BOOLEAN,
         NEW suggested, Fail(request, recoverable, suggested)
  PROVE  /\ l3' \in [Contracts -> L3States]
         /\ report' \in Reports
         /\ run' = Idle
         /\ \A c \in Contracts : l3'[c] = "SETTLED" => l3[c] = "SETTLED"
<1>1. request.contract \in Contracts /\ Id(request) \in Ids
  BY DEF Requests, Id, Ids
<1>2. report' \in Reports /\ run' = Idle
  BY <1>1 DEF Fail, Reports
<1>3. /\ l3' \in [Contracts -> L3States]
      /\ \A c \in Contracts : l3'[c] = "SETTLED" => l3[c] = "SETTLED"
  BY <1>1 DEF Fail, OnExecutionFailure, OffChainTypes, L3States
<1>4. QED
  BY <1>2, <1>3

-----------------------------------------------------------------------------
(* The initial states.                                                     *)

LEMMA InitHandoffTypes == HandoffInit => EngineTypeOK /\ PaymentInv /\ OffChainTypes /\ Deployed
<1> SUFFICES ASSUME HandoffInit
             PROVE  EngineTypeOK /\ PaymentInv /\ OffChainTypes /\ Deployed
  OBVIOUS
<1> USE EngineAssumption, HandoffAssumption
<1>1. time \in 0 .. MaxTime /\ \A c \in Contracts : openings[c] \in 0 .. MaxOpenings
  BY DEF HandoffInit
<1>2. openings \in [Contracts -> 0 .. MaxOpenings]
  BY <1>1 DEF HandoffInit
<1>3. /\ registered \in [Contracts -> [obligations : ObligationLists \cup {Nil},
                                        snapshot : Snapshots \cup {Nil},
                                        deadline : Deadlines \cup {0}]]
      /\ arbitration \in [Contracts -> [override : BOOLEAN, met : BOOLEAN]]
  BY DEF HandoffInit
<1>4. /\ identity \in [Accounts -> [verified : BOOLEAN, frozen : BOOLEAN,
                                    country : Countries \cup {Nil}]]
      /\ Deployed
  BY DEF HandoffInit, Deployed
<1>5. EngineTypeOK
  BY <1>1, <1>2, <1>3, <1>4 DEF HandoffInit, EngineTypeOK, Statuses
<1>6. PaymentInv
  BY DEF HandoffInit, PaymentInv, PaymentTypes, OpeningsLead, ProofSpentOnce,
         PaidOncePerOpening, KeysNeverRepeat, PaidStaysMarked, Statuses
<1>7. attempts \in Seq(AttemptRecords)
  BY EmptySeq DEF HandoffInit
<1>8. module \in [enabled : BOOLEAN, deadline : [Contracts -> 0 .. MaxTime + Expiry]]
  <2>1. 0 \in 0 .. MaxTime + Expiry
    OBVIOUS
  <2>2. QED
    BY <2>1 DEF HandoffInit
<1>9. OffChainTypes
  BY <1>7, <1>8 DEF HandoffInit, OffChainTypes, L3States, Reports
<1>10. QED
  BY <1>4, <1>5, <1>6, <1>9

LEMMA InitHandoff == HandoffInit => HandoffInv
<1> SUFFICES ASSUME HandoffInit PROVE HandoffInv
  OBVIOUS
<1>1. attempts = <<>> /\ Len(attempts) = 0 /\ DOMAIN attempts = {} /\ run = Idle
  BY DEF HandoffInit
<1>2. \A c \in Contracts : SucceededOf(c) = {}
  BY <1>1 DEF SucceededOf
<1>3. OpeningsToSpare
  <2>1. ASSUME NEW c \in Contracts
        PROVE  /\ openings[c] = 0 /\ registered[c].obligations = Nil
               /\ Cardinality(SucceededOf(c)) = 0
    BY <1>2, FS_EmptySet DEF HandoffInit
  <2>2. QED
    BY <2>1 DEF OpeningsToSpare
<1>4. RunIsSound /\ AttemptsAreSound /\ SettledWasPaid /\ AgreedTriggerExecutes
  BY <1>1, IdleRun, HandoffAssumption
     DEF HandoffInit, RunIsSound, AttemptsAreSound, QuorumUnlessChanged, SettledWasPaid,
         AgreedTriggerExecutes
<1>5. QED
  BY <1>3, <1>4, InitHandoffTypes DEF HandoffInv

-----------------------------------------------------------------------------
(* Steps that leave the chain alone.                                       *)

LEMMA ChainFrame ==
  ASSUME HandoffInv, UNCHANGED engineVars
  PROVE  /\ EngineTypeOK' /\ PaymentInv' /\ Deployed'
         /\ UNCHANGED <<time, registered, status, openings, executions>>
         /\ \A c : PaidByChain(c)' = PaidByChain(c)
         /\ UNCHANGED attempts => \A c : Accounted(c)' = Accounted(c)
<1>1. EngineTypeOK' /\ PaymentInv'
  BY NextEngineTypes, NextPayment DEF HandoffInv
<1>2. \A c : PaidByChain(c)' = PaidByChain(c)
  BY DEF engineVars, batchVars, PaidByChain
<1>3. UNCHANGED attempts => \A c : NonceLost(c)' = NonceLost(c)
  BY DEF NonceLost
<1>4. QED
  BY <1>1, <1>2, <1>3
     DEF HandoffInv, engineVars, adminVars, batchVars, registryVars, Deployed, Accounted

\* A step that only moves layer 3 and the run.
LEMMA RunFrame ==
  ASSUME HandoffInv, UNCHANGED <<chainVars, mode, safe, attempts>>,
         l3' \in [Contracts -> L3States],
         guard' \in [Ids -> {"NONE", "QUEUED", "SUBMITTED", "FINALIZED"}],
         run' \in RunRecords \cup {Idle},
         report' \in Reports,
         RunIsSound', SettledWasPaid'
  PROVE  HandoffInv'
<1>1. UNCHANGED <<engineVars, module, mode, safe, attempts>>
  BY DEF chainVars
<1>2. /\ EngineTypeOK' /\ PaymentInv' /\ Deployed'
      /\ UNCHANGED <<registered, status, openings>>
      /\ \A c : PaidByChain(c)' = PaidByChain(c)
  BY <1>1, ChainFrame
<1>3. OffChainTypes'
  BY <1>1 DEF HandoffInv, OffChainTypes
<1>4. AttemptsAreSound'
  BY <1>1, <1>2 DEF HandoffInv, AttemptsAreSound, QuorumUnlessChanged
<1>5. OpeningsToSpare' /\ AgreedTriggerExecutes'
  BY <1>1, <1>2 DEF HandoffInv, OpeningsToSpare, SucceededOf, NotYetExecuted,
                    AgreedTriggerExecutes
<1>6. QED
  BY <1>2, <1>3, <1>4, <1>5 DEF HandoffInv

\* The run ends without a payment to report.
LEMMA EndKeepsInv ==
  ASSUME HandoffInv, UNCHANGED <<chainVars, mode, safe, attempts, guard>>,
         NEW request \in Requests, NEW recoverable \in BOOLEAN, NEW suggested,
         Fail(request, recoverable, suggested)
  PROVE  HandoffInv'
<1>1. /\ l3' \in [Contracts -> L3States]
      /\ report' \in Reports
      /\ run' = Idle
      /\ \A c \in Contracts : l3'[c] = "SETTLED" => l3[c] = "SETTLED"
  BY FailTypes DEF HandoffInv
<1>2. UNCHANGED engineVars
  BY DEF chainVars
<1>3. RunIsSound'
  BY <1>1, IdleRun DEF RunIsSound
<1>4. SettledWasPaid'
  <2>1. \A c : Accounted(c)' = Accounted(c)
    BY <1>2, ChainFrame
  <2>2. QED
    BY <1>1, <2>1 DEF HandoffInv, SettledWasPaid, Accounted
<1>5. guard' \in [Ids -> {"NONE", "QUEUED", "SUBMITTED", "FINALIZED"}]
  BY DEF HandoffInv, OffChainTypes
<1>6. QED
  BY <1>1, <1>3, <1>4, <1>5, RunFrame

\* Layer 3 moves without saying that anything is settled.
LEMMA LayerThreeMoves ==
  ASSUME HandoffInv, UNCHANGED <<chainVars, mode, safe, guard, run, report, attempts>>,
         NEW c \in Contracts, NEW next \in L3States \ {"SETTLED"},
         l3' = [l3 EXCEPT ![c] = next]
  PROVE  HandoffInv'
<1>1. /\ l3' \in [Contracts -> L3States]
      /\ \A d \in Contracts : l3'[d] = "SETTLED" => l3[d] = "SETTLED"
  BY DEF HandoffInv, OffChainTypes
<1>2. \A d : Accounted(d)' = Accounted(d)
  BY ChainFrame DEF chainVars
<1>3. SettledWasPaid'
  BY <1>1, <1>2 DEF HandoffInv, SettledWasPaid, Accounted
<1>4. RunIsSound'
  BY <1>2 DEF HandoffInv, RunIsSound
<1>5. QED
  BY <1>1, <1>3, <1>4, RunFrame DEF HandoffInv, OffChainTypes

\* A run starts with a proof and with room for its attempt, or does not start.
LEMMA StartKeepsInv ==
  ASSUME HandoffInv, NEW request \in Requests, NEW deadline, StartRun(request, deadline)
  PROVE  HandoffInv'
<1>1. UNCHANGED <<chainVars, mode, safe, guard, attempts>>
  BY DEF StartRun
<1>2. ASSUME NEW recoverable \in BOOLEAN, NEW suggested, Fail(request, recoverable, suggested)
      PROVE  HandoffInv'
  BY <1>1, <1>2, EndKeepsInv
<1>3. ASSUME NEW pc \in {"threshold", "sending"}, Enter(request, pc), UNCHANGED <<l3, report>>,
             HasProof(request), pc = "sending" => mode = "simulation"
      PROVE  HandoffInv'
  <2>1. /\ run' \in RunRecords
        /\ run'.pc = pc /\ run'.request = request
    BY <1>3 DEF Enter, RunRecords
  <2>2. request.proof \in Proofs
    BY <1>3 DEF HasProof, Requests
  <2>3. \A d : Accounted(d)' = Accounted(d)
    BY <1>1, ChainFrame DEF chainVars
  <2>4. Len(attempts) < MaxAttempts
    BY DEF StartRun
  <2>5. RunIsSound'
    BY <1>1, <1>3, <2>1, <2>2, <2>4 DEF RunIsSound
  <2>6. SettledWasPaid'
    BY <1>1, <1>3, <2>3 DEF HandoffInv, SettledWasPaid, Accounted
  <2>7. QED
    BY <1>1, <1>3, <2>1, <2>5, <2>6, RunFrame DEF HandoffInv, OffChainTypes
<1>4. \/ Fail(request, FALSE, "DISPUTING")
      \/ Fail(request, TRUE, "MONITORING")
      \/ Fail(request, Len(request.signers) < BasicThreshold, "DISPUTING")
      \/ /\ HasProof(request) /\ UNCHANGED <<l3, report>>
         /\ Enter(request, "threshold") \/ (Enter(request, "sending") /\ mode = "simulation")
  BY DEF StartRun, Throw, FailAuth
<1>5. (Len(request.signers) < BasicThreshold) \in BOOLEAN
  OBVIOUS
<1>6. CASE \/ Fail(request, FALSE, "DISPUTING")
           \/ Fail(request, TRUE, "MONITORING")
           \/ Fail(request, Len(request.signers) < BasicThreshold, "DISPUTING")
  BY <1>2, <1>5, <1>6
<1>7. CASE /\ HasProof(request) /\ UNCHANGED <<l3, report>>
           /\ Enter(request, "threshold") \/ (Enter(request, "sending") /\ mode = "simulation")
  BY <1>3, <1>7
<1>8. QED
  BY <1>4, <1>6, <1>7

LEMMA LayerThreeKeepsInv == HandoffInv /\ LayerThreeNext => HandoffInv'
<1> SUFFICES ASSUME HandoffInv, NEW c \in Contracts,
                    \/ Trigger(c)
                    \/ \E met \in BOOLEAN : ResolveArbitration(c, met)
                    \/ Execute(c)
                    \/ ExecuteAttestation(c)
             PROVE  HandoffInv'
  BY DEF LayerThreeNext
<1>1. CASE Trigger(c)
  BY <1>1, LayerThreeMoves DEF Trigger, L3States, Executable
<1>2. ASSUME NEW met \in BOOLEAN, ResolveArbitration(c, met) PROVE HandoffInv'
  <2>1. (IF met THEN "ARBITRATION_RESOLVED" ELSE "DISPUTING") \in L3States \ {"SETTLED"}
    BY DEF L3States, Executable
  <2>2. QED
    BY <1>2, <2>1, LayerThreeMoves DEF ResolveArbitration
<1>3. CASE Execute(c)
  <2>1. PICK obs \in ObligationLists, snapshot \in Snapshots, proof \in Proofs \cup {NoProof},
             deadline \in {DefaultDisputeDeadline, registered[c].deadline},
             signers \in SignatureLists :
          StartRun([contract |-> c, state |-> l3[c], obligations |-> obs, snapshot |-> snapshot,
                    proof |-> proof, signers |-> signers, bridged |-> FALSE], deadline)
    BY <1>3 DEF Execute
  <2>2. [contract |-> c, state |-> l3[c], obligations |-> obs, snapshot |-> snapshot,
         proof |-> proof, signers |-> signers, bridged |-> FALSE] \in Requests
    BY <1>3 DEF Execute, Requests
  <2>3. QED
    BY <2>1, <2>2, StartKeepsInv
<1>4. CASE ExecuteAttestation(c)
  <2>1. PICK obs \in ObligationLists, snapshot \in Snapshots, proof \in Proofs,
             signers \in SignatureLists :
          StartRun([contract |-> c, state |-> "TRIGGERED", obligations |-> obs,
                    snapshot |-> snapshot, proof |-> proof, signers |-> signers,
                    bridged |-> TRUE], DefaultDisputeDeadline)
    BY <1>4 DEF ExecuteAttestation
  <2>2. [contract |-> c, state |-> "TRIGGERED", obligations |-> obs, snapshot |-> snapshot,
         proof |-> proof, signers |-> signers, bridged |-> TRUE] \in Requests
    BY DEF Requests, Executable
  <2>3. QED
    BY <2>1, <2>2, StartKeepsInv
<1>5. QED
  BY <1>1, <1>2, <1>3, <1>4

-----------------------------------------------------------------------------
(* The steps of a run.                                                     *)

\* The signatures are at least as many as the Safe asks for at this moment.
LEMMA ReadThresholdKeepsInv == HandoffInv /\ ReadThreshold => HandoffInv'
<1> SUFFICES ASSUME HandoffInv, ReadThreshold PROVE HandoffInv'
  OBVIOUS
<1>1. /\ UNCHANGED <<chainVars, mode, safe, guard, attempts>>
      /\ run \in RunRecords /\ run # Idle /\ run.pc = "threshold"
      /\ run.request \in Requests
  BY RunFields DEF ReadThreshold, HandoffInv, RunRecords
<1>2. ASSUME NEW recoverable \in BOOLEAN, Fail(run.request, recoverable, "DISPUTING")
      PROVE  HandoffInv'
  BY <1>1, <1>2, EndKeepsInv
<1>3. CASE /\ Len(run.request.signers) >= safe.threshold
           /\ run' = [run EXCEPT !.pc = "owners", !.threshold = safe.threshold]
           /\ UNCHANGED <<l3, report>>
  <2>1. safe.threshold \in Nat
    BY HandoffAssumption DEF HandoffInv, OffChainTypes
  <2>2. run' \in RunRecords /\ run'.pc = "owners" /\ run'.request = run.request
    BY <1>1, <1>3, <2>1 DEF RunRecords
  <2>3. \A d : Accounted(d)' = Accounted(d)
    BY <1>1, ChainFrame DEF chainVars
  <2>4. run.request.proof \in Proofs /\ Len(attempts) < MaxAttempts
    BY <1>1 DEF HandoffInv, RunIsSound
  <2>5. RunIsSound'
    BY <1>1, <1>3, <2>2, <2>4 DEF RunIsSound
  <2>6. SettledWasPaid'
    BY <1>1, <1>3, <2>3 DEF HandoffInv, SettledWasPaid, Accounted
  <2>7. QED
    BY <1>1, <1>3, <2>2, <2>5, <2>6, RunFrame DEF HandoffInv, OffChainTypes
<1>4. QED
  BY <1>2, <1>3 DEF ReadThreshold, FailAuth, Throw

\* Distinct owners, as many as there are signatures: enough of them, unless the
\* Safe was changed since its threshold was read.
LEMMA ReadOwnersKeepsInv == HandoffInv /\ ReadOwners => HandoffInv'
<1> SUFFICES ASSUME HandoffInv, ReadOwners PROVE HandoffInv'
  OBVIOUS
<1>1. /\ UNCHANGED <<chainVars, mode, safe, guard, attempts>>
      /\ run \in RunRecords /\ run # Idle /\ run.pc = "owners"
      /\ run.request \in Requests
  BY RunFields DEF ReadOwners, HandoffInv, RunRecords
<1>2. ASSUME Fail(run.request, FALSE, "DISPUTING") PROVE HandoffInv'
  BY <1>1, <1>2, EndKeepsInv
<1>3. CASE /\ SignersAreOwners(run.request, safe.owners)
           /\ run' = [run EXCEPT !.pc = "sending", !.signedOff = SignedOff(run.request, safe)]
           /\ UNCHANGED <<l3, report>>
  <2>1. SignedOff(run.request, safe) \in BOOLEAN
    BY DEF SignedOff
  <2>2. /\ run' \in RunRecords /\ run'.pc = "sending" /\ run'.request = run.request
        /\ run'.signedOff = SignedOff(run.request, safe)
        /\ run'.changed = run.changed
    BY <1>1, <1>3, <2>1 DEF RunRecords
  <2>3. \A d : Accounted(d)' = Accounted(d)
    BY <1>1, ChainFrame DEF chainVars
  <2>4. run.request.proof \in Proofs /\ Len(attempts) < MaxAttempts
    BY <1>1 DEF HandoffInv, RunIsSound
  <2>5. mode # "simulation" => run'.signedOff \/ run'.changed
    <3>1. DistinctSigners(run.request) \cap safe.owners = DistinctSigners(run.request)
      BY <1>3 DEF SignersAreOwners
    <3>2. Cardinality(DistinctSigners(run.request)) = Len(run.request.signers)
      BY <1>3 DEF SignersAreOwners
    <3>3. mode # "simulation" => run.changed \/ Len(run.request.signers) >= safe.threshold
      BY <1>1 DEF HandoffInv, RunIsSound
    <3>4. QED
      BY <2>2, <3>1, <3>2, <3>3 DEF SignedOff
  <2>6. RunIsSound'
    BY <1>1, <1>3, <2>2, <2>4, <2>5 DEF RunIsSound
  <2>7. SettledWasPaid'
    BY <1>1, <1>3, <2>3 DEF HandoffInv, SettledWasPaid, Accounted
  <2>8. QED
    BY <1>1, <1>3, <2>2, <2>6, <2>7, RunFrame DEF HandoffInv, OffChainTypes
<1>4. QED
  BY <1>2, <1>3 DEF ReadOwners, FailAuth, Throw

\* A run settles only after the transaction that took its nonce has succeeded: one
\* for its own contract, or its nonce is lost.
LEMMA WaitKeepsInv == HandoffInv /\ Wait => HandoffInv'
<1> SUFFICES ASSUME HandoffInv, Wait PROVE HandoffInv'
  OBVIOUS
<1>1. /\ UNCHANGED <<chainVars, mode, safe, guard, attempts>>
      /\ run \in RunRecords /\ run # Idle /\ run.pc = "waiting"
      /\ run.request \in Requests
  BY RunFields DEF Wait, HandoffInv, RunRecords
<1>2. ASSUME NEW recoverable \in BOOLEAN, NEW suggested,
             Fail(run.request, recoverable, suggested)
      PROVE  HandoffInv'
  BY <1>1, <1>2, EndKeepsInv
<1>3. CASE Answered("succeeded") /\ run' = [run EXCEPT !.pc = "settling"] /\ UNCHANGED <<l3, report>>
  <2>1. run' \in RunRecords /\ run'.pc = "settling" /\ run'.request = run.request
    BY <1>1, <1>3 DEF RunRecords
  <2>2. \A d : Accounted(d)' = Accounted(d)
    BY <1>1, ChainFrame DEF chainVars
  <2>3. /\ run.request.proof \in Proofs
        /\ attempts # <<>> /\ attempts[Len(attempts)].request = run.request
    BY <1>1 DEF HandoffInv, RunIsSound
  <2>4. Len(attempts) \in DOMAIN attempts
    BY <2>3, EmptySeq, LenProperties DEF HandoffInv, OffChainTypes
  <2>5. Accounted(run.request.contract)
    <3>1. PICK i \in DOMAIN attempts : /\ attempts[i].nonce = attempts[Len(attempts)].nonce
                                       /\ attempts[i].result = "succeeded"
      BY <1>3 DEF Answered
    <3>2. CASE attempts[i].request.contract = run.request.contract
      BY <3>1, <3>2 DEF HandoffInv, AttemptsAreSound, Accounted
    <3>3. CASE attempts[i].request.contract # run.request.contract
      BY <2>3, <2>4, <3>1, <3>3 DEF NonceLost, Accounted
    <3>4. QED
      BY <3>2, <3>3
  <2>6. RunIsSound'
    BY <1>1, <2>1, <2>2, <2>3, <2>5 DEF RunIsSound
  <2>7. SettledWasPaid'
    BY <1>1, <1>3, <2>2 DEF HandoffInv, SettledWasPaid, Accounted
  <2>8. QED
    BY <1>1, <1>3, <2>1, <2>6, <2>7, RunFrame DEF HandoffInv, OffChainTypes
<1>4. QED
  BY <1>2, <1>3 DEF Wait, Throw

\* Only what the chain has paid makes a contract settled.
LEMMA SettleKeepsInv == HandoffInv /\ Settle => HandoffInv'
<1> SUFFICES ASSUME HandoffInv, Settle PROVE HandoffInv'
  OBVIOUS
<1>1. /\ UNCHANGED <<chainVars, mode, safe, attempts>>
      /\ run \in RunRecords /\ run # Idle /\ run.pc = "settling"
      /\ run.request \in Requests
  BY RunFields DEF Settle, HandoffInv, RunRecords
<1>2. ASSUME NEW recoverable \in BOOLEAN, NEW suggested,
             Fail(run.request, recoverable, suggested), UNCHANGED guard
      PROVE  HandoffInv'
  BY <1>1, <1>2, EndKeepsInv
<1>3. CASE Finish(run.request)
  <2>1. run.request.contract \in Contracts /\ Id(run.request) \in Ids
    BY <1>1 DEF Requests, Id, Ids
  <2>2. /\ l3' \in [Contracts -> L3States]
        /\ \A c \in Contracts :
             l3'[c] = "SETTLED" => l3[c] = "SETTLED" \/ c = run.request.contract
        /\ guard' \in [Ids -> {"NONE", "QUEUED", "SUBMITTED", "FINALIZED"}]
        /\ report' \in Reports
        /\ run' = Idle
    BY <1>3, <2>1 DEF Finish, OnExecutionSuccess, HandoffInv, OffChainTypes, L3States, Reports
  <2>3. \A d : Accounted(d)' = Accounted(d)
    BY <1>1, ChainFrame DEF chainVars
  <2>4. mode # "simulation" => Accounted(run.request.contract)
    BY <1>1 DEF HandoffInv, RunIsSound
  <2>5. SettledWasPaid'
    BY <1>1, <2>2, <2>3, <2>4 DEF HandoffInv, SettledWasPaid, Accounted
  <2>6. RunIsSound'
    BY <2>2, IdleRun DEF RunIsSound
  <2>7. QED
    BY <1>1, <2>2, <2>5, <2>6, RunFrame
<1>4. QED
  BY <1>2, <1>3 DEF Settle, Throw

\* A restart forgets, and what is forgotten promises nothing.
LEMMA RestartKeepsInv == HandoffInv /\ Restart => HandoffInv'
<1> SUFFICES ASSUME HandoffInv, Restart PROVE HandoffInv'
  OBVIOUS
<1>1. /\ l3' \in [Contracts -> L3States]
      /\ guard' \in [Ids -> {"NONE", "QUEUED", "SUBMITTED", "FINALIZED"}]
      /\ report' \in Reports
      /\ run' = Idle
      /\ UNCHANGED <<chainVars, mode, safe, attempts>>
  BY DEF Restart, L3States, Reports
<1>2. RunIsSound'
  BY <1>1, IdleRun DEF RunIsSound
<1>3. SettledWasPaid'
  BY DEF Restart, SettledWasPaid
<1>4. QED
  BY <1>1, <1>2, <1>3, RunFrame

\* A transaction goes out, with the signatures its run had.
LEMMA SendKeepsInv == HandoffInv /\ Send => HandoffInv'
<1> SUFFICES ASSUME HandoffInv, Send PROVE HandoffInv'
  OBVIOUS
<1>1. /\ UNCHANGED <<engineVars, module, mode, safe>>
      /\ run \in RunRecords /\ run # Idle /\ run.pc = "sending"
      /\ run.request \in Requests /\ Id(run.request) \in Ids
      /\ run.request.proof \in Proofs
      /\ Len(attempts) < MaxAttempts
      /\ mode # "simulation" => run.signedOff \/ run.changed
  BY RunFields DEF Send, chainVars, HandoffInv, RunRecords, RunIsSound, Id, Ids, Requests
<1>2. /\ EngineTypeOK' /\ PaymentInv' /\ Deployed'
      /\ UNCHANGED <<registered, status, openings, executions>>
      /\ \A c : PaidByChain(c)' = PaidByChain(c)
  BY <1>1, ChainFrame
<1>3. guard' \in [Ids -> {"NONE", "QUEUED", "SUBMITTED", "FINALIZED"}]
  BY <1>1 DEF Send, SetGuard, HandoffInv, OffChainTypes
<1>4. CASE UNCHANGED attempts
  <2>1. Fail(run.request, FALSE, "DISPUTING")
    <3>1. ~Attempt("simulated") /\ ~Attempt("pending")
      BY <1>1, <1>4, AttemptAppended DEF HandoffInv, Results
    <3>2. QED
      BY <3>1 DEF Send, Throw
  <2>2. /\ l3' \in [Contracts -> L3States]
        /\ report' \in Reports
        /\ run' = Idle
        /\ \A c \in Contracts : l3'[c] = "SETTLED" => l3[c] = "SETTLED"
    BY <1>1, <2>1, FailTypes DEF HandoffInv
  <2>3. RunIsSound'
    BY <2>2, IdleRun DEF RunIsSound
  <2>4. SettledWasPaid'
    <3>1. \A d : Accounted(d)' = Accounted(d)
      BY <1>1, <1>4, ChainFrame
    <3>2. QED
      BY <1>1, <2>2, <3>1 DEF HandoffInv, SettledWasPaid, Accounted
  <2>5. QED
    BY <1>1, <1>3, <1>4, <2>2, <2>3, <2>4, RunFrame DEF chainVars
<1>5. ASSUME NEW result \in {"simulated", "pending"}, Attempt(result),
             result = "simulated" => mode = "simulation",
             \/ /\ run' = [run EXCEPT !.pc = IF result = "simulated" THEN "settling" ELSE "waiting"]
                /\ UNCHANGED <<l3, report>>
             \/ Fail(run.request, FALSE, "DISPUTING")
      PROVE  HandoffInv'
  <2>1. /\ attempts' \in Seq(AttemptRecords)
        /\ Len(attempts) \in Nat
        /\ Len(attempts') = Len(attempts) + 1
        /\ DOMAIN attempts = 1 .. Len(attempts)
        /\ DOMAIN attempts' = 1 .. Len(attempts) + 1
        /\ \A j \in DOMAIN attempts : attempts'[j] = attempts[j]
        /\ attempts'[Len(attempts) + 1] =
             [request |-> run.request, signedOff |-> run.signedOff, changed |-> run.changed,
              result |-> result, agreed |-> FALSE, nonce |-> NextFromChain]
    BY <1>1, <1>5, AttemptAppended DEF HandoffInv, Results
  <2>2. /\ l3' \in [Contracts -> L3States]
        /\ report' \in Reports
        /\ \A c \in Contracts : l3'[c] = "SETTLED" => l3[c] = "SETTLED"
        /\ \/ run' = Idle
           \/ /\ run' \in RunRecords /\ run'.request = run.request
              /\ run'.pc = IF result = "simulated" THEN "settling" ELSE "waiting"
    <3>1. CASE Fail(run.request, FALSE, "DISPUTING")
      BY <1>1, <3>1, FailTypes DEF HandoffInv
    <3>2. CASE /\ run' = [run EXCEPT !.pc = IF result = "simulated" THEN "settling"
                                                                   ELSE "waiting"]
               /\ UNCHANGED <<l3, report>>
      BY <1>1, <3>2 DEF HandoffInv, OffChainTypes, RunRecords
    <3>3. QED
      BY <1>5, <3>1, <3>2
  <2>3. OffChainTypes'
    BY <1>1, <1>3, <2>1, <2>2 DEF HandoffInv, OffChainTypes
  <2>4. RunIsSound'
    <3>1. attempts' # <<>> /\ attempts'[Len(attempts')].request = run.request
      BY <2>1
    <3>2. QED
      BY <1>1, <1>5, <2>2, <3>1, IdleRun DEF RunIsSound
  <2>5. AttemptsAreSound'
    <3>1. Len(attempts') <= MaxAttempts
      BY <1>1, <2>1, HandoffAssumption
    <3>2. ASSUME NEW i \in DOMAIN attempts'
          PROVE  /\ attempts'[i].request.proof \in Proofs
                 /\ attempts'[i].result = "succeeded"
                      => PaidByChain(attempts'[i].request.contract)
                 /\ mode # "simulation" => attempts'[i].signedOff \/ attempts'[i].changed
      <4>1. CASE i \in DOMAIN attempts
        BY <1>2, <2>1, <4>1 DEF HandoffInv, AttemptsAreSound, QuorumUnlessChanged
      <4>2. CASE i = Len(attempts) + 1
        <5>1. /\ attempts'[i].request = run.request /\ attempts'[i].result = result
              /\ attempts'[i].signedOff = run.signedOff /\ attempts'[i].changed = run.changed
          BY <2>1, <4>2
        <5>2. QED
          BY <1>1, <1>5, <5>1
      <4>3. QED
        BY <2>1, <4>1, <4>2
    <3>3. QED
      BY <1>1, <1>2, <3>1, <3>2 DEF AttemptsAreSound, QuorumUnlessChanged, PaidByChain
  <2>6. SettledWasPaid'
    <3>1. ASSUME NEW d, Accounted(d) PROVE Accounted(d)'
      BY <1>2, <2>1, <3>1, LostStaysLost DEF Accounted
    <3>2. QED
      BY <1>1, <2>2, <3>1 DEF HandoffInv, SettledWasPaid, Accounted
  <2>7. OpeningsToSpare'
    <3>1. \A c : SucceededOf(c)' = SucceededOf(c)
      BY <1>5, <2>1 DEF SucceededOf
    <3>2. QED
      BY <1>2, <3>1 DEF HandoffInv, OpeningsToSpare, NotYetExecuted
  <2>8. AgreedTriggerExecutes'
    BY <1>5, <2>1 DEF HandoffInv, AgreedTriggerExecutes
  <2>9. QED
    BY <1>2, <2>3, <2>4, <2>5, <2>6, <2>7, <2>8 DEF HandoffInv
<1>6. QED
  BY <1>4, <1>5 DEF Send, Throw

-----------------------------------------------------------------------------
(* The chain and the Safe.                                                 *)

\* What becomes of a transaction that the chain does not execute.
LEMMA RefusedKeepsInv ==
  ASSUME HandoffInv, UNCHANGED <<chainVars, mode, l3, safe, guard, run, report>>,
         NEW i \in DOMAIN attempts, NEW result \in {"reverted", "dropped"},
         NEW agreed \in BOOLEAN, attempts[i].result = "pending", Becomes(i, result, agreed),
         result = "reverted" /\ attempts[i].request.state = "TRIGGERED" => ~agreed
  PROVE  HandoffInv'
<1>1. /\ attempts' \in Seq(AttemptRecords)
      /\ DOMAIN attempts' = DOMAIN attempts
      /\ Len(attempts') = Len(attempts)
      /\ attempts'[i].result = result /\ attempts'[i].agreed = agreed
      /\ \A j \in DOMAIN attempts :
           /\ attempts'[j].request = attempts[j].request
           /\ attempts'[j].signedOff = attempts[j].signedOff
           /\ attempts'[j].changed = attempts[j].changed
           /\ attempts'[j].nonce = attempts[j].nonce
           /\ j # i => attempts'[j] = attempts[j]
  BY AttemptUpdate DEF HandoffInv, Results
<1>2. /\ EngineTypeOK' /\ PaymentInv' /\ Deployed'
      /\ UNCHANGED <<engineVars, module, mode, l3, safe, guard, run, report>>
      /\ UNCHANGED <<registered, status, openings, executions>>
      /\ \A c : PaidByChain(c)' = PaidByChain(c)
  BY ChainFrame DEF chainVars
<1>3. OffChainTypes'
  BY <1>1, <1>2 DEF HandoffInv, OffChainTypes
<1>4. attempts # <<>> => attempts' # <<>> /\ Len(attempts) \in DOMAIN attempts
  <2>1. /\ attempts \in Seq(AttemptRecords) /\ DOMAIN attempts = 1 .. Len(attempts)
        /\ Len(attempts) \in Nat
    BY LenProperties DEF HandoffInv, OffChainTypes
  <2>2. QED
    BY <1>1, <2>1, EmptySeq
<1>11. ASSUME NEW d, Accounted(d) PROVE Accounted(d)'
  BY <1>1, <1>2, <1>11, LostStaysLost DEF Accounted
<1>5. RunIsSound'
  BY <1>1, <1>2, <1>4, <1>11 DEF HandoffInv, RunIsSound
<1>6. AttemptsAreSound'
  BY <1>1, <1>2 DEF HandoffInv, AttemptsAreSound, QuorumUnlessChanged
<1>7. SettledWasPaid'
  BY <1>2, <1>11 DEF HandoffInv, SettledWasPaid, Accounted
<1>8. OpeningsToSpare'
  <2>1. \A c : SucceededOf(c)' = SucceededOf(c)
    BY <1>1 DEF SucceededOf
  <2>2. QED
    BY <1>2, <2>1 DEF HandoffInv, OpeningsToSpare, NotYetExecuted
<1>9. AgreedTriggerExecutes'
  BY <1>1 DEF HandoffInv, AgreedTriggerExecutes
<1>10. QED
  BY <1>2, <1>3, <1>5, <1>6, <1>7, <1>8, <1>9 DEF HandoffInv

\* Every obligation is to an account the deployment verified, in a country it
\* allowed.
LEMMA ObligationsComply ==
  ASSUME EngineAssumption, Deployed, NEW from \in Accounts, NEW obs \in ObligationLists,
         NEW j \in DOMAIN obs
  PROVE  Compliant(from, obs[j])
<1>1. obs[j] \in [to : Accounts, partition : Partitions \cup {NoPartition}]
  <2>1. obs \in Seq([to : Accounts, partition : Partitions \cup {NoPartition}])
    BY DEF EngineAssumption
  <2>2. QED
    BY <2>1, ElementOfSeq, LenProperties
<1>2. obs[j].to \in Accounts /\ obs[j].partition \in Partitions \cup {NoPartition}
  BY <1>1
<1>3. CanTransfer(from, obs[j].to)
  BY <1>2 DEF CanTransfer, Deployed
<1>4. obs[j].partition # NoPartition => <<obs[j].partition, identity[obs[j].to].country>> \in countryAllowed
  BY <1>2 DEF Deployed
<1>5. QED
  BY <1>2, <1>3, <1>4 DEF Compliant, CanTransferByPartition, Deployed

LEMMA CallerIsOperator == Deployed => Caller \in operators /\ Caller \in Accounts
BY HandoffAssumption DEF Deployed, Caller

\* No key of the next batch has been taken.
LEMMA KeysAreFresh ==
  ASSUME PaymentInv, NEW c \in Contracts, NEW obs \in ObligationLists
  PROVE  IdempotencyKeys(c, obs) \cap executed = {}
<1> SUFFICES ASSUME NEW key \in executed, key \in IdempotencyKeys(c, obs) PROVE FALSE
  OBVIOUS
<1>1. key[1] = c /\ key[3] = executionNonce[c]
  BY DEF IdempotencyKeys
<1>2. key[3] < executionNonce[key[1]]
  BY DEF PaymentInv, KeysNeverRepeat
<1>3. executionNonce[c] \in Nat
  BY DEF PaymentInv, PaymentTypes
<1>4. QED
  BY <1>1, <1>2, <1>3

\* The calldata says TRIGGERED when the request does, and neither the module nor
\* the engine asks for more than the request promises.
LEMMA AgreedIsAdmitted ==
  ASSUME HandoffInv, NEW request \in Requests, request.proof \in Proofs,
         request.state = "TRIGGERED", Agrees(request)
  PROVE  (mode = "safe" => ModuleAdmits(request)) /\ BatchIsPassed(request)
<1>1. request.contract \in Contracts /\ request.obligations \in ObligationLists
  BY DEF Requests
<1>2. DecodedState(request) = "TRIGGERED"
  BY DEF DecodedState, LifecycleStates, LifecycleToUint8
<1>3. mode = "safe" => ModuleAdmits(request)
  BY DEF Agrees, ModuleAdmits
<1>4. ~emergencyPause /\ Caller \in operators /\ Caller \in Accounts
  BY CallerIsOperator DEF HandoffInv, Deployed
<1>5. \A j \in DOMAIN request.obligations : Compliant(Caller, request.obligations[j])
  BY <1>1, <1>4, ObligationsComply, EngineAssumption DEF HandoffInv
<1>6. IdempotencyKeys(request.contract, request.obligations) \cap executed = {}
  BY <1>1, KeysAreFresh DEF HandoffInv
<1>7. /\ request.obligations = registered[request.contract].obligations
      /\ request.snapshot = registered[request.contract].snapshot
      /\ request.proof.snapshot = request.snapshot
      /\ ProofIsNew(request.proof)
      /\ NotYetExecuted(request.contract)
      /\ WindowClosed(request.contract)
  BY DEF Agrees, ProofIsNew, NotYetExecuted, WindowClosed
<1>8. QED
  BY <1>2, <1>3, <1>4, <1>5, <1>6, <1>7 DEF BatchIsPassed, BatchPasses, StateAccepted

\* A mined batch is a batch of ExecutionEngine.
LEMMA BatchIsEngineStep ==
  ASSUME Deployed, NEW request \in Requests, request.proof \in Proofs, BatchOf(request)
  PROVE  EngineNext
<1>1. /\ request.contract \in Contracts /\ request.obligations \in ObligationLists
      /\ request.snapshot \in Snapshots
  BY DEF Requests
<1>2. Caller \in Accounts
  BY CallerIsOperator
<1>3. DecodedState(request) \in {"TRIGGERED", "ARBITRATION_RESOLVED"}
  BY DEF BatchOf, ExecuteBatch, BatchPasses, StateAccepted
<1>4. OperatorNext
  BY <1>1, <1>2, <1>3 DEF OperatorNext, BatchOf
<1>5. QED
  BY <1>4 DEF EngineNext

\* Attempts are finitely many, those that succeeded too.
LEMMA SucceededFinite ==
  ASSUME OffChainTypes, NEW c
  PROVE  IsFiniteSet(SucceededOf(c)) /\ Cardinality(SucceededOf(c)) \in Nat
<1>1. Len(attempts) \in Nat /\ DOMAIN attempts = 1 .. Len(attempts)
  BY LenProperties DEF OffChainTypes
<1>2. IsFiniteSet(1 .. Len(attempts))
  BY <1>1, FS_Interval
<1>3. SucceededOf(c) \in SUBSET (1 .. Len(attempts))
  BY <1>1 DEF SucceededOf
<1>4. QED
  BY <1>2, <1>3, FS_Subset, FS_CardinalityType

\* A payment takes the opening its contract had to spare.
LEMMA PaymentKeepsInv ==
  ASSUME HandoffInv, NEW i \in DOMAIN attempts, attempts[i].result = "pending",
         NEW request \in Requests, request = attempts[i].request, BatchOf(request),
         NEW c, c = request.contract,
         NEW agreed \in BOOLEAN, Becomes(i, "succeeded", agreed),
         UNCHANGED <<module, mode, l3, safe, guard, run, report>>
  PROVE  HandoffInv'
<1>1. /\ attempts' \in Seq(AttemptRecords)
      /\ DOMAIN attempts' = DOMAIN attempts
      /\ Len(attempts') = Len(attempts)
      /\ attempts'[i].result = "succeeded"
      /\ \A j \in DOMAIN attempts :
           /\ attempts'[j].request = attempts[j].request
           /\ attempts'[j].signedOff = attempts[j].signedOff
           /\ attempts'[j].changed = attempts[j].changed
           /\ attempts'[j].nonce = attempts[j].nonce
           /\ j # i => attempts'[j] = attempts[j]
  BY AttemptUpdate DEF HandoffInv, Results
<1>2. request.proof \in Proofs /\ c \in Contracts /\ request.obligations \in ObligationLists
  BY DEF Requests, HandoffInv, AttemptsAreSound
<1>3. EngineTypeOK' /\ PaymentInv'
  BY <1>2, BatchIsEngineStep, NextEngineTypes, NextPayment DEF HandoffInv
<1>4. /\ UNCHANGED <<time, adminVars, registryVars, openings>>
      /\ NotYetExecuted(c)
      /\ request.obligations = registered[c].obligations
      /\ status' = [status EXCEPT ![c] = "SETTLEMENT_PENDING"]
      /\ executions' = executions \cup
           {[contract |-> c, proof |-> request.proof.key, opening |-> openings[c]]}
  BY DEF BatchOf, ExecuteBatch, BatchPasses
<1>5. Deployed'
  BY <1>4 DEF HandoffInv, Deployed, adminVars, registryVars
<1>6. OffChainTypes'
  BY <1>1 DEF HandoffInv, OffChainTypes
<1>7. \A d : PaidByChain(d) => \E e \in executions' : e.contract = d
  BY <1>4 DEF PaidByChain
<1>8. \E e \in executions' : e.contract = c
  <2> DEFINE new == [contract |-> c, proof |-> request.proof.key, opening |-> openings[c]]
  <2>1. new \in executions' /\ new.contract = c
    BY <1>4
  <2>2. QED
    BY <2>1
<1>9. attempts # <<>> /\ attempts' # <<>> /\ Len(attempts) \in DOMAIN attempts
  <2>1. /\ attempts \in Seq(AttemptRecords) /\ DOMAIN attempts = 1 .. Len(attempts)
        /\ Len(attempts) \in Nat
    BY LenProperties DEF HandoffInv, OffChainTypes
  <2>2. QED
    BY <1>1, <2>1, EmptySeq
<1>16. ASSUME NEW d, Accounted(d) PROVE Accounted(d)'
  <2>1. PaidByChain(d) => PaidByChain(d)'
    BY <1>7 DEF PaidByChain
  <2>2. NonceLost(d) => NonceLost(d)'
    BY <1>1, LostStaysLost
  <2>3. QED
    BY <1>16, <2>1, <2>2 DEF Accounted
<1>10. RunIsSound'
  <2>1. UNCHANGED <<run, mode, safe>>
    OBVIOUS
  <2>2. mode # "simulation" /\ run.pc = "settling" => Accounted(run.request.contract)'
    BY <1>16 DEF HandoffInv, RunIsSound
  <2>3. Len(attempts') = Len(attempts) /\ attempts'[Len(attempts)].request = attempts[Len(attempts)].request
    BY <1>1, <1>9
  <2>4. QED
    BY <1>9, <2>1, <2>2, <2>3 DEF HandoffInv, RunIsSound
<1>11. AttemptsAreSound'
  <2>1. ASSUME NEW j \in DOMAIN attempts, attempts'[j].result = "succeeded"
        PROVE  \E e \in executions' : e.contract = attempts'[j].request.contract
    <3>1. CASE j = i
      BY <1>1, <1>8, <3>1 DEF PaidByChain
    <3>2. CASE j # i
      <4>1. attempts'[j] = attempts[j]
        BY <1>1, <3>2
      <4>2. PaidByChain(attempts[j].request.contract)
        BY <2>1, <4>1 DEF HandoffInv, AttemptsAreSound
      <4>3. QED
        BY <1>7, <4>1, <4>2
    <3>3. QED
      BY <3>1, <3>2
  <2>2. \A j \in DOMAIN attempts : attempts'[j].request.proof \in Proofs
    BY <1>1 DEF HandoffInv, AttemptsAreSound
  <2>3. QuorumUnlessChanged'
    BY <1>1 DEF HandoffInv, AttemptsAreSound, QuorumUnlessChanged
  <2>4. Len(attempts') <= MaxAttempts
    BY <1>1 DEF HandoffInv, AttemptsAreSound
  <2>5. QED
    BY <1>1, <2>1, <2>2, <2>3, <2>4 DEF AttemptsAreSound, PaidByChain
<1>12. SettledWasPaid'
  BY <1>16 DEF HandoffInv, SettledWasPaid, Accounted
<1>13. OpeningsToSpare'
  <2> DEFINE Next(d) == {j \in DOMAIN attempts' : /\ attempts'[j].result = "succeeded"
                                                  /\ attempts'[j].request.contract = d}
             Count(d) == Cardinality(SucceededOf(d))
  <2>1. \A d \in Contracts : openings[d] \in Nat
    BY DEF HandoffInv, PaymentInv, PaymentTypes
  <2>2. IsFiniteSet(SucceededOf(c)) /\ Count(c) \in Nat
    BY SucceededFinite DEF HandoffInv
  <2>3. Next(c) = SucceededOf(c) \cup {i} /\ i \notin SucceededOf(c)
    BY <1>1 DEF SucceededOf
  <2>4. Cardinality(Next(c)) = Count(c) + 1
    BY <2>2, <2>3, FS_AddElement
  <2>5. openings[c] > 0
    <3>1. registered[c].obligations # Nil
      BY <1>2, <1>4, EngineAssumption
    <3>2. QED
      BY <1>2, <2>1, <3>1 DEF HandoffInv, OpeningsToSpare
  <2>6. Cardinality(Next(c)) <= openings[c]
    <3>1. Count(c) < openings[c]
      BY <1>2, <1>4, <2>5 DEF HandoffInv, OpeningsToSpare
    <3>2. QED
      BY <1>2, <2>1, <2>2, <2>4, <3>1
  <2>7. status'[c] = "SETTLEMENT_PENDING"
    BY <1>2, <1>4 DEF HandoffInv, PaymentInv, PaymentTypes
  <2>8. ASSUME NEW d \in Contracts, d # c
        PROVE  Next(d) = SucceededOf(d) /\ status'[d] = status[d]
    <3>1. Next(d) = SucceededOf(d)
      BY <1>1, <2>8 DEF SucceededOf
    <3>2. status'[d] = status[d]
      BY <1>2, <1>4, <2>8 DEF HandoffInv, PaymentInv, PaymentTypes
    <3>3. QED
      BY <3>1, <3>2
  <2>9. UNCHANGED <<openings, registered>>
    BY <1>4 DEF adminVars
  <2>10. ASSUME NEW d \in Contracts
         PROVE  /\ openings'[d] = 0 => registered'[d].obligations = Nil
                /\ Cardinality(Next(d)) <= openings'[d]
                /\ status'[d] \notin {"SETTLEMENT_PENDING", "SETTLED"} /\ openings'[d] > 0
                     => Cardinality(Next(d)) < openings'[d]
    <3>1. CASE d = c
      BY <2>5, <2>6, <2>7, <2>9, <3>1
    <3>2. CASE d # c
      BY <2>8, <2>9, <3>2 DEF HandoffInv, OpeningsToSpare, NotYetExecuted
    <3>3. QED
      BY <3>1, <3>2
  <2>11. QED
    BY <2>10 DEF OpeningsToSpare, SucceededOf, NotYetExecuted
<1>14. AgreedTriggerExecutes'
  BY <1>1 DEF HandoffInv, AgreedTriggerExecutes
<1>15. QED
  BY <1>3, <1>5, <1>6, <1>10, <1>11, <1>12, <1>13, <1>14 DEF HandoffInv

LEMMA MineKeepsInv == ASSUME HandoffInv, NEW i \in DOMAIN attempts, Mine(i) PROVE HandoffInv'
<1>1. attempts[i].request \in Requests /\ attempts[i].request.proof \in Proofs
  BY AttemptFields DEF HandoffInv, AttemptsAreSound, AttemptRecords
<1>2. PICK request \in Requests : request = attempts[i].request
  BY <1>1
<1>3. PICK agreed \in BOOLEAN : agreed = Agrees(request)
  BY DEF Agrees
<1>4. /\ request.proof \in Proofs
      /\ attempts[i].result = "pending"
      /\ UNCHANGED <<module, mode, l3, safe, guard, run, report>>
  BY <1>1, <1>2 DEF Mine
<1>5. CASE BatchOf(request) /\ Becomes(i, "succeeded", agreed)
  <2>1. PICK c : c = request.contract
    OBVIOUS
  <2>2. QED
    BY <1>2, <1>4, <1>5, <2>1, PaymentKeepsInv
<1>6. CASE /\ ~((mode = "safe" => ModuleAdmits(request)) /\ BatchIsPassed(request))
           /\ Becomes(i, "reverted", agreed)
           /\ UNCHANGED engineVars
  <2>1. request.state = "TRIGGERED" => ~agreed
    BY <1>3, <1>4, <1>6, AgreedIsAdmitted
  <2>2. QED
    BY <1>2, <1>4, <1>6, <2>1, RefusedKeepsInv DEF chainVars
<1>7. QED
  BY <1>2, <1>3, <1>5, <1>6 DEF Mine

LEMMA DropKeepsInv == ASSUME HandoffInv, NEW i \in DOMAIN attempts, Drop(i) PROVE HandoffInv'
BY RefusedKeepsInv DEF Drop

\* Governance changes the Safe or its module, and the run notes the first.
LEMMA GovernanceKeepsHandoff ==
  ASSUME HandoffInv, UNCHANGED <<engineVars, mode, l3, guard, report, attempts>>,
         safe' \in SafeConfigs,
         module' \in [enabled : BOOLEAN, deadline : [Contracts -> 0 .. MaxTime + Expiry]],
         \/ UNCHANGED <<safe, run>>
         \/ run' = IF run.pc = "owners" THEN [run EXCEPT !.changed = TRUE] ELSE run
  PROVE  HandoffInv'
<1>1. /\ EngineTypeOK' /\ PaymentInv' /\ Deployed'
      /\ UNCHANGED <<registered, status, openings, executions>>
      /\ \A c : PaidByChain(c)' = PaidByChain(c)
  BY ChainFrame
<1>2. \/ UNCHANGED <<safe, run>>
      \/ UNCHANGED run /\ run.pc # "owners"
      \/ /\ run \in RunRecords /\ run # Idle /\ run' \in RunRecords
         /\ run'.pc = "owners" /\ run.pc = "owners"
         /\ run'.request = run.request /\ run'.changed
    <2>1. CASE run.pc # "owners"
      BY <2>1
    <2>2. CASE run.pc = "owners"
      BY <2>2, RunFields DEF HandoffInv, RunRecords
    <2>3. QED
      BY <2>1, <2>2
<1>3. OffChainTypes'
  BY <1>2 DEF HandoffInv, OffChainTypes
<1>8. \A c : Accounted(c)' = Accounted(c)
  BY ChainFrame
<1>4. RunIsSound'
  BY <1>2, <1>8 DEF HandoffInv, RunIsSound
<1>5. AttemptsAreSound' /\ SettledWasPaid'
  BY <1>1, <1>8 DEF HandoffInv, AttemptsAreSound, QuorumUnlessChanged, SettledWasPaid,
                    Accounted
<1>6. OpeningsToSpare' /\ AgreedTriggerExecutes'
  BY <1>1 DEF HandoffInv, OpeningsToSpare, SucceededOf, NotYetExecuted, AgreedTriggerExecutes
<1>7. QED
  BY <1>1, <1>3, <1>4, <1>5, <1>6 DEF HandoffInv

LEMMA SafeKeepsInv ==
  ASSUME HandoffInv, NEW config \in SafeConfigs, ReconfigureSafe(config) PROVE HandoffInv'
BY GovernanceKeepsHandoff DEF ReconfigureSafe, chainVars, HandoffInv, OffChainTypes

LEMMA ModuleKeepsInv ==
  ASSUME HandoffInv,
         \/ \E enabled \in BOOLEAN : SetModule(enabled)
         \/ \E c \in Contracts : SetExecutionDeadline(c, time)
  PROVE  HandoffInv'
<1>1. module \in [enabled : BOOLEAN, deadline : [Contracts -> 0 .. MaxTime + Expiry]]
  BY DEF HandoffInv, OffChainTypes
<1>2. module' \in [enabled : BOOLEAN, deadline : [Contracts -> 0 .. MaxTime + Expiry]]
  <2>1. CASE \E enabled \in BOOLEAN : SetModule(enabled)
    BY <1>1, <2>1 DEF SetModule
  <2>2. ASSUME NEW c \in Contracts, SetExecutionDeadline(c, time)
        PROVE  module' \in [enabled : BOOLEAN, deadline : [Contracts -> 0 .. MaxTime + Expiry]]
    <3>1. time + Expiry \in 0 .. MaxTime + Expiry
      BY EngineAssumption, HandoffAssumption DEF HandoffInv, EngineTypeOK
    <3>2. QED
      BY <1>1, <2>2, <3>1 DEF SetExecutionDeadline
  <2>3. QED
    BY <2>1, <2>2
<1>3. QED
  BY <1>2, GovernanceKeepsHandoff
     DEF SetModule, SetExecutionDeadline, HandoffInv, OffChainTypes

\* A step of the chain that opens no contract pays nothing.
LEMMA ChainStepsFrame ==
  ASSUME HandoffInv, EngineTypeOK', PaymentInv', Deployed', OpeningsToSpare',
         UNCHANGED <<executions, module, mode, l3, safe, guard, run, report, attempts>>
  PROVE  HandoffInv'
<1>1. \A c : PaidByChain(c)' = PaidByChain(c) /\ NonceLost(c)' = NonceLost(c)
  BY DEF PaidByChain, NonceLost
<1>2. OffChainTypes'
  BY DEF HandoffInv, OffChainTypes
<1>3. RunIsSound'
  BY <1>1 DEF HandoffInv, RunIsSound, Accounted
<1>4. AttemptsAreSound' /\ SettledWasPaid' /\ AgreedTriggerExecutes'
  BY <1>1 DEF HandoffInv, AttemptsAreSound, QuorumUnlessChanged, SettledWasPaid,
              AgreedTriggerExecutes
<1>5. QED
  BY <1>2, <1>3, <1>4 DEF HandoffInv

LEMMA RegisterKeepsOpenings ==
  ASSUME HandoffInv, NEW c \in Contracts, NEW obs \in ObligationLists,
         NEW snapshot \in Snapshots, NEW deadline \in Deadlines,
         RegisterContract(c, obs, snapshot, deadline), UNCHANGED attempts
  PROVE  OpeningsToSpare'
<1>1. openings \in [Contracts -> Nat] /\ status \in [Contracts -> Statuses]
  BY DEF HandoffInv, PaymentInv, PaymentTypes
<1>2. openings' = [openings EXCEPT ![c] = @ + 1] /\ status' = [status EXCEPT ![c] = "NONE"]
  BY DEF RegisterContract
<1>3. \A d \in Contracts : d # c => registered'[d] = registered[d]
  BY DEF RegisterContract, HandoffInv, EngineTypeOK
<1>4. \A d : SucceededOf(d)' = SucceededOf(d)
  BY DEF SucceededOf
<1>5. ASSUME NEW d \in Contracts
      PROVE  /\ openings'[d] = 0 => registered'[d].obligations = Nil
             /\ Cardinality(SucceededOf(d)) <= openings'[d]
             /\ status'[d] \notin {"SETTLEMENT_PENDING", "SETTLED"} /\ openings'[d] > 0
                  => Cardinality(SucceededOf(d)) < openings'[d]
  <2>1. Cardinality(SucceededOf(d)) \in Nat /\ Cardinality(SucceededOf(d)) <= openings[d]
    BY SucceededFinite DEF HandoffInv, OpeningsToSpare
  <2>2. CASE d = c
    BY <1>1, <1>2, <2>1, <2>2
  <2>3. CASE d # c
    BY <1>1, <1>2, <1>3, <2>3 DEF HandoffInv, OpeningsToSpare, NotYetExecuted
  <2>4. QED
    BY <2>2, <2>3
<1>6. QED
  BY <1>4, <1>5 DEF OpeningsToSpare, NotYetExecuted

LEMMA ChainStepsKeepInv == HandoffInv /\ ChainSteps => HandoffInv'
<1> SUFFICES ASSUME HandoffInv, ChainSteps PROVE HandoffInv'
  OBVIOUS
<1>1. EngineNext
  BY DEF ChainSteps, EngineNext, GovernanceNext
<1>2. EngineTypeOK' /\ PaymentInv'
  BY <1>1, NextEngineTypes, NextPayment DEF HandoffInv
<1>3. UNCHANGED <<module, mode, l3, safe, guard, run, report, attempts>>
  BY DEF ChainSteps
<1>4. /\ UNCHANGED <<executions, emergencyPause, operators, registryVars>>
      /\ \/ UNCHANGED <<registered, status, openings>>
         \/ \E c \in Contracts, obs \in ObligationLists, snapshot \in Snapshots,
               deadline \in Deadlines : RegisterContract(c, obs, snapshot, deadline)
  BY DEF ChainSteps, Tick, SetArbitrationOutcome, RegisterContract, adminVars
<1>5. Deployed'
  BY <1>4 DEF HandoffInv, Deployed, registryVars
<1>6. OpeningsToSpare'
  <2>1. CASE UNCHANGED <<registered, status, openings>>
    BY <1>3, <2>1 DEF HandoffInv, OpeningsToSpare, SucceededOf, NotYetExecuted
  <2>2. QED
    BY <1>3, <1>4, <2>1, RegisterKeepsOpenings
<1>7. QED
  BY <1>2, <1>3, <1>4, <1>5, <1>6, ChainStepsFrame

-----------------------------------------------------------------------------
(* The invariant and what follows from it.                                 *)

LEMMA EnvironmentKeepsInv == HandoffInv /\ EnvironmentNext => HandoffInv'
BY ChainStepsKeepInv, MineKeepsInv, DropKeepsInv, SafeKeepsInv, ModuleKeepsInv
   DEF EnvironmentNext

LEMMA NextHandoff == HandoffInv /\ [HandoffNext]_handoffVars => HandoffInv'
<1> SUFFICES ASSUME HandoffInv, [HandoffNext]_handoffVars PROVE HandoffInv'
  OBVIOUS
<1>1. CASE UNCHANGED handoffVars
  <2>1. UNCHANGED <<engineVars, module, mode, l3, safe, guard, run, report, attempts>>
    BY <1>1 DEF handoffVars, chainVars
  <2>2. safe' \in SafeConfigs
        /\ module' \in [enabled : BOOLEAN, deadline : [Contracts -> 0 .. MaxTime + Expiry]]
    BY <2>1 DEF HandoffInv, OffChainTypes
  <2>3. QED
    BY <2>1, <2>2, GovernanceKeepsHandoff
<1>2. CASE RunStep
  BY <1>2, ReadThresholdKeepsInv, ReadOwnersKeepsInv, SendKeepsInv, WaitKeepsInv,
     SettleKeepsInv DEF RunStep
<1>3. QED
  BY <1>1, <1>2, LayerThreeKeepsInv, RestartKeepsInv, EnvironmentKeepsInv DEF HandoffNext

LEMMA HandoffInvariant == HandoffSpec => []HandoffInv
BY InitHandoff, NextHandoff, PTL DEF HandoffSpec

LEMMA InvImpliesHandoffTypes == HandoffInv => HandoffTypeOK
<1> SUFFICES ASSUME HandoffInv PROVE HandoffTypeOK
  OBVIOUS
<1>1. /\ run.pc \in {"idle", "threshold", "owners", "sending", "waiting", "settling"}
      /\ run.pc # "idle" => run.request \in Requests
  BY IdleRun DEF HandoffInv, OffChainTypes, RunRecords, Idle
<1>2. /\ report.status \in {"NONE", "FINALIZED", "FAILED"}
      /\ report.status = "FAILED" => report.id \in Ids /\ report.recoverable \in BOOLEAN
  BY DEF HandoffInv, OffChainTypes, Reports, NoReport
<1>3. attempts \in Seq([request : Requests, signedOff : BOOLEAN, changed : BOOLEAN,
                        result : Results, agreed : BOOLEAN, nonce : Nat])
  BY DEF HandoffInv, OffChainTypes, AttemptRecords
<1>4. QED
  BY <1>1, <1>2, <1>3
     DEF HandoffTypeOK, HandoffInv, OffChainTypes, L3States, AttemptsAreSound

\* Layer 3 says that a contract is settled only if the chain has paid it or a run
\* for it lost its nonce to another contract's payment, and a triggered request that
\* agrees with the chain is not refused there, for any contracts, owners, signatures
\* and any number of runs, replaced transactions and restarts.
THEOREM HandoffIsSafe == HandoffSpec => []HandoffSafe
<1>1. HandoffInv => HandoffSafe
  BY InvImpliesHandoffTypes DEF HandoffInv, HandoffSafe
<1>2. QED
  BY <1>1, HandoffInvariant, PTL

\* However often layer 3 restarts and sends the same obligations again with
\* another proof, the chain pays as many runs as it had openings.
THEOREM PaymentsFitOpenings == HandoffSpec => []PaidOnceHoweverSent
<1>1. HandoffInv => PaidOnceHoweverSent
  BY DEF HandoffInv, OpeningsToSpare, SucceededOf, PaidOnceHoweverSent
<1>2. QED
  BY <1>1, HandoffInvariant, PTL

\* No run sends without M-of-N signatures of the Safe, unless the Safe was
\* reconfigured between the two reads of the check.
THEOREM QuorumHolds == HandoffSpec => []QuorumUnlessChanged
<1>1. HandoffInv => QuorumUnlessChanged
  BY DEF HandoffInv, AttemptsAreSound
<1>2. QED
  BY <1>1, HandoffInvariant, PTL

\* The engine keeps its promises when layer 3 hands executions to it.
THEOREM EngineIsSafeWhenHanded == HandoffSpec => []EngineSafe
<1>1. HandoffInv => EngineSafe
  BY DEF HandoffInv, PaymentInv, EngineSafe
<1>2. QED
  BY <1>1, HandoffInvariant, PTL

-----------------------------------------------------------------------------
(* ObligationPayments, for every set of accounts, partitions and lists of  *)
(* obligations: the accounts hold what was minted, a batch is paid in      *)
(* full, the engine's funds only fill in, and an account that the registry *)
(* does not clear keeps its partition tokens.  The properties of one       *)
(* executeBatch are proved along its list of obligations.                  *)


Obligations == [token : Tokens \cup {NoToken}, to : TokenHolders, value : Nat]
Balances == [Tokens -> [TokenHolders -> Nat]]
Funds == [balance : Balances, allowance : [Holders -> Nat]]

\* The sum of a token's balances.
HeldIn(held, t) == SumFunctionOnSet(held[t], TokenHolders)

-----------------------------------------------------------------------------
(* One payment.                                                            *)

LEMMA HoldersAreFinite == IsFiniteSet(TokenHolders)
<1>1. IsFiniteSet(Holders)
  BY PaymentAssumption
<1>2. QED
  BY <1>1, FS_AddElement DEF TokenHolders

\* A sender that holds the value moves it: the sum stays, the others keep
\* theirs, and who pays itself keeps what it had.
LEMMA MoveKeepsSum ==
  ASSUME NEW held \in Balances, NEW t \in Tokens, NEW from \in TokenHolders,
         NEW to \in TokenHolders, NEW value \in Nat, value <= held[t][from]
  PROVE  LET after == Move(held, t, from, to, value) IN
         /\ after \in Balances
         /\ \A u \in Tokens : HeldIn(after, u) = HeldIn(held, u)
         /\ \A u \in Tokens \ {t} : after[u] = held[u]
         /\ \A a \in TokenHolders \ {from, to} : after[t][a] = held[t][a]
         /\ from = to => after[t][from] = held[t][from]
         /\ from # to => /\ after[t][from] = held[t][from] - value
                         /\ after[t][to] = held[t][to] + value
<1> DEFINE less == [held EXCEPT ![t][from] = @ - value]
           after == [less EXCEPT ![t][to] = @ + value]
<1>1. Move(held, t, from, to, value) = after
  BY DEF Move
<1>2. /\ less \in Balances
      /\ \A u \in Tokens \ {t} : less[u] = held[u]
      /\ \A a \in TokenHolders \ {from} : held[t][a] = less[t][a]
      /\ less[t][from] = held[t][from] - value
  BY DEF Balances
<1> HIDE DEF less
<1>3. /\ after \in Balances
      /\ \A u \in Tokens \ {t} : after[u] = less[u]
      /\ \A a \in TokenHolders \ {to} : less[t][a] = after[t][a]
      /\ after[t][to] = less[t][to] + value
  BY <1>2 DEF Balances
<1> HIDE DEF after
<1>4. /\ \A a \in TokenHolders : held[t][a] \in Nat /\ less[t][a] \in Nat /\ after[t][a] \in Nat
  BY <1>2, <1>3 DEF Balances
<1>5. /\ HeldIn(less, t) + held[t][from] = HeldIn(held, t) + less[t][from]
      /\ HeldIn(after, t) + less[t][to] = HeldIn(less, t) + after[t][to]
      /\ HeldIn(held, t) \in Nat /\ HeldIn(less, t) \in Nat /\ HeldIn(after, t) \in Nat
  <2> DEFINE h == held[t]  l == less[t]  g == after[t]
  <2>1. /\ \A a \in TokenHolders : h[a] \in Nat /\ l[a] \in Nat /\ g[a] \in Nat
        /\ \A a \in TokenHolders \ {from} : h[a] = l[a]
        /\ \A a \in TokenHolders \ {to} : l[a] = g[a]
    BY <1>2, <1>3, <1>4
  <2> HIDE DEF h, l, g
  <2>2. /\ SumFunctionOnSet(l, TokenHolders) + h[from] = SumFunctionOnSet(h, TokenHolders) + l[from]
        /\ SumFunctionOnSet(g, TokenHolders) + l[to] = SumFunctionOnSet(l, TokenHolders) + g[to]
    BY <2>1, HoldersAreFinite, SumUpdate
  <2>3. /\ SumFunctionOnSet(h, TokenHolders) \in Nat
        /\ SumFunctionOnSet(l, TokenHolders) \in Nat
        /\ SumFunctionOnSet(g, TokenHolders) \in Nat
    BY <2>1, HoldersAreFinite, SumRemove
  <2>4. QED
    BY <2>2, <2>3 DEF HeldIn, h, l, g
<1>6. HeldIn(after, t) = HeldIn(held, t)
  BY <1>2, <1>3, <1>4, <1>5
<1>7. \A u \in Tokens \ {t} : HeldIn(after, u) = HeldIn(held, u)
  BY <1>2, <1>3 DEF HeldIn
<1>8. QED
  BY <1>1, <1>2, <1>3, <1>4, <1>6, <1>7
\* An obligation is paid from the caller's or the engine's account.
LEMMA PayerHolds ==
  ASSUME NEW caller \in Holders, NEW funds \in Funds, NEW ob \in Obligations,
         CanPay(caller, funds, ob), ob.token # NoToken
  PROVE  LET from == Payer(caller, funds, ob) IN
         /\ ob.token \in Tokens /\ from \in {caller, Engine} /\ from \in TokenHolders
         /\ ob.to \in TokenHolders /\ ob.value \in Nat
         /\ ob.value <= funds.balance[ob.token][from]
<1>1. ob.token \in Tokens /\ ob.to \in TokenHolders /\ ob.value \in Nat
  BY DEF Obligations
<1>2. Payer(caller, funds, ob) \in {caller, Engine}
  BY DEF Payer
<1>3. ob.token \in TokenPartitions \/ (ob.token = Erc20 /\ ob.token \notin TokenPartitions)
  BY <1>1, PaymentAssumption DEF Tokens
<1>4. ob.value <= funds.balance[ob.token][Payer(caller, funds, ob)]
  BY <1>3 DEF CanPay, CanTransferFunds
<1>5. QED
  BY <1>1, <1>2, <1>4 DEF TokenHolders

\* What one payment does to the balances: it moves the value, or nothing.
LEMMA PayMoves ==
  ASSUME NEW caller \in Holders, NEW funds \in Funds, NEW ob \in Obligations,
         CanPay(caller, funds, ob)
  PROVE  /\ Pay(caller, funds, ob) \in Funds
         /\ ob.token = NoToken => Pay(caller, funds, ob).balance = funds.balance
         /\ ob.token # NoToken => Pay(caller, funds, ob).balance =
              Move(funds.balance, ob.token, Payer(caller, funds, ob), ob.to, ob.value)
<1> DEFINE from == Payer(caller, funds, ob)
           held == Move(funds.balance, ob.token, from, ob.to, ob.value)
           moved == [funds EXCEPT !.balance = held]
<1>1. funds.balance \in Balances /\ funds.allowance \in [Holders -> Nat]
  BY DEF Funds
<1>2. CASE ob.token = NoToken
  BY <1>2, PaymentAssumption DEF Pay
<1>3. CASE ob.token # NoToken
  <2>1. /\ ob.token \in Tokens /\ from \in {caller, Engine} /\ from \in TokenHolders
        /\ ob.to \in TokenHolders /\ ob.value \in Nat
        /\ ob.value <= funds.balance[ob.token][from]
    BY <1>3, PayerHolds
  <2>2. held \in Balances
    <3> HIDE DEF from
    <3>1. QED
      BY <1>1, <2>1, MoveKeepsSum
  <2>3. moved \in Funds /\ moved.balance = held /\ moved.allowance = funds.allowance
    <3> HIDE DEF held
    <3>1. QED
      BY <1>1, <2>2 DEF Funds
  <2>4. CASE ob.token = Erc20 /\ from # Engine
    <3>1. Pay(caller, funds, ob) = [moved EXCEPT !.allowance[from] = @ - ob.value]
      BY <1>3, <2>4 DEF Pay
    <3>2. from \in Holders
      BY <2>1, <2>4
    <3>3. ob.value <= funds.allowance[from]
      <4>1. ob.token \notin TokenPartitions
        BY <2>4, PaymentAssumption
      <4>2. QED
        BY <1>3, <2>4, <4>1 DEF CanPay
    <3> HIDE DEF moved, from
    <3>4. [moved EXCEPT !.allowance[from] = @ - ob.value] \in Funds
      BY <1>1, <2>1, <2>3, <3>2, <3>3 DEF Funds
    <3>5. [moved EXCEPT !.allowance[from] = @ - ob.value].balance = held
      BY <2>3 DEF Funds
    <3>6. QED
      BY <1>3, <3>1, <3>4, <3>5 DEF from
  <2>5. CASE ~(ob.token = Erc20 /\ from # Engine)
    <3>1. Pay(caller, funds, ob) = moved
      BY <1>3, <2>5 DEF Pay
    <3>2. QED
      BY <1>3, <2>3, <3>1
  <2>6. QED
    BY <2>4, <2>5
<1>4. QED
  BY <1>2, <1>3

-----------------------------------------------------------------------------
(* A batch, obligation by obligation.                                      *)

LEMMA FundsTable ==
  ASSUME NEW caller, NEW obs, Len(obs) \in Nat
  PROVE  LET after == FundsAfter(caller, obs) IN
         /\ after[0] = [balance |-> balance, allowance |-> allowance]
         /\ \A i \in 1 .. Len(obs) : after[i] = Pay(caller, after[i - 1], obs[i])
<1> DEFINE start == [balance |-> balance, allowance |-> allowance]
           IsTableTo(f, m) ==
             f = [i \in 0 .. m |-> IF i = 0 THEN start ELSE Pay(caller, f[i - 1], obs[i])]
           I == {m \in 0 .. Len(obs) : \E f : IsTableTo(f, m)}
<1>1. 0 \in I
  <2> DEFINE f == [i \in 0 .. 0 |-> start]
  <2> HIDE DEF start
  <2>1. IsTableTo(f, 0)
    OBVIOUS
  <2> HIDE DEF IsTableTo, f
  <2>2. \E k : IsTableTo(k, 0)
    BY <2>1
  <2>3. QED
    BY <2>2
<1>2. ASSUME NEW m \in 0 .. Len(obs) - 1, m \in I
      PROVE  m + 1 \in I
  <2>1. PICK f : IsTableTo(f, m)
    BY <1>2
  <2> DEFINE g == [i \in 0 .. m + 1 |->
                     IF i = m + 1 THEN Pay(caller, f[m], obs[m + 1]) ELSE f[i]]
             h == [i \in 0 .. m + 1 |-> IF i = 0 THEN start ELSE Pay(caller, g[i - 1], obs[i])]
  <2> HIDE DEF start
  <2>2. ASSUME NEW i \in 0 .. m + 1 PROVE g[i] = h[i]
    <3>1. CASE i = 0
      BY <2>1, <3>1
    <3>2. CASE i # 0 /\ i = m + 1
      <4>1. g[i - 1] = f[m]
        BY <3>2
      <4>2. QED
        BY <3>2, <4>1
    <3>3. CASE i # 0 /\ i # m + 1
      <4>1. i \in 0 .. m /\ i - 1 \in 0 .. m /\ i - 1 # m + 1
        BY <3>3
      <4>2. g[i - 1] = f[i - 1] /\ g[i] = f[i]
        BY <3>3, <4>1
      <4>3. f[i] = Pay(caller, f[i - 1], obs[i])
        BY <2>1, <3>3, <4>1
      <4>4. QED
        BY <3>3, <4>2, <4>3
    <3>4. QED
      BY <3>1, <3>2, <3>3
  <2>3. g = h
    <3> HIDE DEF h, g
    <3>1. DOMAIN g = 0 .. m + 1 /\ DOMAIN h = 0 .. m + 1
      BY DEF g, h
    <3>2. g = [i \in 0 .. m + 1 |-> g[i]] /\ h = [i \in 0 .. m + 1 |-> h[i]]
      BY DEF g, h
    <3>3. QED
      BY <2>2, <3>2
  <2>4. IsTableTo(g, m + 1)
    BY <2>3
  <2> HIDE DEF IsTableTo, g
  <2>5. \E k : IsTableTo(k, m + 1)
    BY <2>4
  <2>6. QED
    BY <2>5
<1>3. Len(obs) \in I
  <2> HIDE DEF I
  <2>1. 0 .. Len(obs) \subseteq I
    BY <1>1, <1>2, IndexInduction
  <2>2. QED
    BY <2>1
<1>4. IsTableTo(FundsAfter(caller, obs), Len(obs))
  BY <1>3 DEF FundsAfter
<1>5. QED
  BY <1>4
\* The accounts are typed, and hold what was minted.
FundsInv == PaymentTypeOK /\ NothingIsLost

LEMMA FundsAtStart ==
  ASSUME FundsInv
  PROVE  /\ balance \in Balances /\ [balance |-> balance, allowance |-> allowance] \in Funds
         /\ \A t \in Tokens : HeldIn(balance, t) = minted[t]
<1>1. MaxMinted \in Nat
  BY PaymentAssumption
<1>2. balance \in Balances
  BY <1>1 DEF FundsInv, PaymentTypeOK, Balances
<1>3. allowance \in [Holders -> Nat]
  BY DEF FundsInv, PaymentTypeOK
<1>4. QED
  BY <1>2, <1>3 DEF Funds, FundsInv, NothingIsLost, HeldIn

\* What a batch is made of.
LEMMA BatchObligations ==
  ASSUME NEW obs \in Batches
  PROVE  /\ Len(obs) \in Nat /\ DOMAIN obs = 1 .. Len(obs)
         /\ \A i \in 1 .. Len(obs) : obs[i] \in Obligations
<1>1. obs \in Seq(Obligations)
  BY PaymentAssumption DEF Obligations
<1>2. QED
  BY <1>1, LenProperties, ElementOfSeq

\* Throughout the loop the funds are funds and the accounts hold what was minted.
LEMMA LoopKeepsFunds ==
  ASSUME FundsInv, NEW caller \in Holders, NEW obs \in Batches, PayBatch(caller, obs)
  PROVE  LET after == FundsAfter(caller, obs) IN
         \A i \in 0 .. Len(obs) : /\ after[i] \in Funds
                                  /\ \A t \in Tokens : HeldIn(after[i].balance, t) = minted[t]
<1> DEFINE after == FundsAfter(caller, obs)
           I == {i \in 0 .. Len(obs) : /\ after[i] \in Funds
                                       /\ \A t \in Tokens : HeldIn(after[i].balance, t) = minted[t]}
<1>1. Len(obs) \in Nat /\ DOMAIN obs = 1 .. Len(obs) /\ \A i \in 1 .. Len(obs) : obs[i] \in Obligations
  BY BatchObligations
<1>2. /\ after[0] = [balance |-> balance, allowance |-> allowance]
      /\ \A i \in 1 .. Len(obs) : after[i] = Pay(caller, after[i - 1], obs[i])
  BY <1>1, FundsTable
<1>3. \A i \in 1 .. Len(obs) : CanPay(caller, after[i - 1], obs[i])
  BY <1>1 DEF PayBatch
<1> HIDE DEF after
<1>4. 0 \in I
  BY <1>1, <1>2, FundsAtStart
<1>5. ASSUME NEW i \in 0 .. Len(obs) - 1, i \in I
      PROVE  i + 1 \in I
  <2> DEFINE ob == obs[i + 1]
             funds == after[i]
  <2>1. /\ i + 1 \in 1 .. Len(obs) /\ i + 1 \in 0 .. Len(obs) /\ (i + 1) - 1 = i
        /\ funds \in Funds /\ \A t \in Tokens : HeldIn(funds.balance, t) = minted[t]
    BY <1>1, <1>5
  <2>2. ob \in Obligations /\ CanPay(caller, funds, ob) /\ after[i + 1] = Pay(caller, funds, ob)
    BY <1>1, <1>2, <1>3, <2>1
  <2> HIDE DEF ob, funds
  <2>3. /\ Pay(caller, funds, ob) \in Funds
        /\ ob.token = NoToken => Pay(caller, funds, ob).balance = funds.balance
        /\ ob.token # NoToken => Pay(caller, funds, ob).balance =
             Move(funds.balance, ob.token, Payer(caller, funds, ob), ob.to, ob.value)
    BY <2>1, <2>2, PayMoves
  <2>4. \A t \in Tokens : HeldIn(Pay(caller, funds, ob).balance, t) = HeldIn(funds.balance, t)
    <3>1. CASE ob.token = NoToken
      BY <2>3, <3>1
    <3>2. CASE ob.token # NoToken
      <4> DEFINE from == Payer(caller, funds, ob)
      <4>1. /\ ob.token \in Tokens /\ from \in TokenHolders
            /\ ob.to \in TokenHolders /\ ob.value \in Nat
            /\ ob.value <= funds.balance[ob.token][from]
        BY <2>1, <2>2, <3>2, PayerHolds
      <4>2. funds.balance \in Balances
        BY <2>1 DEF Funds
      <4> HIDE DEF from
      <4>3. \A t \in Tokens :
              HeldIn(Move(funds.balance, ob.token, from, ob.to, ob.value), t) = HeldIn(funds.balance, t)
        BY <4>1, <4>2, MoveKeepsSum
      <4>4. QED
        BY <2>3, <3>2, <4>3 DEF from
    <3>3. QED
      BY <3>1, <3>2
  <2>5. QED
    BY <2>1, <2>2, <2>3, <2>4
<1>6. 0 .. Len(obs) \subseteq I
  <2> HIDE DEF I
  <2>1. QED
    BY <1>1, <1>4, <1>5, IndexInduction
<1>7. QED
  BY <1>6 DEF after

\* The balances before and after an obligation, of which from pays.
Turn(held, new, ob, caller, from) ==
  /\ held \in Balances /\ new \in Balances
  /\ ob.token \in Tokens \cup {NoToken} /\ ob.to \in TokenHolders /\ ob.value \in Nat
  /\ \A u \in Tokens \ {ob.token} : new[u] = held[u]
  /\ ob.token \in Tokens =>
       /\ from \in {caller, Engine}
       /\ from = IF held[ob.token][caller] < ob.value THEN Engine ELSE caller
       /\ ob.value <= held[ob.token][from]
       /\ \A a \in TokenHolders \ {from, ob.to} : new[ob.token][a] = held[ob.token][a]
       /\ from = ob.to => new[ob.token][from] = held[ob.token][from]
       /\ from # ob.to => /\ new[ob.token][from] = held[ob.token][from] - ob.value
                          /\ new[ob.token][ob.to] = held[ob.token][ob.to] + ob.value
  /\ ob.token \in TokenPartitions => {from, ob.to} \subseteq cleared

\* One turn of the loop: it leaves the balances alone or moves the value from
\* the caller's or the engine's account.
LEMMA LoopTurn ==
  ASSUME FundsInv, NEW caller \in Holders, NEW obs \in Batches, PayBatch(caller, obs),
         NEW i \in 1 .. Len(obs)
  PROVE  Turn(FundsAfter(caller, obs)[i - 1].balance, FundsAfter(caller, obs)[i].balance,
              obs[i], caller, Payer(caller, FundsAfter(caller, obs)[i - 1], obs[i]))
<1> DEFINE funds == FundsAfter(caller, obs)[i - 1]
           next == FundsAfter(caller, obs)[i]
           ob == obs[i]
           from == Payer(caller, funds, ob)
<1>1. Len(obs) \in Nat /\ DOMAIN obs = 1 .. Len(obs) /\ ob \in Obligations
  BY BatchObligations
<1>2. i - 1 \in 0 .. Len(obs) /\ i \in 0 .. Len(obs)
  BY <1>1
<1>3. funds \in Funds /\ next \in Funds
  BY <1>2, LoopKeepsFunds
<1>4. next = Pay(caller, funds, ob)
  BY <1>1, FundsTable
<1>5. CanPay(caller, funds, ob)
  BY <1>1 DEF PayBatch
<1> HIDE DEF funds, next, ob
<1>6. /\ ob.token \in Tokens \cup {NoToken} /\ ob.to \in TokenHolders /\ ob.value \in Nat
      /\ funds.balance \in Balances /\ next.balance \in Balances
  BY <1>1, <1>3 DEF Obligations, Funds
<1>7. /\ ob.token = NoToken => next.balance = funds.balance
      /\ ob.token # NoToken => next.balance = Move(funds.balance, ob.token, from, ob.to, ob.value)
  BY <1>1, <1>3, <1>4, <1>5, PayMoves
<1>8. NoToken \notin Tokens /\ TokenPartitions \subseteq Tokens
  BY PaymentAssumption DEF Tokens
<1>9. CASE ob.token = NoToken
  <2> HIDE DEF from
  <2>1. Turn(funds.balance, next.balance, ob, caller, from)
    BY <1>6, <1>7, <1>8, <1>9 DEF Turn
  <2>2. QED
    BY <2>1 DEF from, funds, next, ob
<1>10. CASE ob.token # NoToken
  <2>1. /\ ob.token \in Tokens /\ from \in {caller, Engine} /\ from \in TokenHolders
        /\ ob.value <= funds.balance[ob.token][from]
    BY <1>1, <1>3, <1>5, <1>10, PayerHolds
  <2>2. from = IF funds.balance[ob.token][caller] < ob.value THEN Engine ELSE caller
    BY DEF Payer
  <2>3. ob.token \in TokenPartitions => {from, ob.to} \subseteq cleared
    BY <1>5, <1>10, PaymentAssumption DEF CanPay, CanTransferFunds, RegistryAdmits
  <2> HIDE DEF from
  <2>4. next.balance = Move(funds.balance, ob.token, from, ob.to, ob.value)
    BY <1>7, <1>10
  <2>5. /\ \A u \in Tokens \ {ob.token} : next.balance[u] = funds.balance[u]
        /\ \A a \in TokenHolders \ {from, ob.to} :
             next.balance[ob.token][a] = funds.balance[ob.token][a]
        /\ from = ob.to => next.balance[ob.token][from] = funds.balance[ob.token][from]
        /\ from # ob.to =>
             /\ next.balance[ob.token][from] = funds.balance[ob.token][from] - ob.value
             /\ next.balance[ob.token][ob.to] = funds.balance[ob.token][ob.to] + ob.value
    <3> DEFINE held == funds.balance
               new == next.balance
               t == ob.token
               to == ob.to
               value == ob.value
    <3>1. /\ held \in Balances /\ t \in Tokens /\ from \in TokenHolders /\ to \in TokenHolders
          /\ value \in Nat /\ value <= held[t][from]
          /\ new = Move(held, t, from, to, value)
      BY <1>6, <2>1, <2>4
    <3> HIDE DEF held, new, t, to, value
    <3>2. /\ \A u \in Tokens \ {t} : new[u] = held[u]
          /\ \A a \in TokenHolders \ {from, to} : new[t][a] = held[t][a]
          /\ from = to => new[t][from] = held[t][from]
          /\ from # to => /\ new[t][from] = held[t][from] - value
                          /\ new[t][to] = held[t][to] + value
      BY <3>1, MoveKeepsSum
    <3>3. QED
      BY <3>2 DEF held, new, t, to, value
  <2>6. Turn(funds.balance, next.balance, ob, caller, from)
    BY <1>6, <2>1, <2>2, <2>3, <2>5 DEF Turn
  <2>7. QED
    BY <2>6 DEF from, funds, next, ob
<1>11. QED
  BY <1>9, <1>10
-----------------------------------------------------------------------------
(* What a batch owes, up to an obligation.                                 *)

Values(obs) == [i \in DOMAIN obs |-> obs[i].value]
Owing(obs, t, to, indices) == {i \in indices : obs[i].token = t /\ obs[i].to \in to}
\* What the i-th obligation adds.
OwedFor(obs, t, to, i) ==
  IF obs[i].token = t /\ obs[i].to \in to THEN obs[i].value ELSE 0

OwedIn(obs, t, to, indices) == SumFunctionOnSet(Values(obs), Owing(obs, t, to, indices))

LEMMA OwedInAll ==
  ASSUME NEW obs, NEW t, NEW to
  PROVE  Owed(obs, t, to) = OwedIn(obs, t, to, DOMAIN obs)
BY DEF Owed, OwedIn, Owing, Values

\* One more index adds what it owes.
LEMMA OwedInStep ==
  ASSUME NEW obs \in Batches, NEW t, NEW to, NEW S \in SUBSET (1 .. Len(obs)),
         NEW i \in 1 .. Len(obs), i \notin S
  PROVE  /\ OwedIn(obs, t, to, S) \in Nat
         /\ OwedIn(obs, t, to, S \cup {i}) = OwedIn(obs, t, to, S) + OwedFor(obs, t, to, i)
<1> DEFINE T == Owing(obs, t, to, S)
           values == Values(obs)
<1>1. /\ Len(obs) \in Nat /\ DOMAIN obs = 1 .. Len(obs)
      /\ \A j \in 1 .. Len(obs) : obs[j].value \in Nat
  BY BatchObligations DEF Obligations
<1>2. \A j \in 1 .. Len(obs) : values[j] = obs[j].value /\ values[j] \in Nat
  BY <1>1 DEF Values
<1>3. T \subseteq 1 .. Len(obs) /\ i \notin T
  BY DEF Owing
<1>4. IsFiniteSet(T)
  <2> DEFINE n == Len(obs)
  <2>0. n \in Nat
    BY <1>1
  <2> HIDE DEF n
  <2>1. IsFiniteSet(1 .. n)
    BY <2>0, FS_Interval
  <2>2. QED
    BY <1>3, <2>1, FS_Subset DEF n
<1> HIDE DEF values, T
<1>5. SumFunctionOnSet(values, T) \in Nat
  BY <1>2, <1>3, <1>4, SumRemove
<1>6. CASE obs[i].token = t /\ obs[i].to \in to
  <2>1. Owing(obs, t, to, S \cup {i}) = T \cup {i}
    BY <1>6 DEF Owing, T
  <2>2. SumFunctionOnSet(values, T \cup {i}) = values[i] + SumFunctionOnSet(values, T)
    <3>1. \A y \in T \cup {i} : values[y] \in Nat
      BY <1>2, <1>3
    <3>2. QED
      BY <1>3, <1>4, <3>1, SumAdd
  <2>3. values[i] = obs[i].value
    BY <1>2
  <2>4. /\ OwedIn(obs, t, to, S) = SumFunctionOnSet(values, T)
        /\ OwedIn(obs, t, to, S \cup {i}) = SumFunctionOnSet(values, T \cup {i})
    BY <2>1 DEF OwedIn, values, T
  <2>5. obs[i].value \in Nat
    BY <1>1
  <2>6. QED
    BY <1>5, <1>6, <2>2, <2>3, <2>4, <2>5 DEF OwedFor
<1>7. CASE ~(obs[i].token = t /\ obs[i].to \in to)
  <2>1. Owing(obs, t, to, S \cup {i}) = T
    BY <1>7 DEF Owing, T
  <2>2. /\ OwedIn(obs, t, to, S) = SumFunctionOnSet(values, T)
        /\ OwedIn(obs, t, to, S \cup {i}) = SumFunctionOnSet(values, T)
    BY <2>1 DEF OwedIn, values, T
  <2>3. QED
    BY <1>5, <1>7, <2>2 DEF OwedFor
<1>8. QED
  BY <1>6, <1>7

LEMMA OwedInNone ==
  ASSUME NEW obs, NEW t, NEW to
  PROVE  OwedIn(obs, t, to, {}) = 0
<1>1. Owing(obs, t, to, {}) = {}
  BY DEF Owing
<1>2. QED
  BY <1>1, SumEmpty DEF OwedIn

\* A batch leaves every holder but its caller with what it had and is owed.
LEMMA LoopPaysWhatItOwes ==
  ASSUME FundsInv, NEW caller \in Holders, NEW obs \in Batches, PayBatch(caller, obs),
         NEW t \in Tokens, NEW a \in Holders \ {caller}
  PROVE  balance'[t][a] = balance[t][a] + Owed(obs, t, {a})
<1> DEFINE n == Len(obs)
           held(i) == FundsAfter(caller, obs)[i].balance
           due(i) == OwedIn(obs, t, {a}, 1 .. i)
           I == {i \in 0 .. n : held(i)[t][a] = balance[t][a] + due(i)}
<1>1. n \in Nat /\ DOMAIN obs = 1 .. n
  BY BatchObligations
<1>2. a \in TokenHolders /\ a # Engine /\ balance[t][a] \in Nat
  BY PaymentAssumption, FundsAtStart DEF TokenHolders, Balances
<1>3. 0 \in I
  <2>1. held(0) = balance
    BY <1>1, FundsTable
  <2>2. 1 .. 0 = {}
    OBVIOUS
  <2>3. due(0) = 0
    BY <2>2, OwedInNone
  <2>4. QED
    BY <1>1, <1>2, <2>1, <2>3
<1>4. ASSUME NEW j \in 0 .. n - 1, j \in I
      PROVE  j + 1 \in I
  <2> DEFINE i == j + 1
             ob == obs[i]
             from == Payer(caller, FundsAfter(caller, obs)[i - 1], ob)
  <2>1. i \in 1 .. n /\ i - 1 = j /\ 1 .. i = (1 .. j) \cup {i} /\ i \notin 1 .. j
        /\ 1 .. j \in SUBSET (1 .. n) /\ i \in 0 .. n
    BY <1>1
  <2>2. Turn(held(j), held(i), ob, caller, from)
    BY <2>1, LoopTurn
  <2>3. /\ due(j) \in Nat
        /\ due(i) = due(j) + IF ob.token = t /\ ob.to = a THEN ob.value ELSE 0
    <3> DEFINE S == 1 .. j
               to == {a}
    <3>1. i \in 1 .. Len(obs) /\ i \notin S /\ S \in SUBSET (1 .. Len(obs)) /\ 1 .. i = S \cup {i}
      BY <2>1
    <3> HIDE DEF i, ob, from, S, to
    <3>2. /\ OwedIn(obs, t, to, S) \in Nat
          /\ OwedIn(obs, t, to, S \cup {i}) = OwedIn(obs, t, to, S) + OwedFor(obs, t, to, i)
      BY <3>1, OwedInStep
    <3>3. QED
      BY <3>1, <3>2 DEF S, to, ob, OwedFor
  <2>4. held(j)[t][a] = balance[t][a] + due(j)
    BY <1>4
  <2> DEFINE before == held(j)
             after == held(i)
             dueBefore == due(j)
             dueAfter == due(i)
  <2> HIDE DEF before, after, dueBefore, dueAfter, ob, from
  <2>5. Turn(before, after, ob, caller, from)
    BY <2>2 DEF before, after
  <2>6. /\ dueBefore \in Nat /\ before[t][a] = balance[t][a] + dueBefore
        /\ dueAfter = dueBefore + IF ob.token = t /\ ob.to = a THEN ob.value ELSE 0
    BY <2>3, <2>4 DEF before, dueBefore, dueAfter
  <2>7. after[t][a] = balance[t][a] + dueAfter
    <3>1. CASE ob.token # t
      BY <1>2, <2>5, <2>6, <3>1 DEF Turn
    <3>2. CASE ob.token = t
      <4>1. from # a
        BY <1>2, <2>5, <3>2 DEF Turn
      <4>2. CASE ob.to = a
        BY <1>2, <2>5, <2>6, <3>2, <4>1, <4>2 DEF Turn
      <4>3. CASE ob.to # a
        BY <1>2, <2>5, <2>6, <3>2, <4>1, <4>3 DEF Turn
      <4>4. QED
        BY <4>2, <4>3
    <3>3. QED
      BY <3>1, <3>2
  <2>8. QED
    BY <2>1, <2>7 DEF after, dueAfter
<1>5. n \in I
  <2> HIDE DEF I, n
  <2>1. 0 .. n \subseteq I
    BY <1>1, <1>3, <1>4, IndexInduction
  <2>2. QED
    BY <1>1, <2>1
<1>6. held(n) = balance'
  BY DEF PayBatch
<1>7. QED
  BY <1>1, <1>5, <1>6, OwedInAll

\* A caller that holds what the batch owes in a token pays all of it.
LEMMA LoopSparesEngine ==
  ASSUME FundsInv, NEW caller \in Holders, NEW obs \in Batches, PayBatch(caller, obs),
         NEW t \in Tokens, balance[t][caller] >= Owed(obs, t, TokenHolders)
  PROVE  balance'[t][Engine] >= balance[t][Engine]
<1> DEFINE n == Len(obs)
           held(i) == FundsAfter(caller, obs)[i].balance
           rest(i) == OwedIn(obs, t, TokenHolders, (i + 1) .. n)
           I == {i \in 0 .. n : /\ held(i)[t][caller] >= rest(i)
                                /\ held(i)[t][Engine] >= balance[t][Engine]}
<1>1. n \in Nat /\ DOMAIN obs = 1 .. n
  BY BatchObligations
<1>2. /\ caller \in TokenHolders /\ Engine \in TokenHolders /\ caller # Engine
      /\ balance[t][caller] \in Nat /\ balance[t][Engine] \in Nat
  BY PaymentAssumption, FundsAtStart DEF TokenHolders, Balances
<1>3. 0 \in I
  <2>1. held(0) = balance
    BY <1>1, FundsTable
  <2>2. rest(0) = Owed(obs, t, TokenHolders)
    BY <1>1, OwedInAll
  <2>3. QED
    BY <1>1, <1>2, <2>1, <2>2
<1>4. ASSUME NEW j \in 0 .. n - 1, j \in I
      PROVE  j + 1 \in I
  <2> DEFINE i == j + 1
             ob == obs[i]
             from == Payer(caller, FundsAfter(caller, obs)[i - 1], ob)
  <2>1. /\ i \in 1 .. n /\ i - 1 = j /\ i \in 0 .. n
        /\ (j + 1) .. n = ((i + 1) .. n) \cup {i} /\ i \notin (i + 1) .. n
        /\ (i + 1) .. n \in SUBSET (1 .. n)
    BY <1>1
  <2>2. Turn(held(j), held(i), ob, caller, from)
    BY <2>1, LoopTurn
  <2>3. /\ rest(i) \in Nat
        /\ rest(j) = rest(i) + IF ob.token = t THEN ob.value ELSE 0
    <3>1. ob.to \in TokenHolders
      BY <2>2 DEF Turn
    <3> DEFINE S == (i + 1) .. n
    <3>2. i \in 1 .. Len(obs) /\ i \notin S /\ S \in SUBSET (1 .. Len(obs)) /\ (j + 1) .. n = S \cup {i}
      BY <2>1
    <3> HIDE DEF i, ob, S
    <3>3. /\ OwedIn(obs, t, TokenHolders, S) \in Nat
          /\ OwedIn(obs, t, TokenHolders, S \cup {i})
               = OwedIn(obs, t, TokenHolders, S) + OwedFor(obs, t, TokenHolders, i)
      BY <3>2, OwedInStep
    <3>4. QED
      BY <3>1, <3>2, <3>3 DEF ob, S, OwedFor
  <2>4. held(j)[t][caller] >= rest(j) /\ held(j)[t][Engine] >= balance[t][Engine]
    BY <1>4
  <2> DEFINE before == held(j)
             after == held(i)
             restBefore == rest(j)
             restAfter == rest(i)
  <2> HIDE DEF before, after, restBefore, restAfter, ob, from
  <2>5. Turn(before, after, ob, caller, from)
    BY <2>2 DEF before, after
  <2>6. /\ restAfter \in Nat
        /\ restBefore = restAfter + IF ob.token = t THEN ob.value ELSE 0
        /\ before[t][caller] >= restBefore /\ before[t][Engine] >= balance[t][Engine]
    BY <2>3, <2>4 DEF before, restBefore, restAfter
  <2>7. /\ before[t][caller] \in Nat /\ before[t][Engine] \in Nat
        /\ after[t][caller] \in Nat /\ after[t][Engine] \in Nat
    BY <1>2, <2>5 DEF Turn, Balances
  <2>8. after[t][caller] >= restAfter /\ after[t][Engine] >= balance[t][Engine]
    <3>1. CASE ob.token # t
      <4>1. after[t] = before[t]
        BY <2>5, <3>1 DEF Turn
      <4>2. QED
        BY <2>6, <3>1, <4>1
    <3>2. CASE ob.token = t
      <4>1. ob.value \in Nat /\ ob.to \in TokenHolders
        BY <2>5 DEF Turn
      <4>2. before[t][caller] >= ob.value
        BY <2>6, <2>7, <3>2, <4>1
      <4>3. from = caller
        BY <2>5, <2>7, <3>2, <4>1, <4>2 DEF Turn
      <4>4. CASE ob.to = caller
        <5>1. after[t][caller] = before[t][caller] /\ after[t][Engine] = before[t][Engine]
          BY <1>2, <2>5, <3>2, <4>3, <4>4 DEF Turn
        <5>2. QED
          BY <2>6, <2>7, <3>2, <4>1, <5>1
      <4>5. CASE ob.to = Engine
        <5>1. /\ after[t][caller] = before[t][caller] - ob.value
              /\ after[t][Engine] = before[t][Engine] + ob.value
          BY <1>2, <2>5, <3>2, <4>3, <4>5 DEF Turn
        <5>2. balance[t][Engine] \in Nat
          BY <1>2 DEF Balances
        <5>3. QED
          BY <2>6, <2>7, <3>2, <4>1, <5>1, <5>2, Z3T(30)
      <4>6. CASE ob.to \notin {caller, Engine}
        <5>1. /\ after[t][caller] = before[t][caller] - ob.value
              /\ after[t][Engine] = before[t][Engine]
          BY <1>2, <2>5, <3>2, <4>3, <4>6 DEF Turn
        <5>2. QED
          BY <2>6, <2>7, <3>2, <4>1, <5>1
      <4>7. QED
        BY <4>4, <4>5, <4>6
    <3>3. QED
      BY <3>1, <3>2
  <2>9. QED
    BY <2>1, <2>8 DEF after, restAfter
<1>5. n \in I
  <2> HIDE DEF I, n
  <2>1. 0 .. n \subseteq I
    BY <1>1, <1>3, <1>4, IndexInduction
  <2>2. QED
    BY <1>1, <2>1
<1>6. held(n) = balance'
  BY DEF PayBatch
<1>7. QED
  BY <1>5, <1>6

\* No obligation moves partition tokens of an account the registry does not clear.
LEMMA LoopSparesUncleared ==
  ASSUME FundsInv, NEW caller \in Holders, NEW obs \in Batches, PayBatch(caller, obs),
         NEW p \in TokenPartitions, NEW a \in TokenHolders \ cleared
  PROVE  balance'[p][a] = balance[p][a]
<1> DEFINE n == Len(obs)
           held(i) == FundsAfter(caller, obs)[i].balance
           I == {i \in 0 .. n : held(i)[p][a] = balance[p][a]}
<1>1. n \in Nat
  BY BatchObligations
<1>2. 0 \in I
  <2>1. held(0) = balance
    BY <1>1, FundsTable
  <2>2. QED
    BY <1>1, <2>1
<1>3. ASSUME NEW j \in 0 .. n - 1, j \in I
      PROVE  j + 1 \in I
  <2> DEFINE i == j + 1
             from == Payer(caller, FundsAfter(caller, obs)[i - 1], obs[i])
             before == held(j)
             after == held(i)
             ob == obs[i]
  <2>1. i \in 1 .. n /\ i - 1 = j /\ i \in 0 .. n
    BY <1>1
  <2>2. Turn(before, after, ob, caller, from)
    BY <2>1, LoopTurn
  <2>3. before[p][a] = balance[p][a]
    BY <1>3
  <2> HIDE DEF before, after, ob, from
  <2>4. after[p][a] = before[p][a]
    <3>1. p \in Tokens
      BY DEF Tokens
    <3>2. CASE ob.token = p
      <4>1. a \notin {from, ob.to}
        BY <2>2, <3>2 DEF Turn
      <4>2. QED
        BY <2>2, <3>1, <3>2, <4>1 DEF Turn
    <3>3. CASE ob.token # p
      BY <2>2, <3>1, <3>3 DEF Turn
    <3>4. QED
      BY <3>2, <3>3
  <2>5. QED
    BY <2>1, <2>3, <2>4 DEF before, after
<1>4. n \in I
  <2> HIDE DEF I, n
  <2>1. 0 .. n \subseteq I
    BY <1>1, <1>2, <1>3, IndexInduction
  <2>2. QED
    BY <1>1, <2>1
<1>5. held(n) = balance'
  BY DEF PayBatch
<1>6. QED
  BY <1>4, <1>5
-----------------------------------------------------------------------------
(* Every step.                                                             *)

LEMMA InitFunds == PaymentInit => FundsInv
<1> SUFFICES ASSUME PaymentInit PROVE FundsInv
  OBVIOUS
<1>1. MaxMinted \in Nat /\ MaxBatches \in Nat
  BY PaymentAssumption
<1>2. PaymentTypeOK
  <2>1. paid \in Seq([caller : Holders, obs : Batches]) /\ Len(paid) = 0
    BY EmptySeq DEF PaymentInit
  <2>2. QED
    BY <1>1, <2>1 DEF PaymentInit, PaymentTypeOK
<1>3. ASSUME NEW t \in Tokens PROVE SumFunctionOnSet(balance[t], TokenHolders) = minted[t]
  <2> DEFINE f == balance[t]
  <2>1. \A a \in TokenHolders : f[a] = 0
    BY DEF PaymentInit
  <2> HIDE DEF f
  <2>2. SumFunctionOnSet(f, TokenHolders) = 0
    BY <2>1, HoldersAreFinite, SumZero
  <2>3. QED
    BY <2>2 DEF f, PaymentInit
<1>4. QED
  BY <1>2, <1>3 DEF FundsInv, NothingIsLost

\* No account holds more than was minted, so a sum that is right keeps the types.
LEMMA SumBoundsBalance ==
  ASSUME NEW held \in Balances, NEW total \in [Tokens -> 0 .. MaxMinted],
         \A t \in Tokens : HeldIn(held, t) = total[t]
  PROVE  held \in [Tokens -> [TokenHolders -> 0 .. MaxMinted]]
<1>1. ASSUME NEW t \in Tokens, NEW a \in TokenHolders
      PROVE  held[t][a] \in 0 .. MaxMinted
  <2> DEFINE f == held[t]
  <2>1. \A x \in TokenHolders : f[x] \in Nat
    BY DEF Balances
  <2> HIDE DEF f
  <2>2. SumFunctionOnSet(f, TokenHolders) = f[a] + SumFunctionOnSet(f, TokenHolders \ {a})
    BY <2>1, HoldersAreFinite, SumRemove
  <2>3. SumFunctionOnSet(f, TokenHolders \ {a}) \in Nat
    <3> DEFINE S == TokenHolders \ {a}
    <3>1. IsFiniteSet(S) /\ \A x \in S : f[x] \in Nat
      BY <2>1, HoldersAreFinite, FS_Subset
    <3> HIDE DEF S
    <3>2. SumFunctionOnSet(f, S) \in Nat
      BY <3>1, SumRemove
    <3>3. QED
      BY <3>2 DEF S
  <2>4. SumFunctionOnSet(f, TokenHolders) = total[t] /\ total[t] \in 0 .. MaxMinted
    BY DEF HeldIn, f
  <2>5. MaxMinted \in Nat /\ f[a] \in Nat
    BY <2>1, PaymentAssumption
  <2>6. f[a] \in 0 .. MaxMinted
    BY <2>2, <2>3, <2>4, <2>5
  <2>7. QED
    BY <2>6 DEF f
<1>2. QED
  BY <1>1 DEF Balances

LEMMA MintInv ==
  ASSUME FundsInv, NEW t \in Tokens, NEW to \in TokenHolders, NEW amount \in Amounts,
         Mint(t, to, amount)
  PROVE  FundsInv'
<1> DEFINE f == balance[t]
           g == balance'[t]
<1>1. amount \in Nat /\ MaxMinted \in Nat
  BY PaymentAssumption
<1>2. balance \in Balances /\ \A u \in Tokens : HeldIn(balance, u) = minted[u]
  BY FundsAtStart
<1>3. minted \in [Tokens -> 0 .. MaxMinted]
  BY DEF FundsInv, PaymentTypeOK
<1>4. /\ balance' = [balance EXCEPT ![t][to] = @ + amount]
      /\ minted' = [minted EXCEPT ![t] = @ + amount]
      /\ minted[t] + amount <= MaxMinted
      /\ UNCHANGED <<allowance, transfersEnabled, cleared, admitted, paid>>
  BY DEF Mint, answerVars
<1>5. minted' \in [Tokens -> 0 .. MaxMinted] /\ minted'[t] = minted[t] + amount
  BY <1>1, <1>3, <1>4
<1>6. /\ balance' \in Balances
      /\ \A u \in Tokens \ {t} : balance'[u] = balance[u] /\ minted'[u] = minted[u]
      /\ \A a \in TokenHolders \ {to} : f[a] = g[a]
      /\ g[to] = f[to] + amount
      /\ \A a \in TokenHolders : f[a] \in Nat /\ g[a] \in Nat
  BY <1>1, <1>2, <1>3, <1>4 DEF Balances
<1>7. HeldIn(balance', t) = minted'[t]
  <2> HIDE DEF f, g
  <2>1. SumFunctionOnSet(g, TokenHolders) + f[to] = SumFunctionOnSet(f, TokenHolders) + g[to]
    BY <1>6, HoldersAreFinite, SumUpdate
  <2>2. SumFunctionOnSet(g, TokenHolders) \in Nat /\ SumFunctionOnSet(f, TokenHolders) \in Nat
    BY <1>6, HoldersAreFinite, SumRemove
  <2>3. SumFunctionOnSet(f, TokenHolders) = minted[t]
    BY <1>2 DEF HeldIn, f
  <2>4. QED
    BY <1>1, <1>5, <1>6, <2>1, <2>2, <2>3 DEF HeldIn, g
<1> HIDE DEF f, g
<1>8. \A u \in Tokens : HeldIn(balance', u) = minted'[u]
  BY <1>2, <1>6, <1>7 DEF HeldIn
<1>9. balance' \in [Tokens -> [TokenHolders -> 0 .. MaxMinted]]
  BY <1>5, <1>6, <1>8, SumBoundsBalance
<1>10. PaymentTypeOK'
  BY <1>4, <1>5, <1>9 DEF FundsInv, PaymentTypeOK
<1>11. QED
  BY <1>8, <1>10 DEF FundsInv, NothingIsLost, HeldIn

LEMMA TransferInv ==
  ASSUME FundsInv, NEW p \in TokenPartitions, NEW from \in TokenHolders,
         NEW to \in TokenHolders, NEW value \in Amounts, TransferByPartition(p, from, to, value)
  PROVE  /\ FundsInv'
         /\ {from, to} \subseteq cleared
         /\ \A u \in Tokens \ {p} : balance'[u] = balance[u]
         /\ \A a \in TokenHolders \ {from, to} : balance'[p][a] = balance[p][a]
<1>1. /\ p \in Tokens /\ value \in Nat /\ value <= balance[p][from]
      /\ balance' = Move(balance, p, from, to, value)
      /\ {from, to} \subseteq cleared
      /\ UNCHANGED <<allowance, transfersEnabled, cleared, admitted, minted, paid>>
  BY PaymentAssumption
     DEF TransferByPartition, CanTransferFunds, RegistryAdmits, answerVars, Tokens
<1>2. balance \in Balances /\ \A u \in Tokens : HeldIn(balance, u) = minted[u]
  BY FundsAtStart
<1>3. /\ balance' \in Balances
      /\ \A u \in Tokens : HeldIn(balance', u) = HeldIn(balance, u)
      /\ \A u \in Tokens \ {p} : balance'[u] = balance[u]
      /\ \A a \in TokenHolders \ {from, to} : balance'[p][a] = balance[p][a]
  BY <1>1, <1>2, MoveKeepsSum
<1>4. minted \in [Tokens -> 0 .. MaxMinted]
  BY DEF FundsInv, PaymentTypeOK
<1>5. balance' \in [Tokens -> [TokenHolders -> 0 .. MaxMinted]]
  <2>1. \A u \in Tokens : HeldIn(balance', u) = minted[u]
    BY <1>2, <1>3
  <2>2. QED
    BY <1>3, <1>4, <2>1, SumBoundsBalance
<1>6. PaymentTypeOK'
  BY <1>1, <1>5 DEF FundsInv, PaymentTypeOK
<1>7. QED
  BY <1>1, <1>2, <1>3, <1>6 DEF FundsInv, NothingIsLost, HeldIn

LEMMA PayBatchInv ==
  ASSUME FundsInv, NEW caller \in Holders, NEW obs \in Batches, PayBatch(caller, obs)
  PROVE  FundsInv'
<1> DEFINE n == Len(obs)
           last == FundsAfter(caller, obs)[n]
<1>1. n \in Nat
  BY BatchObligations
<1>2. last \in Funds /\ \A t \in Tokens : HeldIn(last.balance, t) = minted[t]
  BY <1>1, LoopKeepsFunds
<1>3. /\ balance' = last.balance /\ allowance' = last.allowance
      /\ Len(paid) < MaxBatches /\ paid' = Append(paid, [caller |-> caller, obs |-> obs])
      /\ UNCHANGED <<transfersEnabled, cleared, admitted, minted>>
  BY DEF PayBatch, answerVars
<1> HIDE DEF last
<1>4. balance' \in Balances /\ allowance' \in [Holders -> Nat]
  BY <1>2, <1>3 DEF Funds
<1>5. minted \in [Tokens -> 0 .. MaxMinted]
  BY DEF FundsInv, PaymentTypeOK
<1>6. balance' \in [Tokens -> [TokenHolders -> 0 .. MaxMinted]]
  BY <1>2, <1>3, <1>4, <1>5, SumBoundsBalance
<1>7. paid' \in Seq([caller : Holders, obs : Batches]) /\ Len(paid') <= MaxBatches
  <2>1. paid \in Seq([caller : Holders, obs : Batches]) /\ Len(paid) \in Nat
    BY LenProperties DEF FundsInv, PaymentTypeOK
  <2>2. [caller |-> caller, obs |-> obs] \in [caller : Holders, obs : Batches]
    OBVIOUS
  <2>3. /\ paid' \in Seq([caller : Holders, obs : Batches])
        /\ Len(paid') = Len(paid) + 1
    BY <1>3, <2>1, <2>2, AppendProperties
  <2>4. MaxBatches \in Nat
    BY PaymentAssumption
  <2>5. QED
    BY <1>3, <2>1, <2>3, <2>4
<1>8. PaymentTypeOK'
  BY <1>3, <1>4, <1>6, <1>7 DEF FundsInv, PaymentTypeOK
<1>9. QED
  BY <1>2, <1>3, <1>8 DEF FundsInv, NothingIsLost, HeldIn

\* The steps that move no token.
LEMMA QuietInv ==
  ASSUME FundsInv, UNCHANGED <<balance, minted, paid>>,
         allowance' \in [Holders -> Nat], transfersEnabled' \in BOOLEAN,
         cleared' \subseteq TokenHolders, admitted' \subseteq TokenPartitions \X TokenHolders
  PROVE  FundsInv'
BY DEF FundsInv, PaymentTypeOK, NothingIsLost

Quiet == UNCHANGED <<balance, minted, paid>>

\* A step moves no token, mints, transfers or pays a batch.
LEMMA PaymentSteps ==
  ASSUME FundsInv, [PaymentNext]_paymentVars
  PROVE  /\ FundsInv'
         /\ \/ Quiet
            \/ \E t \in Tokens, to \in TokenHolders, amount \in Amounts : Mint(t, to, amount)
            \/ \E p \in TokenPartitions, from, to \in TokenHolders, value \in Amounts :
                 TransferByPartition(p, from, to, value)
            \/ \E caller \in Holders, obs \in Batches : PayBatch(caller, obs)
<1>1. /\ allowance \in [Holders -> Nat] /\ transfersEnabled \in BOOLEAN
      /\ cleared \subseteq TokenHolders /\ admitted \subseteq TokenPartitions \X TokenHolders
  BY DEF FundsInv, PaymentTypeOK
<1>2. ASSUME NEW on \in BOOLEAN, SetTransfersEnabled(on)
      PROVE  FundsInv' /\ Quiet
  BY <1>1, <1>2, QuietInv DEF SetTransfersEnabled, Quiet, answerVars
<1>3. ASSUME NEW a \in TokenHolders, SetCleared(a)
      PROVE  FundsInv' /\ Quiet
  BY <1>1, <1>3, QuietInv DEF SetCleared, Quiet
<1>4. ASSUME NEW a \in TokenHolders, NEW p \in TokenPartitions, SetAdmitted(p, a)
      PROVE  FundsInv' /\ Quiet
  BY <1>1, <1>4, QuietInv DEF SetAdmitted, Quiet
<1>5. ASSUME NEW a \in Holders, NEW amount \in Amounts, Approve(a, amount)
      PROVE  FundsInv' /\ Quiet
  <2>1. allowance' \in [Holders -> Nat]
    BY <1>1, <1>5, PaymentAssumption DEF Approve
  <2>2. QED
    BY <1>1, <1>5, <2>1, QuietInv DEF Approve, Quiet, answerVars
<1>6. CASE UNCHANGED paymentVars
  BY <1>1, <1>6, QuietInv DEF paymentVars, answerVars, Quiet
<1>7. CASE PaymentNext
  BY <1>2, <1>3, <1>4, <1>5, <1>7, MintInv, TransferInv, PayBatchInv DEF PaymentNext
<1>8. QED
  BY <1>6, <1>7

LEMMA FundsInvariant == PaymentSpec => []FundsInv
BY InitFunds, PaymentSteps, PTL DEF PaymentSpec

-----------------------------------------------------------------------------
(* The theorems.                                                           *)

\* The accounts of each token hold what was minted of it, also when a payer and
\* a recipient are one account, and no balance leaves its type.
THEOREM FundsAreSafe == PaymentSpec => []FundsSafe
<1>1. FundsInv => FundsSafe
  BY DEF FundsInv, FundsSafe
<1>2. QED
  BY <1>1, FundsInvariant, PTL

\* Only a batch lengthens the list of batches, and by one.
LEMMA NewBatch ==
  ASSUME FundsInv, [PaymentNext]_paymentVars, NEW n \in DOMAIN paid' \ DOMAIN paid
  PROVE  \E caller \in Holders, obs \in Batches :
           PayBatch(caller, obs) /\ paid'[n] = [caller |-> caller, obs |-> obs]
<1>1. CASE UNCHANGED paid
  BY <1>1
<1>2. ASSUME NEW caller \in Holders, NEW obs \in Batches, PayBatch(caller, obs)
      PROVE  paid'[n] = [caller |-> caller, obs |-> obs]
  <2> DEFINE S == [caller : Holders, obs : Batches]
             e == [caller |-> caller, obs |-> obs]
  <2>1. paid \in Seq(S) /\ e \in S /\ paid' = Append(paid, e)
    BY <1>2 DEF FundsInv, PaymentTypeOK, PayBatch
  <2> HIDE DEF S, e
  <2>2. /\ paid' \in Seq(S) /\ Len(paid') = Len(paid) + 1 /\ Len(paid) \in Nat
        /\ paid'[Len(paid) + 1] = e
        /\ DOMAIN paid = 1 .. Len(paid)
    BY <2>1, AppendProperties, LenProperties
  <2>3. DOMAIN paid' = 1 .. Len(paid')
    BY <2>2, LenProperties
  <2>4. n = Len(paid) + 1
    BY <2>2, <2>3
  <2>5. QED
    BY <2>2, <2>4 DEF e
<1>3. QED
  BY <1>1, <1>2, PaymentSteps DEF Quiet, Mint, TransferByPartition

\* A batch pays just what it owes, from its caller's funds if they suffice, and
\* no step moves partition tokens of an account the registry does not clear.
THEOREM BatchesPay == PaymentSpec => BatchesPayDebts
<1>1. ASSUME FundsInv, [PaymentNext]_paymentVars,
             NEW n \in DOMAIN paid' \ DOMAIN paid, NEW t \in Tokens
      PROVE  /\ \A a \in Holders \ {paid'[n].caller} :
                  balance'[t][a] = balance[t][a] + Owed(paid'[n].obs, t, {a})
             /\ balance[t][paid'[n].caller] >= Owed(paid'[n].obs, t, TokenHolders)
                  => balance'[t][Engine] >= balance[t][Engine]
  <2>1. PICK caller \in Holders, obs \in Batches :
          PayBatch(caller, obs) /\ paid'[n] = [caller |-> caller, obs |-> obs]
    BY <1>1, NewBatch
  <2>2. paid'[n].caller = caller /\ paid'[n].obs = obs
    BY <2>1
  <2>3. QED
    BY <1>1, <2>1, <2>2, LoopPaysWhatItOwes, LoopSparesEngine
<1>2. ASSUME FundsInv, [PaymentNext]_paymentVars, minted' = minted,
             NEW p \in TokenPartitions, NEW a \in TokenHolders \ cleared
      PROVE  balance'[p][a] = balance[p][a]
  <2>0. p \in Tokens
    BY DEF Tokens
  <2>1. CASE Quiet
    BY <2>1 DEF Quiet
  <2>2. ASSUME NEW t \in Tokens, NEW to \in TokenHolders, NEW amount \in Amounts,
               Mint(t, to, amount)
        PROVE  balance'[p][a] = balance[p][a]
    <3>1. /\ minted \in [Tokens -> 0 .. MaxMinted] /\ MaxMinted \in Nat /\ amount \in Nat
          /\ balance \in Balances
      BY <1>2, FundsAtStart, PaymentAssumption DEF FundsInv, PaymentTypeOK
    <3>2. minted'[t] = minted[t] + amount /\ minted[t] \in Nat
      BY <2>2, <3>1 DEF Mint
    <3>3. amount = 0
      BY <1>2, <3>1, <3>2
    <3>4. balance' = [balance EXCEPT ![t][to] = @ + 0]
      BY <2>2, <3>3 DEF Mint
    <3>5. QED
      BY <2>0, <3>1, <3>4 DEF Balances
  <2>3. ASSUME NEW q \in TokenPartitions, NEW from \in TokenHolders, NEW to \in TokenHolders,
               NEW value \in Amounts, TransferByPartition(q, from, to, value)
        PROVE  balance'[p][a] = balance[p][a]
    <3>1. /\ {from, to} \subseteq cleared
          /\ \A u \in Tokens \ {q} : balance'[u] = balance[u]
          /\ \A x \in TokenHolders \ {from, to} : balance'[q][x] = balance[q][x]
      BY <1>2, <2>3, TransferInv
    <3>2. QED
      BY <2>0, <3>1
  <2>4. ASSUME NEW caller \in Holders, NEW obs \in Batches, PayBatch(caller, obs)
        PROVE  balance'[p][a] = balance[p][a]
    BY <1>2, <2>4, LoopSparesUncleared
  <2>5. QED
    BY <1>2, <2>1, <2>2, <2>3, <2>4, PaymentSteps
<1>3. ASSUME FundsInv, [PaymentNext]_paymentVars
      PROVE  \A n \in DOMAIN paid' \ DOMAIN paid, t \in Tokens :
               \A a \in Holders \ {paid'[n].caller} :
                 balance'[t][a] = balance[t][a] + Owed(paid'[n].obs, t, {a})
  BY <1>1, <1>3
<1>4. ASSUME FundsInv, [PaymentNext]_paymentVars
      PROVE  \A n \in DOMAIN paid' \ DOMAIN paid, t \in Tokens :
               balance[t][paid'[n].caller] >= Owed(paid'[n].obs, t, TokenHolders)
                 => balance'[t][Engine] >= balance[t][Engine]
  BY <1>1, <1>4
<1>5. ASSUME FundsInv, [PaymentNext]_paymentVars
      PROVE  \A p \in TokenPartitions, a \in TokenHolders \ cleared :
               minted' = minted => balance'[p][a] = balance[p][a]
  BY <1>2, <1>5
<1>6. PaymentSpec => BatchIsPaidInFull
  BY <1>3, FundsInvariant, PTL DEF PaymentSpec, BatchIsPaidInFull
<1>7. PaymentSpec => EngineFillsInOnly
  BY <1>4, FundsInvariant, PTL DEF PaymentSpec, EngineFillsInOnly
<1>8. PaymentSpec => UnclearedKeepsBalance
  BY <1>5, FundsInvariant, PTL DEF PaymentSpec, UnclearedKeepsBalance
<1>9. QED
  BY <1>6, <1>7, <1>8 DEF BatchesPayDebts
=============================================================================
