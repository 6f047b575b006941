------------------------ MODULE ExecutionOrchestrator ------------------------
(***************************************************************************)
(* Layer 4 off chain, the second entry: ExecutionOrchestrator prepares a   *)
(* transaction, is told that it was sent, and is asked to follow its       *)
(* confirmations.  Its caller sends the transaction and polls the chain;   *)
(* polls overlap, so an answer may be applied after a later one.           *)
(*                                                                         *)
(* The caller and the chain are external: a sent transaction is mined or   *)
(* reverts, or stays pending.  status and laneStates are one set for all   *)
(* executions and only displayed; they are left out, and so is the nonce,  *)
(* which is the caller's.                                                  *)
(***************************************************************************)
EXTENDS Naturals, Sequences, FiniteSets

CONSTANTS
  Executions,          \* executionId
  RequestOf,           \* ExecutionContext.request: obligations and snapshot
  LegacySnapshot,      \* the hash 0x0...01
  Estimates, BaseFees, PriorityFees,  \* what the caller measures
  Multiplier,          \* per cent of the estimate: 125
  MAX_GAS_LIMIT,
  PriorityFee,         \* DEFAULT_GAS_STRATEGY.priorityFee
  FeeCap,              \* DEFAULT_GAS_STRATEGY.maxFeePerGasCap
  FINAL_DEPTH,
  StuckAfter,          \* blocks without a receipt: 50
  MaxHeight,           \* bounds the chain
  MaxPolls             \* bounds the polls of an execution that overlap

ASSUME OrchestratorAssumption ==
  /\ \A e \in Executions : RequestOf[e].obligations # <<>>
  /\ Estimates \cup BaseFees \cup PriorityFees \subseteq Nat
  /\ {Multiplier, MAX_GAS_LIMIT, PriorityFee, FeeCap, FINAL_DEPTH,
      StuckAfter, MaxHeight, MaxPolls} \subseteq Nat
  /\ MaxHeight > 0

\* The buffer takes nothing off an estimate, and the default tip is within the
\* fee cap.
ASSUME GasAssumption == Multiplier >= 100 /\ PriorityFee <= FeeCap

VARIABLES
  guardOf,      \* IdempotencyGuard
  prepared,   \* the last transaction prepared, with what the caller measured
  sentAt,     \* the height at which each execution was sent; 0 before
  inclusion,  \* block and success of each mined execution
  chainTip,     \* the chain's last block
  polls       \* answers read for an execution and not yet applied

callerVars == <<sentAt, inclusion, chainTip, polls>>
orchestratorVars == <<guardOf, prepared, callerVars>>

None == [batch |-> {}]

NotMined == [block |-> 0, ok |-> FALSE]

OrchestratorTypeOK ==
  /\ guardOf \in [Executions -> {"NONE", "QUEUED", "SUBMITTED", "CONFIRMING", "FINALIZED"}]
  /\ \A e \in Executions : prepared[e] # None => prepared[e].gasLimit <= MAX_GAS_LIMIT
  /\ sentAt \in [Executions -> 0 .. MaxHeight]
  /\ inclusion \in [Executions -> [block : 0 .. MaxHeight, ok : BOOLEAN]]
  /\ chainTip \in 1 .. MaxHeight
  /\ \A e \in Executions : \A answer \in polls[e] : answer.current <= chainTip

OrchestratorInit ==
  /\ guardOf = [e \in Executions |-> "NONE"]
  /\ prepared = [e \in Executions |-> None]
  /\ sentAt = [e \in Executions |-> 0]
  /\ inclusion = [e \in Executions |-> NotMined]
  /\ chainTip = 1
  /\ polls = [e \in Executions |-> {}]

-----------------------------------------------------------------------------
(* Gas and fees.                                                           *)

Least(a, b) == IF a <= b THEN a ELSE b
Greatest(a, b) == IF a >= b THEN a ELSE b

ApplyGasBuffer(estimate) == Least((estimate * Multiplier) \div 100, MAX_GAS_LIMIT)

\* The cap bounds the sum, not the priority fee in it.
Eip1559Fees(base, priority) ==
  LET tip == Greatest(priority, PriorityFee)
  IN  [maxFee |-> Least(2 * base + tip, FeeCap), priority |-> tip]

-----------------------------------------------------------------------------
(* The orchestrator.                                                       *)

Refused(e) == guardOf[e] \in {"SUBMITTED", "CONFIRMING", "FINALIZED"}

SetGuard(e, value) == guardOf' = [guardOf EXCEPT ![e] = value]

\* buildExecuteBatchTxLegacy: the context's first obligation, and placeholders
\* for everything else of its request.
LegacyBatch(e) ==
  [obligations |-> <<RequestOf[e].obligations[1]>>, snapshot |-> LegacySnapshot]

\* A prepared execution is queued, which is not in flight.
PrepareExecution(e, estimate, base, priority) ==
  LET fees == Eip1559Fees(base, priority)
  IN  /\ ~Refused(e)
      /\ SetGuard(e, "QUEUED")
      /\ prepared' = [prepared EXCEPT ![e] =
           [batch |-> LegacyBatch(e), gasLimit |-> ApplyGasBuffer(estimate),
            maxFee |-> fees.maxFee, tip |-> fees.priority,
            estimate |-> estimate, givenTip |-> priority]]
      /\ UNCHANGED callerVars

\* Said of a transaction the node has taken.
MarkSubmitted(e) ==
  /\ sentAt[e] # 0
  /\ guardOf[e] = "QUEUED"
  /\ SetGuard(e, "SUBMITTED")
  /\ UNCHANGED <<prepared, callerVars>>

\* Depth that counts from the submission, as PipelineRunner does.
DepthSinceSent(e, answer) == answer.current - sentAt[e]

Depth(e, answer) == answer.current - answer.receipt.block

\* updateConfirmation
Confirmation(e, answer) ==
  CASE answer.receipt = NotMined ->
         IF answer.current - sentAt[e] > StuckAfter THEN "stuck" ELSE "pending"
    [] answer.receipt # NotMined /\ ~answer.receipt.ok -> "reverted"
    [] answer.receipt # NotMined /\ answer.receipt.ok ->
         IF Depth(e, answer) >= FINAL_DEPTH THEN "confirmed" ELSE "pending"

\* What a failed execution leaves behind.
KeepGuard == UNCHANGED guardOf

\* A reverted or stuck transaction leaves the guard as it was.
Failed(e) == KeepGuard

TrackConfirmations(e, answer) ==
  /\ answer \in polls[e]
  /\ polls' = [polls EXCEPT ![e] = @ \ {answer}]
  /\ \/ Confirmation(e, answer) = "confirmed" /\ SetGuard(e, "FINALIZED")
     \/ Confirmation(e, answer) \in {"reverted", "stuck"} /\ Failed(e)
     \/ Confirmation(e, answer) = "pending" /\ SetGuard(e, "CONFIRMING")
  /\ UNCHANGED <<prepared, sentAt, inclusion, chainTip>>

-----------------------------------------------------------------------------
(* The caller and the chain.                                               *)

SendPrepared(e) ==
  /\ sentAt[e] = 0
  /\ prepared[e] # None
  /\ sentAt' = [sentAt EXCEPT ![e] = chainTip]
  /\ UNCHANGED <<guardOf, prepared, inclusion, chainTip, polls>>

NewBlock(mined, ok) ==
  /\ chainTip < MaxHeight
  /\ chainTip' = chainTip + 1
  /\ inclusion' = [e \in Executions |->
       IF e \in mined THEN [block |-> chainTip + 1, ok |-> ok] ELSE inclusion[e]]
  /\ UNCHANGED <<guardOf, prepared, sentAt, polls>>

Unmined == {e \in Executions : sentAt[e] # 0 /\ inclusion[e] = NotMined}

Poll(e) ==
  /\ Refused(e)
  /\ Cardinality(polls[e]) < MaxPolls
  /\ polls' = [polls EXCEPT ![e] = @ \cup {[current |-> chainTip, receipt |-> inclusion[e]]}]
  /\ UNCHANGED <<guardOf, prepared, sentAt, inclusion, chainTip>>

OrchestratorNext ==
  \/ \E e \in Executions :
       \/ \E estimate \in Estimates, base \in BaseFees, priority \in PriorityFees :
            PrepareExecution(e, estimate, base, priority)
       \/ SendPrepared(e)
       \/ MarkSubmitted(e)
       \/ Poll(e)
       \/ \E answer \in polls[e] : TrackConfirmations(e, answer)
  \/ \E mined \in SUBSET Unmined, ok \in BOOLEAN : NewBlock(mined, ok)

OrchestratorSpec == OrchestratorInit /\ [][OrchestratorNext]_orchestratorVars

-----------------------------------------------------------------------------
(* Properties.                                                             *)

\* The node takes every prepared transaction: the tip is within the fee and the
\* gas covers the estimate, except where the caller's own figure is beyond the
\* cap (gasEstimator.ts:5-23).
GasIsSendable ==
  \A e \in Executions :
    LET tx == prepared[e]
    IN  tx # None =>
          /\ tx.givenTip <= FeeCap => tx.tip <= tx.maxFee
          /\ tx.estimate <= MAX_GAS_LIMIT => tx.gasLimit >= tx.estimate

\* However answers of overlapping polls are ordered, an execution that was
\* submitted is refused from then on, a late answer that takes a final one back
\* to confirming included (orchestrator.ts:89-115).
InFlightStaysRefused ==
  [][\A e \in Executions : Refused(e) => Refused(e)']_orchestratorVars

\* A final execution succeeded and is as deep in the chain as required, by
\* whatever answer it became final (confirmationTracker.ts:30-35).
FinalIsDeep ==
  \A e \in Executions :
    guardOf[e] = "FINALIZED" =>
      inclusion[e].ok /\ chainTip - inclusion[e].block >= FINAL_DEPTH

-----------------------------------------------------------------------------
(* What the repository says and the code does not do.                      *)

\* What is prepared can be sent, and what is final is as deep as required, in
\* whatever order the answers of overlapping polls are applied.
OrchestratorSafe == OrchestratorTypeOK /\ GasIsSendable /\ FinalIsDeep
=============================================================================
