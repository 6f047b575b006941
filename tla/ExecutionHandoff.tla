-------------------------- MODULE ExecutionHandoff --------------------------
(***************************************************************************)
(* The hand-over of an execution from layer 3 to layer 4 and on to the     *)
(* chain: L3ContractEngine builds a request, PipelineRunner checks it and  *)
(* sends it to ExecutionEngine, directly or through the Safe's             *)
(* ExecutionModule, and the outcome moves layer 3 on.                      *)
(*                                                                         *)
(* The module composes what the parts demand of one request; the gates on  *)
(* chain are those of ExecutionEngine, which it extends.  One run is under *)
(* way at a time, but the transactions of earlier ones may be pending       *)
(* still, of the same nonce of the relayer: PipelineRunner has the         *)
(* concurrent runs, the fees and the circuit breaker.  The Safe's owners   *)
(* and governance act at any time, also between two reads of one check.    *)
(* bindHandoff computes the obligation hash and denies a challenge, so     *)
(* these two checks of validateL3Request pass.  Reports have no codes.     *)
(***************************************************************************)
EXTENDS ExecutionEngine, Integers

CONSTANTS
  Relayer, Safe,     \* the accounts that call the engine: live and safe mode
  Modes,             \* submitMode: simulation, live, safe
  Signers,           \* accounts that sign authorizations
  SignatureLists,    \* eip712Signatures of a request, by recovered signer
  SafeConfigs,       \* owners and threshold the Safe may have
  NoProof,           \* "0x"
  BasicThreshold,    \* m of AuthGateway, where no Safe is configured
  DisputeWindow,     \* DISPUTE_WINDOW_SECONDS
  Expiry,            \* EXECUTION_EXPIRY_SECONDS
  MaxAttempts        \* bounds the runs that send

ASSUME HandoffAssumption ==
  /\ {Relayer, Safe} \subseteq Accounts
  /\ Modes \subseteq {"simulation", "live", "safe"}
  /\ SignatureLists \subseteq Seq(Signers)
  /\ \A config \in SafeConfigs : config.owners \subseteq Signers /\ config.threshold \in Nat
  /\ NoProof \notin Proofs
  /\ {BasicThreshold, DisputeWindow, Expiry, MaxAttempts} \subseteq Nat

VARIABLES
  mode,
  l3,        \* L3ContractEngine.state of each contract
  safe,      \* the Safe's owners and threshold
  module,    \* ExecutionModule: enabled, and executionDeadline of each contract
  guard,     \* IdempotencyGuard by executionId, the hash of contract and obligations
  run,       \* the run under way, its request and what it read of the Safe
  report,    \* the last run's success or FailureReport
  attempts   \* each run that sent: its request, and its transaction's nonce and fate

chainVars == <<engineVars, module>>
handoffVars == <<chainVars, mode, l3, safe, guard, run, report, attempts>>

\* Layer4Types.LifecycleState: the value of the first is 0.
LifecycleStates ==
  <<"DRAFT", "MONITORING", "TRIGGERED", "DISPUTING", "ARBITRATION_RESOLVED",
    "SETTLEMENT_PENDING", "SETTLED", "EXPIRED">>

Executable == {"TRIGGERED", "ARBITRATION_RESOLVED"}

Requests ==
  [contract : Contracts, state : Executable, obligations : ObligationLists,
   snapshot : Snapshots, proof : Proofs \cup {NoProof}, signers : SignatureLists,
   bridged : BOOLEAN]

\* executionId
Id(request) == <<request.contract, request.obligations>>

Ids == Contracts \X ObligationLists

Results == {"simulated", "pending", "succeeded", "reverted", "dropped"}

Mined(attempt) == attempt.result \in {"succeeded", "reverted"}

Idle == [pc |-> "idle"]

NoReport == [status |-> "NONE"]

HandoffTypeOK ==
  /\ EngineTypeOK
  /\ mode \in Modes
  /\ l3 \in [Contracts -> Executable \cup {"MONITORING", "DISPUTING", "SETTLED"}]
  /\ safe \in SafeConfigs
  /\ module \in [enabled : BOOLEAN, deadline : [Contracts -> 0 .. MaxTime + Expiry]]
  /\ guard \in [Ids -> {"NONE", "QUEUED", "SUBMITTED", "FINALIZED"}]
  /\ run.pc \in {"idle", "threshold", "owners", "sending", "waiting", "settling"}
  /\ run.pc # "idle" => run.request \in Requests
  /\ report.status \in {"NONE", "FINALIZED", "FAILED"}
  /\ report.status = "FAILED" => report.id \in Ids /\ report.recoverable \in BOOLEAN
  /\ attempts \in Seq([request : Requests, signedOff : BOOLEAN, changed : BOOLEAN,
                       result : Results, agreed : BOOLEAN, nonce : Nat])
  /\ Len(attempts) <= MaxAttempts

\* A deployment as its scripts leave it: operators admitted, recipients
\* verified, the module enabled, and nothing registered yet.
HandoffInit ==
  /\ time = 0
  /\ emergencyPause = FALSE
  /\ operators = {Relayer, Safe}
  /\ registered = [c \in Contracts |->
                     [obligations |-> Nil, snapshot |-> Nil, deadline |-> 0]]
  /\ arbitration = [c \in Contracts |-> [override |-> FALSE, met |-> FALSE]]
  /\ status = [c \in Contracts |-> "NONE"]
  /\ executionNonce = [c \in Contracts |-> 0]
  /\ executed = {} /\ usedProofs = {} /\ executions = {} /\ sanctioned = {}
  /\ identity \in [Accounts -> [verified : {TRUE}, frozen : {FALSE}, country : Countries]]
  /\ countryAllowed = Partitions \X Countries
  /\ openings = [c \in Contracts |-> 0]
  /\ mode \in Modes
  /\ l3 = [c \in Contracts |-> "MONITORING"]
  /\ safe \in SafeConfigs
  /\ module = [enabled |-> TRUE, deadline |-> [c \in Contracts |-> 0]]
  /\ guard = [id \in Ids |-> "NONE"]
  /\ run = Idle
  /\ report = NoReport
  /\ attempts = <<>>

-----------------------------------------------------------------------------
(* L3ContractEngine.                                                       *)

Trigger(c) ==
  /\ l3[c] \in {"MONITORING", "ARBITRATION_RESOLVED"}
  /\ l3' = [l3 EXCEPT ![c] = "TRIGGERED"]
  /\ UNCHANGED <<chainVars, mode, safe, guard, run, report, attempts>>

\* In any state, a settled contract's included.
ResolveArbitration(c, met) ==
  /\ l3' = [l3 EXCEPT ![c] = IF met THEN "ARBITRATION_RESOLVED" ELSE "DISPUTING"]
  /\ UNCHANGED <<chainVars, mode, safe, guard, run, report, attempts>>

OnExecutionSuccess(c) == l3' = [l3 EXCEPT ![c] = "SETTLED"]

\* A suggested ARBITRATION is a dispute to layer 3.
OnExecutionFailure(c, suggested) ==
  l3' = [l3 EXCEPT ![c] = IF suggested = "MONITORING" THEN "MONITORING" ELSE "DISPUTING"]

\* Long past whatever the contract's own deadline is.
DefaultDisputeDeadline == time - DisputeWindow - 1

-----------------------------------------------------------------------------
(* The ends of a run.                                                      *)

\* A request of the Sui bridge is not layer 3's, which hears nothing of it.
Finish(request) ==
  /\ IF request.bridged THEN UNCHANGED l3 ELSE OnExecutionSuccess(request.contract)
  /\ guard' = [guard EXCEPT ![Id(request)] = "FINALIZED"]
  /\ report' = [status |-> "FINALIZED"]
  /\ run' = Idle

Fail(request, recoverable, suggested) ==
  /\ IF request.bridged THEN UNCHANGED l3
       ELSE OnExecutionFailure(request.contract, suggested)
  /\ report' = [status |-> "FAILED", recoverable |-> recoverable, id |-> Id(request)]
  /\ run' = Idle

\* catch of an AuthError: only too few signatures (1105) can be mended.
FailAuth(request, tooFew) == Fail(request, tooFew, "DISPUTING")

\* catch of anything else.
Throw(request) == Fail(request, FALSE, "DISPUTING")

-----------------------------------------------------------------------------
(* The checks off chain.                                                   *)

InFlight(id) == guard[id] \in {"SUBMITTED", "FINALIZED"}

HasProof(request) == request.proof # NoProof

DisputeWindowOver(deadline) == time >= deadline

DistinctSigners(request) == {request.signers[i] : i \in DOMAIN request.signers}

\* AuthGateway: enough signatures, and enough of them distinct.
CountsEnough(request) == Cardinality(DistinctSigners(request)) >= BasicThreshold

Enter(request, pc) ==
  run' = [pc |-> pc, request |-> request, threshold |-> 0, signedOff |-> FALSE,
          changed |-> FALSE]

\* Up to the first await; the proof was missing or the window open, and the
\* caller may try again.
StartRun(request, deadline) ==
  /\ run = Idle
  /\ Len(attempts) < MaxAttempts
  /\ \/ InFlight(Id(request)) /\ Throw(request)
     \/ /\ ~InFlight(Id(request))
        /\ \/ ~HasProof(request) /\ Fail(request, TRUE, "MONITORING")
           \/ /\ HasProof(request) /\ ~DisputeWindowOver(deadline)
              /\ Fail(request, TRUE, "MONITORING")
           \/ /\ HasProof(request) /\ DisputeWindowOver(deadline)
              /\ \/ mode # "simulation" /\ Enter(request, "threshold") /\ UNCHANGED <<l3, report>>
                 \/ /\ mode = "simulation"
                    /\ \/ CountsEnough(request) /\ Enter(request, "sending")
                          /\ UNCHANGED <<l3, report>>
                       \/ /\ ~CountsEnough(request)
                          /\ FailAuth(request, Len(request.signers) < BasicThreshold)
  /\ UNCHANGED <<chainVars, mode, safe, guard, attempts>>

\* buildExecutionRequest: a caller may give the deadline the contract was
\* registered with.
Execute(c) ==
  /\ l3[c] \in Executable
  /\ \E obs \in ObligationLists, snapshot \in Snapshots, proof \in Proofs \cup {NoProof},
        deadline \in {DefaultDisputeDeadline, registered[c].deadline},
        signers \in SignatureLists :
       StartRun([contract |-> c, state |-> l3[c], obligations |-> obs, snapshot |-> snapshot,
                 proof |-> proof, signers |-> signers, bridged |-> FALSE], deadline)

\* suiAttestationToExecutionRequest states a triggered contract, whatever layer 3
\* says of it, and has a placeholder where the meter's signature is missing.
ExecuteAttestation(c) ==
  \E obs \in ObligationLists, snapshot \in Snapshots, proof \in Proofs,
     signers \in SignatureLists :
    StartRun([contract |-> c, state |-> "TRIGGERED", obligations |-> obs,
              snapshot |-> snapshot, proof |-> proof, signers |-> signers,
              bridged |-> TRUE], DefaultDisputeDeadline)

\* SafeAuthGateway reads the threshold and, in a call of its own, the owners.
ReadThreshold ==
  /\ run.pc = "threshold"
  /\ \/ /\ Len(run.request.signers) >= safe.threshold
        /\ run' = [run EXCEPT !.pc = "owners", !.threshold = safe.threshold]
        /\ UNCHANGED <<l3, report>>
     \/ Len(run.request.signers) < safe.threshold /\ FailAuth(run.request, TRUE)
     \/ Throw(run.request)
  /\ UNCHANGED <<chainVars, mode, safe, guard, attempts>>

\* SignersAreOwners that counts a signer twice.
SignersAreKnown(request, owners) == DistinctSigners(request) \subseteq owners

\* Every signer an owner, none of them twice.
SignersAreOwners(request, owners) ==
  /\ DistinctSigners(request) \subseteq owners
  /\ Cardinality(DistinctSigners(request)) = Len(request.signers)

\* What M-of-N means.
SignedOff(request, config) ==
  Cardinality(DistinctSigners(request) \cap config.owners) >= config.threshold

\* The count of distinct owners is checked again, and cannot fail.
ReadOwners ==
  /\ run.pc = "owners"
  /\ \/ /\ SignersAreOwners(run.request, safe.owners)
        /\ run' = [run EXCEPT !.pc = "sending", !.signedOff = SignedOff(run.request, safe)]
        /\ UNCHANGED <<l3, report>>
     \/ ~SignersAreOwners(run.request, safe.owners) /\ FailAuth(run.request, FALSE)
     \/ Throw(run.request)
  /\ UNCHANGED <<chainVars, mode, safe, guard, attempts>>

-----------------------------------------------------------------------------
(* Sending, and the gates on chain.                                        *)

\* LifecycleToUint8 with the value of MONITORING.
LifecycleOffByOne(state) == IF state = "TRIGGERED" THEN 1 ELSE 5

LifecycleToUint8(state) == IF state = "TRIGGERED" THEN 2 ELSE 5

\* The engine decodes the number as Layer4Types.LifecycleState.
DecodedState(request) == LifecycleStates[LifecycleToUint8(request.state) + 1]

Caller == IF mode = "safe" THEN Safe ELSE Relayer

BatchIsPassed(request) ==
  BatchPasses(Caller, request.contract, DecodedState(request), request.obligations,
              request.snapshot, request.proof)

BatchOf(request) ==
  ExecuteBatch(Caller, request.contract, DecodedState(request), request.obligations,
               request.snapshot, request.proof)

\* executeBatchViaSafe, before it calls the engine as the Safe.
ModuleAdmits(request) ==
  LET deadline == module.deadline[request.contract]
  IN  /\ module.enabled
      /\ deadline # 0 => time <= deadline
      /\ request.proof.snapshot = request.snapshot

\* What the request promises is what the chain has on record.
Agrees(request) ==
  LET c == request.contract
  IN  /\ request.obligations = registered[c].obligations
      /\ request.snapshot = registered[c].snapshot
      /\ request.proof.snapshot = request.snapshot
      /\ request.proof.key \notin usedProofs
      /\ status[c] \in {"NONE", "ROLLED_BACK"}
      /\ arbitration[c].override \/ time >= registered[c].deadline + DisputeBuffer
      /\ request.state = "ARBITRATION_RESOLVED" => arbitration[c].met
      /\ mode = "safe" => module.enabled /\ (module.deadline[c] = 0 \/ time <= module.deadline[c])

SetGuard(request, value) == guard' = [guard EXCEPT ![Id(request)] = value]

\* nextFromChain: the nonce of the relayer's next transaction to be mined, so that
\* a pending one of an earlier run has it too.
NextFromChain == Cardinality({i \in DOMAIN attempts : Mined(attempts[i])})

Attempt(result) ==
  attempts' = Append(attempts, [request |-> run.request, signedOff |-> run.signedOff,
                                changed |-> run.changed, result |-> result, agreed |-> FALSE,
                                nonce |-> NextFromChain])

\* The transaction goes out and its hash comes back; goes out and every answer
\* is lost; or is refused, for a fee no higher than a pending one's of its nonce or
\* for a nonce spent since it was read.  Only the first is noted as submitted.
Send ==
  /\ run.pc = "sending"
  /\ \/ /\ mode = "simulation"
        /\ Attempt("simulated")
        /\ SetGuard(run.request, "SUBMITTED")
        /\ run' = [run EXCEPT !.pc = "settling"]
        /\ UNCHANGED <<l3, report>>
     \/ /\ mode # "simulation"
        /\ \/ /\ Attempt("pending")
              /\ SetGuard(run.request, "SUBMITTED")
              /\ run' = [run EXCEPT !.pc = "waiting"]
              /\ UNCHANGED <<l3, report>>
           \/ Attempt("pending") /\ SetGuard(run.request, "QUEUED") /\ Throw(run.request)
           \/ /\ SetGuard(run.request, "QUEUED")
              /\ Throw(run.request)
              /\ UNCHANGED attempts
  /\ UNCHANGED <<chainVars, mode, safe>>

Becomes(i, result, agreed) ==
  attempts' = [attempts EXCEPT ![i].result = result, ![i].agreed = agreed]

\* Of the transactions with the next nonce any may be mined, and the others never.
Mine(i) ==
  LET request == attempts[i].request
      admitted == mode = "safe" => ModuleAdmits(request)
  IN  /\ attempts[i].result = "pending"
      /\ attempts[i].nonce = NextFromChain
      /\ \/ /\ admitted
            /\ BatchOf(request)
            /\ Becomes(i, "succeeded", Agrees(request))
         \/ /\ ~(admitted /\ BatchIsPassed(request))
            /\ Becomes(i, "reverted", Agrees(request))
            /\ UNCHANGED engineVars
      /\ UNCHANGED <<module, mode, l3, safe, guard, run, report>>

Drop(i) ==
  /\ attempts[i].result = "pending"
  /\ Becomes(i, "dropped", FALSE)
  /\ UNCHANGED <<chainVars, mode, l3, safe, guard, run, report>>

\* waitForTransactionReceipt follows replacements: a receipt is that of whichever
\* transaction was mined with the run's nonce, and nothing compares the two.
Answered(result) ==
  \E i \in DOMAIN attempts :
    attempts[i].nonce = attempts[Len(attempts)].nonce /\ attempts[i].result = result

\* A receipt comes, or the wait gives up.
Wait ==
  /\ run.pc = "waiting"
  /\ \/ /\ Answered("succeeded")
        /\ run' = [run EXCEPT !.pc = "settling"]
        /\ UNCHANGED <<l3, report>>
     \/ Answered("reverted") /\ Fail(run.request, TRUE, "MONITORING")
     \/ Throw(run.request)
  /\ UNCHANGED <<chainVars, mode, safe, guard, attempts>>

\* Layer 5 acknowledges, does not, or throws.
Settle ==
  /\ run.pc = "settling"
  /\ \/ Finish(run.request)
     \/ Fail(run.request, TRUE, "MONITORING") /\ UNCHANGED guard
     \/ Throw(run.request) /\ UNCHANGED guard
  /\ UNCHANGED <<chainVars, mode, safe, attempts>>

\* runFullPipeline makes a new layer 3 engine and a new runner for each call,
\* and a process that died starts with new ones: nothing is remembered.
Restart ==
  /\ l3' = [c \in Contracts |-> "MONITORING"]
  /\ guard' = [id \in Ids |-> "NONE"]
  /\ run' = Idle
  /\ report' = NoReport
  /\ UNCHANGED <<chainVars, mode, safe, attempts>>

-----------------------------------------------------------------------------
(* The Safe's owners and governance.                                       *)

ReconfigureSafe(config) ==
  /\ config # safe
  /\ safe' = config
  /\ run' = IF run.pc = "owners" THEN [run EXCEPT !.changed = TRUE] ELSE run
  /\ UNCHANGED <<chainVars, mode, l3, guard, report, attempts>>

SetModule(enabled) ==
  /\ module' = [module EXCEPT !.enabled = enabled]
  /\ UNCHANGED <<engineVars, mode, l3, safe, guard, run, report, attempts>>

\* Called by the Safe; the engine, also admitted, never does.
SetExecutionDeadline(c, triggeredAt) ==
  /\ module' = [module EXCEPT !.deadline[c] = triggeredAt + Expiry]
  /\ UNCHANGED <<engineVars, mode, l3, safe, guard, run, report, attempts>>

ChainSteps ==
  /\ \/ Tick
     \/ \E c \in Contracts :
          \/ \E met \in BOOLEAN : SetArbitrationOutcome(c, met)
          \/ \E obs \in ObligationLists, snapshot \in Snapshots, deadline \in Deadlines :
               RegisterContract(c, obs, snapshot, deadline)
  /\ UNCHANGED <<module, mode, l3, safe, guard, run, report, attempts>>

LayerThreeNext ==
  \E c \in Contracts :
    \/ Trigger(c)
    \/ \E met \in BOOLEAN : ResolveArbitration(c, met)
    \/ Execute(c)
    \/ ExecuteAttestation(c)

RunStep == ReadThreshold \/ ReadOwners \/ Send \/ Wait \/ Settle

EnvironmentNext ==
  \/ ChainSteps
  \/ \E i \in DOMAIN attempts : Mine(i) \/ Drop(i)
  \/ \E config \in SafeConfigs : ReconfigureSafe(config)
  \/ \E enabled \in BOOLEAN : SetModule(enabled)
  \/ \E c \in Contracts : SetExecutionDeadline(c, time)

HandoffNext == LayerThreeNext \/ RunStep \/ Restart \/ EnvironmentNext

HandoffSpec == HandoffInit /\ [][HandoffNext]_handoffVars

-----------------------------------------------------------------------------
(* Properties.                                                             *)

\* A run that sent had M-of-N signatures of the Safe as it was at one moment,
\* unless the Safe was reconfigured between the two reads of the check
\* (safeAuth.ts:79-97).
QuorumUnlessChanged ==
  mode # "simulation" =>
    \A i \in DOMAIN attempts : attempts[i].signedOff \/ attempts[i].changed

PaidByChain(c) == \E e \in executions : e.contract = c

\* A run for c sent with the nonce that the transaction of another contract took.
NonceLost(c) ==
  \E i, j \in DOMAIN attempts :
    /\ attempts[i].request.contract = c
    /\ attempts[j].request.contract # c
    /\ attempts[j].result = "succeeded"
    /\ attempts[i].nonce = attempts[j].nonce

\* Whatever restarts, registrations and retries came before, layer 3 says that a
\* contract is settled only if the chain has paid it, or if a run for it sent with
\* a nonce that another contract's payment took, whose receipt the run was given
\* (l3ContractEngine.ts:74, runFullPipeline.ts:58, pipelineRunner.ts:231).
SettledWasPaid ==
  \A c \in Contracts :
    l3[c] = "SETTLED" /\ mode # "simulation" => PaidByChain(c) \/ NonceLost(c)

\* A triggered request that agrees with what is on chain is not refused there:
\* the calldata says what the request says, in the engine's own encoding, and
\* the module adds no demand of its own (transactionBuilder.ts:59-125,
\* safeExecutor.ts:65-99).
AgreedTriggerExecutes ==
  \A i \in DOMAIN attempts :
    attempts[i].result = "reverted" /\ attempts[i].request.state = "TRIGGERED" =>
      ~attempts[i].agreed

\* Layer 3 may restart, trigger again and send the same obligations with another
\* proof while a transaction it gave up is still pending: the runs that the
\* chain paid belong to different openings of the contract.
PaidOnceHoweverSent ==
  \A c \in Contracts :
    Cardinality({i \in DOMAIN attempts :
                   attempts[i].result = "succeeded" /\ attempts[i].request.contract = c})
      <= openings[c]

-----------------------------------------------------------------------------
(* What the repository says and the code does not do.                      *)

\* "state must be TRIGGERED or ARBITRATION_RESOLVED" (l3Handoff.ts:36).
AgreedRequestExecutes ==
  \A i \in DOMAIN attempts : attempts[i].result = "reverted" => ~attempts[i].agreed

\* Layer 3 settles what was paid only, unless a nonce was taken over, and what it
\* sends as agreed with the chain is executed there.
HandoffSafe == HandoffTypeOK /\ SettledWasPaid /\ AgreedTriggerExecutes
=============================================================================
