--------------------------- MODULE PipelineRunner ---------------------------
(***************************************************************************)
(* Layer 4 off chain: PipelineRunner takes an execution request through    *)
(* validation, authorization, submission and confirmation to layer 5.      *)
(* Runs of one runner are concurrent: each is suspended at every await,    *)
(* and they share the in-flight guard and the circuit breaker.  Submission *)
(* mode is live: the runs share the relayer's account as well.             *)
(*                                                                         *)
(* An action is what a run does from one await to the next, so the answer  *)
(* it resumes with, or the error thrown, is part of the action.  The chain *)
(* is external: a node with a mempool that replaces a transaction by a     *)
(* dearer one of the same nonce, and drops any; and blocks in which the    *)
(* engine contract pays an execution at most once (ExecutionEngine).       *)
(*                                                                         *)
(* The executionId is the hash of contract and obligations, the same for   *)
(* every run of a request (pipelineRunner.ts:112).  status, laneStates and *)
(* the wording of failure reports are only displayed and are left out.     *)
(***************************************************************************)
EXTENDS Naturals, Sequences, FiniteSets

CONSTANTS
  Runs,               \* calls of run()
  ExecutionIds,
  ExecutionOf,        \* the executionId of each run's request
  Nil,                \* no transaction recorded
  MAX_RETRIES,
  CONFIRMATION_DEPTH,
  MinAttempts,        \* attempts before the failure rate opens the breaker: 3
  MaxAttempts,        \* attempts a window admits: 100 in ten minutes
  MaxEmptyBlocks      \* bounds the blocks without a transaction of the relayer

ASSUME RunnerAssumption ==
  /\ ExecutionOf \in [Runs -> ExecutionIds]
  /\ Nil \notin Runs
  /\ MAX_RETRIES \in Nat \ {0}
  /\ {CONFIRMATION_DEPTH, MinAttempts, MaxAttempts, MaxEmptyBlocks} \subseteq Nat

VARIABLES
  pc,          \* where each run is suspended
  nonce,       \* the account nonce each run read from the chain
  sends,       \* failed sends of each run; also how often its fee was raised
  submittedAt, \* the block number each run read after sending
  guard,       \* IdempotencyGuard: status and transaction of each execution
  breaker,     \* CircuitBreaker: open, attempts and failures
  windowOver,  \* the breaker's ten minutes have passed
  mempool,     \* pending transactions [run, nonce, fee]
  mined,       \* the relayer's mined transactions in nonce order [run, ok, block]
  height,      \* the chain's last block
  accepted,    \* runs of which the node accepted a transaction; history
  processed,   \* how often layer 5 was handed each execution; history
  overlaps   \* executions with two runs past the guard at once; history

runVars == <<pc, nonce, sends, submittedAt>>
chainVars == <<mempool, mined, height, accepted>>
layer5Vars == <<processed, overlaps>>
runnerVars == <<runVars, guard, breaker, windowOver, chainVars, layer5Vars>>

Ended == {"finalized", "failed"}
Suspended == {"authorizing", "numbering", "sending", "locating", "confirming", "settling"}

Transactions == [run : Runs, nonce : Nat, fee : 0 .. MAX_RETRIES - 1]

RunnerTypeOK ==
  /\ pc \in [Runs -> {"idle"} \cup Suspended \cup Ended]
  /\ nonce \in [Runs -> Nat]
  /\ sends \in [Runs -> 0 .. MAX_RETRIES - 1]
  /\ submittedAt \in [Runs -> Nat]
  /\ guard \in [ExecutionIds -> [status : {"NONE", "QUEUED", "SUBMITTED", "FINALIZED"},
                                 tx : Runs \cup {Nil}]]
  /\ breaker \in [open : BOOLEAN, attempts : Nat, failures : Nat]
  /\ breaker.failures <= breaker.attempts
  /\ windowOver \in BOOLEAN
  /\ mempool \subseteq Transactions
  /\ mined \in Seq([run : Runs, ok : BOOLEAN, block : Nat])
  /\ height \in Nat
  /\ accepted \subseteq Runs
  /\ processed \in [ExecutionIds -> Nat]
  /\ overlaps \subseteq ExecutionIds

RunnerInit ==
  /\ pc = [r \in Runs |-> "idle"]
  /\ nonce = [r \in Runs |-> 0]
  /\ sends = [r \in Runs |-> 0]
  /\ submittedAt = [r \in Runs |-> 0]
  /\ guard = [e \in ExecutionIds |-> [status |-> "NONE", tx |-> Nil]]
  /\ breaker = [open |-> FALSE, attempts |-> 0, failures |-> 0]
  /\ windowOver = FALSE
  /\ mempool = {}
  /\ mined = <<>>
  /\ height = 0
  /\ accepted = {}
  /\ processed = [e \in ExecutionIds |-> 0]
  /\ overlaps = {}

-----------------------------------------------------------------------------
(* CircuitBreaker and IdempotencyGuard.                                    *)

\* More than 30 per cent failures, or too many attempts.
Overloaded(attempts, failures) ==
  \/ attempts > MaxAttempts
  \/ attempts >= MinAttempts /\ 10 * failures > 3 * attempts

\* StaysOpen that takes a new window for a closed breaker.
OpensAnew(attempts, failures) == Overloaded(attempts, failures)

\* Nothing closes an open breaker: the runner never calls reset.
StaysOpen(attempts, failures) == breaker.open \/ Overloaded(attempts, failures)

RecordAttempt(success) ==
  LET attempts == (IF windowOver THEN 0 ELSE breaker.attempts) + 1
      failures == (IF windowOver THEN 0 ELSE breaker.failures) + (IF success THEN 0 ELSE 1)
  IN  /\ breaker' = [open |-> StaysOpen(attempts, failures),
                     attempts |-> attempts, failures |-> failures]
      /\ windowOver' = FALSE

breakerVars == <<breaker, windowOver>>

\* InFlight that forgets what is done.
InFlightUntilFinal(e) == guard[e].status = "SUBMITTED"

\* A queued execution is not in flight, and nothing is recorded as CONFIRMING.
InFlight(e) == guard[e].status \in {"SUBMITTED", "FINALIZED"}

\* The transaction recorded last stays when none is given.
Record(e, status, tx) ==
  guard' = [guard EXCEPT ![e] =
              [status |-> status, tx |-> IF tx = Nil THEN @.tx ELSE tx]]

-----------------------------------------------------------------------------
(* Steps of a run.                                                         *)

Goto(r, label) == pc' = [pc EXCEPT ![r] = label]

\* return fail(...): the breaker is not told.
Fail(r) ==
  /\ Goto(r, "failed")
  /\ UNCHANGED breakerVars

\* catch: whatever was thrown counts as a failed attempt.
Throw(r) ==
  /\ Goto(r, "failed")
  /\ RecordAttempt(FALSE)

Overlaps(r) ==
  \E s \in Runs \ {r} : ExecutionOf[s] = ExecutionOf[r] /\ pc[s] \in Suspended

\* Admitted when the breaker is closed and nothing is in flight.
Admitted(r) == ~breaker.open /\ ~InFlight(ExecutionOf[r])

\* Up to the first await.  validateL3Request depends on the request and the
\* clock, and returns a failure without throwing.
Start(r) ==
  /\ pc[r] = "idle"
  /\ IF Admitted(r)
       THEN \/ Fail(r) /\ UNCHANGED overlaps
            \/ /\ Goto(r, "authorizing")
               /\ overlaps' = overlaps \cup
                    (IF Overlaps(r) THEN {ExecutionOf[r]} ELSE {})
               /\ UNCHANGED breakerVars
       ELSE Throw(r) /\ UNCHANGED overlaps
  /\ UNCHANGED <<nonce, sends, submittedAt, guard, chainVars, processed>>

\* The Safe's owners and threshold are read from the chain.
Authorize(r) ==
  /\ pc[r] = "authorizing"
  /\ \/ Goto(r, "numbering") /\ UNCHANGED breakerVars
     \/ Throw(r)
  /\ UNCHANGED <<nonce, sends, submittedAt, guard, chainVars, layer5Vars>>

\* getTransactionCount counts mined transactions only.
NextFromChain == Len(mined)

RecordQueued(r) == Record(ExecutionOf[r], "QUEUED", Nil)

Queue(r) ==
  /\ pc[r] = "numbering"
  /\ \/ /\ nonce' = [nonce EXCEPT ![r] = NextFromChain]
        /\ RecordQueued(r)
        /\ Goto(r, "sending")
        /\ UNCHANGED breakerVars
     \/ /\ Throw(r)
        /\ UNCHANGED <<nonce, guard>>
  /\ UNCHANGED <<sends, submittedAt, chainVars, layer5Vars>>

\* Retry that does not count.
RetryForever(r) == Goto(r, "sending") /\ UNCHANGED <<sends, breakerVars>>

\* submitWithRetry after an error: again with a fee raised by a quarter, or
\* rethrow.
Retry(r) ==
  \/ /\ sends[r] + 1 < MAX_RETRIES
     /\ sends' = [sends EXCEPT ![r] = @ + 1]
     /\ Goto(r, "sending")
     /\ UNCHANGED breakerVars
  \/ /\ sends[r] + 1 >= MAX_RETRIES
     /\ Throw(r)
     /\ UNCHANGED sends

Pending(n) == {t \in mempool : t.nonce = n}

\* The node refuses a spent nonce and a replacement that is not dearer.
Acceptable(t) ==
  /\ t.nonce >= Len(mined)
  /\ \A other \in Pending(t.nonce) : other.fee < t.fee

Accept(t) ==
  /\ Acceptable(t)
  /\ mempool' = (mempool \ Pending(t.nonce)) \cup {t}
  /\ accepted' = accepted \cup {t.run}

\* sendTransaction: accepted and answered; accepted but the answer lost; or
\* refused or never delivered.
Send(r) ==
  LET t == [run |-> r, nonce |-> nonce[r], fee |-> sends[r]]
  IN  /\ pc[r] = "sending"
      /\ \/ Accept(t) /\ Goto(r, "locating") /\ UNCHANGED <<sends, breakerVars>>
         \/ Accept(t) /\ Retry(r)
         \/ Retry(r) /\ UNCHANGED <<mempool, accepted>>
      /\ UNCHANGED <<nonce, submittedAt, guard, mined, height, layer5Vars>>

\* getBlockNumber: its failure repeats the send that succeeded.
Locate(r) ==
  /\ pc[r] = "locating"
  /\ \/ /\ submittedAt' = [submittedAt EXCEPT ![r] = height]
        /\ Record(ExecutionOf[r], "SUBMITTED", r)
        /\ Goto(r, "confirming")
        /\ UNCHANGED <<sends, breakerVars>>
     \/ Retry(r) /\ UNCHANGED <<submittedAt, guard>>
  /\ UNCHANGED <<nonce, chainVars, layer5Vars>>

\* waitForTransactionReceipt answers for the nonce: with the receipt of the
\* run's own transaction or of the one that replaced it, which no code compares.
Slot(r) == mined[nonce[r] + 1]
IsMined(r) == nonce[r] < Len(mined)

Succeeded(r) == IsMined(r) /\ Slot(r).ok

\* The tracker is given the submission block as the inclusion block, and each
\* number from there as the current block; what the chain has is never asked.
IsConfirmed(inclusionBlock, currentBlock) ==
  currentBlock - inclusionBlock >= CONFIRMATION_DEPTH

AwaitConfirmations(block) ==
  \E current \in block .. block + CONFIRMATION_DEPTH : IsConfirmed(block, current)

\* A receipt; or the wait times out, whatever became of the transaction.  The
\* guard keeps the execution as submitted.
Confirm(r) ==
  /\ pc[r] = "confirming"
  /\ \/ /\ Succeeded(r)
        /\ AwaitConfirmations(submittedAt[r])
        /\ Goto(r, "settling")
        /\ UNCHANGED breakerVars
     \/ /\ IsMined(r)
        /\ ~Succeeded(r)
        /\ Fail(r)
     \/ Throw(r)
  /\ UNCHANGED <<nonce, sends, submittedAt, guard, chainVars, layer5Vars>>

\* l5.process acknowledges, does not, or throws, which layer 5 may do after it
\* has archived the result and written its audit record.
Settle(r) ==
  LET e == ExecutionOf[r]
  IN  /\ pc[r] = "settling"
      /\ processed' = [processed EXCEPT ![e] = @ + 1]
      /\ \/ /\ Record(e, "FINALIZED", r)
            /\ Goto(r, "finalized")
            /\ RecordAttempt(TRUE)
         \/ (Fail(r) \/ Throw(r)) /\ UNCHANGED guard
      /\ UNCHANGED <<nonce, sends, submittedAt, chainVars, overlaps>>

RunStep(r) ==
  \/ Authorize(r) \/ Queue(r) \/ Send(r) \/ Locate(r) \/ Confirm(r) \/ Settle(r)

-----------------------------------------------------------------------------
(* The chain and the clock.                                                *)

\* The proof and the status of a paid execution make every later batch of it
\* revert (ProofSpentOnce and PaidOncePerOpening of ExecutionEngine).
Unpaid(e) ==
  \A i \in DOMAIN mined : mined[i].ok => ExecutionOf[mined[i].run] # e

\* Unpaid that lets a batch be paid again by another run of it.
UnpaidBy(r) == \A i \in DOMAIN mined : mined[i].ok => mined[i].run # r

PaymentAllowed(r) == Unpaid(ExecutionOf[r])

\* The next transaction of the account; its batch may revert for reasons of its
\* own.
Mine(t, ok) ==
  /\ t.nonce = Len(mined)
  /\ ok => PaymentAllowed(t.run)
  /\ mined' = Append(mined, [run |-> t.run, ok |-> ok, block |-> height + 1])
  /\ height' = height + 1
  /\ mempool' = mempool \ Pending(t.nonce)
  /\ UNCHANGED <<runVars, guard, breakerVars, accepted, layer5Vars>>

Evict(t) ==
  /\ mempool' = mempool \ {t}
  /\ UNCHANGED <<runVars, guard, breakerVars, mined, height, accepted, layer5Vars>>

EmptyBlock ==
  /\ height < Len(mined) + MaxEmptyBlocks
  /\ height' = height + 1
  /\ UNCHANGED <<runVars, guard, breakerVars, mempool, mined, accepted, layer5Vars>>

\* Matters once something was counted.
WindowPasses ==
  /\ ~windowOver
  /\ breaker.attempts > 0
  /\ windowOver' = TRUE
  /\ UNCHANGED <<runVars, guard, breaker, chainVars, layer5Vars>>

ChainNext ==
  \/ \E t \in mempool : Evict(t) \/ \E ok \in BOOLEAN : Mine(t, ok)
  \/ EmptyBlock

RunnerNext ==
  \/ \E r \in Runs : Start(r) \/ RunStep(r)
  \/ ChainNext
  \/ WindowPasses

RunnerSpec == RunnerInit /\ [][RunnerNext]_runnerVars

\* Every await of a started run returns: calls of the node and the wait for a
\* receipt time out, and layer 5 is taken to answer.  Nobody has to call run,
\* and no transaction has to be mined.
FairRunnerSpec == RunnerSpec /\ \A r \in Runs : WF_runnerVars(RunStep(r))

-----------------------------------------------------------------------------
(* Properties.                                                             *)

\* However runs overlap, resend and replace each other's transactions, an
\* execution is paid at most once on chain; the in-flight guard alone does not
\* give this (pipelineRunner.ts:121, networkSubmitter.ts:59-74).
PaidOnChainOnce ==
  \A i, j \in DOMAIN mined :
    /\ mined[i].ok /\ mined[j].ok
    /\ ExecutionOf[mined[i].run] = ExecutionOf[mined[j].run]
    => i = j

\* A run hands over and reports success only for a nonce whose transaction
\* succeeded on chain (pipelineRunner.ts:231-241, 275-302).
SuccessWasMined ==
  \A r \in Runs : pc[r] \in {"settling", "finalized"} => IsMined(r) /\ Slot(r).ok

\* What the guard says of an execution is backed by a run of that execution:
\* a transaction the node took when it refuses a second run, a run that
\* finalized when it says so (pipelineRunner.ts:220-224, 293).
GuardIsBacked ==
  \A e \in ExecutionIds :
    /\ guard[e].tx # Nil => ExecutionOf[guard[e].tx] = e
    /\ InFlight(e) => guard[e].tx \in accepted
    /\ guard[e].status = "FINALIZED" => pc[guard[e].tx] = "finalized"

\* "Never cache": no run sends with a nonce ahead of the chain's, where it would
\* wait for a transaction that may have been dropped (nonceManager.ts:14-23).
NoNonceGap == \A t \in mempool : t.nonce <= Len(mined)

\* Layer 5 is handed an execution again only if two of its runs overlapped: for
\* runs one after the other, with whatever failures, the guard is enough
\* (idempotencyGuard.ts:26-36).
OverlapSettlesTwice ==
  \A e \in ExecutionIds : processed[e] > 1 => e \in overlaps

\* An open breaker stays open, and no run that starts then goes past it, also
\* when a run admitted earlier still succeeds (circuitBreaker.ts:19-42).
BreakerLatches ==
  [][breaker.open => /\ breaker.open'
                     /\ \A r \in Runs : pc[r] = "idle" => pc'[r] \in {"idle", "failed"}]_runnerVars

\* A run that passed the guard ends: retries are bounded and every wait has a
\* limit, also when the chain stands still (networkSubmitter.ts:59-74).
RunsEnd == \A r \in Runs : pc[r] \in Suspended ~> pc[r] \in Ended

-----------------------------------------------------------------------------
(* What the repository says and the code does not do.                      *)

\* "blocks duplicate in-flight execution" (orchestrator.test.ts:31): no two runs
\* of an execution have a transaction under way.
NoDuplicateInFlight ==
  \A r, s \in Runs :
    /\ r # s
    /\ ExecutionOf[r] = ExecutionOf[s]
    => ~(pc[r] = "confirming" /\ pc[s] = "confirming")

\* A finalized execution was paid (anvil.e2e.test.ts: status FINALIZED, then the
\* recipient's balance is the obligation's value).
FinalizedWasPaid ==
  \A r \in Runs : pc[r] = "finalized" => ~Unpaid(ExecutionOf[r])

\* Runs that overlap, retry and time out pay an execution once on chain, report
\* success for what was mined only, and leave guard and nonces true to the chain.
RunnerSafe ==
  /\ RunnerTypeOK
  /\ PaidOnChainOnce
  /\ SuccessWasMined
  /\ GuardIsBacked
  /\ NoNonceGap
=============================================================================
