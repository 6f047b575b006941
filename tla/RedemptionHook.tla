---------------------------- MODULE RedemptionHook ----------------------------
(***************************************************************************)
(* The full pipeline's last step: after layer 4 finalised an execution, a  *)
(* redemption is planned and submitted on Sui.                             *)
(*                                                                         *)
(* Each run of the pipeline has an orchestrator of its own, so nothing is  *)
(* remembered between runs; all published runs name the one batch of the   *)
(* deployment, and say of it that it is not redeemed and as large as the   *)
(* claim.  The chain knows better, but it is asked only after the credit   *)
(* note was posted.  The redemption's id is cut from the execution's; the  *)
(* chain compares its bytes, the operator's system the text.               *)
(*                                                                         *)
(* Clients of the settlement API redeem the same batch, with the signer of *)
(* its process, under any id and without layer 4.                          *)
(*                                                                         *)
(* External: layer 4 (PipelineRunner), the operator's system, whose answer *)
(* the plan ignores, the chain, and those who redeem batches of their own. *)
(***************************************************************************)
EXTENDS Naturals, FiniteSets

CONSTANTS
  Runs,        \* runs of the pipeline
  Executions,
  ExecutionOf, \* of each run
  Kwh,         \* claims, batches and coins in credit checks, in kWh
  Scale        \* KWH_SCALE

ASSUME HookAssumption ==
  /\ ExecutionOf \in [Runs -> Executions]
  /\ Kwh \subseteq Nat /\ Scale \in Nat \ {0}

VARIABLES
  published, asks,  \* the deployment is published; an operator's system is asked
  progress,        \* where each run is
  settled,   \* runs whose execution layer 4 settled and finalised
  batch,     \* id that redeemed the deployment's batch, or NoId
  usedIds,   \* ids the chain has seen, as bytes
  posted,    \* credit notes posted for each id, as text
  planned,   \* ids whose redemption clients of the API had planned
  acked,     \* runs that recorded acknowledgement and burn
  digest,    \* what each run reports: none, stub or a digest
  credit     \* last credit check: input and outcome

hookVars == <<published, asks, progress, settled, batch, usedIds, posted, planned, acked, digest, credit>>

-----------------------------------------------------------------------------
(* Ids.                                                                    *)

\* Half of an execution's id, its hexadecimal digits without the prefix.
IdOf(e) == [form |-> "hex", of |-> e]

\* Other texts clients may give: prefixed or in capitals.
RedemptionIds == [form : {"hex", "0x hex", "HEX"}, of : Executions]
NoId == "no id"

\* redemptionIdBytes: what is hexadecimal is read as such, in any writing.
redemptionIdBytes(i) == i.of

-----------------------------------------------------------------------------
(* Credit.                                                                 *)

validateCredit(input) ==
  /\ ~input.redeemed
  /\ input.coin >= input.claim * Scale
  /\ input.batch = input.claim

MaxCreditKwh(input) ==
  IF input.coin \div Scale < input.batch THEN input.coin \div Scale ELSE input.batch

CreditOf(input) ==
  [input |-> input, ok |-> validateCredit(input),
   max |-> IF validateCredit(input) THEN MaxCreditKwh(input) ELSE 0]

\* The hook's own words: a coin and a batch of exactly the claim.
HookCredit(kwh) ==
  [claim |-> kwh, coin |-> kwh * Scale, batch |-> kwh, redeemed |-> FALSE]

-----------------------------------------------------------------------------
(* The runs.                                                               *)

Places == {"layer 4", "credit", "posting", "dry run", "plan", "second dry run",
           "executing", "done", "threw"}

HookTypeOK ==
  /\ published \in BOOLEAN /\ asks \in BOOLEAN
  /\ progress \in [Runs -> Places]
  /\ settled \subseteq Runs
  /\ batch = NoId \/ batch \in usedIds
  /\ usedIds \subseteq Executions
  /\ posted \in [RedemptionIds -> Nat]
  /\ planned \subseteq RedemptionIds
  /\ acked \subseteq Runs
  /\ digest \in [Runs -> {"none", "stub", "digest"}]
  /\ \A r \in Runs : digest[r] # "none" => progress[r] = "done" /\ r \in acked
  /\ credit.ok \in BOOLEAN /\ credit.max \in Nat

HookInit ==
  /\ published \in BOOLEAN /\ asks \in BOOLEAN
  /\ progress = [r \in Runs |-> "layer 4"]
  /\ settled = {} /\ acked = {}
  /\ batch = NoId /\ usedIds = {}
  /\ posted = [i \in RedemptionIds |-> 0]
  /\ planned = {}
  /\ digest = [r \in Runs |-> "none"]
  /\ credit = CreditOf(HookCredit(0))

Go(r, place) == progress' = [progress EXCEPT ![r] = place]

\* The hook runs for every outcome.
Anyhow(final, isSettled) == isSettled

\* Only finalised outcomes, and of those only settled ones.
HookRuns(final, isSettled) == final /\ isSettled

\* runFullPipeline after layer 4 gave its outcome.
Outcome(r) ==
  /\ progress[r] = "layer 4"
  /\ \E final \in BOOLEAN, isSettled \in BOOLEAN :
       /\ settled' = IF final /\ isSettled THEN settled \cup {r} ELSE settled
       /\ Go(r, IF HookRuns(final, isSettled) THEN "credit" ELSE "done")
  /\ UNCHANGED <<published, asks, batch, usedIds, posted, planned, acked, digest, credit>>

\* planRedemption up to its first await.
PlanRedemption(r) ==
  /\ progress[r] = "credit"
  /\ \E kwh \in Kwh :
       /\ credit' = CreditOf(HookCredit(kwh))
       /\ Go(r, IF ~validateCredit(HookCredit(kwh)) THEN "threw"
                ELSE IF asks THEN "posting" ELSE "dry run")
  /\ UNCHANGED <<published, asks, settled, batch, usedIds, posted, planned, acked, digest>>

\* The note is taken, refused or lost: the plan goes on.
Posted(r) ==
  /\ progress[r] = "posting"
  /\ posted' = [posted EXCEPT ![IdOf(ExecutionOf[r])] = @ + 1]
  /\ Go(r, "dry run")
  /\ UNCHANGED <<published, asks, settled, batch, usedIds, planned, acked, digest, credit>>

\* The chain redeems an unredeemed batch under a fresh id.
Redeemable(i) == batch = NoId /\ redemptionIdBytes(i) \notin usedIds

\* Without a deployment the dry run is a stub, which always succeeds.
DryRunPasses(r) == published => Redeemable(IdOf(ExecutionOf[r]))

\* The plan's dry run is judged by the chain as it is then.
DryRun(r) ==
  /\ progress[r] = "dry run"
  /\ \/ DryRunPasses(r) /\ Go(r, "plan")
     \/ published /\ Go(r, "threw")
  /\ UNCHANGED <<published, asks, settled, batch, usedIds, posted, planned, acked, digest, credit>>

\* processL4Execution with its plan: acknowledgement and burn, in memory.
Acknowledge(r) ==
  /\ progress[r] = "plan"
  /\ acked' = acked \cup {r} /\ Go(r, "second dry run")
  /\ UNCHANGED <<published, asks, settled, batch, usedIds, posted, planned, digest, credit>>

UseStub == ~published

\* submit of the hook's own client.
SecondDryRun(r) ==
  /\ progress[r] = "second dry run"
  /\ \/ /\ DryRunPasses(r)
        /\ digest' = IF UseStub THEN [digest EXCEPT ![r] = "stub"] ELSE digest
        /\ Go(r, IF UseStub THEN "done" ELSE "executing")
     \/ published /\ Go(r, "threw") /\ UNCHANGED digest
  /\ UNCHANGED <<published, asks, settled, batch, usedIds, posted, planned, acked, credit>>

\* The chain redeems or aborts, both with a digest, or there is no answer.
ExecuteRedemption(r) ==
  LET i == IdOf(ExecutionOf[r])
  IN  /\ progress[r] = "executing"
      /\ \/ /\ Redeemable(i)
            /\ batch' = redemptionIdBytes(i) /\ usedIds' = usedIds \cup {redemptionIdBytes(i)}
            /\ \/ digest' = [digest EXCEPT ![r] = "digest"] /\ Go(r, "done")
               \/ Go(r, "threw") /\ UNCHANGED digest
         \/ /\ UNCHANGED <<batch, usedIds>>
            /\ \/ digest' = [digest EXCEPT ![r] = "digest"] /\ Go(r, "done")
               \/ Go(r, "threw") /\ UNCHANGED digest
      /\ UNCHANGED <<published, asks, settled, posted, planned, acked, credit>>

\* POST /v1/redemption/submit: planRedemption, with a note of its own, by an
\* orchestrator that posts no id a second time.
ClientPlans(i) ==
  /\ i \notin planned
  /\ planned' = planned \cup {i}
  /\ posted' = IF asks THEN [posted EXCEPT ![i] = @ + 1] ELSE posted
  /\ UNCHANGED <<published, asks, progress, settled, batch, usedIds, acked, digest, credit>>

\* Then submit, of the deployment's own batch.
ClientSubmits(i) ==
  /\ i \in planned
  /\ published /\ Redeemable(i)
  /\ batch' = redemptionIdBytes(i) /\ usedIds' = usedIds \cup {redemptionIdBytes(i)}
  /\ UNCHANGED <<published, asks, progress, settled, posted, planned, acked, digest, credit>>

\* A holder redeems a batch of its own under an id of its own.
ClientRedeems(i) ==
  /\ redemptionIdBytes(i) \notin usedIds
  /\ usedIds' = usedIds \cup {redemptionIdBytes(i)}
  /\ UNCHANGED <<published, asks, progress, settled, batch, posted, planned, acked, digest, credit>>

\* Coins of whole kilowatt hours, and of just less than one more.
CheckedCoins == {k * Scale + d : k \in Kwh, d \in {0, Scale - 1}}

\* Anyone may check a credit, which reads nothing of all this; bounded to when
\* every run has ended well and no client had a redemption planned.
CheckCredit ==
  /\ \A r \in Runs : progress[r] = "done"
  /\ planned = {}
  /\ \E claim, inBatch \in Kwh, coin \in CheckedCoins, redeemed \in BOOLEAN :
       credit' = CreditOf([claim |-> claim, coin |-> coin, batch |-> inBatch,
                           redeemed |-> redeemed])
  /\ UNCHANGED <<published, asks, progress, settled, batch, usedIds, posted, planned, acked, digest>>

HookNext ==
  \/ \E r \in Runs :
       \/ Outcome(r) \/ PlanRedemption(r) \/ Posted(r) \/ DryRun(r) \/ Acknowledge(r)
       \/ SecondDryRun(r) \/ ExecuteRedemption(r)
  \/ \E i \in RedemptionIds : ClientPlans(i) \/ ClientSubmits(i) \/ ClientRedeems(i)
  \/ CheckCredit

HookSpec == HookInit /\ [][HookNext]_hookVars

-----------------------------------------------------------------------------
(* Properties.                                                             *)

\* A burn is recorded only for a run that layer 4 settled and finalised.  The
\* deployment's batch is redeemed only under the id of a run with such a record, or
\* one that a client had planned; and where an operator's system is asked, it was
\* posted a note of those bytes before, whoever redeems and however the runs and
\* the clients race (runFullPipeline.ts:65, settlementOrchestrator.ts:110,
\* settlementBackendServer.ts:172-180).
BatchWasEarned ==
  /\ acked \subseteq settled
  /\ batch # NoId =>
       /\ \/ \E r \in acked : ExecutionOf[r] = batch
          \/ \E i \in planned : redemptionIdBytes(i) = batch
       /\ asks => \E i \in RedemptionIds : redemptionIdBytes(i) = batch /\ posted[i] > 0

\* A run that reports the stub's digest has left the chain alone, and so has
\* every other run: the two clients of a run, one for the plan and one for the
\* submission, agree on whether there is a chain (suiRedemptionHook.ts:43).
StubLeavesChain ==
  batch # NoId => published /\ \A r \in Runs : digest[r] # "stub"

\* A credit that is good is the claim itself, whatever the rounding of the
\* coin: neither more than the batch nor less than was claimed
\* (creditValidation.ts:43).
CreditIsTheClaim == credit.ok => credit.max = credit.input.claim

\* A run redeems only for a settlement that was confirmed, the batch is redeemed by
\* a run or for a client who planned it, a good credit is the claim, and a stub
\* leaves the chain alone.
HookSafe == HookTypeOK /\ BatchWasEarned /\ StubLeavesChain /\ CreditIsTheClaim
=============================================================================
