--------------------------- MODULE UtilityBilling ---------------------------
(***************************************************************************)
(* Layer 5 on chain: utility_billing::redeem_billing and                   *)
(* redemption_orchestrator::redeem_atomic with the objects they share: the *)
(* redemption registry, the jurisdiction policy and the grid settlement    *)
(* ledger.  The module extends the layer 3 ledger, whose steps it          *)
(* interleaves with its own.                                               *)
(*                                                                         *)
(* A call uses objects its sender owns, so the consumer of a redemption is *)
(* the holder of the batch, the coins and the billing capability.  A       *)
(* GridOperatorCap anybody may create, and so a registry or a ledger of    *)
(* his own; usedIds and ledger are the deployment's, and a redemption      *)
(* against other objects leaves them alone.                                *)
(***************************************************************************)
EXTENDS EnergyToken

CONSTANTS
  RedemptionIds,      \* redemption_id arguments
  BillingOperators,   \* addresses that own a BillingOperatorCap
  BorderPairs,        \* jurisdiction pairs an administrator may allow
  PeriodEnds,         \* billing_period_end arguments
  DirectRecords,      \* [kwh, burned] a caller of record_settlement may pass
  PeriodTol           \* BILLING_PERIOD_TOLERANCE_MS, 48 hours in the code

ASSUME BillingAssumption ==
  /\ BillingOperators \subseteq Addrs
  /\ BorderPairs \subseteq Nat \X Nat
  /\ PeriodEnds \subseteq Nat
  /\ DirectRecords \subseteq [kwh : Nat, burned : Nat]
  /\ PeriodTol \in Nat

VARIABLES
  usedIds,        \* RedemptionRegistry.used_ids
  allowedPairs,   \* JurisdictionPolicy.allowed_pairs
  ledger,         \* GridSettlementLedger
  redemptions,    \* RedemptionEvents emitted; history, never read by the code
  claimed,        \* ids registered with no redemption; history
  recorded        \* sums of what was recorded with no redemption; history

billingVars == <<usedIds, allowedPairs, ledger, redemptions, claimed, recorded>>
allVars == <<vars, billingVars>>

\* registered: in the deployment's registry; settled: in its ledger.
RedemptionEvents ==
  [rid : RedemptionIds, batch : Nat \ {0}, kwh : Nat,
   registered : BOOLEAN, settled : BOOLEAN]

LedgerTotals == [redeemedKwh : 0 .. MaxU64, burnedTokens : 0 .. MaxU64]

BillingTypeOK ==
  /\ usedIds \subseteq RedemptionIds
  /\ allowedPairs \subseteq BorderPairs
  /\ ledger \in LedgerTotals
  /\ redemptions \subseteq RedemptionEvents
  /\ claimed \subseteq RedemptionIds
  /\ recorded \in LedgerTotals

BillingInit ==
  /\ Init
  /\ usedIds = {}
  /\ allowedPairs = {}
  /\ ledger = [redeemedKwh |-> 0, burnedTokens |-> 0]
  /\ redemptions = {}
  /\ claimed = {}
  /\ recorded = [redeemedKwh |-> 0, burnedTokens |-> 0]

AllowCrossBorder(pair) ==
  /\ allowedPairs' = allowedPairs \cup {pair}
  /\ UNCHANGED <<vars, usedIds, ledger, redemptions, claimed, recorded>>

JurisdictionAllowed(producer, consumer) ==
  /\ kyc[producer] # NoKyc
  /\ kyc[consumer] # NoKyc
  /\ LET from == kyc[producer].jurisdiction
         to == kyc[consumer].jurisdiction
     IN from = to \/ <<from, to>> \in allowedPairs

BillingPeriodOk(end) ==
  IF now >= end THEN now - end <= PeriodTol ELSE end - now <= PeriodTol

RegisterAnyId(rid) == usedIds' = usedIds \cup {rid}

RegisterRedemptionId(rid) ==
  /\ rid \notin usedIds
  /\ usedIds' = usedIds \cup {rid}

\* register_redemption_id is public and the registry shared: anybody may take an
\* id that no redemption then uses.
RegisterDirectly(rid) ==
  /\ RegisterRedemptionId(rid)
  /\ claimed' = claimed \cup {rid}
  /\ UNCHANGED <<vars, allowedPairs, ledger, redemptions, recorded>>

\* redeem_billing: every check, then the registry, the batch flag and the
\* burn, in one transaction.  The coin may be larger than the claim; the
\* remainder stays with the consumer.  The treasury may be paused.
RedeemCredit(b, kwh, rid, registered, end, override) ==
  LET consumer == batches[b].holder
      credit == batches[b]
  IN
  /\ consumer \in BillingOperators
  /\ Cleared(consumer)
  /\ credit.reading.kwh = kwh
  /\ meter[credit.reading.meter].stage = "certified"
  /\ JurisdictionAllowed(credit.producer, consumer)
  /\ BillingPeriodOk(end) \/ override
  /\ IF registered THEN RegisterRedemptionId(rid) ELSE UNCHANGED usedIds
  /\ Retire(b, "burned")
  /\ BurnCoins(consumer, kwh * Scale)
  /\ UNCHANGED <<now, paused, meter, kyc, outside, allowedPairs, claimed, recorded>>

Redemption(b, kwh, rid, registered, settled) ==
  [rid |-> rid, batch |-> b, kwh |-> kwh, registered |-> registered, settled |-> settled]

\* Also redeem_atomic with a ledger of the caller's own.
RedeemBilling(b, kwh, rid, registered, end, override) ==
  /\ RedeemCredit(b, kwh, rid, registered, end, override)
  /\ redemptions' = redemptions \cup {Redemption(b, kwh, rid, registered, FALSE)}
  /\ UNCHANGED ledger

Plus(totals, kwh, burned) ==
  [redeemedKwh |-> totals.redeemedKwh + kwh,
   burnedTokens |-> totals.burnedTokens + burned]

SettleUnscaled(kwh, burned) ==
  /\ FitsU64(ledger.redeemedKwh + kwh)
  /\ ledger' = Plus(ledger, kwh, kwh)

\* record_settlement
RecordSettlement(kwh, burned) ==
  /\ FitsU64(ledger.redeemedKwh + kwh)
  /\ FitsU64(ledger.burnedTokens + burned)
  /\ ledger' = Plus(ledger, kwh, burned)

RedeemAtomic(b, kwh, rid, registered, end, override) ==
  /\ RedeemCredit(b, kwh, rid, registered, end, override)
  /\ RecordSettlement(kwh, kwh * Scale)
  /\ redemptions' = redemptions \cup {Redemption(b, kwh, rid, registered, TRUE)}

\* record_settlement is public too, on the shared ledger, and takes its two
\* amounts as its caller gives them.
RecordDirectly(kwh, burned) ==
  /\ RecordSettlement(kwh, burned)
  /\ recorded' = Plus(recorded, kwh, burned)
  /\ UNCHANGED <<vars, usedIds, allowedPairs, redemptions, claimed>>

Redeem ==
  \E b \in Batches, rid \in RedemptionIds, registered \in BOOLEAN,
     end \in PeriodEnds, override \in BOOLEAN, r \in Readings :
    \/ RedeemBilling(b, r.kwh, rid, registered, end, override)
    \/ RedeemAtomic(b, r.kwh, rid, registered, end, override)

BillingStep ==
  \/ \E pair \in BorderPairs : AllowCrossBorder(pair)
  \/ \E rid \in RedemptionIds : RegisterDirectly(rid)
  \/ \E d \in DirectRecords : RecordDirectly(d.kwh, d.burned)
  \/ Redeem

BillingNext ==
  \/ Next /\ UNCHANGED billingVars
  \/ BillingStep

BillingSpec == BillingInit /\ [][BillingNext]_allVars

-----------------------------------------------------------------------------
(* Properties                                                              *)

Registered == {e \in redemptions : e.registered}
Settled == {e \in redemptions : e.settled}

\* One redemption in the deployment's registry has one id and one batch, and
\* whatever registry it names no batch is redeemed twice: the registry holds the
\* ids of its redemptions and those taken with none, never one for both, and
\* each redemption's batch is gone together with its tokens.
OneRedemptionPerBatch ==
  /\ usedIds = {e.rid : e \in Registered} \cup claimed
  /\ \A e \in Registered : e.rid \notin claimed
  /\ \A e, f \in Registered : e.rid = f.rid => e = f
  /\ \A e, f \in redemptions : e.batch = f.batch => e = f
  /\ \A e \in redemptions :
       /\ e.batch \in Batches
       /\ batches[e.batch].state = "burned"
       /\ KwhOf(e.batch) = e.kwh

\* The grid ledger counts each redemption settled in it once, in kWh and in
\* tokens, beside what callers recorded themselves, and the tokens of those
\* redemptions are missing from the supply.
LedgerMatchesBurns ==
  LET kwh == SumFunctionOnSet([e \in Settled |-> e.kwh], Settled) IN
  /\ ledger = Plus(recorded, kwh, kwh * Scale)
  /\ MeteredSupply + kwh * Scale <= SumFunctionOnSet(BatchTokens, Batches)

\* Pausing stops minting but not redemption: while the treasury is paused the
\* supply, but for what passes through the borrowed cap, never grows, and what
\* shrinks it is one redemption of as much, under an id of the deployment's
\* registry that was free or in another registry.
PausedSupplyOnlyRedeemed ==
  [][paused =>
       \/ MeteredSupply' = MeteredSupply
       \/ \E e \in redemptions' \ redemptions :
            /\ MeteredSupply' + e.kwh * Scale = MeteredSupply
            /\ e.registered => e.rid \in usedIds' \ usedIds
    ]_allVars

\* The composition of both layers keeps the promise of EnergyCertificates.
BillingKeepsCertificates == Certificates!CertSpec

\* A certificate is redeemed once, and under one id of the deployment's registry,
\* whatever was split, transferred or exported and whatever ids were taken before
\* (utility_billing.move, redeem_billing; redemption_registry.move).
BillingSafe == BillingTypeOK /\ OneRedemptionPerBatch

\* What the grid ledger was given by redemptions is what they burned, and
\* redemption neither makes nor loses energy.
RedemptionAddsUp == EnergyConserved /\ LedgerMatchesBurns

\* Also with redemption, a certificate is issued and retired once, and a pause
\* leaves redemption as the only way out of the metered supply.
RedemptionSteps == PausedSupplyOnlyRedeemed /\ BillingKeepsCertificates
=============================================================================
