------------------------ MODULE MovePackagesProofs ------------------------
(***************************************************************************)
(* Theorems about the Move packages beside the ledger, for every value of  *)
(* their constants.  UtilityBilling: type correctness, one batch per       *)
(* redemption id, what may happen to the supply while the treasury is      *)
(* paused, the promise of EnergyCertificates for both layers together and  *)
(* the energy redeemed.  CarbonBridge implements EnergyToken, exports each *)
(* batch under one ticket, or by its holder's own call under none, and     *)
(* reuses a sequence number only under a stale event.  The lemmas of       *)
(* EnergyTokenProofs carry over because every step of either module is a   *)
(* step of the ledger, a step of its own, or both.                         *)
(* UsdcMarket: what a trade rests on, and who can turn the feed back.      *)
(* Oracle: how often and how late a reading counts, the quorums, and that  *)
(* the median's sort sorts whatever a batch holds.                         *)
(***************************************************************************)
EXTENDS UtilityBilling, CarbonBridge, UsdcMarket, Oracle, EnergyTokenProofs

-----------------------------------------------------------------------------
(* UtilityBilling.                                                         *)

\* What callers recorded themselves is part of what the grid ledger holds.
RecordedIsPart ==
  /\ recorded.redeemedKwh <= ledger.redeemedKwh
  /\ recorded.burnedTokens <= ledger.burnedTokens

\* The ledger's part and the redemptions' part of the inductive invariant.
LedgerInv == TypeOK /\ MintOrderInv /\ EnergyAddsUp
BillingInv == LedgerInv /\ BillingTypeOK /\ RecordedIsPart /\ OneRedemptionPerBatch

-----------------------------------------------------------------------------
(* What a redemption does.                                                 *)

\* A redemption burns one live batch, and takes an id the deployment's registry
\* does not hold if it names that registry.
LEMMA CreditRetires ==
  ASSUME LedgerInv, NEW b \in Batches, NEW kwh, NEW rid \in RedemptionIds,
         NEW reg \in BOOLEAN, NEW end, NEW override,
         RedeemCredit(b, kwh, rid, reg, end, override)
  PROVE  /\ kwh = KwhOf(b) /\ kwh \in Nat
         /\ reg => rid \notin usedIds /\ usedIds' = usedIds \cup {rid}
         /\ ~reg => usedIds' = usedIds
         /\ claimed' = claimed /\ recorded' = recorded /\ allowedPairs' = allowedPairs
         /\ batches[b].state = "live" /\ batches'[b].state = "burned"
         /\ Batches' = Batches
         /\ batches' \in Seq(BatchStates)
         /\ \A i \in Batches : /\ batches'[i].reading = batches[i].reading
                               /\ i # b => batches'[i] = batches[i]
<1>1. Retire(b, "burned") /\ batches \in Seq(BatchStates)
  BY DEF RedeemCredit, LedgerInv, TypeOK
<1>2. /\ batches[b].state = "live" /\ batches'[b].state = "burned"
      /\ Batches' = Batches
      /\ batches' \in Seq(BatchStates)
      /\ \A i \in Batches : /\ batches'[i].reading = batches[i].reading
                            /\ i # b => batches'[i] = batches[i]
  BY <1>1, RetireUpdate DEF Batches
<1>3. kwh = KwhOf(b) /\ kwh \in Nat
  <2>1. batches[b].reading \in Readings
    BY <1>1, BatchFields DEF Batches
  <2>2. QED
    BY <2>1, ReadingFields DEF RedeemCredit, KwhOf
<1>4. /\ reg => rid \notin usedIds /\ usedIds' = usedIds \cup {rid}
      /\ ~reg => usedIds' = usedIds
      /\ claimed' = claimed /\ recorded' = recorded /\ allowedPairs' = allowedPairs
  BY DEF RedeemCredit, RegisterRedemptionId
<1>5. QED
  BY <1>2, <1>3, <1>4

\* A redemption keeps the ledger's invariant and lowers the metered supply by
\* what the batch certifies: it redeems the batch's certificate.
LEMMA CreditKeepsLedger ==
  ASSUME LedgerInv, NEW b \in Batches, NEW kwh, NEW rid \in RedemptionIds,
         NEW reg \in BOOLEAN, NEW end, NEW override,
         RedeemCredit(b, kwh, rid, reg, end, override)
  PROVE  /\ LedgerInv'
         /\ kwh * Scale \in Nat
         /\ MeteredSupply' + kwh * Scale = MeteredSupply
         /\ Certificates!CertNext
<1>1. /\ kwh = KwhOf(b) /\ kwh \in Nat
      /\ Batches' = Batches
      /\ batches' \in Seq(BatchStates)
      /\ \A i \in Batches : batches'[i].reading = batches[i].reading
  BY CreditRetires
<1>2. /\ batches[b].holder \in Addrs
      /\ batches[b].reading \in Readings
      /\ kwh * Scale \in Nat
      /\ kwh * Scale = Amount(batches[b].reading)
  BY <1>1, BatchFields DEF LedgerInv, TypeOK, Batches, KwhOf, Amount
<1>3. /\ BurnCoins(batches[b].holder, Amount(batches[b].reading))
      /\ UNCHANGED <<now, paused, meter, kyc, outside>>
      /\ Retire(b, "burned")
  BY <1>2 DEF RedeemCredit
<1>4. coins' \in [Addrs -> Nat] /\ supply' \in 0 .. MaxU64
  BY <1>2, <1>3, BurnTypeOK DEF LedgerInv
<1>5. TypeOK'
  BY <1>1, <1>3, <1>4 DEF LedgerInv, TypeOK
<1>6. MintOrderInv'
  BY <1>1, <1>3, MintOrderFrame DEF LedgerInv
<1>7. EnergyAddsUp'
  BY <1>2, <1>3, BurnAddsUp DEF LedgerInv
<1>8. Certificates!Redeem(batches[b].reading)
  BY <1>3, RetireRedeems DEF LedgerInv, MintOrderInv
<1>9. MeteredSupply' + kwh * Scale = MeteredSupply
  <2>1. MeteredSupply' = MeteredSupply - kwh * Scale
    BY <1>2, <1>3, BurnIsMetered DEF LedgerInv
  <2>2. MeteredSupply \in Nat
    BY MeteredIsUnburned DEF LedgerInv
  <2>3. QED
    BY <1>2, <2>1, <2>2
<1>10. QED
  BY <1>2, <1>5, <1>6, <1>7, <1>8, <1>9 DEF LedgerInv, Certificates!CertNext

\* Every step is a step of the ledger that no redemption takes part in, a
\* new pair of the policy, a call of the registry or of the grid ledger by its
\* caller's own choice, or a redemption.
LEMMA BillingSteps ==
  ASSUME [BillingNext]_allVars
  PROVE  \/ [Next]_vars /\ UNCHANGED billingVars
         \/ \E pair \in BorderPairs : AllowCrossBorder(pair)
         \/ \E rid \in RedemptionIds : RegisterDirectly(rid)
         \/ \E d \in DirectRecords : RecordDirectly(d.kwh, d.burned)
         \/ \E b \in Batches, rid \in RedemptionIds, reg \in BOOLEAN,
               end \in PeriodEnds, override \in BOOLEAN, r \in Readings :
              \/ RedeemBilling(b, r.kwh, rid, reg, end, override)
              \/ RedeemAtomic(b, r.kwh, rid, reg, end, override)
BY DEF BillingNext, BillingStep, Redeem, allVars

-----------------------------------------------------------------------------
(* The invariant.                                                          *)

LEMMA BillingInitInv == BillingInit => BillingInv
<1> SUFFICES ASSUME BillingInit PROVE BillingInv
  OBVIOUS
<1>1. LedgerInv
  BY InitTypeOK, InitMintOrder, InitEnergy DEF BillingInit, LedgerInv
<1>2. BillingTypeOK /\ RecordedIsPart
  BY LedgerAssumption DEF BillingInit, BillingTypeOK, LedgerTotals, RecordedIsPart
<1>3. OneRedemptionPerBatch
  BY DEF BillingInit, OneRedemptionPerBatch, Registered
<1>4. QED
  BY <1>1, <1>2, <1>3 DEF BillingInv

\* A ledger step keeps the ledger's invariant.
LEMMA LedgerKeepsLedgerInv == LedgerInv /\ [Next]_vars => LedgerInv'
BY NextTypeOK, NextMintOrder, NextEnergy DEF LedgerInv

\* A ledger step leaves the redeemed batches burned and what they certify.
LEMMA LedgerStepInv ==
  ASSUME BillingInv, [Next]_vars, UNCHANGED billingVars
  PROVE  BillingInv'
<1>1. LedgerInv'
  BY LedgerKeepsLedgerInv DEF BillingInv
<1>2. BillingTypeOK' /\ RecordedIsPart'
  BY DEF BillingInv, BillingTypeOK, RecordedIsPart, billingVars
<1>3. \A b \in Batches :
        /\ b \in Batches'
        /\ batches'[b].reading = batches[b].reading
        /\ batches[b].state # "live" => batches'[b].state = batches[b].state
  BY StepRetiredOnce, BatchesStay DEF BillingInv, LedgerInv
<1>4. OneRedemptionPerBatch'
  BY <1>3 DEF BillingInv, OneRedemptionPerBatch, Registered, billingVars, KwhOf
<1>5. QED
  BY <1>1, <1>2, <1>4 DEF BillingInv

\* Steps that leave the ledger of layer 3 alone keep its invariant.
LEMMA LedgerInvFrame ==
  ASSUME LedgerInv, UNCHANGED vars
  PROVE  LedgerInv' /\ Batches' = Batches /\ batches' = batches /\ MeteredSupply' = MeteredSupply
<1>1. LedgerInv'
  BY LedgerKeepsLedgerInv
<1>2. QED
  BY <1>1 DEF vars, Batches, MeteredSupply

\* A redemption emits one event more, for a batch that had none, under an id
\* that had none if it is the deployment's registry that holds it.
LEMMA RedemptionInv ==
  ASSUME BillingInv, NEW b \in Batches, NEW kwh, NEW rid \in RedemptionIds,
         NEW reg \in BOOLEAN, NEW end, NEW override, NEW settled \in BOOLEAN,
         RedeemCredit(b, kwh, rid, reg, end, override),
         redemptions' = redemptions \cup {Redemption(b, kwh, rid, reg, settled)},
         ledger' \in LedgerTotals, RecordedIsPart'
  PROVE  /\ BillingInv'
         /\ Redemption(b, kwh, rid, reg, settled) \notin redemptions
<1> DEFINE event == Redemption(b, kwh, rid, reg, settled)
<1>1. /\ kwh = KwhOf(b) /\ kwh \in Nat
      /\ reg => rid \notin usedIds /\ usedIds' = usedIds \cup {rid}
      /\ ~reg => usedIds' = usedIds
      /\ claimed' = claimed /\ recorded' = recorded /\ allowedPairs' = allowedPairs
      /\ batches[b].state = "live" /\ batches'[b].state = "burned"
      /\ Batches' = Batches
      /\ \A i \in Batches : /\ batches'[i].reading = batches[i].reading
                            /\ i # b => batches'[i] = batches[i]
  BY CreditRetires DEF BillingInv
<1>2. LedgerInv'
  BY CreditKeepsLedger DEF BillingInv
<1>3. /\ event \in RedemptionEvents /\ event.rid = rid /\ event.batch = b /\ event.kwh = kwh
      /\ event.registered = reg
  <2>1. b \in Nat \ {0}
    BY LenProperties DEF BillingInv, LedgerInv, TypeOK, Batches
  <2>2. QED
    BY <2>1, <1>1 DEF RedemptionEvents, Redemption
<1> HIDE DEF event
<1>4. redemptions' = redemptions \cup {event}
  BY DEF event
<1>5. BillingTypeOK'
  <2>1. redemptions \cup {event} \subseteq RedemptionEvents
    BY <1>3 DEF BillingInv, BillingTypeOK
  <2>2. usedIds' \subseteq RedemptionIds
    BY <1>1 DEF BillingInv, BillingTypeOK
  <2>3. QED
    BY <2>1, <2>2, <1>1, <1>4 DEF BillingInv, BillingTypeOK
<1>6. \A e \in redemptions : e.batch # b
  BY <1>1 DEF BillingInv, OneRedemptionPerBatch
<1>7. /\ usedIds = {e.rid : e \in Registered} \cup claimed
      /\ \A e \in Registered : e.rid \notin claimed
      /\ \A e, f \in Registered : e.rid = f.rid => e = f
      /\ \A e, f \in redemptions : e.batch = f.batch => e = f
  BY DEF BillingInv, OneRedemptionPerBatch
<1>8. /\ usedIds' = {e.rid : e \in Registered'} \cup claimed'
      /\ \A e \in Registered' : e.rid \notin claimed'
      /\ \A e, f \in Registered' : e.rid = f.rid => e = f
  <2>1. CASE reg
    <3>1. Registered' = Registered \cup {event}
      BY <1>3, <1>4, <2>1 DEF Registered
    <3>2. rid \notin usedIds /\ usedIds' = usedIds \cup {rid} /\ claimed' = claimed
      BY <1>1, <2>1
    <3>3. {e.rid : e \in Registered'} = {e.rid : e \in Registered} \cup {rid}
      BY <1>3, <3>1
    <3>4. rid \notin claimed /\ \A e \in Registered : e.rid # rid
      BY <1>7, <3>2
    <3>5. QED
      BY <1>3, <1>7, <3>1, <3>2, <3>3, <3>4
  <2>2. CASE ~reg
    <3>1. Registered' = Registered
      BY <1>3, <1>4, <2>2 DEF Registered
    <3>2. QED
      BY <1>1, <1>7, <2>2, <3>1
  <2>3. QED
    BY <2>1, <2>2
<1>9. \A e, f \in redemptions' : e.batch = f.batch => e = f
  BY <1>3, <1>4, <1>6, <1>7
<1>10. \A e \in redemptions' :
        /\ e.batch \in Batches'
        /\ batches'[e.batch].state = "burned"
        /\ KwhOf(e.batch)' = e.kwh
  <2>1. \A e \in redemptions : e.batch \in Batches /\ batches[e.batch].state = "burned"
                               /\ KwhOf(e.batch) = e.kwh
    BY DEF BillingInv, OneRedemptionPerBatch
  <2>2. QED
    BY <1>1, <1>3, <1>4, <1>6, <2>1 DEF KwhOf
<1>11. event \notin redemptions
  BY <1>3, <1>6
<1>12. QED
  BY <1>2, <1>5, <1>8, <1>9, <1>10, <1>11 DEF BillingInv, OneRedemptionPerBatch, event

\* The sum of two records, part by part.
LEMMA PlusParts ==
  ASSUME NEW totals, NEW kwh, NEW burned
  PROVE  /\ Plus(totals, kwh, burned).redeemedKwh = totals.redeemedKwh + kwh
         /\ Plus(totals, kwh, burned).burnedTokens = totals.burnedTokens + burned
BY DEF Plus

\* A settlement keeps the ledger's counters within u64.
LEMMA SettlementFits ==
  ASSUME BillingTypeOK, NEW kwh \in Nat, NEW burned \in Nat, RecordSettlement(kwh, burned)
  PROVE  ledger' \in LedgerTotals /\ ledger' = Plus(ledger, kwh, burned)
<1>1. /\ ledger.redeemedKwh \in 0 .. MaxU64 /\ ledger.burnedTokens \in 0 .. MaxU64
      /\ MaxU64 \in Nat
  BY LedgerAssumption DEF BillingTypeOK, LedgerTotals
<1>2. ledger' = Plus(ledger, kwh, burned)
  BY DEF RecordSettlement
<1>3. ledger.redeemedKwh + kwh \in 0 .. MaxU64 /\ ledger.burnedTokens + burned \in 0 .. MaxU64
  BY <1>1 DEF RecordSettlement, FitsU64
<1>4. QED
  BY <1>2, <1>3 DEF LedgerTotals, Plus

\* What either kind of redemption leaves of what callers recorded.
LEMMA RedeemKeepsRecorded ==
  ASSUME BillingInv, NEW b \in Batches, NEW rid \in RedemptionIds, NEW reg \in BOOLEAN,
         NEW end, NEW override, NEW r \in Readings,
         \/ RedeemBilling(b, r.kwh, rid, reg, end, override)
         \/ RedeemAtomic(b, r.kwh, rid, reg, end, override)
  PROVE  ledger' \in LedgerTotals /\ RecordedIsPart'
<1>1. RedeemCredit(b, r.kwh, rid, reg, end, override)
  BY DEF RedeemBilling, RedeemAtomic
<1>2. recorded' = recorded
  BY <1>1, CreditRetires DEF BillingInv
<1>3. r.kwh \in Nat /\ r.kwh * Scale \in Nat
  <2>1. Amount(r) \in Nat /\ r.kwh \in Nat
    BY ReadingFields
  <2>2. QED
    BY <2>1 DEF Amount
<1>4. CASE ledger' = ledger
  BY <1>2, <1>4 DEF BillingInv, BillingTypeOK, RecordedIsPart
<1>5. CASE RecordSettlement(r.kwh, r.kwh * Scale)
  <2>1. ledger' \in LedgerTotals /\ ledger' = Plus(ledger, r.kwh, r.kwh * Scale)
    BY <1>3, <1>5, SettlementFits DEF BillingInv
  <2>2. /\ ledger'.redeemedKwh = ledger.redeemedKwh + r.kwh
        /\ ledger'.burnedTokens = ledger.burnedTokens + r.kwh * Scale
    BY <2>1, PlusParts
  <2>3. /\ ledger.redeemedKwh \in Nat /\ ledger.burnedTokens \in Nat
        /\ recorded.redeemedKwh \in Nat /\ recorded.burnedTokens \in Nat
    BY LedgerAssumption DEF BillingInv, BillingTypeOK, LedgerTotals
  <2>4. QED
    BY <1>2, <1>3, <2>1, <2>2, <2>3 DEF BillingInv, RecordedIsPart
<1>6. QED
  BY <1>4, <1>5 DEF RedeemBilling, RedeemAtomic

LEMMA BillingNextInv == BillingInv /\ [BillingNext]_allVars => BillingInv'
<1> SUFFICES ASSUME BillingInv, [BillingNext]_allVars PROVE BillingInv'
  OBVIOUS
<1>1. CASE [Next]_vars /\ UNCHANGED billingVars
  BY <1>1, LedgerStepInv
<1>2. ASSUME NEW pair \in BorderPairs, AllowCrossBorder(pair)
      PROVE  BillingInv'
  <2>1. LedgerInv' /\ Batches' = Batches /\ batches' = batches
    BY <1>2, LedgerInvFrame DEF AllowCrossBorder, BillingInv
  <2>2. QED
    BY <1>2, <2>1 DEF AllowCrossBorder, BillingInv, BillingTypeOK, RecordedIsPart,
         OneRedemptionPerBatch, Registered, KwhOf
<1>3. ASSUME NEW rid \in RedemptionIds, RegisterDirectly(rid)
      PROVE  BillingInv'
  <2>1. LedgerInv' /\ Batches' = Batches /\ batches' = batches
    BY <1>3, LedgerInvFrame DEF RegisterDirectly, BillingInv
  <2>2. /\ rid \notin usedIds /\ usedIds' = usedIds \cup {rid} /\ claimed' = claimed \cup {rid}
        /\ UNCHANGED <<allowedPairs, ledger, redemptions, recorded>>
    BY <1>3 DEF RegisterDirectly, RegisterRedemptionId
  <2>3. BillingTypeOK' /\ RecordedIsPart'
    BY <2>2 DEF BillingInv, BillingTypeOK, RecordedIsPart
  <2>4. Registered' = Registered
    BY <2>2 DEF Registered
  <2>5. \A e \in Registered : e.rid # rid
    BY <2>2 DEF BillingInv, OneRedemptionPerBatch
  <2>6. OneRedemptionPerBatch'
    BY <2>1, <2>2, <2>4, <2>5 DEF BillingInv, OneRedemptionPerBatch, KwhOf
  <2>7. QED
    BY <2>1, <2>3, <2>6 DEF BillingInv
<1>4. ASSUME NEW d \in DirectRecords, RecordDirectly(d.kwh, d.burned)
      PROVE  BillingInv'
  <2>1. LedgerInv' /\ Batches' = Batches /\ batches' = batches
    BY <1>4, LedgerInvFrame DEF RecordDirectly, BillingInv
  <2>2. d.kwh \in Nat /\ d.burned \in Nat
    BY BillingAssumption
  <2>3. /\ RecordSettlement(d.kwh, d.burned) /\ recorded' = Plus(recorded, d.kwh, d.burned)
        /\ UNCHANGED <<usedIds, allowedPairs, redemptions, claimed>>
    BY <1>4 DEF RecordDirectly
  <2>4. ledger' \in LedgerTotals /\ ledger' = Plus(ledger, d.kwh, d.burned)
    BY <2>2, <2>3, SettlementFits DEF BillingInv
  <2>5. /\ ledger.redeemedKwh \in Nat /\ ledger.burnedTokens \in Nat
        /\ recorded.redeemedKwh \in Nat /\ recorded.burnedTokens \in Nat
        /\ MaxU64 \in Nat
        /\ ledger'.redeemedKwh \in 0 .. MaxU64 /\ ledger'.burnedTokens \in 0 .. MaxU64
    BY <2>4, LedgerAssumption DEF BillingInv, BillingTypeOK, LedgerTotals
  <2>6. /\ recorded'.redeemedKwh = recorded.redeemedKwh + d.kwh
        /\ recorded'.burnedTokens = recorded.burnedTokens + d.burned
        /\ ledger'.redeemedKwh = ledger.redeemedKwh + d.kwh
        /\ ledger'.burnedTokens = ledger.burnedTokens + d.burned
    BY <2>3, <2>4, PlusParts
  <2>7. RecordedIsPart'
    BY <2>2, <2>5, <2>6 DEF BillingInv, RecordedIsPart
  <2>8. recorded' \in LedgerTotals
    <3>1. recorded'.redeemedKwh \in 0 .. MaxU64 /\ recorded'.burnedTokens \in 0 .. MaxU64
      BY <2>2, <2>5, <2>6, <2>7 DEF RecordedIsPart
    <3>2. QED
      BY <2>3, <2>6, <3>1 DEF LedgerTotals, Plus
  <2>9. BillingTypeOK'
    BY <2>3, <2>4, <2>8 DEF BillingInv, BillingTypeOK
  <2>10. OneRedemptionPerBatch'
    BY <2>1, <2>3 DEF BillingInv, OneRedemptionPerBatch, Registered, KwhOf
  <2>11. QED
    BY <2>1, <2>7, <2>9, <2>10 DEF BillingInv
<1>5. ASSUME NEW b \in Batches, NEW rid \in RedemptionIds, NEW reg \in BOOLEAN,
             NEW end \in PeriodEnds, NEW override \in BOOLEAN, NEW r \in Readings,
             \/ RedeemBilling(b, r.kwh, rid, reg, end, override)
             \/ RedeemAtomic(b, r.kwh, rid, reg, end, override)
      PROVE  BillingInv'
  <2>1. ledger' \in LedgerTotals /\ RecordedIsPart'
    BY <1>5, RedeemKeepsRecorded
  <2>2. PICK settled \in BOOLEAN :
          redemptions' = redemptions \cup {Redemption(b, r.kwh, rid, reg, settled)}
    BY <1>5 DEF RedeemBilling, RedeemAtomic
  <2>3. RedeemCredit(b, r.kwh, rid, reg, end, override)
    BY <1>5 DEF RedeemBilling, RedeemAtomic
  <2>4. QED
    BY <2>1, <2>2, <2>3, RedemptionInv
<1>6. QED
  BY <1>1, <1>2, <1>3, <1>4, <1>5, BillingSteps

LEMMA BillingInvariant == BillingSpec => []BillingInv
BY BillingInitInv, BillingNextInv, PTL DEF BillingSpec

-----------------------------------------------------------------------------
(* The theorems.                                                           *)

\* The registry, the policy, the grid ledger and the events keep their types:
\* no settlement takes the ledger's counters past a u64, neither one of a
\* redemption nor one its caller made up.
THEOREM BillingTypes == BillingSpec => []BillingTypeOK
BY BillingInvariant, PTL DEF BillingInv

\* However mints, transfers, marks, ids taken in advance and both kinds of
\* redemption interleave, an id of the deployment's registry stands for at most
\* one batch, no batch is redeemed twice under whatever registry, and the batch
\* of every redemption stays burned.
THEOREM RedemptionsAreUnique == BillingSpec => []OneRedemptionPerBatch
BY BillingInvariant, PTL DEF BillingInv

\* A paused treasury mints nothing, and what shrinks the metered supply is one
\* redemption of as much, under an id that was free in the registry it names.
THEOREM PauseLeavesRedemption == BillingSpec => PausedSupplyOnlyRedeemed
<1> DEFINE OnlyRedeemed ==
      paused =>
        \/ MeteredSupply' = MeteredSupply
        \/ \E e \in redemptions' \ redemptions :
             /\ MeteredSupply' + e.kwh * Scale = MeteredSupply
             /\ e.registered => e.rid \in usedIds' \ usedIds
<1>1. ASSUME BillingInv, [BillingNext]_allVars PROVE OnlyRedeemed
  <2>1. CASE [Next]_vars /\ UNCHANGED billingVars
    BY <1>1, <2>1, PausedStepKeepsSupply DEF BillingInv, LedgerInv
  <2>2. CASE UNCHANGED vars
    BY <1>1, <2>2, LedgerInvFrame DEF BillingInv
  <2>3. ASSUME NEW b \in Batches, NEW rid \in RedemptionIds, NEW reg \in BOOLEAN,
               NEW end \in PeriodEnds, NEW override \in BOOLEAN, NEW r \in Readings,
               \/ RedeemBilling(b, r.kwh, rid, reg, end, override)
               \/ RedeemAtomic(b, r.kwh, rid, reg, end, override)
        PROVE  OnlyRedeemed
    <3>1. RedeemCredit(b, r.kwh, rid, reg, end, override)
      BY <2>3 DEF RedeemBilling, RedeemAtomic
    <3>2. PICK settled \in BOOLEAN :
            redemptions' = redemptions \cup {Redemption(b, r.kwh, rid, reg, settled)}
      BY <2>3 DEF RedeemBilling, RedeemAtomic
    <3>3. ledger' \in LedgerTotals /\ RecordedIsPart'
      BY <1>1, <2>3, RedeemKeepsRecorded
    <3> DEFINE event == Redemption(b, r.kwh, rid, reg, settled)
    <3>4. event \in redemptions' \ redemptions
      BY <1>1, <3>1, <3>2, <3>3, RedemptionInv
    <3>5. event.kwh = r.kwh /\ event.rid = rid /\ event.registered = reg
      BY DEF Redemption
    <3>6. MeteredSupply' + r.kwh * Scale = MeteredSupply
      BY <1>1, <3>1, CreditKeepsLedger DEF BillingInv
    <3>7. reg => rid \in usedIds' \ usedIds
      BY <1>1, <3>1, CreditRetires DEF BillingInv
    <3> HIDE DEF event
    <3>8. QED
      BY <3>4, <3>5, <3>6, <3>7
  <2>4. QED
    BY <1>1, <2>1, <2>2, <2>3, BillingSteps DEF AllowCrossBorder, RegisterDirectly, RecordDirectly
<1>2. QED
  BY <1>1, BillingInvariant, PTL DEF BillingSpec, PausedSupplyOnlyRedeemed

\* Both layers together keep the promise of EnergyCertificates, also where ids are
\* taken, the grid ledger is written and the cap is used by their callers' choice.
THEOREM BillingImplementsCertificates == BillingSpec => BillingKeepsCertificates
<1>1. BillingInit => Certificates!CertInit
  BY DEF BillingInit, Init, MeteredSupply, Certificates!CertInit, ReadingsIn, Batches
<1>2. ASSUME BillingInv, [BillingNext]_allVars
      PROVE  [Certificates!CertNext]_(Certificates!certVars)
  <2>1. CASE [Next]_vars /\ UNCHANGED billingVars
    BY <2>1, <1>2, StepKeepsCertificates DEF BillingInv, LedgerInv
  <2>2. CASE UNCHANGED vars
    BY <1>2, <2>2, StepKeepsCertificates DEF BillingInv, LedgerInv
  <2>3. ASSUME NEW b \in Batches, NEW rid \in RedemptionIds, NEW reg \in BOOLEAN,
               NEW end \in PeriodEnds, NEW override \in BOOLEAN, NEW kwh,
               RedeemCredit(b, kwh, rid, reg, end, override)
        PROVE  Certificates!CertNext
    BY <1>2, <2>3, CreditKeepsLedger DEF BillingInv
  <2>4. QED
    BY <1>2, <2>1, <2>2, <2>3, BillingSteps
       DEF AllowCrossBorder, RegisterDirectly, RecordDirectly, RedeemBilling, RedeemAtomic
<1>3. QED
  BY <1>1, <1>2, BillingInvariant, PTL
     DEF BillingSpec, BillingKeepsCertificates, Certificates!CertSpec

\* Types and one redemption per batch, together.
THEOREM RedemptionsAreSafe == BillingSpec => []BillingSafe
<1>1. BillingTypeOK /\ OneRedemptionPerBatch => BillingSafe
  BY DEF BillingSafe
<1>2. QED
  BY <1>1, BillingTypes, RedemptionsAreUnique, PTL

\* What redemption may do to the certificates and to the paused supply.
THEOREM RedemptionStepsHold == BillingSpec => RedemptionSteps
BY PauseLeavesRedemption, BillingImplementsCertificates DEF RedemptionSteps
-----------------------------------------------------------------------------
(* Redemption neither makes nor loses energy.                              *)

\* The events are finitely many, and the grid ledger agrees with them, with what
\* callers recorded and with the metered supply.
RedemptionSums == IsFiniteSet(redemptions) /\ LedgerMatchesBurns

KwhSum(events) == SumFunctionOnSet([e \in events |-> e.kwh], events)

\* One settled event more adds its kWh to the sum.
LEMMA KwhSumAdd ==
  ASSUME NEW S, IsFiniteSet(S), NEW e, e \notin S, \A x \in S \cup {e} : x.kwh \in Nat
  PROVE  KwhSum(S \cup {e}) = e.kwh + KwhSum(S) /\ KwhSum(S) \in Nat
<1> DEFINE f == [x \in S |-> x.kwh]
           g == [x \in S \cup {e} |-> x.kwh]
<1>1. SumFunctionOnSet(g, S) = SumFunctionOnSet(f, S)
  <2>1. \A x \in S : g[x] = f[x]
    OBVIOUS
  <2> HIDE DEF f, g
  <2>2. QED
    BY <2>1, SumSame
<1>2. SumFunctionOnSet(g, S \cup {e}) = g[e] + SumFunctionOnSet(g, S)
  <2>1. \A x \in S \cup {e} : g[x] \in Nat
    OBVIOUS
  <2> HIDE DEF g
  <2>2. QED
    BY <2>1, SumAdd
<1>3. SumFunctionOnSet(f, S) \in Nat
  <2>1. \A x \in S : f[x] \in Nat
    OBVIOUS
  <2> HIDE DEF f
  <2>2. QED
    BY <2>1, SumRemove
<1>4. QED
  BY <1>1, <1>2, <1>3 DEF KwhSum

LEMMA InitSums == BillingInit => RedemptionSums
<1> SUFFICES ASSUME BillingInit PROVE RedemptionSums
  OBVIOUS
<1>1. /\ redemptions = {} /\ ledger = [redeemedKwh |-> 0, burnedTokens |-> 0]
      /\ recorded = ledger /\ Init
  BY DEF BillingInit
<1>2. Settled = {} /\ Batches = {}
  BY <1>1 DEF Init, Batches, Settled
<1>3. /\ SumFunctionOnSet([e \in {} |-> e.kwh], {}) = 0
      /\ SumFunctionOnSet(BatchTokens, {}) = 0
  BY SumEmpty
<1>4. 0 * Scale = 0 /\ MeteredSupply = 0
  BY <1>1, LedgerAssumption DEF Init, MeteredSupply
<1>5. ledger = Plus(recorded, 0, 0)
  BY <1>1 DEF Plus
<1>6. LedgerMatchesBurns
  BY <1>2, <1>3, <1>4, <1>5 DEF LedgerMatchesBurns
<1>7. QED
  BY <1>1, <1>6, FS_EmptySet DEF RedemptionSums

MeteredOK == MeteredSupply \in Nat

LEMMA MeteredIsNatural == TypeOK /\ EnergyAddsUp => MeteredOK
BY MeteredIsUnburned DEF MeteredOK

LEMMA MeteredStaysNatural == TypeOK' /\ EnergyAddsUp' => MeteredSupply' \in Nat
<1>1. TypeOK' /\ EnergyAddsUp' => MeteredOK'
  BY MeteredIsNatural, PTL
<1>2. QED
  BY <1>1 DEF MeteredOK

\* The energy of all batches only grows, and by what is minted.
LEMMA BatchEnergyGrows ==
  ASSUME TypeOK, TypeOK', EnergyAddsUp, EnergyAddsUp', [Next]_vars
  PROVE  /\ SumFunctionOnSet(BatchTokens, Batches) \in Nat
         /\ SumFunctionOnSet(BatchTokens', Batches') \in Nat
         /\ MeteredSupply' + SumFunctionOnSet(BatchTokens, Batches)
              <= MeteredSupply + SumFunctionOnSet(BatchTokens', Batches')
<1> DEFINE Goal == MeteredSupply' + SumFunctionOnSet(BatchTokens, Batches)
                     <= MeteredSupply + SumFunctionOnSet(BatchTokens', Batches')
<1>1. SumFunctionOnSet(BatchTokens, Batches) \in Nat /\ MeteredSupply \in Nat
  BY SumsAreDefined, SumRemove, MeteredIsUnburned
<1>2. ASSUME Batches' = Batches, MeteredSupply' <= MeteredSupply, MeteredSupply' \in Nat,
             \A b \in Batches : batches'[b].reading = batches[b].reading
      PROVE  Goal /\ SumFunctionOnSet(BatchTokens', Batches') \in Nat
  BY <1>1, <1>2, BatchSumsStay
<1>3. MeteredSupply' \in Nat
  BY MeteredStaysNatural
<1>4. CASE AdvanceEpoch \/ AdminNext \/ UNCHANGED vars
  <2>1. batches' = batches /\ MeteredSupply' = MeteredSupply
    BY <1>4 DEF MeteredSupply, AdvanceEpoch, AdminNext, RegisterDevice, CertifyDevice, UpsertKycRecord,
         RemoveKycRecord, PauseMinting, UnpauseMinting, vars
  <2>2. QED
    BY <1>1, <1>2, <2>1 DEF Batches
<1>5. CASE TokenNext
  <2>1. ASSUME NEW a \in Addrs, NEW r \in Readings, NEW s \in Sources, MintEnergy(a, r, s)
        PROVE  Goal /\ SumFunctionOnSet(BatchTokens', Batches') \in Nat
    <3> DEFINE n == Len(batches) + 1
    <3>1. /\ n \notin Batches /\ Batches' = Batches \cup {n} /\ Batches \subseteq Batches'
          /\ \A i \in Batches : batches'[i] = batches[i]
          /\ batches'[n].reading = r
      <4>1. /\ Len(batches) \in Nat
            /\ Batches = 1 .. Len(batches) /\ Batches' = 1 .. n
            /\ \A i \in Batches : batches'[i] = batches[i]
            /\ batches'[n].reading = r
        BY <2>1, MintUpdate DEF Batches
      <4>2. QED
        BY <4>1
    <3>2. SumFunctionOnSet(BatchTokens', Batches) = SumFunctionOnSet(BatchTokens, Batches)
      BY <3>1, BatchSumsStay
    <3>3. BatchTokens'[n] = Amount(r) /\ Amount(r) \in Nat
      BY <3>1, ReadingFields DEF BatchTokens
    <3>4. \A b \in Batches \cup {n} : BatchTokens'[b] \in Nat
      <4>1. \A b \in Batches : BatchTokens'[b] = BatchTokens[b] /\ BatchTokens[b] \in Nat
        BY <3>1, SumsAreDefined DEF BatchTokens
      <4>2. QED
        BY <3>3, <4>1
    <3>5. IsFiniteSet(Batches)
      BY SumsAreDefined
    <3> HIDE DEF n
    <3>6. SumFunctionOnSet(BatchTokens', Batches \cup {n})
            = BatchTokens'[n] + SumFunctionOnSet(BatchTokens', Batches)
      BY <3>1, <3>4, <3>5, SumAdd
    <3>7. MeteredSupply' = MeteredSupply + Amount(r)
      BY <2>1, MintIsMetered
    <3>8. QED
      BY <1>1, <3>1, <3>2, <3>3, <3>6, <3>7
  <2>2. ASSUME NEW a \in Addrs, NEW c \in Addrs, NEW n \in 1 .. coins[a], TransferEnergy(a, c, n)
        PROVE  Goal /\ SumFunctionOnSet(BatchTokens', Batches') \in Nat
    BY <1>1, <1>2, <2>2 DEF MeteredSupply, TransferEnergy, Batches
  <2>3. QED
    BY <1>1, <1>5, <2>1, <2>2 DEF TokenNext
<1>6. CASE BatchNext
  <2>1. Batches' = Batches /\ \A b \in Batches : batches'[b].reading = batches[b].reading
    <3>1. ASSUME NEW b \in DOMAIN batches, NEW a \in Addrs, TransferBatch(b, a)
          PROVE  Batches' = Batches /\ \A i \in Batches : batches'[i].reading = batches[i].reading
      BY <3>1, TransferUpdate DEF TypeOK, Batches
    <3>2. ASSUME NEW b \in DOMAIN batches,
                 NEW how \in {"burned", "marked", "bridged"}, Retire(b, how)
          PROVE  Batches' = Batches /\ \A i \in Batches : batches'[i].reading = batches[i].reading
      BY <3>2, RetireUpdate DEF TypeOK, Batches
    <3>3. QED
      BY <1>6, <3>1, <3>2 DEF BatchNext, HolderNext, BridgeNext, MarkRedeemed,
           ConsumeBatchForBridge, BurnOnRedemption
  <2>2. MeteredSupply' <= MeteredSupply
    <3>1. ASSUME NEW b \in DOMAIN batches, BurnOnRedemption(b)
          PROVE  MeteredSupply' <= MeteredSupply
      <4>1. Amount(batches[b].reading) \in Nat
        BY BatchFields DEF TypeOK
      <4>2. MeteredSupply' = MeteredSupply - Amount(batches[b].reading)
        BY <3>1, <4>1, BurnIsMetered DEF BurnOnRedemption
      <4>3. QED
        BY <1>1, <4>1, <4>2
    <3>2. QED
      BY <1>1, <1>6, <3>1 DEF MeteredSupply, BatchNext, HolderNext, BridgeNext, TransferBatch,
           MarkRedeemed, ConsumeBatchForBridge
  <2>3. QED
    BY <1>1, <1>2, <1>3, <2>1, <2>2
<1>7. CASE BorrowedNext
  <2>1. batches' = batches /\ MeteredSupply' = MeteredSupply
    BY <1>7, BorrowedFrame
  <2>2. QED
    BY <1>1, <1>2, <2>1 DEF Batches
<1>8. QED
  BY <1>1, <1>4, <1>5, <1>6, <1>7 DEF Next, LedgerNext, BatchNext

\* The figures the sums are about.
LEMMA SumsAreNatural ==
  ASSUME BillingInv, RedemptionSums
  PROVE  /\ Scale \in Nat
         /\ KwhSum(Settled) \in Nat /\ KwhSum(Settled) * Scale \in Nat
         /\ MeteredSupply \in Nat
         /\ SumFunctionOnSet(BatchTokens, Batches) \in Nat
         /\ ledger.redeemedKwh \in Nat /\ ledger.burnedTokens \in Nat
         /\ recorded.redeemedKwh \in Nat /\ recorded.burnedTokens \in Nat
         /\ ledger = Plus(recorded, KwhSum(Settled), KwhSum(Settled) * Scale)
         /\ MeteredSupply + KwhSum(Settled) * Scale <= SumFunctionOnSet(BatchTokens, Batches)
         /\ IsFiniteSet(Settled)
<1>1. IsFiniteSet(Settled)
  BY FS_Subset DEF RedemptionSums, Settled
<1>2. KwhSum(Settled) \in Nat
  <2> DEFINE f == [e \in Settled |-> e.kwh]
  <2>1. \A e \in Settled : f[e] \in Nat
    BY DEF Settled, BillingInv, BillingTypeOK, RedemptionEvents
  <2> HIDE DEF f
  <2>2. SumFunctionOnSet(f, Settled) \in Nat
    BY <1>1, <2>1, SumRemove
  <2>3. QED
    BY <2>2 DEF KwhSum, f
<1>3. Scale \in Nat /\ KwhSum(Settled) * Scale \in Nat
  BY <1>2, LedgerAssumption
<1>4. MeteredSupply \in Nat /\ SumFunctionOnSet(BatchTokens, Batches) \in Nat
  BY MeteredIsUnburned, SumsAreDefined, SumRemove DEF BillingInv, LedgerInv
<1>5. /\ ledger.redeemedKwh \in Nat /\ ledger.burnedTokens \in Nat
      /\ recorded.redeemedKwh \in Nat /\ recorded.burnedTokens \in Nat
  BY LedgerAssumption DEF BillingInv, BillingTypeOK, LedgerTotals
<1>6. /\ ledger = Plus(recorded, KwhSum(Settled), KwhSum(Settled) * Scale)
      /\ MeteredSupply + KwhSum(Settled) * Scale <= SumFunctionOnSet(BatchTokens, Batches)
  BY DEF RedemptionSums, LedgerMatchesBurns, KwhSum
<1>7. QED
  BY <1>1, <1>2, <1>3, <1>4, <1>5, <1>6

\* A step of the ledger keeps the sums: the grid ledger stands still.
LEMMA LedgerStepSums ==
  ASSUME BillingInv, RedemptionSums, [Next]_vars, UNCHANGED billingVars
  PROVE  RedemptionSums'
<1>1. TypeOK /\ TypeOK' /\ EnergyAddsUp /\ EnergyAddsUp'
  BY LedgerKeepsLedgerInv DEF BillingInv, LedgerInv
<1>2. redemptions' = redemptions /\ ledger' = ledger /\ recorded' = recorded /\ Settled' = Settled
  BY DEF billingVars, Settled
<1>3. /\ SumFunctionOnSet(BatchTokens, Batches) \in Nat
      /\ SumFunctionOnSet(BatchTokens', Batches') \in Nat
      /\ MeteredSupply' + SumFunctionOnSet(BatchTokens, Batches)
           <= MeteredSupply + SumFunctionOnSet(BatchTokens', Batches')
  BY <1>1, BatchEnergyGrows
<1>4. MeteredSupply' \in Nat
  BY <1>1, MeteredStaysNatural
<1>5. MeteredSupply' + KwhSum(Settled) * Scale <= SumFunctionOnSet(BatchTokens', Batches')
  BY <1>3, <1>4, SumsAreNatural
<1>6. QED
  BY <1>2, <1>5 DEF RedemptionSums, LedgerMatchesBurns, KwhSum

\* A redemption takes what the batch certifies from the metered supply, none of it
\* from the batches' sum.
LEMMA CreditSums ==
  ASSUME BillingInv, NEW b \in Batches, NEW kwh, NEW rid \in RedemptionIds,
         NEW reg \in BOOLEAN, NEW end, NEW override,
         RedeemCredit(b, kwh, rid, reg, end, override)
  PROVE  /\ MeteredSupply' + kwh * Scale = MeteredSupply
         /\ kwh \in Nat /\ kwh * Scale \in Nat
         /\ SumFunctionOnSet(BatchTokens', Batches') = SumFunctionOnSet(BatchTokens, Batches)
         /\ recorded' = recorded
<1>1. /\ kwh \in Nat
      /\ Batches' = Batches /\ recorded' = recorded
      /\ \A i \in Batches : batches'[i].reading = batches[i].reading
  BY CreditRetires DEF BillingInv
<1>2. kwh * Scale \in Nat /\ MeteredSupply' + kwh * Scale = MeteredSupply
  BY CreditKeepsLedger DEF BillingInv
<1>3. SumFunctionOnSet(BatchTokens', Batches) = SumFunctionOnSet(BatchTokens, Batches)
  BY <1>1, BatchSumsStay DEF BillingInv, LedgerInv
<1>4. QED
  BY <1>1, <1>2, <1>3

\* Two sums in either order.
LEMMA SumsInOrder ==
  ASSUME NEW a \in Nat, NEW k \in Nat, NEW l \in Nat
  PROVE  (a + k) + l = (a + l) + k /\ (a + k) + l = a + (l + k)
OBVIOUS

\* What a redemption takes from the supply stays within what was there.
LEMMA TakenFromSum ==
  ASSUME NEW m \in Nat, NEW n \in Nat, NEW k \in Nat, NEW s \in Nat, NEW t \in Nat,
         m + k = n, n + s <= t
  PROVE  m + s <= t /\ m + (k + s) <= t
OBVIOUS

LEMMA ScaledSum ==
  ASSUME NEW k \in Nat, NEW l \in Nat, NEW s \in Nat
  PROVE  (k + l) * s = k * s + l * s
OBVIOUS

LEMMA NextSums ==
  ASSUME BillingInv, RedemptionSums, [BillingNext]_allVars
  PROVE  RedemptionSums'
<1> DEFINE total == SumFunctionOnSet(BatchTokens, Batches)
           settledKwh == KwhSum(Settled)
<1>0. /\ Scale \in Nat /\ settledKwh \in Nat /\ settledKwh * Scale \in Nat
      /\ MeteredSupply \in Nat /\ total \in Nat
      /\ recorded.redeemedKwh \in Nat /\ recorded.burnedTokens \in Nat
      /\ ledger = Plus(recorded, settledKwh, settledKwh * Scale)
      /\ MeteredSupply + settledKwh * Scale <= total
      /\ IsFiniteSet(redemptions) /\ IsFiniteSet(Settled)
      /\ BillingInv'
  BY SumsAreNatural, BillingNextInv DEF RedemptionSums
<1>8. MeteredSupply' \in Nat
  BY <1>0, MeteredStaysNatural DEF BillingInv, LedgerInv
<1>1. CASE [Next]_vars /\ UNCHANGED billingVars
  BY <1>1, LedgerStepSums
<1>2. ASSUME UNCHANGED vars, redemptions' = redemptions,
             ledger' = Plus(recorded', settledKwh, settledKwh * Scale)
      PROVE  RedemptionSums'
  <2>1. MeteredSupply' = MeteredSupply /\ Settled' = Settled
    BY <1>2, LedgerInvFrame DEF BillingInv, Settled
  <2>2. SumFunctionOnSet(BatchTokens', Batches') = total
    BY <1>2 DEF vars, BatchTokens, Batches
  <2>3. QED
    BY <1>0, <1>2, <2>1, <2>2 DEF RedemptionSums, LedgerMatchesBurns, KwhSum
<1>3. ASSUME NEW d \in DirectRecords, RecordDirectly(d.kwh, d.burned)
      PROVE  RedemptionSums'
  <2>1. d.kwh \in Nat /\ d.burned \in Nat
    BY BillingAssumption
  <2>2. /\ ledger' = Plus(ledger, d.kwh, d.burned) /\ recorded' = Plus(recorded, d.kwh, d.burned)
        /\ UNCHANGED vars /\ redemptions' = redemptions
    BY <1>3 DEF RecordDirectly, RecordSettlement
  <2> DEFINE tokens == settledKwh * Scale
  <2>3. /\ settledKwh \in Nat /\ tokens \in Nat
        /\ recorded.redeemedKwh \in Nat /\ recorded.burnedTokens \in Nat
    BY <1>0
  <2> HIDE DEF settledKwh, tokens
  <2>6. Plus(Plus(recorded, settledKwh, tokens), d.kwh, d.burned)
          = Plus(Plus(recorded, d.kwh, d.burned), settledKwh, tokens)
    <3>1. /\ (recorded.redeemedKwh + settledKwh) + d.kwh
               = (recorded.redeemedKwh + d.kwh) + settledKwh
          /\ (recorded.burnedTokens + tokens) + d.burned
               = (recorded.burnedTokens + d.burned) + tokens
      BY ONLY <2>1, <2>3, SumsInOrder
    <3>2. QED
      BY ONLY <3>1 DEF Plus
  <2>4. ledger' = Plus(recorded', settledKwh, settledKwh * Scale)
    BY <1>0, <2>2, <2>6 DEF tokens
  <2>5. QED
    BY <1>2, <2>2, <2>4
<1>4. ASSUME NEW b \in Batches, NEW rid \in RedemptionIds, NEW reg \in BOOLEAN,
             NEW end \in PeriodEnds, NEW override \in BOOLEAN, NEW r \in Readings,
             RedeemBilling(b, r.kwh, rid, reg, end, override)
      PROVE  RedemptionSums'
  <2> DEFINE event == Redemption(b, r.kwh, rid, reg, FALSE)
  <2>1. /\ MeteredSupply' + r.kwh * Scale = MeteredSupply /\ r.kwh * Scale \in Nat
        /\ SumFunctionOnSet(BatchTokens', Batches') = total
        /\ recorded' = recorded
    BY <1>4, CreditSums DEF RedeemBilling
  <2>2. redemptions' = redemptions \cup {event} /\ ledger' = ledger
    BY <1>4 DEF RedeemBilling
  <2>3. IsFiniteSet(redemptions')
    BY <1>0, <2>2, FS_AddElement
  <2>4. Settled' = Settled
    BY <2>2 DEF Settled, Redemption
  <2>5. MeteredSupply' + settledKwh * Scale <= total
    <3> HIDE DEF total, settledKwh
    <3>1. /\ MeteredSupply' \in Nat /\ MeteredSupply \in Nat /\ r.kwh * Scale \in Nat
          /\ settledKwh * Scale \in Nat /\ total \in Nat
          /\ MeteredSupply' + r.kwh * Scale = MeteredSupply
          /\ MeteredSupply + settledKwh * Scale <= total
      BY ONLY <1>0, <2>1, <1>8
    <3>2. QED
      BY ONLY <3>1, TakenFromSum
  <2> HIDE DEF event
  <2>6. QED
    BY <1>0, <2>1, <2>2, <2>3, <2>4, <2>5 DEF RedemptionSums, LedgerMatchesBurns, KwhSum
<1>5. ASSUME NEW b \in Batches, NEW rid \in RedemptionIds, NEW reg \in BOOLEAN,
             NEW end \in PeriodEnds, NEW override \in BOOLEAN, NEW r \in Readings,
             RedeemAtomic(b, r.kwh, rid, reg, end, override)
      PROVE  RedemptionSums'
  <2> DEFINE event == Redemption(b, r.kwh, rid, reg, TRUE)
  <2>1. /\ MeteredSupply' + r.kwh * Scale = MeteredSupply
        /\ r.kwh \in Nat /\ r.kwh * Scale \in Nat
        /\ SumFunctionOnSet(BatchTokens', Batches') = total
        /\ recorded' = recorded
    BY <1>5, CreditSums DEF RedeemAtomic
  <2>2. /\ redemptions' = redemptions \cup {event}
        /\ ledger' = Plus(ledger, r.kwh, r.kwh * Scale)
    BY <1>5 DEF RedeemAtomic, RecordSettlement
  <2>3. IsFiniteSet(redemptions')
    BY <1>0, <2>2, FS_AddElement
  <2>4. Settled' = Settled \cup {event} /\ event.kwh = r.kwh
    BY <2>2 DEF Settled, Redemption
  <2>5. event \notin Settled
    <3>1. RedeemCredit(b, r.kwh, rid, reg, end, override)
      BY <1>5 DEF RedeemAtomic
    <3>2. ledger' \in LedgerTotals /\ RecordedIsPart'
      BY <1>5, RedeemKeepsRecorded
    <3>3. event \notin redemptions
      BY <2>2, <3>1, <3>2, RedemptionInv
    <3>4. QED
      BY <3>3 DEF Settled
  <2>6. \A e \in Settled \cup {event} : e.kwh \in Nat
    BY <2>1, <2>4 DEF Settled, BillingInv, BillingTypeOK, RedemptionEvents
  <2> HIDE DEF event
  <2>7. KwhSum(Settled') = r.kwh + settledKwh
    BY <1>0, <2>4, <2>5, <2>6, KwhSumAdd
  <2>8. KwhSum(Settled') * Scale = r.kwh * Scale + settledKwh * Scale
    BY <1>0, <2>1, <2>7, ScaledSum
  <2>9. ledger' = Plus(recorded', KwhSum(Settled'), KwhSum(Settled') * Scale)
    <3> DEFINE tokens == settledKwh * Scale
               burned == r.kwh * Scale
    <3>1. /\ settledKwh \in Nat /\ tokens \in Nat /\ r.kwh \in Nat /\ burned \in Nat
          /\ recorded.redeemedKwh \in Nat /\ recorded.burnedTokens \in Nat
      BY <1>0, <2>1
    <3>2. ledger' = Plus(Plus(recorded, settledKwh, tokens), r.kwh, burned)
      BY <1>0, <2>2
    <3>3. KwhSum(Settled') = r.kwh + settledKwh /\ KwhSum(Settled') * Scale = burned + tokens
      BY <2>7, <2>8
    <3> HIDE DEF settledKwh, tokens, burned
    <3>4. /\ (recorded.redeemedKwh + settledKwh) + r.kwh
               = recorded.redeemedKwh + (r.kwh + settledKwh)
          /\ (recorded.burnedTokens + tokens) + burned
               = recorded.burnedTokens + (burned + tokens)
      BY ONLY <3>1, SumsInOrder
    <3>5. ledger' = Plus(recorded, r.kwh + settledKwh, burned + tokens)
      BY ONLY <3>2, <3>4 DEF Plus
    <3>6. QED
      BY ONLY <3>3, <3>5, <2>1
  <2>10. MeteredSupply' + KwhSum(Settled') * Scale <= total
    <3> HIDE DEF total, settledKwh
    <3>1. /\ MeteredSupply' \in Nat /\ MeteredSupply \in Nat /\ r.kwh * Scale \in Nat
          /\ settledKwh * Scale \in Nat /\ total \in Nat
          /\ MeteredSupply' + r.kwh * Scale = MeteredSupply
          /\ MeteredSupply + settledKwh * Scale <= total
      BY ONLY <1>0, <2>1, <1>8
    <3>2. MeteredSupply' + (r.kwh * Scale + settledKwh * Scale) <= total
      BY ONLY <3>1, TakenFromSum
    <3>3. QED
      BY ONLY <3>2, <2>8
  <2>11. QED
    BY <2>1, <2>3, <2>9, <2>10 DEF RedemptionSums, LedgerMatchesBurns, KwhSum
<1>6. ASSUME \/ \E pair \in BorderPairs : AllowCrossBorder(pair)
             \/ \E rid \in RedemptionIds : RegisterDirectly(rid)
      PROVE  RedemptionSums'
  <2>1. UNCHANGED vars /\ redemptions' = redemptions /\ ledger' = ledger /\ recorded' = recorded
    BY <1>6 DEF AllowCrossBorder, RegisterDirectly
  <2>2. QED
    BY <1>0, <1>2, <2>1
<1>7. QED
  BY <1>1, <1>3, <1>4, <1>5, <1>6, BillingSteps

\* What the grid ledger was given by redemptions is what they burned, beside what
\* callers recorded themselves, and redemption neither makes nor loses energy.
THEOREM RedemptionsAddUp == BillingSpec => []RedemptionAddsUp
<1>1. BillingInv /\ RedemptionSums => RedemptionAddsUp
  BY DEF BillingInv, LedgerInv, RedemptionSums, RedemptionAddsUp, EnergyAddsUp
<1>2. QED
  BY <1>1, InitSums, NextSums, BillingInvariant, PTL DEF BillingSpec

-----------------------------------------------------------------------------
(* CarbonBridge.                                                           *)

\* A step of the bridge's own is a step of the ledger or leaves it alone.
LEMMA CarbonStepIsLedgerStep == [CarbonNext]_bridgeAllVars => [Next]_vars
<1> SUFFICES ASSUME [CarbonNext]_bridgeAllVars PROVE [Next]_vars
  OBVIOUS
<1>1. CASE LedgerNext
  BY <1>1 DEF Next
<1>2. ASSUME NEW chain \in Chains, WhitelistChain(chain)
      PROVE  UNCHANGED vars
  BY <1>2 DEF WhitelistChain
<1>3. CASE Export
  BY <1>3 DEF Export, BridgeRec, BridgeRecCore, LeaveLedger, Next, BridgeNext
<1>4. CASE UNCHANGED bridgeAllVars
  BY <1>4 DEF bridgeAllVars
<1>5. CASE DirectNext
  BY <1>5 DEF DirectNext, ConsumeDirectly, BridgeElsewhere, PublishRecMessage, LeaveLedger,
       Next, BridgeNext
<1>6. QED
  BY <1>1, <1>2, <1>3, <1>4, <1>5 DEF CarbonNext

\* With the bridge the ledger behaves as EnergyToken describes.
THEOREM CarbonImplementsToken == CarbonSpec => CarbonRefinesToken
<1>1. BridgeInit => Init
  BY DEF BridgeInit
<1>2. QED
  BY <1>1, CarbonStepIsLedgerStep, PTL DEF CarbonSpec, CarbonRefinesToken, Spec

-----------------------------------------------------------------------------
(* Sequence numbers.                                                       *)

\* What SequenceReuseIsReported needs of the types.
SequenceTypes ==
  /\ lastVaa \in Nat
  /\ nonce \in [Wormholes -> Nat]
  /\ emitterSeq \in [Emitters -> Nat]
  /\ \A t \in tickets : t.sequence \in Nat

IndInv == SequenceTypes /\ SequenceInv

LEMMA InitIndInv == BridgeInit => IndInv
BY DEF BridgeInit, IndInv, SequenceTypes, SequenceInv, RecordedSequenceLeads,
       SequenceReuseIsReported

\* One more ticket keeps the invariant if its number is not ahead of the new
\* record, and is the new record unless a stale event came with it.
LEMMA AddTicket ==
  ASSUME IndInv, NEW b, NEW chain, NEW sequence \in Nat, NEW incoming \in Nat,
         IssueTicket(b, chain, sequence, incoming),
         RecordVaaSequence(incoming),
         incoming > lastVaa => sequence = incoming,
         sequence <= lastVaa'
  PROVE  /\ lastVaa' \in Nat
         /\ lastVaa <= lastVaa'
         /\ incoming <= lastVaa'
         /\ \A t \in tickets' : t.sequence \in Nat /\ t.sequence <= lastVaa'
         /\ SequenceReuseIsReported'
<1> DEFINE new == [batch |-> b, chain |-> chain, sequence |-> sequence,
                   stale |-> Stale(incoming)]
<1>1. tickets' = tickets \cup {new}
  BY DEF IssueTicket
<1>2. lastVaa \in Nat /\ \A t \in tickets : t.sequence \in Nat /\ t.sequence <= lastVaa
  BY DEF IndInv, SequenceTypes, SequenceInv, RecordedSequenceLeads
<1>3. lastVaa' \in Nat /\ lastVaa <= lastVaa' /\ incoming <= lastVaa'
  BY <1>2 DEF RecordVaaSequence, Stale
<1>4. new.sequence = sequence /\ new.stale = Stale(incoming)
  OBVIOUS
<1>5. ~new.stale => new.sequence > lastVaa
  <2>1. ~Stale(incoming) => sequence > lastVaa
    BY <1>2 DEF Stale
  <2>2. QED
    BY <1>4, <2>1, Zenon
<1> HIDE DEF new
<1>6. \A t \in tickets' : t.sequence \in Nat /\ t.sequence <= lastVaa'
  BY <1>1, <1>2, <1>3, <1>4
<1>7. \A t \in tickets : ~new.stale => t.sequence # new.sequence
  BY <1>2, <1>4, <1>5
<1>8. SequenceReuseIsReported'
  <2>1. SUFFICES ASSUME NEW t \in tickets', NEW u \in tickets',
                        t.sequence = u.sequence, ~t.stale, ~u.stale
                 PROVE  t = u
    BY DEF SequenceReuseIsReported
  <2>2. CASE t \in tickets /\ u \in tickets
    BY <2>1, <2>2 DEF IndInv, SequenceInv, SequenceReuseIsReported
  <2>3. CASE t = new \/ u = new
    BY <2>1, <2>3, <1>1, <1>7
  <2>4. QED
    BY <1>1, <2>2, <2>3
<1>9. QED
  BY <1>3, <1>6, <1>8

\* The counters keep their types, whoever takes a number.
LEMMA CountersStayNatural ==
  ASSUME SequenceTypes, \/ \E w \in Wormholes : TakeNonce(w)
                        \/ \E e \in Emitters : TakeSequence(e)
  PROVE  nonce' \in [Wormholes -> Nat] /\ emitterSeq' \in [Emitters -> Nat]
BY DEF SequenceTypes, TakeNonce, TakeSequence

LEMMA NextIndInv == IndInv /\ [CarbonNext]_bridgeAllVars => IndInv'
<1> SUFFICES ASSUME IndInv, [CarbonNext]_bridgeAllVars PROVE IndInv'
  OBVIOUS
<1> USE DEF IndInv, SequenceTypes, SequenceInv, RecordedSequenceLeads
<1>1. ASSUME UNCHANGED <<lastVaa, tickets>>,
             nonce' \in [Wormholes -> Nat], emitterSeq' \in [Emitters -> Nat]
      PROVE  IndInv'
  BY <1>1 DEF SequenceReuseIsReported
<1>2. CASE UNCHANGED bridgeVars
  BY <1>1, <1>2 DEF bridgeVars
<1>3. ASSUME NEW chain \in Chains, WhitelistChain(chain) PROVE IndInv'
  BY <1>1, <1>3 DEF WhitelistChain
<1>4. ASSUME NEW b, NEW chain, NEW w \in Wormholes, BridgeRec(b, chain, w) PROVE IndInv'
  <2> DEFINE incoming == nonce[w] + 1
  <2>1. incoming \in Nat /\ RecordVaaSequence(incoming)
    BY <1>4 DEF BridgeRec
  <2>2. nonce' \in [Wormholes -> Nat] /\ emitterSeq' \in [Emitters -> Nat]
    BY <1>4, CountersStayNatural DEF BridgeRec
  <2>3. IssueTicket(b, chain, lastVaa', incoming)
    BY <1>4 DEF BridgeRec
  <2> HIDE DEF incoming
  <2>4. lastVaa' \in Nat /\ (incoming > lastVaa => lastVaa' = incoming)
    BY <2>1 DEF RecordVaaSequence, Stale
  <2>5. /\ \A t \in tickets' : t.sequence \in Nat /\ t.sequence <= lastVaa'
        /\ SequenceReuseIsReported'
    BY <2>1, <2>3, <2>4, AddTicket
  <2>6. QED
    BY <2>2, <2>4, <2>5
<1>5. ASSUME NEW b, NEW chain, NEW e \in Emitters, BridgeRecCore(b, chain, e)
      PROVE  IndInv'
  <2> DEFINE incoming == emitterSeq[e]
  <2>1. incoming \in Nat /\ RecordVaaSequence(incoming)
        /\ IssueTicket(b, chain, incoming, incoming)
    BY <1>5 DEF BridgeRecCore
  <2>2. nonce' \in [Wormholes -> Nat] /\ emitterSeq' \in [Emitters -> Nat]
    BY <1>5, CountersStayNatural DEF BridgeRecCore
  <2>3. incoming <= lastVaa'
    BY <2>1 DEF RecordVaaSequence, Stale
  <2> HIDE DEF incoming
  <2>4. /\ lastVaa' \in Nat
        /\ \A t \in tickets' : t.sequence \in Nat /\ t.sequence <= lastVaa'
        /\ SequenceReuseIsReported'
    BY <2>1, <2>3, AddTicket
  <2>5. QED
    BY <2>2, <2>4
<1>6. CASE DirectNext
  <2>1. UNCHANGED <<lastVaa, tickets>>
    BY <1>6 DEF DirectNext, ConsumeDirectly, BridgeElsewhere, PublishRecMessage
  <2>2. nonce' \in [Wormholes -> Nat] /\ emitterSeq' \in [Emitters -> Nat]
    BY <1>6, CountersStayNatural
       DEF DirectNext, ConsumeDirectly, BridgeElsewhere, PublishRecMessage
  <2>3. QED
    BY <1>1, <2>1, <2>2
<1>7. QED
  BY <1>1, <1>2, <1>3, <1>4, <1>5, <1>6 DEF CarbonNext, Export, bridgeAllVars, bridgeVars

\* Two tickets share a sequence number only if one of them was announced as
\* stale, whatever mix of calls and emitters issued them.
THEOREM SequencesIdentifyTickets == CarbonSpec => []SequenceReuseIsReported
<1>1. IndInv => SequenceReuseIsReported
  BY DEF IndInv, SequenceInv
<1>2. QED
  BY <1>1, InitIndInv, NextIndInv, PTL DEF CarbonSpec

\* No ticket is ahead of the sequence the whitelist has recorded, whatever mix of
\* calls, emitters and counters issued them.
THEOREM RecordLeads == CarbonSpec => []RecordedSequenceLeads
<1>1. IndInv => RecordedSequenceLeads
  BY DEF IndInv, SequenceInv
<1>2. QED
  BY <1>1, InitIndInv, NextIndInv, PTL DEF CarbonSpec

-----------------------------------------------------------------------------
(* Exports.                                                                *)

Bridged == {b \in Batches : batches[b].state = "bridged"}

ExportInv == TypeOK /\ BridgeTypeOK /\ OneTicketPerExport

LEMMA InitExportInv == BridgeInit => ExportInv
<1> SUFFICES ASSUME BridgeInit PROVE ExportInv
  OBVIOUS
<1>1. TypeOK
  BY InitTypeOK DEF BridgeInit
<1>2. BridgeTypeOK
  BY BridgeAssumption DEF BridgeInit, BridgeTypeOK
<1>3. OneTicketPerExport
  BY DEF BridgeInit, Init, OneTicketPerExport, Batches
<1>4. QED
  BY <1>1, <1>2, <1>3 DEF ExportInv

\* The calls of layer 3 neither touch a batch that has left nor let one leave.
LEMMA LedgerKeepsBridged ==
  ASSUME TypeOK, LedgerNext
  PROVE  Bridged' = Bridged
<1>1. CASE AdvanceEpoch \/ AdminNext
  BY <1>1 DEF AdvanceEpoch, AdminNext, RegisterDevice, CertifyDevice, UpsertKycRecord,
       RemoveKycRecord, PauseMinting, UnpauseMinting, Bridged, Batches
<1>2. CASE TokenNext
  <2>1. ASSUME NEW a \in Addrs, NEW r \in Readings, NEW s \in Sources, MintEnergy(a, r, s)
        PROVE  Bridged' = Bridged
    BY <2>1, MintUpdate DEF Bridged, Batches
  <2>2. ASSUME NEW a \in Addrs, NEW c \in Addrs, NEW n \in 1 .. coins[a], TransferEnergy(a, c, n)
        PROVE  Bridged' = Bridged
    BY <2>2 DEF TransferEnergy, Bridged, Batches
  <2>3. QED
    BY <1>2, <2>1, <2>2 DEF TokenNext
<1>3. CASE HolderNext
  <2>1. ASSUME NEW b \in DOMAIN batches, NEW a \in Addrs, TransferBatch(b, a)
        PROVE  Bridged' = Bridged
    BY <2>1, TransferUpdate DEF TypeOK, Bridged, Batches
  <2>2. ASSUME NEW b \in DOMAIN batches, NEW how \in {"burned", "marked"}, Retire(b, how)
        PROVE  Bridged' = Bridged
    BY <2>2, RetireUpdate DEF TypeOK, Bridged, Batches
  <2>3. QED
    BY <1>3, <2>1, <2>2 DEF HolderNext, MarkRedeemed, BurnOnRedemption
<1>4. CASE BorrowedNext
  BY <1>4, BorrowedFrame DEF Bridged, Batches
<1>5. QED
  BY <1>1, <1>2, <1>3, <1>4 DEF LedgerNext

\* A batch leaves that had not left.
LEMMA LeaveIsNew ==
  ASSUME TypeOK, NEW b \in DOMAIN batches, LeaveLedger(b)
  PROVE  Bridged' = Bridged \cup {b} /\ b \notin Bridged /\ b \in Nat \ {0}
<1>1. Retire(b, "bridged")
  BY DEF LeaveLedger, ConsumeBatchForBridge
<1>2. /\ batches[b].state = "live" /\ batches'[b].state = "bridged"
      /\ Batches' = Batches
      /\ \A i \in Batches : i # b => batches'[i] = batches[i]
  BY <1>1, RetireUpdate DEF TypeOK, Batches
<1>3. Bridged' = Bridged \cup {b} /\ b \notin Bridged
  BY <1>2 DEF Bridged, Batches
<1>4. b \in Nat \ {0}
  BY LenProperties DEF TypeOK
<1>5. QED
  BY <1>3, <1>4

\* It leaves with no ticket of the whitelist.
LEMMA LeaveKeepsInv ==
  ASSUME ExportInv, NEW b \in DOMAIN batches, LeaveLedger(b),
         consumed' = consumed \cup {b}, UNCHANGED tickets
  PROVE  OneTicketPerExport' /\ consumed' \subseteq Nat \ {0}
<1>1. Bridged' = Bridged \cup {b} /\ b \notin Bridged /\ b \in Nat \ {0}
  BY LeaveIsNew DEF ExportInv
<1>2. /\ {t.batch : t \in tickets} \cup consumed = Bridged
      /\ \A t \in tickets : t.batch \notin consumed
      /\ \A t, u \in tickets : t.batch = u.batch => t = u
  BY DEF ExportInv, OneTicketPerExport, Bridged
<1>3. {t.batch : t \in tickets'} \cup consumed' = Bridged'
  BY <1>1, <1>2
<1>4. \A t \in tickets' : t.batch \notin consumed'
  BY <1>1, <1>2
<1>5. QED
  BY <1>1, <1>2, <1>3, <1>4 DEF OneTicketPerExport, Bridged, ExportInv, BridgeTypeOK

\* One batch that had no ticket leaves and gets one.
LEMMA ExportKeepsInv ==
  ASSUME ExportInv, NEW b \in DOMAIN batches, NEW chain \in Chains,
         NEW sequence \in 0 .. MaxSequence, NEW incoming,
         LeaveLedger(b), IssueTicket(b, chain, sequence, incoming), UNCHANGED consumed
  PROVE  OneTicketPerExport' /\ tickets' \subseteq BridgeTickets
<1> DEFINE new == [batch |-> b, chain |-> chain, sequence |-> sequence,
                   stale |-> Stale(incoming)]
<1>1. tickets' = tickets \cup {new}
  BY DEF IssueTicket
<1>2. Bridged' = Bridged \cup {b} /\ b \notin Bridged /\ b \in Nat \ {0}
  BY LeaveIsNew DEF ExportInv
<1>3. new \in BridgeTickets
  <2>1. Stale(incoming) \in BOOLEAN
    BY DEF Stale
  <2>2. QED
    BY <1>2, <2>1 DEF BridgeTickets
<1>4. new.batch = b
  OBVIOUS
<1> HIDE DEF new
<1>5. /\ {t.batch : t \in tickets} \cup consumed = Bridged
      /\ \A t \in tickets : t.batch \notin consumed
      /\ \A t, u \in tickets : t.batch = u.batch => t = u
  BY DEF ExportInv, OneTicketPerExport, Bridged
<1>6. {t.batch : t \in tickets'} = {t.batch : t \in tickets} \cup {b}
  BY <1>1, <1>4
<1>7. b \notin consumed /\ \A t \in tickets : t.batch # b
  BY <1>2, <1>5
<1>8. \A t \in tickets' : t.batch \notin consumed'
  BY <1>1, <1>4, <1>5, <1>7
<1>9. \A t, u \in tickets' : t.batch = u.batch => t = u
  BY <1>1, <1>4, <1>5, <1>7
<1>10. {t.batch : t \in tickets'} \cup consumed' = Bridged'
  BY <1>2, <1>5, <1>6
<1>11. OneTicketPerExport'
  BY <1>8, <1>9, <1>10 DEF OneTicketPerExport, Bridged
<1>12. QED
  BY <1>1, <1>3, <1>11 DEF ExportInv, BridgeTypeOK

CountersOK ==
  nonce \in [Wormholes -> 0 .. MaxSequence] /\ emitterSeq \in [Emitters -> 0 .. MaxSequence]

\* The counters stay within the bound, whoever takes a number.
LEMMA CountersStayBounded ==
  ASSUME CountersOK, \/ \E w \in Wormholes : TakeNonce(w)
                     \/ \E e \in Emitters : TakeSequence(e)
  PROVE  CountersOK'
<1>1. MaxSequence \in Nat
  BY BridgeAssumption
<1>2. ASSUME NEW w \in Wormholes, TakeNonce(w) PROVE CountersOK'
  <2>1. nonce[w] + 1 \in 0 .. MaxSequence
    BY <1>1, <1>2 DEF CountersOK, TakeNonce
  <2>2. QED
    BY <1>2, <2>1 DEF CountersOK, TakeNonce
<1>3. ASSUME NEW e \in Emitters, TakeSequence(e) PROVE CountersOK'
  <2>1. emitterSeq[e] + 1 \in 0 .. MaxSequence
    BY <1>1, <1>3 DEF CountersOK, TakeSequence
  <2>2. QED
    BY <1>3, <2>1 DEF CountersOK, TakeSequence
<1>4. QED
  BY <1>2, <1>3

LEMMA NextExportInv == ExportInv /\ [CarbonNext]_bridgeAllVars => ExportInv'
<1> SUFFICES ASSUME ExportInv, [CarbonNext]_bridgeAllVars PROVE ExportInv'
  OBVIOUS
<1>0. TypeOK /\ CountersOK
  BY DEF ExportInv, BridgeTypeOK, CountersOK
<1>1. TypeOK'
  BY CarbonStepIsLedgerStep, NextTypeOK DEF ExportInv
<1>2. ASSUME UNCHANGED bridgeVars, Bridged' = Bridged PROVE ExportInv'
  BY <1>1, <1>2 DEF ExportInv, BridgeTypeOK, OneTicketPerExport, Bridged, bridgeVars
<1>3. CASE LedgerNext /\ UNCHANGED bridgeVars
  BY <1>2, <1>3, LedgerKeepsBridged DEF ExportInv
<1>4. CASE UNCHANGED bridgeAllVars
  BY <1>2, <1>4 DEF bridgeAllVars, vars, Bridged, Batches
<1>5. ASSUME NEW chain \in Chains, WhitelistChain(chain) PROVE ExportInv'
  BY <1>1, <1>5 DEF WhitelistChain, ExportInv, BridgeTypeOK, OneTicketPerExport, Batches, vars
<1>6. ASSUME NEW b \in DOMAIN batches, NEW chain \in Chains, NEW w \in Wormholes,
             BridgeRec(b, chain, w)
      PROVE  ExportInv'
  <2>1. lastVaa' \in 0 .. MaxSequence
    BY <1>0, <1>6, BridgeAssumption
       DEF BridgeRec, TakeNonce, RecordVaaSequence, Stale, ExportInv, BridgeTypeOK
  <2>2. CountersOK'
    BY <1>0, <1>6, CountersStayBounded DEF BridgeRec
  <2>3. OneTicketPerExport' /\ tickets' \subseteq BridgeTickets
    BY <1>6, <2>1, ExportKeepsInv DEF BridgeRec
  <2>4. QED
    BY <1>1, <1>6, <2>1, <2>2, <2>3 DEF BridgeRec, ExportInv, BridgeTypeOK, CountersOK
<1>7. ASSUME NEW b \in DOMAIN batches, NEW chain \in Chains, NEW e \in Emitters,
             BridgeRecCore(b, chain, e)
      PROVE  ExportInv'
  <2>1. emitterSeq[e] \in 0 .. MaxSequence /\ lastVaa' \in 0 .. MaxSequence
    BY <1>7, BridgeAssumption
       DEF BridgeRecCore, RecordVaaSequence, Stale, ExportInv, BridgeTypeOK
  <2>2. CountersOK'
    BY <1>0, <1>7, CountersStayBounded DEF BridgeRecCore
  <2>3. OneTicketPerExport' /\ tickets' \subseteq BridgeTickets
    BY <1>7, <2>1, ExportKeepsInv DEF BridgeRecCore
  <2>4. QED
    BY <1>1, <1>7, <2>1, <2>2, <2>3 DEF BridgeRecCore, ExportInv, BridgeTypeOK, CountersOK
<1>8. ASSUME NEW b \in DOMAIN batches, ConsumeDirectly(b) PROVE ExportInv'
  <2>1. OneTicketPerExport' /\ consumed' \subseteq Nat \ {0}
    BY <1>8, LeaveKeepsInv DEF ConsumeDirectly
  <2>2. QED
    BY <1>1, <1>8, <2>1 DEF ConsumeDirectly, ExportInv, BridgeTypeOK
<1>9. ASSUME NEW b \in DOMAIN batches, BridgeElsewhere(b) PROVE ExportInv'
  <2>1. OneTicketPerExport' /\ consumed' \subseteq Nat \ {0}
    BY <1>9, LeaveKeepsInv DEF BridgeElsewhere
  <2>2. CountersOK'
    BY <1>0, <1>9, CountersStayBounded DEF BridgeElsewhere
  <2>3. QED
    BY <1>1, <1>9, <2>1, <2>2 DEF BridgeElsewhere, ExportInv, BridgeTypeOK, CountersOK
<1>10. ASSUME NEW b \in DOMAIN batches, NEW e \in Emitters, PublishRecMessage(b, e)
       PROVE  ExportInv'
  <2>1. CountersOK'
    BY <1>0, <1>10, CountersStayBounded DEF PublishRecMessage
  <2>2. UNCHANGED <<chains, lastVaa, tickets, consumed>> /\ Bridged' = Bridged
        /\ Batches' = Batches /\ batches' = batches
    BY <1>10 DEF PublishRecMessage, vars, Bridged, Batches
  <2>3. QED
    BY <1>1, <2>1, <2>2 DEF ExportInv, BridgeTypeOK, OneTicketPerExport, CountersOK
<1>11. QED
  BY <1>3, <1>4, <1>5, <1>6, <1>7, <1>8, <1>9, <1>10 DEF CarbonNext, Export, DirectNext

\* The whitelist, the sequence numbers and the tickets keep their types.
THEOREM BridgeTypes == CarbonSpec => []BridgeTypeOK
BY InitExportInv, NextExportInv, PTL DEF CarbonSpec, ExportInv

\* No batch is exported twice, and those that leave the ledger without a ticket
\* left by their holder's own call or over another whitelist, however these, the
\* mints, the redemptions and both bridge calls interleave.
THEOREM ExportsAreTicketed == CarbonSpec => []OneTicketPerExport
BY InitExportInv, NextExportInv, PTL DEF CarbonSpec, ExportInv

\* Everything the run checks of the exports, for every bridge.
THEOREM ExportsAreSafe == CarbonSpec => []ExportsSafe
<1>1. BridgeTypeOK /\ OneTicketPerExport /\ RecordedSequenceLeads /\ SequenceReuseIsReported
        => ExportsSafe
  BY DEF ExportsSafe
<1>2. QED
  BY <1>1, BridgeTypes, ExportsAreTicketed, RecordLeads, SequencesIdentifyTickets, PTL

-----------------------------------------------------------------------------
(* UsdcMarket: what a settlement rests on.                                 *)

\* A feed a keeper wrote holds what its quote was normalised to; the one the
\* deployment seeded has no time.
FeedFollowsQuotes ==
  /\ origin = None => feed.publish = 0
  /\ origin \in Quotes => feed.price = PythToU128(origin.price, origin.expo)

\* An epoch is not longer than it may be.
EpochIsBounded == marketTime < epoch + EpochLength

\* Hermes is ahead of what keepers hold and of what they gave the feed; a keeper
\* nobody overtook holds nothing older than the feed, if a keeper wrote it.
QuotesAreOrdered ==
  /\ origin # Caller => feed.publish <= hermes.publish
  /\ \A k \in Keepers : held[k] # None =>
       /\ held[k].publish <= hermes.publish
       /\ (k \notin overtaken /\ origin # Caller) => feed.publish <= held[k].publish

\* StalenessIsBounded and ClearanceIsBounded are about the moment of the trade
\* and follow from the epoch's length there; RegressNeedsOvertaking from the
\* order of the publish times.
MarketInv ==
  /\ MarketTypeOK
  /\ FeedFollowsQuotes
  /\ EpochIsBounded
  /\ QuotesAreOrdered
  /\ StalenessIsBounded
  /\ ClearanceIsBounded
  /\ PaidWithinTolerance

\* A price divided by no power of ten is itself.
LEMMA NoExponent ==
  ASSUME NEW p \in Nat
  PROVE  PythToU128(p, 0) = p
<1>1. 10^0 = 1
  OBVIOUS
<1>2. p \div 1 = p
  OBVIOUS
<1>3. QED
  BY <1>1, <1>2 DEF PythToU128

LEMMA NormalisedPriceIsNatural ==
  ASSUME MarketAssumption, PowersAreNatural, NEW q \in Quotes
  PROVE  PythToU128(q.price, q.expo) \in Nat
<1>1. q.price \in Nat /\ q.expo \in Nat
  BY DEF MarketAssumption
<1>2. CASE q.expo <= 18
  <2>1. 10^q.expo \in Nat \ {0}
    BY <1>2 DEF PowersAreNatural
  <2>2. q.price \div 10^q.expo \in Nat
    BY <1>1, <2>1
  <2>3. QED
    BY <1>2, <2>2 DEF PythToU128
<1>3. CASE ~(q.expo <= 18)
  <2>1. 10^(q.expo - 18) \in Nat
    BY <1>3 DEF PowersAreNatural
  <2>2. q.price * 10^(q.expo - 18) \in Nat
    BY <1>1, <2>1
  <2>3. QED
    BY <1>3, <2>2 DEF PythToU128
<1>4. QED
  BY <1>2, <1>3

\* What a division by a constant leaves out.
LEMMA QuotientBounds ==
  ASSUME NEW x \in Nat
  PROVE  /\ x \div 10000 \in Nat
         /\ 10000 * (x \div 10000) <= x /\ x < 10000 * (x \div 10000) + 10000
OBVIOUS

LEMMA ProductsAreOrdered ==
  ASSUME NEW x \in Nat, NEW y \in Nat, NEW z \in Nat, x <= y
  PROVE  x * z <= y * z
<1>1. (y - x) * z \in Nat
  OBVIOUS
<1>2. (y - x) * z = y * z - x * z
  OBVIOUS
<1>3. x * z \in Nat /\ y * z \in Nat
  OBVIOUS
<1>4. QED
  BY <1>1, <1>2, <1>3

\* The value in units, and the same in 1/1000 of them.
Rounds(expected, exact) == 1000 * expected <= exact /\ exact < 1000 * expected + 1000

\* What assert_slippage asks of the payment.
Tolerated(paid, expected, b) ==
  /\ paid >= (expected * (10000 - b)) \div 10000
  /\ paid <= (expected * (10000 + b)) \div 10000

\* The tolerance on the rounded value, carried over to the exact one.
LEMMA ToleranceOfExactValue ==
  ASSUME NEW exact \in Nat, NEW expected \in Nat, Rounds(expected, exact),
         NEW b \in Nat, b <= 10000, NEW paid \in Nat,
         Tolerated(paid, expected, b)
  PROVE  WithinExact(paid, exact, b)
<1> USE DEF Rounds, Tolerated
<1> DEFINE low == expected * (10000 - b)
           high == expected * (10000 + b)
           part == exact * b
           rest == exact - 1000 * expected
<1>1. low \in Nat /\ high \in Nat /\ part \in Nat
  OBVIOUS
<1>2. 1000 * high <= 10000 * exact + part
  <2> DEFINE factor == 10000 + b
  <2>1. factor \in Nat /\ 1000 * expected \in Nat
    OBVIOUS
  <2>2. exact * factor = 10000 * exact + part
    OBVIOUS
  <2>3. (1000 * expected) * factor = 1000 * (expected * factor)
    OBVIOUS
  <2> HIDE DEF factor, low, high, part, rest
  <2>4. (1000 * expected) * factor <= exact * factor
    BY <2>1, ProductsAreOrdered
  <2>5. high = expected * factor
    BY DEF factor, high
  <2>6. expected * factor \in Nat /\ exact * factor \in Nat
    BY <2>1
  <2>7. QED
    BY <1>1, <2>2, <2>3, <2>4, <2>5, <2>6
<1>3. 10000 * exact - part <= 1000 * low + 999 * 10000
  <2> DEFINE factor == 10000 - b
  <2>1. factor \in 0 .. 10000 /\ rest \in 0 .. 999
    OBVIOUS
  <2>2. exact * factor = 10000 * exact - part
    OBVIOUS
  <2>3. low = expected * factor
    OBVIOUS
  <2> HIDE DEF factor, rest, low, high, part
  <2>4. rest * factor <= 999 * factor
    BY <2>1, ProductsAreOrdered
  <2>5. rest * factor = exact * factor - 1000 * (expected * factor)
    BY <2>1 DEF rest
  <2>6. /\ expected * factor \in Nat /\ exact * factor \in Nat
        /\ rest * factor \in Nat /\ 999 * factor <= 999 * 10000
    BY <2>1
  <2> DEFINE ofExact == exact * factor
             ofRest == rest * factor
             most == 999 * factor
  <2>7. /\ ofExact \in Nat /\ ofRest \in Nat /\ most <= 999 * 10000
        /\ ofExact = 10000 * exact - part /\ ofRest <= most
        /\ ofRest = ofExact - 1000 * low
    BY <2>2, <2>3, <2>4, <2>5, <2>6
  <2>8. most \in Nat
    BY <2>1
  <2> HIDE DEF ofExact, ofRest, most
  <2>9. QED
    BY <1>1, <2>7, <2>8
<1> HIDE DEF low, high, part
<1>4. low < 10000 * paid + 10000
  BY <1>1, QuotientBounds DEF low
<1>5. 10000 * paid <= high
  BY <1>1, QuotientBounds DEF high
<1>6. /\ part \div 10000 \in Nat
      /\ 10000 * (part \div 10000) <= part /\ part < 10000 * (part \div 10000) + 10000
  BY <1>1, QuotientBounds
<1>7. (paid + 2) * 1000 > exact - part \div 10000
  BY <1>1, <1>3, <1>4, <1>6
<1>8. paid * 1000 <= exact + part \div 10000
  BY <1>1, <1>2, <1>5, <1>6
<1>9. QED
  BY <1>7, <1>8 DEF part, WithinExact, BpsDenom

LEMMA InitMarket == MarketAssumption /\ MarketInit => MarketInv
<1> SUFFICES ASSUME MarketAssumption, MarketInit PROVE MarketInv
  OBVIOUS
<1>1. PICK q \in Quotes : feed = [price |-> q.price, publish |-> 0, confidence |-> 100]
  BY DEF MarketInit
<1>2. q.price \in Nat
  BY DEF MarketAssumption
<1>3. MarketTypeOK
  <2>1. hermes \in [quote : Quotes, publish : Start .. marketTime]
    BY DEF MarketInit, MarketAssumption
  <2>2. feed.price \in Nat /\ feed.publish \in Nat /\ feed.confidence \in 0 .. MaxPriceConfidenceBps
    BY <1>1, <1>2 DEF MaxPriceConfidenceBps
  <2>3. marketTime \in Start .. MaxTime /\ epoch \in Start .. marketTime
    BY DEF MarketInit, MarketAssumption
  <2>4. QED
    BY <2>1, <2>2, <2>3 DEF MarketInit, MarketTypeOK, MarketAssumption
<1>4. FeedFollowsQuotes /\ EpochIsBounded /\ QuotesAreOrdered
  BY <1>1, <1>3 DEF MarketInit, MarketAssumption, MarketTypeOK, FeedFollowsQuotes, EpochIsBounded,
                    QuotesAreOrdered
<1>5. StalenessIsBounded /\ ClearanceIsBounded /\ PaidWithinTolerance
  BY DEF MarketInit, StalenessIsBounded, ClearanceIsBounded, PaidWithinTolerance
<1>6. QED
  BY <1>3, <1>4, <1>5 DEF MarketInv

\* A step that settles nothing.
LEMMA NoTrade ==
  ASSUME trade' = None
  PROVE  StalenessIsBounded' /\ ClearanceIsBounded' /\ PaidWithinTolerance'
BY DEF StalenessIsBounded, ClearanceIsBounded, PaidWithinTolerance

\* The clock and the epochs.
LEMMA TimeKeepsMarketInv ==
  ASSUME MarketAssumption, MarketInv, Tick \/ NextEpoch
  PROVE  MarketInv'
<1>1. /\ marketTime \in Start .. MaxTime /\ epoch \in Start .. marketTime
      /\ {Start, MaxTime, EpochLength} \subseteq Nat /\ EpochLength > 0
      /\ marketTime < MaxTime
      /\ trade' = None
      /\ UNCHANGED <<hermes, held, feed, records, energy, usdc, origin, overtaken>>
  BY DEF MarketInv, MarketTypeOK, MarketAssumption, Tick, NextEpoch
<1>2. /\ marketTime' = marketTime + 1
      /\ epoch' \in Start .. marketTime'
      /\ EpochIsBounded'
  BY <1>1 DEF Tick, NextEpoch, EpochIsBounded
<1>3. Start .. marketTime \subseteq Start .. marketTime'
  BY <1>1, <1>2
<1>4. /\ hermes' \in [quote : Quotes, publish : Start .. marketTime']
      /\ held' \in [Keepers -> [quote : Quotes, publish : Start .. marketTime'] \cup {None}]
  <2>1. [quote : Quotes, publish : Start .. marketTime]
          \subseteq [quote : Quotes, publish : Start .. marketTime']
    BY <1>3
  <2>2. QED
    BY <1>1, <2>1 DEF MarketInv, MarketTypeOK
<1>5. MarketTypeOK'
  BY <1>1, <1>2, <1>4 DEF MarketInv, MarketTypeOK
<1>6. FeedFollowsQuotes' /\ QuotesAreOrdered'
  BY <1>1 DEF MarketInv, FeedFollowsQuotes, QuotesAreOrdered
<1>7. QED
  BY <1>1, <1>2, <1>5, <1>6, NoTrade DEF MarketInv

LEMMA PublishKeepsMarketInv ==
  ASSUME MarketAssumption, MarketInv, Publish
  PROVE  MarketInv'
<1>1. PICK q \in Quotes : hermes' = [quote |-> q, publish |-> marketTime]
  BY DEF Publish
<1>2. trade' = None /\ UNCHANGED <<marketTime, epoch, held, feed, records, energy, usdc, origin, overtaken>>
  BY DEF Publish
<1>3. /\ marketTime \in Start .. marketTime /\ Start \in Nat
      /\ hermes.publish \in Start .. marketTime
      /\ hermes'.publish = marketTime
  BY <1>1 DEF MarketInv, MarketTypeOK, MarketAssumption
<1>4. MarketTypeOK'
  BY <1>1, <1>2, <1>3 DEF MarketInv, MarketTypeOK
<1>5. QuotesAreOrdered'
  <2>1. hermes.publish <= hermes'.publish
    BY <1>3
  <2>2. \A k \in Keepers : held[k] # None => held[k].publish \in Start .. marketTime
    BY DEF MarketInv, MarketTypeOK
  <2>3. feed.publish \in Nat
    BY DEF MarketInv, MarketTypeOK
  <2>4. QED
    BY <1>2, <1>3, <2>1, <2>2, <2>3 DEF MarketInv, QuotesAreOrdered
<1>6. FeedFollowsQuotes' /\ EpochIsBounded'
  BY <1>2 DEF MarketInv, FeedFollowsQuotes, EpochIsBounded
<1>7. QED
  BY <1>2, <1>4, <1>5, <1>6, NoTrade DEF MarketInv

\* What keepers do before their transaction.
LEMMA KeeperKeepsMarketInv ==
  ASSUME MarketAssumption, MarketInv, NEW k \in Keepers, Fetch(k) \/ GiveUp(k)
  PROVE  MarketInv'
<1> DEFINE Held == [quote : Quotes, publish : Start .. marketTime]
<1>1. /\ hermes \in Held /\ held \in [Keepers -> Held \cup {None}]
      /\ overtaken \subseteq {j \in Keepers : held[j] # None}
  BY DEF MarketInv, MarketTypeOK
<1>2. trade' = None /\ UNCHANGED <<marketTime, epoch, hermes, feed, records, energy, usdc, origin>>
  BY DEF Fetch, GiveUp
<1>3. /\ held' \in [Keepers -> Held \cup {None}]
      /\ overtaken' \subseteq {j \in Keepers : held'[j] # None}
      /\ QuotesAreOrdered'
  <2> HIDE DEF Held
  <2>1. CASE Fetch(k)
    <3>1. /\ held[k] = None /\ held' = [held EXCEPT ![k] = hermes] /\ overtaken' = overtaken
      BY <2>1 DEF Fetch
    <3>2. held' \in [Keepers -> Held \cup {None}]
      BY <1>1, <3>1
    <3>3. /\ held'[k] = hermes /\ k \notin overtaken
          /\ \A j \in Keepers \ {k} : held'[j] = held[j]
      BY <1>1, <3>1
    <3>4. overtaken' \subseteq {j \in Keepers : held'[j] # None}
      BY <1>1, <3>1, <3>3
    <3>5. hermes.publish \in Nat
      BY <1>1 DEF Held, MarketAssumption
    <3>6. QuotesAreOrdered'
      BY <1>2, <3>1, <3>3, <3>5 DEF MarketInv, QuotesAreOrdered
    <3>7. QED
      BY <3>2, <3>4, <3>6
  <2>2. CASE GiveUp(k)
    <3>1. held' = [held EXCEPT ![k] = None] /\ overtaken' = overtaken \ {k}
      BY <2>2 DEF GiveUp
    <3>2. /\ held'[k] = None
          /\ \A j \in Keepers \ {k} : held'[j] = held[j] /\ (j \in overtaken' <=> j \in overtaken)
      BY <1>1, <3>1
    <3>3. held' \in [Keepers -> Held \cup {None}]
      BY <1>1, <3>1
    <3>4. overtaken' \subseteq {j \in Keepers : held'[j] # None}
      BY <1>1, <3>1, <3>2
    <3>5. QuotesAreOrdered'
      BY <1>2, <3>2 DEF MarketInv, QuotesAreOrdered
    <3>6. QED
      BY <3>3, <3>4, <3>5
  <2>3. QED
    BY <2>1, <2>2
<1>4. MarketTypeOK'
  BY <1>2, <1>3 DEF MarketInv, MarketTypeOK
<1>5. FeedFollowsQuotes' /\ EpochIsBounded'
  BY <1>2 DEF MarketInv, FeedFollowsQuotes, EpochIsBounded
<1>6. QED
  BY <1>2, <1>3, <1>4, <1>5, NoTrade DEF MarketInv

\* What sync_energy_price_feed makes of a quote.
LEMMA SyncedFeed ==
  ASSUME MarketAssumption, PowersAreNatural, NEW q \in Quotes, NEW publish \in Nat,
         SyncFeed(q, publish)
  PROVE  /\ feed'.price = PythToU128(q.price, q.expo) /\ feed'.publish = publish
         /\ feed'.price \in Nat /\ feed'.confidence \in 0 .. MaxPriceConfidenceBps
<1> DEFINE price == PythToU128(q.price, q.expo)
           bps == ConfidenceBps(q, price)
<1>1. /\ ConfidenceAllowed(bps)
      /\ feed' = [price |-> price, publish |-> publish, confidence |-> bps]
  BY DEF SyncFeed, UpdatePrice
<1>2. price \in Nat
  BY NormalisedPriceIsNatural
<1>3. bps \in Nat
  <2>1. q.conf \in Nat
    BY DEF MarketAssumption
  <2> HIDE DEF price
  <2>2. CASE price = 0
    BY <2>2 DEF ConfidenceBps
  <2>3. CASE price # 0
    <3>1. (q.conf * 10000) \div price \in Nat
      BY <1>2, <2>1, <2>3
    <3>2. QED
      BY <2>3, <3>1 DEF ConfidenceBps
  <2>4. QED
    BY <2>2, <2>3
<1>4. /\ feed'.price = price /\ feed'.publish = publish /\ feed'.confidence = bps
  BY <1>1
<1> HIDE DEF bps
<1>5. QED
  BY <1>1, <1>2, <1>3, <1>4 DEF ConfidenceAllowed, MaxPriceConfidenceBps

LEMMA SyncKeepsMarketInv ==
  ASSUME MarketAssumption, PowersAreNatural, MarketInv, NEW k \in Keepers, Sync(k)
  PROVE  MarketInv'
<1> DEFINE Held == [quote : Quotes, publish : Start .. marketTime]
           q == held[k].quote
<1>1. hermes \in Held /\ held \in [Keepers -> Held \cup {None}]
  BY DEF MarketInv, MarketTypeOK
<1>2. /\ held[k] # None
      /\ SyncFeed(q, held[k].publish)
      /\ origin' = q
      /\ held' = [held EXCEPT ![k] = None]
      /\ overtaken' = {j \in Keepers : held[j] # None} \ {k}
      /\ trade' = None
      /\ UNCHANGED <<marketTime, epoch, hermes, records, energy, usdc>>
  BY DEF Sync, PythUpdatePtb, Holders
<1>3. held[k] \in Held /\ q \in Quotes /\ held[k].publish \in Nat
  BY <1>1, <1>2 DEF MarketAssumption
<1>4. None \notin Quotes /\ Caller \notin Quotes
  BY DEF MarketAssumption
<1> HIDE DEF Held, q
<1>5. /\ held' \in [Keepers -> Held \cup {None}]
      /\ overtaken' \subseteq {j \in Keepers : held'[j] # None}
      /\ held'[k] = None /\ \A j \in Keepers \ {k} : held'[j] = held[j]
  BY <1>1, <1>2
<1>6. /\ feed'.price = PythToU128(q.price, q.expo) /\ feed'.publish = held[k].publish
      /\ feed'.price \in Nat /\ feed'.confidence \in 0 .. MaxPriceConfidenceBps
  BY <1>2, <1>3, SyncedFeed
<1>7. MarketTypeOK'
  BY <1>2, <1>3, <1>5, <1>6 DEF MarketInv, MarketTypeOK, Held
<1>8. FeedFollowsQuotes'
  BY <1>2, <1>3, <1>4, <1>6 DEF FeedFollowsQuotes
<1>9. QuotesAreOrdered'
  <2>1. held[k].publish <= hermes.publish
    BY <1>2 DEF MarketInv, QuotesAreOrdered
  <2>2. \A j \in Keepers : held'[j] # None =>
          /\ j \in overtaken'
          /\ held'[j].publish <= hermes.publish
    BY <1>2, <1>5 DEF MarketInv, QuotesAreOrdered
  <2>3. QED
    BY <1>2, <1>6, <2>1, <2>2 DEF QuotesAreOrdered
<1>10. EpochIsBounded'
  BY <1>2 DEF MarketInv, EpochIsBounded
<1>11. QED
  BY <1>2, <1>7, <1>8, <1>9, <1>10, NoTrade DEF MarketInv

\* A caller's own call: the feed has any time and price, and every keeper that
\* holds a quote was overtaken.
LEMMA CallerKeepsMarketInv ==
  ASSUME MarketAssumption, PowersAreNatural, MarketInv, ChangeByCaller
  PROVE  MarketInv'
<1>1. /\ origin' = Caller
      /\ overtaken' = {j \in Keepers : held[j] # None}
      /\ trade' = None
      /\ UNCHANGED <<marketTime, epoch, hermes, held, records, energy, usdc>>
  BY DEF ChangeByCaller, Holders
<1>2. /\ feed'.price \in Nat /\ feed'.publish \in Nat
      /\ feed'.confidence \in 0 .. MaxPriceConfidenceBps
  <2>1. ASSUME NEW u \in CallerPrices, UpdatePrice(u.price, u.publish, u.confidence)
        PROVE  /\ feed'.price \in Nat /\ feed'.publish \in Nat
               /\ feed'.confidence \in 0 .. MaxPriceConfidenceBps
    <3>1. u.price \in Nat /\ u.publish \in Nat /\ u.confidence \in Nat
      BY DEF MarketAssumption
    <3>2. QED
      BY <2>1, <3>1 DEF UpdatePrice, ConfidenceAllowed, MaxPriceConfidenceBps
  <2>2. ASSUME NEW q \in Quotes, NEW t \in Start .. MaxTime, SyncFeed(q, t)
        PROVE  /\ feed'.price \in Nat /\ feed'.publish \in Nat
               /\ feed'.confidence \in 0 .. MaxPriceConfidenceBps
    <3>1. t \in Nat
      BY DEF MarketAssumption
    <3>2. QED
      BY <2>2, <3>1, SyncedFeed
  <2>3. QED
    BY <2>1, <2>2 DEF ChangeByCaller
<1>3. None # Caller /\ Caller \notin Quotes
  BY DEF MarketAssumption
<1>4. MarketTypeOK'
  BY <1>1, <1>2 DEF MarketInv, MarketTypeOK
<1>5. FeedFollowsQuotes' /\ EpochIsBounded' /\ QuotesAreOrdered'
  BY <1>1, <1>3 DEF MarketInv, FeedFollowsQuotes, EpochIsBounded, QuotesAreOrdered
<1>6. QED
  BY <1>1, <1>4, <1>5, NoTrade DEF MarketInv

LEMMA SetKycKeepsMarketInv ==
  ASSUME MarketAssumption, MarketInv, NEW p \in Parties, SetKyc(p)
  PROVE  MarketInv'
<1>1. trade' = None /\ UNCHANGED <<marketTime, epoch, hermes, held, feed, energy, usdc, origin, overtaken>>
  BY DEF SetKyc
<1>2. records' \in [Parties -> [status : Statuses, expiry : Expiries] \cup {None}]
  BY DEF SetKyc, MarketInv, MarketTypeOK
<1>3. MarketTypeOK'
  BY <1>1, <1>2 DEF MarketInv, MarketTypeOK
<1>4. FeedFollowsQuotes' /\ EpochIsBounded' /\ QuotesAreOrdered'
  BY <1>1 DEF MarketInv, FeedFollowsQuotes, EpochIsBounded, QuotesAreOrdered
<1>5. QED
  BY <1>1, <1>3, <1>4, NoTrade DEF MarketInv

\* A settlement: what it records was true of the feed and the clearances of its
\* moment.
LEMMA SettleKeepsMarketInv ==
  ASSUME MarketAssumption, PowersAreNatural, MarketInv,
         NEW micro \in EnergyAmounts, NEW amount \in UsdcAmounts, NEW bps \in SlippageBps,
         Settle(micro, amount, bps)
  PROVE  MarketInv'
<1>1. /\ \A p \in Parties : ClearedToTrade(p)
      /\ FreshOnChain(epoch)
      /\ WithinSlippage(micro, amount, feed.price, bps)
      /\ SenderOwns(micro, amount)
      /\ energy' = [energy EXCEPT ![Seller] = @ - micro, ![Buyer] = @ + micro]
      /\ usdc' = [usdc EXCEPT ![Seller] = @ - amount + amount]
      /\ trade' = [at |-> marketTime, publish |-> feed.publish, price |-> feed.price,
                   origin |-> origin, micro |-> micro, paid |-> amount, bps |-> bps,
                   expiry |-> [p \in Parties |-> records[p].expiry]]
      /\ UNCHANGED <<marketTime, epoch, hermes, held, feed, records, origin, overtaken>>
  BY DEF Settle
<1>2. /\ trade'.at = marketTime /\ trade'.publish = feed.publish /\ trade'.origin = origin
      /\ trade'.price = feed.price
      /\ trade'.micro = micro /\ trade'.paid = amount /\ trade'.bps = bps
      /\ \A p \in Parties : trade'.expiry[p] = records[p].expiry
  BY <1>1
<1>3. /\ micro \in Nat /\ amount \in Nat /\ bps \in Nat
      /\ {PriceStaleMs, EpochLength, Start, MaxTime} \subseteq Nat /\ PriceStaleMs <= Start
      /\ Expiries \subseteq Nat /\ Seller # Buyer /\ None \notin Quotes
  BY DEF MarketAssumption
<1>4. /\ marketTime \in Start .. MaxTime /\ epoch \in Start .. marketTime
      /\ feed.publish \in Nat /\ feed.price \in Nat /\ marketTime < epoch + EpochLength
  BY DEF MarketInv, MarketTypeOK, EpochIsBounded
<1>5. MarketTypeOK'
  <2>1. /\ energy \in [Parties -> Nat] /\ usdc \in [Parties -> Nat]
        /\ energy[Seller] >= micro /\ Seller \in Parties /\ Buyer \in Parties
    BY <1>1 DEF MarketInv, MarketTypeOK, SenderOwns, Parties
  <2>2. energy' \in [Parties -> Nat] /\ usdc' \in [Parties -> Nat]
    BY <1>1, <1>3, <2>1
  <2>3. QED
    BY <1>1, <2>2 DEF MarketInv, MarketTypeOK
<1>6. FeedFollowsQuotes' /\ EpochIsBounded' /\ QuotesAreOrdered'
  BY <1>1 DEF MarketInv, FeedFollowsQuotes, EpochIsBounded, QuotesAreOrdered
<1>7. StalenessIsBounded'
  <2>1. feed.publish > epoch - PriceStaleMs
    BY <1>1 DEF FreshOnChain
  <2>2. marketTime - feed.publish < PriceStaleMs + EpochLength /\ feed.publish > 0
    BY <1>3, <1>4, <2>1
  <2>3. origin # None
    BY <2>2 DEF MarketInv, FeedFollowsQuotes
  <2>4. QED
    BY <1>2, <2>2, <2>3 DEF StalenessIsBounded
<1>8. ClearanceIsBounded'
  <2>1. \A p \in Parties : records[p].expiry > epoch /\ records[p].expiry \in Nat
    BY <1>1, <1>3 DEF ClearedToTrade, MarketInv, MarketTypeOK
  <2>2. QED
    BY <1>2, <1>3, <1>4, <2>1 DEF ClearanceIsBounded
<1>9. PaidWithinTolerance'
  <2> DEFINE exact == (micro * feed.price) \div 1000
             b == SlippageOf(bps)
             expected == Expected(micro, feed.price)
  <2>1. ASSUME origin \in Quotes, origin.expo = 0 PROVE feed.price = origin.price
    <3>1. origin.price \in Nat
      BY <2>1 DEF MarketAssumption
    <3>2. feed.price = PythToU128(origin.price, 0)
      BY <2>1 DEF MarketInv, FeedFollowsQuotes
    <3>3. QED
      BY <3>1, <3>2, NoExponent
  <2>2. b \in Nat
    BY <1>3 DEF SlippageOf, DefaultSlippageBps
  <2>3. b <= 10000
    BY <1>1 DEF WithinSlippage, BpsDenom
  <2>4. Tolerated(amount, expected, b)
    BY <1>1 DEF WithinSlippage, BpsDenom, Tolerated
  <2>5. /\ exact \in Nat /\ expected \in Nat
        /\ Rounds(expected, exact)
    <3> DEFINE value == micro * feed.price
    <3>1. value \in Nat
      BY <1>3, <1>4
    <3>2. exact = value \div 1000 /\ expected = value \div 1000000
      BY DEF Expected, KwhScale
    <3> HIDE DEF value, exact, expected
    <3>3. QED
      BY <3>1, <3>2 DEF Rounds
  <2> HIDE DEF exact, b, expected
  <2>6. WithinExact(amount, exact, b)
    <3>1. amount \in Nat
      BY <1>3
    <3>2. QED
      BY ONLY <2>2, <2>3, <2>4, <2>5, <3>1, ToleranceOfExactValue
  <2>7. WithinExact(trade'.paid, (trade'.micro * trade'.price) \div 1000, SlippageOf(trade'.bps))
    BY <1>2, <2>6 DEF exact, b
  <2>8. QED
    BY <1>2, <2>1, <2>7 DEF PaidWithinTolerance
<1>10. QED
  BY <1>5, <1>6, <1>7, <1>8, <1>9 DEF MarketInv

\* Why a stale price takes an overtaken keeper: whoever was not overtaken holds
\* nothing older than the feed.
LEMMA SyncRegresses ==
  ASSUME MarketInv, NEW k \in Keepers, Sync(k), feed'.publish < feed.publish,
         origin # Caller
  PROVE  k \in overtaken /\ held[k].publish = feed'.publish
<1>1. held[k] # None /\ feed'.publish = held[k].publish
  BY DEF Sync, PythUpdatePtb, SyncFeed, UpdatePrice
<1>2. k \notin overtaken => feed.publish <= held[k].publish
  BY <1>1 DEF MarketInv, QuotesAreOrdered
<1>3. held[k].publish \in Nat /\ feed.publish \in Nat
  <2>1. held[k].publish \in Start .. marketTime /\ Start \in Nat
    BY <1>1, MarketAssumption DEF MarketAssumption, MarketInv, MarketTypeOK
  <2>2. QED
    BY <2>1 DEF MarketInv, MarketTypeOK
<1>4. QED
  BY <1>1, <1>2, <1>3

THEOREM MarketInvariance == MarketSpec => []MarketInv
<1> USE MarketAssumption, PowersAreNatural
<1>1. MarketInit => MarketInv
  BY InitMarket
<1>2. MarketInv /\ [MarketNext]_marketVars => MarketInv'
  <2> SUFFICES ASSUME MarketInv, [MarketNext]_marketVars PROVE MarketInv'
    OBVIOUS
  <2>1. CASE Tick \/ NextEpoch \/ Publish
    BY <2>1, TimeKeepsMarketInv, PublishKeepsMarketInv
  <2>2. ASSUME NEW k \in Keepers, Fetch(k) \/ Sync(k) \/ GiveUp(k) PROVE MarketInv'
    BY <2>2, KeeperKeepsMarketInv, SyncKeepsMarketInv
  <2>3. ASSUME NEW p \in Parties, SetKyc(p) PROVE MarketInv'
    BY <2>3, SetKycKeepsMarketInv
  <2>4. ASSUME NEW micro \in EnergyAmounts, NEW amount \in UsdcAmounts, NEW bps \in SlippageBps,
               Settle(micro, amount, bps)
        PROVE  MarketInv'
    BY <2>4, SettleKeepsMarketInv
  <2>5. CASE ChangeByCaller
    BY <2>5, CallerKeepsMarketInv
  <2>6. CASE UNCHANGED marketVars
    <3>1. UNCHANGED <<marketTime, epoch, hermes, held, feed, records, energy, usdc, origin,
                      overtaken, trade>>
      BY <2>6 DEF marketVars
    <3>2. MarketTypeOK' /\ FeedFollowsQuotes' /\ EpochIsBounded' /\ QuotesAreOrdered'
      BY <3>1 DEF MarketInv, MarketTypeOK, FeedFollowsQuotes, EpochIsBounded, QuotesAreOrdered
    <3>3. StalenessIsBounded' /\ ClearanceIsBounded' /\ PaidWithinTolerance'
      BY <3>1 DEF MarketInv, StalenessIsBounded, ClearanceIsBounded, PaidWithinTolerance
    <3>4. QED
      BY <3>2, <3>3 DEF MarketInv
  <2>7. QED
    BY <2>1, <2>2, <2>3, <2>4, <2>5, <2>6 DEF MarketNext
<1>3. QED
  BY <1>1, <1>2, PTL DEF MarketSpec

\* What the adapter accepts off chain is accepted on chain in the same instant
\* (usdcSettlement.ts: assertFreshPrice, assertSlippage).
LEMMA AdapterIsStricter ==
  ASSUME MarketAssumption, MarketInv
  PROVE  AdapterNeverLooser
<1>1. /\ marketTime >= PriceStaleMs /\ feed.publish \in Nat /\ feed.price \in Nat
      /\ marketTime \in Nat /\ PriceStaleMs \in Nat
  BY DEF MarketAssumption, MarketInv, MarketTypeOK
<1>2. ASSUME AdapterFresh(marketTime) PROVE FreshOnChain(marketTime)
  BY <1>1, <1>2 DEF AdapterFresh, FreshOnChain
<1>3. ASSUME NEW micro \in EnergyAmounts, NEW amount \in UsdcAmounts, NEW bps \in SlippageBps,
             bps <= BpsDenom,
             AdapterSlippage(micro, amount, feed.price, bps)
      PROVE  WithinSlippage(micro, amount, feed.price, bps)
  <2> DEFINE expected == Expected(micro, feed.price)
  <2>1. amount \in Nat /\ bps \in Nat /\ bps <= 10000
    BY <1>3 DEF MarketAssumption, BpsDenom
  <2>2. expected \in Nat
    <3>1. micro * feed.price \in Nat
      BY <1>1 DEF MarketAssumption
    <3>2. QED
      BY <3>1 DEF Expected, KwhScale
  <2>3. /\ amount >= (expected * (10000 - bps)) \div 10000
        /\ amount <= (expected * (10000 + bps)) \div 10000
    BY <1>3 DEF AdapterSlippage, BpsDenom
  <2> HIDE DEF expected
  <2>4. CASE bps # 0
    BY <2>1, <2>3, <2>4 DEF WithinSlippage, SlippageOf, BpsDenom, expected
  <2>5. CASE bps = 0
    <3>1. amount = expected
      BY <2>1, <2>2, <2>3, <2>5
    <3>2. /\ amount >= (expected * 9950) \div 10000
          /\ amount <= (expected * 10050) \div 10000
      BY <2>2, <3>1
    <3>3. SlippageOf(bps) = 50
      BY <2>5 DEF SlippageOf, DefaultSlippageBps
    <3>4. QED
      BY <3>2, <3>3 DEF WithinSlippage, BpsDenom, expected
  <2>6. QED
    BY <2>4, <2>5
<1>4. QED
  BY <1>2, <1>3 DEF AdapterNeverLooser

\* A trade rests on a price and on clearances no older than the code allows, as
\* far as the feed's writer told the time, and is paid what the feed says
\* (usdc_settlement.move: settle_usdc).
THEOREM TradesAreSafe == MarketSpec => []TradesSafe
<1>1. MarketInv => TradesSafe
  BY AdapterIsStricter, MarketAssumption DEF TradesSafe, MarketInv
<1>2. QED
  BY <1>1, MarketInvariance, PTL

\* From one keeper's update to the next the feed goes back in time only by a
\* keeper whose quote was overtaken (pyth_price_sync.move: apply_pyth_snapshot).
THEOREM RegressTakesOvertaking == MarketSpec => RegressNeedsOvertaking
<1>1. MarketInv /\ [MarketNext]_marketVars =>
        [feed'.publish < feed.publish /\ origin # Caller /\ origin' # Caller =>
           \E k \in overtaken : held[k].publish = feed'.publish]_marketVars
  <2> SUFFICES ASSUME MarketInv, MarketNext, feed'.publish < feed.publish,
                      origin # Caller, origin' # Caller
               PROVE  \E k \in overtaken : held[k].publish = feed'.publish
    OBVIOUS
  <2>1. feed.publish \in Nat
    BY DEF MarketInv, MarketTypeOK
  <2>2. feed' # feed
    BY <2>1
  <2>3. PICK k \in Keepers : Sync(k)
    BY <2>2 DEF MarketNext, Tick, NextEpoch, Publish, Fetch, GiveUp, SetKyc, Settle,
         ChangeByCaller
  <2>4. QED
    BY <2>3, SyncRegresses
<1>2. QED
  BY <1>1, MarketInvariance, PTL DEF MarketSpec, RegressNeedsOvertaking

-----------------------------------------------------------------------------
(* Layer 2.  The median's sort is two folds, one inside the other.  Both   *)
(* are tables over the subsets of their indices that take the last index   *)
(* last; one definition and its lemmas do for both.                        *)

\* The inner fold: position i is exchanged with the m positions after it.
Pass(s, t, i) ==
  FoldLeft(LAMBDA u, d : Exchange(u, i, i + d), t, [d \in 1 .. Len(s) - i |-> d])

\* What a fold does with an index x: within a pass, or as a pass.
Within(i) == [inner |-> TRUE, at |-> i]
Passes(s) == [inner |-> FALSE, at |-> s]
FoldStep(o, t, x) == IF o.inner THEN Exchange(t, o.at, o.at + x) ELSE Pass(o.at, t, x)

\* h is the table of the folds of t over the subsets of S.
IsFold(o, q, t, S, h) ==
  h = [T \in SUBSET S |-> IF T = {} THEN t
                          ELSE FoldStep(o, h[T \ {Max(T)}], q[Max(T)])]

Fold(o, q, t, S) == (CHOOSE h : IsFold(o, q, t, S, h))[S]

LEMMA PassIsFold ==
  ASSUME NEW s, NEW t, NEW i
  PROVE  Pass(s, t, i) =
           Fold(Within(i), [d \in 1 .. Len(s) - i |-> d], t, DOMAIN [d \in 1 .. Len(s) - i |-> d])
BY DEF Pass, Fold, IsFold, FoldLeft, MapThenFoldSet, FoldStep, Within

LEMMA SortIsFold ==
  ASSUME NEW s
  PROVE  ExchangeSort(s) =
           Fold(Passes(s), [i \in 1 .. Len(s) |-> i], s, DOMAIN [i \in 1 .. Len(s) |-> i])
<1>1. ExchangeSort(s) = FoldLeft(LAMBDA t, i : Pass(s, t, i), s, [i \in 1 .. Len(s) |-> i])
  BY DEF ExchangeSort, Pass
<1>2. QED
  BY <1>1 DEF Fold, IsFold, FoldLeft, MapThenFoldSet, FoldStep, Passes

LEMMA LastIndex ==
  ASSUME NEW S, IsFiniteSet(S), S \subseteq Nat, S # {}
  PROVE  Max(S) \in S /\ \A x \in S : x <= Max(S)
<1> DEFINE HasLast(T) == \E x \in T : \A y \in T : x >= y
           I == {T \in SUBSET S : T # {} => HasLast(T)}
<1>1. ASSUME NEW T \in SUBSET S, \A U \in SUBSET T : U # T => U \in I
      PROVE  T \in I
  <2>1. CASE T = {}
    BY <2>1
  <2>2. CASE T # {}
    <3>1. PICK x \in T : TRUE
      BY <2>2
    <3>2. T \ {x} \in I
      BY <1>1, <3>1
    <3>3. CASE T \ {x} = {}
      BY <3>1, <3>3
    <3>4. CASE T \ {x} # {}
      <4>1. PICK z \in T \ {x} : \A y \in T \ {x} : z >= y
        BY <3>2, <3>4
      <4>2. z >= x \/ x >= z
        BY <3>1, <4>1
      <4>3. QED
        BY <3>1, <4>1, <4>2
    <3>5. QED
      BY <3>3, <3>4
  <2>3. QED
    BY <2>1, <2>2
<1>2. SUBSET S \subseteq I
  <2> HIDE DEF I
  <2>1. QED
    BY <1>1, SubsetInduction
<1>3. HasLast(S)
  BY <1>2
<1>4. QED
  BY <1>3 DEF Max

LEMMA FoldLine ==
  ASSUME NEW o, NEW q, NEW t, NEW S, NEW h, IsFold(o, q, t, S, h), NEW T \in SUBSET S
  PROVE  h[T] = IF T = {} THEN t ELSE FoldStep(o, h[T \ {Max(T)}], q[Max(T)])
BY DEF IsFold

\* The tables of the same fold over a set and over a finite part of it.
Tables(o, q, t, S, h, T, k) ==
  /\ IsFold(o, q, t, S, h) /\ IsFold(o, q, t, T, k)
  /\ T \subseteq S /\ T \subseteq Nat /\ IsFiniteSet(T)

LEMMA FoldsAgree ==
  ASSUME NEW o, NEW q, NEW t, NEW S, NEW h, NEW T, NEW k, Tables(o, q, t, S, h, T, k)
  PROVE  h[T] = k[T]
<1> USE DEF Tables
<1> DEFINE I == {U \in SUBSET T : h[U] = k[U]}
<1>1. ASSUME NEW U \in SUBSET T, \A W \in SUBSET U : W # U => W \in I
      PROVE  U \in I
  <2>1. h[U] = IF U = {} THEN t ELSE FoldStep(o, h[U \ {Max(U)}], q[Max(U)])
    <3> HIDE DEF I
    <3>1. IsFold(o, q, t, S, h) /\ U \in SUBSET S
      OBVIOUS
    <3>2. QED
      BY ONLY <3>1, FoldLine
  <2>2. k[U] = IF U = {} THEN t ELSE FoldStep(o, k[U \ {Max(U)}], q[Max(U)])
    <3> HIDE DEF I
    <3>1. IsFold(o, q, t, T, k) /\ U \in SUBSET T
      OBVIOUS
    <3>2. QED
      BY ONLY <3>1 DEF IsFold
  <2>3. CASE U = {}
    BY <2>1, <2>2, <2>3
  <2>4. CASE U # {}
    <3>1. IsFiniteSet(U) /\ U \subseteq Nat
      BY FS_Subset
    <3>2. Max(U) \in U
      BY <2>4, <3>1, LastIndex
    <3>3. U \ {Max(U)} \in I
      BY <1>1, <3>2
    <3>4. QED
      BY <2>1, <2>2, <2>4, <3>3
  <2>5. QED
    BY <2>3, <2>4
<1>2. SUBSET T \subseteq I
  <2> HIDE DEF I
  <2>1. QED
    BY <1>1, SubsetInduction
<1>3. T \in I
  BY <1>2
<1>4. QED
  BY <1>3

LEMMA FoldExists ==
  ASSUME NEW o, NEW q, NEW t, NEW S, IsFiniteSet(S), S \subseteq Nat
  PROVE  \E h : IsFold(o, q, t, S, h)
<1> DEFINE Table(U) == CHOOSE k : IsFold(o, q, t, U, k)
           I == {T \in SUBSET S : \E h : IsFold(o, q, t, T, h)}
<1>1. ASSUME NEW T \in SUBSET S, \A U \in SUBSET T : U # T => U \in I
      PROVE  T \in I
  <2> DEFINE h == [U \in SUBSET T |-> IF U = {} THEN t
                      ELSE FoldStep(o, Table(U \ {Max(U)})[U \ {Max(U)}], q[Max(U)])]
  <2>1. ASSUME NEW U \in SUBSET T, U # T
        PROVE  IsFold(o, q, t, U, Table(U))
    BY <1>1, <2>1
  <2>2. ASSUME NEW U \in SUBSET T, U # {}
        PROVE  Max(U) \in U
    <3>1. IsFiniteSet(U) /\ U \subseteq Nat
      BY FS_Subset
    <3>2. QED
      BY <2>2, <3>1, LastIndex
  <2>3. ASSUME NEW U \in SUBSET T, U # T
        PROVE  h[U] = Table(U)[U]
    <3>1. Table(U)[U] = IF U = {} THEN t ELSE FoldStep(o, Table(U)[U \ {Max(U)}], q[Max(U)])
      <4> HIDE DEF Table
      <4>1. IsFold(o, q, t, U, Table(U)) /\ U \in SUBSET U
        BY <2>1, <2>3
      <4>2. QED
        BY ONLY <4>1, FoldLine
    <3>2. CASE U = {}
      BY <3>1, <3>2
    <3>3. CASE U # {}
      <4> DEFINE W == U \ {Max(U)}
      <4>1. W \in SUBSET U /\ W # U /\ W # T /\ W \in SUBSET T
        BY <2>2, <3>3
      <4>2. IsFold(o, q, t, W, Table(W)) /\ IsFold(o, q, t, U, Table(U))
        BY <2>1, <2>3, <4>1
      <4>3. IsFiniteSet(W) /\ W \subseteq Nat
        BY <4>1, FS_Subset
      <4>4. Table(U)[W] = Table(W)[W]
        <5> HIDE DEF Table, W
        <5>1. Tables(o, q, t, U, Table(U), W, Table(W))
          BY ONLY <4>1, <4>2, <4>3 DEF Tables
        <5>2. QED
          BY ONLY <5>1, FoldsAgree
      <4>5. h[U] = FoldStep(o, Table(W)[W], q[Max(U)])
        BY <3>3
      <4>6. QED
        BY <3>1, <3>3, <4>4, <4>5
    <3>4. QED
      BY <3>2, <3>3
  <2>4. ASSUME NEW U \in SUBSET T, U # {}
        PROVE  h[U] = FoldStep(o, h[U \ {Max(U)}], q[Max(U)])
    <3>1. U \ {Max(U)} \in SUBSET T /\ U \ {Max(U)} # T
      BY <2>2, <2>4
    <3>2. h[U \ {Max(U)}] = Table(U \ {Max(U)})[U \ {Max(U)}]
      BY <2>3, <3>1
    <3>3. QED
      BY <2>4, <3>2
  <2>5. IsFold(o, q, t, T, h)
    <3> DEFINE g == [U \in SUBSET T |-> IF U = {} THEN t
                                        ELSE FoldStep(o, h[U \ {Max(U)}], q[Max(U)])]
    <3>1. \A U \in SUBSET T : h[U] = g[U]
      BY <2>4
    <3>2. h = g
      BY <3>1
    <3>3. QED
      BY <3>2 DEF IsFold
  <2>6. QED
    BY <2>5
<1>2. SUBSET S \subseteq I
  <2> HIDE DEF I
  <2>1. QED
    BY <1>1, SubsetInduction
<1>3. QED
  BY <1>2

\* A fold over the first n + 1 indices is one step on from that over n.
LEMMA FoldNext ==
  ASSUME NEW o, NEW q, NEW t, NEW n \in Nat
  PROVE  /\ Fold(o, q, t, 1 .. 0) = t
         /\ Fold(o, q, t, 1 .. n + 1) = FoldStep(o, Fold(o, q, t, 1 .. n), q[n + 1])
<1> DEFINE Table(U) == CHOOSE k : IsFold(o, q, t, U, k)
           S == 1 .. n + 1
           W == 1 .. n
<1>1. Fold(o, q, t, S) = Table(S)[S] /\ Fold(o, q, t, W) = Table(W)[W] /\ Fold(o, q, t, {}) = Table({})[{}]
  BY DEF Fold
<1>2. /\ IsFiniteSet(W) /\ IsFiniteSet(S) /\ IsFiniteSet({})
      /\ W \subseteq Nat /\ S \subseteq Nat /\ W \in SUBSET S /\ S # {} /\ n + 1 \in S
  <2>1. IsFiniteSet(W) /\ IsFiniteSet(S)
    <3>1. 1 \in Int /\ n \in Int /\ n + 1 \in Int
      OBVIOUS
    <3>2. QED
      BY <3>1, FS_Interval
  <2>2. IsFiniteSet({})
    BY FS_EmptySet
  <2>3. W \subseteq Nat /\ S \subseteq Nat /\ W \subseteq S
    OBVIOUS
  <2>4. n + 1 \in S
    OBVIOUS
  <2>5. QED
    BY <2>1, <2>2, <2>3, <2>4
<1>3. Max(S) = n + 1
  <2>1. Max(S) \in S /\ \A x \in S : x <= Max(S)
    BY <1>2, LastIndex
  <2>2. Max(S) >= n + 1
    BY <1>2, <2>1
  <2>3. QED
    BY <2>1, <2>2
<1>4. S \ {Max(S)} = W
  BY <1>3
<1>5. IsFold(o, q, t, S, Table(S)) /\ IsFold(o, q, t, W, Table(W)) /\ IsFold(o, q, t, {}, Table({}))
  BY <1>2, FoldExists
<1> HIDE DEF Table, W, S
<1>6. Table(S)[S] = FoldStep(o, Table(S)[W], q[n + 1])
  BY <1>2, <1>3, <1>4, <1>5, FoldLine
<1>7. Table(S)[W] = Table(W)[W]
  <2>1. W \in SUBSET S /\ IsFold(o, q, t, S, Table(S)) /\ IsFold(o, q, t, W, Table(W))
    BY <1>2, <1>5
  <2>2. IsFiniteSet(W) /\ W \subseteq Nat /\ W \in SUBSET W
    BY <1>2
  <2>3. Tables(o, q, t, S, Table(S), W, Table(W))
    BY ONLY <2>1, <2>2 DEF Tables
  <2>4. QED
    BY ONLY <2>3, FoldsAgree
<1>8. Table({})[{}] = t
  <2>1. IsFold(o, q, t, {}, Table({})) /\ {} \in SUBSET {}
    BY <1>5
  <2>2. QED
    BY ONLY <2>1, FoldLine
<1>9. 1 .. 0 = {}
  OBVIOUS
<1>10. QED
  BY <1>1, <1>6, <1>7, <1>8, <1>9 DEF S, W

-----------------------------------------------------------------------------
(* What the passes of the sort leave behind.                               *)

\* t holds what s holds at the first n indices, each once.
Rearranges(n, s, t) ==
  \E p \in Bijection(1 .. n, 1 .. n) : t = [k \in 1 .. n |-> s[p[k]]]

\* What the passes before i leave behind: each of their positions holds no
\* more than any position after it.
Placed(n, t, i) == \A a, b \in 1 .. n : a < i /\ a <= b => t[a] <= t[b]

\* What the pass of i has reached after d exchanges.
Reached(n, s, t, i, d) ==
  /\ t \in [1 .. n -> Nat]
  /\ Rearranges(n, s, t)
  /\ Placed(n, t, i)
  /\ \A b \in 1 .. n : i <= b /\ b <= i + d => t[i] <= t[b]

LEMMA ExchangeLines ==
  ASSUME NEW n \in Nat, NEW t \in [1 .. n -> Nat],
         NEW i \in 1 .. n, NEW j \in 1 .. n, i < j
  PROVE  /\ Exchange(t, i, j) \in [1 .. n -> Nat]
         /\ Exchange(t, i, j)[i] = IF t[j] < t[i] THEN t[j] ELSE t[i]
         /\ Exchange(t, i, j)[j] = IF t[j] < t[i] THEN t[i] ELSE t[j]
         /\ \A k \in 1 .. n : k # i /\ k # j => Exchange(t, i, j)[k] = t[k]
<1>1. CASE t[j] < t[i]
  BY <1>1 DEF Exchange
<1>2. CASE ~(t[j] < t[i])
  BY <1>2 DEF Exchange
<1>3. QED
  BY <1>1, <1>2

LEMMA ExchangeRearranges ==
  ASSUME NEW n \in Nat, NEW s, NEW t \in [1 .. n -> Nat], Rearranges(n, s, t),
         NEW i \in 1 .. n, NEW j \in 1 .. n, i < j
  PROVE  Rearranges(n, s, Exchange(t, i, j))
<1>1. PICK p \in Bijection(1 .. n, 1 .. n) : t = [k \in 1 .. n |-> s[p[k]]]
  BY DEF Rearranges
<1>2. CASE ~(t[j] < t[i])
  BY <1>2 DEF Exchange
<1>3. CASE t[j] < t[i]
  <2> DEFINE r == [k \in 1 .. n |-> IF k = i THEN p[j] ELSE IF k = j THEN p[i] ELSE p[k]]
             u == [t EXCEPT ![i] = t[j], ![j] = t[i]]
  <2>1. p \in [1 .. n -> 1 .. n] /\ \A a, b \in 1 .. n : p[a] = p[b] => a = b
    BY <1>1 DEF Bijection, Injection, IsInjective
  <2>2. \A b \in 1 .. n : \E a \in 1 .. n : p[a] = b
    BY <1>1 DEF Bijection, Surjection
  <2>3. r \in [1 .. n -> 1 .. n]
    BY <2>1
  <2>4. \A a, b \in 1 .. n : r[a] = r[b] => a = b
    BY <2>1
  <2>5. \A b \in 1 .. n : \E a \in 1 .. n : r[a] = b
    <3>1. SUFFICES ASSUME NEW b \in 1 .. n PROVE \E a \in 1 .. n : r[a] = b
      OBVIOUS
    <3>2. PICK a \in 1 .. n : p[a] = b
      BY <2>2
    <3>3. CASE a = i
      <4>1. r[j] = b
        BY <3>2, <3>3
      <4>2. QED
        BY <4>1
    <3>4. CASE a = j
      <4>1. r[i] = b
        BY <3>2, <3>4
      <4>2. QED
        BY <4>1
    <3>5. CASE a # i /\ a # j
      <4>1. r[a] = b
        BY <3>2, <3>5
      <4>2. QED
        BY <4>1
    <3>6. QED
      BY <3>3, <3>4, <3>5
  <2>6. r \in Bijection(1 .. n, 1 .. n)
    BY <2>3, <2>4, <2>5 DEF Bijection, Injection, Surjection, IsInjective
  <2>7. u = [k \in 1 .. n |-> s[r[k]]]
    <3>1. \A k \in 1 .. n : t[k] = s[p[k]]
      BY <1>1
    <3>2. \A k \in 1 .. n : u[k] = s[r[k]]
      BY <2>1, <3>1
    <3>3. u \in [1 .. n -> Nat]
      OBVIOUS
    <3>4. QED
      BY <3>2, <3>3
  <2>8. Exchange(t, i, j) = u
    BY <1>3 DEF Exchange
  <2>9. QED
    BY <2>6, <2>7, <2>8 DEF Rearranges
<1>4. QED
  BY <1>2, <1>3

\* An exchange of the pass keeps what it has reached, one position further.
LEMMA ExchangeReaches ==
  ASSUME NEW n \in Nat, NEW s, NEW t, NEW i \in 1 .. n, NEW d \in Nat,
         i + d + 1 <= n, Reached(n, s, t, i, d)
  PROVE  Reached(n, s, Exchange(t, i, i + (d + 1)), i, d + 1)
<1> DEFINE j == i + (d + 1)
           u == Exchange(t, i, j)
<1>1. t \in [1 .. n -> Nat] /\ Rearranges(n, s, t) /\ Placed(n, t, i)
  BY DEF Reached
<1>2. \A b \in 1 .. n : i <= b /\ b <= i + d => t[i] <= t[b]
  BY DEF Reached
<1>3. j \in 1 .. n /\ i < j
  OBVIOUS
<1> HIDE DEF u
<1>4. /\ u \in [1 .. n -> Nat]
      /\ u[i] = IF t[j] < t[i] THEN t[j] ELSE t[i]
      /\ u[j] = IF t[j] < t[i] THEN t[i] ELSE t[j]
      /\ \A k \in 1 .. n : k # i /\ k # j => u[k] = t[k]
  <2> HIDE DEF j
  <2>1. QED
    BY <1>1, <1>3, ExchangeLines DEF u
<1>5. Rearranges(n, s, u)
  <2> HIDE DEF j
  <2>1. QED
    BY <1>1, <1>3, ExchangeRearranges DEF u
<1>6. Placed(n, u, i)
  <2>1. SUFFICES ASSUME NEW a \in 1 .. n, NEW b \in 1 .. n, a < i, a <= b
                 PROVE  u[a] <= u[b]
    BY DEF Placed
  <2>2. u[a] = t[a] /\ t[a] \in Nat
    BY <1>1, <1>3, <1>4, <2>1
  <2>3. t[a] <= t[b] /\ t[a] <= t[i] /\ t[a] <= t[j]
    BY <1>1, <1>3, <2>1 DEF Placed
  <2>4. u[b] = t[b] \/ u[b] = t[i] \/ u[b] = t[j]
    BY <1>4
  <2>5. QED
    BY <2>2, <2>3, <2>4
<1>7. \A b \in 1 .. n : i <= b /\ b <= i + (d + 1) => u[i] <= u[b]
  <2>1. SUFFICES ASSUME NEW b \in 1 .. n, i <= b, b <= i + (d + 1)
                 PROVE  u[i] <= u[b]
    OBVIOUS
  <2>2. t[i] \in Nat /\ t[j] \in Nat /\ t[b] \in Nat
    BY <1>1, <1>3
  <2>3. CASE b = i
    BY <1>4, <2>2, <2>3
  <2>4. CASE b = j
    BY <1>4, <2>2, <2>4
  <2>5. CASE b # i /\ b # j
    <3>1. t[i] <= t[b]
      BY <1>2, <2>1, <2>5
    <3>2. u[b] = t[b]
      BY <1>4, <2>5
    <3>3. QED
      BY <1>4, <2>2, <3>1, <3>2
  <2>6. QED
    BY <2>3, <2>4, <2>5
<1>8. QED
  BY <1>4, <1>5, <1>6, <1>7 DEF Reached, u

LEMMA PassReaches ==
  ASSUME NEW s, NEW n \in Nat, Len(s) = n, NEW t, NEW i \in 1 .. n, Reached(n, s, t, i, 0)
  PROVE  Reached(n, s, Pass(s, t, i), i, n - i)
<1> DEFINE q == [d \in 1 .. n - i |-> d]
           o == Within(i)
           F(m) == Fold(o, q, t, 1 .. m)
           I == {m \in 0 .. n - i : Reached(n, s, F(m), i, m)}
<1>1. 0 \in I
  BY FoldNext
<1>2. ASSUME NEW m \in 0 .. (n - i) - 1, m \in I
      PROVE  m + 1 \in I
  <2>1. F(m + 1) = FoldStep(o, F(m), q[m + 1])
    <3> HIDE DEF o, q
    <3>1. m \in Nat
      OBVIOUS
    <3>2. QED
      BY <3>1, FoldNext
  <2>2. q[m + 1] = m + 1
    OBVIOUS
  <2>3. F(m + 1) = Exchange(F(m), i, i + (m + 1))
    <3> HIDE DEF F, q
    <3>1. QED
      BY <2>1, <2>2 DEF FoldStep, Within
  <2>4. Reached(n, s, F(m), i, m)
    BY <1>2
  <2>5. m \in Nat /\ i + m + 1 <= n
    OBVIOUS
  <2> HIDE DEF F
  <2>6. Reached(n, s, F(m + 1), i, m + 1)
    BY <2>3, <2>4, <2>5, ExchangeReaches
  <2>7. QED
    BY <2>6
<1>3. n - i \in I
  <2> HIDE DEF I
  <2>1. n - i \in Nat
    OBVIOUS
  <2>2. 0 .. n - i \subseteq I
    BY <1>1, <1>2, <2>1, IndexInduction
  <2>3. QED
    BY <2>1, <2>2
<1>4. Pass(s, t, i) = F(n - i)
  <2>1. DOMAIN q = 1 .. n - i
    OBVIOUS
  <2>2. Pass(s, t, i) = Fold(o, q, t, DOMAIN q)
    BY PassIsFold
  <2>3. QED
    BY <2>1, <2>2
<1>5. QED
  <2> HIDE DEF F
  <2>1. QED
    BY <1>3, <1>4

LEMMA SortSorts ==
  ASSUME NEW n \in Nat, NEW s \in [1 .. n -> Nat], Len(s) = n
  PROVE  Reached(n, s, ExchangeSort(s), n + 1, 0)
<1> DEFINE q == [i \in 1 .. n |-> i]
           o == Passes(s)
           F(m) == Fold(o, q, s, 1 .. m)
           I == {m \in 0 .. n : Reached(n, s, F(m), m + 1, 0)}
<1>1. 0 \in I
  <2>1. F(0) = s
    BY FoldNext
  <2>2. Rearranges(n, s, s)
    <3> DEFINE p == [k \in 1 .. n |-> k]
    <3>1. p \in Bijection(1 .. n, 1 .. n)
      BY DEF Bijection, Injection, Surjection, IsInjective
    <3>2. s = [k \in 1 .. n |-> s[p[k]]]
      OBVIOUS
    <3>3. QED
      BY <3>1, <3>2 DEF Rearranges
  <2>3. Placed(n, s, 1)
    BY DEF Placed
  <2>4. Reached(n, s, s, 1, 0)
    BY <2>2, <2>3 DEF Reached
  <2>5. QED
    BY <2>1, <2>4
<1>2. ASSUME NEW m \in 0 .. n - 1, m \in I
      PROVE  m + 1 \in I
  <2>1. F(m + 1) = FoldStep(o, F(m), q[m + 1])
    <3> HIDE DEF o, q
    <3>1. m \in Nat
      OBVIOUS
    <3>2. QED
      BY <3>1, FoldNext
  <2>2. q[m + 1] = m + 1
    OBVIOUS
  <2>3. F(m + 1) = Pass(s, F(m), m + 1)
    <3> HIDE DEF F, q
    <3>1. QED
      BY <2>1, <2>2 DEF FoldStep, Passes
  <2>4. Reached(n, s, F(m), m + 1, 0)
    BY <1>2
  <2> HIDE DEF F
  <2>5. m + 1 \in 1 .. n
    OBVIOUS
  <2>6. Reached(n, s, F(m + 1), m + 1, n - (m + 1))
    BY <2>3, <2>4, <2>5, PassReaches
  <2>7. Reached(n, s, F(m + 1), (m + 1) + 1, 0)
    <3>1. F(m + 1) \in [1 .. n -> Nat] /\ Rearranges(n, s, F(m + 1)) /\ Placed(n, F(m + 1), m + 1)
      BY <2>6 DEF Reached
    <3>2. \A b \in 1 .. n : m + 1 <= b => F(m + 1)[m + 1] <= F(m + 1)[b]
      BY <2>6 DEF Reached
    <3>3. Placed(n, F(m + 1), (m + 1) + 1)
      BY <3>1, <3>2 DEF Placed
    <3>4. \A b \in 1 .. n : (m + 1) + 1 <= b /\ b <= ((m + 1) + 1) + 0
            => F(m + 1)[(m + 1) + 1] <= F(m + 1)[b]
      BY <3>1
    <3>5. QED
      BY <3>1, <3>3, <3>4 DEF Reached
  <2>8. QED
    BY <2>7
<1>3. n \in I
  <2> HIDE DEF I
  <2>1. 0 .. n \subseteq I
    BY <1>1, <1>2, IndexInduction
  <2>2. QED
    BY <2>1
<1>4. ExchangeSort(s) = F(n)
  <2>1. DOMAIN q = 1 .. n
    OBVIOUS
  <2>2. ExchangeSort(s) = Fold(o, q, s, DOMAIN q)
    BY SortIsFold
  <2>3. QED
    BY <2>1, <2>2
<1>5. QED
  <2> HIDE DEF F
  <2>1. QED
    BY <1>3, <1>4

-----------------------------------------------------------------------------
(* From the sort to the median of a batch.                                 *)

\* Where the elements of T are found bounds how many there are.
Located(g, T, lo, hi) ==
  /\ lo \in Nat /\ hi \in Nat /\ lo <= hi + 1
  /\ \A a \in T : \E k \in lo .. hi : g[k] = a

LEMMA PositionsBound ==
  ASSUME NEW g, NEW T, NEW lo, NEW hi, Located(g, T, lo, hi)
  PROVE  IsFiniteSet(T) /\ Cardinality(T) <= (hi - lo) + 1
<1> USE DEF Located
<1> DEFINE f == [a \in T |-> CHOOSE k \in lo .. hi : g[k] = a]
<1>1. \A a \in T : f[a] \in lo .. hi /\ g[f[a]] = a
  OBVIOUS
<1>2. f \in Injection(T, lo .. hi)
  <2>1. f \in [T -> lo .. hi]
    BY <1>1
  <2>2. \A a, b \in T : f[a] = f[b] => a = b
    BY <1>1
  <2> HIDE DEF f
  <2>3. QED
    BY <2>1, <2>2 DEF Injection, IsInjective
<1>3. IsFiniteSet(lo .. hi) /\ Cardinality(lo .. hi) = (hi - lo) + 1
  <2>1. lo \in Int /\ hi \in Int
    OBVIOUS
  <2>2. IsFiniteSet(lo .. hi) /\ Cardinality(lo .. hi) = IF lo > hi THEN 0 ELSE hi - lo + 1
    BY <2>1, FS_Interval
  <2>3. QED
    BY <2>2
<1>4. IsFiniteSet(T) /\ Cardinality(T) <= Cardinality(lo .. hi)
  <2> HIDE DEF f
  <2>1. QED
    BY <1>2, <1>3, FS_Injection
<1>5. QED
  BY <1>3, <1>4

\* An enumeration of a finite set leaves out nothing.
LEMMA EnumerationIsOnto ==
  ASSUME NEW F, IsFiniteSet(F), NEW g \in SetToSeqs(F)
  PROVE  /\ Cardinality(F) \in Nat
         /\ g \in [1 .. Cardinality(F) -> F]
         /\ \A i, j \in 1 .. Cardinality(F) : i # j => g[i] # g[j]
         /\ \A a \in F : \E k \in 1 .. Cardinality(F) : g[k] = a
<1> DEFINE n == Cardinality(F)
<1>1. n \in Nat
  BY FS_CardinalityType
<1>2. g \in [1 .. n -> F] /\ \A i, j \in 1 .. n : i # j => g[i] # g[j]
  BY DEF SetToSeqs
<1>3. g \in Injection(1 .. n, F)
  BY <1>2 DEF Injection, IsInjective
<1>4. Cardinality(1 .. n) = n
  <2>1. 1 \in Int /\ n \in Int
    BY <1>1
  <2>2. Cardinality(1 .. n) = IF 1 > n THEN 0 ELSE n - 1 + 1
    BY <2>1, FS_Interval
  <2>3. QED
    BY <1>1, <2>2
<1>5. g \in Surjection(1 .. n, F)
  BY <1>3, <1>4, FS_Injection
<1>6. \A a \in F : \E k \in 1 .. n : g[k] = a
  BY <1>5 DEF Surjection
<1>7. QED
  BY <1>1, <1>2, <1>6

\* The readings of a batch: finitely many, each with a natural number of kWh.
Readable(F) == IsFiniteSet(F) /\ \A a \in F : a.kwh \in Nat

Ordered(n, g) == \A i, j \in 1 .. n : i <= j => g[i].kwh <= g[j].kwh

\* However a batch is put in order, the reading at a position is the same.
LEMMA OrderedBelow ==
  ASSUME NEW F, Readable(F), NEW g \in SetToSeqs(F), NEW h \in SetToSeqs(F),
         Ordered(Cardinality(F), g), Ordered(Cardinality(F), h),
         NEW k \in 1 .. Cardinality(F)
  PROVE  h[k].kwh <= g[k].kwh
<1> DEFINE n == Cardinality(F)
<1>1. /\ n \in Nat /\ g \in [1 .. n -> F] /\ h \in [1 .. n -> F]
      /\ \A i, j \in 1 .. n : i # j => g[i] # g[j]
      /\ \A a \in F : \E j \in 1 .. n : h[j] = a
  BY EnumerationIsOnto DEF Readable
<1> HIDE DEF n
<1>2. k \in 1 .. n /\ Ordered(n, g) /\ Ordered(n, h)
  BY DEF n
<1>3. SUFFICES ASSUME ~(h[k].kwh <= g[k].kwh) PROVE FALSE
  OBVIOUS
<1>4. \A i \in 1 .. n : g[i].kwh \in Nat /\ h[i].kwh \in Nat
  BY <1>1 DEF Readable
<1>5. ASSUME NEW i \in 1 .. k
      PROVE  \E j \in 1 .. k - 1 : h[j] = g[i]
  <2>1. i \in 1 .. n /\ g[i] \in F
    BY <1>1, <1>2
  <2>2. PICK j \in 1 .. n : h[j] = g[i]
    BY <1>1, <2>1
  <2>3. g[i].kwh <= g[k].kwh
    BY <1>2, <2>1 DEF Ordered
  <2>4. ~(k <= j)
    <3>1. SUFFICES ASSUME k <= j PROVE FALSE
      OBVIOUS
    <3>2. h[k].kwh <= h[j].kwh
      BY <1>2, <2>2, <3>1 DEF Ordered
    <3>3. h[k].kwh <= g[i].kwh
      BY <2>2, <3>2
    <3>4. QED
      BY <1>2, <1>3, <1>4, <2>1, <2>3, <3>3
  <2>5. j \in 1 .. k - 1
    BY <1>2, <2>4
  <2>6. QED
    BY <2>2, <2>5
<1>6. k \in Nat /\ k - 1 \in Nat
  BY <1>1, <1>2
<1> DEFINE T == {g[i] : i \in 1 .. k}
           f == [i \in 1 .. k |-> g[i]]
<1>7. IsFiniteSet(T) /\ Cardinality(T) <= ((k - 1) - 1) + 1
  <2>1. \A a \in T : \E j \in 1 .. k - 1 : h[j] = a
    BY <1>5
  <2>2. 1 <= (k - 1) + 1 /\ 1 \in Nat
    BY <1>2, <1>6
  <2> HIDE DEF T
  <2>3. QED
    <3>1. Located(h, T, 1, k - 1)
      BY <1>6, <2>1, <2>2 DEF Located
    <3>2. QED
      BY ONLY <3>1, PositionsBound
<1>8. f \in Injection(1 .. k, T)
  <2>1. f \in [1 .. k -> T]
    OBVIOUS
  <2>2. \A i, j \in 1 .. k : f[i] = f[j] => i = j
    <3>1. \A i \in 1 .. k : i \in 1 .. n /\ f[i] = g[i]
      BY <1>1, <1>2
    <3> HIDE DEF f, T
    <3>2. QED
      BY <1>1, <3>1
  <2> HIDE DEF f, T
  <2>3. QED
    BY <2>1, <2>2 DEF Injection, IsInjective
<1>9. Cardinality(1 .. k) = k
  <2>1. 1 \in Int /\ k \in Int
    BY <1>6
  <2>2. Cardinality(1 .. k) = IF 1 > k THEN 0 ELSE k - 1 + 1
    BY <2>1, FS_Interval
  <2>3. QED
    BY <1>6, <2>2
<1>10. Cardinality(1 .. k) <= Cardinality(T) /\ Cardinality(T) \in Nat
  <2> HIDE DEF f, T
  <2>1. QED
    BY <1>7, <1>8, FS_Injection, FS_CardinalityType
<1> HIDE DEF T
<1>11. QED
  BY <1>6, <1>7, <1>9, <1>10

\* The middle of an ordered batch of n readings.
Middle(n, g) ==
  IF n % 2 = 1 THEN g[n \div 2 + 1].kwh
  ELSE (g[n \div 2].kwh + g[n \div 2 + 1].kwh) \div 2

\* The source's median is the middle of the batch put in order.
LEMMA MedianIsOfOrdered ==
  ASSUME NEW F, Readable(F), NEW e \in SetToSeqs(F)
  PROVE  \E g \in SetToSeqs(F) :
           /\ Ordered(Cardinality(F), g)
           /\ F # {} => MedianKwh([k \in 1 .. Cardinality(F) |-> e[k].kwh]) = Middle(Cardinality(F), g)
<1> DEFINE n == Cardinality(F)
           s == [k \in 1 .. n |-> e[k].kwh]
           t == ExchangeSort(s)
<1>1. /\ n \in Nat /\ e \in [1 .. n -> F]
      /\ \A i, j \in 1 .. n : i # j => e[i] # e[j]
  BY EnumerationIsOnto DEF Readable
<1> HIDE DEF n
<1>2. s \in [1 .. n -> Nat] /\ Len(s) = n
  <2>1. \A k \in 1 .. n : e[k].kwh \in Nat
    BY <1>1 DEF Readable
  <2>2. s \in [1 .. n -> Nat]
    BY <2>1
  <2>3. Len(s) = n
    BY <1>1
  <2>4. QED
    BY <2>2, <2>3
<1>3. Reached(n, s, t, n + 1, 0)
  <2> HIDE DEF s
  <2>1. QED
    BY <1>1, <1>2, SortSorts
<1>4. PICK p \in Bijection(1 .. n, 1 .. n) : t = [k \in 1 .. n |-> s[p[k]]]
  <2> HIDE DEF s, t
  <2>1. QED
    BY <1>3 DEF Reached, Rearranges
<1>5. p \in [1 .. n -> 1 .. n] /\ \A i, j \in 1 .. n : p[i] = p[j] => i = j
  BY <1>4 DEF Bijection, Injection, IsInjective
<1> DEFINE g == [k \in 1 .. n |-> e[p[k]]]
<1>6. g \in SetToSeqs(F)
  <2>1. g \in [1 .. n -> F] /\ \A i, j \in 1 .. n : i # j => g[i] # g[j]
    BY <1>1, <1>5
  <2> HIDE DEF g
  <2>2. QED
    BY <2>1 DEF SetToSeqs, n
<1>7. \A k \in 1 .. n : t[k] = g[k].kwh
  <2>1. \A k \in 1 .. n : t[k] = s[p[k]]
    <3> HIDE DEF t, s
    <3>1. QED
      BY <1>4
  <2>2. \A k \in 1 .. n : s[p[k]] = g[k].kwh
    BY <1>5
  <2>3. QED
    BY <2>1, <2>2
<1>8. Ordered(n, g)
  <2>1. \A a, b \in 1 .. n : a < n + 1 /\ a <= b => t[a] <= t[b]
    <3> HIDE DEF t, s
    <3>1. QED
      BY <1>3 DEF Reached, Placed
  <2> HIDE DEF t, g
  <2>2. ASSUME NEW i \in 1 .. n, NEW j \in 1 .. n, i <= j
        PROVE  g[i].kwh <= g[j].kwh
    <3>1. t[i] <= t[j]
      BY <1>1, <2>1, <2>2
    <3>2. QED
      BY <1>7, <3>1
  <2>3. QED
    BY <2>2 DEF Ordered
<1>9. ASSUME F # {} PROVE MedianKwh(s) = Middle(n, g)
  <2>1. n >= 1
    <3>1. n # 0
      BY <1>9, FS_EmptySet DEF Readable, n
    <3>2. QED
      BY <1>1, <3>1
  <2>2. MedianKwh(s) = IF n % 2 = 1 THEN t[n \div 2 + 1] ELSE (t[n \div 2] + t[n \div 2 + 1]) \div 2
    <3> HIDE DEF s
    <3>1. QED
      BY <1>2 DEF MedianKwh
  <2> HIDE DEF t, g, s
  <2>3. n % 2 = 1 => n \div 2 + 1 \in 1 .. n
    BY <1>1, <2>1
  <2>4. n % 2 # 1 => n \div 2 \in 1 .. n /\ n \div 2 + 1 \in 1 .. n
    BY <1>1, <2>1
  <2>5. CASE n % 2 = 1
    <3>1. t[n \div 2 + 1] = g[n \div 2 + 1].kwh
      BY <1>7, <2>3, <2>5
    <3>2. QED
      BY <2>2, <2>5, <3>1 DEF Middle
  <2>6. CASE n % 2 # 1
    <3>1. t[n \div 2] = g[n \div 2].kwh /\ t[n \div 2 + 1] = g[n \div 2 + 1].kwh
      BY <1>7, <2>4, <2>6
    <3>2. QED
      BY <2>2, <2>6, <3>1 DEF Middle
  <2>7. QED
    BY <2>5, <2>6
<1> HIDE DEF g
<1>10. QED
  BY <1>6, <1>8, <1>9 DEF n

\* What the property asks of a median m of the readings F.
IsMedian(F, m) ==
  /\ m \in Nat
  /\ 2 * Cardinality({a \in F : a.kwh < m}) <= Cardinality(F)
  /\ 2 * Cardinality({a \in F : a.kwh > m}) <= Cardinality(F)
  /\ \A e \in SetToSeqs(F) : MedianKwh([i \in DOMAIN e |-> e[i].kwh]) = m

\* n readings have a middle: as many positions after it as before it.
LEMMA Halves ==
  ASSUME NEW n \in Nat, n >= 1
  PROVE  /\ n \div 2 \in Nat /\ 2 * (n \div 2) <= n
         /\ n % 2 = 1 => n = 2 * (n \div 2) + 1
         /\ n % 2 # 1 => n = 2 * (n \div 2) /\ n \div 2 >= 1
OBVIOUS

LEMMA MeanIsBetween ==
  ASSUME NEW x \in Nat, NEW y \in Nat, x <= y
  PROVE  (x + y) \div 2 \in Nat /\ x <= (x + y) \div 2 /\ (x + y) \div 2 <= y
OBVIOUS

\* The middle of an ordered batch lies between the readings beside it.
LEMMA MiddleIsMedian ==
  ASSUME NEW F, Readable(F), F # {}, NEW g \in SetToSeqs(F), Ordered(Cardinality(F), g)
  PROVE  LET m == Middle(Cardinality(F), g)
         IN /\ m \in Nat
            /\ 2 * Cardinality({a \in F : a.kwh < m}) <= Cardinality(F)
            /\ 2 * Cardinality({a \in F : a.kwh > m}) <= Cardinality(F)
<1> DEFINE n == Cardinality(F)
           m == Middle(n, g)
           h == n \div 2
           Below == {a \in F : a.kwh < m}
           Above == {a \in F : a.kwh > m}
<1>1. /\ n \in Nat /\ g \in [1 .. n -> F]
      /\ \A a \in F : \E k \in 1 .. n : g[k] = a
  BY EnumerationIsOnto DEF Readable
<1>2. n >= 1
  <2>1. n # 0
    BY FS_EmptySet DEF Readable
  <2>2. QED
    BY <1>1, <2>1
<1>3. \A i \in 1 .. n : g[i].kwh \in Nat
  BY <1>1 DEF Readable
<1> HIDE DEF n
<1>4. /\ h \in Nat /\ 2 * h <= n
      /\ n % 2 = 1 => n = 2 * h + 1
      /\ n % 2 # 1 => n = 2 * h /\ h >= 1
  BY <1>1, <1>2, Halves
<1>5. Ordered(n, g)
  BY DEF n
<1>6. /\ m \in Nat
      /\ \A i \in 1 .. n : h + 1 <= i => m <= g[i].kwh
      /\ \A i \in 1 .. n : i <= n - h => g[i].kwh <= m
  <2>1. CASE n % 2 = 1
    <3>1. m = g[h + 1].kwh
      BY <2>1 DEF Middle
    <3> HIDE DEF h, m
    <3>2. n = 2 * h + 1 /\ h + 1 \in 1 .. n /\ n - h = h + 1
      BY <1>1, <1>4, <2>1
    <3>3. \A i \in 1 .. n : h + 1 <= i => g[h + 1].kwh <= g[i].kwh
      BY <1>5, <3>2 DEF Ordered
    <3>4. \A i \in 1 .. n : i <= h + 1 => g[i].kwh <= g[h + 1].kwh
      BY <1>5, <3>2 DEF Ordered
    <3>5. QED
      BY <1>3, <3>1, <3>2, <3>3, <3>4
  <2>2. CASE n % 2 # 1
    <3>1. m = (g[h].kwh + g[h + 1].kwh) \div 2
      BY <2>2 DEF Middle
    <3> HIDE DEF h, m
    <3>2. n = 2 * h /\ h \in 1 .. n /\ h + 1 \in 1 .. n /\ n - h = h /\ h <= h + 1
      BY <1>1, <1>4, <2>2
    <3>3. \A i \in 1 .. n : h + 1 <= i => g[h + 1].kwh <= g[i].kwh
      BY <1>5, <3>2 DEF Ordered
    <3>4. \A i \in 1 .. n : i <= h => g[i].kwh <= g[h].kwh
      BY <1>5, <3>2 DEF Ordered
    <3>5. g[h].kwh \in Nat /\ g[h + 1].kwh \in Nat /\ g[h].kwh <= g[h + 1].kwh
      BY <1>3, <1>5, <3>2 DEF Ordered
    <3>6. m \in Nat /\ g[h].kwh <= m /\ m <= g[h + 1].kwh
      BY <3>1, <3>5, MeanIsBetween
    <3>7. \A i \in 1 .. n : h + 1 <= i => m <= g[i].kwh
      BY <1>3, <3>3, <3>5, <3>6
    <3>8. \A i \in 1 .. n : i <= n - h => g[i].kwh <= m
      BY <1>3, <3>2, <3>4, <3>5, <3>6
    <3>9. QED
      BY <3>6, <3>7, <3>8
  <2>3. QED
    BY <2>1, <2>2
<1> HIDE DEF m, h
<1>7. Cardinality(Below) \in Nat /\ Cardinality(Below) <= h
  <2>1. ASSUME NEW a \in Below
        PROVE  \E k \in 1 .. h : g[k] = a
    <3>1. PICK k \in 1 .. n : g[k] = a
      BY <1>1
    <3>2. ~(m <= g[k].kwh)
      BY <1>3, <1>6, <2>1, <3>1
    <3>3. ~(h + 1 <= k)
      BY <1>6, <3>2
    <3>4. k \in 1 .. h
      BY <1>1, <1>4, <3>3
    <3>5. QED
      BY <3>1, <3>4
  <2> HIDE DEF Below
  <2>2. 1 <= h + 1 /\ 1 \in Nat
    BY <1>4
  <2>3. IsFiniteSet(Below) /\ Cardinality(Below) <= (h - 1) + 1
    <3>1. Located(g, Below, 1, h)
      BY <1>4, <2>1, <2>2 DEF Located
    <3>2. QED
      BY ONLY <3>1, PositionsBound
  <2>4. Cardinality(Below) \in Nat
    BY <2>3, FS_CardinalityType
  <2>5. QED
    BY <1>4, <2>3, <2>4
<1>8. Cardinality(Above) \in Nat /\ Cardinality(Above) <= h
  <2> DEFINE lo == n - h + 1
  <2>1. ASSUME NEW a \in Above
        PROVE  \E k \in lo .. n : g[k] = a
    <3>1. PICK k \in 1 .. n : g[k] = a
      BY <1>1
    <3>2. ~(g[k].kwh <= m)
      BY <1>3, <1>6, <2>1, <3>1
    <3>3. ~(k <= n - h)
      BY <1>6, <3>2
    <3>4. k \in lo .. n
      BY <1>1, <1>4, <3>3
    <3>5. QED
      BY <3>1, <3>4
  <2>2. lo <= n + 1 /\ lo \in Nat /\ (n - lo) + 1 = h
    BY <1>1, <1>4
  <2> HIDE DEF Above, lo
  <2>3. IsFiniteSet(Above) /\ Cardinality(Above) <= (n - lo) + 1
    <3>1. Located(g, Above, lo, n)
      BY <1>1, <2>1, <2>2 DEF Located
    <3>2. QED
      BY ONLY <3>1, PositionsBound
  <2>4. Cardinality(Above) \in Nat
    BY <2>3, FS_CardinalityType
  <2>5. QED
    BY <2>2, <2>3, <2>4
<1>9. 2 * Cardinality(Below) <= n /\ 2 * Cardinality(Above) <= n
  <2> HIDE DEF Below, Above
  <2>1. QED
    BY <1>1, <1>4, <1>7, <1>8
<1>10. QED
  BY <1>6, <1>9 DEF n, m

\* In whatever order a batch is enumerated, its median is the same and lies
\* in its middle.
LEMMA MedianIsOfBatch ==
  ASSUME NEW F, Readable(F), F # {}, NEW e \in SetToSeqs(F)
  PROVE  IsMedian(F, MedianKwh([k \in DOMAIN e |-> e[k].kwh]))
<1> DEFINE n == Cardinality(F)
           Median(d) == MedianKwh([k \in 1 .. n |-> d[k].kwh])
<1>1. n \in Nat /\ \A d \in SetToSeqs(F) : DOMAIN d = 1 .. n
  BY EnumerationIsOnto DEF Readable
<1>2. n >= 1
  <2>1. n # 0
    BY FS_EmptySet DEF Readable
  <2>2. QED
    BY <1>1, <2>1
<1>3. ASSUME NEW d \in SetToSeqs(F)
      PROVE  \E g \in SetToSeqs(F) : Ordered(n, g) /\ Median(d) = Middle(n, g)
  BY MedianIsOfOrdered
<1> HIDE DEF Median, n
<1>4. PICK g \in SetToSeqs(F) : Ordered(n, g) /\ Median(e) = Middle(n, g)
  BY <1>3
<1>5. ASSUME NEW d \in SetToSeqs(F)
      PROVE  Median(d) = Median(e)
  <2>1. PICK h \in SetToSeqs(F) : Ordered(n, h) /\ Median(d) = Middle(n, h)
    BY <1>3
  <2>2. ASSUME NEW k \in 1 .. n
        PROVE  g[k].kwh = h[k].kwh
    <3>1. g[k].kwh <= h[k].kwh /\ h[k].kwh <= g[k].kwh
      <4>1. k \in 1 .. Cardinality(F) /\ Ordered(Cardinality(F), g) /\ Ordered(Cardinality(F), h)
        BY <1>4, <2>1 DEF n
      <4>2. QED
        BY <4>1, OrderedBelow
    <3>2. g[k] \in F /\ h[k] \in F
      BY EnumerationIsOnto DEF n, Readable
    <3>3. g[k].kwh \in Nat /\ h[k].kwh \in Nat
      BY <3>2 DEF Readable
    <3>4. QED
      BY <3>1, <3>3
  <2>3. Middle(n, g) = Middle(n, h)
    <3>1. CASE n % 2 = 1
      <4>1. n \div 2 + 1 \in 1 .. n
        BY <1>1, <1>2, <3>1
      <4>2. g[n \div 2 + 1].kwh = h[n \div 2 + 1].kwh
        BY <2>2, <4>1
      <4>3. QED
        BY <3>1, <4>2 DEF Middle
    <3>2. CASE n % 2 # 1
      <4>1. n \div 2 \in 1 .. n /\ n \div 2 + 1 \in 1 .. n
        BY <1>1, <1>2, <3>2
      <4>2. g[n \div 2].kwh = h[n \div 2].kwh /\ g[n \div 2 + 1].kwh = h[n \div 2 + 1].kwh
        BY <2>2, <4>1
      <4>3. QED
        BY <3>2, <4>2 DEF Middle
    <3>3. QED
      BY <3>1, <3>2
  <2>4. QED
    BY <1>4, <2>1, <2>3
<1>6. /\ Median(e) \in Nat
      /\ 2 * Cardinality({a \in F : a.kwh < Median(e)}) <= Cardinality(F)
      /\ 2 * Cardinality({a \in F : a.kwh > Median(e)}) <= Cardinality(F)
  <2>1. Ordered(Cardinality(F), g) /\ Median(e) = Middle(Cardinality(F), g)
    BY <1>4 DEF n
  <2>2. QED
    BY <2>1, MiddleIsMedian
<1>7. MedianKwh([k \in DOMAIN e |-> e[k].kwh]) = Median(e)
  BY <1>1 DEF Median
<1>8. \A d \in SetToSeqs(F) : MedianKwh([k \in DOMAIN d |-> d[k].kwh]) = Median(e)
  <2>1. SUFFICES ASSUME NEW d \in SetToSeqs(F)
                 PROVE  MedianKwh([k \in DOMAIN d |-> d[k].kwh]) = Median(e)
    OBVIOUS
  <2>2. MedianKwh([k \in DOMAIN d |-> d[k].kwh]) = Median(d)
    BY <1>1 DEF Median
  <2>3. QED
    BY <1>5, <2>2
<1>9. QED
  BY <1>6, <1>7, <1>8 DEF IsMedian

-----------------------------------------------------------------------------
(* The invariant of layer 2.                                               *)

\* The epoch's start is no more than an epoch behind; what is behind a proof
\* has been marked as processed; whoever proves with nodes has a quorum.
OracleInv ==
  /\ OracleSafe
  /\ clock < oracleEpoch + OracleEpochLength
  /\ \A p \in proofs : \A a \in p.from : DedupKeyOf(a) \in processed
  /\ \A p \in proofs : p.nodes # {} => Cardinality(p.nodes) >= QuorumThreshold(Cardinality(Nodes))

\* Of two finite sets of Nodes of at least the threshold.
LEMMA ThresholdsMeet ==
  ASSUME NEW A \in SUBSET Nodes, NEW B \in SUBSET Nodes,
         Cardinality(A) >= QuorumThreshold(Cardinality(Nodes)),
         Cardinality(B) >= QuorumThreshold(Cardinality(Nodes))
  PROVE  3 * Cardinality(A \cap B) >= Cardinality(Nodes)
<1>1. IsFiniteSet(Nodes) /\ IsFiniteSet(A) /\ IsFiniteSet(B)
  BY OracleAssumption, FS_Subset
<1>2. IsFiniteSet(A \cup B) /\ IsFiniteSet(A \cap B) /\ A \cup B \in SUBSET Nodes
  BY <1>1, FS_Union, FS_Intersection
<1>3. Cardinality(A \cup B) = Cardinality(A) + Cardinality(B) - Cardinality(A \cap B)
  BY <1>1, FS_Union
<1>4. Cardinality(A \cup B) <= Cardinality(Nodes)
  BY <1>1, <1>2, FS_Subset
<1>5. /\ Cardinality(A) \in Nat /\ Cardinality(B) \in Nat /\ Cardinality(Nodes) \in Nat
      /\ Cardinality(A \cup B) \in Nat /\ Cardinality(A \cap B) \in Nat
  BY <1>1, <1>2, FS_CardinalityType
<1>6. ASSUME NEW n \in Nat PROVE QuorumThreshold(n) \in Nat /\ 3 * QuorumThreshold(n) >= 2 * n
  BY DEF QuorumThreshold
<1> DEFINE q == QuorumThreshold(Cardinality(Nodes))
<1>7. q \in Nat /\ 3 * q >= 2 * Cardinality(Nodes)
  BY <1>5, <1>6
<1> HIDE DEF q
<1>8. Cardinality(A) >= q /\ Cardinality(B) >= q
  BY DEF q
<1>9. QED
  BY <1>3, <1>4, <1>5, <1>7, <1>8

LEMMA LatestIsLast ==
  ASSUME NEW S, IsFiniteSet(S), S \subseteq Nat, S # {}
  PROVE  Latest(S) \in S /\ \A u \in S : u <= Latest(S)
<1>1. Max(S) \in S /\ \A u \in S : u <= Max(S)
  BY LastIndex
<1>2. QED
  BY <1>1 DEF Latest

\* Fresh when it is ingested, it is of bounded age at any time of the epoch.
LEMMA FreshIsBounded ==
  ASSUME NEW at \in Nat, TimestampFresh(at), clock \in Nat, oracleEpoch \in Nat,
         oracleEpoch <= clock, clock < oracleEpoch + OracleEpochLength
  PROVE  clock - at < DriftMs + OracleEpochLength /\ at <= clock + FutureToleranceMs
<1>1. DriftMs \in Nat /\ FutureToleranceMs \in Nat /\ OracleEpochLength \in Nat
  BY OracleAssumption
<1>2. CASE oracleEpoch > at
  <2>1. oracleEpoch - at <= DriftMs /\ at <= oracleEpoch + FutureToleranceMs
    BY <1>2 DEF TimestampFresh
  <2>2. QED
    BY <1>1, <2>1
<1>3. CASE ~(oracleEpoch > at)
  <2>1. at <= oracleEpoch + FutureToleranceMs
    BY DEF TimestampFresh
  <2>2. QED
    BY <1>1, <1>3, <2>1
<1>4. QED
  BY <1>2, <1>3

LEMMA OracleStarts == OracleInit => OracleInv
<1> SUFFICES ASSUME OracleInit PROVE OracleInv
  OBVIOUS
<1>1. OracleTypeOK
  <2>1. OracleStart \in Nat /\ MaxClock \in Nat /\ OracleStart <= MaxClock
    BY OracleAssumption
  <2>2. clock \in OracleStart .. MaxClock /\ oracleEpoch \in OracleStart .. clock
    BY <2>1 DEF OracleInit
  <2>3. /\ registered = {} /\ processed = {} /\ spent = {}
        /\ clearance = NoClearance /\ blocked = FALSE /\ delivered = {} /\ proofs = {}
        /\ verified = {}
    BY DEF OracleInit
  <2>4. QED
    BY <2>2, <2>3 DEF OracleTypeOK
<1>2. KycIsLatest
  BY DEF OracleInit, KycIsLatest
<1>3. ReadingCountedOnce /\ QuorumsMeet /\ ReadingAgeIsBounded /\ MedianIsMiddle
  BY DEF OracleInit, ReadingCountedOnce, QuorumsMeet, ReadingAgeIsBounded, MedianIsMiddle
<1>4. clock < oracleEpoch + OracleEpochLength
  BY OracleAssumption DEF OracleInit
<1>5. QED
  BY <1>1, <1>2, <1>3, <1>4 DEF OracleInv, OracleSafe, OracleInit

\* The clearance and the messages are told apart by where they lie.
LEMMA KycTypes ==
  ASSUME OracleTypeOK
  PROVE  /\ IsFiniteSet(delivered) /\ delivered \subseteq Nat /\ delivered \subseteq Messages
         /\ NoClearance \notin Messages
         /\ Messages \subseteq Nat
<1>1. Len(MessageStatus) \in Nat
  BY OracleAssumption
<1>2. Messages \subseteq Nat /\ NoClearance \notin Messages
  BY <1>1, OracleAssumption DEF Messages
<1>3. IsFiniteSet(Messages)
  <2>1. 1 \in Int /\ Len(MessageStatus) \in Int
    BY <1>1
  <2>2. QED
    BY <2>1, FS_Interval DEF Messages
<1>4. delivered \subseteq Messages
  BY DEF OracleTypeOK
<1>5. QED
  BY <1>2, <1>3, <1>4, FS_Subset

LEMMA UpsertKeeps ==
  ASSUME OracleInv, NEW n \in Messages, UpsertKyc(n)
  PROVE  KycIsLatest' /\ clearance' \in Messages
<1>1. OracleTypeOK /\ KycIsLatest
  BY DEF OracleInv, OracleSafe
<1>2. /\ IsFiniteSet(delivered) /\ delivered \subseteq Nat
      /\ NoClearance \notin Messages /\ Messages \subseteq Nat
  BY <1>1, KycTypes
<1>3. delivered' = delivered \cup {n}
  BY DEF UpsertKyc
<1>4. n \in delivered' /\ delivered' # {} /\ delivered' \subseteq Nat
  BY <1>2, <1>3
<1>5. IsFiniteSet(delivered')
  BY <1>2, <1>3, FS_AddElement
<1>6. Latest(delivered') \in delivered' /\ \A u \in delivered' : u <= Latest(delivered')
  BY <1>4, <1>5, LatestIsLast
<1>7. clearance' \in Messages /\ clearance' \in delivered' /\ \A u \in delivered' : u <= clearance'
  <2>1. CASE clearance = NoClearance
    <3>1. delivered = {} /\ clearance' = n
      BY <1>1, <2>1 DEF KycIsLatest, UpsertKyc
    <3>2. QED
      BY <1>2, <1>3, <3>1
  <2>2. CASE clearance # NoClearance
    <3>1. delivered # {} /\ clearance = Latest(delivered)
      BY <1>1, <2>2 DEF KycIsLatest
    <3>2. clearance \in delivered /\ \A u \in delivered : u <= clearance
      BY <1>2, <3>1, LatestIsLast
    <3>3. clearance \in Messages
      BY <1>1, <2>2 DEF OracleTypeOK
    <3>4. clearance' = IF n > clearance THEN n ELSE clearance
      BY <2>2 DEF UpsertKyc
    <3>5. clearance \in Nat /\ n \in Nat
      BY <1>2, <3>3
    <3>6. CASE n > clearance
      <4>1. clearance' = n
        BY <3>4, <3>6
      <4>2. \A u \in delivered : u <= n
        BY <1>2, <3>2, <3>5, <3>6
      <4>3. QED
        BY <1>3, <3>5, <4>1, <4>2
    <3>7. CASE ~(n > clearance)
      <4>1. clearance' = clearance
        BY <3>4, <3>7
      <4>2. QED
        BY <1>3, <3>2, <3>3, <3>5, <3>7, <4>1
    <3>8. QED
      BY <3>6, <3>7
  <2>3. QED
    BY <2>1, <2>2
<1>8. clearance' = Latest(delivered')
  <2> DEFINE D == delivered'
             c == clearance'
  <2>1. c \in Nat /\ Latest(D) \in Nat /\ c <= Latest(D) /\ Latest(D) <= c
    BY <1>4, <1>6, <1>7
  <2> HIDE DEF D, c
  <2>2. c = Latest(D)
    BY <2>1
  <2>3. QED
    BY <2>2 DEF c, D
<1>9. clearance' # NoClearance
  BY <1>2, <1>7
<1>10. QED
  BY <1>4, <1>7, <1>8, <1>9 DEF KycIsLatest

\* What a VerifiedReading takes from its proof.
Rests(v) ==
  v.proof # NoProof =>
    /\ v.kwh = v.proof.kwh
    /\ v.at = Latest({a.at : a \in v.proof.from})

ProofsDiffer == \A p, q \in proofs : SameReading(p, q) => p = q

LEMMA CountedOnce == ReadingCountedOnce <=> ProofsDiffer /\ \A v \in verified : Rests(v)
BY DEF ReadingCountedOnce, ProofsDiffer, Rests

LEMMA CountedOnceNext ==
  ASSUME ProofsDiffer', \A v \in verified' : Rests(v)
  PROVE  ReadingCountedOnce'
BY DEF ReadingCountedOnce, ProofsDiffer, Rests, SameReading

\* A step that proves nothing leaves what the proofs rest on.
LEMMA QuietKeeps ==
  ASSUME OracleInv, OracleTypeOK', KycIsLatest', UNCHANGED proofs,
         processed \subseteq processed', \A v \in verified' : Rests(v),
         clock' < oracleEpoch' + OracleEpochLength
  PROVE  OracleInv'
<1>1. QuorumsMeet' /\ ReadingAgeIsBounded' /\ MedianIsMiddle'
  BY DEF OracleInv, OracleSafe, QuorumsMeet, ReadingAgeIsBounded, MedianIsMiddle
<1>2. ReadingCountedOnce'
  <2>1. ProofsDiffer
    BY CountedOnce DEF OracleInv, OracleSafe
  <2>2. ProofsDiffer'
    BY <2>1 DEF ProofsDiffer, SameReading
  <2>3. QED
    BY <2>2, CountedOnceNext
<1>3. QED
  BY <1>1, <1>2 DEF OracleInv, OracleSafe

\* A proof that rests on fresh readings of registered meters that are not in
\* any proof, of a quorum and its median or of none, keeps the invariant.
LEMMA FinalizeKeeps ==
  ASSUME OracleInv, NEW from \in SUBSET Attestation, NEW nodes \in SUBSET Nodes, NEW kwh \in Nat,
         NEW at, at = Latest({a.at : a \in from}),
         Finalize(from, nodes, kwh, at),
         \A a \in from : Ingestible(a),
         processed' = processed \cup {DedupKeyOf(a) : a \in from},
         \A h \in spent' : h \in [device : Devices, kwh : Nat, at : Stamps, nonce : Nonces],
         nodes # {} => /\ Cardinality(nodes) >= QuorumThreshold(Cardinality(Nodes))
                       /\ IsMedian(from, kwh)
  PROVE  OracleInv'
<1> DEFINE new == [from |-> from, nodes |-> nodes, kwh |-> kwh, time |-> clock]
<1>1. OracleTypeOK /\ KycIsLatest
  BY DEF OracleInv, OracleSafe
<1>2. /\ proofs' = proofs \cup {new}
      /\ UNCHANGED <<clock, oracleEpoch, registered, clearance, blocked, delivered>>
  BY DEF Finalize
<1>15. PICK n \in 0 .. MaxCopies :
         verified' = verified \cup
           {[proof |-> new, copy |-> c, kwh |-> kwh, at |-> at] : c \in 1 .. n}
  BY DEF Finalize
<1>3. new.from = from /\ new.nodes = nodes /\ new.kwh = kwh /\ new.time = clock
  OBVIOUS
<1>4. /\ clock \in OracleStart .. MaxClock /\ oracleEpoch \in OracleStart .. clock
      /\ OracleStart \in Nat /\ MaxClock \in Nat
  BY <1>1, OracleAssumption DEF OracleTypeOK
<1>5. ASSUME NEW a \in from
      PROVE  /\ a.device \in registered /\ TimestampFresh(a.at) /\ DedupKeyOf(a) \notin processed
             /\ a.device \in Devices /\ a.kwh \in Kwh /\ a.at \in Stamps /\ a.at \in Nat
  BY OracleAssumption DEF Ingestible, Attestation
<1> HIDE DEF new
<1>6. OracleTypeOK'
  <2>1. processed' \subseteq [device : Devices, kwh : Kwh, at : Stamps]
    <3>1. \A a \in from : DedupKeyOf(a) \in [device : Devices, kwh : Kwh, at : Stamps]
      BY <1>5 DEF DedupKeyOf
    <3>2. QED
      BY <1>1, <3>1 DEF OracleTypeOK
  <2>2. \A p \in proofs' :
          /\ p.from \subseteq Attestation /\ p.nodes \subseteq Nodes
          /\ p.kwh \in Nat /\ p.time \in OracleStart .. clock
          /\ \A a \in p.from : a.device \in registered
    <3>1. clock \in OracleStart .. clock
      BY <1>4
    <3>2. QED
      BY <1>1, <1>2, <1>3, <1>5, <3>1 DEF OracleTypeOK
  <2>3. \A v \in verified' : v.proof \in proofs' \cup {NoProof}
    BY <1>1, <1>2, <1>15 DEF OracleTypeOK
  <2>4. QED
    BY <1>1, <1>2, <2>1, <2>2, <2>3 DEF OracleTypeOK
<1>7. KycIsLatest'
  BY <1>1, <1>2 DEF KycIsLatest
<1>8. \A p \in proofs' : \A a \in p.from : DedupKeyOf(a) \in processed'
  BY <1>2, <1>3 DEF OracleInv
<1>16. ProofsDiffer'
  <2>1. SUFFICES ASSUME NEW p \in proofs', NEW q \in proofs', NEW a \in p.from, NEW b \in q.from,
                        DedupKeyOf(a) = DedupKeyOf(b)
                 PROVE  p = q
    BY DEF ProofsDiffer, SameReading
  <2>2. CASE p \in proofs /\ q \in proofs
    BY <2>1, <2>2, CountedOnce DEF OracleInv, OracleSafe, ProofsDiffer, SameReading
  <2>3. CASE p = new /\ q \in proofs
    <3>1. DedupKeyOf(b) \in processed
      BY <2>3 DEF OracleInv
    <3>2. DedupKeyOf(a) \notin processed
      BY <1>3, <1>5, <2>3
    <3>3. QED
      BY <2>1, <3>1, <3>2
  <2>4. CASE p \in proofs /\ q = new
    <3>1. DedupKeyOf(a) \in processed
      BY <2>4 DEF OracleInv
    <3>2. DedupKeyOf(b) \notin processed
      BY <1>3, <1>5, <2>4
    <3>3. QED
      BY <2>1, <3>1, <3>2
  <2>5. QED
    BY <1>2, <2>2, <2>3, <2>4
<1>17. \A v \in verified' : Rests(v)
  <2>1. \A v \in verified : Rests(v)
    BY CountedOnce DEF OracleInv, OracleSafe
  <2>2. ASSUME NEW c \in 1 .. n
        PROVE  Rests([proof |-> new, copy |-> c, kwh |-> kwh, at |-> at])
    BY <1>3 DEF Rests
  <2>3. QED
    BY <1>15, <2>1, <2>2
<1>9. ReadingCountedOnce'
  BY <1>16, <1>17, CountedOnceNext
<1>10. \A p \in proofs' : p.nodes # {} => Cardinality(p.nodes) >= QuorumThreshold(Cardinality(Nodes))
  BY <1>2, <1>3 DEF OracleInv
<1>11. QuorumsMeet'
  <2>1. SUFFICES ASSUME NEW p \in proofs', NEW q \in proofs', p.nodes # {}, q.nodes # {}
                 PROVE  3 * Cardinality(p.nodes \cap q.nodes) >= Cardinality(Nodes)
    BY DEF QuorumsMeet
  <2>2. p.nodes \in SUBSET Nodes /\ q.nodes \in SUBSET Nodes
    BY <1>6 DEF OracleTypeOK
  <2>3. /\ Cardinality(p.nodes) >= QuorumThreshold(Cardinality(Nodes))
        /\ Cardinality(q.nodes) >= QuorumThreshold(Cardinality(Nodes))
    BY <1>10, <2>1
  <2>4. QED
    BY <2>2, <2>3, ThresholdsMeet
<1>12. ReadingAgeIsBounded'
  <2>1. ASSUME NEW a \in from
        PROVE  clock - a.at < DriftMs + OracleEpochLength /\ a.at <= clock + FutureToleranceMs
    <3>1. clock \in Nat /\ oracleEpoch \in Nat /\ oracleEpoch <= clock
      BY <1>4
    <3>2. clock < oracleEpoch + OracleEpochLength
      BY DEF OracleInv
    <3>3. QED
      BY <1>5, <3>1, <3>2, FreshIsBounded
  <2>2. QED
    BY <1>2, <1>3, <2>1 DEF OracleInv, OracleSafe, ReadingAgeIsBounded
<1>13. MedianIsMiddle'
  <2>1. SUFFICES ASSUME NEW p \in proofs', p.nodes # {}
                 PROVE  /\ 2 * Cardinality({a \in p.from : a.kwh < p.kwh}) <= Cardinality(p.from)
                        /\ 2 * Cardinality({a \in p.from : a.kwh > p.kwh}) <= Cardinality(p.from)
                        /\ \A s \in SetToSeqs(p.from) :
                             MedianKwh([i \in DOMAIN s |-> s[i].kwh]) = p.kwh
    BY DEF MedianIsMiddle
  <2>2. CASE p = new
    BY <1>3, <2>1, <2>2 DEF IsMedian
  <2>3. CASE p \in proofs
    BY <2>1, <2>3 DEF OracleInv, OracleSafe, MedianIsMiddle
  <2>4. QED
    BY <1>2, <2>2, <2>3
<1>14. QED
  BY <1>2, <1>6, <1>7, <1>8, <1>9, <1>10, <1>11, <1>12, <1>13 DEF OracleInv, OracleSafe

LEMMA ReadingKeeps ==
  ASSUME OracleInv, NEW a \in Attestation, VerifyReading(a)
  PROVE  OracleInv'
<1>1. /\ Finalize({a}, {}, a.kwh, a.at) /\ Ingestible(a) /\ spent' = spent
      /\ processed' = processed \cup {DedupKeyOf(b) : b \in {a}}
  BY DEF VerifyReading
<1>2. a.kwh \in Nat /\ {a} \in SUBSET Attestation
  BY OracleAssumption DEF Attestation
<1>3. \A h \in spent' : h \in [device : Devices, kwh : Nat, at : Stamps, nonce : Nonces]
  BY <1>1 DEF OracleInv, OracleSafe, OracleTypeOK
<1>4. \A b \in {a} : Ingestible(b)
  BY <1>1
<1>5. {} \in SUBSET Nodes /\ ~({} # {})
  OBVIOUS
<1>6. a.at = Latest({b.at : b \in {a}})
  <2>1. a.at \in Nat
    BY OracleAssumption DEF Attestation
  <2>2. {b.at : b \in {a}} = {a.at}
    OBVIOUS
  <2>3. \A t \in {a.at} : (\A u \in {a.at} : u <= t) <=> t = a.at
    BY <2>1
  <2>4. Latest({a.at}) = a.at
    BY <2>3 DEF Latest
  <2>5. QED
    BY <2>2, <2>4
<1>7. QED
  BY <1>1, <1>2, <1>3, <1>4, <1>5, <1>6, FinalizeKeeps

\* The readings of a batch, in the order its nodes come in.
LEMMA BatchEnumerates ==
  ASSUME NEW by \in NodeBatches
  PROVE  LET nodes == DOMAIN by
             readings == SetToSeq(nodes)
             from == {by[n] : n \in nodes}
             e == [i \in 1 .. Len(readings) |-> by[readings[i]]]
         IN /\ nodes \in SUBSET Nodes /\ nodes # {}
            /\ from \in SUBSET Attestation /\ IsFiniteSet(from) /\ from # {}
            /\ Len(readings) \in Nat /\ Len(readings) >= 1 /\ readings[1] \in nodes
            /\ \A i \in 1 .. Len(readings) : readings[i] \in nodes
            /\ e \in SetToSeqs(from)
<1> DEFINE nodes == DOMAIN by
           N == Cardinality(nodes)
           readings == SetToSeq(nodes)
           from == {by[n] : n \in nodes}
           e == [i \in 1 .. Len(readings) |-> by[readings[i]]]
<1>1. /\ nodes \in SUBSET Nodes /\ nodes # {}
      /\ by \in [nodes -> Attestation]
      /\ \A m, n \in nodes : m # n => by[m] # by[n]
  <2>1. PICK S \in (SUBSET Nodes) \ {{}} : by \in [S -> {a \in Attestation : ~a.signed}]
    BY DEF NodeBatches
  <2>2. nodes = S /\ by \in [S -> Attestation]
    BY <2>1
  <2>3. \A m, n \in nodes : m # n => by[m] # by[n]
    BY DEF NodeBatches
  <2>4. S \in SUBSET Nodes /\ S # {}
    <3>1. S \in SUBSET Nodes /\ S \notin {{}}
      OBVIOUS
    <3>2. QED
      BY <3>1
  <2> HIDE DEF nodes
  <2>5. QED
    BY <2>2, <2>3, <2>4
<1>2. IsFiniteSet(nodes)
  BY <1>1, OracleAssumption, FS_Subset
<1>3. N \in Nat /\ N # 0 /\ \E f \in [1 .. N -> nodes] : IsInjective(f)
  <2>1. N \in Nat /\ ExistsBijection(1 .. N, nodes)
    BY <1>2, FS_CardinalityType
  <2>2. PICK f : f \in Bijection(1 .. N, nodes)
    BY <2>1 DEF ExistsBijection
  <2>3. f \in [1 .. N -> nodes] /\ IsInjective(f)
    BY <2>2 DEF Bijection, Injection
  <2>4. N # 0
    BY <1>1, <1>2, FS_EmptySet
  <2>5. QED
    BY <2>1, <2>3, <2>4
<1>4. readings \in [1 .. N -> nodes] /\ IsInjective(readings)
  BY <1>3 DEF SetToSeq
<1> HIDE DEF nodes, N, readings
<1>5. Len(readings) = N /\ N >= 1
  BY <1>3, <1>4
<1>6. \A i \in 1 .. N : readings[i] \in nodes
  BY <1>4
<1>7. \A i, j \in 1 .. N : i # j => readings[i] # readings[j]
  BY <1>4 DEF IsInjective
<1>8. e \in [1 .. N -> from]
  BY <1>5, <1>6
<1>9. \A i, j \in 1 .. N : i # j => e[i] # e[j]
  BY <1>1, <1>5, <1>6, <1>7
<1>10. IsFiniteSet(from) /\ Cardinality(from) = N
  <2> DEFINE b == [n \in nodes |-> by[n]]
  <2>1. b \in Bijection(nodes, from)
    <3>1. b \in [nodes -> from]
      OBVIOUS
    <3>2. \A m, n \in nodes : b[m] = b[n] => m = n
      BY <1>1
    <3>3. \A a \in from : \E n \in nodes : b[n] = a
      OBVIOUS
    <3> HIDE DEF b, from
    <3>4. QED
      BY <3>1, <3>2, <3>3 DEF Bijection, Injection, Surjection, IsInjective
  <2>2. ExistsBijection(nodes, from)
    BY <2>1 DEF ExistsBijection
  <2> HIDE DEF from
  <2>3. QED
    BY <1>2, <2>2, FS_Bijection DEF N
<1>11. from \in SUBSET Attestation /\ from # {}
  BY <1>1
<1>12. e \in SetToSeqs(from)
  <2> HIDE DEF e, from
  <2>1. QED
    BY <1>8, <1>9, <1>10 DEF SetToSeqs
<1>13. readings[1] \in nodes
  BY <1>3, <1>5, <1>6
<1>14. QED
  BY <1>1, <1>3, <1>5, <1>6, <1>10, <1>11, <1>12, <1>13 DEF nodes, readings

LEMMA BatchKeeps ==
  ASSUME OracleInv, NEW by \in NodeBatches, NEW z \in Nonces, VerifyReadingBatch(by, z)
  PROVE  OracleInv'
<1> DEFINE nodes == DOMAIN by
           readings == SetToSeq(nodes)
           from == {by[n] : n \in nodes}
           e == [i \in 1 .. Len(readings) |-> by[readings[i]]]
           s == [i \in 1 .. Len(readings) |-> by[readings[i]].kwh]
           median == MedianKwh(s)
           times == {by[n].at : n \in nodes}
           hash == [device |-> by[readings[1]].device, kwh |-> median,
                    at |-> Latest(times), nonce |-> z]
<1>1. /\ nodes \in SUBSET Nodes /\ nodes # {}
      /\ from \in SUBSET Attestation /\ IsFiniteSet(from) /\ from # {}
      /\ Len(readings) \in Nat /\ Len(readings) >= 1 /\ readings[1] \in nodes
      /\ \A i \in 1 .. Len(readings) : readings[i] \in nodes
      /\ e \in SetToSeqs(from)
  BY BatchEnumerates
<1>2. /\ Aggregable(by)
      /\ spent' = spent \cup {hash}
      /\ processed' = processed \cup {DedupKeyOf(by[n]) : n \in nodes}
      /\ Finalize(from, nodes, median, Latest(times))
  BY DEF VerifyReadingBatch
<1>3. s = [k \in DOMAIN e |-> e[k].kwh]
  OBVIOUS
<1>4. Readable(from)
  BY <1>1, OracleAssumption DEF Readable, Attestation
<1>5. IsMedian(from, median)
  <2> HIDE DEF from, e, s
  <2>1. QED
    BY <1>1, <1>3, <1>4, MedianIsOfBatch
<1>6. median \in Nat
  BY <1>5 DEF IsMedian
<1>7. hash \in [device : Devices, kwh : Nat, at : Stamps, nonce : Nonces]
  <2>1. by[readings[1]] \in Attestation
    BY <1>1
  <2>2. by[readings[1]].device \in Devices
    BY <2>1 DEF Attestation
  <2>3. times \subseteq Stamps /\ times \subseteq Nat /\ times # {}
    <3>1. \A n \in nodes : by[n] \in Attestation
      BY <1>1
    <3>2. \A n \in nodes : by[n].at \in Stamps /\ by[n].at \in Nat
      BY <3>1, OracleAssumption DEF Attestation
    <3>3. QED
      BY <1>1, <3>2
  <2>4. IsFiniteSet(times)
    <3>1. IsFiniteSet(nodes)
      BY <1>1, OracleAssumption, FS_Subset
    <3> DEFINE t == [n \in nodes |-> by[n].at]
    <3>2. t \in Surjection(nodes, times)
      <4>1. t \in [nodes -> times]
        OBVIOUS
      <4>2. \A x \in times : \E n \in nodes : t[n] = x
        OBVIOUS
      <4> HIDE DEF t, times
      <4>3. QED
        BY <4>1, <4>2 DEF Surjection
    <3> HIDE DEF t, times
    <3>3. QED
      BY <3>1, <3>2, FS_Surjection
  <2>5. Latest(times) \in Stamps
    <3> HIDE DEF times
    <3>1. Latest(times) \in times
      BY <2>3, <2>4, LatestIsLast
    <3>2. QED
      BY <2>3, <3>1
  <2> HIDE DEF median, times
  <2>6. QED
    BY <1>6, <2>2, <2>5
<1>8. \A h \in spent' : h \in [device : Devices, kwh : Nat, at : Stamps, nonce : Nonces]
  <2> HIDE DEF hash
  <2>1. QED
    BY <1>2, <1>7 DEF OracleInv, OracleSafe, OracleTypeOK
<1>9. \A a \in from : Ingestible(a)
  BY <1>2 DEF Aggregable
<1>10. processed' = processed \cup {DedupKeyOf(a) : a \in from}
  BY <1>2
<1>11. Cardinality(nodes) >= QuorumThreshold(Cardinality(Nodes))
  BY <1>2 DEF Aggregable
<1>12. Latest(times) = Latest({a.at : a \in from})
  <2>1. times = {a.at : a \in from}
    OBVIOUS
  <2> HIDE DEF times, from
  <2>2. QED
    BY <2>1
<1> HIDE DEF nodes, from, median, times, hash
<1>13. QED
  BY <1>1, <1>2, <1>5, <1>6, <1>8, <1>9, <1>10, <1>11, <1>12, FinalizeKeeps

LEMMA OracleStepKeeps == OracleInv /\ [OracleNext]_oracleVars => OracleInv'
<1> SUFFICES ASSUME OracleInv, [OracleNext]_oracleVars PROVE OracleInv'
  OBVIOUS
<1>1. OracleTypeOK /\ KycIsLatest /\ clock < oracleEpoch + OracleEpochLength
  BY DEF OracleInv, OracleSafe
<1>2. /\ OracleStart \in Nat /\ MaxClock \in Nat /\ OracleEpochLength \in Nat
      /\ OracleEpochLength > 0
      /\ clock \in OracleStart .. MaxClock /\ oracleEpoch \in OracleStart .. clock
  BY <1>1, OracleAssumption DEF OracleTypeOK
<1>3. /\ \A p \in proofs : p.time \in OracleStart .. clock => p.time \in OracleStart .. clock + 1
      /\ \A v \in verified : Rests(v)
  BY <1>2, CountedOnce DEF OracleInv, OracleSafe
<1>4. CASE OracleTick
  <2>1. clock' = clock + 1 /\ clock + 1 < oracleEpoch + OracleEpochLength /\ clock < MaxClock
    BY <1>4 DEF OracleTick
  <2>2. UNCHANGED <<oracleEpoch, registered, processed, spent, clearance, blocked, delivered, proofs,
                  verified>>
    BY <1>4 DEF OracleTick
  <2>3. OracleTypeOK'
    <3>1. clock' \in OracleStart .. MaxClock /\ oracleEpoch' \in OracleStart .. clock'
      BY <1>2, <2>1, <2>2
    <3>2. QED
      BY <1>1, <1>3, <2>1, <2>2, <3>1 DEF OracleTypeOK
  <2>4. KycIsLatest'
    BY <1>1, <2>2 DEF KycIsLatest
  <2>5. QED
    BY <2>1, <2>2, <2>3, <2>4, <1>3, QuietKeeps
<1>5. CASE NextOracleEpoch
  <2>1. clock' = clock + 1 /\ oracleEpoch' = clock + 1 /\ clock < MaxClock
    BY <1>5 DEF NextOracleEpoch
  <2>2. UNCHANGED <<registered, processed, spent, clearance, blocked, delivered, proofs,
                  verified>>
    BY <1>5 DEF NextOracleEpoch
  <2>3. OracleTypeOK'
    <3>1. clock' \in OracleStart .. MaxClock /\ oracleEpoch' \in OracleStart .. clock'
      BY <1>2, <2>1, <2>2
    <3>2. QED
      BY <1>1, <1>3, <2>1, <2>2, <3>1 DEF OracleTypeOK
  <2>4. KycIsLatest'
    BY <1>1, <2>2 DEF KycIsLatest
  <2>5. clock' < oracleEpoch' + OracleEpochLength
    BY <1>2, <2>1
  <2>6. QED
    BY <2>2, <2>3, <2>4, <2>5, <1>3, QuietKeeps
<1>6. CASE BlockJurisdiction
  <2>1. /\ blocked' = TRUE
        /\ UNCHANGED <<clock, oracleEpoch, registered, processed, spent, clearance, delivered, proofs,
                  verified>>
    BY <1>6 DEF BlockJurisdiction
  <2>2. OracleTypeOK' /\ KycIsLatest'
    BY <1>1, <2>1 DEF OracleTypeOK, KycIsLatest
  <2>3. QED
    BY <1>1, <2>1, <2>2, <1>3, QuietKeeps
<1>7. ASSUME NEW d \in Devices, RegisterOracleDevice(d) PROVE OracleInv'
  <2>1. /\ registered' = registered \cup {d}
        /\ UNCHANGED <<clock, oracleEpoch, processed, spent, clearance, blocked, delivered, proofs,
                  verified>>
    BY <1>7 DEF RegisterOracleDevice
  <2>2. OracleTypeOK' /\ KycIsLatest'
    BY <1>1, <2>1 DEF OracleTypeOK, KycIsLatest
  <2>3. QED
    BY <1>1, <2>1, <2>2, <1>3, QuietKeeps
<1>8. ASSUME NEW n \in Messages, UpsertKyc(n) PROVE OracleInv'
  <2>1. /\ delivered' = delivered \cup {n}
        /\ UNCHANGED <<clock, oracleEpoch, registered, processed, spent, blocked, proofs, verified>>
    BY <1>8 DEF UpsertKyc
  <2>2. KycIsLatest' /\ clearance' \in Messages
    BY <1>8, UpsertKeeps
  <2>3. OracleTypeOK'
    BY <1>1, <2>1, <2>2 DEF OracleTypeOK
  <2>4. QED
    BY <1>1, <2>1, <2>2, <2>3, <1>3, QuietKeeps
<1>9. ASSUME NEW a \in Attestation, VerifyReading(a) PROVE OracleInv'
  BY <1>9, ReadingKeeps
<1>10. ASSUME NEW a \in Attestation, NEW t \in OracleStart .. clock, VerifyReadingWithZk(a, t)
       PROVE  OracleInv'
  BY <1>9, <1>10 DEF VerifyReadingWithZk
<1>11. ASSUME NEW by \in NodeBatches, NEW z \in Nonces, VerifyReadingBatch(by, z)
       PROVE  OracleInv'
  BY <1>11, BatchKeeps
<1>12. CASE UNCHANGED oracleVars
  <2>1. OracleTypeOK' /\ KycIsLatest'
    BY <1>1, <1>12 DEF OracleTypeOK, KycIsLatest, oracleVars
  <2>2. QED
    BY <1>1, <1>12, <2>1, <1>3, QuietKeeps DEF oracleVars
<1>13. ASSUME NEW key \in CallerKeys, MarkProcessed(key) PROVE OracleInv'
  <2>1. /\ processed' = processed \cup {key}
        /\ UNCHANGED <<clock, oracleEpoch, registered, spent, clearance, blocked, delivered, proofs,
                       verified>>
    BY <1>13 DEF MarkProcessed
  <2>2. key \in [device : Devices, kwh : Kwh, at : Stamps]
    BY OracleAssumption
  <2>3. OracleTypeOK' /\ KycIsLatest'
    BY <1>1, <2>1, <2>2 DEF OracleTypeOK, KycIsLatest
  <2>4. QED
    BY <1>1, <1>3, <2>1, <2>3, QuietKeeps
<1>14. ASSUME NEW hash \in CallerHashes, MarkProofSpent(hash) PROVE OracleInv'
  <2>1. /\ spent' = spent \cup {hash}
        /\ UNCHANGED <<clock, oracleEpoch, registered, processed, clearance, blocked, delivered,
                       proofs, verified>>
    BY <1>14 DEF MarkProofSpent
  <2>2. hash \in [device : Devices, kwh : Nat, at : Stamps, nonce : Nonces]
    BY OracleAssumption
  <2>3. OracleTypeOK' /\ KycIsLatest'
    BY <1>1, <2>1, <2>2 DEF OracleTypeOK, KycIsLatest
  <2>4. QED
    BY <1>1, <1>3, <2>1, <2>3, QuietKeeps
<1>15. ASSUME NEW r \in CallerReadings, MintVerifiedReading(r) PROVE OracleInv'
  <2> DEFINE minted == [proof |-> NoProof, copy |-> 0, kwh |-> r.kwh, at |-> r.at]
  <2>1. /\ verified' = verified \cup {minted}
        /\ UNCHANGED <<clock, oracleEpoch, registered, processed, spent, clearance, blocked,
                       delivered, proofs>>
    BY <1>15 DEF MintVerifiedReading
  <2>2. minted.proof = NoProof
    OBVIOUS
  <2> HIDE DEF minted
  <2>3. OracleTypeOK' /\ KycIsLatest'
    BY <1>1, <2>1, <2>2 DEF OracleTypeOK, KycIsLatest
  <2>4. \A v \in verified' : Rests(v)
    BY <1>3, <2>1, <2>2 DEF Rests
  <2>5. QED
    BY <1>1, <2>1, <2>3, <2>4, QuietKeeps
<1>16. QED
  BY <1>4, <1>5, <1>6, <1>7, <1>8, <1>9, <1>10, <1>11, <1>12, <1>13, <1>14, <1>15 DEF OracleNext

\* Whatever is called, delivered and attested, the invariant holds (oracle,
\* attestation, aggregator, compliance_bridge).
THEOREM OracleInvariance == OracleSpec => []OracleInv
<1> QED
  BY OracleStarts, OracleStepKeeps, PTL DEF OracleSpec

\* A reading is proved once and while it is recent, what is verified of it copies
\* that proof, any two quorums meet, and the value of a batch is the middle of what
\* its nodes sent, for any number of nodes, readings and copies.
THEOREM ProofsAreSound == OracleSpec => []OracleSafe
<1>1. OracleInv => OracleSafe
  BY DEF OracleInv
<1>2. QED
  BY <1>1, OracleInvariance, PTL
=============================================================================
