------------------------- MODULE EnergyTokenProofs -------------------------
(***************************************************************************)
(* Theorems about EnergyToken for every set of addresses, meters, readings *)
(* and epoch times: type correctness, the order of minting, the life of a  *)
(* batch, the pause, and the refinement of EnergyCertificates.             *)
(***************************************************************************)
EXTENDS EnergyToken, SumLemmas, SequenceTheorems

-----------------------------------------------------------------------------
(* Lemmas about the operators the actions are built from.                  *)

\* The fields of a signed reading have their types, and so has its amount.
LEMMA ReadingFields ==
  ASSUME NEW r \in Readings
  PROVE  r.meter \in Meters /\ r.kwh \in Nat /\ r.ts \in Nat /\ Amount(r) \in Nat
<1>1. r \in [meter : Meters, kwh : Nat, ts : Nat] /\ Scale \in Nat
  BY LedgerAssumption
<1>2. QED
  BY <1>1 DEF Amount

\* Every batch certifies a signed reading of a meter.
LEMMA BatchFields ==
  ASSUME batches \in Seq(BatchStates), NEW b \in DOMAIN batches
  PROVE  /\ batches[b] \in BatchStates
         /\ batches[b].reading \in Readings
         /\ batches[b].reading.meter \in Meters
         /\ batches[b].reading.ts \in Nat
         /\ batches[b].holder \in Addrs
         /\ Amount(batches[b].reading) \in Nat
<1>1. batches[b] \in BatchStates
  BY ElementOfSeq, LenProperties
<1>2. batches[b].reading \in Readings /\ batches[b].holder \in Addrs
  BY <1>1 DEF BatchStates
<1>3. QED
  BY <1>1, <1>2, ReadingFields

\* Writing one batch keeps a sequence of batches of the same length.
LEMMA BatchUpdate ==
  ASSUME batches \in Seq(BatchStates), NEW b \in DOMAIN batches,
         NEW e \in BatchStates, batches' = [batches EXCEPT ![b] = e]
  PROVE  /\ batches' \in Seq(BatchStates)
         /\ DOMAIN batches' = DOMAIN batches
         /\ \A i \in DOMAIN batches : batches'[i] = IF i = b THEN e ELSE batches[i]
<1>1. Len(batches) \in Nat /\ DOMAIN batches = 1 .. Len(batches)
  BY LenProperties
<1>2. /\ batches' \in Seq(BatchStates)
      /\ Len(batches') = Len(batches)
      /\ \A i \in 1 .. Len(batches) : batches'[i] = IF i = b THEN e ELSE batches[i]
  BY <1>1, ExceptSeq
<1>3. DOMAIN batches' = 1 .. Len(batches')
  BY <1>2, LenProperties
<1>4. QED
  BY <1>1, <1>2, <1>3

\* Retiring a batch changes its state and nothing else of any batch.
LEMMA RetireUpdate ==
  ASSUME batches \in Seq(BatchStates), NEW b \in DOMAIN batches,
         NEW how \in {"burned", "marked", "bridged"}, Retire(b, how)
  PROVE  /\ batches' \in Seq(BatchStates)
         /\ DOMAIN batches' = DOMAIN batches
         /\ batches[b].state = "live"
         /\ batches'[b].state = how
         /\ \A i \in DOMAIN batches :
              /\ batches'[i].reading = batches[i].reading
              /\ batches'[i].producer = batches[i].producer
              /\ i # b => batches'[i] = batches[i]
<1>1. batches[b] \in BatchStates
  BY BatchFields
<1>2. [batches[b] EXCEPT !.state = how] \in BatchStates
  BY <1>1 DEF BatchStates
<1>3. batches' = [batches EXCEPT ![b] = [batches[b] EXCEPT !.state = how]]
  BY DEF Retire
<1>4. /\ batches' \in Seq(BatchStates)
      /\ DOMAIN batches' = DOMAIN batches
      /\ \A i \in DOMAIN batches :
           batches'[i] = IF i = b THEN [batches[b] EXCEPT !.state = how] ELSE batches[i]
  BY <1>2, <1>3, BatchUpdate
<1>5. batches[b].state = "live"
  BY <1>1 DEF Retire, Exists, Redeemed, BatchStates
<1>6. QED
  BY <1>1, <1>4, <1>5 DEF BatchStates

\* Giving a batch away changes its holder and nothing else of any batch.
LEMMA TransferUpdate ==
  ASSUME batches \in Seq(BatchStates), NEW b \in DOMAIN batches,
         NEW to \in Addrs, TransferBatch(b, to)
  PROVE  /\ batches' \in Seq(BatchStates)
         /\ DOMAIN batches' = DOMAIN batches
         /\ \A i \in DOMAIN batches :
              /\ batches'[i].reading = batches[i].reading
              /\ batches'[i].producer = batches[i].producer
              /\ batches'[i].state = batches[i].state
<1>1. batches[b] \in BatchStates
  BY BatchFields
<1>2. [batches[b] EXCEPT !.holder = to] \in BatchStates
  BY <1>1 DEF BatchStates
<1>3. batches' = [batches EXCEPT ![b] = [batches[b] EXCEPT !.holder = to]]
  BY DEF TransferBatch
<1>4. /\ batches' \in Seq(BatchStates)
      /\ DOMAIN batches' = DOMAIN batches
      /\ \A i \in DOMAIN batches :
           batches'[i] = IF i = b THEN [batches[b] EXCEPT !.holder = to] ELSE batches[i]
  BY <1>2, <1>3, BatchUpdate
<1>5. QED
  BY <1>1, <1>4 DEF BatchStates

\* A mint appends one live batch for the reading and moves its meter's clock
\* to the epoch's time.
LEMMA MintUpdate ==
  ASSUME TypeOK, NEW a \in Addrs, NEW r \in Readings, NEW s \in Sources,
         MintEnergy(a, r, s)
  PROVE  LET n == Len(batches) + 1 IN
         /\ batches' \in Seq(BatchStates)
         /\ Len(batches) \in Nat
         /\ DOMAIN batches = 1 .. Len(batches)
         /\ DOMAIN batches' = 1 .. n
         /\ \A i \in DOMAIN batches : batches'[i] = batches[i]
         /\ batches'[n].reading = r
         /\ batches'[n].state = "live"
         /\ meter' \in [Meters -> MeterStates]
         /\ meter'[r.meter].lastTs = now
         /\ \A m \in Meters \ {r.meter} : meter'[m] = meter[m]
<1> DEFINE new == [reading |-> r, producer |-> a, holder |-> a,
                   source |-> s, state |-> "live"]
<1>1. s \in 0 .. MaxSource
  BY LedgerAssumption DEF MintEnergy, MaxSource
<1>2. new \in BatchStates
  BY <1>1 DEF BatchStates
<1>3. batches' = Append(batches, new)
  BY DEF MintEnergy
<1>4. batches \in Seq(BatchStates) /\ Len(batches) \in Nat /\ DOMAIN batches = 1 .. Len(batches)
  BY LenProperties DEF TypeOK
<1>5. /\ batches' \in Seq(BatchStates)
      /\ Len(batches') = Len(batches) + 1
      /\ \A i \in 1 .. Len(batches) : batches'[i] = batches[i]
      /\ batches'[Len(batches) + 1] = new
  BY <1>2, <1>3, <1>4, AppendProperties
<1>6. DOMAIN batches' = 1 .. Len(batches')
  BY <1>5, LenProperties
<1>7. /\ meter' \in [Meters -> MeterStates]
      /\ meter'[r.meter].lastTs = now
      /\ \A m \in Meters \ {r.meter} : meter'[m] = meter[m]
  <2>1. r.meter \in Meters /\ r.kwh \in Nat
    BY ReadingFields
  <2>2. now \in Nat /\ MaxU64 \in Nat
    BY LedgerAssumption DEF TypeOK
  <2>3. meter[r.meter] \in MeterStates
    BY <2>1 DEF TypeOK
  <2>4. meter[r.meter].totalKwh + r.kwh \in 0 .. MaxU64
    BY <2>1, <2>2, <2>3 DEF MintEnergy, MeterStates, FitsU64
  <2>5. meter' = [meter EXCEPT ![r.meter].totalKwh = @ + r.kwh,
                               ![r.meter].lastTs = now]
    BY DEF MintEnergy, UpdateMeterReading
  <2>6. QED
    BY <2>1, <2>2, <2>3, <2>4, <2>5 DEF TypeOK, MeterStates
<1>8. QED
  BY <1>4, <1>5, <1>6, <1>7

-----------------------------------------------------------------------------
(* Type correctness.                                                       *)

LEMMA InitTypeOK == Init => TypeOK
<1> SUFFICES ASSUME Init PROVE TypeOK
  OBVIOUS
<1>1. MaxU64 \in Nat
  BY LedgerAssumption
<1>2. batches = <<>> /\ <<>> \in Seq(BatchStates)
  BY EmptySeq, Zenon DEF Init
<1>3. meter \in [Meters -> MeterStates]
  BY <1>1 DEF Init, MeterStates
<1>4. now \in EpochTimes /\ paused \in BOOLEAN
  BY DEF Init
<1>5. kyc \in [Addrs -> KycRecords \cup {NoKyc}]
  BY DEF Init
<1>6. coins \in [Addrs -> Nat] /\ supply \in 0 .. MaxU64
  BY <1>1 DEF Init
<1>7. batches \in Seq(BatchStates)
  BY <1>2, Zenon
<1>8. outside \in [minted : 0 .. MaxBorrowed, burned : 0 .. MaxBorrowed]
  BY LedgerAssumption DEF Init
<1>9. QED
  BY <1>3, <1>4, <1>5, <1>6, <1>7, <1>8 DEF TypeOK

LEMMA AdminTypeOK == TypeOK /\ AdminNext => TypeOK'
<1> SUFFICES ASSUME TypeOK, AdminNext PROVE TypeOK'
  OBVIOUS
<1>1. ASSUME NEW m \in Meters, NEW p \in Addrs, RegisterDevice(m, p)
      PROVE  TypeOK'
  <2>1. meter' \in [Meters -> MeterStates]
    BY <1>1 DEF RegisterDevice, TypeOK, MeterStates
  <2>2. QED
    BY <1>1, <2>1 DEF RegisterDevice, TypeOK
<1>2. ASSUME NEW m \in Meters, CertifyDevice(m)
      PROVE  TypeOK'
  BY <1>2 DEF CertifyDevice, TypeOK, MeterStates
<1>3. ASSUME NEW a \in Addrs, NEW record \in KycRecords, UpsertKycRecord(a, record)
      PROVE  TypeOK'
  BY <1>3 DEF UpsertKycRecord, TypeOK
<1>4. ASSUME NEW a \in Addrs, RemoveKycRecord(a)
      PROVE  TypeOK'
  BY <1>4 DEF RemoveKycRecord, TypeOK
<1>5. ASSUME PauseMinting \/ UnpauseMinting
      PROVE  TypeOK'
  BY <1>5 DEF PauseMinting, UnpauseMinting, TypeOK
<1>6. QED
  BY <1>1, <1>2, <1>3, <1>4, <1>5 DEF AdminNext

LEMMA TokenTypeOK == TypeOK /\ TokenNext => TypeOK'
<1> SUFFICES ASSUME TypeOK, TokenNext PROVE TypeOK'
  OBVIOUS
<1>1. ASSUME NEW a \in Addrs, NEW r \in Readings, NEW s \in Sources, MintEnergy(a, r, s)
      PROVE  TypeOK'
  <2>1. batches' \in Seq(BatchStates) /\ meter' \in [Meters -> MeterStates]
    BY <1>1, MintUpdate
  <2>2. Amount(r) \in Nat /\ MaxU64 \in Nat
    BY ReadingFields, LedgerAssumption
  <2>3. supply' \in 0 .. MaxU64 /\ coins' \in [Addrs -> Nat]
    BY <1>1, <2>2 DEF MintEnergy, FitsU64, TypeOK
  <2>4. QED
    BY <1>1, <2>1, <2>3 DEF MintEnergy, TypeOK
<1>2. ASSUME NEW a \in Addrs, NEW c \in Addrs, NEW n \in 1 .. coins[a], TransferEnergy(a, c, n)
      PROVE  TypeOK'
  <2>1. coins' \in [Addrs -> Nat]
    <3>1. coins \in [Addrs -> Nat] /\ n <= coins[a] /\ a # c
          /\ coins' = [coins EXCEPT ![a] = @ - n, ![c] = @ + n]
      BY <1>2 DEF TransferEnergy, TypeOK
    <3>2. n \in Nat /\ coins[a] - n \in Nat /\ coins[c] + n \in Nat
      BY <3>1
    <3>3. QED
      BY ONLY <3>1, <3>2
  <2>2. UNCHANGED <<now, paused, meter, kyc, batches, supply, outside>>
    BY <1>2 DEF TransferEnergy
  <2>3. QED
    BY <2>1, <2>2 DEF TypeOK
<1>3. QED
  BY <1>1, <1>2 DEF TokenNext

LEMMA BurnTypeOK ==
  ASSUME TypeOK, NEW a \in Addrs, NEW n \in Nat, BurnCoins(a, n)
  PROVE  coins' \in [Addrs -> Nat] /\ supply' \in 0 .. MaxU64
BY LedgerAssumption DEF BurnCoins, TypeOK

BatchNext == HolderNext \/ BridgeNext

LEMMA BatchTypeOK == TypeOK /\ BatchNext => TypeOK'
<1> SUFFICES ASSUME TypeOK, NEW b \in DOMAIN batches,
                    \/ \E a \in Addrs : TransferBatch(b, a)
                    \/ MarkRedeemed(b)
                    \/ ConsumeBatchForBridge(b)
                    \/ BurnOnRedemption(b)
             PROVE  TypeOK'
  BY DEF BatchNext, HolderNext, BridgeNext
<1>1. ASSUME NEW a \in Addrs, TransferBatch(b, a)
      PROVE  TypeOK'
  BY <1>1, TransferUpdate DEF TransferBatch, TypeOK
<1>2. CASE MarkRedeemed(b)
  BY <1>2, RetireUpdate DEF MarkRedeemed, TypeOK
<1>3. CASE ConsumeBatchForBridge(b)
  BY <1>3, RetireUpdate DEF ConsumeBatchForBridge, TypeOK
<1>4. CASE BurnOnRedemption(b)
  <2>1. batches[b].holder \in Addrs /\ Amount(batches[b].reading) \in Nat
    BY BatchFields DEF TypeOK
  <2>2. coins' \in [Addrs -> Nat] /\ supply' \in 0 .. MaxU64
    BY <1>4, <2>1, BurnTypeOK DEF BurnOnRedemption
  <2>3. batches' \in Seq(BatchStates)
    BY <1>4, RetireUpdate DEF BurnOnRedemption, TypeOK
  <2>4. QED
    BY <1>4, <2>2, <2>3 DEF BurnOnRedemption, TypeOK
<1>5. QED
  BY <1>1, <1>2, <1>3, <1>4

\* What the borrowed cap does: the wallets and the supply stay within their types,
\* and so does what went through it.
LEMMA BorrowedTypeOK == TypeOK /\ BorrowedNext => TypeOK'
<1> SUFFICES ASSUME TypeOK, NEW a \in Addrs,
                    \/ \E n \in 1 .. MaxBorrowed : MintBorrowed(a, n)
                    \/ \E n \in 1 .. coins[a] : BurnBorrowed(a, n)
             PROVE  TypeOK'
  BY DEF BorrowedNext
<1>1. MaxBorrowed \in Nat /\ MaxU64 \in Nat
  BY LedgerAssumption
<1>2. outside.minted \in Nat /\ outside.burned \in Nat
  BY <1>1 DEF TypeOK
<1>3. ASSUME NEW n \in 1 .. MaxBorrowed, MintBorrowed(a, n)
      PROVE  TypeOK'
  <2>1. supply' \in 0 .. MaxU64 /\ coins' \in [Addrs -> Nat]
    BY <1>1, <1>3 DEF MintBorrowed, FitsU64, TypeOK
  <2>2. outside.minted + n \in 0 .. MaxBorrowed
    BY <1>1, <1>2, <1>3 DEF MintBorrowed
  <2>3. outside' \in [minted : 0 .. MaxBorrowed, burned : 0 .. MaxBorrowed]
    <3>1. outside' = [outside EXCEPT !.minted = outside.minted + n]
      BY <1>3 DEF MintBorrowed
    <3>2. outside \in [minted : 0 .. MaxBorrowed, burned : 0 .. MaxBorrowed]
      BY DEF TypeOK
    <3>3. QED
      BY ONLY <2>2, <3>1, <3>2
  <2>4. QED
    BY <1>3, <2>1, <2>3 DEF MintBorrowed, TypeOK
<1>4. ASSUME NEW n \in 1 .. coins[a], BurnBorrowed(a, n)
      PROVE  TypeOK'
  <2>1. n \in Nat
    OBVIOUS
  <2>2. supply' \in 0 .. MaxU64 /\ coins' \in [Addrs -> Nat]
    BY <1>4, <2>1, BurnTypeOK DEF BurnBorrowed
  <2>3. outside.burned + n \in 0 .. MaxBorrowed
    BY <1>1, <1>2, <1>4, <2>1 DEF BurnBorrowed
  <2>4. outside' \in [minted : 0 .. MaxBorrowed, burned : 0 .. MaxBorrowed]
    <3>1. outside' = [outside EXCEPT !.burned = outside.burned + n]
      BY <1>4 DEF BurnBorrowed
    <3>2. outside \in [minted : 0 .. MaxBorrowed, burned : 0 .. MaxBorrowed]
      BY DEF TypeOK
    <3>3. QED
      BY ONLY <2>3, <3>1, <3>2
  <2>5. QED
    BY <1>4, <2>2, <2>4 DEF BurnBorrowed, TypeOK
<1>5. QED
  BY <1>3, <1>4

\* It touches nothing else, and what it adds to the supply or takes from it is
\* what the metered supply leaves out.
LEMMA BorrowedFrame ==
  ASSUME TypeOK, BorrowedNext
  PROVE  /\ UNCHANGED <<now, paused, meter, kyc, batches>>
         /\ MeteredSupply' = MeteredSupply
<1>1. UNCHANGED <<now, paused, meter, kyc, batches>>
  BY DEF BorrowedNext, MintBorrowed, BurnBorrowed
<1>2. /\ MaxBorrowed \in Nat /\ MaxU64 \in Nat
      /\ outside \in [minted : 0 .. MaxBorrowed, burned : 0 .. MaxBorrowed]
      /\ supply \in Nat
  BY LedgerAssumption DEF TypeOK
<1>3. outside.minted \in Nat /\ outside.burned \in Nat
  BY <1>2
<1>4. ASSUME NEW a \in Addrs, NEW n \in 1 .. MaxBorrowed, MintBorrowed(a, n)
      PROVE  MeteredSupply' = MeteredSupply
  <2>1. /\ supply' = supply + n /\ n \in Nat
        /\ outside'.minted = outside.minted + n /\ outside'.burned = outside.burned
    BY <1>2, <1>4 DEF MintBorrowed
  <2>2. QED
    BY <1>2, <1>3, <2>1 DEF MeteredSupply
<1>5. ASSUME NEW a \in Addrs, NEW n \in 1 .. coins[a], BurnBorrowed(a, n)
      PROVE  MeteredSupply' = MeteredSupply
  <2>1. /\ supply' = supply - n /\ n \in Nat /\ n <= supply
        /\ outside'.burned = outside.burned + n /\ outside'.minted = outside.minted
    BY <1>2, <1>5 DEF BurnBorrowed, BurnCoins
  <2>2. QED
    BY <1>2, <1>3, <2>1 DEF MeteredSupply
<1>6. QED
  BY <1>1, <1>4, <1>5 DEF BorrowedNext

LEMMA NextTypeOK == TypeOK /\ [Next]_vars => TypeOK'
<1> SUFFICES ASSUME TypeOK, [Next]_vars PROVE TypeOK'
  OBVIOUS
<1>1. CASE AdvanceEpoch
  BY <1>1 DEF AdvanceEpoch, TypeOK
<1>2. CASE UNCHANGED vars
  BY <1>2 DEF vars, TypeOK
<1>3. QED
  BY <1>1, <1>2, AdminTypeOK, TokenTypeOK, BatchTypeOK, BorrowedTypeOK DEF Next, LedgerNext, BatchNext

\* Every reachable state of the ledger has the types of TypeOK: meters,
\* batches and KYC records keep their shape and the supply stays a u64.
THEOREM TypeCorrect == Spec => []TypeOK
<1>1. QED
  BY InitTypeOK, NextTypeOK, PTL DEF Spec

-----------------------------------------------------------------------------
(* The order of minting.  A meter mints at most once per epoch, so two of  *)
(* its mints lie an epoch apart, and the windows of readings two epochs    *)
(* accept do not meet (EpochAssumption).                                   *)

LEMMA InitMintOrder == Init => MintOrderInv
<1> SUFFICES ASSUME Init PROVE MintOrderInv
  OBVIOUS
<1>1. Batches = {}
  BY DEF Init, Batches
<1>2. \A m \in Meters : meter[m].lastTs = 0
  BY DEF Init
<1>3. QED
  BY <1>1, <1>2 DEF MintOrderInv, MeterClocksApart, MintFrontier, MintedInReadingOrder

\* A step that leaves the epoch, the meters' clocks and the readings of the
\* batches alone cannot disturb the order.
LEMMA MintOrderFrame ==
  ASSUME MintOrderInv, TypeOK, now' = now, Batches' = Batches,
         \A m \in Meters : meter'[m].lastTs = meter[m].lastTs,
         \A b \in Batches : batches'[b].reading = batches[b].reading
  PROVE  MintOrderInv'
<1>1. \A b \in Batches : batches[b].reading.meter \in Meters
  BY BatchFields DEF TypeOK, Batches
<1>2. QED
  BY <1>1 DEF MintOrderInv, MeterClocksApart, MintFrontier, MintedInReadingOrder, MeterOf

LEMMA EpochMintOrder == TypeOK /\ MintOrderInv /\ AdvanceEpoch => MintOrderInv'
<1> SUFFICES ASSUME TypeOK, MintOrderInv, AdvanceEpoch PROVE MintOrderInv'
  OBVIOUS
<1>1. now \in Nat /\ now' \in Nat /\ EpochGap \in Nat /\ now' >= now + EpochGap
  BY LedgerAssumption DEF AdvanceEpoch, TypeOK
<1>2. \A m \in Meters : meter[m].lastTs \in Nat
  BY DEF TypeOK, MeterStates
<1>3. MeterClocksApart'
  BY <1>1, <1>2 DEF MintOrderInv, MeterClocksApart, AdvanceEpoch
<1>4. MintFrontier' /\ MintedInReadingOrder'
  BY DEF MintOrderInv, MintFrontier, MintedInReadingOrder, AdvanceEpoch, MeterOf, Batches
<1>5. QED
  BY <1>3, <1>4 DEF MintOrderInv

LEMMA MintMintOrder ==
  ASSUME TypeOK, MintOrderInv, NEW a \in Addrs, NEW r \in Readings,
         NEW s \in Sources, MintEnergy(a, r, s)
  PROVE  MintOrderInv'
<1> DEFINE n == Len(batches) + 1
<1>1. /\ n \in Nat
      /\ Batches = 1 .. n - 1
      /\ Batches' = 1 .. n
      /\ \A i \in Batches : batches'[i] = batches[i]
      /\ batches'[n].reading = r
      /\ meter'[r.meter].lastTs = now
      /\ \A m \in Meters \ {r.meter} : meter'[m] = meter[m]
  BY MintUpdate DEF Batches
<1>2. r.meter \in Meters /\ r.ts \in Nat
  BY ReadingFields
<1>3. \A b \in Batches : /\ batches[b].reading.meter \in Meters
                         /\ batches[b].reading.ts \in Nat
  BY BatchFields DEF TypeOK, Batches
<1>4. \A m \in Meters : meter[m].lastTs \in Nat
  BY DEF TypeOK, MeterStates
<1>5. now \in Nat /\ now > 0 /\ now' = now /\ Tol \in Nat /\ EpochGap \in Nat
  BY LedgerAssumption DEF TypeOK, MintEnergy
<1>6. now > meter[r.meter].lastTs /\ r.ts + Tol >= now /\ r.ts <= now + Tol
  BY DEF MintEnergy, TimestampInRange
<1>7. MeterClocksApart'
  BY <1>1, <1>4, <1>5 DEF MintOrderInv, MeterClocksApart
<1>8. MintFrontier'
  <2>1. \A m \in Meters : /\ meter'[m].lastTs \in Nat
                          /\ meter[m].lastTs <= meter'[m].lastTs
    BY <1>1, <1>4, <1>5, <1>6
  <2>2. SUFFICES ASSUME NEW b \in 1 .. n
                 PROVE  /\ meter'[batches'[b].reading.meter].lastTs > 0
                        /\ batches'[b].reading.ts
                             <= meter'[batches'[b].reading.meter].lastTs + Tol
    BY <1>1 DEF MintFrontier, MeterOf
  <2>3. CASE b = n
    BY <2>3, <1>1, <1>5, <1>6
  <2>4. CASE b # n
    <3>1. b \in Batches /\ batches'[b] = batches[b]
      BY <2>4, <1>1
    <3> DEFINE m == batches[b].reading.meter
    <3>2. /\ m \in Meters
          /\ batches[b].reading.ts \in Nat
          /\ meter[m].lastTs \in Nat
          /\ meter'[m].lastTs \in Nat
          /\ meter[m].lastTs <= meter'[m].lastTs
      BY <3>1, <2>1, <1>3, <1>4
    <3>3. meter[m].lastTs > 0 /\ batches[b].reading.ts <= meter[m].lastTs + Tol
      BY <3>1 DEF MintOrderInv, MintFrontier, MeterOf
    <3> HIDE DEF m
    <3>4. meter'[m].lastTs > 0 /\ batches[b].reading.ts <= meter'[m].lastTs + Tol
      BY <3>2, <3>3, <1>5
    <3>5. QED
      BY <3>1, <3>4 DEF m
  <2>5. QED
    BY <2>3, <2>4
<1>9. MintedInReadingOrder'
  <2>1. SUFFICES ASSUME NEW i \in 1 .. n, NEW j \in 1 .. n, i < j,
                        batches'[i].reading.meter = batches'[j].reading.meter
                 PROVE  batches'[i].reading.ts < batches'[j].reading.ts
    BY <1>1 DEF MintedInReadingOrder, MeterOf
  <2>2. i \in Batches /\ batches'[i] = batches[i]
    BY <2>1, <1>1
  <2>3. CASE j = n
    \* The older batch's reading lies at or below lastTs + Tol, the new one's
    \* at or above now - Tol, and lastTs + EpochGap <= now.
    <3>1. batches[i].reading.meter = r.meter
      BY <2>1, <2>2, <2>3, <1>1
    <3>2. /\ meter[r.meter].lastTs > 0
          /\ batches[i].reading.ts <= meter[r.meter].lastTs + Tol
      BY <2>2, <3>1 DEF MintOrderInv, MintFrontier, MeterOf
    <3>3. meter[r.meter].lastTs \in Nat /\ batches[i].reading.ts \in Nat
      BY <2>2, <1>2, <1>3, <1>4
    <3> DEFINE last == meter[r.meter].lastTs
               old == batches[i].reading.ts
               new == r.ts
    <3>4. last \in {0, now} \/ last + EpochGap <= now
      BY <1>2 DEF MintOrderInv, MeterClocksApart
    <3>5. /\ last \in Nat /\ old \in Nat /\ new \in Nat
          /\ last > 0 /\ old <= last + Tol
          /\ now > last /\ new + Tol >= now
      BY <3>2, <3>3, <1>2, <1>6
    <3> HIDE DEF last, old, new
    <3>6. EpochGap > Tol + Tol
      BY <1>5, EpochAssumption
    <3>7. old < new
      BY <3>4, <3>5, <3>6, <1>5
    <3>8. old = batches[i].reading.ts /\ new = r.ts
      BY DEF old, new
    <3>9. QED
      BY <3>7, <3>8, <2>2, <2>3, <1>1
  <2>4. CASE j # n
    BY <2>1, <2>2, <2>4, <1>1 DEF MintOrderInv, MintedInReadingOrder, MeterOf
  <2>5. QED
    BY <2>3, <2>4
<1>10. QED
  BY <1>7, <1>8, <1>9 DEF MintOrderInv

LEMMA NextMintOrder == TypeOK /\ MintOrderInv /\ [Next]_vars => MintOrderInv'
<1> SUFFICES ASSUME TypeOK, MintOrderInv, [Next]_vars PROVE MintOrderInv'
  OBVIOUS
<1>1. CASE AdvanceEpoch
  BY <1>1, EpochMintOrder
<1>2. CASE AdminNext
  <2>1. now' = now /\ batches' = batches
    BY <1>2 DEF AdminNext, RegisterDevice, CertifyDevice, UpsertKycRecord,
                RemoveKycRecord, PauseMinting, UnpauseMinting
  <2>2. \A m \in Meters : meter'[m].lastTs = meter[m].lastTs
    <3>1. ASSUME NEW m \in Meters, NEW p \in Addrs, RegisterDevice(m, p)
          PROVE  \A o \in Meters : meter'[o].lastTs = meter[o].lastTs
      BY <3>1 DEF RegisterDevice, TypeOK, MeterStates
    <3>2. ASSUME NEW m \in Meters, CertifyDevice(m)
          PROVE  \A o \in Meters : meter'[o].lastTs = meter[o].lastTs
      BY <3>2 DEF CertifyDevice, TypeOK, MeterStates
    <3>3. ASSUME \/ \E a \in Addrs, record \in KycRecords : UpsertKycRecord(a, record)
                 \/ \E a \in Addrs : RemoveKycRecord(a)
                 \/ PauseMinting
                 \/ UnpauseMinting
          PROVE  meter' = meter
      BY <3>3 DEF UpsertKycRecord, RemoveKycRecord, PauseMinting, UnpauseMinting
    <3>4. QED
      BY <1>2, <3>1, <3>2, <3>3 DEF AdminNext
  <2>3. QED
    BY <2>1, <2>2, MintOrderFrame DEF Batches
<1>3. CASE TokenNext
  <2>1. ASSUME NEW a \in Addrs, NEW c \in Addrs, NEW n \in 1 .. coins[a], TransferEnergy(a, c, n)
        PROVE  MintOrderInv'
    BY <2>1, MintOrderFrame DEF TransferEnergy, Batches
  <2>2. QED
    BY <1>3, <2>1, MintMintOrder DEF TokenNext
<1>4. CASE BatchNext
  <2>1. PICK b \in DOMAIN batches :
          \/ \E a \in Addrs : TransferBatch(b, a)
          \/ MarkRedeemed(b)
          \/ ConsumeBatchForBridge(b)
          \/ BurnOnRedemption(b)
    BY <1>4 DEF BatchNext, HolderNext, BridgeNext
  <2>2. now' = now /\ meter' = meter
    BY <2>1 DEF TransferBatch, MarkRedeemed, ConsumeBatchForBridge, BurnOnRedemption
  <2>3. Batches' = Batches /\ \A i \in Batches : batches'[i].reading = batches[i].reading
    <3>1. ASSUME NEW a \in Addrs, TransferBatch(b, a)
          PROVE  Batches' = Batches /\ \A i \in Batches : batches'[i].reading = batches[i].reading
      BY <3>1, TransferUpdate DEF TypeOK, Batches
    <3>2. ASSUME NEW how \in {"burned", "marked", "bridged"}, Retire(b, how)
          PROVE  Batches' = Batches /\ \A i \in Batches : batches'[i].reading = batches[i].reading
      BY <3>2, RetireUpdate DEF TypeOK, Batches
    <3>3. QED
      BY <2>1, <3>1, <3>2 DEF MarkRedeemed, ConsumeBatchForBridge, BurnOnRedemption
  <2>4. QED
    BY <2>2, <2>3, MintOrderFrame
<1>5. CASE UNCHANGED vars
  BY <1>5, MintOrderFrame DEF vars, Batches
<1>6. CASE BorrowedNext
  BY <1>6, BorrowedFrame, MintOrderFrame DEF Batches
<1>7. QED
  BY <1>1, <1>2, <1>3, <1>4, <1>5, <1>6 DEF Next, LedgerNext, BatchNext

\* The meters' clocks are an epoch apart or equal and no batch is newer than its
\* meter's clock allows: why the order of minting holds.
THEOREM MintOrderInvariant == Spec => []MintOrderInv
<1>1. QED
  BY InitMintOrder, NextMintOrder, TypeCorrect, PTL DEF Spec

\* A device's readings are minted in the order it took them, hence each at
\* most once, in every ledger whose epochs are longer than twice the
\* timestamp tolerance.
THEOREM ReadingsMintOnce == Spec => []MintedInReadingOrder
<1>1. MintOrderInv => MintedInReadingOrder
  BY DEF MintOrderInv
<1>2. QED
  BY <1>1, MintOrderInvariant, PTL

-----------------------------------------------------------------------------
(* The life of a batch and the pause, as action properties.                *)

\* No step rewrites what a batch certifies or revives a retired one.
LEMMA StepRetiredOnce ==
  ASSUME TypeOK, [Next]_vars
  PROVE  \A b \in Batches :
           /\ batches'[b].reading = batches[b].reading
           /\ batches'[b].producer = batches[b].producer
           /\ batches[b].state # "live" => batches'[b].state = batches[b].state
<1> DEFINE Kept == \A b \in Batches :
             /\ batches'[b].reading = batches[b].reading
             /\ batches'[b].producer = batches[b].producer
             /\ batches[b].state # "live" => batches'[b].state = batches[b].state
<1>1. ASSUME batches' = batches PROVE Kept
  BY <1>1
<1>2. CASE AdvanceEpoch \/ AdminNext \/ UNCHANGED vars
  BY <1>1, <1>2 DEF AdvanceEpoch, AdminNext, RegisterDevice, CertifyDevice,
       UpsertKycRecord, RemoveKycRecord, PauseMinting, UnpauseMinting, vars
<1>3. CASE TokenNext
  <2>1. ASSUME NEW a \in Addrs, NEW r \in Readings, NEW s \in Sources, MintEnergy(a, r, s)
        PROVE  Kept
    BY <2>1, MintUpdate DEF Batches
  <2>2. ASSUME NEW a \in Addrs, NEW c \in Addrs, NEW n \in 1 .. coins[a], TransferEnergy(a, c, n)
        PROVE  Kept
    BY <1>1, <2>2 DEF TransferEnergy
  <2>3. QED
    BY <1>3, <2>1, <2>2 DEF TokenNext
<1>4. CASE BatchNext
  <2>1. ASSUME NEW b \in DOMAIN batches, NEW a \in Addrs, TransferBatch(b, a)
        PROVE  Kept
    BY <2>1, TransferUpdate DEF TypeOK, Batches
  <2>2. ASSUME NEW b \in DOMAIN batches,
               NEW how \in {"burned", "marked", "bridged"}, Retire(b, how)
        PROVE  Kept
    BY <2>2, RetireUpdate DEF TypeOK, Batches
  <2>3. QED
    BY <1>4, <2>1, <2>2 DEF BatchNext, HolderNext, BridgeNext, MarkRedeemed, ConsumeBatchForBridge, BurnOnRedemption
<1>5. CASE BorrowedNext
  BY <1>1, <1>5, BorrowedFrame
<1>6. QED
  BY <1>2, <1>3, <1>4, <1>5 DEF Next, LedgerNext, BatchNext

\* A batch leaves the market once and for one purpose, in every ledger.
THEOREM BatchesRetireOnce == Spec => RetiredOnce
<1>1. QED
  BY StepRetiredOnce, TypeCorrect, PTL DEF Spec, RetiredOnce

\* No step removes a batch from the history.
LEMMA BatchesStay ==
  ASSUME TypeOK, [Next]_vars
  PROVE  Batches \subseteq Batches'
<1>1. CASE AdvanceEpoch \/ AdminNext \/ UNCHANGED vars
  BY <1>1 DEF AdvanceEpoch, AdminNext, RegisterDevice, CertifyDevice, UpsertKycRecord,
       RemoveKycRecord, PauseMinting, UnpauseMinting, vars, Batches
<1>2. CASE TokenNext
  <2>1. ASSUME NEW a \in Addrs, NEW r \in Readings, NEW s \in Sources, MintEnergy(a, r, s)
        PROVE  Batches \subseteq Batches'
    BY <2>1, MintUpdate DEF Batches
  <2>2. ASSUME NEW a \in Addrs, NEW c \in Addrs, NEW n \in 1 .. coins[a], TransferEnergy(a, c, n)
        PROVE  Batches \subseteq Batches'
    BY <2>2 DEF TransferEnergy, Batches
  <2>3. QED
    BY <1>2, <2>1, <2>2 DEF TokenNext
<1>3. CASE BatchNext
  <2>1. ASSUME NEW b \in DOMAIN batches, NEW a \in Addrs, TransferBatch(b, a)
        PROVE  Batches \subseteq Batches'
    BY <2>1, TransferUpdate DEF TypeOK, Batches
  <2>2. ASSUME NEW b \in DOMAIN batches,
               NEW how \in {"burned", "marked", "bridged"}, Retire(b, how)
        PROVE  Batches \subseteq Batches'
    BY <2>2, RetireUpdate DEF TypeOK, Batches
  <2>3. QED
    BY <1>3, <2>1, <2>2 DEF BatchNext, HolderNext, BridgeNext, MarkRedeemed,
         ConsumeBatchForBridge, BurnOnRedemption
<1>4. CASE BorrowedNext
  BY <1>4, BorrowedFrame DEF Batches
<1>5. QED
  BY <1>1, <1>2, <1>3, <1>4 DEF Next, LedgerNext, BatchNext

LEMMA PausedStepKeepsSupply ==
  ASSUME TypeOK, [Next]_vars, paused
  PROVE  MeteredSupply' = MeteredSupply
<1>1. ASSUME supply' = supply, outside' = outside
      PROVE  MeteredSupply' = MeteredSupply
  BY <1>1 DEF MeteredSupply
<1>2. CASE AdvanceEpoch \/ AdminNext \/ UNCHANGED vars
  BY <1>1, <1>2 DEF AdvanceEpoch, AdminNext, RegisterDevice, CertifyDevice,
       UpsertKycRecord, RemoveKycRecord, PauseMinting, UnpauseMinting, vars
<1>3. CASE TokenNext
  BY <1>1, <1>3 DEF TokenNext, MintEnergy, NotPaused, TransferEnergy
<1>4. CASE BatchNext
  BY <1>1, <1>4 DEF BatchNext, HolderNext, BridgeNext, TransferBatch, MarkRedeemed,
       ConsumeBatchForBridge, BurnOnRedemption, NotPaused
<1>5. CASE BorrowedNext
  BY <1>5, BorrowedFrame
<1>6. QED
  BY <1>2, <1>3, <1>4, <1>5 DEF Next, LedgerNext, BatchNext

\* While the guard is paused no call changes the supply by a unit more or less
\* than what went through the borrowed cap.
THEOREM PauseStopsSupply == Spec => PauseFreezesSupply
BY PausedStepKeepsSupply, TypeCorrect, PTL DEF Spec, PauseFreezesSupply

-----------------------------------------------------------------------------
(* The ledger implements EnergyCertificates.                               *)

\* Two batches never certify the same reading.
LEMMA OneBatchPerReading ==
  ASSUME TypeOK, MintedInReadingOrder, NEW i \in Batches, NEW j \in Batches, i # j
  PROVE  batches[i].reading # batches[j].reading
<1>1. i \in Nat /\ j \in Nat
  BY LenProperties DEF TypeOK, Batches
<1>2. batches[i].reading.ts \in Nat /\ batches[j].reading.ts \in Nat
  BY BatchFields DEF TypeOK, Batches
<1>3. CASE i < j
  <2>1. batches[i].reading.meter = batches[j].reading.meter
          => batches[i].reading.ts < batches[j].reading.ts
    BY <1>3 DEF MintedInReadingOrder, MeterOf
  <2>2. QED
    BY <2>1, <1>2
<1>4. CASE j < i
  <2>1. batches[i].reading.meter = batches[j].reading.meter
          => batches[j].reading.ts < batches[i].reading.ts
    BY <1>4 DEF MintedInReadingOrder, MeterOf
  <2>2. QED
    BY <2>1, <1>2
<1>5. QED
  BY <1>1, <1>3, <1>4

\* Steps that leave the metered supply and the batches' readings and states alone
\* are stutters of EnergyCertificates.
LEMMA CertificateStutter ==
  ASSUME MeteredSupply' = MeteredSupply, Batches' = Batches,
         \A b \in Batches : /\ batches'[b].reading = batches[b].reading
                            /\ batches'[b].state = batches[b].state
  PROVE  UNCHANGED Certificates!certVars
<1>1. {batches'[b].reading : b \in Batches'} = {batches[b].reading : b \in Batches}
  OBVIOUS
<1>2. ASSUME NEW states PROVE ReadingsIn(states)' = ReadingsIn(states)
  BY DEF ReadingsIn
<1>3. /\ ReadingsIn({"burned"})' = ReadingsIn({"burned"})
      /\ ReadingsIn({"marked", "bridged"})' = ReadingsIn({"marked", "bridged"})
  BY <1>2
<1>4. QED
  BY <1>1, <1>3 DEF Certificates!certVars

\* What went through the borrowed cap is counted in naturals.
LEMMA OutsideFields ==
  ASSUME TypeOK
  PROVE  outside.minted \in Nat /\ outside.burned \in Nat /\ supply \in Nat
BY LedgerAssumption DEF TypeOK

\* A mint adds the reading's tokens to the metered supply, a burn with a batch takes
\* from it what it burns.
LEMMA MintIsMetered ==
  ASSUME TypeOK, NEW a \in Addrs, NEW r \in Readings, NEW s \in Sources, MintEnergy(a, r, s)
  PROVE  MeteredSupply' = MeteredSupply + Amount(r)
<1>1. supply' = supply + Amount(r) /\ outside' = outside
  BY DEF MintEnergy
<1>2. QED
  BY <1>1, OutsideFields, ReadingFields DEF MeteredSupply

LEMMA BurnIsMetered ==
  ASSUME TypeOK, NEW a, NEW n \in Nat, BurnCoins(a, n), outside' = outside
  PROVE  MeteredSupply' = MeteredSupply - n
<1>1. supply' = supply - n
  BY DEF BurnCoins
<1>2. QED
  BY <1>1, OutsideFields DEF MeteredSupply

\* A mint issues the reading's certificate.
LEMMA MintIssues ==
  ASSUME TypeOK, MintOrderInv, NEW a \in Addrs, NEW r \in Readings,
         NEW s \in Sources, MintEnergy(a, r, s)
  PROVE  Certificates!Issue(r)
<1> DEFINE n == Len(batches) + 1
<1>1. /\ Len(batches) \in Nat
      /\ batches' \in Seq(BatchStates)
      /\ Batches = 1 .. Len(batches)
      /\ Batches' = 1 .. n
      /\ \A b \in Batches : batches'[b] = batches[b]
      /\ batches'[n].reading = r
      /\ batches'[n].state = "live"
  BY MintUpdate DEF Batches
<1>2. TypeOK' /\ MintedInReadingOrder'
  BY NextTypeOK, MintMintOrder DEF Next, LedgerNext, TokenNext, MintOrderInv
<1>3. ASSUME NEW b \in Batches PROVE batches[b].reading # r
  <2>1. b \in Nat /\ b < n /\ b \in Batches' /\ n \in Batches'
    BY <1>1
  <2>2. batches'[b].reading.meter = batches'[n].reading.meter
          => batches'[b].reading.ts < batches'[n].reading.ts
    BY <1>2, <2>1 DEF MintedInReadingOrder, MeterOf
  <2>3. r.ts \in Nat
    BY ReadingFields
  <2>4. QED
    BY <1>1, <2>2, <2>3
<1>4. {batches'[b].reading : b \in Batches'} = {batches[b].reading : b \in Batches} \cup {r}
  BY <1>1
<1>5. ASSUME NEW states, "live" \notin states
      PROVE  ReadingsIn(states)' = ReadingsIn(states)
  BY <1>1, <1>5 DEF ReadingsIn
<1>6. /\ ReadingsIn({"burned"})' = ReadingsIn({"burned"})
      /\ ReadingsIn({"marked", "bridged"})' = ReadingsIn({"marked", "bridged"})
  BY <1>5
<1>7. MeteredSupply' = MeteredSupply + Amount(r)
  BY MintIsMetered
<1>8. r \notin {batches[b].reading : b \in Batches}
  BY <1>3
<1>9. QED
  BY <1>4, <1>6, <1>7, <1>8 DEF Certificates!Issue, Certificates!Tokens, Amount

\* Retiring a batch moves its reading, and no other, into the retired set.
LEMMA RetireMovesReading ==
  ASSUME TypeOK, MintedInReadingOrder, NEW b \in Batches,
         NEW how \in {"burned", "marked", "bridged"}, Retire(b, how)
  PROVE  /\ {batches'[i].reading : i \in Batches'} = {batches[i].reading : i \in Batches}
         /\ batches[b].reading \in Certificates!Live
         /\ how = "burned" =>
              /\ ReadingsIn({"burned"})' = ReadingsIn({"burned"}) \cup {batches[b].reading}
              /\ ReadingsIn({"marked", "bridged"})' = ReadingsIn({"marked", "bridged"})
         /\ how # "burned" =>
              /\ ReadingsIn({"burned"})' = ReadingsIn({"burned"})
              /\ ReadingsIn({"marked", "bridged"})'
                   = ReadingsIn({"marked", "bridged"}) \cup {batches[b].reading}
<1>1. /\ Batches' = Batches
      /\ batches[b].state = "live"
      /\ batches'[b].state = how
      /\ \A i \in Batches : /\ batches'[i].reading = batches[i].reading
                            /\ i # b => batches'[i] = batches[i]
  BY RetireUpdate DEF TypeOK, Batches
<1>2. \A i \in Batches \ {b} : batches[i].reading # batches[b].reading
  BY OneBatchPerReading
<1>3. {batches'[i].reading : i \in Batches'} = {batches[i].reading : i \in Batches}
  BY <1>1
<1>4. ASSUME NEW states, "live" \notin states
      PROVE  batches[b].reading \notin ReadingsIn(states)
  BY <1>1, <1>2, <1>4 DEF ReadingsIn
<1>5. batches[b].reading \in Certificates!Live
  BY <1>4 DEF Certificates!Live
<1>6. ASSUME NEW states, "live" \notin states, how \notin states
      PROVE  ReadingsIn(states)' = ReadingsIn(states)
  BY <1>1, <1>6 DEF ReadingsIn
<1>7. ASSUME NEW states, how \in states
      PROVE  ReadingsIn(states)' = ReadingsIn(states) \cup {batches[b].reading}
  BY <1>1, <1>7 DEF ReadingsIn
<1>8. QED
  BY <1>3, <1>5, <1>6, <1>7

-----------------------------------------------------------------------------
(* Energy is neither made nor lost.  Each step moves at most two terms or   *)
(* one index of the sums, and by the same amount as the figure beside them. *)

\* The sums range over finite sets of naturals.
LEMMA SumsAreDefined ==
  ASSUME TypeOK
  PROVE  /\ IsFiniteSet(Batches) /\ IsFiniteSet(Unburned)
         /\ \A m \in Meters : IsFiniteSet(MintedFrom(m))
         /\ IsFiniteSet(Addrs)
         /\ \A b \in Batches : BatchTokens[b] \in Nat /\ BatchKwh[b] \in Nat
         /\ \A a \in Addrs : coins[a] \in Nat
         /\ supply \in Nat
<1>1. Batches = 1 .. Len(batches) /\ Len(batches) \in Nat
  BY LenProperties DEF TypeOK, Batches
<1>2. IsFiniteSet(Batches)
  BY <1>1, FS_Interval
<1>3. IsFiniteSet(Unburned) /\ \A m \in Meters : IsFiniteSet(MintedFrom(m))
  BY <1>2, FS_Subset DEF Unburned, MintedFrom
<1>4. \A b \in Batches : BatchTokens[b] \in Nat /\ BatchKwh[b] \in Nat
  BY BatchFields, ReadingFields DEF TypeOK, Batches, BatchTokens, BatchKwh, KwhOf
<1>5. IsFiniteSet(Addrs) /\ supply \in Nat
  BY LedgerAssumption DEF TypeOK
<1>6. QED
  BY <1>2, <1>3, <1>4, <1>5 DEF TypeOK

LEMMA InitEnergy == Init => EnergyAddsUp
<1> SUFFICES ASSUME Init PROVE EnergyAddsUp
  OBVIOUS
<1>1. Batches = {} /\ Unburned = {} /\ \A m \in Meters : MintedFrom(m) = {}
  BY DEF Init, Batches, Unburned, MintedFrom
<1>2. SumFunctionOnSet(coins, Addrs) = 0
  BY SumZero, LedgerAssumption DEF Init
<1>3. QED
  BY <1>1, <1>2, SumEmpty DEF Init, EnergyAddsUp, EnergyConserved, MeterTotalsMatchBatches

\* Sums over batches that a step keeps with their readings stay.
LEMMA BatchSumsStay ==
  ASSUME TypeOK, NEW S \in SUBSET Batches, Batches \subseteq Batches',
         \A b \in Batches : batches'[b].reading = batches[b].reading
  PROVE  /\ SumFunctionOnSet(BatchTokens', S) = SumFunctionOnSet(BatchTokens, S)
         /\ SumFunctionOnSet(BatchKwh', S) = SumFunctionOnSet(BatchKwh, S)
<1>1. IsFiniteSet(S)
  BY SumsAreDefined, FS_Subset
<1>2. \A b \in S : BatchTokens'[b] = BatchTokens[b] /\ BatchKwh'[b] = BatchKwh[b]
  BY DEF BatchTokens, BatchKwh, KwhOf
<1>3. QED
  BY <1>1, <1>2, SumSame

\* A step that keeps the batches' readings and the meters' totals keeps the
\* totals' sums.
LEMMA MeterTotalsFrame ==
  ASSUME TypeOK, MeterTotalsMatchBatches, Batches' = Batches,
         \A b \in Batches : batches'[b].reading = batches[b].reading,
         \A m \in Meters : meter'[m].totalKwh = meter[m].totalKwh
  PROVE  MeterTotalsMatchBatches'
<1> SUFFICES ASSUME NEW m \in Meters
             PROVE  meter'[m].totalKwh = SumFunctionOnSet(BatchKwh', MintedFrom(m)')
  BY DEF MeterTotalsMatchBatches
<1>1. MintedFrom(m)' = MintedFrom(m) /\ MintedFrom(m) \in SUBSET Batches
  BY DEF MintedFrom, MeterOf
<1>2. SumFunctionOnSet(BatchKwh', MintedFrom(m)) = SumFunctionOnSet(BatchKwh, MintedFrom(m))
  BY <1>1, BatchSumsStay
<1>3. QED
  BY <1>1, <1>2 DEF MeterTotalsMatchBatches

\* A step that keeps the wallets, the supply, what went through the borrowed cap and
\* what is unburned conserves energy.
LEMMA EnergyFrame ==
  ASSUME TypeOK, EnergyAddsUp, coins' = coins, supply' = supply, outside' = outside,
         Batches' = Batches, Unburned' = Unburned,
         \A b \in Batches : batches'[b].reading = batches[b].reading,
         \A m \in Meters : meter'[m].totalKwh = meter[m].totalKwh
  PROVE  EnergyAddsUp'
<1>1. SumFunctionOnSet(BatchTokens', Unburned) = SumFunctionOnSet(BatchTokens, Unburned)
  BY BatchSumsStay DEF Unburned
<1>2. QED
  BY <1>1, MeterTotalsFrame DEF EnergyAddsUp, EnergyConserved

\* A mint adds the reading's energy to a wallet, the supply, the meter and the
\* batches.
LEMMA MintEnergyAddsUp ==
  ASSUME TypeOK, EnergyAddsUp, NEW a \in Addrs, NEW r \in Readings,
         NEW s \in Sources, MintEnergy(a, r, s), TypeOK'
  PROVE  EnergyAddsUp'
<1> DEFINE n == Len(batches) + 1
<1>1. /\ Len(batches) \in Nat
      /\ Batches = 1 .. Len(batches) /\ Batches' = 1 .. n
      /\ \A i \in Batches : batches'[i] = batches[i]
      /\ batches'[n].reading = r /\ batches'[n].state = "live"
  BY MintUpdate DEF Batches
<1>2. n \notin Batches /\ Batches' = Batches \cup {n} /\ Batches \subseteq Batches'
  BY <1>1
<1>3. r.meter \in Meters /\ r.kwh \in Nat /\ Amount(r) \in Nat
  BY ReadingFields
<1>4. BatchTokens'[n] = Amount(r) /\ BatchKwh'[n] = r.kwh
  BY <1>1, <1>2 DEF BatchTokens, BatchKwh, KwhOf
<1>5. \A b \in Batches' : BatchTokens'[b] \in Nat /\ BatchKwh'[b] \in Nat
  <2>1. \A b \in Batches : BatchTokens'[b] = BatchTokens[b] /\ BatchKwh'[b] = BatchKwh[b]
    BY <1>1, <1>2 DEF BatchTokens, BatchKwh, KwhOf
  <2>2. \A b \in Batches : BatchTokens[b] \in Nat /\ BatchKwh[b] \in Nat
    BY SumsAreDefined
  <2>3. BatchTokens'[n] \in Nat /\ BatchKwh'[n] \in Nat
    BY <1>3, <1>4
  <2> HIDE DEF n
  <2>4. QED
    BY <1>2, <2>1, <2>2, <2>3
<1>6. supply' = SumFunctionOnSet(coins', Addrs)
  <2>1. coins' = [coins EXCEPT ![a] = @ + Amount(r)] /\ supply' = supply + Amount(r)
    BY DEF MintEnergy
  <2>2. /\ coins \in [Addrs -> Nat] /\ coins' \in [Addrs -> Nat]
        /\ coins'[a] = coins[a] + Amount(r)
        /\ \A c \in Addrs \ {a} : coins[c] = coins'[c]
    BY <2>1 DEF TypeOK
  <2>3. SumFunctionOnSet(coins', Addrs) + coins[a] = SumFunctionOnSet(coins, Addrs) + coins'[a]
    BY <2>2, SumUpdate, SumsAreDefined
  <2>4. SumFunctionOnSet(coins', Addrs) \in Nat
    BY <2>2, SumsAreDefined, SumRemove
  <2>5. supply = SumFunctionOnSet(coins, Addrs) /\ supply \in Nat
    BY SumsAreDefined DEF EnergyAddsUp, EnergyConserved
  <2>6. QED
    BY <1>3, <2>1, <2>2, <2>3, <2>4, <2>5
<1>7. ASSUME NEW S \in SUBSET Batches
      PROVE  /\ SumFunctionOnSet(BatchTokens', S \cup {n})
                  = SumFunctionOnSet(BatchTokens, S) + Amount(r)
             /\ SumFunctionOnSet(BatchKwh', S \cup {n})
                  = SumFunctionOnSet(BatchKwh, S) + r.kwh
  <2>1. /\ SumFunctionOnSet(BatchTokens', S) = SumFunctionOnSet(BatchTokens, S)
        /\ SumFunctionOnSet(BatchKwh', S) = SumFunctionOnSet(BatchKwh, S)
    BY <1>1, <1>2, BatchSumsStay
  <2>2. IsFiniteSet(S)
    BY SumsAreDefined, FS_Subset
  <2>3. /\ SumFunctionOnSet(BatchTokens, S) \in Nat
        /\ SumFunctionOnSet(BatchKwh, S) \in Nat
    BY <2>2, SumsAreDefined, SumRemove
  <2>4. n \notin S /\ \A b \in S \cup {n} : BatchTokens'[b] \in Nat /\ BatchKwh'[b] \in Nat
    BY <1>2, <1>5
  <2>5. /\ SumFunctionOnSet(BatchTokens', S \cup {n})
             = BatchTokens'[n] + SumFunctionOnSet(BatchTokens', S)
        /\ SumFunctionOnSet(BatchKwh', S \cup {n})
             = BatchKwh'[n] + SumFunctionOnSet(BatchKwh', S)
    <3> HIDE DEF n
    <3>1. QED
      BY <2>2, <2>4, SumAdd
  <2>6. QED
    BY <1>3, <1>4, <2>1, <2>3, <2>5
<1>8. supply' + outside'.burned = SumFunctionOnSet(BatchTokens', Unburned') + outside'.minted
  <2>1. Unburned' = Unburned \cup {n} /\ Unburned \in SUBSET Batches
    BY <1>1, <1>2 DEF Unburned
  <2>2. supply' = supply + Amount(r) /\ outside' = outside
    BY DEF MintEnergy
  <2>3. SumFunctionOnSet(BatchTokens, Unburned) \in Nat
    BY <2>1, SumsAreDefined, SumRemove
  <2>4. SumFunctionOnSet(BatchTokens', Unburned')
          = SumFunctionOnSet(BatchTokens, Unburned) + Amount(r)
    BY <1>7, <2>1
  <2>5. supply + outside.burned = SumFunctionOnSet(BatchTokens, Unburned) + outside.minted
    BY DEF EnergyAddsUp, EnergyConserved
  <2>6. supply \in Nat /\ outside.minted \in Nat /\ outside.burned \in Nat
    BY OutsideFields, SumsAreDefined
  <2>7. QED
    BY <1>3, <2>2, <2>3, <2>4, <2>5, <2>6
<1>9. MeterTotalsMatchBatches'
  <2> SUFFICES ASSUME NEW m \in Meters
               PROVE  meter'[m].totalKwh = SumFunctionOnSet(BatchKwh', MintedFrom(m)')
    BY DEF MeterTotalsMatchBatches
  <2>1. /\ MintedFrom(m) \in SUBSET Batches
        /\ meter[m].totalKwh = SumFunctionOnSet(BatchKwh, MintedFrom(m))
    BY DEF MintedFrom, EnergyAddsUp, MeterTotalsMatchBatches
  <2>2. /\ meter' = [meter EXCEPT ![r.meter].totalKwh = @ + r.kwh,
                                  ![r.meter].lastTs = now]
        /\ meter \in [Meters -> MeterStates]
    BY DEF MintEnergy, UpdateMeterReading, TypeOK
  <2>3. CASE m = r.meter
    <3>1. MintedFrom(m)' = MintedFrom(m) \cup {n}
      BY <1>1, <1>2, <2>3 DEF MintedFrom, MeterOf
    <3>2. meter'[m].totalKwh = meter[m].totalKwh + r.kwh
      BY <2>2, <2>3 DEF MeterStates
    <3>3. QED
      BY <1>7, <2>1, <3>1, <3>2
  <2>4. CASE m # r.meter
    <3>1. MintedFrom(m)' = MintedFrom(m)
      BY <1>1, <1>2, <2>4 DEF MintedFrom, MeterOf
    <3>2. meter'[m].totalKwh = meter[m].totalKwh
      BY <2>2, <2>4
    <3>3. SumFunctionOnSet(BatchKwh', MintedFrom(m)) = SumFunctionOnSet(BatchKwh, MintedFrom(m))
      BY <1>1, <1>2, <2>1, BatchSumsStay
    <3>4. QED
      BY <2>1, <3>1, <3>2, <3>3
  <2>5. QED
    BY <2>3, <2>4
<1>10. QED
  BY <1>6, <1>8, <1>9 DEF EnergyAddsUp, EnergyConserved

\* A transfer takes from one wallet what it adds to another.
LEMMA TransferAddsUp ==
  ASSUME TypeOK, EnergyAddsUp, NEW a \in Addrs, NEW c \in Addrs,
         NEW n \in 1 .. coins[a], TransferEnergy(a, c, n)
  PROVE  EnergyAddsUp'
<1> DEFINE paid == [coins EXCEPT ![a] = @ - n]
<1>1. /\ a # c /\ n \in Nat /\ n <= coins[a]
      /\ coins' = [coins EXCEPT ![a] = @ - n, ![c] = @ + n]
      /\ coins \in [Addrs -> Nat]
  BY DEF TransferEnergy, TypeOK
<1>2. /\ paid \in [Addrs -> Nat] /\ coins' \in [Addrs -> Nat]
      /\ paid[a] = coins[a] - n /\ \A x \in Addrs \ {a} : coins[x] = paid[x]
      /\ coins'[c] = paid[c] + n /\ \A x \in Addrs \ {c} : paid[x] = coins'[x]
  BY <1>1
<1> HIDE DEF paid
<1>3. /\ SumFunctionOnSet(paid, Addrs) + coins[a] = SumFunctionOnSet(coins, Addrs) + paid[a]
      /\ SumFunctionOnSet(coins', Addrs) + paid[c] = SumFunctionOnSet(paid, Addrs) + coins'[c]
  <2>1. IsFiniteSet(Addrs) /\ a \in Addrs /\ c \in Addrs
    BY SumsAreDefined
  <2>2. \A x \in Addrs : coins[x] \in Nat /\ paid[x] \in Nat /\ coins'[x] \in Nat
    BY <1>1, <1>2
  <2>3. SumFunctionOnSet(paid, Addrs) + coins[a] = SumFunctionOnSet(coins, Addrs) + paid[a]
    BY <1>2, <2>1, <2>2, SumUpdate
  <2>4. SumFunctionOnSet(coins', Addrs) + paid[c] = SumFunctionOnSet(paid, Addrs) + coins'[c]
    BY <1>2, <2>1, <2>2, SumUpdate
  <2>5. QED
    BY <2>3, <2>4
<1>4. /\ SumFunctionOnSet(paid, Addrs) \in Nat
      /\ SumFunctionOnSet(coins', Addrs) \in Nat
      /\ SumFunctionOnSet(coins, Addrs) \in Nat
  BY <1>1, <1>2, SumRemove, SumsAreDefined
<1>5. SumFunctionOnSet(coins', Addrs) = SumFunctionOnSet(coins, Addrs)
  <2>1. coins[a] \in Nat /\ paid[c] \in Nat
    BY <1>1, <1>2
  <2>2. QED
    BY <1>1, <1>2, <1>3, <1>4, <2>1
<1>6. supply' = supply /\ batches' = batches /\ meter' = meter /\ outside' = outside
  BY DEF TransferEnergy
<1>7. SumFunctionOnSet(BatchTokens', Unburned') = SumFunctionOnSet(BatchTokens, Unburned)
  BY <1>6 DEF BatchTokens, Unburned, Batches
<1>8. MeterTotalsMatchBatches'
  BY <1>6, MeterTotalsFrame DEF EnergyAddsUp, Batches
<1>9. QED
  BY <1>5, <1>6, <1>7, <1>8 DEF EnergyAddsUp, EnergyConserved

\* A burn that goes with its batch takes the batch's energy from a wallet, from
\* the supply and from the unburned batches.
LEMMA BurnAddsUp ==
  ASSUME TypeOK, EnergyAddsUp, NEW b \in Batches, NEW a \in Addrs, Retire(b, "burned"),
         BurnCoins(a, Amount(batches[b].reading)), meter' = meter, outside' = outside
  PROVE  EnergyAddsUp'
<1> DEFINE n == Amount(batches[b].reading)
<1>1. /\ Batches' = Batches
      /\ batches[b].state = "live" /\ batches'[b].state = "burned"
      /\ \A i \in Batches : /\ batches'[i].reading = batches[i].reading
                            /\ i # b => batches'[i] = batches[i]
  BY RetireUpdate DEF TypeOK, Batches
<1>2. n \in Nat /\ BatchTokens[b] = n
  BY BatchFields DEF TypeOK, Batches, BatchTokens
<1>3. /\ coins' = [coins EXCEPT ![a] = @ - n] /\ n <= coins[a]
      /\ supply' = supply - n /\ n <= supply
      /\ coins \in [Addrs -> Nat] /\ supply \in Nat
  BY SumsAreDefined DEF BurnCoins, TypeOK
<1> HIDE DEF n
<1>4. supply' = SumFunctionOnSet(coins', Addrs)
  <2>1. /\ coins' \in [Addrs -> Nat] /\ coins'[a] = coins[a] - n
        /\ \A c \in Addrs \ {a} : coins[c] = coins'[c]
    BY <1>2, <1>3
  <2>2. SumFunctionOnSet(coins', Addrs) + coins[a] = SumFunctionOnSet(coins, Addrs) + coins'[a]
    <3>1. IsFiniteSet(Addrs) /\ \A x \in Addrs : coins[x] \in Nat /\ coins'[x] \in Nat
      BY <1>3, <2>1, SumsAreDefined
    <3>2. QED
      BY <2>1, <3>1, SumUpdate
  <2>3. SumFunctionOnSet(coins', Addrs) \in Nat /\ coins[a] \in Nat
    BY <1>3, <2>1, SumsAreDefined, SumRemove
  <2>4. supply = SumFunctionOnSet(coins, Addrs)
    BY DEF EnergyAddsUp, EnergyConserved
  <2>5. QED
    BY <1>2, <1>3, <2>1, <2>2, <2>3, <2>4
<1>5. supply' + outside'.burned = SumFunctionOnSet(BatchTokens', Unburned') + outside'.minted
  <2>1. b \in Unburned /\ Unburned' = Unburned \ {b} /\ Unburned \subseteq Batches
    BY <1>1 DEF Unburned
  <2>2. SumFunctionOnSet(BatchTokens', Unburned \ {b}) = SumFunctionOnSet(BatchTokens, Unburned \ {b})
    BY <1>1, <2>1, BatchSumsStay
  <2>3. /\ SumFunctionOnSet(BatchTokens, Unburned)
             = BatchTokens[b] + SumFunctionOnSet(BatchTokens, Unburned \ {b})
        /\ IsFiniteSet(Unburned \ {b})
    BY <2>1, SumsAreDefined, SumRemove, FS_Subset
  <2>4. SumFunctionOnSet(BatchTokens, Unburned \ {b}) \in Nat
    BY <2>1, <2>3, SumsAreDefined, SumRemove
  <2>5. supply + outside.burned = SumFunctionOnSet(BatchTokens, Unburned) + outside.minted
    BY DEF EnergyAddsUp, EnergyConserved
  <2>6. outside.minted \in Nat /\ outside.burned \in Nat
    BY OutsideFields
  <2>7. SumFunctionOnSet(BatchTokens', Unburned') = SumFunctionOnSet(BatchTokens, Unburned \ {b})
    BY <2>1, <2>2
  <2>8. QED
    BY <1>2, <1>3, <2>3, <2>4, <2>5, <2>6, <2>7
<1>6. MeterTotalsMatchBatches'
  BY <1>1, MeterTotalsFrame DEF EnergyAddsUp
<1>7. QED
  BY <1>4, <1>5, <1>6 DEF EnergyAddsUp, EnergyConserved

\* What the borrowed cap mints or burns is in the wallets and in the supply, and
\* is counted apart from the batches' energy.
LEMMA BorrowedAddsUp ==
  ASSUME TypeOK, EnergyAddsUp, BorrowedNext, TypeOK'
  PROVE  EnergyAddsUp'
<1>1. meter' = meter /\ batches' = batches /\ MeteredSupply' = MeteredSupply
  BY BorrowedFrame
<1>2. MeterTotalsMatchBatches'
  BY <1>1, MeterTotalsFrame DEF EnergyAddsUp, Batches
<1>3. SumFunctionOnSet(BatchTokens', Unburned') = SumFunctionOnSet(BatchTokens, Unburned)
  BY <1>1 DEF BatchTokens, Unburned, Batches
<1>4. /\ supply \in Nat /\ outside.minted \in Nat /\ outside.burned \in Nat
      /\ supply' \in Nat /\ outside'.minted \in Nat /\ outside'.burned \in Nat
      /\ SumFunctionOnSet(BatchTokens, Unburned) \in Nat
  <2>1. \A b \in Unburned : BatchTokens[b] \in Nat
    BY SumsAreDefined DEF Unburned
  <2>2. SumFunctionOnSet(BatchTokens, Unburned) \in Nat
    BY <2>1, SumsAreDefined, SumRemove
  <2>3. QED
    BY <2>2, LedgerAssumption DEF TypeOK
<1>5. supply' + outside'.burned = SumFunctionOnSet(BatchTokens', Unburned') + outside'.minted
  BY <1>1, <1>3, <1>4 DEF EnergyAddsUp, EnergyConserved, MeteredSupply
<1>6. PICK a \in Addrs : /\ coins'[a] \in Nat
                         /\ supply' + coins[a] = supply + coins'[a]
                         /\ \A c \in Addrs \ {a} : coins[c] = coins'[c]
  <2>1. coins \in [Addrs -> Nat] /\ MaxBorrowed \in Nat
    BY LedgerAssumption DEF TypeOK
  <2>2. ASSUME NEW a \in Addrs, NEW n \in 1 .. MaxBorrowed, MintBorrowed(a, n)
        PROVE  /\ coins'[a] \in Nat
               /\ supply' + coins[a] = supply + coins'[a]
               /\ \A c \in Addrs \ {a} : coins[c] = coins'[c]
    BY <1>4, <2>1, <2>2 DEF MintBorrowed
  <2>3. ASSUME NEW a \in Addrs, NEW n \in 1 .. coins[a], BurnBorrowed(a, n)
        PROVE  /\ coins'[a] \in Nat
               /\ supply' + coins[a] = supply + coins'[a]
               /\ \A c \in Addrs \ {a} : coins[c] = coins'[c]
    BY <1>4, <2>1, <2>3 DEF BurnBorrowed, BurnCoins
  <2>4. QED
    BY <2>2, <2>3 DEF BorrowedNext
<1>7. supply' = SumFunctionOnSet(coins', Addrs)
  <2>1. /\ IsFiniteSet(Addrs)
        /\ \A x \in Addrs : coins[x] \in Nat /\ coins'[x] \in Nat
    BY SumsAreDefined DEF TypeOK
  <2>2. SumFunctionOnSet(coins', Addrs) + coins[a] = SumFunctionOnSet(coins, Addrs) + coins'[a]
    BY <1>6, <2>1, SumUpdate
  <2>3. SumFunctionOnSet(coins', Addrs) \in Nat /\ supply = SumFunctionOnSet(coins, Addrs)
    BY <2>1, SumRemove DEF EnergyAddsUp, EnergyConserved
  <2>4. QED
    BY <1>4, <1>6, <2>1, <2>2, <2>3
<1>8. QED
  BY <1>2, <1>5, <1>7 DEF EnergyAddsUp, EnergyConserved

LEMMA NextEnergy ==
  ASSUME TypeOK, EnergyAddsUp, [Next]_vars
  PROVE  EnergyAddsUp'
<1>1. CASE AdvanceEpoch \/ UNCHANGED vars
  BY <1>1, EnergyFrame DEF AdvanceEpoch, vars, Batches, Unburned
<1>2. CASE AdminNext
  <2>1. coins' = coins /\ supply' = supply /\ batches' = batches /\ outside' = outside
    BY <1>2 DEF AdminNext, RegisterDevice, CertifyDevice, UpsertKycRecord,
                RemoveKycRecord, PauseMinting, UnpauseMinting
  <2>2. \A m \in Meters : meter'[m].totalKwh = meter[m].totalKwh
    <3>1. ASSUME NEW m \in Meters, NEW p \in Addrs, RegisterDevice(m, p)
          PROVE  \A o \in Meters : meter'[o].totalKwh = meter[o].totalKwh
      BY <3>1 DEF RegisterDevice, TypeOK, MeterStates
    <3>2. ASSUME NEW m \in Meters, CertifyDevice(m)
          PROVE  \A o \in Meters : meter'[o].totalKwh = meter[o].totalKwh
      BY <3>2 DEF CertifyDevice, TypeOK, MeterStates
    <3>3. ASSUME \/ \E a \in Addrs, record \in KycRecords : UpsertKycRecord(a, record)
                 \/ \E a \in Addrs : RemoveKycRecord(a)
                 \/ PauseMinting
                 \/ UnpauseMinting
          PROVE  meter' = meter
      BY <3>3 DEF UpsertKycRecord, RemoveKycRecord, PauseMinting, UnpauseMinting
    <3>4. QED
      BY <1>2, <3>1, <3>2, <3>3 DEF AdminNext
  <2>3. QED
    BY <2>1, <2>2, EnergyFrame DEF Batches, Unburned
<1>3. CASE TokenNext
  BY <1>3, NextTypeOK, MintEnergyAddsUp, TransferAddsUp DEF TokenNext
<1>4. CASE BatchNext
  <2>1. PICK b \in DOMAIN batches :
          \/ \E a \in Addrs : TransferBatch(b, a)
          \/ MarkRedeemed(b)
          \/ ConsumeBatchForBridge(b)
          \/ BurnOnRedemption(b)
    BY <1>4 DEF BatchNext, HolderNext, BridgeNext
  <2>2. ASSUME NEW a \in Addrs, TransferBatch(b, a)
        PROVE  EnergyAddsUp'
    <3>1. UNCHANGED <<meter, coins, supply, outside>>
      BY <2>2 DEF TransferBatch
    <3>2. /\ Batches' = Batches
          /\ \A i \in Batches : /\ batches'[i].reading = batches[i].reading
                                /\ batches'[i].state = batches[i].state
      BY <2>2, TransferUpdate DEF TypeOK, Batches
    <3>3. QED
      BY <3>1, <3>2, EnergyFrame DEF Unburned
  <2>3. ASSUME NEW how \in {"marked", "bridged"}, Retire(b, how),
               UNCHANGED <<meter, coins, supply, outside>>
        PROVE  EnergyAddsUp'
    <3>1. /\ Batches' = Batches
          /\ batches[b].state = "live" /\ batches'[b].state = how
          /\ \A i \in Batches : /\ batches'[i].reading = batches[i].reading
                                /\ i # b => batches'[i] = batches[i]
      BY <2>3, RetireUpdate DEF TypeOK, Batches
    <3>2. Unburned' = Unburned
      BY <3>1 DEF Unburned
    <3>3. QED
      BY <2>3, <3>1, <3>2, EnergyFrame
  <2>4. CASE BurnOnRedemption(b)
    <3>1. batches[b].holder \in Addrs
      BY BatchFields DEF TypeOK
    <3>2. QED
      BY <2>4, <3>1, BurnAddsUp DEF BurnOnRedemption, Batches
  <2>5. QED
    BY <2>1, <2>2, <2>3, <2>4 DEF MarkRedeemed, ConsumeBatchForBridge
<1>5. CASE BorrowedNext
  BY <1>5, BorrowedAddsUp, BorrowedTypeOK
<1>6. QED
  BY <1>1, <1>2, <1>3, <1>4, <1>5 DEF Next, LedgerNext, BatchNext

\* Mint, transfer, mark, bridge and burn neither make nor lose a unit: the
\* wallets hold the supply, the supply is the energy of the unburned batches but
\* for what was minted and burned through the borrowed cap, and every meter's
\* total is that of the batches minted from it.
THEOREM EnergyIsConserved == Spec => []EnergyAddsUp
BY InitEnergy, NextEnergy, TypeCorrect, PTL DEF Spec

-----------------------------------------------------------------------------
(* The certificates' steps: the metered supply holds at least the tokens of *)
(* every batch that was not burned, so a redemption finds its own.          *)

LEMMA MeteredIsUnburned ==
  ASSUME TypeOK, EnergyAddsUp
  PROVE  /\ MeteredSupply = SumFunctionOnSet(BatchTokens, Unburned)
         /\ MeteredSupply \in Nat
<1>1. \A b \in Unburned : BatchTokens[b] \in Nat
  BY SumsAreDefined DEF Unburned
<1>2. SumFunctionOnSet(BatchTokens, Unburned) \in Nat
  BY <1>1, SumsAreDefined, SumRemove
<1>3. QED
  BY <1>2, OutsideFields DEF EnergyAddsUp, EnergyConserved, MeteredSupply

LEMMA UnburnedIsMetered ==
  ASSUME TypeOK, EnergyAddsUp, NEW b \in Unburned
  PROVE  Amount(batches[b].reading) <= MeteredSupply
<1>1. b \in Batches /\ BatchTokens[b] = Amount(batches[b].reading)
  BY DEF Unburned, BatchTokens
<1>2. /\ SumFunctionOnSet(BatchTokens, Unburned)
           = BatchTokens[b] + SumFunctionOnSet(BatchTokens, Unburned \ {b})
      /\ IsFiniteSet(Unburned \ {b}) /\ Unburned \subseteq Batches
  BY SumsAreDefined, SumRemove, FS_Subset DEF Unburned
<1>3. /\ SumFunctionOnSet(BatchTokens, Unburned \ {b}) \in Nat
      /\ BatchTokens[b] \in Nat
  BY <1>1, <1>2, SumsAreDefined, SumRemove
<1>4. QED
  BY <1>1, <1>2, <1>3, MeteredIsUnburned

\* A batch that is burned with its coins redeems its certificate.
LEMMA RetireRedeems ==
  ASSUME TypeOK, MintedInReadingOrder, EnergyAddsUp, NEW b \in Batches, NEW a,
         Retire(b, "burned"), BurnCoins(a, Amount(batches[b].reading)), outside' = outside
  PROVE  Certificates!Redeem(batches[b].reading)
<1>1. batches[b].state = "live"
  BY RetireUpdate DEF TypeOK, Batches
<1>2. Amount(batches[b].reading) <= MeteredSupply
  BY <1>1, UnburnedIsMetered DEF Unburned
<1>3. Amount(batches[b].reading) \in Nat
  BY BatchFields DEF TypeOK, Batches
<1>4. MeteredSupply' = MeteredSupply - Amount(batches[b].reading)
  BY <1>3, BurnIsMetered
<1>5. QED
  BY <1>2, <1>4, RetireMovesReading DEF Certificates!Redeem, Certificates!Tokens, Amount

\* Every step of the ledger is a step of EnergyCertificates or a stutter.
LEMMA StepKeepsCertificates ==
  ASSUME TypeOK, MintOrderInv, EnergyAddsUp, [Next]_vars
  PROVE  [Certificates!CertNext]_(Certificates!certVars)
<1>1. CASE AdvanceEpoch \/ AdminNext \/ UNCHANGED vars
  <2>1. MeteredSupply' = MeteredSupply /\ batches' = batches
    BY <1>1 DEF MeteredSupply, AdvanceEpoch, AdminNext, RegisterDevice, CertifyDevice,
         UpsertKycRecord, RemoveKycRecord, PauseMinting, UnpauseMinting, vars
  <2>2. QED
    BY <2>1, CertificateStutter DEF Batches
<1>2. CASE TokenNext
  <2>1. ASSUME NEW a \in Addrs, NEW r \in Readings, NEW s \in Sources, MintEnergy(a, r, s)
        PROVE  Certificates!CertNext
    BY <2>1, MintIssues DEF Certificates!CertNext
  <2>2. ASSUME NEW a \in Addrs, NEW c \in Addrs, NEW n \in 1 .. coins[a], TransferEnergy(a, c, n)
        PROVE  UNCHANGED Certificates!certVars
    BY <2>2, CertificateStutter DEF MeteredSupply, TransferEnergy, Batches
  <2>3. QED
    BY <1>2, <2>1, <2>2 DEF TokenNext
<1>3. CASE BatchNext
  <2>1. PICK b \in DOMAIN batches :
          \/ \E a \in Addrs : TransferBatch(b, a)
          \/ MarkRedeemed(b)
          \/ ConsumeBatchForBridge(b)
          \/ BurnOnRedemption(b)
    BY <1>3 DEF BatchNext, HolderNext, BridgeNext
  <2>2. b \in Batches /\ MintedInReadingOrder /\ batches[b].reading \in Readings
    BY BatchFields DEF Batches, MintOrderInv, TypeOK
  <2>3. ASSUME NEW a \in Addrs, TransferBatch(b, a)
        PROVE  UNCHANGED Certificates!certVars
    <3>1. MeteredSupply' = MeteredSupply
      BY <2>3 DEF MeteredSupply, TransferBatch
    <3>2. QED
      BY <2>3, <3>1, TransferUpdate, CertificateStutter DEF TypeOK, Batches
  <2>4. CASE MarkRedeemed(b)
    BY <2>2, <2>4, RetireMovesReading
       DEF MeteredSupply, MarkRedeemed, Certificates!CertNext, Certificates!Withdraw
  <2>5. CASE ConsumeBatchForBridge(b)
    BY <2>2, <2>5, RetireMovesReading
       DEF MeteredSupply, ConsumeBatchForBridge, Certificates!CertNext, Certificates!Withdraw
  <2>6. CASE BurnOnRedemption(b)
    <3>1. Retire(b, "burned") /\ BurnCoins(batches[b].holder, Amount(batches[b].reading))
          /\ outside' = outside
      BY <2>6 DEF BurnOnRedemption
    <3>2. Certificates!Redeem(batches[b].reading)
      BY <2>2, <3>1, RetireRedeems
    <3>3. QED
      BY <2>2, <3>2 DEF Certificates!CertNext
  <2>7. QED
    BY <2>1, <2>3, <2>4, <2>5, <2>6
<1>4. CASE BorrowedNext
  BY <1>4, BorrowedFrame, CertificateStutter DEF Batches
<1>5. QED
  BY <1>1, <1>2, <1>3, <1>4 DEF Next, LedgerNext, BatchNext

\* The token ledger keeps the promise of EnergyCertificates: one certificate
\* per reading, retired once, with or without its tokens.
THEOREM LedgerKeepsCertificates == Spec => KeepsCertificates
<1>1. Init => Certificates!CertInit
  BY DEF Init, MeteredSupply, Certificates!CertInit, ReadingsIn, Batches
<1>2. QED
  BY <1>1, StepKeepsCertificates, TypeCorrect, MintOrderInvariant, EnergyIsConserved, PTL
     DEF Spec, KeepsCertificates, Certificates!CertSpec

-----------------------------------------------------------------------------
(* What the runs check of the ledger, for every ledger.                    *)

\* Types, u64 numbers and the order of minting, together.
THEOREM LedgerIsSafe == Spec => []LedgerSafe
<1>1. TypeOK /\ MintOrderInv => LedgerSafe
  BY DEF LedgerSafe
<1>2. QED
  BY <1>1, TypeCorrect, MintOrderInvariant, PTL

\* A batch is retired once, the pause holds the metered supply, and every step is one
\* of a certificate's life or none.
THEOREM LedgerStepsHold == Spec => LedgerSteps
BY BatchesRetireOnce, PauseStopsSupply, LedgerKeepsCertificates DEF LedgerSteps
=============================================================================
