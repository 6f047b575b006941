----------------------------- MODULE EnergyToken -----------------------------
(***************************************************************************)
(* Layer 3: the Move package energy_grid (layer3/move/sources).  One       *)
(* action per public entry point of meter_registry, compliance_registry,   *)
(* treasury_guard, minting_engine, batch_receipt and energy_token.  A Move *)
(* transaction is atomic, so each action is a whole call: its aborts are   *)
(* the action's guard.                                                     *)
(*                                                                         *)
(* Coin<ENERGY> objects split and join freely, so a wallet is a balance.   *)
(* An EnergyBatch is an element of the sequence batches, in mint order; a  *)
(* batch whose object was deleted keeps its place with the state "bridged" *)
(* and no action touches it again.  The code's flag redeemed is "burned"   *)
(* or "marked": the two states remember whether the coin went with it.     *)
(*                                                                         *)
(* A definition that no action uses, beside one that is used, is a variant *)
(* of it with a plausible mistake; the runs show that the properties tell  *)
(* the two apart (README, Mutants).                                        *)
(***************************************************************************)
EXTENDS Naturals, Sequences, FiniteSetsExt

CONSTANTS
  Addrs,        \* wallet addresses
  Meters,       \* EnergyMeter objects that may be registered
  Readings,     \* readings the devices signed: [meter, kwh, ts]
  KycRecords,   \* records an administrator may write
  NoKyc,        \* no entry in the compliance table
  NoAddr,       \* producer of a meter not registered yet
  EpochTimes,   \* values epoch_timestamp_ms may take (bounds the clock)
  Sources,      \* values passed for a batch's energy source
  Scale,        \* base units per kWh (1_000_000 in the code)
  Tol,          \* timestamp tolerance (300_000 ms in the code)
  EpochGap,     \* least distance of two epoch timestamps
  MaxU64,       \* largest u64
  MaxBorrowed   \* bounds what is minted, and burned, through the borrowed cap

\* source_grid() is the last admissible source; solar, wind and hydro precede.
MaxSource == 3
KycCleared == 1

ASSUME LedgerAssumption ==
  /\ Scale \in Nat \ {0}
  /\ Tol \in Nat
  /\ EpochGap \in Nat
  /\ MaxU64 \in Nat
  /\ MaxBorrowed \in Nat
  /\ EpochTimes \subseteq Nat \ {0}
  /\ Sources \subseteq Nat
  /\ Readings \subseteq [meter : Meters, kwh : Nat, ts : Nat]
  /\ KycRecords \subseteq [status : 0 .. 2, jurisdiction : Nat, expiry : Nat]
  /\ NoKyc \notin KycRecords
  /\ NoAddr \notin Addrs
  /\ IsFiniteSet(Addrs)

\* Sui epochs last a day, the tolerance is five minutes: the windows in which
\* two consecutive epochs accept readings do not overlap.
ASSUME EpochAssumption == EpochGap > 2 * Tol

VARIABLES
  now,      \* epoch_timestamp_ms of the current epoch
  paused,   \* TreasuryGuard.paused
  meter,    \* EnergyMeter objects
  kyc,      \* ComplianceRegistry.records
  batches,  \* EnergyBatch objects, in mint order
  coins,    \* Coin<ENERGY> balance of each address
  supply,   \* total_supply of the TreasuryCap
  outside   \* base units minted and burned through the borrowed cap, with no
            \* reading and no batch; history, never read by the code

vars == <<now, paused, meter, kyc, batches, coins, supply, outside>>

MeterStates ==
  [stage : {"absent", "registered", "certified"},
   producer : Addrs \cup {NoAddr},
   totalKwh : 0 .. MaxU64, lastTs : Nat]

BatchStates ==
  [reading : Readings, producer : Addrs, holder : Addrs,
   source : 0 .. MaxSource, state : {"live", "burned", "marked", "bridged"}]

TypeOK ==
  /\ now \in EpochTimes
  /\ paused \in BOOLEAN
  /\ meter \in [Meters -> MeterStates]
  /\ kyc \in [Addrs -> KycRecords \cup {NoKyc}]
  /\ batches \in Seq(BatchStates)
  /\ coins \in [Addrs -> Nat]
  /\ supply \in 0 .. MaxU64
  /\ outside \in [minted : 0 .. MaxBorrowed, burned : 0 .. MaxBorrowed]

Amount(r) == r.kwh * Scale

\* Checked u64 arithmetic: a result that does not fit aborts the call.
FitsU64(n) == n <= MaxU64

Init ==
  /\ now \in EpochTimes
  /\ paused = FALSE
  /\ meter = [m \in Meters |-> [stage |-> "absent", producer |-> NoAddr,
                                totalKwh |-> 0, lastTs |-> 0]]
  /\ kyc = [a \in Addrs |-> NoKyc]
  /\ batches = <<>>
  /\ coins = [a \in Addrs |-> 0]
  /\ supply = 0
  /\ outside = [minted |-> 0, burned |-> 0]

-----------------------------------------------------------------------------
(* The chain's clock.                                                      *)

AdvanceEpoch ==
  /\ now' \in {t \in EpochTimes : t >= now + EpochGap}
  /\ UNCHANGED <<paused, meter, kyc, batches, coins, supply, outside>>

-----------------------------------------------------------------------------
(* meter_registry, compliance_registry, treasury_guard: the AdminCap's     *)
(* operations.                                                             *)

RegisterDevice(m, producer) ==
  /\ meter[m].stage = "absent"
  /\ meter' = [meter EXCEPT ![m].stage = "registered", ![m].producer = producer]
  /\ UNCHANGED <<now, paused, kyc, batches, coins, supply, outside>>

CertifyDevice(m) ==
  /\ meter[m].stage = "registered"
  /\ meter' = [meter EXCEPT ![m].stage = "certified"]
  /\ UNCHANGED <<now, paused, kyc, batches, coins, supply, outside>>

UpsertKycRecord(a, record) ==
  /\ kyc' = [kyc EXCEPT ![a] = record]
  /\ UNCHANGED <<now, paused, meter, batches, coins, supply, outside>>

RemoveKycRecord(a) ==
  /\ kyc[a] # NoKyc
  /\ kyc' = [kyc EXCEPT ![a] = NoKyc]
  /\ UNCHANGED <<now, paused, meter, batches, coins, supply, outside>>

Cleared(a) ==
  /\ kyc[a] # NoKyc
  /\ kyc[a].status = KycCleared
  /\ kyc[a].expiry > now

PauseMinting ==
  /\ paused' = TRUE
  /\ UNCHANGED <<now, meter, kyc, batches, coins, supply, outside>>

UnpauseMinting ==
  /\ paused' = FALSE
  /\ UNCHANGED <<now, meter, kyc, batches, coins, supply, outside>>

PauseIgnored == TRUE
NotPaused == ~paused

-----------------------------------------------------------------------------
(* minting_engine                                                          *)

TimestampInRange(ts) ==
  /\ ts + Tol >= now
  /\ ts <= now + Tol

MeterKeepsReadingTime(r) ==
  meter' = [meter EXCEPT ![r.meter].totalKwh = @ + r.kwh,
                         ![r.meter].lastTs = r.ts]

\* apply_meter_reading: the meter keeps the epoch's time, not the reading's.
UpdateMeterReading(r) ==
  meter' = [meter EXCEPT ![r.meter].totalKwh = @ + r.kwh,
                         ![r.meter].lastTs = now]

MintEnergy(sender, r, source) ==
  LET m == meter[r.meter] IN
  /\ r.kwh > 0
  /\ TimestampInRange(r.ts)
  /\ now > m.lastTs
  /\ m.stage = "certified"
  /\ Cleared(sender)
  /\ sender = m.producer
  /\ NotPaused
  /\ source <= MaxSource
  /\ FitsU64(m.totalKwh + r.kwh)
  /\ FitsU64(supply + Amount(r))
  /\ UpdateMeterReading(r)
  /\ supply' = supply + Amount(r)
  /\ coins' = [coins EXCEPT ![sender] = @ + Amount(r)]
  /\ batches' = Append(batches, [reading |-> r, producer |-> sender,
                                 holder |-> sender, source |-> source,
                                 state |-> "live"])
  /\ UNCHANGED <<now, paused, kyc, outside>>

TransferEnergy(from, to, n) ==
  /\ from # to
  /\ n <= coins[from]
  /\ coins' = [coins EXCEPT ![from] = @ - n, ![to] = @ + n]
  /\ UNCHANGED <<now, paused, meter, kyc, batches, supply, outside>>

-----------------------------------------------------------------------------
(* batch_receipt and energy_token: the life of an EnergyBatch.             *)

RedeemedByBurn(b) == batches[b].state = "burned"
Redeemed(b) == batches[b].state \in {"burned", "marked"}

Exists(b) == batches[b].state # "bridged"

\* EnergyBatch has key and store: its holder may give it away.
TransferBatch(b, to) ==
  /\ Exists(b)
  /\ batches[b].holder # to
  /\ batches' = [batches EXCEPT ![b].holder = to]
  /\ UNCHANGED <<now, paused, meter, kyc, coins, supply, outside>>

\* The state of b after it leaves the market; the caller owns the object.
Retire(b, how) ==
  /\ Exists(b)
  /\ ~Redeemed(b)
  /\ batches' = [batches EXCEPT ![b].state = how]

\* batch_receipt::mark_redeemed called on its own: no coin is burned.
MarkRedeemed(b) ==
  /\ Retire(b, "marked")
  /\ UNCHANGED <<now, paused, meter, kyc, coins, supply, outside>>

ConsumeBatchForBridge(b) ==
  /\ Retire(b, "bridged")
  /\ UNCHANGED <<now, paused, meter, kyc, coins, supply, outside>>

BurnWalletOnly(a, n) ==
  /\ n <= coins[a]
  /\ coins' = [coins EXCEPT ![a] = @ - n]
  /\ UNCHANGED supply

\* coin::burn lowers the supply, which aborts if it would go below zero.
BurnCoins(a, n) ==
  /\ n <= coins[a]
  /\ n <= supply
  /\ coins' = [coins EXCEPT ![a] = @ - n]
  /\ supply' = supply - n

BurnOnRedemption(b) ==
  LET owner == batches[b].holder IN
  /\ owner = batches[b].producer
  /\ Retire(b, "burned")
  /\ NotPaused
  /\ BurnCoins(owner, Amount(batches[b].reading))
  /\ UNCHANGED <<now, paused, meter, kyc, outside>>

-----------------------------------------------------------------------------
(* borrow_treasury_for_burn is public, checks no pause and hands out the   *)
(* cap itself: whoever calls it may mint and burn coins of any amount.     *)

MintBorrowed(to, n) ==
  /\ outside.minted + n <= MaxBorrowed
  /\ FitsU64(supply + n)
  /\ supply' = supply + n
  /\ coins' = [coins EXCEPT ![to] = @ + n]
  /\ outside' = [outside EXCEPT !.minted = @ + n]
  /\ UNCHANGED <<now, paused, meter, kyc, batches>>

\* Also layer 5's burn_energy, with a coin of whole kWh and any redemption id.
BurnBorrowed(a, n) ==
  /\ outside.burned + n <= MaxBorrowed
  /\ BurnCoins(a, n)
  /\ outside' = [outside EXCEPT !.burned = @ + n]
  /\ UNCHANGED <<now, paused, meter, kyc, batches>>

-----------------------------------------------------------------------------

AdminNext ==
  \/ \E m \in Meters, p \in Addrs : RegisterDevice(m, p)
  \/ \E m \in Meters : CertifyDevice(m)
  \/ \E a \in Addrs, record \in KycRecords : UpsertKycRecord(a, record)
  \/ \E a \in Addrs : RemoveKycRecord(a)
  \/ PauseMinting
  \/ UnpauseMinting

TokenNext ==
  \/ \E a \in Addrs, r \in Readings, s \in Sources : MintEnergy(a, r, s)
  \/ \E a, c \in Addrs : \E n \in 1 .. coins[a] : TransferEnergy(a, c, n)

HolderNext ==
  \E b \in DOMAIN batches :
    \/ \E a \in Addrs : TransferBatch(b, a)
    \/ MarkRedeemed(b)
    \/ BurnOnRedemption(b)

BorrowedNext ==
  \E a \in Addrs :
    \/ \E n \in 1 .. MaxBorrowed : MintBorrowed(a, n)
    \/ \E n \in 1 .. coins[a] : BurnBorrowed(a, n)

\* What anybody may call but for a batch's end in the hands of layer 5.
LedgerNext == AdvanceEpoch \/ AdminNext \/ TokenNext \/ HolderNext \/ BorrowedNext

BridgeNext == \E b \in DOMAIN batches : ConsumeBatchForBridge(b)

Next == LedgerNext \/ BridgeNext

Spec == Init /\ [][Next]_vars

-----------------------------------------------------------------------------
(* Properties                                                              *)

MeterOf(b) == batches[b].reading.meter
KwhOf(b) == batches[b].reading.kwh
Batches == DOMAIN batches
BatchTokens == [b \in Batches |-> Amount(batches[b].reading)]
BatchKwh == [b \in Batches |-> KwhOf(b)]
MintedFrom(m) == {b \in Batches : MeterOf(b) = m}
Unburned == {b \in Batches : batches[b].state # "burned"}

\* A device's readings become tokens in the order the device took them, so
\* none is minted twice.  minting_engine keeps no set of spent readings: it
\* compares the epoch's time with the meter's last mint (M3) and the reading
\* with the epoch's time (S5.3b), and only the two together exclude a replay.
MintedInReadingOrder ==
  \A i, j \in Batches :
    (i < j /\ MeterOf(i) = MeterOf(j))
      => batches[i].reading.ts < batches[j].reading.ts

\* Why: a meter's last mint is this epoch's time or lies a whole epoch back,
\* and no batch of the meter is newer than the tolerance allows from there.
MeterClocksApart ==
  \A m \in Meters :
    \/ meter[m].lastTs \in {0, now}
    \/ meter[m].lastTs + EpochGap <= now

MintFrontier ==
  \A b \in Batches :
    /\ meter[MeterOf(b)].lastTs > 0
    /\ batches[b].reading.ts <= meter[MeterOf(b)].lastTs + Tol

\* The inductive form of MintedInReadingOrder.
MintOrderInv == MeterClocksApart /\ MintFrontier /\ MintedInReadingOrder

\* The coins in the wallets are the supply, and the supply is the energy of
\* every batch whose tokens were not burned with it, but for what was minted
\* and burned through the borrowed cap: mint, transfer, split, mark, bridge
\* and burn neither create nor lose a unit, whichever coins they are given.
EnergyConserved ==
  /\ supply = SumFunctionOnSet(coins, Addrs)
  /\ supply + outside.burned = SumFunctionOnSet(BatchTokens, Unburned) + outside.minted

\* A meter's running total is the energy of the batches minted from it, also
\* of those burned or bridged away since.
MeterTotalsMatchBatches ==
  \A m \in Meters : meter[m].totalKwh = SumFunctionOnSet(BatchKwh, MintedFrom(m))

\* A batch leaves the market once and for one purpose: after a redemption, a
\* mark or a bridge transfer its state never changes again, and the reading
\* and producer it certifies never change at all.
RetiredOnce ==
  [][\A b \in Batches :
       /\ batches'[b].reading = batches[b].reading
       /\ batches'[b].producer = batches[b].producer
       /\ batches[b].state # "live" => batches'[b].state = batches[b].state
    ]_vars

\* The supply without the part that came and went through the borrowed cap.
MeteredSupply == supply + outside.burned - outside.minted

\* While the treasury is paused nothing changes the supply but the borrowed cap,
\* which is not stopped, and by no more than what went through it: neither a
\* mint nor burn_on_redemption.
PauseFreezesSupply == [][paused => MeteredSupply' = MeteredSupply]_vars

\* The ledger keeps the promise of EnergyCertificates: one certificate per
\* reading, retired once, with or without its tokens.
ReadingsIn(states) ==
  {batches[b].reading : b \in {c \in Batches : batches[c].state \in states}}

Certificates == INSTANCE EnergyCertificates WITH
  issued <- {batches[b].reading : b \in Batches},
  redeemed <- ReadingsIn({"burned"}),
  withdrawn <- ReadingsIn({"marked", "bridged"}),
  circulating <- MeteredSupply

KeepsCertificates == Certificates!CertSpec

\* The ledger keeps its types, its numbers within u64, and mints each reading of a
\* meter once and in the order of their times (energy_token.move, mint_batch).
LedgerSafe == TypeOK /\ MintOrderInv

\* Energy is neither made nor lost but through the borrowed cap, to the unit: the
\* wallets hold the supply, the supply is the energy of the batches not burned
\* with their tokens, and every meter's total is that of the batches minted from it.
EnergyAddsUp == EnergyConserved /\ MeterTotalsMatchBatches

\* A batch is retired once, a pause freezes the supply apart from the borrowed
\* cap, and every step is one of the certificates' life or leaves them alone.
LedgerSteps == RetiredOnce /\ PauseFreezesSupply /\ KeepsCertificates
=============================================================================
