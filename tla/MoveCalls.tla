------------------------------ MODULE MoveCalls ------------------------------
(***************************************************************************)
(* The transactions the SDKs build, against the Move functions they call.  *)
(*                                                                         *)
(* A builder names a function by a string and lists its arguments by       *)
(* position; no compiler sees both sides.  Each builder is the sequence of *)
(* its commands, each Move function its parameters and what it returns.    *)
(*                                                                         *)
(* External: the programmable transaction of Sui.  It runs the commands in *)
(* order, stops at the first that does not fit its function, takes an      *)
(* object only from its owner unless it is shared, and at the end refuses  *)
(* a transaction that leaves a value nobody took and that has no drop.     *)
(* Owned objects change hands between transactions.  Why a Move function   *)
(* aborts is in the modules about it; here any call may abort.             *)
(***************************************************************************)
EXTENDS Naturals, Sequences

CONSTANTS
  People,
  Deployer, Producer,   \* who is handed the capabilities; who mints
  Nobody                \* no transaction

ASSUME CallsAssumption == {Deployer, Producer} \subseteq People /\ Nobody \notin People

VARIABLES
  owner,    \* of the owned objects
  gone,     \* objects taken by value
  sender,   \* of the transaction under way
  builder,  \* it was built by
  step,     \* command that is next
  given,    \* what the commands so far returned
  moved,    \* objects the commands so far took by value
  used,    \* and which of the returned values
  verdict   \* of the last transaction

callsVars == <<owner, gone, sender, builder, step, given, moved, used, verdict>>

-----------------------------------------------------------------------------
(* Move: what there is to call.                                            *)

Ref(t) == [mode |-> "ref", type |-> t]
Mut(t) == [mode |-> "mut", type |-> t]
Val(t) == [mode |-> "val", type |-> t]

Function(params, returns) == [params |-> params, returns |-> returns]

mint_energy == Function(
  <<Mut("TreasuryGuard"), Mut("EnergyMeter"), Val("u64"), Val("u64"), Val("bytes"),
    Val("u8"), Ref("ComplianceRegistry")>>, "Coin<ENERGY>")

redeem_atomic == Function(
  <<Mut("TreasuryGuard"), Mut("EnergyBatch"), Val("Coin<ENERGY>"), Ref("EnergyMeter"),
    Ref("ComplianceRegistry"), Ref("JurisdictionPolicy"), Mut("RedemptionRegistry"),
    Ref("GridOperatorCap"), Ref("BillingOperatorCap"), Mut("GridSettlementLedger"),
    Val("bytes"), Val("u64"), Val("u64"), Val("bool"), Val("u64")>>, "nothing")

bridge_rec_core == Function(
  <<Val("EnergyBatch"), Ref("EnergyMeter"), Mut("EmitterCap"), Mut("wormhole::State"),
    Val("Coin<SUI>"), Mut("BridgeWhitelist"), Ref("ComplianceRegistry"), Val("u16"),
    Ref("Clock")>>, "BridgeTicket")

publish_message == Function(
  <<Mut("wormhole::State"), Val("Coin<SUI>"), Val("MessageTicket"), Ref("Clock")>>, "u64")

sync_energy_price_feed == Function(
  <<Mut("PriceFeed"), Val("u64"), Val("u8"), Val("u64"), Val("u64"), Ref("Clock")>>, "nothing")

settle_native_usdc_entry == Function(
  <<Ref("EnergyMarketplace"), Ref("ComplianceRegistry"), Ref("PriceFeed"),
    Val("Coin<ENERGY>"), Val("Coin<USDC>"), Val("u64"), Val("u64")>>, "nothing")

verify_reading == Function(
  <<Val("EnergyAttestation"), Ref("DeviceRegistry"), Mut("ProcessedAttestationTable"),
    Ref("oracle::EnergyMeter")>>, "ReadingProof")

verify_reading_with_zk == Function(
  <<Val("EnergyAttestation"), Ref("DeviceRegistry"), Mut("ProcessedAttestationTable"),
    Ref("oracle::EnergyMeter"), Ref("ZkRegistry"), Val("bytes"), Val("bytes"), Val("bytes"),
    Val("bytes"), Val("ZkPublicInputs"), Val("bytes"), Val("bytes"), Val("bytes")>>,
  "ReadingProof")

assert_producer_for_mint == Function(
  <<Ref("oracle::ComplianceRegistry"), Ref("JurisdictionBlacklist"),
    Ref("oracle::EnergyMeter")>>, "u8")

finalize_layer2_verification == Function(
  <<Ref("ReadingProof"), Ref("oracle::ComplianceRegistry"), Ref("JurisdictionBlacklist"),
    Ref("oracle::EnergyMeter"), Val("addresses"), Val("option<bytes>")>>, "VerifiedReading")

\* Pyth's own package, with the parameters the builder assumes.
update_price_feeds == Function(<<Mut("pyth::State"), Val("bytes")>>, "nothing")

\* batch_receipt has no issue; its issue_batch is for its own package.
Published ==
  [mint_energy |-> mint_energy, redeem_atomic |-> redeem_atomic,
   bridge_rec_core |-> bridge_rec_core, publish_message |-> publish_message,
   sync_energy_price_feed |-> sync_energy_price_feed,
   settle_native_usdc_entry |-> settle_native_usdc_entry,
   verify_reading |-> verify_reading, verify_reading_with_zk |-> verify_reading_with_zk,
   assert_producer_for_mint |-> assert_producer_for_mint,
   finalize_layer2_verification |-> finalize_layer2_verification,
   update_price_feeds |-> update_price_feeds]

Droppable == {"nothing", "u8", "u64", "ReadingProof"}
Plain == {"u8", "u16", "u64", "bool", "bytes", "addresses", "option<bytes>"}

\* Deployment gives both capabilities to the one who deploys.
CapsTo == Deployer

\* The objects that have an owner, and the first one: batch and coin go to
\* the producer, the capabilities to the deployer.  All others are shared.
HandedOut == [energyBatchId |-> Producer, energyCoinId |-> Producer,
              usdcCoinId |-> Producer, feeCoinId |-> Deployer, emitterCapId |-> Deployer,
              gridOperatorCapId |-> CapsTo, billingOperatorCapId |-> CapsTo]

-----------------------------------------------------------------------------
(* The builders.                                                           *)

Obj(id, type) == [kind |-> "object", is |-> id, type |-> type]
Pure(type) == [kind |-> "pure", is |-> "value", type |-> type]
Result(i, type) == [kind |-> "result", is |-> i, type |-> type]
Call(name, args) == [call |-> name, args |-> args]
Give(i, type) == [call |-> "transferObjects", args |-> <<Result(i, type)>>]

Guard == Obj("treasuryGuardId", "TreasuryGuard")
Meter == Obj("energyMeterId", "EnergyMeter")
Compliance == Obj("complianceRegistryId", "ComplianceRegistry")
Batch == Obj("energyBatchId", "EnergyBatch")
EnergyCoin == Obj("energyCoinId", "Coin<ENERGY>")
Clock == Obj("0x6", "Clock")
FeeCoin == Obj("feeCoinId", "Coin<SUI>")
WormholeState == Obj("wormholeStateId", "wormhole::State")
Feed == Obj("priceFeedId", "PriceFeed")

\* buildLayer3MintPtb that leaves the coin where it is.
MintWithoutTransfer ==
  <<Call("mint_energy", <<Guard, Meter, Pure("u64"), Pure("u64"), Pure("bytes"), Pure("u8"),
                          Compliance>>)>>

buildLayer3MintPtb == MintWithoutTransfer \o <<Give(1, "Coin<ENERGY>")>>

buildLayer5RedeemPtb ==
  <<Call("redeem_atomic",
         <<Guard, Batch, EnergyCoin, Meter, Compliance,
           Obj("jurisdictionPolicyId", "JurisdictionPolicy"),
           Obj("redemptionRegistryId", "RedemptionRegistry"),
           Obj("gridOperatorCapId", "GridOperatorCap"),
           Obj("billingOperatorCapId", "BillingOperatorCap"),
           Obj("gridSettlementLedgerId", "GridSettlementLedger"),
           Pure("bytes"), Pure("u64"), Pure("u64"), Pure("bool"), Pure("u64")>>)>>

\* The price update of Pyth goes first if its bytes are given.
buildPythUpdatePtb(bytes) ==
  (IF bytes THEN <<Call("update_price_feeds",
                        <<Obj("pythStateObject", "pyth::State"), Pure("bytes")>>)>>
            ELSE <<>>)
  \o <<Call("sync_energy_price_feed",
            <<Feed, Pure("u64"), Pure("u8"), Pure("u64"), Pure("u64"), Clock>>)>>

buildNativeUsdcSettlePtb ==
  <<Call("settle_native_usdc_entry",
         <<Obj("marketplaceId", "EnergyMarketplace"), Compliance, Feed, EnergyCoin,
           Obj("usdcCoinId", "Coin<USDC>"), Pure("u64"), Pure("u64")>>)>>

buildWormholeRecPtb ==
  <<Call("bridge_rec_core",
         <<Batch, Meter, Obj("emitterCapId", "EmitterCap"), WormholeState, FeeCoin,
           Obj("bridgeWhitelistId", "BridgeWhitelist"), Compliance, Pure("u16"), Clock>>)>>

\* A ticket is a value of one transaction: no object has its type.
buildWormholePublishOnlyPtb ==
  <<Call("publish_message", <<WormholeState, FeeCoin, Obj("ticketId", "no object"), Clock>>)>>

L2Meter == Obj("energyMeterId", "oracle::EnergyMeter")
Devices == Obj("deviceRegistryId", "DeviceRegistry")
Processed == Obj("processedAttestationsId", "ProcessedAttestationTable")
L2Compliance == Obj("complianceRegistryId", "oracle::ComplianceRegistry")
Blacklist == Obj("jurisdictionBlacklistId", "JurisdictionBlacklist")
Zk == Obj("zkRegistryId", "ZkRegistry")
TreasuryCap == Obj("treasuryCapId", "TreasuryCap<ENERGY>")

\* Layer 2's mint: with zero knowledge if it is asked for and configured.
buildMintPtb(useZk, zkConfigured) ==
  <<IF useZk /\ zkConfigured
    THEN Call("verify_reading_with_zk",
              <<Devices, Processed, L2Meter, Zk, Pure("bytes"), Pure("bytes")>>)
    ELSE Call("verify_reading",
              <<L2Meter, Devices, Processed, Pure("bytes"), Pure("u64"), Pure("u64"),
                Pure("bytes")>>),
    Call("assert_producer_for_mint",
         <<Result(1, "ReadingProof"), L2Compliance, Blacklist, L2Meter>>),
    Call("mint_energy", <<TreasuryCap, L2Meter, Pure("u64"), Pure("bytes")>>),
    Give(3, "Coin<ENERGY>"),
    Call("issue", <<L2Meter, Pure("u64"), Pure("u8")>>),
    Call("finalize_layer2_verification",
         <<Result(1, "ReadingProof"), L2Compliance, Blacklist, L2Meter, Pure("addresses"),
           Pure("option<bytes>")>>)>>

\* listRequiredSharedObjects without the optional one.
ListedAlways(zkConfigured) ==
  {"deviceRegistryId", "processedAttestationsId", "energyMeterId", "oracleAggregatorId",
   "complianceRegistryId", "jurisdictionBlacklistId", "treasuryCapId"}

listRequiredSharedObjects(zkConfigured) ==
  ListedAlways(zkConfigured) \cup (IF zkConfigured THEN {"zkRegistryId"} ELSE {})

\* What can be built: by which builder, with which options.
Builders == [ptb: {"layer 3 mint", "redeem", "usdc", "rec", "publish only"}, zk: {FALSE},
             option: {FALSE}]
            \cup [ptb: {"pyth"}, zk: {FALSE}, option: BOOLEAN]
            \cup [ptb: {"layer 2 mint"}, zk: BOOLEAN, option: BOOLEAN]

Commands(b) ==
  CASE b.ptb = "layer 3 mint" -> buildLayer3MintPtb
    [] b.ptb = "redeem"       -> buildLayer5RedeemPtb
    [] b.ptb = "usdc"         -> buildNativeUsdcSettlePtb
    [] b.ptb = "rec"          -> buildWormholeRecPtb
    [] b.ptb = "publish only" -> buildWormholePublishOnlyPtb
    [] b.ptb = "pyth"         -> buildPythUpdatePtb(b.option)
    [] b.ptb = "layer 2 mint" -> buildMintPtb(b.zk, b.option)

-----------------------------------------------------------------------------
(* The transaction.                                                        *)

Owned == DOMAIN HandedOut
Verdicts == {"none", "running", "executed", "aborted", "not held", "misfit", "value left over"}

CallsTypeOK ==
  /\ owner \in [Owned -> People]
  /\ gone \subseteq Owned
  /\ sender \in People \cup {Nobody}
  /\ builder \in Builders \cup {Nobody}
  /\ step \in 1 .. 7 /\ Len(given) < step
  /\ moved \subseteq Owned /\ used \subseteq DOMAIN given
  /\ verdict \in Verdicts
  /\ (sender = Nobody) = (verdict # "running")

CallsInit ==
  /\ owner = HandedOut
  /\ gone = {}
  /\ sender = Nobody /\ builder = Nobody
  /\ step = 1 /\ given = <<>> /\ moved = {} /\ used = {}
  /\ verdict = "none"

Command == Commands(builder)[step]

\* The function is there, and each argument is of its parameter's type.
Fits(cmd) ==
  \/ cmd.call = "transferObjects"
  \/ /\ cmd.call \in DOMAIN Published
     /\ LET params == Published[cmd.call].params
        IN  /\ Len(cmd.args) = Len(params)
            /\ \A i \in DOMAIN params : cmd.args[i].type = params[i].type
            /\ \A i \in DOMAIN params : cmd.args[i].kind = "pure" => params[i].type \in Plain

\* The objects of a command are the sender's to use, and are still there.
Held(cmd) ==
  \A i \in DOMAIN cmd.args :
    cmd.args[i].kind = "object" /\ cmd.args[i].is \in Owned =>
      /\ owner[cmd.args[i].is] = sender
      /\ cmd.args[i].is \notin gone

TakesByValue(cmd, i) ==
  \/ cmd.call = "transferObjects"
  \/ Published[cmd.call].params[i].mode = "val" /\ cmd.args[i].kind # "pure"

\* What of a kind the command takes.
Taken(cmd, kind) ==
  {cmd.args[i].is : i \in {j \in DOMAIN cmd.args : TakesByValue(cmd, j) /\ cmd.args[j].kind = kind}}

Returned(cmd) == IF cmd.call = "transferObjects" THEN "nothing" ELSE Published[cmd.call].returns

\* A holder hands an object on; all of them can be transferred.
HandOn(o, p) ==
  /\ verdict # "running" /\ o \notin gone
  /\ owner' = [owner EXCEPT ![o] = p]
  /\ UNCHANGED <<gone, sender, builder, step, given, moved, used, verdict>>

Build(p, b) ==
  /\ verdict # "running"
  /\ sender' = p /\ builder' = b
  /\ step' = 1 /\ given' = <<>> /\ moved' = {} /\ used' = {}
  /\ verdict' = "running"
  /\ UNCHANGED <<owner, gone>>

StopCalls(why) == verdict' = why /\ sender' = Nobody /\ UNCHANGED <<owner, gone, builder, step, given, moved, used>>

Run ==
  /\ verdict = "running" /\ step <= Len(Commands(builder))
  /\ Fits(Command) /\ Held(Command)
  /\ given' = Append(given, Returned(Command))
  /\ moved' = moved \cup Taken(Command, "object")
  /\ used' = used \cup Taken(Command, "result")
  /\ step' = step + 1
  /\ UNCHANGED <<owner, gone, sender, builder, verdict>>

Abort ==
  /\ verdict = "running" /\ step <= Len(Commands(builder))
  /\ \/ ~Fits(Command) /\ StopCalls("misfit")
     \/ Fits(Command) /\ ~Held(Command) /\ StopCalls("not held")
     \/ Fits(Command) /\ Held(Command) /\ Command.call # "transferObjects" /\ StopCalls("aborted")

LeftOver == {i \in DOMAIN given :
               given[i] \notin Droppable /\ i \notin used}

Finish ==
  /\ verdict = "running" /\ step > Len(Commands(builder))
  /\ \/ LeftOver # {} /\ StopCalls("value left over")
     \/ /\ LeftOver = {}
        /\ gone' = gone \cup moved
        /\ verdict' = "executed" /\ sender' = Nobody
        /\ UNCHANGED <<owner, builder, step, given, moved, used>>

CallsNext ==
  \/ \E o \in Owned, p \in People : HandOn(o, p)
  \/ \E p \in People, b \in Builders : Build(p, b)
  \/ Run \/ Abort \/ Finish

CallsSpec == CallsInit /\ [][CallsNext]_callsVars

-----------------------------------------------------------------------------
(* Properties.                                                             *)

By(ptb) == builder # Nobody /\ builder.ptb = ptb

\* A transaction of these builders is never refused for how it is built: its
\* arguments are the function's, and nothing is left at its end.
\* (layer3/sdk/src/buildMintPtb.ts:21 against minting_engine.move:46,
\* buildRedeemPtb.ts:33 against redemption_orchestrator.move:16,
\* buildPythUpdatePtb.ts:23, buildNativeUsdcSettlePtb.ts:20)
WellBuilt ==
  By("layer 3 mint") \/ By("redeem") \/ By("usdc") \/ By("pyth") =>
    verdict \notin {"misfit", "value left over"}

\* Whatever object the layer 2 mint passes, with and without zero knowledge,
\* is on the list of objects it says it needs (layer2/sdk/src/buildMintPtb.ts:135).
UsedAreListed ==
  By("layer 2 mint") =>
    \A i \in DOMAIN Commands(builder) :
      LET args == Commands(builder)[i].args
      IN  \A j \in DOMAIN args :
            args[j].kind = "object" => args[j].is \in listRequiredSharedObjects(builder.option)

\* A built transaction fits the functions it calls and leaves no value behind, and
\* layer 2's mint passes only objects the list names.
CallsSafe == CallsTypeOK /\ WellBuilt /\ UsedAreListed
=============================================================================
