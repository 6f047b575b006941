--------------------------- MODULE MCMovePackages ---------------------------
(* The Move packages around the ledger, checked in one run: redemption and  *)
(* the USDC market of layer 5, and the oracle of layer 2.  They share no    *)
(* state, so one of them moves in a behaviour and the others stay as they   *)
(* were made.                                                               *)
EXTENDS UtilityBilling, UsdcMarket, Oracle, TLC

CONSTANTS p, c, m1, x, y, d

VARIABLE part  \* the component that moves

-----------------------------------------------------------------------------
(* Redemption *)

\* Two readings of one kWh, live at once, and one of two that no epoch accepts:
\* a claim for two kWh is never what a batch holds.
MCReadings ==
  {[meter |-> m1, kwh |-> 1, ts |-> 2], [meter |-> m1, kwh |-> 1, ts |-> 5],
   [meter |-> m1, kwh |-> 2, ts |-> 9]}

\* The two parties live in different jurisdictions, and the consumer's record
\* expires with the first epoch.
MCKycRecords ==
  {[status |-> 1, jurisdiction |-> 1, expiry |-> 9],
   [status |-> 1, jurisdiction |-> 2, expiry |-> 6]}

\* Redemption starts after the administrator has certified p's meter and cleared
\* both parties, and the records stay: energy_token changes them.
Enrolled ==
  /\ now = 3
  /\ paused = FALSE
  /\ meter = [m \in Meters |-> [stage |-> "certified", producer |-> p,
                                totalKwh |-> 0, lastTs |-> 0]]
  /\ kyc \in [Addrs -> KycRecords]
  /\ kyc[p].jurisdiction = 1 /\ kyc[c].jurisdiction = 2
  /\ batches = <<>>
  /\ coins = [a \in Addrs |-> 0]
  /\ supply = 0
  /\ outside = [minted |-> 0, burned |-> 0]
  /\ usedIds = {} /\ allowedPairs = {} /\ redemptions = {} /\ claimed = {}
  /\ ledger = [redeemedKwh |-> 0, burnedTokens |-> 0]
  /\ recorded = ledger

\* Energy of jurisdiction 1 may be exported to 2, not the other way.
MCBorderPairs == {<<1, 2>>}

\* A caller may record a burn that is not its kWh's, and one that leaves the
\* ledger no room for both redemptions.
MCDirectRecords == {[kwh |-> 4, burned |-> 1]}

-----------------------------------------------------------------------------
(* Market: one quote within the confidence gate and one without. *)

PlainQuotes == {[price |-> 201, expo |-> 0, conf |-> 1],
                [price |-> 400, expo |-> 0, conf |-> 21]}
Micros == {1500000}
RichPurse == [energy |-> 1500000, usdc |-> 310]

\* A price at half the quote's, dated after the last tick, and one too uncertain.
MCCallerPrices == {[price |-> 100, publish |-> 9, confidence |-> 0],
                   [price |-> 201, publish |-> 5, confidence |-> 501]}

FirstQuote == [price |-> 201, expo |-> 0, conf |-> 1]

-----------------------------------------------------------------------------
(* Oracle: the bridge's messages, in the order they were sent. *)

ClearedThenSuspended == <<"cleared", "suspended">>

\* One of each: a reading a node may still attest, an aggregate two nodes may
\* still reach, and a reading no device took.
OneKey == {[device |-> d, kwh |-> 5, at |-> 4]}
OneHash == {[device |-> d, kwh |-> 3, at |-> 4, nonce |-> 1]}
OneReading == {[kwh |-> 7, at |-> 9]}

-----------------------------------------------------------------------------
MCInit ==
  /\ part \in {"redemption", "market", "oracle"}
  /\ Enrolled /\ MarketInit /\ OracleInit
  /\ part # "market" => hermes.quote = FirstQuote /\ feed.price = FirstQuote.price

MCNext ==
  /\ UNCHANGED part
  /\ \/ part = "redemption" /\ UNCHANGED kyc /\ BillingNext /\ UNCHANGED <<marketVars, oracleVars>>
     \/ part = "market" /\ MarketNext /\ UNCHANGED <<allVars, oracleVars>>
     \/ part = "oracle" /\ OracleNext /\ UNCHANGED <<allVars, marketVars>>

MCSpec == MCInit /\ [][MCNext]_<<part, allVars, marketVars, oracleVars>>

\* No definition tells one keeper, node or redemption id from another.
MCSymmetry == Permutations(Keepers) \cup Permutations(Nodes) \cup Permutations(RedemptionIds)
=============================================================================
