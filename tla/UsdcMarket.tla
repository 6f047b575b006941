----------------------------- MODULE UsdcMarket -----------------------------
(***************************************************************************)
(* Layer 5: energy sold for USDC at the price of a shared feed.  Keepers   *)
(* fetch the latest quote from Hermes and, later, apply it to the feed; a  *)
(* seller's transaction settles against whatever the feed then holds.  The *)
(* feed's age is judged by the time the epoch began, which only moves when *)
(* an epoch ends; the off-chain adapter judges it by its own clock.        *)
(* The feed is shared and both calls that change it are public: anybody    *)
(* may set it, to a price and a time of his choice.  A feed of a seller's  *)
(* own making says no more than that, and is left out.                     *)
(*                                                                         *)
(* Hermes, the clock and the epochs are external.  Basis points are the    *)
(* code's own; PriceStaleMs and times are in ticks.                        *)
(***************************************************************************)
EXTENDS Integers

CONSTANTS
  Keepers, Seller, Buyer, None,
  Caller,         \* whoever else changes the feed
  Quotes,         \* [price, expo, conf] Hermes may publish
  CallerPrices,   \* [price, publish, confidence] passed to update_price
  EnergyAmounts,  \* coin values, in micro-kWh
  UsdcAmounts, SlippageBps,
  Purse,          \* [energy, usdc] each party has at first
  PriceStaleMs,   \* PRICE_STALE_MS
  EpochLength,    \* an epoch's length at most
  Start, MaxTime, \* the first and last time; MaxTime bounds the run
  Statuses, Expiries  \* of KYC records

ASSUME MarketAssumption ==
  /\ Seller # Buyer
  /\ Quotes \subseteq [price : Nat, expo : Nat, conf : Nat]
  /\ CallerPrices \subseteq [price : Nat, publish : Nat, confidence : Nat]
  /\ EnergyAmounts \subseteq Nat /\ UsdcAmounts \subseteq Nat
  /\ SlippageBps \subseteq Nat
  /\ Purse \in [energy : Nat, usdc : Nat]
  /\ {PriceStaleMs, EpochLength, Start, MaxTime} \subseteq Nat
  /\ EpochLength > 0
  /\ PriceStaleMs <= Start \* 1970 is long past
  /\ Start <= MaxTime
  /\ "cleared" \in Statuses /\ Expiries \subseteq Nat
  /\ None \notin Quotes /\ Caller \notin Quotes \cup {None}

\* Arithmetic's own, for the powers PythToU128 takes: a prover knows no powers.
ASSUME PowersAreNatural ==
  \A q \in Quotes : IF q.expo <= 18 THEN 10^q.expo \in Nat \ {0}
                                   ELSE 10^(q.expo - 18) \in Nat

VARIABLES
  marketTime,       \* the clock
  epoch,     \* tx_context::epoch_timestamp_ms
  hermes,    \* the latest quote and its publish time
  held,      \* what each keeper has fetched and not yet applied
  feed,      \* the PriceFeed: price, publish_time_ms, confidence_bps
  records,       \* the parties' KycRecord
  energy, usdc,  \* the parties' coins
  origin,    \* the quote a keeper made the feed from, Caller if somebody else
             \* changed it last, or None; history
  overtaken, \* keepers that fetched before the feed last changed; history
  trade      \* the settlement just made, or None; history

marketVars == <<marketTime, epoch, hermes, held, feed, records, energy, usdc, origin,
                overtaken, trade>>

Parties == {Seller, Buyer}
BpsDenom == 10000
KwhScale == 1000000
MaxPriceConfidenceBps == 500
DefaultSlippageBps == 50

MarketTypeOK ==
  /\ marketTime \in Start .. MaxTime /\ epoch \in Start .. marketTime
  /\ hermes \in [quote : Quotes, publish : Start .. marketTime]
  /\ held \in [Keepers -> [quote : Quotes, publish : Start .. marketTime] \cup {None}]
  /\ feed.price \in Nat /\ feed.publish \in Nat
  /\ feed.confidence \in 0 .. MaxPriceConfidenceBps
  /\ records \in [Parties -> [status : Statuses, expiry : Expiries] \cup {None}]
  /\ energy \in [Parties -> Nat] /\ usdc \in [Parties -> Nat]
  /\ origin \in Quotes \cup {None, Caller}
  /\ overtaken \subseteq {k \in Keepers : held[k] # None}

-----------------------------------------------------------------------------
(* The rules of a settlement, on chain and in the adapter.                 *)

SlippageOf(bps) == IF bps = 0 THEN DefaultSlippageBps ELSE bps

Expected(micro, price) == (micro * price) \div KwhScale

\* assert_slippage; a tolerance above 100 % underflows and aborts.
WithinSlippage(micro, paid, price, bps) ==
  LET b == SlippageOf(bps)
      expected == Expected(micro, price)
  IN /\ b <= BpsDenom
     /\ paid >= (expected * (BpsDenom - b)) \div BpsDenom
     /\ paid <= (expected * (BpsDenom + b)) \div BpsDenom

AnyAge(at) == TRUE
FreshOnChain(at) == feed.publish > at - PriceStaleMs /\ at >= PriceStaleMs

\* The marketplace's min_liquidity_bps is 15000; a tenth of that is asked for.
Liquid(paid) == paid >= ((paid * 15000) \div BpsDenom) \div 10

ClearedToTrade(p) ==
  /\ records[p] # None
  /\ records[p].status = "cleared"
  /\ records[p].expiry > epoch

\* UsdcSettlementAdapter.assertFreshPrice with the caller's own clock.
AdapterFresh(time) == ~(feed.publish <= time - PriceStaleMs)

\* UsdcSettlementAdapter.assertSlippage; BigInt goes below zero.
AdapterSlippage(micro, paid, price, bps) ==
  LET expected == Expected(micro, price)
  IN /\ paid >= (expected * (BpsDenom - bps)) \div BpsDenom
     /\ paid <= (expected * (BpsDenom + bps)) \div BpsDenom

-----------------------------------------------------------------------------
(* Quotes on their way to the feed.                                        *)

\* pyth_to_u128: exponents up to 18 divide, larger ones multiply.
PythToU128(price, expo) ==
  IF expo <= 18 THEN price \div 10^expo ELSE price * 10^(expo - 18)

\* apply_pyth_snapshot: the interval as Pyth gave it, the price normalised.
ConfidenceBps(quote, price) ==
  IF price = 0 THEN 0 ELSE (quote.conf * 10000) \div price

ConfidenceAllowed(bps) == bps <= MaxPriceConfidenceBps

MarketInit ==
  /\ marketTime = Start /\ epoch = Start
  /\ hermes \in [quote : Quotes, publish : {Start}]
  /\ held = [k \in Keepers |-> None]
  /\ \E q \in Quotes :  \* initialize_l5_infrastructure's initial_price
       feed = [price |-> q.price, publish |-> 0, confidence |-> 100]
  /\ records = [p \in Parties |-> None]
  /\ energy = [p \in Parties |-> Purse.energy]
  /\ usdc = [p \in Parties |-> Purse.usdc]
  /\ origin = None /\ overtaken = {} /\ trade = None

Tick ==
  /\ marketTime < MaxTime
  /\ marketTime + 1 < epoch + EpochLength
  /\ marketTime' = marketTime + 1
  /\ trade' = None
  /\ UNCHANGED <<epoch, hermes, held, feed, records, energy, usdc, origin, overtaken>>

\* The epoch ends, on time or early.
NextEpoch ==
  /\ marketTime < MaxTime
  /\ marketTime' = marketTime + 1
  /\ epoch' = marketTime + 1
  /\ trade' = None
  /\ UNCHANGED <<hermes, held, feed, records, energy, usdc, origin, overtaken>>

Publish ==
  /\ \E q \in Quotes : hermes' = [quote |-> q, publish |-> marketTime]
  /\ trade' = None
  /\ UNCHANGED <<marketTime, epoch, held, feed, records, energy, usdc, origin, overtaken>>

\* A fetch that may be answered from before the last publication.
FetchCached(k) ==
  /\ held[k] = None
  /\ \E t \in Start .. hermes.publish :
       held' = [held EXCEPT ![k] = [hermes EXCEPT !.publish = t]]
  /\ trade' = None
  /\ UNCHANGED <<marketTime, epoch, hermes, feed, records, energy, usdc, origin, overtaken>>

\* PythPriceClient.fetchPriceUpdate.
Fetch(k) ==
  /\ held[k] = None
  /\ held' = [held EXCEPT ![k] = hermes]
  /\ trade' = None
  /\ UNCHANGED <<marketTime, epoch, hermes, feed, records, energy, usdc, origin, overtaken>>

\* buildPythUpdatePtb: the transaction carries what the keeper holds.
PythUpdatePtb(k) == [quote |-> held[k].quote, publish |-> held[k].publish]

\* update_price: no capability, and a look at the confidence but not at the time.
UpdatePrice(price, publish, bps) ==
  /\ ConfidenceAllowed(bps)
  /\ feed' = [price |-> price, publish |-> publish, confidence |-> bps]

\* sync_energy_price_feed: the feed takes what it is given, whatever it has.
SyncFeed(quote, publish) ==
  LET price == PythToU128(quote.price, quote.expo)
  IN /\ publish <= marketTime
     /\ UpdatePrice(price, publish, ConfidenceBps(quote, price))

Holders == {k \in Keepers : held[k] # None}

Sync(k) ==
  LET params == PythUpdatePtb(k)
  IN /\ held[k] # None
     /\ SyncFeed(params.quote, params.publish)
     /\ origin' = params.quote
     /\ held' = [held EXCEPT ![k] = None]
     /\ overtaken' = Holders \ {k}
     /\ trade' = None
     /\ UNCHANGED <<marketTime, epoch, hermes, records, energy, usdc>>

\* Anybody's own call, of either function.
ChangeByCaller ==
  /\ \/ \E u \in CallerPrices : UpdatePrice(u.price, u.publish, u.confidence)
     \/ \E q \in Quotes, t \in Start .. MaxTime : SyncFeed(q, t)
  /\ origin' = Caller
  /\ overtaken' = Holders
  /\ trade' = None
  /\ UNCHANGED <<marketTime, epoch, hermes, held, records, energy, usdc>>

\* The keeper's transaction aborted or was never sent.
GiveUp(k) ==
  /\ held[k] # None
  /\ held' = [held EXCEPT ![k] = None]
  /\ overtaken' = overtaken \ {k}
  /\ trade' = None
  /\ UNCHANGED <<marketTime, epoch, hermes, feed, records, energy, usdc, origin>>

SetKyc(p) ==
  /\ \/ \E s \in Statuses, t \in Expiries :
          records' = [records EXCEPT ![p] = [status |-> s, expiry |-> t]]
     \/ records[p] # None /\ records' = [records EXCEPT ![p] = None]
  /\ trade' = None
  /\ UNCHANGED <<marketTime, epoch, hermes, held, feed, energy, usdc, origin, overtaken>>

\* buildNativeUsdcSettlePtb: both coins are objects the sender owns.
SenderOwns(micro, paid) == energy[Seller] >= micro /\ usdc[Seller] >= paid

\* settle_usdc and settle_native_usdc: the USDC returns to the sender.
Settle(micro, paid, bps) ==
  /\ \A p \in Parties : ClearedToTrade(p)
  /\ FreshOnChain(epoch)
  /\ WithinSlippage(micro, paid, feed.price, bps)
  /\ Liquid(paid)
  /\ SenderOwns(micro, paid)
  /\ energy' = [energy EXCEPT ![Seller] = @ - micro, ![Buyer] = @ + micro]
  /\ usdc' = [usdc EXCEPT ![Seller] = @ - paid + paid]
  /\ trade' = [at |-> marketTime, publish |-> feed.publish, price |-> feed.price,
               origin |-> origin, micro |-> micro, paid |-> paid, bps |-> bps,
               expiry |-> [p \in Parties |-> records[p].expiry]]
  /\ UNCHANGED <<marketTime, epoch, hermes, held, feed, records, origin, overtaken>>

MarketNext ==
  \/ Tick \/ NextEpoch \/ Publish
  \/ \E k \in Keepers : Fetch(k) \/ Sync(k) \/ GiveUp(k)
  \/ ChangeByCaller
  \/ \E p \in Parties : SetKyc(p)
  \/ \E micro \in EnergyAmounts, paid \in UsdcAmounts, bps \in SlippageBps :
       Settle(micro, paid, bps)

MarketSpec == MarketInit /\ [][MarketNext]_marketVars

-----------------------------------------------------------------------------
(* However late a settlement, the feed dated its price less than the stale *)
(* limit before the epoch, and so less than that and an epoch ago, by      *)
(* whoever wrote it last; and no energy is ever sold at the price the      *)
(* deployment seeded the feed with (usdc_settlement.move: settle_usdc,     *)
(* deploy_init.move).                                                      *)
StalenessIsBounded ==
  trade # None =>
    /\ trade.at - trade.publish < PriceStaleMs + EpochLength
    /\ trade.origin # None

(* Both parties' clearance was good when the epoch began: a record that    *)
(* expired is used for less than an epoch (compliance_registry.move:       *)
(* assert_cleared).                                                        *)
ClearanceIsBounded ==
  trade # None =>
    \A p \in Parties : trade.at < trade.expiry[p] + EpochLength

\* The payment is within b basis points of an exact value in 1/1000: never above,
\* and below by less than a unit for each of the two divisions.
WithinExact(paid, exact, b) ==
  /\ (paid + 2) * 1000 > exact - (exact * b) \div BpsDenom
  /\ paid * 1000 <= exact + (exact * b) \div BpsDenom

(* What is paid is within the tolerance of the exact value of the energy   *)
(* at the feed's price, however often it was rounded, and that price is    *)
(* the quote's if a keeper wrote it from one without exponent              *)
(* (usdc_settlement.move: assert_slippage; pyth_price_sync.move).          *)
PaidWithinTolerance ==
  trade # None =>
    /\ WithinExact(trade.paid, (trade.micro * trade.price) \div 1000,
                   SlippageOf(trade.bps))
    /\ trade.origin \in Quotes /\ trade.origin.expo = 0 =>
         trade.price = trade.origin.price

(* What the off-chain adapter passes, the chain passes in the same         *)
(* instant: for every tolerance up to 100 % the adapter is never the       *)
(* looser of the two (usdcSettlement.ts: assertFreshPrice, assertSlippage).*)
AdapterNeverLooser ==
  AdapterFresh(marketTime) =>
    /\ FreshOnChain(marketTime)
    /\ \A micro \in EnergyAmounts, paid \in UsdcAmounts, bps \in SlippageBps :
         /\ bps <= BpsDenom
         /\ AdapterSlippage(micro, paid, feed.price, bps)
         => WithinSlippage(micro, paid, feed.price, bps)

(* From one keeper's update to the next, the feed goes back in time only   *)
(* when a keeper that fetched before the feed last changed applies its own *)
(* quote after it; otherwise only when somebody else changes or has        *)
(* changed it (pyth_price_sync.move: apply_pyth_snapshot takes any time up *)
(* to now, usdc_settlement.move: update_price any at all).                 *)
RegressNeedsOvertaking ==
  [][feed'.publish < feed.publish /\ origin # Caller /\ origin' # Caller =>
       \E k \in overtaken : held[k].publish = feed'.publish]_marketVars

\* A trade is settled at a price and on clearances no older than the code allows,
\* as far as the feed's writer told the time, for what the feed says within the
\* tolerance, and what the adapter accepts the chain accepts.
TradesSafe ==
  /\ MarketTypeOK
  /\ StalenessIsBounded
  /\ ClearanceIsBounded
  /\ PaidWithinTolerance
  /\ AdapterNeverLooser
=============================================================================
