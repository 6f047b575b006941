------------------------- MODULE EnergyCertificates -------------------------
(***************************************************************************)
(* What the token ledger promises its users, without meters, coins, KYC    *)
(* or epochs: every signed meter reading is turned into tokens and one     *)
(* certificate at most once, a certificate leaves the market exactly once, *)
(* and it leaves either with its tokens (redeemed) or without them         *)
(* (withdrawn: marked without a burn, or exported over the bridge).        *)
(* EnergyToken and UtilityBilling are shown to implement this module.      *)
(***************************************************************************)
EXTENDS Naturals

CONSTANTS
  Readings,     \* signed readings, records with at least a field kwh
  Scale         \* base units of the coin per kWh

VARIABLES
  issued,       \* readings that have a certificate
  redeemed,     \* readings whose certificate left together with its tokens
  withdrawn,    \* readings whose certificate left without its tokens
  circulating   \* base units in circulation

certVars == <<issued, redeemed, withdrawn, circulating>>

Tokens(r) == r.kwh * Scale

Live == issued \ (redeemed \cup withdrawn)

CertInit ==
  /\ issued = {}
  /\ redeemed = {}
  /\ withdrawn = {}
  /\ circulating = 0

Issue(r) ==
  /\ r \notin issued
  /\ issued' = issued \cup {r}
  /\ circulating' = circulating + Tokens(r)
  /\ UNCHANGED <<redeemed, withdrawn>>

Redeem(r) ==
  /\ r \in Live
  /\ Tokens(r) <= circulating
  /\ redeemed' = redeemed \cup {r}
  /\ circulating' = circulating - Tokens(r)
  /\ UNCHANGED <<issued, withdrawn>>

Withdraw(r) ==
  /\ r \in Live
  /\ withdrawn' = withdrawn \cup {r}
  /\ UNCHANGED <<issued, redeemed, circulating>>

CertNext == \E r \in Readings : Issue(r) \/ Redeem(r) \/ Withdraw(r)

CertSpec == CertInit /\ [][CertNext]_certVars
=============================================================================
