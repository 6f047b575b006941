------------------------------- MODULE OffRamp -------------------------------
(***************************************************************************)
(* The off-ramp client: USDC to a bank account through Circle.             *)
(*                                                                         *)
(* A conversion needs a human approval.  Without an API key it is only      *)
(* simulated, and the answer says pending all the same: only its reference *)
(* tells.  The request carries no key of its own: Circle may take it       *)
(* and its answer be an error or be lost, and who tries again asks for     *)
(* another transfer.  The caller is external (the program has none yet):   *)
(* it tries again what failed or threw.                                    *)
(***************************************************************************)
EXTENDS Naturals

CONSTANTS
  Conversions,
  MaxAttempts,   \* bounds the attempts of a conversion
  Amounts, Fees  \* what is quoted; fees in basis points

ASSUME OffRampAssumption == {MaxAttempts} \cup Amounts \cup Fees \subseteq Nat

\* MAX_FEE_BPS with a digit too many.
MaxFeeTen == 5000

MAX_FEE_BPS == 500

VARIABLES
  circleKey,     \* CIRCLE_API_KEY is set
  attempts,   \* of each conversion
  approved,   \* how many of them had a human's approval; history
  requested,      \* its request is under way
  status,     \* of its last answer
  reference,  \* of its last answer: none, simulated, failed or Circle's
  transfers,  \* requests of it that Circle took
  quoted      \* the last quote: amount, fee asked for, fee taken, payout

rampVars == <<circleKey, attempts, approved, requested, status, reference, transfers, quoted>>

NoQuote == [in |-> 0, asked |-> 0, bps |-> 0, payout |-> 0]

OffRampTypeOK ==
  /\ circleKey \in BOOLEAN
  /\ attempts \in [Conversions -> 0 .. MaxAttempts]
  /\ approved \in [Conversions -> 0 .. MaxAttempts]
  /\ requested \in [Conversions -> {"no", "sent", "taken"}]
  /\ status \in [Conversions -> {"none", "blocked", "pending", "completed", "failed", "thrown"}]
  /\ reference \in [Conversions -> {"none", "sim-cctp", "failed", "circle"}]
  /\ transfers \in [Conversions -> 0 .. MaxAttempts]
  /\ quoted.bps <= MAX_FEE_BPS

OffRampInit ==
  /\ circleKey \in BOOLEAN
  /\ attempts = [c \in Conversions |-> 0]
  /\ approved = [c \in Conversions |-> 0]
  /\ requested = [c \in Conversions |-> "no"]
  /\ status = [c \in Conversions |-> "none"]
  /\ reference = [c \in Conversions |-> "none"]
  /\ transfers = [c \in Conversions |-> 0]
  /\ quoted = NoQuote

CappedFee(bps) == IF bps > MAX_FEE_BPS THEN MAX_FEE_BPS ELSE bps

\* The fee is rounded down, for the one who sells.
quote(usdcIn, feeBps) ==
  /\ quoted' = [in |-> usdcIn, asked |-> feeBps, bps |-> CappedFee(feeBps),
                payout |-> usdcIn - (usdcIn * CappedFee(feeBps)) \div 10000]
  /\ UNCHANGED <<circleKey, attempts, approved, requested, status, reference, transfers>>

MayTry(c) == status[c] \in {"none", "blocked", "failed", "thrown"} /\ requested[c] = "no"

Blocked(human) == ~human

\* Without a key nothing is sent, and the answer is pending.
Simulated(human) == human /\ ~circleKey

convertToFiat(c, human) ==
  /\ MayTry(c) /\ attempts[c] < MaxAttempts
  /\ attempts' = [attempts EXCEPT ![c] = @ + 1]
  /\ approved' = [approved EXCEPT ![c] = IF human THEN @ + 1 ELSE @]
  /\ reference' = [reference EXCEPT ![c] = IF Simulated(human) THEN "sim-cctp" ELSE "none"]
  /\ status' = [status EXCEPT ![c] = IF Blocked(human) THEN "blocked"
                                      ELSE IF Simulated(human) THEN "pending" ELSE "none"]
  /\ requested' = [requested EXCEPT ![c] = IF Blocked(human) \/ Simulated(human) THEN "no" ELSE "sent"]
  /\ UNCHANGED <<circleKey, transfers, quoted>>

CircleTakes(c) ==
  /\ requested[c] = "sent"
  /\ requested' = [requested EXCEPT ![c] = "taken"]
  /\ transfers' = [transfers EXCEPT ![c] = @ + 1]
  /\ UNCHANGED <<circleKey, attempts, approved, status, reference, quoted>>

\* Circle's word for a transfer it took is external, failed among them; every
\* one but complete is pending to the client.
StatusOf(word) == IF word = "complete" THEN "completed" ELSE "pending"

\* An error, whether Circle took the transfer or not, is a failure; no answer,
\* or one that is not JSON, is thrown.
CircleAnswers(c) ==
  /\ requested[c] # "no"
  /\ \/ \E a \in {"failed", "thrown"} :
          /\ status' = [status EXCEPT ![c] = a]
          /\ reference' = [reference EXCEPT ![c] = IF a = "failed" THEN "failed" ELSE "none"]
     \/ /\ requested[c] = "taken"
        /\ \E word \in {"pending", "complete", "failed", "no word"} :
             status' = [status EXCEPT ![c] = StatusOf(word)]
        /\ reference' = [reference EXCEPT ![c] = "circle"]
  /\ requested' = [requested EXCEPT ![c] = "no"]
  /\ UNCHANGED <<circleKey, attempts, approved, transfers, quoted>>

OffRampNext ==
  \/ \E a \in Amounts, f \in Fees : quote(a, f)
  \/ \E c \in Conversions :
       \/ \E human \in BOOLEAN : convertToFiat(c, human)
       \/ CircleTakes(c)
       \/ CircleAnswers(c)

OffRampSpec == OffRampInit /\ [][OffRampNext]_rampVars

-----------------------------------------------------------------------------
(* Properties.                                                             *)

\* An answer with a reference of Circle's is about a request that Circle took, and
\* only such an answer is completed; pending alone says nothing.  Circle takes no
\* more requests than a human approved, however often failed and unanswered ones
\* are tried again, and none without a key (circleOfframpClient.ts:43-48, :61-70).
AcceptedIsTaken ==
  \A c \in Conversions :
    /\ status[c] = "completed" => reference[c] = "circle"
    /\ reference[c] = "circle" => transfers[c] > 0
    /\ transfers[c] <= approved[c]
    /\ ~circleKey => transfers[c] = 0

\* Whatever fee is asked for, at least 95 percent is paid out, and fee and
\* payout make up the amount to the unit (circleOfframpClient.ts:28).
PayoutIsBounded ==
  /\ quoted.payout <= quoted.in
  /\ 100 * quoted.payout >= 95 * quoted.in
  /\ quoted.asked > 0 /\ quoted.in >= 10000 => quoted.payout < quoted.in

\* What is reported with Circle's reference was taken, on approval, and for no less
\* than the bound.
OffRampSafe == OffRampTypeOK /\ AcceptedIsTaken /\ PayoutIsBounded
=============================================================================
