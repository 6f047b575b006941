------------------------- MODULE ObligationPayments -------------------------
(***************************************************************************)
(* Layer 4 on chain: how a batch pays its obligations, the contract        *)
(* EnergyComplianceToken they are paid in and the registry both ask.       *)
(*                                                                         *)
(* ExecutionEngine decides whether a batch may run and leaves the tokens   *)
(* out; this module starts where that one ends.  An obligation is paid by  *)
(* the caller or, when the caller holds too little, by the engine, and one *)
(* that cannot be paid reverts the whole batch.  Each obligation changes   *)
(* the balances the next one is judged by.                                 *)
(*                                                                         *)
(* A partition of the compliance token is a token here, beside one plain   *)
(* ERC-20, which is external.  Of the identity registry, modelled there,   *)
(* only its answers remain: who is verified and not frozen, and whose      *)
(* country a partition admits; governance changes both at any time.        *)
(***************************************************************************)
EXTENDS Integers, Sequences, FiniteSetsExt

CONSTANTS
  Holders,      \* accounts other than the engine
  Engine,       \* the engine's own account
  TokenPartitions,   \* of EnergyComplianceToken
  Erc20,        \* the plain token
  NoToken,      \* address(0): an obligation on record only
  Batches,      \* obligation lists of the registered contracts
  Amounts,      \* of mints, transfers and allowances
  MaxMinted,    \* bounds the supply of each token
  MaxBatches    \* bounds the batches executed

TokenHolders == Holders \cup {Engine}
Tokens == TokenPartitions \cup {Erc20}

ASSUME PaymentAssumption ==
  /\ Engine \notin Holders
  /\ IsFiniteSet(Holders)
  /\ Erc20 \notin TokenPartitions
  /\ NoToken \notin TokenPartitions \cup {Erc20}
  /\ \A obs \in Batches :
       obs \in Seq([token : Tokens \cup {NoToken}, to : TokenHolders, value : Nat])
  /\ Amounts \cup {MaxMinted, MaxBatches} \subseteq Nat

VARIABLES
  balance,           \* of each token and account
  allowance,         \* what the ERC-20 lets the engine take from each holder
  transfersEnabled,  \* of the compliance token
  cleared,           \* accounts the registry calls verified and not frozen
  admitted,          \* <<partition, account>> whose country is whitelisted
  minted,            \* supply of each token; history
  paid               \* batches executed with their callers; history

answerVars == <<cleared, admitted>>
paymentVars == <<balance, allowance, transfersEnabled, answerVars, minted, paid>>

PaymentTypeOK ==
  /\ balance \in [Tokens -> [TokenHolders -> 0 .. MaxMinted]]
  /\ allowance \in [Holders -> Nat]
  /\ transfersEnabled \in BOOLEAN
  /\ cleared \subseteq TokenHolders
  /\ admitted \subseteq TokenPartitions \X TokenHolders
  /\ minted \in [Tokens -> 0 .. MaxMinted]
  /\ paid \in Seq([caller : Holders, obs : Batches])
  /\ Len(paid) <= MaxBatches

PaymentInit ==
  /\ balance = [t \in Tokens |-> [a \in TokenHolders |-> 0]]
  /\ allowance = [a \in Holders |-> 0]
  /\ transfersEnabled = TRUE
  /\ cleared = {}
  /\ admitted = {}
  /\ minted = [t \in Tokens |-> 0]
  /\ paid = <<>>

-----------------------------------------------------------------------------
(* Governance and the ERC-20.                                              *)

SetTransfersEnabled(on) ==
  /\ transfersEnabled' = on
  /\ UNCHANGED <<balance, allowance, answerVars, minted, paid>>

\* mint asks no registry.
Mint(t, to, amount) ==
  /\ minted[t] + amount <= MaxMinted
  /\ balance' = [balance EXCEPT ![t][to] = @ + amount]
  /\ minted' = [minted EXCEPT ![t] = @ + amount]
  /\ UNCHANGED <<allowance, transfersEnabled, answerVars, paid>>

Approve(a, amount) ==
  /\ allowance' = [allowance EXCEPT ![a] = amount]
  /\ UNCHANGED <<balance, transfersEnabled, answerVars, minted, paid>>

SetCleared(a) ==
  /\ cleared' = IF a \in cleared THEN cleared \ {a} ELSE cleared \cup {a}
  /\ UNCHANGED <<balance, allowance, transfersEnabled, admitted, minted, paid>>

SetAdmitted(p, a) ==
  /\ admitted' = IF <<p, a>> \in admitted THEN admitted \ {<<p, a>>}
                                          ELSE admitted \cup {<<p, a>>}
  /\ UNCHANGED <<balance, allowance, transfersEnabled, cleared, minted, paid>>

-----------------------------------------------------------------------------
(* The compliance token.                                                   *)

RegistryAdmits(p, from, to) == {from, to} \subseteq cleared /\ <<p, to>> \in admitted

CanTransferFunds(held, p, from, to, value) ==
  /\ transfersEnabled
  /\ value <= held[p][from]
  /\ RegistryAdmits(p, from, to)

\* Move that reads both balances before it writes either.
MoveReadsFirst(held, t, from, to, value) ==
  [held EXCEPT ![t][from] = held[t][from] - value, ![t][to] = held[t][to] + value]

\* The sender's balance is written before the recipient's is read: the two may
\* be one account.
Move(held, t, from, to, value) ==
  LET less == [held EXCEPT ![t][from] = @ - value]
  IN  [less EXCEPT ![t][to] = @ + value]

\* transferByPartition and transferByPartitionFrom.
TransferByPartition(p, from, to, value) ==
  /\ CanTransferFunds(balance, p, from, to, value)
  /\ balance' = Move(balance, p, from, to, value)
  /\ UNCHANGED <<allowance, transfersEnabled, answerVars, minted, paid>>

-----------------------------------------------------------------------------
(* The engine's payments.  Funds are the balances and the allowances as    *)
(* the obligations before left them.                                       *)

\* _checkCompliance, of the caller and the recipient, whoever pays.
CompliantToPay(caller, ob) ==
  /\ {caller, ob.to} \subseteq cleared
  /\ ob.token \in TokenPartitions => <<ob.token, ob.to>> \in admitted

Payer(caller, funds, ob) ==
  IF funds.balance[ob.token][caller] < ob.value THEN Engine ELSE caller

CanPay(caller, funds, ob) ==
  LET from == Payer(caller, funds, ob)
  IN  CASE ob.token = NoToken -> TRUE
        [] ob.token \in TokenPartitions ->
             CanTransferFunds(funds.balance, ob.token, from, ob.to, ob.value)
        [] ob.token = Erc20 ->
             /\ ob.value <= funds.balance[Erc20][from]
             /\ from # Engine => ob.value <= funds.allowance[from]

\* Pay that finds the payer and moves only the caller's own tokens.
PayOwnOnly(caller, funds, ob) ==
  LET from == Payer(caller, funds, ob)
  IN  IF ob.token = NoToken \/ from = Engine THEN funds
      ELSE [funds EXCEPT !.balance = Move(@, ob.token, from, ob.to, ob.value)]

Pay(caller, funds, ob) ==
  LET from == Payer(caller, funds, ob)
      moved == [funds EXCEPT !.balance = Move(@, ob.token, from, ob.to, ob.value)]
  IN  CASE ob.token = NoToken -> funds
        [] ob.token = Erc20 /\ from # Engine ->
             [moved EXCEPT !.allowance[from] = @ - ob.value]
        [] OTHER -> moved

\* The funds after each obligation of a batch, as the loop leaves them.
FundsAfter(caller, obs) ==
  LET after[i \in 0 .. Len(obs)] ==
        IF i = 0 THEN [balance |-> balance, allowance |-> allowance]
                 ELSE Pay(caller, after[i - 1], obs[i])
  IN  after

\* executeBatch's loop; the pre-execution check asks of every obligation first
\* what the loop asks again of each.
PayBatch(caller, obs) ==
  LET after == FundsAfter(caller, obs)
  IN  /\ Len(paid) < MaxBatches
      /\ \A i \in DOMAIN obs : CompliantToPay(caller, obs[i])
      /\ \A i \in DOMAIN obs : CanPay(caller, after[i - 1], obs[i])
      /\ balance' = after[Len(obs)].balance
      /\ allowance' = after[Len(obs)].allowance
      /\ paid' = Append(paid, [caller |-> caller, obs |-> obs])
      /\ UNCHANGED <<transfersEnabled, answerVars, minted>>

PaymentNext ==
  \/ \E on \in BOOLEAN : SetTransfersEnabled(on)
  \/ \E a \in TokenHolders :
       \/ SetCleared(a)
       \/ \E p \in TokenPartitions : SetAdmitted(p, a)
       \/ \E t \in Tokens, amount \in Amounts : Mint(t, a, amount)
       \/ \E p \in TokenPartitions, to \in TokenHolders, value \in Amounts :
            TransferByPartition(p, a, to, value)
  \/ \E a \in Holders :
       \/ \E amount \in Amounts : Approve(a, amount)
       \/ \E obs \in Batches : PayBatch(a, obs)

PaymentSpec == PaymentInit /\ [][PaymentNext]_paymentVars

-----------------------------------------------------------------------------
(* Properties.                                                             *)

Owed(obs, t, to) ==
  SumFunctionOnSet([i \in DOMAIN obs |-> obs[i].value],
                   {i \in DOMAIN obs : obs[i].token = t /\ obs[i].to \in to})

\* However batches, transfers and mints follow one another, also where payer
\* and recipient are one account, the accounts hold what was minted
\* (EnergyComplianceToken.sol:87-88, ExecutionEngine.sol:325-353).
NothingIsLost ==
  \A t \in Tokens : SumFunctionOnSet(balance[t], TokenHolders) = minted[t]

\* A batch is paid as a whole: every holder but the caller has gained just what
\* all the obligations together owe it, whichever of caller and engine paid
\* each, and so nothing where it is owed nothing (ExecutionEngine.sol:183-203).
BatchIsPaidInFull ==
  [][\A n \in DOMAIN paid' \ DOMAIN paid, t \in Tokens :
       \A a \in Holders \ {paid'[n].caller} :
         balance'[t][a] = balance[t][a] + Owed(paid'[n].obs, t, {a})
    ]_paymentVars

\* The engine's own funds are touched only for a caller who could not pay the
\* whole batch: who holds enough at its start pays all of it, in whatever
\* order the obligations come (ExecutionEngine.sol:327-333).
EngineFillsInOnly ==
  [][\A n \in DOMAIN paid' \ DOMAIN paid, t \in Tokens :
       balance[t][paid'[n].caller] >= Owed(paid'[n].obs, t, TokenHolders)
         => balance'[t][Engine] >= balance[t][Engine]
    ]_paymentVars

\* An account the registry does not clear keeps its partition tokens: nothing
\* but a mint changes its balance, the engine's included, which the engine
\* itself never asks about (EnergyComplianceToken.sol:55-64).
UnclearedKeepsBalance ==
  [][\A p \in TokenPartitions, a \in TokenHolders \ cleared :
       minted' = minted => balance'[p][a] = balance[p][a]
    ]_paymentVars

\* The accounts hold what was minted, whoever pays whom.
FundsSafe == PaymentTypeOK /\ NothingIsLost

\* A batch pays just what it owes, from the caller's funds if they suffice, and
\* never from or to an account the registry does not clear.
BatchesPayDebts == BatchIsPaidInFull /\ EngineFillsInOnly /\ UnclearedKeepsBalance
=============================================================================
