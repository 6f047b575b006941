-------------------------- MODULE MCExecutionEngine --------------------------
(* The contracts of layer 4: the engine, which decides whether a batch may  *)
(* run, and its payments in tokens.  The two modules describe one contract  *)
(* at two levels and share no variable, so one of them moves in a behaviour *)
(* and the other stays as it was made.                                      *)
EXTENDS ExecutionEngine, ObligationPayments, TLC

CONSTANTS a, c1, c2, snap, grid, lands, k1, k2, payer, other, kwh

VARIABLE part  \* the level that moves

-----------------------------------------------------------------------------
(* The engine *)

\* One obligation in a partition and one outside, both to the relayer itself.
MCObligationLists ==
  {<<[to |-> a, partition |-> NoPartition], [to |-> a, partition |-> grid]>>}

\* Two proofs of the one snapshot: each fits either contract.
MCProofs == {[key |-> k1, snapshot |-> snap], [key |-> k2, snapshot |-> snap]}

\* No definition tells contracts apart, or proofs of the same snapshot.
EngineSymmetry == Permutations({c1, c2}) \cup Permutations({k1, k2})

-----------------------------------------------------------------------------
(* The payments *)

Ob(t, to, v) == [token |-> t, to |-> to, value |-> v]

\* Two obligations a payer with 2 can meet only one of, one the payer owes
\* itself before another, and one in each token with one on record only.
MCBatches ==
  {<<Ob(kwh, other, 1), Ob(kwh, other, 2)>>,
   <<Ob(kwh, payer, 2), Ob(kwh, Engine, 1)>>,
   <<Ob(Erc20, other, 1), Ob(kwh, other, 1), Ob(NoToken, other, 3)>>}

\* One plain token is enough for the one obligation in it.
MaxPlain == 1

-----------------------------------------------------------------------------
MCInit == part \in {"engine", "payments"} /\ EngineInit /\ PaymentInit

MCNext ==
  /\ UNCHANGED part
  /\ \/ part = "engine" /\ EngineNext /\ UNCHANGED paymentVars
     \/ part = "payments" /\ PaymentNext /\ minted'[Erc20] <= MaxPlain /\ UNCHANGED engineVars

MCSpec == MCInit /\ [][MCNext]_<<part, engineVars, paymentVars>>
=============================================================================
