------------------------ MODULE MCExecutionHandoff ------------------------
(* An instance of ExecutionHandoff in three scopes.  "lifecycle": runs      *)
(* through the Safe, with two proofs, two openings and two sent runs, by    *)
(* one signer whom the Safe keeps.  "signers": one run, live or simulated,  *)
(* with any list of signatures while the Safe is reconfigured.  "nonces":   *)
(* live runs for two contracts, the second sent while the transaction of    *)
(* the first may be pending.                                                *)
EXTENDS ExecutionHandoff, TLC

CONSTANTS relayer, safe1, c1, c2, s1, k1, k2, u, v

VARIABLE scope

MCObligationLists == {<<[to |-> relayer, partition |-> NoPartition]>>}

MCProofs == {[key |-> k1, snapshot |-> s1], [key |-> k2, snapshot |-> s1]}

MCSignatureLists == {<<u>>, <<u, v>>, <<u, u>>}

OneOwner == [owners |-> {u}, threshold |-> 1]

\* The Safe replaces an owner, or asks for both.
MCSafeConfigs ==
  {OneOwner, [owners |-> {v}, threshold |-> 1], [owners |-> {u, v}, threshold |-> 2]}

MCInit ==
  /\ scope \in {"lifecycle", "signers", "nonces"}
  /\ HandoffInit
  /\ scope = "lifecycle" <=> mode = "safe"
  /\ scope = "nonces" => mode = "live"
  /\ scope # "signers" => safe = OneOwner

OneContract ==
  /\ openings'[c2] = 0 /\ l3'[c2] = "MONITORING" /\ module'.deadline[c2] = 0
  /\ arbitration'[c2] = arbitration[c2]
  /\ run'.pc # "idle" => run'.request.contract = c1
  /\ report'.status = "FAILED" => report'.id[1] = c1

OneSigner == safe' = OneOwner /\ (run'.pc # "idle" => run'.request.signers = <<u>>)

\* What a step leads to stays in the scope: the one execution deadline is set in
\* the first block, so that it may pass before a transaction is mined, and an
\* arbitration finds for the payment.
InLifecycle ==
  /\ OneContract /\ OneSigner
  /\ module'.deadline[c1] \in {0, Expiry}
  /\ arbitration'[c1].override => arbitration'[c1].met

AmongSigners ==
  /\ OneContract
  /\ time' <= 1 /\ openings'[c1] <= 1 /\ Len(attempts') <= 1
  /\ run'.pc # "idle" => attempts = <<>> \/ run # Idle
  /\ module' = module

\* Contracts opened once, in the first block; runs of layer 3's own when their
\* windows have closed, each with a proof of its own.
AmongNonces ==
  /\ OneSigner
  /\ module' = module /\ arbitration' = arbitration
  /\ \A c \in Contracts :
       /\ openings'[c] <= (IF time = 0 THEN 1 ELSE openings[c])
       /\ l3'[c] # "ARBITRATION_RESOLVED"
  /\ run'.pc # "idle" /\ run = Idle =>
       /\ time = MaxTime /\ ~run'.request.bridged
       /\ \A i \in DOMAIN attempts : attempts[i].request.proof # run'.request.proof

MCNext ==
  /\ UNCHANGED scope
  /\ HandoffNext
  /\ \/ scope = "lifecycle" /\ InLifecycle
     \/ scope = "signers" /\ AmongSigners
     \/ scope = "nonces" /\ AmongNonces

\* No definition tells proofs of the same snapshot apart.
HandoffSymmetry == Permutations({k1, k2})

MCSpec == MCInit /\ [][MCNext]_<<scope, handoffVars>>
===========================================================================
