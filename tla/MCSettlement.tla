----------------------------- MODULE MCSettlement -----------------------------
(* Layer 5 off chain: settling executions, the full pipeline's redemption    *)
(* and the archive that both write to, checked in one run.  The modules look *)
(* at one service each from a side of its own and share no variable, so one  *)
(* of them moves in a behaviour and the others stay as they were made.       *)
EXTENDS Settlement, RedemptionHook, EvidenceArchive, TLC

CONSTANTS i1, i2, i1Cut, i2Cut, h1, h2, h3, x1, x2, x3, k1, k2

VARIABLE part

\* Two ids of settlements and the keys they are cut to.
MCIds == {i1, i2}
MCKeys == {i1, i2, i1Cut, i2Cut}
MCKeyOf == (i1 :> i1Cut) @@ (i2 :> i2Cut)

\* Settlement's calls are alike, and so are two runs of one execution.
CallSymmetry == Permutations(Calls) \cup Permutations({h1, h2})

\* So are the ids: of three calls, let the second id have one at most.
SecondIdOnce == Cardinality({c \in Calls : id[c] = i2}) <= 1

\* Two runs share an execution, and thereby an id, and two race for the batch.
MCExecutionOf == [r \in Runs |-> IF r = h3 THEN x2 ELSE x1]

\* Two executions of one contract and one of another.
MCContractOf == [x \in {x1, x2, x3} |-> IF x = x3 THEN k2 ELSE k1]

\* The clients of the API together plan one redemption, prefixed or not.
OneClient ==
  /\ Cardinality(planned) <= 1
  /\ \A i \in planned : i.form # "HEX"

MCInit ==
  /\ part \in {"settlement", "hook", "evidence"}
  /\ SettlementInit /\ HookInit /\ EvidenceInit
  /\ part # "hook" => published /\ asks
  /\ part # "evidence" => backend = "disk" /\ ~pinnable

MCNext ==
  /\ UNCHANGED part
  /\ \/ part = "settlement" /\ SettlementNext /\ SecondIdOnce' /\ UNCHANGED <<hookVars, evidenceVars>>
     \/ part = "hook" /\ HookNext /\ OneClient' /\ UNCHANGED <<settlementVars, evidenceVars>>
     \/ part = "evidence" /\ EvidenceNext /\ UNCHANGED <<settlementVars, hookVars>>

MCSpec == MCInit /\ [][MCNext]_<<part, settlementVars, hookVars, evidenceVars>>
=============================================================================
