--------------------------- MODULE MCPipelineRunner ---------------------------
(* The two services of layer 4 that send executions: the pipeline runner,    *)
(* and the orchestrator, whose caller sends what it prepares.  They share no *)
(* state, so one of them moves in a behaviour and the other stays as it was  *)
(* made.                                                                     *)
EXTENDS PipelineRunner, ExecutionOrchestrator, TLC

CONSTANTS
  r1, r2, r3, e1, e2, placeholder, pay,
  Parts  \* the components that may move

VARIABLE part

\* Two runs of one execution, and one of another on the same account.
TwoAndOne == (r1 :> e1) @@ (r2 :> e1) @@ (r3 :> e2)

\* Two runs of one execution, and of two.
TwoOfOne == (r1 :> e1) @@ (r2 :> e1)
OneOfTwo == (r1 :> e1) @@ (r2 :> e2)

\* No definition tells the runs of one execution apart.
RunSymmetry == Permutations({r1, r2})

\* The context createExecutionContext fills in.
MCDefaultRequest == e1 :> [obligations |-> <<pay>>, snapshot |-> placeholder]

MCInit == part \in Parts /\ RunnerInit /\ OrchestratorInit

MCNext ==
  /\ UNCHANGED part
  /\ \/ part = "runner" /\ RunnerNext /\ UNCHANGED orchestratorVars
     \/ part = "orchestrator" /\ OrchestratorNext /\ UNCHANGED runnerVars

MCSpec == MCInit /\ [][MCNext]_<<part, runnerVars, orchestratorVars>>
=============================================================================
