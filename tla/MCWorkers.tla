------------------------------ MODULE MCWorkers -------------------------------
(* The processes that must make progress: the event indexer, the bridge        *)
(* watcher, the audit stream, the dashboard and the pipeline runner.  They     *)
(* share no state, so one of them moves in a behaviour and the others stay as  *)
(* they were made; fairness is that of the component that moves.               *)
EXTENDS EventIndexer, BridgeWatcher, AuditStream, Dashboard, PipelineRunner, TLC

CONSTANTS
  r1, r2, e1,
  WorkerParts  \* the components that may move

VARIABLE part

\* Two runs of one execution.
TwoOfOne == (r1 :> e1) @@ (r2 :> e1)

MCInit ==
  /\ part \in WorkerParts
  /\ IndexerInit /\ WatcherInit /\ AuditInit /\ DashboardInit /\ RunnerInit
  /\ part # "watcher" => pendingFile = {} /\ durable = {}
  /\ part # "audit" => store = "disk"
  /\ part # "dashboard" => page = "dashboard" /\ ~reachable /\ ~ready

IndexerMoves == part = "indexer" /\ UNCHANGED <<part, bridgeVars, auditVars, dashboardVars, runnerVars>>
WatcherMoves == part = "watcher" /\ UNCHANGED <<part, indexerVars, auditVars, dashboardVars, runnerVars>>
AuditMoves == part = "audit" /\ UNCHANGED <<part, indexerVars, bridgeVars, dashboardVars, runnerVars>>
DashboardMoves == part = "dashboard" /\ UNCHANGED <<part, indexerVars, bridgeVars, auditVars, runnerVars>>
RunnerMoves == part = "runner" /\ UNCHANGED <<part, indexerVars, bridgeVars, auditVars, dashboardVars>>

MCNext ==
  \/ IndexerMoves /\ IndexerNext
  \/ WatcherMoves /\ BridgeNext
  \/ AuditMoves /\ AuditNext
  \/ DashboardMoves /\ DashboardNext
  \/ RunnerMoves /\ RunnerNext

\* IndexerFairness, BridgeFairness and the fairness of AuditFairSpec,
\* DashboardFairSpec and FairRunnerSpec, each when its component moves.
MCFairness ==
  /\ WF_indexerVars(part = "indexer" /\ Tick)
  /\ WF_indexerVars(part = "indexer" /\ \E p \in Polls : Fire(p))
  /\ \A p \in Polls : SF_indexerVars(part = "indexer" /\ Answer(p))
  /\ \A e \in Events : WF_indexerVars(part = "indexer" /\ (HandlerAudits(e) \/ HandlerFails(e)))
  /\ \A p \in WatcherProcesses : /\ WF_bridgeVars(part = "watcher" /\ Truncate(p))
                                 /\ WF_bridgeVars(part = "watcher" /\ Write(p))
  /\ WF_bridgeVars(part = "watcher" /\ \E p \in WatcherPolls : Poll(p))
  /\ \A p \in WatcherPolls :
       WF_bridgeVars(part = "watcher" /\ \E m \in Messages : ConfirmBridge(p, m) \/ NotConfirmed(p, m))
  /\ \A m \in Messages :
       SF_bridgeVars(part = "watcher" /\ \E p \in WatcherPolls : ConfirmBridge(p, m) /\ pendingFile # TornFile)
  /\ WF_bridgeVars(part = "watcher" /\ WatcherTick)
  /\ \A c \in Clients : WF_auditVars(part = "audit" /\ PushNew(c))
  /\ \A q \in Queries : /\ WF_dashboardVars(part = "dashboard" /\ Serve(q))
                        /\ WF_dashboardVars(part = "dashboard" /\ Show(q))
  /\ WF_dashboardVars(part = "dashboard" /\ RefetchInterval)
  /\ \A r \in Runs : WF_runnerVars(part = "runner" /\ RunStep(r))

workerVars == <<part, indexerVars, bridgeVars, auditVars, dashboardVars, runnerVars>>

MCSpec == MCInit /\ [][MCNext]_workerVars /\ MCFairness
=============================================================================
