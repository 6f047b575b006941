------------------------------- MODULE MCTools --------------------------------
(* The clients, checks and scripts around the services.  They share no state,  *)
(* so one of them moves in a behaviour and the others stay as they were made.  *)
EXTENDS ApiAccess, BridgeWatcher, Dashboard, Deployment, DevStack, MoveCalls, OffRamp,
        Preflight, VaaClient, TLC

CONSTANT ToolParts  \* the components that may move

VARIABLE part

\* Messages are alike, and so are the fetches of a VAA and the
\* addresses of clients.
ToolSymmetry == Permutations(Messages) \cup Permutations(Fetches)
                  \cup Permutations(Clients)

-----------------------------------------------------------------------------
(* Deployment: the three ids that are probed, one more that the mainnet      *)
(* checks ask for, and the batch, for the ids only testnet asks for.  An     *)
(* edit sets all of them, the probed ones, the batch, or an option or two.   *)

MCPublishKeys == Probed \cup {"L5_REDEMPTION_REGISTRY_ID", "L5_ENERGY_BATCH_ID"}

MCEditSets ==
  {MCPublishKeys, Probed, {"L5_ENERGY_BATCH_ID"}, {"SUI_PTB_STUB"},
   {"SUI_SIGNER_SECRET_KEY", "SETTLEMENT_DATA_DIR", "PYTH_PRICE_FEED_ID"}}

\* Bounds the deployments: another network, or an odd manifest, not both.
OneOddity == network = "testnet" \/ (network = "mainnet" /\ manifest = "good")

-----------------------------------------------------------------------------
(* Preflight: combinations of the RPC variables in the repository's file;    *)
(* layer 5's file is absent or names another URL and API key; the shell is   *)
(* empty or exports a URL.                                                   *)

MCRpc == [SUI_NETWORK : {"testnet", "mainnet"}, SUI_RPC_URL : {"", "shinami"},
          SHINAMI_NODE_URL : {"none", "shinami"}, BLOCKVISION_RPC_URL : {"none", "blockvision"},
          SUI_RPC_API_KEY : {"key 1"}, SHINAMI_API_KEY : {"none"},
          SMOKE_RPC_FALLBACK : {"none", "0"}, SETTLEMENT_API_KEY : {"real"}, PUBLISH_IDS : {"all"}]

MCRootFiles == {Missing} \cup {[present |-> TRUE, vars |-> rpc] : rpc \in MCRpc}
MCLayerFiles == {Missing,
                 [present |-> TRUE, vars |-> [Unset EXCEPT !["SUI_RPC_URL"] = "quicknode",
                                                           !["SETTLEMENT_API_KEY"] = "other"]]}
MCShells == {Unset, [Unset EXCEPT !["SUI_RPC_URL"] = "quicknode"]}

-----------------------------------------------------------------------------

\* With no key set, every request to the API is answered as with the key.
MCInit ==
  /\ part \in ToolParts
  /\ AccessInit /\ keySet /\ (part # "access" => publicRead)
  /\ WatcherInit /\ (part # "watcher" => pendingFile = {} /\ durable = {})
  /\ DashboardInit /\ (part # "dashboard" => page = "audit" /\ ~reachable /\ ~ready)
  /\ DeploymentInit /\ OneOddity
  /\ part # "deployment" => network = "testnet" /\ manifest = "good"
  /\ DevStackInit
  /\ part # "stack" => apiPort = DefaultPort /\ base = DefaultBase /\ fileKey = "key 1" /\ key = "key 1"
  /\ CallsInit
  /\ OffRampInit /\ (part # "off-ramp" => circleKey)
  /\ PreflightInit
  /\ part # "preflight" => root = Missing /\ layer = Missing /\ shell = Unset /\ ignored
  /\ VaaInit

\* One of the components moves.
MCNext ==
  /\ UNCHANGED part
  /\ \/ part = "access" /\ AccessNext
        /\ UNCHANGED <<bridgeVars, dashboardVars, deploymentVars, devVars, callsVars, rampVars, preflightVars, vaaVars>>
     \/ part = "watcher" /\ BridgeNext
        /\ UNCHANGED <<accessVars, dashboardVars, deploymentVars, devVars, callsVars, rampVars, preflightVars, vaaVars>>
     \/ part = "dashboard" /\ DashboardNext
        /\ UNCHANGED <<accessVars, bridgeVars, deploymentVars, devVars, callsVars, rampVars, preflightVars, vaaVars>>
     \/ part = "deployment" /\ DeploymentNext
        /\ UNCHANGED <<accessVars, bridgeVars, dashboardVars, devVars, callsVars, rampVars, preflightVars, vaaVars>>
     \/ part = "stack" /\ DevStackNext
        /\ UNCHANGED <<accessVars, bridgeVars, dashboardVars, deploymentVars, callsVars, rampVars, preflightVars, vaaVars>>
     \/ part = "calls" /\ CallsNext
        /\ UNCHANGED <<accessVars, bridgeVars, dashboardVars, deploymentVars, devVars, rampVars, preflightVars, vaaVars>>
     \/ part = "off-ramp" /\ OffRampNext
        /\ UNCHANGED <<accessVars, bridgeVars, dashboardVars, deploymentVars, devVars, callsVars, preflightVars, vaaVars>>
     \/ part = "preflight" /\ PreflightNext
        /\ UNCHANGED <<accessVars, bridgeVars, dashboardVars, deploymentVars, devVars, callsVars, rampVars, vaaVars>>
     \/ part = "vaa" /\ VaaNext
        /\ UNCHANGED <<accessVars, bridgeVars, dashboardVars, deploymentVars, devVars, callsVars, rampVars, preflightVars>>

toolVars == <<part, accessVars, bridgeVars, dashboardVars, deploymentVars, devVars, callsVars, rampVars,
              preflightVars, vaaVars>>

MCSpec == MCInit /\ [][MCNext]_toolVars
=============================================================================
