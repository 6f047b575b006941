------------------------------ MODULE Deployment ------------------------------
(***************************************************************************)
(* Layer 5 off chain: from published object ids in the environment to a    *)
(* settlement API that redeems.                                            *)
(*                                                                         *)
(* An operator edits the settings, runs the checks the repository has for  *)
(* them and starts the API, which keeps the settings it was started with.  *)
(* From these it is a stub, which answers submissions with a made-up       *)
(* digest, or live, naming the objects of the redemption by their ids; or  *)
(* it does not start.  The checks and the API each read the settings by    *)
(* rules of their own: which keys count, and when a value counts as set.   *)
(*                                                                         *)
(* A value is abstracted to what the rules tell apart.  Objects of one     *)
(* mint share a name; a batch is redeemed once (UtilityBilling).  The RPC  *)
(* endpoint may fail at any time.  Settings of the RPC endpoint and of     *)
(* pinning, which only raise warnings, are left out; checks that read the  *)
(* shell and checks that read the .env file are given the same settings.   *)
(***************************************************************************)
EXTENDS Naturals

CONSTANTS
  PublishKeys,   \* the ids of a published deployment: twelve
  Mints,         \* names of objects on chain
  EditSets,      \* groups of keys an operator sets together
  MaxEdits

Probed == {"L5_PACKAGE_ID", "L3_GRID_PACKAGE_ID", "L5_TREASURY_GUARD_ID"}
OptionKeys == {"SUI_SIGNER_SECRET_KEY", "SUI_MULTISIG_PUBLIC_KEY", "SUI_PTB_STUB",
               "SETTLEMENT_DATA_DIR", "PYTH_PRICE_FEED_ID"}
Keys == PublishKeys \cup OptionKeys

ASSUME DeploymentAssumption ==
  /\ Probed \cup {"L5_REDEMPTION_REGISTRY_ID", "L5_ENERGY_BATCH_ID"} \subseteq PublishKeys
  /\ PublishKeys \cap OptionKeys = {}
  /\ Mints \cap {"unset", "blank", "placeholder", "ghost"} = {}
  /\ EditSets \subseteq SUBSET Keys
  /\ MaxEdits \in Nat

VARIABLES
  network, manifest,
  settings, edits,
  passed,      \* what checks reported of the settings as they are
  api,         \* "down", "up", or "failed" to start
  env,         \* process.env of the API
  told,        \* what was reported of env, before or after the start
  answers,     \* kinds of answers to submissions since the start
  redeems,     \* redemptions executed since the start
  spent        \* batches redeemed

operatorVars == <<settings, edits, passed>>
processVars == <<api, env, told, answers, redeems>>
deploymentVars == <<network, manifest, operatorVars, processVars, spent>>

\* White space only; "0x..." from an example file; well formed, not on chain.
IdValues == {"unset", "blank", "placeholder", "ghost"} \cup Mints

\* SUI_PTB_STUB is given as "false"; a multisig key admits one member's
\* signature or needs several.
ValuesOf(k) ==
  IF k \in PublishKeys THEN IdValues
  ELSE IF k = "SUI_MULTISIG_PUBLIC_KEY" THEN {"unset", "one", "several"}
  ELSE {"unset", "given"}

\* Of the network's manifest: an id that is missing or zero, the Hermes
\* address of mainnet, or no file, as in the container's image.
Manifests == {"good", "bad id", "mainnet Hermes", "mainnet Hermes, path", "missing"}

OnChain(v) == v \in Mints
Trimmed(v) == v \notin {"unset", "blank"}

-----------------------------------------------------------------------------
(* What the API makes of its environment.                                  *)

IsSet(v) == v # "unset"

hasPublishedDeployment(e) == \A k \in Probed : IsSet(e[k])

\* loadPublishedDeployment, and with it the constructor, throws otherwise.
Constructs(e) == hasPublishedDeployment(e) => \A k \in PublishKeys : IsSet(e[k])

useStub(e) == ~hasPublishedDeployment(e) /\ e["SUI_PTB_STUB"] = "unset"

\* BatchOf that is read from the file again.
BatchReread(e) == settings["L5_ENERGY_BATCH_ID"]
BatchOf(e) == e["L5_ENERGY_BATCH_ID"]

\* The PTB names every object, the dry-run finds them, the batch is open.
DryRunPasses(e) ==
  /\ hasPublishedDeployment(e)
  /\ \A k \in PublishKeys : OnChain(e[k])
  /\ OnChain(BatchOf(e)) /\ BatchOf(e) \notin spent

\* resolveSigner has one member's key: several are more than it can give.
Signs(e) == e["SUI_SIGNER_SECRET_KEY"] = "given" /\ e["SUI_MULTISIG_PUBLIC_KEY"] # "several"

-----------------------------------------------------------------------------
(* The checks.                                                             *)

ContractsValid == manifest \notin {"bad id", "missing"}

\* G-MANIFEST, G-PYTH-HERMES and the two scripts compare the whole address;
\* there is no manifest for a local network.  (validateExternalContracts, which
\* only its own callers ask, looks for the host instead.)
ManifestPasses ==
  /\ network # "localnet"
  /\ ContractsValid
  /\ ~(network = "testnet" /\ manifest = "mainnet Hermes")

GatePublished(e) ==
  IF network = "testnet" THEN \A k \in PublishKeys : Trimmed(e[k])
                         ELSE hasPublishedDeployment(e)

\* runGateChecklist without a failing gate: the others only warn.
GatesReady(e, withRpc) ==
  /\ ManifestPasses
  /\ GatePublished(e)
  /\ withRpc /\ Trimmed(e["L5_PACKAGE_ID"]) => OnChain(e["L5_PACKAGE_ID"])

MainnetKeys == Probed \cup {"L5_REDEMPTION_REGISTRY_ID", "PYTH_PRICE_FEED_ID", "SUI_MULTISIG_PUBLIC_KEY"}

EnvRequired == IF network = "testnet" THEN PublishKeys \cup {"SETTLEMENT_DATA_DIR"} ELSE MainnetKeys

\* verify-production-readiness exits 0.
ReadinessPasses(e, withRpc) ==
  /\ ManifestPasses
  /\ \A k \in EnvRequired : Trimmed(e[k]) /\ e[k] # "placeholder"
  /\ withRpc => OnChain(e["L5_PACKAGE_ID"])

\* verify-deployment exits 0: of four keys, those that are set exist.
Verified(e) ==
  LET asked == {k \in Probed \cup {"L5_REDEMPTION_REGISTRY_ID"} : IsSet(e[k])}
  IN  asked # {} /\ \A k \in asked : OnChain(e[k])

\* check-env-local: "on-chain submit will stay in stub mode".
StubNotice(e) == \A k \in PublishKeys : ~Trimmed(e[k])

Reports(e, withRpc) ==
  (IF GatesReady(e, withRpc) THEN {"gates"} ELSE {}) \cup
  (IF ReadinessPasses(e, withRpc) THEN {"readiness"} ELSE {}) \cup
  (IF Verified(e) THEN {"verified"} ELSE {}) \cup
  (IF StubNotice(e) THEN {"stub notice"} ELSE {})

-----------------------------------------------------------------------------

DeploymentTypeOK ==
  /\ network \in {"testnet", "mainnet", "localnet"}
  /\ manifest \in Manifests
  /\ \A k \in Keys : settings[k] \in ValuesOf(k) /\ env[k] \in ValuesOf(k)
  /\ edits \in 0 .. MaxEdits
  /\ {passed, told} \subseteq SUBSET {"gates", "readiness", "verified", "stub notice"}
  /\ api \in {"down", "up", "failed"}
  /\ answers \subseteq {"stub", "error", "multisig", "single key"}
  /\ redeems \in Nat
  /\ spent \subseteq Mints
  /\ api = "up" => Constructs(env)

DeploymentInit ==
  /\ network \in {"testnet", "mainnet", "localnet"}
  /\ manifest \in Manifests
  /\ settings = [k \in Keys |-> "unset"] /\ env = settings
  /\ edits = 0
  /\ passed = {} /\ told = {}
  /\ api = "down"
  /\ answers = {} /\ redeems = 0
  /\ spent = {}

Edit(S, v) ==
  /\ edits < MaxEdits
  /\ \A k \in S : v \in ValuesOf(k)
  /\ settings' = [k \in Keys |-> IF k \in S THEN v ELSE settings[k]]
  /\ edits' = edits + 1
  /\ passed' = {}
  /\ UNCHANGED <<network, manifest, processVars, spent>>

\* The operator runs the checks, with the endpoint or without it.
Check(withRpc) ==
  /\ passed' = passed \cup Reports(settings, withRpc)
  /\ UNCHANGED <<network, manifest, settings, edits, processVars, spent>>

\* GET /v1/gates is about the environment of the process itself.
ServeGates(withRpc) ==
  /\ api = "up"
  /\ GatesReady(env, withRpc)
  /\ told' = told \cup {"gates"}
  /\ UNCHANGED <<network, manifest, operatorVars, api, env, answers, redeems, spent>>

Start ==
  /\ api # "up"
  /\ api' = IF Constructs(settings) THEN "up" ELSE "failed"
  /\ env' = settings
  /\ told' = passed
  /\ answers' = {} /\ redeems' = 0
  /\ UNCHANGED <<network, manifest, operatorVars, spent>>

Stop ==
  /\ api = "up"
  /\ api' = "down"
  /\ UNCHANGED <<network, manifest, operatorVars, env, told, answers, redeems, spent>>

Answered(a) ==
  /\ api = "up"
  /\ answers' = answers \cup {a}
  /\ UNCHANGED <<network, manifest, operatorVars, api, env, told>>

\* planRedemption reads the manifest before anything is sent.
Plans == manifest # "missing"

\* POST /v1/redemption/submit of a stub.
SubmitStub == Plans /\ useStub(env) /\ Answered("stub") /\ UNCHANGED <<redeems, spent>>

\* The redemption executes on chain.
SubmitLive ==
  /\ Plans /\ ~useStub(env)
  /\ DryRunPasses(env) /\ Signs(env)
  /\ Answered(IF env["SUI_MULTISIG_PUBLIC_KEY"] = "unset" THEN "single key" ELSE "multisig")
  /\ redeems' = redeems + 1
  /\ spent' = spent \cup {BatchOf(env)}

\* No manifest, no objects, a failed dry-run, no signer, no endpoint.
SubmitFails == (~Plans \/ ~useStub(env)) /\ Answered("error") /\ UNCHANGED <<redeems, spent>>

DeploymentNext ==
  \/ \E S \in EditSets : \E v \in UNION {ValuesOf(k) : k \in S} : Edit(S, v)
  \/ \E withRpc \in BOOLEAN : Check(withRpc) \/ ServeGates(withRpc)
  \/ Start \/ Stop
  \/ SubmitStub \/ SubmitLive \/ SubmitFails

DeploymentSpec == DeploymentInit /\ [][DeploymentNext]_deploymentVars

-----------------------------------------------------------------------------

\* A service of which a checklist, before or after its start, said that it is
\* ready never answers a submission with a made-up digest: though the checks
\* trim and the service does not (gateChecklist, publishedIds).
ReadyNeverFakes ==
  told \cap {"gates", "readiness"} # {} => "stub" \notin answers

\* On testnet a service whose settings passed a checklist starts.
TestnetReadyStarts ==
  network = "testnet" /\ told \cap {"gates", "readiness"} # {} => api # "failed"

\* A service is a stub or live for as long as it runs, whatever is edited
\* meanwhile: nobody holds made-up and real digests of one service.
OneModePerStart == "stub" \in answers => answers = {"stub"}

\* A service redeems at most one batch before it must be started again: the
\* batch is a setting and a batch is redeemed once.
OneRedemptionPerStart == redeems <= 1

\* A deployment that is reported ready starts and redeems on the chain, in one
\* mode, each batch once.
DeploymentSafe ==
  /\ DeploymentTypeOK
  /\ ReadyNeverFakes
  /\ TestnetReadyStarts
  /\ OneModePerStart
  /\ OneRedemptionPerStart
=============================================================================
