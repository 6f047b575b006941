------------------------------ MODULE Preflight ------------------------------
(***************************************************************************)
(* What the operator's scripts say before the backend runs, and what the   *)
(* backend then does with the same files.                                  *)
(*                                                                         *)
(* Three programs resolve the same variables, each its own way.  The env   *)
(* check and the RPC check read only the .env of the repository; the gate  *)
(* checklist lays that file over the shell's variables and then the file   *)
(* of layer 5 under both; the backend takes the nearest file above its     *)
(* directory, which is layer 5's if there is one.  The smoke test runs the *)
(* two checks, the tests, the running backend and the build, row by row.   *)
(*                                                                         *)
(* An environment maps variables to values; "none" is a variable that is   *)
(* not set at all, "" one that is set to nothing.  The second names of the *)
(* alias URL and key stand with the first.  Wording is left out.           *)
(***************************************************************************)
EXTENDS Naturals, Sequences, FiniteSets

CONSTANTS RootFiles, LayerFiles, Shells, ApiKeys

Names == {"SUI_NETWORK", "SUI_RPC_URL", "SHINAMI_NODE_URL", "BLOCKVISION_RPC_URL",
          "SUI_RPC_API_KEY", "SHINAMI_API_KEY", "SETTLEMENT_API_KEY", "PUBLISH_IDS",
          "SMOKE_RPC_FALLBACK"}

Unset == [n \in Names |-> "none"]

\* A file that is not there sets nothing.
Missing == [present |-> FALSE, vars |-> Unset]

IsEnvironment(e) == e = [n \in Names |-> e[n]]
IsFile(f) ==
  f = [present |-> f.present, vars |-> f.vars] /\ f.present \in BOOLEAN /\ IsEnvironment(f.vars)

ASSUME PreflightAssumption ==
  /\ \A f \in RootFiles \cup LayerFiles : IsFile(f)
  /\ \A s \in Shells : IsEnvironment(s)

VARIABLES
  root, layer,   \* the two .env files
  shell,         \* variables the operator exported
  ignored,       \* .env is in .gitignore
  next,          \* row of the smoke test that is next
  rows,          \* its rows so far: pass, fail or skip
  probe,         \* what the RPC check asked, and what it reported
  backend,       \* environment the running backend took, present if it runs
  exit           \* of the smoke test

preflightVars == <<root, layer, shell, ignored, next, rows, probe, backend, exit>>

NotRunning == Missing
RowNames == <<"env", "tests", "rpc", "health", "gates", "build">>

-----------------------------------------------------------------------------
(* Environments.                                                           *)

Given(v) == v \notin {"none", ""}

\* The first that is set to something, or the last.
First(a, b) == IF Given(a) THEN a ELSE b

\* What is set already stays.
applyDotEnvFile(env, f) == [n \in Names |-> IF env[n] # "none" THEN env[n] ELSE f[n]]

\* The nearest .env above layer 5's directory, and only that.
BackendEnv == applyDotEnvFile(shell, IF layer.present THEN layer.vars ELSE root.vars)

\* The checklist loads the repository's file and starts a runner that does
\* what the backend does.
GateEnv == LET loaded == applyDotEnvFile(shell, root.vars)
           IN  applyDotEnvFile(loaded, IF layer.present THEN layer.vars ELSE root.vars)

\* The smoke test's own variables.
SmokeEnv == applyDotEnvFile(shell, root.vars)

-----------------------------------------------------------------------------
(* check-env-local.mjs.                                                    *)

Placeholder(v) == v = "placeholder"

\* Issues that do not look at layer 5's file.
RootIssues ==
  {i \in {"create .env", "not ignored", "set a URL", "shinami key", "API key", "publish IDs",
          "placeholder ID"} :
     CASE i = "create .env"    -> ~root.present
       [] i = "not ignored"    -> ~ignored
       [] i = "set a URL"      -> /\ ~Given(root.vars["SUI_RPC_URL"])
                                  /\ ~Given(root.vars["BLOCKVISION_RPC_URL"])
       [] i = "shinami key"    -> /\ root.vars["SUI_RPC_URL"] = "shinami"
                                  /\ ~Given(root.vars["SUI_RPC_API_KEY"])
       [] i = "API key"        -> \/ ~Given(root.vars["SETTLEMENT_API_KEY"])
                                  \/ Placeholder(root.vars["SETTLEMENT_API_KEY"])
       [] i = "publish IDs"    -> root.vars["PUBLISH_IDS"] \in {"none", "", "partial"}
       [] i = "placeholder ID" -> Placeholder(root.vars["PUBLISH_IDS"])}

Issues == RootIssues \cup (IF layer.present THEN {"layer file"} ELSE {})

Tolerated == {"API key", "publish IDs"}

\* Whatever else is said, the exit code is zero exactly without blockers.
EnvCheckPasses == Issues \subseteq Tolerated

-----------------------------------------------------------------------------
(* check-shinami-rpc.mjs, and the client of the backend.                   *)

\* Where nothing is asked.
NoConfig == [url |-> "none", key |-> "none"]

\* The key goes with the request only to Shinami.
pickRpcConfig(env) ==
  LET url == First(env["SUI_RPC_URL"], env["SHINAMI_NODE_URL"])
  IN  CASE Given(url) -> [url |-> url,
                          key |-> IF url = "shinami"
                                  THEN First(env["SUI_RPC_API_KEY"], env["SHINAMI_API_KEY"])
                                  ELSE "none"]
        [] ~Given(url) /\ Given(env["BLOCKVISION_RPC_URL"]) ->
             [url |-> env["BLOCKVISION_RPC_URL"], key |-> "none"]
        [] OTHER -> NoConfig

resolveSuiRpcUrl(env) ==
  LET url == First(First(env["SUI_RPC_URL"], env["SHINAMI_NODE_URL"]), env["BLOCKVISION_RPC_URL"])
  IN  IF Given(url) THEN url ELSE "public"

\* Whatever the URL, a key that is set is sent.
resolveSuiRpcHeaders(env) == First(env["SUI_RPC_API_KEY"], env["SHINAMI_API_KEY"])

MayFallBack(env, config) ==
  /\ config.url = "shinami"
  /\ env["SUI_NETWORK"] \in {"none", "", "testnet"}
  /\ env["SMOKE_RPC_FALLBACK"] # "0"

NoProbe == [config |-> NoConfig, report |-> "none"]

\* The report: refused before asking, answered by the configured URL or by
\* the public one, or not answered.
RpcReports(env) ==
  LET config == pickRpcConfig(env)
  IN  CASE config = NoConfig -> {"no URL"}
        [] config # NoConfig /\ config.url = "shinami" /\ ~Given(config.key) -> {"no key"}
        [] OTHER -> {"ok", "failed"} \cup (IF MayFallBack(env, config) THEN {"fallback"} ELSE {})

-----------------------------------------------------------------------------
(* test-backend.mjs, and the backend beside it.                            *)

PreflightTypeOK ==
  /\ DOMAIN root.vars = Names /\ layer \in LayerFiles /\ shell \in Shells
  /\ ignored \in BOOLEAN
  /\ next \in 1 .. Len(RowNames) + 1
  /\ rows \in [1 .. next - 1 -> {"pass", "fail", "skip"}]
  /\ probe.report \in {"none", "no URL", "no key", "ok", "fallback", "failed"}
  /\ backend.present \in BOOLEAN /\ DOMAIN backend.vars = Names
  /\ exit \in {"none", "zero", "one"} /\ (exit # "none" => next = Len(RowNames) + 1)

PreflightInit ==
  /\ root \in RootFiles /\ layer \in LayerFiles /\ shell \in Shells
  /\ ignored \in BOOLEAN
  /\ next = 1 /\ rows = <<>>
  /\ probe = NoProbe
  /\ backend = NotRunning
  /\ exit = "none"

StartBackend ==
  /\ ~backend.present
  /\ backend' = [present |-> TRUE, vars |-> BackendEnv]
  /\ UNCHANGED <<root, layer, shell, ignored, next, rows, probe, exit>>

StopBackend ==
  /\ backend.present
  /\ backend' = NotRunning
  /\ UNCHANGED <<root, layer, shell, ignored, next, rows, probe, exit>>

\* The operator writes another API key into the file.
EditFile ==
  /\ exit # "none" /\ root.present
  /\ \E key \in ApiKeys : root' = [root EXCEPT !.vars["SETTLEMENT_API_KEY"] = key]
  /\ next' = 1 /\ rows' = <<>> /\ probe' = NoProbe /\ exit' = "none"
  /\ UNCHANGED <<layer, shell, ignored, backend>>

Row(name, result) ==
  /\ next <= Len(RowNames) /\ RowNames[next] = name
  /\ rows' = Append(rows, result)
  /\ next' = next + 1
  /\ UNCHANGED <<root, layer, shell, ignored, backend, exit>>

Verdict(ok) == IF ok THEN "pass" ELSE "fail"

EnvRow == Row("env", Verdict(EnvCheckPasses)) /\ UNCHANGED probe

\* Tests and build are outside: they pass or they do not.
TestsRow == \E ok \in BOOLEAN : Row("tests", Verdict(ok)) /\ UNCHANGED probe
BuildRow == \E ok \in BOOLEAN : Row("build", Verdict(ok)) /\ UNCHANGED probe

\* The RPC check is started only for a URL under one of two names, and reads
\* the file, not the variables of the one who starts it.
RpcRow ==
  IF Given(SmokeEnv["SUI_RPC_URL"]) \/ Given(SmokeEnv["BLOCKVISION_RPC_URL"])
  THEN \E r \in RpcReports(root.vars) :
         /\ probe' = [config |-> pickRpcConfig(root.vars), report |-> r]
         /\ Row("rpc", Verdict(r \in {"ok", "fallback"}))
  ELSE Row("rpc", "fail") /\ UNCHANGED probe

\* The API answers for itself; not running is optional.
HealthRow == Row("health", IF ~backend.present THEN "skip" ELSE "pass") /\ UNCHANGED probe

\* Not without a key; 200 and 503 pass, a refused key does not.
Accepted(key) == key = backend.vars["SETTLEMENT_API_KEY"]

\* When health was skipped, nothing more is asked.
GatesRow ==
  LET key == SmokeEnv["SETTLEMENT_API_KEY"]
      result == IF rows[4] = "skip" \/ ~Given(key) \/ ~backend.present
                THEN "skip" ELSE Verdict(Accepted(key))
  IN  Row("gates", result) /\ UNCHANGED probe

Critical == {i \in {2, 6} : rows[i] = "fail"}

Exit ==
  /\ next = Len(RowNames) + 1 /\ exit = "none"
  /\ exit' = IF Critical # {} THEN "one" ELSE "zero"
  /\ UNCHANGED <<root, layer, shell, ignored, next, rows, probe, backend>>

\* The test is run again.
Again ==
  /\ exit # "none"
  /\ next' = 1 /\ rows' = <<>> /\ probe' = NoProbe /\ exit' = "none"
  /\ UNCHANGED <<root, layer, shell, ignored, backend>>

PreflightNext ==
  \/ StartBackend \/ StopBackend
  \/ EnvRow \/ TestsRow \/ RpcRow \/ HealthRow \/ GatesRow \/ BuildRow
  \/ Exit \/ Again \/ EditFile

PreflightSpec == PreflightInit /\ [][PreflightNext]_preflightVars

-----------------------------------------------------------------------------
(* Properties.                                                             *)

RanRow(i) == Len(rows) >= i
EnvRowPassed == RanRow(1) /\ rows[1] = "pass"
Asked == probe.report \in {"ok", "fallback", "failed"}

\* Where the env check passes, the gate checklist judges the environment the
\* backend will run with, though the two load it in different ways
\* (scripts/check-env-local.mjs:192, gate-checklist.mjs:34, loadRepoRootEnv.ts:5).
CheckedEnvIsShared == EnvRowPassed => GateEnv = BackendEnv

\* The URL the RPC check asks is the one the backend will use, unless the
\* shell or a file of layer 5 sets another; and a key that is sent is the
\* key the backend sends (check-shinami-rpc.mjs:44, suiRpcClient.ts:9).
ProbeAsksForBackend ==
  Asked /\ ~layer.present /\ shell = Unset =>
    /\ probe.config.url = resolveSuiRpcUrl(BackendEnv)
    /\ Given(probe.config.key) => probe.config.key = resolveSuiRpcHeaders(BackendEnv)

\* A pass by the public node says nothing of another network: it is only
\* ever reported for testnet, and only in place of Shinami
\* (check-shinami-rpc.mjs:145).
FallbackStaysOnTestnet ==
  probe.report = "fallback" =>
    /\ BackendEnv["SUI_NETWORK"] \notin {"mainnet", "localnet"} \/ layer.present \/ shell # Unset
    /\ probe.config.url = "shinami"

\* Where the env check passes, the RPC check finds a URL, and its key unless
\* the URL is under its other name (check-env-local.mjs:135, check-shinami-rpc.mjs:123).
CheckedEnvReachesProbe ==
  EnvRowPassed =>
    /\ probe.report # "no URL"
    /\ probe.report = "no key" => ~Given(root.vars["SUI_RPC_URL"])

\* Whatever the other rows say, an exit of zero means tests and build passed,
\* and an exit of one that one of them did not (test-backend.mjs:175).
ExitTellsTestsAndBuild ==
  exit # "none" => ((exit = "zero") = (rows[2] = "pass" /\ rows[6] = "pass"))

\* What the preflight checks is what the backend will read, and its exit code tells
\* of tests and build.
PreflightSafe ==
  /\ PreflightTypeOK
  /\ CheckedEnvIsShared
  /\ ProbeAsksForBackend
  /\ FallbackStaysOnTestnet
  /\ CheckedEnvReachesProbe
  /\ ExitTellsTestsAndBuild
=============================================================================
