------------------------------- MODULE DevStack -------------------------------
(***************************************************************************)
(* The local stack and the script that verifies it.                        *)
(*                                                                         *)
(* The launcher starts the API and a wrapper, and the wrapper starts Vite: *)
(* three generations of processes, of which only the launcher's own        *)
(* children are killed when it is told to stop.  What is left over keeps   *)
(* its port, so the next stack starts without that part, and says so only  *)
(* in a line of output.  Beside it the verification asks, through Vite,    *)
(* for the page, the API's health and its gates, once or until a deadline, *)
(* while processes come and go.                                            *)
(*                                                                         *)
(* External: signals, ports, and that a process may die at any time.       *)
(***************************************************************************)
EXTENDS Naturals

CONSTANTS
  ApiPorts,   \* what SETTLEMENT_API_PORT may be
  ApiKeySet,       \* what SETTLEMENT_API_KEY may be
  Bases,      \* what HTTPS_STACK_URL may be
  MaxTries    \* probes before the deadline

DefaultPort == 3750
DefaultBase == "https 5173"
ViteBase == "http 5000"

ASSUME DevStackAssumption == Bases \subseteq {DefaultBase, ViteBase} /\ MaxTries \in Nat \ {0}

VARIABLES
  launcher,           \* none, https or http
  apiProcess, wrapper, vite, \* down, child of a running parent, or orphan
  apiPort, apiKey,    \* what the running API was started with
  fileKey,            \* SETTLEMENT_API_KEY in the file
  termed, killed,     \* a launcher was sent SIGTERM, or killed outright
  verify,             \* what the verification does next
  waiting, base,      \* its arguments
  key, triesLeft, result, outcome  \* its key, probes left, last result, outcome

stackVars == <<launcher, apiProcess, wrapper, vite, apiPort, apiKey, fileKey, termed, killed>>
verifyVars == <<verify, waiting, base, key, triesLeft, result, outcome>>
devVars == <<stackVars, verifyVars>>

NoResult == [ui |-> FALSE, health |-> FALSE, gates |-> FALSE]

DevStackTypeOK ==
  /\ launcher \in {"none", "https", "http"}
  /\ {apiProcess, wrapper, vite} \subseteq {"down", "child", "orphan"}
  /\ (launcher = "none" => "child" \notin {apiProcess, wrapper})
  /\ (vite = "child" => wrapper # "down")
  /\ apiPort \in ApiPorts /\ apiKey \in ApiKeySet /\ fileKey \in ApiKeySet
  /\ termed \in BOOLEAN /\ killed \in BOOLEAN
  /\ verify \in {"idle", "page", "health", "gates", "look"}
  /\ waiting \in BOOLEAN /\ base \in Bases /\ key \in ApiKeySet
  /\ triesLeft \in 0 .. MaxTries
  /\ result \in [ui : BOOLEAN, health : BOOLEAN, gates : BOOLEAN]
  /\ outcome \in {"none", "passed", "failed", "unreachable", "timed out"}

DevStackInit ==
  /\ launcher = "none" /\ apiProcess = "down" /\ wrapper = "down" /\ vite = "down"
  /\ apiPort \in ApiPorts /\ fileKey \in ApiKeySet /\ apiKey = fileKey
  /\ termed = FALSE /\ killed = FALSE
  /\ verify = "idle" /\ waiting = FALSE /\ base \in Bases /\ key \in ApiKeySet
  /\ triesLeft = 0 /\ result = NoResult /\ outcome = "none"

-----------------------------------------------------------------------------
(* The stack.                                                              *)

\* Whoever loses its parent goes on as an orphan.
Orphaned(p) == IF p = "child" THEN "orphan" ELSE p
Killed(p) == IF p = "child" THEN "down" ELSE p

\* Without a build there is nothing to launch; a port that is taken ends the
\* child, and the launcher goes on.  A wrapper left from before only waits for
\* its Vite.
Launch(kind) ==
  /\ launcher = "none"
  /\ launcher' = kind
  /\ IF apiProcess = "down"
     THEN apiProcess' = "child" /\ apiKey' = fileKey ELSE UNCHANGED <<apiProcess, apiKey>>
  /\ wrapper' = "child" /\ vite' = Orphaned(vite)
  /\ UNCHANGED <<apiPort, fileKey, termed, killed, verifyVars>>

\* Vite insists on its port: without it Vite ends, and its wrapper with it.
StartVite ==
  /\ wrapper # "down" /\ vite # "child"
  /\ IF vite = "down"
     THEN vite' = "child" /\ UNCHANGED wrapper
     ELSE wrapper' = "down" /\ UNCHANGED vite
  /\ UNCHANGED <<launcher, apiProcess, apiPort, apiKey, fileKey, termed, killed, verifyVars>>

shutdown == wrapper' = Killed(wrapper) /\ apiProcess' = Killed(apiProcess) /\ launcher' = "none"

\* Control-C reaches every process of the terminal, Vite among them.
Interrupt ==
  /\ launcher # "none"
  /\ shutdown
  /\ vite' = IF wrapper = "child" THEN Killed(vite) ELSE vite
  /\ UNCHANGED <<apiPort, apiKey, fileKey, termed, killed, verifyVars>>

\* SIGTERM reaches the launcher, and from it its two children.
Terminate ==
  /\ launcher # "none"
  /\ shutdown
  /\ vite' = IF wrapper = "child" THEN Orphaned(vite) ELSE vite
  /\ termed' = TRUE
  /\ UNCHANGED <<apiPort, apiKey, fileKey, killed, verifyVars>>

Kill ==
  /\ launcher # "none"
  /\ launcher' = "none" /\ apiProcess' = Orphaned(apiProcess) /\ wrapper' = Orphaned(wrapper)
  /\ killed' = TRUE
  /\ UNCHANGED <<vite, apiPort, apiKey, fileKey, termed, verifyVars>>

ApiDies ==
  /\ apiProcess # "down" /\ apiProcess' = "down"
  /\ UNCHANGED <<launcher, wrapper, vite, apiPort, apiKey, fileKey, termed, killed, verifyVars>>

\* Vite dies and ends its wrapper, if it has one.
ViteDies ==
  /\ vite # "down" /\ vite' = "down"
  /\ wrapper' = IF vite = "child" THEN "down" ELSE wrapper
  /\ UNCHANGED <<launcher, apiProcess, apiPort, apiKey, fileKey, termed, killed, verifyVars>>

EditKey(k) ==
  /\ k # fileKey /\ fileKey' = k
  /\ UNCHANGED <<launcher, apiProcess, wrapper, vite, apiPort, apiKey, termed, killed, verifyVars>>

-----------------------------------------------------------------------------
(* verify-https-stack.mjs.                                                 *)

\* A page comes from Vite, where Vite listens: the variable that asks for
\* HTTPS is read by nobody.
Page(b) == vite # "down" /\ b = ViteBase

\* The proxy has one target.
ApiBehindProxy == apiProcess # "down" /\ apiPort = DefaultPort

StartVerify(w) ==
  /\ verify = "idle"
  /\ verify' = "page" /\ waiting' = w /\ triesLeft' = MaxTries
  /\ key' = fileKey /\ result' = NoResult /\ outcome' = "none"
  /\ UNCHANGED <<base, stackVars>>

\* Nobody answers: the end, unless it waits; then the result is dropped.
Unreached ==
  /\ result' = NoResult
  /\ IF waiting THEN verify' = "look" /\ UNCHANGED outcome
               ELSE verify' = "idle" /\ outcome' = "unreachable"
  /\ UNCHANGED <<waiting, base, key, triesLeft, stackVars>>

AskPage ==
  /\ verify = "page"
  /\ IF Page(base)
     THEN /\ result' = [NoResult EXCEPT !.ui = TRUE]
          /\ verify' = "health"
          /\ UNCHANGED <<waiting, base, key, triesLeft, outcome, stackVars>>
     ELSE Unreached

AskHealth ==
  /\ verify = "health"
  /\ IF Page(base)
     THEN /\ result' = [result EXCEPT !.health = ApiBehindProxy]
          /\ verify' = "gates"
          /\ UNCHANGED <<waiting, base, key, triesLeft, outcome, stackVars>>
     ELSE Unreached

\* Ready or not ready is an answer, a refused key is none.
GatesAnswer == ApiBehindProxy /\ key = apiKey

AskGates ==
  /\ verify = "gates"
  /\ IF Page(base)
     THEN /\ result' = [result EXCEPT !.gates = GatesAnswer]
          /\ verify' = "look"
          /\ UNCHANGED <<waiting, base, key, triesLeft, outcome, stackVars>>
     ELSE Unreached

\* Enough with the page alone.
PageIsEnough == result.ui

Enough == result.ui /\ result.health

TriesLeft == triesLeft - 1

VerdictOf(r) == IF r.ui /\ r.health /\ r.gates THEN "passed" ELSE "failed"

\* The key is read again for each probe, the deadline looked at after it.
Look ==
  /\ verify = "look"
  /\ IF ~Enough /\ waiting /\ TriesLeft > 0
     THEN verify' = "page" /\ triesLeft' = TriesLeft /\ key' = fileKey /\ UNCHANGED outcome
     ELSE /\ verify' = "idle" /\ UNCHANGED <<triesLeft, key>>
          /\ outcome' = IF result = NoResult THEN "timed out" ELSE VerdictOf(result)
  /\ UNCHANGED <<waiting, base, result, stackVars>>

VerifyStep == AskPage \/ AskHealth \/ AskGates \/ Look

DevStackNext ==
  \/ \E kind \in {"https", "http"} : Launch(kind)
  \/ StartVite \/ Interrupt \/ Terminate \/ Kill \/ ApiDies \/ ViteDies
  \/ \E k \in ApiKeySet : EditKey(k)
  \/ \E w \in BOOLEAN : StartVerify(w)
  \/ VerifyStep

DevStackSpec == DevStackInit /\ [][DevStackNext]_devVars

\* The script's next step is its own: nothing but the end of the process
\* keeps it from taking it.
FairDevStack == DevStackSpec /\ WF_devVars(VerifyStep)

-----------------------------------------------------------------------------
(* Properties.                                                             *)

\* A stack that is told to stop takes its API and its wrapper along: only
\* one that was killed leaves them, and Vite is left also by SIGTERM, which
\* does not reach it (dev-stack-https.mjs:67, run-vite-https.mjs:18).
StopLeavesOnlyVite ==
  /\ "orphan" \in {apiProcess, wrapper} => killed
  /\ vite = "orphan" => killed \/ termed

\* A verification that waits gives up before its deadline only when page and
\* health were there and the gates were not (verify-https-stack.mjs:93).
WaitsUntilDeadline ==
  verify = "idle" /\ waiting /\ outcome \in {"failed", "timed out"} =>
    triesLeft = 1 \/ (result.ui /\ result.health /\ ~result.gates)

\* Stopping the stack leaves the page's server only, and waiting for it ends at
\* the deadline, not before.
DevStackSafe == DevStackTypeOK /\ StopLeavesOnlyVite /\ WaitsUntilDeadline
=============================================================================
