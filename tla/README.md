# Formal model of the Sui energy token architecture

TLA+ modules, TLC configurations and TLAPS proofs for the energy token system in
`src/`: Move packages (layers 2, 3, 5), Solidity contracts and a TypeScript
engine (layer 4), a settlement service (layer 5), the pipeline between them, a
dashboard, and the scripts that check and start them.

Run from this directory: `tlc -config MCEnergyToken.cfg MCEnergyToken`,
`tlapm EnergyTokenProofs.tla`, and so on for the other modules.

## 1. The system

| Component | State | Operations | Talks to |
|---|---|---|---|
| Layer 2, `layer2/move` | devices, attestations, approved oracles, spent proofs, KYC mirror | register a device, ingest and attest a reading, aggregate to a median, finalize, bridge a KYC message | its finalized readings are what a producer mints |
| Layer 3, `layer3/move` (`energy_grid`) | meters, KYC records, treasury guard (paused flag and TreasuryCap), batches, coins | register and certify a meter, upsert and remove KYC, pause, mint, transfer, mark, burn on redemption, consume for the bridge | layer 5 Move borrows the treasury and changes batches |
| Layer 5, `layer5/move` (`energy_settlement`) | redemption registry, jurisdiction policy, grid ledger, bridge whitelist, Wormhole state, price feed, marketplace | redeem (alone or with the ledger), export a batch, publish a price, settle in USDC | calls layer 3 in the same transaction |
| Layer 4 contracts, `layer4/contracts/src` | obligations, arbitration outcomes, status, nonces and idempotency keys, spent proofs, identities, token partitions | register, decide, execute a batch (alone or through the Safe's module), confirm, roll back; identity administration | called by relayers, parties and the Safe module; asks the verifier and the registry, moves the compliance token |
| Layer 3 contract engine and layer 4 engine, `layer3`, `layer4/engine/src` | contract lifecycle, in-flight records, circuit breaker, nonces, lane states | draft, monitor, trigger, hand over; validate, authorize, build, submit with retries, confirm, settle | sends transactions to the contracts, awaits layer 5 |
| Layer 5 settlement, `layer5/settlement/src` | audit rows, archived proofs and reports, bridge file, event cursor, ERP deliveries, rate limits | settle an execution, plan a redemption, poll events, watch bridge messages, stream the trail, publish a price | reads the chain's events, posts to outside systems, pins to IPFS |
| Pipeline, `pipeline/src` | one run | settle, note, dry-run, redeem | layer 4 engine, settlement service, chain |
| Dashboard, `frontend/src`; scripts, `scripts` | query cache; processes, files, environment | query and refetch; check, start, stop | the settlement API |

What is hard here:

* *On chain*, every call is atomic, but calls of independent actors interleave
  freely, and anybody may call any public function on shared objects and on objects
  of theirs: take an id of the redemption registry, write the grid ledger, set a
  price, borrow the treasury cap, consume a batch. The same energy is recorded four times (supply, wallets, batches, meter totals) and
  replay protection is spread over several guards: the epoch's clock, a
  tolerance, a flag, a registry, a proof set, a status.
* *Off chain*, a run of the engine, a request of the service and a poll of the
  indexer are interrupted at each `await`; checks are made before it and recorded
  after it; answers get lost and calls are repeated; processes die between two
  writes; state in memory is gone after a restart, and that in files may be torn.
* *Between the layers*, an enumeration or an assumption on one side differs from
  the other's (lifecycle numbers, what counts as in flight, what is retried).

What makes each component correct: a reading becomes tokens at most once and the
tokens are neither lost nor created, but for what passes through the borrowed cap;
a certificate leaves the market once; ids, batches and ledger entries of redemptions
correspond one to one, beside those that callers write themselves; exported
certificates can be told apart; an obligation is paid once, in full, and a proof
spent once; layer 3 settles only what was paid, or what the receipt of another
transaction of its nonce said; a settlement's records follow
what happened on chain and lead to their evidence; no event is skipped; a check
that says ready is right about what it looked at. `PROJECT.json` lists the
hazards line by line, each with the properties about it.

## 2. Modules

| Module | Models |
|---|---|
| `EnergyCertificates` | abstract: what the token promises of a certificate |
| `EnergyToken` | layer 3 ledger, registry, treasury guard; implements `EnergyCertificates` |
| `UtilityBilling` | redemption in layer 5, composed with `EnergyToken` |
| `CarbonBridge` | export in layer 5, composed with `EnergyToken`; implements it |
| `UsdcMarket` | price feed, keepers and USDC settlement of layer 5, with the TypeScript slippage check |
| `Oracle` | layer 2: attestation, quorum, median, proof check, KYC mirror |
| `ExecutionEngine` | layer 4 contracts: engine and identity registry |
| `ObligationPayments` | the tokens and partitions behind the engine's payments, obligation by obligation |
| `ExecutionHandoff` | layer 3 contract engine, its hand-over, the Safe and its module over `ExecutionEngine` |
| `PipelineRunner` | layer 4 pipeline runner: concurrent runs over an external node and chain |
| `ExecutionOrchestrator` | layer 4 orchestrator: guard, gas, confirmation tracker |
| `Settlement` | settlement service and orchestrator: requests, rows, acknowledgements, ERP notes, events, redemptions |
| `RedemptionHook` | what follows a finalized run of the full pipeline |
| `EvidenceArchive` | proof archive, regulatory reports, pinning |
| `EventIndexer`, `BridgeWatcher`, `AuditStream` | the pollers of layer 5 |
| `Dashboard` | the queries of the audit, operations and overview pages |
| `ApiAccess` | keys and rate limits of the API |
| `OffRamp`, `VaaClient`, `MoveCalls` | clients of Circle and Wormhole; the Move calls the builders make |
| `Deployment`, `DevStack`, `Preflight` | deployment settings and gates; the local stack; the operator's checks |
| `SumLemmas` | facts about sums over finite sets and over sequences |
| `EnergyTokenProofs`, `MovePackagesProofs`, `ExecutionProofs`, `PipelineRunnerProofs`, `SettlementProofs`, `WorkersProofs`, `ToolsProofs` | theorems |
| `MC*` | values of the constants, and the runs over several components |

**Correspondence.** On chain, an action is one call of a public function, by anybody
who can name the objects it takes; functions that other functions call are inside
their callers' actions, and those that are public too are also actions of their own:
`MintBorrowed` and `BurnBorrowed` (`borrow_treasury_for_burn`, `burn_energy`),
`RegisterDirectly` (`register_redemption_id`), `RecordDirectly` (`create_cap`,
`record_settlement`), `ConsumeDirectly` (`consume_batch_for_bridge`),
`PublishRecMessage`, `ChangeByCaller` (`update_price`, `sync_energy_price_feed`),
`MarkProcessed`, `MarkProofSpent` and `MintVerifiedReading`. The properties then
say what survives these calls: histories (`outside`, `claimed`, `recorded`,
`consumed`) set apart what they did, and `MeteredSupply` is the supply without what
passed through the borrowed cap. Objects a caller makes for themselves
(a registry, a ledger, a whitelist, a Wormhole counter) appear where they touch
shared state: a redemption that names another registry or ledger
(`registered`, `RedeemBilling`), an export over another whitelist (`BridgeElsewhere`). `assert!`, `require` and a
revert are guards: a call that aborts changes nothing. A variable is one field or
table of a shared object. `ExecutionEngine` decides whether a batch runs;
`ObligationPayments` starts there and is the loop over its obligations, each of
which changes the balances by which the next is judged.

Off chain, an action is what one call does from one `await` to the next, with the
answer or the error it resumes with; a program counter (`pc`, `at`, `pinStage`, `progress`,
...) says at which `await` it is suspended. Objects that calls share (`guard`,
`breaker`, maps, files) are variables. A script that asks and prints is one
action per thing it asks for.

`PROJECT.json` maps every definition to its lines.

**Abstractions.**

* Coins split and join freely, so a wallet is a balance. A batch stands in the
  sequence `batches` where it was minted; its deletion is the state "bridged". The one flag `redeemed` is
  two states, "burned" and "marked", which differ in history only.
* Signatures: what a device, node or owner signed is a member of a constant set,
  and the check is membership. Hashes and content ids are what was hashed. A valid
  proof is a record of its key and the snapshot it proves.
* Capabilities are their holders: only they take the administrative actions.
* Histories (`redemptions`, `tickets`, `executions`, `openings`, `accepted`,
  `overlapped`, `sent`, ...) are never read by a guard except to bound a run; they
  make it possible to say one-to-one, at most once, or only after.
* Layer 4's node, mempool, blocks and `waitForTransactionReceipt` are external: a
  transaction is replaced by a dearer one of the same nonce, or dropped; the wait
  answers for the nonce, as viem follows replacements, or times out. So are the
  pinning service, Hermes, Wormhole, Circle and the ERP: they may refuse, take what was
  sent and lose the answer, or answer late.
* `ObligationPayments` reduces the identity registry to whether an account is
  cleared and admitted to a partition, and lets any holder make a batch's
  transfers; what the registry does is in `ExecutionEngine`.
* `MoveCalls` takes the signatures of Move functions as they are written. Layer 2
  asks for oracle signatures of 65 bytes and layers 3 and 5 for 64: signing is external.

## 3. Runs

Components that share no state are checked in one run: a constant or `Init` picks
the `part` that moves, and the others stay as they were made. So a run's states
are the sum of its parts' states, not their product, and every property is checked
of its own component's full behaviour.

| Run | Question | Instance |
|---|---|---|
| `energy_token` | Do readings mint once, is energy conserved but for the borrowed cap, does a batch retire once, does a pause freeze the metered supply, does the ledger implement `EnergyCertificates`? | 2 addresses, 2 meters, readings at the edges of 2 epochs, `MaxU64` 5, 1 unit through the borrowed cap |
| `carbon_bridge` | Can tickets be told apart, has a batch that left one ticket or none, is the bridge only a user of the ledger? | 2 meters, 4 readings, 2 emitters, 1 Wormhole state, sequences to 3, holders' own calls |
| `move_packages` | Do ids, batches, burns and ledger entries correspond, beside what callers write themselves? Is a trade at the feed's price and on a clearance as fresh as the code allows? Is a reading proved once, by a quorum, and all that is verified a copy of that proof? | 2 jurisdictions, 3 readings, 2 ids, 1 direct record, 1 unit through the borrowed cap; 2 keepers, 2 quotes, 2 epochs, 2 prices of a caller's own; 3 nodes, 2 readings, 3 bridge messages out of order, 2 verified copies, 1 mark of each kind by a caller |
| `execution_engine` | Is a proof spent once and a contract paid once, however governance, registry and relayers interleave? Does a batch pay exactly its debts? | 2 contracts, 2 proofs, 2 openings each; batches of up to 3 obligations whose payers fund each other |
| `handoff` | Does layer 3 settle only what the chain has paid or a nonce was lost for, and execute what it should, over lost answers, deadlines, restarts, replaced transactions and a Safe that changes its owners? | 2 contracts, 2 openings, 2 attempts, which may share a nonce, 2 signers; delivery by Safe, directly, simulated |
| `pipeline_runner` | What do payments, guard, nonces, settlement and breaker keep when runs interleave, answers get lost and transactions are replaced or dropped? Is what the orchestrator calls final deep? | 3 runs (2 of one execution), 2 retries; gas and fee values on both sides of each limit |
| `settlement` | Are acknowledgements backed, the API's reposts excused, confirmations true? Is the deployment's batch redeemed only for a settled run or a client who planned it? Does the trail lead to its evidence? | 3 calls, 2 ids, a crash, a delivery with ids as arrays; 3 runs, 2 of one execution, clients of the API; 2 settlers, 3 executions, a restart |
| `workers` | Is no event skipped and every one handled? Does a watcher that runs clear what is signed and report what stalls? Is a row streamed, an overview current, a run ended? | 2 polls and 2 events; 1 message, 2 processes, each with or without a data directory; 3 rows and a torn one; 2 runs |
| `tools` | Is an address held to two limits a minute and refused only for its own requests, does the file lose a stored message only in a race, does a page show its own success, does ready mean ready, does stop leave nothing, are calls well built? | 9 parts, each with the values on both sides of its limits; 2 addresses over a restart, conversions with and without a key |
| `handoff_arbitration` | Does a request that arbitration settled execute? **No.** | as `handoff`, 1 opening |
| `pipeline_duplicate` | Does the guard keep an execution from being in flight twice? **No.** | 2 runs of one execution, the code's limits |
| `pipeline_replaced` | Is a finalized execution paid? **No.** | 2 runs, of 2 executions |

**Bounds.** `EpochTimes`, `MaxTime`, `MaxClock` and `MaxHeight` end the clocks,
`Readings` the mints, `MaxU64` the sums (it is also the overflow the code aborts
on, small enough to be met), `MaxSequence` counters, `MaxOpenings`, `MaxAttempts`,
`MaxCrashes`, `MaxRestarts`, `MaxEdits`, `MaxTries` and the like what they name;
`MaxBorrowed`, `MaxCopies`, `DirectRecords`, `CallerPrices`, `CallerKeys`,
`CallerHashes` and `CallerReadings` bound what callers do by themselves: one unit, one
record or one mark is enough to be counted where it should not be.
Two epochs are enough for a replay across an epoch's edge, two actors for a race on
a shared object, two openings for a second payment, three runs for one to replace
the transaction of another while a third repeats an execution, one crash for a
write without its successor. Numeric inputs stand on both sides of every limit
the code compares with. Further bounds are named in the `MC` modules:
`SecondIdOnce` (of three calls one has the second id, as ids are alike),
`InLifecycle` and `AmongSigners` (lifecycle and signers vary in separate
behaviours of `handoff`), `OneOddity` (an odd manifest or another network, not
both), `FirstQuote` (the start price of parts that have no market). Time, readings
and attempts run out, so a system may stop and most configurations do not check
deadlock. Symmetry is used only over sets whose members no definition or property
tells apart, and in no run with a liveness property.

**Fairness.** None is assumed on chain: no call is owed to anybody. Off chain
`MCFairness` is that of each component while it moves: timers fire
(`setInterval`), a process that awaits is answered or timed out, a handler that
has started ends. Nothing restarts a process by assumption (`docker-compose.yml` has
no restart policy): a restart is an action that may happen, and `WatcherProgresses`
promises nothing of a watcher that has ended, on a torn file or by a crash, or that
has no data directory. Two kinds of step need strong fairness: the indexer's answers,
since the timer may end a query at its time limit again and again, and the
confirmation of a signed message over an untorn file, which the file's writers
disable for a while; that is, Wormhole's answers for a signed message are not lost
for ever. For the runner's await on layer 5, which has no time limit,
fairness is an assumption. Nothing makes a client call, a chain mine, or an event
occur.

**Mutants.** Beside some definitions stands a variant that no action uses
(`NoOverflowCheck` beside `FitsU64`, for instance): that definition with a
plausible mistake. Put in the definition's place it makes TLC report the property
`PROJECT.json` names, so the property depends on that piece of the code.

## 4. What the runs show

* A reading cannot be minted twice although `minting_engine` records no spent
  readings: a meter mints at most once per epoch (M3) and an epoch accepts only
  readings within five minutes of its start (S5.3b). Both are needed, and so is
  that epochs are longer than twice the tolerance (`EpochAssumption`).
* Energy is conserved in every interleaving of both layers, and a retired batch
  is never retired again, also when it was given away in between. A pause stops
  minting and layer 3 burns, not layer 5 redemptions, as its comment says.
  `borrow_treasury_for_burn` lends the cap to anybody and for mints as well, as
  `layer5_tests.move:261` does: supply and batches part by just what went that way.
* The deployment's registry tells redemptions apart although anybody may take an id
  of it, and the grid ledger holds the redemptions' sums beside what callers record
  with caps of their own. A batch its holder consumed without the bridge has
  no ticket and cannot be exported or redeemed.
* Sequence numbers on bridge tickets do repeat, but never without a
  `VAASequenceStale` event.
* Between two keepers' updates the price feed goes back in time only when one overtakes
  the other; any caller may write price and time in between, so a trade is as fresh
  as its feed's last writer says.
* A reading is proved once; the proof may be copied and verified again, and a
  verified reading without a proof is one its caller made.
* The engine pays a contract once between two registrations or rollbacks. The
  per-obligation idempotency key contributes nothing to that: it never repeats,
  so its check never fires; proof and status do the work. A batch pays every
  holder the difference of what is owed to and by it.
* Layer 3 settles only what the chain has paid, in every order of delivery and
  answer, unless a run's nonce went to another contract's payment (below);
  contracts are paid no more often than they were opened.
* The engine's in-flight guard does not keep two overlapping runs apart. Still the
  chain pays once, what the guard says is backed by a transaction, and layer 5 is
  handed an execution twice only after such an overlap. Retries end, and the fresh
  nonce never leaves a gap, which a count of pending transactions would.
* What a call acknowledges is on record; the API posts a note twice only with an
  excuse, while the indexer, whose ids are arrays, posts for each event anew;
  a file of the archive without a row has its call under way or lost.
* Any client of the API may redeem the deployment's batch under an id of their own, but
  not without the note.
* The indexer skips no event and repeats one only after overlapping polls or a restart.
* One process of the API lets an address through at most two limits in a minute; a bridge
  message that was stored is lost only in the race of two writers of its file or by a
  torn one, and without a data directory none is stored though the answer says tracked.
* Circle takes no more conversions than a human approved; "pending" without Circle's
  reference is an answer without a transfer.

Three statements of the repository do not hold of the code, each with a run:

* `l3Handoff.ts:36`, "state must be TRIGGERED or ARBITRATION_RESOLVED": the
  arbitrated state is sent as 5, which the contract reads as SETTLEMENT_PENDING
  (`handoff_arbitration`).
* `orchestrator.test.ts:31`, "blocks duplicate in-flight execution": two
  concurrent runs of an execution both submit (`pipeline_duplicate`).
* `anvil.e2e.test.ts:178`, FINALIZED, then the recipient has the value: two runs
  that read the same nonce replace each other's transaction, and the first is
  finalized on the other's receipt, unpaid (`pipeline_replaced`).

Others were met while modelling. The models follow the code; no run is spent on them:

* `minting_engine.move:9`, "total_supply(ENERGY) == sum(meter.total_kwh) * 1_000_000":
  false after the first burn. `EnergyAddsUp` is what does hold.
* `ExecutionEngine.sol:218`, "12-block confirmation": `confirmSettlement` compares
  two numbers its caller supplies and never reads `block.number`.
* `usdc_settlement.move:1`, "atomic swap": both coins are the sender's, and the buyer's
  are not touched. Its stale check compares with the epoch's start.
* `oracle.move:85` and `attestation.move:88`: the present is the epoch's start, so a
  reading late in an epoch is refused as a future one; nodes that attest one and the
  same reading abort as duplicates.
* `buildMintPtb.ts:3`, `buildWormholeRecPtb.ts:23`, `:52`: the transactions built call
  functions with other arguments, or leave a value without `drop` unused.
* `pipelineRunner.ts:238`, "recoverable: true": the guard refuses the retry.
* `AuditPage.tsx:76`, "Immutable record": kept in memory without a data directory,
  and one torn line makes `list()` throw from then on (`auditStore.ts:3`).
* `DashboardPage.tsx:70` shows "Blocked" on an answer that its client throws away;
  `StatusPage.tsx:68`, "Live connectivity checks", has no interval.
* `verify-production-readiness.mjs:196` and `publishedIds.ts:35` ask for fewer keys than
  the service; `gateChecklist.ts:144` rejects one exact string.

## 5. Proofs

TLAPS checks the theorems for every value of the constants, from the `ASSUME`s of
the modules only. `PROJECT.json` lists them. The arguments:

* `EnergyTokenProofs`. `TypeCorrect` is inductive by itself.
  `ReadingsMintOnce` is not: the invariant is `MintOrderInv`, which adds that a
  meter's last mint is this epoch or a whole `EpochGap` back (`MeterClocksApart`)
  and that no batch is newer than the tolerance allows from its meter's last mint
  (`MintFrontier`). A new reading then lies after every earlier one because
  `EpochGap > 2 * Tol`. `BatchesRetireOnce`, `PauseStopsSupply` and
  `LedgerKeepsCertificates` (the refinement of `EnergyCertificates`, step by step)
  are step arguments over it. What passes through the borrowed cap changes
  supply and `outside` by the same, so `MeteredSupply` stays. `EnergyIsConserved` is
  about sums over batches and holders: see `SumLemmas`.
* `MovePackagesProofs`. Redemption: `BillingInv` joins the ledger's invariant and
  the one-to-one relation of ids, batches and burns, with the ids that were taken
  without a redemption (`claimed`) apart; `RedemptionsAddUp` adds the sums, with what
  was recorded without one (`recorded`) apart.
  Bridge: `CarbonImplementsToken` maps each step of the composition to a step of
  `EnergyToken!Spec` or a stutter, so the theorems about the ledger hold of it;
  `SequencesIdentifyTickets` needs that a recorded sequence leads every ticket's.
  Market: `MarketInv` says that the feed is what the last update said, by a keeper or a
  caller, quotes are ordered in time, and an epoch's start is at most one epoch back; the tolerance of a
  trade is arithmetic on products, where SMT needs `PowersAreNatural` (TLC evaluates
  this `ASSUME`; the prover knows no power of ten).
  Layer 2: `OracleInv` adds to `OracleSafe` that an epoch's start is less than an epoch
  back, that what is behind a proof is marked (marks of callers only add to that), and that who proves with nodes has a
  quorum. The median (`MedianIsOfBatch`) holds of a batch of any size: the sort's two
  folds are unrolled step by step (`FoldNext`), a pass leaves the least of what is left in
  front and only exchanges (`Reached`), so the result is the batch in order; two orders
  of one batch agree position by position, since otherwise k readings would lie in
  k - 1 places (`OrderedBelow`).
* `ExecutionProofs`. The engine: `PaymentInv` ties the history of executions to
  spent proofs and statuses, and `EngineTypeOK` the idempotency keys to nonces. The
  hand-over: `HandoffInv` adds that a run under way carries what its stage needs
  (`RunIsSound`) and an attempt what it was sent with (`AttemptsAreSound`). `PaidOnceHoweverSent`
  is not inductive: a second payment is refused for the
  contract's status, so the invariant says that a contract that may be paid has an
  opening to spare (`OpeningsToSpare`).
  The payments: `FundsAreSafe` from "one transfer keeps the sum, also
  where payer and recipient are one account" (`MoveKeepsSum`). `BatchesPay` is
  about a loop: its statements are proved for every prefix of the list of
  obligations, by induction in the form of a set of indices that contains 0 and
  the successor of each member.
* `PipelineRunnerProofs`. `RunnerSafety` proves one inductive invariant for any
  number of runs: nonces never pass the chain's, whoever is past its send was
  accepted, and the guard records on evidence. `GuardIsEnoughInSequence` needs a
  second, `SequentialInv`: as long as no two runs of an execution overlapped, at
  most one is under way, and once layer 5 was handed the execution its record turns
  every other run away. The orchestrator's `OrchestratorInv` adds that the answers of
  polls under way are true of the chain and no block ahead of it.
* `SettlementProofs`. Calls on their way past a write have its row (`RecordInv`),
  whatever was sent to the ERP is under way, confirmed or has an excuse (`NoteInv`;
  an event's call is confirmed under a key of its own, which excuses no other),
  an executed redemption was planned and noted (`ExecuteInv`). The hook: each run
  has behind it what its stage says (`RunsAreInOrder`), and what a client planned
  was noted (`PlannedIsNoted`). The archive: rows find
  their files in each store (`FilesFit`), a name of a file on disk is of pinned
  content, and a call past its first pin has filed a proof.
* `WorkersProofs`. The indexer: what lies before the place a poll under way asked from
  was handed to a handler (`PagesJoin`), and without an overlap the only poll asked from
  the cursor (`InOrder`). The watcher: its loss property is not inductive, since a
  change is three steps; without a race at most one process is between them
  (`OneChanges`) and its copy carries all that is unsigned (`Carried`). The audit
  trail: as long as the file can be read it only grows behind what a stream was sent
  (`StreamFits`); a line without an end is the last one and no acknowledged row
  (`TailIsOpen`), so the rows that are missing and the one that line is going to cost
  are together no more than the tears. The dashboard: the
  answer a fetch carries is as new as the last success unless the fetch is older
  (`TrailIsCurrent`).
* `ToolsProofs`. The API: a window of any `Window` ticks is the ticks of the open bucket
  and those before it (`Fresh`, `Past`); each part holds a limit, so two limits bound
  the window (`BucketOK`). What a tick moves out of one sum comes into the other, by
  the lemmas about sums. The deployment: a "ready" report means that the ids are
  published in the settings it looked at (`ReadyIsPublished`), and the service keeps
  those. The stack: a verification under way has a try left. The off-ramp: a
  conversion has no more transfers than approvals, fewer while a request has not
  reached Circle, and no request without a key. The preflight: probe and rows are of the file as it is, since an
  edit begins a new run (`ProbeIsOfFile`, `RowsAreOfFile`). The Wormhole client: an awaited
  fetch is under way only past its time-lock (`AwaitsPastLock`), which time keeps true.
  The builders: what a transaction was returned and has used is fixed by its builder
  and its next command (`Progress`), so each command is checked once against its
  function.
* `SumLemmas`. `SumFunctionOnSet` of the community modules is a fold; the fold is
  a function on subsets, and its facts (any element may be taken first, what one
  changed term changes) follow by well-foundedness of strict inclusion.

Only model-checked: the five liveness properties (`EventsAreHandled`,
`WatcherProgresses`, `ListedIsStreamed`, `OverviewCatchesUp`, `RunsEnd`), since the
provers have neither fairness nor ENABLED; every
safety property of a passing run is proved. The three violations are TLC's
counterexamples.

## 6. Not modelled

* The pairing engine (Solidity): pure arithmetic over one call, with no state of
  its own that others read.
* Layer 5 governance and deployment packages, layer 2 price validation and the
  modules of layers 3 and 5 that only emit events (Move): one guard and one
  assignment each, with nothing to interleave with.
* MintAuth quotas of `treasury_guard`: nothing in the repository consumes them.
* Indexes in memory that nothing reads (TypeScript).
* Frontend markup, components, types, constants and re-exports.
* Tunnel, manifest listing, continuous integration, packaging.
* Vendored libraries and mocks.

`PROJECT.json` says of the components that are modelled in part which part.

## 7. Plan

Every safety property that is checked is also proved. What could still be said:
an abstract specification of payments (an opening is paid or not, nothing between)
that `ExecutionEngine` and `ExecutionHandoff` implement, and for each liveness
property the safety part its argument needs.

