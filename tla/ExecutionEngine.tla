--------------------------- MODULE ExecutionEngine ---------------------------
(***************************************************************************)
(* Layer 4 on chain: the contracts ExecutionEngine and IdentityRegistry.   *)
(* A contract is registered with the hash of its obligations, and a batch  *)
(* that pays them passes the pre-execution gates, spends a ZK proof and    *)
(* leaves the contract pending until a relayer confirms or rolls back.     *)
(*                                                                         *)
(* A call that reverts changes nothing, so every require is a guard.  A    *)
(* hash stands for what was hashed.  The mappings executionBlock,          *)
(* executionLog and attemptHash are written and never read, and            *)
(* activeChallenge is never written; they are left out.  So are the token  *)
(* balances: a transfer that fails reverts the whole batch.                *)
(***************************************************************************)
EXTENDS Naturals, Sequences, FiniteSets

CONSTANTS
  Contracts,        \* contractId
  Accounts,         \* relayers, parties and recipients
  ObligationLists,  \* sequences of obligations [to, partition]
  Snapshots,        \* oracle snapshot hashes
  Proofs,           \* valid ZK proofs [key, snapshot]
  Partitions,       \* ERC-1400 partitions, NoPartition apart
  NoPartition,      \* bytes32(0)
  Countries,        \* country codes
  Nil,              \* hash never registered
  Deadlines,        \* dispute deadlines governance may set
  DisputeBuffer,    \* DISPUTE_BUFFER_SECONDS
  Depth,            \* CONFIRMATION_DEPTH
  MaxTime,          \* bounds block.timestamp and block.number
  MaxOpenings       \* bounds registrations and rollbacks of one contract

ASSUME EngineAssumption ==
  /\ \A obs \in ObligationLists :
       obs \in Seq([to : Accounts, partition : Partitions \cup {NoPartition}])
  /\ \A proof \in Proofs : proof.snapshot \in Snapshots
  /\ NoPartition \notin Partitions
  /\ Nil \notin ObligationLists \cup Snapshots
  /\ Deadlines \subseteq Nat
  /\ {DisputeBuffer, Depth, MaxTime, MaxOpenings} \subseteq Nat

VARIABLES
  time,          \* block.timestamp and block.number: one block per second
  emergencyPause,
  operators,     \* relayers and parties, the callers _authorizeCaller admits
  registered,    \* registeredObligationHash, oracleSnapshotHash, disputeDeadlines
  arbitration,   \* arbitrationOverrides and arbitrationMet
  status,        \* executionStatus
  executionNonce,
  executed,      \* idempotency keys <<contract, index, nonce>>
  usedProofs,    \* keys of the proofs spent
  identity,      \* IdentityRegistry: verified, frozen, country
  countryAllowed,\* IdentityRegistry: partition country whitelist
  sanctioned,    \* the external sanctions oracle
  openings,      \* registrations and rollbacks of each contract; history
  executions     \* batches executed: contract, proof and opening; history

registryVars == <<identity, countryAllowed, sanctioned>>
adminVars == <<emergencyPause, operators, registered, arbitration>>
batchVars == <<executionNonce, executed, usedProofs>>
engineVars == <<time, adminVars, status, batchVars, registryVars, openings, executions>>

Statuses == {"NONE", "SETTLEMENT_PENDING", "SETTLED", "ROLLED_BACK"}

ProofKeys == {proof.key : proof \in Proofs}

Executions == [contract : Contracts, proof : ProofKeys, opening : 0 .. MaxOpenings]

EngineTypeOK ==
  /\ time \in 0 .. MaxTime
  /\ emergencyPause \in BOOLEAN
  /\ operators \subseteq Accounts
  /\ registered \in [Contracts -> [obligations : ObligationLists \cup {Nil},
                                   snapshot : Snapshots \cup {Nil},
                                   deadline : Deadlines \cup {0}]]
  /\ arbitration \in [Contracts -> [override : BOOLEAN, met : BOOLEAN]]
  /\ status \in [Contracts -> Statuses]
  /\ executionNonce \in [Contracts -> Nat]
  /\ executed \subseteq Contracts \X Nat \X Nat
  /\ usedProofs \subseteq ProofKeys
  /\ identity \in [Accounts -> [verified : BOOLEAN, frozen : BOOLEAN,
                                country : Countries \cup {Nil}]]
  /\ countryAllowed \subseteq Partitions \X Countries
  /\ sanctioned \subseteq Accounts
  /\ openings \in [Contracts -> 0 .. MaxOpenings]
  /\ executions \subseteq Executions

EngineInit ==
  /\ time = 0
  /\ emergencyPause = FALSE
  /\ operators = {}
  /\ registered = [c \in Contracts |->
                     [obligations |-> Nil, snapshot |-> Nil, deadline |-> 0]]
  /\ arbitration = [c \in Contracts |-> [override |-> FALSE, met |-> FALSE]]
  /\ status = [c \in Contracts |-> "NONE"]
  /\ executionNonce = [c \in Contracts |-> 0]
  /\ executed = {}
  /\ usedProofs = {}
  /\ identity = [a \in Accounts |-> [verified |-> FALSE, frozen |-> FALSE, country |-> Nil]]
  /\ countryAllowed = {}
  /\ sanctioned = {}
  /\ openings = [c \in Contracts |-> 0]
  /\ executions = {}

Tick ==
  /\ time < MaxTime
  /\ time' = time + 1
  /\ UNCHANGED <<adminVars, status, batchVars, registryVars, openings, executions>>

-----------------------------------------------------------------------------
(* Governance of the engine.                                               *)

SetEmergencyPause(paused) ==
  /\ emergencyPause' = paused
  /\ UNCHANGED <<time, operators, registered, arbitration, status, batchVars,
                 registryVars, openings, executions>>

\* setRelayer and setParty: _authorizeCaller accepts either.
SetOperator(a, allowed) ==
  /\ operators' = IF allowed THEN operators \cup {a} ELSE operators \ {a}
  /\ UNCHANGED <<time, emergencyPause, registered, arbitration, status, batchVars,
                 registryVars, openings, executions>>

\* A contract may be registered again at any time: its status starts over, its
\* arbitration outcome and its nonce stay.
RegisterContract(c, obs, snapshot, deadline) ==
  /\ openings[c] < MaxOpenings
  /\ registered' = [registered EXCEPT ![c] =
       [obligations |-> obs, snapshot |-> snapshot, deadline |-> deadline]]
  /\ status' = [status EXCEPT ![c] = "NONE"]
  /\ openings' = [openings EXCEPT ![c] = @ + 1]
  /\ UNCHANGED <<time, emergencyPause, operators, arbitration, batchVars,
                 registryVars, executions>>

SetArbitrationOutcome(c, met) ==
  /\ arbitration' = [arbitration EXCEPT ![c] = [override |-> TRUE, met |-> met]]
  /\ UNCHANGED <<time, emergencyPause, operators, registered, status, batchVars,
                 registryVars, openings, executions>>

-----------------------------------------------------------------------------
(* IdentityRegistry and the sanctions oracle.                              *)

\* Registering an account again lifts a freeze.
RegisterIdentity(a, country) ==
  /\ identity' = [identity EXCEPT ![a] =
       [verified |-> TRUE, frozen |-> FALSE, country |-> country]]
  /\ UNCHANGED <<countryAllowed, sanctioned>>

RevokeIdentity(a) ==
  /\ identity' = [identity EXCEPT ![a].verified = FALSE]
  /\ UNCHANGED <<countryAllowed, sanctioned>>

SetFrozen(a, frozen) ==
  /\ identity' = [identity EXCEPT ![a].frozen = frozen]
  /\ UNCHANGED <<countryAllowed, sanctioned>>

SetPartitionCountry(partition, country, allowed) ==
  /\ countryAllowed' = IF allowed THEN countryAllowed \cup {<<partition, country>>}
                                  ELSE countryAllowed \ {<<partition, country>>}
  /\ UNCHANGED <<identity, sanctioned>>

SetSanctioned(a, is) ==
  /\ sanctioned' = IF is THEN sanctioned \cup {a} ELSE sanctioned \ {a}
  /\ UNCHANGED <<identity, countryAllowed>>

RegistryNext ==
  /\ \/ \E a \in Accounts :
          \/ \E country \in Countries : RegisterIdentity(a, country)
          \/ RevokeIdentity(a)
          \/ \E on \in BOOLEAN : SetFrozen(a, on) \/ SetSanctioned(a, on)
     \/ \E partition \in Partitions, country \in Countries, on \in BOOLEAN :
          SetPartitionCountry(partition, country, on)
  /\ UNCHANGED <<time, adminVars, status, batchVars, openings, executions>>

CanTransfer(from, to) ==
  \A a \in {from, to} : identity[a].verified /\ ~identity[a].frozen

CanTransferByPartition(partition, from, to) ==
  /\ CanTransfer(from, to)
  /\ <<partition, identity[to].country>> \in countryAllowed

\* _checkCompliance; canTransfer repeats the two checks on the recipient.
Compliant(from, ob) ==
  /\ CanTransfer(from, ob.to)
  /\ ob.partition # NoPartition => CanTransferByPartition(ob.partition, from, ob.to)
  /\ ob.to \notin sanctioned

-----------------------------------------------------------------------------
(* Execution and settlement.                                               *)

Pending(c) == status[c] = "SETTLEMENT_PENDING"

\* The dispute window is over, or governance has recorded an outcome, whatever
\* the outcome was.
WindowClosed(c) ==
  time >= registered[c].deadline + DisputeBuffer \/ arbitration[c].override

\* The caller states the lifecycle state the contract is in.
StateAccepted(c, state) ==
  \/ state = "TRIGGERED"
  \/ state = "ARBITRATION_RESOLVED" /\ arbitration[c].met

\* NotYetExecuted, overlooking a batch in flight.
NotYetSettled(c) == status[c] # "SETTLED"

NotYetExecuted(c) == status[c] \notin {"SETTLEMENT_PENDING", "SETTLED"}

ProofIsNew(proof) == proof.key \notin usedProofs

IdempotencyKeys(c, obs) == {<<c, i, executionNonce[c]>> : i \in DOMAIN obs}

NextNonce(c) == executionNonce' = [executionNonce EXCEPT ![c] = @ + 1]

\* The gates of _validatePreExecution, the verifier's check of the proof against
\* the registered snapshot, then the recipient and the key of every obligation.
BatchPasses(caller, c, state, obs, snapshot, proof) ==
  /\ ~emergencyPause
  /\ caller \in operators
  /\ ProofIsNew(proof)
  /\ StateAccepted(c, state)
  /\ WindowClosed(c)
  /\ obs = registered[c].obligations
  /\ snapshot = registered[c].snapshot
  /\ NotYetExecuted(c)
  /\ proof.snapshot = snapshot
  /\ \A i \in DOMAIN obs : Compliant(caller, obs[i])
  /\ IdempotencyKeys(c, obs) \cap executed = {}

ExecuteBatch(caller, c, state, obs, snapshot, proof) ==
  /\ BatchPasses(caller, c, state, obs, snapshot, proof)
  /\ usedProofs' = usedProofs \cup {proof.key}
  /\ executed' = executed \cup IdempotencyKeys(c, obs)
  /\ NextNonce(c)
  /\ status' = [status EXCEPT ![c] = "SETTLEMENT_PENDING"]
  /\ executions' = executions \cup
       {[contract |-> c, proof |-> proof.key, opening |-> openings[c]]}
  /\ UNCHANGED <<time, adminVars, registryVars, openings>>

SetStatus(c, next) ==
  /\ status' = [status EXCEPT ![c] = next]
  /\ UNCHANGED <<time, adminVars, batchVars, registryVars, executions>>

\* Whatever the status was.
SubmitExecution(caller, c) ==
  /\ caller \in operators
  /\ SetStatus(c, "SETTLEMENT_PENDING")
  /\ UNCHANGED openings

\* Both block numbers are the caller's.
ConfirmSettlement(caller, c, inclusionBlock, currentBlock) ==
  /\ caller \in operators
  /\ Pending(c)
  /\ currentBlock >= inclusionBlock + Depth
  /\ SetStatus(c, "SETTLED")
  /\ UNCHANGED openings

\* Whatever the status was: the contract can be executed again.
Rollback(caller, c) ==
  /\ caller \in operators
  /\ openings[c] < MaxOpenings
  /\ SetStatus(c, "ROLLED_BACK")
  /\ openings' = [openings EXCEPT ![c] = @ + 1]

GovernanceNext ==
  \/ \E on \in BOOLEAN :
       \/ SetEmergencyPause(on)
       \/ \E a \in Accounts : SetOperator(a, on)
       \/ \E c \in Contracts : SetArbitrationOutcome(c, on)
  \/ \E c \in Contracts, obs \in ObligationLists, snapshot \in Snapshots,
        deadline \in Deadlines : RegisterContract(c, obs, snapshot, deadline)

OperatorNext ==
  \E a \in Accounts, c \in Contracts :
    \/ \E state \in {"TRIGGERED", "ARBITRATION_RESOLVED"}, obs \in ObligationLists,
          snapshot \in Snapshots, proof \in Proofs :
         ExecuteBatch(a, c, state, obs, snapshot, proof)
    \/ SubmitExecution(a, c)
    \/ \E inclusion, current \in 0 .. MaxTime : ConfirmSettlement(a, c, inclusion, current)
    \/ Rollback(a, c)

EngineNext == Tick \/ GovernanceNext \/ RegistryNext \/ OperatorNext

EngineSpec == EngineInit /\ [][EngineNext]_engineVars

-----------------------------------------------------------------------------
(* Properties.                                                             *)

\* A ZK proof pays at most one batch: not a second contract registered with the
\* same oracle snapshot, and not the same contract registered or rolled back
\* since (ExecutionEngine.sol:163-169).
ProofSpentOnce ==
  /\ usedProofs = {e.proof : e \in executions}
  /\ \A e, f \in executions : e.proof = f.proof => e = f

\* Between two registrations or rollbacks of a contract its obligations are paid
\* at most once, however executions, submissions and confirmations are ordered
\* and however many proofs there are.
PaidOncePerOpening ==
  \A e, f \in executions :
    e.contract = f.contract /\ e.opening = f.opening => e = f

\* Every idempotency key taken carries an earlier nonce than its contract's next
\* batch will, so the check on each obligation rejects nothing: protection
\* against a second payment rests on the status and the proof alone
\* (ExecutionEngine.sol:185-191).
KeysNeverRepeat ==
  \A key \in executed : key[3] < executionNonce[key[1]]

\* A batch in flight is not forgotten: once a contract's obligations have been
\* paid its status says so until it is registered anew or rolled back, whatever
\* callers submit or confirm in between.
PaidStaysMarked ==
  \A e \in executions :
    e.opening = openings[e.contract] => status[e.contract] \in {"SETTLEMENT_PENDING", "SETTLED"}

\* One proof pays one batch, one opening is paid once, and what is paid stays
\* marked, whatever callers and governance do in between.
EngineSafe ==
  /\ EngineTypeOK
  /\ ProofSpentOnce
  /\ PaidOncePerOpening
  /\ KeysNeverRepeat
  /\ PaidStaysMarked
=============================================================================
