------------------------ MODULE PipelineRunnerProofs ------------------------
(***************************************************************************)
(* Safety of the pipeline runner for any number of concurrent runs and     *)
(* executions, any retry limit and any behaviour of node and chain; and of *)
(* the orchestrator beside it, for any depth and any overlap of its polls, *)
(* any estimate and any fee.                                               *)
(***************************************************************************)
EXTENDS PipelineRunner, ExecutionOrchestrator, TLAPS

\* A run never holds a nonce the chain has not come to.
NoncesLag == \A r \in Runs : nonce[r] <= Len(mined)

\* What a run does after its send presupposes that the node took it.
SendersAccepted ==
  \A r \in Runs :
    pc[r] \in {"locating", "confirming", "settling", "finalized"} => r \in accepted

\* NoNonceGap follows from the nonces at the time of sending, GuardIsBacked from
\* where a run stands when it records; neither is inductive alone.
RunnerInv ==
  /\ RunnerTypeOK
  /\ NoncesLag
  /\ NoNonceGap
  /\ SendersAccepted
  /\ GuardIsBacked
  /\ SuccessWasMined
  /\ PaidOnChainOnce

LEMMA InitRunner == RunnerAssumption /\ RunnerInit => RunnerInv
<1> SUFFICES ASSUME RunnerAssumption, RunnerInit PROVE RunnerInv
  OBVIOUS
<1>1. mined = <<>> /\ Len(mined) = 0 /\ DOMAIN mined = {}
  BY DEF RunnerInit
<1>2. RunnerTypeOK
  <2>1. /\ pc \in [Runs -> {"idle"} \cup Suspended \cup Ended]
        /\ nonce \in [Runs -> Nat]
        /\ submittedAt \in [Runs -> Nat]
        /\ processed \in [ExecutionIds -> Nat]
    BY DEF RunnerInit
  <2>2. sends \in [Runs -> 0 .. MAX_RETRIES - 1]
    BY DEF RunnerInit, RunnerAssumption
  <2>3. /\ breaker \in [open : BOOLEAN, attempts : Nat, failures : Nat]
        /\ breaker.failures <= breaker.attempts
    BY DEF RunnerInit
  <2>4. mined \in Seq([run : Runs, ok : BOOLEAN, block : Nat])
    BY DEF RunnerInit
  <2>5. QED
    BY <2>1, <2>2, <2>3, <2>4 DEF RunnerInit, RunnerTypeOK
<1>3. NoncesLag /\ NoNonceGap /\ SendersAccepted
  BY <1>1 DEF RunnerInit, NoncesLag, NoNonceGap, SendersAccepted
<1>4. GuardIsBacked /\ SuccessWasMined /\ PaidOnChainOnce
  BY <1>1 DEF RunnerInit, RunnerAssumption, GuardIsBacked, InFlight, SuccessWasMined, PaidOnChainOnce
<1>5. QED
  BY <1>2, <1>3, <1>4 DEF RunnerInv

\* The breaker's counters stay counters.
LEMMA AttemptTypes ==
  ASSUME RunnerTypeOK, NEW success \in BOOLEAN,
         RecordAttempt(success) \/ UNCHANGED breakerVars
  PROVE  /\ breaker' \in [open : BOOLEAN, attempts : Nat, failures : Nat]
         /\ breaker'.failures <= breaker'.attempts
         /\ windowOver' \in BOOLEAN
<1>1. CASE RecordAttempt(success)
  <2> DEFINE attempts == (IF windowOver THEN 0 ELSE breaker.attempts) + 1
             failures == (IF windowOver THEN 0 ELSE breaker.failures)
                           + (IF success THEN 0 ELSE 1)
  <2>1. attempts \in Nat /\ failures \in Nat /\ failures <= attempts
    BY DEF RunnerTypeOK
  <2>2. StaysOpen(attempts, failures) \in BOOLEAN
    BY DEF StaysOpen
  <2>3. /\ breaker' = [open |-> StaysOpen(attempts, failures),
                       attempts |-> attempts, failures |-> failures]
        /\ windowOver' = FALSE
    BY <1>1 DEF RecordAttempt
  <2> HIDE DEF attempts, failures
  <2>4. QED
    BY <2>1, <2>2, <2>3
<1>2. CASE UNCHANGED breakerVars
  BY <1>2 DEF breakerVars, RunnerTypeOK
<1>3. QED
  BY <1>1, <1>2

\* What every step of a run r has in common: only r moves, the chain stands
\* still, and r is sent on only with what the next await presupposes.
LEMMA RunMoves ==
  ASSUME RunnerAssumption, RunnerInv, NEW r \in Runs,
         NEW label \in {"idle"} \cup Suspended \cup Ended,
         pc' = [pc EXCEPT ![r] = label],
         label \in {"locating", "confirming", "settling", "finalized"} => r \in accepted',
         label \in {"settling", "finalized"} => Succeeded(r)',
         NEW success \in BOOLEAN,
         RecordAttempt(success) \/ UNCHANGED breakerVars,
         nonce' \in [Runs -> Nat],
         \A s \in Runs \ {r} : nonce'[s] = nonce[s],
         nonce'[r] <= Len(mined),
         sends' \in [Runs -> 0 .. MAX_RETRIES - 1],
         submittedAt' \in [Runs -> Nat],
         guard' \in [ExecutionIds -> [status : {"NONE", "QUEUED", "SUBMITTED", "FINALIZED"},
                                      tx : Runs \cup {Nil}]],
         GuardIsBacked',
         mempool' \subseteq Transactions,
         \A t \in mempool' : t.nonce <= Len(mined),
         accepted \subseteq accepted', accepted' \subseteq Runs,
         UNCHANGED <<mined, height>>,
         processed' \in [ExecutionIds -> Nat],
         overlaps' \subseteq ExecutionIds
  PROVE  RunnerInv'
<1> USE DEF RunnerInv
<1>1. RunnerTypeOK'
  <2>1. pc' \in [Runs -> {"idle"} \cup Suspended \cup Ended]
    BY DEF RunnerTypeOK
  <2>2. QED
    BY <2>1, AttemptTypes DEF RunnerTypeOK, Transactions
<1>2. NoncesLag'
  BY DEF NoncesLag
<1>3. NoNonceGap'
  BY DEF NoNonceGap
<1>4. SendersAccepted'
  BY DEF RunnerTypeOK, SendersAccepted
<1>5. SuccessWasMined'
  <2> SUFFICES ASSUME NEW s \in Runs, pc'[s] \in {"settling", "finalized"}
               PROVE  Succeeded(s)'
    BY DEF SuccessWasMined, Succeeded, IsMined, Slot
  <2>1. CASE s = r
    BY <2>1 DEF RunnerTypeOK
  <2>2. CASE s # r
    BY <2>2 DEF RunnerTypeOK, SuccessWasMined, Succeeded, IsMined, Slot
  <2>3. QED
    BY <2>1, <2>2
<1>6. PaidOnChainOnce'
  BY DEF PaidOnChainOnce
<1>7. QED
  BY <1>1, <1>2, <1>3, <1>4, <1>5, <1>6

\* What the guard says stays backed while runs that have not finalized go on.
LEMMA GuardStays ==
  ASSUME RunnerAssumption, RunnerInv, NEW r \in Runs, NEW label,
         pc[r] # "finalized",
         pc' = [pc EXCEPT ![r] = label],
         accepted \subseteq accepted',
         UNCHANGED guard
  PROVE  GuardIsBacked'
<1> USE DEF RunnerInv
<1> SUFFICES ASSUME NEW e \in ExecutionIds
             PROVE  /\ guard[e].tx # Nil => ExecutionOf[guard[e].tx] = e
                    /\ InFlight(e) => guard[e].tx \in accepted'
                    /\ guard[e].status = "FINALIZED" => pc'[guard[e].tx] = "finalized"
  BY DEF GuardIsBacked, InFlight
<1>1. guard[e].status = "FINALIZED" => guard[e].tx \in Runs
  BY DEF GuardIsBacked, InFlight, RunnerTypeOK
<1>2. QED
  BY <1>1 DEF GuardIsBacked, RunnerTypeOK

\* The record of r's own execution changes, and is backed by r itself.
LEMMA GuardRecords ==
  ASSUME RunnerAssumption, RunnerInv, NEW r \in Runs, NEW label,
         pc[r] # "finalized",
         pc' = [pc EXCEPT ![r] = label],
         NEW status \in {"QUEUED", "SUBMITTED", "FINALIZED"},
         NEW tx \in {r, Nil},
         status # "QUEUED" => tx = r /\ r \in accepted,
         status = "FINALIZED" => label = "finalized",
         Record(ExecutionOf[r], status, tx),
         UNCHANGED accepted
  PROVE  /\ GuardIsBacked'
         /\ guard' \in [ExecutionIds -> [status : {"NONE", "QUEUED", "SUBMITTED", "FINALIZED"},
                                         tx : Runs \cup {Nil}]]
<1> USE DEF RunnerInv
<1> DEFINE f == ExecutionOf[r]
           entry == [status |-> status, tx |-> IF tx = Nil THEN guard[f].tx ELSE tx]
<1>1. f \in ExecutionIds /\ Nil # r
  BY DEF RunnerAssumption
<1>2. guard' = [guard EXCEPT ![f] = entry]
  BY DEF Record
<1>3. entry \in [status : {"NONE", "QUEUED", "SUBMITTED", "FINALIZED"}, tx : Runs \cup {Nil}]
  BY <1>1 DEF RunnerTypeOK
<1>4. /\ entry.tx # Nil => ExecutionOf[entry.tx] = f
      /\ entry.status = status
      /\ status # "QUEUED" => entry.tx = r
  BY <1>1 DEF GuardIsBacked
<1> HIDE DEF f, entry
<1>5. guard' \in [ExecutionIds -> [status : {"NONE", "QUEUED", "SUBMITTED", "FINALIZED"},
                                   tx : Runs \cup {Nil}]]
  BY <1>2, <1>3 DEF RunnerTypeOK
<1>6. GuardIsBacked'
  <2> SUFFICES ASSUME NEW e \in ExecutionIds
               PROVE  /\ guard'[e].tx # Nil => ExecutionOf[guard'[e].tx] = e
                      /\ guard'[e].status \in {"SUBMITTED", "FINALIZED"} => guard'[e].tx \in accepted
                      /\ guard'[e].status = "FINALIZED" => pc'[guard'[e].tx] = "finalized"
    BY DEF GuardIsBacked, InFlight
  <2>1. CASE e = f
    <3>1. guard'[e] = entry
      BY <1>1, <1>2, <2>1 DEF RunnerTypeOK
    <3>2. QED
      BY <1>4, <2>1, <3>1 DEF RunnerTypeOK
  <2>2. CASE e # f
    <3>1. guard'[e] = guard[e]
      BY <1>2, <2>2 DEF RunnerTypeOK
    <3>2. guard[e].status = "FINALIZED" => guard[e].tx \in Runs
      BY DEF GuardIsBacked, InFlight, RunnerTypeOK
    <3>3. QED
      BY <3>1, <3>2 DEF GuardIsBacked, InFlight, RunnerTypeOK
  <2>3. QED
    BY <2>1, <2>2
<1>7. QED
  BY <1>5, <1>6

-----------------------------------------------------------------------------
(* One lemma per step of a run.                                            *)

LEMMA StartKeepsInv ==
  ASSUME RunnerAssumption, RunnerInv, NEW r \in Runs, Start(r)
  PROVE  RunnerInv'
<1> USE DEF RunnerInv, chainVars
<1>1. PICK label \in {"failed", "authorizing"} :
        /\ pc' = [pc EXCEPT ![r] = label]
        /\ RecordAttempt(FALSE) \/ UNCHANGED breakerVars
        /\ overlaps' \subseteq overlaps \cup {ExecutionOf[r]}
  BY DEF Start, Fail, Throw, Goto
<1>2. /\ pc[r] # "finalized"
      /\ UNCHANGED <<nonce, sends, submittedAt, guard, mempool, mined, height, accepted, processed>>
  BY DEF Start
<1>3. GuardIsBacked'
  BY <1>1, <1>2, GuardStays
<1>4. overlaps' \subseteq ExecutionIds
  BY <1>1 DEF RunnerTypeOK, RunnerAssumption
<1>5. QED
  BY <1>1, <1>2, <1>3, <1>4, RunMoves
     DEF RunnerTypeOK, NoncesLag, NoNonceGap, Suspended, Ended

LEMMA AuthorizeKeepsInv ==
  ASSUME RunnerAssumption, RunnerInv, NEW r \in Runs, Authorize(r)
  PROVE  RunnerInv'
<1> USE DEF RunnerInv, chainVars, layer5Vars
<1>1. PICK label \in {"failed", "numbering"} :
        /\ pc' = [pc EXCEPT ![r] = label]
        /\ RecordAttempt(FALSE) \/ UNCHANGED breakerVars
  BY DEF Authorize, Throw, Goto
<1>2. /\ pc[r] # "finalized"
      /\ UNCHANGED <<nonce, sends, submittedAt, guard, mempool, mined, height, accepted,
                     processed, overlaps>>
  BY DEF Authorize
<1>3. GuardIsBacked'
  BY <1>1, <1>2, GuardStays
<1>4. QED
  BY <1>1, <1>2, <1>3, RunMoves DEF RunnerTypeOK, NoncesLag, NoNonceGap, Suspended, Ended

LEMMA QueueKeepsInv ==
  ASSUME RunnerAssumption, RunnerInv, NEW r \in Runs, Queue(r)
  PROVE  RunnerInv'
<1> USE DEF RunnerInv, chainVars, layer5Vars
<1>1. /\ pc[r] # "finalized"
      /\ UNCHANGED <<sends, submittedAt, mempool, mined, height, accepted, processed, overlaps>>
      /\ Len(mined) \in Nat
  BY DEF Queue, RunnerTypeOK
<1>2. CASE /\ nonce' = [nonce EXCEPT ![r] = Len(mined)]
           /\ Record(ExecutionOf[r], "QUEUED", Nil)
           /\ pc' = [pc EXCEPT ![r] = "sending"]
           /\ UNCHANGED breakerVars
  <2>1. /\ GuardIsBacked'
        /\ guard' \in [ExecutionIds -> [status : {"NONE", "QUEUED", "SUBMITTED", "FINALIZED"},
                                        tx : Runs \cup {Nil}]]
    BY <1>1, <1>2, GuardRecords
  <2>2. /\ nonce' \in [Runs -> Nat]
        /\ \A s \in Runs \ {r} : nonce'[s] = nonce[s]
        /\ nonce'[r] <= Len(mined)
    BY <1>1, <1>2 DEF RunnerTypeOK
  <2>3. QED
    BY <1>1, <1>2, <2>1, <2>2, RunMoves DEF RunnerTypeOK, NoNonceGap, Suspended
<1>3. CASE Throw(r) /\ UNCHANGED <<nonce, guard>>
  <2>1. pc' = [pc EXCEPT ![r] = "failed"] /\ RecordAttempt(FALSE)
    BY <1>3 DEF Throw, Goto
  <2>2. GuardIsBacked'
    BY <1>1, <1>3, <2>1, GuardStays
  <2>3. QED
    BY <1>1, <1>3, <2>1, <2>2, RunMoves DEF RunnerTypeOK, NoncesLag, NoNonceGap, Ended
<1>4. QED
  BY <1>2, <1>3 DEF Queue, NextFromChain, RecordQueued, Goto

\* A retry sends again or fails the run.
LEMMA RetryMoves ==
  ASSUME RunnerTypeOK, RunnerAssumption, NEW r \in Runs, Retry(r)
  PROVE  /\ \/ pc' = [pc EXCEPT ![r] = "sending"]
            \/ pc' = [pc EXCEPT ![r] = "failed"]
         /\ RecordAttempt(FALSE) \/ UNCHANGED breakerVars
         /\ sends' \in [Runs -> 0 .. MAX_RETRIES - 1]
<1>1. CASE /\ sends[r] + 1 < MAX_RETRIES
           /\ sends' = [sends EXCEPT ![r] = @ + 1]
           /\ pc' = [pc EXCEPT ![r] = "sending"]
           /\ UNCHANGED breakerVars
  <2>1. sends[r] + 1 \in 0 .. MAX_RETRIES - 1
    BY <1>1 DEF RunnerTypeOK, RunnerAssumption
  <2>2. sends' \in [Runs -> 0 .. MAX_RETRIES - 1]
    BY <1>1, <2>1 DEF RunnerTypeOK
  <2>3. QED
    BY <1>1, <2>2
<1>2. CASE pc' = [pc EXCEPT ![r] = "failed"] /\ RecordAttempt(FALSE) /\ UNCHANGED sends
  BY <1>2 DEF RunnerTypeOK
<1>3. QED
  BY <1>1, <1>2 DEF Retry, Throw, Goto

LEMMA SendKeepsInv ==
  ASSUME RunnerAssumption, RunnerInv, NEW r \in Runs, Send(r)
  PROVE  RunnerInv'
<1> USE DEF RunnerInv, layer5Vars
<1> DEFINE t == [run |-> r, nonce |-> nonce[r], fee |-> sends[r]]
<1>1. /\ pc[r] # "finalized"
      /\ UNCHANGED <<nonce, submittedAt, guard, mined, height, processed, overlaps>>
  BY DEF Send
<1>2. t \in Transactions /\ t.nonce <= Len(mined) /\ t.run = r
  BY DEF RunnerTypeOK, Transactions, NoncesLag
<1>3. \/ Accept(t) /\ pc' = [pc EXCEPT ![r] = "locating"] /\ UNCHANGED <<sends, breakerVars>>
      \/ Accept(t) /\ Retry(r)
      \/ Retry(r) /\ UNCHANGED <<mempool, accepted>>
  BY Zenon DEF Send, Goto
<1> HIDE DEF t
<1>4. /\ mempool' \subseteq mempool \cup {t}
      /\ accepted \subseteq accepted' /\ accepted' \subseteq accepted \cup {r}
  BY <1>2, <1>3 DEF Accept
<1>5. /\ mempool' \subseteq Transactions
      /\ \A u \in mempool' : u.nonce <= Len(mined)
      /\ accepted' \subseteq Runs
  BY <1>2, <1>4 DEF RunnerTypeOK, NoNonceGap
<1>6. PICK label \in {"locating", "sending", "failed"} :
        /\ pc' = [pc EXCEPT ![r] = label]
        /\ label = "locating" => r \in accepted'
        /\ RecordAttempt(FALSE) \/ UNCHANGED breakerVars
        /\ sends' \in [Runs -> 0 .. MAX_RETRIES - 1]
  <2>1. CASE Retry(r)
    BY <2>1, RetryMoves
  <2>2. CASE Accept(t) /\ pc' = [pc EXCEPT ![r] = "locating"] /\ UNCHANGED <<sends, breakerVars>>
    <3>1. r \in accepted'
      BY <1>2, <2>2 DEF Accept
    <3>2. QED
      BY <2>2, <3>1 DEF RunnerTypeOK
  <2>3. QED
    BY <1>3, <2>1, <2>2
<1>7. GuardIsBacked'
  BY <1>1, <1>4, <1>6, GuardStays
<1>8. QED
  BY <1>1, <1>4, <1>5, <1>6, <1>7, RunMoves DEF RunnerTypeOK, NoncesLag, Suspended, Ended

LEMMA LocateKeepsInv ==
  ASSUME RunnerAssumption, RunnerInv, NEW r \in Runs, Locate(r)
  PROVE  RunnerInv'
<1> USE DEF RunnerInv, chainVars, layer5Vars
<1>1. /\ pc[r] = "locating" /\ r \in accepted
      /\ UNCHANGED <<nonce, mempool, mined, height, accepted, processed, overlaps>>
  BY DEF Locate, SendersAccepted
<1>2. CASE /\ submittedAt' = [submittedAt EXCEPT ![r] = height]
           /\ Record(ExecutionOf[r], "SUBMITTED", r)
           /\ pc' = [pc EXCEPT ![r] = "confirming"]
           /\ UNCHANGED <<sends, breakerVars>>
  <2>1. /\ GuardIsBacked'
        /\ guard' \in [ExecutionIds -> [status : {"NONE", "QUEUED", "SUBMITTED", "FINALIZED"},
                                        tx : Runs \cup {Nil}]]
    BY <1>1, <1>2, GuardRecords
  <2>2. submittedAt' \in [Runs -> Nat]
    BY <1>2 DEF RunnerTypeOK
  <2>3. QED
    BY <1>1, <1>2, <2>1, <2>2, RunMoves DEF RunnerTypeOK, NoncesLag, NoNonceGap, Suspended
<1>3. CASE Retry(r) /\ UNCHANGED <<submittedAt, guard>>
  <2>1. PICK label \in {"sending", "failed"} :
          /\ pc' = [pc EXCEPT ![r] = label]
          /\ RecordAttempt(FALSE) \/ UNCHANGED breakerVars
          /\ sends' \in [Runs -> 0 .. MAX_RETRIES - 1]
    BY <1>3, RetryMoves
  <2>2. GuardIsBacked'
    BY <1>1, <1>3, <2>1, GuardStays
  <2>3. QED
    BY <1>1, <1>3, <2>1, <2>2, RunMoves DEF RunnerTypeOK, NoncesLag, NoNonceGap, Suspended, Ended
<1>4. QED
  BY <1>2, <1>3 DEF Locate, Goto

LEMMA ConfirmKeepsInv ==
  ASSUME RunnerAssumption, RunnerInv, NEW r \in Runs, Confirm(r)
  PROVE  RunnerInv'
<1> USE DEF RunnerInv, chainVars, layer5Vars
<1>1. /\ pc[r] = "confirming" /\ r \in accepted
      /\ UNCHANGED <<nonce, sends, submittedAt, guard, mempool, mined, height, accepted,
                     processed, overlaps>>
  BY DEF Confirm, SendersAccepted
<1>2. PICK label \in {"settling", "failed"} :
        /\ pc' = [pc EXCEPT ![r] = label]
        /\ label = "settling" => Succeeded(r)
        /\ RecordAttempt(FALSE) \/ UNCHANGED breakerVars
  BY DEF Confirm, Fail, Throw, Goto
<1>3. GuardIsBacked'
  BY <1>1, <1>2, GuardStays
<1>4. label = "settling" => Succeeded(r)'
  BY <1>1, <1>2 DEF Succeeded, IsMined, Slot
<1>5. QED
  BY <1>1, <1>2, <1>3, <1>4, RunMoves
     DEF RunnerTypeOK, NoncesLag, NoNonceGap, Suspended, Ended

LEMMA SettleKeepsInv ==
  ASSUME RunnerAssumption, RunnerInv, NEW r \in Runs, Settle(r)
  PROVE  RunnerInv'
<1> USE DEF RunnerInv, chainVars
<1>1. /\ pc[r] = "settling" /\ r \in accepted
      /\ UNCHANGED <<nonce, sends, submittedAt, mempool, mined, height, accepted, overlaps>>
  BY DEF Settle, SendersAccepted
<1>2. processed' \in [ExecutionIds -> Nat]
  BY DEF Settle, RunnerTypeOK
<1>3. Succeeded(r)'
  BY <1>1 DEF SuccessWasMined, Succeeded, IsMined, Slot
<1>4. CASE /\ Record(ExecutionOf[r], "FINALIZED", r)
           /\ pc' = [pc EXCEPT ![r] = "finalized"]
           /\ RecordAttempt(TRUE)
  <2>1. /\ GuardIsBacked'
        /\ guard' \in [ExecutionIds -> [status : {"NONE", "QUEUED", "SUBMITTED", "FINALIZED"},
                                        tx : Runs \cup {Nil}]]
    BY <1>1, <1>4, GuardRecords
  <2>2. QED
    BY <1>1, <1>2, <1>3, <1>4, <2>1, RunMoves DEF RunnerTypeOK, NoncesLag, NoNonceGap, Ended
<1>5. CASE /\ pc' = [pc EXCEPT ![r] = "failed"]
           /\ RecordAttempt(FALSE) \/ UNCHANGED breakerVars
           /\ UNCHANGED guard
  <2>1. GuardIsBacked'
    BY <1>1, <1>5, GuardStays
  <2>2. QED
    BY <1>1, <1>2, <1>5, <2>1, RunMoves DEF RunnerTypeOK, NoncesLag, NoNonceGap, Ended
<1>6. QED
  BY <1>4, <1>5 DEF Settle, Fail, Throw, Goto

-----------------------------------------------------------------------------
(* The chain.                                                              *)

LEMMA MineKeepsInv ==
  ASSUME RunnerAssumption, RunnerInv, NEW t \in mempool, NEW ok \in BOOLEAN, Mine(t, ok)
  PROVE  RunnerInv'
<1> USE DEF RunnerInv, runVars, breakerVars, layer5Vars
<1> DEFINE Rec == [run : Runs, ok : BOOLEAN, block : Nat]
           new == [run |-> t.run, ok |-> ok, block |-> height + 1]
           n == Len(mined)
<1>1. /\ mined' = Append(mined, new)
      /\ height' = height + 1
      /\ mempool' \subseteq mempool
      /\ ok => Unpaid(ExecutionOf[t.run])
      /\ UNCHANGED <<pc, nonce, sends, submittedAt, guard, breaker, windowOver, accepted,
                     processed, overlaps>>
  BY DEF Mine, Pending, PaymentAllowed
<1>2. mined \in Seq(Rec) /\ new \in Rec /\ n \in Nat
  BY DEF RunnerTypeOK, Transactions
<1>3. new.run = t.run /\ new.ok = ok
  OBVIOUS
<1> HIDE DEF new, Rec
<1>4. /\ mined' \in Seq(Rec) /\ Len(mined') = n + 1
      /\ DOMAIN mined = 1 .. n /\ DOMAIN mined' = 1 .. n + 1
      /\ \A i \in 1 .. n : mined'[i] = mined[i]
      /\ mined'[n + 1] = new
  BY <1>1, <1>2
<1>5. RunnerTypeOK'
  <2>1. mined' \in Seq([run : Runs, ok : BOOLEAN, block : Nat])
    BY <1>4 DEF Rec
  <2>2. mempool' \subseteq Transactions /\ height' \in Nat
    BY <1>1 DEF RunnerTypeOK
  <2>3. QED
    BY <1>1, <2>1, <2>2 DEF RunnerTypeOK, Transactions
<1>6. NoncesLag' /\ NoNonceGap' /\ SendersAccepted'
  <2>1. NoncesLag'
    BY <1>1, <1>2, <1>4 DEF NoncesLag, RunnerTypeOK
  <2>2. NoNonceGap'
    <3> SUFFICES ASSUME NEW u \in mempool' PROVE u.nonce <= n + 1
      BY <1>4 DEF NoNonceGap
    <3>1. u \in Transactions /\ u.nonce <= n
      BY <1>1 DEF NoNonceGap, RunnerTypeOK
    <3>2. QED
      BY <1>2, <3>1 DEF Transactions
  <2>3. SendersAccepted'
    BY <1>1 DEF SendersAccepted
  <2>4. QED
    BY <2>1, <2>2, <2>3
<1>7. GuardIsBacked'
  BY <1>1 DEF GuardIsBacked, InFlight
<1>8. SuccessWasMined'
  <2> SUFFICES ASSUME NEW r \in Runs, pc[r] \in {"settling", "finalized"}
               PROVE  nonce[r] < Len(mined') /\ mined'[nonce[r] + 1].ok
    BY <1>1 DEF SuccessWasMined, Succeeded, IsMined, Slot
  <2>1. nonce[r] \in Nat /\ nonce[r] < n /\ mined[nonce[r] + 1].ok
    BY DEF RunnerTypeOK, SuccessWasMined, Succeeded, IsMined, Slot
  <2>2. QED
    BY <1>2, <1>4, <2>1
<1>9. PaidOnChainOnce'
  <2> SUFFICES ASSUME NEW i \in 1 .. n + 1, NEW j \in 1 .. n + 1, i < j,
                      mined'[i].ok, mined'[j].ok,
                      ExecutionOf[mined'[i].run] = ExecutionOf[mined'[j].run]
               PROVE  FALSE
    BY <1>2, <1>4 DEF PaidOnChainOnce
  <2>1. i \in 1 .. n /\ mined'[i] = mined[i]
    BY <1>2, <1>4
  <2>2. CASE j = n + 1
    BY <1>1, <1>3, <1>4, <2>1, <2>2 DEF Unpaid
  <2>3. CASE j # n + 1
    <3>1. j \in 1 .. n /\ mined'[j] = mined[j]
      BY <1>2, <1>4, <2>3
    <3>2. QED
      BY <1>2, <1>4, <2>1, <3>1 DEF PaidOnChainOnce
  <2>4. QED
    BY <2>2, <2>3
<1>10. QED
  BY <1>5, <1>6, <1>7, <1>8, <1>9

\* The remaining steps, and stuttering: at most the mempool shrinks, blocks are
\* counted, or the clock goes on.
LEMMA RestKeepsInv ==
  ASSUME RunnerInv,
         mempool' \subseteq mempool, height' \in Nat, windowOver' \in BOOLEAN,
         UNCHANGED <<runVars, guard, breaker, mined, accepted, layer5Vars>>
  PROVE  RunnerInv'
<1> USE DEF RunnerInv, runVars, layer5Vars
<1>1. RunnerTypeOK'
  BY DEF RunnerTypeOK
<1>2. NoncesLag' /\ NoNonceGap' /\ SendersAccepted'
  BY DEF NoncesLag, NoNonceGap, SendersAccepted
<1>3. GuardIsBacked' /\ SuccessWasMined' /\ PaidOnChainOnce'
  BY DEF GuardIsBacked, InFlight, SuccessWasMined, Succeeded, IsMined, Slot, PaidOnChainOnce
<1>4. QED
  BY <1>1, <1>2, <1>3

LEMMA ChainKeepsInv ==
  ASSUME RunnerAssumption, RunnerInv, ChainNext \/ WindowPasses \/ UNCHANGED runnerVars
  PROVE  RunnerInv'
<1>1. ASSUME NEW t \in mempool, Evict(t) PROVE RunnerInv'
  BY <1>1, RestKeepsInv DEF Evict, RunnerInv, RunnerTypeOK, breakerVars
<1>2. CASE EmptyBlock
  <2>1. height' \in Nat /\ windowOver' \in BOOLEAN /\ mempool' \subseteq mempool
    BY <1>2 DEF EmptyBlock, RunnerInv, RunnerTypeOK, breakerVars
  <2>2. UNCHANGED <<runVars, guard, breaker, mined, accepted, layer5Vars>>
    BY <1>2 DEF EmptyBlock, breakerVars
  <2>3. QED
    BY <2>1, <2>2, RestKeepsInv
<1>3. CASE WindowPasses
  BY <1>3, RestKeepsInv DEF WindowPasses, RunnerInv, RunnerTypeOK, chainVars
<1>4. CASE UNCHANGED runnerVars
  BY <1>4, RestKeepsInv DEF runnerVars, RunnerInv, RunnerTypeOK, chainVars
<1>5. QED
  <2>1. ASSUME NEW t \in mempool, NEW ok \in BOOLEAN, Mine(t, ok) PROVE RunnerInv'
    BY <2>1, MineKeepsInv
  <2>2. QED
    BY <1>1, <1>2, <1>3, <1>4, <2>1 DEF ChainNext

-----------------------------------------------------------------------------
(* The theorems.                                                           *)

THEOREM RunnerSafety == RunnerSpec => []RunnerInv
<1>1. RunnerInit => RunnerInv
  BY InitRunner, RunnerAssumption
<1>2. RunnerInv /\ [RunnerNext]_runnerVars => RunnerInv'
  <2> SUFFICES ASSUME RunnerInv, [RunnerNext]_runnerVars PROVE RunnerInv'
    OBVIOUS
  <2> USE RunnerAssumption
  <2>1. ASSUME NEW r \in Runs, Start(r) \/ RunStep(r) PROVE RunnerInv'
    BY <2>1, StartKeepsInv, AuthorizeKeepsInv, QueueKeepsInv, SendKeepsInv, LocateKeepsInv,
       ConfirmKeepsInv, SettleKeepsInv DEF RunStep
  <2>2. CASE ChainNext \/ WindowPasses \/ UNCHANGED runnerVars
    BY <2>2, ChainKeepsInv
  <2>3. QED
    BY <2>1, <2>2 DEF RunnerNext
<1>3. QED
  BY <1>1, <1>2, PTL DEF RunnerSpec

\* The types of the runner's and the chain's state.
THEOREM RunnerTypeCorrect == RunnerSpec => []RunnerTypeOK
BY RunnerSafety, PTL DEF RunnerInv

\* However many runs of an execution overlap and resend, it is paid on chain at
\* most once (pipelineRunner.ts:121).
THEOREM PaymentsHappenOnce == RunnerSpec => []PaidOnChainOnce
BY RunnerSafety, PTL DEF RunnerInv

\* A run that hands over or finalizes holds a nonce whose transaction succeeded
\* (pipelineRunner.ts:231).
THEOREM SuccessIsMined == RunnerSpec => []SuccessWasMined
BY RunnerSafety, PTL DEF RunnerInv

\* The in-flight guard refuses and finalizes on evidence (idempotencyGuard.ts:26).
THEOREM GuardHasEvidence == RunnerSpec => []GuardIsBacked
BY RunnerSafety, PTL DEF RunnerInv

\* An open breaker stays open and turns away every run that starts
\* (circuitBreaker.ts:19, :25).
THEOREM BreakerIsLatched == RunnerSpec => BreakerLatches
<1>1. RunnerInv /\ [RunnerNext]_runnerVars =>
        [breaker.open => /\ breaker.open'
                         /\ \A r \in Runs : pc[r] = "idle" => pc'[r] \in {"idle", "failed"}]_runnerVars
  <2> SUFFICES ASSUME RunnerInv, RunnerNext, breaker.open
               PROVE  /\ breaker.open'
                      /\ \A r \in Runs : pc[r] = "idle" => pc'[r] \in {"idle", "failed"}
    OBVIOUS
  <2>1. ASSUME NEW success, RecordAttempt(success) PROVE breaker'.open
    BY <2>1 DEF RecordAttempt, StaysOpen
  <2>2. ASSUME NEW r \in Runs, Start(r) \/ RunStep(r)
        PROVE  /\ breaker.open'
               /\ \A s \in Runs : pc[s] = "idle" => pc'[s] \in {"idle", "failed"}
    <3>1. UNCHANGED breakerVars \/ RecordAttempt(TRUE) \/ RecordAttempt(FALSE)
      <4>1. CASE Start(r)
        BY <4>1 DEF Start, Throw, Fail
      <4>2. CASE Authorize(r) \/ Queue(r) \/ Confirm(r)
        BY <4>2 DEF Authorize, Queue, Confirm, Throw, Fail
      <4>3. CASE Send(r) \/ Locate(r)
        BY <4>3 DEF Send, Locate, Retry, Throw
      <4>4. CASE Settle(r)
        BY <4>4 DEF Settle, Throw, Fail
      <4>5. QED
        BY <2>2, <4>1, <4>2, <4>3, <4>4 DEF RunStep
    <3>2. \/ pc[r] # "idle" /\ (\E label : pc' = [pc EXCEPT ![r] = label])
          \/ pc' = [pc EXCEPT ![r] = "failed"]
      <4>1. CASE Start(r)
        BY <4>1 DEF Start, Admitted, Throw, Goto
      <4>2. CASE Authorize(r) \/ Queue(r) \/ Confirm(r)
        BY <4>2 DEF Authorize, Queue, Confirm, Throw, Fail, Goto
      <4>3. CASE Send(r) \/ Locate(r)
        BY <4>3 DEF Send, Locate, Retry, Throw, Goto
      <4>4. CASE Settle(r)
        BY <4>4 DEF Settle, Throw, Fail, Goto
      <4>5. QED
        BY <2>2, <4>1, <4>2, <4>3, <4>4 DEF RunStep
    <3>3. \A s \in Runs : pc[s] = "idle" => pc'[s] \in {"idle", "failed"}
      BY <3>2 DEF RunnerInv, RunnerTypeOK
    <3>4. QED
      BY <2>1, <3>1, <3>3 DEF breakerVars
  <2>3. CASE ChainNext \/ WindowPasses
    BY <2>3 DEF ChainNext, Evict, Mine, EmptyBlock, WindowPasses, runVars, breakerVars
  <2>4. QED
    BY <2>2, <2>3 DEF RunnerNext
<1>2. QED
  BY <1>1, RunnerSafety, PTL DEF RunnerSpec, BreakerLatches

\* No transaction waits for an earlier nonce (nonceManager.ts:20).
THEOREM NoncesLeaveNoGap == RunnerSpec => []NoNonceGap
BY RunnerSafety, PTL DEF RunnerInv

-----------------------------------------------------------------------------
(* One run after the other.                                                *)

\* What the runs of an execution that never overlapped leave of it: one of them
\* is under way at most, its record stands from the submission on, and once
\* layer 5 was handed the execution the record turns every other run away.
OneByOne(e) ==
  /\ \A r, s \in Runs :
       /\ ExecutionOf[r] = e /\ pc[r] \in Suspended
       /\ ExecutionOf[s] = e /\ pc[s] \in Suspended
       => r = s
  /\ \A r \in Runs :
       ExecutionOf[r] = e /\ pc[r] \in {"confirming", "settling"} => InFlight(e)
  /\ processed[e] > 0 =>
       /\ InFlight(e)
       /\ \A r \in Runs : ExecutionOf[r] = e => pc[r] \notin Suspended
  /\ processed[e] <= 1

SequentialInv == \A e \in ExecutionIds \ overlaps : OneByOne(e)

\* A step of r leaves the other executions as they were.
LEMMA OthersStayOneByOne ==
  ASSUME RunnerTypeOK, RunnerAssumption, NEW r \in Runs, NEW label,
         pc' = [pc EXCEPT ![r] = label],
         NEW e \in ExecutionIds, e # ExecutionOf[r], OneByOne(e),
         guard'[e] = guard[e], processed'[e] = processed[e]
  PROVE  OneByOne(e)'
<1>1. \A s \in Runs : ExecutionOf[s] = e => pc'[s] = pc[s]
  BY DEF RunnerTypeOK
<1>2. InFlight(e)' <=> InFlight(e)
  BY DEF InFlight
<1>3. QED
  BY <1>1, <1>2 DEF OneByOne

\* Past the guard, a step of the only run of its execution keeps it so while the
\* record stands for what the run has reached.
LEMMA OnlyRunMoves ==
  ASSUME RunnerTypeOK, RunnerAssumption, NEW r \in Runs, NEW label \in Suspended \cup Ended,
         pc' = [pc EXCEPT ![r] = label],
         pc[r] \in Suspended,
         NEW e, e = ExecutionOf[r], OneByOne(e),
         label \in {"confirming", "settling"} => InFlight(e)',
         \/ processed'[e] = processed[e]
         \/ processed'[e] = processed[e] + 1 /\ label \in Ended /\ InFlight(e)'
  PROVE  OneByOne(e)'
<1>1. e \in ExecutionIds /\ processed[e] \in Nat
  BY DEF RunnerTypeOK, RunnerAssumption
<1>2. processed[e] = 0
  BY <1>1 DEF OneByOne
<1>3. \A s \in Runs \ {r} : pc'[s] = pc[s] /\ (ExecutionOf[s] = e => pc'[s] \notin Suspended)
  BY DEF RunnerTypeOK, OneByOne
<1>4. pc'[r] = label
  BY DEF RunnerTypeOK
<1>5. "confirming" \in Suspended /\ "settling" \in Suspended
  BY DEF Suspended
<1>6. label \in Ended => label \notin Suspended
  BY DEF Suspended, Ended
<1>7. QED
  BY <1>1, <1>2, <1>3, <1>4, <1>5, <1>6 DEF OneByOne

\* Recording changes one execution's record only, to the status it is given.
LEMMA RecordsOne ==
  ASSUME RunnerTypeOK, NEW f \in ExecutionIds, NEW status, NEW tx, Record(f, status, tx)
  PROVE  /\ guard'[f].status = status
         /\ \A e \in ExecutionIds \ {f} : guard'[e] = guard[e]
BY DEF RunnerTypeOK, Record

LEMMA StartKeepsSequence ==
  ASSUME RunnerTypeOK, RunnerAssumption, SequentialInv, NEW r \in Runs, Start(r)
  PROVE  SequentialInv'
<1>1. UNCHANGED <<guard, processed>> /\ overlaps \subseteq overlaps' /\ pc[r] = "idle"
  BY DEF Start
<1>2. SUFFICES ASSUME NEW e \in ExecutionIds, e \notin overlaps', OneByOne(e)
               PROVE  OneByOne(e)'
  BY <1>1 DEF SequentialInv
<1>3. InFlight(e)' <=> InFlight(e)
  BY <1>1 DEF InFlight
<1>4. CASE pc' = [pc EXCEPT ![r] = "failed"]
  <2>1. \A s \in Runs : pc'[s] = pc[s] \/ pc'[s] = "failed"
    BY <1>4 DEF RunnerTypeOK
  <2>2. QED
    BY <1>1, <1>2, <1>3, <2>1 DEF OneByOne, Suspended
<1>5. CASE /\ pc' = [pc EXCEPT ![r] = "authorizing"]
           /\ ~InFlight(ExecutionOf[r])
           /\ Overlaps(r) => ExecutionOf[r] \in overlaps'
  <2>1. CASE e # ExecutionOf[r]
    BY <1>1, <1>2, <1>5, <2>1, OthersStayOneByOne
  <2>2. CASE e = ExecutionOf[r]
    <3>1. \A s \in Runs \ {r} : pc'[s] = pc[s] /\ (ExecutionOf[s] = e => pc'[s] \notin Suspended)
      BY <1>2, <1>5, <2>2 DEF RunnerTypeOK, Overlaps
    <3>2. pc'[r] = "authorizing"
      BY <1>5 DEF RunnerTypeOK
    <3>3. ~InFlight(e) /\ ~(processed[e] > 0)
      BY <1>2, <1>5, <2>2 DEF OneByOne
    <3>4. "confirming" \in Suspended /\ "settling" \in Suspended
      BY DEF Suspended
    <3>5. QED
      BY <1>1, <1>2, <3>1, <3>2, <3>3, <3>4 DEF OneByOne
  <2>3. QED
    BY <2>1, <2>2
<1>6. QED
  BY <1>4, <1>5 DEF Start, Admitted, Fail, Throw, Goto

LEMMA StepKeepsSequence ==
  ASSUME RunnerTypeOK, RunnerAssumption, SequentialInv, NEW r \in Runs, RunStep(r)
  PROVE  SequentialInv'
<1> DEFINE f == ExecutionOf[r]
<1>1. f \in ExecutionIds
  BY DEF RunnerAssumption
<1>2. overlaps' = overlaps /\ pc[r] \in Suspended
  BY DEF RunStep, Authorize, Queue, Send, Locate, Confirm, Settle, layer5Vars, Suspended
<1>3. PICK label \in Suspended \cup Ended :
        /\ pc' = [pc EXCEPT ![r] = label]
        /\ \A e \in ExecutionIds \ {f} : guard'[e] = guard[e] /\ processed'[e] = processed[e]
        /\ label \in {"confirming", "settling"} /\ OneByOne(f) => InFlight(f)'
        /\ \/ processed'[f] = processed[f]
           \/ /\ processed'[f] = processed[f] + 1
              /\ label \in Ended
              /\ OneByOne(f) => InFlight(f)'
  <2> USE DEF Suspended, Ended
  <2>1. CASE Authorize(r)
    <3>1. PICK label \in {"numbering", "failed"} : pc' = [pc EXCEPT ![r] = label]
      BY <2>1 DEF Authorize, Throw, Goto
    <3>2. UNCHANGED <<guard, processed>>
      BY <2>1 DEF Authorize, layer5Vars
    <3>3. QED
      BY <3>1, <3>2
  <2>2. CASE Queue(r)
    <3>1. PICK label \in {"sending", "failed"} : pc' = [pc EXCEPT ![r] = label]
      BY <2>2 DEF Queue, Throw, Goto
    <3>2. UNCHANGED processed /\ \A e \in ExecutionIds \ {f} : guard'[e] = guard[e]
      BY <1>1, <2>2, RecordsOne DEF Queue, RecordQueued, layer5Vars
    <3>3. QED
      BY <3>1, <3>2
  <2>3. CASE Send(r)
    <3>1. PICK label \in {"locating", "sending", "failed"} : pc' = [pc EXCEPT ![r] = label]
      BY <2>3 DEF Send, Retry, Throw, Goto
    <3>2. UNCHANGED <<guard, processed>>
      BY <2>3 DEF Send, layer5Vars
    <3>3. QED
      BY <3>1, <3>2
  <2>4. CASE Locate(r)
    <3>1. UNCHANGED processed
      BY <2>4 DEF Locate, layer5Vars
    <3>2. CASE pc' = [pc EXCEPT ![r] = "confirming"] /\ Record(f, "SUBMITTED", r)
      BY <1>1, <3>1, <3>2, RecordsOne DEF InFlight
    <3>3. CASE Retry(r) /\ UNCHANGED guard
      <4>1. PICK label \in {"sending", "failed"} : pc' = [pc EXCEPT ![r] = label]
        BY <3>3 DEF Retry, Throw, Goto
      <4>2. QED
        BY <3>1, <3>3, <4>1
    <3>4. QED
      BY <2>4, <3>2, <3>3 DEF Locate, Goto
  <2>5. CASE Confirm(r)
    <3>1. PICK label \in {"settling", "failed"} : pc' = [pc EXCEPT ![r] = label]
      BY <2>5 DEF Confirm, Fail, Throw, Goto
    <3>2. UNCHANGED <<guard, processed>> /\ pc[r] = "confirming"
      BY <2>5 DEF Confirm, layer5Vars
    <3>3. OneByOne(f) => InFlight(f)'
      BY <3>2 DEF OneByOne, InFlight
    <3>4. QED
      BY <3>1, <3>2, <3>3
  <2>6. CASE Settle(r)
    <3>1. /\ pc[r] = "settling"
          /\ processed'[f] = processed[f] + 1
          /\ \A e \in ExecutionIds \ {f} : processed'[e] = processed[e]
      BY <1>1, <2>6 DEF Settle, RunnerTypeOK
    <3>2. CASE pc' = [pc EXCEPT ![r] = "finalized"] /\ Record(f, "FINALIZED", r)
      BY <1>1, <3>1, <3>2, RecordsOne DEF InFlight
    <3>3. CASE pc' = [pc EXCEPT ![r] = "failed"] /\ UNCHANGED guard
      <4>1. OneByOne(f) => InFlight(f)'
        BY <3>1, <3>3 DEF OneByOne, InFlight
      <4>2. QED
        BY <3>1, <3>3, <4>1
    <3>4. QED
      BY <2>6, <3>2, <3>3 DEF Settle, Fail, Throw, Goto
  <2>7. QED
    BY <2>1, <2>2, <2>3, <2>4, <2>5, <2>6 DEF RunStep
<1>4. SUFFICES ASSUME NEW e \in ExecutionIds, e \notin overlaps, OneByOne(e)
               PROVE  OneByOne(e)'
  BY <1>2 DEF SequentialInv
<1>5. CASE e = f
  BY <1>2, <1>3, <1>4, <1>5, OnlyRunMoves
<1>6. CASE e # f
  BY <1>3, <1>4, <1>6, OthersStayOneByOne
<1>7. QED
  BY <1>5, <1>6

\* Layer 5 is handed an execution a second time only after runs of it overlapped
\* (idempotencyGuard.ts:26): whatever fails or times out, runs that follow one
\* another are told apart by the guard alone.
THEOREM GuardIsEnoughInSequence == RunnerSpec => []OverlapSettlesTwice
<1>1. RunnerInit => SequentialInv
  <2> SUFFICES ASSUME RunnerInit, NEW e \in ExecutionIds PROVE OneByOne(e)
    BY DEF SequentialInv
  <2>1. processed[e] = 0 /\ \A r \in Runs : pc[r] = "idle"
    BY DEF RunnerInit
  <2>2. QED
    BY <2>1 DEF OneByOne, Suspended
<1>2. RunnerTypeOK /\ SequentialInv /\ [RunnerNext]_runnerVars => SequentialInv'
  <2> SUFFICES ASSUME RunnerTypeOK, SequentialInv, [RunnerNext]_runnerVars
               PROVE  SequentialInv'
    OBVIOUS
  <2>1. ASSUME NEW r \in Runs, Start(r) \/ RunStep(r) PROVE SequentialInv'
    BY <2>1, StartKeepsSequence, StepKeepsSequence, RunnerAssumption
  <2>2. CASE ChainNext \/ WindowPasses \/ UNCHANGED runnerVars
    <3>1. UNCHANGED <<pc, guard, processed, overlaps>>
      BY <2>2 DEF ChainNext, Evict, Mine, EmptyBlock, WindowPasses, runVars, layer5Vars, runnerVars
    <3>2. QED
      BY <3>1 DEF SequentialInv, OneByOne, InFlight
  <2>3. QED
    BY <2>1, <2>2 DEF RunnerNext
<1>3. RunnerTypeOK /\ SequentialInv => OverlapSettlesTwice
  BY DEF RunnerTypeOK, SequentialInv, OneByOne, OverlapSettlesTwice
<1>4. QED
  BY <1>1, <1>2, <1>3, RunnerTypeCorrect, PTL DEF RunnerSpec

-----------------------------------------------------------------------------
\* Everything the run checks of the states of the runner, for every runner.
THEOREM RunnerIsSafe == RunnerSpec => []RunnerSafe
<1>1. RunnerTypeOK /\ PaidOnChainOnce /\ SuccessWasMined /\ GuardIsBacked /\ NoNonceGap
        => RunnerSafe
  BY DEF RunnerSafe
<1>2. QED
  BY <1>1, RunnerTypeCorrect, PaymentsHappenOnce, SuccessIsMined, GuardHasEvidence,
     NoncesLeaveNoGap, PTL

-----------------------------------------------------------------------------
(* The orchestrator.                                                       *)

\* An answer read from the chain: none yet, or the receipt the chain keeps.
Answers == [current : Nat, receipt : [block : Nat, ok : BOOLEAN]]

\* What the chain and the polls hold: an answer stays true, because a receipt
\* once given never changes.
AnswersAreTrue ==
  /\ polls \in [Executions -> SUBSET Answers]
  /\ \A e \in Executions : \A answer \in polls[e] :
       /\ answer.current <= chainTip
       /\ answer.receipt \in {NotMined, inclusion[e]}

GuardStates == {"NONE", "QUEUED", "SUBMITTED", "CONFIRMING", "FINALIZED"}

Prepared ==
  [batch : {LegacyBatch(e) : e \in Executions}, gasLimit : Nat, maxFee : Nat,
   tip : Nat, estimate : Nat, givenTip : Nat]

OrchestratorInv ==
  /\ OrchestratorTypeOK
  /\ AnswersAreTrue
  /\ FinalIsDeep
  /\ prepared \in [Executions -> Prepared \cup {None}]
  /\ GasIsSendable

-----------------------------------------------------------------------------
(* Gas and fees.                                                           *)

\* The buffered gas covers the estimate as far as the cap allows.
LEMMA GasCovers ==
  ASSUME NEW estimate \in Nat
  PROVE  /\ ApplyGasBuffer(estimate) \in Nat
         /\ ApplyGasBuffer(estimate) <= MAX_GAS_LIMIT
         /\ estimate <= MAX_GAS_LIMIT => ApplyGasBuffer(estimate) >= estimate
<1> DEFINE buffered == estimate * Multiplier
<1>1. Multiplier \in Nat /\ Multiplier >= 100 /\ MAX_GAS_LIMIT \in Nat
  BY OrchestratorAssumption, GasAssumption
<1>2. buffered \in Nat /\ buffered >= estimate * 100
  BY <1>1
<1> HIDE DEF buffered
<1>3. buffered \div 100 \in Nat /\ buffered \div 100 >= estimate
  BY <1>2
<1>4. QED
  BY <1>1, <1>3 DEF ApplyGasBuffer, Least, buffered

\* The tip is within the fee unless the caller's own tip is beyond the cap.
LEMMA TipIsPaid ==
  ASSUME NEW base \in Nat, NEW priority \in Nat
  PROVE  LET fees == Eip1559Fees(base, priority)
         IN  /\ fees.maxFee \in Nat /\ fees.priority \in Nat
             /\ priority <= FeeCap => fees.priority <= fees.maxFee
<1>1. PriorityFee \in Nat /\ FeeCap \in Nat /\ PriorityFee <= FeeCap
  BY OrchestratorAssumption, GasAssumption
<1> DEFINE tip == Greatest(priority, PriorityFee)
<1>2. tip \in Nat /\ (priority <= FeeCap => tip <= FeeCap)
  BY <1>1 DEF Greatest
<1> HIDE DEF tip
<1>3. /\ Least(2 * base + tip, FeeCap) \in Nat
      /\ priority <= FeeCap => tip <= Least(2 * base + tip, FeeCap)
  BY <1>1, <1>2 DEF Least
<1>4. QED
  BY <1>2, <1>3 DEF Eip1559Fees, tip

-----------------------------------------------------------------------------
(* The invariant.                                                          *)

LEMMA OrchestratorInitInv == OrchestratorInit => OrchestratorInv
<1> SUFFICES ASSUME OrchestratorInit PROVE OrchestratorInv
  OBVIOUS
<1> USE DEF OrchestratorInit
<1>1. MaxHeight \in Nat \ {0}
  BY OrchestratorAssumption
<1>2. OrchestratorTypeOK
  BY <1>1 DEF OrchestratorTypeOK, NotMined
<1>3. AnswersAreTrue /\ FinalIsDeep
  BY DEF AnswersAreTrue, FinalIsDeep
<1>4. prepared \in [Executions -> Prepared \cup {None}] /\ GasIsSendable
  BY DEF GasIsSendable
<1>5. QED
  BY <1>2, <1>3, <1>4 DEF OrchestratorInv

LEMMA PrepareKeepsInv ==
  ASSUME OrchestratorInv, NEW e \in Executions, NEW estimate \in Nat, NEW base \in Nat,
         NEW priority \in Nat, PrepareExecution(e, estimate, base, priority)
  PROVE  OrchestratorInv'
<1> DEFINE fees == Eip1559Fees(base, priority)
           tx == [batch |-> LegacyBatch(e), gasLimit |-> ApplyGasBuffer(estimate),
                  maxFee |-> fees.maxFee, tip |-> fees.priority,
                  estimate |-> estimate, givenTip |-> priority]
<1>1. /\ guardOf' = [guardOf EXCEPT ![e] = "QUEUED"]
      /\ prepared' = [prepared EXCEPT ![e] = tx]
      /\ UNCHANGED <<sentAt, inclusion, chainTip, polls>>
  BY DEF PrepareExecution, SetGuard, callerVars
<1>2. fees.maxFee \in Nat /\ fees.priority \in Nat
      /\ (priority <= FeeCap => fees.priority <= fees.maxFee)
  BY TipIsPaid
<1>3. /\ ApplyGasBuffer(estimate) \in Nat
      /\ ApplyGasBuffer(estimate) <= MAX_GAS_LIMIT
      /\ estimate <= MAX_GAS_LIMIT => ApplyGasBuffer(estimate) >= estimate
  BY GasCovers
<1> HIDE DEF fees
<1>4. /\ tx \in Prepared
      /\ tx.gasLimit <= MAX_GAS_LIMIT
      /\ tx.givenTip <= FeeCap => tx.tip <= tx.maxFee
      /\ tx.estimate <= MAX_GAS_LIMIT => tx.gasLimit >= tx.estimate
  BY <1>2, <1>3 DEF Prepared
<1> HIDE DEF tx
<1>5. prepared' \in [Executions -> Prepared \cup {None}]
  BY <1>1, <1>4 DEF OrchestratorInv
<1>6. \A x \in Executions : prepared'[x] = IF x = e THEN tx ELSE prepared[x]
  BY <1>1 DEF OrchestratorInv
<1>7. GasIsSendable'
  BY <1>4, <1>6 DEF OrchestratorInv, GasIsSendable
<1>8. OrchestratorTypeOK'
  BY <1>1, <1>4, <1>6 DEF OrchestratorInv, OrchestratorTypeOK
<1>9. AnswersAreTrue'
  BY <1>1 DEF OrchestratorInv, AnswersAreTrue
<1>10. FinalIsDeep'
  BY <1>1 DEF OrchestratorInv, OrchestratorTypeOK, FinalIsDeep
<1>11. QED
  BY <1>5, <1>7, <1>8, <1>9, <1>10 DEF OrchestratorInv

\* An answer that confirms tells of a receipt deep enough: the chain has only
\* grown since.
LEMMA ConfirmedIsDeep ==
  ASSUME OrchestratorInv, NEW e \in Executions, NEW answer \in polls[e],
         Confirmation(e, answer) = "confirmed"
  PROVE  inclusion[e].ok /\ chainTip - inclusion[e].block >= FINAL_DEPTH
<1>1. /\ answer \in Answers /\ answer.current \in Nat
      /\ answer.current <= chainTip
      /\ answer.receipt \in {NotMined, inclusion[e]}
      /\ inclusion[e] \in [block : Nat, ok : BOOLEAN]
      /\ chainTip \in Nat
      /\ FINAL_DEPTH \in Nat
  BY OrchestratorAssumption DEF OrchestratorInv, OrchestratorTypeOK, AnswersAreTrue, Answers
<1>2. answer.receipt # NotMined /\ answer.receipt.ok
      /\ Depth(e, answer) >= FINAL_DEPTH
  <2>1. CASE answer.receipt = NotMined
    <3>1. Confirmation(e, answer) \in {"stuck", "pending"}
      BY <2>1 DEF Confirmation
    <3>2. QED
      BY <3>1
  <2>2. CASE answer.receipt # NotMined /\ ~answer.receipt.ok
    <3>1. Confirmation(e, answer) = "reverted"
      BY <2>2 DEF Confirmation
    <3>2. QED
      BY <3>1
  <2>3. CASE answer.receipt # NotMined /\ answer.receipt.ok
    <3>1. Confirmation(e, answer)
            = IF Depth(e, answer) >= FINAL_DEPTH THEN "confirmed" ELSE "pending"
      BY <2>3 DEF Confirmation
    <3>2. QED
      BY <2>3, <3>1
  <2>4. QED
    BY <2>1, <2>2, <2>3
<1>3. answer.receipt = inclusion[e]
  BY <1>1, <1>2
<1>4. QED
  BY <1>1, <1>2, <1>3 DEF Depth

LEMMA TrackKeepsInv ==
  ASSUME OrchestratorInv, NEW e \in Executions, NEW answer, TrackConfirmations(e, answer)
  PROVE  OrchestratorInv'
<1>1. /\ answer \in polls[e]
      /\ polls' = [polls EXCEPT ![e] = @ \ {answer}]
      /\ UNCHANGED <<prepared, sentAt, inclusion, chainTip>>
  BY DEF TrackConfirmations
<1>2. \/ Confirmation(e, answer) = "confirmed" /\ guardOf' = [guardOf EXCEPT ![e] = "FINALIZED"]
      \/ guardOf' = guardOf
      \/ guardOf' = [guardOf EXCEPT ![e] = "CONFIRMING"]
  BY DEF TrackConfirmations, Failed, KeepGuard, SetGuard
<1>3. OrchestratorTypeOK'
  BY <1>1, <1>2 DEF OrchestratorInv, OrchestratorTypeOK, AnswersAreTrue
<1>4. AnswersAreTrue'
  BY <1>1 DEF OrchestratorInv, AnswersAreTrue
<1>5. FinalIsDeep'
  BY <1>1, <1>2, ConfirmedIsDeep DEF OrchestratorInv, OrchestratorTypeOK, FinalIsDeep
<1>6. prepared' \in [Executions -> Prepared \cup {None}] /\ GasIsSendable'
  BY <1>1 DEF OrchestratorInv, GasIsSendable
<1>7. QED
  BY <1>3, <1>4, <1>5, <1>6 DEF OrchestratorInv

\* A block mines what was pending, so no receipt that an answer tells of
\* changes, and every final execution sinks deeper.
LEMMA BlockKeepsInv ==
  ASSUME OrchestratorInv, NEW chosen \in SUBSET Unmined, NEW ok \in BOOLEAN,
         NewBlock(chosen, ok)
  PROVE  OrchestratorInv'
<1>1. /\ chainTip' = chainTip + 1
      /\ chainTip \in Nat /\ chainTip < MaxHeight /\ MaxHeight \in Nat
      /\ \A e \in Executions : inclusion'[e] =
           IF e \in chosen THEN [block |-> chainTip + 1, ok |-> ok] ELSE inclusion[e]
      /\ UNCHANGED <<guardOf, prepared, sentAt, polls>>
  BY OrchestratorAssumption DEF NewBlock, OrchestratorInv, OrchestratorTypeOK
<1>2. \A e \in chosen : inclusion[e] = NotMined
  BY DEF Unmined
<1>3. OrchestratorTypeOK'
  <2>1. inclusion' \in [Executions -> [block : 0 .. MaxHeight, ok : BOOLEAN]]
    BY <1>1 DEF NewBlock, OrchestratorInv, OrchestratorTypeOK
  <2>2. \A e \in Executions : \A answer \in polls[e] : answer.current <= chainTip'
    BY <1>1 DEF OrchestratorInv, AnswersAreTrue, Answers
  <2>3. QED
    BY <1>1, <2>1, <2>2 DEF OrchestratorInv, OrchestratorTypeOK
<1>4. AnswersAreTrue'
  BY <1>1, <1>2 DEF OrchestratorInv, AnswersAreTrue, Answers
<1>5. FinalIsDeep'
  <2> SUFFICES ASSUME NEW e \in Executions, guardOf[e] = "FINALIZED"
               PROVE  inclusion'[e].ok /\ chainTip' - inclusion'[e].block >= FINAL_DEPTH
    BY <1>1 DEF FinalIsDeep
  <2>1. inclusion[e].ok /\ chainTip - inclusion[e].block >= FINAL_DEPTH
    BY DEF OrchestratorInv, FinalIsDeep
  <2>2. e \notin chosen
    BY <1>2, <2>1 DEF NotMined
  <2>3. inclusion[e].block \in Nat /\ FINAL_DEPTH \in Nat
    BY OrchestratorAssumption DEF OrchestratorInv, OrchestratorTypeOK
  <2>4. QED
    BY <1>1, <2>1, <2>2, <2>3
<1>6. prepared' \in [Executions -> Prepared \cup {None}] /\ GasIsSendable'
  BY <1>1 DEF OrchestratorInv, GasIsSendable
<1>7. QED
  BY <1>3, <1>4, <1>5, <1>6 DEF OrchestratorInv

LEMMA OrchestratorNextInv ==
  OrchestratorInv /\ [OrchestratorNext]_orchestratorVars => OrchestratorInv'
<1> SUFFICES ASSUME OrchestratorInv, [OrchestratorNext]_orchestratorVars
             PROVE  OrchestratorInv'
  OBVIOUS
<1>1. CASE UNCHANGED orchestratorVars
  BY <1>1 DEF orchestratorVars, callerVars, OrchestratorInv, OrchestratorTypeOK,
       AnswersAreTrue, FinalIsDeep, GasIsSendable
<1>2. ASSUME NEW e \in Executions, NEW estimate \in Estimates, NEW base \in BaseFees,
             NEW priority \in PriorityFees, PrepareExecution(e, estimate, base, priority)
      PROVE  OrchestratorInv'
  <2>1. estimate \in Nat /\ base \in Nat /\ priority \in Nat
    BY OrchestratorAssumption
  <2>2. QED
    BY <1>2, <2>1, PrepareKeepsInv
<1>3. ASSUME NEW e \in Executions, SendPrepared(e)
      PROVE  OrchestratorInv'
  BY <1>3 DEF SendPrepared, OrchestratorInv, OrchestratorTypeOK, AnswersAreTrue,
       FinalIsDeep, GasIsSendable
<1>4. ASSUME NEW e \in Executions, MarkSubmitted(e)
      PROVE  OrchestratorInv'
  BY <1>4 DEF MarkSubmitted, SetGuard, callerVars, OrchestratorInv, OrchestratorTypeOK,
       AnswersAreTrue, FinalIsDeep, GasIsSendable
<1>5. ASSUME NEW e \in Executions, Poll(e)
      PROVE  OrchestratorInv'
  <2> DEFINE answer == [current |-> chainTip, receipt |-> inclusion[e]]
  <2>1. answer \in Answers
    BY DEF OrchestratorInv, OrchestratorTypeOK, Answers
  <2>2. answer.current = chainTip /\ answer.receipt = inclusion[e] /\ chainTip \in Nat
    BY DEF OrchestratorInv, OrchestratorTypeOK
  <2>3. /\ polls' = [polls EXCEPT ![e] = @ \cup {answer}]
        /\ UNCHANGED <<guardOf, prepared, sentAt, inclusion, chainTip>>
    BY <1>5 DEF Poll
  <2> HIDE DEF answer
  <2>4. AnswersAreTrue'
    BY <2>1, <2>2, <2>3 DEF OrchestratorInv, AnswersAreTrue
  <2>5. OrchestratorTypeOK'
    BY <2>3, <2>4 DEF OrchestratorInv, OrchestratorTypeOK, AnswersAreTrue
  <2>6. QED
    BY <2>3, <2>4, <2>5 DEF OrchestratorInv, FinalIsDeep, GasIsSendable
<1>6. ASSUME NEW e \in Executions, NEW answer \in polls[e], TrackConfirmations(e, answer)
      PROVE  OrchestratorInv'
  BY <1>6, TrackKeepsInv
<1>7. ASSUME NEW chosen \in SUBSET Unmined, NEW ok \in BOOLEAN, NewBlock(chosen, ok)
      PROVE  OrchestratorInv'
  BY <1>7, BlockKeepsInv
<1>8. QED
  BY <1>1, <1>2, <1>3, <1>4, <1>5, <1>6, <1>7 DEF OrchestratorNext

LEMMA OrchestratorInvariant == OrchestratorSpec => []OrchestratorInv
BY OrchestratorInitInv, OrchestratorNextInv, PTL DEF OrchestratorSpec

-----------------------------------------------------------------------------
(* The theorems.                                                           *)

\* The guard, the gas limits, the chain and the polls keep their types.
THEOREM OrchestratorTypes == OrchestratorSpec => []OrchestratorTypeOK
BY OrchestratorInvariant, PTL DEF OrchestratorInv

\* Every prepared transaction pays its tip within its fee and has gas for its
\* estimate, for every estimate and fee short of the caps.
THEOREM PreparedIsSendable == OrchestratorSpec => []GasIsSendable
BY OrchestratorInvariant, PTL DEF OrchestratorInv

\* A final execution succeeded and is as deep as required, for every depth and
\* every order in which the answers of overlapping polls are applied.
THEOREM FinalityIsDeep == OrchestratorSpec => []FinalIsDeep
BY OrchestratorInvariant, PTL DEF OrchestratorInv

\* A submitted execution is refused from then on, whatever answers follow.
THEOREM SubmittedStaysRefused == OrchestratorSpec => InFlightStaysRefused
<1>1. ASSUME OrchestratorInv, [OrchestratorNext]_orchestratorVars
      PROVE  \A e \in Executions : Refused(e) => Refused(e)'
  <2>0. guardOf \in [Executions -> GuardStates]
    BY <1>1 DEF OrchestratorInv, OrchestratorTypeOK, GuardStates
  <2>1. CASE UNCHANGED guardOf
    BY <2>1 DEF Refused
  <2>2. ASSUME NEW e \in Executions, NEW estimate, NEW base, NEW priority,
               PrepareExecution(e, estimate, base, priority)
        PROVE  \A x \in Executions : Refused(x) => Refused(x)'
    BY <2>0, <2>2 DEF PrepareExecution, Refused, SetGuard
  <2>3. ASSUME NEW e \in Executions,
               \/ guardOf' = [guardOf EXCEPT ![e] = "SUBMITTED"]
               \/ guardOf' = [guardOf EXCEPT ![e] = "CONFIRMING"]
               \/ guardOf' = [guardOf EXCEPT ![e] = "FINALIZED"]
        PROVE  \A x \in Executions : Refused(x) => Refused(x)'
    BY <2>0, <2>3 DEF Refused
  <2>4. ASSUME NEW e \in Executions, NEW answer, TrackConfirmations(e, answer)
        PROVE  \A x \in Executions : Refused(x) => Refused(x)'
    BY <2>1, <2>3, <2>4 DEF TrackConfirmations, SetGuard, Failed, KeepGuard
  <2>5. QED
    BY <1>1, <2>1, <2>2, <2>3, <2>4 DEF OrchestratorNext, SendPrepared, MarkSubmitted, Poll,
         NewBlock, SetGuard, orchestratorVars
<1>2. QED
  BY <1>1, OrchestratorInvariant, PTL DEF OrchestratorSpec, InFlightStaysRefused

\* Types, sendable gas and deep finality, together.
THEOREM OrchestratorIsSafe == OrchestratorSpec => []OrchestratorSafe
<1>1. OrchestratorTypeOK /\ GasIsSendable /\ FinalIsDeep => OrchestratorSafe
  BY DEF OrchestratorSafe
<1>2. QED
  BY <1>1, OrchestratorTypes, PreparedIsSendable, FinalityIsDeep, PTL
=============================================================================
