------------------------------- MODULE Oracle -------------------------------
(***************************************************************************)
(* Layer 2: a meter's readings become proofs, one at a time, with a zero-  *)
(* knowledge proof, or as the median of what a quorum of oracle nodes      *)
(* attest; a proof is finalised for a producer whose clearance the KYC     *)
(* bridge delivers in messages that may arrive in any order.  A            *)
(* ReadingProof can be copied and not stored, so it is finalised in the    *)
(* transaction that made it, as often as that transaction likes or never.  *)
(*                                                                         *)
(* Tables, registries and meters anybody may create: the state is the      *)
(* deployment's, and what a caller proves against objects of his own comes *)
(* to no more than the VerifiedReading he may mint without any.            *)
(*                                                                         *)
(* The clock, the epochs, the bridge and the devices' signatures are       *)
(* external.  Device ids and node addresses are model values; hashes are   *)
(* the tuples that are hashed.  Times are in ticks.                        *)
(***************************************************************************)
EXTENDS Integers, FiniteSets, SequencesExt

CONSTANTS
  Devices, Nodes,      \* Nodes: approved_oracles
  Kwh, Stamps,         \* kwh_delta and timestamp of attestations
  Nonces,              \* batch_nonce of a call
  MessageStatus,       \* status the n-th message of the KYC bridge carries
  DriftMs, FutureToleranceMs, WindowMs, ZkMaxAgeMs, MaxPlausibleKwh,
  OracleEpochLength, OracleStart, MaxClock,
  MaxProofs,           \* bounds the proofs
  MaxCopies,           \* and how often one is finalised
  CallerKeys, CallerHashes, \* what a caller may mark as processed, or spent
  CallerReadings,      \* [kwh, at] a caller may mint a VerifiedReading of
  NoClearance, NoProof

ASSUME OracleAssumption ==
  /\ IsFiniteSet(Nodes)
  /\ Kwh \subseteq Nat /\ Stamps \subseteq Nat \ {0}
  /\ MessageStatus \in Seq({"pending", "cleared", "suspended", "revoked"})
  /\ {DriftMs, FutureToleranceMs, WindowMs, ZkMaxAgeMs, MaxPlausibleKwh,
      OracleEpochLength, OracleStart, MaxClock, MaxProofs, MaxCopies} \subseteq Nat
  /\ CallerKeys \subseteq [device : Devices, kwh : Kwh, at : Stamps]
  /\ CallerHashes \subseteq [device : Devices, kwh : Nat, at : Stamps, nonce : Nonces]
  /\ CallerReadings \subseteq [kwh : Nat, at : Nat]
  /\ OracleEpochLength > 0 /\ OracleStart <= MaxClock
  /\ NoClearance \notin 1 .. Len(MessageStatus)

VARIABLES
  clock, oracleEpoch,   \* the clock; tx_context::epoch_timestamp_ms
  registered,   \* DeviceRegistry.devices
  processed,    \* ProcessedAttestationTable: dedup keys
  spent,        \* SpentProofs: hashes of aggregates
  clearance,          \* the producer's KycRecord, as the message it came with
  blocked,      \* the producer's jurisdiction is on the blacklist
  delivered,    \* messages of the bridge that were delivered; history
  proofs,       \* the ReadingProofs, each with what it rests on; history
  verified      \* the VerifiedReadings, with their proof or NoProof; history

oracleVars == <<clock, oracleEpoch, registered, processed, spent, clearance, blocked,
                delivered, proofs, verified>>

Messages == 1 .. Len(MessageStatus)
Attestation == [device : Devices, kwh : Kwh, at : Stamps, signed : BOOLEAN]

\* aggregator.m, fixed when the aggregator is created.
QuorumThreshold(n) == IF n = 0 THEN 0 ELSE (2 * n + 2) \div 3

OracleTypeOK ==
  /\ clock \in OracleStart .. MaxClock /\ oracleEpoch \in OracleStart .. clock
  /\ registered \subseteq Devices
  /\ processed \subseteq [device : Devices, kwh : Kwh, at : Stamps]
  /\ \A h \in spent : h \in [device : Devices, kwh : Nat, at : Stamps, nonce : Nonces]
  /\ clearance \in Messages \cup {NoClearance} /\ blocked \in BOOLEAN
  /\ delivered \subseteq Messages
  /\ \A p \in proofs :
       /\ p.from \subseteq Attestation /\ p.nodes \subseteq Nodes
       /\ p.kwh \in Nat /\ p.time \in OracleStart .. clock
       /\ \A a \in p.from : a.device \in registered
  /\ \A v \in verified : v.proof \in proofs \cup {NoProof}

-----------------------------------------------------------------------------
(* The median, by the exchange sort of the source.                         *)

Exchange(s, i, j) ==
  IF s[j] < s[i] THEN [s EXCEPT ![i] = s[j], ![j] = s[i]] ELSE s

ExchangeSort(s) ==
  FoldLeft(LAMBDA t, i :
             FoldLeft(LAMBDA u, d : Exchange(u, i, i + d), t,
                      [d \in 1 .. Len(s) - i |-> d]),
           s, [i \in 1 .. Len(s) |-> i])

MedianKwh(s) ==
  LET sorted == ExchangeSort(s)
      mid == Len(s) \div 2
  IN IF Len(s) % 2 = 1 THEN sorted[mid + 1]
     ELSE (sorted[mid] + sorted[mid + 1]) \div 2

-----------------------------------------------------------------------------
(* What one attestation has to pass.                                       *)

DedupKeyOf(a) == [device |-> a.device, kwh |-> a.kwh, at |-> a.at]

\* assert_timestamp_fresh, with the time the epoch began for the present.
TimestampFresh(at) ==
  /\ at <= oracleEpoch + FutureToleranceMs
  /\ IF oracleEpoch > at THEN oracleEpoch - at <= DriftMs ELSE at - oracleEpoch <= DriftMs

\* ingest, without the mark: schema, time, registration, meter, duplicate.
Ingestible(a) ==
  /\ a.kwh > 0
  /\ TimestampFresh(a.at)
  /\ a.device \in registered
  /\ DedupKeyOf(a) \notin processed

\* compliance_bridge::assert_producer; the message carries no expiry here.
AssertProducer == clearance # NoClearance /\ MessageStatus[clearance] = "cleared" /\ ~blocked

\* finalize_layer2_verification, in the transaction of the proof and on it or a
\* copy of it, any number of times; what asks for the clearance is the first.
Finalize(from, nodes, kwh, at) ==
  LET proof == [from |-> from, nodes |-> nodes, kwh |-> kwh, time |-> clock]
  IN /\ Cardinality(proofs) < MaxProofs
     /\ proofs' = proofs \cup {proof}
     /\ \E n \in 0 .. MaxCopies :
          /\ n > 0 => AssertProducer
          /\ verified' = verified \cup
               {[proof |-> proof, copy |-> c, kwh |-> kwh, at |-> at] : c \in 1 .. n}
     /\ UNCHANGED <<clock, oracleEpoch, registered, clearance, blocked, delivered>>

-----------------------------------------------------------------------------
OracleInit ==
  /\ clock = OracleStart /\ oracleEpoch = OracleStart
  /\ registered = {} /\ processed = {} /\ spent = {}
  /\ clearance = NoClearance /\ blocked = FALSE /\ delivered = {}
  /\ proofs = {} /\ verified = {}

OracleTick ==
  /\ clock < MaxClock /\ clock + 1 < oracleEpoch + OracleEpochLength
  /\ clock' = clock + 1
  /\ UNCHANGED <<oracleEpoch, registered, processed, spent, clearance, blocked, delivered, proofs, verified>>

NextOracleEpoch ==
  /\ clock < MaxClock
  /\ clock' = clock + 1 /\ oracleEpoch' = clock + 1
  /\ UNCHANGED <<registered, processed, spent, clearance, blocked, delivered, proofs, verified>>

RegisterOracleDevice(d) ==
  /\ d \notin registered
  /\ registered' = registered \cup {d}
  /\ UNCHANGED <<clock, oracleEpoch, processed, spent, clearance, blocked, delivered, proofs, verified>>

\* upsert_kyc: an older message than the record's aborts and is gone.
UpsertKyc(n) ==
  /\ n \notin delivered
  /\ clearance' = IF clearance = NoClearance THEN n ELSE IF n > clearance THEN n ELSE clearance
  /\ delivered' = delivered \cup {n}
  /\ UNCHANGED <<clock, oracleEpoch, registered, processed, spent, blocked, proofs, verified>>

BlockJurisdiction ==
  /\ blocked' = TRUE
  /\ UNCHANGED <<clock, oracleEpoch, registered, processed, spent, clearance, delivered, proofs, verified>>

\* verify_reading: one attestation with the device's signature.
VerifyReading(a) ==
  /\ Ingestible(a)
  /\ a.signed
  /\ processed' = processed \cup {DedupKeyOf(a)}
  /\ UNCHANGED spent
  /\ Finalize({a}, {}, a.kwh, a.at)

\* verify_reading_with_zk; a proof made after the epoch began underflows.
VerifyReadingWithZk(a, generated) ==
  /\ generated <= oracleEpoch /\ oracleEpoch - generated <= ZkMaxAgeMs
  /\ VerifyReading(a)

Span(times) == \A s, t \in times : s - t <= WindowMs

Latest(times) == CHOOSE t \in times : \A u \in times : u <= t

\* What aggregate_batch asks for: by[n] is what node n attests.  The result
\* of each signature check is dropped.
Aggregable(by) ==
  LET nodes == DOMAIN by
  IN /\ Cardinality(nodes) >= QuorumThreshold(Cardinality(Nodes))
     /\ \A n \in nodes : Ingestible(by[n]) /\ by[n].kwh <= MaxPlausibleKwh
     /\ \A m, n \in nodes : m # n => DedupKeyOf(by[m]) # DedupKeyOf(by[n])
     /\ \A m, n \in nodes : by[m].device = by[n].device
     /\ Span({by[n].at : n \in nodes})

\* A batch that marks only its aggregate.
VerifyBatchUnmarked(by, nonce) ==
  LET nodes == DOMAIN by
      readings == SetToSeq(nodes)
      median == MedianKwh([i \in 1 .. Len(readings) |-> by[readings[i]].kwh])
      times == {by[n].at : n \in nodes}
      hash == [device |-> by[readings[1]].device, kwh |-> median,
               at |-> Latest(times), nonce |-> nonce]
  IN /\ Aggregable(by)
     /\ hash \notin spent
     /\ spent' = spent \cup {hash}
     /\ UNCHANGED processed
     /\ Finalize({by[n] : n \in nodes}, nodes, median, Latest(times))

VerifyReadingBatch(by, nonce) ==
  LET nodes == DOMAIN by
      readings == SetToSeq(nodes)
      median == MedianKwh([i \in 1 .. Len(readings) |-> by[readings[i]].kwh])
      times == {by[n].at : n \in nodes}
      hash == [device |-> by[readings[1]].device, kwh |-> median,
               at |-> Latest(times), nonce |-> nonce]
  IN /\ Aggregable(by)
     /\ hash \notin spent
     /\ spent' = spent \cup {hash}
     /\ processed' = processed \cup {DedupKeyOf(by[n]) : n \in nodes}
     /\ Finalize({by[n] : n \in nodes}, nodes, median, Latest(times))

\* mark_processed, mark_proof_spent and mint_verified_reading are public.
MarkProcessed(key) ==
  /\ key \notin processed
  /\ processed' = processed \cup {key}
  /\ UNCHANGED <<clock, oracleEpoch, registered, spent, clearance, blocked, delivered,
                 proofs, verified>>

\* Also aggregate_batch, called without verify_reading_batch.
MarkProofSpent(hash) ==
  /\ hash \notin spent
  /\ spent' = spent \cup {hash}
  /\ UNCHANGED <<clock, oracleEpoch, registered, processed, clearance, blocked, delivered,
                 proofs, verified>>

MintVerifiedReading(r) ==
  /\ verified' = verified \cup
       {[proof |-> NoProof, copy |-> 0, kwh |-> r.kwh, at |-> r.at]}
  /\ UNCHANGED <<clock, oracleEpoch, registered, processed, spent, clearance, blocked,
                 delivered, proofs>>

\* Calls with a reading of its own for each node; as no signature matters,
\* the attestations of a batch are unsigned ones.
NodeBatches ==
  {by \in UNION {[S -> {a \in Attestation : ~a.signed}] : S \in (SUBSET Nodes) \ {{}}} :
     \A m, n \in DOMAIN by : m # n => by[m] # by[n]}

OracleNext ==
  \/ OracleTick \/ NextOracleEpoch \/ BlockJurisdiction
  \/ \E d \in Devices : RegisterOracleDevice(d)
  \/ \E n \in Messages : UpsertKyc(n)
  \/ \E a \in Attestation :
       \/ VerifyReading(a)
       \/ \E t \in OracleStart .. clock : VerifyReadingWithZk(a, t)
  \/ \E by \in NodeBatches, nonce \in Nonces : VerifyReadingBatch(by, nonce)
  \/ \E key \in CallerKeys : MarkProcessed(key)
  \/ \E hash \in CallerHashes : MarkProofSpent(hash)
  \/ \E r \in CallerReadings : MintVerifiedReading(r)

OracleSpec == OracleInit /\ [][OracleNext]_oracleVars

-----------------------------------------------------------------------------
(* However the bridge's messages are reordered, the record in force is the *)
(* latest that was delivered (compliance_bridge.move: upsert_kyc).         *)
KycIsLatest ==
  /\ delivered = {} <=> clearance = NoClearance
  /\ delivered # {} => clearance = Latest(delivered)

(* No reading is behind two proofs, whether it came alone, with a zero-    *)
(* knowledge proof or in a batch, whatever nonce the batch was given and   *)
(* whatever callers marked; so VerifiedReadings that rest on one reading   *)
(* are copies made of one proof, with its median and the time of its last  *)
(* reading, and the others rest on nothing (attestation.move: ingest;      *)
(* oracle.move: finalize_layer2_verification).                             *)
SameReading(p, q) == \E a \in p.from, b \in q.from : DedupKeyOf(a) = DedupKeyOf(b)

ReadingCountedOnce ==
  /\ \A p, q \in proofs : SameReading(p, q) => p = q
  /\ \A v \in verified :
       v.proof # NoProof =>
         /\ v.kwh = v.proof.kwh
         /\ v.at = Latest({a.at : a \in v.proof.from})

(* Any two proofs of the aggregator have a third of the nodes in common:   *)
(* no two quorums of a third honest nodes each can prove what the others   *)
(* deny (aggregator.move: quorum_threshold).                               *)
QuorumsMeet ==
  \A p, q \in proofs :
    p.nodes # {} /\ q.nodes # {} =>
      3 * Cardinality(p.nodes \cap q.nodes) >= Cardinality(Nodes)

(* A proof's readings were taken within the drift before the epoch began:  *)
(* at the time of the proof they are less than that and an epoch old, and  *)
(* ahead of it by the future tolerance at most (attestation.move:          *)
(* assert_timestamp_fresh).                                                *)
ReadingAgeIsBounded ==
  \A p \in proofs : \A a \in p.from :
    /\ p.time - a.at < DriftMs + OracleEpochLength
    /\ a.at <= p.time + FutureToleranceMs

(* The median of a proof has no more than half of its batch's readings     *)
(* below it and no more than half above it, in whatever order the readings *)
(* were given (aggregator.move: median_kwh).                               *)
MedianIsMiddle ==
  \A p \in {q \in proofs : q.nodes # {}} :
    /\ 2 * Cardinality({a \in p.from : a.kwh < p.kwh}) <= Cardinality(p.from)
    /\ 2 * Cardinality({a \in p.from : a.kwh > p.kwh}) <= Cardinality(p.from)
    /\ \A s \in SetToSeqs(p.from) :
         MedianKwh([i \in DOMAIN s |-> s[i].kwh]) = p.kwh

\* A reading counts once, is recent when it counts, and an epoch's value is the
\* middle of what a quorum of nodes that meets every other quorum has sent.
OracleSafe ==
  /\ OracleTypeOK
  /\ KycIsLatest
  /\ ReadingCountedOnce
  /\ QuorumsMeet
  /\ ReadingAgeIsBounded
  /\ MedianIsMiddle
=============================================================================
