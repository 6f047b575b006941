---------------------------- MODULE CarbonBridge ----------------------------
(***************************************************************************)
(* Layer 5 on chain: carbon_bridge, which exports a batch as a renewable   *)
(* energy certificate.  bridge_rec counts messages in the nonce of a       *)
(* WormholeState; bridge_rec_core takes the number Wormhole gives the      *)
(* emitter.  Both compare their number with the last one recorded in the   *)
(* BridgeWhitelist, and a stale number is reported, not refused.           *)
(*                                                                         *)
(* Anybody may create emitters, WormholeStates and whitelists.  The model  *)
(* has several of the first two and the deployment's whitelist; a ticket   *)
(* of another whitelist is no ticket here.  A batch leaves the layer 3     *)
(* ledger, which the module extends, in one of the two calls, or in a call *)
(* of consume_batch_for_bridge that its holder makes himself.              *)
(***************************************************************************)
EXTENDS EnergyToken

CONSTANTS
  Chains,        \* Wormhole chain ids
  Emitters,      \* EmitterCap objects, each with a sequence of its own
  Wormholes,     \* WormholeState objects
  MaxSequence    \* bounds nonces and the emitters' sequences

\* source_hydro(): grid energy is not eligible.
MaxRenewableSource == 2

ASSUME BridgeAssumption == MaxSequence \in Nat

VARIABLES
  chains,        \* BridgeWhitelist.chains
  lastVaa,       \* BridgeWhitelist.last_vaa_sequence
  nonce,         \* WormholeState.nonce, of each
  emitterSeq,    \* EmitterCap.sequence
  tickets,       \* BridgeTickets of the whitelist, with the stale flag of the
                 \* event beside them; history, never read by the code
  consumed       \* batches that left without such a ticket; history

bridgeVars == <<chains, lastVaa, nonce, emitterSeq, tickets, consumed>>
bridgeAllVars == <<vars, bridgeVars>>

BridgeTickets ==
  [batch : Nat \ {0}, chain : Chains, sequence : 0 .. MaxSequence, stale : BOOLEAN]

BridgeTypeOK ==
  /\ chains \subseteq Chains
  /\ lastVaa \in 0 .. MaxSequence
  /\ nonce \in [Wormholes -> 0 .. MaxSequence]
  /\ emitterSeq \in [Emitters -> 0 .. MaxSequence]
  /\ tickets \subseteq BridgeTickets
  /\ consumed \subseteq Nat \ {0}

BridgeInit ==
  /\ Init
  /\ chains = {}
  /\ lastVaa = 0
  /\ nonce = [w \in Wormholes |-> 0]
  /\ emitterSeq = [e \in Emitters |-> 0]
  /\ tickets = {}
  /\ consumed = {}

WhitelistChain(chain) ==
  /\ chains' = chains \cup {chain}
  /\ UNCHANGED <<vars, lastVaa, nonce, emitterSeq, tickets, consumed>>

RecordLatest(incoming) == lastVaa' = incoming

\* record_vaa_sequence: only a greater number replaces the recorded one.
Stale(incoming) == incoming <= lastVaa
RecordVaaSequence(incoming) == lastVaa' = IF Stale(incoming) THEN lastVaa ELSE incoming

Renewable(b) == batches[b].source <= MaxRenewableSource

Eligible(b) == Renewable(b) /\ Cleared(batches[b].producer)

LeaveWithCoins(b) ==
  /\ Retire(b, "bridged")
  /\ BurnCoins(batches[b].holder, Amount(batches[b].reading))
  /\ UNCHANGED <<now, paused, meter, kyc, outside>>

\* The certificate leaves; the coins minted with it stay in circulation.
LeaveLedger(b) == ConsumeBatchForBridge(b)

IssueTicket(b, chain, sequence, incoming) ==
  tickets' = tickets \cup
    {[batch |-> b, chain |-> chain, sequence |-> sequence, stale |-> Stale(incoming)]}

\* The nonce of bridge_rec, and use_sequence, which hands out the emitter's
\* counter and increments it.
TakeNonce(w) ==
  /\ nonce[w] < MaxSequence
  /\ nonce' = [nonce EXCEPT ![w] = @ + 1]
  /\ UNCHANGED emitterSeq

TakeSequence(e) ==
  /\ emitterSeq[e] < MaxSequence
  /\ emitterSeq' = [emitterSeq EXCEPT ![e] = @ + 1]
  /\ UNCHANGED nonce

\* The ticket carries the recorded sequence, not the message's own.
BridgeRec(b, chain, w) ==
  LET incoming == nonce[w] + 1 IN
  /\ Eligible(b)
  /\ chain \in chains
  /\ LeaveLedger(b)
  /\ RecordVaaSequence(incoming)
  /\ TakeNonce(w)
  /\ IssueTicket(b, chain, lastVaa', incoming)
  /\ UNCHANGED <<chains, consumed>>

BridgeRecCore(b, chain, e) ==
  LET incoming == emitterSeq[e] IN
  /\ Eligible(b)
  /\ chain \in chains
  /\ TakeSequence(e)
  /\ LeaveLedger(b)
  /\ RecordVaaSequence(incoming)
  /\ IssueTicket(b, chain, incoming, incoming)
  /\ UNCHANGED <<chains, consumed>>

Export ==
  \E b \in DOMAIN batches, chain \in Chains :
    \/ \E w \in Wormholes : BridgeRec(b, chain, w)
    \/ \E e \in Emitters : BridgeRecCore(b, chain, e)

\* Either call with a whitelist of the caller's own: only the counter is shared.
BridgeElsewhere(b) ==
  /\ Eligible(b)
  /\ LeaveLedger(b)
  /\ (\E w \in Wormholes : TakeNonce(w)) \/ (\E e \in Emitters : TakeSequence(e))
  /\ consumed' = consumed \cup {b}
  /\ UNCHANGED <<chains, lastVaa, tickets>>

\* prepare_rec_message and publish_rec_message, called by an emitter's owner for
\* a batch that stays: the emitter's number moves on.
PublishRecMessage(b, e) ==
  /\ Exists(b)
  /\ Renewable(b)
  /\ TakeSequence(e)
  /\ UNCHANGED <<vars, chains, lastVaa, tickets, consumed>>

\* consume_batch_for_bridge, called by the batch's holder: no chain, no clearance
\* and no ticket.
ConsumeDirectly(b) ==
  /\ LeaveLedger(b)
  /\ consumed' = consumed \cup {b}
  /\ UNCHANGED <<chains, lastVaa, nonce, emitterSeq, tickets>>

DirectNext ==
  \E b \in DOMAIN batches :
    \/ ConsumeDirectly(b)
    \/ BridgeElsewhere(b)
    \/ \E e \in Emitters : PublishRecMessage(b, e)

CarbonNext ==
  \/ LedgerNext /\ UNCHANGED bridgeVars
  \/ \E chain \in Chains : WhitelistChain(chain)
  \/ Export
  \/ DirectNext

CarbonSpec == BridgeInit /\ [][CarbonNext]_bridgeAllVars

-----------------------------------------------------------------------------
(* Properties                                                              *)

\* A consumer of the tickets can tell them apart: two tickets carry the same
\* sequence only if a VAASequenceStale event came with one of them, even when
\* both calls, several emitters and several counters share the whitelist.
SequenceReuseIsReported ==
  \A t, u \in tickets :
    (t.sequence = u.sequence /\ ~t.stale /\ ~u.stale) => t = u

\* Why: no ticket is ahead of the recorded sequence, and every ticket that is
\* not stale moved it.
RecordedSequenceLeads == \A t \in tickets : t.sequence <= lastVaa

\* The inductive form of SequenceReuseIsReported.
SequenceInv == RecordedSequenceLeads /\ SequenceReuseIsReported

\* A ticket stands for a batch of its own that is off the ledger for good: none
\* is exported twice, none has a ticket and left by its holder's own call or over
\* another whitelist, and what has left the ledger has left it in one of these ways.
OneTicketPerExport ==
  /\ {t.batch : t \in tickets} \cup consumed = {b \in Batches : batches[b].state = "bridged"}
  /\ \A t \in tickets : t.batch \notin consumed
  /\ \A t, u \in tickets : t.batch = u.batch => t = u

\* With the bridge the ledger still behaves as EnergyToken describes.
CarbonRefinesToken == Spec

\* Each ticket has a batch of its own that left the ledger, a batch leaves without
\* one only by its holder's own call or over another whitelist, and the sequence
\* numbers tell the tickets apart or the reuse is on record (carbon_bridge.move).
ExportsSafe ==
  /\ BridgeTypeOK
  /\ OneTicketPerExport
  /\ RecordedSequenceLeads
  /\ SequenceReuseIsReported
=============================================================================
