------------------------------ MODULE VaaClient ------------------------------
(***************************************************************************)
(* The Wormhole client of layer 5.                                         *)
(*                                                                         *)
(* One counter serves two purposes: publishMessage hands out the number    *)
(* after it, and checkVaaSequence moves it up to the sequence of a signed  *)
(* VAA that was fetched.  Fetches overlap and are answered in any order,   *)
(* and the fetch of a bridged message waits for a time-lock only when it   *)
(* is asked for through awaitVaaWithTimelock; the bridge watcher asks      *)
(* directly.  A restart forgets the counter.                               *)
(*                                                                         *)
(* External: the chain's own sequence, the guardians who sign, Wormholescan*)
(* and time.  Whether a VAA is stale is returned and used by no caller.    *)
(***************************************************************************)
EXTENDS Naturals, Sequences, FiniteSets

CONSTANTS
  MaxSequence,   \* bounds the chain's sequence and the client's own
  Timelock,      \* BRIDGE_TIMELOCK_MS, in ticks
  MaxTime,       \* bounds the time
  Fetches        \* fetches under way at once; bounds them

ASSUME VaaAssumption == {MaxSequence, Timelock, MaxTime} \subseteq Nat

Chain == 1 .. MaxSequence

VARIABLES
  lastSequence,  \* of the client
  handed,        \* numbers publishMessage handed out since the start, in order
  emitted,       \* chain's sequence so far
  startedAt,     \* when each message was bridged
  signed,        \* messages with a signed VAA
  now,
  fetch,         \* each fetch: free, or what it asks for and through what
  got,           \* VAAs awaitVaaWithTimelock returned: sequence, and when; history
  seen           \* sequences of VAAs fetched since the start; history

clientVars == <<lastSequence, handed, fetch, got, seen>>
worldVars == <<emitted, startedAt, signed, now>>
vaaVars == <<clientVars, worldVars>>

Free == [sequence |-> 0, through |-> "none"]

VaaTypeOK ==
  /\ lastSequence \in 0 .. 2 * MaxSequence
  /\ \A i \in DOMAIN handed : handed[i] \in 1 .. 2 * MaxSequence
  /\ emitted \in 0 .. MaxSequence
  /\ startedAt \in [Chain -> 0 .. MaxTime]
  /\ signed \subseteq 1 .. emitted
  /\ now \in 0 .. MaxTime
  /\ \A f \in Fetches : fetch[f] # Free =>
       fetch[f].sequence \in Chain /\ fetch[f].through \in {"await", "direct"}
  /\ \A g \in got : g.sequence \in signed /\ g.at <= now
  /\ seen \subseteq signed

VaaInit ==
  /\ lastSequence = 0 /\ handed = <<>>
  /\ emitted = 0 /\ startedAt = [s \in Chain |-> 0] /\ signed = {} /\ now = 0
  /\ fetch = [f \in Fetches |-> Free] /\ got = {} /\ seen = {}

-----------------------------------------------------------------------------
(* The world.                                                              *)

Bridge ==
  /\ emitted < MaxSequence
  /\ emitted' = emitted + 1
  /\ startedAt' = [startedAt EXCEPT ![emitted + 1] = now]
  /\ UNCHANGED <<signed, now, clientVars>>

Sign(s) ==
  /\ s \in (1 .. emitted) \ signed
  /\ signed' = signed \cup {s}
  /\ UNCHANGED <<emitted, startedAt, now, clientVars>>

Tick ==
  /\ now < MaxTime /\ now' = now + 1
  /\ UNCHANGED <<emitted, startedAt, signed, clientVars>>

-----------------------------------------------------------------------------
(* The client.                                                             *)

NextSequence == lastSequence + 1

publishMessage ==
  /\ Len(handed) < MaxSequence
  /\ handed' = Append(handed, lastSequence + 1)
  /\ lastSequence' = NextSequence
  /\ UNCHANGED <<fetch, got, seen, worldVars>>

\* checkVaaSequence that follows whatever comes in.
FollowsIncoming(last, incoming) == incoming

\* What is not newer than the last is stale, and leaves it.
checkVaaSequence(last, incoming) == IF incoming <= last THEN last ELSE incoming

timelockRemainingMs(started) ==
  LET elapsed == now - started IN IF elapsed >= Timelock THEN 0 ELSE Timelock - elapsed

Ask(f, s, through) ==
  /\ fetch[f] = Free
  /\ fetch' = [fetch EXCEPT ![f] = [sequence |-> s, through |-> through]]
  /\ UNCHANGED <<lastSequence, handed, got, seen, worldVars>>

fetchSignedVaa(f, s) == Ask(f, s, "direct")

\* While the time-lock runs it throws, and nothing is asked.
awaitVaaWithTimelock(f, s) ==
  /\ s <= emitted
  /\ timelockRemainingMs(startedAt[s]) = 0
  /\ Ask(f, s, "await")

IsSigned(s) == s \in signed

\* Not found, not signed, or an error: nothing changes.
NoVaa(f) ==
  /\ fetch[f] # Free
  /\ fetch' = [fetch EXCEPT ![f] = Free]
  /\ UNCHANGED <<lastSequence, handed, got, seen, worldVars>>

Vaa(f) ==
  LET s == fetch[f].sequence
  IN  /\ fetch[f] # Free /\ IsSigned(s)
      /\ lastSequence' = checkVaaSequence(lastSequence, s)
      /\ got' = got \cup {[sequence |-> s, at |-> now] : w \in {"await"} \cap {fetch[f].through}}
      /\ seen' = seen \cup {s}
      /\ fetch' = [fetch EXCEPT ![f] = Free]
      /\ UNCHANGED <<handed, worldVars>>

Restart ==
  /\ lastSequence' = 0 /\ handed' = <<>> /\ seen' = {}
  /\ fetch' = [f \in Fetches |-> Free]
  /\ UNCHANGED <<got, worldVars>>

VaaNext ==
  \/ Bridge \/ Tick \/ \E s \in Chain : Sign(s)
  \/ publishMessage \/ Restart
  \/ \E f \in Fetches, s \in Chain : fetchSignedVaa(f, s) \/ awaitVaaWithTimelock(f, s)
  \/ \E f \in Fetches : NoVaa(f) \/ Vaa(f)

VaaSpec == VaaInit /\ [][VaaNext]_vaaVars

-----------------------------------------------------------------------------
(* Properties.                                                             *)

\* In whatever order signed VAAs are answered, and however publications come
\* between, one start of the client hands out no number twice, nor one that
\* it has seen on a VAA (wormholeBridgeClient.ts:29, :36).
NumbersAreFresh ==
  /\ \A i, j \in DOMAIN handed : i < j => handed[i] < handed[j]
  /\ \A i \in DOMAIN handed : handed[i] <= lastSequence
  /\ \A s \in seen : s <= lastSequence

\* A message's VAA comes through awaitVaaWithTimelock no sooner than the
\* time-lock after the message was bridged (wormholeBridgeClient.ts:78).
AwaitedAfterTimelock ==
  \A g \in got : g.at >= startedAt[g.sequence] + Timelock

\* Sequence numbers are handed out once, and awaited VAAs respect the time-lock.
VaaSafe == VaaTypeOK /\ NumbersAreFresh /\ AwaitedAfterTimelock
=============================================================================
