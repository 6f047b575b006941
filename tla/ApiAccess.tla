----------------------------- MODULE ApiAccess ------------------------------
(***************************************************************************)
(* Layer 5 off chain: what stands before every route of the settlement     *)
(* API.  A request is answered by the preflight rule, counted in the       *)
(* bucket of its address, checked for the key, and only then routed.       *)
(*                                                                         *)
(* One bucket counts reads and writes alike, and counts a request it       *)
(* refuses too; the limit it is compared with is the one of the request,   *)
(* by its method, whatever its route.  The buckets are in memory.          *)
(* Times are in ticks, Window of them to a bucket's minute.  What a route  *)
(* does is in Settlement, BridgeWatcher and AuditStream.                   *)
(***************************************************************************)
EXTENDS Naturals, Functions

CONSTANTS
  Clients,      \* addresses, as clientIp tells them apart
  ReadLimit, WriteLimit,
  Window,       \* WINDOW_MS in ticks
  Quiet

ASSUME AccessAssumption ==
  {ReadLimit, WriteLimit, Window} \subseteq Nat \ {0}

VARIABLES
  keySet, publicRead,   \* SETTLEMENT_API_KEY, SETTLEMENT_API_PUBLIC_READ
  count,       \* Bucket.count, up to the first value above every limit
  left,        \* ticks until Bucket.resetAt; 0 if the bucket is over or new
  last,        \* the request answered last, or Quiet since the last tick
  asked,       \* requests of this process in each of the last Window ticks; history
  admitted     \* those the limit let through, by kind; history

accessSettings == <<keySet, publicRead>>
accessVars == <<accessSettings, count, left, last, asked, admitted>>

Ticks == 0 .. Window - 1
Kinds == {"read", "write"}

\* Two routes stand for all: what stands before them sees only the method.
Routes == {"audit", "process"}
Answers == {"no_content", "rate_limit_exceeded", "unauthorized", "ok", "not_found"}

\* What is served, by the kind of its method; a GET of the one or a POST of the
\* other is of a route that is not there.
Served == {<<"read", "audit">>, <<"write", "process">>}

\* Limit of a check that does not tell writes from reads.
LimitRead(kind) == ReadLimit

\* Writes and reads have limits of their own, and one bucket.
Limit(kind) == IF kind = "write" THEN WriteLimit ELSE ReadLimit

AboveLimits == (IF ReadLimit > WriteLimit THEN ReadLimit ELSE WriteLimit) + 1

Total(f) == SumFunctionOnSet(f, Ticks)

AccessTypeOK ==
  /\ {keySet, publicRead} \subseteq BOOLEAN
  /\ count \in [Clients -> 0 .. AboveLimits]
  /\ left \in [Clients -> 0 .. Window]
  /\ last \in {Quiet} \cup
       [client : Clients, kind : Kinds \cup {"preflight"}, answer : Answers]
  /\ asked \in [Clients -> [Ticks -> 0 .. AboveLimits]]
  /\ admitted \in [Clients -> [Kinds -> [Ticks -> 0 .. AboveLimits]]]
  /\ \A c \in Clients : left[c] > 0 => count[c] > 0

AccessInit ==
  /\ keySet \in BOOLEAN /\ publicRead \in BOOLEAN
  /\ count = [c \in Clients |-> 0]
  /\ left = [c \in Clients |-> 0]
  /\ last = Quiet
  /\ asked = [c \in Clients |-> [t \in Ticks |-> 0]]
  /\ admitted = [c \in Clients |-> [k \in Kinds |-> [t \in Ticks |-> 0]]]

-----------------------------------------------------------------------------

Capped(n) == IF n > AboveLimits THEN AboveLimits ELSE n

\* checkRateLimit counts the request, in a new bucket if the old is over.
Count(c) == IF left[c] = 0 THEN 1 ELSE Capped(count[c] + 1)

Left(c) == IF left[c] = 0 THEN Window ELSE left[c]

\* A key is asked for on writes, and on reads unless those are public.
NeedsAuth(kind) == kind = "write" \/ (keySet /\ ~publicRead)

\* A key is never asked for if none is set.
Refuses(kind, key) == NeedsAuth(kind) /\ keySet /\ ~key

Routed(kind, route) == IF <<kind, route>> \in Served THEN "ok" ELSE "not_found"

\* What the request is answered: first the limit, then the key, then the route.
Answer(c, kind, route, key) ==
  IF Count(c) > Limit(kind) THEN "rate_limit_exceeded"
  ELSE IF Refuses(kind, key) THEN "unauthorized"
  ELSE Routed(kind, route)

\* A preflight is answered before the limit and the key are looked at.
Preflight(c) ==
  /\ last' = [client |-> c, kind |-> "preflight", answer |-> "no_content"]
  /\ UNCHANGED <<accessSettings, count, left, asked, admitted>>

Request(c, kind, route, key) ==
  /\ count' = [count EXCEPT ![c] = Count(c)]
  /\ left' = [left EXCEPT ![c] = Left(c)]
  /\ last' = [client |-> c, kind |-> kind, answer |-> Answer(c, kind, route, key)]
  /\ asked' = [asked EXCEPT ![c][0] = Capped(@ + 1)]
  /\ admitted' = IF Count(c) > Limit(kind) THEN admitted
                 ELSE [admitted EXCEPT ![c][kind][0] = Capped(@ + 1)]
  /\ UNCHANGED accessSettings

\* The histories of a tick further on.
Later(f) == [t \in Ticks |-> IF t = 0 THEN 0 ELSE f[t - 1]]

AccessTick ==
  /\ left' = [c \in Clients |-> IF left[c] = 0 THEN 0 ELSE left[c] - 1]
  /\ asked' = [c \in Clients |-> Later(asked[c])]
  /\ admitted' = [c \in Clients |-> [k \in Kinds |-> Later(admitted[c][k])]]
  /\ last' = Quiet
  /\ UNCHANGED <<accessSettings, count>>

\* A new process has empty buckets.
RestartAccess ==
  /\ count' = [c \in Clients |-> 0]
  /\ left' = [c \in Clients |-> 0]
  /\ last' = Quiet
  /\ asked' = [c \in Clients |-> [t \in Ticks |-> 0]]
  /\ admitted' = [c \in Clients |-> [k \in Kinds |-> [t \in Ticks |-> 0]]]
  /\ UNCHANGED accessSettings

AccessNext ==
  \/ AccessTick \/ RestartAccess
  \/ \E c \in Clients : Preflight(c)
  \/ \E c \in Clients, kind \in Kinds, route \in Routes, key \in BOOLEAN :
       Request(c, kind, route, key)

AccessSpec == AccessInit /\ [][AccessNext]_accessVars

-----------------------------------------------------------------------------
(* Properties *)

\* A client gets twice its limit in some minutes, and never more from one process:
\* two buckets meet in any minute, and checkRateLimit lets at most one limit of
\* writes through in each, however many reads share the bucket, and at most one
\* limit of reads.
SlidingLimits ==
  \A c \in Clients :
    /\ Total(admitted[c]["write"]) <= 2 * WriteLimit
    /\ Total(admitted[c]["read"]) <= 2 * ReadLimit

\* A request is refused for the limit only if its own client sent this process
\* more requests than the limit of its kind in the minute that ends with it: reads
\* count against writes, but no request of another address and none of an older
\* minute counts.
RefusedIsOverLimit ==
  last # Quiet /\ last.answer = "rate_limit_exceeded" =>
    Total(asked[last.client]) > Limit(last.kind)

\* A client gets no more than two limits of a process in any minute, and is refused
\* only for requests of its own beyond one.
AccessSafe == AccessTypeOK /\ SlidingLimits /\ RefusedIsOverLimit
=============================================================================
