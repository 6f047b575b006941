----------------------------- MODULE Dashboard ------------------------------
(***************************************************************************)
(* The browser dashboard: what its pages show of the settlement API.  A    *)
(* page mounts queries; a query fetches when it is mounted without fresh   *)
(* data, when the window gets the focus, on its timer, or when a mutation  *)
(* of the user's succeeds and invalidates it.  The user leaves pages while *)
(* fetches and mutations are under way, and neither is given up.           *)
(*                                                                         *)
(* The cache of queries is the library's (react-query 5), modelled from    *)
(* how the hooks use it: one fetch of a query at a time, data fresh for    *)
(* ten seconds, one retry of a fetch that throws; an invalidation starts a *)
(* fetch that is under way again if the query is mounted and has data.     *)
(* The API is reduced to what the pages show of it: is it there, are its   *)
(* gates ready, how many audit rows it has.                                *)
(***************************************************************************)
EXTENDS Naturals, Sequences

CONSTANTS
  Pages,        \* the pages the user visits
  MaxAuditRows,      \* bounds the audit rows
  NoData

ASSUME DashboardAssumption ==
  /\ Pages \subseteq {"dashboard", "audit", "status", "operations"} /\ Pages # {}
  /\ MaxAuditRows \in Nat

VARIABLES
  reachable, ready, auditRows,   \* the API: reachable, its gates, its audit rows
  page,
  fetches,       \* each query's fetch: its next route, or 0; what it got so far
  data,        \* what each query shows
  failed,      \* isError of each query
  fresh,       \* data not invalidated and less than staleTime old
  mutation,    \* the user's mutations: idle, sent, applied, refused
  due,         \* rows after the user's own last success; history
  older        \* a fetch older than that success was not given up; history

apiState == <<reachable, ready, auditRows>>
cache == <<fetches, data, failed, fresh, older>>
dashboardVars == <<apiState, page, cache, mutation, due>>

Mounted(p) ==
  CASE p = "dashboard" -> {"pipeline-status", "gates"}
    [] p = "audit" -> {"audit"}
    [] p = "status" -> {"status-health", "status-gates", "status-audit"}
    [] OTHER -> {}

Queries == UNION {Mounted(p) : p \in Pages}

\* The routes a query asks, one after the other.
RoutesOf(q) ==
  CASE q = "pipeline-status" -> <<"health", "gates", "audit">>
    [] q = "status-health" -> <<"health">>
    [] q \in {"gates", "status-gates"} -> <<"gates">>
    [] OTHER -> <<"audit">>

\* What the queries start from: no health, gates neither ready nor blocked.
Blank == [health |-> FALSE, ready |-> "unknown", count |-> 0, met503 |-> FALSE]
Shown == [health : BOOLEAN, ready : {"unknown", "ready", "blocked"},
          count : 0 .. MaxAuditRows, met503 : BOOLEAN]

\* undefined is no answer of the API.
ASSUME NoDataAssumption == NoData \notin Shown

NoFetch == [at |-> 0, again |-> FALSE, thrown |-> FALSE, got |-> Blank]
Started == [NoFetch EXCEPT !.at = 1]
Fetching(q) == fetches[q].at # 0
FetchAnswered(q) == fetches[q].thrown \/ fetches[q].at > Len(RoutesOf(q))

DashboardTypeOK ==
  /\ {reachable, ready} \subseteq BOOLEAN /\ auditRows \in 0 .. MaxAuditRows
  /\ page \in Pages
  /\ \A q \in Queries :
       /\ fetches[q].at \in 0 .. Len(RoutesOf(q)) + 1
       /\ fetches[q].got \in Shown
       /\ data[q] \in Shown \cup {NoData}
       /\ fresh[q] => data[q] # NoData
       /\ q = "pipeline-status" => ~failed[q]
  /\ mutation \in [{"process", "dry-run"} -> {"idle", "sent", "applied", "refused"}]
  /\ due \in 0 .. auditRows /\ older \in BOOLEAN

DashboardInit ==
  /\ reachable \in BOOLEAN /\ ready \in BOOLEAN /\ auditRows = 0
  /\ page \in Pages
  /\ fetches = [q \in Queries |-> IF q \in Mounted(page) THEN Started ELSE NoFetch]
  /\ data = [q \in Queries |-> NoData]
  /\ failed = [q \in Queries |-> FALSE]
  /\ fresh = [q \in Queries |-> FALSE]
  /\ mutation = [m \in {"process", "dry-run"} |-> "idle"]
  /\ due = 0 /\ older = FALSE

-----------------------------------------------------------------------------
(* The API and the other users *)

ApiChanges ==
  /\ \/ /\ reachable' = ~reachable
        /\ UNCHANGED <<ready, auditRows>>
     \/ /\ ready' = ~ready
        /\ UNCHANGED <<reachable, auditRows>>
     \/ /\ reachable /\ auditRows < MaxAuditRows
        /\ auditRows' = auditRows + 1 /\ UNCHANGED <<reachable, ready>>
  /\ UNCHANGED <<page, cache, mutation, due>>

-----------------------------------------------------------------------------
(* Queries *)

\* Fetches that are started: those under way go on.
StartAll(qs) ==
  /\ fetches' = [q \in Queries |-> IF q \in qs /\ ~Fetching(q) THEN Started ELSE fetches[q]]
  /\ older' = (older /\ ~("audit" \in qs /\ ~Fetching("audit")))
  /\ UNCHANGED <<data, failed, fresh>>

\* request throws on every answer that is not ok; /v1/gates answers 503 if
\* the gates are not ready.
Throws(route) == ~reachable \/ (route = "gates" /\ ~ready)

\* One route of a query is answered.
Got(got, route) ==
  CASE route = "health" -> [got EXCEPT !.health = TRUE]
    [] route = "gates" -> [got EXCEPT !.ready = "ready"]
    [] route = "audit" -> [got EXCEPT !.count = auditRows]

Serve(q) ==
  /\ Fetching(q) /\ ~FetchAnswered(q)
  /\ LET route == RoutesOf(q)[fetches[q].at] IN
     fetches' = [fetches EXCEPT ![q] =
       IF Throws(route)
       THEN [@ EXCEPT !.thrown = TRUE, !.got.met503 = reachable]
       ELSE [@ EXCEPT !.at = fetches[q].at + 1, !.got = Got(fetches[q].got, route)]]
  /\ UNCHANGED <<apiState, page, data, failed, fresh, older, mutation, due>>

\* The status of the pipeline catches the error of its routes.
Caught(q) == q = "pipeline-status"

Show(q) ==
  /\ FetchAnswered(q)
  /\ IF fetches[q].thrown /\ ~Caught(q)
     THEN IF fetches[q].again
          THEN /\ fetches' = [fetches EXCEPT ![q] = NoFetch]
               /\ failed' = [failed EXCEPT ![q] = TRUE]
               /\ UNCHANGED <<data, fresh>>
          ELSE /\ fetches' = [fetches EXCEPT ![q] = [Started EXCEPT !.again = TRUE]]
               /\ UNCHANGED <<data, failed, fresh>>
     ELSE /\ fetches' = [fetches EXCEPT ![q] = NoFetch]
          /\ data' = [data EXCEPT ![q] = fetches[q].got]
          /\ failed' = [failed EXCEPT ![q] = FALSE]
          /\ fresh' = [fresh EXCEPT ![q] = TRUE]
  /\ UNCHANGED <<apiState, page, older, mutation, due>>

\* Data gets old; a mounted query is not fetched for that.
Age(q) ==
  /\ fresh[q]
  /\ fresh' = [fresh EXCEPT ![q] = FALSE]
  /\ UNCHANGED <<apiState, page, fetches, data, failed, older, mutation, due>>

Stale(qs) == {q \in qs : ~fresh[q]}

GoTo(p) ==
  /\ p # page /\ page' = p
  /\ StartAll(Stale(Mounted(p)))
  /\ UNCHANGED <<apiState, mutation, due>>

Focus ==
  /\ StartAll(Stale(Mounted(page)))
  /\ UNCHANGED <<apiState, page, mutation, due>>

\* Interval that fires until the query has data.
IntervalOnce ==
  /\ page = "dashboard" /\ data["pipeline-status"] = NoData
  /\ StartAll({"pipeline-status"})
  /\ UNCHANGED <<apiState, page, mutation, due>>

\* The only query with a timer is the status of the pipeline.
RefetchInterval ==
  /\ page = "dashboard"
  /\ StartAll({"pipeline-status"})
  /\ UNCHANGED <<apiState, page, mutation, due>>

\* The button of the audit page, disabled while its query is fetching.
Refresh ==
  /\ page = "audit" /\ ~Fetching("audit")
  /\ StartAll({"audit"})
  /\ UNCHANGED <<apiState, page, mutation, due>>

-----------------------------------------------------------------------------
(* Mutations *)

RunMutation(m) ==
  /\ page = "operations" /\ mutation[m] \notin {"sent", "applied"}
  /\ mutation' = [mutation EXCEPT ![m] = "sent"]
  /\ UNCHANGED <<apiState, page, cache, due>>

\* A settlement appends its row and may still fail after it; a dry run
\* appends none.
ServeMutation(m) ==
  /\ mutation[m] = "sent"
  /\ \/ /\ reachable /\ m = "process" /\ auditRows < MaxAuditRows
        /\ auditRows' = auditRows + 1
        /\ \/ mutation' = [mutation EXCEPT ![m] = "applied"]
           \/ mutation' = [mutation EXCEPT ![m] = "refused"]
     \/ /\ reachable /\ m = "dry-run"
        /\ mutation' = [mutation EXCEPT ![m] = "applied"] /\ UNCHANGED auditRows
     \/ /\ mutation' = [mutation EXCEPT ![m] = "refused"]
        /\ UNCHANGED auditRows
  /\ UNCHANGED <<reachable, ready, page, cache, due>>

\* Invalidated that leaves the trail's query out.
InvalidatedStatus(m) == IF m = "process" THEN {"pipeline-status"} ELSE {}

\* The queries a success invalidates.
Invalidated(m) == IF m = "process" THEN {"audit", "pipeline-status"} ELSE {"audit"}

\* invalidateQueries: mounted queries fetch, and one under way starts again
\* only if the query has data; the others are fetched when they are mounted.
Succeed(m) ==
  LET qs == Invalidated(m) \cap Queries
      Again(q) == q \in Mounted(page) /\ (~Fetching(q) \/ data[q] # NoData) IN
  /\ mutation[m] = "applied"
  /\ mutation' = [mutation EXCEPT ![m] = "idle"]
  /\ fresh' = [q \in Queries |-> fresh[q] /\ q \notin qs]
  /\ fetches' = [q \in Queries |-> IF q \in qs /\ Again(q) THEN Started ELSE fetches[q]]
  /\ due' = IF m = "process" THEN auditRows ELSE due
  /\ older' = /\ "audit" \in Queries /\ Fetching("audit") /\ ~Again("audit")
              /\ older \/ m = "process"
  /\ UNCHANGED <<apiState, page, data, failed>>

DashboardNext ==
  \/ ApiChanges \/ Focus \/ RefetchInterval \/ Refresh
  \/ \E q \in Queries : Serve(q) \/ Show(q) \/ Age(q)
  \/ \E p \in Pages : GoTo(p)
  \/ \E m \in {"process", "dry-run"} : RunMutation(m) \/ ServeMutation(m) \/ Succeed(m)

DashboardSpec == DashboardInit /\ [][DashboardNext]_dashboardVars

\* Requests end and the timer of the mounted query fires; nobody has to
\* change the page or come back to the window.
DashboardFairSpec ==
  /\ DashboardSpec
  /\ \A q \in Queries : WF_dashboardVars(Serve(q)) /\ WF_dashboardVars(Show(q))
  /\ WF_dashboardVars(RefetchInterval)

-----------------------------------------------------------------------------
(* Properties *)

\* The audit page shows the row of the user's own successful settlement as
\* soon as it is not loading, unless a fetch of the trail that is older than
\* the success was still under way then: its late answer counts as fresh.
OwnSuccessIsShown ==
  page = "audit" /\ ~Fetching("audit") /\ ~failed["audit"] /\ ~older
    => data["audit"] # NoData /\ data["audit"].count >= due

\* The overview comes to show every row while the user stays on it and the
\* API is reachable with its gates ready.
OverviewCatchesUp ==
  <>[](page = "dashboard" /\ reachable /\ ready)
    => <>(data["pipeline-status"] # NoData /\ data["pipeline-status"].count = auditRows)

\* A success of one's own is shown, whichever fetch ends first.
DashboardSafe == DashboardTypeOK /\ OwnSuccessIsShown
=============================================================================
