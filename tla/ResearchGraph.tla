---------------------------- MODULE ResearchGraph ---------------------------
(***************************************************************************)
(* PgResearchGraphStore (crates/infra/src/research_graph.rs) over the      *)
(* tables experiments and runs (migrations/0002_research_graph.sql), and   *)
(* the cost-per-run projection it recomputes from cost_events.             *)
(*                                                                         *)
(* Three kinds of callers run concurrently.  A delivery is a tracker       *)
(* record normalized by a connector (crates/research-graph/src/trackers)   *)
(* and passed to upsert_run.  A refresh is GET /runs/{id}/cost             *)
(* (crates/api/src/routes/research.rs): find_run, then                     *)
(* refresh_attributed_cost.  Cost batches land in cost_events as whole     *)
(* steps, which is what CostSpine implements.  Every transaction is READ   *)
(* COMMITTED: each statement sees what is committed when it starts, and a  *)
(* row that a transaction has written is locked until it ends.             *)
(***************************************************************************)
EXTENDS CostEvents

CONSTANTS
    Refs,             \* (external_source, external_id): the tracker's identity of a run
    Reports,          \* what a tracker says of a run: status, started_at, ended_at
    Invalid,          \* the reports that end before they start
    Trackers,         \* concurrent deliveries
    Refreshers,       \* concurrent calls of the cost endpoint
    TenantOf,         \* the tenant each of them acts for
    RunCurrency,      \* the currency connectors are configured with
    Batches,          \* cost batches
    MaxDeliveries,    \* bound: deliveries per tracker
    MaxRefreshes,     \* bound: calls per refresher
    MaxBatches        \* bound: cost batches

ASSUME ResearchGraphAssumption ==
    /\ Invalid \subseteq Reports
    /\ TenantOf \in [Trackers \union Refreshers -> Tenants]
    /\ RunCurrency \in Currencies
    /\ Batches \subseteq Seq(CostEvent)
    /\ MaxDeliveries \in Nat /\ MaxRefreshes \in Nat /\ MaxBatches \in Nat

VARIABLES
    experiment,       \* whether the connectors' experiment exists yet
    runs,             \* runs[<<tenant, ref>>]: the committed row, or None
    tracker,          \* tracker[d]: a delivery and its open transaction
    refresher,        \* refresher[r]: a call of the cost endpoint
    batches,          \* cost batches landed so far
    delivered,        \* history: the report last delivered successfully, per run
    told,             \* history: every answer given, with the run it is about
    stale             \* history: runs whose costs changed since the sum last stored was read

vars == <<cost_events, experiment, runs, tracker, refresher, batches, delivered, told, stale>>

RunKeys == Tenants \X Refs
Run == [id : Runs, report : Reports, attributed_cost : Int]

ASSUME NoneIsNoRun == None \notin Run

\* A delivery and a refresh that have not begun, and one that has ended.
NoDelivery == [phase |-> "idle", ref |-> None, report |-> None, id |-> None, answer |-> None, deliveries |-> 0]
NoRefresh == [phase |-> "idle", key |-> None, total |-> 0, row |-> None, current |-> FALSE, calls |-> 0]
Done(delivery) == [NoDelivery EXCEPT !.deliveries = delivery.deliveries]
Ended(refresh) == [NoRefresh EXCEPT !.calls = refresh.calls]

KeyOf(d) == <<TenantOf[d], tracker[d].ref>>

\* SELECT ... FROM runs WHERE id = $1, under the tenant's row-level security.
RunsWithId(tenant, id) ==
    {key \in RunKeys : key[1] = tenant /\ runs[key] # None /\ runs[key].id = id}

\* The committed or uncommitted ids: RunId::new() returns none of them.
FreshRuns == Runs \ ({runs[key].id : key \in {k \in RunKeys : runs[k] # None}}
                     \union {tracker[d].id : d \in {t \in Trackers : tracker[t].phase # "idle"}})

\* The open transactions that hold the lock on a row of runs.
Locked(key) ==
    \/ \E d \in Trackers : tracker[d].phase = "written" /\ KeyOf(d) = key
    \/ \E r \in Refreshers : refresher[r].phase = "written" /\ refresher[r].key = key

-----------------------------------------------------------------------------
(* Experiments and tracker deliveries. *)

upsert_experiment ==
    /\ ~experiment
    /\ experiment' = TRUE
    /\ UNCHANGED <<cost_events, runs, tracker, refresher, batches, delivered, told, stale>>

\* fetch_runs_since and normalize: a fresh RunId for every delivery.
Normalize(d) ==
    /\ tracker[d].phase = "idle"
    /\ tracker[d].deliveries < MaxDeliveries
    /\ \E ref \in Refs, report \in Reports, id \in FreshRuns :
          tracker' = [tracker EXCEPT ![d] = [phase |-> "normalized", ref |-> ref, report |-> report, id |-> id,
                                             answer |-> None, deliveries |-> tracker[d].deliveries + 1]]
    /\ UNCHANGED <<cost_events, experiment, runs, refresher, batches, delivered, told, stale>>

\* The constraints of the table runs: a run does not end before it starts, and
\* an inserted row refers to an experiment.
Rejected(d) ==
    \/ tracker[d].report \in Invalid
    \/ runs[KeyOf(d)] = None /\ ~experiment

\* What upsert_run answers when it finds the committed row old.
RunUpsert(old, d) ==
    IF old = None THEN [kind |-> "Inserted", id |-> tracker[d].id]
    ELSE [kind |-> IF old.report # tracker[d].report THEN "Updated" ELSE "Unchanged", id |-> old.id]

\* Mutant: a look-up that does not wait for a concurrent insert, then a write.
UpsertRunUnlocked(d) ==
    /\ tracker[d].phase = "normalized"
    /\ tracker' = [tracker EXCEPT ![d] = IF Rejected(d) THEN Done(@)
                      ELSE [@ EXCEPT !.phase = "written", !.answer = RunUpsert(runs[KeyOf(d)], d)]]
    /\ UNCHANGED <<cost_events, experiment, runs, refresher, batches, delivered, told, stale>>

\* INSERT ... ON CONFLICT ... DO UPDATE ... WHERE ... RETURNING, and the SELECT of
\* the id when the WHERE suppressed the update.  It waits for a transaction that
\* has written the same row.  A violated CHECK, or an insert whose experiment is
\* missing, ends the call with Backend.
UpsertRun(d) ==
    /\ tracker[d].phase = "normalized"
    /\ ~Locked(KeyOf(d))
    /\ tracker' = [tracker EXCEPT ![d] = IF Rejected(d) THEN Done(@)
                      ELSE [@ EXCEPT !.phase = "written", !.answer = RunUpsert(runs[KeyOf(d)], d)]]
    /\ UNCHANGED <<cost_events, experiment, runs, refresher, batches, delivered, told, stale>>

\* Mutant: the update also copies the delivery's zero attributed_cost.
WrittenResettingCost(d) ==
    [runs EXCEPT ![KeyOf(d)] = [id |-> tracker[d].answer.id, report |-> tracker[d].report,
                                attributed_cost |-> 0]]

\* What the statement writes: an existing row keeps its id and attributed_cost.
RunWritten(d) ==
    [runs EXCEPT ![KeyOf(d)] =
        IF @ = None THEN [id |-> tracker[d].id, report |-> tracker[d].report, attributed_cost |-> 0]
        ELSE [@ EXCEPT !.report = tracker[d].report]]

CommitRun(d) ==
    /\ tracker[d].phase = "written"
    /\ runs' = RunWritten(d)
    /\ tracker' = [tracker EXCEPT ![d] = Done(@)]
    /\ delivered' = [delivered EXCEPT ![KeyOf(d)] = tracker[d].report]
    /\ told' = told \union {<<KeyOf(d), d, tracker[d].answer>>}
    /\ UNCHANGED <<cost_events, experiment, refresher, batches, stale>>

\* The same, but the acknowledgement of COMMIT is lost: the caller sees Backend.
CommitRunLost(d) ==
    /\ tracker[d].phase = "written"
    /\ runs' = RunWritten(d)
    /\ tracker' = [tracker EXCEPT ![d] = Done(@)]
    /\ delivered' = [delivered EXCEPT ![KeyOf(d)] = tracker[d].report]
    /\ UNCHANGED <<cost_events, experiment, refresher, batches, told, stale>>

\* Any other database error: the transaction is rolled back.
DeliveryFails(d) ==
    /\ tracker[d].phase \in {"normalized", "written"}
    /\ tracker' = [tracker EXCEPT ![d] = Done(@)]
    /\ UNCHANGED <<cost_events, experiment, runs, refresher, batches, delivered, told, stale>>

-----------------------------------------------------------------------------
(* The cost endpoint. *)

\* find_run: NotFound ends the call.
FindRun(r) ==
    /\ refresher[r].phase = "idle"
    /\ refresher[r].calls < MaxRefreshes
    /\ \E id \in Runs :
          \/ /\ RunsWithId(TenantOf[r], id) = {}
             /\ refresher' = [refresher EXCEPT ![r].calls = @ + 1]
          \/ \E key \in RunsWithId(TenantOf[r], id) :
                refresher' = [refresher EXCEPT ![r].phase = "found", ![r].key = key,
                                               ![r].calls = @ + 1]
    /\ UNCHANGED <<cost_events, experiment, runs, tracker, batches, delivered, told, stale>>

\* The currency of the run, then the SUM: the statement that reads cost_events.
Sum(r) ==
    /\ refresher[r].phase = "found"
    /\ LET id == runs[refresher[r].key].id
       IN  refresher' = [refresher EXCEPT ![r].phase = "summed", ![r].current = TRUE,
              ![r].total = SumEffectiveCost(cost_events, TenantOf[r], id, RunCurrency)]
    /\ UNCHANGED <<cost_events, experiment, runs, tracker, batches, delivered, told, stale>>

\* Mutant: the row that find_run returned is written back as a whole.
UpdateUnlocked(r) ==
    /\ refresher[r].phase = "summed"
    /\ refresher' = [refresher EXCEPT ![r].phase = "written", ![r].row = runs[refresher[r].key]]
    /\ UNCHANGED <<cost_events, experiment, runs, tracker, batches, delivered, told, stale>>

\* UPDATE runs SET attributed_cost: waits for the lock.
Update(r) ==
    /\ refresher[r].phase = "summed"
    /\ ~Locked(refresher[r].key)
    /\ refresher' = [refresher EXCEPT ![r].phase = "written", ![r].row = runs[refresher[r].key]]
    /\ UNCHANGED <<cost_events, experiment, runs, tracker, batches, delivered, told, stale>>

CommitRefresh(r) ==
    /\ refresher[r].phase = "written"
    /\ runs' = [runs EXCEPT ![refresher[r].key] =
                   [refresher[r].row EXCEPT !.attributed_cost = refresher[r].total]]
    /\ refresher' = [refresher EXCEPT ![r] = Ended(@)]
    /\ stale' = IF refresher[r].current THEN stale \ {refresher[r].key} ELSE stale
    /\ UNCHANGED <<cost_events, experiment, tracker, batches, delivered, told>>

\* Any database error: the transaction is rolled back.
RefreshFails(r) ==
    /\ refresher[r].phase \in {"found", "summed", "written"}
    /\ refresher' = [refresher EXCEPT ![r] = Ended(@)]
    /\ UNCHANGED <<cost_events, experiment, runs, tracker, batches, delivered, told, stale>>

-----------------------------------------------------------------------------
(* Costs arriving from the providers. *)

CostLands ==
    /\ batches < MaxBatches
    /\ \E batch \in Batches :
          /\ SingleTenant(batch)
          /\ cost_events' = Upserted(cost_events, batch)
    /\ batches' = batches + 1
    /\ refresher' = [r \in Refreshers |-> [refresher[r] EXCEPT !.current = FALSE]]
    /\ stale' = RunKeys
    /\ UNCHANGED <<experiment, runs, tracker, delivered, told>>

-----------------------------------------------------------------------------
Init ==
    /\ cost_events = EmptyTable
    /\ experiment = FALSE
    /\ runs = [key \in RunKeys |-> None]
    /\ tracker = [d \in Trackers |-> NoDelivery]
    /\ refresher = [r \in Refreshers |-> NoRefresh]
    /\ batches = 0
    /\ delivered = [key \in RunKeys |-> None]
    /\ told = {}
    /\ stale = {}

Next ==
    \/ upsert_experiment
    \/ \E d \in Trackers : Normalize(d) \/ UpsertRun(d) \/ CommitRun(d) \/ CommitRunLost(d) \/ DeliveryFails(d)
    \/ \E r \in Refreshers : FindRun(r) \/ Sum(r) \/ Update(r) \/ CommitRefresh(r) \/ RefreshFails(r)
    \/ CostLands

Spec == Init /\ [][Next]_vars

-----------------------------------------------------------------------------
(* Properties. *)

\* However a webhook and a poll overlap, upsert_run gives one run one id: every
\* answer about a tracker record names the stored row, and at most one delivery
\* is told Inserted ("two deliveries of the same tracker record produce exactly
\* one `Inserted`", research-graph/src/store.rs).
OneRunPerTrackerRecord ==
    /\ \A a \in told : runs[a[1]].id = a[3].id
    /\ \A a, b \in told : (a[1] = b[1] /\ a[3].kind = "Inserted" /\ b[3].kind = "Inserted") => a = b

\* A refresh of the cost racing a tracker delivery never undoes it: the row
\* always carries the report whose transaction committed last, and a report the
\* constraints refuse leaves the one before it in place.
NoReportIsLost ==
    \A key \in RunKeys : runs[key] # None => /\ runs[key].report = delivered[key]
                                            /\ runs[key].report \notin Invalid

\* The stored projection is right once a refresh_attributed_cost whose SUM saw
\* every cost batch has committed and no other is running: it equals the sum of
\* the run's costs in its currency.  This is what "a projection - recomputed, never
\* authored - so running it twice is harmless" promises.
ProjectionIsCurrent ==
    (\A r \in Refreshers : refresher[r].phase = "idle") =>
        \A key \in RunKeys \ stale :
            runs[key] # None =>
                runs[key].attributed_cost =
                    SumEffectiveCost(cost_events, key[1], runs[key].id, RunCurrency)

-----------------------------------------------------------------------------
(***************************************************************************)
(* The inductive invariant behind the three.  A transaction that has       *)
(* written a row is the only one that has, and what it is about to commit  *)
(* or answer is what it would still find there; and of refreshes that do   *)
(* not overlap, one that has seen every cost batch holds the right sum,    *)
(* and where one has not, every projection counts as stale.                *)
(***************************************************************************)
Answer == [kind : {"Inserted", "Updated", "Unchanged"}, id : Runs]

Delivery == [phase : {"idle", "normalized", "written"}, ref : Refs \union {None},
             report : Reports \union {None}, id : Runs \union {None},
             answer : Answer \union {None}, deliveries : 0..MaxDeliveries]

Refresh == [phase : {"idle", "found", "summed", "written"}, key : RunKeys \union {None},
            total : Int, row : Run \union {None}, current : BOOLEAN, calls : 0..MaxRefreshes]

\* The rows of the table: as many as batches have brought, however many could come.
Stored(table) == {key \in Keys : table[key] # None}

TypeOK ==
    /\ cost_events \in CostTable /\ IsFiniteSet(Stored(cost_events))
    /\ experiment \in BOOLEAN
    /\ runs \in [RunKeys -> Run \union {None}]
    /\ tracker \in [Trackers -> Delivery]
    /\ refresher \in [Refreshers -> Refresh]
    /\ batches \in 0..MaxBatches
    /\ delivered \in [RunKeys -> Reports \union {None}]
    /\ told \subseteq RunKeys \X Trackers \X Answer
    /\ stale \subseteq RunKeys

LocksExclude ==
    /\ \A d, e \in Trackers :
          tracker[d].phase = "written" /\ tracker[e].phase = "written" /\ KeyOf(d) = KeyOf(e) => d = e
    /\ \A r, q \in Refreshers :
          refresher[r].phase = "written" /\ refresher[q].phase = "written"
             /\ refresher[r].key = refresher[q].key => r = q
    /\ \A d \in Trackers, r \in Refreshers :
          ~ (tracker[d].phase = "written" /\ refresher[r].phase = "written"
                /\ KeyOf(d) = refresher[r].key)

DeliveryInv(d) ==
    /\ tracker[d].phase # "idle" => /\ tracker[d].ref \in Refs /\ tracker[d].report \in Reports
                                    /\ tracker[d].id \in Runs
    /\ tracker[d].phase = "written" => /\ tracker[d].report \notin Invalid
                                       /\ tracker[d].answer = RunUpsert(runs[KeyOf(d)], d)

RefreshInv(r) ==
    /\ refresher[r].phase # "idle" => /\ refresher[r].key \in RunKeys
                                      /\ refresher[r].key[1] = TenantOf[r]
                                      /\ runs[refresher[r].key] # None
    /\ refresher[r].phase = "written" => refresher[r].row = runs[refresher[r].key]

IndInv ==
    /\ TypeOK
    /\ LocksExclude
    /\ \A d \in Trackers : DeliveryInv(d)
    /\ \A r \in Refreshers : RefreshInv(r)
    /\ \A a \in told : runs[a[1]] # None
    /\ OneRunPerTrackerRecord
    /\ NoReportIsLost

\* The sum of the costs of the run stored under key.
CostsOf(key) == SumEffectiveCost(cost_events, key[1], runs[key].id, RunCurrency)

ProjectionInv ==
    /\ \A key \in RunKeys \ stale :
          IF runs[key] = None THEN cost_events = EmptyTable
          ELSE runs[key].attributed_cost = CostsOf(key)
    /\ \A r \in Refreshers : refresher[r].phase \in {"summed", "written"} /\ ~refresher[r].current =>
          stale = RunKeys
    /\ \A r \in Refreshers : refresher[r].phase \in {"summed", "written"} /\ refresher[r].current =>
          refresher[r].total = CostsOf(refresher[r].key)

=============================================================================
