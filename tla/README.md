# A TLA+ development of FALKR-lite

FALKR-lite ingests cloud cost lines, attributes them to research runs, prices
and apportions shared infrastructure, and keeps an event-sourced double-entry
ledger per aggregate, for several tenants in one Postgres database. A second
half of the repository, the testkit, holds the accounting scenarios and the
reference rules the system is to be judged by.

This directory models that code in TLA+, checks the models with TLC and proves
most of what the checks say of the ledger, the cost store, cost ingestion, the
research graph, tenancy, the sharing of costs and the testkit with TLAPS. All paths
below are relative to `src/`.

## 1. Inventory

| Component | State it keeps | Operations | Modelled by |
|---|---|---|---|
| Ledger aggregate (`crates/events/src/ledger.rs`) | entries, balances, reversed entries, capitalization status per run | `handle_command` (post, reverse, change status), `apply_event`, `trial_balance` | `Ledger`, `AtomicLedger` |
| Ledger event store (`crates/infra/src/ledger_store.rs`, `migrations/0003_ledger_events.sql`) | the rows of `ledger_events`; each caller's `AggregateState` | `load`, `persist`, `event_count` | `LedgerStore` |
| Cost event store (`crates/infra/src/cost_events.rs`, `migrations/0001`) | the rows of `cost_events` | `upsert` of a batch, sums, `find_by_external_id`, `attribution_coverage` | `CostEvents`, `AtomicCostSpine`, `CostSpine`, two queries in `Ingestion` |
| Research graph store (`crates/infra/src/research_graph.rs`, `migrations/0002`) | experiments, runs, the attributed cost of a run | `upsert_experiment`, `upsert_run`, `find_run`, `refresh_attributed_cost` | `ResearchGraph` |
| Tracker connectors (`crates/research-graph/src/trackers`) | none | `normalize` | in `ResearchGraph`, as what it mints |
| Pricing (`crates/cost-spine/src/pricing.rs`) | none | `apportion`, `compute` | `Shares`, `Pricing`, `CostMeasures` |
| Reference allocation (`crates/testkit/src/allocation.rs`) | none | `allocate` | `Shares`, `Allocation` |
| Tenant transactions and row-level security (`crates/infra/src/db.rs`, `migrations`) | the sessions of pooled connections | `begin_tenant_tx`, policies | `TenantAccess` |
| HTTP API (`crates/api/src`) | none beyond a request | the extractor, scopes, handlers | `TenantAccess`; two handlers in `LedgerStore` and `ResearchGraph` |
| AWS FOCUS connector (`crates/cost-spine/src/providers/aws.rs`) | a cursor, kept by its caller | `list_exports`, `fetch_since`, `normalize`, `identity`, `parse_currency` | `Ingestion` |
| Tag attribution (`crates/cost-spine/src/attribution/tags.rs`) | the rules | `attribute` | `Attribution` |
| Telemetry attribution | - | `todo!()` | not modelled |
| Corpus runner (`crates/testkit/src/runner.rs`, `tests/corpus.rs`) | the aggregate it drives and its own record of entries | `run`, `execute`, the verdict on a run | `CorpusRunner` |
| Scenario files, catalog, chart (`scenario.rs`, `catalog.rs`, `chart.rs`) | the loaded chart | `ChartOfAccounts::load`, its lookups, `validate`, `is_executable`, `spec` | `Chart`, `Scenario` |
| Corpus invariants (`assertions.rs`) | none | the assertions made on a run | `Assertions` |
| Audit data export (`ads_export.rs`) | none | the five files, control totals, reconciliation | `AdsExport` |
| Ledger generator (`generator.rs`) | none | `generate`, `ground_truth` | `Generator` |
| Core types (`crates/core`) | none | money, ids, statuses | in `Ledger` |

**How they interact.** A request reaches a handler through the bearer-token
extractor, which establishes the tenant; every store call opens a transaction
with `begin_tenant_tx` on a pooled connection, and Postgres' policies confine it
to the tenant's rows. Callers of the ledger load a stream, let the aggregate
decide, and persist one event under a unique `(aggregate_id, sequence_number)`;
nothing else orders them. Pollers and webhooks upsert cost batches and tracker
records concurrently, and the cost endpoint recomputes a run's cost from
whatever has been committed. There are no in-process locks and no message
queues: all coordination is Postgres' (row locks, unique indexes, READ COMMITTED
snapshots, deadlock detection).

**What is hard here.** Optimistic appends that race, commits that are lost on
the wire, at-least-once delivery of batches and tracker records, row locks taken
in different orders, projections read in one statement and written in another,
tenant settings on connections that are reused, exports that are restated under
a cursor, rounding at its limits, records that the testkit keeps twice, and
rules that it states twice. `PROJECT.json` lists each at its line under
`hazards`, with the property that would catch it, or why none does.

**What makes each component correct.**

- Ledger: whatever is posted and reversed, each balance is that of the entries
  still standing and all of them net to zero; an entry is reversed once; a run's
  capitalization trail is unbroken.
- Ledger store: no lost update; streams numbered 1..n; an answer agrees with the
  log; a caller waits only while its stream keeps growing; a retry costs an extra
  event only where the caller was told that the outcome is unknown.
- Cost store: a batch counts as applied at once, with the counts of a serial
  run; every call is answered.
- Research graph: one run per tracker record; no report undone by a cost
  refresh; after a refresh the projection is the sum.
- Pricing and rounding: a line costs the same however it is cut; nothing is lost
  in sharing and shares follow usage; the billing rule agrees with the reference
  rule.
- Tenancy: no row is shown to or stored for another tenant, whatever ran on the
  connection before.
- Ingestion: the table ends up saying what the exports say, and totals what the
  invoice totals.
- Testkit: the chart does not depend on how its files are ordered; the runner's
  records, the ledger, the extract, the validation and the verdict agree;
  generated ledgers balance.

## 2. Modules and how they correspond to the code

Names are the code's where TLA+ allows it. A definition whose comment begins
with *Mutant* is never used by a specification: it is a plausible bug, kept
beside what it would replace, and each property is known to fail for one of
them.

**`Ledger`** is the aggregate, without state: `CommandError` and `CommandEvent`
are `handle_command` (its refusals in the order the code tests them, and the
event it emits), `apply_event` folds an event into the `LedgerState` record, and
`replay` folds a stream. Amounts are integers with a currency; dimensions,
descriptions and timestamps decide nothing and are left out.

**`AtomicLedger`** is the abstract specification of a ledger: one variable
`log[s]`, and one action that handles one command against the replay of the
whole stream. `MCAtomicLedger` bounds the stream.

**`LedgerStore`** is the table with its concurrent callers. `writer[w].phase`
follows a caller: *requested*, *loaded* (`load`), *decided* (`handle_command`),
*inserted* (`persist` before its commit), then *stored*, *rejected*, *conflict*
or *failed*. A row between `Insert` and `Commit` is invisible but holds its
unique key, so a second insert of the key waits. `CommitLost` answers Backend
with the row durable or not. After a conflict or a failure `Retry` reloads;
`GiveUp` does not. `reader[r]` is the balance endpoint with its two
transactions. `Atomic` maps the table to `AtomicLedger`'s log.

**`CostEvents`** is the upsert of one row (inserted, restated or duplicate, by
the content hash) and the sums over the table; **`AtomicCostSpine`** applies a
whole batch in one step and answers with the counts; **`CostSpine`** does it
statement by statement in READ COMMITTED transactions with row locks,
rollbacks, lost commits and the deadlock detector, and maps to the former.

**`ResearchGraph`** extends `CostEvents`: `tracker[d]` is a delivery (`Normalize`
mints a run id, `UpsertRun` meets the unique key or a row lock, then commit or
rollback) and `refresher[r]` a call of the cost endpoint (`find_run`, the sum,
the update, each a statement of its own). Cost batches arrive as single steps,
which `CostSpine` is shown to implement. The variables `delivered`, `told` and
`stale` are history: they record what happened and influence nothing.

**`Shares`** has the arithmetic and a declarative largest-remainder rule;
**`Pricing`** and **`Allocation`** are the loops of `apportion` and `allocate`, one
action per stage and pass. **`CostMeasures`** is `compute`, the three cost measures
of one invoice line, with its checks in their order; rates are parts of a whole,
so that the products stay integers. **`CostSharing`** runs `apportion` and then
`allocate` on the same input, so that they can be compared, or prices a line.

**`TenantAccess`** follows tasks from the request through the extractor and the
scope check to the pool, and then `begin_tenant_tx` statement by statement:
`Acquire`, `SetConfig` (or `SetConfigSwallowed`, a pooler that drops the
setting), `Verify` (the read-back), the statement under the policies, `Commit`
or `Drop`. `conn[c]` keeps the session's and the transaction's setting apart.

**`Attribution`** is the tag look-up; **`Ingestion`** extends it and `CostEvents`
with the provider's export files (published, and restated while they are the
last) and a poll: list from the cursor, read file by file, normalize each row
(its currency, its charge period, its tags), upsert, save the cursor, with
failures between any two. The loop that saves the cursor is not in the
repository; it is modelled from how the connector expects to be called and
marked external: `EventsOf` (what it makes of the records), `SaveCursor` and
`Crash`. A content stands for a raw row; `NormalizeAssumption` says that the run and
the currency the table keeps of an accepted one are those `normalize` computes from
its tags and its code.

**`Chart`** is `ChartOfAccounts::load`: the reference files row by row, each
checked against the rows before it, and the lookups in what it builds.
**`Scenario`** is the scenario file after parsing, with the whole catalog and
`validate` as the set `Defects`, one part per check. **`Assertions`** are the
invariants a run is held to, written on signed lines and balances apart from the
aggregate, as in the code. **`AdsExport`** is the extract. **`CorpusRunner`**
composes them: it loads the chart, drives `Ledger` with a scenario, one action per
way an operation can end, and `Failures` is the verdict of `tests/corpus.rs`.
**`Generator`** draws entries and plugs; every draw is a choice, so the result is
for every seed.

Eight modules hold the theorems. **`SumProofs`** has what the others need of sums
over finite sets and sequences, **`LedgerProofs`** of replay and of the effect of an
entry on a balance. **`LedgerDriversProofs`** is about the three modules that drive the
aggregate one command at a time, `AtomicLedger`, `CorpusRunner` (with the chart, the
scenario, the invariants and the extract it works on) and `Generator`.
**`LedgerStoreProofs`**,
**`CostEventsProofs`** (for `CostSpine` and `Ingestion`, the two ways into the table),
**`ResearchGraphProofs`**, **`PricingProofs`** (for `Pricing`, `CostSharing` and
`CostMeasures`) and **`TenantAccessProofs`** are each about the module
they are named after. Each `MC` module instantiates the module of its name;
`MCTestkit` instantiates two, `CorpusRunner` and `Generator`, of which a behaviour runs one.

Composition: `AtomicLedger`, `LedgerStore`, `CorpusRunner` and `Generator` are
four drivers of the one `Ledger`; `CostSpine`, `ResearchGraph` and `Ingestion`
share `CostEvents`; `CostSharing` composes the two rounding rules with pricing;
`CorpusRunner` extends `AdsExport` and `Assertions` (and with it `Scenario`), which
share one `Chart`.

## 3. Runs

| Run | Question | Bounds |
|---|---|---|
| `atomic_ledger` | Does the projection equal the standing entries after any log? | 4 events, 4 ids, 3 accounts, 2 currencies (each account used in one), 5 malformed and 4 balanced entries, zero and negative amounts, reversals of any id |
| `two_currencies` (violated) | Is the trial balance zero when an account is used in two currencies? | as above, with two commands |
| `ledger_store` | Do concurrent callers implement the one-command-at-a-time ledger, and what do retries cost? | 2 callers, 2 commands each, 3 ids, 1 fault |
| `ledger_contention` | What does whoever loses wait for, and what does a reader see meanwhile? | 2 callers, 2 postings each, 4 ids, 1 reader, fair |
| `ledger_shared_id` (violated) | Does a conflict mean that the caller's stream has grown, when two tenants use one aggregate id? | 2 callers of 2 tenants, 1 command each |
| `cost_spine` | Is a batch applied as if at once, and does every call end? | 3 ingesters, 1 call each of 7 batches, 3 rows, 1 fault, fair |
| `research_graph` | Do deliveries, refreshes and arriving costs preserve each other's work? | 2 trackers and 1 refresher, 2 calls each, 2 cost batches |
| `research_graph_overlap` (violated) | Is that still so of two overlapping refreshes? | 2 refreshers, 1 delivery |
| `cost_sharing` | Are `apportion`, `allocate` and `compute` right, and do the first two agree? | totals of -5 to 6.5 minor units in halves, up to 4 weights of -1, 0, 1, 2, 5; lines with up to 2 discounts in quarters from -1/4 to 5/4, prices -1, 0, 2, 3, quantities -1, 0, 1, 3 |
| `tenant_access` | Does anything cross between tenants, and does every task end? | 4 tasks, 2 at a time, 1 connection, 2 faults, fair |
| `ingestion` | Does the table end up saying, and totalling, what the exports say? | 2 periods, 5 files of up to 3 distinct lines in 2 currencies, 4 changes by the provider, 3 polls |
| `testkit` | Do chart, runner, ledger, extract, validation and verdict agree? Do generated ledgers balance and agree with their ground truth? | 10 sets of reference files; every scenario of up to 3 of 19 operations under 7 headers, and of up to 1 under 24 odd ones. 2 generated entries of 2 to 3 lines, 2 accounts, amounts 1 and 2 |

Why the bounds are enough to see what the properties are about:

- A race on a stream takes two callers and one position; a redelivered reversal
  takes a posting, a reversal and a repeat, which two callers with two commands
  and one fault have. A caller loses twice to a rival that issues a second command
  while the first caller is still retrying, which takes two commands each. The
  contention run has no fault and its commands are never refused, to keep liveness
  checkable; failed and refused callers are in `ledger_store`.
- Reversing a reversal and posting around it takes four events.
- Three ingesters close a ring of row locks, the smallest cycle in which no two
  lock the same pair of rows; a batch with a line twice, an older and a newer
  content, and another tenant's row with the same external id distinguish
  counts and keys.
- The remainders of four shares with weights 0, 1, 2 and 5 show ties,
  exhausted leftovers, and more shares than units; halves of a minor unit
  show totals finer than the precision. Two discounts show an order and a
  product; quantities and coverages of 0, 1 and 3 show coverage short of,
  equal to and beyond the line and every way to cut it.
- One connection makes every task inherit the previous one's session and makes
  waiting for the pool unavoidable. Nothing in the model of a connection depends
  on another connection.
- Two billing periods are one that is closed and one that is open; a file
  restated while it is read, and twice between polls, needs four changes. The
  third line ends when it starts; one content has a column missing, one a code
  that `parse_currency` does not list.
- The operations of `testkit` have one of every way `execute` can end, so
  three of them show a refusal between two effects and a reference used three
  times. A header decides alone whether a scenario is valid, so the odd ones need
  no sequence. The reference files have every fault of `load`, and two at once.

`CHECK_DEADLOCK FALSE` is set where the actors stop after their bounded number
of calls, or where a call that has returned does nothing more.

Symmetry is used in safety runs only, for entry ids, writers of one tenant,
trackers and refreshers, which no definition tells apart.

**Fairness.** `LedgerStore`: weak fairness on each caller's next step, because a
future that can proceed is polled again and Postgres answers an insert that no
open transaction blocks. A caller that has *failed* may give up; one in
*conflict* reloads, as the code's contract says it must. Nothing is assumed of the order
in which callers get through: the code has none, and `WaitsOnlyForRivals` is stated so
that it needs none. `CostSpine`: the same,
and weak fairness on the deadlock detector, which Postgres runs after
`deadlock_timeout`; without it the ring waits for ever. `TenantAccess`: weak
fairness on the statements of a task and strong fairness on `Acquire`, because
sqlx's pool hands connections to waiting tasks in order; a single connection is
free and taken again and again, so weak fairness would not say that. No fault,
request or retry after a failure is assumed fair.

## 4. What the properties say

`EveryEventWasLegal` is the heart of the store: every row was decided by
`handle_command` on exactly the rows before it. It is what optimistic
concurrency is for, and `ImplementsAtomicLedger` is the same as a refinement:
each step of each caller is a whole command on the stream or nothing.
`AnswersMatchTheLog` relates what callers were told to what is stored; of a caller
told Backend it says nothing, since its row may be there or not.
`RetriesStoreNothingTwice` counts: PostJournalEntry has no idempotency key, so a
posting whose commit was lost and which is delivered again is stored twice. That
is the only way to an extra event: no conflict, rejection or reload makes one.
`WaitsOnlyForRivals` says what optimistic concurrency promises a caller, and no more.
Whatever the length of its stream is while it waits, it is answered or the stream gets
longer; this holds of callers that go on to their next command as well. It does not say
that every caller is answered. One whose rivals never stop appending can lose at every
round, and nothing in `persist` prevents it. In a run the rivals stop after
`MaxRequests` commands, and the caller gets through then; that they must stop is the
bound's doing, not the code's.

`BalancesAreStandingEntries` recomputes each balance from the entries that are
not cancelled, a reversal of a reversal restoring the original, whatever was
posted in between.

`ImplementsAtomicUpsert` includes the counts: inserted, restated and duplicate
are those of a serial execution although statements of several batches
alternate.

`ProjectionIsCurrent` says that a finished refresh leaves the sum, unless a cost has
landed since it read it; `NoReportIsLost` that a refresh never brings back an older
report; `OneRunPerTrackerRecord` that all answers about a record name one id.

`RulesAgreeOnCharges` compares the billing code with the corpus's reference
rule, which are written differently and have never been run against each other
in the repository's tests. `SharesFollowUsage` says that every share is within a
minor unit of the exact one and an idle workload pays nothing, and confines what
`apportion` gets wrong to one share. `MeasuresAreConsistent` cuts a line in two at
every quantity and prices the parts with what is left of the commitment.

`IdleConnectionsCarryNoTenant`, `AnswersAreTheTenantsRows` and
`RowsBelongToTheirWriter` are the three claims of `db.rs` and the policies.

`TableMirrorsExports` is about the content of rows; `InvoiceIsConserved` about
their sums: in each currency, and in what `attribution_coverage` counts (over all
time, without its `since`), the table has what the invoice has, in whatever
batches it was delivered.

In the testkit, `ChartIgnoresFileOrder` permutes the rows of the reference files,
which `load` reads in order and stops at the first fault. `EveryScopeBalances`
holds the aggregate to the corpus's own reading of balance, written apart from
it, in each entity and currency. `RecordsAreTheLedgersEntries` and
`ExtractReconciles` compare records kept by different code.
`ValidatedRunsFailOnPurpose` and `ExecutableMeansExecuted` compare what validation
promises with what a run does, and `VerdictsAreEarned` what a verdict says with
the ledger it was given on. `AggregateAgreesWithGroundTruth` compares the
aggregate with the generator's accumulator.

## 5. Divergences

Three are runs:

- **`two_currencies`**: `ledger.rs:211` says of the trial balance that it is
  "always zero for a well-formed ledger". `post` (`ledger.rs:235`) ignores a
  delta whose currency is not that of the account's first posting, and the other
  leg of the balanced entry stands alone.
- **`research_graph_overlap`**: `research_graph.rs:225-226` calls the projection
  "recomputed, never authored", so that "running it twice is harmless". Two
  overlapping refreshes read their sums before either writes; the older sum can
  be written last and stay.
- **`ledger_shared_id`**: `ledger_store.rs:232-234` says of the error 23505 that it
  "can only be the (aggregate_id, sequence_number) index, i.e. a concurrent append".
  The index (`migrations/0003_ledger_events.sql:32`) has no tenant, and `load` reads
  under row-level security. A second tenant that uses an aggregate id already in use
  loads an empty stream and conflicts with rows that it never sees, reload or not. The
  other runs of the store have one tenant; the theorems hold for any number of tenants,
  whatever aggregates they share, and `GapFreeStreams` says that their rows never share a
  stream.

Others were met while modelling and are documented by the conditions under which
the properties are stated:

- `apportion` on a credit (a negative total) never enters its loop and puts the
  whole leftover on the share that was cut least, possibly an idle workload's.
  `SharesFollowUsage` bounds how far off that share is; `RulesAgreeOnCharges` is
  stated for totals that are not negative.
- `compute` checks every input but the committed unit price; a negative one gives
  negative costs. `MeasuresAreConsistent` bounds the costs where the price is
  between zero and the list price.
- A line that the provider withdraws when it restates an export stays in
  `cost_events`, and lines that agree in account, period, service, category,
  resource and region share one identity, `derive_external_id` reading no column
  that tells two rates or meters apart. `TableMirrorsExports` is about the lines
  an export still has, the last row of each; `InvoiceIsConserved` about exports
  that are `Plain`, without either.
- `parse_currency` gives the account's currency to a code it does not list at the
  same amount; the comment beside it speaks of exports that omit the column.
  `Plain` excludes such rows as well.
- `Runner::run` defers a scenario with a misspelt operation kind, although
  `runner.rs:133` describes Deferred as "Every operation is catalogued"; only
  `validate` reports it. The properties about deferral are about validated
  scenarios.
- The entities of a chart may be each other's parents; `load` only asks that a
  parent exists.
- Nothing refuses an entry on an account restricted to another currency, which is
  the last clause of invariant 5 (`assertions.rs:9` says that it holds; ADR 0004
  records the gap). `EveryScopeBalances` says that it fails on exactly those entries.
- A scenario can claim `subledger_ties` and `roll_forward`; nothing checks either.
- A reversal is recorded in the entity of the scenario whatever the entity of the
  entry it reverses, and the trial balance of the extract is written under that
  entity while its detail carries the entry's own. The reconciliation compares by
  account alone. An operation's `entity` is not validated.
- `generate` with a single account draws an index from two and may drop the
  plug. The run uses two accounts, as every caller does at least.

## 6. Proofs

The theorems hold for any sets of tenants, aggregates, callers, accounts, entry
ids, commands, batches, exports, tag rules, tasks, reference files and scenarios, any
totals, weights, discounts and prices, and any bounds. They rest on the named assumptions
of the modules, which say that the constants have their types and that the null value is
not one of the values it stands beside (`NoneAssumption`: no error, status, amount or
entry; `ChartAssumption` and `CorpusAssumption`: no error of the testkit, nor a malformed
text; `LedgerStoreAssumption`: no event; `ContentAssumption`: no content; `NoneIsNoRun`;
`AtomicLedgerAssumption`, `GeneratorAssumption`, `CostSpineAssumption`,
`ResearchGraphAssumption`, `SharesAssumption`, `CostMeasuresAssumption`,
`AttributionAssumption`, `IngestionAssumption`, `NormalizeAssumption`,
`TenantAccessAssumption`), and on the hypotheses in the table. *Home currencies*
means that there is a function from accounts to currencies such that every line of
every command is in the currency of its account (`Respects`); the chart of accounts
can say so of an account, and nothing enforces it (section 5).

| Theorem | Module | Statement | Hypothesis |
|---|---|---|---|
| `TrialBalanceHolds` | `LedgerDriversProofs` | `Spec => []TrialBalanceIsZero` | finitely many accounts, home currencies |
| `BalancesAreWhatStands` | `LedgerDriversProofs` | `Spec => []BalancesAreStandingEntries` | finitely many accounts, home currencies |
| `TrailIsUnbroken` | `LedgerDriversProofs` | `Spec => []CapitalizationTrail` | |
| `RecordsMatch` | `LedgerDriversProofs` | `RunnerSpec => []RecordsAreTheLedgersEntries` | |
| `RefusalsAreClean` | `LedgerDriversProofs` | `RunnerSpec => []RefusalsLeaveNoTrace` | |
| `ScopesBalance` | `LedgerDriversProofs` | `RunnerSpec => []EveryScopeBalances` | |
| `ExtractAgrees` | `LedgerDriversProofs` | `RunnerSpec => []ExtractReconciles` | |
| `ExecutableIsExecuted` | `LedgerDriversProofs` | `RunnerSpec => []ExecutableMeansExecuted` | |
| `ValidatedFailOnPurpose` | `LedgerDriversProofs` | `RunnerSpec => []ValidatedRunsFailOnPurpose` | |
| `EarnedVerdicts` | `LedgerDriversProofs` | `RunnerSpec => []VerdictsAreEarned` | |
| `OrderIgnored` | `LedgerDriversProofs` | `RunnerSpec => []ChartIgnoresFileOrder` | |
| `GeneratorAgrees` | `LedgerDriversProofs` | `DrawSpec => []AggregateAgreesWithGroundTruth` | at least two accounts |
| `TypeCorrect` | `LedgerStoreProofs` | `Spec => []TypeOK` | |
| `NoLostUpdate` | `LedgerStoreProofs` | `Spec => []EveryEventWasLegal` | |
| `GapFreeStreams` | `LedgerStoreProofs` | `Spec => []StreamsAreDense` | |
| `ReversalsLandOnce` | `LedgerStoreProofs` | `Spec => []ReversedAtMostOnce` | |
| `AnswersAgree` | `LedgerStoreProofs` | `Spec => []AnswersMatchTheLog` | |
| `RetriesAreCounted` | `LedgerStoreProofs` | `Spec => []RetriesStoreNothingTwice` | finitely many callers |
| `ViewsAreCoherent` | `LedgerStoreProofs` | `Spec => []BalanceViewIsCoherent` | finitely many accounts, home currencies |
| `StoreImplementsLedger` | `LedgerStoreProofs` | `Spec => ImplementsAtomicLedger` | |
| `UpsertIsAtomic` | `CostEventsProofs` | `Spec => ImplementsAtomicUpsert` | |
| `TablesMirrorExports` | `CostEventsProofs` | `PollingSpec => []TableMirrorsExports` | |
| `InvoicesAreConserved` | `CostEventsProofs` | `PollingSpec => []InvoiceIsConserved` | |
| `RowsAreAttributed` | `CostEventsProofs` | `PollingSpec => []StoredRowsAreAttributed` | |
| `OneRunForARecord` | `ResearchGraphProofs` | `Spec => []OneRunPerTrackerRecord` | |
| `ReportsAreKept` | `ResearchGraphProofs` | `Spec => []NoReportIsLost` | |
| `ProjectionsAreSums` | `ResearchGraphProofs` | `Spec => []ProjectionIsCurrent` | at most one refresher |
| `NothingIsLost` | `PricingProofs` | `Spec => []SharesConserveTheTotal` | |
| `UsageIsBilled` | `PricingProofs` | `Spec => []SharesFollowUsage` | |
| `AllocatesByLargestRemainder` | `PricingProofs` | `SharingSpec => []PartsAreLargestRemainder` | |
| `OnlyFineTotalsOverflow` | `PricingProofs` | `SharingSpec => []OverflowsOnlyWhenTooPrecise` | |
| `BilledIsAllocated` | `PricingProofs` | `SharingSpec => []RulesAgreeOnCharges` | |
| `PricesAreConsistent` | `PricingProofs` | `SharingSpec => []MeasuresAreConsistent` | |
| `PooledConnectionsAreClean` | `TenantAccessProofs` | `Spec => []IdleConnectionsCarryNoTenant` | |
| `WritesStayWithTheirTenant` | `TenantAccessProofs` | `Spec => []RowsBelongToTheirWriter` | |
| `AnswersStayWithTheirTenant` | `TenantAccessProofs` | `Spec => []AnswersAreTheTenantsRows` | |

Three of the hypotheses mark where a claim stops being true, and a run or a
divergence of section 5 shows the other side: without home currencies
`two_currencies` violates the trial balance, with two refreshers
`research_graph_overlap` violates the projection, and with a single account the
generator may drop its plug. The finite
sets are those the sums range over.

**Replay.** `LedgerProofs` has the lemmas for every stream: `ReplayStep` (one more
event is one `apply_event`), `ReplayType` (replay is total) and
`ReplayRemembersReversals`. They are inductions over the length of the stream,
carried out on the set of lengths for which the claim holds.

**Sums.** The code's sums are loops and iterators, the models' are folds over finite
sets, and a fold picks its elements in an order of its own. `SumProofs` reduces it to
a function on the subsets of a set: `AddsUp(f, values, S)` says that f gives each
subset its sum, by the element the fold would pick, and `SumsRemove` that any other
element gives the same. `Total` is that sum, with the lemmas about it that the
components need: one more element, one element changed, plus, times, monotone, and
equal values on sets that pair off.

**The trial balance.** That balances net to zero is not inductive: a reversal takes
its lines from the entry on file and does not check them. `SheetInv` adds that every
entry on file is `Balanced` and that each balance is in the currency of its account.
A posting is balanced because `handle_command` compared its debits with its credits
(`PostLinesNet`: it moves the net by the sum of its lines), a reversal because it
mirrors one that was.

**What stands.** `BalancesAreStandingEntries` looks at the log alone, and at chains in
it: a reversal can itself be reversed, so an entry stands when the chain of reversals
on it is even. `Chains` says of the state that every entry has a tip, the last of
the reversals on it, that all but the tips are in `reversed`, and that the lines on
file at the tip of a posting are its own or mirrored, by the parity of its depth. A new
reversal can then only lengthen chains at their tip, by one (`ChainsReverse`,
`Parity`); `Accounted` says that each balance is the sum of what the postings of even
depth bring to it.

**The trail.** Each status change starts from the status the previous one left:
`TrailInv` relates the state's status of a run to the last change in the stream,
and the code compares the two before it emits the next.

**The runner.** `RunnerInv` has one part per thing that `execute` keeps in step:
`FilesInv` (the chart is what the files load to), `ProgressInv` (what has been decided
about the scenario at a position), `LedgerInv` (the log replays to the state, an event
or a refusal per operation), `RecordsInv` (below) and `ResultInv` (how the run came to
its end). None of the properties is inductive without it. A record's lines are the
ledger's because `RunnerMirror` and the aggregate's mirror are the same function of lines
that are the same. That no reversal is of a reversal is not visible in the code at all:
a reference can name two records, `Find` takes the earlier, and the part of `RecordsInv`
called `Reversed` says that the earlier is the posting and shares the reference of every
reversal of it. `ExecutableIsExecuted` and `ValidatedFailOnPurpose` follow from
`ResultInv` and from what `Defects` excludes; they need `RunnerInv` for the state the run
stopped in.

**Books and extract.** Nothing above says what a balance is. `AllBooks` does: however
currencies are given to the accounts (`BooksInv(home)`), if all entries recorded keep to
them, then each balance is the sum of what the entries bring to its account. An
executed run where no account was posted to in two currencies has such an assignment, the
currency of the first entry found on each account (`HomeOf`). The extract foots because
every entry is balanced (`ExtractFoots`); it reconciles because the signed rows on an
account are the lines on it, summed by place instead of by entry (`RowsOnTotal`,
`DerivedIsBalance`). `ScopesBalance` sums each entry all or nothing (`WholeEntries`,
`ScopeIsZero`). For `EarnedVerdicts`, a comparison by code loses nothing, since the codes
of the run's trial balance are those of the accounts (`MatchIs`); so once it has
succeeded, the side rule that `validate` applied to the file holds of the run
(`OnlyIntercompany`).

**The chart.** `load` checks a row against the rows before it. `SoundFiles` is what its
checks come to together, in no order: no two rows share a code, no two accounts a
subledger, every parent is there. That the first is equivalent to the second
(`NoEarlier` and the lemmas on it) is where the order disappears; files with the same rows
(`Reordered`) are then sound together and give the same maps (`ByCodeReordered`,
`ControlsReordered`). The last of several rows with a code, which `ByCode` takes, is the
only one.

**The generator.** `DrawnInv` says that the running sum is the sum of the lines drawn, so
that the plug closes the entry whichever side it falls on, zero included, and `BooksOf`
that what the aggregate projects from the entries is, on each account, what the entries
bring to it. `GroundTruth` regroups that sum by place, which is how the accumulator goes
through the lines.

**The store.** The argument is the inductive invariant `IndInv` of `LedgerStore`.
`EveryEventWasLegal` is not inductive: whether the next commit keeps it depends
on what the caller holds in memory. `WriterInv` says that: from *loaded* on, the
caller's state is the replay of the first *n* rows of its stream, where *n* is
the sequence number it carries; once *inserted*, its key is held by no committed
row and no other open insert. Then a commit can only extend the stream at its
end (`CommitExtendsStream`: were there a row after the caller's prefix, there
would be one with its key), the stream stays numbered 1..n (`DenseStreams`,
`UniqueKeys`), and no prefix that another caller holds changes (`PrefixStays`).
There is one lemma per action; `StepInv` collects them.

`GapFreeStreams` is more than `DenseStreams`, which is per tenant: the first row of
a stream has the key (aggregate, 1), so two tenants cannot both have one
(`OneTenantPerStream`). `ReversalsLandOnce` needs the aggregate as well: the later
of two reversals was legal on a prefix that contains the earlier one, and
`ReplayRemembersReversals` says that such a prefix replays to a state that reports
the entry as reversed, on which `handle_command` refuses.

**Answers.** `AnswersMatchTheLog` is not inductive: a commit of one caller could store
an id that another has drawn. `AnswerInv` adds that the entry ids the callers have drawn
are disjoint.

**Retries and views.** `RetriesAreCounted` is an account: `CountInv` bounds the rows
committed by the requests the callers have brought to an end and the faults that
were injected, and a step that adds a row adds to one of the two. `ViewInv` says that
every number up to a reader's own is in its stream; what it has loaded is the replay of a
legal prefix, and every such prefix has a balanced sheet and no more entries than events
(`PrefixSheet`, `EntriesAreEvents`).

**The refinement of the ledger.** The commit of an insert is one `Handle` of
`AtomicLedger`: the row extends the stream (`CommitExtendsStream`), and the state the
decision was taken on is the replay of all of it, so `handle_command` answers as it
would there. Every other step leaves the log. The definitions of the aggregate that
come in through the instance are first shown to be those of this module (`SamePost` to
`SameDecision`).

**The cost store.** `UpsertIsAtomic` is a refinement too: the commit of a transaction
is the whole batch in one step, with its counts. The counts were taken row by row,
while other transactions committed. `IndInv` of `CostSpine` says that no row is locked
by two transactions and that the counts so far are those of the rows processed so far
*on the table as it is now*: another commit writes only rows it has locked, so none
that this transaction has seen (`WrittenRespects`, `MeetingAgrees`).

**Ingestion.** A batch writes what its records say last of each line, and nothing else
(`StoreWrites`, over `EventsOf`, an induction over the records), and what a poll holds
of an export it has just read is what the export says (`ReadSaid`).
`TableMirrorsExports` speaks of the moment after a store; the inductive `PollingInv`
says why it comes true. Only the last export is restated. So the table mirrors every
export below the cursor for ever (`CursorInv`), and a poll that has listed the exports
up to some m and read those before j holds what they say, of the ones below m whatever
happens, of m itself as long as nothing has changed (`HasRead`, `PollInv`). A store by a
poll that is still current then mirrors all of them; a poll that is not still makes true
what the cursor is about to claim. `StoredInv` adds that every row comes from an export
and was attributed, and that is all `RowsAreAttributed` needs besides the priorities of
`lookup`. `InvoicesAreConserved` pairs the rows of plain exports off with those of the
table (`PlainMatch`): a line is found under its own identity, no two lines share one,
and no stored row is without a line. `PairedTotal` turns that into equal totals.

**The research graph.** `IndInv` of `ResearchGraph` has the types, the exclusion of row
locks, and what each phase of a delivery and of a refresh holds: above all that a
refresh writes back the row as it is (its lock keeps it so) with only the cost
changed. `ProjectionInv` is inductive where refreshes do not overlap each other: the
projection of a run is the sum of the costs in the table unless a batch has landed
since the refresh began (`stale`), and the sum that a refresh carries is the table's
as long as none has.

**Sharing.** What the shares miss of the exact ones, each times the sum of the weights,
adds up to the sum of the weights times the leftover (`GapTotal`). While the loop of
`apportion` runs, the shares are therefore the truncated ones with some of the
hardest cut topped up, a prefix of the order by what was cut (`ApportionInv`; that the
order exists and is a permutation, for any number of shares, is `RankedSorts`), and it
stops with less than one minor unit left. `allocate` goes through its own order with
its own arithmetic, which `SameRanking` and its neighbours identify with the former;
since its total is a whole number of minor units, what it leaves is none.
`LargestRemainderIsUnique` then says that there is one such split, and the two rules
agree on charges for it.

**Pricing.** `compute` multiplies what each discount leaves of a price. That the product
does not depend on the order of the discounts is an induction over the sets of their
positions, not over sequences (`ProductsFactor`, `RetainedReverses`); with the bounds on a
product of fractions (`RetainedBounds`) it gives the bounds on each cost measure, and
linearity that a line costs what its two parts cost.

**Tenancy.** The properties speak of idle connections, stored rows and answers; none
of them says what a statement in the middle of a transaction runs under. The
inductive invariant `IndInv` of `TenantAccess` does: no session ever carries a
tenant (`ConnectionInv`), the transaction's setting is absent until it is set and
the task's own tenant once it has been read back (`SettingInv`), and each
connection is held by the one task that runs on it (`HoldsConnection`). A step of
one task then changes no connection that another one relies on (`StepOf`,
`OtherTask`), so each action is proved for its own task and connection only, and
`Combine` puts the two together.

**Only model-checked:** `WaitsOnlyForRivals`, `EveryCallEnds` and `EveryTaskEnds`,
which hold under fairness; the provers reach neither fairness nor `ENABLED`. Every other
property of a passing run is stated by a theorem of the table. What `validate` and the
lookups do with a text (parsing a decimal, splitting "1000-Cash") is part of no theorem:
the modules start from the parsed value.

## 7. What is not modelled

Telemetry attribution and the MLflow connector are `todo!()` or answer
Unavailable. JSON views, CSV files, parsing of tracker payloads and FOCUS
columns, error texts, the bootstrap and the migrations' execution are input and
output without state; what they decide is a set of refused contents. Decimal's
28 digits and its overflow are taken as exact arithmetic, and its rounding to a
currency's minor units is not modelled apart from the truncation in sharing. Balances
are integers, so a zero has no sign: the two copies of the side rule
(`assertions.rs:353`, `scenario.rs:664`) ask `is_sign_negative`, and a Decimal zero with
the sign bit set would be off the normal side of a debit account. `VerdictsAreEarned`
covers zero as a number only. The
random stream behind the generator is a choice. Of the corpus invariants, 2
(idempotency) counts rows, 3a and 3c (the round trip through JSON and the store)
are about serialization, and 7, 8 and 9 are about subledgers and periods that no
delivered phase has. `attribution_coverage` is modelled without its `since`, which
compares timestamps the model does not have. Checkpoints and datasets have no
store operation.

## 8. Plan

Done: the ledger (`Ledger`, `AtomicLedger`, `LedgerStore`), the cost store, the
research graph, ingestion, rounding, pricing, tenancy and the testkit from the reference
files to the verdict, each with every safety property and refinement that a run checks
proved.

Left: an order on deliveries in `CostSpine` and `ResearchGraph`, for the ordering hazard
that no property covers; the rounding of money to minor units and its overflow
(`crates/core/src/money.rs`); and of the corpus invariants those about the phases that
are not delivered yet (7, 8 and 9), once there is code that they judge.
