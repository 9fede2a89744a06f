----------------------------- MODULE CostEvents -----------------------------
(***************************************************************************)
(* Cost events and what a batch upsert does to the table cost_events:      *)
(* crates/cost-spine/src/{event,store}.rs, the statement in                *)
(* crates/infra/src/cost_events.rs and migrations/0001_cost_events.sql.    *)
(*                                                                         *)
(* A cost event is its identity and its content.  ExternalIds stands for   *)
(* (source_provider, source_external_id); a content stands for the raw row *)
(* behind source_content_hash, which fixes every other column: the run it  *)
(* is attributed to, its effective cost and its currency.                  *)
(***************************************************************************)
EXTENDS Integers, Sequences, FiniteSets, SequencesExt

CONSTANTS
    Tenants, ExternalIds, Contents,
    Runs, Currencies,
    None,             \* SQL NULL, Rust's Option::None
    RunOf,            \* the run_id a content is attributed to, or None
    CostOf,           \* its effective_cost
    CurrencyOf        \* its currency

ASSUME ContentAssumption ==
    /\ None \notin Contents
    /\ RunOf \in [Contents -> Runs \union {None}]
    /\ CostOf \in [Contents -> Int]
    /\ CurrencyOf \in [Contents -> Currencies]

VARIABLE cost_events  \* the committed rows of the table

CostEvent == [tenant_id : Tenants, external_id : ExternalIds, content : Contents]

\* The unique index cost_events_source_identity; None: no such row.
Keys == Tenants \X ExternalIds
CostTable == [Keys -> Contents \union {None}]
EmptyTable == [key \in Keys |-> None]

idempotency_key(event) == <<event.tenant_id, event.external_id>>

UpsertOutcome == [inserted : Nat, restated : Nat, duplicate : Nat]
NoOutcome == [inserted |-> 0, restated |-> 0, duplicate |-> 0]

\* Which of the three cases INSERT ... ON CONFLICT DO UPDATE ... WHERE ... meets.
RowOutcome(old, new) ==
    CASE old = None -> "inserted"
      [] old # None /\ old # new -> "restated"
      [] old # None /\ old = new -> "duplicate"

-----------------------------------------------------------------------------
(* A whole batch, as if it were one step. *)

SingleTenant(batch) ==
    \A i \in DOMAIN batch : batch[i].tenant_id = batch[1].tenant_id

\* The positions of a batch, up to n, that carry the key.
Deliveries(batch, n, key) == {i \in 1..n : idempotency_key(batch[i]) = key}

\* The content of a key after the first n rows of the batch.
ContentAfter(table, batch, n, key) ==
    IF Deliveries(batch, n, key) = {} THEN table[key]
    ELSE batch[Max(Deliveries(batch, n, key))].content

Upserted(table, batch) ==
    [key \in Keys |-> ContentAfter(table, batch, Len(batch), key)]

OutcomeOf(table, batch) ==
    LET meets(case) == {i \in DOMAIN batch :
            RowOutcome(ContentAfter(table, batch, i - 1, idempotency_key(batch[i])),
                       batch[i].content) = case}
    IN  [inserted  |-> Cardinality(meets("inserted")),
         restated  |-> Cardinality(meets("restated")),
         duplicate |-> Cardinality(meets("duplicate"))]

-----------------------------------------------------------------------------
(* Queries over the rows of one tenant. *)

\* The event under a key, or None.
find_by_external_id(table, tenant, external_id) == table[<<tenant, external_id>>]

RowsOf(table, tenant) == {key \in Keys : key[1] = tenant /\ table[key] # None}

\* The events of all time, and those that carry a run.
attribution_coverage(table, tenant) ==
    LET rows == RowsOf(table, tenant)
    IN  [total_events |-> Cardinality(rows),
         run_attributed |-> Cardinality({key \in rows : RunOf[table[key]] # None})]

\* SELECT SUM(effective_cost) ... WHERE run_id = $1 AND currency = $2
SumEffectiveCost(table, tenant, run, currency) ==
    LET charged == {key \in RowsOf(table, tenant) : /\ RunOf[table[key]] = run
                                                    /\ CurrencyOf[table[key]] = currency}
    IN  MapThenSumSet(LAMBDA key : CostOf[table[key]], charged)

=============================================================================
