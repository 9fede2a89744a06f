------------------------------ MODULE CostSpine -----------------------------
(***************************************************************************)
(* PgCostEventStore::upsert (crates/infra/src/cost_events.rs) called by    *)
(* concurrent ingesters: pollers and webhooks that deliver overlapping     *)
(* batches.  A batch is one READ COMMITTED transaction with one statement  *)
(* per event.  ON CONFLICT DO UPDATE locks the row it meets, also when the *)
(* WHERE suppresses the update, until the transaction ends; a statement    *)
(* that meets a row another transaction has locked waits.                  *)
(***************************************************************************)
EXTENDS CostEvents

CONSTANTS
    Ingesters, Batches,
    MaxCalls,         \* bound: calls of upsert per ingester
    MaxFaults         \* bound: backend errors and lost commits, in all

ASSUME CostSpineAssumption ==
    /\ Batches \subseteq Seq(CostEvent)
    /\ MaxCalls \in Nat /\ MaxFaults \in Nat

VARIABLES
    ingester,         \* ingester[w]: a caller and its open transaction
    faults            \* faults injected so far

vars == <<cost_events, ingester, faults>>

\* The rows the open transaction of w has processed, and with them its locks.
Processed(w) == 1..(ingester[w].next - 1)

\* Mutant: ON CONFLICT DO NOTHING, which locks no existing row.
HoldsInsertedOnly(w, key) ==
    /\ ingester[w].phase = "open"
    /\ cost_events[key] = None
    /\ Deliveries(ingester[w].batch, ingester[w].next - 1, key) # {}

Holds(w, key) ==
    /\ ingester[w].phase = "open"
    /\ Deliveries(ingester[w].batch, ingester[w].next - 1, key) # {}

\* The event the next statement of w upserts.
Current(w) == ingester[w].batch[ingester[w].next]

HasNext(w) == ingester[w].phase = "open" /\ ingester[w].next <= Len(ingester[w].batch)

WaitsFor(w, v) == HasNext(w) /\ v # w /\ Holds(v, idempotency_key(Current(w)))

\* What w's statement sees: its own writes, else the committed row.
Seen(w, key) == ContentAfter(cost_events, ingester[w].batch, ingester[w].next - 1, key)

-----------------------------------------------------------------------------
Upsert(w) ==
    /\ ingester[w].phase \in {"idle", "stored", "failed"}
    /\ ingester[w].calls < MaxCalls
    /\ \E batch \in Batches :
          ingester' = [ingester EXCEPT ![w] =
              [phase |-> "called", batch |-> batch, next |-> 1, outcome |-> NoOutcome,
               calls |-> ingester[w].calls + 1]]
    /\ UNCHANGED <<cost_events, faults>>

\* The early returns for an empty and for a mixed batch, and begin_tenant_tx.
Begin(w) ==
    /\ ingester[w].phase = "called"
    /\ ingester' = [ingester EXCEPT ![w].phase =
                       IF ingester[w].batch = <<>> THEN "stored"
                       ELSE IF SingleTenant(ingester[w].batch) THEN "open" ELSE "failed"]
    /\ UNCHANGED <<cost_events, faults>>

\* Mutant: a statement that returns no row, a duplicate, is taken for one that has
\* not been applied, and repeated.
UpsertRowUntilReturned(w) ==
    /\ HasNext(w)
    /\ \A v \in Ingesters : ~WaitsFor(w, v)
    /\ LET case == RowOutcome(Seen(w, idempotency_key(Current(w))), Current(w).content)
       IN  /\ case # "duplicate"
           /\ ingester' = [ingester EXCEPT ![w].next = @ + 1, ![w].outcome[case] = @ + 1]
    /\ UNCHANGED <<cost_events, faults>>

\* One iteration of the loop over the events.
UpsertRow(w) ==
    /\ HasNext(w)
    /\ \A v \in Ingesters : ~WaitsFor(w, v)
    /\ LET case == RowOutcome(Seen(w, idempotency_key(Current(w))), Current(w).content)
       IN  ingester' = [ingester EXCEPT ![w].next = @ + 1, ![w].outcome[case] = @ + 1]
    /\ UNCHANGED <<cost_events, faults>>

Written(w) == [key \in Keys |-> Seen(w, key)]

Commit(w) ==
    /\ ingester[w].phase = "open" /\ ~HasNext(w)
    /\ cost_events' = Written(w)
    /\ ingester' = [ingester EXCEPT ![w].phase = "stored"]
    /\ UNCHANGED faults

\* The connection breaks while COMMIT is in flight.
CommitLost(w) ==
    /\ ingester[w].phase = "open" /\ ~HasNext(w)
    /\ faults < MaxFaults
    /\ cost_events' \in {cost_events, Written(w)}
    /\ ingester' = [ingester EXCEPT ![w].phase = "failed"]
    /\ faults' = faults + 1

\* Any other database error: the transaction is rolled back.
BackendError(w) ==
    /\ ingester[w].phase \in {"called", "open"}
    /\ faults < MaxFaults
    /\ ingester' = [ingester EXCEPT ![w].phase = "failed"]
    /\ faults' = faults + 1
    /\ UNCHANGED cost_events

\* Postgres finds a cycle of waiting transactions and aborts one of them.
DeadlockDetected(w) ==
    /\ \E cycle \in SUBSET Ingesters :
          /\ w \in cycle
          /\ \A v \in cycle : \E u \in cycle : WaitsFor(v, u)
          /\ \A v \in cycle : \E u \in cycle : WaitsFor(u, v)
    /\ ingester' = [ingester EXCEPT ![w].phase = "failed"]
    /\ UNCHANGED <<cost_events, faults>>

-----------------------------------------------------------------------------
Init ==
    /\ cost_events = EmptyTable
    /\ ingester = [w \in Ingesters |-> [phase |-> "idle", batch |-> <<>>, next |-> 1,
                                        outcome |-> NoOutcome, calls |-> 0]]
    /\ faults = 0

Progress(w) == Begin(w) \/ UpsertRow(w) \/ Commit(w)

Next == \E w \in Ingesters : \/ Upsert(w) \/ Progress(w) \/ CommitLost(w)
                             \/ BackendError(w) \/ DeadlockDetected(w)

Spec == Init /\ [][Next]_vars

\* A task that can proceed is polled, and the deadlock detector runs.
FairSpec == /\ Spec
            /\ \A w \in Ingesters : WF_vars(Progress(w))
            /\ WF_vars(\E w \in Ingesters : DeadlockDetected(w))

-----------------------------------------------------------------------------
(* Properties. *)

\* Every call that begins is answered: waiting ends, by commit or by the
\* deadlock detector, although batches list the same rows in different orders.
EveryCallEnds ==
    \A w \in Ingesters : ingester[w].phase = "called" ~> ingester[w].phase \in {"stored", "failed"}

\* What upsert has returned to w.
AnswerOf(w) ==
    CASE ingester[w].phase = "stored" -> [kind |-> "Ok", outcome |-> ingester[w].outcome]
      [] ingester[w].phase = "failed" -> [kind |-> "Backend", outcome |-> NoOutcome]
      [] OTHER -> None

Atomic == INSTANCE AtomicCostSpine WITH answer <- [w \in Ingesters |-> AnswerOf(w)]

\* Applying a batch event by event, with other batches in between, is applying
\* it at once: "re-delivering the same rows produces the same state"
\* (store.rs), and the counts told to the caller are those of a serial run.
ImplementsAtomicUpsert == Atomic!Spec

-----------------------------------------------------------------------------
(* Why it holds: the counts a transaction has collected are those of its rows on   *)
(* the table as it is committed now, whatever was committed since it met them,     *)
(* because the rows it has met are locked.                                         *)

IngesterState == [phase : {"idle", "called", "open", "stored", "failed"},
                  batch : Batches \union {<<>>}, next : Nat, outcome : UpsertOutcome, calls : Nat]

\* The rows among the first n of a batch that meet the case.
Meeting(table, batch, n, case) ==
    {i \in 1..n : RowOutcome(ContentAfter(table, batch, i - 1, idempotency_key(batch[i])),
                             batch[i].content) = case}

IngesterInv(w) ==
    /\ ingester[w].phase # "idle" => ingester[w].batch \in Batches
    /\ ingester[w].phase = "called" => ingester[w].next = 1 /\ ingester[w].outcome = NoOutcome
    /\ ingester[w].phase = "open" =>
          /\ SingleTenant(ingester[w].batch)
          /\ ingester[w].next \in 1..(Len(ingester[w].batch) + 1)
          /\ \A case \in {"inserted", "restated", "duplicate"} :
                ingester[w].outcome[case] =
                   Cardinality(Meeting(cost_events, ingester[w].batch, ingester[w].next - 1, case))

\* No row is locked by two transactions.
LocksExclude ==
    \A v, w \in Ingesters : \A key \in Keys : v # w => ~(Holds(v, key) /\ Holds(w, key))

IndInv ==
    /\ cost_events \in CostTable /\ ingester \in [Ingesters -> IngesterState]
    /\ \A w \in Ingesters : IngesterInv(w)
    /\ LocksExclude

=============================================================================
