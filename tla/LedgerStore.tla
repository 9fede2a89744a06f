---------------------------- MODULE LedgerStore -----------------------------
(***************************************************************************)
(* PgLedgerEventStore (crates/infra/src/ledger_store.rs) over the table    *)
(* ledger_events (migrations/0003_ledger_events.sql), used by concurrent   *)
(* callers the way the tests use it: load, handle_command, persist; after  *)
(* a ConcurrencyConflict reload and retry; after a backend error deliver   *)
(* the command again or give up.                                           *)
(*                                                                         *)
(* A writer is one such caller, with a store bound to one tenant.  A       *)
(* persist is an open transaction between Insert and Commit: its row is    *)
(* invisible to every load but holds its (aggregate_id, sequence_number)   *)
(* key, so a second insert of that key waits for it.  A reader is one call *)
(* of the balance endpoint (crates/api/src/routes/ledger.rs), which reads  *)
(* the stream in two transactions.                                         *)
(***************************************************************************)
EXTENDS Ledger

CONSTANTS
    Tenants, Aggregates, Writers, Readers,
    TenantOf,        \* the tenant each writer's or reader's store is bound to
    AggregatesOf,    \* the aggregates the callers of each tenant address
    Commands,        \* the commands callers may issue
    MaxRequests,     \* bound: commands per writer
    MaxFaults        \* bound: backend errors, lost commits and crashes, in all

ASSUME LedgerStoreAssumption ==
    /\ TenantOf \in [Writers \union Readers -> Tenants]
    /\ AggregatesOf \in [Tenants -> SUBSET Aggregates]
    /\ Commands \subseteq LedgerCommand
    /\ None \notin LedgerEvent
    /\ MaxRequests \in Nat /\ MaxFaults \in Nat

VARIABLES
    ledger_events,   \* the committed rows of the table
    writer,          \* writer[w]: a caller and its open persist
    reader,          \* reader[r]: a call of the balance endpoint
    faults           \* faults injected so far

vars == <<ledger_events, writer, reader, faults>>

Row == [aggregate_id : Aggregates, tenant_id : Tenants,
        sequence_number : Nat \ {0}, payload : LedgerEvent]

\* AggregateState<LedgerState>
AggregateState == [inner : LedgerState, sequence_number : Nat]

Phases == {"idle", "requested", "loaded", "decided", "inserted",
           "stored", "rejected", "conflict", "failed"}

-----------------------------------------------------------------------------
(* Reading a stream. *)

\* The rows row-level security shows a transaction of the tenant.
Visible(tenant, aggregate) ==
    {row \in ledger_events : row.tenant_id = tenant /\ row.aggregate_id = aggregate}

\* SELECT ... ORDER BY sequence_number ASC
InOrder(rows) ==
    LET rank(row) == Cardinality({q \in rows : q.sequence_number <= row.sequence_number})
    IN  [i \in 1..Cardinality(rows) |-> (CHOOSE row \in rows : rank(row) = i).payload]

LastSequence(rows) ==
    IF rows = {} THEN 0 ELSE Max({row.sequence_number : row \in rows})

Replayed(rows) == replay(InOrder(rows))

load(tenant, aggregate) ==
    [inner           |-> Replayed(Visible(tenant, aggregate)),
     sequence_number |-> LastSequence(Visible(tenant, aggregate))]

-----------------------------------------------------------------------------
(* The writers. *)

NewState == [inner |-> DefaultState, sequence_number |-> 0]

\* The row that writer w's persist holds in its open transaction.
RowOf(w) == [aggregate_id    |-> writer[w].aggregate,
             tenant_id       |-> TenantOf[w],
             sequence_number |-> writer[w].state.sequence_number,
             payload         |-> writer[w].event]

Uncommitted == {RowOf(w) : w \in {v \in Writers : writer[v].phase = "inserted"}}

\* Entry ids that exist somewhere: EntryId::new() returns none of them.
IdsIn(event) == CASE event = None -> {}
                  [] event # None /\ event.kind = "JournalEntryPosted" -> {event.id}
                  [] event # None /\ event.kind = "EntryReversed" -> {event.reversal_id}
                  [] OTHER -> {}

FreshIds == EntryIds \ ((UNION {IdsIn(row.payload) : row \in ledger_events})
                        \union (UNION {IdsIn(writer[w].event) : w \in Writers}))

Request(w) ==
    /\ writer[w].phase \in {"idle", "stored", "rejected"}
    /\ writer[w].requests < MaxRequests
    /\ \E a \in AggregatesOf[TenantOf[w]], c \in Commands :
          writer' = [writer EXCEPT ![w].phase = "requested", ![w].aggregate = a,
                                   ![w].command = c, ![w].event = None,
                                   ![w].state = NewState, ![w].requests = @ + 1]
    /\ UNCHANGED <<ledger_events, reader, faults>>

Load(w) ==
    /\ writer[w].phase = "requested"
    /\ writer' = [writer EXCEPT ![w].phase = "loaded",
                                ![w].state = load(TenantOf[w], writer[w].aggregate)]
    /\ UNCHANGED <<ledger_events, reader, faults>>

HandleCommand(w) ==
    /\ writer[w].phase = "loaded"
    /\ LET state == writer[w].state.inner
       IN  \/ /\ CommandError(state, writer[w].command) # None
              /\ writer' = [writer EXCEPT ![w].phase = "rejected"]
           \/ /\ CommandError(state, writer[w].command) = None
              /\ \E id \in NewIds(writer[w].command, FreshIds) :
                    writer' = [writer EXCEPT ![w].phase = "decided",
                                             ![w].event = CommandEvent(state, writer[w].command, id)]
    /\ UNCHANGED <<ledger_events, reader, faults>>

\* Mutants: the sequence number comes from the table at insert time, not from the
\* state the command was decided on; the unique index is missing.
InsertAtEnd(w) ==
    /\ writer[w].phase = "decided"
    /\ ~ \E row \in Uncommitted : row.aggregate_id = writer[w].aggregate
    /\ writer' = [writer EXCEPT
                    ![w].state.sequence_number =
                        LastSequence(Visible(TenantOf[w], writer[w].aggregate)) + 1,
                    ![w].phase = "inserted"]
    /\ UNCHANGED <<ledger_events, reader, faults>>
InsertWithoutIndex(w) ==
    /\ writer[w].phase = "decided"
    /\ writer' = [writer EXCEPT ![w].state.sequence_number = @ + 1, ![w].phase = "inserted"]
    /\ UNCHANGED <<ledger_events, reader, faults>>

\* The body of persist up to its commit: next_sequence_number advances the
\* caller's state, then the INSERT meets the unique index.
Insert(w) ==
    LET next       == writer[w].state.sequence_number + 1
        holds(row) == /\ row.aggregate_id = writer[w].aggregate
                      /\ row.sequence_number = next
    IN  /\ writer[w].phase = "decided"
        /\ ~ \E row \in Uncommitted : holds(row)
        /\ writer' = [writer EXCEPT
                        ![w].state.sequence_number = next,
                        ![w].phase = IF \E row \in ledger_events : holds(row)
                                     THEN "conflict" ELSE "inserted"]
        /\ UNCHANGED <<ledger_events, reader, faults>>

\* Mutant: persist returns Ok without committing its transaction.
CommitForgotten(w) ==
    /\ writer[w].phase = "inserted"
    /\ writer' = [writer EXCEPT ![w].phase = "stored"]
    /\ UNCHANGED <<ledger_events, reader, faults>>

\* Mutant: the answer of a commit that succeeded is taken for a conflict.
CommitReportedAsConflict(w) ==
    /\ writer[w].phase = "inserted"
    /\ ledger_events' = ledger_events \union {RowOf(w)}
    /\ writer' = [writer EXCEPT ![w].phase = "conflict"]
    /\ UNCHANGED <<reader, faults>>

Commit(w) ==
    /\ writer[w].phase = "inserted"
    /\ ledger_events' = ledger_events \union {RowOf(w)}
    /\ writer' = [writer EXCEPT ![w].phase = "stored"]
    /\ UNCHANGED <<reader, faults>>

\* The connection breaks while COMMIT is in flight: the caller is told Backend
\* whether or not the row became durable.
CommitLost(w) ==
    /\ writer[w].phase = "inserted"
    /\ faults < MaxFaults
    /\ ledger_events' \in {ledger_events, ledger_events \union {RowOf(w)}}
    /\ writer' = [writer EXCEPT ![w].phase = "failed"]
    /\ faults' = faults + 1
    /\ UNCHANGED reader

\* Any other database error in load or persist: the transaction is rolled back.
BackendError(w) ==
    /\ writer[w].phase \in {"requested", "decided"}
    /\ faults < MaxFaults
    /\ writer' = [writer EXCEPT ![w].phase = "failed"]
    /\ faults' = faults + 1
    /\ UNCHANGED <<ledger_events, reader>>

\* Mutants: persist is retried on the state of the failed attempt, without a
\* reload; a conflict is not retried at all.
RetryWithoutReload(w) ==
    /\ writer[w].phase \in {"conflict", "failed"}
    /\ writer' = [writer EXCEPT ![w].phase = IF writer[w].event = None THEN "requested" ELSE "decided"]
    /\ UNCHANGED <<ledger_events, reader, faults>>
RetryFailedOnly(w) ==
    /\ writer[w].phase = "failed"
    /\ writer' = [writer EXCEPT ![w].phase = "requested", ![w].event = None, ![w].state = NewState]
    /\ UNCHANGED <<ledger_events, reader, faults>>

\* "reload the aggregate and retry"; after Backend the command is delivered again.
Retry(w) ==
    /\ writer[w].phase \in {"conflict", "failed"}
    /\ writer' = [writer EXCEPT ![w].phase = "requested", ![w].event = None, ![w].state = NewState]
    /\ UNCHANGED <<ledger_events, reader, faults>>

GiveUp(w) ==
    /\ writer[w].phase = "failed"
    /\ writer' = [writer EXCEPT ![w].phase = "idle", ![w].event = None, ![w].state = NewState]
    /\ UNCHANGED <<ledger_events, reader, faults>>

-----------------------------------------------------------------------------
(* GET /ledger/{id}/balance: load and event_count are separate transactions. *)

BalanceLoad(r) ==
    /\ reader[r].phase = "idle"
    /\ \E a \in AggregatesOf[TenantOf[r]] :
          reader' = [reader EXCEPT ![r].phase = "loaded", ![r].aggregate = a,
                                   ![r].state = load(TenantOf[r], a)]
    /\ UNCHANGED <<ledger_events, writer, faults>>

\* Mutant: the events are counted first and the state is loaded afterwards.
BalanceCountThenLoad(r) ==
    /\ reader[r].phase = "loaded"
    /\ reader' = [reader EXCEPT ![r].phase = "answered",
                                ![r].event_count = reader[r].state.sequence_number,
                                ![r].state = load(TenantOf[r], reader[r].aggregate)]
    /\ UNCHANGED <<ledger_events, writer, faults>>

BalanceRespond(r) ==
    /\ reader[r].phase = "loaded"
    /\ reader' = [reader EXCEPT
                    ![r].phase = "answered",
                    ![r].event_count = Len(InOrder(Visible(TenantOf[r], reader[r].aggregate)))]
    /\ UNCHANGED <<ledger_events, writer, faults>>

-----------------------------------------------------------------------------
Init ==
    /\ ledger_events = {}
    /\ writer = [w \in Writers |-> [phase |-> "idle", aggregate |-> None, command |-> None,
                                    state |-> NewState, event |-> None, requests |-> 0]]
    /\ reader = [r \in Readers |-> [phase |-> "idle", aggregate |-> None,
                                    state |-> NewState, event_count |-> 0]]
    /\ faults = 0

Progress(w) == Load(w) \/ HandleCommand(w) \/ Insert(w) \/ Commit(w) \/ Retry(w)

Next ==
    \/ \E w \in Writers : \/ Request(w) \/ Progress(w)
                          \/ CommitLost(w) \/ BackendError(w) \/ GiveUp(w)
    \/ \E r \in Readers : BalanceLoad(r) \/ BalanceRespond(r)

Spec == Init /\ [][Next]_vars

\* Callers run to completion: an async task that can take its next step is
\* polled again, and Postgres answers an insert that no transaction blocks.
FairSpec == Spec /\ \A w \in Writers : WF_vars(Progress(w))

-----------------------------------------------------------------------------
(* Properties. *)

WriterState == [phase : Phases, aggregate : Aggregates \union {None},
                command : Commands \union {None}, state : AggregateState,
                event : LedgerEvent \union {None}, requests : 0..MaxRequests]

ReaderState == [phase : {"idle", "loaded", "answered"}, aggregate : Aggregates \union {None},
                state : AggregateState, event_count : Nat]

TypeOK ==
    /\ ledger_events \subseteq Row
    /\ writer \in [Writers -> WriterState]
    /\ reader \in [Readers -> ReaderState]
    /\ faults \in 0..MaxFaults

\* The rows of row's stream that come before it.
Before(row) == {q \in Visible(row.tenant_id, row.aggregate_id) :
                    q.sequence_number < row.sequence_number}

\* The event is what handle_command answers to some command in the given state.
Legal(event, state) ==
    \E command \in Commands : \E id \in EntryIds \union {None} :
        /\ CommandError(state, command) = None
        /\ event = CommandEvent(state, command, id)

\* No lost update: every stored event was decided against exactly the events
\* that precede it in its stream, however loads, inserts, commits and faults of
\* the writers interleave ("the actual protection against lost updates",
\* 0003_ledger_events.sql, on ledger_events_aggregate_sequence).
EveryEventWasLegal ==
    \A row \in ledger_events : Legal(row.payload, Replayed(Before(row)))

\* Sequence numbers are 1..n without gap or repetition, and a stream belongs to
\* one tenant, although the index is not tenant-scoped and each writer computes
\* its number from a state that may be stale.
StreamsAreDense ==
    \A a \in Aggregates :
        LET rows == {row \in ledger_events : row.aggregate_id = a}
        IN  /\ {row.sequence_number : row \in rows} = 1..Cardinality(rows)
            /\ \A p, q \in rows : p.tenant_id = q.tenant_id

\* At-least-once delivery of a reversal is safe: redelivered after a lost
\* commit, or raced by another writer, it lands at most once.
ReversedAtMostOnce ==
    \A p, q \in ledger_events :
        /\ p.aggregate_id = q.aggregate_id
        /\ p.payload.kind = "EntryReversed" /\ q.payload.kind = "EntryReversed"
        /\ p.payload.original_id = q.payload.original_id
        => p = q

\* Requests a writer has finished with: the last one is not, while it is being
\* worked on, or was refused, or failed.
Finished(w) ==
    writer[w].requests - (IF writer[w].phase \in {"idle", "stored"} THEN 0 ELSE 1)

\* A command that is retried is stored once, except where its caller was told
\* Backend: PostJournalEntry carries no idempotency key (ADR 0004), so a lost
\* commit followed by a redelivery costs one extra event, and nothing else does.
\* Neither a conflict, at whatever point of persist, nor a rejected retry.
RetriesStoreNothingTwice ==
    Cardinality(ledger_events) <= MapThenSumSet(Finished, Writers) + faults

\* What a caller is told agrees with the log: Ok means its row is there, and an
\* attempt that is still open, or in conflict, has left nothing behind.
AnswersMatchTheLog ==
    \A w \in Writers :
        /\ writer[w].phase = "stored" => RowOf(w) \in ledger_events
        /\ writer[w].phase \in {"decided", "inserted", "conflict"} =>
              \A row \in ledger_events : IdsIn(writer[w].event) \intersect IdsIn(row.payload) = {}

\* "23505 = unique_violation. On this table that can only be the (aggregate_id,
\* sequence_number) index, i.e. a concurrent append" (persist): a conflict means
\* that the caller's own stream has grown since it was loaded, so that reloading
\* shows something new.  The index has no tenant_id, the stream has one.
ConflictMeansConcurrentAppend ==
    \A w \in Writers : writer[w].phase = "conflict" =>
        \E row \in Visible(TenantOf[w], writer[w].aggregate) :
            row.sequence_number = writer[w].state.sequence_number

\* The balance endpoint reads in two transactions, yet never shows more entries
\* than events, nor a projection with a non-zero trial balance.
BalanceViewIsCoherent ==
    \A r \in Readers : reader[r].phase = "answered" =>
        /\ entry_count(reader[r].state.inner) <= reader[r].event_count
        /\ reader[r].state.sequence_number <= reader[r].event_count
        /\ \A c \in Currencies : trial_balance(reader[r].state.inner, c) = 0

Waiting(w) == writer[w].phase \notin {"idle", "stored", "rejected"}

\* No stream has more events than this.
LongestStream == MaxRequests * Cardinality(Writers) + MaxFaults

\* "a conflict is recoverable, not fatal" (idempotency_pg.rs), as far as the code
\* makes it so: a caller that keeps reloading and retrying waits for nothing but
\* the appends of its rivals.  Whatever the length n of its stream is, it is
\* answered or the stream gets longer, also while the rivals go on to their next
\* commands.  Rivals that never stop appending may keep it waiting for ever:
\* persist does not order its callers.
WaitsOnlyForRivals ==
    \A w \in Writers, n \in 0..LongestStream :
        LET length == Cardinality(Visible(TenantOf[w], writer[w].aggregate))
        IN  Waiting(w) /\ length = n ~> ~Waiting(w) \/ length > n

-----------------------------------------------------------------------------
(***************************************************************************)
(* The inductive invariant behind EveryEventWasLegal.  A committed stream  *)
(* is exactly 1..n; a caller that has loaded holds the replay of a prefix  *)
(* of its stream; and the key that an open insert holds is taken by no     *)
(* committed row and by no other open insert.                              *)
(***************************************************************************)
UniqueKeys ==
    \A p, q \in ledger_events :
        p.aggregate_id = q.aggregate_id /\ p.sequence_number = q.sequence_number => p = q

StreamLength(t, a, n) ==
    \A k \in Nat \ {0} : (\E row \in Visible(t, a) : row.sequence_number = k) <=> k <= n

DenseStreams == \A t \in Tenants, a \in Aggregates : \E n \in Nat : StreamLength(t, a, n)

Prefix(t, a, n) == {row \in Visible(t, a) : row.sequence_number <= n}

\* Writer w holds the replay of the first n events of its stream.
HoldsPrefix(w, n) ==
    /\ n \in Nat
    /\ \A k \in 1..n : \E row \in Visible(TenantOf[w], writer[w].aggregate) :
                            row.sequence_number = k
    /\ writer[w].state.inner = Replayed(Prefix(TenantOf[w], writer[w].aggregate, n))

SameKey(p, q) == p.aggregate_id = q.aggregate_id /\ p.sequence_number = q.sequence_number

WriterInv(w) ==
    /\ writer[w].phase # "idle" => /\ writer[w].aggregate \in Aggregates
                                   /\ writer[w].command \in Commands
    /\ writer[w].phase \in {"loaded", "decided"} =>
          HoldsPrefix(w, writer[w].state.sequence_number)
    /\ writer[w].phase = "inserted" =>
          /\ HoldsPrefix(w, writer[w].state.sequence_number - 1)
          /\ \A row \in ledger_events : ~SameKey(RowOf(w), row)
          /\ \A v \in Writers : v # w /\ writer[v].phase = "inserted" =>
                                  ~SameKey(RowOf(w), RowOf(v))
    /\ writer[w].phase \in {"decided", "inserted"} =>
          /\ writer[w].event \in LedgerEvent
          /\ Legal(writer[w].event, writer[w].state.inner)

ReaderInv(r) == reader[r].phase # "idle" => reader[r].aggregate \in Aggregates

IndInv ==
    /\ TypeOK
    /\ UniqueKeys
    /\ DenseStreams
    /\ \A w \in Writers : WriterInv(w)
    /\ \A r \in Readers : ReaderInv(r)
    /\ EveryEventWasLegal

(***************************************************************************)
(* What else has to hold for the answers to match the log, by induction:   *)
(* the entry ids that open attempts have drawn are disjoint.               *)
(***************************************************************************)
AnswerInv ==
    /\ AnswersMatchTheLog
    /\ \A v, w \in Writers : v # w => IdsIn(writer[v].event) \intersect IdsIn(writer[w].event) = {}

-----------------------------------------------------------------------------
\* The store implements the one-command-at-a-time ledger.
Atomic == INSTANCE AtomicLedger
            WITH Streams <- Tenants \X Aggregates,
                 log <- [s \in Tenants \X Aggregates |-> InOrder(Visible(s[1], s[2]))]

\* Every step of every writer is, on the streams, a whole command or nothing.
ImplementsAtomicLedger == Atomic!Spec

=============================================================================
