----------------------------- MODULE Ingestion ------------------------------
(***************************************************************************)
(* Provider ingestion: the AWS FOCUS connector                             *)
(* (crates/cost-spine/src/providers/aws.rs) between the provider's export  *)
(* files and the cost table.  The provider publishes an export per billing *)
(* period and restates the open period, the last one, in place.  A poll    *)
(* lists the exports from its cursor, reads them one by one, normalizes    *)
(* the rows and upserts the batch, which is one step here (CostSpine       *)
(* implements it).  The polling loop itself is not in the repository: it   *)
(* saves the last export it read as its cursor, and skips rows that        *)
(* normalize refuses.                                                      *)
(***************************************************************************)
EXTENDS CostEvents, Attribution

CONSTANTS
    Periods,          \* billing periods, 1..n in time: one export each
    Lines,            \* invoice lines within a period: what derive_external_id reads of a row
    Tenant,           \* the tenant the connector is configured for
    ObjectTagsOf, ColumnTagsOf,   \* the two shapes in which a content carries tags
    CodeOf,           \* the BillingCurrency of a content: a currency, Unlisted, or Absent
    Unlisted,         \* a code that names none of the currencies the code knows
    DefaultCurrency,  \* the currency the account invoices in
    ChargePeriodOf,   \* the charge period of a line, <<start, end>>
    Unreadable,       \* the contents with a column missing or unparseable
    Files,            \* what an export may hold: sequences of rows
    Malformed,        \* an export that is no CSV
    MaxChanges,       \* bound: changes the provider makes
    MaxPolls          \* bound: polls

FocusRow == [line : Lines, content : Contents]

ASSUME IngestionAssumption ==
    /\ IsFiniteSet(Periods) /\ Periods = 1..Cardinality(Periods) /\ None \notin Periods
    /\ Tenant \in Tenants
    /\ ExternalIds = Periods \X Lines
    /\ ObjectTagsOf \in [Contents -> Tags] /\ ColumnTagsOf \in [Contents -> Tags]
    /\ CodeOf \in [Contents -> Currencies \union {Unlisted, Absent}]
    /\ DefaultCurrency \in Currencies /\ Unlisted \notin Currencies
    /\ ChargePeriodOf \in [Lines -> Nat \X Nat]
    /\ Unreadable \subseteq Contents
    /\ Absent = None
    /\ Files \subseteq Seq(FocusRow)
    /\ Malformed \notin Files
    /\ MaxChanges \in Nat /\ MaxPolls \in Nat

VARIABLES
    exports,          \* the export files, oldest first; exports[i] is period i's
    poll,             \* the poll under way
    cursor,           \* the period of last_export_ref, None at the beginning
    changes, polls,   \* counters for the bounds
    mirrored          \* history: the last batch stored was read after the last change

pollingVars == <<exports, cost_events, poll, cursor, changes, polls, mirrored>>

NoPoll == [phase |-> "idle", todo |-> {}, records |-> <<>>, last |-> None, current |-> FALSE]

-----------------------------------------------------------------------------
(* The provider. *)

Publish ==
    /\ changes < MaxChanges
    /\ Len(exports) < Cardinality(Periods)
    /\ \E file \in Files \union {Malformed} : exports' = Append(exports, file)
    /\ changes' = changes + 1
    /\ poll' = [poll EXCEPT !.current = FALSE]
    /\ mirrored' = FALSE
    /\ UNCHANGED <<cost_events, cursor, polls>>

Restate ==
    /\ changes < MaxChanges
    /\ exports # <<>>
    /\ \E file \in Files \union {Malformed} : exports' = [exports EXCEPT ![Len(exports)] = file]
    /\ changes' = changes + 1
    /\ poll' = [poll EXCEPT !.current = FALSE]
    /\ mirrored' = FALSE
    /\ UNCHANGED <<cost_events, cursor, polls>>

-----------------------------------------------------------------------------
(* The connector. *)

\* Mutant: resume after the cursor.
list_exports_after(from) == {i \in DOMAIN exports : from = None \/ i > from}

\* Resume at the cursor, not after it.
list_exports(from) == {i \in DOMAIN exports : from = None \/ i >= from}

\* Mutant: the billing period is left out of the identity.
derive_external_id_of_line(row, billing_period) == <<1, row.line>>

derive_external_id(row, billing_period) == <<billing_period, row.line>>

\* The fallback covers the codes that are not listed as well as a missing one.
parse_currency(code, fallback) == IF code \in {Absent, Unlisted} THEN fallback ELSE code

TagsOf(content) == collect_tags(ObjectTagsOf[content], ColumnTagsOf[content])

\* CostEvent::new returns InvalidChargePeriod.  All its amounts are in the one
\* currency of the row, so that it never returns MixedCurrency.
InvalidChargePeriod(line) == ChargePeriodOf[line][2] <= ChargePeriodOf[line][1]

\* normalize fails: a column, the attribution, or the period.
Refused(row) == \/ row.content \in Unreadable
                \/ AttributionFails(TagsOf(row.content))
                \/ InvalidChargePeriod(row.line)

\* The event of a row that is not refused; its dimensions are those of the content.
normalize(raw) ==
    [tenant_id |-> Tenant,
     external_id |-> derive_external_id(raw.row, raw.billing_period),
     content |-> raw.row.content]

\* What a content stands for beside the row: its dimensions and its currency.
ASSUME NormalizeAssumption ==
    \A c \in Contents \ Unreadable : ~AttributionFails(TagsOf(c)) =>
        /\ RunOf[c] = attribute(TagsOf(c)).ids["run"]
        /\ CurrencyOf[c] = parse_currency(CodeOf[c], DefaultCurrency)

\* The batch: the events of the records that are not refused, in their order.
EventsOf(records) ==
    LET upto[n \in 0..Len(records)] ==
            IF n = 0 THEN <<>>
            ELSE IF Refused(records[n].row) THEN upto[n - 1]
                 ELSE Append(upto[n - 1], normalize(records[n]))
    IN  upto[Len(records)]

BeginPoll ==
    /\ poll.phase = "idle"
    /\ polls < MaxPolls
    /\ polls' = polls + 1
    /\ poll' = [NoPoll EXCEPT !.phase = "reading", !.todo = list_exports(cursor), !.current = TRUE]
    /\ UNCHANGED <<exports, cost_events, cursor, changes, mirrored>>

\* read_export of the next one, and its rows as RawCostRecords.
ReadExport ==
    /\ poll.phase = "reading" /\ poll.todo # {}
    /\ LET i == Min(poll.todo)
       IN  /\ exports[i] # Malformed
           /\ poll' = [poll EXCEPT !.todo = @ \ {i}, !.last = i,
                 !.records = @ \o [k \in DOMAIN exports[i] |-> [row |-> exports[i][k], billing_period |-> i]]]
    /\ UNCHANGED <<exports, cost_events, cursor, changes, polls, mirrored>>

\* MalformedExport, or a Transport error: fetch_since returns no records at all.
FetchFails ==
    /\ poll.phase = "reading"
    /\ poll' = NoPoll
    /\ UNCHANGED <<exports, cost_events, cursor, changes, polls, mirrored>>

\* Normalize the records and upsert the batch.
Store ==
    /\ poll.phase = "reading" /\ poll.todo = {}
    /\ cost_events' = Upserted(cost_events, EventsOf(poll.records))
    /\ mirrored' = poll.current
    /\ poll' = [poll EXCEPT !.phase = "stored"]
    /\ UNCHANGED <<exports, cursor, changes, polls>>

SaveCursor ==
    /\ poll.phase = "stored"
    /\ cursor' = IF poll.last = None THEN cursor ELSE poll.last
    /\ poll' = NoPoll
    /\ UNCHANGED <<exports, cost_events, changes, polls, mirrored>>

\* The process stops, or the upsert fails: the cursor stays.
Crash ==
    /\ poll.phase \in {"reading", "stored"}
    /\ poll' = NoPoll
    /\ UNCHANGED <<exports, cost_events, cursor, changes, polls, mirrored>>

-----------------------------------------------------------------------------
PollingInit ==
    /\ exports = <<>>
    /\ cost_events = EmptyTable
    /\ poll = NoPoll
    /\ cursor = None
    /\ changes = 0 /\ polls = 0
    /\ mirrored = TRUE

PollingNext == Publish \/ Restate \/ BeginPoll \/ ReadExport \/ FetchFails \/ Store \/ SaveCursor \/ Crash

PollingSpec == PollingInit /\ [][PollingNext]_pollingVars

-----------------------------------------------------------------------------
(* Properties. *)

\* What the exports now say of a line: its last row that normalizes.
SaidOf(i, line) ==
    LET at == {k \in DOMAIN exports[i] : exports[i][k].line = line /\ ~Refused(exports[i][k])}
    IN  IF at = {} THEN None ELSE exports[i][Max(at)].content

\* Once a poll that began after the provider's last change has stored its
\* batch, the table says of every line what the exports say, although the
\* cursor skips the exports before the last one, polls crash before the cursor
\* is saved, and files change while they are read.
TableMirrorsExports ==
    mirrored =>
        \A i \in DOMAIN exports : exports[i] # Malformed =>
            \A line \in Lines :
                SaidOf(i, line) # None =>
                    find_by_external_id(cost_events, Tenant, <<i, line>>) = SaidOf(i, line)

\* Export i has nothing that ingestion changes the meaning of: every row
\* normalizes, each line is listed once, no currency code is unlisted, and no
\* line that was read before has been withdrawn.
Plain(i) ==
    LET file == exports[i]
    IN  /\ file # Malformed
        /\ \A k \in DOMAIN file : ~Refused(file[k]) /\ CodeOf[file[k].content] # Unlisted
        /\ \A j, k \in DOMAIN file : file[j].line = file[k].line => j = k
        /\ \A line \in Lines : find_by_external_id(cost_events, Tenant, <<i, line>>) # None =>
               \E k \in DOMAIN file : file[k].line = line

\* The rows of all the exports, and the currency each is billed in.
Listed == UNION {{<<i, k>> : k \in DOMAIN exports[i]} : i \in DOMAIN exports}
ContentAt(at) == exports[at[1]][at[2]].content
BilledIn(at) == IF CodeOf[ContentAt(at)] = Absent THEN DefaultCurrency ELSE CodeOf[ContentAt(at)]

\* Nothing is lost, merged or counted twice on the way: when the exports are
\* plain, the table's total in each currency and its attribution coverage are
\* those of the invoice, row by row.  The identity is derived from "the tuple
\* that makes a line unique within a billing period" (aws.rs), so two lines of
\* two periods may never meet in one row, however often and in whatever batches
\* they are delivered.
InvoiceIsConserved ==
    mirrored /\ (\A i \in DOMAIN exports : Plain(i)) =>
        LET stored == RowsOf(cost_events, Tenant)
        IN  /\ \A c \in Currencies :
                  MapThenSumSet(LAMBDA key : CostOf[cost_events[key]],
                                {key \in stored : CurrencyOf[cost_events[key]] = c})
                  = MapThenSumSet(LAMBDA at : CostOf[ContentAt(at)],
                                  {at \in Listed : BilledIn(at) = c})
            /\ attribution_coverage(cost_events, Tenant) =
                  [total_events |-> Cardinality(Listed),
                   run_attributed |-> Cardinality({at \in Listed :
                       attribute(TagsOf(ContentAt(at))).ids["run"] # Absent})]

\* Every stored row is fully attributed: its project and its team are known,
\* and no dimension comes from a tag that is no identifier ("an unattributed
\* cost that silently lands on a placeholder project is worse than one that
\* visibly fails to ingest").
StoredRowsAreAttributed ==
    \A key \in Keys : cost_events[key] # None =>
        LET dims == attribute(TagsOf(cost_events[key]))
        IN  /\ \A d \in Required : dims.ids[d] \in Ids
            /\ \A d \in Optional : dims.ids[d] \in Ids \union {Absent}
            /\ dims.ids["run"] # Absent /\ dims.function # "RND" =>
                  \E k \in TagKeys : TagsOf(cost_events[key])[k] \in Workloads

-----------------------------------------------------------------------------
(* Why they hold.  Only the last export is ever restated, so what a poll has       *)
(* read of the ones before it stays true until it is stored, and what is stored    *)
(* of the ones below the cursor stays true for ever.                               *)

RawCostRecord == [row : FocusRow, billing_period : Periods]

\* The records among the first n that say something of an external id.
Saying(records, n, x) ==
    {k \in 1..n : /\ derive_external_id(records[k].row, records[k].billing_period) = x
                  /\ ~Refused(records[k].row)}

\* What the first n records say of an external id: the last of them to do so.
LastSaid(records, n, x) ==
    IF Saying(records, n, x) = {} THEN None ELSE records[Max(Saying(records, n, x))].row.content

PollingTypeOK ==
    /\ exports \in Seq(Files \union {Malformed}) /\ Len(exports) <= Cardinality(Periods)
    /\ cost_events \in CostTable
    /\ poll \in [phase : {"idle", "reading", "stored"}, todo : SUBSET Periods,
                 records : Seq(RawCostRecord), last : Periods \union {None}, current : BOOLEAN]
    /\ cursor \in {None} \union DOMAIN exports
    /\ mirrored \in BOOLEAN

\* What is stored comes from exports that are there, and was attributed.
StoredInv ==
    \A key \in Keys : cost_events[key] # None =>
        /\ key[1] = Tenant /\ key[2][1] \in DOMAIN exports
        /\ cost_events[key] \notin Unreadable
        /\ ~AttributionFails(TagsOf(cost_events[key]))

\* The table says of the lines of export i what the export says.
MirroredAt(i) ==
    /\ exports[i] # Malformed
    /\ \A line \in Lines : SaidOf(i, line) # None =>
          find_by_external_id(cost_events, Tenant, <<i, line>>) = SaidOf(i, line)

CursorInv == cursor # None => \A i \in 1..(cursor - 1) : MirroredAt(i)

\* The export a poll resumes at.
Resumed == IF cursor = None THEN 1 ELSE cursor

\* A poll has listed the exports up to m and read those before j.  What it holds of
\* the ones before m, and of m while nothing has changed, is what they say.
HasRead(m, j) ==
    /\ poll.todo = j..m
    /\ poll.last = IF j = Resumed THEN None ELSE j - 1
    /\ poll.current => m = Len(exports)
    /\ \A x \in ExternalIds : x[1] \notin Resumed..(j - 1) =>
          LastSaid(poll.records, Len(poll.records), x) = None
    /\ \A i \in Resumed..(j - 1) : i < m \/ poll.current =>
          /\ exports[i] # Malformed
          /\ \A line \in Lines :
                LastSaid(poll.records, Len(poll.records), <<i, line>>) = SaidOf(i, line)
    /\ poll.phase = "stored" => j = m + 1 /\ \A i \in Resumed..(m - 1) : MirroredAt(i)

PollInv ==
    poll.phase # "idle" =>
        \E m \in 0..Len(exports) : \E j \in Resumed..(m + 1) : HasRead(m, j)

PollingInv ==
    /\ PollingTypeOK
    /\ StoredInv
    /\ CursorInv
    /\ PollInv
    /\ TableMirrorsExports

=============================================================================
