---------------------------- MODULE CorpusRunner ----------------------------
(***************************************************************************)
(* One scenario of the corpus, from its files to its verdict.  The         *)
(* reference files are loaded into a chart; Runner::run                    *)
(* (crates/testkit/src/runner.rs) answers that the scenario is blocked or  *)
(* deferred, or executes it operation by operation against the ledger      *)
(* aggregate of module Ledger, keeping its own record of the entries; and  *)
(* tests/corpus.rs judges what came out.  The scenario's fate is `result'. *)
(***************************************************************************)
EXTENDS Assertions, AdsExport

CONSTANT Corpora    \* pairs of reference files and a scenario

\* The variants of RunError.
RunErrors == {"Param", "UnknownAccount", "BadOperation", "NoHandler", "Rejected", "ExpectedRejection"}

ASSUME CorpusAssumption ==
    /\ None \notin EntryIds /\ None \notin RunErrors
    /\ \A corpus \in Corpora : corpus.reference \in ReferenceFiles /\ IsScenario(corpus.scenario)

VARIABLES
    scenario,     \* the scenario being run
    position,     \* operations[position] is next; 0 before execute starts
    state,        \* LedgerState
    events,       \* Vec<LedgerEvent>
    entries,      \* Vec<EntryRecord>
    rejections,   \* the errors of the operations that expected one
    result        \* None while running, else a RunOutcome or a RunError

runnerVars == <<reference, chart, scenario, position, state, events, entries, rejections, result>>

Operation == scenario.operations[position]

RunnerInit ==
    /\ \E corpus \in Corpora : reference = corpus.reference /\ scenario = corpus.scenario
    /\ chart = None
    /\ position = 0
    /\ state = DefaultState
    /\ events = <<>> /\ entries = <<>> /\ rejections = <<>>
    /\ result = None

Answer(outcome, cause) ==
    /\ result' = [outcome |-> outcome, cause |-> cause]
    /\ UNCHANGED <<reference, chart, scenario, position, state, events, entries, rejections>>

\* ChartOfAccounts::corpus, on which every test of the corpus begins.
LoadChart == /\ chart = None /\ result = None
             /\ ChartError(reference) = None
             /\ chart' = ChartOfAccounts(reference)
             /\ UNCHANGED <<reference, scenario, position, state, events, entries, rejections,
                            result>>

RefuseChart == /\ chart = None /\ result = None
               /\ ChartError(reference) # None
               /\ Answer("ChartError", ChartError(reference))

-----------------------------------------------------------------------------
(* Runner::run *)

\* A kind that is not in the catalog is deferred like one that is not delivered.
Undeliverable(kind) == \A phase \in spec(kind) : ~is_delivered(phase)

\* The chart is there and the scenario not begun.
Loaded == chart # None /\ position = 0 /\ result = None

RunBlocked == /\ Loaded
              /\ scenario.status = "Blocked"
              /\ Answer("Blocked", None)

RunDeferred == /\ Loaded
               /\ scenario.status # "Blocked"
               /\ \E kind \in Kinds(scenario) : Undeliverable(kind)
               /\ Answer("Deferred", required_phase(scenario))

Deliverable == /\ scenario.status # "Blocked"
               /\ \A kind \in Kinds(scenario) : ~Undeliverable(kind)

\* execute's first step: the functional currency must be known.
Start == /\ Loaded
         /\ Deliverable
         /\ scenario.functional_ccy # Malformed
         /\ position' = 1
         /\ UNCHANGED <<reference, chart, scenario, state, events, entries, rejections, result>>

StartBadCurrency == /\ Loaded
                    /\ Deliverable
                    /\ scenario.functional_ccy = Malformed
                    /\ Answer("BadOperation", "currency")

-----------------------------------------------------------------------------
(* Turning an operation into a command. *)

LineFault(line) ==
    IF resolve(line.account) = None THEN "UnknownAccount"
    ELSE IF Malformed \in {line.currency, line.debit, line.credit} THEN "BadOperation"
    ELSE None

\* A line with both sides or neither is built as written: refusing it is the
\* aggregate's job.
JournalLineOf(line) ==
    LET currency == IF line.currency = None THEN scenario.functional_ccy ELSE line.currency
        Side(amount) == IF amount = None THEN None ELSE [currency |-> currency, amount |-> amount]
    IN  [account |-> resolve(line.account).code, debit |-> Side(line.debit), credit |-> Side(line.credit)]

\* The first line that cannot be built decides.
journal_lines(op) ==
    LET bad == {n \in DOMAIN op.lines : LineFault(op.lines[n]) # None}
    IN  [fault |-> IF bad = {} THEN None ELSE LineFault(op.lines[Min(bad)]),
         lines |-> IF bad = {} THEN [n \in DOMAIN op.lines |-> JournalLineOf(op.lines[n])] ELSE <<>>]

\* The position of the entry a reference names, or 0.
Find(target) == SelectInSeq(entries, LAMBDA entry : entry.entry_ref = target)

\* Why no command can be made of the operation, if none can.
Fault(op) ==
    CASE op.kind = "post_entry" ->
            IF op.lines = None THEN "Param" ELSE journal_lines(op).fault
      [] op.kind = "reverse_entry" ->
            IF op.ref = None THEN "Param" ELSE IF Find(op.ref) = 0 THEN "BadOperation" ELSE None
      [] op.kind = "set_capitalization" ->
            IF None \in {op.run, op.to} THEN "Param"
            ELSE IF op.to = Malformed THEN "BadOperation" ELSE None
      [] OTHER -> "NoHandler"

Command(op) ==
    CASE op.kind = "post_entry" ->
            [kind |-> "PostJournalEntry", lines |-> journal_lines(op).lines]
      [] op.kind = "reverse_entry" ->
            [kind |-> "ReverseEntry", original_id |-> entries[Find(op.ref)].entry_id]
      [] op.kind = "set_capitalization" ->
            [kind |-> "ChangeCapitalizationStatus", run_id |-> op.run, to |-> op.to]

-----------------------------------------------------------------------------
(* The runner's own record of what was posted. *)

\* The corpus's independent statement of what a reversal looks like.
RunnerMirror(lines) ==
    [n \in DOMAIN lines |-> [account |-> lines[n].account,
                             debit   |-> lines[n].credit,
                             credit  |-> lines[n].debit]]

EntryRecord(id, entity, lines, reversed) ==
    [entry_id |-> id, entry_ref |-> Operation.ref, journal_id |-> position,
     entity |-> entity, lines |-> lines, reversal_of |-> reversed]

OwnEntity == IF Operation.entity = None THEN scenario.entity ELSE Operation.entity

\* Mutant: a reversal is recorded with the sides it reverses.
RecordUnmirrored(event) ==
    CASE event.kind = "JournalEntryPosted" ->
            Append(entries, EntryRecord(event.id, OwnEntity, event.lines, None))
      [] event.kind = "EntryReversed" ->
            Append(entries, EntryRecord(event.reversal_id, scenario.entity,
                                        entries[Find(Operation.ref)].lines, event.original_id))
      [] OTHER -> entries

\* The journal id of a record is the index of the operation that made it.  A
\* reversal is recorded in the scenario's entity, wherever its original is.
record_entry(event) ==
    CASE event.kind = "JournalEntryPosted" ->
            Append(entries, EntryRecord(event.id, OwnEntity, event.lines, None))
      [] event.kind = "EntryReversed" ->
            LET original == SelectInSeq(entries, LAMBDA e : e.entry_id = event.original_id)
            IN  Append(entries,
                       EntryRecord(event.reversal_id, scenario.entity,
                                   IF original = 0 THEN <<>> ELSE RunnerMirror(entries[original].lines),
                                   event.original_id))
      [] event.kind = "CapitalizationStatusChanged" -> entries

-----------------------------------------------------------------------------
(* execute's loop: one iteration is one of these actions. *)

Executing == result = None /\ position \in DOMAIN scenario.operations

Executable == Executing /\ Fault(Operation) = None

\* The operation cannot be turned into a command: the run ends in an error.
Abandon == /\ Executing
           /\ Fault(Operation) # None
           /\ Answer(Fault(Operation), position)

\* EntryId::new() draws an id that was never used.
Unused == {e \in EntryIds : state.entries[e] = None}

\* Mutant: a change of capitalization is applied and not logged.
AcceptUnlogged ==
    /\ Executable /\ ~Operation.expect_rejection
    /\ CommandError(state, Command(Operation)) = None
    /\ \E id \in NewIds(Command(Operation), Unused) :
          LET event == CommandEvent(state, Command(Operation), id)
          IN  /\ entries' = record_entry(event)
              /\ state' = apply_event(state, event)
              /\ events' = IF id = None THEN events ELSE Append(events, event)
    /\ position' = position + 1
    /\ UNCHANGED <<reference, chart, scenario, rejections, result>>

\* The ledger accepts, as the scenario expects.
Accept ==
    /\ Executable
    /\ ~Operation.expect_rejection
    /\ CommandError(state, Command(Operation)) = None
    /\ \E id \in NewIds(Command(Operation), Unused) :
          LET event == CommandEvent(state, Command(Operation), id)
          IN  /\ entries' = record_entry(event)
              /\ state' = apply_event(state, event)
              /\ events' = Append(events, event)
    /\ position' = position + 1
    /\ UNCHANGED <<reference, chart, scenario, rejections, result>>

\* The ledger accepts what the scenario says it must refuse.
AcceptUnexpectedly == /\ Executable
                      /\ Operation.expect_rejection
                      /\ CommandError(state, Command(Operation)) = None
                      /\ Answer("ExpectedRejection", position)

\* The ledger refuses, as the scenario expects: the error is kept, nothing is posted.
Reject ==
    /\ Executable
    /\ Operation.expect_rejection
    /\ CommandError(state, Command(Operation)) # None
    /\ rejections' = Append(rejections, CommandError(state, Command(Operation)))
    /\ position' = position + 1
    /\ UNCHANGED <<reference, chart, scenario, state, events, entries, result>>

\* The ledger refuses what the scenario says it must accept.
RejectUnexpectedly == /\ Executable
                      /\ ~Operation.expect_rejection
                      /\ CommandError(state, Command(Operation)) # None
                      /\ Answer("Rejected", CommandError(state, Command(Operation)))

Finish == /\ result = None /\ position = Len(scenario.operations) + 1
          /\ Answer("Executed", None)

\* The answer is final.
Ended == result # None /\ UNCHANGED runnerVars

RunnerNext ==
    \/ LoadChart \/ RefuseChart
    \/ RunBlocked \/ RunDeferred \/ Start \/ StartBadCurrency
    \/ Abandon \/ Accept \/ AcceptUnexpectedly \/ Reject \/ RejectUnexpectedly
    \/ Finish \/ Ended

RunnerSpec == RunnerInit /\ [][RunnerNext]_runnerVars

-----------------------------------------------------------------------------
(* tests/corpus.rs: the verdict on a run. *)

\* LedgerRun::trial_balance, by label: every account with a balance was resolved
\* by one of the run's lines.
TrialBalance ==
    [l \in {label(chart.by_code[a]) : a \in {b \in Accounts : state.balances[b] # None}} |->
        state.balances[l.code].amount]

Code(code) == [code |-> code, name |-> None]

\* Balances are compared by code; "1000-Cash" sorts after "1000" and wins.
Normalize(balances) ==
    [ref \in {Code(r.code) : r \in DOMAIN balances} |->
        LET named == {r \in DOMAIN balances : r.code = ref.code /\ r.name # None}
        IN  balances[IF named # {} THEN CHOOSE r \in named : TRUE ELSE ref]]

Matches == Normalize(TrialBalance) = Normalize(scenario.trial_balance)

\* The invariants a scenario claims for itself, and the one held to it anyway.
\* Nothing looks at a claim of subledger_ties or roll_forward.
BrokenInvariants ==
    {v \in {"balanced", "replay_stable", "intercompany_eliminated", "negative_balance"} :
        \/ /\ v = "balanced" /\ v \in scenario.claims
           /\ \E i \in DOMAIN entries : ~assert_balanced(entries[i].lines)
        \/ /\ v = "replay_stable" /\ v \in scenario.claims
           /\ ~assert_replay_stable(events, state)
        \/ /\ v = "intercompany_eliminated" /\ v \in scenario.claims
           /\ ~assert_intercompany_eliminated(Normalize(TrialBalance))
        \/ /\ v = "negative_balance"
           /\ ~assert_no_unexpected_negative_balances(
                  Normalize(TrialBalance), {Code(r.code) : r \in scenario.unusual_balances})}

\* What run_category reports of the scenario once it has an answer.
Failures ==
    CASE result.outcome \in RunErrors ->
            IF scenario.status = "Divergent" THEN {} ELSE {"run_error"}
      [] result.outcome = "Executed" ->
            IF ~Parses(scenario.trial_balance) THEN {"not_decimal"}
            ELSE IF scenario.status = "Divergent" THEN IF Matches THEN {"promote"} ELSE {}
            ELSE IF Matches THEN BrokenInvariants ELSE {"mismatch"}
      [] OTHER -> {}

-----------------------------------------------------------------------------
(* Properties. *)

Valid == chart # None /\ Defects(scenario) = {}
Executed == result # None /\ result.outcome = "Executed"

\* What the reference files mean does not depend on the order of their rows,
\* although load checks each row against the ones before it and stops at the
\* first fault; and in a loaded chart every row is found again.
ChartIgnoresFileOrder ==
    position = 0 /\ (chart # None \/ result # None) =>
        /\ OrderOfRowsIsIrrelevant
        /\ chart # None => RowsAreFound

(***************************************************************************)
(* The records the runner keeps beside the ledger, from which the audit    *)
(* extract is built, are the ledger's entries: one record per entry, the   *)
(* reversals mirrored by the runner's own code line for line as the        *)
(* aggregate mirrors them.  A reversal is recorded under the reference of  *)
(* the entry it reverses, so a reference can name two records; it still    *)
(* only ever resolves to a posting: reversing a reference twice is refused *)
(* by the ledger and never reverses the reversal.                          *)
(***************************************************************************)
RecordsAreTheLedgersEntries ==
    /\ {entries[i].entry_id : i \in DOMAIN entries} = {e \in EntryIds : state.entries[e] # None}
    /\ \A i, j \in DOMAIN entries : entries[i].entry_id = entries[j].entry_id => i = j
    /\ \A i \in DOMAIN entries : state.entries[entries[i].entry_id] = entries[i].lines
    /\ \A i, j \in DOMAIN entries :
          entries[i].reversal_of = entries[j].entry_id => entries[j].reversal_of = None

(***************************************************************************)
(* What execute has done so far is exactly the operations it accepted: the *)
(* log replays to the live state, and every operation passed left either   *)
(* one event or, when it was to be refused, one error.                     *)
(***************************************************************************)
RefusalsLeaveNoTrace ==
    /\ assert_replay_stable(events, state)
    /\ position > 0 => Len(events) + Len(rejections) = position - 1
    /\ position > 0 => Len(rejections) = Cardinality({i \in 1 .. position - 1 :
                                                        scenario.operations[i].expect_rejection})

\* The entries recorded for an entity, and what their lines bring in a currency.
EntitiesUsed == {entries[i].entity : i \in DOMAIN entries}

ScopedAmounts(entity, currency) ==
    LET scoped == {p \in Places(entries) :
                      /\ entries[p[1]].entity = entity
                      /\ signed_amount(LineAt(entries, p)).currency = currency}
    IN  [p \in scoped |-> signed_amount(LineAt(entries, p)).amount]

\* The currency of an entry, and whether it touches an account kept in another.
CurrencyOf(entry) == signed_amount(entry.lines[1]).currency

TouchesRestricted(entry) ==
    \E n \in DOMAIN entry.lines :
        chart.by_code[entry.lines[n].account].currency \notin {None, CurrencyOf(entry)}

(***************************************************************************)
(* The corpus's own reading of balance holds of whatever handle_command    *)
(* let through: the signed lines of an entry sum to zero, an entry keeps   *)
(* to one currency, and so the balances are zero "within each scope        *)
(* separately", in every entity and currency, although a reversal may be   *)
(* recorded in another entity than its original and only the sum over all  *)
(* of them is ever checked.  The third clause of invariant 5 fails exactly *)
(* on the entries that touch an account restricted to another currency,    *)
(* which nothing refuses.                                                  *)
(***************************************************************************)
EveryScopeBalances ==
    /\ assert_trial_balance_zero([scope \in EntitiesUsed \X Currencies |->
                                     ScopedAmounts(scope[1], scope[2])])
    /\ \A i \in DOMAIN entries :
          /\ assert_balanced(entries[i].lines)
          /\ assert_currency_isolation(entries[i].lines, CurrencyOf(entries[i]))
                <=> ~TouchesRestricted(entries[i])

\* No account was posted to in two currencies (see two_currencies).
OneCurrencyPerAccount ==
    \A i, j \in DOMAIN entries :
        CurrencyOf(entries[i]) # CurrencyOf(entries[j]) =>
            {entries[i].lines[n].account : n \in DOMAIN entries[i].lines}
              \intersect {entries[j].lines[n].account : n \in DOMAIN entries[j].lines} = {}

(***************************************************************************)
(* The audit extract of every executed scenario reconciles: its debits and *)
(* credits foot, the balances re-derived from its unsigned rows are the    *)
(* trial balance file's and the ledger's, negative amounts and reversals   *)
(* included, it holds as many entries as the ledger, and its rows refer to *)
(* accounts the extract lists, and to business units it lists when the     *)
(* scenario is valid and no operation named an entity of its own.          *)
(***************************************************************************)
ExtractReconciles ==
    Executed =>
        LET rows     == gl_detail(entries)
            balances == trial_balance_rows(scenario.entity, state)
        IN  /\ OneCurrencyPerAccount =>
                  reconcile(rows, balances, [a \in {l.code : l \in DOMAIN TrialBalance} |->
                                                state.balances[a].amount])
            /\ control_total(rows).entry_count = entry_count(state)
            /\ \A row \in Range(rows) \union balances :
                  /\ row.account \in {listed.account : listed \in ChartListing}
                  /\ Valid => \/ row.business_unit \in {unit.code : unit \in BusinessUnitListing}
                             \/ \E op \in Range(scenario.operations) : op.entity = row.business_unit

(***************************************************************************)
(* A scenario without a defect cannot fail by a slip validate claims to    *)
(* catch: it never names an unknown account, never posts a line with both  *)
(* sides or neither without saying so, and is never deferred to a phase    *)
(* that has already landed.                                                *)
(***************************************************************************)
ValidatedRunsFailOnPurpose ==
    Valid /\ result # None =>
        /\ result.outcome # "UnknownAccount"
        /\ result.outcome = "Param" => Operation.kind # "post_entry"
        /\ result.outcome = "Rejected" => result.cause \notin {"LineHasBothSides", "LineHasNoAmount"}
        /\ result.outcome = "Deferred" => /\ ~is_delivered(result.cause)
                                          /\ result.cause = scenario.phase

(***************************************************************************)
(* Two answers to the same question agree on a scenario without a defect:  *)
(* is_executable, from the phases, says what run decides operation by      *)
(* operation; and an operation that run lets through has a handler, so the *)
(* catalog and execute have not drifted apart.                             *)
(***************************************************************************)
ExecutableMeansExecuted ==
    Valid /\ result # None =>
        /\ is_executable(scenario) <=> result.outcome \notin {"Blocked", "Deferred"}
        /\ result.outcome # "NoHandler"

(***************************************************************************)
(* A verdict says something about the ledger.  A valid scenario that ran   *)
(* fails only by its numbers or by intercompany balances it claimed to be  *)
(* eliminated: once it produces what it expects, the invariants asserted   *)
(* on every run cannot fail, because the two copies of the side rule, on   *)
(* the file and on the run, agree across the comparison by code.  A        *)
(* divergent scenario fails only once its divergence is gone.  And a ready *)
(* one that passes ended with a balance it expected on every account, and  *)
(* with no other.                                                          *)
(***************************************************************************)
VerdictsAreEarned ==
    Valid /\ result # None =>
        /\ Failures \subseteq IF scenario.status = "Divergent" THEN {"promote"}
                              ELSE {"run_error", "mismatch", "intercompany_eliminated"}
        /\ Executed /\ Failures = {} /\ scenario.status = "Ready" =>
              \A a \in Accounts :
                  LET refs == {r \in DOMAIN scenario.trial_balance : r.code = a}
                  IN  IF refs = {} THEN state.balances[a] = None
                      ELSE /\ state.balances[a] # None
                           /\ \E r \in refs : scenario.trial_balance[r] = state.balances[a].amount

=============================================================================
