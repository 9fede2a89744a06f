------------------------------- MODULE Ledger -------------------------------
(***************************************************************************)
(* The ledger aggregate of crates/events/src/ledger.rs as pure operators:  *)
(* handle_command decides a command against a state, apply_event folds an  *)
(* event into a state, and replay rebuilds a state from a stream.          *)
(*                                                                         *)
(* Decimal amounts are integers (minor units), ids and accounts are        *)
(* members of parameter sets.  The `dims', `reason', `policy_ref',         *)
(* `posted_at' and source back-references an event carries never influence *)
(* a decision or a balance and are left out.                               *)
(***************************************************************************)
EXTENDS Integers, Sequences, FiniteSets, SequencesExt

CONSTANTS
    Accounts,     \* AccountId
    Currencies,   \* Currency
    EntryIds,     \* EntryId: the supply EntryId::new() draws from
    Runs,         \* RunId
    None          \* Rust's Option::None

Statuses == {"Expensed", "Capitalized", "PendingReview"}

LedgerError == {"EmptyEntry", "LineHasBothSides", "LineHasNoAmount", "Currency", "Unbalanced",
                "UnknownEntry", "AlreadyReversed", "CapitalizationUnchanged"}

Money == [currency : Currencies, amount : Int]

JournalLine == [account : Accounts, debit : Money \union {None}, credit : Money \union {None}]

ASSUME NoneAssumption ==
    /\ None \notin LedgerError /\ None \notin Statuses
    /\ None \notin Money /\ None \notin Seq(JournalLine)

LedgerEvent ==
         [kind : {"JournalEntryPosted"}, id : EntryIds, lines : Seq(JournalLine)]
  \union [kind : {"EntryReversed"}, original_id : EntryIds, reversal_id : EntryIds]
  \union [kind : {"CapitalizationStatusChanged"}, run_id : Runs, from : Statuses, to : Statuses]

LedgerCommand ==
         [kind : {"PostJournalEntry"}, lines : Seq(JournalLine)]
  \union [kind : {"ReverseEntry"}, original_id : EntryIds]
  \union [kind : {"ChangeCapitalizationStatus"}, run_id : Runs, to : Statuses]

(***************************************************************************)
(* LedgerState.  The BTreeMaps are total functions whose value None means  *)
(* that the key is absent.                                                 *)
(***************************************************************************)
LedgerState == [balances       : [Accounts -> Money \union {None}],
                entries        : [EntryIds -> Seq(JournalLine) \union {None}],
                reversed       : SUBSET EntryIds,
                capitalization : [Runs -> Statuses \union {None}]]

DefaultState == [balances       |-> [a \in Accounts |-> None],
                 entries        |-> [e \in EntryIds |-> None],
                 reversed       |-> {},
                 capitalization |-> [r \in Runs |-> None]]

-----------------------------------------------------------------------------
(* Lines. *)

OneSided(line) == (line.debit = None) # (line.credit = None)

\* The amount of a line that carries exactly one side.
validate(line) == IF line.debit # None THEN line.debit ELSE line.credit

\* What is wrong with a line of an entry in the given currency, if anything.
LineError(line, currency) ==
    CASE OneSided(line) -> IF validate(line).currency = currency THEN None ELSE "Currency"
      [] line.debit # None /\ line.credit # None -> "LineHasBothSides"
      [] line.debit = None /\ line.credit = None -> "LineHasNoAmount"

\* The debit-positive contribution of a line; None unless exactly one side is set.
signed_amount(line) ==
    CASE line.debit # None /\ line.credit = None -> line.debit
      [] line.debit = None /\ line.credit # None -> [line.credit EXCEPT !.amount = -@]
      [] OTHER -> None

\* Mutant: the sides are not swapped.
MirrorSameSide(lines) == lines

mirror(lines) ==
    [i \in 1..Len(lines) |-> [account |-> lines[i].account,
                              debit   |-> lines[i].credit,
                              credit  |-> lines[i].debit]]

-----------------------------------------------------------------------------
(* apply_event: infallible. *)

\* One iteration of LedgerState::post.  An account takes the currency of its
\* first posting; a delta in another currency leaves the balance as it was.
PostLine(balances, line) ==
    LET delta   == signed_amount(line)
        current == balances[line.account]
    IN  IF delta = None THEN balances
        ELSE IF current = None THEN [balances EXCEPT ![line.account] = delta]
        ELSE IF current.currency = delta.currency
        THEN [balances EXCEPT ![line.account].amount = @ + delta.amount]
        ELSE balances

PostLines(balances, lines) ==
    LET after[n \in 0..Len(lines)] ==
            IF n = 0 THEN balances ELSE PostLine(after[n - 1], lines[n])
    IN  after[Len(lines)]

post(state, id, lines) ==
    [state EXCEPT !.balances    = PostLines(@, lines),
                  !.entries[id] = lines]

apply_event(state, event) ==
    CASE event.kind = "JournalEntryPosted" -> post(state, event.id, event.lines)
      [] event.kind = "EntryReversed" ->
            LET original == state.entries[event.original_id]
                posted   == IF original = None THEN state
                            ELSE post(state, event.reversal_id, mirror(original))
            IN  [posted EXCEPT !.reversed = @ \union {event.original_id}]
      [] event.kind = "CapitalizationStatusChanged" ->
            [state EXCEPT !.capitalization[event.run_id] = event.to]

\* AggregateState::apply_store_events over a stream read in sequence order.
replay(events) ==
    LET after[n \in 0..Len(events)] ==
            IF n = 0 THEN DefaultState ELSE apply_event(after[n - 1], events[n])
    IN  after[Len(events)]

-----------------------------------------------------------------------------
(* handle_command: the only place a command is refused. *)

SideTotal(lines, isDebit) ==
    LET Add(total, line) == IF (line.debit # None) = isDebit
                            THEN total + validate(line).amount
                            ELSE total
    IN  FoldLeft(Add, 0, lines)

\* Mutant: debits are not compared with credits.
PostErrorUnbalanced(lines) ==
    IF lines # <<>> /\ \A i \in DOMAIN lines : OneSided(lines[i]) THEN None ELSE "EmptyEntry"

\* The first line fixes the entry's currency; the first bad line decides the error.
PostError(lines) ==
    LET currency == IF OneSided(lines[1]) THEN validate(lines[1]).currency ELSE None
        bad      == {i \in DOMAIN lines : LineError(lines[i], currency) # None}
    IN  CASE lines = <<>> -> "EmptyEntry"
          [] lines # <<>> /\ bad # {} -> LineError(lines[Min(bad)], currency)
          [] lines # <<>> /\ bad = {} ->
                IF SideTotal(lines, TRUE) = SideTotal(lines, FALSE) THEN None ELSE "Unbalanced"

is_reversed(state, entry) == entry \in state.reversed

\* Mutants: the default of an unseen run is dropped, or is another status.
StatusWithoutDefault(state, run) == state.capitalization[run]
StatusDefaultExpensed(state, run) ==
    IF state.capitalization[run] = None THEN "Expensed" ELSE state.capitalization[run]

\* The status of a run the ledger has never seen is PendingReview.
StatusOf(state, run) ==
    IF state.capitalization[run] = None THEN "PendingReview" ELSE state.capitalization[run]

\* The error handle_command answers with, or None when it accepts.
CommandError(state, command) ==
    CASE command.kind = "PostJournalEntry" -> PostError(command.lines)
      [] command.kind = "ReverseEntry" ->
            IF state.entries[command.original_id] = None THEN "UnknownEntry"
            ELSE IF is_reversed(state, command.original_id) THEN "AlreadyReversed"
            ELSE None
      [] command.kind = "ChangeCapitalizationStatus" ->
            IF StatusOf(state, command.run_id) = command.to THEN "CapitalizationUnchanged"
            ELSE None

\* The ids a command may draw with EntryId::new(), given the ids not used so far.
NewIds(command, fresh) ==
    IF command.kind = "ChangeCapitalizationStatus" THEN {None} ELSE fresh

\* The one event an accepted command produces; id is the id it drew.
CommandEvent(state, command, id) ==
    CASE command.kind = "PostJournalEntry" ->
            [kind |-> "JournalEntryPosted", id |-> id, lines |-> command.lines]
      [] command.kind = "ReverseEntry" ->
            [kind |-> "EntryReversed", original_id |-> command.original_id, reversal_id |-> id]
      [] command.kind = "ChangeCapitalizationStatus" ->
            [kind |-> "CapitalizationStatusChanged", run_id |-> command.run_id,
             from |-> StatusOf(state, command.run_id), to |-> command.to]

-----------------------------------------------------------------------------
(* Queries on a projected state. *)

trial_balance(state, currency) ==
    LET held == {a \in Accounts : /\ state.balances[a] # None
                                  /\ state.balances[a].currency = currency}
    IN  MapThenSumSet(LAMBDA a : state.balances[a].amount, held)

entry_count(state) == Cardinality({e \in EntryIds : state.entries[e] # None})

=============================================================================
