---------------------------- MODULE AtomicLedger ----------------------------
(***************************************************************************)
(* What the ledger promises: every stream is a sequence of events, each    *)
(* one the answer of handle_command to some command in the state that the  *)
(* events before it replay to, as though commands were handled one at a    *)
(* time.  The module is the abstract specification that LedgerStore        *)
(* implements, and the place where the aggregate's own bookkeeping (the    *)
(* balances, the reversals, the capitalization trail) is examined.         *)
(***************************************************************************)
EXTENDS Ledger

CONSTANTS
    Streams,     \* the ledgers: one stream of events each
    Commands     \* the commands callers may issue

ASSUME AtomicLedgerAssumption == Commands \subseteq LedgerCommand

VARIABLE log     \* log[s] is the sequence of events of stream s

IdsOf(events) ==
    {e \in EntryIds : replay(events).entries[e] # None}

\* A command handled to completion: decided, and its event appended.
Handle(s, command, id) ==
    LET state == replay(log[s])
    IN  /\ CommandError(state, command) = None
        /\ log' = [log EXCEPT ![s] = Append(@, CommandEvent(state, command, id))]

\* EntryId::new() never repeats an id.
Fresh == EntryIds \ UNION {IdsOf(log[s]) : s \in Streams}

Init == log = [s \in Streams |-> <<>>]

Next == \E s \in Streams, command \in Commands :
            \E id \in NewIds(command, Fresh) : Handle(s, command, id)

Spec == Init /\ [][Next]_log

-----------------------------------------------------------------------------
(* The bookkeeping of one stream. *)

Reversals(events) == {i \in DOMAIN events : events[i].kind = "EntryReversed"}

Postings(events) == {i \in DOMAIN events : events[i].kind = "JournalEntryPosted"}

Changes(events, r) ==
    {i \in DOMAIN events : /\ events[i].kind = "CapitalizationStatusChanged"
                           /\ events[i].run_id = r}

\* The number of reversals stacked on entry e: its reversal, the reversal of
\* that reversal, and so on.
ReversalDepth(events, e) ==
    LET depth[x \in EntryIds] ==
            IF \E i \in Reversals(events) : events[i].original_id = x
            THEN 1 + depth[events[CHOOSE i \in Reversals(events) :
                                     events[i].original_id = x].reversal_id]
            ELSE 0
    IN  depth[e]

\* A posted entry stands when its reversals cancel each other.
Standing(events) ==
    {i \in Postings(events) : ReversalDepth(events, events[i].id) % 2 = 0}

\* The net amount one entry's lines bring to an account.
NetOn(lines, account) ==
    FoldLeft(LAMBDA total, line : IF line.account = account
                                  THEN total + signed_amount(line).amount
                                  ELSE total, 0, lines)

-----------------------------------------------------------------------------
(* Properties. *)

\* `trial_balance' (ledger.rs): "always zero for a well-formed ledger", in every
\* currency and after any sequence of postings and reversals.
TrialBalanceIsZero ==
    \A s \in Streams, c \in Currencies : trial_balance(replay(log[s]), c) = 0

\* Replaying the log with apply_event gives each account exactly what the
\* entries still standing bring to it: a reversal undoes its entry, a reversed
\* reversal restores it, and nothing else moves a balance (apply_event, mirror).
BalancesAreStandingEntries ==
    \A s \in Streams, a \in Accounts :
        LET balance == replay(log[s]).balances[a]
        IN  MapThenSumSet(LAMBDA i : NetOn(log[s][i].lines, a), Standing(log[s]))
              = IF balance = None THEN 0 ELSE balance.amount

\* The capitalization events of a run form one unbroken trail from
\* PendingReview: each starts where the previous ended, and none is a no-op.
CapitalizationTrail ==
    \A s \in Streams, r \in Runs :
        \A i \in Changes(log[s], r) :
            LET earlier == {j \in Changes(log[s], r) : j < i}
            IN  /\ log[s][i].from # log[s][i].to
                /\ log[s][i].from = IF earlier = {} THEN "PendingReview"
                                                    ELSE log[s][Max(earlier)].to

=============================================================================
