--------------------------- MODULE MCAtomicLedger ---------------------------
(* Small instances of AtomicLedger for TLC. *)
EXTENDS AtomicLedger

CONSTANTS
    usd, eur, a1, a2, a3,
    MaxEvents             \* bound: events per stream

BoundedNext == Next /\ \A s \in Streams : Len(log'[s]) <= MaxEvents

BoundedSpec == Init /\ [][BoundedNext]_log

Dr(a, c, n) == [account |-> a, debit |-> [currency |-> c, amount |-> n], credit |-> None]
Cr(a, c, n) == [account |-> a, debit |-> None, credit |-> [currency |-> c, amount |-> n]]

PostCommand(lines) == [kind |-> "PostJournalEntry", lines |-> lines]

\* Entries handle_command must refuse, one for each of its early returns.
Malformed ==
    { <<>>,
      <<Dr(a1, usd, 2), Cr(a2, usd, 1)>>,
      <<Dr(a1, usd, 1), Cr(a2, eur, 1)>>,
      <<[Dr(a1, usd, 1) EXCEPT !.credit = [currency |-> usd, amount |-> 1]]>>,
      <<[Dr(a1, usd, 1) EXCEPT !.debit = None], Cr(a2, usd, 0)>> }

\* Two-line, split, zero-amount, negative-amount and same-account entries.
Balanced(c) ==
    { <<Dr(a1, c, 1), Cr(a2, c, 1)>>,
      <<Dr(a2, c, 3), Cr(a1, c, 1), Cr(a3, c, 2)>>,
      <<Dr(a3, c, 0), Cr(a3, c, 0)>>,
      <<Dr(a1, c, -2), Cr(a3, c, -2)>> }

ReverseCommands == [kind : {"ReverseEntry"}, original_id : EntryIds]

CapitalizeCommands == [kind : {"ChangeCapitalizationStatus"}, run_id : Runs, to : Statuses]

\* Every account is used in one currency.
OneCurrencyCommands ==
    {PostCommand(l) : l \in Malformed \union Balanced(usd)} \union ReverseCommands \union CapitalizeCommands

\* The same accounts are used in two currencies.
TwoCurrencyCommands ==
    {PostCommand(l) : l \in {<<Dr(a1, usd, 1), Cr(a2, usd, 1)>>, <<Dr(a1, eur, 1), Cr(a3, eur, 1)>>}}
    \union ReverseCommands

\* Entry ids are interchangeable.
EntryIdSymmetry == Permutations(EntryIds)

TwoCurrencies == {usd, eur}
ThreeAccounts == {a1, a2, a3}

=============================================================================
