--------------------------- MODULE MCLedgerStore ----------------------------
(* Small instances of LedgerStore for TLC. *)
EXTENDS LedgerStore

CONSTANTS usd, a1, a2, t1, t2, g1, r1

Entry == <<[account |-> a1, debit |-> [currency |-> usd, amount |-> 1], credit |-> None],
           [account |-> a2, debit |-> None, credit |-> [currency |-> usd, amount |-> 1]]>>

\* One entry, its reversal, and two capitalization decisions that exclude each other.
MCCommands ==
    {[kind |-> "PostJournalEntry", lines |-> Entry]}
    \union [kind : {"ReverseEntry"}, original_id : EntryIds]
    \union [kind : {"ChangeCapitalizationStatus"}, run_id : Runs, to : {"Expensed", "Capitalized"}]

\* Callers none of whose commands is ever refused, so that all contend to the end.
PostingCommands == {[kind |-> "PostJournalEntry", lines |-> Entry]}

MCAccounts == {a1, a2}
MCRuns == {r1}

\* Everyone works for one tenant, or one caller for a second one, on one ledger.
OneTenant == [x \in Writers \union Readers |-> t1]
OneForEach == LET other == CHOOSE w \in Writers : TRUE
              IN  [x \in Writers \union Readers |-> IF x = other THEN t2 ELSE t1]
OneLedger == [t \in Tenants |-> {g1}]

\* Entry ids, and writers of the same tenant, are interchangeable.
Symmetry == Permutations(EntryIds) \union Permutations(Writers)

=============================================================================
