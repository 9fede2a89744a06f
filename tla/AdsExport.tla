----------------------------- MODULE AdsExport ------------------------------
(***************************************************************************)
(* The audit data extract of crates/testkit/src/ads_export.rs: five files  *)
(* derived from the entries a run recorded, from the ledger that was built *)
(* from the events and from the chart, the control totals an auditor foots *)
(* the first against, and the reconciliation of the first to the second.   *)
(* Headers, dates and texts are copied out and left out here.              *)
(***************************************************************************)
EXTENDS Chart, Functions

\* Mutant: the side is the field the amount was written in.
RowBySide(entry, line) ==
    [journal_id |-> entry.journal_id, business_unit |-> entry.entity, account |-> line.account,
     currency   |-> signed_amount(line).currency,
     amount     |-> IF validate(line).amount < 0 THEN -validate(line).amount
                    ELSE validate(line).amount,
     indicator  |-> IF line.debit # None THEN "D" ELSE "C",
     reversal   |-> entry.reversal_of # None]

\* An unsigned amount and an indicator read off the sign of the line.  The
\* indicator of a zero amount adds nothing to any total.
GlDetailRow(entry, line) ==
    LET signed == signed_amount(line).amount
    IN  [journal_id |-> entry.journal_id, business_unit |-> entry.entity,
         account    |-> line.account,
         currency   |-> signed_amount(line).currency,
         amount     |-> IF signed < 0 THEN -signed ELSE signed,
         indicator  |-> IF signed < 0 THEN "C" ELSE "D",
         reversal   |-> entry.reversal_of # None]

\* The lines of the entries: the second line of the first entry is at <<1, 2>>.
Places(entries) == UNION {{i} \X DOMAIN entries[i].lines : i \in DOMAIN entries}

LineAt(entries, place) == entries[place[1]].lines[place[2]]

\* One row per line that carries exactly one side, at the place of the line.
gl_detail(entries) ==
    [place \in {p \in Places(entries) : signed_amount(LineAt(entries, p)) # None} |->
        GlDetailRow(entries[place[1]], LineAt(entries, place))]

\* The trial balance file: what the ledger ends with, all of it under the
\* scenario's own entity whatever entity an entry named.
trial_balance_rows(entity, state) ==
    {[business_unit |-> entity, account |-> a, ending_balance |-> state.balances[a].amount]
        : a \in {b \in Accounts : state.balances[b] # None}}

\* The three files copied out of the chart.
ChartListing ==
    {[account        |-> row.code,
      normal_balance |-> normal_balance(row),
      is_contra      |-> row.contra,
      subledger      |-> row.subledger] : row \in Range(chart.by_code)}

SourceListing == DOMAIN chart.sources

BusinessUnitListing ==
    {[code |-> row.code, parent |-> row.parent, functional_currency |-> row.functional_ccy]
        : row \in Range(chart.entities)}

SumOf(amounts) == MapThenSumSet(LAMBDA place : amounts[place], DOMAIN amounts)

\* What the rows of one side come to; an indicator other than "D" is a credit.
Footing(rows, isDebit) ==
    SumOf([p \in DOMAIN rows |-> IF (rows[p].indicator = "D") = isDebit THEN rows[p].amount ELSE 0])

control_total(rows) ==
    [debits      |-> Footing(rows, TRUE),
     credits     |-> Footing(rows, FALSE),
     line_count  |-> Cardinality(DOMAIN rows),
     entry_count |-> Cardinality({rows[p].journal_id : p \in DOMAIN rows})]

SignedAmount(row) == IF row.indicator = "D" THEN row.amount ELSE -row.amount

\* The balance of every account re-derived from the GL detail alone.
derived(rows) ==
    [a \in {rows[p].account : p \in DOMAIN rows} |->
        SumOf([p \in DOMAIN rows |-> IF rows[p].account = a THEN SignedAmount(rows[p]) ELSE 0])]

\* Two sets of balances compare over the accounts of both; one missing on one
\* side is zero.
compare(left, right) ==
    \A a \in DOMAIN left \union DOMAIN right :
        (IF a \in DOMAIN left THEN left[a] ELSE 0) = (IF a \in DOMAIN right THEN right[a] ELSE 0)

\* The GL detail foots, and agrees with the trial balance file and with the
\* balances expected.
reconcile(rows, balanceRows, expected) ==
    /\ control_total(rows).debits = control_total(rows).credits
    /\ compare(derived(rows),
               [a \in {row.account : row \in balanceRows} |->
                   (CHOOSE row \in balanceRows : row.account = a).ending_balance])
    /\ compare(derived(rows), expected)

=============================================================================
