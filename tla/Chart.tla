------------------------------- MODULE Chart --------------------------------
(***************************************************************************)
(* The reference data of the corpus (crates/testkit/src/chart.rs): the     *)
(* accounts, entities and sources files, how ChartOfAccounts::load checks  *)
(* and indexes their rows, and the lookups everything else makes.  A row   *)
(* is a record of the fields some rule reads; a currency code is the       *)
(* currency, or Malformed when falkr_core does not know it.                *)
(***************************************************************************)
EXTENDS Ledger, SequencesExt

CONSTANT Malformed    \* a text that does not parse

\* The variants of ChartError.
ChartErrors == {"UnknownCurrency", "AmbiguousSubledger", "DuplicateAccount", "DuplicateEntity",
                "UnknownParent", "DuplicateSource"}

ASSUME ChartAssumption == None \notin ChartErrors /\ Malformed # None

AccountKinds == {"Asset", "Liability", "Equity", "Revenue", "Expense"}

Account == [code : Accounts, name : STRING, kind : AccountKinds, contra : BOOLEAN,
            allow_opposite_sign : BOOLEAN \union {None},
            currency : Currencies \union {None, Malformed},
            subledger : STRING \union {None}, intercompany : BOOLEAN]

Entity == [code : STRING, functional_ccy : Currencies \union {Malformed},
           parent : STRING \union {None}]

ReferenceFiles == [accounts : Seq(Account), entities : Seq(Entity), sources : Seq([code : STRING])]

VARIABLES
    reference,    \* the three files: [accounts, entities, sources], sequences of rows
    chart         \* the ChartOfAccounts loaded from them, None before

-----------------------------------------------------------------------------
(* ChartOfAccounts::load *)

\* Mutant: a second control account takes the subledger over.
AccountFaultUnclaimed(rows, n) ==
    CASE rows[n].currency = Malformed                             -> "UnknownCurrency"
      [] \E m \in 1 .. n - 1 : rows[m].code = rows[n].code        -> "DuplicateAccount"
      [] OTHER                                                    -> None

\* Row n is checked against the rows before it; the order of the checks decides
\* which of two errors is reported.
AccountFault(rows, n) ==
    LET before == {rows[m] : m \in 1 .. n - 1}
        claimed == /\ rows[n].subledger # None
                   /\ \E row \in before : row.subledger = rows[n].subledger
        taken   == \E row \in before : row.code = rows[n].code
    IN  IF rows[n].currency = Malformed THEN "UnknownCurrency"
        ELSE IF claimed THEN "AmbiguousSubledger"
        ELSE IF taken THEN "DuplicateAccount"
        ELSE None

EntityFault(rows, n) ==
    IF rows[n].functional_ccy = Malformed THEN "UnknownCurrency"
    ELSE IF \E m \in 1 .. n - 1 : rows[m].code = rows[n].code THEN "DuplicateEntity"
    ELSE None

\* Once all entities are known; nothing asks whether the parents form a tree.
ParentFault(rows, n) ==
    IF rows[n].parent \in {None} \union {rows[m].code : m \in DOMAIN rows}
    THEN None ELSE "UnknownParent"

SourceFault(rows, n) ==
    IF \E m \in 1 .. n - 1 : rows[m].code = rows[n].code THEN "DuplicateSource" ELSE None

\* What the checks say, in the order load makes them.
Checks(files) ==
    [n \in DOMAIN files.accounts |-> AccountFault(files.accounts, n)]
    \o [n \in DOMAIN files.entities |-> EntityFault(files.entities, n)]
    \o [n \in DOMAIN files.entities |-> ParentFault(files.entities, n)]
    \o [n \in DOMAIN files.sources  |-> SourceFault(files.sources, n)]

\* The first fault ends the load; None when the files have none.
ChartError(files) ==
    LET first == SelectInSeq(Checks(files), LAMBDA fault : fault # None)
    IN  IF first = 0 THEN None ELSE Checks(files)[first]

\* A map from code to row; a later row replaces an earlier one.
ByCode(rows) ==
    [code \in {rows[n].code : n \in DOMAIN rows} |->
        rows[SelectLastInSeq(rows, LAMBDA row : row.code = code)]]

\* Subledger to the code of its control account.
Controls(rows) ==
    [subledger \in {rows[n].subledger : n \in DOMAIN rows} \ {None} |->
        rows[SelectLastInSeq(rows, LAMBDA row : row.subledger = subledger)].code]

ChartOfAccounts(files) ==
    [by_code  |-> ByCode(files.accounts), entities |-> ByCode(files.entities),
     sources  |-> ByCode(files.sources),  controls |-> Controls(files.accounts)]

-----------------------------------------------------------------------------
(* Lookups. *)

natural_side(kind) == IF kind \in {"Asset", "Expense"} THEN "Debit" ELSE "Credit"

flip(side) == IF side = "Debit" THEN "Credit" ELSE "Debit"

normal_balance(account) ==
    IF account.contra THEN flip(natural_side(account.kind)) ELSE natural_side(account.kind)

rejects_opposite_sign_by_default(kind) == kind \in {"Asset", "Expense"}

permits_opposite_sign(account) ==
    IF account.allow_opposite_sign # None THEN account.allow_opposite_sign
    ELSE ~rejects_opposite_sign_by_default(account.kind)

\* "1000-Cash"
label(account) == [code |-> account.code, name |-> account.name]

\* A reference is "1000" (name None) or "1000-Cash"; a wrong name does not resolve.
resolve(ref) ==
    IF /\ ref.code \in DOMAIN chart.by_code
       /\ ref.name \in {None, chart.by_code[ref.code].name}
    THEN chart.by_code[ref.code]
    ELSE None

control_account(subledger) ==
    IF subledger \in DOMAIN chart.controls THEN chart.by_code[chart.controls[subledger]]
    ELSE None

-----------------------------------------------------------------------------
(* Properties. *)

Shuffles(rows) == {[n \in DOMAIN rows |-> rows[p[n]]] : p \in Bijection(DOMAIN rows, DOMAIN rows)}

ShuffledFiles(files) ==
    [accounts : Shuffles(files.accounts), entities : Shuffles(files.entities),
     sources  : Shuffles(files.sources)]

\* The rows as a chart is to have them: each found under its own label, each
\* subledger leading to the one account that claims it.
RowsAreFound ==
    \A n \in DOMAIN reference.accounts :
        LET row == reference.accounts[n]
        IN  /\ resolve(label(row)) = row
            /\ row.subledger # None => control_account(row.subledger) = row

\* Files whose rows are in another order load exactly when these do, into the
\* same chart.
OrderOfRowsIsIrrelevant ==
    \A files \in ShuffledFiles(reference) :
        IF chart = None THEN ChartError(files) # None
        ELSE ChartError(files) = None /\ ChartOfAccounts(files) = chart

=============================================================================
