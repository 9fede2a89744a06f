------------------------------ MODULE Scenario ------------------------------
(***************************************************************************)
(* The golden corpus before anything runs: the catalog of operation kinds  *)
(* and the phase that delivers each (crates/testkit/src/catalog.rs), and   *)
(* Scenario::validate (scenario.rs), the check every scenario file passes  *)
(* against the chart before the runner's results mean anything.            *)
(*                                                                         *)
(* A text the code parses (an amount, a currency code, a status) is the    *)
(* value it parses to, or Malformed.  An explanatory text is None, empty,  *)
(* spaces or given; a file's name and an id are a category and a number;   *)
(* of the reasoning only the length is kept.                               *)
(***************************************************************************)
EXTENDS Chart, Functions

-----------------------------------------------------------------------------
(* The catalog. *)

P02 == 2

\* The one line that changes when a milestone lands.
DELIVERED_THROUGH == P02

\* Mutant: the milestone is raised before the work is done.
DeliveredEarly(phase) == phase <= 3

is_delivered(phase) == phase <= DELIVERED_THROUGH

LedgerOperations(phase) ==
    CASE phase = 2 -> {"post_entry", "reverse_entry", "set_capitalization"}
      [] phase = 3 -> {"open_balances", "post_by_rule", "void_entry"}
      [] OTHER     -> {}

CloseOperations(phase) ==
    CASE phase = 4 -> {"advance_to", "accrue", "reverse_accrual", "amortize_prepaid", "close_period",
                       "close_year", "lock_subledger", "post_close_adjustment", "reopen_period",
                       "attempt_mutation", "restate", "revise"}
      [] OTHER     -> {}

CurrencyOperations(phase) ==
    CASE phase = 5 -> {"set_fx_rate", "revalue_monetary", "translate_entity", "settle_balance",
                       "flag_long_term_intercompany", "mark_currency_non_exchangeable",
                       "release_cta"}
      [] OTHER     -> {}

RevenueOperations(phase) ==
    CASE phase = 6 -> {"create_contract", "allocate_price", "invoice", "recognize_ratably",
                       "record_usage", "sell_credits", "consume_credits", "expire_credits",
                       "true_up_commitment", "modify_contract", "issue_credit_memo",
                       "record_agent_revenue"}
      [] phase = 7 -> {"receive_payment", "record_cecl_allowance", "write_off_receivable"}
      [] phase = 8 -> {"receive_goods", "record_vendor_invoice", "pay_vendor"}
      [] OTHER     -> {}

AssetOperations(phase) ==
    CASE phase = 9 -> {"acquire_asset", "place_in_service", "depreciate", "change_useful_life",
                       "test_impairment", "dispose_asset", "commence_lease",
                       "identify_embedded_lease", "lease_payment", "remeasure_lease",
                       "record_commitment_disclosure"}
      [] OTHER     -> {}

PayrollAndGroupOperations(phase) ==
    CASE phase = 10 -> {"determine_tax", "apply_exemption_certificate", "record_withholding"}
      [] phase = 11 -> {"run_payroll", "accrue_bonus", "pay_bonus", "grant_equity", "vest_tranche",
                        "forfeit_grant", "liquidity_event", "modify_grant", "early_exercise"}
      [] phase = 12 -> {"eliminate_intercompany", "attribute_to_nci", "consolidate",
                        "record_equity_method"}
      [] phase = 15 -> {"assert_export"}
      [] OTHER      -> {}

OPERATIONS ==
    [phase \in P02 .. 15 |->
        LedgerOperations(phase) \union CloseOperations(phase) \union CurrencyOperations(phase)
        \union RevenueOperations(phase) \union AssetOperations(phase)
        \union PayrollAndGroupOperations(phase)]

\* The phases a kind is catalogued under: one for a known kind, none for a typo.
spec(kind) == {p \in DOMAIN OPERATIONS : kind \in OPERATIONS[p]}

-----------------------------------------------------------------------------
(* A scenario and the checks on it. *)

\* What a file says of an account, of a line, of an operation.
AccountRef == [code : Accounts, name : STRING \union {None}]

ScenarioLine == [account : AccountRef, currency : Currencies \union {None, Malformed},
                 debit : Int \union {None, Malformed}, credit : Int \union {None, Malformed}]

ScenarioOperation ==
    [kind : STRING, ref : STRING \union {None}, entity : STRING \union {None},
     lines : Seq(ScenarioLine) \union {None}, run : Runs \union {None},
     to : Statuses \union {None, Malformed}, expect_rejection : BOOLEAN]

\* The fields of a scenario that the runner computes with.
IsScenario(scenario) ==
    /\ scenario.operations \in Seq(ScenarioOperation)
    /\ scenario.status \in {"Ready", "Divergent", "Blocked"}
    /\ scenario.entity \in STRING
    /\ scenario.functional_ccy \in Currencies \union {Malformed}
    /\ DOMAIN scenario.trial_balance \subseteq AccountRef
    /\ scenario.trial_balance \in [DOMAIN scenario.trial_balance -> Int \union {Malformed}]
    /\ scenario.unusual_balances \subseteq AccountRef

Kinds(scenario) == {scenario.operations[i].kind : i \in DOMAIN scenario.operations}

\* The highest phase among the operations; kinds the catalog does not know are skipped.
required_phase(scenario) == Max({P02} \union UNION {spec(kind) : kind \in Kinds(scenario)})

is_executable(scenario) ==
    scenario.status # "Blocked" /\ is_delivered(required_phase(scenario))

MIN_REASONING_CHARS == 120

IdentityDefects(scenario) ==
    {d \in {"file_name", "category", "difficulty", "reasoning", "standards"} :
        \/ d = "file_name"  /\ scenario.id # scenario.path.stem
        \/ d = "category"   /\ scenario.id.category # scenario.path.directory
        \/ d = "difficulty" /\ scenario.difficulty \notin 1..5
        \/ d = "reasoning"  /\ scenario.reasoning < MIN_REASONING_CHARS
        \/ d = "standards"  /\ scenario.standards = {}}

Empty == ""
Spaces == " "

\* A reason of spaces is no reason, but a divergence of spaces is one; and where a
\* text has no place, an empty one is already too much.
StatusDefects(scenario) ==
    LET blocked        == scenario.status = "Blocked"
        divergent      == scenario.status = "Divergent"
        expectsNothing == DOMAIN scenario.trial_balance = {}
    IN  {d \in {"blocked_reason", "trial_balance", "divergence"} :
            \/ d = "blocked_reason" /\ IF blocked THEN scenario.blocked_reason \in {None, Empty, Spaces}
                                       ELSE scenario.blocked_reason # None
            \/ d = "trial_balance" /\ blocked # expectsNothing
            \/ d = "divergence" /\ IF divergent THEN scenario.divergence \in {None, Empty}
                                   ELSE scenario.divergence # None}

BOOKS == {"US_GAAP", "IFRS", "TAX", "MGMT"}

CALENDARS == {"gregorian", "4-4-5", "53-week"}

\* A month, or a fiscal period up to 13; the calendar is not asked which.
validate_period(period) ==
    period # Malformed /\ period.number \in 1..(IF period.fiscal THEN 13 ELSE 12)

SetupDefects(scenario) ==
    {d \in {"entity", "book", "functional_ccy", "calendar", "period"} :
        \/ d = "entity"         /\ scenario.entity \notin DOMAIN chart.entities
        \/ d = "book"           /\ scenario.book \notin BOOKS
        \/ d = "functional_ccy" /\ scenario.functional_ccy = Malformed
        \/ d = "calendar"       /\ scenario.calendar \notin CALENDARS
        \/ d = "period"         /\ ~validate_period(scenario.period)}

OperationDefects(scenario) ==
    {d \in {"no_operations", "unknown_kind", "phase"} :
        \/ d = "no_operations" /\ scenario.operations = <<>> /\ scenario.status # "Blocked"
        \/ d = "unknown_kind" /\ \E kind \in Kinds(scenario) : spec(kind) = {}
        \/ d = "phase" /\ scenario.status # "Blocked"
                       /\ scenario.phase # required_phase(scenario)}

PostEntries(scenario) == {i \in DOMAIN scenario.operations : scenario.operations[i].kind = "post_entry"}

\* Mutant: the sides of a line are not looked at.
LineDefectsMissingOnly(scenario) ==
    {d \in {"lines"} : \E i \in PostEntries(scenario) : scenario.operations[i].lines = None}

\* Lines are held to one side each unless the operation expects to be refused.
LineDefects(scenario) ==
    {d \in {"lines", "malformed_line"} :
        \E i \in PostEntries(scenario) :
            LET op == scenario.operations[i]
            IN  \/ d = "lines" /\ op.lines = None
                \/ /\ d = "malformed_line" /\ op.lines # None /\ ~op.expect_rejection
                   /\ \E n \in DOMAIN op.lines : ~OneSided(op.lines[n])}

\* A table of balances parses when every amount in it does.
Parses(balances) == Malformed \notin Range(balances)

NetTotal(balances) == MapThenSumSet(LAMBDA r : balances[r], DOMAIN balances)

\* An expected balance that does not parse empties the whole table after its defect.
expected_trial_balance(scenario) ==
    IF Parses(scenario.trial_balance) THEN scenario.trial_balance ELSE [r \in {} |-> 0]

\* The balance as validate reads it, on the side the account should have it.
ExpectedOnNormalSide(account, amount) ==
    IF normal_balance(account) = "Debit" THEN amount >= 0 ELSE amount <= 0

\* Every reference: in any line of any posting, or in the expected balances.
Referenced(scenario) ==
    DOMAIN expected_trial_balance(scenario)
    \union UNION {{scenario.operations[i].lines[n].account : n \in DOMAIN scenario.operations[i].lines}
                  : i \in {j \in PostEntries(scenario) : scenario.operations[j].lines # None}}

BalanceDefects(scenario) ==
    LET balances == expected_trial_balance(scenario)
        resolved == {r \in DOMAIN balances : resolve(r) # None}
    IN  {d \in {"decimal", "account", "nonzero", "undeclared", "stale", "not_expected"} :
            \/ d = "decimal" /\ ~Parses(scenario.trial_balance)
            \/ d = "account" /\ \E r \in Referenced(scenario) : resolve(r) = None
            \/ /\ d = "nonzero" /\ scenario.status # "Blocked"
               /\ NetTotal(balances) # 0
            \/ /\ d = "undeclared"
               /\ \E r \in resolved : /\ ~ExpectedOnNormalSide(resolve(r), balances[r])
                                      /\ ~permits_opposite_sign(resolve(r))
                                      /\ r \notin scenario.unusual_balances
            \/ /\ d = "stale"
               /\ \E r \in resolved \intersect scenario.unusual_balances :
                     ExpectedOnNormalSide(resolve(r), balances[r])
            \/ d = "not_expected" /\ ~(scenario.unusual_balances \subseteq DOMAIN balances)}

\* Expectations a delivered phase does not compute yet are still held to the
\* chart: a subledger must have a control account, an entity's balances add up.
LaterPhaseDefects(scenario) ==
    {d \in {"subledgers", "unknown_entity", "entity_decimal", "entity_nonzero"} :
        \/ d = "subledgers" /\ \E name \in scenario.subledgers : control_account(name) = None
        \/ d = "unknown_entity" /\ ~(DOMAIN scenario.by_entity \subseteq DOMAIN chart.entities)
        \/ \E e \in DOMAIN scenario.by_entity :
              LET balances == scenario.by_entity[e]
              IN  IF Parses(balances) THEN d = "entity_nonzero" /\ NetTotal(balances) # 0
                                      ELSE d = "entity_decimal"}

\* Scenario::validate returns every defect at once.
Defects(scenario) ==
    IdentityDefects(scenario) \union StatusDefects(scenario) \union SetupDefects(scenario)
    \union OperationDefects(scenario) \union LineDefects(scenario)
    \union BalanceDefects(scenario) \union LaterPhaseDefects(scenario)

=============================================================================
