----------------------------- MODULE MCTestkit ------------------------------
(***************************************************************************)
(* Two tests of the testkit, of which a behaviour runs one.  The test of   *)
(* the corpus: all scenarios of up to MaxOperations operations drawn from  *)
(* a list that holds one of every way an operation can go, under headers   *)
(* of every kind; and reference files with every fault.  The test of the   *)
(* generator: a specification small enough to enumerate every draw.        *)
(***************************************************************************)
EXTENDS CorpusRunner, Generator

CONSTANTS cash, depreciation, Usd, Eur, run1, MaxOperations

VARIABLE test     \* the test that runs

MCAccounts == {cash, depreciation}
MCSpecAccounts == <<cash, depreciation>>
MCCurrencies == {Usd, Eur}
MCEntryIds == 1..3
MCRuns == {run1}

\* Cash is kept in dollars; accumulated depreciation is a contra asset:
\* credit-normal, and a wrong side is refused.
CashRow == [code |-> cash, name |-> "Cash", kind |-> "Asset", contra |-> FALSE,
            allow_opposite_sign |-> None, currency |-> Usd, subledger |-> None,
            intercompany |-> TRUE]
DepreciationRow == [CashRow EXCEPT !.code = depreciation, !.name = "Depreciation",
                                   !.contra = TRUE, !.currency = None,
                                   !.subledger = "assets", !.intercompany = FALSE]

Parent == [code |-> "parent", functional_ccy |-> Usd, parent |-> None]
Subsidiary == [code |-> "subsidiary", functional_ccy |-> Eur, parent |-> "parent"]

Good == [accounts |-> <<CashRow, DepreciationRow>>, entities |-> <<Parent, Subsidiary>>,
         sources  |-> <<[code |-> "MANUAL"]>>]

\* Reference files with every fault, some with two, and a good one whose rows
\* refer forward and whose entities are each other's parents.
References ==
    {Good,
     [Good EXCEPT !.accounts = <<DepreciationRow, CashRow>>,
                  !.entities = <<Subsidiary, [Parent EXCEPT !.parent = "subsidiary"]>>],
     [Good EXCEPT !.accounts = Append(@, [CashRow EXCEPT !.name = "Till"])],
     [Good EXCEPT !.accounts = Append(@, [CashRow EXCEPT !.subledger = "assets"])],
     [Good EXCEPT !.accounts = <<[CashRow EXCEPT !.subledger = "assets"], DepreciationRow>>],
     [Good EXCEPT !.accounts = Append(@, [DepreciationRow EXCEPT !.currency = Malformed])],
     [Good EXCEPT !.entities = Append(@, [Parent EXCEPT !.functional_ccy = Malformed])],
     [Good EXCEPT !.entities = Append(@, [Subsidiary EXCEPT !.parent = None])],
     [Good EXCEPT !.entities = <<Subsidiary>>],
     [Good EXCEPT !.sources = @ \o @]}

Named(code, name) == [code |-> code, name |-> name]
Cash == Named(cash, "Cash")
Depreciation == Named(depreciation, "Depreciation")

Line(account, debit, credit, currency) ==
    [account |-> account, debit |-> debit, credit |-> credit, currency |-> currency]
Dr(account, amount) == Line(account, amount, None, None)
Cr(account, amount) == Line(account, None, amount, None)

Blank == [kind |-> "post_entry", ref |-> None, entity |-> None, lines |-> None, run |-> None,
          to |-> None, expect_rejection |-> FALSE]
Post(lines) == [Blank EXCEPT !.lines = lines, !.ref = "r1"]
Refused(op) == [op EXCEPT !.expect_rejection = TRUE]

Operations ==
    {Post(<<Dr(Cash, 5), Cr(Depreciation, 5)>>),
     [Post(<<Dr(Cash, -3), Cr(Depreciation, -3)>>) EXCEPT !.entity = "subsidiary"],
     Post(<<Line(Cash, 2, None, Eur), Line(Depreciation, None, 2, Eur)>>),
     Post(<<Dr(Named(cash, None), 2), Cr(Depreciation, 2), Cr(Depreciation, 0)>>),
     Refused(Post(<<Dr(Cash, 5), Cr(Depreciation, 4)>>)),
     Post(<<Dr(Cash, 5), Cr(Depreciation, 4)>>),
     Refused(Post(<<Dr(Cash, 5), Line(Depreciation, None, 5, Eur)>>)),
     Refused(Post(<<Line(Cash, 5, 5, None)>>)),
     Post(<<Line(Cash, None, None, None)>>),
     Post(<<Dr(Named(cash, "Cahs"), 5), Cr(Depreciation, 5)>>),
     Post(<<Dr(Cash, Malformed), Cr(Depreciation, 5)>>),
     Blank,
     [Blank EXCEPT !.kind = "reverse_entry", !.ref = "r1"],
     Refused([Blank EXCEPT !.kind = "reverse_entry", !.ref = "r1"]),
     [Blank EXCEPT !.kind = "reverse_entry"],
     [Blank EXCEPT !.kind = "set_capitalization", !.run = run1, !.to = "Capitalized"],
     [Blank EXCEPT !.kind = "set_capitalization", !.run = run1, !.to = Malformed],
     [Blank EXCEPT !.kind = "post_by_rule"],
     [Blank EXCEPT !.kind = "conusme_credits"]}

Expect(debit, credit) == (Cash :> debit) @@ (Depreciation :> credit)

Id(category) == [category |-> category, number |-> 1]

Ready == [id |-> Id("core"), path |-> [directory |-> "core", stem |-> Id("core")],
          difficulty |-> 1, reasoning |-> 120, standards |-> {"ASC 105"},
          status |-> "Ready", phase |-> P02, blocked_reason |-> None, divergence |-> None,
          entity |-> "parent", book |-> "US_GAAP", functional_ccy |-> Usd,
          calendar |-> "gregorian", period |-> [fiscal |-> FALSE, number |-> 12],
          trial_balance |-> Expect(5, -5), unusual_balances |-> {},
          by_entity |-> [e \in {} |-> Expect(0, 0)], subledgers |-> {},
          claims |-> {"balanced", "replay_stable"}]

Nothing == [r \in {} |-> 0]

\* Headers every list of operations is tried under.
Headers ==
    {Ready,
     [Ready EXCEPT !.trial_balance = Expect(0, 0),
                   !.claims = {"balanced", "intercompany_eliminated"}],
     [Ready EXCEPT !.trial_balance = Expect(-3, 3)],
     [Ready EXCEPT !.trial_balance = Expect(-3, 3), !.unusual_balances = {Cash, Depreciation}],
     [Ready EXCEPT !.trial_balance = (Named(cash, None) :> 2) @@ (Depreciation :> -2),
                   !.claims = {"intercompany_eliminated"}],
     [Ready EXCEPT !.status = "Divergent", !.divergence = "given"],
     [Ready EXCEPT !.phase = 3]}

\* Headers that are wrong, or end the run early, whatever the operations are.
OddHeaders ==
    {[Ready EXCEPT !.trial_balance = Expect(Malformed, 0), !.status = "Divergent"],
     [Ready EXCEPT !.trial_balance = Expect(5, Malformed)],
     [Ready EXCEPT !.status = "Blocked", !.blocked_reason = "given", !.trial_balance = Nothing],
     [Ready EXCEPT !.status = "Blocked", !.blocked_reason = Spaces, !.trial_balance = Nothing],
     [Ready EXCEPT !.blocked_reason = Empty],
     [Ready EXCEPT !.status = "Divergent", !.divergence = Empty],
     [Ready EXCEPT !.status = "Divergent", !.divergence = Spaces],
     [Ready EXCEPT !.functional_ccy = Malformed],
     [Ready EXCEPT !.id = Id("close")],
     [Ready EXCEPT !.path.stem.number = 2],
     [Ready EXCEPT !.difficulty = 6],
     [Ready EXCEPT !.reasoning = 119],
     [Ready EXCEPT !.standards = {}],
     [Ready EXCEPT !.entity = "branch"],
     [Ready EXCEPT !.book = "LOCAL"],
     [Ready EXCEPT !.calendar = "lunar"],
     [Ready EXCEPT !.period = Malformed],
     [Ready EXCEPT !.period.number = 13],
     [Ready EXCEPT !.period = [fiscal |-> TRUE, number |-> 13]],
     [Ready EXCEPT !.subledgers = {"assets"}],
     [Ready EXCEPT !.subledgers = {"payables"}],
     [Ready EXCEPT !.by_entity = ("subsidiary" :> Expect(1, -1))],
     [Ready EXCEPT !.by_entity = ("subsidiary" :> Expect(1, -2))],
     [Ready EXCEPT !.by_entity = ("branch" :> Expect(Malformed, 1))]}

Scenarios(headers, count) ==
    {[operations |-> ops] @@ header : ops \in BoundedSeq(Operations, count), header \in headers}

MCCorpora ==
    [reference : {Good}, scenario : Scenarios(Headers, MaxOperations)]
    \union [reference : {Good}, scenario : Scenarios(OddHeaders, 1)]
    \union [reference : References, scenario : Scenarios({Ready}, 1)]

Init ==
    /\ test \in {"corpus", "generator"}
    /\ RunnerInit /\ DrawInit
    /\ test = "generator" => reference = Good /\ scenario = [operations |-> <<>>] @@ Ready

Next ==
    \/ test = "corpus" /\ RunnerNext /\ UNCHANGED <<generatorVars, test>>
    \/ test = "generator" /\ DrawNext /\ UNCHANGED <<runnerVars, test>>

Spec == Init /\ [][Next]_<<runnerVars, generatorVars, test>>
=============================================================================
