----------------------------- MODULE Assertions -----------------------------
(***************************************************************************)
(* The invariants of crates/testkit/src/assertions.rs that a run is held   *)
(* to.  They are the corpus's own reading of what the ledger must keep,    *)
(* written apart from the aggregate: an entry balances when its signed     *)
(* lines add up to zero, where the aggregate compares debits with credits. *)
(***************************************************************************)
EXTENDS Scenario

\* Invariant 1.
assert_balanced(lines) ==
    /\ lines # <<>>
    /\ \A n \in DOMAIN lines : signed_amount(lines[n]) # None
    /\ Cardinality({signed_amount(lines[n]).currency : n \in DOMAIN lines}) = 1
    /\ MapThenSumSet(LAMBDA n : signed_amount(lines[n]).amount, DOMAIN lines) = 0

\* Invariant 3b.
assert_replay_stable(log, live) == replay(log) = live

\* Mutant: zero is the wrong side of a credit account.
OnNormalSideZeroIsDebit(account, amount) ==
    IF normal_balance(account) = "Debit" THEN amount >= 0 ELSE amount < 0

\* The code asks the sign bit of a Decimal; a zero has none here.
on_normal_side(account, amount) ==
    IF normal_balance(account) = "Debit" THEN amount >= 0 ELSE amount <= 0

\* Invariant 4, on balances by reference.
assert_no_unexpected_negative_balances(balances, declared) ==
    \A ref \in DOMAIN balances :
        LET account == resolve(ref)
        IN  /\ account # None
            /\ \/ on_normal_side(account, balances[ref])
               \/ permits_opposite_sign(account)
               \/ ref \in declared

\* Invariant 5; the third clause is the account's own restriction.
assert_currency_isolation(lines, currency) ==
    \A n \in DOMAIN lines :
        LET amount  == signed_amount(lines[n])
            account == resolve([code |-> lines[n].account, name |-> None])
        IN  /\ amount # None
            /\ amount.currency = currency
            /\ account # None => account.currency \in {None, currency}

\* Invariant 6, by scope: a function from scopes to the amounts in each.
assert_trial_balance_zero(balances) ==
    \A scope \in DOMAIN balances :
        MapThenSumSet(LAMBDA n : balances[scope][n], DOMAIN balances[scope]) = 0

\* Invariant 10: every intercompany account of the balances, together.
assert_intercompany_eliminated(balances) ==
    MapThenSumSet(LAMBDA ref : balances[ref],
                  {r \in DOMAIN balances : resolve(r) # None /\ resolve(r).intercompany}) = 0

=============================================================================
