------------------------------- MODULE Shares -------------------------------
(***************************************************************************)
(* The arithmetic that apportion (crates/cost-spine/src/pricing.rs) and    *)
(* allocate (crates/testkit/src/allocation.rs) share, and the declarative  *)
(* reference both are checked against: the largest-remainder rule of       *)
(* allocation.rs.                                                          *)
(*                                                                         *)
(* Amounts are integers counted in the finest unit a total may carry; a    *)
(* minor unit at the requested precision is Step of them.  Exact shares    *)
(* are rationals with denominator TotalWeight, so remainders are kept      *)
(* multiplied by it: the 28 significant digits of Decimal are taken as     *)
(* exact, and its overflow is not modelled.                                *)
(***************************************************************************)
EXTENDS Integers, Sequences, SequencesExt

CONSTANTS
    Step,             \* one minor unit
    Totals,           \* the amounts divided
    Weights,          \* the weights, degenerate ones included
    MaxShares         \* bound: number of shares

ASSUME SharesAssumption ==
    /\ Step \in Nat \ {0}
    /\ Totals \subseteq Int /\ Weights \subseteq Int /\ MaxShares \in Nat

Sum(seq) == FoldSeq(LAMBDA x, y : x + y, 0, seq)

Magnitude(n) == IF n < 0 THEN -n ELSE n

\* RoundingStrategy::ToZero to a multiple of step, of the rational n / d.
ToZero(n, d) ==
    LET q == (Magnitude(n) \div (d * Step)) * Step
    IN  IF n < 0 THEN -q ELSE q

\* Every share truncated to the precision.
Truncated(total, weights) ==
    [i \in DOMAIN weights |-> ToZero(total * weights[i], Sum(weights))]

\* exact - truncated, times the sum of the weights.
Discarded(total, weights) ==
    [i \in DOMAIN weights |-> total * weights[i] - Truncated(total, weights)[i] * Sum(weights)]

\* i was cut harder than j; of two cut alike, the lower index comes first.
Before(remainders, i, j) ==
    remainders[i] > remainders[j] \/ (remainders[i] = remainders[j] /\ i < j)

\* The indices sorted by remainder, largest first: what sort_by returns.
Ranked(remainders) ==
    CHOOSE order \in [DOMAIN remainders -> DOMAIN remainders] :
        \A i, j \in DOMAIN remainders : i < j => Before(remainders, order[i], order[j])

-----------------------------------------------------------------------------
(* The reference. *)

\* parts splits total by largest remainder: every share is truncated, the
\* minor units left over, signed like the total, go one each to the shares cut
\* hardest, ties to the lower index, and nothing is lost.
LargestRemainder(total, weights, parts) ==
    LET unit    == IF total < 0 THEN -Step ELSE Step
        down    == Truncated(total, weights)
        cut     == [i \in DOMAIN weights |-> Magnitude(Discarded(total, weights)[i])]
        topped  == {i \in DOMAIN weights : parts[i] = down[i] + unit}
    IN  /\ DOMAIN parts = DOMAIN weights
        /\ \A i \in DOMAIN weights \ topped : parts[i] = down[i]
        /\ \A i \in topped, j \in DOMAIN weights \ topped :
              cut[i] > cut[j] \/ (cut[i] = cut[j] /\ i < j)
        /\ Sum(parts) = total

-----------------------------------------------------------------------------
(* What both rules go through on their way there. *)

\* The weights an amount can be divided among.
Divisible(weights) == (\A i \in DOMAIN weights : weights[i] >= 0) /\ Sum(weights) > 0

\* x, seen in the direction of the total.
Toward(total, x) == IF total < 0 THEN -x ELSE x

\* The truncated shares, those in topped with a minor unit more.
ToppedUp(total, weights, shares, topped) ==
    /\ shares \in [1..Len(weights) -> Int]
    /\ \A i \in 1..Len(weights) :
          shares[i] = Truncated(total, weights)[i]
                      + (IF i \in topped THEN Toward(total, Step) ELSE 0)

Foremost(order, m) == {order[j] : j \in 1..m}

Multiple(x) == \E k \in Int : x = k * Step

=============================================================================
