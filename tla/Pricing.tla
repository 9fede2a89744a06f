------------------------------ MODULE Pricing -------------------------------
(***************************************************************************)
(* apportion (crates/cost-spine/src/pricing.rs): one call, one action per  *)
(* stage and one per pass of its loop.                                     *)
(***************************************************************************)
EXTENDS Shares

VARIABLES
    total, weights,   \* the arguments
    floored,          \* the shares so far
    remainders,       \* the indices, sorted by remainder
    leftover, idx,    \* the loop's variables
    result            \* "running", "ok" or the error

vars == <<total, weights, floored, remainders, leftover, idx, result>>

Errors == {"NoWeights", "InvalidWeights"}

Init ==
    /\ total \in Totals
    /\ weights \in BoundedSeq(Weights, MaxShares)
    /\ floored = <<>> /\ remainders = <<>>
    /\ leftover = 0 /\ idx = 0
    /\ result = "running"

\* The early returns.
Reject ==
    /\ result = "running" /\ remainders = <<>>
    /\ \/ weights = <<>> /\ result' = "NoWeights"
       \/ /\ weights # <<>>
          /\ (\E i \in DOMAIN weights : weights[i] < 0) \/ Sum(weights) <= 0
          /\ result' = "InvalidWeights"
    /\ UNCHANGED <<total, weights, floored, remainders, leftover, idx>>

\* Exact shares, their truncation, the leftover, and the sort.
Floor ==
    /\ result = "running" /\ remainders = <<>>
    /\ weights # <<>>
    /\ (\A i \in DOMAIN weights : weights[i] >= 0) /\ Sum(weights) > 0
    /\ floored' = Truncated(total, weights)
    /\ leftover' = total - Sum(floored')
    /\ remainders' = Ranked(Discarded(total, weights))
    /\ UNCHANGED <<total, weights, idx, result>>

\* Mutant: the loop tops up the shares from the last to the first.
TopUpFromTheEnd ==
    /\ result = "running" /\ remainders # <<>>
    /\ leftover >= Step /\ idx < Len(remainders)
    /\ floored' = [floored EXCEPT ![remainders[Len(remainders) - idx]] = @ + Step]
    /\ leftover' = leftover - Step
    /\ idx' = idx + 1
    /\ UNCHANGED <<total, weights, remainders, result>>

TopUp ==
    /\ result = "running" /\ remainders # <<>>
    /\ leftover >= Step /\ idx < Len(remainders)
    /\ floored' = [floored EXCEPT ![remainders[idx + 1]] = @ + Step]
    /\ leftover' = leftover - Step
    /\ idx' = idx + 1
    /\ UNCHANGED <<total, weights, remainders, result>>

\* Mutant: what is left below one minor unit is dropped.
FinishDroppingResidue ==
    /\ result = "running" /\ remainders # <<>>
    /\ ~(leftover >= Step /\ idx < Len(remainders))
    /\ result' = "ok"
    /\ UNCHANGED <<total, weights, floored, remainders, leftover, idx>>

\* Mutant: the residue lands on the smallest remainder.
FinishOnSmallest ==
    /\ result = "running" /\ remainders # <<>>
    /\ ~(leftover >= Step /\ idx < Len(remainders))
    /\ floored' = [floored EXCEPT ![remainders[Len(remainders)]] = @ + leftover]
    /\ result' = "ok"
    /\ UNCHANGED <<total, weights, remainders, leftover, idx>>

\* The residue lands on the largest remainder.
Finish ==
    /\ result = "running" /\ remainders # <<>>
    /\ ~(leftover >= Step /\ idx < Len(remainders))
    /\ floored' = [floored EXCEPT ![remainders[1]] = @ + leftover]
    /\ result' = "ok"
    /\ UNCHANGED <<total, weights, remainders, leftover, idx>>

Next == Reject \/ Floor \/ TopUp \/ Finish

Spec == Init /\ [][Next]_vars

-----------------------------------------------------------------------------
(* Properties. *)

\* Whatever the weights and the precision, the shares apportion returns add up
\* to the total exactly ("The sum of the result equals `total` exactly, always").
SharesConserveTheTotal == result = "ok" => Sum(floored) = total

\* How far the share of i is from exact, times the sum of the weights.
Off(i) == Magnitude(floored[i] * Sum(weights) - total * weights[i])

\* Every share is what usage says, to less than one minor unit, and an idle
\* workload pays nothing. What apportion gets wrong stays on one share: of a
\* credit, whose negative leftover the loop never hands out, the share that was
\* cut least takes all of it, up to a minor unit less one per share; of a total
\* more precise than the minor unit the share cut hardest may be one unit more
\* off, and is never an idle workload's.
SharesFollowUsage ==
    result = "ok" =>
        \A i \in DOMAIN weights :
            LET unit == Step * Sum(weights)
            IN  /\ Off(i) < unit \/ i = remainders[1]
                /\ total < 0  => Off(i) < Len(weights) * unit
                /\ total >= 0 =>
                      /\ weights[i] = 0 => floored[i] = 0
                      /\ Off(i) < (IF total % Step = 0 THEN unit ELSE 2 * unit)

-----------------------------------------------------------------------------
(* The inductive invariant. *)

\* The shares and the leftover make up the total while the loop runs; the
\* indices it goes through are indices of shares.
ShareInv ==
    /\ total \in Int /\ idx \in Nat
    /\ weights \in Seq(Int)
    /\ remainders # <<>> =>
          /\ floored \in [1..Len(weights) -> Int]
          /\ remainders \in [1..Len(weights) -> 1..Len(weights)]
          /\ leftover \in Int
    /\ remainders # <<>> /\ result = "running" => Sum(floored) + leftover = total
    /\ result = "ok" => Sum(floored) = total

\* The indices are sorted by what was cut.
RanksInv ==
    /\ remainders = <<>> => idx = 0
    /\ remainders # <<>> => /\ Divisible(weights)
                            /\ remainders = Ranked(Discarded(total, weights))
                            /\ idx \in 0..Len(weights)

\* Of a charge, the loop tops up the shares cut hardest, each of which was cut,
\* and never hands out more than there is; of a credit it hands out nothing.
LoopInv ==
    remainders # <<>> /\ result = "running" =>
        /\ Multiple(total - leftover)
        /\ ToppedUp(total, weights, floored, Foremost(remainders, idx))
        /\ IF total < 0 THEN idx = 0
           ELSE leftover >= 0 /\ \A i \in Foremost(remainders, idx) : Discarded(total, weights)[i] > 0

\* What a call returns.
OutcomeInv ==
    /\ result = "ok" => /\ remainders # <<>>
                        /\ total >= 0 /\ total % Step = 0 => LargestRemainder(total, weights, floored)
    /\ result \in Errors => ~Divisible(weights)
    /\ result \in Errors \union {"running", "ok"}

ApportionInv == ShareInv /\ RanksInv /\ LoopInv /\ OutcomeInv /\ SharesFollowUsage

=============================================================================
