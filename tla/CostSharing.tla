---------------------------- MODULE CostSharing -----------------------------
(***************************************************************************)
(* How costs are priced and shared.  The two rules that divide an amount   *)
(* among weights run on the same inputs: apportion, which prices shared    *)
(* infrastructure, and then allocate, the rule the corpus holds as its     *)
(* reference.  Nothing in the code relates the price of a line to the      *)
(* shares of an amount, so a behaviour prices a line or divides an amount. *)
(***************************************************************************)
EXTENDS Pricing, CostMeasures

VARIABLES parts, ranking, rest, cursor, answer    \* allocate's

Reference == INSTANCE Allocation
               WITH remainders <- ranking, leftover <- rest, result <- answer

allVars == <<vars, Reference!vars, inputs, outcome, amounts>>

\* A behaviour without a line, or one whose division ended before it began.
AllInit ==
    \/ /\ Init /\ Reference!Init
       /\ inputs = NoLine /\ outcome = "ok" /\ amounts = Measures(NoLine)
    \/ /\ LineInit
       /\ total = 0 /\ weights = <<>>
       /\ floored = <<>> /\ remainders = <<>> /\ leftover = 0 /\ idx = 0
       /\ parts = <<>> /\ ranking = <<>> /\ rest = 0 /\ cursor = 0
       /\ result = "NoWeights" /\ answer = "NoWeights"

ApportionStep ==
    /\ Next
    /\ UNCHANGED <<parts, ranking, rest, cursor, answer, inputs, outcome, amounts>>

AllocateStep ==
    /\ result # "running"
    /\ Reference!Next
    /\ UNCHANGED <<floored, remainders, leftover, idx, result, inputs, outcome, amounts>>

PriceStep == Compute /\ UNCHANGED <<vars, parts, ranking, rest, cursor, answer>>

SharingSpec == AllInit /\ [][ApportionStep \/ AllocateStep \/ PriceStep]_allVars

-----------------------------------------------------------------------------
(* Properties. *)

\* Whenever allocate returns parts, they are the largest-remainder split of the
\* total, of either sign ("Negative totals allocate correctly").
PartsAreLargestRemainder ==
    answer = "ok" => LargestRemainder(total, weights, parts)

\* The limit on the passes of allocate stops exactly the totals with more
\* precision than the scale ("which the caller should have rounded first"): no
\* total that fits is ever refused, whatever its sign and the weights.
OverflowsOnlyWhenTooPrecise ==
    /\ answer = "Overflow" => total % Step # 0
    /\ answer = "ok" => total % Step = 0

\* On every charge that fits the precision the two rules accept the same weights
\* and return the same amounts, although apportion ranks signed remainders and
\* leaves its loop on other conditions than allocate: what is billed for shared
\* infrastructure is what the corpus would call correct.
RulesAgreeOnCharges ==
    answer # "running" /\ total >= 0 /\ total % Step = 0 =>
        /\ result = "ok" <=> answer = "ok"
        /\ result = "ok" => floored = parts

-----------------------------------------------------------------------------
(* The inductive invariant of allocate. *)

\* The parts and the rest make up the total, and what was handed out is a whole
\* number of minor units.
PartsInv ==
    /\ ranking = <<>> => cursor = 0
    /\ ranking # <<>> =>
          /\ Divisible(weights)
          /\ ranking = Reference!RankedBySize(total, weights)
          /\ parts \in [1..Len(weights) -> Int] /\ rest = total - Sum(parts)
          /\ Multiple(Sum(parts))

\* Of a total that fits the precision there is something left while the loop
\* runs, and a share to give it to: the shares cut hardest have been topped up.
PassesInv ==
    ranking # <<>> /\ answer = "running" /\ total % Step = 0 =>
        /\ cursor \in 0..(Len(weights) - 1)
        /\ ToppedUp(total, weights, parts, Foremost(ranking, cursor))
        /\ Toward(total, rest) > 0

\* What a call returns.
AnswerInv ==
    /\ result = "running" => answer = "running"
    /\ answer = "ok" => ranking # <<>>
    /\ answer \in {"NoWeights", "NegativeWeight", "ZeroWeight"} => ~Divisible(weights)
    /\ answer \in {"running", "ok", "Overflow", "NoWeights", "NegativeWeight", "ZeroWeight"}
    /\ PartsAreLargestRemainder /\ OverflowsOnlyWhenTooPrecise

AllocateInv ==
    /\ total \in Int /\ weights \in Seq(Int) /\ cursor \in Nat
    /\ PartsInv /\ PassesInv /\ AnswerInv

=============================================================================
