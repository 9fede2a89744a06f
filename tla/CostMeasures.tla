---------------------------- MODULE CostMeasures ----------------------------
(***************************************************************************)
(* PricingInputs::compute (crates/cost-spine/src/pricing.rs): the three    *)
(* FOCUS cost measures of one invoice line, from which every report is     *)
(* built.  A rate is a number of parts of Whole, so the measures of a line *)
(* with n discounts are kept multiplied by Whole^n; the 28 digits of       *)
(* Decimal are taken as exact.                                             *)
(***************************************************************************)
EXTENDS Integers, Sequences, SequencesExt, FiniteSetsExt

CONSTANTS
    Whole,            \* a rate of one
    Rates,            \* the rates of the discounts
    Prices,           \* unit prices, list and committed
    Quantities,       \* quantities, of the line and covered
    MaxDiscounts      \* bound: discounts of a line

ASSUME CostMeasuresAssumption ==
    /\ Whole \in Nat \ {0} /\ MaxDiscounts \in Nat
    /\ Rates \subseteq Int /\ Prices \subseteq Int /\ Quantities \subseteq Int

VARIABLES
    inputs,           \* the line
    outcome,          \* "none" before the call, then "ok" or the error
    amounts           \* the line's cost measures

NoCommitment == [covered_quantity |-> 0, committed_unit_price |-> 0, prepaid |-> FALSE]

CommitmentCoverage ==
    [covered_quantity : Quantities, committed_unit_price : Prices, prepaid : BOOLEAN]

\* The discounts are fractions kept by the line; no commitment counts as one of
\* nothing, which is how compute reads it.
PricingInputs ==
    [list_unit_price : Prices, quantity : Quantities,
     discounts : BoundedSeq(Rates, MaxDiscounts),
     commitment : CommitmentCoverage \union {NoCommitment}]

\* The checks in their order: the first that fails names the error. The
\* committed price is not checked.
Refusals(line) ==
    <<[error |-> "NegativeQuantity",       holds |-> line.quantity < 0],
      [error |-> "NegativeUnitPrice",      holds |-> line.list_unit_price < 0],
      [error |-> "DiscountRateOutOfRange", holds |-> ~(ToSet(line.discounts) \subseteq 0..Whole)],
      [error |-> "NegativeCoverage",       holds |-> line.commitment.covered_quantity < 0],
      [error |-> "ok",                     holds |-> TRUE]>>

\* What n discounts leave of a price, times Whole^n: they compose by product, and
\* n rates of zero leave Whole^n.
Retained(discounts) == FoldSeq(LAMBDA rate, kept : kept * (Whole - rate), 1, discounts)

\* Mutant: the covered quantity may exceed the line's.
CoveredUncapped(line) == line.commitment.covered_quantity

Covered(line) == Min({line.commitment.covered_quantity, line.quantity})

Measures(line) ==
    LET unit      == Retained([i \in DOMAIN line.discounts |-> 0])
        on_demand == (line.quantity - Covered(line)) * line.list_unit_price
                        * Retained(line.discounts)
        covered   == Covered(line) * line.commitment.committed_unit_price * unit
    IN  [list_cost      |-> line.list_unit_price * line.quantity * unit,
         billed_cost    |-> on_demand + (IF line.commitment.prepaid THEN 0 ELSE covered),
         effective_cost |-> on_demand + covered]

\* Before any line, the measures of an empty one.
NoLine == [list_unit_price |-> 0, quantity |-> 0, discounts |-> <<>>,
           commitment |-> NoCommitment]

LineInit ==
    /\ inputs \in PricingInputs
    /\ outcome = "none"
    /\ amounts = Measures(NoLine)

Compute ==
    /\ outcome = "none"
    /\ \E i \in DOMAIN Refusals(inputs) :
          /\ Refusals(inputs)[i].holds
          /\ \A j \in 1..(i - 1) : ~Refusals(inputs)[j].holds
          /\ outcome' = Refusals(inputs)[i].error
    /\ amounts' = IF outcome' = "ok" THEN Measures(inputs) ELSE amounts
    /\ UNCHANGED inputs

-----------------------------------------------------------------------------
(* Properties. *)

\* line cut in two: the first part takes quantity, and of the commitment what it
\* covers; the second takes the rest of both.
FirstPart(line, quantity) == [line EXCEPT !.quantity = quantity]

SecondPart(line, quantity) ==
    [line EXCEPT !.quantity = @ - quantity,
                 !.commitment.covered_quantity = @ - Covered(FirstPart(line, quantity))]

\* What compute answers for a line is consistent however the provider presents
\* it: a line cut in two anywhere, the commitment used up by the first part
\* first, costs what the whole does in all three measures; the order of the
\* discounts does not matter ("which is what makes the result independent of the
\* order they were applied in"); effective and billed cost differ by prepaid
\* coverage alone; and a cost leaves the range from zero to list only when the
\* committed price, which compute does not check, is outside it.
MeasuresAreConsistent ==
    outcome = "ok" =>
        /\ \A q \in 0..inputs.quantity, m \in DOMAIN amounts :
              Measures(FirstPart(inputs, q))[m] + Measures(SecondPart(inputs, q))[m]
                = amounts[m]
        /\ Measures([inputs EXCEPT !.discounts = Reverse(@)]) = amounts
        /\ inputs.commitment.prepaid \/ amounts.billed_cost = amounts.effective_cost
        /\ inputs.commitment.committed_unit_price \in 0..inputs.list_unit_price =>
              /\ 0 <= amounts.billed_cost
              /\ amounts.billed_cost <= amounts.effective_cost
              /\ amounts.effective_cost <= amounts.list_cost

-----------------------------------------------------------------------------
(* The inductive invariant. *)

Lines ==
    [list_unit_price : Int, quantity : Int, discounts : Seq(Int),
     commitment : [covered_quantity : Int, committed_unit_price : Int, prepaid : BOOLEAN]]

\* What the checks leave of the lines.
Accepts(line) ==
    /\ line.quantity >= 0 /\ line.list_unit_price >= 0
    /\ line.commitment.covered_quantity >= 0
    /\ \A i \in DOMAIN line.discounts : line.discounts[i] \in 0..Whole

MeasuresInv ==
    /\ inputs \in Lines
    /\ outcome = "ok" => amounts = Measures(inputs) /\ Accepts(inputs)

=============================================================================
