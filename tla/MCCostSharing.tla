--------------------------- MODULE MCCostSharing ----------------------------
(* Small instances of CostSharing for TLC. *)
EXTENDS CostSharing

\* Amounts in halves of a minor unit: credits of up to five minor units, charges
\* of up to six and a half.
MCTotals == -10..13

\* A negative, a zero and three positive weights.
MCWeights == {-1, 0, 1, 2, 5}

\* Quarters: a negative rate, the two limits, one between and one above.
MCRates == {-1, 0, 1, 4, 5}

\* Unit prices below zero, zero, and a cheaper and a dearer one.
MCPrices == {-1, 0, 2, 3}

\* Quantities below zero, zero, and enough to be covered in part.
MCQuantities == {-1, 0, 1, 3}

=============================================================================
