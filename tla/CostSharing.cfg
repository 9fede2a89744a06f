SPECIFICATION SharingSpec
CONSTANTS
    Step = 2
    Totals <- MCTotals
    Weights <- MCWeights
    MaxShares = 4
    Whole = 4
    Rates <- MCRates
    Prices <- MCPrices
    Quantities <- MCQuantities
    MaxDiscounts = 2
INVARIANTS
    SharesConserveTheTotal
    SharesFollowUsage
    PartsAreLargestRemainder
    OverflowsOnlyWhenTooPrecise
    RulesAgreeOnCharges
    MeasuresAreConsistent
\* A call that has returned does nothing more.
CHECK_DEADLOCK FALSE
