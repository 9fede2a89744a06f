CONSTANTS
    cash = cash
    depreciation = depreciation
    Usd = Usd
    Eur = Eur
    run1 = run1
    MaxOperations = 3
    SpecEntries = 2
    MinLines = 1
    MaxLines = 3
    MaxMinorUnits = 2
    None = None
    Malformed = Malformed
    Accounts <- MCAccounts
    Currencies <- MCCurrencies
    EntryIds <- MCEntryIds
    Runs <- MCRuns
    Corpora <- MCCorpora
    SpecAccounts <- MCSpecAccounts
    SpecCurrency = Usd
SPECIFICATION Spec
INVARIANTS
    ChartIgnoresFileOrder
    RecordsAreTheLedgersEntries
    RefusalsLeaveNoTrace
    EveryScopeBalances
    ExtractReconciles
    ValidatedRunsFailOnPurpose
    ExecutableMeansExecuted
    VerdictsAreEarned
    AggregateAgreesWithGroundTruth
