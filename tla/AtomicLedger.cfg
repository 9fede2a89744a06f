SPECIFICATION BoundedSpec
CONSTANTS
    None = None
    usd = usd
    eur = eur
    a1 = a1
    a2 = a2
    a3 = a3
    Accounts <- ThreeAccounts
    Currencies <- TwoCurrencies
    EntryIds = {e1, e2, e3, e4}
    Runs = {r1}
    Streams = {s1}
    Commands <- OneCurrencyCommands
    MaxEvents = 4
INVARIANTS
    TrialBalanceIsZero
    BalancesAreStandingEntries
    CapitalizationTrail
SYMMETRY EntryIdSymmetry
CHECK_DEADLOCK FALSE
