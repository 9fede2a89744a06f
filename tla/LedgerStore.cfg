SPECIFICATION Spec
CONSTANTS
    None = None
    usd = usd
    a1 = a1
    a2 = a2
    t1 = t1
    t2 = t2
    g1 = g1
    r1 = r1
    Accounts <- MCAccounts
    Currencies = {usd}
    EntryIds = {e1, e2, e3}
    Runs <- MCRuns
    Tenants = {t1}
    Aggregates = {g1}
    Writers = {w1, w2}
    Readers = {}
    TenantOf <- OneTenant
    AggregatesOf <- OneLedger
    Commands <- MCCommands
    MaxRequests = 2
    MaxFaults = 1
INVARIANTS
    TypeOK
    EveryEventWasLegal
    StreamsAreDense
    ReversedAtMostOnce
    RetriesStoreNothingTwice
    AnswersMatchTheLog
PROPERTY ImplementsAtomicLedger
SYMMETRY Symmetry
CHECK_DEADLOCK FALSE
