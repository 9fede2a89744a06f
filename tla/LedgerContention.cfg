SPECIFICATION FairSpec
CONSTANTS
    None = None
    usd = usd
    a1 = a1
    a2 = a2
    t1 = t1
    t2 = t2
    g1 = g1
    r1 = r1
    Accounts <- MCAccounts
    Currencies = {usd}
    EntryIds = {e1, e2, e3, e4}
    Runs <- MCRuns
    Tenants = {t1}
    Aggregates = {g1}
    Writers = {w1, w2}
    Readers = {rd1}
    TenantOf <- OneTenant
    AggregatesOf <- OneLedger
    Commands <- PostingCommands
    MaxRequests = 2
    MaxFaults = 0
INVARIANTS
    BalanceViewIsCoherent
PROPERTY
    WaitsOnlyForRivals
\* Callers stop after MaxRequests commands.
CHECK_DEADLOCK FALSE
