SPECIFICATION PollingSpec
CONSTANTS
    None = None
    Absent = None
    Blank = Blank
    Garbled = Garbled
    p1 = p1
    team1 = team1
    run1 = run1
    serving = serving
    oldKey = oldKey
    newKey = newKey
    runKey = runKey
    workKey = workKey
    tagged = tagged
    retagged = retagged
    misfiled = misfiled
    unreadable = unreadable
    foreign = foreign
    usd = usd
    eur = eur
    Unlisted = Unlisted
    DefaultCurrency = usd
    CodeOf <- MCCodeOf
    ChargePeriodOf <- MCChargePeriodOf
    TagKeys = {oldKey, newKey, runKey, workKey}
    Ids = {p1, team1, run1}
    Workloads = {serving}
    FunctionOf <- MCFunctionOf
    Rules <- MCRules
    DefaultProject = None
    DefaultTeam = team1
    Tenants = {t1}
    Tenant = t1
    Periods <- MCPeriods
    Lines = {1, 2, 3}
    ExternalIds <- MCExternalIds
    Contents = {tagged, retagged, misfiled, unreadable, foreign}
    Runs = {run1}
    Currencies = {usd, eur}
    RunOf <- MCRunOf
    CostOf <- MCCostOf
    CurrencyOf <- MCCurrencyOf
    ObjectTagsOf <- MCObjectTagsOf
    ColumnTagsOf <- MCColumnTagsOf
    Unreadable = {unreadable}
    Files <- MCFiles
    Malformed = Malformed
    MaxChanges = 4
    MaxPolls = 3
INVARIANTS
    TableMirrorsExports
    InvoiceIsConserved
    StoredRowsAreAttributed
CHECK_DEADLOCK FALSE
