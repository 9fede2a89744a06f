SPECIFICATION FairSpec
CONSTANTS
    None = None
    t1 = t1
    t2 = t2
    x1 = x1
    x2 = x2
    x3 = x3
    old = old
    new = new
    run = run
    usd = usd
    Tenants = {t1, t2}
    ExternalIds = {x1, x2, x3}
    Contents = {old, new}
    Runs = {run}
    Currencies = {usd}
    RunOf <- MCRunOf
    CostOf <- MCCostOf
    CurrencyOf <- MCCurrencyOf
    Ingesters = {w1, w2, w3}
    Batches <- MCBatches
    MaxCalls = 1
    MaxFaults = 1
PROPERTIES
    ImplementsAtomicUpsert
    EveryCallEnds
\* Ingesters stop after MaxCalls calls.
CHECK_DEADLOCK FALSE
