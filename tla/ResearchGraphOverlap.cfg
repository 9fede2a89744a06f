SPECIFICATION Spec
CONSTANTS
    None = None
    t1 = t1
    x1 = x1
    x2 = x2
    five = five
    seven = seven
    euros = euros
    other = other
    run1 = run1
    run2 = run2
    run3 = run3
    usd = usd
    eur = eur
    Tenants = {t1}
    ExternalIds = {x1, x2}
    Contents = {five, seven, euros, other}
    Runs = {run1, run2, run3}
    Currencies = {usd, eur}
    RunOf <- MCRunOf
    CostOf <- MCCostOf
    CurrencyOf <- MCCurrencyOf
    RunCurrency = usd
    Refs = {ref}
    Reports = {running, finished, backwards}
    Invalid = {backwards}
    Trackers = {hook}
    Refreshers = {get1, get2}
    TenantOf <- MCTenantOf
    Batches <- MCBatches
    MaxDeliveries = 1
    MaxRefreshes = 1
    MaxBatches = 2
INVARIANT ProjectionIsCurrent
SYMMETRY Symmetry
CHECK_DEADLOCK FALSE
