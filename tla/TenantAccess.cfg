SPECIFICATION FairSpec
CONSTANTS
    None = None
    acme = acme
    globex = globex
    key1 = key1
    key2 = key2
    key3 = key3
    stray = stray
    Tenants = {acme, globex}
    Tokens = {key1, key2, key3, stray}
    ContextOf <- MCContextOf
    Routes = {1, 2}
    TransactionsOf <- MCTransactionsOf
    Tasks = {k1, k2}
    Connections = {c1}
    Rows = {row}
    MaxTasks = 4
    MaxFaults = 2
INVARIANTS
    IdleConnectionsCarryNoTenant
    RowsBelongToTheirWriter
    AnswersAreTheTenantsRows
PROPERTY
    EveryTaskEnds
\* Tasks stop after MaxTasks.
CHECK_DEADLOCK FALSE
