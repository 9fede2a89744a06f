--------------------------- MODULE MCTenantAccess ---------------------------
(* Small instances of TenantAccess for TLC. *)
EXTENDS TenantAccess, TLC

CONSTANTS acme, globex, key1, key2, key3, stray

\* Two readers of different tenants, a key that may only ingest, an unknown token.
MCContextOf ==
    [k \in Tokens |->
        CASE k = key1 -> [tenant_id |-> acme, scopes |-> {"Read"}]
          [] k = key2 -> [tenant_id |-> globex, scopes |-> {"Read", "Post"}]
          [] k = key3 -> [tenant_id |-> acme, scopes |-> {"Ingest"}]
          [] k = stray -> None]

\* A handler with one transaction, and get_run_cost or balance, with two.
MCTransactionsOf == [r \in Routes |-> r]

=============================================================================
