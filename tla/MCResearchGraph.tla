-------------------------- MODULE MCResearchGraph ---------------------------
(* Small instances of ResearchGraph for TLC. *)
EXTENDS ResearchGraph, TLC

CONSTANTS t1, x1, x2, five, seven, euros, other, run1, run2, run3, usd, eur

\* Two costs of run1 in its currency, one in another, one of another run.
MCRunOf == [c \in Contents |-> IF c = other THEN run2 ELSE run1]
MCCostOf == [c \in Contents |-> CASE c = five -> 5 [] c = seven -> 7 [] c = euros -> 2 [] c = other -> 3]
MCCurrencyOf == [c \in Contents |-> IF c = euros THEN eur ELSE usd]

Event(x, c) == [tenant_id |-> t1, external_id |-> x, content |-> c]

\* A cost, its restatement, a second line in euros, a line moved to another run.
MCBatches ==
    {<<Event(x1, five)>>, <<Event(x1, seven), Event(x2, euros)>>, <<Event(x1, other)>>}

MCTenantOf == [a \in Trackers \union Refreshers |-> t1]

Symmetry == Permutations(Trackers) \union Permutations(Refreshers)

=============================================================================
