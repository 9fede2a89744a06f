---------------------------- MODULE MCCostSpine -----------------------------
(* Small instances of CostSpine for TLC. *)
EXTENDS CostSpine

CONSTANTS t1, t2, x1, x2, x3, old, new, run, usd

MCRunOf == [c \in Contents |-> IF c = old THEN run ELSE None]
MCCostOf == [c \in Contents |-> IF c = old THEN 3 ELSE 5]
MCCurrencyOf == [c \in Contents |-> usd]

Event(t, x, c) == [tenant_id |-> t, external_id |-> x, content |-> c]

\* Batches that lock three rows in a ring, in which each waits for the next; one line
\* delivered twice in a batch with different contents; another tenant's row, a
\* mixed batch and an empty one.
MCBatches ==
    { <<Event(t1, x1, old), Event(t1, x2, old)>>,
      <<Event(t1, x2, new), Event(t1, x3, old)>>,
      <<Event(t1, x3, new), Event(t1, x1, new)>>,
      <<Event(t1, x1, new), Event(t1, x1, old)>>,
      <<Event(t2, x1, new)>>,
      <<Event(t1, x1, new), Event(t2, x1, new)>>,
      <<>> }

================================================================
