-------------------------- MODULE AtomicCostSpine ---------------------------
(***************************************************************************)
(* What CostEventStore::upsert promises (crates/cost-spine/src/store.rs):  *)
(* a batch is applied as a whole or not at all, and the outcome reported   *)
(* is that of applying it to the table as it was at that moment.           *)
(***************************************************************************)
EXTENDS CostEvents

CONSTANTS
    Ingesters,     \* the concurrent callers of upsert
    Batches        \* the batches they deliver

VARIABLE answer         \* answer[w]: the result of w's last call; None while there is none

Ok(outcome) == [kind |-> "Ok", outcome |-> outcome]
Backend == [kind |-> "Backend", outcome |-> NoOutcome]

Call(w) == answer' = [answer EXCEPT ![w] = None] /\ UNCHANGED cost_events

\* A batch whose events name several tenants is refused.
Accepted(w, batch) ==
    /\ answer[w] = None
    /\ SingleTenant(batch)
    /\ cost_events' = Upserted(cost_events, batch)
    /\ answer' = [answer EXCEPT ![w] = Ok(OutcomeOf(cost_events, batch))]

Failed(w) ==
    /\ answer[w] = None
    /\ answer' = [answer EXCEPT ![w] = Backend]
    /\ UNCHANGED cost_events

\* The batch was applied, but its commit was reported as an error.
AcceptedUnknowingly(w, batch) ==
    /\ answer[w] = None
    /\ SingleTenant(batch)
    /\ cost_events' = Upserted(cost_events, batch)
    /\ answer' = [answer EXCEPT ![w] = Backend]

Init == cost_events = EmptyTable /\ answer = [w \in Ingesters |-> None]

Next == \E w \in Ingesters :
            \/ Call(w) \/ Failed(w)
            \/ \E batch \in Batches : Accepted(w, batch) \/ AcceptedUnknowingly(w, batch)

Spec == Init /\ [][Next]_<<cost_events, answer>>

=============================================================================
