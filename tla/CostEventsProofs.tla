-------------------------- MODULE CostEventsProofs --------------------------
(***************************************************************************)
(* The table cost_events and its two writers, proved.  The store: however  *)
(* the statements of concurrent batches, their waits, deadlocks, failures  *)
(* and lost commits interleave, every batch is applied at once or not at   *)
(* all, and the outcome its caller is told is that of applying it to the   *)
(* table at its commit (IndInv of CostSpine).  The polls of a connector:   *)
(* however they are interrupted and the exports restated meanwhile, the    *)
(* table ends up saying and totalling what the exports do (PollingInv of   *)
(* Ingestion).                                                             *)
(***************************************************************************)
EXTENDS CostSpine, Ingestion, SumProofs

Cases == {"inserted", "restated", "duplicate"}

-----------------------------------------------------------------------------
(* Rows of a batch. *)

LEMMA RowOutcomeType ==
  ASSUME NEW old, NEW new
  PROVE  RowOutcome(old, new) \in Cases
<1>1. CASE old = None
  BY <1>1 DEF RowOutcome, Cases
<1>2. CASE old # None /\ old # new
  BY <1>2 DEF RowOutcome, Cases
<1>3. CASE old # None /\ old = new
  BY <1>3 DEF RowOutcome, Cases
<1> QED BY <1>1, <1>2, <1>3

LEMMA NoRowsMeet ==
  ASSUME NEW table, NEW batch, NEW c
  PROVE  Cardinality(Meeting(table, batch, 0, c)) = 0
<1>1. Meeting(table, batch, 0, c) = {}
  BY DEF Meeting
<1> QED BY <1>1, FS_EmptySet

\* The case row n + 1 meets after the first n.
Met(table, batch, n) ==
    RowOutcome(ContentAfter(table, batch, n, idempotency_key(batch[n + 1])), batch[n + 1].content)

\* One more row counts for the case it meets and for no other.
LEMMA MeetingStep ==
  ASSUME NEW table, NEW batch, NEW n \in Nat, NEW c
  PROVE  /\ Cardinality(Meeting(table, batch, n, c)) \in Nat
         /\ Cardinality(Meeting(table, batch, n + 1, c)) =
              IF c = Met(table, batch, n)
              THEN Cardinality(Meeting(table, batch, n, c)) + 1
              ELSE Cardinality(Meeting(table, batch, n, c))
<1> DEFINE Meets(i) == RowOutcome(ContentAfter(table, batch, i - 1, idempotency_key(batch[i])),
                                batch[i].content)
<1>1. PICK S, T : S = Meeting(table, batch, n, c) /\ T = Meeting(table, batch, n + 1, c)
  OBVIOUS
<1>2. S = {i \in 1..n : Meets(i) = c} /\ T = {i \in 1..(n + 1) : Meets(i) = c}
  BY <1>1 DEF Meeting
<1>3. IsFiniteSet(S)
  <2> HIDE DEF Meets
  <2>1. IsFiniteSet(1..n)
    BY FS_Interval
  <2> QED BY <1>2, <2>1, FS_Subset
<1>4. Cardinality(S) \in Nat
  BY <1>3, FS_CardinalityType
<1>5. n + 1 \notin S
  BY <1>2
<1>6. Meets(n + 1) = c => T = S \union {n + 1}
  <2> HIDE DEF Meets
  <2> QED BY <1>2
<1>7. Meets(n + 1) # c => T = S
  <2> HIDE DEF Meets
  <2> QED BY <1>2
<1>8. Cardinality(S \union {n + 1}) = Cardinality(S) + 1
  BY <1>3, <1>5, FS_AddElement
<1>9. Meets(n + 1) = Met(table, batch, n)
  <2>1. (n + 1) - 1 = n
    OBVIOUS
  <2> QED BY <2>1 DEF Met
<1> HIDE DEF Meets
<1> QED BY <1>1, <1>4, <1>6, <1>7, <1>8, <1>9

\* The cases a batch meets depend on the table only through the keys it lists.
LEMMA MeetingAgrees ==
  ASSUME NEW table, NEW other, NEW batch, NEW n \in Nat, NEW c,
         \A i \in 1..n : table[idempotency_key(batch[i])] = other[idempotency_key(batch[i])]
  PROVE  Meeting(other, batch, n, c) = Meeting(table, batch, n, c)
<1>1. ASSUME NEW i \in 1..n
      PROVE  ContentAfter(other, batch, i - 1, idempotency_key(batch[i]))
               = ContentAfter(table, batch, i - 1, idempotency_key(batch[i]))
  BY DEF ContentAfter
<1> QED BY <1>1 DEF Meeting

\* A row more is a key more.
LEMMA DeliveriesStep ==
  ASSUME NEW batch, NEW n \in Nat, NEW key
  PROVE  Deliveries(batch, n + 1, key) # {} =>
           Deliveries(batch, n, key) # {} \/ key = idempotency_key(batch[n + 1])
BY DEF Deliveries

LEMMA OutcomeIsCounts ==
  ASSUME NEW table, NEW batch \in Seq(CostEvent), NEW outcome \in UpsertOutcome,
         \A c \in Cases : outcome[c] = Cardinality(Meeting(table, batch, Len(batch), c))
  PROVE  OutcomeOf(table, batch) = outcome
<1>1. DOMAIN batch = 1..Len(batch)
  OBVIOUS
<1>2. OutcomeOf(table, batch) =
        [inserted  |-> Cardinality(Meeting(table, batch, Len(batch), "inserted")),
         restated  |-> Cardinality(Meeting(table, batch, Len(batch), "restated")),
         duplicate |-> Cardinality(Meeting(table, batch, Len(batch), "duplicate"))]
  BY <1>1 DEF OutcomeOf, Meeting
<1>3. outcome = [inserted |-> outcome["inserted"], restated |-> outcome["restated"],
                 duplicate |-> outcome["duplicate"]]
  BY DEF UpsertOutcome
<1>4. /\ outcome["inserted"] = Cardinality(Meeting(table, batch, Len(batch), "inserted"))
      /\ outcome["restated"] = Cardinality(Meeting(table, batch, Len(batch), "restated"))
      /\ outcome["duplicate"] = Cardinality(Meeting(table, batch, Len(batch), "duplicate"))
  BY DEF Cases
<1> QED BY <1>2, <1>3, <1>4, Zenon

LEMMA CountOne ==
  ASSUME NEW o \in UpsertOutcome, NEW c \in Cases
  PROVE  /\ [o EXCEPT ![c] = @ + 1] \in UpsertOutcome
         /\ \A d \in Cases : [o EXCEPT ![c] = @ + 1][d] = IF d = c THEN o[d] + 1 ELSE o[d]
<1>1. CASE c = "inserted"
  BY <1>1 DEF UpsertOutcome, Cases
<1>2. CASE c = "restated"
  BY <1>2 DEF UpsertOutcome, Cases
<1>3. CASE c = "duplicate"
  BY <1>3 DEF UpsertOutcome, Cases
<1> QED BY <1>1, <1>2, <1>3 DEF Cases

\* An event of a batch has a key of the table.
LEMMA KeyType ==
  ASSUME NEW batch \in Batches \union {<<>>}, NEW i \in 1..Len(batch)
  PROVE  batch \in Seq(CostEvent) /\ idempotency_key(batch[i]) \in Keys
<1>1. batch \in Seq(CostEvent)
  BY CostSpineAssumption
<1>2. batch[i] \in CostEvent
  BY <1>1
<1> QED BY <1>1, <1>2 DEF CostEvent, idempotency_key, Keys

-----------------------------------------------------------------------------
(* The transactions. *)

LEMMA IngesterType ==
  ASSUME IndInv, NEW w \in Ingesters
  PROVE  ingester[w] \in IngesterState /\ IngesterInv(w)
BY DEF IndInv

LEMMA EmptyBatch == <<>> \in Batches \union {<<>>}
OBVIOUS

\* What w may do without disturbing the others: lock rows no one else has locked,
\* and change in the table no row that another transaction has locked.
Locks(w) == \A key \in Keys : Holds(w, key)' =>
               Holds(w, key) \/ \A v \in Ingesters \ {w} : ~Holds(v, key)

Respected(w) == \A v \in Ingesters \ {w} : \A key \in Keys :
                   Holds(v, key) => cost_events'[key] = cost_events[key]

LEMMA StepOfOne ==
  ASSUME IndInv, NEW w \in Ingesters, NEW state \in IngesterState,
         ingester' = [ingester EXCEPT ![w] = state], cost_events' \in CostTable,
         Locks(w), Respected(w), IngesterInv(w)'
  PROVE  IndInv'
<1>1. ingester' \in [Ingesters -> IngesterState]
  BY DEF IndInv
<1>2. \A v \in Ingesters \ {w} : ingester'[v] = ingester[v]
  BY DEF IndInv
<1>3. \A v \in Ingesters \ {w} : \A key \in Keys : Holds(v, key)' => Holds(v, key)
  BY <1>2 DEF Holds
<1>4. ASSUME NEW v \in Ingesters
      PROVE  IngesterInv(v)'
  <2>1. CASE v = w
    BY <2>1
  <2>2. CASE v # w /\ ingester[v].phase # "open"
    BY <1>2, <2>2, IngesterType DEF IngesterInv
  <2>3. CASE v # w /\ ingester[v].phase = "open"
    <3>1. PICK batch, n : batch = ingester[v].batch /\ n = ingester[v].next - 1
      OBVIOUS
    <3>2. batch \in Batches \union {<<>>} /\ n \in Nat /\ n <= Len(batch)
      BY <2>3, <3>1, IngesterType, KeyType, CostSpineAssumption DEF IngesterState, IngesterInv
    <3>3. ASSUME NEW i \in 1..n
          PROVE  cost_events[idempotency_key(batch[i])] = cost_events'[idempotency_key(batch[i])]
      <4>1. batch \in Seq(CostEvent) /\ i \in 1..Len(batch)
        BY <3>2, CostSpineAssumption
      <4>2. idempotency_key(batch[i]) \in Keys
        BY <3>2, <4>1, KeyType
      <4>3. i \in Deliveries(batch, n, idempotency_key(batch[i]))
        BY DEF Deliveries
      <4>4. Holds(v, idempotency_key(batch[i]))
        BY <2>3, <3>1, <4>3 DEF Holds
      <4> QED BY <2>3, <4>2, <4>4 DEF Respected
    <3>4. \A c \in Cases : Meeting(cost_events', batch, n, c) = Meeting(cost_events, batch, n, c)
      BY <3>2, <3>3, MeetingAgrees
    <3>5. ingester'[v] = ingester[v]
      BY <1>2, <2>3
    <3> QED BY <2>3, <3>1, <3>4, <3>5, IngesterType DEF IngesterInv, Cases
  <2> QED BY <2>1, <2>2, <2>3
<1>5. LocksExclude'
  <2> SUFFICES ASSUME NEW v \in Ingesters, NEW u \in Ingesters, NEW key \in Keys, v # u,
                      Holds(v, key)', Holds(u, key)'
               PROVE  FALSE
    BY DEF LocksExclude
  <2>1. CASE v = w
    BY <1>3, <2>1 DEF Locks, IndInv, LocksExclude
  <2>2. CASE u = w
    BY <1>3, <2>2 DEF Locks, IndInv, LocksExclude
  <2>3. CASE v # w /\ u # w
    BY <1>3, <2>3 DEF IndInv, LocksExclude
  <2> QED BY <2>1, <2>2, <2>3
<1> QED BY <1>1, <1>4, <1>5 DEF IndInv

\* A caller without an open transaction has no locks.
LEMMA Unlocked ==
  ASSUME NEW w \in Ingesters, ingester'[w].phase # "open"
  PROVE  Locks(w)
BY DEF Locks, Holds

LEMMA Untouched ==
  ASSUME NEW w \in Ingesters, cost_events' = cost_events
  PROVE  Respected(w)
BY DEF Respected

LEMMA TableType == IndInv => cost_events \in CostTable
BY DEF IndInv

\* What a transaction writes are rows it has locked.
LEMMA WrittenRespects ==
  ASSUME IndInv, NEW w \in Ingesters, ingester[w].phase = "open",
         cost_events' \in {cost_events, Written(w)}
  PROVE  Respected(w)
<1> SUFFICES ASSUME NEW v \in Ingesters \ {w}, NEW key \in Keys, Holds(v, key)
             PROVE  cost_events'[key] = cost_events[key]
  BY DEF Respected
<1>1. ~Holds(w, key)
  BY DEF IndInv, LocksExclude
<1>2. Written(w)[key] = cost_events[key]
  BY <1>1 DEF Written, Seen, ContentAfter, Holds
<1> QED BY <1>2

LEMMA WrittenType ==
  ASSUME IndInv, NEW w \in Ingesters, ingester[w].phase = "open"
  PROVE  Written(w) \in CostTable
<1>1. PICK batch, n : batch = ingester[w].batch /\ n = ingester[w].next - 1
  OBVIOUS
<1>2. batch \in Seq(CostEvent) /\ n \in Nat /\ n <= Len(batch)
  BY <1>1, IngesterType, CostSpineAssumption DEF IngesterInv
<1>3. ASSUME NEW key \in Keys
      PROVE  ContentAfter(cost_events, batch, n, key) \in Contents \union {None}
  <2>1. PICK s : s = Deliveries(batch, n, key)
    OBVIOUS
  <2>2. s \in SUBSET (1..n)
    BY <2>1 DEF Deliveries
  <2>3. CASE s = {}
    BY <2>1, <2>3, TableType DEF ContentAfter, CostTable
  <2>4. CASE s # {}
    <3>1. Max(s) \in 1..n
      BY <1>2, <2>2, <2>4, BoundsExist
    <3>2. batch[Max(s)] \in CostEvent
      BY <1>2, <3>1
    <3> QED BY <2>1, <2>4, <3>2 DEF ContentAfter, CostEvent
  <2> QED BY <2>3, <2>4
<1> QED BY <1>1, <1>3 DEF Written, Seen, CostTable

LEMMA NoOutcomeType == NoOutcome \in UpsertOutcome
BY DEF NoOutcome, UpsertOutcome

LEMMA UpsertKeeps ==
  ASSUME IndInv, NEW w \in Ingesters, Upsert(w)
  PROVE  IndInv'
<1>1. PICK batch \in Batches :
        ingester' = [ingester EXCEPT ![w] =
            [phase |-> "called", batch |-> batch, next |-> 1, outcome |-> NoOutcome,
             calls |-> ingester[w].calls + 1]]
  BY DEF Upsert
<1>2. PICK state : state = [phase |-> "called", batch |-> batch, next |-> 1,
                            outcome |-> NoOutcome, calls |-> ingester[w].calls + 1]
  OBVIOUS
<1>3. state \in IngesterState
  BY <1>2, IngesterType, NoOutcomeType DEF IngesterState
<1>4. ingester'[w] = state
  BY <1>1, <1>2 DEF IndInv
<1>5. IngesterInv(w)'
  BY <1>2, <1>4 DEF IngesterInv
<1>6. Locks(w) /\ Respected(w)
  BY <1>2, <1>4, Unlocked, Untouched DEF Upsert
<1>7. cost_events' \in CostTable
  BY TableType DEF Upsert
<1> QED BY <1>1, <1>2, <1>3, <1>5, <1>6, <1>7, StepOfOne

\* The end of a call, and every change of phase but the opening.
LEMMA Closes ==
  ASSUME IndInv, NEW w \in Ingesters, NEW phase \in {"stored", "failed"},
         ingester[w].phase # "idle", ingester' = [ingester EXCEPT ![w].phase = phase],
         cost_events' \in CostTable, Respected(w)
  PROVE  IndInv'
<1>1. PICK state : state = [ingester[w] EXCEPT !.phase = phase]
  OBVIOUS
<1>2. state \in IngesterState /\ state.batch = ingester[w].batch /\ state.phase = phase
  BY <1>1, IngesterType DEF IngesterState
<1>3. ingester' = [ingester EXCEPT ![w] = state]
  BY <1>1
<1>4. ingester'[w] = state
  BY <1>3 DEF IndInv
<1>5. IngesterInv(w)'
  BY <1>2, <1>4, IngesterType DEF IngesterInv
<1>6. Locks(w)
  BY <1>2, <1>4, Unlocked
<1> QED BY <1>2, <1>3, <1>5, <1>6, StepOfOne

LEMMA BeginKeeps ==
  ASSUME IndInv, NEW w \in Ingesters, Begin(w)
  PROVE  IndInv'
<1>1. Respected(w) /\ cost_events' \in CostTable
  BY Untouched, TableType DEF Begin
<1>2. CASE ingester[w].batch = <<>>
  BY <1>1, <1>2, Closes DEF Begin
<1>3. CASE ingester[w].batch # <<>> /\ ~SingleTenant(ingester[w].batch)
  BY <1>1, <1>3, Closes DEF Begin
<1>4. CASE ingester[w].batch # <<>> /\ SingleTenant(ingester[w].batch)
  <2>1. PICK state : state = [ingester[w] EXCEPT !.phase = "open"]
    OBVIOUS
  <2>2. /\ state \in IngesterState /\ state.phase = "open" /\ state.batch = ingester[w].batch
        /\ state.next = ingester[w].next /\ state.outcome = ingester[w].outcome
    BY <2>1, IngesterType DEF IngesterState
  <2>3. ingester' = [ingester EXCEPT ![w] = state]
    BY <1>4, <2>1 DEF Begin
  <2>4. ingester'[w] = state
    BY <2>3 DEF IndInv
  <2>5. state.next = 1 /\ state.outcome = NoOutcome /\ state.batch \in Batches
    BY <2>2, IngesterType DEF Begin, IngesterInv
  <2>6. state.next \in 1..(Len(state.batch) + 1)
    BY <2>5, CostSpineAssumption
  <2>7. \A c \in Cases : state.outcome[c] = Cardinality(Meeting(cost_events', state.batch, 0, c))
    BY <2>5, NoRowsMeet DEF NoOutcome, Cases
  <2>8. IngesterInv(w)'
    BY <1>4, <2>2, <2>4, <2>5, <2>6, <2>7 DEF IngesterInv, Cases
  <2>9. Locks(w)
    <3>1. \A key : Deliveries(state.batch, 0, key) = {}
      BY DEF Deliveries
    <3> QED BY <2>4, <2>5, <3>1 DEF Locks, Holds
  <2> QED BY <1>1, <2>2, <2>3, <2>8, <2>9, StepOfOne
<1> QED BY <1>2, <1>3, <1>4

LEMMA UpsertRowKeeps ==
  ASSUME IndInv, NEW w \in Ingesters, UpsertRow(w)
  PROVE  IndInv'
<1>1. PICK batch, n : batch = ingester[w].batch /\ n = ingester[w].next - 1
  OBVIOUS
<1>2. /\ ingester[w] \in IngesterState /\ ingester[w].phase = "open"
      /\ batch \in Batches /\ batch \in Seq(CostEvent) /\ SingleTenant(batch)
      /\ n \in Nat /\ ingester[w].next = n + 1 /\ n + 1 <= Len(batch)
  BY <1>1, IngesterType, CostSpineAssumption DEF UpsertRow, HasNext, IngesterInv, IngesterState
<1>3. PICK key, met : /\ key = idempotency_key(batch[n + 1])
                      /\ met = RowOutcome(ContentAfter(cost_events, batch, n, key),
                                          batch[n + 1].content)
  OBVIOUS
<1>4. met \in Cases /\ key \in Keys
  BY <1>2, <1>3, RowOutcomeType, KeyType
<1>5. ingester' = [ingester EXCEPT ![w].next = @ + 1, ![w].outcome[met] = @ + 1]
  BY <1>1, <1>2, <1>3 DEF UpsertRow, Seen, Current
<1>6. PICK old, counts : old = ingester[w].outcome /\ counts = [old EXCEPT ![met] = @ + 1]
  OBVIOUS
<1>7. /\ counts \in UpsertOutcome
      /\ \A c \in Cases : counts[c] = IF c = met THEN old[c] + 1 ELSE old[c]
  <2>1. old \in UpsertOutcome
    BY <1>2, <1>6 DEF IngesterState
  <2> QED BY <1>4, <1>6, <2>1, CountOne
<1>8. PICK m, state : /\ m = ingester[w].next + 1
                      /\ state = [ingester[w] EXCEPT !.next = m, !.outcome = counts]
  OBVIOUS
<1>9. /\ state \in IngesterState /\ state.phase = "open" /\ state.batch = batch
      /\ state.next = n + 2 /\ state.outcome = counts
  <2>1. PICK before : before = ingester[w]
    OBVIOUS
  <2>2. before \in IngesterState /\ before.phase = "open" /\ before.batch = batch
    BY <1>1, <1>2, <2>1
  <2>3. m \in Nat /\ m = n + 2
    BY <1>2, <1>8
  <2>4. state = [before EXCEPT !.next = m, !.outcome = counts]
    BY <1>8, <2>1
  <2>5. state.phase = "open" /\ state.batch = batch /\ state.next = m /\ state.outcome = counts
    BY <2>2, <2>4 DEF IngesterState
  <2>6. state \in IngesterState
    BY <1>7, <2>2, <2>3, <2>4 DEF IngesterState
  <2> QED BY <2>3, <2>5, <2>6
<1>10. ingester' = [ingester EXCEPT ![w] = state]
  BY <1>5, <1>6, <1>8
<1>11. ingester'[w] = state
  BY <1>10 DEF IndInv
<1>12. cost_events' = cost_events
  BY DEF UpsertRow
<1>13. ASSUME NEW c \in Cases
       PROVE  counts[c] = Cardinality(Meeting(cost_events, batch, n + 1, c))
  <2>1. old[c] = Cardinality(Meeting(cost_events, batch, n, c))
    BY <1>1, <1>2, <1>6, IngesterType DEF IngesterInv, Cases
  <2>2. met = Met(cost_events, batch, n)
    BY <1>3 DEF Met
  <2>3. Cardinality(Meeting(cost_events, batch, n + 1, c)) =
          IF c = met THEN Cardinality(Meeting(cost_events, batch, n, c)) + 1
                     ELSE Cardinality(Meeting(cost_events, batch, n, c))
    BY <1>2, <2>2, MeetingStep
  <2> QED BY <1>7, <2>1, <2>3
<1>14. IngesterInv(w)'
  <2>1. state.next \in 1..(Len(state.batch) + 1) /\ state.next - 1 = n + 1
    BY <1>2, <1>9
  <2> QED BY <1>2, <1>9, <1>11, <1>12, <1>13, <2>1 DEF IngesterInv, Cases
<1>15. Locks(w)
  <2> SUFFICES ASSUME NEW k \in Keys, Holds(w, k)', ~Holds(w, k)
               PROVE  \A v \in Ingesters \ {w} : ~Holds(v, k)
    BY DEF Locks
  <2>1. Deliveries(state.batch, state.next - 1, k) # {}
    BY <1>11 DEF Holds
  <2>2. Deliveries(batch, n, k) = {}
    BY <1>1, <1>2 DEF Holds
  <2>3. state.next - 1 = n + 1
    BY <1>2, <1>9
  <2>4. k = key
    BY <1>2, <1>3, <1>9, <2>1, <2>2, <2>3, DeliveriesStep
  <2> QED BY <1>1, <1>2, <1>3, <2>4 DEF UpsertRow, WaitsFor, Current
<1> QED BY <1>9, <1>10, <1>12, <1>14, <1>15, Untouched, TableType, StepOfOne

LEMMA CommitKeeps ==
  ASSUME IndInv, NEW w \in Ingesters, Commit(w) \/ CommitLost(w)
  PROVE  IndInv'
<1>1. ingester[w].phase = "open" /\ cost_events' \in {cost_events, Written(w)}
  BY DEF Commit, CommitLost
<1>2. Respected(w) /\ cost_events' \in CostTable
  BY <1>1, WrittenRespects, WrittenType, TableType
<1>3. \/ ingester' = [ingester EXCEPT ![w].phase = "stored"]
      \/ ingester' = [ingester EXCEPT ![w].phase = "failed"]
  BY DEF Commit, CommitLost
<1> QED BY <1>1, <1>2, <1>3, Closes

LEMMA AbortKeeps ==
  ASSUME IndInv, NEW w \in Ingesters, BackendError(w) \/ DeadlockDetected(w)
  PROVE  IndInv'
<1>1. ingester[w].phase \in {"called", "open"}
  BY DEF BackendError, DeadlockDetected, WaitsFor, HasNext
<1>2. Respected(w) /\ cost_events' \in CostTable
  BY Untouched, TableType DEF BackendError, DeadlockDetected
<1> QED BY <1>1, <1>2, Closes DEF BackendError, DeadlockDetected

LEMMA Invariance == Spec => []IndInv
<1>1. Init => IndInv
  <2> SUFFICES ASSUME Init PROVE IndInv
    OBVIOUS
  <2>1. ingester \in [Ingesters -> IngesterState] /\ cost_events \in CostTable
    BY NoOutcomeType DEF Init, IngesterState, CostTable, EmptyTable
  <2>2. \A w \in Ingesters : ingester[w].phase = "idle"
    BY DEF Init
  <2> QED BY <2>1, <2>2 DEF IndInv, IngesterInv, LocksExclude, Holds
<1>2. IndInv /\ UNCHANGED vars => IndInv'
  BY DEF vars, IndInv, IngesterInv, LocksExclude, Holds
<1>3. IndInv /\ [Next]_vars => IndInv'
  BY <1>2, UpsertKeeps, BeginKeeps, UpsertRowKeeps, CommitKeeps, AbortKeeps
     DEF Next, Progress
<1> QED BY <1>1, <1>3, PTL DEF Spec

-----------------------------------------------------------------------------
(* Every step is one of a store that applies a batch at once. *)

Answers == [w \in Ingesters |-> AnswerOf(w)]

\* The abstract store reads batches as the detailed one does.
LEMMA SameBatch ==
  ASSUME NEW table, NEW batch
  PROVE  /\ Atomic!SingleTenant(batch) <=> SingleTenant(batch)
         /\ Atomic!Upserted(table, batch) = Upserted(table, batch)
         /\ Atomic!OutcomeOf(table, batch) = OutcomeOf(table, batch)
<1>0. \A S : Atomic!Max(S) = Max(S) /\ Atomic!Cardinality(S) = Cardinality(S)
  BY Zenon DEF Atomic!Max, Max, Atomic!Cardinality, Cardinality
<1>1. \A n, key : Atomic!ContentAfter(table, batch, n, key) = ContentAfter(table, batch, n, key)
  BY <1>0, Zenon DEF Atomic!ContentAfter, ContentAfter, Atomic!Deliveries, Deliveries,
               Atomic!idempotency_key, idempotency_key
<1>2. \A old, new : Atomic!RowOutcome(old, new) = RowOutcome(old, new)
  BY Zenon DEF Atomic!RowOutcome, RowOutcome
<1>3. Atomic!Upserted(table, batch) = Upserted(table, batch)
  BY <1>1, Zenon DEF Atomic!Upserted, Upserted, Atomic!Keys, Keys
<1>4. Atomic!OutcomeOf(table, batch) = OutcomeOf(table, batch)
  BY <1>0, <1>1, <1>2, Zenon DEF Atomic!OutcomeOf, OutcomeOf, Atomic!idempotency_key, idempotency_key
<1> QED BY <1>3, <1>4 DEF Atomic!SingleTenant, SingleTenant

\* What a step of w does to the answers.
LEMMA AnswersStep ==
  ASSUME IndInv, NEW w \in Ingesters, NEW state,
         ingester' = [ingester EXCEPT ![w] = state]
  PROVE  Answers' = [Answers EXCEPT ![w] = AnswerOf(w)']
<1>1. \A v \in Ingesters \ {w} : AnswerOf(v)' = AnswerOf(v)
  BY DEF AnswerOf, IndInv
<1> QED BY <1>1 DEF Answers

LEMMA AnswersPhase ==
  ASSUME IndInv, NEW w \in Ingesters, NEW phase \in {"open", "stored", "failed"},
         ingester' = [ingester EXCEPT ![w].phase = phase]
  PROVE  /\ Answers' = [Answers EXCEPT ![w] = AnswerOf(w)']
         /\ phase = "open" => AnswerOf(w)' = None
         /\ phase = "failed" => AnswerOf(w)' = Atomic!Backend
         /\ phase = "stored" => AnswerOf(w)' = Atomic!Ok(ingester[w].outcome)
<1>1. PICK state : state = [ingester[w] EXCEPT !.phase = phase]
  OBVIOUS
<1>2. ingester' = [ingester EXCEPT ![w] = state]
  BY <1>1
<1>3. ingester'[w] = state /\ state.phase = phase /\ state.outcome = ingester[w].outcome
  BY <1>1, <1>2, IngesterType DEF IndInv, IngesterState
<1>4. Answers' = [Answers EXCEPT ![w] = AnswerOf(w)']
  BY <1>2, AnswersStep
<1>5. /\ phase = "open" => AnswerOf(w)' = None
      /\ phase = "failed" => AnswerOf(w)' = Atomic!Backend
      /\ phase = "stored" => AnswerOf(w)' = Atomic!Ok(ingester[w].outcome)
  BY <1>3 DEF AnswerOf, Atomic!Backend, Atomic!Ok, NoOutcome, Atomic!NoOutcome
<1> QED BY <1>4, <1>5

LEMMA Unanswered ==
  ASSUME NEW w \in Ingesters, ingester[w].phase \in {"called", "open"}
  PROVE  Answers[w] = None
BY DEF Answers, AnswerOf

\* A transaction that has run all its statements writes what its batch makes of
\* the table, and has counted what the batch meets in it.
LEMMA CommitIsBatch ==
  ASSUME IndInv, NEW w \in Ingesters, ingester[w].phase = "open", ~HasNext(w)
  PROVE  /\ ingester[w].batch \in Batches
         /\ SingleTenant(ingester[w].batch)
         /\ Written(w) = Upserted(cost_events, ingester[w].batch)
         /\ ingester[w].outcome = OutcomeOf(cost_events, ingester[w].batch)
<1>1. PICK batch : batch = ingester[w].batch
  OBVIOUS
<1>2. batch \in Batches /\ batch \in Seq(CostEvent) /\ SingleTenant(batch)
  BY <1>1, IngesterType, CostSpineAssumption DEF IngesterInv
<1>3. ingester[w].next - 1 = Len(batch)
  BY <1>1, <1>2, IngesterType DEF HasNext, IngesterInv
<1>4. Written(w) = Upserted(cost_events, batch)
  BY <1>1, <1>3 DEF Written, Seen, Upserted
<1>5. \A c \in Cases :
        ingester[w].outcome[c] = Cardinality(Meeting(cost_events, batch, Len(batch), c))
  BY <1>1, <1>3, IngesterType DEF IngesterInv, Cases
<1>6. ingester[w].outcome \in UpsertOutcome
  BY IngesterType DEF IngesterState
<1>7. ingester[w].outcome = OutcomeOf(cost_events, batch)
  BY <1>2, <1>5, <1>6, OutcomeIsCounts
<1> QED BY <1>1, <1>2, <1>4, <1>7

\* What one caller's step does to the table and the answers.
AtomicStep(w) ==
    \/ Atomic!Call(w) \/ Atomic!Failed(w)
    \/ \E batch \in Batches : Atomic!Accepted(w, batch) \/ Atomic!AcceptedUnknowingly(w, batch)
    \/ UNCHANGED <<cost_events, Answers>>

LEMMA UpsertRefines ==
  ASSUME IndInv, NEW w \in Ingesters, Upsert(w)
  PROVE  Atomic!Call(w)
<1>1. PICK batch \in Batches :
        ingester' = [ingester EXCEPT ![w] =
            [phase |-> "called", batch |-> batch, next |-> 1, outcome |-> NoOutcome,
             calls |-> ingester[w].calls + 1]]
  BY DEF Upsert
<1>2. Answers' = [Answers EXCEPT ![w] = AnswerOf(w)']
  BY <1>1, AnswersStep
<1>3. ingester'[w].phase = "called"
  BY <1>1 DEF IndInv
<1>4. AnswerOf(w)' = None
  BY <1>3 DEF AnswerOf
<1> QED BY <1>2, <1>4 DEF Upsert, Atomic!Call, Answers

LEMMA EmptyIsAccepted ==
  ASSUME NEW table
  PROVE  OutcomeOf(table, <<>>) = NoOutcome /\ SingleTenant(<<>>)
<1>1. NoOutcome \in UpsertOutcome /\ Len(<<>>) = 0 /\ <<>> \in Seq(CostEvent)
  BY NoOutcomeType
<1>2. \A c \in Cases : NoOutcome[c] = Cardinality(Meeting(table, <<>>, 0, c))
  BY NoRowsMeet DEF Cases, NoOutcome
<1>3. OutcomeOf(table, <<>>) = NoOutcome
  BY <1>1, <1>2, OutcomeIsCounts
<1>4. DOMAIN <<>> = {}
  OBVIOUS
<1> QED BY <1>3, <1>4 DEF SingleTenant

\* No row leaves the table as it is.
LEMMA EmptyWritesNothing ==
  ASSUME NEW table \in CostTable
  PROVE  Upserted(table, <<>>) = table
<1>1. \A key : Deliveries(<<>>, 0, key) = {}
  BY DEF Deliveries
<1> QED BY <1>1 DEF Upserted, ContentAfter, CostTable

LEMMA FailureRefines ==
  ASSUME IndInv, NEW w \in Ingesters, ingester[w].phase \in {"called", "open"},
         cost_events' = cost_events, ingester' = [ingester EXCEPT ![w].phase = "failed"]
  PROVE  Atomic!Failed(w)
<1>1. Answers' = [Answers EXCEPT ![w] = Atomic!Backend]
  BY AnswersPhase
<1>2. Answers[w] = None
  BY Unanswered
<1> QED BY <1>1, <1>2 DEF Atomic!Failed, Answers

LEMMA BeginRefines ==
  ASSUME IndInv, NEW w \in Ingesters, Begin(w)
  PROVE  AtomicStep(w)
<1>1. Answers[w] = None
  BY Unanswered DEF Begin
<1>2. CASE ingester[w].batch = <<>>
  <2>1. ingester' = [ingester EXCEPT ![w].phase = "stored"]
    BY <1>2 DEF Begin
  <2>2. ingester[w].outcome = NoOutcome /\ <<>> \in Batches
    BY <1>2, IngesterType DEF Begin, IngesterInv
  <2>3. Answers' = [Answers EXCEPT ![w] = Atomic!Ok(OutcomeOf(cost_events, <<>>))]
    BY <2>1, <2>2, AnswersPhase, EmptyIsAccepted
  <2>4. cost_events' = Upserted(cost_events, <<>>) /\ SingleTenant(<<>>)
    BY EmptyWritesNothing, EmptyIsAccepted, TableType DEF Begin
  <2>5. Atomic!Accepted(w, <<>>)
    BY <1>1, <2>3, <2>4, SameBatch DEF Atomic!Accepted, Answers
  <2> QED BY <2>2, <2>5 DEF AtomicStep
<1>3. CASE ingester[w].batch # <<>> /\ SingleTenant(ingester[w].batch)
  <2>1. ingester' = [ingester EXCEPT ![w].phase = "open"] /\ cost_events' = cost_events
    BY <1>3 DEF Begin
  <2>2. Answers' = [Answers EXCEPT ![w] = None]
    BY <2>1, AnswersPhase
  <2>3. Answers' = Answers
    BY <1>1, <2>2 DEF Answers
  <2> QED BY <2>1, <2>3 DEF AtomicStep
<1>4. CASE ingester[w].batch # <<>> /\ ~SingleTenant(ingester[w].batch)
  <2>1. ingester' = [ingester EXCEPT ![w].phase = "failed"] /\ cost_events' = cost_events
    BY <1>4 DEF Begin
  <2>2. Atomic!Failed(w)
    BY <2>1, FailureRefines DEF Begin
  <2> QED BY <2>2 DEF AtomicStep
<1> QED BY <1>2, <1>3, <1>4

LEMMA UpsertRowRefines ==
  ASSUME IndInv, NEW w \in Ingesters, UpsertRow(w)
  PROVE  AtomicStep(w)
<1>1. PICK met : ingester' = [ingester EXCEPT ![w].next = @ + 1, ![w].outcome[met] = @ + 1]
  BY DEF UpsertRow
<1>2. PICK counts : counts = [ingester[w].outcome EXCEPT ![met] = @ + 1]
  OBVIOUS
<1>3. PICK state : state = [ingester[w] EXCEPT !.next = @ + 1, !.outcome = counts]
  OBVIOUS
<1>4. ingester' = [ingester EXCEPT ![w] = state]
  BY <1>1, <1>2, <1>3
<1>5. Answers' = [Answers EXCEPT ![w] = AnswerOf(w)']
  BY <1>4, AnswersStep
<1>6. ingester'[w].phase = "open"
  BY <1>3, <1>4, IngesterType DEF UpsertRow, HasNext, IndInv, IngesterState
<1>7. AnswerOf(w)' = None /\ Answers[w] = None
  BY <1>6, Unanswered DEF AnswerOf, UpsertRow, HasNext
<1>8. Answers' = Answers
  BY <1>5, <1>7 DEF Answers
<1> QED BY <1>8 DEF AtomicStep, UpsertRow

LEMMA CommitRefines ==
  ASSUME IndInv, NEW w \in Ingesters, Commit(w) \/ CommitLost(w)
  PROVE  AtomicStep(w)
<1>1. PICK batch : batch = ingester[w].batch
  OBVIOUS
<1>2. ingester[w].phase = "open" /\ ~HasNext(w) /\ Answers[w] = None
  BY Unanswered DEF Commit, CommitLost
<1>3. /\ batch \in Batches /\ SingleTenant(batch)
      /\ Written(w) = Upserted(cost_events, batch)
      /\ ingester[w].outcome = OutcomeOf(cost_events, batch)
  BY <1>1, <1>2, CommitIsBatch
<1>4. CASE Commit(w)
  <2>1. Answers' = [Answers EXCEPT ![w] = Atomic!Ok(OutcomeOf(cost_events, batch))]
    BY <1>3, <1>4, AnswersPhase DEF Commit
  <2>2. cost_events' = Upserted(cost_events, batch)
    BY <1>3, <1>4 DEF Commit
  <2>3. Atomic!Accepted(w, batch)
    BY <1>2, <1>3, <2>1, <2>2, SameBatch DEF Atomic!Accepted, Answers
  <2> QED BY <1>3, <2>3 DEF AtomicStep
<1>5. CASE CommitLost(w) /\ cost_events' = cost_events
  <2>1. Atomic!Failed(w)
    BY <1>2, <1>5, FailureRefines DEF CommitLost
  <2> QED BY <2>1 DEF AtomicStep
<1>6. CASE CommitLost(w) /\ cost_events' = Written(w)
  <2>1. Answers' = [Answers EXCEPT ![w] = Atomic!Backend]
    BY <1>6, AnswersPhase DEF CommitLost
  <2>2. Atomic!AcceptedUnknowingly(w, batch)
    BY <1>2, <1>3, <1>6, <2>1, SameBatch DEF Atomic!AcceptedUnknowingly, Answers
  <2> QED BY <1>3, <2>2 DEF AtomicStep
<1> QED BY <1>4, <1>5, <1>6 DEF CommitLost

LEMMA AbortRefines ==
  ASSUME IndInv, NEW w \in Ingesters, BackendError(w) \/ DeadlockDetected(w)
  PROVE  AtomicStep(w)
<1>1. ingester[w].phase \in {"called", "open"}
  BY DEF BackendError, DeadlockDetected, WaitsFor, HasNext
<1>2. Atomic!Failed(w)
  BY <1>1, FailureRefines DEF BackendError, DeadlockDetected
<1> QED BY <1>2 DEF AtomicStep

\* Statements of overlapping batches, waits for row locks, deadlocks, rollbacks and
\* commits whose answer is lost come to a table to which each batch is applied at
\* once or not at all; and a caller that gets Ok gets the counts of its own batch
\* on the table as it was at its commit (upsert of crates/infra/src/cost_events.rs
\* against the contract of crates/cost-spine/src/store.rs).
THEOREM UpsertIsAtomic == Spec => ImplementsAtomicUpsert
<1>1. Init => Atomic!Init
  BY DEF Init, Atomic!Init, AnswerOf, EmptyTable, Atomic!EmptyTable, Keys, Atomic!Keys
<1>2. IndInv /\ [Next]_vars => [Atomic!Next]_<<cost_events, Answers>>
  <2> SUFFICES ASSUME IndInv, [Next]_vars
               PROVE  [Atomic!Next]_<<cost_events, Answers>>
    OBVIOUS
  <2>1. CASE UNCHANGED vars
    BY <2>1 DEF vars, Answers, AnswerOf
  <2>2. ASSUME NEW w \in Ingesters,
               \/ Upsert(w) \/ Progress(w) \/ CommitLost(w)
               \/ BackendError(w) \/ DeadlockDetected(w)
        PROVE  AtomicStep(w)
    <3>1. CASE Upsert(w)
      BY <3>1, UpsertRefines DEF AtomicStep
    <3> QED BY <2>2, <3>1, BeginRefines, UpsertRowRefines, CommitRefines, AbortRefines
            DEF Progress
  <2>3. ASSUME NEW w \in Ingesters, AtomicStep(w)
        PROVE  [Atomic!Next]_<<cost_events, Answers>>
    BY <2>3 DEF AtomicStep, Atomic!Next, Answers
  <2> QED BY <2>1, <2>2, <2>3 DEF Next
<1> QED BY <1>1, <1>2, Invariance, PTL DEF Spec, ImplementsAtomicUpsert, Atomic!Spec, Answers

-----------------------------------------------------------------------------
(* The polls of a connector: the batch of a poll, one record after another. *)

\* The function EventsOf builds for the first N records.
EventsFn(records, N) ==
    CHOOSE g : g = [n \in 0..N |-> IF n = 0 THEN <<>>
                                   ELSE IF Refused(records[n].row) THEN g[n - 1]
                                        ELSE Append(g[n - 1], normalize(records[n]))]

LEMMA EventsFnDef ==
  ASSUME NEW records, NEW N \in Nat
  PROVE  EventsFn(records, N) =
            [n \in 0..N |-> IF n = 0 THEN <<>>
                            ELSE IF Refused(records[n].row) THEN EventsFn(records, N)[n - 1]
                                 ELSE Append(EventsFn(records, N)[n - 1], normalize(records[n]))]
<1> DEFINE Next1(n, b) == IF Refused(records[n].row) THEN b ELSE Append(b, normalize(records[n]))
           F(m, g) == [n \in 0..m |-> IF n = 0 THEN <<>> ELSE Next1(n, g[n - 1])]
           S == {m \in Nat : \E g : g = F(m, g)}
<1> HIDE DEF Next1
<1>1. 0 \in S
  <2> DEFINE g == [n \in 0..0 |-> <<>>]
  <2>1. g = F(0, g)
    OBVIOUS
  <2> QED BY <2>1
<1>2. ASSUME NEW m \in Nat, m \in S PROVE m + 1 \in S
  <2>1. PICK g : g = F(m, g)
    BY <1>2
  <2> DEFINE h == [n \in 0..(m + 1) |-> IF n = m + 1 THEN Next1(m + 1, g[m]) ELSE g[n]]
  <2>2. ASSUME NEW n \in 0..(m + 1)
        PROVE  h[n] = IF n = 0 THEN <<>> ELSE Next1(n, h[n - 1])
    <3>1. CASE n = m + 1
      BY <3>1
    <3>2. CASE n # m + 1
      <4>1. n \in 0..m /\ h[n] = g[n] /\ (n # 0 => h[n - 1] = g[n - 1])
        BY <3>2
      <4>2. g[n] = IF n = 0 THEN <<>> ELSE Next1(n, g[n - 1])
        BY <2>1, <4>1
      <4> QED BY <4>1, <4>2
    <3> QED BY <3>1, <3>2
  <2>3. h = F(m + 1, h)
    BY <2>2
  <2>4. \E f : f = F(m + 1, f)
    <3> HIDE DEF h, F
    <3> QED BY <2>3
  <2> QED BY <2>4
<1>3. N \in S
  <2> HIDE DEF S
  <2> QED BY <1>1, <1>2, SetInduction
<1>4. \E g : g = F(N, g)
  BY <1>3
<1> QED BY <1>4 DEF EventsFn, Next1

LEMMA EventsAreEventsFn ==
  ASSUME NEW records
  PROVE  EventsOf(records) = EventsFn(records, Len(records))[Len(records)]
BY DEF EventsOf, EventsFn

\* The event of a record is one of the table's, under the connector's tenant.
LEMMA NormalizeType ==
  ASSUME NEW raw \in RawCostRecord
  PROVE  /\ normalize(raw) \in CostEvent
         /\ idempotency_key(normalize(raw))
              = <<Tenant, derive_external_id(raw.row, raw.billing_period)>>
         /\ normalize(raw).content = raw.row.content
<1>1. raw.row \in FocusRow /\ raw.billing_period \in Periods
  BY DEF RawCostRecord
<1>2. raw.row.line \in Lines /\ raw.row.content \in Contents
  BY <1>1 DEF FocusRow
<1>3. derive_external_id(raw.row, raw.billing_period) \in ExternalIds
  BY <1>1, <1>2, IngestionAssumption DEF derive_external_id
<1> QED BY <1>2, <1>3, IngestionAssumption DEF normalize, CostEvent, idempotency_key

\* An event more is the content of its key.
LEMMA UpsertedMore ==
  ASSUME NEW table, NEW batch \in Seq(CostEvent), NEW event \in CostEvent, NEW key \in Keys
  PROVE  Upserted(table, Append(batch, event))[key] =
           IF key = idempotency_key(event) THEN event.content ELSE Upserted(table, batch)[key]
<1>0. PICK n \in Nat : n = Len(batch)
  OBVIOUS
<1>1. PICK more : more = Append(batch, event)
  OBVIOUS
<1>2. Len(more) = n + 1 /\ more[n + 1] = event /\ \A i \in 1..n : more[i] = batch[i]
  BY <1>0, <1>1
<1>3. PICK S, T : S = Deliveries(more, n + 1, key) /\ T = Deliveries(batch, n, key)
  OBVIOUS
<1>4. Upserted(table, more)[key] = IF S = {} THEN table[key] ELSE more[Max(S)].content
  BY <1>2, <1>3 DEF Upserted, ContentAfter
<1>5. Upserted(table, batch)[key] = IF T = {} THEN table[key] ELSE batch[Max(T)].content
  BY <1>0, <1>3 DEF Upserted, ContentAfter
<1>6. CASE key = idempotency_key(event)
  <2>1. S \in SUBSET (1..(n + 1)) /\ n + 1 \in S
    BY <1>2, <1>3, <1>6 DEF Deliveries
  <2>2. Max(S) = n + 1
    BY <2>1, MaxIs
  <2> QED BY <1>1, <1>2, <1>4, <1>6, <2>1, <2>2
<1>7. CASE key # idempotency_key(event)
  <2>1. S = T /\ T \in SUBSET (1..n)
    BY <1>2, <1>3, <1>7 DEF Deliveries
  <2>2. T # {} => Max(T) \in 1..n
    BY <2>1, BoundsExist
  <2> QED BY <1>1, <1>2, <1>4, <1>5, <1>7, <2>1, <2>2
<1> QED BY <1>6, <1>7

\* A record more says something of its own external id, unless it is refused.
LEMMA SaidMore ==
  ASSUME NEW records, NEW n \in Nat, NEW x
  PROVE  /\ LastSaid(records, 0, x) = None
         /\ LastSaid(records, n + 1, x) =
              IF /\ ~Refused(records[n + 1].row)
                 /\ derive_external_id(records[n + 1].row, records[n + 1].billing_period) = x
              THEN records[n + 1].row.content ELSE LastSaid(records, n, x)
<1> DEFINE Says(k) == /\ derive_external_id(records[k].row, records[k].billing_period) = x
                      /\ ~Refused(records[k].row)
<1>1. PICK S, T : S = Saying(records, n + 1, x) /\ T = Saying(records, n, x)
  OBVIOUS
<1>2. S = {k \in 1..(n + 1) : Says(k)} /\ T = {k \in 1..n : Says(k)}
  BY <1>1 DEF Saying
<1>3. Saying(records, 0, x) = {}
  BY DEF Saying
<1> HIDE DEF Says
<1>4. CASE Says(n + 1)
  <2>1. S \in SUBSET (1..(n + 1)) /\ n + 1 \in S
    BY <1>2, <1>4
  <2>2. Max(S) = n + 1
    BY <2>1, MaxIs
  <2> QED BY <1>1, <1>3, <1>4, <2>1, <2>2 DEF LastSaid, Says
<1>5. CASE ~Says(n + 1)
  <2>1. S = T
    BY <1>2, <1>5
  <2> QED BY <1>1, <1>3, <1>5, <2>1 DEF LastSaid, Says
<1> QED BY <1>4, <1>5

\* What a record says is a row of it that is not refused.
LEMMA SaidType ==
  ASSUME NEW records \in Seq(RawCostRecord), NEW n \in 0..Len(records), NEW x,
         LastSaid(records, n, x) # None
  PROVE  /\ x \in ExternalIds /\ LastSaid(records, n, x) \in Contents \ Unreadable
         /\ ~AttributionFails(TagsOf(LastSaid(records, n, x)))
<1>1. PICK S : S = Saying(records, n, x)
  OBVIOUS
<1>2. S # {} /\ LastSaid(records, n, x) = records[Max(S)].row.content /\ S \in SUBSET (1..n)
  BY <1>1 DEF LastSaid, Saying
<1>3. PICK k : k = Max(S)
  OBVIOUS
<1>4. k \in S /\ k \in 1..Len(records)
  <2>1. n \in Nat
    OBVIOUS
  <2>2. k \in S
    BY <1>2, <1>3, <2>1, BoundsExist
  <2> QED BY <1>2, <2>2
<1>5. PICK raw : raw = records[k]
  OBVIOUS
<1>6. /\ raw \in RawCostRecord /\ ~Refused(raw.row)
      /\ derive_external_id(raw.row, raw.billing_period) = x
      /\ LastSaid(records, n, x) = raw.row.content
  BY <1>1, <1>2, <1>3, <1>4, <1>5 DEF Saying
<1>7. derive_external_id(raw.row, raw.billing_period) \in ExternalIds /\ raw.row.content \in Contents
  BY <1>6, IngestionAssumption DEF derive_external_id, RawCostRecord, FocusRow
<1> QED BY <1>6, <1>7 DEF Refused

\* Storing a batch writes what its records say, and nothing else.
LEMMA StoreWrites ==
  ASSUME NEW records \in Seq(RawCostRecord), NEW table
  PROVE  /\ EventsOf(records) \in Seq(CostEvent)
         /\ \A key \in Keys :
               Upserted(table, EventsOf(records))[key] =
                  IF key[1] = Tenant /\ LastSaid(records, Len(records), key[2]) # None
                  THEN LastSaid(records, Len(records), key[2]) ELSE table[key]
<1>1. PICK N : N = Len(records) /\ N \in Nat
  OBVIOUS
<1> DEFINE Batch(n) == EventsFn(records, N)[n]
           WritesSaid(n) == \A key \in Keys :
               Upserted(table, Batch(n))[key] =
                  IF key[1] = Tenant /\ LastSaid(records, n, key[2]) # None
                  THEN LastSaid(records, n, key[2]) ELSE table[key]
           S == {n \in Nat : n <= N => Batch(n) \in Seq(CostEvent) /\ WritesSaid(n)}
<1>2. /\ Batch(0) = <<>>
      /\ \A n \in Nat : n < N =>
            Batch(n + 1) = IF Refused(records[n + 1].row) THEN Batch(n)
                           ELSE Append(Batch(n), normalize(records[n + 1]))
  <2>1. PICK f : f = EventsFn(records, N)
    OBVIOUS
  <2>2. f = [n \in 0..N |-> IF n = 0 THEN <<>>
                             ELSE IF Refused(records[n].row) THEN f[n - 1]
                                  ELSE Append(f[n - 1], normalize(records[n]))]
    <3>1. EventsFn(records, N) =
            [n \in 0..N |-> IF n = 0 THEN <<>>
                            ELSE IF Refused(records[n].row) THEN EventsFn(records, N)[n - 1]
                                 ELSE Append(EventsFn(records, N)[n - 1], normalize(records[n]))]
      BY <1>1, EventsFnDef, Zenon
    <3> QED BY <2>1, <3>1, Zenon
  <2>3. f[0] = <<>>
    BY <1>1, <2>2
  <2>4. ASSUME NEW n \in Nat, n < N
        PROVE  f[n + 1] = IF Refused(records[n + 1].row) THEN f[n]
                          ELSE Append(f[n], normalize(records[n + 1]))
    <3>1. n + 1 \in 0..N /\ n + 1 # 0 /\ (n + 1) - 1 = n
      BY <1>1, <2>4
    <3>2. PICK m : m = n + 1
      OBVIOUS
    <3>3. f[m] = IF Refused(records[m].row) THEN f[m - 1]
                 ELSE Append(f[m - 1], normalize(records[m]))
      BY <2>2, <3>1, <3>2
    <3> QED BY <3>1, <3>2, <3>3
  <2> QED BY <2>1, <2>3, <2>4
<1> HIDE DEF Batch
<1>3. 0 \in S
  <2>0. Batch(0) = <<>>
    BY <1>2
  <2>1. Batch(0) \in Seq(CostEvent) /\ Len(Batch(0)) = 0
    <3>1. <<>> \in Seq(CostEvent) /\ Len(<<>>) = 0
      OBVIOUS
    <3> QED BY <2>0, <3>1, Zenon
  <2>2. ASSUME NEW key \in Keys PROVE Upserted(table, Batch(0))[key] = table[key]
    <3>1. Deliveries(Batch(0), 0, key) = {}
      BY DEF Deliveries
    <3> QED BY <2>1, <3>1 DEF Upserted, ContentAfter
  <2>3. \A key \in Keys : LastSaid(records, 0, key[2]) = None
    BY SaidMore
  <2> QED BY <2>1, <2>2, <2>3
<1>4. ASSUME NEW n \in Nat, n \in S PROVE n + 1 \in S
  <2> SUFFICES ASSUME n + 1 <= N PROVE Batch(n + 1) \in Seq(CostEvent) /\ WritesSaid(n + 1)
    OBVIOUS
  <2>1. Batch(n) \in Seq(CostEvent) /\ WritesSaid(n)
    BY <1>1, <1>4
  <2>2. PICK raw : raw = records[n + 1]
    OBVIOUS
  <2>3. raw \in RawCostRecord
    BY <1>1, <2>2
  <2>4. CASE Refused(raw.row)
    <3>1. Batch(n + 1) = Batch(n)
      BY <1>1, <1>2, <2>2, <2>4
    <3>2. \A x : LastSaid(records, n + 1, x) = LastSaid(records, n, x)
      BY <2>2, <2>4, SaidMore
    <3> QED BY <2>1, <3>1, <3>2
  <2>5. CASE ~Refused(raw.row)
    <3>1. PICK event, id : event = normalize(raw) /\ id = derive_external_id(raw.row, raw.billing_period)
      OBVIOUS
    <3>2. /\ event \in CostEvent /\ idempotency_key(event) = <<Tenant, id>>
          /\ event.content = raw.row.content
      BY <2>3, <3>1, NormalizeType
    <3>3. Batch(n + 1) = Append(Batch(n), event)
      <4>1. Batch(n + 1) = IF Refused(records[n + 1].row) THEN Batch(n)
                           ELSE Append(Batch(n), normalize(records[n + 1]))
        BY <1>1, <1>2
      <4> QED BY <2>2, <2>5, <3>1, <4>1, Zenon
    <3>4. \A x : LastSaid(records, n + 1, x) = IF id = x THEN raw.row.content ELSE LastSaid(records, n, x)
      BY <2>2, <2>5, <3>1, SaidMore
    <3>5. raw.row.content # None
      BY <2>3, ContentAssumption DEF RawCostRecord, FocusRow
    <3>6. ASSUME NEW key \in Keys
          PROVE  Upserted(table, Batch(n + 1))[key] =
                    IF key[1] = Tenant /\ LastSaid(records, n + 1, key[2]) # None
                    THEN LastSaid(records, n + 1, key[2]) ELSE table[key]
      <4>0. PICK b : b = Batch(n)
        OBVIOUS
      <4>1. Upserted(table, Batch(n + 1))[key] =
               IF key = <<Tenant, id>> THEN raw.row.content ELSE Upserted(table, Batch(n))[key]
        <5>1. b \in Seq(CostEvent) /\ event \in CostEvent
          BY <2>1, <3>2, <4>0
        <5>2. Upserted(table, Append(b, event))[key] =
                IF key = idempotency_key(event) THEN event.content ELSE Upserted(table, b)[key]
          BY <5>1, UpsertedMore
        <5> QED BY <3>2, <3>3, <4>0, <5>2, Zenon
      <4>2. key = <<key[1], key[2]>>
        BY DEF Keys
      <4>3. key = <<Tenant, id>> <=> key[1] = Tenant /\ key[2] = id
        BY <4>2
      <4> QED BY <2>1, <3>4, <3>5, <4>1, <4>3
    <3>7. Batch(n + 1) \in Seq(CostEvent)
      <4>1. PICK b : b = Batch(n)
        OBVIOUS
      <4>2. b \in Seq(CostEvent) /\ event \in CostEvent
        BY <2>1, <3>2, <4>1
      <4>3. Append(b, event) \in Seq(CostEvent)
        BY <4>2
      <4> QED BY <3>3, <4>1, <4>3, Zenon
    <3> QED BY <3>6, <3>7
  <2> QED BY <2>4, <2>5
<1>5. N \in S
  <2> HIDE DEF S
  <2> QED BY <1>1, <1>3, <1>4, SetInduction
<1>6. EventsOf(records) = Batch(N)
  BY <1>1, EventsAreEventsFn DEF Batch
<1> QED BY <1>1, <1>5, <1>6

LEMMA NothingSaid ==
  ASSUME NEW records \in Seq(RawCostRecord), NEW n \in 0..Len(records), NEW x
  PROVE  LastSaid(records, n, x) = None <=> Saying(records, n, x) = {}
<1>1. CASE Saying(records, n, x) = {}
  BY <1>1 DEF LastSaid
<1>2. CASE Saying(records, n, x) # {}
  <2>1. PICK S, k : S = Saying(records, n, x) /\ k = Max(S)
    OBVIOUS
  <2>2. S \in SUBSET (1..n) /\ S # {} /\ n \in Nat
    BY <1>2, <2>1 DEF Saying
  <2>3. k \in 1..Len(records)
    <3>1. k \in S
      BY <2>1, <2>2, BoundsExist
    <3> QED BY <2>2, <3>1
  <2>4. records[k] \in RawCostRecord
    BY <2>3
  <2>5. records[k].row.content # None
    BY <2>4, ContentAssumption DEF RawCostRecord, FocusRow
  <2>6. LastSaid(records, n, x) = records[k].row.content
    BY <1>2, <2>1 DEF LastSaid
  <2> QED BY <1>2, <2>5, <2>6
<1> QED BY <1>1, <1>2

\* The records of one export, as read_export returns them.
RecordsOf(file, i) == [k \in DOMAIN file |-> [row |-> file[k], billing_period |-> i]]

LEMMA JoinedIs ==
  ASSUME NEW s \in Seq(RawCostRecord), NEW t \in Seq(RawCostRecord)
  PROVE  /\ s \o t \in Seq(RawCostRecord) /\ Len(s \o t) = Len(s) + Len(t)
         /\ \A k \in 1..Len(s) : (s \o t)[k] = s[k]
         /\ \A k \in 1..Len(t) : (s \o t)[Len(s) + k] = t[k]
OBVIOUS

\* What a poll holds of an export it has just read is what the export says; of the
\* others it holds what it did.
LEMMA ReadSaid ==
  ASSUME NEW records \in Seq(RawCostRecord), NEW i \in Periods, exports[i] \in Seq(FocusRow),
         NEW more, more = records \o RecordsOf(exports[i], i)
  PROVE  /\ more \in Seq(RawCostRecord)
         /\ \A x \in ExternalIds : x[1] # i =>
               LastSaid(more, Len(more), x) = LastSaid(records, Len(records), x)
         /\ \A line \in Lines : LastSaid(records, Len(records), <<i, line>>) = None =>
               LastSaid(more, Len(more), <<i, line>>) = SaidOf(i, line)
<1>1. PICK file : file = exports[i] /\ file \in Seq(FocusRow)
  OBVIOUS
<1>2. PICK n \in Nat : n = Len(records)
  OBVIOUS
<1>3. PICK m \in Nat : m = Len(file) /\ DOMAIN file = 1..m
  BY <1>1
<1>4. PICK added : added = RecordsOf(file, i)
  OBVIOUS
<1>5. added \in Seq(RawCostRecord) /\ Len(added) = m
  <2>1. added = [k \in 1..m |-> [row |-> file[k], billing_period |-> i]]
    BY <1>3, <1>4 DEF RecordsOf
  <2>2. \A k \in 1..m : file[k] \in FocusRow
    BY <1>1, <1>3
  <2>3. \A k \in 1..m : added[k] \in RawCostRecord
    BY <2>1, <2>2 DEF RawCostRecord
  <2> QED BY <2>1, <2>3
<1>6. /\ more \in Seq(RawCostRecord) /\ Len(more) = n + m
      /\ \A k \in 1..n : more[k] = records[k]
      /\ \A k \in 1..m : more[n + k] = added[k]
  <2>1. more = records \o added
    BY <1>1, <1>4
  <2>2. /\ records \o added \in Seq(RawCostRecord)
        /\ Len(records \o added) = Len(records) + Len(added)
        /\ \A k \in 1..Len(records) : (records \o added)[k] = records[k]
        /\ \A k \in 1..Len(added) : (records \o added)[Len(records) + k] = added[k]
    BY <1>5, JoinedIs
  <2> QED BY <1>2, <1>5, <2>1, <2>2, Zenon
<1>7. \A k \in 1..m : more[n + k].row = file[k] /\ more[n + k].billing_period = i
  <2>1. \A k \in 1..m : added[k] = [row |-> file[k], billing_period |-> i]
    BY <1>3, <1>4 DEF RecordsOf
  <2>2. ASSUME NEW k \in 1..m
        PROVE  more[n + k].row = file[k] /\ more[n + k].billing_period = i
    <3>1. more[n + k] = added[k] /\ added[k] = [row |-> file[k], billing_period |-> i]
      BY <1>6, <2>1
    <3>2. more[n + k] = [row |-> file[k], billing_period |-> i]
      BY <3>1, Zenon
    <3> QED BY <3>2
  <2> QED BY <2>2
<1>8. ASSUME NEW x \in ExternalIds, x[1] # i
      PROVE  LastSaid(more, Len(more), x) = LastSaid(records, Len(records), x)
  <2>1. ASSUME NEW k \in (n + 1)..(n + m)
        PROVE  derive_external_id(more[k].row, more[k].billing_period) # x
    <3>1. more[k].billing_period = i
      <4>1. k - n \in 1..m /\ n + (k - n) = k
        BY <2>1
      <4> QED BY <1>7, <4>1
    <3> QED BY <1>8, <3>1 DEF derive_external_id
  <2>2. Saying(more, n + m, x) = Saying(records, n, x)
    BY <1>6, <2>1 DEF Saying
  <2>3. Saying(records, n, x) # {} => Max(Saying(records, n, x)) \in 1..n
    <3>1. Saying(records, n, x) \in SUBSET (1..n)
      BY DEF Saying
    <3> QED BY <3>1, BoundsExist
  <2> QED BY <1>2, <1>6, <2>2, <2>3 DEF LastSaid
<1>9. ASSUME NEW line \in Lines, LastSaid(records, Len(records), <<i, line>>) = None
      PROVE  LastSaid(more, Len(more), <<i, line>>) = SaidOf(i, line)
  <2>1. PICK at : at = {k \in 1..m : file[k].line = line /\ ~Refused(file[k])}
    OBVIOUS
  <2>2. SaidOf(i, line) = IF at = {} THEN None ELSE file[Max(at)].content
    BY <1>1, <1>3, <2>1 DEF SaidOf
  <2>3. PICK S : S = Saying(more, n + m, <<i, line>>)
    OBVIOUS
  <2>4. \A k \in 1..n : k \notin S
    <3>1. Saying(records, n, <<i, line>>) = {}
      BY <1>2, <1>9, NothingSaid
    <3> QED BY <1>6, <2>3, <3>1 DEF Saying
  <2>5. \A k \in 1..m : n + k \in S <=> k \in at
    <3> SUFFICES ASSUME NEW k \in 1..m PROVE n + k \in S <=> k \in at
      OBVIOUS
    <3>1. PICK raw : raw = more[n + k]
      OBVIOUS
    <3>2. raw.row = file[k] /\ raw.billing_period = i /\ n + k \in 1..(n + m)
      <4>1. more[n + k].row = file[k] /\ more[n + k].billing_period = i
        BY <1>7
      <4> QED BY <3>1, <4>1
    <3>3. n + k \in S <=> derive_external_id(raw.row, raw.billing_period) = <<i, line>> /\ ~Refused(raw.row)
      BY <2>3, <3>1, <3>2 DEF Saying
    <3>4. derive_external_id(raw.row, raw.billing_period) = <<i, line>> <=> file[k].line = line
      BY <3>2 DEF derive_external_id
    <3> QED BY <2>1, <3>2, <3>3, <3>4
  <2>6. S \in SUBSET (1..(n + m))
    BY <2>3 DEF Saying
  <2>7. \A q \in S : q - n \in at /\ n + (q - n) = q
    <3> SUFFICES ASSUME NEW q \in S PROVE q - n \in at /\ n + (q - n) = q
      OBVIOUS
    <3>1. q \in 1..(n + m) /\ q \notin 1..n
      BY <2>4, <2>6
    <3>2. q - n \in 1..m /\ n + (q - n) = q
      BY <3>1
    <3> QED BY <2>5, <3>2
  <2>8. CASE at = {}
    <3>1. S = {}
      BY <2>7, <2>8
    <3> QED BY <1>6, <2>2, <2>3, <2>8, <3>1 DEF LastSaid
  <2>9. CASE at # {}
    <3>1. PICK k : k = Max(at)
      OBVIOUS
    <3>2. k \in at /\ k \in 1..m /\ \A y \in at : k >= y
      BY <2>1, <2>9, <3>1, BoundsExist
    <3>3. n + k \in S /\ \A y \in S : n + k >= y
      BY <2>5, <2>6, <2>7, <3>2
    <3>4. Max(S) = n + k
      <4>1. PICK q : q = n + k
        OBVIOUS
      <4>2. S \in SUBSET Int /\ q \in S /\ \A y \in S : q >= y
        BY <2>6, <3>3, <4>1
      <4> QED BY <4>1, <4>2, MaxIs
    <3>5. LastSaid(more, n + m, <<i, line>>) = more[n + k].row.content
      BY <2>3, <3>3, <3>4 DEF LastSaid
    <3> QED BY <1>6, <1>7, <2>2, <2>9, <3>1, <3>2, <3>5
  <2> QED BY <2>8, <2>9
<1> QED BY <1>6, <1>8, <1>9

-----------------------------------------------------------------------------
(* The steps of the provider and of a poll. *)

LEMMA PollingTypes ==
  ASSUME PollingTypeOK
  PROVE  /\ Len(exports) \in Nat /\ DOMAIN exports = 1..Len(exports)
         /\ DOMAIN exports \subseteq Periods
         /\ \A i \in DOMAIN exports : exports[i] # Malformed => exports[i] \in Seq(FocusRow)
         /\ Resumed \in 1..(Len(exports) + 1)
         /\ cursor # None => cursor \in 1..Len(exports) /\ Resumed = cursor
         /\ poll.phase \in {"idle", "reading", "stored"} /\ poll.records \in Seq(RawCostRecord)
<1>1. PICK n \in Nat : n = Len(exports)
  BY DEF PollingTypeOK
<1>2. DOMAIN exports = 1..n
  BY <1>1 DEF PollingTypeOK
<1>3. DOMAIN exports \subseteq Periods
  <2>1. PICK c : c = Cardinality(Periods)
    OBVIOUS
  <2>2. c \in Nat /\ Periods = 1..c /\ n <= c
    BY <1>1, <2>1, IngestionAssumption, FS_CardinalityType DEF PollingTypeOK
  <2> QED BY <1>2, <2>2
<1>4. \A i \in DOMAIN exports : exports[i] # Malformed => exports[i] \in Seq(FocusRow)
  <2> SUFFICES ASSUME NEW i \in DOMAIN exports, exports[i] # Malformed PROVE exports[i] \in Seq(FocusRow)
    OBVIOUS
  <2>1. exports[i] \in Files \union {Malformed}
    BY DEF PollingTypeOK
  <2> QED BY <2>1, IngestionAssumption
<1>5. cursor = None \/ cursor \in 1..n
  BY <1>2 DEF PollingTypeOK
<1>6. Resumed \in 1..(n + 1) /\ (cursor # None => cursor \in 1..n /\ Resumed = cursor)
  <2>1. CASE cursor = None
    BY <1>1, <2>1 DEF Resumed
  <2>2. CASE cursor # None
    <3>1. Resumed = cursor /\ cursor \in 1..n
      BY <1>5, <2>2 DEF Resumed
    <3>2. \A c \in 1..n : c \in 1..(n + 1)
      BY <1>1
    <3> QED BY <2>2, <3>1, <3>2
  <2> QED BY <2>1, <2>2
<1> QED BY <1>1, <1>2, <1>3, <1>4, <1>6 DEF PollingTypeOK

LEMMA SaidStays ==
  ASSUME NEW i, exports'[i] = exports[i], NEW line
  PROVE  SaidOf(i, line)' = SaidOf(i, line)
BY DEF SaidOf

LEMMA MirrorStays ==
  ASSUME NEW i, exports'[i] = exports[i], cost_events' = cost_events, MirroredAt(i)
  PROVE  MirroredAt(i)'
BY SaidStays DEF MirroredAt

LEMMA PollingStarts ==
  ASSUME PollingInit
  PROVE  PollingInv
<1>1. PollingTypeOK
  <2>1. exports \in Seq(Files \union {Malformed}) /\ Len(exports) = 0 /\ DOMAIN exports = {}
    BY DEF PollingInit
  <2>2. Cardinality(Periods) \in Nat
    BY IngestionAssumption, FS_CardinalityType
  <2>3. cost_events \in CostTable
    BY DEF PollingInit, EmptyTable, CostTable
  <2>4. poll \in [phase : {"idle", "reading", "stored"}, todo : SUBSET Periods,
                  records : Seq(RawCostRecord), last : Periods \union {None}, current : BOOLEAN]
    <3>1. <<>> \in Seq(RawCostRecord)
      OBVIOUS
    <3> QED BY <3>1 DEF PollingInit, NoPoll
  <2> QED BY <2>1, <2>2, <2>3, <2>4 DEF PollingInit, PollingTypeOK
<1>2. StoredInv
  BY DEF PollingInit, EmptyTable, StoredInv
<1>3. CursorInv /\ PollInv
  BY DEF PollingInit, NoPoll, CursorInv, PollInv
<1>4. TableMirrorsExports
  <2>1. DOMAIN exports = {}
    BY DEF PollingInit
  <2> QED BY <2>1 DEF TableMirrorsExports
<1> QED BY <1>1, <1>2, <1>3, <1>4 DEF PollingInv

LEMMA ChangeKeeps ==
  ASSUME PollingInv, Publish \/ Restate
  PROVE  PollingInv'
<1>0. PollingTypeOK /\ StoredInv /\ CursorInv /\ PollInv
  BY DEF PollingInv
<1>1. PICK n : n \in Nat /\ n = Len(exports) /\ DOMAIN exports = 1..n
  BY <1>0, PollingTypes
<1>2. /\ exports' \in Seq(Files \union {Malformed}) /\ n <= Len(exports')
      /\ Len(exports') <= Cardinality(Periods) /\ DOMAIN exports \subseteq DOMAIN exports'
      /\ \A i \in 1..(n - 1) : exports'[i] = exports[i]
  <2>1. exports \in Seq(Files \union {Malformed}) /\ n <= Cardinality(Periods)
        /\ Cardinality(Periods) \in Nat
    BY <1>0, <1>1, IngestionAssumption, FS_CardinalityType DEF PollingTypeOK
  <2>2. CASE Publish
    <3>1. n < Cardinality(Periods)
      BY <1>1, <2>2 DEF Publish
    <3>2. PICK file \in Files \union {Malformed} : exports' = Append(exports, file)
      BY <2>2 DEF Publish
    <3>3. Len(exports') = n + 1 /\ exports' \in Seq(Files \union {Malformed})
          /\ \A i \in 1..n : exports'[i] = exports[i]
      BY <1>1, <2>1, <3>2
    <3>4. DOMAIN exports' = 1..(n + 1)
      BY <3>3
    <3> QED BY <1>1, <2>1, <3>1, <3>3, <3>4
  <2>3. CASE Restate
    <3>1. PICK file \in Files \union {Malformed} : exports' = [exports EXCEPT ![Len(exports)] = file]
      BY <2>3 DEF Restate
    <3>0. PICK old, new : old = exports /\ new = exports' /\ new = [old EXCEPT ![n] = file]
      BY <1>1, <3>1
    <3>2. Len(exports') = n /\ exports' \in Seq(Files \union {Malformed})
          /\ DOMAIN exports' = DOMAIN exports
      <4>1. old \in Seq(Files \union {Malformed}) /\ Len(old) = n
        BY <1>1, <2>1, <3>0
      <4>2. new \in Seq(Files \union {Malformed}) /\ Len(new) = n /\ DOMAIN new = DOMAIN old
        <5>1. PICK T : T = Files \union {Malformed}
          OBVIOUS
        <5>2. old \in [1..n -> T] /\ file \in T
          BY <1>1, <4>1, <5>1
        <5>3. new \in [1..n -> T]
          BY <3>0, <5>2
        <5>4. new \in Seq(T) /\ Len(new) = n
          BY <1>1, <5>3
        <5> QED BY <5>1, <5>2, <5>3, <5>4
      <4> QED BY <3>0, <4>2
    <3>3. \A i \in 1..(n - 1) : exports'[i] = exports[i]
      <4>1. \A i \in 1..(n - 1) : i \in DOMAIN old /\ i # n
        BY <1>1, <3>0
      <4> QED BY <3>0, <4>1
    <3> QED BY <1>1, <2>1, <3>2, <3>3
  <2> QED BY <2>2, <2>3
<1>3. /\ cost_events' = cost_events /\ cursor' = cursor /\ mirrored' = FALSE
      /\ poll' = [poll EXCEPT !.current = FALSE]
  BY DEF Publish, Restate
<1>4. /\ poll'.phase = poll.phase /\ poll'.todo = poll.todo /\ poll'.records = poll.records
      /\ poll'.last = poll.last /\ poll'.current = FALSE
      /\ poll' \in [phase : {"idle", "reading", "stored"}, todo : SUBSET Periods,
                    records : Seq(RawCostRecord), last : Periods \union {None}, current : BOOLEAN]
  BY <1>0, <1>3 DEF PollingTypeOK
<1>5. PollingTypeOK'
  BY <1>0, <1>2, <1>3, <1>4 DEF PollingTypeOK
<1>6. StoredInv'
  BY <1>0, <1>2, <1>3 DEF StoredInv
<1>7. \A i \in 1..(n - 1) : MirroredAt(i) => MirroredAt(i)'
  BY <1>2, <1>3, MirrorStays
<1>8. CursorInv'
  <2> SUFFICES ASSUME cursor # None, NEW i \in 1..(cursor - 1) PROVE MirroredAt(i)'
    BY <1>3 DEF CursorInv
  <2>1. cursor \in 1..n
    BY <1>0, <1>1, PollingTypes
  <2>2. i \in 1..(n - 1)
    <3>1. PICK c : c = cursor
      OBVIOUS
    <3>2. c \in 1..n /\ i \in 1..(c - 1)
      BY <2>1, <3>1
    <3> QED BY <1>1, <3>2
  <2> QED BY <1>0, <1>7, <2>2 DEF CursorInv
<1>9. PollInv'
  <2> SUFFICES ASSUME poll.phase # "idle"
               PROVE  \E m \in 0..Len(exports') : \E j \in Resumed'..(m + 1) : HasRead(m, j)'
    BY <1>4 DEF PollInv
  <2>1. PICK m \in 0..n : \E j \in Resumed..(m + 1) : HasRead(m, j)
    BY <1>0, <1>1 DEF PollInv
  <2>2. PICK j \in Resumed..(m + 1) : HasRead(m, j)
    BY <2>1
  <2>3. Resumed' = Resumed /\ Resumed \in 1..(n + 1)
    BY <1>0, <1>1, <1>3, PollingTypes DEF Resumed
  <2>4. \A i \in Resumed..(m - 1) : i \in 1..(n - 1)
    BY <1>1, <2>3
  <2>5. \A i \in Resumed..(j - 1) : i < m =>
          /\ exports'[i] # Malformed
          /\ \A line \in Lines :
                LastSaid(poll.records, Len(poll.records), <<i, line>>) = SaidOf(i, line)'
    <3> SUFFICES ASSUME NEW i \in Resumed..(j - 1), i < m
                 PROVE  /\ exports'[i] # Malformed
                        /\ \A line \in Lines :
                              LastSaid(poll.records, Len(poll.records), <<i, line>>) = SaidOf(i, line)'
      OBVIOUS
    <3>1. exports'[i] = exports[i]
      BY <1>1, <1>2, <2>3
    <3>2. \A line : SaidOf(i, line)' = SaidOf(i, line)
      BY <3>1, SaidStays
    <3> QED BY <2>2, <3>1, <3>2 DEF HasRead
  <2>6. poll.phase = "stored" => j = m + 1 /\ \A i \in Resumed..(m - 1) : MirroredAt(i)'
    BY <1>7, <2>2, <2>4 DEF HasRead
  <2>7. HasRead(m, j)'
    BY <1>4, <2>2, <2>3, <2>5, <2>6 DEF HasRead
  <2>8. m \in 0..Len(exports') /\ j \in Resumed'..(m + 1)
    BY <1>1, <1>2, <2>3
  <2> QED BY <2>7, <2>8
<1> QED BY <1>3, <1>5, <1>6, <1>8, <1>9 DEF PollingInv, TableMirrorsExports

PollStates == [phase : {"idle", "reading", "stored"}, todo : SUBSET Periods,
               records : Seq(RawCostRecord), last : Periods \union {None}, current : BOOLEAN]

\* A step of the poll alone keeps all but what is said of it.
LEMMA PollStep ==
  ASSUME PollingInv, UNCHANGED <<exports, cost_events, cursor, mirrored>>, poll' \in PollStates, PollInv'
  PROVE  PollingInv'
<1>1. PollingTypeOK'
  BY DEF PollingInv, PollingTypeOK, PollStates
<1>2. StoredInv' /\ TableMirrorsExports'
  BY DEF PollingInv, StoredInv, TableMirrorsExports, SaidOf
<1>3. CursorInv'
  <2> SUFFICES ASSUME cursor' # None, NEW i \in 1..(cursor' - 1) PROVE MirroredAt(i)'
    BY DEF CursorInv
  <2>1. MirroredAt(i)
    BY DEF PollingInv, CursorInv
  <2>2. exports'[i] = exports[i] /\ cost_events' = cost_events
    OBVIOUS
  <2> QED BY <2>1, <2>2, MirrorStays
<1> QED BY <1>1, <1>2, <1>3 DEF PollingInv

LEMMA NoPollType ==
  NoPoll \in PollStates /\ NoPoll.phase = "idle"
<1>1. <<>> \in Seq(RawCostRecord)
  OBVIOUS
<1> QED BY <1>1 DEF NoPoll, PollStates

LEMMA DropKeeps ==
  ASSUME PollingInv, FetchFails \/ Crash
  PROVE  PollingInv'
<1>1. poll' = NoPoll /\ UNCHANGED <<exports, cost_events, cursor, mirrored>>
  BY DEF FetchFails, Crash
<1>2. poll' \in PollStates /\ poll'.phase = "idle"
  BY <1>1, NoPollType
<1>3. PollInv'
  BY <1>2 DEF PollInv
<1> QED BY <1>1, <1>2, <1>3, PollStep

LEMMA BeginPollKeeps ==
  ASSUME PollingInv, BeginPoll
  PROVE  PollingInv'
<1>0. PollingTypeOK
  BY DEF PollingInv
<1>1. PICK n : /\ n \in Nat /\ n = Len(exports) /\ DOMAIN exports = 1..n /\ DOMAIN exports \subseteq Periods
               /\ Resumed \in 1..(n + 1) /\ (cursor # None => cursor \in 1..n /\ Resumed = cursor)
  BY <1>0, PollingTypes
<1>2. UNCHANGED <<exports, cost_events, cursor, mirrored>>
  BY DEF BeginPoll
<1>3. list_exports(cursor) = Resumed..n
  <2>1. CASE cursor = None
    BY <1>1, <2>1 DEF list_exports, Resumed
  <2>2. CASE cursor # None
    <3>1. PICK c : c = cursor /\ c \in 1..n
      BY <1>1, <2>2
    <3>2. {i \in 1..n : i >= c} = c..n
      BY <3>1
    <3> QED BY <1>1, <2>2, <3>1, <3>2 DEF list_exports
  <2> QED BY <2>1, <2>2
<1>4. PICK todo : todo = list_exports(cursor)
  OBVIOUS
<1>5. /\ poll'.phase = "reading" /\ poll'.todo = Resumed..n /\ poll'.records = <<>>
      /\ poll'.last = None /\ poll'.current = TRUE /\ poll' \in PollStates
  <2>1. poll' = [NoPoll EXCEPT !.phase = "reading", !.todo = todo, !.current = TRUE]
    BY <1>4 DEF BeginPoll
  <2>2. NoPoll \in PollStates /\ NoPoll.records = <<>> /\ NoPoll.last = None
    BY NoPollType DEF NoPoll
  <2>3. todo \in SUBSET Periods
    BY <1>1, <1>4 DEF list_exports
  <2> QED BY <1>3, <1>4, <2>1, <2>2, <2>3 DEF PollStates
<1>6. \A x : LastSaid(<<>>, Len(<<>>), x) = None
  <2>1. Len(<<>>) = 0
    OBVIOUS
  <2> QED BY <2>1, SaidMore
<1>7. HasRead(n, Resumed)'
  <2>1. Resumed' = Resumed
    BY <1>2 DEF Resumed
  <2>2. Resumed..(Resumed - 1) = {}
    BY <1>1
  <2> QED BY <1>1, <1>2, <1>5, <1>6, <2>1, <2>2 DEF HasRead
<1>8. PollInv'
  <2>1. Resumed' = Resumed /\ n \in 0..Len(exports') /\ Resumed \in Resumed..(n + 1)
    BY <1>1, <1>2 DEF Resumed
  <2> QED BY <1>7, <2>1 DEF PollInv
<1> QED BY <1>2, <1>5, <1>8, PollStep

LEMMA ReadExportKeeps ==
  ASSUME PollingInv, ReadExport
  PROVE  PollingInv'
<1>0. PollingTypeOK /\ PollInv
  BY DEF PollingInv
<1>1. PICK n : /\ n \in Nat /\ n = Len(exports) /\ DOMAIN exports = 1..n /\ DOMAIN exports \subseteq Periods
               /\ Resumed \in 1..(n + 1)
  BY <1>0, PollingTypes
<1>2. UNCHANGED <<exports, cost_events, cursor, mirrored>> /\ poll.phase = "reading" /\ poll.todo # {}
  BY DEF ReadExport
<1>3. PICK m \in 0..n : \E j \in Resumed..(m + 1) : HasRead(m, j)
  BY <1>0, <1>1, <1>2 DEF PollInv
<1>4. PICK j \in Resumed..(m + 1) : HasRead(m, j)
  BY <1>3
<1>5. /\ poll.todo = j..m /\ j \in 1..m /\ j \in Resumed..m /\ j \in DOMAIN exports /\ j \in Periods
      /\ Min(poll.todo) = j
  <2>1. poll.todo = j..m
    BY <1>4 DEF HasRead
  <2>2. j \in 1..m /\ j \in Resumed..m /\ j \in DOMAIN exports
    BY <1>1, <1>2, <2>1
  <2>3. j..m \in SUBSET Int /\ j \in j..m /\ \A y \in j..m : j =< y
    BY <2>2
  <2>4. Min(j..m) = j
    BY <2>3, MinIs
  <2> QED BY <1>1, <2>1, <2>2, <2>4
<1>6. exports[j] # Malformed /\ exports[j] \in Seq(FocusRow)
  <2>1. exports[j] # Malformed
    BY <1>5 DEF ReadExport
  <2> QED BY <1>0, <1>5, <2>1, PollingTypes
<1>7. PICK records, more : records = poll.records /\ more = records \o RecordsOf(exports[j], j)
  OBVIOUS
<1>8. records \in Seq(RawCostRecord)
  BY <1>0, <1>7 DEF PollingTypeOK
<1>9. /\ more \in Seq(RawCostRecord)
      /\ \A x \in ExternalIds : x[1] # j =>
            LastSaid(more, Len(more), x) = LastSaid(records, Len(records), x)
      /\ \A line \in Lines : LastSaid(records, Len(records), <<j, line>>) = None =>
            LastSaid(more, Len(more), <<j, line>>) = SaidOf(j, line)
  <2>1. j \in Periods /\ exports[j] \in Seq(FocusRow) /\ more = records \o RecordsOf(exports[j], j)
    BY <1>5, <1>6, <1>7
  <2> QED BY <1>8, <2>1, ReadSaid, Zenon
<1>10. /\ poll'.phase = "reading" /\ poll'.todo = poll.todo \ {j} /\ poll'.records = more
       /\ poll'.last = j /\ poll'.current = poll.current /\ poll' \in PollStates
  <2>1. PICK old : old = poll /\ old \in PollStates
    BY <1>0 DEF PollingTypeOK, PollStates
  <2>2. poll' = [old EXCEPT !.todo = @ \ {j}, !.last = j, !.records = more]
    BY <1>5, <1>7, <2>1 DEF ReadExport, RecordsOf
  <2>3. poll' = [old EXCEPT !.todo = old.todo \ {j}, !.last = j, !.records = more]
    BY <2>2
  <2> QED BY <1>2, <1>5, <1>9, <2>1, <2>3 DEF PollStates
<1>11. /\ \A x \in ExternalIds : x[1] \notin Resumed..(j - 1) =>
             LastSaid(records, Len(records), x) = None
       /\ \A i \in Resumed..(j - 1) : i < m \/ poll.current =>
             /\ exports[i] # Malformed
             /\ \A line \in Lines : LastSaid(records, Len(records), <<i, line>>) = SaidOf(i, line)
       /\ poll.current => m = n
  BY <1>1, <1>4, <1>7 DEF HasRead
<1>12. \A i \in Periods, line \in Lines : <<i, line>> \in ExternalIds
  BY IngestionAssumption
<1>13. ASSUME NEW x \in ExternalIds, x[1] \notin Resumed..j
       PROVE  LastSaid(more, Len(more), x) = None
  <2>1. x[1] # j /\ x[1] \notin Resumed..(j - 1)
    BY <1>1, <1>5, <1>13
  <2> QED BY <1>9, <1>11, <2>1
<1>14. ASSUME NEW i \in Resumed..j, i < m \/ poll.current
       PROVE  /\ exports[i] # Malformed
              /\ \A line \in Lines : LastSaid(more, Len(more), <<i, line>>) = SaidOf(i, line)
  <2>1. CASE i = j
    <3> SUFFICES ASSUME NEW line \in Lines PROVE LastSaid(more, Len(more), <<j, line>>) = SaidOf(j, line)
      BY <1>6, <2>1
    <3>1. PICK x : x = <<j, line>>
      OBVIOUS
    <3>2. x \in ExternalIds /\ x[1] = j
      BY <1>5, <1>12, <3>1
    <3>3. j \notin Resumed..(j - 1)
      BY <1>1, <1>5
    <3>4. LastSaid(records, Len(records), x) = None
      BY <1>11, <3>2, <3>3
    <3> QED BY <1>9, <3>1, <3>4
  <2>2. CASE i # j
    <3>1. i \in Resumed..(j - 1) /\ i \in Periods
      BY <1>1, <1>5, <2>2
    <3> SUFFICES ASSUME NEW line \in Lines PROVE LastSaid(more, Len(more), <<i, line>>) = SaidOf(i, line)
      BY <1>11, <1>14, <3>1
    <3>2. PICK x : x = <<i, line>>
      OBVIOUS
    <3>3. x \in ExternalIds /\ x[1] = i
      BY <1>12, <3>1, <3>2
    <3>4. LastSaid(more, Len(more), x) = LastSaid(records, Len(records), x)
      BY <1>9, <2>2, <3>3
    <3>5. LastSaid(records, Len(records), <<i, line>>) = SaidOf(i, line)
      BY <1>11, <1>14, <3>1
    <3> QED BY <3>2, <3>4, <3>5
  <2> QED BY <2>1, <2>2
<1>15. /\ Resumed' = Resumed /\ (j + 1) - 1 = j /\ j + 1 # Resumed /\ j # None
       /\ j + 1 \in Resumed..(m + 1) /\ (j..m) \ {j} = (j + 1)..m
  <2>1. j # None
    BY <1>5, IngestionAssumption
  <2>2. Resumed' = Resumed
    BY <1>2 DEF Resumed
  <2> QED BY <1>1, <1>5, <2>1, <2>2
<1>16. \A i, line : SaidOf(i, line)' = SaidOf(i, line)
  BY <1>2 DEF SaidOf
<1>17. HasRead(m, j + 1)'
  BY <1>1, <1>2, <1>5, <1>10, <1>11, <1>13, <1>14, <1>15, <1>16 DEF HasRead
<1>18. PollInv'
  BY <1>1, <1>2, <1>15, <1>17 DEF PollInv
<1> QED BY <1>2, <1>10, <1>18, PollStep

LEMMA StoreKeeps ==
  ASSUME PollingInv, Store
  PROVE  PollingInv'
<1>0. PollingTypeOK /\ StoredInv /\ CursorInv /\ PollInv
  BY DEF PollingInv
<1>1. PICK n : /\ n \in Nat /\ n = Len(exports) /\ DOMAIN exports = 1..n /\ DOMAIN exports \subseteq Periods
               /\ Resumed \in 1..(n + 1) /\ (cursor # None => cursor \in 1..n /\ Resumed = cursor)
  BY <1>0, PollingTypes
<1>2. /\ UNCHANGED <<exports, cursor>> /\ mirrored' = poll.current
      /\ poll.phase = "reading" /\ poll.todo = {}
      /\ cost_events' = Upserted(cost_events, EventsOf(poll.records))
  BY DEF Store
<1>3. PICK m \in 0..n : \E j \in Resumed..(m + 1) : HasRead(m, j)
  BY <1>0, <1>1, <1>2 DEF PollInv
<1>4. PICK j \in Resumed..(m + 1) : HasRead(m, j)
  BY <1>3
<1>5. j = m + 1 /\ m + 1 \in Resumed..(m + 1) /\ (m + 1) - 1 = m
  <2>1. j..m = {}
    BY <1>2, <1>4 DEF HasRead
  <2> QED BY <1>1, <2>1
<1>6. PICK records : records = poll.records /\ records \in Seq(RawCostRecord)
  BY <1>0 DEF PollingTypeOK
<1> DEFINE Said(x) == LastSaid(records, Len(records), x)
<1>7. /\ \A x \in ExternalIds : x[1] \notin Resumed..m => Said(x) = None
      /\ \A i \in Resumed..m : i < m \/ poll.current =>
            exports[i] # Malformed /\ \A line \in Lines : Said(<<i, line>>) = SaidOf(i, line)
      /\ poll.current => m = n
  BY <1>1, <1>4, <1>5, <1>6 DEF HasRead
<1>8. \A key \in Keys :
         cost_events'[key] = IF key[1] = Tenant /\ Said(key[2]) # None THEN Said(key[2]) ELSE cost_events[key]
  <2>1. \A key \in Keys :
           Upserted(cost_events, EventsOf(records))[key] =
              IF key[1] = Tenant /\ LastSaid(records, Len(records), key[2]) # None
              THEN LastSaid(records, Len(records), key[2]) ELSE cost_events[key]
    BY <1>6, StoreWrites, Zenon
  <2> QED BY <1>2, <1>6, <2>1, Zenon
<1>9. \A x : Said(x) # None =>
         x \in ExternalIds /\ Said(x) \in Contents \ Unreadable /\ ~AttributionFails(TagsOf(Said(x)))
  <2>1. Len(records) \in 0..Len(records)
    BY <1>6
  <2> QED BY <1>6, <2>1, SaidType, Zenon
<1>10. \A i \in Periods, line \in Lines :
          /\ <<i, line>> \in ExternalIds /\ <<i, line>>[1] = i /\ <<Tenant, <<i, line>>>> \in Keys
          /\ <<Tenant, <<i, line>>>>[1] = Tenant /\ <<Tenant, <<i, line>>>>[2] = <<i, line>>
  BY IngestionAssumption DEF Keys
<1> HIDE DEF Said
<1>11. cost_events' \in CostTable
  <2>1. \A key \in Keys : cost_events'[key] \in Contents \union {None}
    <3> SUFFICES ASSUME NEW key \in Keys PROVE cost_events'[key] \in Contents \union {None}
      OBVIOUS
    <3>1. cost_events[key] \in Contents \union {None}
      BY <1>0 DEF PollingTypeOK, CostTable
    <3> QED BY <1>8, <1>9, <3>1
  <2>2. cost_events' = [key \in Keys |-> cost_events'[key]]
    BY <1>2 DEF Upserted
  <2> QED BY <2>1, <2>2 DEF CostTable
<1>12. StoredInv'
  <2> SUFFICES ASSUME NEW key \in Keys, cost_events'[key] # None
               PROVE  /\ key[1] = Tenant /\ key[2][1] \in DOMAIN exports
                      /\ cost_events'[key] \notin Unreadable
                      /\ ~AttributionFails(TagsOf(cost_events'[key]))
    BY <1>2 DEF StoredInv
  <2>1. CASE key[1] = Tenant /\ Said(key[2]) # None
    <3>1. cost_events'[key] = Said(key[2]) /\ key[2] \in ExternalIds
      BY <1>8, <1>9, <2>1
    <3>2. key[2][1] \in 1..n
      BY <1>1, <1>7, <2>1, <3>1
    <3> QED BY <1>1, <1>9, <2>1, <3>1, <3>2
  <2>2. CASE ~(key[1] = Tenant /\ Said(key[2]) # None)
    <3>1. cost_events'[key] = cost_events[key]
      BY <1>8, <2>2
    <3> QED BY <1>0, <3>1 DEF StoredInv
  <2> QED BY <2>1, <2>2
<1>13. \A i, line : SaidOf(i, line)' = SaidOf(i, line)
  BY <1>2 DEF SaidOf
<1>14. ASSUME NEW i \in 1..n, i < Resumed, MirroredAt(i)
       PROVE  MirroredAt(i)'
  <2>1. i \in Periods /\ i \notin Resumed..m
    BY <1>1, <1>14
  <2>2. ASSUME NEW line \in Lines
        PROVE  find_by_external_id(cost_events, Tenant, <<i, line>>)'
                 = find_by_external_id(cost_events, Tenant, <<i, line>>)
    <3>1. Said(<<i, line>>) = None
      BY <1>7, <1>10, <2>1
    <3>2. cost_events'[<<Tenant, <<i, line>>>>] = cost_events[<<Tenant, <<i, line>>>>]
      BY <1>8, <1>10, <2>1, <3>1
    <3> QED BY <3>2 DEF find_by_external_id
  <2> QED BY <1>2, <1>13, <1>14, <2>2 DEF MirroredAt
<1>15. ASSUME NEW i \in Resumed..m, i < m \/ poll.current
       PROVE  MirroredAt(i)'
  <2>1. i \in Periods /\ exports[i] # Malformed
    BY <1>1, <1>7, <1>15
  <2>2. ASSUME NEW line \in Lines, SaidOf(i, line) # None
        PROVE  find_by_external_id(cost_events, Tenant, <<i, line>>)' = SaidOf(i, line)
    <3>1. Said(<<i, line>>) = SaidOf(i, line)
      BY <1>7, <1>15
    <3>2. cost_events'[<<Tenant, <<i, line>>>>] = Said(<<i, line>>)
      BY <1>8, <1>10, <2>1, <2>2, <3>1
    <3> QED BY <3>1, <3>2 DEF find_by_external_id
  <2> QED BY <1>2, <1>13, <2>1, <2>2 DEF MirroredAt
<1>16. CursorInv'
  <2> SUFFICES ASSUME cursor # None, NEW i \in 1..(cursor - 1) PROVE MirroredAt(i)'
    BY <1>2 DEF CursorInv
  <2>1. PICK c : c = cursor /\ c \in 1..n /\ c = Resumed /\ i \in 1..(c - 1)
    BY <1>1
  <2>2. i \in 1..n /\ i < Resumed
    BY <1>1, <2>1
  <2> QED BY <1>0, <1>14, <2>2 DEF CursorInv
<1>17. /\ poll'.phase = "stored" /\ poll'.todo = poll.todo /\ poll'.records = poll.records
       /\ poll'.last = poll.last /\ poll'.current = poll.current /\ poll' \in PollStates
  <2>1. PICK old : old = poll /\ old \in PollStates
    BY <1>0 DEF PollingTypeOK, PollStates
  <2>2. poll' = [old EXCEPT !.phase = "stored"]
    BY <2>1 DEF Store
  <2> QED BY <2>1, <2>2 DEF PollStates
<1>18. PollingTypeOK'
  BY <1>0, <1>2, <1>11, <1>17 DEF PollingTypeOK, PollStates
<1>19. PollInv'
  <2>1. Resumed' = Resumed
    BY <1>2 DEF Resumed
  <2>2. \A i \in Resumed..(m - 1) : MirroredAt(i)'
    <3> SUFFICES ASSUME NEW i \in Resumed..(m - 1) PROVE MirroredAt(i)'
      OBVIOUS
    <3>1. i \in Resumed..m /\ i < m
      BY <1>1
    <3> QED BY <1>15, <3>1
  <2>3. HasRead(m, j)'
    BY <1>2, <1>4, <1>5, <1>13, <1>17, <2>1, <2>2 DEF HasRead
  <2> QED BY <1>1, <1>2, <1>4, <2>1, <2>3 DEF PollInv
<1>20. TableMirrorsExports'
  <2> SUFFICES ASSUME poll.current, NEW i \in 1..n PROVE MirroredAt(i)'
    BY <1>1, <1>2 DEF TableMirrorsExports, MirroredAt
  <2>1. CASE i < Resumed
    <3>1. cursor # None /\ Resumed = cursor
      BY <1>1, <2>1 DEF Resumed
    <3>2. i \in 1..(cursor - 1)
      <4>1. PICK c : c = cursor /\ c \in 1..n /\ i < c
        BY <1>1, <2>1, <3>1
      <4> QED BY <1>1, <4>1
    <3> QED BY <1>2, <1>16, <3>1, <3>2 DEF CursorInv
  <2>2. CASE ~(i < Resumed)
    <3>1. i \in Resumed..m
      BY <1>1, <1>7, <2>2
    <3> QED BY <1>15, <3>1
  <2> QED BY <2>1, <2>2
<1> QED BY <1>12, <1>16, <1>18, <1>19, <1>20 DEF PollingInv

LEMMA SaveCursorKeeps ==
  ASSUME PollingInv, SaveCursor
  PROVE  PollingInv'
<1>0. PollingTypeOK /\ StoredInv /\ CursorInv /\ PollInv /\ TableMirrorsExports
  BY DEF PollingInv
<1>1. PICK n : /\ n \in Nat /\ n = Len(exports) /\ DOMAIN exports = 1..n /\ DOMAIN exports \subseteq Periods
               /\ Resumed \in 1..(n + 1) /\ (cursor # None => cursor \in 1..n /\ Resumed = cursor)
  BY <1>0, PollingTypes
<1>2. /\ UNCHANGED <<exports, cost_events, mirrored>> /\ poll.phase = "stored"
      /\ cursor' = IF poll.last = None THEN cursor ELSE poll.last
      /\ poll' = NoPoll
  BY DEF SaveCursor
<1>3. PICK m \in 0..n : \E j \in Resumed..(m + 1) : HasRead(m, j)
  BY <1>0, <1>1, <1>2 DEF PollInv
<1>4. PICK j \in Resumed..(m + 1) : HasRead(m, j)
  BY <1>3
<1>5. /\ j = m + 1 /\ \A i \in Resumed..(m - 1) : MirroredAt(i)
      /\ poll.last = IF j = Resumed THEN None ELSE j - 1
  BY <1>2, <1>4 DEF HasRead
<1>6. poll' \in PollStates /\ poll'.phase = "idle"
  BY <1>2, NoPollType
<1>7. cursor' = cursor \/ (cursor' = m /\ m \in 1..n)
  <2>1. CASE j = Resumed
    BY <1>2, <1>5, <2>1
  <2>2. CASE j # Resumed
    <3>1. m \in 1..n /\ j - 1 = m
      BY <1>1, <1>4, <1>5, <2>2
    <3>2. m # None
      BY <1>1, <3>1, IngestionAssumption
    <3> QED BY <1>2, <1>5, <2>2, <3>1, <3>2
  <2> QED BY <2>1, <2>2
<1>8. PollingTypeOK'
  BY <1>0, <1>1, <1>2, <1>6, <1>7 DEF PollingTypeOK, PollStates
<1>9. StoredInv' /\ TableMirrorsExports'
  BY <1>0, <1>2 DEF StoredInv, TableMirrorsExports, SaidOf
<1>10. CursorInv'
  <2> SUFFICES ASSUME cursor' # None, NEW i \in 1..(cursor' - 1) PROVE MirroredAt(i)'
    BY DEF CursorInv
  <2>1. MirroredAt(i)
    <3>1. CASE cursor' = cursor
      BY <1>0, <3>1 DEF CursorInv
    <3>2. CASE cursor' = m /\ m \in 1..n
      <4>1. i \in 1..(m - 1) /\ i \in Int
        BY <3>2
      <4>2. CASE i < Resumed
        <5>1. cursor # None /\ Resumed = cursor
          BY <1>1, <4>1, <4>2 DEF Resumed
        <5>2. PICK c : c = cursor /\ c \in 1..n /\ i < c
          BY <1>1, <4>2, <5>1
        <5>3. i \in 1..(c - 1)
          BY <1>1, <4>1, <5>2
        <5> QED BY <1>0, <5>1, <5>2, <5>3 DEF CursorInv
      <4>3. CASE ~(i < Resumed)
        <5>1. i \in Resumed..(m - 1)
          BY <1>1, <4>1, <4>3
        <5> QED BY <1>5, <5>1
      <4> QED BY <4>2, <4>3
    <3> QED BY <1>7, <3>1, <3>2
  <2>2. exports'[i] = exports[i] /\ cost_events' = cost_events
    BY <1>2
  <2> QED BY <2>1, <2>2, MirrorStays
<1>11. PollInv'
  BY <1>6 DEF PollInv
<1> QED BY <1>8, <1>9, <1>10, <1>11 DEF PollingInv

\* Every step keeps what is stored and read in agreement with the exports.
LEMMA PollingStepKeeps ==
  PollingInv /\ [PollingNext]_pollingVars => PollingInv'
<1> SUFFICES ASSUME PollingInv, [PollingNext]_pollingVars PROVE PollingInv'
  OBVIOUS
<1>1. CASE PollingNext
  <2>1. CASE Publish \/ Restate
    BY <2>1, ChangeKeeps
  <2>2. CASE BeginPoll
    BY <2>2, BeginPollKeeps
  <2>3. CASE ReadExport
    BY <2>3, ReadExportKeeps
  <2>4. CASE FetchFails \/ Crash
    BY <2>4, DropKeeps
  <2>5. CASE Store
    BY <2>5, StoreKeeps
  <2>6. CASE SaveCursor
    BY <2>6, SaveCursorKeeps
  <2> QED BY <1>1, <2>1, <2>2, <2>3, <2>4, <2>5, <2>6 DEF PollingNext
<1>2. CASE UNCHANGED pollingVars
  <2>1. UNCHANGED <<exports, cost_events, poll, cursor, mirrored>>
    BY <1>2 DEF pollingVars
  <2>2. poll' \in PollStates
    BY <2>1 DEF PollingInv, PollingTypeOK, PollStates
  <2>3. PollInv'
    <3>1. Resumed' = Resumed /\ \A i, line : SaidOf(i, line)' = SaidOf(i, line)
      BY <2>1 DEF Resumed, SaidOf
    <3>2. \A i : MirroredAt(i) => MirroredAt(i)'
      BY <2>1, <3>1 DEF MirroredAt
    <3>3. \A m, j : HasRead(m, j) => HasRead(m, j)'
      BY <2>1, <3>1, <3>2 DEF HasRead
    <3> QED BY <2>1, <3>1, <3>3 DEF PollingInv, PollInv
  <2> QED BY <2>1, <2>2, <2>3, PollStep
<1> QED BY <1>1, <1>2

LEMMA PollingInvariance == PollingSpec => []PollingInv
<1>1. PollingInit => PollingInv
  BY PollingStarts
<1>2. PollingInv /\ [PollingNext]_pollingVars => PollingInv'
  BY PollingStepKeeps
<1> QED BY <1>1, <1>2, PTL DEF PollingSpec

\* PollStates, restatements, crashes and cursors come in any order: once a poll that
\* began after the last change has stored its batch, the table says of every line
\* what the exports say (fetch_since and normalize of providers/aws.rs, the upsert of
\* crates/infra/src/cost_events.rs).
THEOREM TablesMirrorExports == PollingSpec => []TableMirrorsExports
<1>1. PollingInv => TableMirrorsExports
  BY DEF PollingInv
<1> QED BY <1>1, PollingInvariance, PTL

-----------------------------------------------------------------------------
(* What is stored, and what the invoice says. *)

\* A row that was attributed has its required dimensions, and an identifier or
\* nothing in every one.
LEMMA AttributedDims ==
  ASSUME NEW tags \in Tags, ~AttributionFails(tags)
  PROVE  LET dims == attribute(tags)
         IN  /\ \A d \in Required : dims.ids[d] \in Ids
             /\ \A d \in Optional : dims.ids[d] \in Ids \union {Absent}
             /\ dims.ids["run"] # Absent /\ dims.function # "RND" =>
                   \E k \in TagKeys : tags[k] \in Workloads
<1>1. \A d \in Dimension : attribute(tags).ids[d] = IdFor(tags, d)
  BY DEF attribute
<1>2. \A d \in Dimension : IdFor(tags, d) \in Ids \union {Absent}
  <2> SUFFICES ASSUME NEW d \in Dimension PROVE IdFor(tags, d) \in Ids \union {Absent}
    OBVIOUS
  <2>1. lookup(tags, Rules[d]) \in Ids \union {Absent}
    BY DEF AttributionFails, Unparseable
  <2>2. DefaultOf(d) \in Ids \union {Absent}
    BY AttributionAssumption DEF DefaultOf, Dimension, Required, Optional
  <2> QED BY <2>1, <2>2 DEF IdFor
<1>3. \A d \in Required : IdFor(tags, d) # Absent
  BY DEF AttributionFails
<1>4. ASSUME attribute(tags).ids["run"] # Absent, attribute(tags).function # "RND"
      PROVE  \E k \in TagKeys : tags[k] \in Workloads
  <2>1. PICK w, c : w = lookup(tags, c) /\ c = Rules["workload"]
    OBVIOUS
  <2>2. w \in Workloads
    <3>1. attribute(tags).function = function_code_for(w, IdFor(tags, "run") # Absent)
      BY <2>1 DEF attribute
    <3>2. IdFor(tags, "run") # Absent
      BY <1>1, <1>4 DEF Dimension, Optional
    <3> QED BY <1>4, <3>1, <3>2 DEF function_code_for
  <2>3. c \in Seq(TagKeys)
    BY <2>1, AttributionAssumption
  <2>4. PICK n \in Nat : n = Len(c) /\ DOMAIN c = 1..n
    BY <2>3
  <2>5. PICK S : S = {i \in DOMAIN c : tags[c[i]] \notin {Absent, Blank}}
    OBVIOUS
  <2>6. S # {} /\ w = tags[c[Min(S)]]
    BY <2>1, <2>2, <2>5, AttributionAssumption DEF lookup
  <2>7. Min(S) \in S
    BY <2>4, <2>5, <2>6, BoundsExist
  <2>8. PICK i \in 1..n : i = Min(S)
    BY <2>4, <2>5, <2>7
  <2>9. c[i] \in TagKeys
    BY <2>3, <2>4, <2>8
  <2> QED BY <2>2, <2>6, <2>8, <2>9
<1> QED BY <1>1, <1>2, <1>3, <1>4 DEF Dimension

LEMMA TagsOfType ==
  ASSUME NEW c \in Contents
  PROVE  TagsOf(c) \in Tags
<1>1. ObjectTagsOf[c] \in Tags /\ ColumnTagsOf[c] \in Tags
  BY IngestionAssumption
<1> QED BY <1>1 DEF TagsOf, collect_tags, Tags

LEMMA StoredIsAttributed ==
  PollingInv => StoredRowsAreAttributed
<1> SUFFICES ASSUME PollingInv, NEW key \in Keys, cost_events[key] # None
             PROVE  LET dims == attribute(TagsOf(cost_events[key]))
                    IN  /\ \A d \in Required : dims.ids[d] \in Ids
                        /\ \A d \in Optional : dims.ids[d] \in Ids \union {Absent}
                        /\ dims.ids["run"] # Absent /\ dims.function # "RND" =>
                              \E k \in TagKeys : TagsOf(cost_events[key])[k] \in Workloads
  BY DEF StoredRowsAreAttributed
<1>1. cost_events[key] \in Contents
  BY DEF PollingInv, PollingTypeOK, CostTable
<1>2. ~AttributionFails(TagsOf(cost_events[key])) /\ TagsOf(cost_events[key]) \in Tags
  BY <1>1, TagsOfType DEF PollingInv, StoredInv
<1> QED BY <1>2, AttributedDims

\* No row is stored with a project or a team that was made up: what normalize lets
\* through has been attributed (attribution/tags.rs, attribute and parse_id).
THEOREM RowsAreAttributed == PollingSpec => []StoredRowsAreAttributed
BY PollingInvariance, StoredIsAttributed, PTL

\* The row of the table that an invoice row is stored in.
StoredAs(at) == <<Tenant, <<at[1], exports[at[1]][at[2]].line>>>>

CostsStored == [key \in Keys |-> CostOf[cost_events[key]]]
CostsListed == [at \in Listed |-> CostOf[ContentAt(at)]]

LEMMA StoredCostsAddUp ==
  ASSUME NEW S \in SUBSET Keys
  PROVE  MapThenSumSet(LAMBDA key : CostOf[cost_events[key]], S) = Total(CostsStored, S)
<1>1. PICK v, ch : v = CostsStored /\ ch = [s \in SUBSET S |-> First(s)]
  OBVIOUS
<1>2. Choice(ch, S)
  BY <1>1, FirstIsChoice
<1>3. ASSUME NEW g
      PROVE  Unfold(v, ch, SUBSET S, g) =
               [s \in SUBSET S |-> IF s = {} THEN 0 ELSE CostOf[cost_events[First(s)]] + g[s \ {First(s)}]]
  <2>1. ASSUME NEW s \in SUBSET S, s # {}
        PROVE  v[ch[s]] = CostOf[cost_events[First(s)]]
    <3>1. ch[s] = First(s) /\ ch[s] \in Keys
      BY <1>1, <1>2, <2>1 DEF Choice
    <3> QED BY <1>1, <3>1 DEF CostsStored
  <2> QED BY <1>1, <2>1 DEF Unfold
<1>4. Sums(v, ch, S) =
        (CHOOSE g : g = [s \in SUBSET S |-> IF s = {} THEN 0
                                            ELSE CostOf[cost_events[First(s)]] + g[s \ {First(s)}]])
  <2>1. Sums(v, ch, S) = (CHOOSE g : g = Unfold(v, ch, SUBSET S, g))
    BY DEF Sums
  <2>2. (CHOOSE g : g = Unfold(v, ch, SUBSET S, g)) =
        (CHOOSE g : g = [s \in SUBSET S |-> IF s = {} THEN 0
                                            ELSE CostOf[cost_events[First(s)]] + g[s \ {First(s)}]])
    BY <1>3, Zenon
  <2> QED BY <2>1, <2>2, Zenon
<1>5. MapThenSumSet(LAMBDA key : CostOf[cost_events[key]], S) = Sums(v, ch, S)[S]
  BY <1>4, Zenon DEF First, MapThenSumSet, MapThenFoldSet
<1> QED BY <1>1, <1>5 DEF Total

LEMMA ListedCostsAddUp ==
  ASSUME NEW S \in SUBSET Listed
  PROVE  MapThenSumSet(LAMBDA at : CostOf[ContentAt(at)], S) = Total(CostsListed, S)
<1>1. PICK v, ch : v = CostsListed /\ ch = [s \in SUBSET S |-> First(s)]
  OBVIOUS
<1>2. Choice(ch, S)
  BY <1>1, FirstIsChoice
<1>3. ASSUME NEW g
      PROVE  Unfold(v, ch, SUBSET S, g) =
               [s \in SUBSET S |-> IF s = {} THEN 0 ELSE CostOf[ContentAt(First(s))] + g[s \ {First(s)}]]
  <2>1. ASSUME NEW s \in SUBSET S, s # {}
        PROVE  v[ch[s]] = CostOf[ContentAt(First(s))]
    <3>1. ch[s] = First(s) /\ ch[s] \in Listed
      BY <1>1, <1>2, <2>1 DEF Choice
    <3> QED BY <1>1, <3>1 DEF CostsListed
  <2> QED BY <1>1, <2>1 DEF Unfold
<1>4. Sums(v, ch, S) =
        (CHOOSE g : g = [s \in SUBSET S |-> IF s = {} THEN 0
                                            ELSE CostOf[ContentAt(First(s))] + g[s \ {First(s)}]])
  <2>1. Sums(v, ch, S) = (CHOOSE g : g = Unfold(v, ch, SUBSET S, g))
    BY DEF Sums
  <2>2. (CHOOSE g : g = Unfold(v, ch, SUBSET S, g)) =
        (CHOOSE g : g = [s \in SUBSET S |-> IF s = {} THEN 0
                                            ELSE CostOf[ContentAt(First(s))] + g[s \ {First(s)}]])
    BY <1>3, Zenon
  <2> QED BY <2>1, <2>2, Zenon
<1>5. MapThenSumSet(LAMBDA at : CostOf[ContentAt(at)], S) = Sums(v, ch, S)[S]
  BY <1>4, Zenon DEF First, MapThenSumSet, MapThenFoldSet
<1> QED BY <1>1, <1>5 DEF Total

\* The rows of the exports are finitely many.
LEMMA ListedFinite ==
  ASSUME PollingTypeOK, \A i \in DOMAIN exports : exports[i] # Malformed
  PROVE  /\ IsFiniteSet(Listed)
         /\ \A at \in Listed : /\ at[1] \in DOMAIN exports /\ at[1] \in Periods
                               /\ at[2] \in DOMAIN exports[at[1]] /\ at = <<at[1], at[2]>>
                               /\ exports[at[1]][at[2]] \in FocusRow
         /\ \A i \in DOMAIN exports : \A k \in DOMAIN exports[i] : <<i, k>> \in Listed
<1> DEFINE Of(i) == {<<i, k>> : k \in DOMAIN exports[i]}
<1>1. PICK n \in Nat : n = Len(exports) /\ DOMAIN exports = 1..n /\ DOMAIN exports \subseteq Periods
  BY PollingTypes
<1>2. \A i \in DOMAIN exports : exports[i] \in Seq(FocusRow)
  BY PollingTypes
<1>3. ASSUME NEW i \in DOMAIN exports PROVE IsFiniteSet(Of(i))
  <2>1. PICK m \in Nat : m = Len(exports[i]) /\ DOMAIN exports[i] = 1..m
    BY <1>2
  <2>2. IsFiniteSet(1..m)
    BY <2>1, FS_Interval
  <2>3. PICK f : f = [k \in 1..m |-> <<i, k>>]
    OBVIOUS
  <2>4. f \in Surjection(1..m, Of(i))
    BY <2>1, <2>3 DEF Surjection
  <2> QED BY <2>2, <2>4, FS_Surjection DEF ExistsSurjection
<1>4. IsFiniteSet({Of(i) : i \in DOMAIN exports})
  <2>1. IsFiniteSet(1..n)
    BY FS_Interval
  <2>2. PICK R, D : R = {Of(i) : i \in DOMAIN exports} /\ D = 1..n
    OBVIOUS
  <2> HIDE DEF Of
  <2>3. PICK f : f = [i \in D |-> Of(i)]
    OBVIOUS
  <2>4. /\ \A i \in D : f[i] \in R
        /\ \A t \in R : \E i \in D : f[i] = t
    BY <1>1, <2>2, <2>3
  <2>5. f \in Surjection(D, R)
    BY <2>3, <2>4 DEF Surjection
  <2>6. IsFiniteSet(R)
    BY <2>1, <2>2, <2>5, FS_Surjection
  <2> QED BY <2>2, <2>6
<1>5. IsFiniteSet(Listed)
  <2>1. Listed = UNION {Of(i) : i \in DOMAIN exports}
    BY DEF Listed
  <2>2. \A T \in {Of(i) : i \in DOMAIN exports} : IsFiniteSet(T)
    BY <1>3
  <2> HIDE DEF Of
  <2> QED BY <1>4, <2>1, <2>2, FS_UNION
<1>6. ASSUME NEW at \in Listed
      PROVE  /\ at[1] \in DOMAIN exports /\ at[2] \in DOMAIN exports[at[1]] /\ at = <<at[1], at[2]>>
  BY DEF Listed
<1>7. ASSUME NEW at \in Listed PROVE exports[at[1]][at[2]] \in FocusRow
  <2>1. PICK i, k, file : i = at[1] /\ k = at[2] /\ file = exports[i]
    OBVIOUS
  <2>2. file \in Seq(FocusRow) /\ k \in DOMAIN file
    BY <1>2, <1>6, <2>1
  <2>3. file[k] \in FocusRow
    BY <2>2
  <2> QED BY <2>1, <2>3
<1> QED BY <1>1, <1>5, <1>6, <1>7 DEF Listed

\* When the exports are plain, the table holds their rows, each once.
LEMMA PlainMatch ==
  ASSUME PollingInv, mirrored, \A i \in DOMAIN exports : Plain(i)
  PROVE  /\ IsFiniteSet(Listed)
         /\ Paired([at \in Listed |-> StoredAs(at)], Listed, RowsOf(cost_events, Tenant))
         /\ \A at \in Listed :
               /\ ContentAt(at) \in Contents /\ cost_events[StoredAs(at)] = ContentAt(at)
               /\ CurrencyOf[ContentAt(at)] = BilledIn(at)
               /\ RunOf[ContentAt(at)] = attribute(TagsOf(ContentAt(at))).ids["run"]
<1>0. PollingTypeOK /\ StoredInv /\ TableMirrorsExports
  BY DEF PollingInv
<1>1. \A i \in DOMAIN exports : exports[i] # Malformed
  BY DEF Plain
<1>2. /\ IsFiniteSet(Listed)
      /\ \A at \in Listed : /\ at[1] \in DOMAIN exports /\ at[1] \in Periods
                            /\ at[2] \in DOMAIN exports[at[1]] /\ at = <<at[1], at[2]>>
                            /\ exports[at[1]][at[2]] \in FocusRow
      /\ \A i \in DOMAIN exports : \A k \in DOMAIN exports[i] : <<i, k>> \in Listed
  BY <1>0, <1>1, ListedFinite
<1>3. \A i \in DOMAIN exports : \A k \in DOMAIN exports[i] :
         exports[i][k].line \in Lines /\ exports[i][k].content \in Contents
  <2> SUFFICES ASSUME NEW i \in DOMAIN exports, NEW k \in DOMAIN exports[i]
               PROVE  exports[i][k] \in FocusRow
    BY DEF FocusRow
  <2>1. PICK at : at = <<i, k>>
    OBVIOUS
  <2>2. at \in Listed /\ at[1] = i /\ at[2] = k
    BY <1>2, <2>1
  <2> QED BY <1>2, <2>2
<1>4. ASSUME NEW i \in DOMAIN exports, NEW k \in DOMAIN exports[i]
      PROVE  cost_events[<<Tenant, <<i, exports[i][k].line>>>>] = exports[i][k].content
  <2>1. PICK line \in Lines : line = exports[i][k].line
    BY <1>3
  <2>2. PICK at : at = {q \in DOMAIN exports[i] : exports[i][q].line = line /\ ~Refused(exports[i][q])}
    OBVIOUS
  <2>3. at = {k}
    BY <2>1, <2>2 DEF Plain
  <2>4. Max(at) = k
    <3>1. k \in Int
      BY <1>0, <1>1, PollingTypes
    <3>2. at \in SUBSET Int /\ k \in at /\ \A y \in at : k >= y
      BY <2>3, <3>1
    <3> QED BY <3>1, <3>2, MaxIs
  <2>5. SaidOf(i, line) = exports[i][k].content
    BY <2>2, <2>3, <2>4 DEF SaidOf
  <2>6. SaidOf(i, line) # None
    BY <1>3, <2>5, ContentAssumption
  <2>7. find_by_external_id(cost_events, Tenant, <<i, line>>) = SaidOf(i, line)
    BY <1>0, <1>1, <2>6 DEF TableMirrorsExports
  <2> QED BY <2>1, <2>5, <2>7 DEF find_by_external_id
<1>5. ASSUME NEW at \in Listed
      PROVE  /\ ContentAt(at) \in Contents /\ cost_events[StoredAs(at)] = ContentAt(at)
             /\ StoredAs(at) \in RowsOf(cost_events, Tenant)
             /\ CurrencyOf[ContentAt(at)] = BilledIn(at)
             /\ RunOf[ContentAt(at)] = attribute(TagsOf(ContentAt(at))).ids["run"]
  <2>1. PICK i, k : i = at[1] /\ k = at[2] /\ i \in DOMAIN exports /\ k \in DOMAIN exports[i] /\ i \in Periods
    BY <1>2
  <2>2. PICK c, line : c = exports[i][k].content /\ line = exports[i][k].line
    OBVIOUS
  <2>3. c = ContentAt(at) /\ StoredAs(at) = <<Tenant, <<i, line>>>> /\ c \in Contents /\ line \in Lines
    BY <1>3, <2>1, <2>2 DEF ContentAt, StoredAs
  <2>4. cost_events[StoredAs(at)] = c
    BY <1>4, <2>1, <2>2, <2>3
  <2>5. StoredAs(at) \in RowsOf(cost_events, Tenant)
    <3>1. <<Tenant, <<i, line>>>> \in Keys /\ <<Tenant, <<i, line>>>>[1] = Tenant
      BY <2>1, <2>3, IngestionAssumption DEF Keys
    <3> QED BY <2>3, <2>4, <3>1, ContentAssumption DEF RowsOf
  <2>6. c \notin Unreadable /\ ~AttributionFails(TagsOf(c)) /\ CodeOf[c] # Unlisted
    BY <2>1, <2>2 DEF Plain, Refused
  <2>7. RunOf[c] = attribute(TagsOf(c)).ids["run"] /\ CurrencyOf[c] = parse_currency(CodeOf[c], DefaultCurrency)
    BY <2>3, <2>6, NormalizeAssumption
  <2>8. BilledIn(at) = IF CodeOf[c] = Absent THEN DefaultCurrency ELSE CodeOf[c]
    BY <2>3 DEF BilledIn
  <2>9. CurrencyOf[c] = BilledIn(at)
    BY <2>6, <2>7, <2>8 DEF parse_currency
  <2> QED BY <2>3, <2>4, <2>5, <2>7, <2>9
<1>6. ASSUME NEW a \in Listed, NEW b \in Listed, StoredAs(a) = StoredAs(b) PROVE a = b
  <2>1. PICK i, j, k : /\ i = a[1] /\ j = a[2] /\ k = b[2] /\ a = <<i, j>> /\ i \in DOMAIN exports
                       /\ j \in DOMAIN exports[i]
    BY <1>2
  <2>2. b[1] = i /\ exports[i][j].line = exports[b[1]][k].line
    BY <1>6, <2>1 DEF StoredAs
  <2>3. b = <<i, k>> /\ k \in DOMAIN exports[i]
    BY <1>2, <2>1, <2>2
  <2>4. j = k
    BY <2>1, <2>2, <2>3 DEF Plain
  <2> QED BY <2>1, <2>3, <2>4
<1>7. ASSUME NEW key \in RowsOf(cost_events, Tenant) PROVE \E at \in Listed : StoredAs(at) = key
  <2>1. key \in Tenants \X (Periods \X Lines) /\ key[1] = Tenant /\ cost_events[key] # None /\ key \in Keys
    BY IngestionAssumption DEF RowsOf, Keys
  <2>2. PICK i \in Periods, line \in Lines : key = <<Tenant, <<i, line>>>>
    BY <2>1
  <2>3. i \in DOMAIN exports
    <3>1. key[2][1] \in DOMAIN exports
      BY <1>0, <2>1 DEF StoredInv
    <3> QED BY <2>2, <3>1
  <2>4. find_by_external_id(cost_events, Tenant, <<i, line>>) # None
    BY <2>1, <2>2 DEF find_by_external_id
  <2>5. PICK k \in DOMAIN exports[i] : exports[i][k].line = line
    BY <2>3, <2>4 DEF Plain
  <2>6. PICK at : at = <<i, k>>
    OBVIOUS
  <2>7. at \in Listed /\ at[1] = i /\ at[2] = k
    BY <1>2, <2>3, <2>6
  <2> QED BY <2>2, <2>5, <2>7 DEF StoredAs
<1>8. PICK f : f = [at \in Listed |-> StoredAs(at)]
  OBVIOUS
<1>9. Paired(f, Listed, RowsOf(cost_events, Tenant))
  <2>1. \A at \in Listed : f[at] = StoredAs(at)
    BY <1>8
  <2> QED BY <1>5, <1>6, <1>7, <2>1 DEF Paired
<1> QED BY <1>2, <1>5, <1>8, <1>9

LEMMA InvoiceConserved ==
  PollingInv => InvoiceIsConserved
<1> SUFFICES ASSUME PollingInv, mirrored, \A i \in DOMAIN exports : Plain(i)
             PROVE  LET stored == RowsOf(cost_events, Tenant)
                    IN  /\ \A c \in Currencies :
                              MapThenSumSet(LAMBDA key : CostOf[cost_events[key]],
                                            {key \in stored : CurrencyOf[cost_events[key]] = c})
                              = MapThenSumSet(LAMBDA at : CostOf[ContentAt(at)],
                                              {at \in Listed : BilledIn(at) = c})
                        /\ attribution_coverage(cost_events, Tenant) =
                              [total_events |-> Cardinality(Listed),
                               run_attributed |-> Cardinality({at \in Listed :
                                   attribute(TagsOf(ContentAt(at))).ids["run"] # Absent})]
  BY DEF InvoiceIsConserved
<1>1. PICK f, stored : f = [at \in Listed |-> StoredAs(at)] /\ stored = RowsOf(cost_events, Tenant)
  OBVIOUS
<1>2. /\ IsFiniteSet(Listed) /\ Paired(f, Listed, stored)
      /\ \A at \in Listed :
            /\ ContentAt(at) \in Contents /\ cost_events[StoredAs(at)] = ContentAt(at)
            /\ CurrencyOf[ContentAt(at)] = BilledIn(at)
            /\ RunOf[ContentAt(at)] = attribute(TagsOf(ContentAt(at))).ids["run"]
  BY <1>1, PlainMatch
<1>3. \A at \in Listed : f[at] = StoredAs(at) /\ f[at] \in stored /\ cost_events[f[at]] = ContentAt(at)
  BY <1>1, <1>2 DEF Paired
<1>4. PICK v, w : v = CostsListed /\ w = CostsStored
  OBVIOUS
<1>5. stored \subseteq Keys
  BY <1>1 DEF RowsOf
<1>6. /\ \A at \in Listed : v[at] = CostOf[ContentAt(at)] /\ w[f[at]] = v[at]
      /\ Valued(v, Listed)
  <2>1. \A at \in Listed : v[at] = CostOf[ContentAt(at)] /\ v[at] \in Int
    BY <1>2, <1>4, ContentAssumption DEF CostsListed
  <2>2. \A at \in Listed : w[f[at]] = CostOf[ContentAt(at)]
    BY <1>3, <1>4, <1>5 DEF CostsStored
  <2> QED BY <2>1, <2>2 DEF Valued
\* A part of the invoice and the part of the table it is stored in.
<1>7. ASSUME NEW P \in SUBSET Listed, NEW Q \in SUBSET stored, \A at \in Listed : at \in P <=> f[at] \in Q
      PROVE  Cardinality(Q) = Cardinality(P) /\ Total(w, Q) = Total(v, P)
  <2>1. Paired(f, P, Q)
    BY <1>2, <1>7, PairedPart
  <2>2. IsFiniteSet(P) /\ Valued(v, P) /\ \A at \in P : w[f[at]] = v[at]
    BY <1>2, <1>6, FS_Subset DEF Valued
  <2> QED BY <2>1, <2>2, PairedTotal
<1>8. ASSUME NEW c \in Currencies
      PROVE  MapThenSumSet(LAMBDA key : CostOf[cost_events[key]],
                           {key \in stored : CurrencyOf[cost_events[key]] = c})
             = MapThenSumSet(LAMBDA at : CostOf[ContentAt(at)], {at \in Listed : BilledIn(at) = c})
  <2>1. PICK P, Q : P = {at \in Listed : BilledIn(at) = c}
                    /\ Q = {key \in stored : CurrencyOf[cost_events[key]] = c}
    OBVIOUS
  <2>2. \A at \in Listed : at \in P <=> f[at] \in Q
    BY <1>2, <1>3, <2>1
  <2>3. P \in SUBSET Listed /\ Q \in SUBSET stored /\ Q \in SUBSET Keys
    BY <1>5, <2>1
  <2>4. Total(w, Q) = Total(v, P)
    BY <1>7, <2>2, <2>3
  <2>5. MapThenSumSet(LAMBDA key : CostOf[cost_events[key]], Q) = Total(w, Q)
    BY <1>4, <2>3, StoredCostsAddUp, Zenon
  <2>6. MapThenSumSet(LAMBDA at : CostOf[ContentAt(at)], P) = Total(v, P)
    BY <1>4, <2>3, ListedCostsAddUp, Zenon
  <2> QED BY <2>1, <2>4, <2>5, <2>6, Zenon
<1>9. Cardinality(stored) = Cardinality(Listed)
  <2>1. Listed \in SUBSET Listed /\ stored \in SUBSET stored /\ \A at \in Listed : at \in Listed <=> f[at] \in stored
    BY <1>3
  <2> QED BY <1>7, <2>1
<1>10. Cardinality({key \in stored : RunOf[cost_events[key]] # None})
         = Cardinality({at \in Listed : attribute(TagsOf(ContentAt(at))).ids["run"] # Absent})
  <2>1. PICK P, Q : P = {at \in Listed : attribute(TagsOf(ContentAt(at))).ids["run"] # Absent}
                    /\ Q = {key \in stored : RunOf[cost_events[key]] # None}
    OBVIOUS
  <2>2. \A at \in Listed : at \in P <=> f[at] \in Q
    BY <1>2, <1>3, <2>1, IngestionAssumption
  <2>3. P \in SUBSET Listed /\ Q \in SUBSET stored
    BY <2>1
  <2>4. Cardinality(Q) = Cardinality(P)
    BY <1>7, <2>2, <2>3
  <2> QED BY <2>1, <2>4
<1> QED BY <1>1, <1>8, <1>9, <1>10, Zenon DEF attribution_coverage

\* Nothing of a plain invoice is lost, merged or counted twice on the way to the
\* table (derive_external_id, providers/aws.rs; the upsert, infra/cost_events.rs).
THEOREM InvoicesAreConserved == PollingSpec => []InvoiceIsConserved
BY PollingInvariance, InvoiceConserved, PTL

=============================================================================
