------------------------- MODULE LedgerStoreProofs --------------------------
(***************************************************************************)
(* The store is correct for any number of tenants, aggregates, writers,    *)
(* readers, entry ids, commands and faults: first its table (IndInv), then *)
(* what its callers are told (AnswerInv, inductive relative to IndInv),    *)
(* then its refinement of AtomicLedger.                                    *)
(***************************************************************************)
EXTENDS LedgerStore, LedgerProofs, FiniteSetTheorems

-----------------------------------------------------------------------------
(* ORDER BY sequence_number over a dense set of rows. *)

\* The rows carry the sequence numbers 1..n, each once.
Dense(rows, n) ==
    /\ n \in Nat
    /\ \A row \in rows : row.sequence_number \in 1..n
    /\ \A k \in 1..n : \E row \in rows : row.sequence_number = k
    /\ \A p, q \in rows : p.sequence_number = q.sequence_number => p = q

UpTo(rows, m) == {row \in rows : row.sequence_number <= m}

LEMMA CountUpTo ==
  ASSUME NEW rows, NEW n, Dense(rows, n)
  PROVE  \A m \in 0..n : IsFiniteSet(UpTo(rows, m)) /\ Cardinality(UpTo(rows, m)) = m
<1> DEFINE S == {m \in Nat : m \in 0..n => /\ IsFiniteSet(UpTo(rows, m))
                                           /\ Cardinality(UpTo(rows, m)) = m}
<1>1. 0 \in S
  <2>1. UpTo(rows, 0) = {}
    BY DEF UpTo, Dense
  <2> QED BY <2>1, FS_EmptySet
<1>2. ASSUME NEW m \in Nat, m \in S PROVE m + 1 \in S
  <2>1. SUFFICES ASSUME m + 1 \in 0..n
                 PROVE  /\ IsFiniteSet(UpTo(rows, m + 1))
                        /\ Cardinality(UpTo(rows, m + 1)) = m + 1
    OBVIOUS
  <2>2. IsFiniteSet(UpTo(rows, m)) /\ Cardinality(UpTo(rows, m)) = m
    BY <1>2, <2>1 DEF Dense
  <2>3. PICK row \in rows : row.sequence_number = m + 1
    BY <2>1 DEF Dense
  <2>4. UpTo(rows, m + 1) = UpTo(rows, m) \union {row} /\ row \notin UpTo(rows, m)
    BY <2>1, <2>3 DEF Dense, UpTo
  <2> QED BY <2>2, <2>4, FS_AddElement
<1>3. Nat \subseteq S
  <2> HIDE DEF S
  <2> QED BY <1>1, <1>2, SetInduction
<1> QED BY <1>3 DEF Dense

LEMMA InOrderDense ==
  ASSUME NEW rows, NEW n, Dense(rows, n)
  PROVE  /\ DOMAIN InOrder(rows) = 1..n
         /\ \A row \in rows : InOrder(rows)[row.sequence_number] = row.payload
         /\ Cardinality(rows) = n
<1> DEFINE rank(row) == Cardinality({q \in rows : q.sequence_number <= row.sequence_number})
<1>1. Cardinality(rows) = n
  <2>1. rows = UpTo(rows, n) /\ n \in 0..n
    BY DEF UpTo, Dense
  <2> QED BY <2>1, CountUpTo
<1>2. ASSUME NEW row \in rows PROVE rank(row) = row.sequence_number
  <2>1. row.sequence_number \in 0..n
    BY DEF Dense
  <2> QED BY <2>1, CountUpTo DEF UpTo
<1>3. InOrder(rows) = [i \in 1..n |-> (CHOOSE row \in rows : rank(row) = i).payload]
  BY <1>1 DEF InOrder
<1>4. ASSUME NEW row \in rows
      PROVE  InOrder(rows)[row.sequence_number] = row.payload
  <2> HIDE DEF rank
  <2> DEFINE c == CHOOSE q \in rows : rank(q) = row.sequence_number
  <2>1. c \in rows /\ rank(c) = row.sequence_number
    BY <1>2
  <2>2. c = row
    BY <1>2, <2>1 DEF Dense
  <2> HIDE DEF c
  <2>3. InOrder(rows)[row.sequence_number] = c.payload
    BY <1>3 DEF Dense, c
  <2> QED BY <2>2, <2>3
<1> QED BY <1>1, <1>3, <1>4

LEMMA InOrderType ==
  ASSUME NEW rows, rows \subseteq Row, NEW n, Dense(rows, n)
  PROVE  InOrder(rows) \in Seq(LedgerEvent) /\ Len(InOrder(rows)) = n
<1>1. ASSUME NEW i \in 1..n PROVE InOrder(rows)[i] \in LedgerEvent
  <2>1. PICK row \in rows : row.sequence_number = i
    BY DEF Dense
  <2>2. InOrder(rows)[i] = row.payload
    BY <2>1, InOrderDense
  <2> QED BY <2>2 DEF Row
<1>2. InOrder(rows) = [i \in 1..n |-> InOrder(rows)[i]]
  <2>1. DOMAIN InOrder(rows) = 1..n
    BY InOrderDense
  <2> QED BY <2>1 DEF InOrder
<1>3. n \in Nat
  BY DEF Dense
<1>4. InOrder(rows) \in [1..n -> LedgerEvent]
  BY <1>1, <1>2
<1> QED BY <1>3, <1>4

-----------------------------------------------------------------------------
(* Types of what is loaded and decided. *)

LEMMA VisibleDense ==
  ASSUME TypeOK, UniqueKeys, NEW t \in Tenants, NEW a \in Aggregates,
         NEW n \in Nat, StreamLength(t, a, n)
  PROVE  /\ Visible(t, a) \subseteq Row
         /\ Dense(Visible(t, a), n)
         /\ \A m \in 0..n : Prefix(t, a, m) \subseteq Row /\ Dense(Prefix(t, a, m), m)
<1>1. Visible(t, a) \subseteq ledger_events /\ ledger_events \subseteq Row
  BY DEF Visible, TypeOK
<1>2. \A row \in Visible(t, a) : row.sequence_number \in Nat \ {0} /\ row.aggregate_id = a
  BY <1>1 DEF Visible, Row
<1>3. \A p, q \in Visible(t, a) : p.sequence_number = q.sequence_number => p = q
  BY <1>1, <1>2 DEF UniqueKeys
<1>4. \A row \in Visible(t, a) : row.sequence_number <= n
  BY <1>2 DEF StreamLength
<1>5. \A k \in 1..n : \E row \in Visible(t, a) : row.sequence_number = k
  BY DEF StreamLength
<1> QED BY <1>1, <1>2, <1>3, <1>4, <1>5 DEF Dense, Prefix

LEMMA ReplayedType ==
  ASSUME NEW rows, rows \subseteq Row, NEW n, Dense(rows, n)
  PROVE  Replayed(rows) \in LedgerState
BY InOrderType, ReplayType DEF Replayed

LEMMA LastSequenceDense ==
  ASSUME NEW rows, NEW n, Dense(rows, n)
  PROVE  LastSequence(rows) = n
<1>1. CASE rows = {}
  <2>1. n = 0
    BY <1>1 DEF Dense
  <2> QED BY <1>1, <2>1 DEF LastSequence
<1>2. CASE rows # {}
  <2> DEFINE T == {row.sequence_number : row \in rows}
  <2>1. n \in T /\ T \subseteq 1..n /\ n \in Nat
    BY <1>2 DEF Dense
  <2>2. Max(T) = n
    <3> HIDE DEF T
    <3>1. \A y \in T : n >= y
      BY <2>1
    <3>2. Max(T) \in T /\ \A y \in T : Max(T) >= y
      BY <2>1, <3>1 DEF Max
    <3>3. Max(T) \in 1..n /\ Max(T) >= n
      BY <2>1, <3>2
    <3> QED BY <2>1, <3>3
  <2> QED BY <1>2, <2>2 DEF LastSequence
<1> QED BY <1>1, <1>2

LEMMA LoadType ==
  ASSUME TypeOK, UniqueKeys, DenseStreams, NEW t \in Tenants, NEW a \in Aggregates
  PROVE  \E n \in Nat : /\ StreamLength(t, a, n)
                        /\ load(t, a).sequence_number = n
                        /\ load(t, a).inner = Replayed(Visible(t, a))
                        /\ Prefix(t, a, n) = Visible(t, a)
                        /\ load(t, a) \in AggregateState
                        /\ Len(InOrder(Visible(t, a))) = n
<1>1. PICK n \in Nat : StreamLength(t, a, n)
  BY DEF DenseStreams
<1>2. Visible(t, a) \subseteq Row /\ Dense(Visible(t, a), n)
  BY <1>1, VisibleDense
<1>3. LastSequence(Visible(t, a)) = n
  BY <1>2, LastSequenceDense
<1>4. Replayed(Visible(t, a)) \in LedgerState
  BY <1>2, ReplayedType
<1>5. Len(InOrder(Visible(t, a))) = n
  BY <1>2, InOrderType
<1>6. Prefix(t, a, n) = Visible(t, a)
  BY <1>2 DEF Dense, Prefix
<1> QED BY <1>1, <1>3, <1>4, <1>5, <1>6 DEF load, AggregateState

-----------------------------------------------------------------------------
(* A commit appends its row at the end of its stream. *)

LEMMA CommitExtendsStream ==
  ASSUME IndInv, NEW w \in Writers, writer[w].phase = "inserted",
         ledger_events' = ledger_events \union {RowOf(w)}
  PROVE  /\ RowOf(w) \in Row
         /\ TenantOf[w] \in Tenants /\ writer[w].aggregate \in Aggregates
         /\ StreamLength(TenantOf[w], writer[w].aggregate, writer[w].state.sequence_number - 1)
         /\ \A t \in Tenants, a \in Aggregates :
               IF t = TenantOf[w] /\ a = writer[w].aggregate
               THEN Visible(t, a)' = Visible(t, a) \union {RowOf(w)}
               ELSE Visible(t, a)' = Visible(t, a)
<1> DEFINE t == TenantOf[w]
           a == writer[w].aggregate
           k == writer[w].state.sequence_number
<1>1. t \in Tenants /\ a \in Aggregates
  BY LedgerStoreAssumption DEF IndInv, WriterInv
<1>2. HoldsPrefix(w, k - 1) /\ k \in Nat /\ writer[w].event \in LedgerEvent
  BY DEF IndInv, WriterInv, TypeOK, WriterState, AggregateState
<1>3. k - 1 \in Nat
  BY <1>2 DEF HoldsPrefix
<1>4. RowOf(w) \in Row
  BY <1>1, <1>2, <1>3 DEF RowOf, Row
<1>5. PICK n \in Nat : StreamLength(t, a, n)
  BY <1>1 DEF IndInv, DenseStreams
<1>6. k - 1 <= n
  <2>1. CASE k - 1 = 0
    BY <2>1
  <2>2. CASE k - 1 # 0
    <3>1. \E row \in Visible(t, a) : row.sequence_number = k - 1
      BY <1>2, <1>3, <2>2 DEF HoldsPrefix
    <3> QED BY <1>3, <1>5, <2>2, <3>1 DEF StreamLength
  <2> QED BY <2>1, <2>2
<1>7. ~(k <= n)
  <2>1. \A row \in Visible(t, a) : row.sequence_number # k
    BY DEF IndInv, WriterInv, SameKey, RowOf, Visible
  <2> QED BY <1>2, <1>3, <1>5, <2>1 DEF StreamLength
<1>8. n = k - 1
  BY <1>2, <1>3, <1>5, <1>6, <1>7
<1>9. ASSUME NEW u \in Tenants, NEW b \in Aggregates
      PROVE  IF u = t /\ b = a THEN Visible(u, b)' = Visible(u, b) \union {RowOf(w)}
                              ELSE Visible(u, b)' = Visible(u, b)
  BY DEF Visible, RowOf
<1> QED BY <1>1, <1>4, <1>5, <1>8, <1>9

\* What a commit of w leaves true of the table and of every prefix held by others.
LEMMA CommitKeepsTable ==
  ASSUME IndInv, NEW w \in Writers, writer[w].phase = "inserted",
         ledger_events' = ledger_events \union {RowOf(w)}
  PROVE  /\ ledger_events' \subseteq Row
         /\ UniqueKeys'
         /\ DenseStreams'
         /\ EveryEventWasLegal'
<1>0. PICK t, a, k, new : /\ t = TenantOf[w] /\ a = writer[w].aggregate
                          /\ k = writer[w].state.sequence_number /\ new = RowOf(w)
  OBVIOUS
<1>1. /\ new \in Row /\ t \in Tenants /\ a \in Aggregates
      /\ StreamLength(t, a, k - 1)
      /\ \A u \in Tenants, b \in Aggregates :
            IF u = t /\ b = a THEN Visible(u, b)' = Visible(u, b) \union {new}
                             ELSE Visible(u, b)' = Visible(u, b)
  BY <1>0, CommitExtendsStream
<1>2. /\ new.tenant_id = t /\ new.aggregate_id = a /\ new.sequence_number = k
      /\ new.payload = writer[w].event
  BY <1>0 DEF RowOf
<1>3. k \in Nat \ {0}
  BY <1>1, <1>2 DEF Row
<1>4. ledger_events \subseteq Row /\ ledger_events' \subseteq Row
  BY <1>0, <1>1 DEF IndInv, TypeOK
<1>5. UniqueKeys'
  BY DEF IndInv, UniqueKeys, WriterInv, SameKey
<1>6. DenseStreams'
  <2> SUFFICES ASSUME NEW u \in Tenants, NEW b \in Aggregates
               PROVE  \E n \in Nat : StreamLength(u, b, n)'
    BY DEF DenseStreams
  <2>1. CASE u = t /\ b = a
    <3>1. Visible(u, b)' = Visible(u, b) \union {new}
      BY <1>1, <2>1
    <3>2. StreamLength(u, b, k)'
      BY <1>1, <1>2, <1>3, <2>1, <3>1 DEF StreamLength
    <3> QED BY <1>3, <3>2
  <2>2. CASE ~(u = t /\ b = a)
    <3>1. Visible(u, b)' = Visible(u, b)
      BY <1>1, <2>2
    <3>2. PICK n \in Nat : StreamLength(u, b, n)
      BY DEF IndInv, DenseStreams
    <3> QED BY <3>1, <3>2 DEF StreamLength
  <2> QED BY <2>1, <2>2
<1>7. \A row \in Visible(t, a) : row.sequence_number \in Nat /\ row.sequence_number < k
  <2>1. \A row \in Visible(t, a) : row.sequence_number \in Nat \ {0}
    BY <1>4 DEF Visible, Row
  <2> QED BY <1>1, <1>3, <2>1 DEF StreamLength
<1>8. EveryEventWasLegal'
  <2> SUFFICES ASSUME NEW row \in ledger_events'
               PROVE  Legal(row.payload, Replayed(Before(row)'))
    BY DEF EveryEventWasLegal, Legal
  <2>1. CASE row = new
    <3>1. Before(row)' = {q \in Visible(t, a)' : q.sequence_number < k}
      BY <1>2, <2>1 DEF Before
    <3>2. Visible(t, a)' = Visible(t, a) \union {new}
      BY <1>1
    <3>3. Before(row)' = Prefix(t, a, k - 1)
      BY <1>2, <1>3, <1>7, <3>1, <3>2 DEF Prefix
    <3>4. writer[w].state.inner = Replayed(Prefix(t, a, k - 1))
      BY <1>0 DEF IndInv, WriterInv, HoldsPrefix
    <3>5. Legal(writer[w].event, writer[w].state.inner)
      BY DEF IndInv, WriterInv
    <3> QED BY <1>2, <2>1, <3>3, <3>4, <3>5
  <2>2. CASE row # new
    <3>1. row \in ledger_events /\ row \in Row
      BY <1>0, <1>4, <2>2
    <3>2. row.tenant_id \in Tenants /\ row.aggregate_id \in Aggregates
          /\ row.sequence_number \in Nat
      BY <3>1 DEF Row
    <3>3. Before(row)' = Before(row)
      <4>1. CASE row.tenant_id = t /\ row.aggregate_id = a
        <5>1. row.sequence_number < k
          BY <1>7, <3>1, <4>1 DEF Visible
        <5>2. Visible(t, a)' = Visible(t, a) \union {new}
          BY <1>1
        <5>3. Before(row)' = {q \in Visible(t, a)' : q.sequence_number < row.sequence_number}
          BY <4>1 DEF Before
        <5>4. Before(row) = {q \in Visible(t, a) : q.sequence_number < row.sequence_number}
          BY <4>1 DEF Before
        <5> QED BY <1>2, <1>3, <3>2, <5>1, <5>2, <5>3, <5>4
      <4>2. CASE ~(row.tenant_id = t /\ row.aggregate_id = a)
        BY <1>1, <3>2, <4>2 DEF Before
      <4> QED BY <4>1, <4>2
    <3>4. Legal(row.payload, Replayed(Before(row)))
      BY <3>1 DEF IndInv, EveryEventWasLegal
    <3> QED BY <3>3, <3>4
  <2> QED BY <2>1, <2>2
<1> QED BY <1>4, <1>5, <1>6, <1>8

-----------------------------------------------------------------------------
(* The steps of one writer leave the others' invariant true. *)

TableStep(w) ==
    \/ ledger_events' = ledger_events
    \/ writer[w].phase = "inserted" /\ ledger_events' = ledger_events \union {RowOf(w)}

LEMMA PrefixStays ==
  ASSUME IndInv, NEW w \in Writers, NEW v \in Writers, TableStep(w),
         writer'[v] = writer[v], writer[v].aggregate \in Aggregates,
         NEW n, HoldsPrefix(v, n)
  PROVE  HoldsPrefix(v, n)'
<1>0. PICK t, a : t = TenantOf[v] /\ a = writer[v].aggregate
  OBVIOUS
<1>1. t \in Tenants /\ a \in Aggregates /\ n \in Nat
  BY <1>0, LedgerStoreAssumption DEF HoldsPrefix
<1>2. \A k \in 1..n : \E row \in Visible(t, a) : row.sequence_number = k
  BY <1>0 DEF HoldsPrefix
<1>3. writer[v].state.inner = Replayed(Prefix(t, a, n))
  BY <1>0 DEF HoldsPrefix
<1>4. Visible(t, a) \subseteq Visible(t, a)' /\ Prefix(t, a, n)' = Prefix(t, a, n)
  <2>1. CASE ledger_events' = ledger_events
    BY <2>1 DEF Visible, Prefix
  <2>2. CASE writer[w].phase = "inserted" /\ ledger_events' = ledger_events \union {RowOf(w)}
    <3>0. PICK u, b, k, new : /\ u = TenantOf[w] /\ b = writer[w].aggregate
                              /\ k = writer[w].state.sequence_number /\ new = RowOf(w)
      OBVIOUS
    <3>1. /\ new \in Row
          /\ StreamLength(u, b, k - 1)
          /\ IF t = u /\ a = b THEN Visible(t, a)' = Visible(t, a) \union {new}
                               ELSE Visible(t, a)' = Visible(t, a)
      BY <1>1, <2>2, <3>0, CommitExtendsStream
    <3>2. new.sequence_number = k /\ k \in Nat \ {0}
      BY <3>0, <3>1 DEF RowOf, Row
    <3>3. CASE t = u /\ a = b
      <4>1. n <= k - 1
        <5>1. CASE n = 0
          BY <3>2, <5>1
        <5>2. CASE n # 0
          <6>1. \E row \in Visible(t, a) : row.sequence_number = n
            BY <1>1, <1>2, <5>2
          <6> QED BY <1>1, <3>1, <3>3, <5>2, <6>1 DEF StreamLength
        <5> QED BY <5>1, <5>2
      <4>2. ~(new.sequence_number <= n)
        BY <1>1, <3>2, <4>1
      <4>3. Visible(t, a)' = Visible(t, a) \union {new}
        BY <3>1, <3>3
      <4> QED BY <4>2, <4>3 DEF Prefix
    <3>4. CASE ~(t = u /\ a = b)
      BY <3>1, <3>4 DEF Prefix
    <3> QED BY <3>3, <3>4
  <2> QED BY <2>1, <2>2 DEF TableStep
<1>5. \A k \in 1..n : \E row \in Visible(t, a)' : row.sequence_number = k
  BY <1>2, <1>4
<1>6. writer'[v].state.inner = Replayed(Prefix(t, a, n)')
  BY <1>3, <1>4
<1>7. Replayed(Prefix(t, a, n))' = Replayed(Prefix(t, a, n)')
  BY DEF Replayed, InOrder
<1> QED BY <1>0, <1>1, <1>5, <1>6, <1>7 DEF HoldsPrefix

LEMMA OtherWriter ==
  ASSUME IndInv, NEW w \in Writers, NEW v \in Writers, v # w, TableStep(w),
         \A u \in Writers : u # w => writer'[u] = writer[u],
         writer'[w].phase = "inserted" /\ writer[v].phase = "inserted"
            => ~SameKey(RowOf(v)', RowOf(w)')
  PROVE  WriterInv(v)'
<1>1. writer'[v] = writer[v] /\ RowOf(v)' = RowOf(v) /\ WriterInv(v)
  BY DEF RowOf, IndInv
<1>2. writer[v].phase # "idle" => writer[v].aggregate \in Aggregates
  BY <1>1 DEF WriterInv
<1>3. writer[v].phase \in {"loaded", "decided"} =>
        HoldsPrefix(v, writer[v].state.sequence_number)'
  BY <1>1, <1>2, PrefixStays DEF WriterInv
<1>4. ASSUME writer[v].phase = "inserted"
      PROVE  /\ HoldsPrefix(v, writer[v].state.sequence_number - 1)'
             /\ \A row \in ledger_events' : ~SameKey(RowOf(v), row)
             /\ \A u \in Writers : u # v /\ writer'[u].phase = "inserted"
                                     => ~SameKey(RowOf(v), RowOf(u)')
  <2>1. HoldsPrefix(v, writer[v].state.sequence_number - 1)'
    BY <1>1, <1>2, <1>4, PrefixStays DEF WriterInv
  <2>2. \A row \in ledger_events' : ~SameKey(RowOf(v), row)
    BY <1>1, <1>4 DEF WriterInv, TableStep
  <2>3. \A u \in Writers : u # w => RowOf(u)' = RowOf(u)
    BY DEF RowOf
  <2> QED BY <1>1, <1>4, <2>1, <2>2, <2>3 DEF WriterInv
<1>5. writer[v].phase \in {"decided", "inserted"} =>
        /\ writer[v].event \in LedgerEvent
        /\ Legal(writer[v].event, writer[v].state.inner)
  BY <1>1 DEF WriterInv
<1> QED BY <1>1, <1>3, <1>4, <1>5 DEF WriterInv, Legal

-----------------------------------------------------------------------------
(* The invariant is inductive. *)

LEMMA InitInv == Init => IndInv
<1> SUFFICES ASSUME Init PROVE IndInv
  OBVIOUS
<1>1. DefaultState \in LedgerState
  BY DEF DefaultState, LedgerState
<1>2. NewState \in AggregateState
  BY <1>1 DEF NewState, AggregateState
<1>3. TypeOK
  BY <1>2, LedgerStoreAssumption DEF Init, TypeOK, WriterState, ReaderState, Phases
<1>4. DenseStreams
  <2>1. \A t \in Tenants, a \in Aggregates : StreamLength(t, a, 0)
    BY DEF Init, StreamLength, Visible
  <2> QED BY <2>1 DEF DenseStreams
<1> QED BY <1>3, <1>4 DEF Init, IndInv, UniqueKeys, WriterInv, ReaderInv, EveryEventWasLegal

\* A step of writer w that commits nothing, or its own row, keeps what the
\* invariant says of the table.
LEMMA TableKept ==
  ASSUME IndInv, NEW w \in Writers, TableStep(w)
  PROVE  ledger_events' \subseteq Row /\ UniqueKeys' /\ DenseStreams' /\ EveryEventWasLegal'
<1>1. CASE ledger_events' = ledger_events
  <2>1. ledger_events' \subseteq Row /\ UniqueKeys'
    BY <1>1 DEF IndInv, TypeOK, UniqueKeys
  <2>2. \A t, a : Visible(t, a)' = Visible(t, a)
    BY <1>1 DEF Visible
  <2>3. DenseStreams'
    <3> SUFFICES ASSUME NEW t \in Tenants, NEW a \in Aggregates
                 PROVE  \E n \in Nat : StreamLength(t, a, n)'
      BY DEF DenseStreams
    <3>1. PICK n \in Nat : StreamLength(t, a, n)
      BY DEF IndInv, DenseStreams
    <3>2. StreamLength(t, a, n)'
      BY <2>2, <3>1 DEF StreamLength
    <3> QED BY <3>2
  <2>4. EveryEventWasLegal'
    BY <1>1 DEF IndInv, EveryEventWasLegal, Before, Visible, Legal
  <2> QED BY <2>1, <2>3, <2>4
<1>2. CASE writer[w].phase = "inserted" /\ ledger_events' = ledger_events \union {RowOf(w)}
  BY <1>2, CommitKeepsTable
<1> QED BY <1>1, <1>2 DEF TableStep

\* A step of one writer keeps the invariant if it keeps the writer's own part and
\* takes no key that another writer holds.
LEMMA WriterStep ==
  ASSUME IndInv, NEW w \in Writers, NEW new \in WriterState, writer' = [writer EXCEPT ![w] = new],
         TableStep(w), reader' = reader, faults' \in 0..MaxFaults,
         new.phase = "inserted" => \A v \in Writers : v # w /\ writer[v].phase = "inserted"
                                        => ~SameKey(RowOf(v)', RowOf(w)'),
         WriterInv(w)'
  PROVE  IndInv'
<1>1. writer \in [Writers -> WriterState] /\ reader \in [Readers -> ReaderState]
  BY DEF IndInv, TypeOK
<1>2. writer'[w] = new /\ \A u \in Writers : u # w => writer'[u] = writer[u]
  BY <1>1
<1>3. ledger_events' \subseteq Row /\ UniqueKeys' /\ DenseStreams' /\ EveryEventWasLegal'
  BY TableKept
<1>4. TypeOK'
  BY <1>1, <1>3 DEF TypeOK
<1>5. ASSUME NEW v \in Writers, v # w PROVE WriterInv(v)'
  <2>1. writer'[w].phase = "inserted" /\ writer[v].phase = "inserted"
          => ~SameKey(RowOf(v)', RowOf(w)')
    BY <1>2, <1>5
  <2> QED BY <1>2, <1>5, <2>1, OtherWriter
<1>6. \A r \in Readers : ReaderInv(r)'
  BY DEF IndInv, ReaderInv
<1> QED BY <1>3, <1>4, <1>5, <1>6 DEF IndInv

LEMMA NewStateType == NewState \in AggregateState
BY DEF NewState, AggregateState, DefaultState, LedgerState

LEMMA RequestStep ==
  ASSUME IndInv, NEW w \in Writers, Request(w)
  PROVE  IndInv'
<1>1. PICK a \in AggregatesOf[TenantOf[w]], c \in Commands :
        writer' = [writer EXCEPT ![w].phase = "requested", ![w].aggregate = a,
                                 ![w].command = c, ![w].event = None,
                                 ![w].state = NewState, ![w].requests = @ + 1]
  BY DEF Request
<1>2. writer \in [Writers -> WriterState] /\ writer[w] \in WriterState
      /\ writer[w].requests < MaxRequests /\ a \in Aggregates
  BY LedgerStoreAssumption DEF IndInv, TypeOK, Request
<1>3. PICK new : new = [phase |-> "requested", aggregate |-> a, command |-> c, state |-> NewState,
                        event |-> None, requests |-> writer[w].requests + 1]
  OBVIOUS
<1>4. new \in WriterState
  BY <1>2, <1>3, NewStateType, LedgerStoreAssumption DEF WriterState, Phases
<1>5. writer' = [writer EXCEPT ![w] = new]
  BY <1>1, <1>2, <1>3 DEF WriterState
<1>6. WriterInv(w)'
  <2>1. writer'[w] = new
    BY <1>2, <1>5
  <2> QED BY <1>2, <1>3, <2>1 DEF WriterInv
<1>7. TableStep(w) /\ reader' = reader /\ faults' \in 0..MaxFaults /\ new.phase # "inserted"
  BY <1>3 DEF TableStep, Request, IndInv, TypeOK
<1> QED BY <1>4, <1>5, <1>6, <1>7, WriterStep

LEMMA LoadStep ==
  ASSUME IndInv, NEW w \in Writers, Load(w)
  PROVE  IndInv'
<1>0. PICK t, a : t = TenantOf[w] /\ a = writer[w].aggregate
  OBVIOUS
<1>1. writer \in [Writers -> WriterState] /\ writer[w] \in WriterState
      /\ t \in Tenants /\ a \in Aggregates /\ writer[w].command \in Commands
  BY <1>0, LedgerStoreAssumption DEF IndInv, TypeOK, WriterInv, Load
<1>2. PICK n \in Nat : /\ StreamLength(t, a, n)
                       /\ load(t, a).sequence_number = n
                       /\ load(t, a).inner = Replayed(Visible(t, a))
                       /\ Prefix(t, a, n) = Visible(t, a)
                       /\ load(t, a) \in AggregateState
  BY <1>1, LoadType DEF IndInv
<1>3. PICK loaded : loaded = load(t, a)
  OBVIOUS
<1>4. PICK new : new = [writer[w] EXCEPT !.phase = "loaded", !.state = loaded]
  OBVIOUS
<1>5. new \in WriterState /\ new.phase = "loaded" /\ new.aggregate = a
      /\ new.command = writer[w].command /\ new.state = loaded
  BY <1>0, <1>1, <1>2, <1>3, <1>4 DEF WriterState, Phases
<1>6. writer' = [writer EXCEPT ![w] = new]
  BY <1>0, <1>1, <1>3, <1>4 DEF Load, WriterState
<1>7. writer'[w] = new /\ ledger_events' = ledger_events
  BY <1>1, <1>6 DEF Load
<1>8. HoldsPrefix(w, n)'
  <2>1. Visible(t, a)' = Visible(t, a) /\ Prefix(t, a, n)' = Prefix(t, a, n)
    BY <1>7 DEF Visible, Prefix
  <2>2. \A k \in 1..n : \E row \in Visible(t, a)' : row.sequence_number = k
    BY <1>2, <2>1 DEF StreamLength
  <2>3. writer'[w].state.inner = Replayed(Prefix(t, a, n)')
    BY <1>2, <1>3, <1>5, <1>7, <2>1
  <2>4. Replayed(Prefix(t, a, n))' = Replayed(Prefix(t, a, n)')
    BY DEF Replayed, InOrder
  <2> QED BY <1>0, <1>5, <1>7, <2>2, <2>3, <2>4 DEF HoldsPrefix
<1>9. WriterInv(w)'
  BY <1>1, <1>2, <1>3, <1>5, <1>7, <1>8 DEF WriterInv
<1>10. TableStep(w) /\ reader' = reader /\ faults' \in 0..MaxFaults /\ new.phase # "inserted"
  BY <1>5 DEF TableStep, Load, IndInv, TypeOK
<1> QED BY <1>5, <1>6, <1>9, <1>10, WriterStep

\* While the table and the rest of w's record stay, w keeps the prefix it holds.
LEMMA OwnPrefixStays ==
  ASSUME NEW w \in Writers, ledger_events' = ledger_events,
         writer'[w].aggregate = writer[w].aggregate,
         writer'[w].state.inner = writer[w].state.inner,
         NEW n, HoldsPrefix(w, n)
  PROVE  HoldsPrefix(w, n)'
BY DEF HoldsPrefix, Visible, Prefix, Replayed, InOrder

LEMMA HandleCommandStep ==
  ASSUME IndInv, NEW w \in Writers, HandleCommand(w)
  PROVE  IndInv'
<1>1. writer \in [Writers -> WriterState] /\ writer[w] \in WriterState
      /\ writer[w].aggregate \in Aggregates /\ writer[w].command \in Commands
      /\ writer[w].phase = "loaded" /\ WriterInv(w) /\ Commands \subseteq LedgerCommand
  BY LedgerStoreAssumption DEF IndInv, TypeOK, WriterInv, HandleCommand
<1>2. TableStep(w) /\ ledger_events' = ledger_events /\ reader' = reader /\ faults' \in 0..MaxFaults
  BY DEF TableStep, HandleCommand, IndInv, TypeOK
<1>3. CASE writer' = [writer EXCEPT ![w].phase = "rejected"]
  <2>1. PICK new : new = [writer[w] EXCEPT !.phase = "rejected"]
    OBVIOUS
  <2>2. new \in WriterState /\ new.phase = "rejected" /\ new.aggregate = writer[w].aggregate
        /\ new.command = writer[w].command
    BY <1>1, <2>1 DEF WriterState, Phases
  <2>3. writer' = [writer EXCEPT ![w] = new] /\ writer'[w] = new
    BY <1>1, <1>3, <2>1
  <2>4. WriterInv(w)'
    BY <1>1, <2>2, <2>3 DEF WriterInv
  <2> QED BY <1>2, <2>2, <2>3, <2>4, WriterStep
<1>4. ASSUME NEW id \in NewIds(writer[w].command, FreshIds),
             CommandError(writer[w].state.inner, writer[w].command) = None,
             writer' = [writer EXCEPT ![w].phase = "decided",
                          ![w].event = CommandEvent(writer[w].state.inner, writer[w].command, id)]
      PROVE  IndInv'
  <2>0. PICK event : event = CommandEvent(writer[w].state.inner, writer[w].command, id)
    OBVIOUS
  <2>1. event \in LedgerEvent /\ id \in EntryIds \union {None}
    <3>1. FreshIds \in SUBSET EntryIds
      BY DEF FreshIds
    <3>2. writer[w].state.inner \in LedgerState /\ writer[w].command \in LedgerCommand
      BY <1>1 DEF WriterState, AggregateState
    <3> QED BY <1>4, <2>0, <3>1, <3>2, CommandEventType
  <2>2. PICK new : new = [writer[w] EXCEPT !.phase = "decided", !.event = event]
    OBVIOUS
  <2>3. new \in WriterState /\ new.phase = "decided" /\ new.aggregate = writer[w].aggregate
        /\ new.command = writer[w].command /\ new.state = writer[w].state /\ new.event = event
    BY <1>1, <2>1, <2>2 DEF WriterState, Phases
  <2>4. writer' = [writer EXCEPT ![w] = new] /\ writer'[w] = new
    BY <1>1, <1>4, <2>0, <2>2 DEF WriterState
  <2>5. Legal(event, writer[w].state.inner)
    BY <1>1, <1>4, <2>0, <2>1 DEF Legal
  <2>6. HoldsPrefix(w, writer[w].state.sequence_number)'
    BY <1>1, <1>2, <2>3, <2>4, OwnPrefixStays DEF WriterInv
  <2>7. Legal(writer[w].event, writer[w].state.inner)'
    BY <2>3, <2>4, <2>5 DEF Legal
  <2>8. WriterInv(w)'
    BY <1>1, <2>1, <2>3, <2>4, <2>6, <2>7 DEF WriterInv
  <2> QED BY <1>2, <2>3, <2>4, <2>8, WriterStep
<1> QED BY <1>3, <1>4 DEF HandleCommand

LEMMA InsertStep ==
  ASSUME IndInv, NEW w \in Writers, Insert(w)
  PROVE  IndInv'
<1>0. PICK a, k : a = writer[w].aggregate /\ k = writer[w].state.sequence_number + 1
  OBVIOUS
<1>1. writer \in [Writers -> WriterState] /\ writer[w] \in WriterState
      /\ a \in Aggregates /\ writer[w].command \in Commands
      /\ writer[w].phase = "decided" /\ WriterInv(w) /\ k \in Nat /\ k - 1 = writer[w].state.sequence_number
  BY <1>0 DEF IndInv, TypeOK, WriterInv, Insert, WriterState, AggregateState
<1>2. TableStep(w) /\ ledger_events' = ledger_events /\ reader' = reader /\ faults' \in 0..MaxFaults
  BY DEF TableStep, Insert, IndInv, TypeOK
<1>3. PICK phase : phase = IF \E row \in ledger_events : row.aggregate_id = a /\ row.sequence_number = k
                           THEN "conflict" ELSE "inserted"
  OBVIOUS
<1>4. PICK new : new = [writer[w] EXCEPT !.state.sequence_number = k, !.phase = phase]
  OBVIOUS
<1>5. /\ new \in WriterState /\ new.phase = phase /\ new.aggregate = a
      /\ new.command = writer[w].command /\ new.event = writer[w].event
      /\ new.state.inner = writer[w].state.inner /\ new.state.sequence_number = k
  BY <1>0, <1>1, <1>3, <1>4 DEF WriterState, AggregateState, Phases
<1>6. writer' = [writer EXCEPT ![w] = new] /\ writer'[w] = new
  BY <1>0, <1>1, <1>3, <1>4 DEF Insert, WriterState, AggregateState
<1>7. CASE phase = "conflict"
  <2>1. WriterInv(w)'
    BY <1>1, <1>5, <1>6, <1>7 DEF WriterInv
  <2> QED BY <1>2, <1>5, <1>6, <1>7, <2>1, WriterStep
<1>8. CASE phase = "inserted"
  <2>1. \A row \in ledger_events : ~(row.aggregate_id = a /\ row.sequence_number = k)
    BY <1>3, <1>8
  <2>2. RowOf(w)'.aggregate_id = a /\ RowOf(w)'.sequence_number = k
    BY <1>5, <1>6 DEF RowOf
  <2>3. ASSUME NEW v \in Writers, v # w, writer[v].phase = "inserted"
        PROVE  ~SameKey(RowOf(v)', RowOf(w)') /\ ~SameKey(RowOf(w)', RowOf(v)')
    <3>1. writer'[v] = writer[v] /\ RowOf(v)' = RowOf(v)
      BY <1>1, <1>6, <2>3 DEF RowOf
    <3>2. RowOf(v) \in Uncommitted
      BY <2>3 DEF Uncommitted
    <3>3. ~(RowOf(v).aggregate_id = a /\ RowOf(v).sequence_number = k)
      BY <1>0, <3>2 DEF Insert
    <3> QED BY <2>2, <3>1, <3>3 DEF SameKey
  <2>4. HoldsPrefix(w, k - 1)'
    <3>1. HoldsPrefix(w, k - 1)
      BY <1>1 DEF WriterInv
    <3> QED BY <1>0, <1>2, <1>5, <1>6, <3>1, OwnPrefixStays
  <2>5. \A row \in ledger_events' : ~SameKey(RowOf(w)', row)
    BY <1>2, <2>1, <2>2 DEF SameKey
  <2>6. \A v \in Writers : v # w /\ writer'[v].phase = "inserted" => ~SameKey(RowOf(w)', RowOf(v)')
    BY <1>1, <1>6, <2>3
  <2>7. writer'[w].event \in LedgerEvent /\ Legal(writer[w].event, writer[w].state.inner)'
    BY <1>1, <1>5, <1>6 DEF WriterInv, Legal
  <2>8. WriterInv(w)'
    BY <1>1, <1>5, <1>6, <1>8, <2>4, <2>5, <2>6, <2>7 DEF WriterInv
  <2> QED BY <1>2, <1>5, <1>6, <2>3, <2>8, WriterStep
<1> QED BY <1>3, <1>7, <1>8

\* The steps that only end an attempt: the writer keeps or forgets its state and
\* claims nothing about the table.
LEMMA EndStep ==
  ASSUME IndInv, NEW w \in Writers, NEW phase \in {"stored", "failed", "requested", "idle"},
         \/ writer' = [writer EXCEPT ![w].phase = phase]
         \/ writer' = [writer EXCEPT ![w].phase = phase, ![w].event = None, ![w].state = NewState],
         writer[w].phase # "idle", TableStep(w), reader' = reader, faults' \in 0..MaxFaults
  PROVE  IndInv'
<1>1. writer \in [Writers -> WriterState] /\ writer[w] \in WriterState
      /\ writer[w].aggregate \in Aggregates /\ writer[w].command \in Commands
  BY DEF IndInv, TypeOK, WriterInv
<1>2. PICK new \in WriterState :
        /\ new.phase = phase /\ new.aggregate = writer[w].aggregate
        /\ new.command = writer[w].command
        /\ writer' = [writer EXCEPT ![w] = new]
  <2>1. CASE writer' = [writer EXCEPT ![w].phase = phase]
    <3>1. [writer[w] EXCEPT !.phase = phase] \in WriterState
      BY <1>1 DEF WriterState, Phases
    <3> QED BY <1>1, <2>1, <3>1 DEF WriterState
  <2>2. CASE writer' = [writer EXCEPT ![w].phase = phase, ![w].event = None, ![w].state = NewState]
    <3>1. [writer[w] EXCEPT !.phase = phase, !.event = None, !.state = NewState] \in WriterState
      BY <1>1, NewStateType DEF WriterState, Phases
    <3> QED BY <1>1, <2>2, <3>1 DEF WriterState
  <2> QED BY <2>1, <2>2
<1>3. writer'[w] = new
  BY <1>1, <1>2
<1>4. WriterInv(w)'
  BY <1>1, <1>2, <1>3 DEF WriterInv
<1>5. new.phase # "inserted"
  BY <1>2
<1> QED BY <1>2, <1>4, <1>5, WriterStep

\* The readers change nothing the invariant relates.
LEMMA ReaderStep ==
  ASSUME IndInv, reader' \in [Readers -> ReaderState], \A r \in Readers : ReaderInv(r)',
         UNCHANGED <<ledger_events, writer, faults>>
  PROVE  IndInv'
<1>1. TypeOK' /\ UniqueKeys'
  BY DEF IndInv, TypeOK, UniqueKeys
<1>2. \A t, a : Visible(t, a)' = Visible(t, a)
  BY DEF Visible
<1>3. DenseStreams'
  <2> SUFFICES ASSUME NEW t \in Tenants, NEW a \in Aggregates
               PROVE  \E n \in Nat : StreamLength(t, a, n)'
    BY DEF DenseStreams
  <2>1. PICK n \in Nat : StreamLength(t, a, n)
    BY DEF IndInv, DenseStreams
  <2>2. StreamLength(t, a, n)'
    BY <1>2, <2>1 DEF StreamLength
  <2> QED BY <2>2
<1>4. EveryEventWasLegal'
  BY DEF IndInv, EveryEventWasLegal, Before, Visible, Legal
<1>5. ASSUME NEW w \in Writers PROVE WriterInv(w)'
  <2>1. \A n : HoldsPrefix(w, n)' <=> HoldsPrefix(w, n)
    BY DEF HoldsPrefix, Visible, Prefix, Replayed, InOrder
  <2>2. \A v : RowOf(v)' = RowOf(v)
    BY DEF RowOf
  <2>3. Legal(writer[w].event, writer[w].state.inner)'
          <=> Legal(writer[w].event, writer[w].state.inner)
    BY DEF Legal
  <2>4. WriterInv(w)
    BY DEF IndInv
  <2> QED BY <2>1, <2>2, <2>3, <2>4 DEF WriterInv
<1> QED BY <1>1, <1>3, <1>4, <1>5 DEF IndInv

LEMMA BalanceLoadStep ==
  ASSUME IndInv, NEW r \in Readers, BalanceLoad(r)
  PROVE  IndInv'
<1>1. PICK a \in AggregatesOf[TenantOf[r]] :
        reader' = [reader EXCEPT ![r].phase = "loaded", ![r].aggregate = a,
                                 ![r].state = load(TenantOf[r], a)]
  BY DEF BalanceLoad
<1>2. reader \in [Readers -> ReaderState] /\ TenantOf[r] \in Tenants /\ a \in Aggregates
  BY LedgerStoreAssumption DEF IndInv, TypeOK
<1>3. load(TenantOf[r], a) \in AggregateState
  BY <1>2, LoadType DEF IndInv
<1>4. reader' \in [Readers -> ReaderState]
  BY <1>1, <1>2, <1>3 DEF ReaderState
<1>5. \A q \in Readers : ReaderInv(q)'
  BY <1>1, <1>2 DEF IndInv, ReaderInv, ReaderState
<1> QED BY <1>4, <1>5, ReaderStep DEF BalanceLoad

LEMMA BalanceRespondStep ==
  ASSUME IndInv, NEW r \in Readers, BalanceRespond(r)
  PROVE  IndInv'
<1>1. PICK count : count = Len(InOrder(Visible(TenantOf[r], reader[r].aggregate)))
  OBVIOUS
<1>2. reader' = [reader EXCEPT ![r].phase = "answered", ![r].event_count = count]
  BY <1>1 DEF BalanceRespond
<1>3. reader \in [Readers -> ReaderState] /\ TenantOf[r] \in Tenants
      /\ reader[r].aggregate \in Aggregates
  BY LedgerStoreAssumption DEF IndInv, TypeOK, ReaderInv, BalanceRespond
<1>4. count \in Nat
  BY <1>1, <1>3, LoadType DEF IndInv
<1>5. reader' \in [Readers -> ReaderState]
  BY <1>2, <1>3, <1>4 DEF ReaderState
<1>6. \A q \in Readers : ReaderInv(q)'
  BY <1>2, <1>3 DEF IndInv, ReaderInv, ReaderState
<1> QED BY <1>5, <1>6, ReaderStep DEF BalanceRespond

LEMMA StepInv == IndInv /\ [Next]_vars => IndInv'
<1> SUFFICES ASSUME IndInv, [Next]_vars PROVE IndInv'
  OBVIOUS
<1>0. faults \in 0..MaxFaults /\ MaxFaults \in Nat
  BY LedgerStoreAssumption DEF IndInv, TypeOK
<1>1. ASSUME NEW w \in Writers, Request(w) PROVE IndInv'
  BY <1>1, RequestStep
<1>2. ASSUME NEW w \in Writers, Load(w) PROVE IndInv'
  BY <1>2, LoadStep
<1>3. ASSUME NEW w \in Writers, HandleCommand(w) PROVE IndInv'
  BY <1>3, HandleCommandStep
<1>4. ASSUME NEW w \in Writers, Insert(w) PROVE IndInv'
  BY <1>4, InsertStep
<1>5. ASSUME NEW w \in Writers, Commit(w) PROVE IndInv'
  BY <1>0, <1>5, EndStep DEF Commit, TableStep
<1>6. ASSUME NEW w \in Writers, CommitLost(w) PROVE IndInv'
  <2>1. TableStep(w) /\ faults' \in 0..MaxFaults
    BY <1>0, <1>6 DEF CommitLost, TableStep
  <2> QED BY <1>6, <2>1, EndStep DEF CommitLost
<1>7. ASSUME NEW w \in Writers, BackendError(w) PROVE IndInv'
  <2>1. TableStep(w) /\ faults' \in 0..MaxFaults
    BY <1>0, <1>7 DEF BackendError, TableStep
  <2> QED BY <1>7, <2>1, EndStep DEF BackendError
<1>8. ASSUME NEW w \in Writers, Retry(w) PROVE IndInv'
  BY <1>0, <1>8, EndStep DEF Retry, TableStep
<1>9. ASSUME NEW w \in Writers, GiveUp(w) PROVE IndInv'
  BY <1>0, <1>9, EndStep DEF GiveUp, TableStep
<1>10. ASSUME NEW r \in Readers, BalanceLoad(r) PROVE IndInv'
  BY <1>10, BalanceLoadStep
<1>11. ASSUME NEW r \in Readers, BalanceRespond(r) PROVE IndInv'
  BY <1>11, BalanceRespondStep
<1>12. CASE UNCHANGED vars
  <2>1. reader' \in [Readers -> ReaderState] /\ \A r \in Readers : ReaderInv(r)'
    BY <1>12 DEF vars, IndInv, TypeOK, ReaderInv
  <2> QED BY <1>12, <2>1, ReaderStep DEF vars
<1> QED BY <1>1, <1>2, <1>3, <1>4, <1>5, <1>6, <1>7, <1>8, <1>9, <1>10, <1>11, <1>12
        DEF Next, Progress

-----------------------------------------------------------------------------
(* The theorems. *)

THEOREM Invariance == Spec => []IndInv
BY InitInv, StepInv, PTL DEF Spec

\* Type correctness: what load, handle_command and persist compute from the
\* table stays within LedgerState, LedgerEvent and the sequence numbers.
THEOREM TypeCorrect == Spec => []TypeOK
<1>1. IndInv => TypeOK
  BY DEF IndInv
<1> QED BY <1>1, Invariance, PTL

\* No lost update, for any number of writers, streams and faults: persist never
\* stores an event decided against a state other than the replay of exactly the
\* events before it.
THEOREM NoLostUpdate == Spec => []EveryEventWasLegal
<1>1. IndInv => EveryEventWasLegal
  BY DEF IndInv
<1> QED BY <1>1, Invariance, PTL

\* The key of the unique index has no tenant, so a stream has one.
LEMMA OneTenantPerStream ==
  ASSUME IndInv, NEW p \in ledger_events, NEW q \in ledger_events,
         p.aggregate_id = q.aggregate_id
  PROVE  p.tenant_id = q.tenant_id
<1>1. p \in Row /\ q \in Row
  BY DEF IndInv, TypeOK
<1>2. ASSUME NEW row \in ledger_events, row \in Row
      PROVE  \E first \in Visible(row.tenant_id, row.aggregate_id) : first.sequence_number = 1
  <2>1. row.tenant_id \in Tenants /\ row.aggregate_id \in Aggregates
        /\ row.sequence_number \in Nat \ {0} /\ row \in Visible(row.tenant_id, row.aggregate_id)
    BY <1>2 DEF Row, Visible
  <2>2. PICK n \in Nat : StreamLength(row.tenant_id, row.aggregate_id, n)
    BY <2>1 DEF IndInv, DenseStreams
  <2>3. row.sequence_number <= n
    BY <2>1, <2>2 DEF StreamLength
  <2>4. 1 <= n
    BY <2>1, <2>3
  <2> QED BY <2>2, <2>4 DEF StreamLength
<1>3. PICK x \in Visible(p.tenant_id, p.aggregate_id) : x.sequence_number = 1
  BY <1>1, <1>2
<1>4. PICK y \in Visible(q.tenant_id, q.aggregate_id) : y.sequence_number = 1
  BY <1>1, <1>2
<1>5. x = y
  BY <1>3, <1>4 DEF Visible, IndInv, UniqueKeys
<1> QED BY <1>3, <1>4, <1>5 DEF Visible

\* Gap-free streams, each of one tenant, for every number of tenants sharing the
\* index and of writers whose sequence numbers are stale.
THEOREM GapFreeStreams == Spec => []StreamsAreDense
<1>1. IndInv => StreamsAreDense
  <2> SUFFICES ASSUME IndInv, NEW a \in Aggregates
               PROVE  LET rows == {row \in ledger_events : row.aggregate_id = a}
                      IN  /\ {row.sequence_number : row \in rows} = 1..Cardinality(rows)
                          /\ \A p, q \in rows : p.tenant_id = q.tenant_id
    BY DEF StreamsAreDense
  <2> DEFINE rows == {row \in ledger_events : row.aggregate_id = a}
  <2>1. \A p, q \in rows : p.tenant_id = q.tenant_id
    BY OneTenantPerStream
  <2>2. {row.sequence_number : row \in rows} = 1..Cardinality(rows)
    <3>1. CASE rows = {}
      <4>1. Cardinality(rows) = 0
        BY <3>1, FS_EmptySet
      <4>2. {row.sequence_number : row \in rows} = {} /\ 1..0 = {}
        BY <3>1
      <4> QED BY <4>1, <4>2
    <3>2. ASSUME NEW p \in rows PROVE {row.sequence_number : row \in rows} = 1..Cardinality(rows)
      <4>1. p.tenant_id \in Tenants
        BY DEF IndInv, TypeOK, Row
      <4>2. rows = Visible(p.tenant_id, a)
        BY <2>1 DEF Visible
      <4>3. PICK n \in Nat : StreamLength(p.tenant_id, a, n)
        BY <4>1 DEF IndInv, DenseStreams
      <4>4. Dense(rows, n)
        BY <4>1, <4>2, <4>3, VisibleDense DEF IndInv
      <4> HIDE DEF rows
      <4>5. Cardinality(rows) = n
        BY <4>4, InOrderDense
      <4> QED BY <4>4, <4>5 DEF Dense
    <3> QED BY <3>1, <3>2
  <2> QED BY <2>1, <2>2
<1> QED BY <1>1, Invariance, PTL

\* A row that follows the reversal of an entry reverses another one: its command
\* was checked against a state that replay had made remember the reversal.
LEMMA LaterReversalDiffers ==
  ASSUME IndInv, NEW p \in ledger_events, NEW q \in ledger_events,
         p.aggregate_id = q.aggregate_id, p.sequence_number < q.sequence_number,
         p.payload.kind = "EntryReversed", q.payload.kind = "EntryReversed"
  PROVE  p.payload.original_id # q.payload.original_id
<1>0. PICK t, a, k : t = q.tenant_id /\ a = q.aggregate_id /\ k = q.sequence_number
  OBVIOUS
<1>1. p \in Row /\ q \in Row /\ t \in Tenants /\ a \in Aggregates /\ k \in Nat \ {0}
  BY <1>0 DEF IndInv, TypeOK, Row
<1>2. p.sequence_number \in 1..(k - 1) /\ p.tenant_id = t
  BY <1>0, <1>1, OneTenantPerStream DEF Row
<1>3. PICK n \in Nat : StreamLength(t, a, n)
  BY <1>1 DEF IndInv, DenseStreams
<1>4. k - 1 \in 0..n
  <2>1. q \in Visible(t, a)
    BY <1>0 DEF Visible
  <2>2. k <= n
    BY <1>0, <1>1, <1>3, <2>1 DEF StreamLength
  <2> QED BY <1>1, <2>2
<1>5. Before(q) = Prefix(t, a, k - 1)
  <2>1. \A row \in Visible(t, a) : row.sequence_number \in Nat
    BY DEF IndInv, TypeOK, Visible, Row
  <2> QED BY <1>0, <1>1, <2>1 DEF Before, Prefix
<1>6. Before(q) \subseteq Row /\ Dense(Before(q), k - 1)
  BY <1>1, <1>3, <1>4, <1>5, VisibleDense DEF IndInv
<1>7. p \in Before(q)
  BY <1>0, <1>2 DEF Before, Visible
<1>8. PICK events : events = InOrder(Before(q))
  OBVIOUS
<1>9. events \in Seq(LedgerEvent) /\ Len(events) = k - 1
  BY <1>6, <1>8, InOrderType
<1>10. events[p.sequence_number] = p.payload
  BY <1>6, <1>7, <1>8, InOrderDense
<1>11. p.payload.original_id \in replay(events).reversed
  BY <1>2, <1>9, <1>10, ReplayRemembersReversals
<1>12. Legal(q.payload, replay(events))
  BY <1>8 DEF IndInv, EveryEventWasLegal, Replayed
<1>13. PICK command \in Commands, id \in EntryIds \union {None} :
         /\ CommandError(replay(events), command) = None
         /\ q.payload = CommandEvent(replay(events), command, id)
  BY <1>12 DEF Legal
<1>14. command \in LedgerCommand
  BY LedgerStoreAssumption
<1>15. command.kind = "ReverseEntry"
  BY <1>13, <1>14 DEF LedgerCommand, CommandEvent
<1>16. q.payload.original_id = command.original_id
  BY <1>13, <1>15 DEF CommandEvent
<1>17. CommandError(replay(events), command) =
         IF replay(events).entries[command.original_id] = None THEN "UnknownEntry"
         ELSE IF is_reversed(replay(events), command.original_id) THEN "AlreadyReversed"
         ELSE None
  BY <1>15 DEF CommandError
<1>18. ~is_reversed(replay(events), command.original_id)
  BY <1>13, <1>17, NoneAssumption DEF LedgerError
<1> QED BY <1>11, <1>16, <1>18 DEF is_reversed

\* At-least-once delivery of a reversal is safe for every interleaving: raced,
\* retried after a conflict or redelivered after a lost commit, it lands once.
THEOREM ReversalsLandOnce == Spec => []ReversedAtMostOnce
<1>1. IndInv => ReversedAtMostOnce
  <2> SUFFICES ASSUME IndInv, NEW p \in ledger_events, NEW q \in ledger_events,
                      p.aggregate_id = q.aggregate_id,
                      p.payload.kind = "EntryReversed", q.payload.kind = "EntryReversed",
                      p.payload.original_id = q.payload.original_id
               PROVE  p = q
    BY DEF ReversedAtMostOnce
  <2>1. p.sequence_number \in Nat /\ q.sequence_number \in Nat
    BY DEF IndInv, TypeOK, Row
  <2>2. ~(p.sequence_number < q.sequence_number) /\ ~(q.sequence_number < p.sequence_number)
    BY LaterReversalDiffers
  <2>3. p.sequence_number = q.sequence_number
    BY <2>1, <2>2
  <2> QED BY <2>3 DEF IndInv, UniqueKeys
<1> QED BY <1>1, Invariance, PTL


-----------------------------------------------------------------------------
(* Ids, and the claims of the writers that do not step. *)

\* EntryId::new() is the only source of the ids an event introduces.
LEMMA EventDrawsFreshId ==
  ASSUME NEW state, NEW command \in LedgerCommand, NEW ids, NEW id \in NewIds(command, ids)
  PROVE  IdsIn(CommandEvent(state, command, id)) \subseteq ids
<1>1. CASE command.kind = "PostJournalEntry"
  <2>1. CommandEvent(state, command, id) =
          [kind |-> "JournalEntryPosted", id |-> id, lines |-> command.lines]
    BY <1>1 DEF CommandEvent
  <2> QED BY <1>1, <2>1 DEF IdsIn, NewIds
<1>2. CASE command.kind = "ReverseEntry"
  <2>1. CommandEvent(state, command, id) =
          [kind |-> "EntryReversed", original_id |-> command.original_id, reversal_id |-> id]
    BY <1>2 DEF CommandEvent
  <2> QED BY <1>2, <2>1 DEF IdsIn, NewIds
<1>3. CASE command.kind = "ChangeCapitalizationStatus"
  <2>1. CommandEvent(state, command, id) =
          [kind |-> "CapitalizationStatusChanged", run_id |-> command.run_id,
           from |-> StatusOf(state, command.run_id), to |-> command.to]
    BY <1>3 DEF CommandEvent
  <2> QED BY <2>1 DEF IdsIn
<1> QED BY <1>1, <1>2, <1>3 DEF LedgerCommand

LEMMA FreshIdsAreUnused ==
  /\ \A row \in ledger_events : FreshIds \intersect IdsIn(row.payload) = {}
  /\ \A w \in Writers : FreshIds \intersect IdsIn(writer[w].event) = {}
<1> DEFINE Stored == UNION {IdsIn(row.payload) : row \in ledger_events}
           Drawn  == UNION {IdsIn(writer[w].event) : w \in Writers}
<1>1. \A row \in ledger_events : IdsIn(row.payload) \subseteq Stored
  BY Zenon
<1>2. \A w \in Writers : IdsIn(writer[w].event) \subseteq Drawn
  BY Zenon
<1>3. FreshIds = EntryIds \ (Stored \union Drawn)
  BY Zenon DEF FreshIds
<1> HIDE DEF Stored, Drawn
<1> QED BY <1>1, <1>2, <1>3

\* A step of writer w keeps the invariant if its new record says nothing of the
\* log that is not so; the others' claims survive because no id is drawn twice.
LEMMA AnswersKept ==
  ASSUME IndInv, AnswerInv, NEW w \in Writers, NEW new, writer' = [writer EXCEPT ![w] = new],
         TableStep(w),
         \/ IdsIn(new.event) \subseteq FreshIds
         \/ IdsIn(new.event) \subseteq IdsIn(writer[w].event),
         new.phase = "stored" => RowOf(w)' \in ledger_events',
         new.phase \in {"decided", "inserted", "conflict"} =>
            \A row \in ledger_events' : IdsIn(new.event) \intersect IdsIn(row.payload) = {}
  PROVE  AnswerInv'
<1>1. writer \in [Writers -> WriterState]
  BY DEF IndInv, TypeOK
<1>2. writer'[w] = new /\ \A v \in Writers : v # w => writer'[v] = writer[v]
  BY <1>1
<1>3. ledger_events \subseteq ledger_events'
  BY DEF TableStep
<1>4. \A row \in ledger_events' :
        row \in ledger_events \/ (row = RowOf(w) /\ writer[w].phase = "inserted")
  BY DEF TableStep
<1>5. RowOf(w).payload = writer[w].event
  BY DEF RowOf
<1>6. ASSUME NEW v \in Writers, v # w
      PROVE  IdsIn(writer[v].event) \intersect IdsIn(new.event) = {}
  <2>1. IdsIn(writer[v].event) \intersect IdsIn(writer[w].event) = {}
    BY <1>6 DEF AnswerInv
  <2>2. IdsIn(writer[v].event) \intersect FreshIds = {}
    BY FreshIdsAreUnused
  <2> QED BY <2>1, <2>2
<1>7. ASSUME NEW v \in Writers, v # w
      PROVE  /\ writer[v].phase = "stored" => RowOf(v)' \in ledger_events'
             /\ writer[v].phase \in {"decided", "inserted", "conflict"} =>
                  \A row \in ledger_events' : IdsIn(writer[v].event) \intersect IdsIn(row.payload) = {}
  <2>1. RowOf(v)' = RowOf(v)
    BY <1>2, <1>7 DEF RowOf
  <2>2. writer[v].phase = "stored" => RowOf(v) \in ledger_events
    BY DEF AnswerInv, AnswersMatchTheLog
  <2>3. ASSUME writer[v].phase \in {"decided", "inserted", "conflict"}, NEW row \in ledger_events'
        PROVE  IdsIn(writer[v].event) \intersect IdsIn(row.payload) = {}
    <3>1. CASE row \in ledger_events
      BY <2>3, <3>1 DEF AnswerInv, AnswersMatchTheLog
    <3>2. CASE row = RowOf(w)
      BY <1>5, <1>7, <3>2 DEF AnswerInv
    <3> QED BY <1>4, <3>1, <3>2
  <2> QED BY <1>3, <2>1, <2>2, <2>3
<1>8. AnswersMatchTheLog'
  <2> SUFFICES ASSUME NEW v \in Writers
               PROVE  /\ writer'[v].phase = "stored" => RowOf(v)' \in ledger_events'
                      /\ writer'[v].phase \in {"decided", "inserted", "conflict"} =>
                           \A row \in ledger_events' :
                              IdsIn(writer'[v].event) \intersect IdsIn(row.payload) = {}
    BY DEF AnswersMatchTheLog
  <2>1. CASE v = w
    BY <1>2, <2>1
  <2>2. CASE v # w
    BY <1>2, <1>7, <2>2
  <2> QED BY <2>1, <2>2
<1>9. \A u, v \in Writers : u # v =>
        IdsIn(writer'[u].event) \intersect IdsIn(writer'[v].event) = {}
  BY <1>2, <1>6 DEF AnswerInv
<1> QED BY <1>8, <1>9 DEF AnswerInv

-----------------------------------------------------------------------------
(* The steps. *)

LEMMA InitAnswers == Init => AnswerInv
BY DEF Init, AnswerInv, AnswersMatchTheLog, IdsIn

\* What every step of a writer may use of the writer's record.
LEMMA OwnRecord ==
  ASSUME IndInv, NEW w \in Writers
  PROVE  writer \in [Writers -> WriterState] /\ writer[w] \in WriterState
BY DEF IndInv, TypeOK

LEMMA RequestAnswers ==
  ASSUME IndInv, AnswerInv, NEW w \in Writers, Request(w)
  PROVE  AnswerInv'
<1>1. PICK a \in AggregatesOf[TenantOf[w]], c \in Commands :
        writer' = [writer EXCEPT ![w].phase = "requested", ![w].aggregate = a,
                                 ![w].command = c, ![w].event = None,
                                 ![w].state = NewState, ![w].requests = @ + 1]
  BY DEF Request
<1>2. PICK new : new = [phase |-> "requested", aggregate |-> a, command |-> c, state |-> NewState,
                        event |-> None, requests |-> writer[w].requests + 1]
  OBVIOUS
<1>3. writer' = [writer EXCEPT ![w] = new]
  BY <1>1, <1>2, OwnRecord DEF WriterState
<1>4. IdsIn(new.event) \subseteq FreshIds
  BY <1>2 DEF IdsIn
<1>5. TableStep(w)
  BY DEF Request, TableStep
<1> QED BY <1>2, <1>3, <1>4, <1>5, AnswersKept

LEMMA LoadAnswers ==
  ASSUME IndInv, AnswerInv, NEW w \in Writers, Load(w)
  PROVE  AnswerInv'
<1>1. PICK loaded : loaded = load(TenantOf[w], writer[w].aggregate)
  OBVIOUS
<1>2. PICK new : new = [writer[w] EXCEPT !.phase = "loaded", !.state = loaded]
  OBVIOUS
<1>3. writer' = [writer EXCEPT ![w] = new]
  BY <1>1, <1>2, OwnRecord DEF Load, WriterState
<1>4. new.phase = "loaded" /\ new.event = writer[w].event
  BY <1>2, OwnRecord DEF WriterState
<1>5. TableStep(w)
  BY DEF Load, TableStep
<1> QED BY <1>3, <1>4, <1>5, AnswersKept

LEMMA HandleCommandAnswers ==
  ASSUME IndInv, AnswerInv, NEW w \in Writers, HandleCommand(w)
  PROVE  AnswerInv'
<1>1. /\ TableStep(w) /\ ledger_events' = ledger_events /\ writer[w].phase = "loaded"
      /\ writer[w].command \in LedgerCommand
  BY LedgerStoreAssumption DEF HandleCommand, TableStep, IndInv, WriterInv
<1>2. CASE writer' = [writer EXCEPT ![w].phase = "rejected"]
  <2>1. PICK new : new = [writer[w] EXCEPT !.phase = "rejected"]
    OBVIOUS
  <2>2. writer' = [writer EXCEPT ![w] = new]
    BY <1>2, <2>1, OwnRecord DEF WriterState
  <2>3. new.phase = "rejected" /\ new.event = writer[w].event
    BY <2>1, OwnRecord DEF WriterState
  <2> QED BY <1>1, <2>2, <2>3, AnswersKept
<1>3. ASSUME NEW id \in NewIds(writer[w].command, FreshIds),
             writer' = [writer EXCEPT ![w].phase = "decided",
                          ![w].event = CommandEvent(writer[w].state.inner, writer[w].command, id)]
      PROVE  AnswerInv'
  <2>1. PICK event : event = CommandEvent(writer[w].state.inner, writer[w].command, id)
    OBVIOUS
  <2>2. PICK new : new = [writer[w] EXCEPT !.phase = "decided", !.event = event]
    OBVIOUS
  <2>3. writer' = [writer EXCEPT ![w] = new]
    BY <1>3, <2>1, <2>2, OwnRecord DEF WriterState
  <2>4. new.phase = "decided" /\ new.event = event
    BY <2>2, OwnRecord DEF WriterState
  <2>5. IdsIn(event) \subseteq FreshIds
    BY <1>1, <2>1, EventDrawsFreshId
  <2>6. \A row \in ledger_events' : IdsIn(event) \intersect IdsIn(row.payload) = {}
    BY <1>1, <2>5, FreshIdsAreUnused
  <2> QED BY <1>1, <2>3, <2>4, <2>5, <2>6, AnswersKept
<1> QED BY <1>2, <1>3 DEF HandleCommand

LEMMA InsertAnswers ==
  ASSUME IndInv, AnswerInv, NEW w \in Writers, Insert(w)
  PROVE  AnswerInv'
<1>0. PICK a, k : a = writer[w].aggregate /\ k = writer[w].state.sequence_number + 1
  OBVIOUS
<1>1. TableStep(w) /\ ledger_events' = ledger_events /\ writer[w].phase = "decided"
  BY DEF Insert, TableStep
<1>2. PICK phase : phase = IF \E row \in ledger_events : row.aggregate_id = a /\ row.sequence_number = k
                           THEN "conflict" ELSE "inserted"
  OBVIOUS
<1>3. PICK new : new = [writer[w] EXCEPT !.state.sequence_number = k, !.phase = phase]
  OBVIOUS
<1>4. writer' = [writer EXCEPT ![w] = new]
  BY <1>0, <1>2, <1>3, OwnRecord DEF Insert, WriterState, AggregateState
<1>5. new.phase = phase /\ new.event = writer[w].event
  BY <1>0, <1>3, OwnRecord DEF WriterState, AggregateState
<1>6. \A row \in ledger_events : IdsIn(writer[w].event) \intersect IdsIn(row.payload) = {}
  BY <1>1 DEF AnswerInv, AnswersMatchTheLog
<1>7. phase \in {"conflict", "inserted"}
  BY <1>2
<1> QED BY <1>1, <1>4, <1>5, <1>6, <1>7, AnswersKept

\* Commit, a lost commit, a backend error, a retry and giving up all end an
\* attempt: "stored" is answered only for a row that is there.
LEMMA EndAnswers ==
  ASSUME IndInv, AnswerInv, NEW w \in Writers, NEW phase \in {"stored", "failed", "requested", "idle"},
         \/ writer' = [writer EXCEPT ![w].phase = phase]
         \/ writer' = [writer EXCEPT ![w].phase = phase, ![w].event = None, ![w].state = NewState],
         TableStep(w),
         phase = "stored" => /\ writer' = [writer EXCEPT ![w].phase = phase]
                             /\ ledger_events' = ledger_events \union {RowOf(w)}
  PROVE  AnswerInv'
<1>1. CASE writer' = [writer EXCEPT ![w].phase = phase]
  <2>1. PICK new : new = [writer[w] EXCEPT !.phase = phase]
    OBVIOUS
  <2>2. writer' = [writer EXCEPT ![w] = new]
    BY <1>1, <2>1, OwnRecord DEF WriterState
  <2>3. /\ new.phase = phase /\ new.event = writer[w].event
        /\ new.aggregate = writer[w].aggregate /\ new.state = writer[w].state
    BY <2>1, OwnRecord DEF WriterState
  <2>4. writer'[w] = new
    BY <2>2, OwnRecord
  <2>5. RowOf(w)' = RowOf(w)
    BY <2>3, <2>4 DEF RowOf
  <2> QED BY <2>2, <2>3, <2>5, AnswersKept
<1>2. CASE writer' = [writer EXCEPT ![w].phase = phase, ![w].event = None, ![w].state = NewState]
           /\ phase # "stored"
  <2>1. PICK new : new = [writer[w] EXCEPT !.phase = phase, !.event = None, !.state = NewState]
    OBVIOUS
  <2>2. writer' = [writer EXCEPT ![w] = new]
    BY <1>2, <2>1, OwnRecord DEF WriterState
  <2>3. new.phase = phase /\ new.event = None
    BY <2>1, OwnRecord DEF WriterState
  <2>4. IdsIn(new.event) \subseteq FreshIds
    BY <2>3 DEF IdsIn
  <2> QED BY <1>2, <2>2, <2>3, <2>4, AnswersKept
<1> QED BY <1>1, <1>2

LEMMA NoAnswerGiven ==
  ASSUME AnswerInv, UNCHANGED <<ledger_events, writer>>
  PROVE  AnswerInv'
BY DEF AnswerInv, AnswersMatchTheLog, RowOf

LEMMA StepAnswers == IndInv /\ AnswerInv /\ [Next]_vars => AnswerInv'
<1> SUFFICES ASSUME IndInv, AnswerInv, [Next]_vars PROVE AnswerInv'
  OBVIOUS
<1>1. ASSUME NEW w \in Writers, Request(w) PROVE AnswerInv'
  BY <1>1, RequestAnswers
<1>2. ASSUME NEW w \in Writers, Load(w) PROVE AnswerInv'
  BY <1>2, LoadAnswers
<1>3. ASSUME NEW w \in Writers, HandleCommand(w) PROVE AnswerInv'
  BY <1>3, HandleCommandAnswers
<1>4. ASSUME NEW w \in Writers, Insert(w) PROVE AnswerInv'
  BY <1>4, InsertAnswers
<1>5. ASSUME NEW w \in Writers, Commit(w) PROVE AnswerInv'
  BY <1>5, EndAnswers DEF Commit, TableStep
<1>6. ASSUME NEW w \in Writers, CommitLost(w) PROVE AnswerInv'
  <2>1. TableStep(w)
    BY <1>6 DEF CommitLost, TableStep
  <2> QED BY <1>6, <2>1, EndAnswers DEF CommitLost
<1>7. ASSUME NEW w \in Writers, BackendError(w) PROVE AnswerInv'
  BY <1>7, EndAnswers DEF BackendError, TableStep
<1>8. ASSUME NEW w \in Writers, Retry(w) PROVE AnswerInv'
  BY <1>8, EndAnswers DEF Retry, TableStep
<1>9. ASSUME NEW w \in Writers, GiveUp(w) PROVE AnswerInv'
  BY <1>9, EndAnswers DEF GiveUp, TableStep
<1>10. ASSUME NEW r \in Readers, BalanceLoad(r) \/ BalanceRespond(r) PROVE AnswerInv'
  BY <1>10, NoAnswerGiven DEF BalanceLoad, BalanceRespond
<1>11. CASE UNCHANGED vars
  BY <1>11, NoAnswerGiven DEF vars
<1> QED BY <1>1, <1>2, <1>3, <1>4, <1>5, <1>6, <1>7, <1>8, <1>9, <1>10, <1>11
        DEF Next, Progress

-----------------------------------------------------------------------------
(* The theorems. *)

LEMMA AnswerInvariance == Spec => []AnswerInv
BY InitAnswers, StepAnswers, Invariance, PTL DEF Spec

\* Ok is answered for a row that is there, and an attempt that is still open,
\* or was refused by the unique index, has left nothing behind, for any number
\* of writers racing for a key and whatever commits are lost (persist).
THEOREM AnswersAgree == Spec => []AnswersMatchTheLog
<1>1. AnswerInv => AnswersMatchTheLog
  BY DEF AnswerInv
<1> QED BY <1>1, AnswerInvariance, PTL

-----------------------------------------------------------------------------
(* The instance and this module define the aggregate by the same operators. *)

LEMMA SamePost ==
  ASSUME NEW balances, NEW lines
  PROVE  /\ Atomic!PostLines(balances, lines) = PostLines(balances, lines)
         /\ Atomic!mirror(lines) = mirror(lines)
<1>1. Atomic!PostLines(balances, lines) = PostLines(balances, lines)
  BY Zenon DEF Atomic!signed_amount, signed_amount, Atomic!PostLine, PostLine,
               Atomic!PostLines, PostLines
<1>2. Atomic!mirror(lines) = mirror(lines)
  BY Zenon DEF Atomic!mirror, mirror
<1> QED BY <1>1, <1>2

LEMMA SameApplyEvent ==
  ASSUME NEW state, NEW event
  PROVE  Atomic!apply_event(state, event) = apply_event(state, event)
<1>1. \A id, lines : Atomic!post(state, id, lines) = post(state, id, lines)
  BY SamePost, Zenon DEF Atomic!post, post
<1> QED BY <1>1, SamePost DEF Atomic!apply_event, apply_event

LEMMA SameReplay ==
  ASSUME NEW events
  PROVE  Atomic!replay(events) = replay(events)
<1>1. Atomic!DefaultState = DefaultState
  BY Zenon DEF Atomic!DefaultState, DefaultState
<1>2. ASSUME NEW after
      PROVE  [n \in 0..Len(events) |-> IF n = 0 THEN DefaultState
                                       ELSE apply_event(after[n - 1], events[n])]
               = [n \in 0..Len(events) |-> IF n = 0 THEN Atomic!DefaultState
                                           ELSE Atomic!apply_event(after[n - 1], events[n])]
  BY <1>1, SameApplyEvent
<1>3. (CHOOSE after : after = [n \in 0..Len(events) |->
                                 IF n = 0 THEN DefaultState
                                 ELSE apply_event(after[n - 1], events[n])])
        = (CHOOSE after : after = [n \in 0..Len(events) |->
                                     IF n = 0 THEN Atomic!DefaultState
                                     ELSE Atomic!apply_event(after[n - 1], events[n])])
  BY <1>2, Zenon
<1> QED BY <1>3, Zenon DEF Atomic!replay, replay

LEMMA SameDecision ==
  ASSUME NEW state, NEW command \in LedgerCommand, NEW id
  PROVE  /\ Atomic!CommandError(state, command) = CommandError(state, command)
         /\ Atomic!CommandEvent(state, command, id) = CommandEvent(state, command, id)
<1>1. \A run : Atomic!StatusOf(state, run) = StatusOf(state, run)
  BY Zenon DEF Atomic!StatusOf, StatusOf
<1>2. Atomic!CommandEvent(state, command, id) = CommandEvent(state, command, id)
  BY Zenon DEF Atomic!CommandEvent, CommandEvent, Atomic!StatusOf, StatusOf
<1>3. ASSUME NEW lines PROVE Atomic!PostError(lines) = PostError(lines)
  <2>1. \A line : Atomic!OneSided(line) = OneSided(line) /\ Atomic!validate(line) = validate(line)
    BY Zenon DEF Atomic!OneSided, OneSided, Atomic!validate, validate
  <2>2. \A line, currency : Atomic!LineError(line, currency) = LineError(line, currency)
    BY Zenon DEF Atomic!LineError, LineError, Atomic!OneSided, OneSided, Atomic!validate, validate
  <2>3. \A isDebit : Atomic!SideTotal(lines, isDebit) = SideTotal(lines, isDebit)
    BY Zenon DEF Atomic!SideTotal, SideTotal, Atomic!validate, validate, FoldLeft, Atomic!FoldLeft,
                 MapThenFoldSet, Atomic!MapThenFoldSet, Max, Atomic!Max
  <2>4. \A S : Atomic!Min(S) = Min(S)
    BY Zenon DEF Atomic!Min, Min
  <2> QED BY <2>1, <2>2, <2>3, <2>4 DEF Atomic!PostError, PostError
<1>4. \A entry : Atomic!is_reversed(state, entry) = is_reversed(state, entry)
  BY Zenon DEF Atomic!is_reversed, is_reversed
<1>5. Atomic!CommandError(state, command) = CommandError(state, command)
  <2>1. CASE command.kind = "PostJournalEntry"
    BY <1>3, <2>1 DEF Atomic!CommandError, CommandError
  <2>2. CASE command.kind = "ReverseEntry"
    BY <1>4, <2>2 DEF Atomic!CommandError, CommandError
  <2>3. CASE command.kind = "ChangeCapitalizationStatus"
    BY <1>1, <2>3 DEF Atomic!CommandError, CommandError
  <2> QED BY <2>1, <2>2, <2>3 DEF LedgerCommand
<1> QED BY <1>2, <1>5

-----------------------------------------------------------------------------
(* The ids a replayed state knows were drawn by the events of its stream. *)

LEMMA ApplyEventEntries ==
  ASSUME NEW state \in LedgerState, NEW event \in LedgerEvent, NEW x \in EntryIds,
         apply_event(state, event).entries[x] # None
  PROVE  state.entries[x] # None \/ x \in IdsIn(event)
<1>0. event # None
  BY LedgerStoreAssumption
<1>1. CASE event.kind = "JournalEntryPosted"
  <2>1. apply_event(state, event) = post(state, event.id, event.lines)
    BY <1>1 DEF apply_event
  <2>2. x # event.id => apply_event(state, event).entries[x] = state.entries[x]
    BY <2>1 DEF post, LedgerState
  <2>3. x = event.id => x \in IdsIn(event)
    BY <1>0, <1>1 DEF IdsIn
  <2> QED BY <2>2, <2>3
<1>2. CASE event.kind = "EntryReversed"
  <2> DEFINE original == state.entries[event.original_id]
             posted == IF original = None THEN state
                       ELSE post(state, event.reversal_id, mirror(original))
  <2>1. x # event.reversal_id => posted.entries[x] = state.entries[x]
    BY DEF post, LedgerState
  <2>2. posted \in [balances : {posted.balances}, entries : {posted.entries},
                    reversed : {posted.reversed}, capitalization : {posted.capitalization}]
    BY DEF post, LedgerState
  <2>3. apply_event(state, event) = [posted EXCEPT !.reversed = @ \union {event.original_id}]
    BY <1>2 DEF apply_event
  <2> HIDE DEF posted
  <2>4. apply_event(state, event).entries = posted.entries
    BY <2>2, <2>3
  <2>5. x = event.reversal_id => x \in IdsIn(event)
    BY <1>0, <1>2 DEF IdsIn
  <2> QED BY <2>1, <2>4, <2>5
<1>3. CASE event.kind = "CapitalizationStatusChanged"
  BY <1>3 DEF apply_event, LedgerState
<1> QED BY <1>1, <1>2, <1>3 DEF LedgerEvent

LEMMA ReplayedIdsWereDrawn ==
  ASSUME NEW events \in Seq(LedgerEvent), NEW x \in EntryIds,
         \A i \in 1..Len(events) : x \notin IdsIn(events[i])
  PROVE  replay(events).entries[x] = None
<1> DEFINE N == Len(events)
           St(n) == ReplayFn(events, N)[n]
           S == {n \in Nat : n \in 0..N => St(n).entries[x] = None}
<1>1. N \in Nat
  OBVIOUS
<1>2. 0 \in S
  <2>1. St(0) = DefaultState
    <3> HIDE DEF N
    <3> QED BY <1>1, ReplayFnDef
  <2> QED BY <2>1 DEF DefaultState
<1>3. ASSUME NEW n \in Nat, n \in S PROVE n + 1 \in S
  <2>1. SUFFICES ASSUME n + 1 \in 0..N PROVE St(n + 1).entries[x] = None
    OBVIOUS
  <2>2. St(n) \in LedgerState /\ events[n + 1] \in LedgerEvent
    BY <1>1, <2>1, ReplayFnType
  <2>3. x \notin IdsIn(events[n + 1]) /\ St(n).entries[x] = None
    BY <1>1, <1>3, <2>1
  <2>4. St(n + 1) = apply_event(St(n), events[n + 1])
    <3> HIDE DEF N
    <3> QED BY <1>1, <2>1, ReplayFnDef
  <2> HIDE DEF St
  <2> QED BY <2>2, <2>3, <2>4, ApplyEventEntries
<1>4. Nat \subseteq S
  <2> HIDE DEF S
  <2> QED BY <1>2, <1>3, SetInduction
<1>5. St(N).entries[x] = None
  BY <1>1, <1>4
<1> QED BY <1>5, ReplayIsReplayFn

-----------------------------------------------------------------------------
(* A commit is a whole command on its stream, every other step a stutter. *)

Log == [s \in Tenants \X Aggregates |-> InOrder(Visible(s[1], s[2]))]

LEMMA InOrderAppend ==
  ASSUME NEW rows, rows \subseteq Row, NEW n \in Nat, Dense(rows, n),
         NEW new \in Row, new.sequence_number = n + 1
  PROVE  InOrder(rows \union {new}) = Append(InOrder(rows), new.payload)
<1> DEFINE more == rows \union {new}
<1>1. Dense(more, n + 1) /\ more \subseteq Row
  BY DEF Dense
<1>2. PICK s, t : s = InOrder(rows) /\ t = InOrder(more)
  OBVIOUS
<1>3. s \in Seq(LedgerEvent) /\ Len(s) = n /\ t \in Seq(LedgerEvent) /\ Len(t) = n + 1
  BY <1>1, <1>2, InOrderType
<1>4. ASSUME NEW i \in 1..n PROVE t[i] = s[i]
  <2>1. PICK row \in rows : row.sequence_number = i
    BY DEF Dense
  <2>2. s[i] = row.payload
    BY <1>2, <2>1, InOrderDense
  <2>3. t[i] = row.payload
    <3> HIDE DEF more
    <3>1. row \in more
      BY DEF more
    <3> QED BY <1>1, <1>2, <2>1, <3>1, InOrderDense
  <2> QED BY <2>2, <2>3
<1>5. t[n + 1] = new.payload
  <2>1. new \in more
    OBVIOUS
  <2> HIDE DEF more
  <2> QED BY <1>1, <1>2, <2>1, InOrderDense
<1>6. new.payload \in LedgerEvent
  BY DEF Row
<1>7. t = Append(s, new.payload)
  BY <1>3, <1>4, <1>5, <1>6
<1> QED BY <1>2, <1>7

\* The ids of an open insert are fresh in the abstract ledger.
LEMMA InsertedIdsAreFresh ==
  ASSUME IndInv, AnswerInv, NEW w \in Writers, writer[w].phase = "inserted",
         NEW x \in IdsIn(writer[w].event), x \in EntryIds
  PROVE  x \in Atomic!Fresh
<1> SUFFICES ASSUME NEW s \in Tenants \X Aggregates
             PROVE  replay(InOrder(Visible(s[1], s[2]))).entries[x] = None
  BY SameReplay DEF Atomic!Fresh, Atomic!IdsOf
<1>1. PICK t \in Tenants, a \in Aggregates : s = <<t, a>>
  OBVIOUS
<1>2. PICK n \in Nat : StreamLength(t, a, n)
  BY DEF IndInv, DenseStreams
<1>3. Visible(t, a) \subseteq Row /\ Dense(Visible(t, a), n)
  BY <1>2, VisibleDense DEF IndInv
<1>4. PICK events : events = InOrder(Visible(t, a))
  OBVIOUS
<1>5. events \in Seq(LedgerEvent) /\ Len(events) = n
  BY <1>3, <1>4, InOrderType
<1>6. ASSUME NEW i \in 1..n PROVE x \notin IdsIn(events[i])
  <2>1. PICK row \in Visible(t, a) : row.sequence_number = i
    BY <1>3 DEF Dense
  <2>2. events[i] = row.payload
    BY <1>3, <1>4, <2>1, InOrderDense
  <2>3. row \in ledger_events
    BY DEF Visible
  <2>4. IdsIn(writer[w].event) \intersect IdsIn(row.payload) = {}
    BY <2>3 DEF AnswerInv, AnswersMatchTheLog
  <2> QED BY <2>2, <2>4
<1>7. replay(events).entries[x] = None
  BY <1>5, <1>6, ReplayedIdsWereDrawn
<1> QED BY <1>1, <1>4, <1>7

\* The event of an open insert is the answer to some command that draws a fresh id.
LEMMA InsertedEventIsHandled ==
  ASSUME IndInv, AnswerInv, NEW w \in Writers, writer[w].phase = "inserted",
         NEW state, state = writer[w].state.inner
  PROVE  \E command \in Commands : \E id \in Atomic!NewIds(command, Atomic!Fresh) :
            /\ Atomic!CommandError(state, command) = None
            /\ writer[w].event = Atomic!CommandEvent(state, command, id)
<1>1. writer[w].event \in LedgerEvent /\ Legal(writer[w].event, state)
  BY DEF IndInv, WriterInv
<1>2. PICK command \in Commands, id \in EntryIds \union {None} :
        CommandError(state, command) = None /\ writer[w].event = CommandEvent(state, command, id)
  BY <1>1 DEF Legal
<1>3. command \in LedgerCommand /\ writer[w].event # None
  BY <1>1, LedgerStoreAssumption
<1>4. CASE command.kind = "PostJournalEntry"
  <2>1. writer[w].event = [kind |-> "JournalEntryPosted", id |-> id, lines |-> command.lines]
    BY <1>2, <1>4 DEF CommandEvent
  <2>2. id \in IdsIn(writer[w].event) /\ id \in EntryIds
    BY <1>1, <1>3, <2>1 DEF IdsIn, LedgerEvent
  <2>3. id \in Atomic!Fresh
    BY <2>2, InsertedIdsAreFresh
  <2>4. id \in Atomic!NewIds(command, Atomic!Fresh)
    BY <1>4, <2>3 DEF Atomic!NewIds
  <2> QED BY <1>2, <1>3, <2>4, SameDecision
<1>5. CASE command.kind = "ReverseEntry"
  <2>1. writer[w].event = [kind |-> "EntryReversed", original_id |-> command.original_id,
                           reversal_id |-> id]
    BY <1>2, <1>5 DEF CommandEvent
  <2>2. id \in IdsIn(writer[w].event) /\ id \in EntryIds
    BY <1>1, <1>3, <2>1 DEF IdsIn, LedgerEvent
  <2>3. id \in Atomic!Fresh
    BY <2>2, InsertedIdsAreFresh
  <2>4. id \in Atomic!NewIds(command, Atomic!Fresh)
    BY <1>5, <2>3 DEF Atomic!NewIds
  <2> QED BY <1>2, <1>3, <2>4, SameDecision
<1>6. CASE command.kind = "ChangeCapitalizationStatus"
  <2>1. CommandEvent(state, command, id) = CommandEvent(state, command, None)
    BY <1>6 DEF CommandEvent
  <2>2. None \in Atomic!NewIds(command, Atomic!Fresh)
    BY <1>6 DEF Atomic!NewIds
  <2> QED BY <1>2, <1>3, <2>1, <2>2, SameDecision
<1> QED BY <1>3, <1>4, <1>5, <1>6 DEF LedgerCommand

LEMMA CommitIsOneCommand ==
  ASSUME IndInv, AnswerInv, NEW w \in Writers, writer[w].phase = "inserted",
         ledger_events' = ledger_events \union {RowOf(w)}
  PROVE  Atomic!Next
<1>0. PICK t, a, k, new, s : /\ t = TenantOf[w] /\ a = writer[w].aggregate
                             /\ k = writer[w].state.sequence_number /\ new = RowOf(w)
                             /\ s = <<t, a>>
  OBVIOUS
<1>1. /\ new \in Row /\ t \in Tenants /\ a \in Aggregates
      /\ StreamLength(t, a, k - 1)
      /\ \A u \in Tenants, b \in Aggregates :
            IF u = t /\ b = a THEN Visible(u, b)' = Visible(u, b) \union {new}
                             ELSE Visible(u, b)' = Visible(u, b)
  BY <1>0, CommitExtendsStream
<1>2. /\ new.sequence_number = k /\ new.payload = writer[w].event
      /\ k \in Nat /\ k - 1 \in Nat
  BY <1>0, <1>1 DEF RowOf, Row
<1>3. PICK events : events = InOrder(Visible(t, a))
  OBVIOUS
<1>4. Visible(t, a) \subseteq Row /\ Dense(Visible(t, a), k - 1)
  BY <1>1, <1>2, VisibleDense DEF IndInv
<1>5. InOrder(Visible(t, a) \union {new}) = Append(events, new.payload)
  <2>1. PICK rows : rows = Visible(t, a)
    OBVIOUS
  <2>2. new.sequence_number = (k - 1) + 1
    BY <1>2
  <2> QED BY <1>1, <1>2, <1>3, <1>4, <2>1, <2>2, InOrderAppend
<1>6. writer[w].state.inner = replay(events)
  <2>1. writer[w].state.inner = Replayed(Prefix(t, a, k - 1))
    BY <1>0 DEF IndInv, WriterInv, HoldsPrefix
  <2>2. Prefix(t, a, k - 1) = Visible(t, a)
    BY <1>4 DEF Dense, Prefix
  <2> QED BY <1>3, <2>1, <2>2 DEF Replayed
<1>7. PICK command \in Commands : \E id \in Atomic!NewIds(command, Atomic!Fresh) :
        /\ Atomic!CommandError(replay(events), command) = None
        /\ new.payload = Atomic!CommandEvent(replay(events), command, id)
  BY <1>2, <1>6, InsertedEventIsHandled
<1>8. s \in Tenants \X Aggregates /\ Log[s] = events
  BY <1>0, <1>1, <1>3 DEF Log
<1>9. Log' = [Log EXCEPT ![s] = Append(@, new.payload)]
  <2>1. ASSUME NEW q \in Tenants \X Aggregates
        PROVE  Log'[q] = IF q = s THEN Append(events, new.payload) ELSE Log[q]
    <3>1. PICK u \in Tenants, b \in Aggregates : q = <<u, b>>
      OBVIOUS
    <3>2. Log'[q] = InOrder(Visible(u, b)') /\ Log[q] = InOrder(Visible(u, b))
      <4>1. Log'[q] = InOrder(Visible(q[1], q[2])') /\ Log[q] = InOrder(Visible(q[1], q[2]))
        BY Zenon DEF Log
      <4>2. q[1] = u /\ q[2] = b
        BY <3>1
      <4> QED BY <4>1, <4>2
    <3>3. CASE u = t /\ b = a
      BY <1>0, <1>1, <1>5, <3>1, <3>2, <3>3
    <3>4. CASE ~(u = t /\ b = a)
      <4>1. q # s /\ Visible(u, b)' = Visible(u, b)
        BY <1>0, <1>1, <3>1, <3>4
      <4> QED BY <3>2, <4>1
    <3> QED BY <3>3, <3>4
  <2>2. DOMAIN Log = Tenants \X Aggregates /\ DOMAIN Log' = Tenants \X Aggregates
    BY DEF Log
  <2>3. Log' = [q \in Tenants \X Aggregates |-> Log'[q]]
    BY DEF Log
  <2> QED BY <1>8, <2>1, <2>2, <2>3
<1>10. PICK id \in Atomic!NewIds(command, Atomic!Fresh) :
         /\ Atomic!CommandError(replay(events), command) = None
         /\ new.payload = Atomic!CommandEvent(replay(events), command, id)
  BY <1>7
<1>11. Atomic!Handle(s, command, id)
  BY <1>8, <1>9, <1>10, SameReplay DEF Atomic!Handle, Log
<1> QED BY <1>8, <1>11 DEF Atomic!Next

LEMMA StepRefines == IndInv /\ AnswerInv /\ [Next]_vars => [Atomic!Next]_Log
<1> SUFFICES ASSUME IndInv, AnswerInv, [Next]_vars PROVE Atomic!Next \/ Log' = Log
  OBVIOUS
<1>1. ASSUME NEW w \in Writers, TableStep(w) PROVE Atomic!Next \/ Log' = Log
  <2>1. CASE ledger_events' = ledger_events
    BY <2>1 DEF Log, Visible, InOrder
  <2>2. CASE writer[w].phase = "inserted" /\ ledger_events' = ledger_events \union {RowOf(w)}
    BY <2>2, CommitIsOneCommand
  <2> QED BY <1>1, <2>1, <2>2 DEF TableStep
<1>2. ASSUME ledger_events' = ledger_events PROVE Log' = Log
  BY <1>2 DEF Log, Visible, InOrder
<1>3. ASSUME NEW w \in Writers,
             Request(w) \/ Progress(w) \/ CommitLost(w) \/ BackendError(w) \/ GiveUp(w)
      PROVE  TableStep(w)
  BY <1>3 DEF TableStep, Request, Progress, Load, HandleCommand, Insert, Commit, Retry,
              CommitLost, BackendError, GiveUp
<1>4. ASSUME NEW r \in Readers, BalanceLoad(r) \/ BalanceRespond(r)
      PROVE  ledger_events' = ledger_events
  BY <1>4 DEF BalanceLoad, BalanceRespond
<1> QED BY <1>1, <1>2, <1>3, <1>4 DEF Next, vars

\* However the steps of writers, readers and faults interleave, what happens to
\* the streams is what handling one command at a time could do: load, decide and
\* persist with its optimistic check make up one atomic command (ledger_store.rs).
THEOREM StoreImplementsLedger == Spec => ImplementsAtomicLedger
<1>1. Init => Atomic!Init
  <2> SUFFICES ASSUME Init
               PROVE  [s \in Tenants \X Aggregates |-> InOrder(Visible(s[1], s[2]))]
                        = [s \in Tenants \X Aggregates |-> <<>>]
    BY DEF Atomic!Init
  <2>1. \A t, a : Visible(t, a) = {}
    BY DEF Init, Visible
  <2>2. InOrder({}) = <<>>
    <3>1. Dense({}, 0)
      BY DEF Dense
    <3> QED BY <3>1, InOrderType
  <2> QED BY <2>1, <2>2
<1>2. IndInv /\ AnswerInv /\ [Next]_vars
        => [Atomic!Next]_([s \in Tenants \X Aggregates |-> InOrder(Visible(s[1], s[2]))])
  BY StepRefines DEF Log
<1> QED BY <1>1, <1>2, AnswerInvariance, Invariance, PTL
        DEF Spec, ImplementsAtomicLedger, Atomic!Spec

-----------------------------------------------------------------------------
(* Events, requests and faults are counted against each other. *)

DoneBy == [w \in Writers |-> Finished(w)]

CountInv ==
    /\ IsFiniteSet(ledger_events)
    /\ Cardinality(ledger_events) <= Total(DoneBy, Writers) + faults

LEMMA DoneTotal ==
  MapThenSumSet(Finished, Writers) = Total(DoneBy, Writers)
<1>1. PICK v, ch : v = DoneBy /\ ch = [s \in SUBSET Writers |-> First(s)]
  OBVIOUS
<1>2. Choice(ch, Writers)
  BY <1>1, FirstIsChoice
<1>3. ASSUME NEW g
      PROVE  Unfold(v, ch, SUBSET Writers, g) =
               [s \in SUBSET Writers |-> IF s = {} THEN 0
                                         ELSE Finished(First(s)) + g[s \ {First(s)}]]
  <2>1. ASSUME NEW s \in SUBSET Writers, s # {}
        PROVE  v[ch[s]] = Finished(First(s))
    <3>1. ch[s] = First(s) /\ ch[s] \in Writers
      BY <1>1, <1>2, <2>1 DEF Choice
    <3> QED BY <1>1, <3>1 DEF DoneBy
  <2> QED BY <1>1, <2>1 DEF Unfold
<1>4. Sums(v, ch, Writers) =
        (CHOOSE g : g = [s \in SUBSET Writers |-> IF s = {} THEN 0
                                                  ELSE Finished(First(s)) + g[s \ {First(s)}]])
  <2>1. Sums(v, ch, Writers) = (CHOOSE g : g = Unfold(v, ch, SUBSET Writers, g))
    BY DEF Sums
  <2>2. (CHOOSE g : g = Unfold(v, ch, SUBSET Writers, g)) =
        (CHOOSE g : g = [s \in SUBSET Writers |-> IF s = {} THEN 0
                                                  ELSE Finished(First(s)) + g[s \ {First(s)}]])
    BY <1>3, Zenon
  <2> QED BY <2>1, <2>2, Zenon
<1>5. MapThenSumSet(Finished, Writers) = Sums(v, ch, Writers)[Writers]
  BY <1>4, Zenon DEF First, MapThenSumSet, MapThenFoldSet
<1> QED BY <1>1, <1>5 DEF Total

\* A step of w that stores a row finishes a request or is a fault.
LEMMA CountStep ==
  ASSUME IsFiniteSet(Writers), TypeOK, TypeOK', CountInv, NEW w \in Writers, TableStep(w),
         \A v \in Writers : v # w => writer'[v] = writer[v],
         Finished(w)' + faults' >= Finished(w) + faults,
         ledger_events' # ledger_events => Finished(w)' + faults' > Finished(w) + faults
  PROVE  CountInv'
<1>1. PICK v, u, S, R : /\ v = DoneBy /\ u = DoneBy'
                        /\ S = ledger_events /\ R = ledger_events'
  OBVIOUS
<1>2. Valued(v, Writers) /\ Valued(u, Writers)
  <2>1. \A x \in Writers : writer[x].requests \in Int /\ writer'[x].requests \in Int
    BY LedgerStoreAssumption DEF TypeOK, WriterState
  <2> QED BY <1>1, <2>1 DEF Valued, DoneBy, Finished
<1>3. /\ v[w] = Finished(w) /\ u[w] = Finished(w)'
      /\ \A x \in Writers : x # w => v[x] = u[x]
  BY <1>1 DEF DoneBy, Finished
<1>4. Total(u, Writers) = Total(v, Writers) - v[w] + u[w]
  BY <1>2, <1>3, TotalChange
<1>5. Total(v, Writers) \in Int /\ v[w] \in Int /\ u[w] \in Int
  BY <1>2, TotalType DEF Valued
<1>6. faults \in Int /\ faults' \in Int
  BY LedgerStoreAssumption DEF TypeOK
<1>7. IsFiniteSet(S) /\ Cardinality(S) \in Nat /\ Cardinality(S) <= Total(v, Writers) + faults
  BY <1>1, FS_CardinalityType DEF CountInv
<1>8. IsFiniteSet(R) /\ Cardinality(R) \in Nat
      /\ Cardinality(R) <= Cardinality(S) + (IF R = S THEN 0 ELSE 1)
  <2>1. CASE R = S
    BY <1>7, <2>1
  <2>2. CASE R # S
    <3>1. PICK x : R = S \union {x} /\ x \notin S
      BY <1>1, <2>2 DEF TableStep
    <3>2. IsFiniteSet(R) /\ Cardinality(R) = Cardinality(S) + 1
      BY <1>7, <3>1, FS_AddElement
    <3> QED BY <1>7, <2>2, <3>2
  <2> QED BY <2>1, <2>2
<1>9. Cardinality(R) <= Total(u, Writers) + faults'
  BY <1>1, <1>3, <1>4, <1>5, <1>6, <1>7, <1>8
<1> QED BY <1>1, <1>8, <1>9 DEF CountInv

LEMMA StepCount ==
  ASSUME IsFiniteSet(Writers)
  PROVE  IndInv /\ IndInv' /\ CountInv /\ [Next]_vars => CountInv'
<1> SUFFICES ASSUME IndInv, IndInv', CountInv, [Next]_vars PROVE CountInv'
  OBVIOUS
<1>0. TypeOK /\ TypeOK'
  BY DEF IndInv
<1>1. ASSUME NEW w \in Writers, \/ Request(w) \/ Progress(w)
                                \/ CommitLost(w) \/ BackendError(w) \/ GiveUp(w)
      PROVE  CountInv'
  <2>1. writer \in [Writers -> WriterState] /\ writer[w].requests \in Int /\ faults \in Int
    BY <1>0, LedgerStoreAssumption DEF TypeOK, WriterState
  <2>2. \A v \in Writers : v # w => writer'[v] = writer[v]
    BY <1>1, <2>1 DEF Request, Progress, Load, HandleCommand, Insert, Commit, Retry,
                      CommitLost, BackendError, GiveUp
  <2>3. TableStep(w)
    BY <1>1 DEF Request, Progress, Load, HandleCommand, Insert, Commit, Retry,
                CommitLost, BackendError, GiveUp, TableStep
  <2>4. /\ Finished(w)' + faults' >= Finished(w) + faults
        /\ ledger_events' # ledger_events => Finished(w)' + faults' > Finished(w) + faults
    <3>1. CASE Request(w)
      <4>1. /\ writer'[w].phase = "requested" /\ writer'[w].requests = writer[w].requests + 1
            /\ faults' = faults /\ ledger_events' = ledger_events
        BY <2>1, <3>1 DEF Request, WriterState
      <4> QED BY <2>1, <4>1 DEF Finished
    <3>2. CASE Load(w) \/ HandleCommand(w) \/ Insert(w) \/ Retry(w) \/ GiveUp(w)
      <4>1. /\ writer'[w].requests = writer[w].requests
            /\ writer[w].phase \notin {"idle", "stored"}
            /\ faults' = faults /\ ledger_events' = ledger_events
        BY <2>1, <3>2 DEF Load, HandleCommand, Insert, Retry, GiveUp, WriterState
      <4> QED BY <2>1, <4>1 DEF Finished
    <3>3. CASE Commit(w)
      <4>1. /\ writer'[w].requests = writer[w].requests /\ faults' = faults
            /\ writer[w].phase = "inserted" /\ writer'[w].phase = "stored"
        BY <2>1, <3>3 DEF Commit, WriterState
      <4> QED BY <2>1, <4>1 DEF Finished
    <3>4. CASE CommitLost(w) \/ BackendError(w)
      <4>1. /\ writer'[w].requests = writer[w].requests /\ faults' = faults + 1
            /\ writer[w].phase \notin {"idle", "stored"}
        BY <2>1, <3>4 DEF CommitLost, BackendError, WriterState
      <4> QED BY <2>1, <4>1 DEF Finished
    <3> QED BY <1>1, <3>1, <3>2, <3>3, <3>4 DEF Progress
  <2> QED BY <1>0, <2>2, <2>3, <2>4, CountStep
<1>2. ASSUME UNCHANGED <<ledger_events, writer, faults>> PROVE CountInv'
  <2>1. DoneBy' = DoneBy
    BY <1>2 DEF DoneBy, Finished
  <2> QED BY <1>2, <2>1 DEF CountInv
<1>3. ASSUME NEW r \in Readers, BalanceLoad(r) \/ BalanceRespond(r) PROVE CountInv'
  BY <1>2, <1>3 DEF BalanceLoad, BalanceRespond
<1>4. CASE UNCHANGED vars
  BY <1>2, <1>4 DEF vars
<1> QED BY <1>1, <1>3, <1>4 DEF Next

\* A retry stores nothing twice (ADR 0004; persist, ledger_store.rs): whatever the
\* interleaving of any finite set of callers, there are no more events than requests
\* finished with, plus one for each fault a caller was told Backend for.
THEOREM RetriesAreCounted ==
  ASSUME IsFiniteSet(Writers)
  PROVE  Spec => []RetriesStoreNothingTwice
<1>1. Init => CountInv
  <2> SUFFICES ASSUME Init PROVE CountInv
    OBVIOUS
  <2>1. \A w \in Writers : DoneBy[w] = 0
    BY DEF Init, DoneBy, Finished
  <2>2. Total(DoneBy, Writers) = 0
    BY <2>1, TotalOfZeros
  <2> QED BY <2>2, FS_EmptySet DEF Init, CountInv
<1>2. IndInv /\ IndInv' /\ CountInv /\ [Next]_vars => CountInv'
  BY StepCount
<1>3. CountInv => RetriesStoreNothingTwice
  BY DoneTotal DEF CountInv, RetriesStoreNothingTwice
<1> QED BY <1>1, <1>2, <1>3, Invariance, PTL DEF Spec

-----------------------------------------------------------------------------
(* What the balance endpoint shows. *)

\* A legal event keeps the sheet of the state it was decided on.
LEMMA LegalSheet ==
  ASSUME IsFiniteSet(Accounts), NEW home, \A command \in Commands : Respects(home, command),
         NEW state, SheetInv(home, state), NEW event \in LedgerEvent, Legal(event, state)
  PROVE  SheetInv(home, apply_event(state, event))
<1>1. PICK command \in Commands : \E id \in EntryIds \union {None} :
          CommandError(state, command) = None /\ event = CommandEvent(state, command, id)
  BY DEF Legal
<1>2. PICK id \in EntryIds \union {None} :
          CommandError(state, command) = None /\ event = CommandEvent(state, command, id)
  BY <1>1
<1>3. command \in LedgerCommand
  BY LedgerStoreAssumption
<1>4. \E x \in NewIds(command, EntryIds) : event = CommandEvent(state, command, x)
  <2>1. CASE command.kind = "ChangeCapitalizationStatus"
    BY <1>2, <2>1 DEF NewIds, CommandEvent
  <2>2. CASE command.kind = "PostJournalEntry"
    <3>1. event.kind = "JournalEntryPosted" /\ event.id = id
      BY <1>2, <2>2 DEF CommandEvent
    <3>2. id \in EntryIds
      BY <3>1 DEF LedgerEvent
    <3> QED BY <1>2, <2>2, <3>2 DEF NewIds
  <2>3. CASE command.kind = "ReverseEntry"
    <3>1. event.kind = "EntryReversed" /\ event.reversal_id = id
      BY <1>2, <2>3 DEF CommandEvent
    <3>2. id \in EntryIds
      BY <3>1 DEF LedgerEvent
    <3> QED BY <1>2, <2>3, <3>2 DEF NewIds
  <2> QED BY <1>3, <2>1, <2>2, <2>3 DEF LedgerCommand
<1>5. PICK x \in NewIds(command, EntryIds) : event = CommandEvent(state, command, x)
  BY <1>4
<1>6. PICK ids : ids = EntryIds
  OBVIOUS
<1>7. SheetInv(home, apply_event(state, CommandEvent(state, command, x)))
  BY <1>2, <1>3, <1>5, <1>6, AcceptedSheet
<1> QED BY <1>5, <1>7

\* Every prefix of every stream replays to a sheet that balances.
LEMMA PrefixSheet ==
  ASSUME IndInv, IsFiniteSet(Accounts),
         NEW home, \A command \in Commands : Respects(home, command),
         NEW t \in Tenants, NEW a \in Aggregates, NEW n \in Nat, StreamLength(t, a, n)
  PROVE  \A m \in 0..n : SheetInv(home, Replayed(Prefix(t, a, m)))
<1> DEFINE P(m) == Prefix(t, a, m)
           T == {m \in Nat : m \in 0..n => SheetInv(home, Replayed(P(m)))}
<1>1. \A m \in 0..n : P(m) \subseteq Row /\ Dense(P(m), m)
  BY VisibleDense DEF IndInv
<1>2. 0 \in T
  <2>1. 0 \in 0..n
    OBVIOUS
  <2>2. PICK events : events = InOrder(P(0))
    OBVIOUS
  <2>3. events \in Seq(LedgerEvent) /\ Len(events) = 0
    BY <1>1, <2>1, <2>2, InOrderType
  <2>4. events = <<>>
    BY <2>3
  <2>5. Replayed(P(0)) = DefaultState
    BY <2>2, <2>4, ReplayStep DEF Replayed
  <2> QED BY <2>5, DefaultSheet
<1>3. ASSUME NEW m \in Nat, m \in T PROVE m + 1 \in T
  <2> SUFFICES ASSUME m + 1 \in 0..n PROVE SheetInv(home, Replayed(P(m + 1)))
    OBVIOUS
  <2>1. m \in 0..n /\ m + 1 \in Nat \ {0} /\ m + 1 <= n
    OBVIOUS
  <2>2. PICK row \in Visible(t, a) : row.sequence_number = m + 1
    BY <2>1 DEF StreamLength
  <2>3. /\ row \in ledger_events /\ row \in Row /\ row.tenant_id = t /\ row.aggregate_id = a
        /\ Visible(t, a) \subseteq Row
    BY <2>2 DEF Visible, IndInv, TypeOK
  <2>4. \A q \in Visible(t, a) : q.sequence_number \in Nat
    BY <2>3 DEF Row
  <2>5. Before(row) = P(m)
    BY <2>2, <2>3, <2>4 DEF Before, Prefix
  <2>6. P(m + 1) = P(m) \union {row}
    <3>1. \A q \in Visible(t, a) : q.sequence_number = m + 1 => q = row
      BY <2>2 DEF IndInv, UniqueKeys, Visible
    <3> QED BY <2>2, <2>4, <3>1 DEF Prefix
  <2>7. PICK rows : rows = P(m)
    OBVIOUS
  <2>8. rows \subseteq Row /\ Dense(rows, m) /\ Legal(row.payload, Replayed(rows))
    BY <1>1, <2>1, <2>3, <2>5, <2>7 DEF IndInv, EveryEventWasLegal
  <2>9. InOrder(rows \union {row}) = Append(InOrder(rows), row.payload)
    BY <2>2, <2>3, <2>8, InOrderAppend
  <2>10. InOrder(rows) \in Seq(LedgerEvent) /\ row.payload \in LedgerEvent
    BY <2>3, <2>8, InOrderType DEF Row
  <2>11. Replayed(rows \union {row}) = apply_event(Replayed(rows), row.payload)
    BY <2>9, <2>10, ReplayStep DEF Replayed
  <2>12. SheetInv(home, Replayed(rows))
    BY <1>3, <2>1, <2>7
  <2>13. SheetInv(home, apply_event(Replayed(rows), row.payload))
    BY <2>8, <2>10, <2>12, LegalSheet
  <2> QED BY <2>6, <2>7, <2>11, <2>13
<1>4. Nat \subseteq T
  <2> HIDE DEF T
  <2> QED BY <1>2, <1>3, SetInduction
<1> QED BY <1>4

\* Each event puts at most one entry on file.
LEMMA EntriesAreEvents ==
  ASSUME NEW events \in Seq(LedgerEvent)
  PROVE  entry_count(replay(events)) \in Nat /\ entry_count(replay(events)) <= Len(events)
<1>1. PICK n \in Nat : n = Len(events)
  OBVIOUS
<1>2. PICK S, f : /\ S = {e \in EntryIds : replay(events).entries[e] # None}
                  /\ f = [i \in 1..n |-> CHOOSE x : IdsIn(events[i]) = {x}]
  OBVIOUS
<1>3. PICK R : R = {f[i] : i \in 1..n}
  OBVIOUS
<1>4. ASSUME NEW e \in S PROVE e \in R
  <2>1. PICK i \in 1..n : e \in IdsIn(events[i])
    BY <1>1, <1>2, ReplayedIdsWereDrawn
  <2>2. IdsIn(events[i]) = {e}
    BY <2>1 DEF IdsIn
  <2>3. f[i] = e
    BY <1>2, <2>2
  <2> QED BY <1>3, <2>3
<1>5. IsFiniteSet(1..n) /\ Cardinality(1..n) = n
  BY FS_Interval
<1>6. f \in Surjection(1..n, R)
  BY <1>2, <1>3 DEF Surjection
<1>7. IsFiniteSet(R) /\ Cardinality(R) <= n
  BY <1>5, <1>6, FS_Surjection
<1>8. S \subseteq R
  BY <1>4
<1>9. IsFiniteSet(S) /\ Cardinality(S) <= Cardinality(R)
  BY <1>7, <1>8, FS_Subset
<1>10. Cardinality(S) \in Nat /\ Cardinality(R) \in Nat
  BY <1>7, <1>9, FS_CardinalityType
<1> QED BY <1>1, <1>2, <1>7, <1>9, <1>10 DEF entry_count

\* What a reader holds is the replay of events that are still there.
ViewInv(r) ==
    LET n == reader[r].state.sequence_number
    IN  reader[r].phase # "idle" =>
            /\ \A k \in 1..n : \E row \in Visible(TenantOf[r], reader[r].aggregate) :
                                    row.sequence_number = k
            /\ entry_count(reader[r].state.inner) \in Nat
            /\ entry_count(reader[r].state.inner) <= n
            /\ \A c \in Currencies : trial_balance(reader[r].state.inner, c) = 0
            /\ reader[r].phase = "answered" => n <= reader[r].event_count

LEMMA ViewStays ==
  ASSUME NEW r \in Readers, ViewInv(r), reader'[r] = reader[r], ledger_events \subseteq ledger_events'
  PROVE  ViewInv(r)'
<1>1. PICK t, a, m, phase, inner, count :
        /\ t = TenantOf[r] /\ a = reader[r].aggregate /\ m = reader[r].state.sequence_number
        /\ phase = reader[r].phase /\ inner = reader[r].state.inner
        /\ count = reader[r].event_count
  OBVIOUS
<1>2. Visible(t, a) \subseteq Visible(t, a)'
  BY DEF Visible
<1> QED BY <1>1, <1>2 DEF ViewInv

LEMMA LoadView ==
  ASSUME IndInv, IsFiniteSet(Accounts),
         NEW home, \A command \in Commands : Respects(home, command),
         NEW r \in Readers, BalanceLoad(r)
  PROVE  ViewInv(r)' /\ \A q \in Readers : q # r => reader'[q] = reader[q]
<1>1. PICK a \in AggregatesOf[TenantOf[r]] :
        reader' = [reader EXCEPT ![r].phase = "loaded", ![r].aggregate = a,
                                 ![r].state = load(TenantOf[r], a)]
  BY DEF BalanceLoad
<1>2. PICK t, state : t = TenantOf[r] /\ state = load(t, a)
  OBVIOUS
<1>3. reader \in [Readers -> ReaderState] /\ t \in Tenants /\ a \in Aggregates
  BY <1>2, LedgerStoreAssumption DEF IndInv, TypeOK
<1>4. PICK n \in Nat : /\ StreamLength(t, a, n)
                       /\ state.sequence_number = n
                       /\ state.inner = Replayed(Visible(t, a))
                       /\ Prefix(t, a, n) = Visible(t, a)
                       /\ Len(InOrder(Visible(t, a))) = n
  BY <1>2, <1>3, LoadType DEF IndInv
<1>5. /\ reader'[r].phase = "loaded" /\ reader'[r].aggregate = a /\ reader'[r].state = state
      /\ \A q \in Readers : q # r => reader'[q] = reader[q]
  BY <1>1, <1>2, <1>3 DEF ReaderState
<1>6. Visible(t, a) \subseteq Row /\ Dense(Visible(t, a), n)
  BY <1>3, <1>4, VisibleDense DEF IndInv
<1>7. InOrder(Visible(t, a)) \in Seq(LedgerEvent)
  BY <1>6, InOrderType
<1>8. entry_count(state.inner) \in Nat /\ entry_count(state.inner) <= n
  BY <1>4, <1>7, EntriesAreEvents DEF Replayed
<1>9. \A c \in Currencies : trial_balance(state.inner, c) = 0
  <2>1. \A m \in 0..n : SheetInv(home, Replayed(Prefix(t, a, m)))
    BY <1>3, <1>4, PrefixSheet
  <2>2. SheetInv(home, state.inner)
    BY <1>4, <2>1
  <2>3. state.inner.balances \in Balances /\ \A c : Net(state.inner.balances, c) = 0
    BY <2>2 DEF SheetInv, LedgerState, Balances
  <2> QED BY <2>3, TrialBalanceIsNet
<1>10. \A k \in 1..n : \E row \in Visible(t, a) : row.sequence_number = k
  BY <1>6 DEF Dense
<1>11. Visible(t, a)' = Visible(t, a)
  BY DEF BalanceLoad, Visible
<1>12. PICK b : b = reader'[r].aggregate
  OBVIOUS
<1>13. Visible(TenantOf[r], b)' = Visible(t, a)
  BY <1>2, <1>5, <1>11, <1>12
<1> QED BY <1>4, <1>5, <1>8, <1>9, <1>10, <1>12, <1>13 DEF ViewInv

LEMMA RespondView ==
  ASSUME IndInv, NEW r \in Readers, ViewInv(r), BalanceRespond(r)
  PROVE  ViewInv(r)' /\ \A q \in Readers : q # r => reader'[q] = reader[q]
<1>1. PICK t, a, m, count : /\ t = TenantOf[r] /\ a = reader[r].aggregate
                            /\ m = reader[r].state.sequence_number
                            /\ count = Len(InOrder(Visible(t, a)))
  OBVIOUS
<1>2. reader \in [Readers -> ReaderState] /\ t \in Tenants /\ a \in Aggregates /\ m \in Nat
      /\ reader[r].phase = "loaded"
  BY <1>1, LedgerStoreAssumption DEF IndInv, TypeOK, ReaderInv, ReaderState, AggregateState, BalanceRespond
<1>3. /\ reader'[r].phase = "answered" /\ reader'[r].aggregate = a
      /\ reader'[r].state = reader[r].state /\ reader'[r].event_count = count
      /\ \A q \in Readers : q # r => reader'[q] = reader[q]
  BY <1>1, <1>2 DEF BalanceRespond, ReaderState
<1>4. PICK n \in Nat : StreamLength(t, a, n) /\ count = n
  BY <1>1, <1>2, LoadType DEF IndInv
<1>5. \A k \in 1..m : \E row \in Visible(t, a) : row.sequence_number = k
  BY <1>1, <1>2 DEF ViewInv
<1>6. m <= n
  <2>1. CASE m = 0
    BY <2>1
  <2>2. CASE m # 0
    <3>1. \E row \in Visible(t, a) : row.sequence_number = m
      BY <1>2, <1>5, <2>2
    <3> QED BY <1>2, <1>4, <2>2, <3>1 DEF StreamLength
  <2> QED BY <2>1, <2>2
<1>7. Visible(t, a)' = Visible(t, a)
  BY DEF BalanceRespond, Visible
<1>8. PICK b : b = reader'[r].aggregate
  OBVIOUS
<1>9. Visible(TenantOf[r], b)' = Visible(t, a)
  BY <1>1, <1>3, <1>7, <1>8
<1> QED BY <1>1, <1>2, <1>3, <1>4, <1>5, <1>6, <1>8, <1>9 DEF ViewInv

\* The balance endpoint (routes/ledger.rs) reads in two transactions between which
\* any number of commands may commit; it still never shows more entries than events,
\* nor a trial balance that is not zero, where each account is kept in one currency.
THEOREM ViewsAreCoherent ==
  ASSUME IsFiniteSet(Accounts),
         NEW home, \A command \in Commands : Respects(home, command)
  PROVE  Spec => []BalanceViewIsCoherent
<1> DEFINE ViewsInv == \A r \in Readers : ViewInv(r)
<1>1. Init => ViewsInv
  BY DEF Init, ViewInv
<1>2. IndInv /\ ViewsInv /\ [Next]_vars => ViewsInv'
  <2> SUFFICES ASSUME IndInv, ViewsInv, [Next]_vars, NEW r \in Readers PROVE ViewInv(r)'
    OBVIOUS
  <2>1. ASSUME ledger_events \subseteq ledger_events', reader' = reader PROVE ViewInv(r)'
    BY <2>1, ViewStays
  <2>2. ASSUME NEW w \in Writers, \/ Request(w) \/ Progress(w)
                                  \/ CommitLost(w) \/ BackendError(w) \/ GiveUp(w)
        PROVE  ViewInv(r)'
    <3>1. ledger_events \subseteq ledger_events' /\ reader' = reader
      BY <2>2 DEF Request, Progress, Load, HandleCommand, Insert, Commit, Retry,
                  CommitLost, BackendError, GiveUp
    <3> QED BY <2>1, <3>1
  <2>3. ASSUME NEW q \in Readers, BalanceLoad(q) PROVE ViewInv(r)'
    <3>1. ViewInv(q)' /\ \A p \in Readers : p # q => reader'[p] = reader[p]
      BY <2>3, LoadView
    <3>2. ledger_events \subseteq ledger_events'
      BY <2>3 DEF BalanceLoad
    <3> QED BY <3>1, <3>2, ViewStays
  <2>4. ASSUME NEW q \in Readers, BalanceRespond(q) PROVE ViewInv(r)'
    <3>1. ViewInv(q)' /\ \A p \in Readers : p # q => reader'[p] = reader[p]
      BY <2>4, RespondView
    <3>2. ledger_events \subseteq ledger_events'
      BY <2>4 DEF BalanceRespond
    <3> QED BY <3>1, <3>2, ViewStays
  <2>5. CASE UNCHANGED vars
    BY <2>1, <2>5 DEF vars
  <2> QED BY <2>2, <2>3, <2>4, <2>5 DEF Next
<1>3. IndInv /\ ViewsInv => BalanceViewIsCoherent
  <2> SUFFICES ASSUME IndInv, NEW r \in Readers, ViewInv(r), reader[r].phase = "answered"
               PROVE  /\ entry_count(reader[r].state.inner) <= reader[r].event_count
                      /\ reader[r].state.sequence_number <= reader[r].event_count
                      /\ \A c \in Currencies : trial_balance(reader[r].state.inner, c) = 0
    BY DEF BalanceViewIsCoherent
  <2>1. reader[r].state.sequence_number \in Nat /\ reader[r].event_count \in Nat
    BY DEF IndInv, TypeOK, ReaderState, AggregateState
  <2> QED BY <2>1 DEF ViewInv
<1> QED
  <2> HIDE DEF ViewsInv
  <2> QED BY <1>1, <1>2, <1>3, Invariance, PTL DEF Spec

=============================================================================
