------------------------- MODULE ResearchGraphProofs ------------------------
(***************************************************************************)
(* The store of the research graph, proved: however deliveries of a        *)
(* tracker's records, refreshes of the cost projection and batches of      *)
(* costs overlap, a record has one run and no report of it is lost, and    *)
(* where refreshes do not overlap each other the projection they leave is  *)
(* the sum of the run's costs.  The argument is IndInv of ResearchGraph.   *)
(***************************************************************************)
EXTENDS ResearchGraph, SumProofs

-----------------------------------------------------------------------------
(* The table of costs. *)

Charged(table, tenant, run, currency) ==
    {key \in RowsOf(table, tenant) : /\ RunOf[table[key]] = run
                                     /\ CurrencyOf[table[key]] = currency}

LEMMA CostsAddUp ==
  ASSUME NEW table, IsFiniteSet(Stored(table)), NEW tenant, NEW run, NEW currency
  PROVE  \E g : /\ AddsUp(g, [key \in Keys |-> CostOf[table[key]]],
                             Charged(table, tenant, run, currency))
                /\ SumEffectiveCost(table, tenant, run, currency)
                      = g[Charged(table, tenant, run, currency)]
<1>1. PICK S, v : /\ S = Charged(table, tenant, run, currency)
                  /\ v = [key \in Keys |-> CostOf[table[key]]]
  OBVIOUS
<1>2. S \subseteq Keys /\ IsFiniteSet(S)
  <2>1. S \subseteq Stored(table)
    BY <1>1 DEF Charged, RowsOf, Stored
  <2> QED BY <2>1, FS_Subset DEF Stored
<1>3. PICK ch : ch = [s \in SUBSET S |-> First(s)]
  OBVIOUS
<1>4. Choice(ch, S)
  BY <1>3, FirstIsChoice
<1>5. ASSUME NEW g
      PROVE  Unfold(v, ch, SUBSET S, g) =
               [s \in SUBSET S |-> IF s = {} THEN 0 ELSE CostOf[table[First(s)]] + g[s \ {First(s)}]]
  <2>1. ASSUME NEW s \in SUBSET S, s # {}
        PROVE  v[ch[s]] = CostOf[table[First(s)]]
    <3>1. ch[s] = First(s) /\ ch[s] \in S
      BY <1>3, <1>4, <2>1 DEF Choice
    <3> QED BY <1>1, <1>2, <3>1
  <2> QED BY <1>3, <2>1 DEF Unfold
<1>6. Sums(v, ch, S) =
        (CHOOSE g : g = [s \in SUBSET S |-> IF s = {} THEN 0
                                            ELSE CostOf[table[First(s)]] + g[s \ {First(s)}]])
  <2>1. Sums(v, ch, S) = (CHOOSE g : g = Unfold(v, ch, SUBSET S, g))
    BY DEF Sums
  <2>2. (CHOOSE g : g = Unfold(v, ch, SUBSET S, g)) =
        (CHOOSE g : g = [s \in SUBSET S |-> IF s = {} THEN 0
                                            ELSE CostOf[table[First(s)]] + g[s \ {First(s)}]])
    BY <1>5, Zenon
  <2> QED BY <2>1, <2>2, Zenon
<1>7. SumEffectiveCost(table, tenant, run, currency) = Sums(v, ch, S)[S]
  BY <1>1, <1>6, Zenon DEF First, SumEffectiveCost, Charged, MapThenSumSet, MapThenFoldSet
<1> QED BY <1>1, <1>2, <1>4, <1>7, SumsAddUp

\* SUM of amounts is an amount: no run costs NULL.
LEMMA CostsType ==
  ASSUME NEW table \in CostTable, IsFiniteSet(Stored(table)),
         NEW tenant, NEW run, NEW currency
  PROVE  SumEffectiveCost(table, tenant, run, currency) \in Int
<1>1. PICK S, v : /\ S = Charged(table, tenant, run, currency)
                  /\ v = [key \in Keys |-> CostOf[table[key]]]
  OBVIOUS
<1>2. PICK g : AddsUp(g, v, S) /\ SumEffectiveCost(table, tenant, run, currency) = g[S]
  BY <1>1, CostsAddUp
<1>3. IsFiniteSet(S) /\ Valued(v, S)
  <2>1. S \subseteq Stored(table)
    BY <1>1 DEF Charged, RowsOf, Stored
  <2>2. ASSUME NEW key \in S PROVE v[key] \in Int
    <3>1. key \in Keys /\ table[key] \in Contents
      BY <2>1 DEF Stored, CostTable
    <3> QED BY <1>1, <3>1, ContentAssumption
  <2> QED BY <2>1, <2>2, FS_Subset DEF Valued
<1> QED BY <1>2, <1>3, SumsType

\* A run that no cost has been attributed to costs nothing.
LEMMA NoCosts ==
  ASSUME NEW tenant, NEW run, NEW currency
  PROVE  SumEffectiveCost(EmptyTable, tenant, run, currency) = 0
<1>1. Stored(EmptyTable) = {} /\ Charged(EmptyTable, tenant, run, currency) = {}
  BY DEF Stored, EmptyTable, Charged, RowsOf
<1>2. IsFiniteSet(Stored(EmptyTable))
  BY <1>1, FS_EmptySet
<1>3. PICK g : /\ AddsUp(g, [key \in Keys |-> CostOf[EmptyTable[key]]], {})
               /\ SumEffectiveCost(EmptyTable, tenant, run, currency) = g[{}]
  BY <1>1, <1>2, CostsAddUp
<1> QED BY <1>3 DEF AddsUp

\* A batch leaves a table, and one no longer than it was by more than the batch.
LEMMA UpsertedType ==
  ASSUME NEW table \in CostTable, IsFiniteSet(Stored(table)), NEW batch \in Seq(CostEvent)
  PROVE  /\ Upserted(table, batch) \in CostTable
         /\ IsFiniteSet(Stored(Upserted(table, batch)))
<1>1. PICK n \in Nat : n = Len(batch)
  OBVIOUS
<1>2. \A i \in 1..n : batch[i] \in CostEvent
  BY <1>1
<1> DEFINE Brought == {idempotency_key(batch[i]) : i \in 1..n}
<1>3. ASSUME NEW key \in Keys
      PROVE  /\ ContentAfter(table, batch, n, key) \in Contents \union {None}
             /\ key \notin Brought => ContentAfter(table, batch, n, key) = table[key]
  <2>1. PICK s : s = Deliveries(batch, n, key)
    OBVIOUS
  <2>2. s \in SUBSET (1..n)
    BY <2>1 DEF Deliveries
  <2>3. CASE s = {}
    <3>1. ContentAfter(table, batch, n, key) = table[key]
      BY <2>1, <2>3 DEF ContentAfter
    <3> QED BY <3>1 DEF CostTable
  <2>4. CASE s # {}
    <3>1. Max(s) \in 1..n
      BY <2>2, <2>4, BoundsExist
    <3>2. ContentAfter(table, batch, n, key) = batch[Max(s)].content
      BY <2>1, <2>4 DEF ContentAfter
    <3>3. key \in Brought
      BY <2>1, <2>4 DEF Deliveries
    <3> QED BY <1>2, <3>1, <3>2, <3>3 DEF CostEvent
  <2> QED BY <2>3, <2>4
<1>4. IsFiniteSet(Brought)
  <2>1. IsFiniteSet(1..n)
    BY FS_Interval
  <2>2. PICK f : f = [i \in 1..n |-> idempotency_key(batch[i])]
    OBVIOUS
  <2>3. f \in Surjection(1..n, Brought)
    BY <2>2 DEF Surjection
  <2> QED BY <2>1, <2>3, FS_Surjection
<1>5. Stored(Upserted(table, batch)) \subseteq Stored(table) \union Brought
  <2> HIDE DEF Brought
  <2> QED BY <1>1, <1>3 DEF Stored, Upserted
<1>6. Upserted(table, batch) \in CostTable
  BY <1>1, <1>3 DEF Upserted, CostTable
<1> QED
  <2> HIDE DEF Brought
  <2>1. IsFiniteSet(Stored(table) \union Brought)
    BY <1>4, FS_Union
  <2> QED BY <1>5, <1>6, <2>1, FS_Subset

-----------------------------------------------------------------------------
(* A step of one delivery or of one refresh that commits nothing. *)

LEMMA IdleType ==
  /\ NoDelivery \in Delivery /\ NoRefresh \in Refresh
  /\ \A x \in Delivery : Done(x) \in Delivery /\ Done(x).phase = "idle"
  /\ \A x \in Refresh : Ended(x) \in Refresh /\ Ended(x).phase = "idle"
<1>1. MaxDeliveries \in Nat /\ MaxRefreshes \in Nat
  BY ResearchGraphAssumption
<1>2. NoDelivery \in Delivery /\ NoRefresh \in Refresh
  BY <1>1 DEF NoDelivery, NoRefresh, Delivery, Refresh
<1>3. \A x \in Delivery : Done(x) \in Delivery /\ Done(x).phase = "idle"
  BY DEF NoDelivery, Done, Delivery
<1>4. \A x \in Refresh : Ended(x) \in Refresh /\ Ended(x).phase = "idle"
  <2> SUFFICES ASSUME NEW x \in Refresh PROVE Ended(x) \in Refresh /\ Ended(x).phase = "idle"
    OBVIOUS
  <2>1. PICK b : b = FALSE /\ b \in BOOLEAN
    OBVIOUS
  <2>2. NoRefresh = [phase |-> "idle", key |-> None, total |-> 0, row |-> None, current |-> b, calls |-> 0]
    BY <2>1, Zenon DEF NoRefresh
  <2>3. x.calls \in 0..MaxRefreshes
    BY DEF Refresh
  <2>4. Ended(x) = [phase |-> "idle", key |-> None, total |-> 0, row |-> None, current |-> b,
                    calls |-> x.calls]
    BY <2>2 DEF Ended
  <2> QED BY <2>1, <2>3, <2>4 DEF Refresh
<1> QED BY <1>2, <1>3, <1>4

LEMMA DeliveryStep ==
  ASSUME IndInv, NEW d \in Trackers, NEW t \in Delivery,
         tracker' = [tracker EXCEPT ![d] = t],
         UNCHANGED <<cost_events, experiment, runs, refresher, batches, delivered, told, stale>>,
         DeliveryInv(d)',
         t.phase = "written" => ~Locked(<<TenantOf[d], t.ref>>)
  PROVE  IndInv'
<1>1. /\ tracker \in [Trackers -> Delivery] /\ tracker'[d] = t
      /\ \A e \in Trackers : e # d => tracker'[e] = tracker[e]
  BY DEF IndInv, TypeOK
<1>2. TypeOK'
  BY <1>1 DEF IndInv, TypeOK
<1>3. LocksExclude'
  <2>1. KeyOf(d)' = <<TenantOf[d], t.ref>> /\ \A e \in Trackers : e # d => KeyOf(e)' = KeyOf(e)
    BY <1>1 DEF KeyOf
  <2>2. t.phase = "written" =>
          /\ \A e \in Trackers : ~(tracker[e].phase = "written" /\ KeyOf(e) = KeyOf(d)')
          /\ \A r \in Refreshers : ~(refresher[r].phase = "written" /\ refresher[r].key = KeyOf(d)')
    BY <2>1 DEF Locked
  <2>3. \A e, f \in Trackers :
          tracker'[e].phase = "written" /\ tracker'[f].phase = "written" /\ KeyOf(e)' = KeyOf(f)' => e = f
    BY <1>1, <2>1, <2>2 DEF IndInv, LocksExclude
  <2>4. \A e \in Trackers, r \in Refreshers :
          ~ (tracker'[e].phase = "written" /\ refresher'[r].phase = "written" /\ KeyOf(e)' = refresher'[r].key)
    BY <1>1, <2>1, <2>2 DEF IndInv, LocksExclude
  <2> QED BY <2>3, <2>4 DEF IndInv, LocksExclude
<1>4. \A e \in Trackers : DeliveryInv(e)'
  <2> SUFFICES ASSUME NEW e \in Trackers, e # d PROVE DeliveryInv(e)'
    OBVIOUS
  <2> QED BY <1>1 DEF IndInv, DeliveryInv, KeyOf, RunUpsert
<1>5. \A r \in Refreshers : RefreshInv(r)'
  BY DEF IndInv, RefreshInv
<1> QED BY <1>2, <1>3, <1>4, <1>5 DEF IndInv, OneRunPerTrackerRecord, NoReportIsLost

LEMMA RefreshStep ==
  ASSUME IndInv, NEW r \in Refreshers, NEW t \in Refresh,
         refresher' = [refresher EXCEPT ![r] = t],
         UNCHANGED <<cost_events, experiment, runs, tracker, batches, delivered, told, stale>>,
         RefreshInv(r)',
         t.phase = "written" => ~Locked(t.key)
  PROVE  IndInv'
<1>1. /\ refresher \in [Refreshers -> Refresh] /\ refresher'[r] = t
      /\ \A q \in Refreshers : q # r => refresher'[q] = refresher[q]
  BY DEF IndInv, TypeOK
<1>2. TypeOK'
  BY <1>1 DEF IndInv, TypeOK
<1>3. LocksExclude'
  <2>1. \A e \in Trackers : KeyOf(e)' = KeyOf(e)
    BY DEF KeyOf
  <2>2. t.phase = "written" =>
          /\ \A e \in Trackers : ~(tracker[e].phase = "written" /\ KeyOf(e) = t.key)
          /\ \A q \in Refreshers : ~(refresher[q].phase = "written" /\ refresher[q].key = t.key)
    BY DEF Locked
  <2>3. \A q, p \in Refreshers :
          refresher'[q].phase = "written" /\ refresher'[p].phase = "written"
             /\ refresher'[q].key = refresher'[p].key => q = p
    BY <1>1, <2>2 DEF IndInv, LocksExclude
  <2>4. \A e \in Trackers, q \in Refreshers :
          ~ (tracker'[e].phase = "written" /\ refresher'[q].phase = "written" /\ KeyOf(e)' = refresher'[q].key)
    BY <1>1, <2>1, <2>2 DEF IndInv, LocksExclude
  <2> QED BY <2>1, <2>3, <2>4 DEF IndInv, LocksExclude
<1>4. \A e \in Trackers : DeliveryInv(e)'
  BY DEF IndInv, DeliveryInv, KeyOf, RunUpsert
<1>5. \A q \in Refreshers : RefreshInv(q)'
  <2> SUFFICES ASSUME NEW q \in Refreshers, q # r PROVE RefreshInv(q)'
    OBVIOUS
  <2> QED BY <1>1 DEF IndInv, RefreshInv
<1> QED BY <1>2, <1>3, <1>4, <1>5 DEF IndInv, OneRunPerTrackerRecord, NoReportIsLost

-----------------------------------------------------------------------------
(* The steps that commit nothing. *)

LEMMA NormalizeKeeps ==
  ASSUME IndInv, NEW d \in Trackers, Normalize(d)
  PROVE  IndInv'
<1>1. PICK ref \in Refs, report \in Reports, id \in FreshRuns :
        tracker' = [tracker EXCEPT ![d] = [phase |-> "normalized", ref |-> ref, report |-> report, id |-> id,
                                           answer |-> None, deliveries |-> tracker[d].deliveries + 1]]
  BY DEF Normalize
<1>2. PICK t : t = [phase |-> "normalized", ref |-> ref, report |-> report, id |-> id,
                    answer |-> None, deliveries |-> tracker[d].deliveries + 1]
  OBVIOUS
<1>3. id \in Runs
  BY DEF FreshRuns
<1>4. t \in Delivery
  <2>1. tracker[d].deliveries + 1 \in 0..MaxDeliveries
    BY ResearchGraphAssumption DEF IndInv, TypeOK, Delivery, Normalize
  <2> QED BY <1>2, <1>3, <2>1 DEF Delivery
<1>5. DeliveryInv(d)'
  <2>1. tracker'[d] = t
    BY <1>1, <1>2 DEF IndInv, TypeOK
  <2> QED BY <1>2, <1>3, <2>1 DEF DeliveryInv
<1> QED BY <1>1, <1>2, <1>4, <1>5, DeliveryStep DEF Normalize

LEMMA UpsertRunKeeps ==
  ASSUME IndInv, NEW d \in Trackers, UpsertRun(d)
  PROVE  IndInv'
<1>1. /\ tracker[d] \in Delivery /\ tracker \in [Trackers -> Delivery]
      /\ tracker[d].ref \in Refs /\ tracker[d].report \in Reports /\ tracker[d].id \in Runs
  BY DEF IndInv, TypeOK, DeliveryInv, UpsertRun
<1>2. KeyOf(d) \in RunKeys
  BY <1>1, ResearchGraphAssumption DEF KeyOf, RunKeys
<1>3. CASE Rejected(d)
  <2>1. tracker' = [tracker EXCEPT ![d] = Done(tracker[d])]
    BY <1>3 DEF UpsertRun
  <2>2. tracker'[d] = Done(tracker[d]) /\ Done(tracker[d]).phase = "idle" /\ Done(tracker[d]) \in Delivery
    BY <1>1, <2>1, IdleType
  <2>3. DeliveryInv(d)'
    BY <2>2 DEF DeliveryInv
  <2> QED BY <2>1, <2>2, <2>3, DeliveryStep DEF UpsertRun
<1>4. CASE ~Rejected(d)
  <2>1. PICK a : a = RunUpsert(runs[KeyOf(d)], d)
    OBVIOUS
  <2>2. a \in Answer
    <3>1. runs[KeyOf(d)] \in Run \union {None}
      BY <1>2 DEF IndInv, TypeOK
    <3> QED BY <1>1, <2>1, <3>1 DEF RunUpsert, Answer, Run
  <2>3. PICK t : t = [tracker[d] EXCEPT !.phase = "written", !.answer = a]
    OBVIOUS
  <2>4. tracker' = [tracker EXCEPT ![d] = t] /\ tracker'[d] = t
    BY <1>1, <1>4, <2>1, <2>3 DEF UpsertRun
  <2>5. /\ t \in Delivery /\ t.phase = "written" /\ t.answer = a /\ t.ref = tracker[d].ref
        /\ t.report = tracker[d].report /\ t.id = tracker[d].id
    BY <1>1, <2>2, <2>3 DEF Delivery
  <2>6. KeyOf(d)' = KeyOf(d) /\ KeyOf(d) = <<TenantOf[d], t.ref>>
    BY <2>4, <2>5 DEF KeyOf
  <2>7. t.answer = RunUpsert(runs[KeyOf(d)], d)'
    BY <2>1, <2>4, <2>5, <2>6 DEF RunUpsert, UpsertRun
  <2>8. DeliveryInv(d)'
    BY <1>1, <1>4, <2>4, <2>5, <2>7 DEF DeliveryInv, Rejected
  <2> QED BY <2>4, <2>5, <2>6, <2>8, DeliveryStep DEF UpsertRun
<1> QED BY <1>3, <1>4

LEMMA DeliveryFailsKeeps ==
  ASSUME IndInv, NEW d \in Trackers, DeliveryFails(d)
  PROVE  IndInv'
<1>1. tracker[d] \in Delivery /\ tracker' = [tracker EXCEPT ![d] = Done(tracker[d])]
  BY DEF IndInv, TypeOK, DeliveryFails
<1>2. tracker'[d] = Done(tracker[d]) /\ Done(tracker[d]).phase = "idle" /\ Done(tracker[d]) \in Delivery
  BY <1>1, IdleType DEF IndInv, TypeOK
<1>3. DeliveryInv(d)'
  BY <1>2 DEF DeliveryInv
<1> QED BY <1>1, <1>2, <1>3, DeliveryStep DEF DeliveryFails

LEMMA FindRunKeeps ==
  ASSUME IndInv, NEW r \in Refreshers, FindRun(r)
  PROVE  IndInv'
<1>1. refresher[r] \in Refresh /\ refresher \in [Refreshers -> Refresh]
  BY DEF IndInv, TypeOK
<1>2. refresher[r].calls + 1 \in 0..MaxRefreshes
  <2>1. refresher[r].calls \in 0..MaxRefreshes /\ MaxRefreshes \in Nat
    BY <1>1, ResearchGraphAssumption DEF Refresh
  <2>2. refresher[r].calls < MaxRefreshes
    BY DEF FindRun
  <2> QED BY <2>1, <2>2
<1>3. CASE refresher' = [refresher EXCEPT ![r].calls = @ + 1]
  <2>1. PICK t : t = [refresher[r] EXCEPT !.calls = @ + 1]
    OBVIOUS
  <2>2. t \in Refresh /\ t.phase = "idle"
    BY <1>1, <1>2, <2>1 DEF Refresh, FindRun
  <2>3. refresher' = [refresher EXCEPT ![r] = t] /\ refresher'[r] = t
    BY <1>1, <1>3, <2>1
  <2>4. RefreshInv(r)'
    BY <2>2, <2>3 DEF RefreshInv
  <2> QED BY <2>2, <2>3, <2>4, RefreshStep DEF FindRun
<1>4. CASE \E id \in Runs : \E key \in RunsWithId(TenantOf[r], id) :
              refresher' = [refresher EXCEPT ![r].phase = "found", ![r].key = key,
                                             ![r].calls = @ + 1]
  <2>0. PICK id \in Runs : \E key \in RunsWithId(TenantOf[r], id) :
              refresher' = [refresher EXCEPT ![r].phase = "found", ![r].key = key,
                                             ![r].calls = @ + 1]
    BY <1>4
  <2>1. PICK key \in RunsWithId(TenantOf[r], id) :
              refresher' = [refresher EXCEPT ![r].phase = "found", ![r].key = key,
                                             ![r].calls = @ + 1]
    BY <2>0
  <2>2. key \in RunKeys /\ key[1] = TenantOf[r] /\ runs[key] # None
    BY DEF RunsWithId
  <2>3. PICK t : t = [refresher[r] EXCEPT !.phase = "found", !.key = key, !.calls = @ + 1]
    OBVIOUS
  <2>4. t \in Refresh /\ t.phase = "found" /\ t.key = key
    BY <1>1, <1>2, <2>2, <2>3 DEF Refresh
  <2>5. refresher' = [refresher EXCEPT ![r] = t] /\ refresher'[r] = t
    BY <1>1, <2>1, <2>3
  <2>6. RefreshInv(r)'
    BY <2>2, <2>4, <2>5 DEF RefreshInv, FindRun
  <2> QED BY <2>4, <2>5, <2>6, RefreshStep DEF FindRun
<1> QED BY <1>3, <1>4 DEF FindRun

LEMMA SumKeeps ==
  ASSUME IndInv, NEW r \in Refreshers, Sum(r)
  PROVE  IndInv'
<1>1. refresher[r] \in Refresh /\ refresher \in [Refreshers -> Refresh]
  BY DEF IndInv, TypeOK
<1>2. PICK total : total = SumEffectiveCost(cost_events, TenantOf[r], runs[refresher[r].key].id, RunCurrency)
  OBVIOUS
<1>3. total \in Int
  BY <1>2, CostsType DEF IndInv, TypeOK
<1>4. PICK t : t = [refresher[r] EXCEPT !.phase = "summed", !.current = TRUE,
                                          !.total = total]
  OBVIOUS
<1>5. t \in Refresh /\ t.phase = "summed" /\ t.key = refresher[r].key
  BY <1>1, <1>3, <1>4 DEF Refresh
<1>6. refresher' = [refresher EXCEPT ![r] = t] /\ refresher'[r] = t
  BY <1>1, <1>2, <1>4 DEF Sum
<1>7. RefreshInv(r)'
  BY <1>5, <1>6 DEF IndInv, RefreshInv, Sum
<1> QED BY <1>5, <1>6, <1>7, RefreshStep DEF Sum

LEMMA UpdateKeeps ==
  ASSUME IndInv, NEW r \in Refreshers, Update(r)
  PROVE  IndInv'
<1>1. refresher[r] \in Refresh /\ refresher \in [Refreshers -> Refresh]
  BY DEF IndInv, TypeOK
<1>2. refresher[r].key \in RunKeys /\ runs[refresher[r].key] \in Run \union {None}
  BY DEF IndInv, TypeOK, RefreshInv, Update
<1>3. PICK t : t = [refresher[r] EXCEPT !.phase = "written", !.row = runs[refresher[r].key]]
  OBVIOUS
<1>4. /\ t \in Refresh /\ t.phase = "written" /\ t.key = refresher[r].key
      /\ t.row = runs[refresher[r].key]
  BY <1>1, <1>2, <1>3 DEF Refresh
<1>5. refresher' = [refresher EXCEPT ![r] = t] /\ refresher'[r] = t
  BY <1>1, <1>3 DEF Update
<1>6. RefreshInv(r)'
  BY <1>4, <1>5 DEF IndInv, RefreshInv, Update
<1> QED BY <1>4, <1>5, <1>6, RefreshStep DEF Update

LEMMA RefreshFailsKeeps ==
  ASSUME IndInv, NEW r \in Refreshers, RefreshFails(r)
  PROVE  IndInv'
<1>1. refresher[r] \in Refresh /\ refresher' = [refresher EXCEPT ![r] = Ended(refresher[r])]
  BY DEF IndInv, TypeOK, RefreshFails
<1>2. refresher'[r] = Ended(refresher[r]) /\ Ended(refresher[r]).phase = "idle" /\ Ended(refresher[r]) \in Refresh
  BY <1>1, IdleType DEF IndInv, TypeOK
<1>3. RefreshInv(r)'
  BY <1>2 DEF RefreshInv
<1> QED BY <1>1, <1>2, <1>3, RefreshStep DEF RefreshFails

-----------------------------------------------------------------------------
(* The steps that write rows. *)

\* A commit writes the row of one run: whoever else has a part in it is not
\* about to write it too.
LEMMA CommitRunKeeps ==
  ASSUME IndInv, NEW d \in Trackers, CommitRun(d) \/ CommitRunLost(d)
  PROVE  IndInv'
<1> PICK k, a, u, old : k = KeyOf(d) /\ a = tracker[d].answer /\ u = tracker[d] /\ old = runs[k]
  OBVIOUS
<1>1. /\ u.phase = "written" /\ tracker' = [tracker EXCEPT ![d] = Done(u)]
      /\ runs' = RunWritten(d)
      /\ delivered' = [delivered EXCEPT ![k] = u.report]
      /\ told' = told \/ told' = told \union {<<k, d, a>>}
      /\ UNCHANGED <<cost_events, experiment, refresher, batches, stale>>
  BY DEF CommitRun, CommitRunLost
<1>2. TypeOK
  BY DEF IndInv
<1>3. /\ u \in Delivery /\ u.ref \in Refs /\ u.report \in Reports \ Invalid /\ u.id \in Runs
      /\ a = RunUpsert(old, d)
  BY <1>1, <1>2 DEF IndInv, TypeOK, DeliveryInv
<1>4. k \in RunKeys /\ old \in Run \union {None} /\ runs \in [RunKeys -> Run \union {None}]
  BY <1>2, <1>3, ResearchGraphAssumption DEF KeyOf, RunKeys, TypeOK
<1>5. PICK new : new = IF old = None THEN [id |-> u.id, report |-> u.report, attributed_cost |-> 0]
                       ELSE [old EXCEPT !.report = u.report]
  OBVIOUS
<1>6. /\ new \in Run /\ new # None /\ new.report = u.report /\ new.id = a.id
      /\ old # None => new.id = old.id
      /\ a \in Answer
      /\ a.kind = "Inserted" <=> old = None
  BY <1>3, <1>4, <1>5, NoneIsNoRun DEF Run, RunUpsert, Answer
<1>7. /\ runs'[k] = new
      /\ \A x \in RunKeys : x # k => runs'[x] = runs[x]
      /\ runs' \in [RunKeys -> Run \union {None}]
  BY <1>1, <1>4, <1>5, <1>6 DEF RunWritten
<1>8. /\ tracker'[d] = Done(u) /\ Done(u).phase = "idle" /\ Done(u) \in Delivery
      /\ \A e \in Trackers : e # d => tracker'[e] = tracker[e] /\ KeyOf(e)' = KeyOf(e)
  BY <1>1, <1>2, <1>3, IdleType DEF TypeOK, KeyOf
<1>9. TypeOK'
  <2>1. delivered' \in [RunKeys -> Reports \union {None}]
    BY <1>1, <1>2, <1>3 DEF TypeOK
  <2>2. told' \subseteq RunKeys \X Trackers \X Answer
    BY <1>1, <1>2, <1>4, <1>6 DEF TypeOK
  <2> QED BY <1>1, <1>2, <1>7, <1>8, <2>1, <2>2 DEF TypeOK
<1>10. LocksExclude'
  BY <1>1, <1>8 DEF IndInv, LocksExclude
<1>11. ASSUME NEW e \in Trackers PROVE DeliveryInv(e)'
  <2>1. CASE e = d
    BY <1>8, <2>1 DEF DeliveryInv
  <2>2. CASE e # d
    <3>1. DeliveryInv(e) /\ tracker'[e] = tracker[e] /\ KeyOf(e)' = KeyOf(e)
      BY <1>8, <2>2 DEF IndInv
    <3>2. CASE tracker[e].phase = "written"
      <4>1. KeyOf(e) # k /\ KeyOf(e) \in RunKeys
        BY <1>1, <2>2, <3>1, <3>2, ResearchGraphAssumption DEF IndInv, LocksExclude, DeliveryInv, KeyOf, RunKeys
      <4> QED BY <1>7, <3>1, <4>1 DEF DeliveryInv, RunUpsert
    <3>3. CASE tracker[e].phase # "written"
      BY <3>1, <3>3 DEF DeliveryInv
    <3> QED BY <3>2, <3>3
  <2> QED BY <2>1, <2>2
<1>12. ASSUME NEW r \in Refreshers PROVE RefreshInv(r)'
  <2>1. refresher[r].phase = "written" => refresher[r].key # k
    BY <1>1 DEF IndInv, LocksExclude
  <2> QED BY <1>1, <1>6, <1>7, <2>1 DEF IndInv, RefreshInv
<1>13. \A b \in told : /\ b[1] \in RunKeys /\ runs[b[1]] # None /\ runs[b[1]].id = b[3].id
                       /\ runs'[b[1]] # None /\ runs'[b[1]].id = b[3].id
  <2> SUFFICES ASSUME NEW b \in told
               PROVE  /\ b[1] \in RunKeys /\ runs[b[1]] # None /\ runs[b[1]].id = b[3].id
                      /\ runs'[b[1]] # None /\ runs'[b[1]].id = b[3].id
    OBVIOUS
  <2>1. b[1] \in RunKeys /\ runs[b[1]] # None /\ runs[b[1]].id = b[3].id
    BY <1>2 DEF IndInv, TypeOK, OneRunPerTrackerRecord
  <2> QED BY <1>6, <1>7, <2>1
<1>14. (\A b \in told' : runs'[b[1]] # None) /\ OneRunPerTrackerRecord'
  <2>1. \A b \in told' : b \in told \/ b = <<k, d, a>>
    BY <1>1
  <2>2. \A b \in told' : runs'[b[1]] # None /\ runs'[b[1]].id = b[3].id
    BY <1>6, <1>7, <1>13, <2>1
  <2>3. \A b \in told : b[1] = k => a.kind # "Inserted"
    BY <1>6, <1>13
  <2>4. \A b, c \in told' : (b[1] = c[1] /\ b[3].kind = "Inserted" /\ c[3].kind = "Inserted") => b = c
    BY <2>1, <2>3 DEF IndInv, OneRunPerTrackerRecord
  <2> QED BY <2>2, <2>4 DEF OneRunPerTrackerRecord
<1>15. NoReportIsLost'
  <2>1. delivered'[k] = u.report /\ \A x \in RunKeys : x # k => delivered'[x] = delivered[x]
    BY <1>1, <1>2, <1>4 DEF TypeOK
  <2> QED BY <1>3, <1>6, <1>7, <2>1 DEF IndInv, NoReportIsLost
<1> QED BY <1>9, <1>10, <1>11, <1>12, <1>14, <1>15 DEF IndInv

LEMMA CommitRefreshKeeps ==
  ASSUME IndInv, NEW r \in Refreshers, CommitRefresh(r)
  PROVE  IndInv'
<1> PICK k, u : k = refresher[r].key /\ u = refresher[r]
  OBVIOUS
<1>1. TypeOK /\ u \in Refresh /\ u.phase = "written" /\ k \in RunKeys /\ runs[k] # None /\ u.row = runs[k]
  BY DEF IndInv, TypeOK, CommitRefresh, RefreshInv
<1>2. PICK new : new = [runs[k] EXCEPT !.attributed_cost = u.total]
  OBVIOUS
<1>3. /\ runs[k] \in Run /\ new \in Run /\ new # None
      /\ new.id = runs[k].id /\ new.report = runs[k].report
  <2>1. runs[k] \in Run /\ u.total \in Int
    BY <1>1 DEF TypeOK, Refresh
  <2> QED BY <1>2, <2>1, NoneIsNoRun DEF Run
<1>4. /\ runs'[k] = new
      /\ \A x \in RunKeys : x # k => runs'[x] = runs[x]
      /\ runs' \in [RunKeys -> Run \union {None}]
  BY <1>1, <1>2, <1>3 DEF TypeOK, CommitRefresh
<1>5. /\ refresher'[r] = Ended(u) /\ Ended(u).phase = "idle" /\ Ended(u) \in Refresh
      /\ \A q \in Refreshers : q # r => refresher'[q] = refresher[q]
      /\ refresher' \in [Refreshers -> Refresh]
  BY <1>1, IdleType DEF TypeOK, CommitRefresh
<1>6. TypeOK'
  <2>1. stale' \subseteq RunKeys
    BY <1>1 DEF CommitRefresh, TypeOK
  <2> QED BY <1>1, <1>4, <1>5, <2>1 DEF CommitRefresh, TypeOK
<1>7. LocksExclude'
  BY <1>5 DEF CommitRefresh, IndInv, LocksExclude, KeyOf
<1>8. ASSUME NEW e \in Trackers PROVE DeliveryInv(e)'
  <2>1. DeliveryInv(e) /\ tracker'[e] = tracker[e] /\ KeyOf(e)' = KeyOf(e)
    BY DEF IndInv, CommitRefresh, KeyOf
  <2>2. CASE tracker[e].phase = "written"
    <3>1. KeyOf(e) # k /\ KeyOf(e) \in RunKeys
      BY <1>1, <2>1, <2>2, ResearchGraphAssumption DEF IndInv, LocksExclude, DeliveryInv, KeyOf, RunKeys
    <3> QED BY <1>4, <2>1, <3>1 DEF DeliveryInv, RunUpsert
  <2>3. CASE tracker[e].phase # "written"
    BY <2>1, <2>3 DEF DeliveryInv
  <2> QED BY <2>2, <2>3
<1>9. ASSUME NEW q \in Refreshers PROVE RefreshInv(q)'
  <2>1. CASE q = r
    BY <1>5, <2>1 DEF RefreshInv
  <2>2. CASE q # r
    <3>1. refresher[q].phase = "written" => refresher[q].key # k
      BY <1>1, <2>2 DEF IndInv, LocksExclude
    <3> QED BY <1>3, <1>4, <1>5, <2>2, <3>1 DEF IndInv, RefreshInv
  <2> QED BY <2>1, <2>2
<1>10. (\A b \in told' : runs'[b[1]] # None) /\ OneRunPerTrackerRecord'
  <2>1. told' = told /\ \A b \in told : b[1] \in RunKeys
    BY <1>1 DEF CommitRefresh, TypeOK
  <2> QED BY <1>3, <1>4, <2>1 DEF IndInv, OneRunPerTrackerRecord
<1>11. NoReportIsLost'
  <2> SUFFICES ASSUME NEW x \in RunKeys, runs'[x] # None
               PROVE  runs'[x].report = delivered[x] /\ runs'[x].report \notin Invalid
    BY DEF NoReportIsLost, CommitRefresh
  <2>1. runs[x] # None => runs[x].report = delivered[x] /\ runs[x].report \notin Invalid
    BY DEF IndInv, NoReportIsLost
  <2>2. CASE x = k
    BY <1>1, <1>3, <1>4, <2>1, <2>2
  <2>3. CASE x # k
    BY <1>4, <2>1, <2>3
  <2> QED BY <2>2, <2>3
<1> QED BY <1>6, <1>7, <1>8, <1>9, <1>10, <1>11 DEF IndInv

LEMMA CostLandsKeeps ==
  ASSUME IndInv, CostLands
  PROVE  IndInv'
<1>1. PICK batch \in Batches : cost_events' = Upserted(cost_events, batch)
  BY DEF CostLands
<1>2. /\ refresher \in [Refreshers -> Refresh]
      /\ refresher' \in [Refreshers -> Refresh]
      /\ \A r \in Refreshers : /\ refresher'[r].phase = refresher[r].phase
                               /\ refresher'[r].key = refresher[r].key
                               /\ refresher'[r].row = refresher[r].row
  <2>1. PICK b : b = FALSE /\ b \in BOOLEAN
    OBVIOUS
  <2>2. refresher' = [r \in Refreshers |-> [refresher[r] EXCEPT !.current = b]]
    BY <2>1, Zenon DEF CostLands
  <2>3. refresher \in [Refreshers -> Refresh]
    BY DEF IndInv, TypeOK
  <2> QED BY <2>1, <2>2, <2>3 DEF Refresh
<1>3. TypeOK'
  <2>1. cost_events' \in CostTable /\ IsFiniteSet(Stored(cost_events'))
    BY <1>1, UpsertedType, ResearchGraphAssumption DEF IndInv, TypeOK
  <2>2. batches' \in 0..MaxBatches
    BY ResearchGraphAssumption DEF CostLands, IndInv, TypeOK
  <2> QED BY <1>2, <2>1, <2>2 DEF CostLands, IndInv, TypeOK, Stored
<1>4. LocksExclude'
  BY <1>2 DEF CostLands, IndInv, LocksExclude, KeyOf
<1>5. \A d \in Trackers : DeliveryInv(d)'
  BY DEF CostLands, IndInv, DeliveryInv, KeyOf, RunUpsert
<1>6. \A r \in Refreshers : RefreshInv(r)'
  BY <1>2 DEF CostLands, IndInv, RefreshInv
<1> QED BY <1>3, <1>4, <1>5, <1>6 DEF CostLands, IndInv, OneRunPerTrackerRecord, NoReportIsLost

-----------------------------------------------------------------------------
(* The invariant, and what it says of every run of the store. *)

LEMMA InitInv ==
  ASSUME Init
  PROVE  IndInv
<1>1. Stored(EmptyTable) = {} /\ EmptyTable \in CostTable
  BY DEF Stored, EmptyTable, CostTable
<1>2. TypeOK
  <2>1. cost_events \in CostTable /\ IsFiniteSet(Stored(cost_events))
    BY <1>1, FS_EmptySet DEF Init
  <2>2. tracker \in [Trackers -> Delivery] /\ refresher \in [Refreshers -> Refresh]
    BY IdleType DEF Init
  <2>3. batches \in 0..MaxBatches
    BY ResearchGraphAssumption DEF Init
  <2> QED BY <2>1, <2>2, <2>3 DEF Init, TypeOK
<1>3. /\ \A d \in Trackers : tracker[d].phase = "idle"
      /\ \A r \in Refreshers : refresher[r].phase = "idle"
  BY DEF Init, NoDelivery, NoRefresh
<1>4. LocksExclude /\ (\A d \in Trackers : DeliveryInv(d)) /\ (\A r \in Refreshers : RefreshInv(r))
  BY <1>3 DEF LocksExclude, DeliveryInv, RefreshInv
<1>5. OneRunPerTrackerRecord /\ NoReportIsLost
  BY DEF Init, OneRunPerTrackerRecord, NoReportIsLost
<1> QED BY <1>2, <1>4, <1>5 DEF IndInv, Init

LEMMA StutterInv ==
  ASSUME IndInv, UNCHANGED vars
  PROVE  IndInv'
BY DEF IndInv, vars, TypeOK, LocksExclude, DeliveryInv, RefreshInv, OneRunPerTrackerRecord,
       NoReportIsLost, KeyOf, RunUpsert, Stored

LEMMA ExperimentKeeps ==
  ASSUME IndInv, upsert_experiment
  PROVE  IndInv'
BY DEF upsert_experiment, IndInv, TypeOK, LocksExclude, DeliveryInv, RefreshInv,
       OneRunPerTrackerRecord, NoReportIsLost, KeyOf, RunUpsert, Stored

LEMMA StepInv ==
  ASSUME IndInv, [Next]_vars
  PROVE  IndInv'
<1>1. CASE upsert_experiment
  BY <1>1, ExperimentKeeps
<1>2. CASE \E d \in Trackers :
             Normalize(d) \/ UpsertRun(d) \/ CommitRun(d) \/ CommitRunLost(d) \/ DeliveryFails(d)
  BY <1>2, NormalizeKeeps, UpsertRunKeeps, CommitRunKeeps, DeliveryFailsKeeps
<1>3. CASE \E r \in Refreshers : FindRun(r) \/ Sum(r) \/ Update(r) \/ CommitRefresh(r) \/ RefreshFails(r)
  BY <1>3, FindRunKeeps, SumKeeps, UpdateKeeps, CommitRefreshKeeps, RefreshFailsKeeps
<1>4. CASE CostLands
  BY <1>4, CostLandsKeeps
<1>5. CASE UNCHANGED vars
  BY <1>5, StutterInv
<1> QED BY <1>1, <1>2, <1>3, <1>4, <1>5 DEF Next

LEMMA Invariance == Spec => []IndInv
<1>1. Init => IndInv
  BY InitInv
<1>2. IndInv /\ [Next]_vars => IndInv'
  BY StepInv
<1> QED BY <1>1, <1>2, PTL DEF Spec

\* However many webhooks and polls deliver a tracker record at once, and
\* whatever of their transactions fail, upsert_run keeps one run for it: every
\* answer names the stored row, and at most one delivery is told Inserted.
THEOREM OneRunForARecord == Spec => []OneRunPerTrackerRecord
<1>1. IndInv => OneRunPerTrackerRecord
  BY DEF IndInv
<1> QED BY <1>1, Invariance, PTL

\* A stored run carries the report whose transaction committed last, one that
\* the table's constraints accept: no refresh of its cost, however it overlaps
\* the deliveries, writes an older report back.
THEOREM ReportsAreKept == Spec => []NoReportIsLost
<1>1. IndInv => NoReportIsLost
  BY DEF IndInv
<1> QED BY <1>1, Invariance, PTL

-----------------------------------------------------------------------------
(* The projection of costs, where refreshes do not overlap each other. *)

\* Every step but those of a refresh and of a batch leaves the sum of a run's
\* costs as it was; a delivery that inserts a run finds no costs to sum, or a
\* projection that counts as stale.
LEMMA DeliveryKeepsProjection ==
  ASSUME IndInv, ProjectionInv, NEW d \in Trackers, CommitRun(d) \/ CommitRunLost(d)
  PROVE  ProjectionInv'
<1> PICK k, u, old : k = KeyOf(d) /\ u = tracker[d] /\ old = runs[k]
  OBVIOUS
<1>1. runs' = RunWritten(d) /\ UNCHANGED <<cost_events, refresher, stale>> /\ u.phase = "written"
  BY DEF CommitRun, CommitRunLost
<1>2. k \in RunKeys /\ runs \in [RunKeys -> Run \union {None}] /\ u.id \in Runs /\ u.report \in Reports
  BY <1>1, ResearchGraphAssumption DEF IndInv, TypeOK, DeliveryInv, KeyOf, RunKeys
<1>3. \A x \in RunKeys : x # k => runs'[x] = runs[x]
  BY <1>1, <1>2 DEF RunWritten
<1>4. old = None => /\ runs'[k] # None
                    /\ runs'[k].attributed_cost = 0
  BY <1>1, <1>2, NoneIsNoRun DEF RunWritten, Run
<1>5. old # None => /\ runs'[k] # None
                    /\ runs'[k].id = old.id
                    /\ runs'[k].attributed_cost = old.attributed_cost
  <2>1. ASSUME old # None PROVE [old EXCEPT !.report = u.report] \in Run
    BY <1>2, <2>1 DEF Run
  <2> QED BY <1>1, <1>2, <2>1, NoneIsNoRun DEF RunWritten, Run
<1>6. \A x \in RunKeys : runs[x] # None => CostsOf(x)' = CostsOf(x)
  <2> SUFFICES ASSUME NEW x \in RunKeys, runs[x] # None PROVE CostsOf(x)' = CostsOf(x)
    OBVIOUS
  <2>1. runs'[x].id = runs[x].id
    BY <1>3, <1>5
  <2> QED BY <1>1, <2>1 DEF CostsOf
<1>7. \A x \in RunKeys \ stale :
         IF runs'[x] = None THEN cost_events = EmptyTable
         ELSE runs'[x].attributed_cost = CostsOf(x)'
  <2> SUFFICES ASSUME NEW x \in RunKeys \ stale
               PROVE  IF runs'[x] = None THEN cost_events = EmptyTable
                      ELSE runs'[x].attributed_cost = CostsOf(x)'
    OBVIOUS
  <2>1. IF runs[x] = None THEN cost_events = EmptyTable
        ELSE runs[x].attributed_cost = CostsOf(x)
    BY DEF ProjectionInv
  <2>2. CASE runs[x] # None
    BY <1>3, <1>5, <1>6, <2>1, <2>2
  <2>3. CASE runs[x] = None /\ x = k
    <3>1. cost_events' = EmptyTable
      BY <1>1, <2>1, <2>3
    <3>2. CostsOf(x)' = 0
      BY <3>1, NoCosts DEF CostsOf
    <3> QED BY <1>4, <2>3, <3>2
  <2>4. CASE runs[x] = None /\ x # k
    BY <1>3, <2>1, <2>4
  <2> QED BY <2>2, <2>3, <2>4
<1>8. ASSUME NEW r \in Refreshers, refresher[r].phase \in {"summed", "written"}, refresher[r].current
      PROVE  (refresher[r].total = CostsOf(refresher[r].key))'
  <2>1. PICK x : x = refresher[r].key
    OBVIOUS
  <2>2. x \in RunKeys /\ runs[x] # None
    BY <1>8, <2>1 DEF IndInv, RefreshInv
  <2>3. refresher[r].total = CostsOf(x)
    BY <1>8, <2>1 DEF ProjectionInv
  <2>4. CostsOf(x)' = CostsOf(x)
    BY <1>6, <2>2
  <2> QED BY <1>1, <2>1, <2>3, <2>4 DEF CostsOf
<1>9. \A r \in Refreshers :
        refresher[r].phase \in {"summed", "written"} /\ ~refresher[r].current => stale = RunKeys
  BY DEF ProjectionInv
<1> QED BY <1>1, <1>7, <1>8, <1>9 DEF ProjectionInv

\* What ProjectionInv says of one refresh.
RefreshProjected(r) ==
    /\ refresher[r].phase \in {"summed", "written"} /\ ~refresher[r].current => stale = RunKeys
    /\ refresher[r].phase \in {"summed", "written"} /\ refresher[r].current =>
          refresher[r].total = CostsOf(refresher[r].key)

LEMMA ProjectionParts ==
  ProjectionInv <=> /\ \A key \in RunKeys \ stale :
                          IF runs[key] = None THEN cost_events = EmptyTable
                          ELSE runs[key].attributed_cost = CostsOf(key)
                    /\ \A r \in Refreshers : RefreshProjected(r)
BY DEF ProjectionInv, RefreshProjected

LEMMA QuietKeepsProjection ==
  ASSUME ProjectionInv, UNCHANGED <<cost_events, runs, stale>>,
         \A r \in Refreshers : refresher'[r] = refresher[r] \/ RefreshProjected(r)'
  PROVE  ProjectionInv'
<1>1. \A key \in RunKeys : CostsOf(key)' = CostsOf(key)
  BY DEF CostsOf
<1>2. ASSUME NEW r \in Refreshers, refresher'[r] = refresher[r] PROVE RefreshProjected(r)'
  <2>1. RefreshProjected(r)
    BY ProjectionParts
  <2> QED BY <1>2, <2>1 DEF RefreshProjected, CostsOf
<1> QED BY <1>1, <1>2 DEF ProjectionInv, RefreshProjected

LEMMA RefreshKeepsProjection ==
  ASSUME IndInv, ProjectionInv, NEW r \in Refreshers,
         FindRun(r) \/ Sum(r) \/ Update(r) \/ RefreshFails(r)
  PROVE  ProjectionInv'
<1>1. /\ refresher \in [Refreshers -> Refresh] /\ refresher[r] \in Refresh
      /\ UNCHANGED <<cost_events, runs, stale>>
  BY DEF IndInv, TypeOK, FindRun, Sum, Update, RefreshFails
<1>2. \A q \in Refreshers : q # r => refresher'[q] = refresher[q]
  BY <1>1 DEF FindRun, Sum, Update, RefreshFails
<1>3. RefreshProjected(r)
  BY ProjectionParts
<1>4. RefreshProjected(r)'
  <2>1. CASE FindRun(r)
    <3>1. CASE refresher' = [refresher EXCEPT ![r].calls = @ + 1]
      <4>1. refresher'[r].phase = "idle"
        BY <1>1, <2>1, <3>1 DEF FindRun, Refresh
      <4> QED BY <4>1 DEF RefreshProjected
    <3>2. CASE \E id \in Runs : \E key \in RunsWithId(TenantOf[r], id) :
              refresher' = [refresher EXCEPT ![r].phase = "found", ![r].key = key,
                                             ![r].calls = @ + 1]
      <4>1. refresher'[r].phase = "found"
        BY <1>1, <3>2 DEF Refresh
      <4> QED BY <4>1 DEF RefreshProjected
    <3> QED BY <2>1, <3>1, <3>2 DEF FindRun
  <2>2. CASE Sum(r)
    <3>1. PICK k, total : k = refresher[r].key /\ total = CostsOf(k)
      OBVIOUS
    <3>2. k[1] = TenantOf[r] /\ refresher[r].phase = "found"
      BY <2>2, <3>1 DEF IndInv, RefreshInv, Sum
    <3>3. refresher' = [refresher EXCEPT ![r].phase = "summed", ![r].current = TRUE,
                                            ![r].total = total]
      BY <2>2, <3>1, <3>2 DEF Sum, CostsOf
    <3>4. /\ refresher'[r].phase = "summed" /\ refresher'[r].key = k /\ refresher'[r].total = total
          /\ refresher'[r].current
      BY <1>1, <3>1, <3>3 DEF Refresh
    <3>5. CostsOf(k)' = CostsOf(k)
      BY <1>1 DEF CostsOf
    <3>6. (refresher[r].total = CostsOf(refresher[r].key))'
      BY <3>1, <3>4, <3>5 DEF CostsOf
    <3> QED BY <3>4, <3>6 DEF RefreshProjected
  <2>3. CASE Update(r)
    <3>1. PICK k, row : k = refresher[r].key /\ row = runs[k]
      OBVIOUS
    <3>2. refresher' = [refresher EXCEPT ![r].phase = "written", ![r].row = row] /\ refresher[r].phase = "summed"
      BY <2>3, <3>1 DEF Update
    <3>3. /\ refresher'[r].phase = "written" /\ refresher'[r].key = k
          /\ refresher'[r].total = refresher[r].total /\ refresher'[r].current = refresher[r].current
      BY <1>1, <3>1, <3>2 DEF Refresh
    <3>4. CostsOf(k)' = CostsOf(k)
      BY <1>1 DEF CostsOf
    <3>5. refresher[r].current => (refresher[r].total = CostsOf(refresher[r].key))'
      BY <1>3, <3>1, <3>2, <3>3, <3>4 DEF CostsOf, RefreshProjected
    <3> QED BY <1>1, <1>3, <3>2, <3>3, <3>5 DEF RefreshProjected
  <2>4. CASE RefreshFails(r)
    <3>1. refresher'[r].phase = "idle"
      BY <1>1, <2>4, IdleType DEF RefreshFails
    <3> QED BY <3>1 DEF RefreshProjected
  <2> QED BY <2>1, <2>2, <2>3, <2>4
<1> QED BY <1>1, <1>2, <1>4, QuietKeepsProjection

\* The refresh that saw every batch leaves the sum behind.  One that did not
\* leaves the projections as stale as they were.
LEMMA CommitRefreshKeepsProjection ==
  ASSUME IndInv, ProjectionInv, NEW r \in Refreshers, CommitRefresh(r),
         \A q \in Refreshers : q = r
  PROVE  ProjectionInv'
<1> PICK k, u : k = refresher[r].key /\ u = refresher[r]
  OBVIOUS
<1>1. /\ u.phase = "written" /\ k \in RunKeys /\ runs[k] \in Run /\ u.row = runs[k]
      /\ runs \in [RunKeys -> Run \union {None}]
      /\ UNCHANGED cost_events
  BY DEF CommitRefresh, IndInv, TypeOK, RefreshInv
<1>2. /\ runs'[k] = [runs[k] EXCEPT !.attributed_cost = u.total]
      /\ \A x \in RunKeys : x # k => runs'[x] = runs[x]
  BY <1>1 DEF CommitRefresh
<1>3. runs'[k].attributed_cost = u.total /\ runs'[k].id = runs[k].id /\ runs'[k] # None
  <2>1. runs'[k] \in Run
    BY <1>1, <1>2 DEF Run, IndInv, TypeOK, Refresh
  <2> QED BY <1>1, <1>2, <2>1, NoneIsNoRun DEF Run
<1>4. \A x \in RunKeys : runs[x] # None => CostsOf(x)' = CostsOf(x)
  BY <1>1, <1>2, <1>3 DEF CostsOf
<1>5. ASSUME NEW q \in Refreshers PROVE RefreshProjected(q)'
  <2>1. refresher'[q].phase = "idle"
    BY <1>1, IdleType DEF CommitRefresh, IndInv, TypeOK
  <2> QED BY <2>1 DEF RefreshProjected
<1>6. ASSUME NEW x \in RunKeys \ stale'
      PROVE  IF runs'[x] = None THEN cost_events' = EmptyTable
             ELSE runs'[x].attributed_cost = CostsOf(x)'
  <2>1. u.current
    <3> SUFFICES ASSUME ~u.current PROVE FALSE
      OBVIOUS
    <3>1. stale = RunKeys /\ stale' = stale
      BY <1>1 DEF ProjectionInv, CommitRefresh
    <3> QED BY <3>1, <1>6
  <2>2. u.total = CostsOf(k) /\ stale' = stale \ {k}
    BY <1>1, <2>1 DEF ProjectionInv, CommitRefresh
  <2>3. CASE x = k
    <3>1. CostsOf(x)' = CostsOf(x)
      BY <1>1, <1>4, <2>3, NoneIsNoRun
    <3> QED BY <1>3, <2>2, <2>3, <3>1
  <2>4. CASE x # k
    <3>1. x \in RunKeys \ stale
      BY <2>2, <2>4
    <3>2. IF runs[x] = None THEN cost_events = EmptyTable
          ELSE runs[x].attributed_cost = CostsOf(x)
      BY <3>1 DEF ProjectionInv
    <3> QED BY <1>1, <1>2, <1>4, <2>4, <3>2
  <2> QED BY <2>3, <2>4
<1> QED BY <1>5, <1>6 DEF ProjectionInv, RefreshProjected

LEMMA CostLandsKeepsProjection ==
  ASSUME IndInv, CostLands
  PROVE  ProjectionInv'
<1>1. stale' = RunKeys
  BY DEF CostLands
<1>2. ASSUME NEW r \in Refreshers PROVE RefreshProjected(r)'
  <2>1. refresher[r] \in Refresh
    BY DEF IndInv, TypeOK
  <2>2. ~refresher'[r].current
    BY <2>1 DEF CostLands, Refresh
  <2> QED BY <1>1, <2>2 DEF RefreshProjected
<1> QED BY <1>1, <1>2 DEF ProjectionInv, RefreshProjected

LEMMA ProjectionStep ==
  ASSUME IndInv, ProjectionInv, [Next]_vars, \A r, q \in Refreshers : r = q
  PROVE  ProjectionInv'
<1>1. CASE \/ upsert_experiment
           \/ \E d \in Trackers : Normalize(d) \/ UpsertRun(d) \/ DeliveryFails(d)
           \/ UNCHANGED vars
  <2>1. UNCHANGED <<cost_events, runs, stale, refresher>>
    BY <1>1 DEF upsert_experiment, Normalize, UpsertRun, DeliveryFails, vars
  <2> QED BY <2>1, QuietKeepsProjection
<1>2. CASE \E d \in Trackers : CommitRun(d) \/ CommitRunLost(d)
  BY <1>2, DeliveryKeepsProjection
<1>3. CASE \E r \in Refreshers : FindRun(r) \/ Sum(r) \/ Update(r) \/ RefreshFails(r)
  BY <1>3, RefreshKeepsProjection
<1>4. CASE \E r \in Refreshers : CommitRefresh(r)
  BY <1>4, CommitRefreshKeepsProjection
<1>5. CASE CostLands
  BY <1>5, CostLandsKeepsProjection
<1> QED BY <1>1, <1>2, <1>3, <1>4, <1>5 DEF Next

\* refresh_attributed_cost recomputes and never adds, so running it twice is
\* harmless: where one refresh runs at a time, the cost a run shows once a
\* refresh that saw every batch has committed is the sum of its cost events,
\* however deliveries and batches fall in between.  Two at once break it: see
\* the run research_graph_overlap.
THEOREM ProjectionsAreSums ==
  ASSUME \A r, q \in Refreshers : r = q
  PROVE  Spec => []ProjectionIsCurrent
<1>1. Init => ProjectionInv
  <2> SUFFICES ASSUME Init PROVE ProjectionInv
    OBVIOUS
  <2>1. cost_events = EmptyTable /\ \A r \in Refreshers : refresher[r].phase = "idle"
    BY DEF Init, NoRefresh
  <2>2. \A key \in RunKeys : runs[key] = None
    BY DEF Init
  <2> QED BY <2>1, <2>2 DEF ProjectionInv
<1>2. IndInv /\ ProjectionInv /\ [Next]_vars => ProjectionInv'
  BY ProjectionStep
<1>3. ProjectionInv => ProjectionIsCurrent
  BY DEF ProjectionInv, ProjectionIsCurrent, CostsOf
<1> QED BY <1>1, <1>2, <1>3, Invariance, PTL DEF Spec

=============================================================================
