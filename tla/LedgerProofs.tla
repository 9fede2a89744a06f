---------------------------- MODULE LedgerProofs ----------------------------
(***************************************************************************)
(* Facts about the operators of Ledger, for every set of accounts,         *)
(* currencies, ids and runs: replay is the step-by-step application of     *)
(* apply_event, keeps the type of the state, and remembers every reversal; *)
(* a line moves the balance sheet by its signed amount, an accepted entry  *)
(* by nothing, and its mirror by nothing.                                  *)
(***************************************************************************)
EXTENDS Ledger, SumProofs

-----------------------------------------------------------------------------
(* replay unfolds one event at a time. *)

\* The function replay builds for the first N events.
ReplayFn(events, N) ==
    CHOOSE g : g = [n \in 0..N |-> IF n = 0 THEN DefaultState
                                            ELSE apply_event(g[n - 1], events[n])]

LEMMA ReplayFnDef ==
  ASSUME NEW events, NEW N \in Nat
  PROVE  ReplayFn(events, N) =
            [n \in 0..N |-> IF n = 0 THEN DefaultState
                                     ELSE apply_event(ReplayFn(events, N)[n - 1], events[n])]
<1> DEFINE F(m, g) == [n \in 0..m |-> IF n = 0 THEN DefaultState
                                               ELSE apply_event(g[n - 1], events[n])]
           S == {m \in Nat : \E g : g = F(m, g)}
<1>1. 0 \in S
  <2> DEFINE g == [n \in 0..0 |-> DefaultState]
  <2>1. g = F(0, g)
    OBVIOUS
  <2> QED BY <2>1
<1>2. ASSUME NEW m \in Nat, m \in S PROVE m + 1 \in S
  <2>1. PICK g : g = F(m, g)
    BY <1>2
  <2> DEFINE h == [n \in 0..(m + 1) |-> IF n = m + 1 THEN apply_event(g[m], events[m + 1])
                                                   ELSE g[n]]
  <2>2. ASSUME NEW n \in 0..(m + 1)
        PROVE  h[n] = IF n = 0 THEN DefaultState ELSE apply_event(h[n - 1], events[n])
    <3>1. CASE n = m + 1
      BY <3>1
    <3>2. CASE n # m + 1
      <4>1. n \in 0..m /\ h[n] = g[n] /\ (n # 0 => h[n - 1] = g[n - 1])
        BY <3>2
      <4>2. g[n] = IF n = 0 THEN DefaultState ELSE apply_event(g[n - 1], events[n])
        BY <2>1, <4>1
      <4> QED BY <4>1, <4>2
    <3> QED BY <3>1, <3>2
  <2>3. h = F(m + 1, h)
    BY <2>2
  <2>4. \E f : f = F(m + 1, f)
    <3> HIDE DEF h, F
    <3> QED BY <2>3
  <2> QED BY <2>4
<1>3. N \in S
  <2> HIDE DEF S
  <2> QED BY <1>1, <1>2, SetInduction
<1>4. \E g : g = F(N, g)
  BY <1>3
<1> QED BY <1>4 DEF ReplayFn

\* The first M states depend on the first M events only.
LEMMA ReplayFnPrefix ==
  ASSUME NEW e1, NEW e2, NEW M \in Nat, NEW N \in Nat, M <= N,
         \A n \in 1..M : e1[n] = e2[n]
  PROVE  \A n \in 0..M : ReplayFn(e1, M)[n] = ReplayFn(e2, N)[n]
<1> DEFINE S == {n \in Nat : n \in 0..M => ReplayFn(e1, M)[n] = ReplayFn(e2, N)[n]}
<1>1. 0 \in S
  BY ReplayFnDef
<1>2. ASSUME NEW n \in Nat, n \in S PROVE n + 1 \in S
  <2>1. SUFFICES ASSUME n + 1 \in 0..M
                 PROVE  ReplayFn(e1, M)[n + 1] = ReplayFn(e2, N)[n + 1]
    OBVIOUS
  <2>2. ReplayFn(e1, M)[n] = ReplayFn(e2, N)[n]
    BY <1>2, <2>1
  <2>3. ReplayFn(e1, M)[n + 1] = apply_event(ReplayFn(e1, M)[n], e1[n + 1])
    BY <2>1, ReplayFnDef
  <2>4. ReplayFn(e2, N)[n + 1] = apply_event(ReplayFn(e2, N)[n], e2[n + 1])
    BY <2>1, ReplayFnDef
  <2>5. e1[n + 1] = e2[n + 1]
    BY <2>1
  <2> QED BY <2>2, <2>3, <2>4, <2>5
<1>3. Nat \subseteq S
  <2> HIDE DEF S
  <2> QED BY <1>1, <1>2, SetInduction
<1> QED BY <1>3

LEMMA ReplayIsReplayFn ==
  ASSUME NEW events
  PROVE  replay(events) = ReplayFn(events, Len(events))[Len(events)]
BY DEF replay, ReplayFn

\* Replaying nothing gives the default state, and replaying one more event
\* applies it to what the events before it replay to (load, ledger_store.rs).
THEOREM ReplayStep ==
  /\ replay(<<>>) = DefaultState
  /\ \A T : \A s \in Seq(T), e \in T : replay(Append(s, e)) = apply_event(replay(s), e)
<1>1. replay(<<>>) = DefaultState
  BY ReplayIsReplayFn, ReplayFnDef
<1>2. ASSUME NEW T, NEW s \in Seq(T), NEW e \in T
      PROVE  replay(Append(s, e)) = apply_event(replay(s), e)
  <2> DEFINE n == Len(s)
             t == Append(s, e)
  <2>1. n \in Nat /\ Len(t) = n + 1 /\ t[n + 1] = e /\ \A i \in 1..n : s[i] = t[i]
    OBVIOUS
  <2>2. ReplayFn(t, n + 1)[n + 1] = apply_event(ReplayFn(t, n + 1)[n], e)
    <3> HIDE DEF n, t
    <3> QED BY <2>1, ReplayFnDef
  <2>3. ReplayFn(s, n)[n] = ReplayFn(t, n + 1)[n]
    <3> HIDE DEF n, t
    <3> QED BY <2>1, ReplayFnPrefix
  <2> QED BY <2>1, <2>2, <2>3, ReplayIsReplayFn
<1> QED BY <1>1, <1>2

-----------------------------------------------------------------------------
(* post keeps the type of the balances. *)

Balances == [Accounts -> Money \union {None}]

LEMMA PostLineType ==
  ASSUME NEW b \in Balances, NEW line \in JournalLine
  PROVE  PostLine(b, line) \in Balances
<1> DEFINE delta == signed_amount(line)
           current == b[line.account]
<1>1. delta \in Money \union {None}
  BY DEF signed_amount, JournalLine, Money
<1>2. line.account \in Accounts /\ current \in Money \union {None}
  BY DEF Balances, JournalLine
<1>3. CASE delta = None
  BY <1>3 DEF PostLine
<1>4. CASE delta # None /\ current = None
  BY <1>1, <1>2, <1>4 DEF PostLine, Balances
<1>5. CASE delta # None /\ current # None
  <2>1. delta \in Money /\ current \in Money
    BY <1>1, <1>2, <1>5
  <2>2. [current EXCEPT !.amount = @ + delta.amount] \in Money
    BY <2>1 DEF Money
  <2>3. [b EXCEPT ![line.account].amount = @ + delta.amount] \in Balances
    BY <1>2, <2>2 DEF Balances
  <2>4. PostLine(b, line) \in {b, [b EXCEPT ![line.account].amount = @ + delta.amount]}
    BY <1>5 DEF PostLine
  <2> QED BY <2>3, <2>4
<1> QED BY <1>3, <1>4, <1>5

\* The function PostLines builds for the first N lines.
PostFn(b, lines, N) ==
    CHOOSE g : g = [n \in 0..N |-> IF n = 0 THEN b ELSE PostLine(g[n - 1], lines[n])]

LEMMA PostFnDef ==
  ASSUME NEW b, NEW lines, NEW N \in Nat
  PROVE  PostFn(b, lines, N) =
            [n \in 0..N |-> IF n = 0 THEN b ELSE PostLine(PostFn(b, lines, N)[n - 1], lines[n])]
<1> DEFINE F(m, g) == [n \in 0..m |-> IF n = 0 THEN b ELSE PostLine(g[n - 1], lines[n])]
           S == {m \in Nat : \E g : g = F(m, g)}
<1>1. 0 \in S
  <2> DEFINE g == [n \in 0..0 |-> b]
  <2>1. g = F(0, g)
    OBVIOUS
  <2> QED BY <2>1
<1>2. ASSUME NEW m \in Nat, m \in S PROVE m + 1 \in S
  <2>1. PICK g : g = F(m, g)
    BY <1>2
  <2> DEFINE h == [n \in 0..(m + 1) |-> IF n = m + 1 THEN PostLine(g[m], lines[m + 1]) ELSE g[n]]
  <2>2. ASSUME NEW n \in 0..(m + 1)
        PROVE  h[n] = IF n = 0 THEN b ELSE PostLine(h[n - 1], lines[n])
    <3>1. CASE n = m + 1
      BY <3>1
    <3>2. CASE n # m + 1
      <4>1. n \in 0..m /\ h[n] = g[n] /\ (n # 0 => h[n - 1] = g[n - 1])
        BY <3>2
      <4>2. g[n] = IF n = 0 THEN b ELSE PostLine(g[n - 1], lines[n])
        BY <2>1, <4>1
      <4> QED BY <4>1, <4>2
    <3> QED BY <3>1, <3>2
  <2>3. h = F(m + 1, h)
    BY <2>2
  <2>4. \E f : f = F(m + 1, f)
    <3> HIDE DEF h, F
    <3> QED BY <2>3
  <2> QED BY <2>4
<1>3. N \in S
  <2> HIDE DEF S
  <2> QED BY <1>1, <1>2, SetInduction
<1>4. \E g : g = F(N, g)
  BY <1>3
<1> QED BY <1>4 DEF PostFn

LEMMA PostLinesType ==
  ASSUME NEW b \in Balances, NEW lines \in Seq(JournalLine)
  PROVE  PostLines(b, lines) \in Balances
<1> DEFINE N == Len(lines)
           S == {n \in Nat : n \in 0..N => PostFn(b, lines, N)[n] \in Balances}
<1>1. N \in Nat
  OBVIOUS
<1>2. 0 \in S
  <2> HIDE DEF N
  <2> QED BY <1>1, PostFnDef
<1>3. ASSUME NEW n \in Nat, n \in S PROVE n + 1 \in S
  <2>1. SUFFICES ASSUME n + 1 \in 0..N PROVE PostFn(b, lines, N)[n + 1] \in Balances
    OBVIOUS
  <2>2. PostFn(b, lines, N)[n] \in Balances
    BY <1>3, <2>1, <1>1
  <2>3. lines[n + 1] \in JournalLine
    BY <2>1
  <2>4. PostFn(b, lines, N)[n + 1] = PostLine(PostFn(b, lines, N)[n], lines[n + 1])
    <3> HIDE DEF N
    <3> QED BY <2>1, <1>1, PostFnDef
  <2> QED BY <2>2, <2>3, <2>4, PostLineType
<1>4. Nat \subseteq S
  <2> HIDE DEF S
  <2> QED BY <1>2, <1>3, SetInduction
<1>5. PostFn(b, lines, N)[N] \in Balances
  BY <1>1, <1>4
<1> QED BY <1>5 DEF PostLines, PostFn

LEMMA MirrorType ==
  ASSUME NEW lines \in Seq(JournalLine)
  PROVE  mirror(lines) \in Seq(JournalLine)
<1> DEFINE M(i) == [account |-> lines[i].account, debit |-> lines[i].credit,
                    credit |-> lines[i].debit]
<1>1. ASSUME NEW i \in 1..Len(lines) PROVE M(i) \in JournalLine
  <2>1. lines[i] \in JournalLine
    OBVIOUS
  <2> QED BY <2>1 DEF JournalLine
<1>2. Len(lines) \in Nat
  OBVIOUS
<1>3. mirror(lines) \in [1..Len(lines) -> JournalLine]
  BY <1>1 DEF mirror
<1> QED BY <1>2, <1>3

LEMMA PostType ==
  ASSUME NEW state \in LedgerState, NEW id \in EntryIds, NEW lines \in Seq(JournalLine)
  PROVE  post(state, id, lines) \in LedgerState
<1>1. PostLines(state.balances, lines) \in Balances
  BY PostLinesType DEF LedgerState, Balances
<1> QED BY <1>1 DEF post, LedgerState, Balances

LEMMA ApplyEventType ==
  ASSUME NEW state \in LedgerState, NEW event \in LedgerEvent
  PROVE  apply_event(state, event) \in LedgerState
<1>1. CASE event.kind = "JournalEntryPosted"
  <2>1. event.id \in EntryIds /\ event.lines \in Seq(JournalLine)
    BY <1>1 DEF LedgerEvent
  <2> QED BY <1>1, <2>1, PostType DEF apply_event
<1>2. CASE event.kind = "EntryReversed"
  <2> DEFINE original == state.entries[event.original_id]
             posted == IF original = None THEN state
                       ELSE post(state, event.reversal_id, mirror(original))
  <2>1. event.original_id \in EntryIds /\ event.reversal_id \in EntryIds
    BY <1>2 DEF LedgerEvent
  <2>2. original \in Seq(JournalLine) \union {None}
    BY <2>1 DEF LedgerState
  <2>3. posted \in LedgerState
    <3>1. CASE original = None
      BY <3>1
    <3>2. CASE original # None
      <4>1. mirror(original) \in Seq(JournalLine)
        BY <2>2, <3>2, MirrorType
      <4> QED BY <3>2, <4>1, <2>1, PostType
    <3> QED BY <3>1, <3>2
  <2>4. apply_event(state, event) = [posted EXCEPT !.reversed = @ \union {event.original_id}]
    BY <1>2 DEF apply_event
  <2> HIDE DEF posted
  <2> QED BY <2>1, <2>3, <2>4 DEF LedgerState
<1>3. CASE event.kind = "CapitalizationStatusChanged"
  <2>1. event.run_id \in Runs /\ event.to \in Statuses
    BY <1>3 DEF LedgerEvent
  <2>2. apply_event(state, event) = [state EXCEPT !.capitalization[event.run_id] = event.to]
    BY <1>3 DEF apply_event
  <2> QED BY <2>1, <2>2 DEF LedgerState
<1> QED BY <1>1, <1>2, <1>3 DEF LedgerEvent

LEMMA ReplayFnType ==
  ASSUME NEW events \in Seq(LedgerEvent)
  PROVE  \A n \in 0..Len(events) : ReplayFn(events, Len(events))[n] \in LedgerState
<1> DEFINE N == Len(events)
           S == {n \in Nat : n \in 0..N => ReplayFn(events, N)[n] \in LedgerState}
<1>1. N \in Nat
  OBVIOUS
<1>2. 0 \in S
  <2>1. DefaultState \in LedgerState
    BY DEF DefaultState, LedgerState
  <2>2. ReplayFn(events, N)[0] = DefaultState
    <3> HIDE DEF N
    <3> QED BY <1>1, ReplayFnDef
  <2> QED BY <2>1, <2>2
<1>3. ASSUME NEW n \in Nat, n \in S PROVE n + 1 \in S
  <2>1. SUFFICES ASSUME n + 1 \in 0..N PROVE ReplayFn(events, N)[n + 1] \in LedgerState
    OBVIOUS
  <2>2. ReplayFn(events, N)[n] \in LedgerState
    BY <1>3, <2>1, <1>1
  <2>3. events[n + 1] \in LedgerEvent
    BY <2>1
  <2>4. ReplayFn(events, N)[n + 1] = apply_event(ReplayFn(events, N)[n], events[n + 1])
    <3> HIDE DEF N
    <3> QED BY <2>1, <1>1, ReplayFnDef
  <2> QED BY <2>2, <2>3, <2>4, ApplyEventType
<1>4. Nat \subseteq S
  <2> HIDE DEF S
  <2> QED BY <1>2, <1>3, SetInduction
<1> QED BY <1>1, <1>4

\* Replaying any stream of events gives a well-formed LedgerState: apply_event
\* is total and "cannot reject" (ledger.rs, rule 1).
THEOREM ReplayType ==
  ASSUME NEW events \in Seq(LedgerEvent)
  PROVE  replay(events) \in LedgerState
<1>1. Len(events) \in 0..Len(events)
  OBVIOUS
<1> QED BY <1>1, ReplayFnType, ReplayIsReplayFn

-----------------------------------------------------------------------------
(* replay remembers reversals. *)

LEMMA ApplyEventReversed ==
  ASSUME NEW state \in LedgerState, NEW event \in LedgerEvent
  PROVE  /\ state.reversed \subseteq apply_event(state, event).reversed
         /\ event.kind = "EntryReversed" =>
               event.original_id \in apply_event(state, event).reversed
<1> DEFINE original == state.entries[event.original_id]
           posted == IF original = None THEN state
                     ELSE post(state, event.reversal_id, mirror(original))
<1>1. CASE event.kind = "JournalEntryPosted"
  BY <1>1 DEF apply_event, post, LedgerState
<1>2. CASE event.kind = "EntryReversed"
  <2>1. posted.reversed = state.reversed
    BY DEF post, LedgerState
  <2>2. posted \in [balances : {posted.balances}, entries : {posted.entries},
                    reversed : {posted.reversed}, capitalization : {posted.capitalization}]
    BY DEF post, LedgerState
  <2>3. apply_event(state, event) = [posted EXCEPT !.reversed = @ \union {event.original_id}]
    BY <1>2 DEF apply_event
  <2> HIDE DEF posted
  <2>4. apply_event(state, event).reversed = posted.reversed \union {event.original_id}
    BY <2>2, <2>3
  <2> QED BY <2>1, <2>4
<1>3. CASE event.kind = "CapitalizationStatusChanged"
  BY <1>3 DEF apply_event, LedgerState
<1> QED BY <1>1, <1>2, <1>3 DEF LedgerEvent

\* Every reversal in a stream is in the replayed set of reversed entries, so
\* that handle_command will refuse a second one (AlreadyReversed, ledger.rs).
THEOREM ReplayRemembersReversals ==
  ASSUME NEW events \in Seq(LedgerEvent), NEW i \in 1..Len(events),
         events[i].kind = "EntryReversed"
  PROVE  events[i].original_id \in replay(events).reversed
<1> DEFINE N == Len(events)
           St(n) == ReplayFn(events, N)[n]
           S == {n \in Nat : n \in i..N => events[i].original_id \in St(n).reversed}
<1>1. N \in Nat /\ i \in 1..N
  OBVIOUS
<1>2. ASSUME NEW n \in 1..N
      PROVE  /\ St(n) = apply_event(St(n - 1), events[n])
             /\ St(n - 1) \in LedgerState
             /\ events[n] \in LedgerEvent
  <2>1. \A m \in 0..N : St(m) \in LedgerState
    BY ReplayFnType
  <2>2. events[n] \in LedgerEvent
    OBVIOUS
  <2> HIDE DEF N
  <2>3. St(n) = apply_event(St(n - 1), events[n])
    BY <1>1, ReplayFnDef
  <2> QED BY <1>1, <2>1, <2>2, <2>3
<1>3. 0 \in S
  BY <1>1
<1>4. ASSUME NEW n \in Nat, n \in S PROVE n + 1 \in S
  <2>1. SUFFICES ASSUME n + 1 \in i..N
                 PROVE  events[i].original_id \in St(n + 1).reversed
    OBVIOUS
  <2>2. St(n + 1) = apply_event(St(n), events[n + 1]) /\ St(n) \in LedgerState
        /\ events[n + 1] \in LedgerEvent
    <3>1. n + 1 \in 1..N /\ (n + 1) - 1 = n
      BY <1>1, <2>1
    <3> HIDE DEF N, St
    <3> QED BY <1>2, <3>1
  <2>3. CASE n + 1 = i
    BY <2>2, <2>3, ApplyEventReversed
  <2>4. CASE n + 1 # i
    <3>1. events[i].original_id \in St(n).reversed
      BY <1>1, <1>4, <2>1, <2>4
    <3> QED BY <2>2, <3>1, ApplyEventReversed
  <2> QED BY <2>3, <2>4
<1>5. Nat \subseteq S
  <2> HIDE DEF S
  <2> QED BY <1>3, <1>4, SetInduction
<1>6. events[i].original_id \in St(N).reversed
  BY <1>1, <1>5
<1> QED BY <1>6, ReplayIsReplayFn

-----------------------------------------------------------------------------
(* An accepted command's event is an event of the ledger. *)

LEMMA CommandEventType ==
  ASSUME NEW state \in LedgerState, NEW command \in LedgerCommand,
         NEW ids \in SUBSET EntryIds, NEW id \in NewIds(command, ids)
  PROVE  CommandEvent(state, command, id) \in LedgerEvent /\ id \in EntryIds \union {None}
<1>1. CASE command.kind = "PostJournalEntry"
  <2>1. id \in EntryIds /\ command.lines \in Seq(JournalLine)
    BY <1>1 DEF NewIds, LedgerCommand
  <2>2. CommandEvent(state, command, id) =
          [kind |-> "JournalEntryPosted", id |-> id, lines |-> command.lines]
    BY <1>1 DEF CommandEvent
  <2> QED BY <2>1, <2>2 DEF LedgerEvent
<1>2. CASE command.kind = "ReverseEntry"
  <2>1. id \in EntryIds /\ command.original_id \in EntryIds
    BY <1>2 DEF NewIds, LedgerCommand
  <2>2. CommandEvent(state, command, id) =
          [kind |-> "EntryReversed", original_id |-> command.original_id, reversal_id |-> id]
    BY <1>2 DEF CommandEvent
  <2> QED BY <2>1, <2>2 DEF LedgerEvent
<1>3. CASE command.kind = "ChangeCapitalizationStatus"
  <2>1. command.run_id \in Runs /\ command.to \in Statuses /\ id = None
    BY <1>3 DEF NewIds, LedgerCommand
  <2>2. StatusOf(state, command.run_id) \in Statuses
    BY <2>1 DEF StatusOf, LedgerState, Statuses
  <2>3. CommandEvent(state, command, id) =
          [kind |-> "CapitalizationStatusChanged", run_id |-> command.run_id,
           from |-> StatusOf(state, command.run_id), to |-> command.to]
    BY <1>3 DEF CommandEvent
  <2> QED BY <2>1, <2>2, <2>3 DEF LedgerEvent
<1> QED BY <1>1, <1>2, <1>3 DEF LedgerCommand

-----------------------------------------------------------------------------
(* The folds of Ledger are sums. *)

Amount(b) == [a \in Accounts |-> IF b[a] = None THEN 0 ELSE b[a].amount]

\* The accounts that a balance sheet holds in a currency.
Held(b, c) == {a \in Accounts : b[a] # None /\ b[a].currency = c}

LEMMA TrialBalanceAddsUp ==
  ASSUME IsFiniteSet(Accounts), NEW state, NEW currency
  PROVE  \E g : /\ AddsUp(g, Amount(state.balances), Held(state.balances, currency))
                /\ trial_balance(state, currency) = g[Held(state.balances, currency)]
<1>1. PICK S, v : S = Held(state.balances, currency) /\ v = Amount(state.balances)
  OBVIOUS
<1>2. S = {a \in Accounts : /\ state.balances[a] # None
                            /\ state.balances[a].currency = currency}
  BY <1>1 DEF Held
<1>3. PICK ch : ch = [s \in SUBSET S |-> First(s)]
  OBVIOUS
<1>4. Choice(ch, S) /\ IsFiniteSet(S)
  <2>1. ASSUME NEW s \in SUBSET S, s # {} PROVE ch[s] \in s
    BY <1>3, <2>1 DEF First
  <2> QED BY <1>1, <2>1, FS_Subset DEF Choice, Held
<1>5. ASSUME NEW g
      PROVE  Unfold(v, ch, SUBSET S, g) =
               [s \in SUBSET S |-> IF s = {} THEN 0
                                   ELSE state.balances[First(s)].amount + g[s \ {First(s)}]]
  <2>1. ASSUME NEW s \in SUBSET S, s # {}
        PROVE  v[ch[s]] = state.balances[First(s)].amount
    <3>1. ch[s] = First(s) /\ ch[s] \in S
      BY <1>3, <1>4, <2>1 DEF Choice
    <3> QED BY <1>1, <3>1 DEF Amount, Held
  <2> QED BY <1>3, <2>1 DEF Unfold
<1>6. Sums(v, ch, S) =
        (CHOOSE g : g = [s \in SUBSET S |-> IF s = {} THEN 0
                                   ELSE state.balances[First(s)].amount + g[s \ {First(s)}]])
  <2>1. Sums(v, ch, S) = (CHOOSE g : g = Unfold(v, ch, SUBSET S, g))
    BY DEF Sums
  <2>2. (CHOOSE g : g = Unfold(v, ch, SUBSET S, g)) =
        (CHOOSE g : g = [s \in SUBSET S |-> IF s = {} THEN 0
                                   ELSE state.balances[First(s)].amount + g[s \ {First(s)}]])
    BY <1>5, Zenon
  <2> QED BY <2>1, <2>2, Zenon
<1>7. trial_balance(state, currency) = Sums(v, ch, S)[S]
  BY <1>2, <1>6, Zenon DEF First, trial_balance, MapThenSumSet, MapThenFoldSet
<1> QED BY <1>1, <1>4, <1>7, SumsAddUp

\* What a balance sheet comes to, over every account it holds in a currency.
Net(b, c) == Sums(Amount(b), [s \in SUBSET Accounts |-> First(s)], Accounts)[Held(b, c)]

LEMMA AmountType ==
  ASSUME NEW b \in Balances
  PROVE  Valued(Amount(b), Accounts)
<1> SUFFICES ASSUME NEW a \in Accounts PROVE Amount(b)[a] \in Int
  BY DEF Valued
<1>1. b[a] \in Money \union {None}
  BY DEF Balances
<1>2. Amount(b)[a] = IF b[a] = None THEN 0 ELSE b[a].amount
  BY DEF Amount
<1> QED BY <1>1, <1>2 DEF Money

LEMMA NetIsSum ==
  ASSUME IsFiniteSet(Accounts), NEW b, NEW c
  PROVE  \E g : AddsUp(g, Amount(b), Accounts) /\ Net(b, c) = g[Held(b, c)]
<1>1. PICK ch : ch = [s \in SUBSET Accounts |-> First(s)]
  OBVIOUS
<1>2. Choice(ch, Accounts)
  <2>1. ASSUME NEW s \in SUBSET Accounts, s # {} PROVE ch[s] \in s
    BY <1>1, <2>1 DEF First
  <2> QED BY <2>1 DEF Choice
<1>3. AddsUp(Sums(Amount(b), ch, Accounts), Amount(b), Accounts)
  BY <1>2, SumsAddUp
<1>4. Net(b, c) = Sums(Amount(b), ch, Accounts)[Held(b, c)]
  BY <1>1 DEF Net
<1> QED BY <1>3, <1>4

LEMMA TrialBalanceIsNet ==
  ASSUME IsFiniteSet(Accounts), NEW state, state.balances \in Balances, NEW currency
  PROVE  trial_balance(state, currency) = Net(state.balances, currency)
<1>1. PICK b, v, S : b = state.balances /\ v = Amount(b) /\ S = Held(b, currency)
  OBVIOUS
<1>2. S \subseteq Accounts /\ b \in Balances
  BY <1>1 DEF Held
<1>3. PICK g : AddsUp(g, v, S) /\ trial_balance(state, currency) = g[S]
  BY <1>1, TrialBalanceAddsUp
<1>4. PICK h : AddsUp(h, v, Accounts) /\ Net(b, currency) = h[S]
  BY <1>1, NetIsSum
<1>5. Valued(v, Accounts) /\ Valued(v, S) /\ IsFiniteSet(S)
  BY <1>1, <1>2, AmountType, FS_Subset DEF Valued
<1>6. g[S] = h[S]
  BY <1>2, <1>3, <1>4, <1>5, SumsAgree
<1> QED BY <1>1, <1>3, <1>4, <1>6

LEMMA SignedAmountType ==
  ASSUME NEW line \in JournalLine, OneSided(line)
  PROVE  signed_amount(line) \in Money /\ signed_amount(line).currency = validate(line).currency
<1>1. line.debit \in Money \union {None} /\ line.credit \in Money \union {None}
  BY DEF JournalLine
<1> QED BY <1>1 DEF OneSided, signed_amount, validate, Money

\* A line that carries one side, in the currency the account is kept in, moves
\* what is held in that currency by what it carries, and nothing else.
LEMMA PostLineNet ==
  ASSUME IsFiniteSet(Accounts),
         NEW b \in Balances, NEW line \in JournalLine, OneSided(line), NEW c,
         b[line.account] # None => b[line.account].currency = validate(line).currency
  PROVE  Net(PostLine(b, line), c) =
            Net(b, c) + IF validate(line).currency = c THEN signed_amount(line).amount ELSE 0
<1>1. PICK a, delta, b2 : a = line.account /\ delta = signed_amount(line) /\ b2 = PostLine(b, line)
  OBVIOUS
<1>2. a \in Accounts /\ delta \in Money /\ delta # None /\ b2 \in Balances
      /\ delta.amount \in Int /\ delta.currency = validate(line).currency
  BY <1>1, SignedAmountType, PostLineType, NoneAssumption DEF JournalLine, Money
<1>3. PICK v, w, S, U : v = Amount(b) /\ w = Amount(b2) /\ S = Held(b, c) /\ U = Held(b2, c)
  OBVIOUS
<1>4. PICK g : AddsUp(g, v, Accounts) /\ Net(b, c) = g[S]
  BY <1>3, NetIsSum
<1>5. PICK h : AddsUp(h, w, Accounts) /\ Net(b2, c) = h[U]
  BY <1>3, NetIsSum
<1>6. Valued(v, Accounts) /\ Valued(w, Accounts) /\ S \in SUBSET Accounts /\ U \in SUBSET Accounts
  BY <1>2, <1>3, AmountType DEF Held
<1>7. /\ b2[a] = IF b[a] = None THEN delta
                 ELSE [b[a] EXCEPT !.amount = @ + delta.amount]
      /\ \A x \in Accounts : x # a => b2[x] = b[x]
      /\ b[a] # None => b[a] \in Money
      /\ b2[a] \in Money /\ b2[a].currency = delta.currency
  <2>1. CASE b[a] = None
    <3>1. b2 = [b EXCEPT ![a] = delta]
      BY <1>1, <1>2, <2>1 DEF PostLine
    <3> QED BY <1>2, <2>1, <3>1 DEF Balances
  <2>2. CASE b[a] # None
    <3>1. b[a] \in Money
      BY <1>2, <2>2 DEF Balances
    <3>2. b[a].currency = delta.currency
      BY <1>1, <1>2, <2>2
    <3>3. b2 = [b EXCEPT ![a].amount = @ + delta.amount]
      BY <1>1, <1>2, <2>2, <3>2 DEF PostLine
    <3>4. b2[a] = [b[a] EXCEPT !.amount = @ + delta.amount]
      BY <1>2, <3>3 DEF Balances
    <3> QED BY <1>2, <2>2, <3>1, <3>2, <3>3, <3>4 DEF Balances, Money
  <2> QED BY <2>1, <2>2
<1>8. b2[a] \in Money /\ b2[a] # None
      /\ b2[a].amount = delta.amount + IF b[a] = None THEN 0 ELSE b[a].amount
  BY <1>2, <1>7, NoneAssumption DEF Money
<1>9. v[a] = (IF b[a] = None THEN 0 ELSE b[a].amount) /\ w[a] = v[a] + delta.amount
      /\ v[a] \in Int /\ \A x \in Accounts : x # a => w[x] = v[x]
  <2>1. /\ v[a] = IF b[a] = None THEN 0 ELSE b[a].amount
        /\ w[a] = b2[a].amount
        /\ v[a] \in Int
    BY <1>2, <1>3, <1>6, <1>8 DEF Amount, Valued
  <2>2. \A x \in Accounts : x # a => w[x] = v[x]
    BY <1>2, <1>3, <1>7 DEF Amount
  <2> QED BY <1>2, <1>8, <2>1, <2>2
<1>10. CASE delta.currency = c
  <2>1. a \in U /\ U = S \union {a} /\ U \ {a} = S \ {a}
    BY <1>2, <1>3, <1>7, <1>8, <1>10 DEF Held
  <2>2. PICK R : R = S \ {a}
    OBVIOUS
  <2>3. R \in SUBSET Accounts /\ g[R] \in Int /\ h[R] = g[R]
    <3>1. R \in SUBSET Accounts /\ \A x \in R : v[x] = w[x]
      BY <1>6, <1>9, <2>2
    <3>2. g[R] = h[R]
      BY <1>4, <1>5, <1>6, <3>1, SumsAgree
    <3>3. g[R] \in Int
      BY <1>4, <1>6, <3>1, SumsType
    <3> QED BY <3>1, <3>2, <3>3
  <2>4. h[U] = w[a] + h[R]
    <3>1. \A y \in U : h[U] = w[y] + h[U \ {y}]
      BY <1>5, <1>6, SumsRemove
    <3> QED BY <2>1, <2>2, <3>1
  <2>5. g[S] = v[a] + g[R]
    <3>1. CASE a \in S
      BY <1>4, <1>6, <2>2, <3>1, SumsRemove
    <3>2. CASE a \notin S
      <4>1. R = S /\ v[a] = 0
        BY <1>1, <1>2, <1>3, <1>9, <1>10, <2>2, <3>2 DEF Held
      <4> QED BY <2>3, <4>1
    <3> QED BY <3>1, <3>2
  <2> QED BY <1>1, <1>2, <1>4, <1>5, <1>9, <1>10, <2>3, <2>4, <2>5
<1>11. CASE delta.currency # c
  <2>1. U = S /\ a \notin S
    BY <1>1, <1>2, <1>3, <1>7, <1>8, <1>11 DEF Held
  <2>2. \A x \in S : v[x] = w[x]
    BY <1>6, <1>9, <2>1
  <2>3. g[S] = h[S] /\ g[S] \in Int
    BY <1>4, <1>5, <1>6, <2>2, SumsAgree, SumsType
  <2> QED BY <1>1, <1>2, <1>4, <1>5, <1>11, <2>1, <2>3
<1> QED BY <1>10, <1>11

-----------------------------------------------------------------------------
(* Posting a balanced entry. *)

Signed(lines) == [i \in 1..Len(lines) |-> signed_amount(lines[i]).amount]

\* What PostError accepts: every line carries one side, all are in one currency,
\* and the sides cancel.
Balanced(lines) ==
    /\ \A i \in 1..Len(lines) : OneSided(lines[i])
    /\ \E c : \A i \in 1..Len(lines) : validate(lines[i]).currency = c
    /\ \E g : AddsUp(g, Signed(lines), 1..Len(lines)) /\ g[1..Len(lines)] = 0

LEMMA SignedType ==
  ASSUME NEW lines \in Seq(JournalLine), \A i \in 1..Len(lines) : OneSided(lines[i])
  PROVE  Valued(Signed(lines), 1..Len(lines))
<1> SUFFICES ASSUME NEW i \in 1..Len(lines) PROVE Signed(lines)[i] \in Int
  BY DEF Valued
<1>1. lines[i] \in JournalLine /\ OneSided(lines[i])
  OBVIOUS
<1>2. signed_amount(lines[i]) \in Money
  BY <1>1, SignedAmountType
<1>3. Signed(lines)[i] = signed_amount(lines[i]).amount
  BY DEF Signed
<1> QED BY <1>2, <1>3 DEF Money

\* Accounts are kept in the currency that home gives each: lines that respect
\* it, and balances that do.
AtHome(home, lines) ==
    \A i \in 1..Len(lines) : validate(lines[i]).currency = home[lines[i].account]

KeptAtHome(home, b) == \A a \in Accounts : b[a] # None => b[a].currency = home[a]

LEMMA PostLineHome ==
  ASSUME NEW home, NEW b \in Balances, KeptAtHome(home, b),
         NEW line \in JournalLine, OneSided(line), validate(line).currency = home[line.account]
  PROVE  KeptAtHome(home, PostLine(b, line))
<1>1. PICK a, delta : a = line.account /\ delta = signed_amount(line)
  OBVIOUS
<1>2. /\ a \in Accounts /\ delta \in Money /\ delta # None /\ delta.currency = home[a]
      /\ b[a] \in Money \union {None}
  BY <1>1, SignedAmountType, NoneAssumption DEF JournalLine, Balances
<1>3. CASE b[a] = None
  <2>1. PostLine(b, line) = [b EXCEPT ![a] = delta]
    BY <1>1, <1>2, <1>3 DEF PostLine
  <2> QED BY <1>2, <2>1 DEF KeptAtHome, Balances
<1>4. CASE b[a] # None
  <2>1. PostLine(b, line) = [b EXCEPT ![a].amount = @ + delta.amount]
    BY <1>1, <1>2, <1>4 DEF PostLine, KeptAtHome
  <2>2. PICK m : m = [b[a] EXCEPT !.amount = @ + delta.amount]
    OBVIOUS
  <2>3. m.currency = home[a]
    BY <1>2, <1>4, <2>2 DEF Money, KeptAtHome
  <2>4. PostLine(b, line) = [b EXCEPT ![a] = m]
    BY <2>1, <2>2
  <2> QED BY <1>2, <2>3, <2>4 DEF KeptAtHome, Balances
<1> QED BY <1>3, <1>4

\* Posting a balanced entry leaves the balance sheet where it was, in every currency.
LEMMA PostLinesNet ==
  ASSUME IsFiniteSet(Accounts), NEW home,
         NEW b \in Balances, KeptAtHome(home, b),
         NEW lines \in Seq(JournalLine), Balanced(lines), AtHome(home, lines), NEW c
  PROVE  Net(PostLines(b, lines), c) = Net(b, c) /\ KeptAtHome(home, PostLines(b, lines))
<1>1. PICK N : N = Len(lines)
  OBVIOUS
<1>2. N \in Nat /\ IsFiniteSet(1..N)
  BY <1>1, FS_Interval
<1>3. PICK g : AddsUp(g, Signed(lines), 1..N) /\ g[1..N] = 0
  BY <1>1 DEF Balanced
<1>4. /\ Valued(Signed(lines), 1..N)
      /\ \A i \in 1..N : /\ lines[i] \in JournalLine /\ OneSided(lines[i])
                         /\ validate(lines[i]).currency = home[lines[i].account]
  BY <1>1, SignedType DEF Balanced, AtHome
<1>5. PICK d : \A i \in 1..N : validate(lines[i]).currency = d
  BY <1>1 DEF Balanced
<1>6. PICK f : f = PostFn(b, lines, N)
  OBVIOUS
<1>7. f = [n \in 0..N |-> IF n = 0 THEN b ELSE PostLine(f[n - 1], lines[n])]
  BY <1>2, <1>6, PostFnDef
<1>8. Net(b, c) \in Int
  <2>1. PICK h : AddsUp(h, Amount(b), Accounts) /\ Net(b, c) = h[Held(b, c)]
    BY NetIsSum
  <2>2. Held(b, c) \in SUBSET Accounts
    BY DEF Held
  <2> QED BY <2>1, <2>2, AmountType, SumsType
<1> DEFINE Moved(n) == IF d = c THEN g[1..n] ELSE 0
           T == {n \in Nat : n \in 0..N => /\ f[n] \in Balances /\ KeptAtHome(home, f[n])
                                           /\ Net(f[n], c) = Net(b, c) + Moved(n)}
<1>9. 0 \in T
  <2>1. f[0] = b /\ 1..0 = {} /\ g[{}] = 0
    BY <1>2, <1>3, <1>7 DEF AddsUp
  <2> QED BY <1>8, <2>1
<1>10. ASSUME NEW n \in Nat, n \in T PROVE n + 1 \in T
  <2> SUFFICES ASSUME n + 1 \in 0..N
               PROVE  /\ f[n + 1] \in Balances /\ KeptAtHome(home, f[n + 1])
                      /\ Net(f[n + 1], c) = Net(b, c) + Moved(n + 1)
    OBVIOUS
  <2>1. n \in 0..N /\ n + 1 \in 1..N
    BY <1>2
  <2>2. f[n] \in Balances /\ KeptAtHome(home, f[n]) /\ Net(f[n], c) = Net(b, c) + Moved(n)
    BY <1>10, <2>1
  <2>3. PICK line, b1 : line = lines[n + 1] /\ b1 = f[n]
    OBVIOUS
  <2>4. /\ line \in JournalLine /\ OneSided(line) /\ f[n + 1] = PostLine(b1, line)
        /\ validate(line).currency = home[line.account] /\ validate(line).currency = d
    <3>1. f[n + 1] = PostLine(b1, line)
      BY <1>7, <2>1, <2>3
    <3> QED BY <1>4, <1>5, <2>1, <2>3, <3>1
  <2>5. b1[line.account] # None => b1[line.account].currency = validate(line).currency
    BY <2>2, <2>3, <2>4 DEF KeptAtHome, JournalLine
  <2>6. f[n + 1] \in Balances /\ KeptAtHome(home, f[n + 1])
        /\ Net(f[n + 1], c) = Net(b1, c) + IF d = c THEN signed_amount(line).amount ELSE 0
    <3>1. f[n + 1] \in Balances /\ KeptAtHome(home, f[n + 1])
      BY <2>2, <2>3, <2>4, PostLineType, PostLineHome
    <3>2. Net(PostLine(b1, line), c) =
             Net(b1, c) + IF validate(line).currency = c THEN signed_amount(line).amount ELSE 0
      BY <2>2, <2>3, <2>4, <2>5, PostLineNet
    <3> QED BY <2>4, <3>1, <3>2
  <2>7. g[1..(n + 1)] = signed_amount(line).amount + g[1..n]
    <3>1. Signed(lines)[n + 1] = signed_amount(line).amount
      BY <1>1, <2>1, <2>3 DEF Signed
    <3>2. PICK s : s = 1..(n + 1)
      OBVIOUS
    <3>3. s \in SUBSET (1..N) /\ n + 1 \in s /\ s \ {n + 1} = 1..n
      BY <1>2, <2>1, <3>2
    <3>4. Valued(Signed(lines), 1..N) /\ AddsUp(g, Signed(lines), 1..N)
      BY <1>3, <1>4
    <3>5. \A y \in s : g[s] = Signed(lines)[y] + g[s \ {y}]
      BY <1>2, <3>3, <3>4, SumsRemove
    <3> QED BY <3>1, <3>2, <3>3, <3>5
  <2>8. g[1..n] \in Int /\ signed_amount(line).amount \in Int
    <3>1. 1..n \in SUBSET (1..N)
      BY <1>2, <2>1
    <3>2. g[1..n] \in Int
      BY <1>2, <1>3, <1>4, <3>1, SumsType
    <3> QED BY <2>4, <3>2, SignedAmountType DEF Money
  <2> QED BY <1>8, <2>2, <2>3, <2>6, <2>7, <2>8
<1>11. Nat \subseteq T
  <2> HIDE DEF T
  <2> QED BY <1>9, <1>10, SetInduction
<1>12. Net(f[N], c) = Net(b, c) /\ KeptAtHome(home, f[N])
  BY <1>2, <1>3, <1>8, <1>11
<1>13. PostLines(b, lines) = f[N]
  BY <1>1, <1>6 DEF PostLines, PostFn
<1> QED BY <1>12, <1>13

LEMMA MirrorLine ==
  ASSUME NEW line \in JournalLine, OneSided(line), NEW other,
         other = [account |-> line.account, debit |-> line.credit, credit |-> line.debit]
  PROVE  /\ OneSided(other)
         /\ signed_amount(other).amount = -signed_amount(line).amount
         /\ signed_amount(line).amount \in Int
         /\ validate(other).currency = validate(line).currency
<1>1. PICK d, c : d = line.debit /\ c = line.credit
  OBVIOUS
<1>2. other.debit = c /\ other.credit = d
  BY <1>1
<1>3. d \in Money \union {None} /\ c \in Money \union {None} /\ (d = None) # (c = None)
  BY <1>1 DEF JournalLine, OneSided
<1>4. OneSided(other)
  BY <1>2, <1>3 DEF OneSided
<1>5. CASE d # None /\ c = None
  <2>1. signed_amount(line) = d /\ signed_amount(other) = [d EXCEPT !.amount = -@] /\ d \in Money
        /\ validate(line) = d /\ validate(other) = d
    BY <1>1, <1>2, <1>3, <1>5 DEF signed_amount, validate
  <2> QED BY <1>4, <2>1 DEF Money
<1>6. CASE d = None /\ c # None
  <2>1. signed_amount(other) = c /\ signed_amount(line) = [c EXCEPT !.amount = -@] /\ c \in Money
        /\ validate(line) = c /\ validate(other) = c
    BY <1>1, <1>2, <1>3, <1>6 DEF signed_amount, validate
  <2> QED BY <1>4, <2>1 DEF Money
<1> QED BY <1>3, <1>5, <1>6

\* The entry a reversal posts is balanced when the original is.
LEMMA MirrorBalanced ==
  ASSUME NEW lines \in Seq(JournalLine), Balanced(lines)
  PROVE  Balanced(mirror(lines))
<1>1. PICK m, N, S : m = mirror(lines) /\ N = Len(lines) /\ S = 1..N
  OBVIOUS
<1>2. m \in Seq(JournalLine) /\ N \in Nat /\ Len(m) = N /\ IsFiniteSet(S)
  <2>1. N \in Nat
    BY <1>1
  <2>2. DOMAIN m = S
    BY <1>1 DEF mirror
  <2>3. m \in Seq(JournalLine)
    BY <1>1, MirrorType
  <2> QED BY <1>1, <2>1, <2>2, <2>3, FS_Interval
<1>3. PICK v, w : v = Signed(lines) /\ w = Signed(m)
  OBVIOUS
<1>4. ASSUME NEW i \in S
      PROVE  OneSided(m[i]) /\ w[i] = -v[i] /\ v[i] \in Int
             /\ validate(m[i]).currency = validate(lines[i]).currency
  <2>1. v[i] = signed_amount(lines[i]).amount /\ w[i] = signed_amount(m[i]).amount
    BY <1>1, <1>2, <1>3 DEF Signed
  <2>2. lines[i] \in JournalLine /\ OneSided(lines[i])
    BY <1>1 DEF Balanced
  <2>3. m[i] = [account |-> lines[i].account, debit |-> lines[i].credit,
                credit |-> lines[i].debit]
    BY <1>1 DEF mirror
  <2>4. PICK line, other : line = lines[i] /\ other = m[i]
    OBVIOUS
  <2>5. /\ OneSided(other) /\ signed_amount(line).amount \in Int
        /\ signed_amount(other).amount = -signed_amount(line).amount
        /\ validate(other).currency = validate(line).currency
    BY <2>2, <2>3, <2>4, MirrorLine
  <2> QED BY <2>1, <2>4, <2>5
<1>5. PICK g : AddsUp(g, v, S) /\ g[S] = 0
  BY <1>1, <1>3 DEF Balanced
<1>6. Valued(v, S)
  BY <1>4 DEF Valued
<1>7. \A s \in SUBSET S : g[s] \in Int
  BY <1>2, <1>5, <1>6, SumsType
<1>8. PICK h : h = [s \in SUBSET S |-> -g[s]]
  OBVIOUS
<1>9. AddsUp(h, w, S)
  <2>1. g[{}] = 0 /\ h[{}] = 0
    BY <1>5, <1>8 DEF AddsUp
  <2>2. ASSUME NEW s \in SUBSET S, s # {}
        PROVE  \E x \in s : h[s] = w[x] + h[s \ {x}]
    <3>1. \A y \in s : g[s] = v[y] + g[s \ {y}]
      BY <1>2, <1>5, <1>6, SumsRemove
    <3>2. PICK x : x \in s
      BY <2>2
    <3>3. PICK r : r = s \ {x}
      OBVIOUS
    <3>4. r \in SUBSET S /\ x \in S
      BY <3>2, <3>3
    <3>5. g[s] = v[x] + g[r]
      BY <3>1, <3>2, <3>3
    <3>6. h[s] = -g[s] /\ h[r] = -g[r]
      BY <1>8, <3>4
    <3>7. g[r] \in Int /\ g[s] \in Int /\ v[x] \in Int /\ w[x] = -v[x]
      BY <1>4, <1>7, <3>4
    <3>8. h[s] = w[x] + h[r]
      BY <3>5, <3>6, <3>7
    <3> QED BY <3>2, <3>3, <3>8
  <2> QED BY <2>1, <2>2 DEF AddsUp
<1>10. h[S] = 0
  BY <1>5, <1>8
<1>11. PICK c : \A i \in S : validate(lines[i]).currency = c
  BY <1>1 DEF Balanced
<1>12. \A i \in S : validate(m[i]).currency = c
  BY <1>4, <1>11
<1> QED BY <1>1, <1>2, <1>3, <1>4, <1>9, <1>10, <1>12 DEF Balanced

LEMMA MirrorHome ==
  ASSUME NEW lines \in Seq(JournalLine), Balanced(lines), NEW home, AtHome(home, lines)
  PROVE  AtHome(home, mirror(lines))
<1>1. DOMAIN mirror(lines) = 1..Len(lines) /\ mirror(lines) \in Seq(JournalLine)
  BY MirrorType DEF mirror
<1>2. Len(mirror(lines)) = Len(lines)
  BY <1>1
<1>3. ASSUME NEW i \in 1..Len(lines)
      PROVE  validate(mirror(lines)[i]).currency = home[mirror(lines)[i].account]
  <2>1. PICK line, other : line = lines[i] /\ other = mirror(lines)[i]
    OBVIOUS
  <2>2. other = [account |-> line.account, debit |-> line.credit, credit |-> line.debit]
    BY <2>1 DEF mirror
  <2>3. line \in JournalLine /\ OneSided(line) /\ validate(line).currency = home[line.account]
    BY <2>1 DEF Balanced, AtHome
  <2>4. validate(other).currency = validate(line).currency /\ other.account = line.account
    BY <2>2, <2>3, MirrorLine
  <2> QED BY <2>1, <2>3, <2>4
<1> QED BY <1>2, <1>3 DEF AtHome

-----------------------------------------------------------------------------
(* The totals PostError compares are sums of the lines. *)

\* What each line adds to one side's total.
Side(lines, isDebit) ==
    [i \in 1..Len(lines) |-> IF (lines[i].debit # None) = isDebit
                             THEN validate(lines[i]).amount ELSE 0]

LEMMA SideType ==
  ASSUME NEW lines \in Seq(JournalLine), \A i \in 1..Len(lines) : OneSided(lines[i]),
         NEW isDebit \in BOOLEAN
  PROVE  Valued(Side(lines, isDebit), 1..Len(lines))
<1> SUFFICES ASSUME NEW i \in 1..Len(lines) PROVE Side(lines, isDebit)[i] \in Int
  BY DEF Valued
<1>1. PICK line : line = lines[i]
  OBVIOUS
<1>2. line \in JournalLine /\ OneSided(line)
  BY <1>1
<1>3. validate(line).amount \in Int
  BY <1>2 DEF OneSided, validate, JournalLine, Money
<1>4. Side(lines, isDebit)[i] = IF (line.debit # None) = isDebit THEN validate(line).amount ELSE 0
  BY <1>1 DEF Side
<1> QED BY <1>3, <1>4

LEMMA SideTotalAddsUp ==
  ASSUME NEW lines \in Seq(JournalLine), \A i \in 1..Len(lines) : OneSided(lines[i]),
         NEW isDebit \in BOOLEAN
  PROVE  \E g : /\ AddsUp(g, Side(lines, isDebit), 1..Len(lines))
                /\ SideTotal(lines, isDebit) = g[1..Len(lines)]
<1> DEFINE Takes(i) == (lines[i].debit # None) = isDebit
           Step(D, g) == [s \in SUBSET D |->
                            IF s = {} THEN 0
                            ELSE IF Takes(Max(s)) THEN g[s \ {Max(s)}] + validate(lines[Max(s)]).amount
                                 ELSE g[s \ {Max(s)}]]
<1>1. PICK S, v : S = 1..Len(lines) /\ v = Side(lines, isDebit)
  OBVIOUS
<1>2. S = DOMAIN lines /\ IsFiniteSet(S) /\ Valued(v, S)
  <2>1. Len(lines) \in Nat
    OBVIOUS
  <2>2. IsFiniteSet(S)
    BY <1>1, <2>1, FS_Interval
  <2>3. S = DOMAIN lines
    BY <1>1
  <2> QED BY <1>1, <2>2, <2>3, SideType
<1>3. SideTotal(lines, isDebit) = (CHOOSE g : g = Step(S, g))[S]
  BY <1>2, Zenon DEF SideTotal, FoldLeft, MapThenFoldSet
<1>4. ASSUME NEW s \in SUBSET S, s # {} PROVE Max(s) \in s
  <2>1. PICK n \in Nat : n = Len(lines)
    OBVIOUS
  <2>2. s \in SUBSET (1..n)
    BY <1>1, <2>1
  <2> QED BY <1>4, <2>2, BoundsExist
<1>5. \A i \in S : v[i] = IF Takes(i) THEN validate(lines[i]).amount ELSE 0
  BY <1>1 DEF Side
<1>6. PICK ch : ch = [s \in SUBSET S |-> Max(s)]
  OBVIOUS
<1>7. Choice(ch, S)
  BY <1>4, <1>6 DEF Choice
<1>8. PICK h : h = Sums(v, ch, S)
  OBVIOUS
<1>9. \A s \in SUBSET S : h[s] \in Int
  BY <1>2, <1>7, <1>8, SumsAddUp, SumsType
<1>10. h = Unfold(v, ch, SUBSET S, h)
  BY <1>2, <1>7, <1>8, SumsDef
<1>11. ASSUME NEW s \in SUBSET S
       PROVE  h[s] = IF s = {} THEN 0
                     ELSE IF Takes(Max(s)) THEN h[s \ {Max(s)}] + validate(lines[Max(s)]).amount
                          ELSE h[s \ {Max(s)}]
  <2>1. CASE s = {}
    BY <1>10, <2>1 DEF Unfold
  <2>2. CASE s # {}
    <3>1. PICK x, r : x = Max(s) /\ r = s \ {x}
      OBVIOUS
    <3>2. x \in S /\ r \in SUBSET S /\ ch[s] = x
      BY <1>4, <1>6, <2>2, <3>1
    <3>3. h[s] = v[x] + h[r]
      BY <1>10, <2>2, <3>1, <3>2 DEF Unfold
    <3>4. h[r] \in Int /\ v[x] \in Int
      BY <1>2, <1>9, <3>2 DEF Valued
    <3>5. v[x] = IF Takes(x) THEN validate(lines[x]).amount ELSE 0
      BY <1>5, <3>2
    <3>6. h[s] = IF Takes(x) THEN h[r] + validate(lines[x]).amount ELSE h[r]
      <4> HIDE DEF Takes
      <4> QED BY <3>3, <3>4, <3>5
    <3> HIDE DEF Takes
    <3> QED BY <2>2, <3>1, <3>6
  <2> QED BY <2>1, <2>2
<1>12. h = Step(S, h)
  <2>1. h = [s \in SUBSET S |-> h[s]]
    BY <1>10 DEF Unfold
  <2> QED BY <1>11, <2>1
<1>13. PICK g : g = (CHOOSE f : f = Step(S, f))
  OBVIOUS
<1>14. g = Step(S, g)
  <2> HIDE DEF Step
  <2> QED BY <1>12, <1>13
<1>15. AddsUp(g, v, S)
  <2>1. g[{}] = 0
    BY <1>14
  <2>2. ASSUME NEW s \in SUBSET S, s # {}
        PROVE  \E x \in s : \/ g[s] = g[s \ {x}] + v[x]
                            \/ v[x] = 0 /\ g[s] = g[s \ {x}]
    <3>1. PICK x, r : x = Max(s) /\ r = s \ {x}
      OBVIOUS
    <3>2. x \in s /\ x \in S
      BY <1>4, <2>2, <3>1
    <3>3. g[s] = IF Takes(x) THEN g[r] + validate(lines[x]).amount ELSE g[r]
      BY <1>14, <2>2, <3>1
    <3>4. v[x] = IF Takes(x) THEN validate(lines[x]).amount ELSE 0
      BY <1>5, <3>2
    <3>5. g[s] = g[r] + v[x] \/ (v[x] = 0 /\ g[s] = g[r])
      <4> HIDE DEF Takes
      <4> QED BY <3>3, <3>4
    <3> QED BY <3>1, <3>2, <3>5
  <2> QED BY <2>1, <2>2 DEF AddsUp
<1>16. SideTotal(lines, isDebit) = g[S]
  BY <1>3, <1>13
<1> QED BY <1>1, <1>15, <1>16

LEMMA AcceptedLines ==
  ASSUME NEW lines \in Seq(JournalLine), PostError(lines) = None
  PROVE  /\ \A i \in 1..Len(lines) : OneSided(lines[i])
         /\ \E c : \A i \in 1..Len(lines) : validate(lines[i]).currency = c
         /\ SideTotal(lines, TRUE) = SideTotal(lines, FALSE)
<1> DEFINE currency == IF OneSided(lines[1]) THEN validate(lines[1]).currency ELSE None
           bad == {i \in DOMAIN lines : LineError(lines[i], currency) # None}
<1>1. None \notin LedgerError
  BY NoneAssumption
<1>2. lines # <<>>
  BY <1>1 DEF PostError, LedgerError
<1>3. bad = {}
  <2> SUFFICES ASSUME bad # {} PROVE FALSE
    OBVIOUS
  <2>1. PICK n \in Nat : n = Len(lines)
    OBVIOUS
  <2>2. bad \in SUBSET (1..n)
    BY <2>1
  <2>3. Min(bad) \in bad
    <3> HIDE DEF bad
    <3> QED BY <2>2, BoundsExist
  <2>4. LineError(lines[Min(bad)], currency) # None
    BY <2>3
  <2>5. PostError(lines) = LineError(lines[Min(bad)], currency)
    BY <1>2 DEF PostError
  <2> QED BY <2>4, <2>5
<1>4. ASSUME NEW i \in 1..Len(lines)
      PROVE  OneSided(lines[i]) /\ validate(lines[i]).currency = currency
  <2>1. LineError(lines[i], currency) = None
    BY <1>3
  <2>2. PICK line, c : line = lines[i] /\ c = currency
    OBVIOUS
  <2>3. LineError(line, c) = None
    BY <2>1, <2>2
  <2>4. OneSided(line)
    <3> SUFFICES ASSUME ~OneSided(line) PROVE FALSE
      OBVIOUS
    <3>1. LineError(line, c) \in {"LineHasBothSides", "LineHasNoAmount"}
      BY DEF LineError, OneSided
    <3> QED BY <1>1, <2>3, <3>1 DEF LedgerError
  <2>5. validate(line).currency = c
    BY <1>1, <2>3, <2>4 DEF LineError, OneSided, LedgerError
  <2> QED BY <2>2, <2>4, <2>5
<1>5. SideTotal(lines, TRUE) = SideTotal(lines, FALSE)
  <2>1. PostError(lines) = IF SideTotal(lines, TRUE) = SideTotal(lines, FALSE)
                           THEN None ELSE "Unbalanced"
    BY <1>2, <1>3 DEF PostError
  <2> QED BY <1>1, <2>1 DEF LedgerError
<1> QED BY <1>4, <1>5

\* handle_command accepts no posting that would move the balance sheet.
LEMMA AcceptedIsBalanced ==
  ASSUME NEW lines \in Seq(JournalLine), PostError(lines) = None
  PROVE  Balanced(lines)
<1>1. /\ \A i \in 1..Len(lines) : OneSided(lines[i])
      /\ \E c : \A i \in 1..Len(lines) : validate(lines[i]).currency = c
  BY AcceptedLines
<1>2. PICK S, v, w, u : /\ S = 1..Len(lines) /\ u = Signed(lines)
                        /\ v = Side(lines, TRUE) /\ w = Side(lines, FALSE)
  OBVIOUS
<1>3. IsFiniteSet(S) /\ Valued(v, S) /\ Valued(w, S)
  <2>1. Len(lines) \in Nat
    OBVIOUS
  <2>2. IsFiniteSet(S)
    BY <1>2, <2>1, FS_Interval
  <2> QED BY <1>1, <1>2, <2>2, SideType
<1>4. PICK d : AddsUp(d, v, S) /\ SideTotal(lines, TRUE) = d[S]
  BY <1>1, <1>2, SideTotalAddsUp
<1>5. PICK e : AddsUp(e, w, S) /\ SideTotal(lines, FALSE) = e[S]
  BY <1>1, <1>2, SideTotalAddsUp
<1>6. \A s \in SUBSET S : d[s] \in Int /\ e[s] \in Int
  BY <1>3, <1>4, <1>5, SumsType
<1>7. ASSUME NEW i \in S PROVE u[i] = v[i] - w[i] /\ v[i] \in Int /\ w[i] \in Int
  <2>1. PICK line : line = lines[i]
    OBVIOUS
  <2>2. line \in JournalLine /\ OneSided(line)
    BY <1>1, <1>2, <2>1
  <2>3. /\ v[i] = IF line.debit # None THEN validate(line).amount ELSE 0
        /\ w[i] = IF line.debit = None THEN validate(line).amount ELSE 0
        /\ u[i] = signed_amount(line).amount
    BY <1>2, <2>1 DEF Side, Signed
  <2>4. v[i] \in Int /\ w[i] \in Int
    BY <1>3 DEF Valued
  <2>5. CASE line.debit # None /\ line.credit = None
    <3>1. signed_amount(line) = line.debit /\ validate(line) = line.debit
      BY <2>5 DEF signed_amount, validate
    <3> QED BY <2>3, <2>4, <2>5, <3>1
  <2>6. CASE line.debit = None /\ line.credit # None
    <3>1. signed_amount(line) = [line.credit EXCEPT !.amount = -@]
          /\ validate(line) = line.credit
      BY <2>6 DEF signed_amount, validate
    <3>2. line.credit \in Money
      BY <2>2, <2>6 DEF JournalLine
    <3>3. signed_amount(line).amount = -line.credit.amount
      BY <3>1, <3>2 DEF Money
    <3> QED BY <2>3, <2>4, <2>6, <3>1, <3>3
  <2> QED BY <2>2, <2>5, <2>6 DEF OneSided
<1>8. PICK g : g = [s \in SUBSET S |-> d[s] - e[s]]
  OBVIOUS
<1>9. AddsUp(g, u, S)
  <2>1. g[{}] = 0
    BY <1>4, <1>5, <1>8 DEF AddsUp
  <2>2. ASSUME NEW s \in SUBSET S, s # {}
        PROVE  \E x \in s : g[s] = u[x] + g[s \ {x}]
    <3>1. PICK x, r : x \in s /\ r = s \ {x}
      BY <2>2
    <3>2. x \in S /\ r \in SUBSET S
      BY <3>1
    <3>3. d[s] = v[x] + d[r]
      BY <1>3, <1>4, <3>1, SumsRemove
    <3>4. e[s] = w[x] + e[r]
      BY <1>3, <1>5, <3>1, SumsRemove
    <3>5. g[s] = d[s] - e[s] /\ g[r] = d[r] - e[r]
      BY <1>8, <3>2
    <3>6. d[r] \in Int /\ e[r] \in Int /\ d[s] \in Int /\ e[s] \in Int
      BY <1>6, <3>2
    <3>7. u[x] = v[x] - w[x] /\ v[x] \in Int /\ w[x] \in Int
      BY <1>7, <3>2
    <3>8. g[s] = u[x] + g[r]
      BY <3>3, <3>4, <3>5, <3>6, <3>7
    <3> QED BY <3>1, <3>8
  <2> QED BY <2>1, <2>2 DEF AddsUp
<1>10. g[S] = 0
  <2>1. d[S] = e[S] /\ d[S] \in Int
    BY <1>4, <1>5, <1>6, AcceptedLines
  <2> QED BY <1>8, <2>1
<1> QED BY <1>1, <1>2, <1>9, <1>10 DEF Balanced

-----------------------------------------------------------------------------
(* What is kept of a state, whatever handle_command accepts. *)

\* The strengthening: besides a zero sheet in every currency, every entry on file
\* is balanced and respects the currencies the accounts are kept in, so that a
\* reversal, which trusts the entry on file, keeps the sheet at zero.
SheetInv(home, state) ==
    /\ state \in LedgerState
    /\ \A c : Net(state.balances, c) = 0
    /\ KeptAtHome(home, state.balances)
    /\ \A e \in EntryIds : state.entries[e] # None =>
          Balanced(state.entries[e]) /\ AtHome(home, state.entries[e])

LEMMA DefaultSheet ==
  ASSUME IsFiniteSet(Accounts), NEW home
  PROVE  SheetInv(home, DefaultState)
<1>1. KeptAtHome(home, DefaultState.balances)
  BY DEF KeptAtHome, DefaultState
<1>2. ASSUME NEW c PROVE Net(DefaultState.balances, c) = 0
  <2>1. Held(DefaultState.balances, c) = {}
    BY DEF Held, DefaultState
  <2>2. PICK g : AddsUp(g, Amount(DefaultState.balances), Accounts)
                 /\ Net(DefaultState.balances, c) = g[Held(DefaultState.balances, c)]
    BY NetIsSum
  <2> QED BY <2>1, <2>2 DEF AddsUp
<1>4. DefaultState \in LedgerState
  BY DEF DefaultState, LedgerState
<1>5. \A e \in EntryIds : DefaultState.entries[e] = None
  BY DEF DefaultState
<1> QED BY <1>1, <1>2, <1>4, <1>5 DEF SheetInv

LEMMA PostSheet ==
  ASSUME IsFiniteSet(Accounts), NEW home,
         NEW state, SheetInv(home, state), NEW id \in EntryIds,
         NEW lines \in Seq(JournalLine), Balanced(lines), AtHome(home, lines)
  PROVE  SheetInv(home, post(state, id, lines))
<1>1. state \in LedgerState /\ state.balances \in Balances
  BY DEF SheetInv, LedgerState, Balances
<1>2. PICK new : new = post(state, id, lines)
  OBVIOUS
<1>3. /\ new \in LedgerState
      /\ new.balances = PostLines(state.balances, lines)
      /\ new.entries = [state.entries EXCEPT ![id] = lines]
  BY <1>1, <1>2, PostType DEF post, LedgerState
<1>4. (\A c : Net(new.balances, c) = 0) /\ KeptAtHome(home, new.balances)
  BY <1>1, <1>3, PostLinesNet DEF SheetInv
<1>5. \A e \in EntryIds : new.entries[e] # None =>
         Balanced(new.entries[e]) /\ AtHome(home, new.entries[e])
  BY <1>1, <1>3 DEF SheetInv, LedgerState
<1> QED BY <1>2, <1>3, <1>4, <1>5 DEF SheetInv

\* A posting that handle_command accepts uses each account in its home currency.
\* (One it would refuse may be as wrong as it likes.)
Respects(home, command) ==
    command.kind = "PostJournalEntry" /\ PostError(command.lines) = None =>
        AtHome(home, command.lines)

\* What handle_command accepts keeps the sheet at zero when it is applied.
LEMMA AcceptedSheet ==
  ASSUME IsFiniteSet(Accounts), NEW home,
         NEW state, SheetInv(home, state), NEW command \in LedgerCommand,
         CommandError(state, command) = None, Respects(home, command),
         NEW ids \in SUBSET EntryIds, NEW id \in NewIds(command, ids)
  PROVE  SheetInv(home, apply_event(state, CommandEvent(state, command, id)))
<1>0. state \in LedgerState
  BY DEF SheetInv
<1>1. PICK event, new : /\ event = CommandEvent(state, command, id)
                        /\ new = apply_event(state, event)
  OBVIOUS
<1>2. event \in LedgerEvent /\ new \in LedgerState
  BY <1>0, <1>1, CommandEventType, ApplyEventType
<1>3. CASE command.kind = "PostJournalEntry"
  <2>1. command.lines \in Seq(JournalLine) /\ id \in EntryIds
    BY <1>3 DEF LedgerCommand, NewIds
  <2>2. Balanced(command.lines) /\ AtHome(home, command.lines)
    BY <1>3, <2>1, AcceptedIsBalanced DEF CommandError, Respects
  <2>3. event = [kind |-> "JournalEntryPosted", id |-> id, lines |-> command.lines]
    BY <1>1, <1>3 DEF CommandEvent
  <2>4. new = post(state, id, command.lines)
    BY <1>1, <2>3 DEF apply_event
  <2> QED BY <1>1, <2>1, <2>2, <2>4, PostSheet
<1>4. CASE command.kind = "ReverseEntry"
  <2>1. command.original_id \in EntryIds /\ id \in EntryIds
    BY <1>4 DEF LedgerCommand, NewIds
  <2>2. PICK original, posted : /\ original = state.entries[command.original_id]
                                /\ posted = post(state, id, mirror(original))
    OBVIOUS
  <2>3. original # None
    BY <1>4, <2>2, NoneAssumption DEF CommandError, LedgerError
  <2>4. original \in Seq(JournalLine) /\ Balanced(original) /\ AtHome(home, original)
    BY <1>0, <2>1, <2>2, <2>3 DEF SheetInv, LedgerState
  <2>5. SheetInv(home, posted)
    BY <2>1, <2>2, <2>4, MirrorType, MirrorBalanced, MirrorHome, PostSheet
  <2>6. event = [kind |-> "EntryReversed", original_id |-> command.original_id, reversal_id |-> id]
    BY <1>1, <1>4 DEF CommandEvent
  <2>7. new = [posted EXCEPT !.reversed = @ \union {command.original_id}]
    BY <1>1, <2>2, <2>3, <2>6 DEF apply_event
  <2>8. new.balances = posted.balances /\ new.entries = posted.entries
    BY <2>5, <2>7 DEF SheetInv, LedgerState
  <2> QED BY <1>1, <1>2, <2>5, <2>8 DEF SheetInv
<1>5. CASE command.kind = "ChangeCapitalizationStatus"
  <2>1. event.kind = "CapitalizationStatusChanged"
    BY <1>1, <1>5 DEF CommandEvent
  <2>2. new = [state EXCEPT !.capitalization[event.run_id] = event.to]
    BY <1>1, <2>1 DEF apply_event
  <2>3. new.balances = state.balances /\ new.entries = state.entries
    BY <1>0, <2>2 DEF LedgerState
  <2> QED BY <1>1, <1>2, <2>3 DEF SheetInv
<1> QED BY <1>3, <1>4, <1>5 DEF LedgerCommand

-----------------------------------------------------------------------------
(* What posting lines leaves. *)

\* A balance not there before is of an account one of the lines names.
LEMMA PostLinesTouch ==
  ASSUME NEW b \in Balances, NEW lines \in Seq(JournalLine), NEW a \in Accounts,
         \A n \in DOMAIN lines : OneSided(lines[n])
  PROVE  PostLines(b, lines)[a] # None <=>
            b[a] # None \/ \E n \in DOMAIN lines : lines[n].account = a
<1>1. PICK N \in Nat : N = Len(lines) /\ DOMAIN lines = 1..N
  OBVIOUS
<1>2. PICK at : at = PostFn(b, lines, N)
  OBVIOUS
<1>3. /\ PostLines(b, lines) = at[N] /\ at[0] = b
      /\ \A n \in 1..N : at[n] = PostLine(at[n - 1], lines[n])
  <2>1. at = [n \in 0..N |-> IF n = 0 THEN b ELSE PostLine(at[n - 1], lines[n])]
    BY <1>2, PostFnDef
  <2>2. PostLines(b, lines) = at[N]
    BY <1>1, <1>2 DEF PostLines, PostFn
  <2> QED BY <1>1, <2>1, <2>2
<1> DEFINE Touched(n) == b[a] # None \/ \E m \in 1..n : lines[m].account = a
           S == {n \in Nat : n \in 0..N => at[n] \in Balances /\ (at[n][a] # None <=> Touched(n))}
<1>4. 0 \in S
  BY <1>3
<1>5. ASSUME NEW n \in Nat, n \in S PROVE n + 1 \in S
  <2> SUFFICES ASSUME n + 1 \in 0..N
               PROVE  at[n + 1] \in Balances /\ (at[n + 1][a] # None <=> Touched(n + 1))
    OBVIOUS
  <2>1. n \in 0..N /\ n + 1 \in 1..N
    OBVIOUS
  <2>2. PICK old, line, new : old = at[n] /\ line = lines[n + 1] /\ new = at[n + 1]
    OBVIOUS
  <2>3. old \in Balances /\ (old[a] # None <=> Touched(n))
    BY <1>5, <2>1, <2>2
  <2>4. line \in JournalLine /\ OneSided(line) /\ new = PostLine(old, line)
    BY <1>1, <1>3, <2>1, <2>2
  <2>5. new \in Balances
    BY <2>3, <2>4, PostLineType
  <2>6. Touched(n + 1) <=> Touched(n) \/ line.account = a
    BY <2>1, <2>2
  <2>7. PICK delta \in Money : delta = signed_amount(line)
    BY <2>4, SignedAmountType
  <2>8. delta # None /\ line.account \in Accounts
    BY <2>4, NoneAssumption DEF JournalLine
  <2>9. new[a] # None <=> old[a] # None \/ line.account = a
    <3>1. CASE line.account # a
      <4>1. new[a] = old[a]
        BY <2>3, <2>4, <3>1 DEF PostLine, Balances
      <4> QED BY <3>1, <4>1
    <3>2. CASE line.account = a
      <4>1. new[a] \in Money
        <5>1. CASE old[a] = None
          <6>1. new = [old EXCEPT ![a] = delta]
            BY <2>4, <2>7, <2>8, <3>2, <5>1 DEF PostLine
          <6> QED BY <2>3, <6>1 DEF Balances
        <5>2. CASE old[a] # None /\ old[a].currency = delta.currency
          <6>1. PICK money \in Money : money = old[a]
            BY <2>3, <5>2 DEF Balances
          <6>2. new = [old EXCEPT ![a].amount = @ + delta.amount]
            BY <2>4, <2>7, <2>8, <3>2, <5>2 DEF PostLine
          <6>3. new[a] = [currency |-> money.currency, amount |-> money.amount + delta.amount]
            BY <2>3, <6>1, <6>2 DEF Balances, Money
          <6> QED BY <6>3 DEF Money
        <5>3. CASE old[a] # None /\ old[a].currency # delta.currency
          <6>1. new = old
            BY <2>4, <2>7, <2>8, <3>2, <5>3 DEF PostLine
          <6> QED BY <2>3, <5>3, <6>1 DEF Balances
        <5> QED BY <5>1, <5>2, <5>3
      <4> QED BY <3>2, <4>1, NoneAssumption
    <3> QED BY <3>1, <3>2
  <2> HIDE DEF Touched
  <2> QED BY <2>2, <2>3, <2>5, <2>6, <2>9
<1>6. N \in S
  <2> HIDE DEF S
  <2>1. Nat \subseteq S
    BY <1>4, <1>5, SetInduction
  <2> QED BY <2>1
<1>7. at[N][a] # None <=> Touched(N)
  <2> HIDE DEF Touched
  <2> QED BY <1>6
<1> QED BY <1>1, <1>3, <1>7

LEMMA BalancedTotal ==
  ASSUME NEW lines \in Seq(JournalLine), Balanced(lines)
  PROVE  /\ Valued(Signed(lines), 1..Len(lines)) /\ IsFiniteSet(1..Len(lines))
         /\ Total(Signed(lines), 1..Len(lines)) = 0
<1>1. PICK v, S : v = Signed(lines) /\ S = 1..Len(lines)
  OBVIOUS
<1>2. Valued(v, S)
  BY <1>1, SignedType DEF Balanced
<1>3. IsFiniteSet(S)
  <2>1. Len(lines) \in Nat
    OBVIOUS
  <2> QED BY <1>1, <2>1, FS_Interval
<1>4. PICK g : AddsUp(g, v, S) /\ g[S] = 0
  BY <1>1 DEF Balanced
<1> QED BY <1>1, <1>2, <1>3, <1>4, TotalIs

LEMMA SignedSum ==
  ASSUME NEW lines, NEW S \in SUBSET (1..Len(lines))
  PROVE  MapThenSumSet(LAMBDA n : signed_amount(lines[n]).amount, S) = Total(Signed(lines), S)
<1>1. PICK v, ch : v = Signed(lines) /\ ch = [s \in SUBSET S |-> First(s)]
  OBVIOUS
<1>2. Choice(ch, S)
  BY <1>1, FirstIsChoice
<1>3. ASSUME NEW g
      PROVE  Unfold(v, ch, SUBSET S, g) =
               [s \in SUBSET S |-> IF s = {} THEN 0
                                   ELSE signed_amount(lines[First(s)]).amount + g[s \ {First(s)}]]
  <2>1. ASSUME NEW s \in SUBSET S, s # {}
        PROVE  ch[s] = First(s) /\ v[ch[s]] = signed_amount(lines[First(s)]).amount
    <3>1. ch[s] = First(s) /\ ch[s] \in S
      BY <1>1, <1>2, <2>1 DEF Choice
    <3> QED BY <1>1, <3>1 DEF Signed
  <2> QED BY <1>1, <2>1 DEF Unfold
<1>4. Sums(v, ch, S) =
        (CHOOSE g : g = [s \in SUBSET S |-> IF s = {} THEN 0
                            ELSE signed_amount(lines[First(s)]).amount + g[s \ {First(s)}]])
  <2>1. Sums(v, ch, S) = (CHOOSE g : g = Unfold(v, ch, SUBSET S, g))
    BY DEF Sums
  <2>2. (CHOOSE g : g = Unfold(v, ch, SUBSET S, g)) =
        (CHOOSE g : g = [s \in SUBSET S |-> IF s = {} THEN 0
                            ELSE signed_amount(lines[First(s)]).amount + g[s \ {First(s)}]])
    BY <1>3, Zenon
  <2> QED BY <2>1, <2>2, Zenon
<1>5. MapThenSumSet(LAMBDA n : signed_amount(lines[n]).amount, S) = Sums(v, ch, S)[S]
  BY <1>4, Zenon DEF First, MapThenSumSet, MapThenFoldSet
<1> QED BY <1>1, <1>5 DEF Total

\* Lines that respect the currencies the accounts are kept in leave the balances in them.
LEMMA PostLinesHome ==
  ASSUME NEW home, NEW b \in Balances, KeptAtHome(home, b),
         NEW lines \in Seq(JournalLine), \A n \in DOMAIN lines : OneSided(lines[n]),
         AtHome(home, lines)
  PROVE  KeptAtHome(home, PostLines(b, lines))
<1>1. PICK N \in Nat : N = Len(lines) /\ DOMAIN lines = 1..N
  OBVIOUS
<1>2. PICK at : at = PostFn(b, lines, N)
  OBVIOUS
<1>3. /\ PostLines(b, lines) = at[N] /\ at[0] = b
      /\ \A n \in 1..N : at[n] = PostLine(at[n - 1], lines[n])
  <2>1. at = [n \in 0..N |-> IF n = 0 THEN b ELSE PostLine(at[n - 1], lines[n])]
    BY <1>2, PostFnDef
  <2>2. PostLines(b, lines) = at[N]
    BY <1>1, <1>2 DEF PostLines, PostFn
  <2> QED BY <1>1, <2>1, <2>2
<1> DEFINE S == {n \in Nat : n \in 0..N => at[n] \in Balances /\ KeptAtHome(home, at[n])}
<1>4. 0 \in S
  BY <1>3
<1>5. ASSUME NEW n \in Nat, n \in S PROVE n + 1 \in S
  <2> SUFFICES ASSUME n + 1 \in 0..N PROVE at[n + 1] \in Balances /\ KeptAtHome(home, at[n + 1])
    OBVIOUS
  <2>1. n \in 0..N /\ n + 1 \in 1..N
    OBVIOUS
  <2>2. PICK old, line, new : old = at[n] /\ line = lines[n + 1] /\ new = at[n + 1]
    OBVIOUS
  <2>3. old \in Balances /\ KeptAtHome(home, old)
    BY <1>5, <2>1, <2>2
  <2>4. line \in JournalLine /\ OneSided(line) /\ new = PostLine(old, line)
        /\ validate(line).currency = home[line.account]
    BY <1>1, <1>3, <2>1, <2>2 DEF AtHome
  <2>5. new \in Balances
    BY <2>3, <2>4, PostLineType
  <2>6. KeptAtHome(home, new)
    BY <2>3, <2>4, PostLineHome
  <2> QED BY <2>2, <2>5, <2>6
<1>6. N \in S
  <2> HIDE DEF S
  <2>1. Nat \subseteq S
    BY <1>4, <1>5, SetInduction
  <2> QED BY <2>1
<1> QED BY <1>3, <1>6
=============================================================================
