------------------------ MODULE LedgerDriversProofs -------------------------
(***************************************************************************)
(* What the three drivers of the ledger keep, for any instance of them:    *)
(* the logs of the one-command-at-a-time ledger (AtomicLedger), for any    *)
(* set of streams and commands; a run of the corpus (CorpusRunner), for    *)
(* any corpus of scenarios and reference files; and the generated ledger   *)
(* (Generator), for any spec.                                              *)
(*                                                                         *)
(* AtomicLedger: LogInv, TrailInv and the invariants between them, on the  *)
(* lemmas of LedgerProofs.  CorpusRunner: RunnerInv and, on top of it,     *)
(* AllBooks.  Generator: DrawnInv.                                         *)
(***************************************************************************)
EXTENDS AtomicLedger, CorpusRunner, Generator, LedgerProofs

-----------------------------------------------------------------------------
(* The trial balance. *)

LogInv(home) ==
    /\ log \in [Streams -> Seq(LedgerEvent)]
    /\ \A s \in Streams : SheetInv(home, replay(log[s]))

LEMMA InitKeepsSheet ==
  ASSUME IsFiniteSet(Accounts), NEW home, Init
  PROVE  LogInv(home)
<1>1. log = [s \in Streams |-> <<>>]
  BY DEF Init
<1>2. replay(<<>>) = DefaultState
  BY ReplayStep
<1>3. SheetInv(home, DefaultState)
  BY DefaultSheet
<1>4. ASSUME NEW s \in Streams PROVE log[s] \in Seq(LedgerEvent) /\ SheetInv(home, replay(log[s]))
  <2>1. log[s] = <<>>
    BY <1>1
  <2> QED BY <1>2, <1>3, <2>1
<1> QED BY <1>1, <1>4 DEF LogInv

LEMMA HandleKeepsSheet ==
  ASSUME IsFiniteSet(Accounts), NEW home, LogInv(home),
         \A command \in Commands : Respects(home, command),
         NEW s \in Streams, NEW command \in Commands, NEW id \in NewIds(command, Fresh),
         Handle(s, command, id)
  PROVE  LogInv(home)'
<1>1. PICK before, event : before = replay(log[s]) /\ event = CommandEvent(before, command, id)
  OBVIOUS
<1>2. command \in LedgerCommand /\ Fresh \in SUBSET EntryIds /\ log \in [Streams -> Seq(LedgerEvent)]
  BY AtomicLedgerAssumption DEF Fresh, LogInv
<1>3. SheetInv(home, before) /\ CommandError(before, command) = None
      /\ log' = [log EXCEPT ![s] = Append(@, event)]
  BY <1>1 DEF LogInv, Handle
<1>4. event \in LedgerEvent
  BY <1>1, <1>2, <1>3, CommandEventType DEF SheetInv
<1>5. SheetInv(home, apply_event(before, event))
  BY <1>1, <1>2, <1>3, AcceptedSheet
<1>6. log[s] \in Seq(LedgerEvent) /\ log'[s] = Append(log[s], event)
      /\ log' \in [Streams -> Seq(LedgerEvent)]
      /\ \A t \in Streams : t # s => log'[t] = log[t]
  BY <1>2, <1>3, <1>4
<1>7. replay(log'[s]) = apply_event(before, event)
  BY <1>1, <1>4, <1>6, ReplayStep
<1>8. ASSUME NEW t \in Streams PROVE SheetInv(home, replay(log'[t]))
  BY <1>5, <1>6, <1>7 DEF LogInv
<1> QED BY <1>6, <1>8 DEF LogInv

\* `trial_balance' (ledger.rs) is "always zero for a well-formed ledger": so it is, in
\* every currency and whatever is posted and reversed, where each account is kept in
\* one currency.  Where an account is used in two, PostLine drops the delta of a line
\* in the second, and it is not (the run two_currencies).
THEOREM TrialBalanceHolds ==
  ASSUME IsFiniteSet(Accounts),
         NEW home, \A command \in Commands : Respects(home, command)
  PROVE  Spec => []TrialBalanceIsZero
<1>1. Init => LogInv(home)
  BY InitKeepsSheet
<1>2. LogInv(home) /\ [Next]_log => LogInv(home)'
  <2> SUFFICES ASSUME LogInv(home), [Next]_log PROVE LogInv(home)'
    OBVIOUS
  <2>1. CASE Next
    <3>1. PICK s \in Streams, command \in Commands :
              \E id \in NewIds(command, Fresh) : Handle(s, command, id)
      BY <2>1 DEF Next
    <3> QED BY <3>1, HandleKeepsSheet
  <2>2. CASE UNCHANGED log
    BY <2>2 DEF LogInv
  <2> QED BY <2>1, <2>2
<1>3. LogInv(home) => TrialBalanceIsZero
  <2> SUFFICES ASSUME LogInv(home), NEW s \in Streams, NEW c \in Currencies
               PROVE  trial_balance(replay(log[s]), c) = 0
    BY DEF TrialBalanceIsZero
  <2>1. PICK before : before = replay(log[s])
    OBVIOUS
  <2>2. before.balances \in Balances /\ Net(before.balances, c) = 0
    BY <2>1 DEF LogInv, SheetInv, LedgerState, Balances
  <2> QED BY <2>1, <2>2, TrialBalanceIsNet
<1> QED BY <1>1, <1>2, <1>3, PTL DEF Spec

-----------------------------------------------------------------------------
(* What the lines of one entry bring to an account. *)

On(lines, account) ==
    [i \in 1..Len(lines) |-> IF lines[i].account = account THEN signed_amount(lines[i]).amount ELSE 0]

LEMMA OnType ==
  ASSUME NEW lines \in Seq(JournalLine), \A i \in 1..Len(lines) : OneSided(lines[i]), NEW account
  PROVE  Valued(On(lines, account), 1..Len(lines))
<1>1. Valued(Signed(lines), 1..Len(lines))
  BY SignedType
<1> QED BY <1>1 DEF Valued, On, Signed

LEMMA NetOnAddsUp ==
  ASSUME NEW lines \in Seq(JournalLine), \A i \in 1..Len(lines) : OneSided(lines[i]), NEW account
  PROVE  \E g : AddsUp(g, On(lines, account), 1..Len(lines)) /\ NetOn(lines, account) = g[1..Len(lines)]
<1> DEFINE Takes(i) == lines[i].account = account
           Step(D, g) == [s \in SUBSET D |->
                            IF s = {} THEN 0
                            ELSE IF Takes(Max(s)) THEN g[s \ {Max(s)}] + signed_amount(lines[Max(s)]).amount
                                 ELSE g[s \ {Max(s)}]]
<1>1. PICK S, v : S = 1..Len(lines) /\ v = On(lines, account)
  OBVIOUS
<1>2. S = DOMAIN lines /\ IsFiniteSet(S) /\ Valued(v, S)
  <2>1. Len(lines) \in Nat
    OBVIOUS
  <2>2. IsFiniteSet(S)
    BY <1>1, <2>1, FS_Interval
  <2>3. S = DOMAIN lines
    BY <1>1
  <2> QED BY <1>1, <2>2, <2>3, OnType
<1>3. NetOn(lines, account) = (CHOOSE g : g = Step(S, g))[S]
  BY <1>2, Zenon DEF NetOn, FoldLeft, MapThenFoldSet
<1>4. ASSUME NEW s \in SUBSET S, s # {} PROVE Max(s) \in s
  <2>1. PICK n \in Nat : n = Len(lines)
    OBVIOUS
  <2>2. s \in SUBSET (1..n)
    BY <1>1, <2>1
  <2> QED BY <1>4, <2>2, BoundsExist
<1>5. \A i \in S : v[i] = IF Takes(i) THEN signed_amount(lines[i]).amount ELSE 0
  BY <1>1 DEF On
<1>6. PICK ch : ch = [s \in SUBSET S |-> Max(s)]
  OBVIOUS
<1>7. Choice(ch, S)
  BY <1>4, <1>6 DEF Choice
<1>8. PICK h : h = Sums(v, ch, S)
  OBVIOUS
<1>9. \A s \in SUBSET S : h[s] \in Int
  BY <1>2, <1>7, <1>8, SumsAddUp, SumsType
<1>10. h = Unfold(v, ch, SUBSET S, h)
  BY <1>2, <1>7, <1>8, SumsDef
<1>11. ASSUME NEW s \in SUBSET S
       PROVE  h[s] = IF s = {} THEN 0
                     ELSE IF Takes(Max(s)) THEN h[s \ {Max(s)}] + signed_amount(lines[Max(s)]).amount
                          ELSE h[s \ {Max(s)}]
  <2>1. CASE s = {}
    BY <1>10, <2>1 DEF Unfold
  <2>2. CASE s # {}
    <3>1. PICK x, r : x = Max(s) /\ r = s \ {x}
      OBVIOUS
    <3>2. x \in S /\ r \in SUBSET S /\ ch[s] = x
      BY <1>4, <1>6, <2>2, <3>1
    <3>3. h[s] = v[x] + h[r]
      BY <1>10, <2>2, <3>1, <3>2 DEF Unfold
    <3>4. h[r] \in Int /\ v[x] \in Int
      BY <1>2, <1>9, <3>2 DEF Valued
    <3>5. v[x] = IF Takes(x) THEN signed_amount(lines[x]).amount ELSE 0
      BY <1>5, <3>2
    <3>6. h[s] = IF Takes(x) THEN h[r] + signed_amount(lines[x]).amount ELSE h[r]
      <4> HIDE DEF Takes
      <4> QED BY <3>3, <3>4, <3>5
    <3> HIDE DEF Takes
    <3> QED BY <2>2, <3>1, <3>6
  <2> QED BY <2>1, <2>2
<1>12. h = Step(S, h)
  <2>1. h = [s \in SUBSET S |-> h[s]]
    BY <1>10 DEF Unfold
  <2> QED BY <1>11, <2>1
<1>13. PICK g : g = (CHOOSE f : f = Step(S, f))
  OBVIOUS
<1>14. g = Step(S, g)
  <2> HIDE DEF Step
  <2> QED BY <1>12, <1>13
<1>15. AddsUp(g, v, S)
  <2>1. g[{}] = 0
    BY <1>14
  <2>2. ASSUME NEW s \in SUBSET S, s # {}
        PROVE  \E x \in s : \/ g[s] = g[s \ {x}] + v[x]
                            \/ v[x] = 0 /\ g[s] = g[s \ {x}]
    <3>1. PICK x, r : x = Max(s) /\ r = s \ {x}
      OBVIOUS
    <3>2. x \in s /\ x \in S
      BY <1>4, <2>2, <3>1
    <3>3. g[s] = IF Takes(x) THEN g[r] + signed_amount(lines[x]).amount ELSE g[r]
      BY <1>14, <2>2, <3>1
    <3>4. v[x] = IF Takes(x) THEN signed_amount(lines[x]).amount ELSE 0
      BY <1>5, <3>2
    <3>5. g[s] = g[r] + v[x] \/ (v[x] = 0 /\ g[s] = g[r])
      <4> HIDE DEF Takes
      <4> QED BY <3>3, <3>4
    <3> QED BY <3>1, <3>2, <3>5
  <2> QED BY <2>1, <2>2 DEF AddsUp
<1>16. NetOn(lines, account) = g[S]
  BY <1>3, <1>13
<1> QED BY <1>1, <1>15, <1>16

LEMMA NetOnType ==
  ASSUME NEW lines \in Seq(JournalLine), \A i \in 1..Len(lines) : OneSided(lines[i]), NEW account
  PROVE  NetOn(lines, account) \in Int
<1>1. PICK S : S = 1..Len(lines) /\ IsFiniteSet(S)
  BY FS_Interval
<1>2. PICK g : AddsUp(g, On(lines, account), S) /\ NetOn(lines, account) = g[S]
  BY <1>1, NetOnAddsUp
<1> QED BY <1>1, <1>2, OnType, SumsType

\* The entry a reversal posts takes back what the original brought.
LEMMA NetOnMirror ==
  ASSUME NEW lines \in Seq(JournalLine), Balanced(lines), NEW account
  PROVE  NetOn(mirror(lines), account) = -NetOn(lines, account)
<1>1. PICK m, N, S : m = mirror(lines) /\ N = Len(lines) /\ S = 1..N
  OBVIOUS
<1>2. m \in Seq(JournalLine) /\ N \in Nat /\ Len(m) = N /\ IsFiniteSet(S)
  <2>1. N \in Nat
    BY <1>1
  <2>2. DOMAIN m = S
    BY <1>1 DEF mirror
  <2>3. m \in Seq(JournalLine)
    BY <1>1, MirrorType
  <2> QED BY <1>1, <2>1, <2>2, <2>3, FS_Interval
<1>3. (\A i \in S : OneSided(lines[i])) /\ (\A i \in S : OneSided(m[i]))
  BY <1>1, <1>2, MirrorBalanced DEF Balanced
<1>4. PICK v, w : v = On(lines, account) /\ w = On(m, account)
  OBVIOUS
<1>5. ASSUME NEW i \in S PROVE w[i] = -v[i] /\ v[i] \in Int
  <2>1. PICK line, other : line = lines[i] /\ other = m[i]
    OBVIOUS
  <2>2. other = [account |-> line.account, debit |-> line.credit, credit |-> line.debit]
    BY <1>1, <2>1 DEF mirror
  <2>3. line \in JournalLine /\ OneSided(line)
    BY <1>1, <1>3, <2>1
  <2>4. /\ other.account = line.account /\ signed_amount(line).amount \in Int
        /\ signed_amount(other).amount = -signed_amount(line).amount
    BY <2>2, <2>3, MirrorLine
  <2>5. /\ v[i] = IF line.account = account THEN signed_amount(line).amount ELSE 0
        /\ w[i] = IF other.account = account THEN signed_amount(other).amount ELSE 0
    BY <1>1, <1>2, <1>4, <2>1 DEF On
  <2> QED BY <2>4, <2>5
<1>6. PICK g : AddsUp(g, v, S) /\ NetOn(lines, account) = g[S]
  BY <1>1, <1>3, <1>4, NetOnAddsUp
<1>7. PICK k : AddsUp(k, w, S) /\ NetOn(m, account) = k[S]
  BY <1>1, <1>2, <1>3, <1>4, NetOnAddsUp
<1>8. Valued(v, S) /\ Valued(w, S)
  BY <1>5 DEF Valued
<1>9. \A s \in SUBSET S : g[s] \in Int
  BY <1>2, <1>6, <1>8, SumsType
<1>10. PICK h : h = [s \in SUBSET S |-> -g[s]]
  OBVIOUS
<1>11. AddsUp(h, w, S)
  <2>1. h[{}] = 0
    BY <1>6, <1>10 DEF AddsUp
  <2>2. ASSUME NEW s \in SUBSET S, s # {} PROVE \E x \in s : h[s] = w[x] + h[s \ {x}]
    <3>1. PICK x, r : x \in s /\ r = s \ {x}
      BY <2>2
    <3>2. r \in SUBSET S /\ x \in S
      BY <3>1
    <3>3. g[s] = v[x] + g[r]
      BY <1>2, <1>6, <1>8, <3>1, SumsRemove
    <3>4. h[s] = -g[s] /\ h[r] = -g[r] /\ g[r] \in Int /\ w[x] = -v[x] /\ v[x] \in Int
      BY <1>5, <1>9, <1>10, <3>2
    <3>5. h[s] = w[x] + h[r]
      BY <3>3, <3>4
    <3> QED BY <3>1, <3>5
  <2> QED BY <2>1, <2>2 DEF AddsUp
<1>12. h[S] = k[S]
  BY <1>2, <1>7, <1>8, <1>11, SumsAgree
<1>13. h[S] = -g[S]
  BY <1>10
<1> QED BY <1>1, <1>6, <1>7, <1>12, <1>13

LEMMA PostLineOn ==
  ASSUME NEW home, NEW b \in Balances, KeptAtHome(home, b), NEW line \in JournalLine, OneSided(line),
         validate(line).currency = home[line.account], NEW a \in Accounts
  PROVE  Amount(PostLine(b, line))[a] =
            Amount(b)[a] + IF line.account = a THEN signed_amount(line).amount ELSE 0
<1>1. PICK x, delta, b2 : x = line.account /\ delta = signed_amount(line) /\ b2 = PostLine(b, line)
  OBVIOUS
<1>2. /\ x \in Accounts /\ delta \in Money /\ delta # None /\ delta.currency = home[x]
      /\ b[x] \in Money \union {None} /\ b[a] \in Money \union {None} /\ delta.amount \in Int
  BY <1>1, SignedAmountType, NoneAssumption DEF JournalLine, Balances, Money
<1>3. Amount(b)[a] = (IF b[a] = None THEN 0 ELSE b[a].amount) /\ Amount(b)[a] \in Int
  BY AmountType DEF Amount, Valued
<1>4. Amount(b2)[a] = IF b2[a] = None THEN 0 ELSE b2[a].amount
  BY DEF Amount
<1>5. CASE x # a
  <2>1. b2[a] = b[a]
    BY <1>1, <1>2, <1>5 DEF PostLine, Balances
  <2> QED BY <1>1, <1>3, <1>4, <1>5, <2>1
<1>6. CASE x = a /\ b[a] = None
  <2>1. b2[a] = delta
    BY <1>1, <1>2, <1>6 DEF PostLine, Balances
  <2> QED BY <1>1, <1>2, <1>3, <1>4, <1>6, <2>1
<1>7. CASE x = a /\ b[a] # None
  <2>1. b[a].currency = delta.currency
    BY <1>2, <1>7 DEF KeptAtHome
  <2>2. b2 = [b EXCEPT ![a].amount = @ + delta.amount]
    BY <1>1, <1>2, <1>7, <2>1 DEF PostLine
  <2>3. PICK m : m = [b[a] EXCEPT !.amount = @ + delta.amount]
    OBVIOUS
  <2>4. m \in Money /\ m.amount = b[a].amount + delta.amount
    BY <1>2, <1>7, <2>3 DEF Money
  <2>5. b2[a] = m
    BY <2>2, <2>3 DEF Balances
  <2> QED BY <1>1, <1>3, <1>4, <1>7, <2>4, <2>5, NoneAssumption
<1> QED BY <1>5, <1>6, <1>7

\* Posting an entry moves the balance of an account by what its lines bring to it.
LEMMA PostLinesOn ==
  ASSUME NEW home, NEW b \in Balances, KeptAtHome(home, b),
         NEW lines \in Seq(JournalLine), Balanced(lines), AtHome(home, lines),
         NEW a \in Accounts
  PROVE  Amount(PostLines(b, lines))[a] = Amount(b)[a] + NetOn(lines, a)
<1>1. PICK N, v : N = Len(lines) /\ v = On(lines, a)
  OBVIOUS
<1>2. N \in Nat /\ IsFiniteSet(1..N)
  BY <1>1, FS_Interval
<1>3. PICK g : AddsUp(g, v, 1..N) /\ NetOn(lines, a) = g[1..N]
  BY <1>1, NetOnAddsUp DEF Balanced
<1>4. Valued(v, 1..N)
  BY <1>1, OnType DEF Balanced
<1>5. \A i \in 1..N : /\ lines[i] \in JournalLine /\ OneSided(lines[i])
                      /\ validate(lines[i]).currency = home[lines[i].account]
                      /\ v[i] = IF lines[i].account = a THEN signed_amount(lines[i]).amount ELSE 0
  BY <1>1 DEF Balanced, AtHome, On
<1>6. PICK f : f = PostFn(b, lines, N)
  OBVIOUS
<1>7. f = [n \in 0..N |-> IF n = 0 THEN b ELSE PostLine(f[n - 1], lines[n])]
  BY <1>2, <1>6, PostFnDef
<1> DEFINE T == {n \in Nat : n \in 0..N => /\ f[n] \in Balances /\ KeptAtHome(home, f[n])
                                           /\ Amount(f[n])[a] = Amount(b)[a] + g[1..n]}
<1>8. Amount(b)[a] \in Int
  BY AmountType DEF Valued
<1>9. 0 \in T
  <2>1. f[0] = b /\ 1..0 = {} /\ g[{}] = 0
    BY <1>2, <1>3, <1>7 DEF AddsUp
  <2> QED BY <1>8, <2>1
<1>10. ASSUME NEW n \in Nat, n \in T PROVE n + 1 \in T
  <2> SUFFICES ASSUME n + 1 \in 0..N
               PROVE  /\ f[n + 1] \in Balances /\ KeptAtHome(home, f[n + 1])
                      /\ Amount(f[n + 1])[a] = Amount(b)[a] + g[1..(n + 1)]
    OBVIOUS
  <2>1. n \in 0..N /\ n + 1 \in 1..N
    BY <1>2
  <2>2. PICK line, b1, b2 : line = lines[n + 1] /\ b1 = f[n] /\ b2 = f[n + 1]
    OBVIOUS
  <2>3. b1 \in Balances /\ KeptAtHome(home, b1) /\ Amount(b1)[a] = Amount(b)[a] + g[1..n]
    BY <1>10, <2>1, <2>2
  <2>4. /\ line \in JournalLine /\ OneSided(line) /\ b2 = PostLine(b1, line)
        /\ validate(line).currency = home[line.account]
        /\ v[n + 1] = IF line.account = a THEN signed_amount(line).amount ELSE 0
    <3>1. b2 = PostLine(b1, line)
      BY <1>7, <2>1, <2>2
    <3> QED BY <1>5, <2>1, <2>2, <3>1
  <2>5. b2 \in Balances /\ KeptAtHome(home, b2)
    BY <2>3, <2>4, PostLineType, PostLineHome
  <2>6. Amount(b2)[a] = Amount(b1)[a] + v[n + 1]
    BY <2>3, <2>4, PostLineOn
  <2>7. g[1..(n + 1)] = v[n + 1] + g[1..n]
    <3>1. PICK s : s = 1..(n + 1)
      OBVIOUS
    <3>2. s \in SUBSET (1..N) /\ n + 1 \in s /\ s \ {n + 1} = 1..n
      BY <1>2, <2>1, <3>1
    <3>3. \A y \in s : g[s] = v[y] + g[s \ {y}]
      BY <1>2, <1>3, <1>4, <3>2, SumsRemove
    <3> QED BY <3>1, <3>2, <3>3
  <2>8. g[1..n] \in Int /\ v[n + 1] \in Int
    <3>1. 1..n \in SUBSET (1..N)
      BY <1>2, <2>1
    <3>2. g[1..n] \in Int
      BY <1>2, <1>3, <1>4, <3>1, SumsType
    <3> QED BY <1>4, <2>1, <3>2 DEF Valued
  <2> QED BY <1>8, <2>2, <2>3, <2>5, <2>6, <2>7, <2>8
<1>11. Nat \subseteq T
  <2> HIDE DEF T
  <2> QED BY <1>9, <1>10, SetInduction
<1>12. Amount(f[N])[a] = Amount(b)[a] + g[1..N]
  BY <1>2, <1>11
<1>13. PostLines(b, lines) = f[N]
  BY <1>1, <1>6 DEF PostLines, PostFn
<1> QED BY <1>3, <1>12, <1>13

-----------------------------------------------------------------------------
(* The reversals stacked on an entry. *)

\* depth counts the reversals stacked on each entry of the stream.
Stacks(stream, depth) ==
    /\ depth \in [EntryIds -> Nat]
    /\ \A i \in Reversals(stream) : depth[stream[i].original_id] = 1 + depth[stream[i].reversal_id]
    /\ \A e \in EntryIds : (\A i \in Reversals(stream) : stream[i].original_id # e) => depth[e] = 0

\* Where reversals do not go round in circles, ReversalDepth counts them.
LEMMA ReversalDepthIs ==
  ASSUME NEW stream, NEW depth, Stacks(stream, depth), NEW e \in EntryIds,
         \A i \in Reversals(stream) : stream[i].reversal_id \in EntryIds
  PROVE  ReversalDepth(stream, e) = depth[e]
<1> DEFINE Reversed(x) == \E i \in Reversals(stream) : stream[i].original_id = x
           By(x) == stream[CHOOSE i \in Reversals(stream) : stream[i].original_id = x].reversal_id
           F(d) == [x \in EntryIds |-> IF Reversed(x) THEN 1 + d[By(x)] ELSE 0]
<1>1. ASSUME NEW x \in EntryIds
      PROVE  /\ Reversed(x) => By(x) \in EntryIds /\ depth[x] = 1 + depth[By(x)]
             /\ ~Reversed(x) => depth[x] = 0
  <2>1. CASE Reversed(x)
    <3>1. PICK i : i = CHOOSE j \in Reversals(stream) : stream[j].original_id = x
      OBVIOUS
    <3>2. i \in Reversals(stream) /\ stream[i].original_id = x
      BY <2>1, <3>1
    <3>3. By(x) = stream[i].reversal_id
      BY <3>1
    <3> QED BY <2>1, <3>2, <3>3 DEF Stacks
  <2>2. CASE ~Reversed(x)
    BY <2>2 DEF Stacks
  <2> QED BY <2>1, <2>2
<1>2. depth = F(depth)
  <2>1. \A x \in EntryIds : depth[x] = IF Reversed(x) THEN 1 + depth[By(x)] ELSE 0
    <3> HIDE DEF Reversed, By
    <3> QED BY <1>1
  <2>2. depth = [x \in EntryIds |-> depth[x]]
    BY DEF Stacks
  <2> HIDE DEF Reversed, By
  <2> QED BY <2>1, <2>2
<1>3. PICK d : d = CHOOSE c : c = F(c)
  OBVIOUS
<1>4. d = F(d)
  <2> HIDE DEF F
  <2> QED BY <1>2, <1>3
<1>5. \A x \in EntryIds : d[x] = IF Reversed(x) THEN 1 + d[By(x)] ELSE 0
  <2> HIDE DEF Reversed, By
  <2> QED BY <1>4
<1> DEFINE T == {n \in Nat : \A x \in EntryIds : depth[x] = n => d[x] = n}
<1>6. \A x \in EntryIds : depth[x] \in Nat
  BY DEF Stacks
<1>7. 0 \in T
  <2> SUFFICES ASSUME NEW x \in EntryIds, depth[x] = 0 PROVE d[x] = 0
    OBVIOUS
  <2> HIDE DEF Reversed, By
  <2>1. ~Reversed(x)
    BY <1>1, <1>6
  <2> QED BY <1>5, <2>1
<1>8. ASSUME NEW n \in Nat, n \in T PROVE n + 1 \in T
  <2> SUFFICES ASSUME NEW x \in EntryIds, depth[x] = n + 1 PROVE d[x] = n + 1
    OBVIOUS
  <2> HIDE DEF Reversed, By
  <2>1. Reversed(x)
    BY <1>1
  <2>2. By(x) \in EntryIds /\ depth[By(x)] = n
    BY <1>1, <1>6, <2>1
  <2>3. d[By(x)] = n
    BY <1>8, <2>2
  <2> QED BY <1>5, <2>1, <2>3
<1>9. Nat \subseteq T
  <2> HIDE DEF T
  <2> QED BY <1>7, <1>8, SetInduction
<1>10. d[e] = depth[e]
  BY <1>6, <1>9
<1>11. ReversalDepth(stream, e) = d[e]
  BY <1>3, Zenon DEF ReversalDepth
<1> QED BY <1>10, <1>11

-----------------------------------------------------------------------------
(* The chain of reversals that starts at a posted entry. *)

OnFile(before) == {e \in EntryIds : before.entries[e] # None}

\* tip is the last entry of the chain an entry is on: the reversal of the reversal
\* of ... of it, that nothing has reversed yet.  A chain starts at one posted entry,
\* and its tip carries that entry's amounts or takes them back.
Chains(stream, before, depth, tip) ==
    /\ Stacks(stream, depth)
    /\ tip \in [EntryIds -> EntryIds]
    /\ \A i \in Reversals(stream) :
          /\ stream[i].original_id \in OnFile(before) \intersect before.reversed
          /\ stream[i].reversal_id \in OnFile(before)
          /\ tip[stream[i].original_id] = tip[stream[i].reversal_id]
    /\ \A e \in EntryIds : (\A i \in Reversals(stream) : stream[i].original_id # e) => tip[e] = e
    /\ \A i \in Postings(stream) :
          /\ stream[i].id \in EntryIds
          /\ stream[i].lines \in Seq(JournalLine) /\ Balanced(stream[i].lines)
          /\ tip[stream[i].id] \in OnFile(before)
          /\ \A a \in Accounts :
                NetOn(before.entries[tip[stream[i].id]], a) =
                   IF depth[stream[i].id] % 2 = 0 THEN NetOn(stream[i].lines, a)
                                                  ELSE -NetOn(stream[i].lines, a)
    /\ \A i, j \in Postings(stream) : tip[stream[i].id] = tip[stream[j].id] => i = j
    /\ \A e \in OnFile(before) : \E i \in Postings(stream) : tip[stream[i].id] = tip[e]

\* The positions of a longer stream, by the kind of the event.
Appended(stream, event, k, longer) ==
    /\ k \notin DOMAIN stream /\ longer[k] = event
    /\ \A i \in DOMAIN stream : longer[i] = stream[i]
    /\ Reversals(stream) \subseteq DOMAIN stream /\ Postings(stream) \subseteq DOMAIN stream
    /\ \A i \in Reversals(stream) \union Postings(stream) : longer[i] = stream[i] /\ i # k
    /\ event.kind = "JournalEntryPosted" => /\ Reversals(longer) = Reversals(stream)
                                            /\ Postings(longer) = Postings(stream) \union {k}
    /\ event.kind = "EntryReversed" => /\ Reversals(longer) = Reversals(stream) \union {k}
                                       /\ Postings(longer) = Postings(stream)
    /\ event.kind = "CapitalizationStatusChanged" => /\ Reversals(longer) = Reversals(stream)
                                                     /\ Postings(longer) = Postings(stream)

LEMMA AppendKinds ==
  ASSUME NEW stream \in Seq(LedgerEvent), NEW event \in LedgerEvent
  PROVE  Appended(stream, event, Len(stream) + 1, Append(stream, event))
<1>1. PICK k, longer : k = Len(stream) + 1 /\ longer = Append(stream, event)
  OBVIOUS
<1>2. /\ k \notin DOMAIN stream /\ longer[k] = event
      /\ \A i \in DOMAIN stream : longer[i] = stream[i]
      /\ DOMAIN longer = DOMAIN stream \union {k}
  BY <1>1
<1>3. Reversals(stream) \subseteq DOMAIN stream /\ Postings(stream) \subseteq DOMAIN stream
  BY DEF Reversals, Postings
<1>4. Reversals(longer) = Reversals(stream) \union {i \in {k} : event.kind = "EntryReversed"}
  BY <1>2 DEF Reversals
<1>5. Postings(longer) = Postings(stream) \union {i \in {k} : event.kind = "JournalEntryPosted"}
  BY <1>2 DEF Postings
<1>6. Appended(stream, event, k, longer)
  BY <1>2, <1>3, <1>4, <1>5 DEF Appended
<1> QED BY <1>1, <1>6

LEMMA ChainsPost ==
  ASSUME NEW stream \in Seq(LedgerEvent), NEW before \in LedgerState, NEW depth, NEW tip,
         Chains(stream, before, depth, tip),
         NEW id \in EntryIds \ OnFile(before), NEW lines \in Seq(JournalLine), Balanced(lines),
         NEW event \in LedgerEvent,
         event = [kind |-> "JournalEntryPosted", id |-> id, lines |-> lines]
  PROVE  /\ Chains(Append(stream, event), post(before, id, lines), depth, tip)
         /\ depth[id] = 0
<1>1. PICK k, longer, new : k = Len(stream) + 1 /\ longer = Append(stream, event) /\ new = post(before, id, lines)
  OBVIOUS
<1>2. /\ k \notin DOMAIN stream /\ longer[k] = event
      /\ \A i \in DOMAIN stream : longer[i] = stream[i]
      /\ Reversals(stream) \subseteq DOMAIN stream /\ Postings(stream) \subseteq DOMAIN stream
      /\ Reversals(longer) = Reversals(stream)
      /\ Postings(longer) = Postings(stream) \union {k}
      /\ \A i \in Reversals(stream) \union Postings(stream) : longer[i] = stream[i] /\ i # k
  <2>1. event.kind = "JournalEntryPosted"
    OBVIOUS
  <2>2. Appended(stream, event, Len(stream) + 1, Append(stream, event))
    BY AppendKinds
  <2> QED BY <1>1, <2>1, <2>2 DEF Appended
<1>3. /\ new.reversed = before.reversed
      /\ new.entries[id] = lines /\ lines # None
      /\ \A e \in EntryIds : e # id => new.entries[e] = before.entries[e]
      /\ OnFile(new) = OnFile(before) \union {id}
  <2>1. new.reversed = before.reversed /\ new.entries = [before.entries EXCEPT ![id] = lines]
    BY <1>1 DEF post, LedgerState
  <2>2. lines # None
    BY NoneAssumption
  <2> QED BY <2>1, <2>2 DEF OnFile, LedgerState
<1>4. depth[id] = 0 /\ tip[id] = id
  <2>1. \A i \in Reversals(stream) : stream[i].original_id # id
    BY DEF Chains
  <2> QED BY <2>1 DEF Chains, Stacks
<1>5. Stacks(longer, depth)
  <2>1. Reversals(longer) = Reversals(stream) /\ \A i \in Reversals(stream) : longer[i] = stream[i]
    BY <1>2
  <2>2. Stacks(stream, depth)
    BY DEF Chains
  <2> QED BY <2>1, <2>2 DEF Stacks
<1>6. \A i \in Reversals(longer) :
          /\ longer[i].original_id \in OnFile(new) \intersect new.reversed
          /\ longer[i].reversal_id \in OnFile(new)
          /\ tip[longer[i].original_id] = tip[longer[i].reversal_id]
  BY <1>2, <1>3 DEF Chains
<1>7. \A e \in EntryIds : (\A i \in Reversals(longer) : longer[i].original_id # e) => tip[e] = e
  BY <1>2 DEF Chains
<1>8. ASSUME NEW i \in Postings(longer)
      PROVE  /\ longer[i].id \in EntryIds
             /\ longer[i].lines \in Seq(JournalLine) /\ Balanced(longer[i].lines)
             /\ tip[longer[i].id] \in OnFile(new)
             /\ \A a \in Accounts :
                   NetOn(new.entries[tip[longer[i].id]], a) =
                      IF depth[longer[i].id] % 2 = 0 THEN NetOn(longer[i].lines, a)
                                                     ELSE -NetOn(longer[i].lines, a)
  <2>1. CASE i = k
    <3>1. longer[i].id = id /\ longer[i].lines = lines
      BY <1>2, <2>1
    <3> QED BY <1>3, <1>4, <3>1
  <2>2. CASE i \in Postings(stream)
    <3>1. longer[i] = stream[i] /\ tip[stream[i].id] \in OnFile(before)
      BY <1>2, <2>2 DEF Chains
    <3>2. new.entries[tip[stream[i].id]] = before.entries[tip[stream[i].id]]
      BY <1>3, <3>1 DEF OnFile
    <3> QED BY <1>3, <2>2, <3>1, <3>2 DEF Chains
  <2> QED BY <1>2, <2>1, <2>2
<1>9. \A i \in Postings(stream) : longer[i] = stream[i] /\ tip[stream[i].id] # id
  BY <1>2 DEF Chains
<1>10. \A i, j \in Postings(longer) : tip[longer[i].id] = tip[longer[j].id] => i = j
  <2>1. longer[k].id = id
    BY <1>2
  <2> QED BY <1>2, <1>4, <1>9, <2>1 DEF Chains
<1>11. \A e \in OnFile(new) : \E i \in Postings(longer) : tip[longer[i].id] = tip[e]
  <2>1. longer[k].id = id
    BY <1>2
  <2> QED BY <1>2, <1>3, <1>9, <2>1 DEF Chains
<1>12. tip \in [EntryIds -> EntryIds]
  BY DEF Chains
<1>13. Chains(longer, new, depth, tip)
  BY <1>5, <1>6, <1>7, <1>8, <1>10, <1>11, <1>12 DEF Chains
<1> QED BY <1>1, <1>4, <1>13

LEMMA Parity ==
  ASSUME NEW n \in Nat
  PROVE  ((n + 1) % 2 = 0) <=> (n % 2 # 0)
OBVIOUS

\* A reversal lengthens one chain: the one whose tip it reverses.
Deeper(depth, tip, original) ==
    [e \in EntryIds |-> IF tip[e] = original THEN depth[e] + 1 ELSE depth[e]]

Onward(tip, original, id) == [e \in EntryIds |-> IF tip[e] = original THEN id ELSE tip[e]]

\* new is state after the entry on file under original is reversed under id.
Reverses(before, new, original, id) ==
    /\ before \in LedgerState /\ new \in LedgerState
    /\ original \in OnFile(before) \ before.reversed /\ id \in EntryIds \ OnFile(before)
    /\ before.entries[original] \in Seq(JournalLine) /\ Balanced(before.entries[original])
    /\ new.entries = [before.entries EXCEPT ![id] = mirror(before.entries[original])]
    /\ new.reversed = before.reversed \union {original}

LEMMA ChainsReverse ==
  ASSUME NEW stream \in Seq(LedgerEvent), NEW before, NEW depth, NEW tip,
         Chains(stream, before, depth, tip),
         NEW new, NEW original, NEW id, Reverses(before, new, original, id),
         NEW event \in LedgerEvent,
         event = [kind |-> "EntryReversed", original_id |-> original, reversal_id |-> id]
  PROVE  \E k \in Postings(stream) :
            /\ tip[stream[k].id] = original
            /\ Chains(Append(stream, event), new, Deeper(depth, tip, original),
                      Onward(tip, original, id))
            /\ \A i \in Postings(stream) : i # k => tip[stream[i].id] # original
<1>0. /\ before \in LedgerState /\ new \in LedgerState
      /\ original \in OnFile(before) \ before.reversed /\ id \in EntryIds \ OnFile(before)
      /\ before.entries[original] \in Seq(JournalLine) /\ Balanced(before.entries[original])
      /\ new.entries = [before.entries EXCEPT ![id] = mirror(before.entries[original])]
      /\ new.reversed = before.reversed \union {original}
  BY DEF Reverses
<1>1. PICK m, longer, depth2, tip2 :
        /\ m = Len(stream) + 1 /\ longer = Append(stream, event)
        /\ depth2 = Deeper(depth, tip, original)
        /\ tip2 = Onward(tip, original, id)
  OBVIOUS
<1> USE DEF Deeper, Onward
<1>2. /\ m \notin DOMAIN stream /\ longer[m] = event
      /\ \A i \in DOMAIN stream : longer[i] = stream[i]
      /\ Reversals(stream) \subseteq DOMAIN stream /\ Postings(stream) \subseteq DOMAIN stream
      /\ Reversals(longer) = Reversals(stream) \union {m}
      /\ Postings(longer) = Postings(stream)
      /\ \A i \in Reversals(stream) \union Postings(stream) : longer[i] = stream[i] /\ i # m
  <2>1. event.kind = "EntryReversed"
    OBVIOUS
  <2>2. Appended(stream, event, Len(stream) + 1, Append(stream, event))
    BY AppendKinds
  <2> QED BY <1>1, <2>1, <2>2 DEF Appended
<1>3. /\ original \in EntryIds /\ id \in EntryIds /\ id # original
      /\ longer[m].original_id = original /\ longer[m].reversal_id = id
      /\ OnFile(new) = OnFile(before) \union {id}
      /\ \A e \in EntryIds : e # id => new.entries[e] = before.entries[e]
      /\ new.entries[id] = mirror(before.entries[original])
  <2>1. mirror(before.entries[original]) # None
    BY <1>0, MirrorType, NoneAssumption
  <2> QED BY <1>0, <1>2, <2>1 DEF OnFile, LedgerState
<1>4. /\ tip[original] = original /\ depth[original] = 0
      /\ tip[id] = id /\ depth[id] = 0
  <2>1. \A i \in Reversals(stream) : stream[i].original_id # original /\ stream[i].original_id # id
    BY <1>0 DEF Chains
  <2> QED BY <1>3, <2>1 DEF Chains, Stacks
<1>5. depth \in [EntryIds -> Nat] /\ tip \in [EntryIds -> EntryIds]
  BY DEF Chains, Stacks
<1>6. depth2 \in [EntryIds -> Nat] /\ tip2 \in [EntryIds -> EntryIds]
  BY <1>1, <1>3, <1>5
<1>7. Stacks(longer, depth2)
  <2>1. ASSUME NEW i \in Reversals(longer)
        PROVE  depth2[longer[i].original_id] = 1 + depth2[longer[i].reversal_id]
    <3>1. CASE i = m
      BY <1>1, <1>3, <1>4, <3>1
    <3>2. CASE i \in Reversals(stream)
      <4>1. PICK x, y : x = stream[i].original_id /\ y = stream[i].reversal_id
        OBVIOUS
      <4>2. x \in EntryIds /\ y \in EntryIds /\ depth[x] = 1 + depth[y] /\ tip[x] = tip[y]
        BY <3>2, <4>1 DEF Chains, Stacks, OnFile
      <4>3. depth2[x] = 1 + depth2[y]
        BY <1>1, <1>5, <4>2
      <4> QED BY <1>2, <3>2, <4>1, <4>3
    <3> QED BY <1>2, <3>1, <3>2
  <2>2. ASSUME NEW e \in EntryIds, \A i \in Reversals(longer) : longer[i].original_id # e
        PROVE  depth2[e] = 0
    <3>1. (\A i \in Reversals(stream) : stream[i].original_id # e) /\ e # original
      BY <1>2, <1>3, <2>2
    <3>2. depth[e] = 0 /\ tip[e] = e
      BY <3>1 DEF Chains, Stacks
    <3> QED BY <1>1, <3>1, <3>2
  <2> QED BY <1>6, <2>1, <2>2 DEF Stacks
<1>8. ASSUME NEW i \in Reversals(longer)
      PROVE  /\ longer[i].original_id \in OnFile(new) \intersect new.reversed
             /\ longer[i].reversal_id \in OnFile(new)
             /\ tip2[longer[i].original_id] = tip2[longer[i].reversal_id]
  <2>1. CASE i = m
    BY <1>0, <1>1, <1>3, <1>4, <2>1
  <2>2. CASE i \in Reversals(stream)
    <3>1. /\ stream[i].original_id \in OnFile(before) \intersect before.reversed
          /\ stream[i].reversal_id \in OnFile(before)
          /\ tip[stream[i].original_id] = tip[stream[i].reversal_id]
          /\ longer[i] = stream[i]
      BY <1>2, <2>2 DEF Chains
    <3>2. PICK x, y : x = stream[i].original_id /\ y = stream[i].reversal_id
      OBVIOUS
    <3>3. x \in EntryIds /\ y \in EntryIds /\ x \in OnFile(new) /\ y \in OnFile(new)
      BY <1>3, <3>1, <3>2 DEF OnFile
    <3>4. x \in new.reversed
      BY <1>0, <3>1, <3>2
    <3>5. tip2[x] = tip2[y]
      BY <1>1, <3>1, <3>2, <3>3
    <3> QED BY <3>1, <3>2, <3>3, <3>4, <3>5
  <2> QED BY <1>2, <2>1, <2>2
<1>9. ASSUME NEW e \in EntryIds, \A i \in Reversals(longer) : longer[i].original_id # e
      PROVE  tip2[e] = e
  <2>1. (\A i \in Reversals(stream) : stream[i].original_id # e) /\ e # original
    BY <1>2, <1>3, <1>9
  <2>2. tip[e] = e
    BY <2>1 DEF Chains
  <2> QED BY <1>1, <2>1, <2>2
<1>10. ASSUME NEW i \in Postings(longer)
       PROVE  /\ longer[i].id \in EntryIds
              /\ longer[i].lines \in Seq(JournalLine) /\ Balanced(longer[i].lines)
              /\ tip2[longer[i].id] \in OnFile(new)
              /\ \A a \in Accounts :
                    NetOn(new.entries[tip2[longer[i].id]], a) =
                       IF depth2[longer[i].id] % 2 = 0 THEN NetOn(longer[i].lines, a)
                                                       ELSE -NetOn(longer[i].lines, a)
  <2>1. PICK e, lines : e = stream[i].id /\ lines = stream[i].lines
    OBVIOUS
  <2>2. longer[i].id = e /\ longer[i].lines = lines
    BY <1>2, <2>1
  <2>3. /\ e \in EntryIds /\ lines \in Seq(JournalLine) /\ Balanced(lines) /\ tip[e] \in OnFile(before)
        /\ \A a \in Accounts : NetOn(before.entries[tip[e]], a) =
                                  IF depth[e] % 2 = 0 THEN NetOn(lines, a) ELSE -NetOn(lines, a)
    BY <1>2, <2>1 DEF Chains
  <2>4. ASSUME NEW a \in Accounts
        PROVE  NetOn(new.entries[tip2[e]], a) = IF depth2[e] % 2 = 0 THEN NetOn(lines, a) ELSE -NetOn(lines, a)
    <3>1. CASE tip[e] = original
      <4>1. tip2[e] = id /\ depth2[e] = depth[e] + 1 /\ depth[e] \in Nat
        BY <1>1, <1>5, <2>3, <3>1
      <4>2. NetOn(new.entries[tip2[e]], a) = -NetOn(before.entries[tip[e]], a)
        BY <1>0, <1>3, <3>1, <4>1, NetOnMirror
      <4>3. NetOn(lines, a) \in Int
        BY <2>3, NetOnType DEF Balanced
      <4>4. (depth2[e] % 2 = 0) <=> (depth[e] % 2 # 0)
        BY <4>1, Parity
      <4> QED BY <2>3, <4>2, <4>3, <4>4
    <3>2. CASE tip[e] # original
      <4>1. tip2[e] = tip[e] /\ depth2[e] = depth[e] /\ new.entries[tip[e]] = before.entries[tip[e]]
        BY <1>0, <1>1, <1>3, <2>3, <3>2 DEF OnFile
      <4> QED BY <2>3, <4>1
    <3> QED BY <3>1, <3>2
  <2>5. tip2[e] \in OnFile(new)
    BY <1>1, <1>3, <2>3
  <2> QED BY <2>2, <2>3, <2>4, <2>5
<1>11. PICK k \in Postings(stream) : tip[stream[k].id] = original
  BY <1>0, <1>4 DEF Chains
<1>12. \A i, j \in Postings(stream) : tip[stream[i].id] = tip[stream[j].id] => i = j
  BY DEF Chains
<1>13. \A i \in Postings(stream) : /\ longer[i] = stream[i] /\ stream[i].id \in EntryIds
                                   /\ tip[stream[i].id] \in OnFile(before)
  BY <1>2 DEF Chains
<1>14. \A i, j \in Postings(longer) : tip2[longer[i].id] = tip2[longer[j].id] => i = j
  BY <1>0, <1>1, <1>2, <1>12, <1>13
<1>15. \A e \in OnFile(new) : \E i \in Postings(longer) : tip2[longer[i].id] = tip2[e]
  <2> SUFFICES ASSUME NEW e \in OnFile(new) PROVE \E i \in Postings(stream) : tip2[stream[i].id] = tip2[e]
    BY <1>2, <1>13
  <2>1. CASE e = id
    <3>1. tip2[id] = id /\ tip2[stream[k].id] = id
      BY <1>1, <1>3, <1>4, <1>11, <1>13
    <3> QED BY <1>11, <2>1, <3>1
  <2>2. CASE e \in OnFile(before)
    <3>1. PICK i \in Postings(stream) : tip[stream[i].id] = tip[e]
      BY <2>2 DEF Chains
    <3>2. tip2[stream[i].id] = tip2[e]
      BY <1>1, <1>13, <2>2, <3>1 DEF OnFile
    <3> QED BY <3>2
  <2> QED BY <1>3, <2>1, <2>2
<1>16. Chains(longer, new, depth2, tip2)
  BY <1>6, <1>7, <1>8, <1>9, <1>10, <1>14, <1>15 DEF Chains
<1>17. \A i \in Postings(stream) : i # k => tip[stream[i].id] # original
  BY <1>11, <1>12
<1> QED BY <1>1, <1>11, <1>16, <1>17

LEMMA ChainsOther ==
  ASSUME NEW stream \in Seq(LedgerEvent), NEW before \in LedgerState, NEW depth, NEW tip,
         Chains(stream, before, depth, tip),
         NEW event \in LedgerEvent, event.kind = "CapitalizationStatusChanged",
         NEW new, new.entries = before.entries, new.reversed = before.reversed
  PROVE  Chains(Append(stream, event), new, depth, tip)
<1>1. PICK longer : longer = Append(stream, event)
  OBVIOUS
<1>2. /\ \A i \in DOMAIN stream : longer[i] = stream[i]
      /\ Reversals(stream) \subseteq DOMAIN stream /\ Postings(stream) \subseteq DOMAIN stream
      /\ Reversals(longer) = Reversals(stream) /\ Postings(longer) = Postings(stream)
      /\ \A i \in Reversals(stream) \union Postings(stream) : longer[i] = stream[i]
  <2>1. Appended(stream, event, Len(stream) + 1, longer)
    BY <1>1, AppendKinds
  <2> QED BY <2>1 DEF Appended
<1>3. OnFile(new) = OnFile(before)
  BY DEF OnFile
<1>4. Stacks(longer, depth)
  <2>1. Stacks(stream, depth)
    BY DEF Chains
  <2> QED BY <1>2, <2>1 DEF Stacks
<1>5. tip \in [EntryIds -> EntryIds]
  BY DEF Chains
<1>6. \A i \in Reversals(longer) :
          /\ longer[i].original_id \in OnFile(new) \intersect new.reversed
          /\ longer[i].reversal_id \in OnFile(new)
          /\ tip[longer[i].original_id] = tip[longer[i].reversal_id]
  BY <1>2, <1>3 DEF Chains
<1>7. \A e \in EntryIds : (\A i \in Reversals(longer) : longer[i].original_id # e) => tip[e] = e
  BY <1>2 DEF Chains
<1>8. \A i \in Postings(longer) :
          /\ longer[i].id \in EntryIds
          /\ longer[i].lines \in Seq(JournalLine) /\ Balanced(longer[i].lines)
          /\ tip[longer[i].id] \in OnFile(new)
          /\ \A a \in Accounts :
                NetOn(new.entries[tip[longer[i].id]], a) =
                   IF depth[longer[i].id] % 2 = 0 THEN NetOn(longer[i].lines, a)
                                                  ELSE -NetOn(longer[i].lines, a)
  BY <1>2, <1>3 DEF Chains
<1>9. \A i, j \in Postings(longer) : tip[longer[i].id] = tip[longer[j].id] => i = j
  BY <1>2 DEF Chains
<1>10. \A e \in OnFile(new) : \E i \in Postings(longer) : tip[longer[i].id] = tip[e]
  BY <1>2, <1>3 DEF Chains
<1>11. Chains(longer, new, depth, tip)
  BY <1>4, <1>5, <1>6, <1>7, <1>8, <1>9, <1>10 DEF Chains
<1> QED BY <1>1, <1>11

-----------------------------------------------------------------------------
(* The balances are what the standing entries bring. *)

\* What the posting at each position brings to an account.
Brings(stream, a) == [i \in Postings(stream) |-> NetOn(stream[i].lines, a)]

\* The postings that an even number of reversals is stacked on.
Even(stream, depth) == {i \in Postings(stream) : depth[stream[i].id] % 2 = 0}

Brought(stream, depth, balances) ==
    \A a \in Accounts : Amount(balances)[a] = Total(Brings(stream, a), Even(stream, depth))

\* The invariant of one stream.
Accounted(stream) ==
    \E depth, tip : /\ Chains(stream, replay(stream), depth, tip)
                    /\ Brought(stream, depth, replay(stream).balances)

LEMMA BringsTotal ==
  ASSUME NEW stream, NEW a, NEW S \in SUBSET Postings(stream)
  PROVE  MapThenSumSet(LAMBDA i : NetOn(stream[i].lines, a), S) = Total(Brings(stream, a), S)
<1>1. PICK v : v = Brings(stream, a)
  OBVIOUS
<1>2. PICK ch : ch = [s \in SUBSET S |-> First(s)]
  OBVIOUS
<1>3. Choice(ch, S)
  BY <1>2, FirstIsChoice
<1>4. ASSUME NEW g
      PROVE  Unfold(v, ch, SUBSET S, g) =
               [s \in SUBSET S |-> IF s = {} THEN 0
                                   ELSE NetOn(stream[First(s)].lines, a) + g[s \ {First(s)}]]
  <2>1. ASSUME NEW s \in SUBSET S, s # {}
        PROVE  v[ch[s]] = NetOn(stream[First(s)].lines, a)
    <3>1. ch[s] = First(s) /\ ch[s] \in Postings(stream)
      BY <1>2, <1>3, <2>1 DEF Choice
    <3> QED BY <1>1, <3>1 DEF Brings
  <2> QED BY <1>2, <2>1 DEF Unfold
<1>5. Sums(v, ch, S) =
        (CHOOSE g : g = [s \in SUBSET S |-> IF s = {} THEN 0
                                            ELSE NetOn(stream[First(s)].lines, a) + g[s \ {First(s)}]])
  <2>1. Sums(v, ch, S) = (CHOOSE g : g = Unfold(v, ch, SUBSET S, g))
    BY DEF Sums
  <2>2. (CHOOSE g : g = Unfold(v, ch, SUBSET S, g)) =
        (CHOOSE g : g = [s \in SUBSET S |-> IF s = {} THEN 0
                                            ELSE NetOn(stream[First(s)].lines, a) + g[s \ {First(s)}]])
    BY <1>4, Zenon
  <2> QED BY <2>1, <2>2, Zenon
<1>6. MapThenSumSet(LAMBDA i : NetOn(stream[i].lines, a), S) = Sums(v, ch, S)[S]
  BY <1>5, Zenon DEF First, MapThenSumSet, MapThenFoldSet
<1> QED BY <1>1, <1>2, <1>6 DEF Total

LEMMA PostingsFinite ==
  ASSUME NEW stream \in Seq(LedgerEvent), NEW S \in SUBSET Postings(stream)
  PROVE  IsFiniteSet(S)
<1>1. PICK n \in Nat : n = Len(stream)
  OBVIOUS
<1>2. S \subseteq 1..n
  BY <1>1 DEF Postings
<1>3. IsFiniteSet(1..n)
  BY FS_Interval
<1> QED BY <1>2, <1>3, FS_Subset

LEMMA BringsType ==
  ASSUME NEW stream, NEW before, NEW depth, NEW tip, Chains(stream, before, depth, tip),
         NEW a \in Accounts
  PROVE  Valued(Brings(stream, a), Postings(stream))
<1> SUFFICES ASSUME NEW i \in Postings(stream) PROVE NetOn(stream[i].lines, a) \in Int
  BY DEF Valued, Brings
<1>1. PICK lines : lines = stream[i].lines
  OBVIOUS
<1>2. lines \in Seq(JournalLine) /\ Balanced(lines)
  BY <1>1 DEF Chains
<1> QED BY <1>1, <1>2, NetOnType DEF Balanced

LEMMA DefaultAccounted ==
  Accounted(<<>>)
<1>1. PICK depth, tip : depth = [e \in EntryIds |-> 0] /\ tip = [e \in EntryIds |-> e]
  OBVIOUS
<1>2. Reversals(<<>>) = {} /\ Postings(<<>>) = {} /\ OnFile(DefaultState) = {}
  BY DEF Reversals, Postings, OnFile, DefaultState
<1>3. Chains(<<>>, DefaultState, depth, tip)
  BY <1>1, <1>2 DEF Chains, Stacks
<1>4. Brought(<<>>, depth, DefaultState.balances)
  <2> SUFFICES ASSUME NEW a \in Accounts
               PROVE  Amount(DefaultState.balances)[a] = Total(Brings(<<>>, a), Even(<<>>, depth))
    BY DEF Brought
  <2>1. Even(<<>>, depth) = {}
    BY <1>2 DEF Even
  <2>2. Amount(DefaultState.balances)[a] = 0
    BY DEF Amount, DefaultState
  <2> QED BY <2>1, <2>2, TotalEmpty
<1> QED BY <1>3, <1>4, ReplayStep DEF Accounted

\* A posting stands as soon as it is made, and brings its lines.
LEMMA PostAccounted ==
  ASSUME NEW home, NEW stream \in Seq(LedgerEvent), Accounted(stream),
         NEW before, before = replay(stream), SheetInv(home, before),
         NEW id \in EntryIds \ OnFile(before), NEW lines \in Seq(JournalLine),
         Balanced(lines), AtHome(home, lines),
         NEW event \in LedgerEvent,
         event = [kind |-> "JournalEntryPosted", id |-> id, lines |-> lines]
  PROVE  Accounted(Append(stream, event))
<1>1. PICK depth, tip : /\ Chains(stream, before, depth, tip)
                        /\ Brought(stream, depth, before.balances)
  BY DEF Accounted
<1>2. PICK k, longer, new : /\ k = Len(stream) + 1 /\ longer = Append(stream, event)
                            /\ new = post(before, id, lines)
  OBVIOUS
<1>3. before \in LedgerState /\ before.balances \in Balances /\ KeptAtHome(home, before.balances)
  BY DEF SheetInv, LedgerState, Balances
<1>4. replay(longer) = new /\ new.balances = PostLines(before.balances, lines)
  <2>1. replay(longer) = apply_event(before, event)
    BY <1>2, ReplayStep
  <2>2. apply_event(before, event) = new
    BY <1>2 DEF apply_event
  <2> QED BY <1>2, <1>3, <2>1, <2>2 DEF post, LedgerState
<1>5. Chains(longer, new, depth, tip) /\ depth[id] = 0
  BY <1>1, <1>2, <1>3, ChainsPost
<1>6. /\ k \notin Postings(stream) /\ longer[k] = event
      /\ \A i \in Postings(stream) : longer[i] = stream[i]
      /\ Postings(longer) = Postings(stream) \union {k}
  <2>1. Appended(stream, event, k, longer)
    BY <1>2, AppendKinds
  <2>2. event.kind = "JournalEntryPosted"
    OBVIOUS
  <2> QED BY <2>1, <2>2 DEF Appended
<1>7. PICK S : S = Even(stream, depth)
  OBVIOUS
<1>8. /\ Even(longer, depth) = S \union {k} /\ k \notin S
      /\ S \subseteq Postings(stream) /\ IsFiniteSet(S)
  <2>1. longer[k].id = id
    BY <1>6
  <2>2. S \subseteq Postings(stream)
    BY <1>7 DEF Even
  <2>3. Even(longer, depth) = S \union {k}
    BY <1>5, <1>6, <1>7, <2>1 DEF Even
  <2> QED BY <1>6, <2>2, <2>3, PostingsFinite
<1>9. ASSUME NEW a \in Accounts
      PROVE  Amount(new.balances)[a] = Total(Brings(longer, a), Even(longer, depth))
  <2>1. PICK v, w : v = Brings(stream, a) /\ w = Brings(longer, a)
    OBVIOUS
  <2>2. Amount(new.balances)[a] = Amount(before.balances)[a] + NetOn(lines, a)
    BY <1>3, <1>4, PostLinesOn
  <2>3. Amount(before.balances)[a] = Total(v, S)
    BY <1>1, <1>7, <2>1 DEF Brought
  <2>4. Valued(v, S) /\ Valued(w, S \union {k})
    BY <1>1, <1>5, <1>6, <1>8, <2>1, BringsType DEF Valued
  <2>5. w[k] = NetOn(lines, a) /\ \A i \in S : v[i] = w[i]
    <3>1. longer[k].lines = lines
      BY <1>6
    <3> QED BY <1>6, <1>8, <2>1, <3>1 DEF Brings
  <2>6. Total(v, S) = Total(w, S)
    BY <1>8, <2>4, <2>5, TotalAgrees
  <2>7. Total(w, S \union {k}) = Total(w, S) + w[k]
    BY <1>8, <2>4, TotalAdd
  <2> QED BY <1>8, <2>1, <2>2, <2>3, <2>5, <2>6, <2>7
<1>10. Brought(longer, depth, new.balances)
  BY <1>9 DEF Brought
<1> QED BY <1>2, <1>4, <1>5, <1>10 DEF Accounted

\* A reversal makes the one posting whose chain it lengthens fall or stand again.
LEMMA ReverseAccounted ==
  ASSUME NEW home, NEW stream \in Seq(LedgerEvent), Accounted(stream),
         NEW before, before = replay(stream), SheetInv(home, before),
         NEW original \in OnFile(before) \ before.reversed, NEW id \in EntryIds \ OnFile(before),
         NEW event \in LedgerEvent,
         event = [kind |-> "EntryReversed", original_id |-> original, reversal_id |-> id]
  PROVE  Accounted(Append(stream, event))
<1>1. PICK depth, tip : /\ Chains(stream, before, depth, tip)
                        /\ Brought(stream, depth, before.balances)
  BY DEF Accounted
<1>2. PICK lines, longer, new, depth2, tip2 :
        /\ lines = before.entries[original] /\ longer = Append(stream, event)
        /\ new = apply_event(before, event)
        /\ depth2 = Deeper(depth, tip, original)
        /\ tip2 = Onward(tip, original, id)
  OBVIOUS
<1>3. /\ before \in LedgerState /\ before.balances \in Balances /\ KeptAtHome(home, before.balances)
      /\ lines \in Seq(JournalLine) /\ lines # None /\ Balanced(lines) /\ AtHome(home, lines)
  BY <1>2 DEF SheetInv, LedgerState, Balances, OnFile
<1>4. /\ replay(longer) = new /\ new \in LedgerState
      /\ new.balances = PostLines(before.balances, mirror(lines))
      /\ new.entries = [before.entries EXCEPT ![id] = mirror(lines)]
      /\ new.reversed = before.reversed \union {original}
  <2>1. replay(longer) = new
    BY <1>2, ReplayStep
  <2>2. PICK posted : posted = post(before, id, mirror(lines))
    OBVIOUS
  <2>3. new = [posted EXCEPT !.reversed = @ \union {original}]
    BY <1>2, <1>3, <2>2 DEF apply_event
  <2>4. new \in LedgerState
    BY <1>2, <1>3, ApplyEventType
  <2>5. /\ posted = [balances |-> PostLines(before.balances, mirror(lines)),
                     entries |-> [before.entries EXCEPT ![id] = mirror(lines)],
                     reversed |-> before.reversed, capitalization |-> before.capitalization]
    BY <1>3, <2>2 DEF post, LedgerState
  <2> QED BY <2>1, <2>3, <2>4, <2>5
<1>5. PICK k \in Postings(stream) :
            /\ tip[stream[k].id] = original
            /\ Chains(longer, new, depth2, tip2)
            /\ \A i \in Postings(stream) : i # k => tip[stream[i].id] # original
  <2>1. Reverses(before, new, original, id)
    BY <1>2, <1>3, <1>4 DEF Reverses
  <2>2. \E k \in Postings(stream) :
            /\ tip[stream[k].id] = original
            /\ Chains(Append(stream, event), new, Deeper(depth, tip, original),
                      Onward(tip, original, id))
            /\ \A i \in Postings(stream) : i # k => tip[stream[i].id] # original
    BY <1>1, <2>1, ChainsReverse
  <2> QED BY <1>2, <2>2
<1>6. /\ \A i \in Postings(stream) : longer[i] = stream[i]
      /\ Postings(longer) = Postings(stream)
  <2>1. Appended(stream, event, Len(stream) + 1, longer)
    BY <1>2, AppendKinds
  <2>2. event.kind = "EntryReversed"
    OBVIOUS
  <2> QED BY <2>1, <2>2 DEF Appended
<1>7. PICK S, R, e : S = Even(stream, depth) /\ R = Even(longer, depth2) /\ e = stream[k].id
  OBVIOUS
<1> USE DEF Deeper, Onward
<1>8. /\ e \in EntryIds /\ depth[e] \in Nat /\ depth2[e] = depth[e] + 1
      /\ (k \in R) <=> (k \notin S)
      /\ (k \in S) <=> (depth[e] % 2 = 0)
  <2>1. e \in EntryIds /\ depth[e] \in Nat
    BY <1>1, <1>7 DEF Chains, Stacks
  <2>2. depth2[e] = depth[e] + 1
    BY <1>2, <1>5, <1>7, <2>1
  <2>3. (depth2[e] % 2 = 0) <=> (depth[e] % 2 # 0)
    BY <2>1, <2>2, Parity
  <2>4. (k \in R) <=> (depth2[e] % 2 = 0)
    BY <1>6, <1>7 DEF Even
  <2>5. (k \in S) <=> (depth[e] % 2 = 0)
    BY <1>7 DEF Even
  <2> QED BY <2>1, <2>2, <2>3, <2>4, <2>5
<1>9. \A i \in Postings(stream) : i # k => ((i \in R) <=> (i \in S))
  <2> SUFFICES ASSUME NEW i \in Postings(stream), i # k PROVE (i \in R) <=> (i \in S)
    OBVIOUS
  <2>1. stream[i].id \in EntryIds /\ tip[stream[i].id] # original
    BY <1>1, <1>5 DEF Chains
  <2>2. depth2[stream[i].id] = depth[stream[i].id]
    BY <1>2, <2>1
  <2> QED BY <1>6, <1>7, <2>2 DEF Even
<1>10. S \subseteq Postings(stream) /\ R \subseteq Postings(stream) /\ IsFiniteSet(S) /\ IsFiniteSet(R)
  <2>1. S \subseteq Postings(stream) /\ R \subseteq Postings(stream)
    BY <1>6, <1>7 DEF Even
  <2> QED BY <2>1, PostingsFinite
<1>11. ASSUME NEW a \in Accounts
       PROVE  Amount(new.balances)[a] = Total(Brings(longer, a), R)
  <2>1. PICK v : v = Brings(stream, a)
    OBVIOUS
  <2>2. Brings(longer, a) = v
    BY <1>6, <2>1 DEF Brings
  <2>3. Amount(new.balances)[a] = Amount(before.balances)[a] + NetOn(mirror(lines), a)
    BY <1>3, <1>4, PostLinesOn, MirrorType, MirrorBalanced, MirrorHome
  <2>4. NetOn(mirror(lines), a) = -NetOn(lines, a)
    BY <1>3, NetOnMirror
  <2>5. Amount(before.balances)[a] = Total(v, S)
    BY <1>1, <1>7, <2>1 DEF Brought
  <2>6. NetOn(lines, a) = (IF k \in S THEN v[k] ELSE -v[k]) /\ v[k] \in Int
    <3>1. v[k] = NetOn(stream[k].lines, a)
      BY <2>1 DEF Brings
    <3>2. NetOn(lines, a) = IF depth[e] % 2 = 0 THEN NetOn(stream[k].lines, a)
                                                ELSE -NetOn(stream[k].lines, a)
      BY <1>1, <1>2, <1>5, <1>7 DEF Chains
    <3>3. v[k] \in Int
      BY <1>1, <2>1, BringsType DEF Valued
    <3> QED BY <1>8, <3>1, <3>2, <3>3
  <2>7. Valued(v, Postings(stream))
    BY <1>1, <2>1, BringsType
  <2>8. CASE k \in S
    <3>1. S = R \union {k} /\ k \notin R
      BY <1>8, <1>9, <1>10, <2>8
    <3>2. Total(v, R \union {k}) = Total(v, R) + v[k]
      BY <1>10, <2>7, <3>1, TotalAdd DEF Valued
    <3>3. Total(v, R) \in Int
      BY <1>10, <2>7, TotalType DEF Valued
    <3> QED BY <2>2, <2>3, <2>4, <2>5, <2>6, <2>8, <3>1, <3>2, <3>3
  <2>9. CASE k \notin S
    <3>1. R = S \union {k}
      BY <1>8, <1>9, <1>10, <2>9
    <3>2. Total(v, S \union {k}) = Total(v, S) + v[k]
      BY <1>10, <2>7, <2>9, TotalAdd DEF Valued
    <3>3. Total(v, S) \in Int
      BY <1>10, <2>7, TotalType DEF Valued
    <3> QED BY <2>2, <2>3, <2>4, <2>5, <2>6, <2>9, <3>1, <3>2, <3>3
  <2> QED BY <2>8, <2>9
<1>12. Brought(longer, depth2, new.balances)
  BY <1>7, <1>11 DEF Brought
<1> QED BY <1>2, <1>4, <1>5, <1>12 DEF Accounted

\* A change of status moves no balance.
LEMMA OtherAccounted ==
  ASSUME NEW stream \in Seq(LedgerEvent), Accounted(stream), replay(stream) \in LedgerState,
         NEW event \in LedgerEvent, event.kind = "CapitalizationStatusChanged"
  PROVE  Accounted(Append(stream, event))
<1>1. PICK before, longer, new : /\ before = replay(stream) /\ longer = Append(stream, event)
                                /\ new = apply_event(before, event)
  OBVIOUS
<1>2. PICK depth, tip : /\ Chains(stream, before, depth, tip)
                        /\ Brought(stream, depth, before.balances)
  BY <1>1 DEF Accounted
<1>3. /\ replay(longer) = new /\ new.balances = before.balances
      /\ new.entries = before.entries /\ new.reversed = before.reversed
  <2>1. replay(longer) = new
    BY <1>1, ReplayStep
  <2>2. new = [before EXCEPT !.capitalization[event.run_id] = event.to]
    BY <1>1 DEF apply_event
  <2> QED BY <1>1, <2>1, <2>2 DEF LedgerState
<1>4. Chains(longer, new, depth, tip)
  BY <1>1, <1>2, <1>3, ChainsOther
<1>5. /\ \A i \in Postings(stream) : longer[i] = stream[i]
      /\ Postings(longer) = Postings(stream)
  <2>1. Appended(stream, event, Len(stream) + 1, longer)
    BY <1>1, AppendKinds
  <2> QED BY <2>1 DEF Appended
<1>6. Even(longer, depth) = Even(stream, depth)
  BY <1>5 DEF Even
<1>7. \A a \in Accounts : Brings(longer, a) = Brings(stream, a)
  BY <1>5 DEF Brings
<1>8. Brought(longer, depth, new.balances)
  BY <1>2, <1>3, <1>6, <1>7 DEF Brought
<1> QED BY <1>1, <1>3, <1>4, <1>8 DEF Accounted

-----------------------------------------------------------------------------
(* Every stream is accounted for. *)

HomeInv(home) == LogInv(home) /\ \A s \in Streams : Accounted(log[s])

LEMMA HandleAccounted ==
  ASSUME IsFiniteSet(Accounts), NEW home, HomeInv(home),
         NEW s \in Streams, NEW command \in Commands, Respects(home, command),
         NEW id \in NewIds(command, Fresh), Handle(s, command, id)
  PROVE  Accounted(log'[s]) /\ \A t \in Streams : t # s => log'[t] = log[t]
<1>1. PICK stream, before, event : /\ stream = log[s] /\ before = replay(stream)
                                  /\ event = CommandEvent(before, command, id)
  OBVIOUS
<1>2. /\ command \in LedgerCommand /\ Fresh \in SUBSET EntryIds /\ stream \in Seq(LedgerEvent)
      /\ SheetInv(home, before) /\ before \in LedgerState /\ Accounted(stream)
  BY <1>1, AtomicLedgerAssumption DEF Fresh, HomeInv, LogInv, SheetInv
<1>3. CommandError(before, command) = None /\ log' = [log EXCEPT ![s] = Append(@, event)]
  BY <1>1 DEF Handle
<1>4. event \in LedgerEvent
  BY <1>1, <1>2, CommandEventType
<1>5. log'[s] = Append(stream, event) /\ \A t \in Streams : t # s => log'[t] = log[t]
  BY <1>1, <1>3 DEF HomeInv, LogInv
<1>6. ASSUME id \in Fresh PROVE id \in EntryIds \ OnFile(before)
  <2>1. OnFile(before) = IdsOf(log[s])
    BY <1>1 DEF OnFile, IdsOf
  <2> QED BY <1>6, <2>1 DEF Fresh
<1>7. CASE command.kind = "PostJournalEntry"
  <2>1. command.lines \in Seq(JournalLine) /\ id \in EntryIds \ OnFile(before)
    BY <1>2, <1>6, <1>7 DEF LedgerCommand, NewIds
  <2>2. Balanced(command.lines) /\ AtHome(home, command.lines)
    BY <1>3, <1>7, <2>1, AcceptedIsBalanced DEF CommandError, Respects
  <2>3. event = [kind |-> "JournalEntryPosted", id |-> id, lines |-> command.lines]
    BY <1>1, <1>7 DEF CommandEvent
  <2> QED BY <1>1, <1>2, <1>4, <1>5, <2>1, <2>2, <2>3, PostAccounted
<1>8. CASE command.kind = "ReverseEntry"
  <2>1. command.original_id \in EntryIds /\ id \in EntryIds \ OnFile(before)
    BY <1>2, <1>6, <1>8 DEF LedgerCommand, NewIds
  <2>2. command.original_id \in OnFile(before) \ before.reversed
    BY <1>3, <1>8, <2>1, NoneAssumption DEF CommandError, LedgerError, is_reversed, OnFile
  <2>3. event = [kind |-> "EntryReversed", original_id |-> command.original_id, reversal_id |-> id]
    BY <1>1, <1>8 DEF CommandEvent
  <2> QED BY <1>1, <1>2, <1>4, <1>5, <2>1, <2>2, <2>3, ReverseAccounted
<1>9. CASE command.kind = "ChangeCapitalizationStatus"
  <2>1. event.kind = "CapitalizationStatusChanged"
    BY <1>1, <1>9 DEF CommandEvent
  <2> QED BY <1>1, <1>2, <1>4, <1>5, <2>1, OtherAccounted
<1> QED BY <1>2, <1>7, <1>8, <1>9 DEF LedgerCommand

\* apply_event and mirror (ledger.rs): replaying the log gives each account exactly
\* what the entries still standing bring to it, however long the chains of reversals
\* of reversals grow, where each account is kept in one currency.
THEOREM BalancesAreWhatStands ==
  ASSUME IsFiniteSet(Accounts),
         NEW home, \A command \in Commands : Respects(home, command)
  PROVE  Spec => []BalancesAreStandingEntries
<1>1. Init => HomeInv(home)
  <2> SUFFICES ASSUME Init PROVE HomeInv(home)
    OBVIOUS
  <2>1. LogInv(home)
    BY InitKeepsSheet
  <2>2. \A s \in Streams : log[s] = <<>>
    BY DEF Init
  <2> QED BY <2>1, <2>2, DefaultAccounted DEF HomeInv
<1>2. HomeInv(home) /\ [Next]_log => HomeInv(home)'
  <2> SUFFICES ASSUME HomeInv(home), [Next]_log PROVE HomeInv(home)'
    OBVIOUS
  <2>1. CASE Next
    <3>1. PICK s \in Streams, command \in Commands :
              \E id \in NewIds(command, Fresh) : Handle(s, command, id)
      BY <2>1 DEF Next
    <3>2. PICK id \in NewIds(command, Fresh) : Handle(s, command, id)
      BY <3>1
    <3>3. LogInv(home)'
      BY <3>2, HandleKeepsSheet DEF HomeInv
    <3>4. Accounted(log'[s]) /\ \A t \in Streams : t # s => log'[t] = log[t]
      BY <3>2, HandleAccounted
    <3> QED BY <3>3, <3>4 DEF HomeInv
  <2>2. CASE UNCHANGED log
    BY <2>2 DEF HomeInv, LogInv
  <2> QED BY <2>1, <2>2
<1>3. HomeInv(home) => BalancesAreStandingEntries
  <2> SUFFICES ASSUME HomeInv(home), NEW s \in Streams, NEW a \in Accounts
               PROVE  MapThenSumSet(LAMBDA i : NetOn(log[s][i].lines, a), Standing(log[s]))
                        = IF replay(log[s]).balances[a] = None THEN 0
                          ELSE replay(log[s]).balances[a].amount
    BY DEF BalancesAreStandingEntries
  <2>1. PICK stream, before : stream = log[s] /\ before = replay(stream)
    OBVIOUS
  <2>2. PICK depth, tip : /\ Chains(stream, before, depth, tip)
                          /\ Brought(stream, depth, before.balances)
    BY <2>1 DEF HomeInv, Accounted
  <2>3. Standing(stream) = Even(stream, depth)
    <3>1. Stacks(stream, depth) /\ \A i \in Reversals(stream) : stream[i].reversal_id \in EntryIds
      BY <2>2 DEF Chains, OnFile
    <3>2. \A e \in EntryIds : ReversalDepth(stream, e) = depth[e]
      BY <3>1, ReversalDepthIs
    <3>3. \A i \in Postings(stream) : stream[i].id \in EntryIds
      BY <2>2 DEF Chains
    <3> QED BY <3>2, <3>3 DEF Standing, Even
  <2>4. MapThenSumSet(LAMBDA i : NetOn(log[s][i].lines, a), Standing(log[s]))
          = Total(Brings(log[s], a), Standing(log[s]))
    BY BringsTotal DEF Standing
  <2>5. Amount(before.balances)[a] = Total(Brings(stream, a), Standing(stream))
    BY <2>2, <2>3 DEF Brought
  <2>6. Amount(before.balances)[a] = IF before.balances[a] = None THEN 0 ELSE before.balances[a].amount
    BY DEF Amount
  <2>7. Total(Brings(log[s], a), Standing(log[s]))
          = IF replay(log[s]).balances[a] = None THEN 0 ELSE replay(log[s]).balances[a].amount
    BY <2>1, <2>5, <2>6
  <2> QED BY <2>4, <2>7, Zenon
<1> QED BY <1>1, <1>2, <1>3, PTL DEF Spec

-----------------------------------------------------------------------------
(* The trail of a run's status. *)

\* The status the last change left a run with; None if there was none.
LastStatus(stream, r) ==
    IF Changes(stream, r) = {} THEN None ELSE stream[Max(Changes(stream, r))].to

\* The change at position i starts where the one before it ended, elsewhere.
Linked(stream, r, i) ==
    LET earlier == {j \in Changes(stream, r) : j < i}
    IN  /\ stream[i].from # stream[i].to
        /\ stream[i].from = IF earlier = {} THEN "PendingReview" ELSE stream[Max(earlier)].to

\* The strengthening: what replay remembers of a run is where its trail ends.
Trail(stream) ==
    /\ replay(stream).capitalization = [r \in Runs |-> LastStatus(stream, r)]
    /\ \A r \in Runs : \A i \in Changes(stream, r) : Linked(stream, r, i)

TrailInv ==
    /\ log \in [Streams -> Seq(LedgerEvent)]
    /\ \A s \in Streams : Trail(log[s])

LEMMA LastOfMore ==
  ASSUME NEW n \in Nat, NEW S \in SUBSET (1..n)
  PROVE  Max(S \union {n + 1}) = n + 1
<1>1. PICK T : T = S \union {n + 1}
  OBVIOUS
<1>2. T \in SUBSET (1..(n + 1)) /\ n + 1 \in T /\ \A y \in T : n + 1 >= y
  BY <1>1
<1>3. \E x \in T : \A y \in T : x >= y
  BY <1>2
<1>4. Max(T) \in T /\ \A y \in T : Max(T) >= y
  BY <1>3 DEF Max
<1>5. PICK m : m = Max(T)
  OBVIOUS
<1>6. m \in 1..(n + 1) /\ m >= n + 1
  BY <1>2, <1>4, <1>5
<1>7. m = n + 1
  BY <1>6
<1> QED BY <1>1, <1>5, <1>7

\* An event that does not change r's status leaves its trail as it was.
LEMMA TrailKept ==
  ASSUME NEW stream \in Seq(LedgerEvent), NEW event \in LedgerEvent, NEW r,
         ~(event.kind = "CapitalizationStatusChanged" /\ event.run_id = r)
  PROVE  /\ Changes(Append(stream, event), r) = Changes(stream, r)
         /\ LastStatus(Append(stream, event), r) = LastStatus(stream, r)
<1>0. PICK longer : longer = Append(stream, event)
  OBVIOUS
<1>1. PICK n \in Nat : n = Len(stream)
  OBVIOUS
<1>2. /\ \A i \in 1..n : longer[i] = stream[i]
      /\ longer[n + 1] = event /\ DOMAIN longer = (1..n) \union {n + 1} /\ DOMAIN stream = 1..n
  BY <1>0, <1>1
<1>3. Changes(longer, r) = Changes(stream, r) /\ Changes(stream, r) \subseteq 1..n
  BY <1>2 DEF Changes
<1>4. CASE Changes(stream, r) = {}
  BY <1>0, <1>3, <1>4 DEF LastStatus
<1>5. CASE Changes(stream, r) # {}
  <2>1. Max(Changes(stream, r)) \in 1..n
    BY <1>3, <1>5, BoundsExist
  <2> QED BY <1>0, <1>2, <1>3, <2>1 DEF LastStatus
<1> QED BY <1>4, <1>5

\* Whatever is appended, the links before it hold.
LEMMA LinksKept ==
  ASSUME NEW stream \in Seq(LedgerEvent), NEW event \in LedgerEvent,
         NEW r, NEW i \in Changes(stream, r), Linked(stream, r, i)
  PROVE  Linked(Append(stream, event), r, i)
<1>0. PICK longer : longer = Append(stream, event)
  OBVIOUS
<1>1. PICK n \in Nat : n = Len(stream)
  OBVIOUS
<1>2. /\ \A j \in 1..n : longer[j] = stream[j]
      /\ DOMAIN longer = (1..n) \union {n + 1} /\ DOMAIN stream = 1..n
  BY <1>0, <1>1
<1>3. PICK S : S = {j \in Changes(stream, r) : j < i}
  OBVIOUS
<1>4. S \subseteq 1..n /\ i \in 1..n
  BY <1>2, <1>3 DEF Changes
<1>5. S = {j \in Changes(longer, r) : j < i}
  <2>1. ASSUME NEW j PROVE j \in S <=> (j \in Changes(longer, r) /\ j < i)
    BY <1>2, <1>3, <1>4 DEF Changes
  <2> QED BY <2>1
<1>6. S # {} => longer[Max(S)] = stream[Max(S)]
  BY <1>2, <1>4, BoundsExist
<1>7. longer[i] = stream[i]
  BY <1>2, <1>4
<1> QED BY <1>0, <1>3, <1>5, <1>6, <1>7 DEF Linked

\* handle_command writes where the trail ends into the change it accepts.
LEMMA TrailGrows ==
  ASSUME NEW stream \in Seq(LedgerEvent), Trail(stream),
         NEW command \in LedgerCommand, CommandError(replay(stream), command) = None,
         NEW ids \in SUBSET EntryIds, NEW id \in NewIds(command, ids), NEW event,
         event = CommandEvent(replay(stream), command, id)
  PROVE  Trail(Append(stream, event))
<1>1. PICK before, longer, new : /\ before = replay(stream) /\ longer = Append(stream, event)
                                /\ new = apply_event(before, event)
  OBVIOUS
<1>2. before \in LedgerState /\ event \in LedgerEvent
  BY <1>1, ReplayType, CommandEventType
<1>3. replay(longer) = new
  BY <1>1, <1>2, ReplayStep
<1>4. before.capitalization = [r \in Runs |-> LastStatus(stream, r)]
  BY <1>1 DEF Trail
<1>5. CASE command.kind # "ChangeCapitalizationStatus"
  <2>1. event.kind \in {"JournalEntryPosted", "EntryReversed"}
    BY <1>5 DEF CommandEvent, LedgerCommand
  <2>2. new.capitalization = before.capitalization
    <3>1. ASSUME NEW e, NEW lines PROVE post(before, e, lines).capitalization = before.capitalization
      BY <1>2 DEF post, LedgerState
    <3>2. CASE event.kind = "JournalEntryPosted"
      BY <1>1, <3>1, <3>2 DEF apply_event
    <3>3. CASE event.kind = "EntryReversed"
      <4>1. PICK posted : posted = IF before.entries[event.original_id] = None THEN before
                                   ELSE post(before, event.reversal_id, mirror(before.entries[event.original_id]))
        OBVIOUS
      <4>2. posted.capitalization = before.capitalization
        BY <3>1, <4>1
      <4>3. new = [posted EXCEPT !.reversed = @ \union {event.original_id}]
        BY <1>1, <3>3, <4>1 DEF apply_event
      <4>4. posted \in LedgerState
        <5>1. event.reversal_id \in EntryIds /\ event.original_id \in EntryIds
          BY <1>2, <3>3 DEF LedgerEvent
        <5> QED BY <1>2, <4>1, <5>1, PostType, MirrorType DEF LedgerState
      <4> QED BY <4>2, <4>3, <4>4 DEF LedgerState
    <3> QED BY <2>1, <3>2, <3>3
  <2>3. \A r \in Runs : /\ Changes(longer, r) = Changes(stream, r)
                        /\ LastStatus(longer, r) = LastStatus(stream, r)
    BY <1>1, <1>2, <2>1, TrailKept
  <2>4. \A r \in Runs : \A i \in Changes(longer, r) : Linked(longer, r, i)
    BY <1>1, <1>2, <2>3, LinksKept DEF Trail
  <2> QED BY <1>1, <1>3, <1>4, <2>2, <2>3, <2>4 DEF Trail
<1>6. CASE command.kind = "ChangeCapitalizationStatus"
  <2>1. PICK q, from, to : q = command.run_id /\ from = StatusOf(before, q) /\ to = command.to
    OBVIOUS
  <2>2. /\ q \in Runs /\ to \in Statuses /\ from # to
        /\ event = [kind |-> "CapitalizationStatusChanged", run_id |-> q, from |-> from, to |-> to]
    BY <1>1, <1>6, <2>1, NoneAssumption DEF LedgerCommand, CommandError, LedgerError, CommandEvent
  <2>3. new.capitalization = [before.capitalization EXCEPT ![q] = to]
    <3>1. new = [before EXCEPT !.capitalization[q] = to]
      BY <1>1, <2>2 DEF apply_event
    <3> QED BY <1>2, <3>1 DEF LedgerState
  <2>4. PICK n \in Nat : n = Len(stream)
    OBVIOUS
  <2>5. /\ \A j \in 1..n : longer[j] = stream[j]
        /\ longer[n + 1] = event /\ DOMAIN longer = (1..n) \union {n + 1} /\ DOMAIN stream = 1..n
    BY <1>1, <1>2, <2>4
  <2>6. PICK S : S = Changes(stream, q)
    OBVIOUS
  <2>7. S \subseteq 1..n /\ Changes(longer, q) = S \union {n + 1}
    BY <2>2, <2>5, <2>6 DEF Changes
  <2>8. LastStatus(longer, q) = to
    <3>1. Max(Changes(longer, q)) = n + 1
      BY <2>7, LastOfMore
    <3> QED BY <2>2, <2>5, <2>7, <3>1 DEF LastStatus
  <2>9. \A r \in Runs : r # q => /\ Changes(longer, r) = Changes(stream, r)
                                 /\ LastStatus(longer, r) = LastStatus(stream, r)
    BY <1>1, <1>2, <2>2, TrailKept
  <2>10. new.capitalization = [r \in Runs |-> LastStatus(longer, r)]
    BY <1>4, <2>2, <2>3, <2>8, <2>9
  <2>11. Linked(longer, q, n + 1)
    <3>1. PICK earlier : earlier = {j \in Changes(longer, q) : j < n + 1}
      OBVIOUS
    <3>2. earlier = S
      <4>1. \A j \in S : j \in 1..n
        BY <2>7
      <4>2. \A j \in 1..n : j < n + 1
        OBVIOUS
      <4>3. ~(n + 1 < n + 1)
        OBVIOUS
      <4> QED BY <2>7, <3>1, <4>1, <4>2, <4>3, Zenon
    <3>3. SUFFICES from = IF S = {} THEN "PendingReview" ELSE longer[Max(S)].to
      <4>1. longer[n + 1].from = from /\ longer[n + 1].to = to
        BY <2>2, <2>5
      <4> QED BY <2>2, <3>1, <3>2, <4>1, Zenon DEF Linked
    <3>4. CASE S = {}
      <4>1. from = "PendingReview"
        BY <1>4, <2>1, <2>2, <2>6, <3>4 DEF StatusOf, LastStatus
      <4> QED BY <3>4, <4>1
    <3>5. CASE S # {}
      <4>1. Max(S) \in S /\ Max(S) \in 1..n
        BY <2>7, <3>5, BoundsExist
      <4>2. stream[Max(S)].to \in Statuses
        <5>1. stream[Max(S)] \in LedgerEvent /\ stream[Max(S)].kind = "CapitalizationStatusChanged"
          BY <2>4, <2>6, <4>1 DEF Changes
        <5> QED BY <5>1 DEF LedgerEvent
      <4>3. from = stream[Max(S)].to
        BY <1>4, <2>1, <2>2, <2>6, <3>5, <4>2, NoneAssumption DEF StatusOf, LastStatus
      <4>4. longer[Max(S)] = stream[Max(S)]
        BY <2>5, <4>1
      <4> QED BY <3>5, <4>3, <4>4
    <3> QED BY <3>4, <3>5
  <2>12. \A r \in Runs : \A i \in Changes(stream, r) : Linked(longer, r, i)
    BY <1>1, <1>2, LinksKept DEF Trail
  <2>13. \A r \in Runs : \A i \in Changes(longer, r) : Linked(longer, r, i)
    BY <2>6, <2>7, <2>9, <2>11, <2>12
  <2> QED BY <1>1, <1>3, <2>10, <2>13 DEF Trail
<1> QED BY <1>5, <1>6

\* handle_command, StatusOf and apply_event (ledger.rs): the changes of a run's
\* capitalization status form one unbroken trail from PendingReview, in every stream,
\* for any commands and whatever else is posted between them.
THEOREM TrailIsUnbroken ==
  Spec => []CapitalizationTrail
<1>1. Init => TrailInv
  <2> SUFFICES ASSUME Init PROVE TrailInv
    OBVIOUS
  <2>1. \A r \in Runs : Changes(<<>>, r) = {}
    BY DEF Changes
  <2>2. Trail(<<>>)
    BY <2>1, ReplayStep DEF Trail, LastStatus, DefaultState
  <2> QED BY <2>2 DEF Init, TrailInv
<1>2. TrailInv /\ [Next]_log => TrailInv'
  <2> SUFFICES ASSUME TrailInv, [Next]_log PROVE TrailInv'
    OBVIOUS
  <2>1. CASE Next
    <3>1. PICK s \in Streams, command \in Commands :
              \E id \in NewIds(command, Fresh) : Handle(s, command, id)
      BY <2>1 DEF Next
    <3>2. PICK id \in NewIds(command, Fresh) : Handle(s, command, id)
      BY <3>1
    <3>3. PICK stream, event, ids : /\ stream = log[s] /\ ids = Fresh
                                    /\ event = CommandEvent(replay(stream), command, id)
      OBVIOUS
    <3>4. /\ command \in LedgerCommand /\ ids \in SUBSET EntryIds /\ id \in NewIds(command, ids)
          /\ stream \in Seq(LedgerEvent) /\ Trail(stream)
          /\ CommandError(replay(stream), command) = None
          /\ log' = [log EXCEPT ![s] = Append(@, event)]
      BY <3>2, <3>3, AtomicLedgerAssumption DEF Fresh, TrailInv, Handle
    <3>5. Trail(Append(stream, event))
      BY <3>3, <3>4, TrailGrows
    <3>6. event \in LedgerEvent
      BY <3>3, <3>4, CommandEventType, ReplayType
    <3>7. /\ log'[s] = Append(stream, event) /\ log' \in [Streams -> Seq(LedgerEvent)]
          /\ \A t \in Streams : t # s => log'[t] = log[t]
      BY <3>3, <3>4, <3>6 DEF TrailInv
    <3> QED BY <3>5, <3>7 DEF TrailInv
  <2>2. CASE UNCHANGED log
    BY <2>2 DEF TrailInv
  <2> QED BY <2>1, <2>2
<1>3. TrailInv => CapitalizationTrail
  <2> SUFFICES ASSUME TrailInv, NEW s \in Streams, NEW r \in Runs, NEW i \in Changes(log[s], r)
               PROVE  Linked(log[s], r, i)
    BY DEF CapitalizationTrail, Linked
  <2> QED BY DEF TrailInv, Trail
<1> QED BY <1>1, <1>2, <1>3, PTL DEF Spec

-----------------------------------------------------------------------------
(* The runner of the corpus: the inductive invariant. *)

\* An account the chart knows.
Known(a) == a \in DOMAIN chart.by_code /\ chart.by_code[a] # None

RunnerRecord ==
    [entry_id : EntryIds, entry_ref : STRING \union {None}, journal_id : Nat, entity : STRING,
     lines : Seq(JournalLine), reversal_of : EntryIds \union {None}]

FilesInv ==
    /\ reference \in ReferenceFiles /\ IsScenario(scenario)
    /\ \/ chart = None
       \/ ChartError(reference) = None /\ chart = ChartOfAccounts(reference)

ProgressInv ==
    /\ position \in 0 .. Len(scenario.operations) + 1
    /\ position = 0 => /\ state = DefaultState
                       /\ events = <<>> /\ entries = <<>> /\ rejections = <<>>
    /\ position > 0 => chart # None /\ Deliverable /\ scenario.functional_ccy # Malformed

LedgerInv ==
    /\ state \in LedgerState /\ events \in Seq(LedgerEvent)
    /\ replay(events) = state
    /\ Len(rejections) \in Nat
    /\ position > 0 => /\ Len(events) + Len(rejections) = position - 1
                       /\ Len(rejections) = Cardinality({i \in 1 .. position - 1 :
                                                            scenario.operations[i].expect_rejection})

\* The entry a reversal is of: an earlier posting, under the same reference.
Reversed(i, j) ==
    /\ entries[j].entry_ref = entries[i].entry_ref
    /\ entries[j].reversal_of = None
    /\ entries[i].reversal_of = entries[j].entry_id

RecordInv(i) ==
    /\ state.entries[entries[i].entry_id] = entries[i].lines
    /\ entries[i].journal_id < position
    /\ entries[i].entity \in {scenario.entity} \union {op.entity : op \in Range(scenario.operations)}
    /\ entries[i].lines # <<>> /\ Balanced(entries[i].lines)
    /\ \A n \in DOMAIN entries[i].lines : Known(entries[i].lines[n].account)
    /\ entries[i].reversal_of # None => \E j \in 1 .. i - 1 : Reversed(i, j)

RecordsInv ==
    /\ entries \in Seq(RunnerRecord)
    /\ {entries[i].entry_id : i \in DOMAIN entries} = {e \in EntryIds : state.entries[e] # None}
    /\ \A i, j \in DOMAIN entries :
          i # j => /\ entries[i].entry_id # entries[j].entry_id
                   /\ entries[i].journal_id # entries[j].journal_id
    /\ \A i \in DOMAIN entries : RecordInv(i)
    /\ \A a \in Accounts : state.balances[a] # None => Known(a)

\* Why the run ended.
ResultInv ==
    \/ result = None
    \/ /\ result.outcome = "ChartError" /\ chart = None /\ ChartError(reference) # None
    \/ /\ result.outcome = "Blocked" /\ chart # None /\ scenario.status = "Blocked"
    \/ /\ result.outcome = "Deferred" /\ chart # None /\ scenario.status # "Blocked"
       /\ \E kind \in Kinds(scenario) : Undeliverable(kind)
       /\ result.cause = required_phase(scenario)
    \/ /\ result.outcome = "BadOperation" /\ chart # None /\ Deliverable
    \/ /\ position \in DOMAIN scenario.operations
       /\ \/ result.outcome = Fault(Operation) /\ Fault(Operation) # None
          \/ result.outcome = "ExpectedRejection"
          \/ /\ result.outcome = "Rejected" /\ Fault(Operation) = None
             /\ ~Operation.expect_rejection
             /\ result.cause = CommandError(state, Command(Operation)) /\ result.cause # None
    \/ result.outcome = "Executed" /\ position = Len(scenario.operations) + 1

RunnerInv == FilesInv /\ ProgressInv /\ LedgerInv /\ RecordsInv /\ ResultInv

\* What the entries recorded so far bring to an account.
RecordedOn(a) == [i \in DOMAIN entries |-> NetOn(entries[i].lines, a)]

BooksInv(home) ==
    (\A i \in DOMAIN entries : AtHome(home, entries[i].lines)) =>
        /\ KeptAtHome(home, state.balances)
        /\ \A a \in Accounts :
              Amount(state.balances)[a] = Total(RecordedOn(a), DOMAIN entries)

-----------------------------------------------------------------------------
(* The runner of the corpus: the chart. *)

\* A map by code holds rows of the file, each under its own code.
LEMMA ByCodeIs ==
  ASSUME NEW T, NEW rows \in Seq(T), NEW code \in DOMAIN ByCode(rows)
  PROVE  \E n \in 1..Len(rows) : /\ ByCode(rows)[code] = rows[n] /\ rows[n].code = code
                                 /\ \A m \in 1..Len(rows) : rows[m].code = code => m <= n
<1>1. PICK N \in Nat : N = Len(rows) /\ DOMAIN rows = 1..N
  OBVIOUS
<1>2. PICK I : I = {n \in 1..N : rows[n].code = code}
  OBVIOUS
<1>3. I \in SUBSET (1..N) /\ I # {}
  <2>1. code \in {rows[n].code : n \in 1..N}
    BY <1>1 DEF ByCode
  <2> QED BY <1>2, <2>1
<1>4. PICK m : m = Max(I)
  OBVIOUS
<1>5. m \in I /\ \A y \in I : m >= y
  BY <1>3, <1>4, BoundsExist
<1>6. ByCode(rows)[code] = rows[m]
  BY <1>1, <1>2, <1>3, <1>4 DEF ByCode, SelectLastInSeq
<1>7. m \in 1..N /\ rows[m].code = code /\ \A y \in 1..N : rows[y].code = code => y <= m
  BY <1>2, <1>5
<1> QED BY <1>1, <1>6, <1>7

LEMMA ChartIs ==
  ASSUME FilesInv, chart # None
  PROVE  /\ ChartError(reference) = None
         /\ chart.by_code = ByCode(reference.accounts) /\ chart.entities = ByCode(reference.entities)
         /\ chart.controls = Controls(reference.accounts)
         /\ DOMAIN chart.by_code \subseteq Accounts
         /\ \A a \in DOMAIN chart.by_code :
               /\ chart.by_code[a] \in Account /\ chart.by_code[a].code = a
         /\ \A e \in DOMAIN chart.entities : chart.entities[e].code = e
<1>1. /\ reference.accounts \in Seq(Account) /\ reference.entities \in Seq(Entity)
      /\ chart = ChartOfAccounts(reference) /\ ChartError(reference) = None
  BY DEF FilesInv, ReferenceFiles
<1>2. /\ chart.by_code = ByCode(reference.accounts) /\ chart.entities = ByCode(reference.entities)
      /\ chart.controls = Controls(reference.accounts)
  BY <1>1 DEF ChartOfAccounts
<1>3. ASSUME NEW a \in DOMAIN chart.by_code
      PROVE  chart.by_code[a] \in Account /\ chart.by_code[a].code = a
  <2>1. PICK n \in 1..Len(reference.accounts) :
           chart.by_code[a] = reference.accounts[n] /\ reference.accounts[n].code = a
    BY <1>1, <1>2, ByCodeIs
  <2> QED BY <1>1, <2>1
<1>4. DOMAIN chart.by_code \subseteq Accounts
  BY <1>3 DEF Account
<1>5. ASSUME NEW e \in DOMAIN chart.entities PROVE chart.entities[e].code = e
  BY <1>1, <1>2, ByCodeIs
<1> QED BY <1>1, <1>2, <1>3, <1>4, <1>5

-----------------------------------------------------------------------------
(* What is made of an operation. *)

\* The runner's line of a scenario's line that has no fault: it carries the sides
\* the scenario gives, on an account the chart knows.
LEMMA JournalLineIs ==
  ASSUME FilesInv, chart # None, scenario.functional_ccy # Malformed,
         NEW line \in ScenarioLine, LineFault(line) = None
  PROVE  /\ JournalLineOf(line) \in JournalLine
         /\ Known(JournalLineOf(line).account)
         /\ JournalLineOf(line).account = line.account.code
         /\ JournalLineOf(line).debit = None <=> line.debit = None
         /\ JournalLineOf(line).credit = None <=> line.credit = None
<1>1. PICK account : account = resolve(line.account)
  OBVIOUS
<1>2. account # None /\ ~(Malformed \in {line.currency, line.debit, line.credit})
  <2>1. "UnknownAccount" # None /\ "BadOperation" # None
    BY CorpusAssumption DEF RunErrors
  <2> QED BY <1>1, <2>1 DEF LineFault
<1>3. line.account.code \in DOMAIN chart.by_code /\ account = chart.by_code[line.account.code]
  BY <1>1, <1>2 DEF resolve
<1>4. account.code = line.account.code /\ line.account.code \in Accounts
  BY <1>3, ChartIs
<1>5. PICK currency : currency = IF line.currency = None THEN scenario.functional_ccy
                                                         ELSE line.currency
  OBVIOUS
<1>6. currency \in Currencies
  BY <1>2, <1>5 DEF FilesInv, IsScenario, ScenarioLine
<1> DEFINE Side1(amount) == IF amount = None THEN None
                            ELSE [currency |-> currency, amount |-> amount]
<1>7. line.debit \in Int \union {None} /\ line.credit \in Int \union {None}
  BY <1>2 DEF ScenarioLine
<1>8. ASSUME NEW amount \in Int \union {None}
      PROVE  Side1(amount) \in Money \union {None} /\ (Side1(amount) = None <=> amount = None)
  <2>1. CASE amount = None
    BY <2>1
  <2>2. CASE amount # None
    <3>1. Side1(amount) \in Money
      BY <1>6, <2>2 DEF Money
    <3> QED BY <2>2, <3>1, NoneAssumption
  <2> QED BY <2>1, <2>2
<1>9. JournalLineOf(line) = [account |-> account.code, debit |-> Side1(line.debit),
                             credit |-> Side1(line.credit)]
  BY <1>1, <1>5 DEF JournalLineOf
<1>10. PICK d, c : d = Side1(line.debit) /\ c = Side1(line.credit)
  OBVIOUS
<1>11. d \in Money \union {None} /\ c \in Money \union {None} /\ (d = None <=> line.debit = None)
       /\ (c = None <=> line.credit = None)
  BY <1>7, <1>8, <1>10
<1>12. JournalLineOf(line) = [account |-> account.code, debit |-> d, credit |-> c]
  BY <1>9, <1>10
<1>13. JournalLineOf(line) \in JournalLine
  BY <1>4, <1>11, <1>12 DEF JournalLine
<1> QED BY <1>2, <1>3, <1>4, <1>11, <1>12, <1>13 DEF Known

LEMMA OperationType ==
  ASSUME FilesInv, position \in DOMAIN scenario.operations
  PROVE  /\ Operation \in ScenarioOperation /\ position \in Nat /\ position > 0
         /\ Len(scenario.operations) \in Nat /\ position <= Len(scenario.operations)
         /\ Operation \in Range(scenario.operations)
<1>1. scenario.operations \in Seq(ScenarioOperation)
  BY DEF FilesInv, IsScenario
<1> QED BY <1>1 DEF Operation, Range

\* The lines an operation posts: one journal line per line, none faulty; or the
\* first faulty one.
LEMMA JournalLinesAre ==
  ASSUME FilesInv, chart # None, scenario.functional_ccy # Malformed,
         NEW op \in ScenarioOperation, op.lines # None
  PROVE  \/ /\ journal_lines(op).fault # None
            /\ \E n \in DOMAIN op.lines : journal_lines(op).fault = LineFault(op.lines[n])
         \/ /\ journal_lines(op).fault = None
            /\ journal_lines(op).lines \in Seq(JournalLine)
            /\ DOMAIN journal_lines(op).lines = DOMAIN op.lines
            /\ Len(journal_lines(op).lines) = Len(op.lines)
            /\ \A n \in DOMAIN op.lines :
                  /\ LineFault(op.lines[n]) = None
                  /\ journal_lines(op).lines[n] = JournalLineOf(op.lines[n])
<1>1. PICK lines \in Seq(ScenarioLine) : lines = op.lines
  BY DEF ScenarioOperation
<1>2. PICK N \in Nat : N = Len(lines) /\ DOMAIN lines = 1..N
  OBVIOUS
<1>3. PICK bad : bad = {n \in DOMAIN lines : LineFault(lines[n]) # None}
  OBVIOUS
<1>4. PICK made : made = [n \in 1..N |-> JournalLineOf(lines[n])]
  OBVIOUS
<1>5. journal_lines(op) =
         [fault |-> IF bad = {} THEN None ELSE LineFault(lines[Min(bad)]),
          lines |-> IF bad = {} THEN made ELSE <<>>]
  BY <1>1, <1>2, <1>3, <1>4 DEF journal_lines
<1>6. CASE bad = {}
  <2>1. \A n \in 1..N : LineFault(lines[n]) = None
    BY <1>2, <1>3, <1>6
  <2>2. \A n \in 1..N : made[n] \in JournalLine
    BY <1>2, <1>4, <2>1, JournalLineIs
  <2>3. made \in Seq(JournalLine) /\ DOMAIN made = 1..N /\ Len(made) = N
    BY <1>2, <1>4, <2>2
  <2>4. journal_lines(op).fault = None /\ journal_lines(op).lines = made
    BY <1>5, <1>6
  <2> QED BY <1>1, <1>2, <1>4, <2>1, <2>3, <2>4
<1>7. CASE bad # {}
  <2>1. PICK m : m = Min(bad)
    OBVIOUS
  <2>2. m \in bad
    BY <1>2, <1>3, <1>7, <2>1, BoundsExist
  <2>3. journal_lines(op).fault = LineFault(lines[m])
    BY <1>5, <1>7, <2>1
  <2> QED BY <1>1, <1>3, <2>2, <2>3
<1> QED BY <1>6, <1>7

\* The first record under a reference.
LEMMA FindIs ==
  ASSUME NEW T, entries \in Seq(T), NEW target
  PROVE  \/ Find(target) = 0 /\ \A i \in DOMAIN entries : entries[i].entry_ref # target
         \/ /\ Find(target) \in DOMAIN entries /\ Find(target) # 0
            /\ entries[Find(target)].entry_ref = target
            /\ \A j \in 1 .. Find(target) - 1 : entries[j].entry_ref # target
<1>1. PICK N \in Nat : N = Len(entries) /\ DOMAIN entries = 1..N
  OBVIOUS
<1>2. PICK I : I = {i \in 1..N : entries[i].entry_ref = target}
  OBVIOUS
<1>3. PICK f : f = Find(target)
  OBVIOUS
<1>4. f = IF I # {} THEN Min(I) ELSE 0
  BY <1>1, <1>2, <1>3 DEF Find, SelectInSeq
<1>5. CASE I = {}
  BY <1>1, <1>2, <1>3, <1>4, <1>5
<1>6. CASE I # {}
  <2>1. f \in I /\ \A y \in I : f =< y
    BY <1>2, <1>4, <1>6, BoundsExist
  <2>2. f \in 1..N /\ entries[f].entry_ref = target
    BY <1>2, <2>1
  <2>3. ASSUME NEW j \in 1..(f - 1) PROVE entries[j].entry_ref # target
    BY <1>2, <2>1, <2>2
  <2> QED BY <1>1, <1>3, <2>2, <2>3
<1> QED BY <1>5, <1>6

-----------------------------------------------------------------------------
(* What the ledger accepts from the runner. *)

\* An operation that can be turned into a command is of one of three kinds, and
\* has what its kind needs.
LEMMA FaultIs ==
  ASSUME NEW op, Fault(op) = None
  PROVE  \/ op.kind = "post_entry" /\ op.lines # None /\ journal_lines(op).fault = None
         \/ op.kind = "reverse_entry" /\ op.ref # None /\ Find(op.ref) # 0
         \/ /\ op.kind = "set_capitalization" /\ op.run # None
            /\ op.to # None /\ op.to # Malformed
<1>1. "Param" # None /\ "BadOperation" # None /\ "NoHandler" # None
  BY CorpusAssumption DEF RunErrors
<1>2. CASE op.kind = "post_entry"
  <2>1. Fault(op) = IF op.lines = None THEN "Param" ELSE journal_lines(op).fault
    BY <1>2 DEF Fault
  <2> QED BY <1>1, <1>2, <2>1
<1>3. CASE op.kind = "reverse_entry"
  <2>1. Fault(op) = IF op.ref = None THEN "Param"
                    ELSE IF Find(op.ref) = 0 THEN "BadOperation" ELSE None
    BY <1>3 DEF Fault
  <2> QED BY <1>1, <1>3, <2>1
<1>4. CASE op.kind = "set_capitalization"
  <2>1. Fault(op) = IF None \in {op.run, op.to} THEN "Param"
                    ELSE IF op.to = Malformed THEN "BadOperation" ELSE None
    BY <1>4 DEF Fault
  <2> QED BY <1>1, <1>4, <2>1
<1>5. CASE op.kind \notin {"post_entry", "reverse_entry", "set_capitalization"}
  <2>1. Fault(op) = "NoHandler"
    BY <1>5 DEF Fault
  <2> QED BY <1>1, <2>1
<1> QED BY <1>2, <1>3, <1>4, <1>5

\* The runner is executing, with everything it needs.
LEMMA ReadyToRun ==
  ASSUME FilesInv, ProgressInv, position \in DOMAIN scenario.operations
  PROVE  /\ chart # None /\ scenario.functional_ccy # Malformed /\ Deliverable
         /\ Operation \in ScenarioOperation /\ position \in Nat /\ position > 0
<1>1. position > 0 /\ position \in Nat /\ Operation \in ScenarioOperation
  BY OperationType
<1> QED BY <1>1 DEF ProgressInv

LEMMA CommandType ==
  ASSUME FilesInv, ProgressInv, RecordsInv, position \in DOMAIN scenario.operations,
         Fault(Operation) = None
  PROVE  /\ Command(Operation) \in LedgerCommand
         /\ Command(Operation).kind = CASE Operation.kind = "post_entry" -> "PostJournalEntry"
                                        [] Operation.kind = "reverse_entry" -> "ReverseEntry"
                                        [] OTHER -> "ChangeCapitalizationStatus"
<1>1. PICK op \in ScenarioOperation : op = Operation
  BY ReadyToRun
<1>2. chart # None /\ scenario.functional_ccy # Malformed
  BY ReadyToRun
<1>3. CASE op.kind = "post_entry"
  <2>1. op.lines # None /\ journal_lines(op).fault = None
    BY <1>1, <1>3, FaultIs
  <2>2. journal_lines(op).lines \in Seq(JournalLine)
    BY <1>2, <2>1, JournalLinesAre
  <2>3. Command(op) = [kind |-> "PostJournalEntry", lines |-> journal_lines(op).lines]
    BY <1>3 DEF Command
  <2>4. Command(op) \in LedgerCommand /\ Command(op).kind = "PostJournalEntry"
    BY <2>2, <2>3 DEF LedgerCommand
  <2> QED BY <1>1, <1>3, <2>4
<1>4. CASE op.kind = "reverse_entry"
  <2>1. Find(op.ref) # 0 /\ entries \in Seq(RunnerRecord)
    BY <1>1, <1>4, FaultIs DEF RecordsInv
  <2>2. Find(op.ref) \in DOMAIN entries
    BY <2>1, FindIs
  <2>3. entries[Find(op.ref)].entry_id \in EntryIds
    <3>1. entries[Find(op.ref)] \in RunnerRecord
      BY <2>1, <2>2
    <3> QED BY <3>1 DEF RunnerRecord
  <2>4. Command(op) = [kind |-> "ReverseEntry", original_id |-> entries[Find(op.ref)].entry_id]
    BY <1>4 DEF Command
  <2>5. Command(op) \in LedgerCommand /\ Command(op).kind = "ReverseEntry"
    BY <2>3, <2>4 DEF LedgerCommand
  <2> QED BY <1>1, <1>4, <2>5
<1>5. CASE op.kind = "set_capitalization"
  <2>1. op.run # None /\ op.to # None /\ op.to # Malformed
    BY <1>1, <1>5, FaultIs
  <2>2. op.run \in Runs /\ op.to \in Statuses
    BY <2>1 DEF ScenarioOperation
  <2>3. Command(op) = [kind |-> "ChangeCapitalizationStatus", run_id |-> op.run, to |-> op.to]
    BY <1>5 DEF Command
  <2>4. Command(op) \in LedgerCommand /\ Command(op).kind = "ChangeCapitalizationStatus"
    BY <2>2, <2>3 DEF LedgerCommand
  <2> QED BY <1>1, <1>5, <2>4
<1>6. op.kind \in {"post_entry", "reverse_entry", "set_capitalization"}
  BY <1>1, FaultIs
<1> QED BY <1>3, <1>4, <1>5, <1>6

\* The step records r, an entry whose id is new and whose lines move the balances.
Files(r) ==
    /\ r \in RunnerRecord /\ entries' = Append(entries, r)
    /\ state.entries[r.entry_id] = None
    /\ state'.entries = [state.entries EXCEPT ![r.entry_id] = r.lines]
    /\ state'.balances = PostLines(state.balances, r.lines)
    /\ r.journal_id = position
    /\ r.entity \in {scenario.entity} \union {op.entity : op \in Range(scenario.operations)}
    /\ r.lines # <<>> /\ Balanced(r.lines)
    /\ \A n \in DOMAIN r.lines : Known(r.lines[n].account)
    /\ r.reversal_of # None =>
          \E j \in DOMAIN entries : /\ entries[j].entry_ref = r.entry_ref
                                    /\ entries[j].reversal_of = None
                                    /\ r.reversal_of = entries[j].entry_id

\* The step changes neither entries nor balances.
FilesNothing ==
    /\ entries' = entries /\ state'.entries = state.entries /\ state'.balances = state.balances

\* What an accepted operation does to the ledger.
LEMMA AcceptedEvent ==
  ASSUME FilesInv, ProgressInv, LedgerInv, RecordsInv, Accept
  PROVE  \E command \in LedgerCommand, event \in LedgerEvent :
            \E id \in NewIds(command, Unused) :
               /\ command = Command(Operation) /\ CommandError(state, command) = None
               /\ event = CommandEvent(state, command, id)
               /\ entries' = record_entry(event)
               /\ state' = apply_event(state, event) /\ state' \in LedgerState
               /\ events' = Append(events, event) /\ events' \in Seq(LedgerEvent)
               /\ Len(events') = Len(events) + 1
               /\ replay(events') = state'
<1>1. position \in DOMAIN scenario.operations /\ Fault(Operation) = None
  BY DEF Accept, Executable, Executing
<1>2. PICK command \in LedgerCommand : command = Command(Operation)
  BY <1>1, CommandType
<1>3. PICK id \in NewIds(command, Unused) :
         /\ entries' = record_entry(CommandEvent(state, command, id))
         /\ state' = apply_event(state, CommandEvent(state, command, id))
         /\ events' = Append(events, CommandEvent(state, command, id))
  BY <1>2 DEF Accept
<1>4. PICK event : event = CommandEvent(state, command, id)
  OBVIOUS
<1>5. Unused \in SUBSET EntryIds /\ state \in LedgerState /\ events \in Seq(LedgerEvent)
      /\ replay(events) = state
  BY DEF Unused, LedgerInv
<1>6. event \in LedgerEvent
  BY <1>2, <1>3, <1>4, <1>5, CommandEventType
<1>7. state' \in LedgerState
  BY <1>3, <1>4, <1>5, <1>6, ApplyEventType
<1>8. replay(events') = state'
  BY <1>3, <1>4, <1>5, <1>6, ReplayStep
<1>9. events' = Append(events, event) /\ events' \in Seq(LedgerEvent)
      /\ Len(events') = Len(events) + 1
  BY <1>3, <1>4, <1>5, <1>6
<1> QED BY <1>2, <1>3, <1>4, <1>6, <1>7, <1>8, <1>9 DEF Accept

LEMMA ReversalApplied ==
  ASSUME NEW before \in LedgerState, NEW target \in EntryIds, NEW id \in EntryIds, NEW event,
         event = [kind |-> "EntryReversed", original_id |-> target, reversal_id |-> id],
         NEW lines \in Seq(JournalLine), before.entries[target] = lines,
         NEW after, after = apply_event(before, event)
  PROVE  /\ after.balances = PostLines(before.balances, mirror(lines))
         /\ after.entries = [before.entries EXCEPT ![id] = mirror(lines)]
<1>1. PICK original, posted : /\ original = before.entries[target]
                              /\ posted = post(before, id, mirror(original))
  OBVIOUS
<1>2. original = lines /\ original # None
  BY <1>1, NoneAssumption
<1>3. after = [posted EXCEPT !.reversed = @ \union {target}]
  BY <1>1, <1>2 DEF apply_event
<1>4. posted = [balances |-> PostLines(before.balances, mirror(lines)),
                entries |-> [before.entries EXCEPT ![id] = mirror(lines)],
                reversed |-> before.reversed, capitalization |-> before.capitalization]
  BY <1>1, <1>2 DEF post, LedgerState
<1> QED BY <1>3, <1>4

\* The entry that an accepted posting files.
LEMMA AcceptedPosting ==
  ASSUME FilesInv, ProgressInv, LedgerInv, RecordsInv, Accept, Operation.kind = "post_entry"
  PROVE  \E r : Files(r)
<1>1. PICK command, event, id :
               /\ command \in LedgerCommand /\ event \in LedgerEvent
               /\ id \in NewIds(command, Unused)
               /\ command = Command(Operation) /\ CommandError(state, command) = None
               /\ event = CommandEvent(state, command, id)
               /\ entries' = record_entry(event)
               /\ state' = apply_event(state, event)
  BY AcceptedEvent
<1>2. PICK op \in ScenarioOperation : op = Operation
  BY ReadyToRun DEF Accept, Executable, Executing
<1>3. /\ op.lines # None /\ journal_lines(op).fault = None
      /\ chart # None /\ scenario.functional_ccy # Malformed
      /\ position \in Nat /\ op \in Range(scenario.operations)
  BY <1>2, FaultIs, ReadyToRun, OperationType DEF Accept, Executable, Executing
<1>4. PICK lines \in Seq(JournalLine) : lines = journal_lines(op).lines
  BY <1>3, JournalLinesAre
<1>5. ASSUME NEW n \in DOMAIN lines PROVE Known(lines[n].account)
  <2>1. /\ n \in DOMAIN op.lines /\ LineFault(op.lines[n]) = None
        /\ lines[n] = JournalLineOf(op.lines[n])
    BY <1>3, <1>4, <1>5, JournalLinesAre
  <2>2. op.lines[n] \in ScenarioLine
    <3>1. op.lines \in Seq(ScenarioLine)
      BY <1>3 DEF ScenarioOperation
    <3> QED BY <2>1, <3>1
  <2> QED BY <1>3, <2>1, <2>2, JournalLineIs
<1>6. command.kind = "PostJournalEntry" /\ command.lines = lines
  BY <1>1, <1>2, <1>4 DEF Command
<1>7. PostError(lines) = None
  BY <1>1, <1>6 DEF CommandError
<1>8. lines # <<>> /\ Balanced(lines)
  <2>1. "EmptyEntry" # None
    BY NoneAssumption DEF LedgerError
  <2>2. lines # <<>>
    <3> SUFFICES ASSUME lines = <<>> PROVE FALSE
      OBVIOUS
    <3>1. PostError(lines) = "EmptyEntry"
      BY DEF PostError
    <3> QED BY <1>7, <2>1, <3>1
  <2> QED BY <1>7, <2>2, AcceptedIsBalanced
<1>9. id \in EntryIds /\ state.entries[id] = None
  BY <1>1, <1>6 DEF NewIds, Unused
<1>10. event = [kind |-> "JournalEntryPosted", id |-> id, lines |-> lines]
  BY <1>1, <1>6 DEF CommandEvent
<1>11. state' = post(state, id, lines)
  BY <1>1, <1>10 DEF apply_event
<1>12. /\ state'.entries = [state.entries EXCEPT ![id] = lines]
       /\ state'.balances = PostLines(state.balances, lines)
  BY <1>11 DEF post, LedgerInv, LedgerState
<1>13. PICK r : r = EntryRecord(id, OwnEntity, lines, None)
  OBVIOUS
<1>14. entries' = Append(entries, r)
  BY <1>1, <1>10, <1>13 DEF record_entry
<1>15. OwnEntity \in STRING
       /\ OwnEntity \in {scenario.entity} \union {o.entity : o \in Range(scenario.operations)}
  <2>1. op.entity \in STRING \union {None} /\ scenario.entity \in STRING
    BY DEF ScenarioOperation, FilesInv, IsScenario
  <2>2. OwnEntity = IF op.entity = None THEN scenario.entity ELSE op.entity
    BY <1>2 DEF OwnEntity
  <2> QED BY <1>3, <2>1, <2>2
<1>16. r = [entry_id |-> id, entry_ref |-> op.ref, journal_id |-> position,
            entity |-> OwnEntity, lines |-> lines, reversal_of |-> None]
  BY <1>2, <1>13 DEF EntryRecord
<1>17. r \in RunnerRecord
  BY <1>3, <1>9, <1>15, <1>16 DEF RunnerRecord, ScenarioOperation
<1>18. Files(r)
  BY <1>3, <1>5, <1>8, <1>9, <1>12, <1>14, <1>15, <1>16, <1>17 DEF Files
<1> QED BY <1>18

\* The entry that an accepted reversal files: the mirror of the posting that the
\* reference names.
LEMMA AcceptedReversal ==
  ASSUME FilesInv, ProgressInv, LedgerInv, RecordsInv, Accept, Operation.kind = "reverse_entry"
  PROVE  \E r : Files(r)
<1>1. PICK command, event, id :
               /\ command \in LedgerCommand /\ event \in LedgerEvent
               /\ id \in NewIds(command, Unused)
               /\ command = Command(Operation) /\ CommandError(state, command) = None
               /\ event = CommandEvent(state, command, id)
               /\ entries' = record_entry(event)
               /\ state' = apply_event(state, event)
  BY AcceptedEvent
<1>2. PICK op \in ScenarioOperation : op = Operation
  BY ReadyToRun DEF Accept, Executable, Executing
<1>3. /\ op.ref # None /\ Find(op.ref) # 0 /\ position \in Nat
      /\ entries \in Seq(RunnerRecord) /\ DOMAIN entries = 1..Len(entries) /\ Len(entries) \in Nat
  BY <1>2, FaultIs, ReadyToRun DEF Accept, Executable, Executing, RecordsInv
<1>4. PICK f \in 1..Len(entries) : /\ f = Find(op.ref) /\ entries[f].entry_ref = op.ref
                                   /\ \A j \in 1..(f - 1) : entries[j].entry_ref # op.ref
  BY <1>3, FindIs
<1>5. PICK target \in RunnerRecord : target = entries[f]
  BY <1>3
<1>6. RecordInv(f)
  BY <1>3 DEF RecordsInv
<1>7. target.reversal_of = None
  <2> SUFFICES ASSUME target.reversal_of # None PROVE FALSE
    OBVIOUS
  <2>1. PICK j \in 1..(f - 1) : Reversed(f, j)
    BY <1>5, <1>6 DEF RecordInv
  <2> QED BY <1>4, <2>1 DEF Reversed
<1>8. PICK lines \in Seq(JournalLine) : lines = target.lines
  BY DEF RunnerRecord
<1>9. /\ lines # <<>> /\ Balanced(lines) /\ state.entries[target.entry_id] = lines
      /\ \A n \in DOMAIN lines : Known(lines[n].account)
  BY <1>5, <1>6, <1>8 DEF RecordInv
<1>10. target.entry_id \in EntryIds
  BY DEF RunnerRecord
<1>11. command.kind = "ReverseEntry" /\ command.original_id = target.entry_id
  BY <1>1, <1>2, <1>4, <1>5 DEF Command
<1>12. id \in EntryIds /\ state.entries[id] = None
  BY <1>1, <1>11 DEF NewIds, Unused
<1>13. event = [kind |-> "EntryReversed", original_id |-> target.entry_id, reversal_id |-> id]
  BY <1>1, <1>11 DEF CommandEvent
<1>14. PICK other : other = mirror(lines)
  OBVIOUS
<1>15. other \in Seq(JournalLine) /\ Balanced(other)
  BY <1>9, <1>14, MirrorType, MirrorBalanced
<1>16. /\ other # <<>> /\ DOMAIN other = DOMAIN lines
       /\ \A n \in DOMAIN other : other[n].account = lines[n].account
  BY <1>9, <1>14 DEF mirror
<1>17. PICK old, new : old = state /\ new = state'
  OBVIOUS
<1>18. /\ new.balances = PostLines(old.balances, mirror(lines))
       /\ new.entries = [old.entries EXCEPT ![id] = mirror(lines)]
  <2>1. PICK reversed \in EntryIds : reversed = target.entry_id
    BY <1>10
  <2>2. /\ event = [kind |-> "EntryReversed", original_id |-> reversed, reversal_id |-> id]
        /\ old \in LedgerState /\ old.entries[reversed] = lines /\ new = apply_event(old, event)
    BY <1>1, <1>9, <1>13, <1>17, <2>1 DEF LedgerInv
  <2> QED BY <1>12, <2>2, ReversalApplied
<1>19. /\ state'.entries = [state.entries EXCEPT ![id] = other]
       /\ state'.balances = PostLines(state.balances, other)
  BY <1>14, <1>17, <1>18
<1>20. RunnerMirror(lines) = other
  BY <1>14 DEF RunnerMirror, mirror
<1>21. SelectInSeq(entries, LAMBDA e : e.entry_id = target.entry_id) = f
  <2>1. PICK I : I = {i \in 1..Len(entries) : entries[i].entry_id = target.entry_id}
    OBVIOUS
  <2>2. I = {f}
    BY <1>3, <1>5, <2>1 DEF RecordsInv
  <2>3. I \in SUBSET Int /\ f \in I /\ \A y \in I : f =< y
    BY <2>2
  <2>4. Min(I) = f
    BY <2>3, MinIs, Zenon
  <2> QED BY <2>1, <2>2, <2>4 DEF SelectInSeq
<1>22. PICK r : r = EntryRecord(id, scenario.entity, other, target.entry_id)
  OBVIOUS
<1>23. entries' = Append(entries, r)
  BY <1>1, <1>4, <1>5, <1>8, <1>13, <1>20, <1>21, <1>22 DEF record_entry
<1>24. scenario.entity \in STRING
  BY DEF FilesInv, IsScenario
<1>25. r = [entry_id |-> id, entry_ref |-> op.ref, journal_id |-> position,
            entity |-> scenario.entity, lines |-> other, reversal_of |-> target.entry_id]
  BY <1>2, <1>22 DEF EntryRecord
<1>26. r \in RunnerRecord
  BY <1>3, <1>10, <1>12, <1>15, <1>24, <1>25 DEF RunnerRecord, ScenarioOperation
<1>27. \A n \in DOMAIN r.lines : Known(r.lines[n].account)
  BY <1>9, <1>16, <1>25
<1>28. Files(r)
  BY <1>3, <1>4, <1>5, <1>7, <1>12, <1>15, <1>16, <1>19, <1>23, <1>25, <1>26, <1>27 DEF Files
<1> QED BY <1>28

LEMMA AcceptedChange ==
  ASSUME FilesInv, ProgressInv, LedgerInv, RecordsInv, Accept,
         Operation.kind = "set_capitalization"
  PROVE  FilesNothing
<1>1. PICK command, event, id :
               /\ command \in LedgerCommand /\ event \in LedgerEvent
               /\ id \in NewIds(command, Unused)
               /\ command = Command(Operation)
               /\ event = CommandEvent(state, command, id)
               /\ entries' = record_entry(event)
               /\ state' = apply_event(state, event)
  BY AcceptedEvent
<1>2. command.kind = "ChangeCapitalizationStatus"
  BY <1>1 DEF Command
<1>3. event.kind = "CapitalizationStatusChanged"
  BY <1>1, <1>2 DEF CommandEvent
<1>4. entries' = entries
  BY <1>1, <1>3 DEF record_entry
<1>5. state' = [state EXCEPT !.capitalization[event.run_id] = event.to]
  BY <1>1, <1>3 DEF apply_event
<1> QED BY <1>4, <1>5 DEF FilesNothing, LedgerInv, LedgerState

LEMMA Accepted ==
  ASSUME FilesInv, ProgressInv, LedgerInv, RecordsInv, Accept
  PROVE  FilesNothing \/ \E r : Files(r)
<1>1. Operation.kind \in {"post_entry", "reverse_entry", "set_capitalization"}
  BY FaultIs DEF Accept, Executable
<1> QED BY <1>1, AcceptedPosting, AcceptedReversal, AcceptedChange

-----------------------------------------------------------------------------
(* The records stay the ledger's entries. *)

LEMMA EmptyRecords ==
  ASSUME entries = <<>>, state = DefaultState
  PROVE  RecordsInv
<1>1. entries \in Seq(RunnerRecord) /\ DOMAIN entries = {}
  BY DEF RunnerRecord
<1>2. /\ \A e \in EntryIds : state.entries[e] = None
      /\ \A a \in Accounts : state.balances[a] = None
  BY DEF DefaultState
<1> QED BY <1>1, <1>2 DEF RecordsInv

LEMMA RecordsFile ==
  ASSUME RecordsInv, LedgerInv, position \in Nat, state' \in LedgerState,
         NEW r, Files(r), position' = position + 1, UNCHANGED <<chart, scenario>>
  PROVE  RecordsInv'
<1>1. PICK n \in Nat : n = Len(entries) /\ DOMAIN entries = 1..n
  BY DEF RecordsInv
<1>2. /\ r \in RunnerRecord /\ entries \in Seq(RunnerRecord)
      /\ r.entry_id \in EntryIds /\ r.lines \in Seq(JournalLine) /\ r.journal_id = position
      /\ state \in LedgerState
  BY DEF Files, RecordsInv, LedgerInv, RunnerRecord
<1>3. PICK longer : longer = entries'
  OBVIOUS
<1>4. /\ longer \in Seq(RunnerRecord) /\ DOMAIN longer = 1..(n + 1)
      /\ longer[n + 1] = r /\ \A i \in 1..n : longer[i] = entries[i]
  BY <1>1, <1>2, <1>3 DEF Files
<1>5. /\ state'.entries = [state.entries EXCEPT ![r.entry_id] = r.lines]
      /\ state.entries[r.entry_id] = None /\ state.entries \in [EntryIds -> Seq(JournalLine) \union {None}]
      /\ state'.balances = PostLines(state.balances, r.lines) /\ state.balances \in Balances
  BY <1>2 DEF Files, LedgerState, Balances
<1>6. \A i \in 1..n : /\ entries[i].entry_id \in EntryIds
                      /\ entries[i].entry_id # r.entry_id /\ entries[i].journal_id # position
                      /\ RecordInv(i)
  <2> SUFFICES ASSUME NEW i \in 1..n
               PROVE  /\ entries[i].entry_id \in EntryIds
                      /\ entries[i].entry_id # r.entry_id /\ entries[i].journal_id # position
                      /\ RecordInv(i)
    OBVIOUS
  <2>1. RecordInv(i) /\ entries[i] \in RunnerRecord
    BY <1>1, <1>2 DEF RecordsInv
  <2>2. entries[i].lines # None
    BY <2>1, NoneAssumption DEF RunnerRecord
  <2>3. entries[i].journal_id \in Nat /\ entries[i].entry_id \in EntryIds
    BY <2>1 DEF RunnerRecord
  <2> QED BY <1>5, <2>1, <2>2, <2>3 DEF RecordInv
<1>7. {longer[i].entry_id : i \in 1..(n + 1)} = {e \in EntryIds : state'.entries[e] # None}
  <2>1. {longer[i].entry_id : i \in 1..(n + 1)} = {entries[i].entry_id : i \in 1..n} \union {r.entry_id}
    <3>1. 1..(n + 1) = (1..n) \union {n + 1}
      OBVIOUS
    <3> QED BY <1>4, <3>1
  <2>2. r.lines # None
    BY <1>2, NoneAssumption
  <2>3. \A e \in EntryIds : state'.entries[e] # None <=> state.entries[e] # None \/ e = r.entry_id
    BY <1>2, <1>5, <2>2
  <2>4. {entries[i].entry_id : i \in 1..n} = {e \in EntryIds : state.entries[e] # None}
    BY <1>1 DEF RecordsInv
  <2> QED BY <1>2, <2>1, <2>3, <2>4
<1>8. ASSUME NEW i \in 1..(n + 1), NEW j \in 1..(n + 1), i # j
      PROVE  longer[i].entry_id # longer[j].entry_id /\ longer[i].journal_id # longer[j].journal_id
  <2>1. CASE i \in 1..n /\ j \in 1..n
    BY <1>1, <1>4, <1>8, <2>1 DEF RecordsInv
  <2>2. CASE i = n + 1 /\ j \in 1..n
    BY <1>2, <1>4, <1>6, <2>2
  <2>3. CASE j = n + 1 /\ i \in 1..n
    BY <1>2, <1>4, <1>6, <2>3
  <2> QED BY <1>8, <2>1, <2>2, <2>3
<1>9. ASSUME NEW i \in 1..(n + 1) PROVE RecordInv(i)'
  <2>1. CASE i \in 1..n
    <3>1. RecordInv(i) /\ longer[i] = entries[i] /\ entries[i].entry_id \in EntryIds
          /\ entries[i].entry_id # r.entry_id /\ entries[i] \in RunnerRecord
      BY <1>2, <1>4, <1>6, <2>1
    <3>2. state'.entries[entries[i].entry_id] = state.entries[entries[i].entry_id]
      BY <1>5, <3>1
    <3>3. entries[i].journal_id < position'
      BY <3>1 DEF RecordInv, RunnerRecord
    <3>4. ASSUME entries[i].reversal_of # None PROVE \E j \in 1 .. i - 1 : Reversed(i, j)'
      <4>1. PICK j \in 1 .. i - 1 : Reversed(i, j)
        BY <3>1, <3>4 DEF RecordInv
      <4>2. longer[j] = entries[j]
        BY <1>4, <2>1, <4>1
      <4> QED BY <1>3, <3>1, <4>1, <4>2 DEF Reversed
    <3>5. \A m \in DOMAIN entries[i].lines : Known(entries[i].lines[m].account)'
      <4>1. \A a : Known(a) => Known(a)'
        BY DEF Known
      <4> QED BY <1>3, <3>1, <4>1 DEF RecordInv
    <3> QED BY <1>3, <3>1, <3>2, <3>3, <3>4, <3>5 DEF RecordInv
  <2>2. CASE i = n + 1
    <3>1. longer[i] = r
      BY <1>4, <2>2
    <3>2. state'.entries[r.entry_id] = r.lines
      BY <1>2, <1>5
    <3>3. r.journal_id < position'
      BY <1>2
    <3>4. ASSUME r.reversal_of # None PROVE \E j \in 1 .. i - 1 : Reversed(i, j)'
      <4>1. PICK j \in 1..n : /\ entries[j].entry_ref = r.entry_ref
                              /\ entries[j].reversal_of = None
                              /\ r.reversal_of = entries[j].entry_id
        BY <1>1, <3>4 DEF Files
      <4>2. longer[j] = entries[j] /\ j \in 1 .. i - 1
        BY <1>4, <2>2, <4>1
      <4>3. Reversed(i, j)'
        BY <1>3, <3>1, <4>1, <4>2 DEF Reversed
      <4> QED BY <4>2, <4>3
    <3>5. \A m \in DOMAIN r.lines : Known(r.lines[m].account)'
      BY DEF Files, Known
    <3> QED BY <1>3, <3>1, <3>2, <3>3, <3>4, <3>5 DEF RecordInv, Files
  <2> QED BY <2>1, <2>2
<1>10. ASSUME NEW a \in Accounts, state'.balances[a] # None PROVE Known(a)'
  <2>1. \A m \in DOMAIN r.lines : OneSided(r.lines[m])
    BY <1>2 DEF Files, Balanced
  <2>2. state.balances[a] # None \/ \E m \in DOMAIN r.lines : r.lines[m].account = a
    BY <1>2, <1>5, <1>10, <2>1, PostLinesTouch
  <2> QED BY <2>2 DEF RecordsInv, Files, Known
<1> QED BY <1>3, <1>4, <1>7, <1>8, <1>9, <1>10 DEF RecordsInv

LEMMA RecordsKept ==
  ASSUME RecordsInv, UNCHANGED <<chart, scenario>>, FilesNothing,
         position \in Nat, position' \in Nat, position' >= position
  PROVE  RecordsInv'
<1>1. entries \in Seq(RunnerRecord) /\ entries' = entries
      /\ state'.entries = state.entries /\ state'.balances = state.balances
  BY DEF RecordsInv, FilesNothing
<1>2. ASSUME NEW i \in DOMAIN entries PROVE RecordInv(i)'
  <2>1. RecordInv(i) /\ entries[i].journal_id \in Nat
    <3>1. RecordInv(i) /\ entries[i] \in RunnerRecord
      BY <1>1 DEF RecordsInv
    <3> QED BY <3>1 DEF RunnerRecord
  <2>2. entries[i].journal_id < position'
    BY <2>1 DEF RecordInv
  <2>3. \A j : Reversed(i, j) => Reversed(i, j)'
    BY <1>1 DEF Reversed
  <2>4. \A a : Known(a) => Known(a)'
    BY DEF Known
  <2> QED BY <1>1, <2>1, <2>2, <2>3, <2>4 DEF RecordInv
<1>3. \A a : Known(a) => Known(a)'
  BY DEF Known
<1> QED BY <1>1, <1>2, <1>3 DEF RecordsInv

-----------------------------------------------------------------------------
(* The invariant is inductive. *)

LEMMA RunnerStarts ==
  ASSUME RunnerInit
  PROVE  RunnerInv
<1>1. PICK corpus \in Corpora : reference = corpus.reference /\ scenario = corpus.scenario
  BY DEF RunnerInit
<1>2. FilesInv
  BY <1>1, CorpusAssumption DEF RunnerInit, FilesInv
<1>3. Len(scenario.operations) \in Nat
  BY <1>2 DEF FilesInv, IsScenario
<1>4. ProgressInv
  BY <1>3 DEF RunnerInit, ProgressInv
<1>5. LedgerInv
  <2>1. DefaultState \in LedgerState
    BY DEF DefaultState, LedgerState
  <2>2. events = <<>> /\ events \in Seq(LedgerEvent) /\ replay(events) = state
    BY ReplayStep DEF RunnerInit
  <2>3. rejections = <<>> /\ Len(rejections) = 0 /\ position = 0
    BY DEF RunnerInit
  <2> QED BY <2>1, <2>2, <2>3 DEF RunnerInit, LedgerInv
<1>6. RecordsInv
  BY EmptyRecords DEF RunnerInit
<1>7. ResultInv
  BY DEF RunnerInit, ResultInv
<1> QED BY <1>2, <1>4, <1>5, <1>6, <1>7 DEF RunnerInv

LEMMA LoadKeeps ==
  ASSUME RunnerInv, LoadChart
  PROVE  RunnerInv'
<1>1. position = 0 /\ result' = None
  BY DEF RunnerInv, ProgressInv, LoadChart
<1>2. FilesInv'
  BY DEF RunnerInv, FilesInv, LoadChart
<1>3. ProgressInv'
  BY <1>1 DEF RunnerInv, ProgressInv, LoadChart
<1>4. LedgerInv'
  BY DEF RunnerInv, LedgerInv, LoadChart
<1>5. RecordsInv'
  <2>1. entries' = <<>> /\ state' = DefaultState
    BY <1>1 DEF RunnerInv, ProgressInv, LoadChart
  <2>2. entries' \in Seq(RunnerRecord) /\ DOMAIN entries' = {}
    BY <2>1 DEF RunnerRecord
  <2>3. /\ \A e \in EntryIds : state'.entries[e] = None
        /\ \A a \in Accounts : state'.balances[a] = None
    BY <2>1 DEF DefaultState
  <2> QED BY <2>2, <2>3 DEF RecordsInv
<1>6. ResultInv'
  BY <1>1 DEF ResultInv
<1> QED BY <1>2, <1>3, <1>4, <1>5, <1>6 DEF RunnerInv

\* A step that leaves all but position and result alone, once the chart is loaded or
\* for good, keeps what is said of files and records.
LEMMA AnswerKeeps ==
  ASSUME RunnerInv, UNCHANGED <<reference, chart, scenario, position, state, events, entries, rejections>>,
         ResultInv'
  PROVE  RunnerInv'
<1>1. FilesInv'
  BY DEF RunnerInv, FilesInv
<1>2. ProgressInv'
  BY DEF RunnerInv, ProgressInv, Deliverable
<1>3. LedgerInv'
  BY DEF RunnerInv, LedgerInv
<1>4. RecordsInv'
  <2>1. position \in Nat
    <3>1. scenario.operations \in Seq(ScenarioOperation)
      BY DEF RunnerInv, FilesInv, IsScenario
    <3> QED BY <3>1 DEF RunnerInv, ProgressInv
  <2>2. RecordsInv /\ position' = position /\ FilesNothing
    BY DEF RunnerInv, FilesNothing
  <2> QED BY <2>1, <2>2, RecordsKept
<1> QED BY <1>1, <1>2, <1>3, <1>4 DEF RunnerInv

LEMMA AnsweredKeeps ==
  ASSUME RunnerInv,
         RefuseChart \/ RunBlocked \/ RunDeferred \/ StartBadCurrency \/ Abandon
         \/ AcceptUnexpectedly \/ RejectUnexpectedly \/ Finish
  PROVE  RunnerInv'
<1>1. UNCHANGED <<reference, chart, scenario, position, state, events, entries, rejections>>
  BY DEF RefuseChart, RunBlocked, RunDeferred, StartBadCurrency, Abandon, AcceptUnexpectedly,
         RejectUnexpectedly, Finish, Answer
<1>2. Deliverable' <=> Deliverable
  BY <1>1 DEF Deliverable
<1>3. Operation' = Operation
  BY <1>1 DEF Operation
<1>4. (Fault(Operation))' = Fault(Operation)
  BY <1>1 DEF Fault, journal_lines, LineFault, JournalLineOf, resolve, Find, Operation
<1>5. (Command(Operation))' = Command(Operation)
  BY <1>1 DEF Command, journal_lines, LineFault, JournalLineOf, resolve, Find, Operation
<1>6. CASE RefuseChart
  <2>1. result'.outcome = "ChartError" /\ chart' = None /\ ChartError(reference') # None
    BY <1>6 DEF RefuseChart, Answer
  <2>2. ResultInv'
    BY <2>1 DEF ResultInv
  <2> QED BY <1>1, <2>2, AnswerKeeps
<1>7. CASE RunBlocked
  <2>1. result'.outcome = "Blocked" /\ chart' # None /\ scenario'.status = "Blocked"
    BY <1>7 DEF RunBlocked, Loaded, Answer
  <2>2. ResultInv'
    BY <2>1 DEF ResultInv
  <2> QED BY <1>1, <2>2, AnswerKeeps
<1>8. CASE RunDeferred
  <2>1. /\ result'.outcome = "Deferred" /\ chart' # None /\ scenario'.status # "Blocked"
        /\ \E kind \in Kinds(scenario') : Undeliverable(kind)
        /\ result'.cause = required_phase(scenario')
    BY <1>8 DEF RunDeferred, Loaded, Answer
  <2>2. ResultInv'
    BY <2>1 DEF ResultInv
  <2> QED BY <1>1, <2>2, AnswerKeeps
<1>9. CASE StartBadCurrency
  <2>1. result'.outcome = "BadOperation" /\ chart' # None /\ Deliverable'
    BY <1>2, <1>9 DEF StartBadCurrency, Loaded, Answer
  <2>2. ResultInv'
    BY <2>1 DEF ResultInv
  <2> QED BY <1>1, <2>2, AnswerKeeps
<1>10. CASE Abandon
  <2>1. /\ position' \in DOMAIN scenario'.operations
        /\ result'.outcome = (Fault(Operation))' /\ (Fault(Operation))' # None
    BY <1>4, <1>10 DEF Abandon, Executing, Answer
  <2>2. ResultInv'
    BY <2>1 DEF ResultInv
  <2> QED BY <1>1, <2>2, AnswerKeeps
<1>11. CASE AcceptUnexpectedly
  <2>1. position' \in DOMAIN scenario'.operations /\ result'.outcome = "ExpectedRejection"
    BY <1>11 DEF AcceptUnexpectedly, Executable, Executing, Answer
  <2>2. ResultInv'
    BY <2>1 DEF ResultInv
  <2> QED BY <1>1, <2>2, AnswerKeeps
<1>12. CASE RejectUnexpectedly
  <2>1. /\ position' \in DOMAIN scenario'.operations
        /\ result'.outcome = "Rejected" /\ (Fault(Operation))' = None
        /\ ~Operation'.expect_rejection
        /\ result'.cause = CommandError(state', (Command(Operation))') /\ result'.cause # None
    BY <1>1, <1>3, <1>4, <1>5, <1>12 DEF RejectUnexpectedly, Executable, Executing, Answer
  <2>2. ResultInv'
    BY <2>1 DEF ResultInv
  <2> QED BY <1>1, <2>2, AnswerKeeps
<1>13. CASE Finish
  <2>1. result'.outcome = "Executed" /\ position' = Len(scenario'.operations) + 1
    BY <1>13 DEF Finish, Answer
  <2>2. ResultInv'
    BY <2>1 DEF ResultInv
  <2> QED BY <1>1, <2>2, AnswerKeeps
<1> QED BY <1>6, <1>7, <1>8, <1>9, <1>10, <1>11, <1>12, <1>13

LEMMA StartKeeps ==
  ASSUME RunnerInv, Start
  PROVE  RunnerInv'
<1>1. /\ UNCHANGED <<reference, chart, scenario, state, events, entries, rejections>>
      /\ position = 0 /\ position' = 1 /\ result' = None /\ chart # None
      /\ Deliverable /\ scenario.functional_ccy # Malformed
  BY DEF Start, Loaded
<1>2. entries = <<>> /\ events = <<>> /\ rejections = <<>> /\ state = DefaultState
  BY <1>1 DEF RunnerInv, ProgressInv
<1>3. FilesInv'
  BY <1>1 DEF RunnerInv, FilesInv
<1>4. ProgressInv'
  <2>1. Len(scenario.operations) \in Nat
    BY DEF RunnerInv, FilesInv, IsScenario
  <2> QED BY <1>1, <2>1 DEF ProgressInv, Deliverable
<1>5. LedgerInv'
  <2>1. Len(events) = 0 /\ Len(rejections) = 0
    BY <1>2
  <2>2. \A P : Cardinality({i \in 1 .. 1 - 1 : i \in P}) = 0
    BY FS_EmptySet
  <2>3. {i \in 1 .. position' - 1 : scenario'.operations[i].expect_rejection} = {}
    BY <1>1
  <2>4. Cardinality({i \in 1 .. position' - 1 : scenario'.operations[i].expect_rejection}) = 0
    BY <2>3, FS_EmptySet
  <2> QED BY <1>1, <2>1, <2>4 DEF RunnerInv, LedgerInv
<1>6. RecordsInv'
  <2>1. FilesNothing /\ RecordsInv
    BY <1>1 DEF FilesNothing, RunnerInv
  <2> QED BY <1>1, <2>1, RecordsKept
<1>7. ResultInv'
  BY <1>1 DEF ResultInv
<1> QED BY <1>3, <1>4, <1>5, <1>6, <1>7 DEF RunnerInv

\* One more operation passed: the refusals expected so far.
LEMMA RefusalsExpected ==
  ASSUME NEW ops, NEW n \in Nat, n > 0
  PROVE  Cardinality({i \in 1 .. (n + 1) - 1 : ops[i].expect_rejection}) =
            Cardinality({i \in 1 .. n - 1 : ops[i].expect_rejection})
              + IF ops[n].expect_rejection THEN 1 ELSE 0
<1>1. PICK before, after : /\ before = {i \in 1 .. n - 1 : ops[i].expect_rejection}
                           /\ after = {i \in 1 .. (n + 1) - 1 : ops[i].expect_rejection}
  OBVIOUS
<1>2. IsFiniteSet(before) /\ n \notin before /\ Cardinality(before) \in Nat
  <2>1. IsFiniteSet(1 .. n - 1) /\ before \subseteq 1 .. n - 1
    BY <1>1, FS_Interval
  <2> QED BY <1>1, <2>1, FS_Subset, FS_CardinalityType
<1>3. CASE ops[n].expect_rejection
  <2>1. after = before \union {n}
    BY <1>1, <1>3
  <2>2. Cardinality(before \union {n}) = Cardinality(before) + 1
    BY <1>2, FS_AddElement
  <2> QED BY <1>1, <1>3, <2>1, <2>2
<1>4. CASE ~ops[n].expect_rejection
  <2>1. after = before
    BY <1>1, <1>4
  <2>2. (IF ops[n].expect_rejection THEN 1 ELSE 0) = 0
    BY <1>4
  <2>3. Cardinality(after) = Cardinality(before) + 0
    BY <1>2, <2>1
  <2> QED BY <1>1, <2>2, <2>3
<1> QED BY <1>3, <1>4

LEMMA PassedKeeps ==
  ASSUME RunnerInv, position \in DOMAIN scenario.operations, position' = position + 1,
         UNCHANGED <<reference, chart, scenario, result>>, result = None,
         RecordsInv', state' \in LedgerState, events' \in Seq(LedgerEvent), replay(events') = state',
         \/ /\ ~Operation.expect_rejection
            /\ Len(events') = Len(events) + 1 /\ rejections' = rejections
         \/ /\ Operation.expect_rejection
            /\ events' = events /\ Len(rejections') = Len(rejections) + 1
  PROVE  RunnerInv'
<1>1. /\ position \in Nat /\ position > 0 /\ position <= Len(scenario.operations)
      /\ Len(scenario.operations) \in Nat /\ Operation \in ScenarioOperation
  BY OperationType DEF RunnerInv
<1>2. FilesInv'
  BY DEF RunnerInv, FilesInv
<1>3. ProgressInv'
  BY <1>1 DEF RunnerInv, ProgressInv, Deliverable
<1>4. LedgerInv'
  <2>1. PICK n \in Nat : n = position /\ n > 0
    BY <1>1
  <2>2. PICK ops : ops = scenario.operations
    OBVIOUS
  <2>3. PICK before, after : /\ before = Cardinality({i \in 1 .. n - 1 : ops[i].expect_rejection})
                             /\ after = Cardinality({i \in 1 .. (n + 1) - 1 : ops[i].expect_rejection})
    OBVIOUS
  <2>4. after = before + IF ops[n].expect_rejection THEN 1 ELSE 0
    BY <2>1, <2>3, RefusalsExpected
  <2>5. Len(events) + Len(rejections) = n - 1 /\ Len(rejections) = before
        /\ Len(rejections) \in Nat /\ Len(events) \in Nat
    BY <2>1, <2>2, <2>3 DEF RunnerInv, LedgerInv
  <2>6. Operation = ops[n] /\ position' = n + 1 /\ scenario' = scenario
    BY <2>1, <2>2 DEF Operation
  <2>7. Len(events') + Len(rejections') = n /\ Len(rejections') = after /\ Len(rejections') \in Nat
    BY <2>4, <2>5, <2>6
  <2> QED BY <2>1, <2>2, <2>3, <2>6, <2>7 DEF LedgerInv
<1>5. ResultInv'
  BY DEF ResultInv
<1> QED BY <1>2, <1>3, <1>4, <1>5 DEF RunnerInv

LEMMA AcceptKeeps ==
  ASSUME RunnerInv, Accept
  PROVE  RunnerInv'
<1>1. /\ position \in DOMAIN scenario.operations /\ position' = position + 1 /\ result = None
      /\ UNCHANGED <<reference, chart, scenario, rejections, result>>
      /\ ~Operation.expect_rejection
  BY DEF Accept, Executable, Executing
<1>2. FilesInv /\ ProgressInv /\ LedgerInv /\ RecordsInv
  BY DEF RunnerInv
<1>3. /\ state' \in LedgerState /\ events' \in Seq(LedgerEvent)
      /\ Len(events') = Len(events) + 1 /\ replay(events') = state'
  BY <1>2, AcceptedEvent
<1>4. position \in Nat
  BY <1>1, <1>2, OperationType
<1>5. RecordsInv'
  <2>1. CASE FilesNothing
    BY <1>1, <1>2, <1>4, <2>1, RecordsKept
  <2>2. CASE \E r : Files(r)
    BY <1>1, <1>2, <1>3, <1>4, <2>2, RecordsFile
  <2> QED BY <1>2, <2>1, <2>2, Accepted
<1> QED BY <1>1, <1>3, <1>5, PassedKeeps

LEMMA RejectKeeps ==
  ASSUME RunnerInv, Reject
  PROVE  RunnerInv'
<1>1. /\ position \in DOMAIN scenario.operations /\ position' = position + 1 /\ result = None
      /\ UNCHANGED <<reference, chart, scenario, state, events, entries, result>>
      /\ Operation.expect_rejection
      /\ rejections' = Append(rejections, CommandError(state, Command(Operation)))
  BY DEF Reject, Executable, Executing
<1>2. FilesInv /\ LedgerInv /\ RecordsInv /\ FilesNothing
  BY <1>1 DEF RunnerInv, FilesNothing
<1>3. position \in Nat
  BY <1>1, <1>2, OperationType
<1>4. RecordsInv'
  BY <1>1, <1>2, <1>3, RecordsKept
<1>5. Len(rejections') = Len(rejections) + 1
  BY <1>1, <1>2 DEF LedgerInv
<1> QED BY <1>1, <1>2, <1>4, <1>5, PassedKeeps DEF LedgerInv

LEMMA NothingKeeps ==
  ASSUME RunnerInv, UNCHANGED runnerVars
  PROVE  RunnerInv'
<1>1. /\ UNCHANGED <<reference, chart, scenario, position, state, events, entries, rejections>>
      /\ result' = result
  BY DEF runnerVars
<1>2. Deliverable' <=> Deliverable
  BY <1>1 DEF Deliverable
<1>3. Operation' = Operation
  BY <1>1 DEF Operation
<1>4. (Fault(Operation))' = Fault(Operation)
  BY <1>1 DEF Fault, journal_lines, LineFault, JournalLineOf, resolve, Find, Operation
<1>5. (Command(Operation))' = Command(Operation)
  BY <1>1 DEF Command, journal_lines, LineFault, JournalLineOf, resolve, Find, Operation
<1>6. ResultInv
  BY DEF RunnerInv
<1>7. ResultInv'
  BY <1>1, <1>2, <1>3, <1>4, <1>5, <1>6 DEF ResultInv
<1> QED BY <1>1, <1>7, AnswerKeeps

\* Every step keeps the invariant.
LEMMA RunnerStep ==
  ASSUME RunnerInv, [RunnerNext]_runnerVars
  PROVE  RunnerInv'
<1>1. CASE RunnerNext
  BY <1>1, LoadKeeps, AnsweredKeeps, StartKeeps, AcceptKeeps, RejectKeeps, NothingKeeps
     DEF RunnerNext, Ended
<1>2. CASE UNCHANGED runnerVars
  BY <1>2, NothingKeeps
<1> QED BY <1>1, <1>2

LEMMA RunnerInvariant == RunnerSpec => []RunnerInv
BY RunnerStarts, RunnerStep, PTL DEF RunnerSpec

-----------------------------------------------------------------------------
(* What the runner keeps beside the ledger. *)

\* The runner's records are the ledger's entries, line for line, and no reversal
\* is of a reversal, for any corpus and any number of operations (record_entry).
THEOREM RecordsMatch == RunnerSpec => []RecordsAreTheLedgersEntries
<1>1. RunnerInv => RecordsAreTheLedgersEntries
  <2> SUFFICES ASSUME RunnerInv PROVE RecordsAreTheLedgersEntries
    OBVIOUS
  <2>1. /\ RecordsInv /\ entries \in Seq(RunnerRecord)
        /\ DOMAIN entries = 1..Len(entries) /\ Len(entries) \in Nat
    BY DEF RunnerInv, RecordsInv
  <2>2. ASSUME NEW i \in DOMAIN entries, NEW j \in DOMAIN entries,
               entries[i].reversal_of = entries[j].entry_id
        PROVE  entries[j].reversal_of = None
    <3>1. entries[j] \in RunnerRecord
      BY <2>1
    <3>2. entries[i].reversal_of # None
      BY <2>2, <3>1, CorpusAssumption DEF RunnerRecord
    <3>3. RecordInv(i)
      BY <2>1 DEF RecordsInv
    <3>4. PICK k \in 1 .. i - 1 : Reversed(i, k)
      BY <3>2, <3>3 DEF RecordInv
    <3>5. k \in DOMAIN entries /\ entries[k].entry_id = entries[j].entry_id
      BY <2>1, <2>2, <3>4 DEF Reversed
    <3>6. k = j
      BY <2>1, <3>5 DEF RecordsInv
    <3> QED BY <3>4, <3>6 DEF Reversed
  <2>3. \A i \in DOMAIN entries : state.entries[entries[i].entry_id] = entries[i].lines
    BY <2>1 DEF RecordsInv, RecordInv
  <2> QED BY <2>1, <2>2, <2>3 DEF RecordsAreTheLedgersEntries, RecordsInv
<1> QED BY <1>1, RunnerInvariant, PTL

\* The log replays to the live ledger, and each operation passed left one event or
\* one expected error (execute).
THEOREM RefusalsAreClean == RunnerSpec => []RefusalsLeaveNoTrace
<1>1. RunnerInv => RefusalsLeaveNoTrace
  BY DEF RunnerInv, LedgerInv, RefusalsLeaveNoTrace, assert_replay_stable
<1> QED BY <1>1, RunnerInvariant, PTL

-----------------------------------------------------------------------------
(* What validate promises of a run. *)

\* The phases of the catalog.
LEMMA PhasesAre ==
  ASSUME NEW kind
  PROVE  /\ DOMAIN OPERATIONS = 2..15 /\ spec(kind) \subseteq 2..15
         /\ OPERATIONS[2] = {"post_entry", "reverse_entry", "set_capitalization"}
         /\ 2 \in spec(kind) =>
               kind \in {"post_entry", "reverse_entry", "set_capitalization"} /\ spec(kind) = {2}
<1>1. DOMAIN OPERATIONS = 2..15
  BY DEF OPERATIONS, P02
<1>2. \A p \in 2..15 : OPERATIONS[p] =
           LedgerOperations(p) \union CloseOperations(p) \union CurrencyOperations(p)
           \union RevenueOperations(p) \union AssetOperations(p)
           \union PayrollAndGroupOperations(p)
  BY DEF OPERATIONS, P02
<1>3. OPERATIONS[2] = {"post_entry", "reverse_entry", "set_capitalization"}
  BY <1>2 DEF LedgerOperations, CloseOperations, CurrencyOperations, RevenueOperations,
              AssetOperations, PayrollAndGroupOperations
<1>4. \A p \in 3..15 : \A k \in {"post_entry", "reverse_entry", "set_capitalization"} :
         /\ k \notin LedgerOperations(p)  /\ k \notin CloseOperations(p)
         /\ k \notin CurrencyOperations(p) /\ k \notin RevenueOperations(p)
         /\ k \notin AssetOperations(p) /\ k \notin PayrollAndGroupOperations(p)
  <2> SUFFICES ASSUME NEW p \in 3..15, NEW k \in {"post_entry", "reverse_entry", "set_capitalization"}
               PROVE  /\ k \notin LedgerOperations(p)  /\ k \notin CloseOperations(p)
                      /\ k \notin CurrencyOperations(p) /\ k \notin RevenueOperations(p)
                      /\ k \notin AssetOperations(p) /\ k \notin PayrollAndGroupOperations(p)
    OBVIOUS
  <2>1. k \notin LedgerOperations(p) /\ k \notin CloseOperations(p)
    BY DEF LedgerOperations, CloseOperations
  <2>2. k \notin CurrencyOperations(p) /\ k \notin RevenueOperations(p)
    BY DEF CurrencyOperations, RevenueOperations
  <2>3. k \notin AssetOperations(p) /\ k \notin PayrollAndGroupOperations(p)
    BY DEF AssetOperations, PayrollAndGroupOperations
  <2> QED BY <2>1, <2>2, <2>3
<1>5. ASSUME NEW p \in 3..15, NEW k \in {"post_entry", "reverse_entry", "set_capitalization"}
      PROVE  k \notin OPERATIONS[p]
  BY <1>2, <1>4
<1>6. spec(kind) = {p \in 2..15 : kind \in OPERATIONS[p]}
  BY <1>1 DEF spec
<1>7. ASSUME 2 \in spec(kind)
      PROVE  kind \in {"post_entry", "reverse_entry", "set_capitalization"} /\ spec(kind) = {2}
  <2>1. kind \in OPERATIONS[2]
    BY <1>6, <1>7
  <2>2. \A p \in 2..15 : kind \in OPERATIONS[p] <=> p = 2
    BY <1>3, <1>5, <2>1
  <2> QED BY <1>3, <1>6, <2>1, <2>2
<1> QED BY <1>1, <1>3, <1>6, <1>7

\* The phase a scenario requires is the highest of its operations'.
LEMMA PhaseRequired ==
  ASSUME NEW s
  PROVE  /\ required_phase(s) \in {2} \union UNION {spec(kind) : kind \in Kinds(s)}
         /\ required_phase(s) \in Nat
         /\ \A kind \in Kinds(s) : \A p \in spec(kind) : p <= required_phase(s)
<1>1. PICK S : S = {P02} \union UNION {spec(kind) : kind \in Kinds(s)}
  OBVIOUS
<1>2. S \in SUBSET (1..15) /\ S # {}
  BY <1>1, PhasesAre DEF P02
<1>3. PICK m : m = Max(S)
  OBVIOUS
<1>4. m \in S /\ \A y \in S : m >= y
  BY <1>2, <1>3, BoundsExist
<1>5. required_phase(s) = m
  BY <1>1, <1>3 DEF required_phase
<1>6. m \in Nat /\ \A y \in S : y <= m
  BY <1>2, <1>4
<1> QED BY <1>1, <1>4, <1>5, <1>6 DEF P02

\* A run is deliverable exactly when no phase its operations need is beyond the one
\* delivered, if validate knows all of their kinds.
LEMMA DeliverableIs ==
  ASSUME NEW s, \A kind \in Kinds(s) : spec(kind) # {}
  PROVE  /\ (\A kind \in Kinds(s) : ~Undeliverable(kind)) <=> is_delivered(required_phase(s))
         /\ \A kind \in Kinds(s) : ~Undeliverable(kind) =>
               kind \in {"post_entry", "reverse_entry", "set_capitalization"}
<1>1. PICK r \in Nat : /\ r = required_phase(s)
                       /\ r \in {2} \union UNION {spec(kind) : kind \in Kinds(s)}
                       /\ \A kind \in Kinds(s) : \A p \in spec(kind) : p <= r
  BY PhaseRequired
<1>2. \A kind : spec(kind) \subseteq 2..15
  BY PhasesAre
<1>3. is_delivered(r) <=> r <= 2
  BY DEF is_delivered, DELIVERED_THROUGH, P02
<1>4. ASSUME NEW kind \in Kinds(s) PROVE ~Undeliverable(kind) <=> spec(kind) = {2}
  <2>1. PICK phases \in SUBSET (2..15) : phases = spec(kind) /\ phases # {}
    BY <1>2
  <2>2. ~Undeliverable(kind) <=> \E p \in phases : p <= 2
    BY <2>1 DEF Undeliverable, is_delivered, DELIVERED_THROUGH, P02
  <2>3. (\E p \in phases : p <= 2) <=> 2 \in phases
    BY <2>1
  <2>4. 2 \in phases <=> phases = {2}
    BY <2>1, PhasesAre
  <2> QED BY <2>1, <2>2, <2>3, <2>4
<1>5. ASSUME \A kind \in Kinds(s) : spec(kind) = {2} PROVE r <= 2
  <2>1. CASE r = 2
    BY <2>1
  <2>2. CASE r # 2
    <3>1. PICK kind \in Kinds(s) : r \in spec(kind)
      BY <1>1, <2>2
    <3> QED BY <1>5, <3>1
  <2> QED BY <2>1, <2>2
<1>6. ASSUME r <= 2, NEW kind \in Kinds(s) PROVE spec(kind) = {2}
  <2>1. PICK phases \in SUBSET (2..15) : phases = spec(kind) /\ phases # {}
    BY <1>2
  <2>2. PICK p \in phases : p <= r
    BY <1>1, <2>1
  <2>3. p = 2
    BY <1>6, <2>1, <2>2
  <2> QED BY <2>1, <2>2, <2>3, PhasesAre
<1>7. \A kind \in Kinds(s) : spec(kind) = {2} =>
         kind \in {"post_entry", "reverse_entry", "set_capitalization"}
  BY PhasesAre
<1> QED BY <1>1, <1>3, <1>4, <1>5, <1>6, <1>7

\* What a scenario without a defect says.
LEMMA ValidIs ==
  ASSUME Valid
  PROVE  /\ chart # None
         /\ StatusDefects(scenario) = {} /\ SetupDefects(scenario) = {}
         /\ OperationDefects(scenario) = {} /\ LineDefects(scenario) = {}
         /\ BalanceDefects(scenario) = {}
  BY DEF Valid, Defects

LEMMA ValidOperations ==
  ASSUME Valid
  PROVE  /\ \A kind \in Kinds(scenario) : spec(kind) # {}
         /\ scenario.status # "Blocked" => scenario.phase = required_phase(scenario)
         /\ \A i \in DOMAIN scenario.operations :
               LET op == scenario.operations[i]
               IN  op.kind = "post_entry" =>
                      /\ op.lines # None
                      /\ ~op.expect_rejection => \A n \in DOMAIN op.lines : OneSided(op.lines[n])
                      /\ \A n \in DOMAIN op.lines : resolve(op.lines[n].account) # None
<1>1. /\ OperationDefects(scenario) = {} /\ LineDefects(scenario) = {}
      /\ BalanceDefects(scenario) = {}
  BY ValidIs
<1>2. ASSUME NEW kind \in Kinds(scenario) PROVE spec(kind) # {}
  <2> SUFFICES ASSUME spec(kind) = {} PROVE FALSE
    OBVIOUS
  <2>1. "unknown_kind" \in OperationDefects(scenario)
    BY DEF OperationDefects
  <2> QED BY <1>1, <2>1
<1>3. ASSUME scenario.status # "Blocked" PROVE scenario.phase = required_phase(scenario)
  <2> SUFFICES ASSUME scenario.phase # required_phase(scenario) PROVE FALSE
    OBVIOUS
  <2>1. "phase" \in OperationDefects(scenario)
    BY <1>3 DEF OperationDefects
  <2> QED BY <1>1, <2>1
<1>4. ASSUME NEW i \in DOMAIN scenario.operations, scenario.operations[i].kind = "post_entry"
      PROVE  /\ scenario.operations[i].lines # None
             /\ ~scenario.operations[i].expect_rejection =>
                   \A n \in DOMAIN scenario.operations[i].lines : OneSided(scenario.operations[i].lines[n])
             /\ \A n \in DOMAIN scenario.operations[i].lines :
                   resolve(scenario.operations[i].lines[n].account) # None
  <2>1. PICK op : op = scenario.operations[i]
    OBVIOUS
  <2>2. i \in PostEntries(scenario)
    BY <1>4 DEF PostEntries
  <2>3. op.lines # None
    <3> SUFFICES ASSUME op.lines = None PROVE FALSE
      OBVIOUS
    <3>1. "lines" \in LineDefects(scenario)
      BY <2>1, <2>2 DEF LineDefects
    <3> QED BY <1>1, <3>1
  <2>4. ASSUME ~op.expect_rejection, NEW n \in DOMAIN op.lines PROVE OneSided(op.lines[n])
    <3> SUFFICES ASSUME ~OneSided(op.lines[n]) PROVE FALSE
      OBVIOUS
    <3>1. "malformed_line" \in LineDefects(scenario)
      BY <2>1, <2>2, <2>3, <2>4 DEF LineDefects
    <3> QED BY <1>1, <3>1
  <2>5. ASSUME NEW n \in DOMAIN op.lines PROVE resolve(op.lines[n].account) # None
    <3> SUFFICES ASSUME resolve(op.lines[n].account) = None PROVE FALSE
      OBVIOUS
    <3>1. op.lines[n].account \in Referenced(scenario)
      BY <2>1, <2>2, <2>3 DEF Referenced
    <3>2. "account" \in BalanceDefects(scenario)
      BY <3>1 DEF BalanceDefects
    <3> QED BY <1>1, <3>2
  <2> QED BY <2>1, <2>3, <2>4, <2>5
<1> QED BY <1>2, <1>3, <1>4

\* The reasons why no command can be made of an operation.
LEMMA FaultType ==
  ASSUME FilesInv, chart # None, scenario.functional_ccy # Malformed,
         NEW op \in ScenarioOperation
  PROVE  Fault(op) \in {None, "Param", "UnknownAccount", "BadOperation", "NoHandler"}
<1>1. CASE op.kind = "post_entry"
  <2>1. CASE op.lines = None
    BY <1>1, <2>1 DEF Fault
  <2>2. CASE op.lines # None
    <3>1. Fault(op) = journal_lines(op).fault
      BY <1>1, <2>2 DEF Fault
    <3>2. \A n \in DOMAIN op.lines : LineFault(op.lines[n]) \in {None, "UnknownAccount", "BadOperation"}
      BY DEF LineFault
    <3> QED BY <2>2, <3>1, <3>2, JournalLinesAre
  <2> QED BY <2>1, <2>2
<1>2. CASE op.kind = "reverse_entry"
  BY <1>2 DEF Fault
<1>3. CASE op.kind = "set_capitalization"
  BY <1>3 DEF Fault
<1>4. CASE op.kind \notin {"post_entry", "reverse_entry", "set_capitalization"}
  BY <1>4 DEF Fault
<1> QED BY <1>1, <1>2, <1>3, <1>4

\* The operation a run stopped at, in a scenario without a defect.
LEMMA ValidOperation ==
  ASSUME Valid, RunnerInv, position \in DOMAIN scenario.operations
  PROVE  /\ Operation.kind \in {"post_entry", "reverse_entry", "set_capitalization"}
         /\ Fault(Operation) \notin {"UnknownAccount", "NoHandler"}
         /\ Operation.kind = "post_entry" => Fault(Operation) # "Param"
<1>1. PICK op \in ScenarioOperation : op = Operation
  BY ReadyToRun DEF RunnerInv
<1>2. Deliverable /\ chart # None /\ scenario.functional_ccy # Malformed
  BY ReadyToRun DEF RunnerInv
<1>3. op.kind \in Kinds(scenario)
  BY <1>1 DEF Kinds, Operation
<1>4. op.kind \in {"post_entry", "reverse_entry", "set_capitalization"}
  BY <1>2, <1>3, DeliverableIs, ValidOperations DEF Deliverable
<1>5. CASE op.kind = "post_entry"
  <2>1. op.lines # None /\ \A n \in DOMAIN op.lines : resolve(op.lines[n].account) # None
    BY <1>1, <1>5, ValidOperations DEF Operation
  <2>2. Fault(op) = journal_lines(op).fault
    BY <1>5, <2>1 DEF Fault
  <2>3. \A n \in DOMAIN op.lines : LineFault(op.lines[n]) \in {None, "BadOperation"}
    BY <2>1 DEF LineFault
  <2>4. Fault(op) \in {None, "BadOperation"}
    BY <1>2, <2>1, <2>2, <2>3, JournalLinesAre DEF RunnerInv
  <2>5. None \notin {"UnknownAccount", "NoHandler", "Param"}
    BY CorpusAssumption DEF RunErrors
  <2> QED BY <1>1, <1>4, <2>4, <2>5
<1>6. CASE op.kind = "reverse_entry"
  <2>1. Fault(op) \in {None, "Param", "BadOperation"}
    BY <1>6 DEF Fault
  <2>2. None \notin {"UnknownAccount", "NoHandler"}
    BY CorpusAssumption DEF RunErrors
  <2> QED BY <1>1, <1>6, <2>1, <2>2
<1>7. CASE op.kind = "set_capitalization"
  <2>1. Fault(op) \in {None, "Param", "BadOperation"}
    BY <1>7 DEF Fault
  <2>2. None \notin {"UnknownAccount", "NoHandler"}
    BY CorpusAssumption DEF RunErrors
  <2> QED BY <1>1, <1>7, <2>1, <2>2
<1> QED BY <1>4, <1>5, <1>6, <1>7

\* Two answers to whether a scenario is executed agree, and what is executed has a
\* handler (is_executable and run; the catalog and execute).
THEOREM ExecutableIsExecuted == RunnerSpec => []ExecutableMeansExecuted
<1>1. RunnerInv => ExecutableMeansExecuted
  <2> SUFFICES ASSUME RunnerInv, Valid, result # None
               PROVE  /\ is_executable(scenario) <=> result.outcome \notin {"Blocked", "Deferred"}
                      /\ result.outcome # "NoHandler"
    BY DEF ExecutableMeansExecuted
  <2>1. Deliverable <=> is_executable(scenario)
    BY DeliverableIs, ValidOperations DEF Deliverable, is_executable
  <2>2. chart # None
    BY ValidIs
  <2>3. position \in Nat /\ Len(scenario.operations) \in Nat
    <3>1. scenario.operations \in Seq(ScenarioOperation)
      BY DEF RunnerInv, FilesInv, IsScenario
    <3> QED BY <3>1 DEF RunnerInv, ProgressInv
  <2>4. position > 0 => Deliverable
    BY DEF RunnerInv, ProgressInv
  <2>5. position \in DOMAIN scenario.operations =>
           Deliverable /\ Fault(Operation) \in {None, "Param", "UnknownAccount", "BadOperation"}
    <3> SUFFICES ASSUME position \in DOMAIN scenario.operations
                 PROVE  /\ Deliverable
                        /\ Fault(Operation) \in {None, "Param", "UnknownAccount", "BadOperation"}
      OBVIOUS
    <3>1. Deliverable
      BY ReadyToRun DEF RunnerInv
    <3>2. Fault(Operation) \in {None, "Param", "UnknownAccount", "BadOperation", "NoHandler"}
      BY FaultType, ReadyToRun DEF RunnerInv
    <3> QED BY <3>1, <3>2, ValidOperation
  <2>6. Deliverable => scenario.status # "Blocked" /\ ~\E kind \in Kinds(scenario) : Undeliverable(kind)
    BY DEF Deliverable
  <2>7. CASE result.outcome = "Blocked" /\ scenario.status = "Blocked"
    BY <2>1, <2>6, <2>7
  <2>8. CASE result.outcome = "Deferred" /\ \E kind \in Kinds(scenario) : Undeliverable(kind)
    BY <2>1, <2>6, <2>8
  <2>9. CASE result.outcome = "BadOperation" /\ Deliverable
    BY <2>1, <2>9
  <2>10. CASE position \in DOMAIN scenario.operations
              /\ \/ result.outcome = Fault(Operation) /\ Fault(Operation) # None
                 \/ result.outcome = "ExpectedRejection"
                 \/ result.outcome = "Rejected"
    BY <2>1, <2>5, <2>10
  <2>11. CASE result.outcome = "Executed" /\ position = Len(scenario.operations) + 1
    BY <2>1, <2>3, <2>4, <2>11
  <2> QED BY <2>2, <2>7, <2>8, <2>9, <2>10, <2>11 DEF RunnerInv, ResultInv
<1> QED BY <1>1, RunnerInvariant, PTL

\* Lines that carry one side each are refused for their currencies or their sums only.
LEMMA OneSidedRefusal ==
  ASSUME NEW lines \in Seq(JournalLine), \A n \in DOMAIN lines : OneSided(lines[n])
  PROVE  PostError(lines) \in {None, "EmptyEntry", "Currency", "Unbalanced"}
<1>1. CASE lines = <<>>
  BY <1>1 DEF PostError
<1>2. CASE lines # <<>>
  <2>1. PICK N \in Nat : N = Len(lines) /\ DOMAIN lines = 1..N
    OBVIOUS
  <2>2. PICK currency, bad :
           /\ currency = IF OneSided(lines[1]) THEN validate(lines[1]).currency ELSE None
           /\ bad = {i \in DOMAIN lines : LineError(lines[i], currency) # None}
    OBVIOUS
  <2>3. CASE bad = {}
    <3>1. PostError(lines) = IF SideTotal(lines, TRUE) = SideTotal(lines, FALSE)
                             THEN None ELSE "Unbalanced"
      BY <1>2, <2>2, <2>3 DEF PostError
    <3> QED BY <3>1
  <2>4. CASE bad # {}
    <3>1. PICK m : m = Min(bad)
      OBVIOUS
    <3>2. m \in bad
      BY <2>1, <2>2, <2>4, <3>1, BoundsExist
    <3>3. PostError(lines) = LineError(lines[m], currency)
      BY <1>2, <2>2, <2>4, <3>1 DEF PostError
    <3>4. OneSided(lines[m])
      BY <2>2, <3>2
    <3>5. LineError(lines[m], currency) \in {None, "Currency"}
      BY <3>4 DEF LineError, OneSided
    <3> QED BY <3>3, <3>5
  <2> QED BY <2>3, <2>4
<1> QED BY <1>1, <1>2

\* What the ledger answers to an operation of a scenario without a defect that is
\* not meant to be refused.
LEMMA ValidRefusal ==
  ASSUME Valid, RunnerInv, position \in DOMAIN scenario.operations,
         Fault(Operation) = None, ~Operation.expect_rejection
  PROVE  CommandError(state, Command(Operation)) \notin {"LineHasBothSides", "LineHasNoAmount"}
<1>1. PICK op \in ScenarioOperation : op = Operation
  BY ReadyToRun DEF RunnerInv
<1>2. chart # None /\ scenario.functional_ccy # Malformed /\ FilesInv /\ ProgressInv /\ RecordsInv
  BY ReadyToRun DEF RunnerInv
<1>3. None \notin {"LineHasBothSides", "LineHasNoAmount"}
  BY NoneAssumption DEF LedgerError
<1>4. PICK command : command = Command(op)
  OBVIOUS
<1>5. CASE op.kind = "post_entry"
  <2>1. op.lines # None /\ journal_lines(op).fault = None
    BY <1>1, <1>5, FaultIs
  <2>2. PICK lines \in Seq(JournalLine) : lines = journal_lines(op).lines
    BY <1>2, <2>1, JournalLinesAre
  <2>3. ASSUME NEW n \in DOMAIN lines PROVE OneSided(lines[n])
    <3>1. /\ n \in DOMAIN op.lines /\ LineFault(op.lines[n]) = None
          /\ lines[n] = JournalLineOf(op.lines[n])
      BY <1>2, <2>1, <2>2, <2>3, JournalLinesAre
    <3>2. op.lines[n] \in ScenarioLine
      <4>1. op.lines \in Seq(ScenarioLine)
        BY <2>1 DEF ScenarioOperation
      <4> QED BY <3>1, <4>1
    <3>3. OneSided(op.lines[n])
      BY <1>1, <1>5, <3>1, ValidOperations DEF Operation
    <3>4. /\ JournalLineOf(op.lines[n]).debit = None <=> op.lines[n].debit = None
          /\ JournalLineOf(op.lines[n]).credit = None <=> op.lines[n].credit = None
      BY <1>2, <3>1, <3>2, JournalLineIs
    <3> QED BY <3>1, <3>3, <3>4 DEF OneSided
  <2>4. command = [kind |-> "PostJournalEntry", lines |-> lines]
    BY <1>4, <1>5, <2>2 DEF Command
  <2>5. CommandError(state, command) = PostError(lines)
    BY <2>4 DEF CommandError
  <2>6. PostError(lines) \in {None, "EmptyEntry", "Currency", "Unbalanced"}
    BY <2>3, OneSidedRefusal
  <2> QED BY <1>1, <1>3, <1>4, <2>5, <2>6
<1>6. CASE op.kind = "reverse_entry"
  <2>1. command.kind = "ReverseEntry"
    BY <1>4, <1>6 DEF Command
  <2>2. CommandError(state, command) \in {None, "UnknownEntry", "AlreadyReversed"}
    BY <2>1 DEF CommandError
  <2> QED BY <1>1, <1>3, <1>4, <2>2
<1>7. CASE op.kind = "set_capitalization"
  <2>1. command.kind = "ChangeCapitalizationStatus"
    BY <1>4, <1>7 DEF Command
  <2>2. CommandError(state, command) \in {None, "CapitalizationUnchanged"}
    BY <2>1 DEF CommandError
  <2> QED BY <1>1, <1>3, <1>4, <2>2
<1> QED BY <1>1, <1>5, <1>6, <1>7, FaultIs

\* A scenario without a defect does not fail by a slip that validate looks for
\* (Scenario::validate and run, for any corpus).
THEOREM ValidatedFailOnPurpose == RunnerSpec => []ValidatedRunsFailOnPurpose
<1>1. RunnerInv => ValidatedRunsFailOnPurpose
  <2> SUFFICES ASSUME RunnerInv, Valid, result # None PROVE ValidatedRunsFailOnPurpose
    BY DEF ValidatedRunsFailOnPurpose
  <2>1. CASE result.outcome = "Deferred" /\ chart # None /\ scenario.status # "Blocked"
             /\ (\E kind \in Kinds(scenario) : Undeliverable(kind))
             /\ result.cause = required_phase(scenario)
    <3>1. ~is_delivered(result.cause)
      BY <2>1, DeliverableIs, ValidOperations
    <3>2. result.cause = scenario.phase
      BY <2>1, ValidOperations
    <3> QED BY <2>1, <3>1, <3>2 DEF ValidatedRunsFailOnPurpose
  <2>2. CASE result.outcome \in {"ChartError", "Blocked", "BadOperation", "ExpectedRejection",
                                 "Executed"}
    BY <2>2 DEF ValidatedRunsFailOnPurpose
  <2>3. CASE position \in DOMAIN scenario.operations
             /\ result.outcome = Fault(Operation) /\ Fault(Operation) # None
    <3>1. Fault(Operation) \in {None, "Param", "UnknownAccount", "BadOperation", "NoHandler"}
      BY <2>3, FaultType, ReadyToRun DEF RunnerInv
    <3>2. /\ Fault(Operation) \notin {"UnknownAccount", "NoHandler"}
          /\ Operation.kind = "post_entry" => Fault(Operation) # "Param"
      BY <2>3, ValidOperation
    <3>3. result.outcome \in {"Param", "BadOperation"}
      BY <2>3, <3>1, <3>2
    <3> QED BY <2>3, <3>2, <3>3 DEF ValidatedRunsFailOnPurpose
  <2>4. CASE position \in DOMAIN scenario.operations
             /\ result.outcome = "Rejected" /\ Fault(Operation) = None
             /\ ~Operation.expect_rejection
             /\ result.cause = CommandError(state, Command(Operation))
    <3>1. result.cause \notin {"LineHasBothSides", "LineHasNoAmount"}
      BY <2>4, ValidRefusal
    <3> QED BY <2>4, <3>1 DEF ValidatedRunsFailOnPurpose
  <2> QED BY <2>1, <2>2, <2>3, <2>4 DEF RunnerInv, ResultInv
<1> QED BY <1>1, RunnerInvariant, PTL

-----------------------------------------------------------------------------
(* What the corpus reads off the entries. *)

\* The lines of the record at i: one amount each, all in one currency.
LEMMA RecordLines ==
  ASSUME RecordsInv, NEW i \in DOMAIN entries
  PROVE  /\ entries[i] \in RunnerRecord /\ entries[i].lines \in Seq(JournalLine)
         /\ entries[i].lines # <<>> /\ Balanced(entries[i].lines)
         /\ \A n \in DOMAIN entries[i].lines :
               /\ OneSided(entries[i].lines[n]) /\ signed_amount(entries[i].lines[n]) \in Money
               /\ signed_amount(entries[i].lines[n]) # None
               /\ signed_amount(entries[i].lines[n]).currency = CurrencyOf(entries[i])
               /\ Known(entries[i].lines[n].account) /\ entries[i].lines[n].account \in Accounts
<1>1. entries[i] \in RunnerRecord /\ RecordInv(i)
  BY DEF RecordsInv
<1>2. PICK lines \in Seq(JournalLine) : lines = entries[i].lines
  BY <1>1 DEF RunnerRecord
<1>3. PICK N \in Nat : N = Len(lines) /\ DOMAIN lines = 1..N
  OBVIOUS
<1>4. lines # <<>> /\ Balanced(lines) /\ \A n \in DOMAIN lines : Known(lines[n].account)
  BY <1>1, <1>2 DEF RecordInv
<1>5. PICK c : \A n \in 1..N : OneSided(lines[n]) /\ validate(lines[n]).currency = c
  BY <1>3, <1>4 DEF Balanced
<1>6. ASSUME NEW n \in 1..N
      PROVE  /\ OneSided(lines[n]) /\ signed_amount(lines[n]) \in Money
             /\ signed_amount(lines[n]) # None /\ signed_amount(lines[n]).currency = c
             /\ lines[n].account \in Accounts
  <2>1. lines[n] \in JournalLine /\ OneSided(lines[n]) /\ validate(lines[n]).currency = c
    BY <1>3, <1>5
  <2>2. signed_amount(lines[n]) \in Money /\ signed_amount(lines[n]).currency = c
    BY <2>1, SignedAmountType
  <2> QED BY <2>1, <2>2, NoneAssumption DEF JournalLine
<1>7. 1 \in 1..N
  BY <1>3, <1>4
<1>8. CurrencyOf(entries[i]) = c
  BY <1>2, <1>6, <1>7 DEF CurrencyOf
<1> QED BY <1>1, <1>2, <1>3, <1>4, <1>6, <1>8

\* The lines of the entries, by entry.
EntryLines == [i \in 1..Len(entries) |-> entries[i].lines]

LEMMA EntryPlaces ==
  ASSUME RecordsInv
  PROVE  /\ Len(entries) \in Nat /\ DOMAIN entries = 1..Len(entries)
         /\ \A i \in 1..Len(entries) : EntryLines[i] \in Seq(JournalLine)
         /\ Places(entries) = PlacesOf(EntryLines, Len(entries))
         /\ IsFiniteSet(Places(entries))
         /\ \A p \in Places(entries) :
               /\ p = <<p[1], p[2]>> /\ p[1] \in DOMAIN entries /\ p[2] \in DOMAIN entries[p[1]].lines
               /\ LineAt(entries, p) \in JournalLine /\ OneSided(LineAt(entries, p))
               /\ signed_amount(LineAt(entries, p)) \in Money
               /\ signed_amount(LineAt(entries, p)) # None
               /\ signed_amount(LineAt(entries, p)).currency = CurrencyOf(entries[p[1]])
<1>1. Len(entries) \in Nat /\ DOMAIN entries = 1..Len(entries)
  BY DEF RecordsInv
<1>2. \A i \in 1..Len(entries) : EntryLines[i] = entries[i].lines /\ EntryLines[i] \in Seq(JournalLine)
  BY <1>1, RecordLines DEF EntryLines
<1>3. Places(entries) = PlacesOf(EntryLines, Len(entries))
  BY <1>1, <1>2 DEF Places, PlacesOf
<1>4. IsFiniteSet(Places(entries))
  <2>1. IsFiniteSet(PlacesOf(EntryLines, Len(entries)))
    BY <1>1, <1>2, PlacesFinite
  <2> QED BY <1>3, <2>1
<1>5. ASSUME NEW p \in Places(entries)
      PROVE  /\ p = <<p[1], p[2]>> /\ p[1] \in DOMAIN entries /\ p[2] \in DOMAIN entries[p[1]].lines
             /\ LineAt(entries, p) \in JournalLine /\ OneSided(LineAt(entries, p))
             /\ signed_amount(LineAt(entries, p)) \in Money
             /\ signed_amount(LineAt(entries, p)) # None
             /\ signed_amount(LineAt(entries, p)).currency = CurrencyOf(entries[p[1]])
  <2>1. p = <<p[1], p[2]>> /\ p[1] \in 1..Len(entries) /\ p[2] \in DOMAIN EntryLines[p[1]]
    BY <1>3, PlacesAre
  <2>2. PICK i, n : i = p[1] /\ n = p[2]
    OBVIOUS
  <2>3. i \in DOMAIN entries /\ n \in DOMAIN entries[i].lines
    BY <1>1, <1>2, <2>1, <2>2
  <2>4. PICK lines \in Seq(JournalLine) : lines = entries[i].lines
    BY <2>3, RecordLines
  <2>5. LineAt(entries, p) = lines[n]
    BY <2>2, <2>4 DEF LineAt
  <2>6. lines[n] \in JournalLine
    BY <2>3, <2>4
  <2> QED BY <2>1, <2>2, <2>3, <2>4, <2>5, <2>6, RecordLines
<1> QED BY <1>1, <1>2, <1>3, <1>4, <1>5

\* What the lines of the entries in I bring, by place.
BroughtBy(I) ==
    [p \in Places(entries) |-> IF p[1] \in I THEN signed_amount(LineAt(entries, p)).amount ELSE 0]

\* Entries taken whole add up to nothing.
LEMMA WholeEntries ==
  ASSUME RecordsInv, NEW I
  PROVE  Valued(BroughtBy(I), Places(entries)) /\ Total(BroughtBy(I), Places(entries)) = 0
<1>1. PICK N, P, v : N = Len(entries) /\ P = Places(entries) /\ v = BroughtBy(I)
  OBVIOUS
<1>2. /\ N \in Nat /\ DOMAIN entries = 1..N /\ IsFiniteSet(P) /\ P = PlacesOf(EntryLines, N)
      /\ \A i \in 1..N : EntryLines[i] \in Seq(JournalLine)
  BY <1>1, EntryPlaces
<1>3. Valued(v, P)
  <2> SUFFICES ASSUME NEW p \in P PROVE v[p] \in Int
    BY DEF Valued
  <2>1. signed_amount(LineAt(entries, p)).amount \in Int
    BY <1>1, EntryPlaces DEF Money
  <2> QED BY <1>1, <2>1 DEF BroughtBy
<1>4. PICK u : u = [i \in 1..N |-> Total(AtPlace(v, i, Len(EntryLines[i])), 1..Len(EntryLines[i]))]
  OBVIOUS
<1>5. Total(v, P) = Total(u, 1..N)
  <2>1. \A i \in 1..N : u[i] = Total(AtPlace(v, i, Len(EntryLines[i])), 1..Len(EntryLines[i]))
    BY <1>4
  <2>2. Valued(v, PlacesOf(EntryLines, N))
    BY <1>2, <1>3
  <2>3. N \in Nat /\ \A i \in 1..N : EntryLines[i] \in Seq(JournalLine)
    BY <1>2
  <2>4. Total(v, PlacesOf(EntryLines, N)) = Total(u, 1..N)
    BY <2>1, <2>2, <2>3, PlacesTotal
  <2> QED BY <1>2, <2>4
<1>6. ASSUME NEW i \in 1..N PROVE u[i] = 0
  <2>1. PICK lines \in Seq(JournalLine) : lines = entries[i].lines /\ lines = EntryLines[i]
    BY <1>1, <1>2 DEF EntryLines
  <2>2. PICK len \in Nat : len = Len(lines) /\ DOMAIN lines = 1..len
    OBVIOUS
  <2>3. PICK x : x = AtPlace(v, i, len)
    OBVIOUS
  <2>4. u[i] = Total(x, 1..len)
    BY <1>4, <2>1, <2>2, <2>3
  <2>5. ASSUME NEW n \in 1..len
        PROVE  x[n] = IF i \in I THEN signed_amount(lines[n]).amount ELSE 0
    <3>1. x[n] = v[<<i, n>>]
      BY <2>3 DEF AtPlace
    <3>2. i \in DOMAIN entries /\ n \in DOMAIN entries[i].lines
      BY <1>2, <2>1, <2>2
    <3>3. <<i, n>> \in {i} \X DOMAIN entries[i].lines
      BY <3>2
    <3>4. <<i, n>> \in Places(entries)
      BY <3>2, <3>3 DEF Places
    <3>5. LineAt(entries, <<i, n>>) = lines[n]
      BY <2>1 DEF LineAt
    <3> QED BY <1>1, <3>1, <3>4, <3>5 DEF BroughtBy
  <2>6. IsFiniteSet(1..len)
    BY FS_Interval
  <2>7. CASE i \in I
    <3>1. \A n \in 1..len : Signed(lines)[n] = x[n]
      BY <2>2, <2>5, <2>7 DEF Signed
    <3>2. Balanced(lines)
      BY <1>2, <2>1, RecordLines
    <3>3. Valued(Signed(lines), 1..len) /\ Total(Signed(lines), 1..len) = 0
      BY <2>2, <3>2, BalancedTotal
    <3>4. Total(Signed(lines), 1..len) = Total(x, 1..len)
      BY <2>6, <3>1, <3>3, TotalAgrees
    <3> QED BY <2>4, <3>3, <3>4
  <2>8. CASE i \notin I
    <3>1. \A n \in 1..len : x[n] = 0
      BY <2>5, <2>8
    <3> QED BY <2>4, <2>6, <3>1, TotalOfZeros
  <2> QED BY <2>7, <2>8
<1>7. Total(u, 1..N) = 0
  <2>1. IsFiniteSet(1..N)
    BY <1>2, FS_Interval
  <2> QED BY <1>6, <2>1, TotalOfZeros
<1> QED BY <1>1, <1>3, <1>5, <1>7

\* What the entries of one entity bring in one currency: each entry all or nothing.
LEMMA ScopeIsZero ==
  ASSUME RecordsInv, NEW entity, NEW currency
  PROVE  Total(ScopedAmounts(entity, currency), DOMAIN ScopedAmounts(entity, currency)) = 0
<1>1. PICK P, scoped, I, v, w :
         /\ P = Places(entries) /\ w = ScopedAmounts(entity, currency)
         /\ scoped = {p \in P : /\ entries[p[1]].entity = entity
                                /\ signed_amount(LineAt(entries, p)).currency = currency}
         /\ I = {i \in DOMAIN entries : /\ entries[i].entity = entity
                                        /\ CurrencyOf(entries[i]) = currency}
         /\ v = BroughtBy(I)
  OBVIOUS
<1>2. w = [p \in scoped |-> signed_amount(LineAt(entries, p)).amount]
  BY <1>1 DEF ScopedAmounts
<1>3. \A p \in P : p \in scoped <=> p[1] \in I
  BY <1>1, EntryPlaces
<1>4. scoped \in SUBSET P /\ (\A p \in P \ scoped : v[p] = 0) /\ \A p \in scoped : w[p] = v[p]
  BY <1>1, <1>2, <1>3 DEF BroughtBy
<1>5. Valued(v, P) /\ Total(v, P) = 0 /\ IsFiniteSet(P)
  BY <1>1, WholeEntries, EntryPlaces
<1>6. Total(w, scoped) = Total(v, P)
  BY <1>4, <1>5, TotalPart
<1> QED BY <1>1, <1>2, <1>5, <1>6

\* One entry, read as the corpus reads it.
LEMMA RecordIsBalanced ==
  ASSUME RecordsInv, NEW i \in DOMAIN entries
  PROVE  assert_balanced(entries[i].lines)
<1>1. PICK lines \in Seq(JournalLine) : lines = entries[i].lines
  BY RecordLines
<1>2. PICK N \in Nat : N = Len(lines) /\ DOMAIN lines = 1..N
  OBVIOUS
<1>3. PICK c : c = CurrencyOf(entries[i])
  OBVIOUS
<1>4. /\ lines # <<>> /\ Balanced(lines)
      /\ \A n \in 1..N : signed_amount(lines[n]) # None /\ signed_amount(lines[n]).currency = c
  BY <1>1, <1>2, <1>3, RecordLines
<1>5. {signed_amount(lines[n]).currency : n \in 1..N} = {c}
  <2>1. 1 \in 1..N
    BY <1>2, <1>4
  <2> QED BY <1>4, <2>1
<1>6. Cardinality({signed_amount(lines[n]).currency : n \in DOMAIN lines}) = 1
  BY <1>2, <1>5, FS_Singleton
<1>7. MapThenSumSet(LAMBDA n : signed_amount(lines[n]).amount, DOMAIN lines) = 0
  <2>1. PICK D : D = DOMAIN lines /\ D \in SUBSET (1..Len(lines)) /\ D = 1..Len(lines)
    BY <1>2
  <2>2. MapThenSumSet(LAMBDA n : signed_amount(lines[n]).amount, D) = Total(Signed(lines), D)
    BY <2>1, SignedSum
  <2>3. Total(Signed(lines), D) = 0
    BY <1>4, <2>1, BalancedTotal
  <2> QED BY <2>1, <2>2, <2>3, Zenon
<1>8. assert_balanced(lines)
  BY <1>2, <1>4, <1>6, <1>7 DEF assert_balanced
<1> QED BY <1>1, <1>8

LEMMA RecordIsIsolated ==
  ASSUME RecordsInv, NEW i \in DOMAIN entries
  PROVE  assert_currency_isolation(entries[i].lines, CurrencyOf(entries[i]))
           <=> ~TouchesRestricted(entries[i])
<1>1. PICK lines, c : lines = entries[i].lines /\ c = CurrencyOf(entries[i])
  OBVIOUS
<1>2. ASSUME NEW n \in DOMAIN lines
      PROVE  /\ signed_amount(lines[n]) # None /\ signed_amount(lines[n]).currency = c
             /\ resolve([code |-> lines[n].account, name |-> None]) = chart.by_code[lines[n].account]
             /\ chart.by_code[lines[n].account] # None
  <2>1. PICK a : a = lines[n].account
    OBVIOUS
  <2>2. /\ signed_amount(lines[n]) # None /\ signed_amount(lines[n]).currency = c
        /\ a \in DOMAIN chart.by_code /\ chart.by_code[a] # None
    BY <1>1, <2>1, RecordLines DEF Known
  <2>3. resolve([code |-> a, name |-> None]) = chart.by_code[a]
    BY <2>2 DEF resolve
  <2> QED BY <2>1, <2>2, <2>3
<1>3. assert_currency_isolation(lines, c) <=>
         \A n \in DOMAIN lines : chart.by_code[lines[n].account].currency \in {None, c}
  BY <1>2 DEF assert_currency_isolation
<1>4. TouchesRestricted(entries[i]) <=>
         \E n \in DOMAIN lines : chart.by_code[lines[n].account].currency \notin {None, c}
  BY <1>1 DEF TouchesRestricted
<1> QED BY <1>1, <1>3, <1>4

\* Balance holds in every scope, entry by entry and for every entity and currency,
\* whatever the ledger let through (assertions.rs, invariants 1, 5 and 6).
THEOREM ScopesBalance == RunnerSpec => []EveryScopeBalances
<1>1. RunnerInv => EveryScopeBalances
  <2> SUFFICES ASSUME RecordsInv PROVE EveryScopeBalances
    BY DEF RunnerInv
  <2>1. PICK balances, scopes : /\ scopes = EntitiesUsed \X Currencies
                                /\ balances = [scope \in scopes |-> ScopedAmounts(scope[1], scope[2])]
    OBVIOUS
  <2>2. ASSUME NEW scope \in scopes
        PROVE  MapThenSumSet(LAMBDA n : balances[scope][n], DOMAIN balances[scope]) = 0
    <3>1. MapThenSumSet(LAMBDA n : balances[scope][n], DOMAIN balances[scope])
             = Total(balances[scope], DOMAIN balances[scope])
      BY FunctionTotal, Zenon
    <3>2. balances[scope] = ScopedAmounts(scope[1], scope[2])
      BY <2>1
    <3>3. Total(balances[scope], DOMAIN balances[scope]) = 0
      BY <3>2, ScopeIsZero
    <3> QED BY <3>1, <3>3, Zenon
  <2>3. DOMAIN balances = scopes
    BY <2>1
  <2>4. assert_trial_balance_zero(balances)
    BY <2>2, <2>3, Zenon DEF assert_trial_balance_zero
  <2>5. assert_trial_balance_zero([scope \in EntitiesUsed \X Currencies |->
                                     ScopedAmounts(scope[1], scope[2])])
    BY <2>1, <2>4, Zenon
  <2> QED BY <2>5, RecordIsBalanced, RecordIsIsolated DEF EveryScopeBalances
<1> QED BY <1>1, RunnerInvariant, PTL

-----------------------------------------------------------------------------
(* The balances are what the recorded entries bring. *)

\* Every currency the accounts may be kept in.
AllBooks == \A home : BooksInv(home)

LEMMA BooksStart ==
  ASSUME entries = <<>>, state = DefaultState
  PROVE  AllBooks
<1> SUFFICES ASSUME NEW home PROVE BooksInv(home)
  BY DEF AllBooks
<1>1. KeptAtHome(home, state.balances)
  BY DEF KeptAtHome, DefaultState
<1>2. ASSUME NEW a \in Accounts PROVE Amount(state.balances)[a] = Total(RecordedOn(a), DOMAIN entries)
  <2>1. DOMAIN entries = {}
    OBVIOUS
  <2>2. Amount(state.balances)[a] = 0
    BY DEF Amount, DefaultState
  <2> QED BY <2>1, <2>2, TotalEmpty
<1> QED BY <1>1, <1>2 DEF BooksInv

LEMMA BooksFile ==
  ASSUME AllBooks, RecordsInv, LedgerInv, NEW r, Files(r)
  PROVE  AllBooks'
<1> SUFFICES ASSUME NEW home, \A i \in DOMAIN entries' : AtHome(home, entries'[i].lines)
             PROVE  /\ KeptAtHome(home, state'.balances)
                    /\ \A a \in Accounts :
                         Amount(state'.balances)[a] = Total(RecordedOn(a)', DOMAIN entries')
  BY DEF AllBooks, BooksInv
<1>1. PICK N \in Nat : N = Len(entries) /\ DOMAIN entries = 1..N
  BY DEF RecordsInv
<1>2. /\ r \in RunnerRecord /\ entries \in Seq(RunnerRecord)
      /\ r.lines \in Seq(JournalLine) /\ Balanced(r.lines)
      /\ state \in LedgerState
  BY DEF Files, RecordsInv, LedgerInv, RunnerRecord
<1>3. PICK longer : longer = entries'
  OBVIOUS
<1>4. /\ DOMAIN longer = 1..(N + 1) /\ longer[N + 1] = r
      /\ \A i \in 1..N : longer[i] = entries[i]
  BY <1>1, <1>2, <1>3 DEF Files
<1>5. PICK b, c : b = state.balances /\ c = state'.balances
  OBVIOUS
<1>6. b \in Balances /\ c = PostLines(b, r.lines)
  BY <1>2, <1>5 DEF Files, LedgerState, Balances
<1>7. AtHome(home, r.lines) /\ \A i \in 1..N : AtHome(home, entries[i].lines)
  <2>1. \A i \in 1..(N + 1) : AtHome(home, longer[i].lines)
    BY <1>3, <1>4
  <2> QED BY <1>4, <2>1
<1>8. KeptAtHome(home, b) /\ \A a \in Accounts : Amount(b)[a] = Total(RecordedOn(a), 1..N)
  <2>1. BooksInv(home)
    BY DEF AllBooks
  <2> QED BY <1>1, <1>5, <1>7, <2>1 DEF BooksInv
<1>9. \A n \in DOMAIN r.lines : OneSided(r.lines[n])
  BY <1>2 DEF Balanced
<1>10. KeptAtHome(home, c)
  BY <1>2, <1>6, <1>7, <1>8, <1>9, PostLinesHome
<1>11. ASSUME NEW a \in Accounts PROVE Amount(c)[a] = Total(RecordedOn(a)', 1..(N + 1))
  <2>1. Amount(c)[a] = Amount(b)[a] + NetOn(r.lines, a)
    BY <1>2, <1>6, <1>7, <1>8, PostLinesOn
  <2>2. PICK v, w : v = RecordedOn(a) /\ w = RecordedOn(a)'
    OBVIOUS
  <2>3. v = [i \in 1..N |-> NetOn(entries[i].lines, a)]
    BY <1>1, <2>2 DEF RecordedOn
  <2>4. w = [i \in 1..(N + 1) |-> NetOn(longer[i].lines, a)]
    BY <1>3, <1>4, <2>2 DEF RecordedOn
  <2>5. ASSUME NEW i \in 1..(N + 1) PROVE w[i] \in Int
    <3>1. PICK lines \in Seq(JournalLine) : lines = longer[i].lines /\ Balanced(lines)
      <4>1. CASE i = N + 1
        BY <1>2, <1>4, <4>1
      <4>2. CASE i \in 1..N
        <5>1. longer[i] = entries[i] /\ i \in DOMAIN entries
          BY <1>1, <1>4, <4>2
        <5> QED BY <5>1, RecordLines
      <4> QED BY <4>1, <4>2
    <3>2. NetOn(lines, a) \in Int
      BY <3>1, NetOnType DEF Balanced
    <3> QED BY <2>4, <3>1, <3>2
  <2>6. \A i \in 1..N : w[i] = v[i]
    BY <1>4, <2>3, <2>4
  <2>7. w[N + 1] = NetOn(r.lines, a)
    BY <1>4, <2>4
  <2>8. 1..(N + 1) = (1..N) \union {N + 1} /\ N + 1 \notin 1..N /\ IsFiniteSet(1..N)
    BY FS_Interval
  <2>9. Valued(w, (1..N) \union {N + 1}) /\ Valued(w, 1..N)
    BY <2>5 DEF Valued
  <2>10. Total(w, (1..N) \union {N + 1}) = Total(w, 1..N) + w[N + 1]
    <3>1. PICK S, m : S = 1..N /\ m = N + 1
      OBVIOUS
    <3>2. IsFiniteSet(S) /\ m \notin S /\ Valued(w, S \union {m})
      BY <2>8, <2>9, <3>1
    <3>3. Total(w, S \union {m}) = Total(w, S) + w[m]
      BY <3>2, TotalAdd
    <3> QED BY <3>1, <3>3
  <2>11. Total(w, 1..N) = Total(v, 1..N)
    BY <2>6, <2>8, <2>9, TotalAgrees
  <2>12. Total(w, 1..(N + 1)) = Total(v, 1..N) + NetOn(r.lines, a)
    BY <2>7, <2>8, <2>10, <2>11
  <2>13. Amount(b)[a] = Total(v, 1..N)
    BY <1>8, <2>2
  <2> QED BY <2>1, <2>2, <2>12, <2>13
<1> QED BY <1>3, <1>4, <1>5, <1>10, <1>11

LEMMA BooksKept ==
  ASSUME AllBooks, FilesNothing
  PROVE  AllBooks'
<1> SUFFICES ASSUME NEW home, \A i \in DOMAIN entries' : AtHome(home, entries'[i].lines)
             PROVE  /\ KeptAtHome(home, state'.balances)
                    /\ \A a \in Accounts :
                         Amount(state'.balances)[a] = Total(RecordedOn(a)', DOMAIN entries')
  BY DEF AllBooks, BooksInv
<1>1. entries' = entries /\ state'.balances = state.balances
  BY DEF FilesNothing
<1>2. \A a : RecordedOn(a)' = RecordedOn(a)
  BY <1>1 DEF RecordedOn
<1>3. BooksInv(home)
  BY DEF AllBooks
<1> QED BY <1>1, <1>2, <1>3 DEF BooksInv

\* Every step either files an entry or leaves entries and balances alone.
LEMMA StepFiles ==
  ASSUME RunnerInv, [RunnerNext]_runnerVars
  PROVE  FilesNothing \/ \E r : Files(r)
<1>1. CASE Accept
  BY <1>1, Accepted DEF RunnerInv
<1>2. CASE UNCHANGED <<state, entries>>
  BY <1>2 DEF FilesNothing
<1>3. CASE [RunnerNext]_runnerVars /\ ~Accept
  <2>1. UNCHANGED <<state, entries>>
    BY <1>3 DEF RunnerNext, runnerVars, LoadChart, RefuseChart, RunBlocked, RunDeferred, Start,
                StartBadCurrency, Abandon, AcceptUnexpectedly, Reject, RejectUnexpectedly, Finish,
                Ended, Answer
  <2> QED BY <1>2, <2>1
<1> QED BY <1>1, <1>3

\* The balances of every account that is kept in one currency are what the records
\* bring (LedgerState::post and record_entry).
LEMMA BooksInvariant == RunnerSpec => []AllBooks
<1>1. RunnerInit => AllBooks
  BY BooksStart DEF RunnerInit
<1>2. RunnerInv /\ AllBooks /\ [RunnerNext]_runnerVars => AllBooks'
  BY StepFiles, BooksFile, BooksKept DEF RunnerInv
<1> QED BY <1>1, <1>2, RunnerInvariant, PTL DEF RunnerSpec

-----------------------------------------------------------------------------
(* The audit extract. *)

LEMMA SumOfIs ==
  ASSUME NEW v, NEW D, D = DOMAIN v
  PROVE  SumOf(v) = Total(v, D)
<1>1. SumOf(v) = Total(v, DOMAIN v)
  <2>1. MapThenSumSet(LAMBDA place : v[place], DOMAIN v) = Total(v, DOMAIN v)
    BY FunctionTotal, Zenon
  <2> QED BY <2>1, Zenon DEF SumOf
<1> QED BY <1>1

\* There is a row for every line, of the amount of the line and the side of its sign.
LEMMA RowsAre ==
  ASSUME RecordsInv, NEW rows, rows = gl_detail(entries)
  PROVE  /\ DOMAIN rows = Places(entries)
         /\ \A p \in Places(entries) :
               /\ rows[p].journal_id = entries[p[1]].journal_id
               /\ rows[p].business_unit = entries[p[1]].entity
               /\ rows[p].account = LineAt(entries, p).account
               /\ signed_amount(LineAt(entries, p)).amount \in Int
               /\ rows[p].amount \in Int
               /\ rows[p].indicator \in {"C", "D"}
               /\ rows[p].indicator = "D" => rows[p].amount = signed_amount(LineAt(entries, p)).amount
               /\ rows[p].indicator = "C" => rows[p].amount = -signed_amount(LineAt(entries, p)).amount
<1>1. PICK P : P = Places(entries)
  OBVIOUS
<1>2. \A p \in P : signed_amount(LineAt(entries, p)) # None
                   /\ signed_amount(LineAt(entries, p)).amount \in Int
  BY <1>1, EntryPlaces DEF Money
<1>3. {p \in P : signed_amount(LineAt(entries, p)) # None} = P
  BY <1>2
<1>4. rows = [p \in P |-> GlDetailRow(entries[p[1]], LineAt(entries, p))]
  BY <1>1, <1>3 DEF gl_detail
<1>5. ASSUME NEW p \in P
      PROVE  /\ rows[p].journal_id = entries[p[1]].journal_id
             /\ rows[p].business_unit = entries[p[1]].entity
             /\ rows[p].account = LineAt(entries, p).account
             /\ rows[p].amount \in Int /\ rows[p].indicator \in {"C", "D"}
             /\ rows[p].indicator = "D" => rows[p].amount = signed_amount(LineAt(entries, p)).amount
             /\ rows[p].indicator = "C" => rows[p].amount = -signed_amount(LineAt(entries, p)).amount
  <2>1. PICK entry, line, signed : /\ entry = entries[p[1]] /\ line = LineAt(entries, p)
                                   /\ signed = signed_amount(line).amount
    OBVIOUS
  <2>2. rows[p] = [journal_id |-> entry.journal_id, business_unit |-> entry.entity,
                   account |-> line.account, currency |-> signed_amount(line).currency,
                   amount |-> IF signed < 0 THEN -signed ELSE signed,
                   indicator |-> IF signed < 0 THEN "C" ELSE "D",
                   reversal |-> entry.reversal_of # None]
    BY <1>4, <2>1 DEF GlDetailRow
  <2>3. signed \in Int
    BY <1>2, <2>1
  <2> QED BY <2>1, <2>2, <2>3
<1> QED BY <1>1, <1>2, <1>4, <1>5

\* The debits and the credits of the extract are the same.
LEMMA ExtractFoots ==
  ASSUME RecordsInv, NEW rows, rows = gl_detail(entries)
  PROVE  control_total(rows).debits = control_total(rows).credits
<1>1. PICK P, d, c, s :
         /\ P = Places(entries)
         /\ d = [p \in P |-> IF (rows[p].indicator = "D") = TRUE THEN rows[p].amount ELSE 0]
         /\ c = [p \in P |-> IF (rows[p].indicator = "D") = FALSE THEN rows[p].amount ELSE 0]
         /\ s = BroughtBy(DOMAIN entries)
  OBVIOUS
<1>2. DOMAIN rows = P /\ IsFiniteSet(P)
  BY <1>1, RowsAre, EntryPlaces
<1>3. Valued(s, P) /\ Total(s, P) = 0
  BY <1>1, WholeEntries
<1>4. ASSUME NEW p \in P PROVE d[p] \in Int /\ c[p] \in Int /\ d[p] = s[p] + c[p]
  <2>1. p[1] \in DOMAIN entries
    BY <1>1, EntryPlaces
  <2>2. s[p] = signed_amount(LineAt(entries, p)).amount
    BY <1>1, <2>1 DEF BroughtBy
  <2>3. /\ rows[p].amount \in Int /\ rows[p].indicator \in {"C", "D"} /\ s[p] \in Int
        /\ rows[p].indicator = "D" => rows[p].amount = s[p]
        /\ rows[p].indicator = "C" => rows[p].amount = -s[p]
    BY <1>1, <2>2, RowsAre
  <2>4. CASE rows[p].indicator = "D"
    BY <1>1, <2>3, <2>4
  <2>5. CASE rows[p].indicator = "C"
    BY <1>1, <2>3, <2>5
  <2> QED BY <2>3, <2>4, <2>5
<1>5. Valued(d, P) /\ Valued(c, P) /\ Together(d, s, c, P)
  BY <1>4 DEF Valued, Together
<1>6. Total(d, P) = Total(s, P) + Total(c, P) /\ Total(c, P) \in Int
  BY <1>2, <1>3, <1>5, TotalPlus, TotalType
<1>7. Footing(rows, TRUE) = Total(d, P) /\ Footing(rows, FALSE) = Total(c, P)
  <2>1. Footing(rows, TRUE) = SumOf(d) /\ Footing(rows, FALSE) = SumOf(c)
    BY <1>1, <1>2 DEF Footing
  <2>2. P = DOMAIN d /\ P = DOMAIN c
    BY <1>1
  <2> QED BY <2>1, <2>2, SumOfIs
<1>8. control_total(rows).debits = Footing(rows, TRUE)
      /\ control_total(rows).credits = Footing(rows, FALSE)
  BY DEF control_total
<1>9. Total(d, P) = Total(c, P)
  BY <1>3, <1>6
<1> QED BY <1>7, <1>8, <1>9

\* One journal id and one entry id per record.
LEMMA RecordsCounted ==
  ASSUME RecordsInv, NEW rows, rows = gl_detail(entries)
  PROVE  control_total(rows).entry_count = entry_count(state)
<1>1. PICK N, A, J, E :
         /\ N = Len(entries) /\ A = 1..N
         /\ J = {rows[p].journal_id : p \in DOMAIN rows}
         /\ E = {e \in EntryIds : state.entries[e] # None}
  OBVIOUS
<1>2. N \in Nat /\ DOMAIN entries = A /\ IsFiniteSet(A)
  <2>1. N \in Nat /\ DOMAIN entries = A
    BY <1>1, EntryPlaces
  <2> QED BY <1>1, <2>1, FS_Interval
<1>3. PICK f, g, zero, zeroJ, zeroE :
         /\ f = [i \in A |-> entries[i].journal_id] /\ g = [i \in A |-> entries[i].entry_id]
         /\ zero = [i \in A |-> 0] /\ zeroJ = [j \in J |-> 0] /\ zeroE = [e \in E |-> 0]
  OBVIOUS
<1>4. J = {entries[i].journal_id : i \in A}
  <2>1. ASSUME NEW p \in DOMAIN rows
        PROVE  \E i \in A : rows[p].journal_id = entries[i].journal_id
    <3>1. p \in Places(entries)
      BY RowsAre
    <3>2. p[1] \in A
      BY <1>2, <3>1, EntryPlaces
    <3> QED BY <3>1, <3>2, RowsAre
  <2>2. ASSUME NEW i \in A PROVE \E p \in DOMAIN rows : rows[p].journal_id = entries[i].journal_id
    <3>1. PICK lines \in Seq(JournalLine) : lines = entries[i].lines /\ lines # <<>>
      BY <1>2, RecordLines
    <3>2. 1 \in DOMAIN entries[i].lines /\ i \in DOMAIN entries
      BY <1>2, <3>1
    <3>3. PICK p : p = <<i, 1>>
      OBVIOUS
    <3>4. p \in Places(entries) /\ p[1] = i
      BY <3>2, <3>3 DEF Places
    <3> QED BY <3>4, RowsAre
  <2> QED BY <1>1, <2>1, <2>2
<1>5. Paired(f, A, J)
  BY <1>2, <1>3, <1>4 DEF Paired, RecordsInv
<1>6. Paired(g, A, E)
  BY <1>1, <1>2, <1>3 DEF Paired, RecordsInv
<1>7. Valued(zero, A) /\ (\A i \in A : zeroJ[f[i]] = zero[i]) /\ (\A i \in A : zeroE[g[i]] = zero[i])
  BY <1>3, <1>5, <1>6 DEF Valued, Paired
<1>8. Cardinality(J) = Cardinality(A)
  BY <1>2, <1>5, <1>7, PairedTotal
<1>9. Cardinality(E) = Cardinality(A)
  BY <1>2, <1>6, <1>7, PairedTotal
<1> QED BY <1>1, <1>8, <1>9 DEF control_total, entry_count

\* The accounts with a balance, and their balances.
HeldAccounts == {a \in Accounts : state.balances[a] # None}

Balance == [a \in HeldAccounts |-> state.balances[a].amount]

\* An account is touched by one currency only: the one its lines are in.
HomeOf(a) == CHOOSE c : \E i \in DOMAIN entries : \E n \in DOMAIN entries[i].lines :
                           entries[i].lines[n].account = a /\ c = CurrencyOf(entries[i])

LEMMA HomeExists ==
  ASSUME RecordsInv, OneCurrencyPerAccount
  PROVE  \E home : \A i \in DOMAIN entries : AtHome(home, entries[i].lines)
<1>1. PICK home : home = [a \in Accounts |-> HomeOf(a)]
  OBVIOUS
<1>2. ASSUME NEW i \in DOMAIN entries PROVE AtHome(home, entries[i].lines)
  <2>1. PICK lines \in Seq(JournalLine) : lines = entries[i].lines
    BY RecordLines
  <2>2. ASSUME NEW n \in DOMAIN lines PROVE validate(lines[n]).currency = home[lines[n].account]
    <3>1. PICK a : a = lines[n].account
      OBVIOUS
    <3>2. a \in Accounts /\ lines[n] \in JournalLine /\ OneSided(lines[n])
          /\ signed_amount(lines[n]).currency = CurrencyOf(entries[i])
      BY <2>1, <3>1, RecordLines
    <3>3. validate(lines[n]).currency = CurrencyOf(entries[i])
      BY <3>2, SignedAmountType
    <3>4. home[a] = HomeOf(a)
      BY <1>1, <3>2
    <3>5. \E c : \E j \in DOMAIN entries : \E m \in DOMAIN entries[j].lines :
             entries[j].lines[m].account = a /\ c = CurrencyOf(entries[j])
      BY <2>1, <3>1
    <3>6. PICK j \in DOMAIN entries : \E m \in DOMAIN entries[j].lines :
             entries[j].lines[m].account = a /\ HomeOf(a) = CurrencyOf(entries[j])
      BY <3>5 DEF HomeOf
    <3>7. a \in {entries[i].lines[m].account : m \in DOMAIN entries[i].lines}
               \intersect {entries[j].lines[m].account : m \in DOMAIN entries[j].lines}
      BY <2>1, <3>1, <3>6
    <3>8. CurrencyOf(entries[i]) = CurrencyOf(entries[j])
      BY <3>7 DEF OneCurrencyPerAccount
    <3> QED BY <3>1, <3>3, <3>4, <3>6, <3>8
  <2> QED BY <2>1, <2>2 DEF AtHome
<1> QED BY <1>2

\* What the rows of an account add up to is its balance.
RowsOn(rows, a) == [p \in DOMAIN rows |-> IF rows[p].account = a THEN SignedAmount(rows[p]) ELSE 0]

LEMMA RowsOnTotal ==
  ASSUME RecordsInv, LedgerInv, AllBooks, OneCurrencyPerAccount,
         NEW rows, rows = gl_detail(entries), NEW a \in Accounts
  PROVE  SumOf(RowsOn(rows, a)) = IF a \in HeldAccounts THEN Balance[a] ELSE 0
<1>1. PICK N, P, v : N = Len(entries) /\ P = Places(entries) /\ v = RowsOn(rows, a)
  OBVIOUS
<1>2. /\ N \in Nat /\ DOMAIN entries = 1..N /\ IsFiniteSet(P) /\ P = PlacesOf(EntryLines, N)
      /\ \A i \in 1..N : EntryLines[i] \in Seq(JournalLine)
  BY <1>1, EntryPlaces
<1>3. DOMAIN rows = P /\ DOMAIN v = P
  BY <1>1, RowsAre DEF RowsOn
<1>4. ASSUME NEW p \in P
      PROVE  /\ v[p] = IF LineAt(entries, p).account = a
                       THEN signed_amount(LineAt(entries, p)).amount ELSE 0
             /\ v[p] \in Int
  <2>1. /\ rows[p].account = LineAt(entries, p).account
        /\ signed_amount(LineAt(entries, p)).amount \in Int
        /\ rows[p].indicator \in {"C", "D"} /\ rows[p].amount \in Int
        /\ rows[p].indicator = "D" => rows[p].amount = signed_amount(LineAt(entries, p)).amount
        /\ rows[p].indicator = "C" => rows[p].amount = -signed_amount(LineAt(entries, p)).amount
    BY <1>1, RowsAre
  <2>2. SignedAmount(rows[p]) = signed_amount(LineAt(entries, p)).amount
    <3>1. CASE rows[p].indicator = "D"
      BY <2>1, <3>1 DEF SignedAmount
    <3>2. CASE rows[p].indicator = "C"
      BY <2>1, <3>2 DEF SignedAmount
    <3> QED BY <2>1, <3>1, <3>2
  <2>3. v[p] = IF rows[p].account = a THEN SignedAmount(rows[p]) ELSE 0
    BY <1>1, <1>3 DEF RowsOn
  <2> QED BY <2>1, <2>2, <2>3
<1>5. Valued(v, P)
  BY <1>4 DEF Valued
<1>6. PICK u : u = RecordedOn(a)
  OBVIOUS
<1>7. ASSUME NEW i \in 1..N PROVE u[i] = Total(AtPlace(v, i, Len(EntryLines[i])), 1..Len(EntryLines[i]))
  <2>1. PICK lines \in Seq(JournalLine) : /\ lines = entries[i].lines /\ lines = EntryLines[i]
                                          /\ Balanced(lines)
    BY <1>1, <1>2, RecordLines DEF EntryLines
  <2>2. PICK len \in Nat : len = Len(lines) /\ DOMAIN lines = 1..len
    OBVIOUS
  <2>3. PICK x, y : x = AtPlace(v, i, len) /\ y = On(lines, a)
    OBVIOUS
  <2>4. ASSUME NEW n \in 1..len PROVE y[n] = x[n]
    <3>1. x[n] = v[<<i, n>>]
      BY <2>3 DEF AtPlace
    <3>2. i \in DOMAIN entries /\ n \in DOMAIN entries[i].lines
      BY <1>2, <2>1, <2>2
    <3>3. <<i, n>> \in {i} \X DOMAIN entries[i].lines
      BY <3>2
    <3>4. <<i, n>> \in P
      BY <1>1, <3>2, <3>3 DEF Places
    <3>5. LineAt(entries, <<i, n>>) = lines[n]
      BY <2>1 DEF LineAt
    <3>6. v[<<i, n>>] = IF lines[n].account = a THEN signed_amount(lines[n]).amount ELSE 0
      BY <1>4, <3>4, <3>5
    <3> QED BY <2>2, <2>3, <3>1, <3>6 DEF On
  <2>5. \A n \in 1..len : OneSided(lines[n])
    BY <2>1, <2>2 DEF Balanced
  <2>6. Valued(y, 1..len) /\ IsFiniteSet(1..len)
    <3>1. Valued(On(lines, a), 1..Len(lines))
      BY <2>2, <2>5, OnType
    <3> QED BY <2>2, <2>3, <3>1, FS_Interval
  <2>7. PICK g : AddsUp(g, y, 1..len) /\ NetOn(lines, a) = g[1..len]
    BY <2>2, <2>3, <2>5, NetOnAddsUp
  <2>8. Total(y, 1..len) = NetOn(lines, a)
    BY <2>6, <2>7, TotalIs
  <2>9. Total(y, 1..len) = Total(x, 1..len)
    BY <2>4, <2>6, TotalAgrees
  <2>10. u[i] = NetOn(lines, a)
    BY <1>2, <1>6, <2>1 DEF RecordedOn
  <2> QED BY <2>1, <2>2, <2>3, <2>8, <2>9, <2>10
<1>8. Total(v, P) = Total(u, 1..N)
  <2>1. Valued(v, PlacesOf(EntryLines, N))
    BY <1>2, <1>5
  <2>2. Total(v, PlacesOf(EntryLines, N)) = Total(u, 1..N)
    BY <1>2, <1>7, <2>1, PlacesTotal
  <2> QED BY <1>2, <2>2
<1>9. Total(u, 1..N) = Amount(state.balances)[a]
  <2>1. PICK home : \A i \in DOMAIN entries : AtHome(home, entries[i].lines)
    BY HomeExists
  <2>2. BooksInv(home)
    BY DEF AllBooks
  <2> QED BY <1>2, <1>6, <2>1, <2>2 DEF BooksInv
<1>10. Amount(state.balances)[a] = IF a \in HeldAccounts THEN Balance[a] ELSE 0
  BY DEF Amount, HeldAccounts, Balance
<1>11. SumOf(v) = Total(v, P)
  BY <1>3, SumOfIs
<1> QED BY <1>1, <1>8, <1>9, <1>10, <1>11

\* The trial balance file and the run's own trial balance are the ledger's balances.
LEMMA BalanceFiles ==
  ASSUME FilesInv, chart # None, RecordsInv,
         NEW rows, rows = trial_balance_rows(scenario.entity, state),
         NEW expected, expected = [a \in {l.code : l \in DOMAIN TrialBalance} |->
                                      state.balances[a].amount],
         NEW detail, control_total(detail).debits = control_total(detail).credits,
         compare(derived(detail), Balance)
  PROVE  reconcile(detail, rows, expected)
<1>1. rows = {[business_unit |-> scenario.entity, account |-> a,
               ending_balance |-> state.balances[a].amount] : a \in HeldAccounts}
  BY DEF trial_balance_rows, HeldAccounts
<1>2. {row.account : row \in rows} = HeldAccounts
  <2>1. \A row \in rows : row.account \in HeldAccounts
    BY <1>1
  <2>2. ASSUME NEW a \in HeldAccounts PROVE \E row \in rows : row.account = a
    <3>1. PICK row : row = [business_unit |-> scenario.entity, account |-> a,
                            ending_balance |-> state.balances[a].amount]
      OBVIOUS
    <3> QED BY <1>1, <3>1
  <2> QED BY <2>1, <2>2
<1>3. ASSUME NEW a \in HeldAccounts
      PROVE  (CHOOSE row \in rows : row.account = a).ending_balance = state.balances[a].amount
  <2>1. PICK r : r = CHOOSE row \in rows : row.account = a
    OBVIOUS
  <2>2. r \in rows /\ r.account = a
    BY <1>2, <2>1
  <2>3. r.ending_balance = state.balances[a].amount
    BY <1>1, <2>2
  <2> QED BY <2>1, <2>3
<1>4. {l.code : l \in DOMAIN TrialBalance} = HeldAccounts
  <2>1. DOMAIN TrialBalance = {label(chart.by_code[a]) : a \in HeldAccounts}
    BY DEF TrialBalance, HeldAccounts
  <2>2. \A a \in HeldAccounts : label(chart.by_code[a]).code = a
    <3>1. \A a \in HeldAccounts : a \in DOMAIN chart.by_code
      BY DEF HeldAccounts, RecordsInv, Known
    <3> QED BY <3>1, ChartIs DEF label
  <2> QED BY <2>1, <2>2
<1>5. [a \in {row.account : row \in rows} |-> (CHOOSE row \in rows : row.account = a).ending_balance]
         = Balance
  <2>1. PICK f : f = [a \in {row.account : row \in rows} |->
                        (CHOOSE row \in rows : row.account = a).ending_balance]
    OBVIOUS
  <2>2. DOMAIN f = HeldAccounts
    BY <1>2, <2>1
  <2>3. ASSUME NEW a \in HeldAccounts PROVE f[a] = state.balances[a].amount
    BY <1>2, <1>3, <2>1
  <2>4. f = [a \in HeldAccounts |-> f[a]]
    BY <2>1, <2>2
  <2>5. f = [a \in HeldAccounts |-> state.balances[a].amount]
    BY <2>3, <2>4
  <2> QED BY <2>1, <2>5 DEF Balance
<1>6. expected = Balance
  BY <1>4 DEF Balance
<1> QED BY <1>5, <1>6 DEF reconcile

\* The balances re-derived from the rows are the ledger's, an account without rows
\* having no balance or a balance of zero.
LEMMA DerivedIsBalance ==
  ASSUME RecordsInv, LedgerInv, AllBooks, OneCurrencyPerAccount,
         NEW rows, rows = gl_detail(entries)
  PROVE  compare(derived(rows), Balance)
<1>1. PICK D, H : D = {rows[p].account : p \in DOMAIN rows} /\ H = HeldAccounts
  OBVIOUS
<1>2. DOMAIN derived(rows) = D /\ \A a \in D : derived(rows)[a] = SumOf(RowsOn(rows, a))
  BY <1>1 DEF derived, RowsOn
<1>3. DOMAIN Balance = H /\ H \subseteq Accounts
  BY <1>1 DEF Balance, HeldAccounts
<1>4. D \subseteq Accounts
  <2> SUFFICES ASSUME NEW p \in DOMAIN rows PROVE rows[p].account \in Accounts
    BY <1>1
  <2>1. p \in Places(entries) /\ rows[p].account = LineAt(entries, p).account
    BY RowsAre
  <2> QED BY <2>1, EntryPlaces DEF JournalLine
<1>5. \A a \in Accounts : SumOf(RowsOn(rows, a)) = IF a \in H THEN Balance[a] ELSE 0
  BY <1>1, RowsOnTotal
<1>6. ASSUME NEW a \in Accounts, a \notin D PROVE SumOf(RowsOn(rows, a)) = 0
  <2>1. PICK v, P : v = RowsOn(rows, a) /\ P = Places(entries)
    OBVIOUS
  <2>2. DOMAIN rows = P /\ IsFiniteSet(P)
    BY <2>1, RowsAre, EntryPlaces
  <2>3. DOMAIN v = P /\ \A p \in P : v[p] = 0
    BY <1>1, <1>6, <2>1, <2>2 DEF RowsOn
  <2> QED BY <2>1, <2>2, <2>3, SumOfIs, TotalOfZeros
<1>7. ASSUME NEW a \in D \union H
      PROVE  (IF a \in D THEN derived(rows)[a] ELSE 0) = (IF a \in H THEN Balance[a] ELSE 0)
  <2>1. a \in Accounts
    BY <1>3, <1>4
  <2>2. CASE a \in D
    BY <1>2, <1>5, <2>1, <2>2
  <2>3. CASE a \notin D
    BY <1>5, <1>6, <2>1, <2>3
  <2> QED BY <2>2, <2>3
<1> QED BY <1>2, <1>3, <1>7 DEF compare

\* The rows of both files refer to accounts and business units the extract lists.
LEMMA RowsAreListed ==
  ASSUME FilesInv, chart # None, RecordsInv,
         NEW row \in Range(gl_detail(entries)) \union trial_balance_rows(scenario.entity, state)
  PROVE  /\ row.account \in {listed.account : listed \in ChartListing}
         /\ Valid => \/ row.business_unit \in {unit.code : unit \in BusinessUnitListing}
                     \/ \E op \in Range(scenario.operations) : op.entity = row.business_unit
<1>1. /\ Known(row.account)
      /\ row.business_unit \in {scenario.entity} \union {op.entity : op \in Range(scenario.operations)}
  <2>1. CASE row \in Range(gl_detail(entries))
    <3>1. PICK rows : rows = gl_detail(entries)
      OBVIOUS
    <3>2. PICK p \in DOMAIN rows : row = rows[p]
      BY <2>1, <3>1 DEF Range
    <3>3. p \in Places(entries)
      BY <3>1, RowsAre
    <3>4. row.account = LineAt(entries, p).account /\ row.business_unit = entries[p[1]].entity
      BY <3>1, <3>2, <3>3, RowsAre
    <3>5. p[1] \in DOMAIN entries /\ p[2] \in DOMAIN entries[p[1]].lines
      BY <3>3, EntryPlaces
    <3>6. Known(LineAt(entries, p).account)
      BY <3>5, RecordLines DEF LineAt
    <3>7. RecordInv(p[1])
      BY <3>5 DEF RecordsInv
    <3> QED BY <3>4, <3>6, <3>7 DEF RecordInv
  <2>2. CASE row \in trial_balance_rows(scenario.entity, state)
    <3>1. PICK a \in Accounts : /\ state.balances[a] # None
                                /\ row = [business_unit |-> scenario.entity, account |-> a,
                                          ending_balance |-> state.balances[a].amount]
      BY <2>2 DEF trial_balance_rows
    <3>2. Known(a)
      BY <3>1 DEF RecordsInv
    <3> QED BY <3>1, <3>2
  <2> QED BY <2>1, <2>2
<1>2. row.account \in {listed.account : listed \in ChartListing}
  <2>1. PICK a : a = row.account /\ a \in DOMAIN chart.by_code
    BY <1>1 DEF Known
  <2>2. PICK account : account = chart.by_code[a] /\ account \in Range(chart.by_code)
    BY <2>1 DEF Range
  <2>3. account.code = a
    BY <2>1, <2>2, ChartIs
  <2>4. PICK listed : listed = [account |-> account.code, normal_balance |-> normal_balance(account),
                                is_contra |-> account.contra, subledger |-> account.subledger]
    OBVIOUS
  <2>5. listed \in ChartListing
    BY <2>2, <2>4 DEF ChartListing
  <2>6. listed.account = a
    BY <2>3, <2>4
  <2> QED BY <2>1, <2>5, <2>6
<1>3. ASSUME Valid PROVE scenario.entity \in {unit.code : unit \in BusinessUnitListing}
  <2>1. scenario.entity \in DOMAIN chart.entities
    <3> SUFFICES ASSUME scenario.entity \notin DOMAIN chart.entities PROVE FALSE
      OBVIOUS
    <3>1. "entity" \in SetupDefects(scenario)
      BY DEF SetupDefects
    <3> QED BY <1>3, <3>1, ValidIs
  <2>2. PICK entity : /\ entity = chart.entities[scenario.entity]
                      /\ entity \in Range(chart.entities)
    BY <2>1 DEF Range
  <2>3. entity.code = scenario.entity
    BY <2>1, <2>2, ChartIs
  <2>4. PICK unit : unit = [code |-> entity.code, parent |-> entity.parent,
                            functional_currency |-> entity.functional_ccy]
    OBVIOUS
  <2>5. unit \in BusinessUnitListing
    BY <2>2, <2>4 DEF BusinessUnitListing
  <2>6. unit.code = scenario.entity
    BY <2>3, <2>4
  <2> QED BY <2>5, <2>6
<1> QED BY <1>1, <1>2, <1>3

\* The audit extract of every executed scenario foots, reconciles to the ledger it
\* was not derived from, and refers only to what it lists (ads_export.rs).
THEOREM ExtractAgrees == RunnerSpec => []ExtractReconciles
<1>1. RunnerInv /\ AllBooks => ExtractReconciles
  <2> SUFFICES ASSUME RunnerInv, AllBooks, Executed PROVE ExtractReconciles
    BY DEF ExtractReconciles
  <2>1. FilesInv /\ ProgressInv /\ LedgerInv /\ RecordsInv /\ ResultInv
    BY DEF RunnerInv
  <2>2. chart # None
    <3>1. result # None /\ result.outcome = "Executed"
      BY DEF Executed
    <3>2. position \in DOMAIN scenario.operations => chart # None
      BY <2>1, ReadyToRun
    <3>3. position = Len(scenario.operations) + 1 => position > 0
      <4>1. Len(scenario.operations) \in Nat
        BY <2>1 DEF FilesInv, IsScenario
      <4> QED BY <4>1
    <3> QED BY <2>1, <3>1, <3>2, <3>3 DEF ResultInv, ProgressInv
  <2>3. PICK rows, balances : /\ rows = gl_detail(entries)
                              /\ balances = trial_balance_rows(scenario.entity, state)
    OBVIOUS
  <2>4. control_total(rows).entry_count = entry_count(state)
        /\ control_total(rows).debits = control_total(rows).credits
    BY <2>1, <2>3, RecordsCounted, ExtractFoots
  <2>5. ASSUME OneCurrencyPerAccount
        PROVE  reconcile(rows, balances, [a \in {l.code : l \in DOMAIN TrialBalance} |->
                                             state.balances[a].amount])
    <3>1. compare(derived(rows), Balance)
      BY <2>1, <2>3, <2>5, DerivedIsBalance
    <3>2. PICK expected : expected = [a \in {l.code : l \in DOMAIN TrialBalance} |->
                                        state.balances[a].amount]
      OBVIOUS
    <3>3. reconcile(rows, balances, expected)
      BY <2>1, <2>2, <2>3, <2>4, <3>1, <3>2, BalanceFiles
    <3> QED BY <3>2, <3>3
  <2>6. \A row \in Range(rows) \union balances :
           /\ row.account \in {listed.account : listed \in ChartListing}
           /\ Valid => \/ row.business_unit \in {unit.code : unit \in BusinessUnitListing}
                       \/ \E op \in Range(scenario.operations) : op.entity = row.business_unit
    BY <2>1, <2>2, <2>3, RowsAreListed
  <2> QED BY <2>3, <2>4, <2>5, <2>6 DEF ExtractReconciles
<1> QED BY <1>1, RunnerInvariant, BooksInvariant, PTL

-----------------------------------------------------------------------------
(* The verdict on a run. *)

\* The amount a table gives to a code: that of a reference with the code.
LEMMA NormalizeIs ==
  ASSUME NEW table, DOMAIN table \subseteq AccountRef, NEW named \in DOMAIN table
  PROVE  \E r \in DOMAIN table : /\ r.code = named.code
                                 /\ Normalize(table)[Code(named.code)] = table[r]
<1>1. PICK ref, D : ref = Code(named.code) /\ D = DOMAIN table
  OBVIOUS
<1>2. ref.code = named.code /\ ref \in {Code(r.code) : r \in D}
  BY <1>1 DEF Code
<1>3. PICK full : full = {r \in D : r.code = ref.code /\ r.name # None}
  OBVIOUS
<1>4. Normalize(table)[ref] = table[IF full # {} THEN CHOOSE r \in full : TRUE ELSE ref]
  BY <1>1, <1>2, <1>3 DEF Normalize
<1>5. CASE full # {}
  <2>1. PICK r : r = CHOOSE x \in full : TRUE
    OBVIOUS
  <2>2. r \in full
    BY <1>5, <2>1
  <2>3. r \in D /\ r.code = named.code
    BY <1>2, <1>3, <2>2
  <2> QED BY <1>1, <1>4, <1>5, <2>1, <2>3
<1>6. CASE full = {}
  <2>1. named \in AccountRef /\ named.name = None
    BY <1>1, <1>2, <1>3, <1>6
  <2>2. named = [code |-> named.code, name |-> None]
    BY <2>1 DEF AccountRef
  <2>3. named = ref
    BY <1>1, <2>2 DEF Code
  <2> QED BY <1>1, <1>4, <1>6, <2>3
<1> QED BY <1>5, <1>6

LEMMA CodesOf ==
  ASSUME NEW table, NEW a
  PROVE  Code(a) \in DOMAIN Normalize(table) <=> \E r \in DOMAIN table : r.code = a
<1>1. DOMAIN Normalize(table) = {Code(r.code) : r \in DOMAIN table}
  BY DEF Normalize
<1>2. ASSUME NEW c, Code(a) = Code(c) PROVE a = c
  <2>1. Code(a).code = a /\ Code(c).code = c
    BY DEF Code
  <2> QED BY <1>2, <2>1
<1> QED BY <1>1, <1>2

\* A run whose trial balance is the expected one has, on every account, a balance
\* that the scenario expects.
LEMMA MatchIs ==
  ASSUME FilesInv, RecordsInv, chart # None, Matches
  PROVE  /\ \A a \in Accounts :
               state.balances[a] # None <=> \E r \in DOMAIN scenario.trial_balance : r.code = a
         /\ \A a \in HeldAccounts :
               /\ Code(a) \in DOMAIN Normalize(TrialBalance)
               /\ Normalize(TrialBalance)[Code(a)] = state.balances[a].amount
               /\ \E r \in DOMAIN scenario.trial_balance :
                     r.code = a /\ scenario.trial_balance[r] = state.balances[a].amount
         /\ \A ref \in DOMAIN Normalize(TrialBalance) : \E a \in HeldAccounts : ref = Code(a)
<1>1. PICK mine, theirs : mine = TrialBalance /\ theirs = scenario.trial_balance
  OBVIOUS
<1>2. Normalize(mine) = Normalize(theirs) /\ DOMAIN theirs \subseteq AccountRef
  BY <1>1 DEF Matches, FilesInv, IsScenario
<1>3. DOMAIN mine = {label(chart.by_code[a]) : a \in HeldAccounts}
  BY <1>1 DEF TrialBalance, HeldAccounts
<1>4. ASSUME NEW a \in HeldAccounts
      PROVE  /\ label(chart.by_code[a]) \in AccountRef
             /\ label(chart.by_code[a]).code = a
  <2>1. a \in DOMAIN chart.by_code
    BY DEF HeldAccounts, RecordsInv, Known
  <2>2. PICK account : /\ account = chart.by_code[a]
                       /\ account \in Account /\ account.code = a
    BY <2>1, ChartIs
  <2> QED BY <2>2 DEF label, AccountRef, Account
<1>5. ASSUME NEW r \in DOMAIN mine
      PROVE  r \in AccountRef /\ r.code \in HeldAccounts /\ mine[r] = state.balances[r.code].amount
  <2>1. PICK a \in HeldAccounts : r = label(chart.by_code[a])
    BY <1>3
  <2>2. mine[r] = state.balances[r.code].amount
    BY <1>1 DEF TrialBalance
  <2> QED BY <1>4, <2>1, <2>2
<1>6. ASSUME NEW a \in HeldAccounts
      PROVE  /\ Code(a) \in DOMAIN Normalize(mine)
             /\ Normalize(mine)[Code(a)] = state.balances[a].amount
             /\ \E r \in DOMAIN theirs : r.code = a /\ theirs[r] = state.balances[a].amount
  <2>1. PICK l \in DOMAIN mine : l.code = a
    BY <1>3, <1>4
  <2>2. DOMAIN mine \subseteq AccountRef
    BY <1>5
  <2>3. PICK r \in DOMAIN mine : r.code = a /\ Normalize(mine)[Code(a)] = mine[r]
    BY <2>1, <2>2, NormalizeIs
  <2>4. Normalize(mine)[Code(a)] = state.balances[a].amount
    BY <1>5, <2>3
  <2>5. Code(a) \in DOMAIN Normalize(mine)
    BY <2>1, CodesOf
  <2>6. PICK named \in DOMAIN theirs : named.code = a
    BY <1>2, <2>5, CodesOf
  <2>7. PICK other \in DOMAIN theirs : other.code = a /\ Normalize(theirs)[Code(a)] = theirs[other]
    BY <1>2, <2>6, NormalizeIs
  <2> QED BY <1>2, <2>4, <2>5, <2>7
<1>7. ASSUME NEW a \in Accounts, NEW r \in DOMAIN theirs, r.code = a PROVE a \in HeldAccounts
  <2>1. Code(a) \in DOMAIN Normalize(mine)
    BY <1>2, <1>7, CodesOf
  <2>2. PICK l \in DOMAIN mine : l.code = a
    BY <2>1, CodesOf
  <2> QED BY <1>5, <2>2
<1>8. ASSUME NEW ref \in DOMAIN Normalize(mine) PROVE \E a \in HeldAccounts : ref = Code(a)
  <2>1. PICK r \in DOMAIN mine : ref = Code(r.code)
    BY DEF Normalize
  <2> QED BY <1>5, <2>1
<1> QED BY <1>1, <1>6, <1>7, <1>8 DEF HeldAccounts

\* A valid scenario's table parses, names accounts, and declares its unusual balances.
LEMMA ValidBalances ==
  ASSUME Valid
  PROVE  /\ Parses(scenario.trial_balance)
         /\ \A r \in DOMAIN scenario.trial_balance :
               /\ resolve(r) # None
               /\ \/ ExpectedOnNormalSide(resolve(r), scenario.trial_balance[r])
                  \/ permits_opposite_sign(resolve(r))
                  \/ r \in scenario.unusual_balances
<1>1. BalanceDefects(scenario) = {}
  BY ValidIs
<1>2. Parses(scenario.trial_balance)
  <2>1. "decimal" \notin BalanceDefects(scenario)
    BY <1>1
  <2> QED BY <2>1 DEF BalanceDefects
<1>3. PICK table : table = scenario.trial_balance
  OBVIOUS
<1>4. expected_trial_balance(scenario) = table
  BY <1>2, <1>3 DEF expected_trial_balance
<1>5. ASSUME NEW r \in DOMAIN table PROVE resolve(r) # None
  <2>1. r \in Referenced(scenario)
    BY <1>4 DEF Referenced
  <2>2. "account" \notin BalanceDefects(scenario)
    BY <1>1
  <2> QED BY <2>1, <2>2 DEF BalanceDefects
<1>6. ASSUME NEW r \in DOMAIN table
      PROVE  \/ ExpectedOnNormalSide(resolve(r), table[r]) \/ permits_opposite_sign(resolve(r))
             \/ r \in scenario.unusual_balances
  <2>1. "undeclared" \notin BalanceDefects(scenario)
    BY <1>1
  <2> QED BY <1>4, <1>5, <2>1 DEF BalanceDefects
<1> QED BY <1>2, <1>3, <1>5, <1>6

\* What is asserted of every run cannot break once the balances are the expected ones.
LEMMA OnlyIntercompany ==
  ASSUME RunnerInv, Valid, Matches
  PROVE  BrokenInvariants \subseteq {"intercompany_eliminated"}
<1>1. FilesInv /\ RecordsInv /\ LedgerInv /\ chart # None
  BY DEF RunnerInv, Valid
<1>2. \A i \in DOMAIN entries : assert_balanced(entries[i].lines)
  BY <1>1, RecordIsBalanced
<1>3. assert_replay_stable(events, state)
  BY <1>1 DEF LedgerInv, assert_replay_stable
<1>4. assert_no_unexpected_negative_balances(
         Normalize(TrialBalance), {Code(r.code) : r \in scenario.unusual_balances})
  <2>1. PICK table, declared : /\ table = Normalize(TrialBalance)
                               /\ declared = {Code(r.code) : r \in scenario.unusual_balances}
    OBVIOUS
  <2>2. ASSUME NEW ref \in DOMAIN table
        PROVE  /\ resolve(ref) # None
               /\ \/ on_normal_side(resolve(ref), table[ref])
                  \/ permits_opposite_sign(resolve(ref)) \/ ref \in declared
    <3>1. PICK a \in HeldAccounts : ref = Code(a)
      BY <1>1, <2>1, MatchIs
    <3>2. table[ref] = state.balances[a].amount
      BY <1>1, <2>1, <3>1, MatchIs
    <3>3. PICK r \in DOMAIN scenario.trial_balance :
             r.code = a /\ scenario.trial_balance[r] = table[ref]
      BY <1>1, <3>2, MatchIs
    <3>4. a \in DOMAIN chart.by_code /\ chart.by_code[a] # None
      BY <1>1 DEF HeldAccounts, RecordsInv, Known
    <3>5. resolve(ref) = chart.by_code[a]
      <4>1. ref.code = a /\ ref.name = None
        BY <3>1 DEF Code
      <4> QED BY <3>4, <4>1 DEF resolve
    <3>6. resolve(r) = chart.by_code[a]
      BY <3>3, ValidBalances DEF resolve
    <3>7. \/ ExpectedOnNormalSide(chart.by_code[a], table[ref])
          \/ permits_opposite_sign(chart.by_code[a]) \/ r \in scenario.unusual_balances
      BY <3>3, <3>6, ValidBalances
    <3>8. r \in scenario.unusual_balances => ref \in declared
      BY <2>1, <3>1, <3>3
    <3>9. ExpectedOnNormalSide(chart.by_code[a], table[ref])
             => on_normal_side(chart.by_code[a], table[ref])
      BY DEF ExpectedOnNormalSide, on_normal_side
    <3> QED BY <3>4, <3>5, <3>7, <3>8, <3>9
  <2> QED BY <2>1, <2>2 DEF assert_no_unexpected_negative_balances
<1> QED BY <1>2, <1>3, <1>4 DEF BrokenInvariants

\* run_category of tests/corpus.rs: a valid scenario that ran fails only by its numbers
\* or by a claim about intercompany balances, and a ready one that passes ended with
\* the balances it expected.
THEOREM EarnedVerdicts == RunnerSpec => []VerdictsAreEarned
<1>1. RunnerInv => VerdictsAreEarned
  <2> SUFFICES ASSUME RunnerInv, Valid, result # None
               PROVE  /\ Failures \subseteq IF scenario.status = "Divergent" THEN {"promote"}
                                            ELSE {"run_error", "mismatch", "intercompany_eliminated"}
                      /\ Executed /\ Failures = {} /\ scenario.status = "Ready" =>
                            \A a \in Accounts :
                               LET refs == {r \in DOMAIN scenario.trial_balance : r.code = a}
                               IN  IF refs = {} THEN state.balances[a] = None
                                   ELSE /\ state.balances[a] # None
                                        /\ \E r \in refs :
                                              scenario.trial_balance[r] = state.balances[a].amount
    BY DEF VerdictsAreEarned
  <2>1. FilesInv /\ RecordsInv /\ chart # None /\ Parses(scenario.trial_balance)
    BY ValidBalances DEF RunnerInv, Valid
  <2>2. PICK o : o = result.outcome
    OBVIOUS
  <2>3. o = "Executed" =>
          Failures = IF scenario.status = "Divergent" THEN IF Matches THEN {"promote"} ELSE {}
                     ELSE IF Matches THEN BrokenInvariants ELSE {"mismatch"}
    BY <2>1, <2>2 DEF Failures, RunErrors
  <2>4. CASE o \in RunErrors
    <3>1. o # "Executed"
      BY <2>4 DEF RunErrors
    <3>2. Failures = IF scenario.status = "Divergent" THEN {} ELSE {"run_error"}
      BY <2>2, <2>4, <3>1 DEF Failures
    <3> QED BY <2>2, <3>1, <3>2 DEF Executed
  <2>5. CASE o = "Executed"
    <3>1. Failures \subseteq IF scenario.status = "Divergent" THEN {"promote"}
                             ELSE {"run_error", "mismatch", "intercompany_eliminated"}
      BY <2>3, <2>5, OnlyIntercompany
    <3>2. ASSUME Failures = {}, scenario.status = "Ready", NEW a \in Accounts,
                 NEW refs, refs = {r \in DOMAIN scenario.trial_balance : r.code = a}
          PROVE  IF refs = {} THEN state.balances[a] = None
                 ELSE /\ state.balances[a] # None
                      /\ \E r \in refs : scenario.trial_balance[r] = state.balances[a].amount
      <4>1. Matches
        BY <2>3, <2>5, <3>2
      <4>2. state.balances[a] # None <=> refs # {}
        BY <2>1, <3>2, <4>1, MatchIs
      <4>3. state.balances[a] # None =>
              \E r \in refs : scenario.trial_balance[r] = state.balances[a].amount
        BY <2>1, <3>2, <4>1, MatchIs DEF HeldAccounts
      <4> QED BY <4>2, <4>3
    <3> QED BY <3>1, <3>2
  <2>6. CASE o \notin RunErrors /\ o # "Executed"
    <3>1. Failures = {}
      BY <2>2, <2>6 DEF Failures
    <3> QED BY <2>2, <2>6, <3>1 DEF Executed
  <2> QED BY <2>4, <2>5, <2>6
<1> QED BY <1>1, RunnerInvariant, PTL

-----------------------------------------------------------------------------
(* The reference files, whatever the order of their rows. *)

\* What the checks of load come to together, in no order: two rows of a file never
\* share a code, nor two accounts a subledger.
Distinct(rows) == \A m, n \in DOMAIN rows : m # n => rows[m].code # rows[n].code

SoundAccounts(rows) ==
    /\ Distinct(rows)
    /\ \A n \in DOMAIN rows : rows[n].currency # Malformed
    /\ \A m, n \in DOMAIN rows :
          m # n /\ rows[n].subledger # None => rows[m].subledger # rows[n].subledger

SoundEntities(rows) ==
    /\ Distinct(rows)
    /\ \A n \in DOMAIN rows : /\ rows[n].functional_ccy # Malformed
                              /\ \/ rows[n].parent = None
                                 \/ \E m \in DOMAIN rows : rows[n].parent = rows[m].code

SoundFiles(files) ==
    SoundAccounts(files.accounts) /\ SoundEntities(files.entities) /\ Distinct(files.sources)

\* A fact of earlier rows that holds of no row holds of no two rows.
LEMMA NoEarlier ==
  ASSUME NEW N \in Nat, NEW R, \A m, n \in 1..N : <<m, n>> \in R <=> <<n, m>> \in R
  PROVE  (\A n \in 1..N : \A m \in 1 .. n - 1 : <<m, n>> \notin R)
            <=> \A m, n \in 1..N : m # n => <<m, n>> \notin R
<1>1. ASSUME \A n \in 1..N : \A m \in 1 .. n - 1 : <<m, n>> \notin R,
             NEW m \in 1..N, NEW n \in 1..N, m # n
      PROVE  <<m, n>> \notin R
  <2>1. CASE m < n
    <3>1. m \in 1 .. n - 1
      BY <2>1
    <3> QED BY <1>1, <3>1
  <2>2. CASE n < m
    <3>1. n \in 1 .. m - 1
      BY <2>2
    <3>2. <<n, m>> \notin R
      BY <1>1, <3>1
    <3> QED BY <3>2
  <2> QED BY <1>1, <2>1, <2>2
<1>2. ASSUME \A m, n \in 1..N : m # n => <<m, n>> \notin R,
             NEW n \in 1..N, NEW m \in 1 .. n - 1
      PROVE  <<m, n>> \notin R
  <2>1. m \in 1..N /\ m # n
    OBVIOUS
  <2> QED BY <1>2, <2>1
<1> QED BY <1>1, <1>2

LEMMA AccountsPass ==
  ASSUME NEW rows \in Seq(Account)
  PROVE  (\A n \in DOMAIN rows : AccountFault(rows, n) = None) <=> SoundAccounts(rows)
<1>1. PICK N \in Nat : N = Len(rows) /\ DOMAIN rows = 1..N
  OBVIOUS
<1>2. PICK R : R = {e \in (1..N) \X (1..N) :
                       \/ rows[e[1]].code = rows[e[2]].code
                       \/ rows[e[1]].subledger = rows[e[2]].subledger /\ rows[e[2]].subledger # None}
  OBVIOUS
<1>3. \A m, n \in 1..N :
         <<m, n>> \in R <=> \/ rows[m].code = rows[n].code
                            \/ rows[m].subledger = rows[n].subledger /\ rows[n].subledger # None
  BY <1>2
<1>4. \A m, n \in 1..N : <<m, n>> \in R <=> <<n, m>> \in R
  BY <1>3
<1>5. ASSUME NEW n \in 1..N
      PROVE  AccountFault(rows, n) = None <=>
                /\ rows[n].currency # Malformed
                /\ \A m \in 1 .. n - 1 : <<m, n>> \notin R
  <2>1. "UnknownCurrency" # None /\ "AmbiguousSubledger" # None /\ "DuplicateAccount" # None
    BY ChartAssumption DEF ChartErrors
  <2>2. \A m \in 1 .. n - 1 :
           <<m, n>> \in R <=> \/ rows[m].code = rows[n].code
                              \/ rows[m].subledger = rows[n].subledger /\ rows[n].subledger # None
    BY <1>1, <1>3
  <2>3. PICK before : before = {rows[m] : m \in 1 .. n - 1}
    OBVIOUS
  <2>4. (\E row \in before : row.subledger = rows[n].subledger)
           <=> \E m \in 1 .. n - 1 : rows[m].subledger = rows[n].subledger
    BY <2>3
  <2>5. (\E row \in before : row.code = rows[n].code) <=> \E m \in 1 .. n - 1 : rows[m].code = rows[n].code
    BY <2>3
  <2>6. AccountFault(rows, n) =
           IF rows[n].currency = Malformed THEN "UnknownCurrency"
           ELSE IF rows[n].subledger # None /\ \E row \in before : row.subledger = rows[n].subledger
                THEN "AmbiguousSubledger"
           ELSE IF \E row \in before : row.code = rows[n].code THEN "DuplicateAccount" ELSE None
    BY <2>3 DEF AccountFault
  <2> QED BY <2>1, <2>2, <2>4, <2>5, <2>6
<1>6. (\A n \in 1..N : \A m \in 1 .. n - 1 : <<m, n>> \notin R)
         <=> \A m, n \in 1..N : m # n => <<m, n>> \notin R
  BY <1>4, NoEarlier
<1>7. SoundAccounts(rows) <=> /\ \A n \in 1..N : rows[n].currency # Malformed
                              /\ \A m, n \in 1..N : m # n => <<m, n>> \notin R
  <2>1. (\A m, n \in 1..N : m # n => <<m, n>> \notin R)
           <=> \A m, n \in 1..N : m # n =>
                 /\ rows[m].code # rows[n].code
                 /\ rows[n].subledger # None => rows[m].subledger # rows[n].subledger
    <3>1. ASSUME NEW m \in 1..N, NEW n \in 1..N
          PROVE  <<m, n>> \notin R <=>
                   /\ rows[m].code # rows[n].code
                   /\ rows[n].subledger # None => rows[m].subledger # rows[n].subledger
      BY <1>3
    <3> QED BY <3>1
  <2> QED BY <1>1, <2>1 DEF SoundAccounts, Distinct
<1> QED BY <1>1, <1>5, <1>6, <1>7

LEMMA DistinctPass ==
  ASSUME NEW T, NEW rows \in Seq(T)
  PROVE  (\A n \in DOMAIN rows : ~\E m \in 1 .. n - 1 : rows[m].code = rows[n].code) <=> Distinct(rows)
<1>1. PICK N \in Nat : N = Len(rows) /\ DOMAIN rows = 1..N
  OBVIOUS
<1>2. PICK R : R = {e \in (1..N) \X (1..N) : rows[e[1]].code = rows[e[2]].code}
  OBVIOUS
<1>3. \A m, n \in 1..N : <<m, n>> \in R <=> rows[m].code = rows[n].code
  BY <1>2
<1>4. \A m, n \in 1..N : <<m, n>> \in R <=> <<n, m>> \in R
  BY <1>3
<1>5. (\A n \in 1..N : \A m \in 1 .. n - 1 : <<m, n>> \notin R)
         <=> \A m, n \in 1..N : m # n => <<m, n>> \notin R
  BY <1>4, NoEarlier
<1>6. \A n \in 1..N : \A m \in 1 .. n - 1 : m \in 1..N
  OBVIOUS
<1>7. (\A n \in 1..N : ~\E m \in 1 .. n - 1 : rows[m].code = rows[n].code)
         <=> \A n \in 1..N : \A m \in 1 .. n - 1 : <<m, n>> \notin R
  BY <1>3, <1>6
<1>8. Distinct(rows) <=> \A m, n \in 1..N : m # n => <<m, n>> \notin R
  <2>1. ASSUME NEW m \in 1..N, NEW n \in 1..N
        PROVE  <<m, n>> \notin R <=> rows[m].code # rows[n].code
    BY <1>3
  <2> QED BY <1>1, <2>1 DEF Distinct
<1> QED BY <1>1, <1>5, <1>7, <1>8

LEMMA EntitiesPass ==
  ASSUME NEW rows \in Seq(Entity)
  PROVE  (\A n \in DOMAIN rows : EntityFault(rows, n) = None /\ ParentFault(rows, n) = None)
            <=> SoundEntities(rows)
<1>1. "UnknownCurrency" # None /\ "DuplicateEntity" # None /\ "UnknownParent" # None
  BY ChartAssumption DEF ChartErrors
<1>2. \A n \in DOMAIN rows :
         EntityFault(rows, n) = None <=> /\ rows[n].functional_ccy # Malformed
                                         /\ ~\E m \in 1 .. n - 1 : rows[m].code = rows[n].code
  BY <1>1 DEF EntityFault
<1>3. \A n \in DOMAIN rows :
         ParentFault(rows, n) = None <=> \/ rows[n].parent = None
                                         \/ \E m \in DOMAIN rows : rows[n].parent = rows[m].code
  BY <1>1 DEF ParentFault
<1>4. (\A n \in DOMAIN rows : ~\E m \in 1 .. n - 1 : rows[m].code = rows[n].code) <=> Distinct(rows)
  BY DistinctPass
<1> QED BY <1>2, <1>3, <1>4 DEF SoundEntities

LEMMA SourcesPass ==
  ASSUME NEW T, NEW rows \in Seq(T)
  PROVE  (\A n \in DOMAIN rows : SourceFault(rows, n) = None) <=> Distinct(rows)
<1>1. "DuplicateSource" # None
  BY ChartAssumption DEF ChartErrors
<1>2. \A n \in DOMAIN rows :
         SourceFault(rows, n) = None <=> ~\E m \in 1 .. n - 1 : rows[m].code = rows[n].code
  BY <1>1 DEF SourceFault
<1>3. (\A n \in DOMAIN rows : ~\E m \in 1 .. n - 1 : rows[m].code = rows[n].code) <=> Distinct(rows)
  BY DistinctPass
<1> QED BY <1>2, <1>3

\* Two lists of checks pass when each does.
Pass(checks) == \A k \in DOMAIN checks : checks[k] = None

LEMMA BothPass ==
  ASSUME NEW T, NEW s \in Seq(T), NEW t \in Seq(T), NEW u, u = s \o t
  PROVE  /\ u \in Seq(T)
         /\ Pass(u) <=> Pass(s) /\ Pass(t)
<1>1. PICK M \in Nat, N \in Nat : /\ M = Len(s) /\ DOMAIN s = 1..M
                                  /\ N = Len(t) /\ DOMAIN t = 1..N
  OBVIOUS
<1>3. /\ u \in Seq(T) /\ DOMAIN u = 1..(M + N)
      /\ \A k \in 1..M : u[k] = s[k]
      /\ \A k \in 1..N : u[M + k] = t[k]
  BY <1>1
<1>4. ASSUME \A k \in 1..(M + N) : u[k] = None, NEW k \in 1..N PROVE t[k] = None
  <2>1. M + k \in 1..(M + N)
    OBVIOUS
  <2> QED BY <1>3, <1>4, <2>1
<1>5. ASSUME \A k \in 1..(M + N) : u[k] = None, NEW k \in 1..M PROVE s[k] = None
  <2>1. k \in 1..(M + N)
    OBVIOUS
  <2> QED BY <1>3, <1>5, <2>1
<1>6. ASSUME \A k \in 1..M : s[k] = None, \A k \in 1..N : t[k] = None, NEW k \in 1..(M + N)
      PROVE  u[k] = None
  <2>1. CASE k \in 1..M
    BY <1>3, <1>6, <2>1
  <2>2. CASE k \notin 1..M
    <3>1. k - M \in 1..N /\ k = M + (k - M)
      BY <2>2
    <3> QED BY <1>3, <1>6, <3>1
  <2> QED BY <2>1, <2>2
<1> QED BY <1>1, <1>3, <1>4, <1>5, <1>6 DEF Pass

\* The files load when, and only when, they are sound.
LEMMA LoadsWhenSound ==
  ASSUME NEW files \in ReferenceFiles
  PROVE  ChartError(files) = None <=> SoundFiles(files)
<1>1. PICK A, E, S, T :
         /\ A = files.accounts /\ E = files.entities /\ S = files.sources
         /\ T = ChartErrors \union {None}
  OBVIOUS
<1>2. A \in Seq(Account) /\ E \in Seq(Entity) /\ S \in Seq([code : STRING])
  BY <1>1 DEF ReferenceFiles
<1>3. PICK c1, c2, c3, c4 :
         /\ c1 = [n \in DOMAIN A |-> AccountFault(A, n)] /\ c2 = [n \in DOMAIN E |-> EntityFault(E, n)]
         /\ c3 = [n \in DOMAIN E |-> ParentFault(E, n)]  /\ c4 = [n \in DOMAIN S |-> SourceFault(S, n)]
  OBVIOUS
<1>4. c1 \in Seq(T)
  <2>1. \A n \in DOMAIN A : AccountFault(A, n) \in T
    BY <1>1 DEF AccountFault, ChartErrors
  <2>2. PICK N \in Nat : DOMAIN A = 1..N
    BY <1>2
  <2>3. c1 \in [1..N -> T]
    BY <1>3, <2>1, <2>2
  <2> QED BY <2>3
<1>5. c2 \in Seq(T)
  <2>1. \A n \in DOMAIN E : EntityFault(E, n) \in T
    BY <1>1 DEF EntityFault, ChartErrors
  <2>2. PICK N \in Nat : DOMAIN E = 1..N
    BY <1>2
  <2>3. c2 \in [1..N -> T]
    BY <1>3, <2>1, <2>2
  <2> QED BY <2>3
<1>6. c3 \in Seq(T)
  <2>1. \A n \in DOMAIN E : ParentFault(E, n) \in T
    BY <1>1 DEF ParentFault, ChartErrors
  <2>2. PICK N \in Nat : DOMAIN E = 1..N
    BY <1>2
  <2>3. c3 \in [1..N -> T]
    BY <1>3, <2>1, <2>2
  <2> QED BY <2>3
<1>7. c4 \in Seq(T)
  <2>1. \A n \in DOMAIN S : SourceFault(S, n) \in T
    BY <1>1 DEF SourceFault, ChartErrors
  <2>2. PICK N \in Nat : DOMAIN S = 1..N
    BY <1>2
  <2>3. c4 \in [1..N -> T]
    BY <1>3, <2>1, <2>2
  <2> QED BY <2>3
<1>8. PICK all : all = Checks(files) /\ all = c1 \o c2 \o c3 \o c4
  BY <1>1, <1>3 DEF Checks
<1>9. all \in Seq(T) /\ (Pass(all) <=> Pass(c1) /\ Pass(c2) /\ Pass(c3) /\ Pass(c4))
  <2>1. PICK d, e : d = c1 \o c2 /\ e = d \o c3
    OBVIOUS
  <2>2. d \in Seq(T) /\ (Pass(d) <=> Pass(c1) /\ Pass(c2))
    BY <1>4, <1>5, <2>1, BothPass
  <2>3. e \in Seq(T) /\ (Pass(e) <=> Pass(d) /\ Pass(c3))
    BY <1>6, <2>1, <2>2, BothPass
  <2>4. all = e \o c4
    BY <1>8, <2>1
  <2>5. all \in Seq(T) /\ (Pass(all) <=> Pass(e) /\ Pass(c4))
    BY <1>7, <2>3, <2>4, BothPass
  <2> QED BY <2>2, <2>3, <2>5
<1>10. ChartError(files) = None <=> Pass(all)
  <2>1. PICK N \in Nat : N = Len(all) /\ DOMAIN all = 1..N
    BY <1>9
  <2>2. PICK I, first : I = {k \in 1..N : all[k] # None} /\ first = IF I # {} THEN Min(I) ELSE 0
    OBVIOUS
  <2>3. ChartError(files) = IF first = 0 THEN None ELSE all[first]
    BY <1>8, <2>1, <2>2 DEF ChartError, SelectInSeq
  <2>4. CASE I = {}
    BY <2>1, <2>2, <2>3, <2>4 DEF Pass
  <2>5. CASE I # {}
    <3>1. PICK m : m = Min(I)
      OBVIOUS
    <3>2. I \in SUBSET (1..N)
      BY <2>2
    <3>3. m \in I
      BY <2>5, <3>1, <3>2, BoundsExist
    <3>4. first = m /\ m \in 1..N /\ all[m] # None
      BY <2>2, <2>5, <3>1, <3>3
    <3>5. ChartError(files) = all[m]
      BY <2>3, <3>4
    <3> QED BY <2>1, <3>4, <3>5 DEF Pass
  <2> QED BY <2>4, <2>5
<1>11. Pass(c1) <=> SoundAccounts(A)
  BY <1>2, <1>3, AccountsPass DEF Pass
<1>12. Pass(c2) /\ Pass(c3) <=> SoundEntities(E)
  BY <1>2, <1>3, EntitiesPass DEF Pass
<1>13. Pass(c4) <=> Distinct(S)
  BY <1>2, <1>3, SourcesPass DEF Pass
<1> QED BY <1>1, <1>9, <1>10, <1>11, <1>12, <1>13 DEF SoundFiles

\* Rows in another order: any two rows of either file are two rows of the other.
Matched(s, rows) ==
    \A m, n \in DOMAIN s : \E i, j \in DOMAIN rows :
        s[m] = rows[i] /\ s[n] = rows[j] /\ (m # n => i # j)

Reordered(s, rows) == Matched(s, rows) /\ Matched(rows, s)

LEMMA RowsReordered ==
  ASSUME NEW s, NEW rows, Reordered(s, rows)
  PROVE  /\ Reordered(rows, s)
         /\ \A n \in DOMAIN s : \E i \in DOMAIN rows : s[n] = rows[i]
         /\ \A i \in DOMAIN rows : \E n \in DOMAIN s : s[n] = rows[i]
<1>1. ASSUME NEW n \in DOMAIN s PROVE \E i \in DOMAIN rows : s[n] = rows[i]
  <2>1. \E i, j \in DOMAIN rows : s[n] = rows[i] /\ s[n] = rows[j] /\ (n # n => i # j)
    BY DEF Reordered, Matched
  <2> QED BY <2>1
<1>2. ASSUME NEW i \in DOMAIN rows PROVE \E n \in DOMAIN s : s[n] = rows[i]
  <2>1. \E m, n \in DOMAIN s : rows[i] = s[m] /\ rows[i] = s[n] /\ (i # i => m # n)
    BY DEF Reordered, Matched
  <2> QED BY <2>1
<1> QED BY <1>1, <1>2 DEF Reordered

LEMMA ShufflesReorder ==
  ASSUME NEW T, NEW rows \in Seq(T), NEW s \in Shuffles(rows)
  PROVE  s \in Seq(T) /\ Reordered(s, rows)
<1>1. PICK N \in Nat : N = Len(rows) /\ DOMAIN rows = 1..N
  OBVIOUS
<1>2. PICK p \in Bijection(1..N, 1..N) : s = [n \in 1..N |-> rows[p[n]]]
  BY <1>1 DEF Shuffles
<1>3. /\ \A n \in 1..N : p[n] \in 1..N
      /\ \A m, n \in 1..N : m # n => p[m] # p[n]
      /\ \A k \in 1..N : \E n \in 1..N : p[n] = k
  BY <1>2 DEF Bijection, Injection, Surjection, IsInjective
<1>4. s \in [1..N -> T] /\ DOMAIN s = 1..N
  BY <1>1, <1>2, <1>3
<1>5. s \in Seq(T)
  BY <1>4
<1>6. ASSUME NEW m \in 1..N, NEW n \in 1..N
      PROVE  \E i, j \in 1..N : s[m] = rows[i] /\ s[n] = rows[j] /\ (m # n => i # j)
  <2>1. /\ p[m] \in 1..N /\ p[n] \in 1..N /\ s[m] = rows[p[m]] /\ s[n] = rows[p[n]]
        /\ m # n => p[m] # p[n]
    BY <1>2, <1>3
  <2> QED BY <2>1
<1>7. ASSUME NEW i \in 1..N, NEW j \in 1..N
      PROVE  \E m, n \in 1..N : rows[i] = s[m] /\ rows[j] = s[n] /\ (i # j => m # n)
  <2>1. PICK m \in 1..N : p[m] = i
    BY <1>3
  <2>2. PICK n \in 1..N : p[n] = j
    BY <1>3
  <2>3. rows[i] = s[m] /\ rows[j] = s[n] /\ (i # j => m # n)
    BY <1>2, <2>1, <2>2
  <2> QED BY <2>3
<1>8. DOMAIN s = DOMAIN rows /\ DOMAIN rows = 1..N
  BY <1>1, <1>4
<1>9. Matched(s, rows)
  <2> SUFFICES ASSUME NEW m \in DOMAIN s, NEW n \in DOMAIN s
               PROVE  \E i, j \in DOMAIN rows : s[m] = rows[i] /\ s[n] = rows[j] /\ (m # n => i # j)
    BY DEF Matched
  <2>1. PICK i, j \in 1..N : s[m] = rows[i] /\ s[n] = rows[j] /\ (m # n => i # j)
    BY <1>6, <1>8
  <2> QED BY <1>8, <2>1
<1>10. Matched(rows, s)
  <2> SUFFICES ASSUME NEW i \in DOMAIN rows, NEW j \in DOMAIN rows
               PROVE  \E m, n \in DOMAIN s : rows[i] = s[m] /\ rows[j] = s[n] /\ (i # j => m # n)
    BY DEF Matched
  <2>1. PICK m, n \in 1..N : rows[i] = s[m] /\ rows[j] = s[n] /\ (i # j => m # n)
    BY <1>7, <1>8
  <2> QED BY <1>8, <2>1
<1> QED BY <1>5, <1>9, <1>10 DEF Reordered

LEMMA DistinctReordered ==
  ASSUME NEW s, NEW rows, Reordered(s, rows), Distinct(rows)
  PROVE  Distinct(s)
<1> SUFFICES ASSUME NEW m \in DOMAIN s, NEW n \in DOMAIN s, m # n PROVE s[m].code # s[n].code
  BY DEF Distinct
<1>1. PICK i, j \in DOMAIN rows : s[m] = rows[i] /\ s[n] = rows[j] /\ (m # n => i # j)
  BY DEF Reordered, Matched
<1> QED BY <1>1 DEF Distinct

LEMMA AccountsReordered ==
  ASSUME NEW s, NEW rows, Reordered(s, rows), SoundAccounts(rows)
  PROVE  SoundAccounts(s)
<1>1. Distinct(s)
  BY DistinctReordered DEF SoundAccounts
<1>2. ASSUME NEW n \in DOMAIN s PROVE s[n].currency # Malformed
  <2>1. PICK i \in DOMAIN rows : s[n] = rows[i]
    BY RowsReordered
  <2> QED BY <2>1 DEF SoundAccounts
<1>3. ASSUME NEW m \in DOMAIN s, NEW n \in DOMAIN s, m # n, s[n].subledger # None
      PROVE  s[m].subledger # s[n].subledger
  <2>1. PICK i, j \in DOMAIN rows : s[m] = rows[i] /\ s[n] = rows[j] /\ (m # n => i # j)
    BY DEF Reordered, Matched
  <2> QED BY <1>3, <2>1 DEF SoundAccounts
<1> QED BY <1>1, <1>2, <1>3 DEF SoundAccounts

LEMMA EntitiesReordered ==
  ASSUME NEW s, NEW rows, Reordered(s, rows), SoundEntities(rows)
  PROVE  SoundEntities(s)
<1>1. Distinct(s)
  BY DistinctReordered DEF SoundEntities
<1>2. ASSUME NEW n \in DOMAIN s
      PROVE  /\ s[n].functional_ccy # Malformed
             /\ s[n].parent = None \/ \E m \in DOMAIN s : s[n].parent = s[m].code
  <2>1. PICK i \in DOMAIN rows : s[n] = rows[i]
    BY RowsReordered
  <2>2. rows[i].functional_ccy # Malformed
    BY DEF SoundEntities
  <2>3. CASE rows[i].parent = None
    BY <2>1, <2>2, <2>3
  <2>4. ASSUME NEW j \in DOMAIN rows, rows[i].parent = rows[j].code
        PROVE  \E m \in DOMAIN s : s[n].parent = s[m].code
    <3>1. PICK m \in DOMAIN s : s[m] = rows[j]
      BY RowsReordered
    <3> QED BY <2>1, <2>4, <3>1
  <2>5. rows[i].parent = None \/ \E j \in DOMAIN rows : rows[i].parent = rows[j].code
    BY DEF SoundEntities
  <2> QED BY <2>1, <2>2, <2>4, <2>5
<1> QED BY <1>1, <1>2 DEF SoundEntities

\* Of rows with a code each, a map by code finds them all, whatever their order.
LEMMA ByCodeFinds ==
  ASSUME NEW T, NEW rows \in Seq(T), Distinct(rows), NEW n \in DOMAIN rows
  PROVE  /\ rows[n].code \in DOMAIN ByCode(rows)
         /\ ByCode(rows)[rows[n].code] = rows[n]
<1>1. rows[n].code \in DOMAIN ByCode(rows)
  BY DEF ByCode
<1>2. PICK k \in 1..Len(rows) : ByCode(rows)[rows[n].code] = rows[k] /\ rows[k].code = rows[n].code
  BY <1>1, ByCodeIs
<1>3. k \in DOMAIN rows
  BY <1>2
<1>4. k = n
  BY <1>2, <1>3 DEF Distinct
<1> QED BY <1>1, <1>2, <1>4

LEMMA ByCodeReordered ==
  ASSUME NEW T, NEW rows \in Seq(T), NEW s \in Seq(T), Reordered(s, rows), Distinct(rows)
  PROVE  ByCode(s) = ByCode(rows)
<1>1. PICK f, g : f = ByCode(s) /\ g = ByCode(rows)
  OBVIOUS
<1>2. Distinct(s)
  BY DistinctReordered
<1>3. PICK C : C = {rows[n].code : n \in DOMAIN rows}
  OBVIOUS
<1>4. {s[n].code : n \in DOMAIN s} = C
  <2>1. ASSUME NEW n \in DOMAIN s PROVE \E i \in DOMAIN rows : s[n].code = rows[i].code
    <3>1. PICK i \in DOMAIN rows : s[n] = rows[i]
      BY RowsReordered
    <3> QED BY <3>1
  <2>2. ASSUME NEW i \in DOMAIN rows PROVE \E n \in DOMAIN s : rows[i].code = s[n].code
    <3>1. PICK n \in DOMAIN s : s[n] = rows[i]
      BY RowsReordered
    <3> QED BY <3>1
  <2>3. PICK U, V : U = {s[n].code : n \in DOMAIN s} /\ V = {rows[i].code : i \in DOMAIN rows}
    OBVIOUS
  <2>4. U \subseteq V
    BY <2>1, <2>3
  <2>5. V \subseteq U
    BY <2>2, <2>3
  <2>6. U = V
    BY <2>4, <2>5
  <2> QED BY <1>3, <2>3, <2>6
<1>5. DOMAIN f = C /\ DOMAIN g = C
  BY <1>1, <1>3, <1>4 DEF ByCode
<1>6. ASSUME NEW code \in C PROVE f[code] = g[code]
  <2>1. PICK k \in DOMAIN rows : rows[k].code = code
    BY <1>3
  <2>2. PICK n \in DOMAIN s : s[n] = rows[k]
    BY RowsReordered
  <2>3. g[code] = rows[k]
    BY <1>1, <2>1, ByCodeFinds
  <2>4. f[code] = s[n]
    BY <1>1, <1>2, <2>1, <2>2, ByCodeFinds
  <2> QED BY <2>2, <2>3, <2>4
<1>7. f = [code \in C |-> f[code]]
  BY <1>1, <1>4 DEF ByCode
<1>8. g = [code \in C |-> g[code]]
  BY <1>1, <1>3 DEF ByCode
<1> QED BY <1>1, <1>6, <1>7, <1>8

\* The control account of a subledger is the one row that claims it.
LEMMA ControlsFind ==
  ASSUME NEW T, NEW rows \in Seq(T), SoundAccounts(rows), NEW n \in DOMAIN rows,
         rows[n].subledger # None
  PROVE  /\ rows[n].subledger \in DOMAIN Controls(rows)
         /\ Controls(rows)[rows[n].subledger] = rows[n].code
<1>1. PICK N \in Nat : N = Len(rows) /\ DOMAIN rows = 1..N
  OBVIOUS
<1>2. PICK sub, I : sub = rows[n].subledger /\ I = {k \in 1..N : rows[k].subledger = sub}
  OBVIOUS
<1>3. I \in SUBSET (1..N) /\ I # {}
  BY <1>1, <1>2
<1>4. PICK m : m = Max(I)
  OBVIOUS
<1>5. m \in I
  BY <1>3, <1>4, BoundsExist
<1>6. sub \in {rows[k].subledger : k \in DOMAIN rows} \ {None}
  BY <1>2
<1>7. Controls(rows)[sub] = rows[m].code
  BY <1>1, <1>2, <1>3, <1>4, <1>6 DEF Controls, SelectLastInSeq
<1>8. sub \in DOMAIN Controls(rows)
  BY <1>6 DEF Controls
<1>9. m = n
  BY <1>1, <1>2, <1>5 DEF SoundAccounts
<1> QED BY <1>2, <1>7, <1>8, <1>9

LEMMA ControlsReordered ==
  ASSUME NEW T, NEW rows \in Seq(T), NEW s \in Seq(T), Reordered(s, rows),
         SoundAccounts(rows)
  PROVE  Controls(s) = Controls(rows)
<1>1. PICK f, g : f = Controls(s) /\ g = Controls(rows)
  OBVIOUS
<1>2. SoundAccounts(s)
  BY AccountsReordered
<1>3. PICK C : C = {rows[n].subledger : n \in DOMAIN rows} \ {None}
  OBVIOUS
<1>4. {s[n].subledger : n \in DOMAIN s} \ {None} = C
  <2>1. ASSUME NEW n \in DOMAIN s PROVE \E i \in DOMAIN rows : s[n].subledger = rows[i].subledger
    <3>1. PICK i \in DOMAIN rows : s[n] = rows[i]
      BY RowsReordered
    <3> QED BY <3>1
  <2>2. ASSUME NEW i \in DOMAIN rows PROVE \E n \in DOMAIN s : rows[i].subledger = s[n].subledger
    <3>1. PICK n \in DOMAIN s : s[n] = rows[i]
      BY RowsReordered
    <3> QED BY <3>1
  <2>3. PICK U, V : U = {s[n].subledger : n \in DOMAIN s} /\ V = {rows[i].subledger : i \in DOMAIN rows}
    OBVIOUS
  <2>4. U \subseteq V
    BY <2>1, <2>3
  <2>5. V \subseteq U
    BY <2>2, <2>3
  <2>6. U = V
    BY <2>4, <2>5
  <2> QED BY <1>3, <2>3, <2>6
<1>5. ASSUME NEW sub \in C PROVE f[sub] = g[sub]
  <2>1. PICK k \in DOMAIN rows : rows[k].subledger = sub /\ sub # None
    BY <1>3
  <2>2. PICK n \in DOMAIN s : s[n] = rows[k]
    BY RowsReordered
  <2>3. g[sub] = rows[k].code
    BY <1>1, <2>1, ControlsFind
  <2>4. f[sub] = s[n].code
    BY <1>1, <1>2, <2>1, <2>2, ControlsFind
  <2> QED BY <2>2, <2>3, <2>4
<1>6. f = [sub \in C |-> f[sub]]
  BY <1>1, <1>4 DEF Controls
<1>7. g = [sub \in C |-> g[sub]]
  BY <1>1, <1>3 DEF Controls
<1> QED BY <1>1, <1>5, <1>6, <1>7

\* load answers the same for the files in any other order of their rows.
LEMMA FilesReordered ==
  ASSUME NEW files \in ReferenceFiles, NEW other \in ShuffledFiles(files)
  PROVE  /\ ChartError(other) = None <=> ChartError(files) = None
         /\ ChartError(files) = None => ChartOfAccounts(other) = ChartOfAccounts(files)
<1>1. PICK A, E, S, a, e, s : /\ A = files.accounts /\ E = files.entities /\ S = files.sources
                              /\ a = other.accounts /\ e = other.entities /\ s = other.sources
  OBVIOUS
<1>2. A \in Seq(Account) /\ E \in Seq(Entity) /\ S \in Seq([code : STRING])
  BY <1>1 DEF ReferenceFiles
<1>3. a \in Shuffles(A) /\ e \in Shuffles(E) /\ s \in Shuffles(S)
  BY <1>1 DEF ShuffledFiles
<1>4. a \in Seq(Account) /\ Reordered(a, A) /\ Reordered(A, a)
  BY <1>2, <1>3, ShufflesReorder, RowsReordered
<1>5. e \in Seq(Entity) /\ Reordered(e, E) /\ Reordered(E, e)
  BY <1>2, <1>3, ShufflesReorder, RowsReordered
<1>6. s \in Seq([code : STRING]) /\ Reordered(s, S) /\ Reordered(S, s)
  BY <1>2, <1>3, ShufflesReorder, RowsReordered
<1>7. other \in ReferenceFiles
  BY <1>1, <1>4, <1>5, <1>6 DEF ShuffledFiles, ReferenceFiles
<1>8. SoundFiles(other) <=> SoundFiles(files)
  <2>1. SoundAccounts(a) <=> SoundAccounts(A)
    BY <1>4, AccountsReordered
  <2>2. SoundEntities(e) <=> SoundEntities(E)
    BY <1>5, EntitiesReordered
  <2>3. Distinct(s) <=> Distinct(S)
    BY <1>6, DistinctReordered
  <2> QED BY <1>1, <2>1, <2>2, <2>3 DEF SoundFiles
<1>9. ASSUME SoundFiles(files) PROVE ChartOfAccounts(other) = ChartOfAccounts(files)
  <2>1. SoundAccounts(A) /\ Distinct(A) /\ Distinct(E) /\ Distinct(S)
    BY <1>1, <1>9 DEF SoundFiles, SoundAccounts, SoundEntities
  <2>2. ByCode(a) = ByCode(A)
    BY <1>2, <1>4, <2>1, ByCodeReordered
  <2>3. ByCode(e) = ByCode(E)
    BY <1>2, <1>5, <2>1, ByCodeReordered
  <2>4. ByCode(s) = ByCode(S)
    BY <1>2, <1>6, <2>1, ByCodeReordered
  <2>5. Controls(a) = Controls(A)
    BY <1>2, <1>4, <2>1, ControlsReordered
  <2> QED BY <1>1, <2>2, <2>3, <2>4, <2>5 DEF ChartOfAccounts
<1> QED BY <1>7, <1>8, <1>9, LoadsWhenSound

\* ChartOfAccounts::load of chart.rs: whether the reference files load, and into which
\* chart, does not depend on the order of their rows, and every row is found again.
THEOREM OrderIgnored == RunnerSpec => []ChartIgnoresFileOrder
<1>1. RunnerInv => ChartIgnoresFileOrder
  <2> SUFFICES ASSUME FilesInv, ProgressInv, ResultInv, position = 0, chart # None \/ result # None
               PROVE  OrderOfRowsIsIrrelevant /\ (chart # None => RowsAreFound)
    BY DEF RunnerInv, ChartIgnoresFileOrder
  <2>1. reference \in ReferenceFiles
    BY DEF FilesInv
  <2>2. CASE chart = None
    <3>1. ChartError(reference) # None
      <4>1. position \notin DOMAIN scenario.operations
        BY DEF FilesInv, IsScenario
      <4>2. position # Len(scenario.operations) + 1
        <5>1. Len(scenario.operations) \in Nat
          BY DEF FilesInv, IsScenario
        <5> QED BY <5>1
      <4> QED BY <2>2, <4>1, <4>2 DEF ResultInv
    <3>2. \A files \in ShuffledFiles(reference) : ChartError(files) # None
      BY <2>1, <3>1, FilesReordered
    <3> QED BY <2>2, <3>2 DEF OrderOfRowsIsIrrelevant
  <2>3. CASE chart # None
    <3>1. ChartError(reference) = None /\ chart = ChartOfAccounts(reference)
      BY <2>3 DEF FilesInv
    <3>2. \A files \in ShuffledFiles(reference) :
             ChartError(files) = None /\ ChartOfAccounts(files) = chart
      BY <2>1, <3>1, FilesReordered
    <3>3. PICK rows \in Seq(Account) : rows = reference.accounts
      BY <2>1 DEF ReferenceFiles
    <3>4. SoundAccounts(rows) /\ Distinct(rows)
      BY <2>1, <3>1, <3>3, LoadsWhenSound DEF SoundFiles, SoundAccounts
    <3>5. chart.by_code = ByCode(rows) /\ chart.controls = Controls(rows)
      BY <3>1, <3>3 DEF ChartOfAccounts
    <3>6. ASSUME NEW n \in DOMAIN rows, NEW row, row = rows[n]
          PROVE  /\ resolve(label(row)) = row
                 /\ row.subledger # None => control_account(row.subledger) = row
      <4>1. row.code \in DOMAIN chart.by_code /\ chart.by_code[row.code] = row
        BY <3>4, <3>5, <3>6, ByCodeFinds
      <4>2. resolve(label(row)) = row
        BY <4>1 DEF resolve, label
      <4>3. ASSUME row.subledger # None PROVE control_account(row.subledger) = row
        <5>1. row.subledger \in DOMAIN chart.controls /\ chart.controls[row.subledger] = row.code
          BY <3>4, <3>5, <3>6, <4>3, ControlsFind
        <5> QED BY <4>1, <5>1 DEF control_account
      <4> QED BY <4>2, <4>3
    <3>7. RowsAreFound
      BY <3>3, <3>6 DEF RowsAreFound
    <3> QED BY <2>3, <3>2, <3>7 DEF OrderOfRowsIsIrrelevant
  <2> QED BY <2>2, <2>3
<1> QED BY <1>1, RunnerInvariant, PTL

-----------------------------------------------------------------------------
(* What the generator draws. *)

SpecLine(line) == line \in JournalLine /\ OneSided(line) /\ validate(line).currency = SpecCurrency

SpecLines(lines) == lines \in Seq(JournalLine) /\ \A n \in DOMAIN lines : SpecLine(lines[n])

SumOfLines(lines) == Total(Signed(lines), 1..Len(lines))

\* The line that closes an entry makes the sum of its lines zero.
Closed(lines) == SpecLines(lines) /\ lines # <<>> /\ SumOfLines(lines) = 0

LEMMA SpecLinesValued ==
  ASSUME NEW lines, SpecLines(lines)
  PROVE  /\ lines \in Seq(JournalLine) /\ Len(lines) \in Nat /\ DOMAIN lines = 1..Len(lines)
         /\ \A n \in 1..Len(lines) : OneSided(lines[n])
         /\ Valued(Signed(lines), 1..Len(lines)) /\ IsFiniteSet(1..Len(lines))
         /\ SumOfLines(lines) \in Int
<1>1. /\ lines \in Seq(JournalLine) /\ Len(lines) \in Nat /\ DOMAIN lines = 1..Len(lines)
      /\ \A n \in 1..Len(lines) : OneSided(lines[n])
  BY DEF SpecLines, SpecLine
<1>2. Valued(Signed(lines), 1..Len(lines)) /\ IsFiniteSet(1..Len(lines))
  <2>1. Valued(Signed(lines), 1..Len(lines))
    BY <1>1, SignedType
  <2>2. IsFiniteSet(1..Len(lines))
    BY <1>1, FS_Interval
  <2> QED BY <2>1, <2>2
<1> QED BY <1>1, <1>2, TotalType DEF SumOfLines

\* A line more.
LEMMA MoreLines ==
  ASSUME NEW lines, SpecLines(lines), NEW line, SpecLine(line)
  PROVE  /\ SpecLines(Append(lines, line))
         /\ signed_amount(line).amount \in Int
         /\ SumOfLines(Append(lines, line)) = SumOfLines(lines) + signed_amount(line).amount
<1>1. PICK more, N, S, m, v, w :
         /\ more = Append(lines, line) /\ N = Len(lines) /\ S = 1..N /\ m = N + 1
         /\ v = Signed(lines) /\ w = Signed(more)
  OBVIOUS
<1>2. lines \in Seq(JournalLine) /\ line \in JournalLine /\ N \in Nat /\ DOMAIN lines = 1..N
  BY <1>1, SpecLinesValued DEF SpecLine
<1>3. /\ more \in Seq(JournalLine) /\ Len(more) = N + 1 /\ DOMAIN more = 1..(N + 1)
      /\ more[N + 1] = line /\ \A n \in 1..N : more[n] = lines[n]
  BY <1>1, <1>2
<1>4. SpecLines(more)
  <2> SUFFICES ASSUME NEW n \in 1..(N + 1) PROVE SpecLine(more[n])
    BY <1>3 DEF SpecLines
  <2>1. CASE n = N + 1
    BY <1>3, <2>1
  <2>2. CASE n \in 1..N
    BY <1>2, <1>3, <2>2 DEF SpecLines
  <2> QED BY <1>2, <2>1, <2>2
<1>5. S \union {m} = 1..(N + 1) /\ m \notin S /\ IsFiniteSet(S)
  <2>1. IsFiniteSet(S)
    BY <1>1, <1>2, FS_Interval
  <2>2. S \union {m} = 1..(N + 1) /\ m \notin S
    BY <1>1, <1>2
  <2> QED BY <2>1, <2>2
<1>6. Valued(w, S \union {m})
  BY <1>1, <1>3, <1>4, <1>5, SpecLinesValued
<1>7. Total(w, S \union {m}) = Total(w, S) + w[m]
  BY <1>5, <1>6, TotalAdd
<1>8. w[m] = signed_amount(line).amount
  BY <1>1, <1>2, <1>3 DEF Signed
<1>9. Total(w, S) = Total(v, S)
  <2>1. \A n \in S : w[n] = v[n]
    BY <1>1, <1>2, <1>3 DEF Signed
  <2>2. Valued(w, S)
    BY <1>6 DEF Valued
  <2> QED BY <1>5, <2>1, <2>2, TotalAgrees
<1>10. signed_amount(line).amount \in Int
  BY SignedAmountType DEF SpecLine, Money
<1>11. SumOfLines(more) = SumOfLines(lines) + signed_amount(line).amount
  BY <1>1, <1>3, <1>5, <1>7, <1>8, <1>9 DEF SumOfLines
<1> QED BY <1>1, <1>4, <1>10, <1>11

\* The two kinds of line the generator draws.
LEMMA DrawnLine ==
  ASSUME Len(SpecAccounts) >= 2, NEW index \in Indices, NEW amount \in Int
  PROVE  /\ InSpec(index)
         /\ SpecLine(DebitLine(index, amount)) /\ SpecLine(CreditLine(index, amount))
         /\ signed_amount(DebitLine(index, amount)).amount = amount
         /\ signed_amount(CreditLine(index, amount)).amount = -amount
<1>1. index \in Nat /\ index < Len(SpecAccounts) /\ SpecAccounts[index + 1] \in Accounts
  <2>1. Len(SpecAccounts) \in Nat /\ SpecAccounts \in Seq(Accounts)
    BY GeneratorAssumption
  <2>2. account_count = Len(SpecAccounts)
    BY <2>1 DEF account_count, AtLeast
  <2> QED BY <2>1, <2>2 DEF Indices
<1>2. PICK money, account : /\ money = [currency |-> SpecCurrency, amount |-> amount]
                            /\ account = SpecAccounts[index + 1]
  OBVIOUS
<1>3. money \in Money /\ money # None /\ account \in Accounts
      /\ money.currency = SpecCurrency /\ money.amount = amount
  BY <1>1, <1>2, GeneratorAssumption, NoneAssumption DEF Money
<1>4. PICK debit, credit :
         /\ debit = [account |-> account, credit |-> None, debit |-> money]
         /\ credit = [account |-> account, debit |-> None, credit |-> money]
  OBVIOUS
<1>5. debit = DebitLine(index, amount) /\ credit = CreditLine(index, amount)
  BY <1>2, <1>4 DEF DebitLine, CreditLine
<1>6. /\ debit \in JournalLine /\ OneSided(debit) /\ validate(debit).currency = SpecCurrency
      /\ signed_amount(debit).amount = amount
  BY <1>3, <1>4 DEF JournalLine, OneSided, validate, signed_amount
<1>7. /\ credit \in JournalLine /\ OneSided(credit) /\ validate(credit).currency = SpecCurrency
      /\ signed_amount(credit).amount = -amount
  <2>1. /\ credit.debit = None /\ credit.credit = money /\ credit \in JournalLine
    BY <1>3, <1>4 DEF JournalLine
  <2>2. signed_amount(credit) = [money EXCEPT !.amount = -@]
    BY <1>3, <2>1 DEF signed_amount
  <2>3. signed_amount(credit).amount = -amount
    BY <1>3, <2>2 DEF Money
  <2> QED BY <1>3, <2>1, <2>3 DEF OneSided, validate
<1> QED BY <1>1, <1>5, <1>6, <1>7 DEF InSpec, SpecLine

\* A closed entry is one that handle_command accepts.
LEMMA ClosedIsAccepted ==
  ASSUME NEW lines, Closed(lines)
  PROVE  Balanced(lines) /\ PostError(lines) = None
<1>1. PICK N, S, v, d, c :
         /\ N = Len(lines) /\ S = 1..N /\ v = Signed(lines)
         /\ d = Side(lines, TRUE) /\ c = Side(lines, FALSE)
  OBVIOUS
<1>2. /\ lines \in Seq(JournalLine) /\ N \in Nat /\ DOMAIN lines = S
      /\ \A n \in S : OneSided(lines[n])
      /\ Valued(v, S) /\ IsFiniteSet(S) /\ lines # <<>>
  BY <1>1, SpecLinesValued DEF Closed
<1>3. \A n \in S : lines[n] \in JournalLine /\ validate(lines[n]).currency = SpecCurrency
  BY <1>1, <1>2 DEF Closed, SpecLines, SpecLine
<1>4. Total(v, S) = 0
  BY <1>1 DEF Closed, SumOfLines
<1>5. Balanced(lines)
  <2>1. PICK g : AddsUp(g, v, S) /\ Total(v, S) = g[S]
    BY <1>2, TotalExists
  <2> QED BY <1>1, <1>2, <1>3, <1>4, <2>1 DEF Balanced
<1>6. Valued(d, S) /\ Valued(c, S)
  BY <1>1, <1>2, SideType
<1>7. ASSUME NEW n \in S PROVE d[n] = v[n] + c[n]
  <2>1. PICK line \in JournalLine : line = lines[n]
    BY <1>3
  <2>2. OneSided(line) /\ d[n] \in Int /\ c[n] \in Int
    BY <1>2, <1>6, <2>1 DEF Valued
  <2>3. /\ d[n] = IF (line.debit # None) = TRUE THEN validate(line).amount ELSE 0
        /\ c[n] = IF (line.debit # None) = FALSE THEN validate(line).amount ELSE 0
        /\ v[n] = signed_amount(line).amount
    BY <1>1, <2>1 DEF Side, Signed
  <2>4. CASE line.debit # None
    <3>1. line.credit = None
      BY <2>2, <2>4 DEF OneSided
    <3>2. validate(line) = line.debit /\ signed_amount(line) = line.debit
      BY <2>4, <3>1 DEF validate, signed_amount
    <3>3. d[n] = validate(line).amount /\ c[n] = 0
      BY <2>3, <2>4
    <3> QED BY <2>2, <2>3, <3>2, <3>3
  <2>5. CASE line.debit = None
    <3>1. line.credit # None /\ line.credit \in Money
      BY <2>2, <2>5 DEF OneSided, JournalLine
    <3>2. validate(line) = line.credit /\ signed_amount(line) = [line.credit EXCEPT !.amount = -@]
      BY <2>5, <3>1 DEF validate, signed_amount
    <3>3. signed_amount(line).amount = -validate(line).amount
      BY <3>1, <3>2 DEF Money
    <3>4. d[n] = 0 /\ c[n] = validate(line).amount
      BY <2>3, <2>5
    <3> QED BY <2>2, <2>3, <3>3, <3>4
  <2> QED BY <2>4, <2>5
<1>8. Total(d, S) = Total(c, S)
  <2>1. Together(d, v, c, S)
    BY <1>7 DEF Together
  <2>2. Total(d, S) = Total(v, S) + Total(c, S)
    BY <1>2, <1>6, <2>1, TotalPlus
  <2>3. Total(c, S) \in Int
    BY <1>2, <1>6, TotalType
  <2> QED BY <1>4, <2>2, <2>3
<1>9. SideTotal(lines, TRUE) = Total(d, S) /\ SideTotal(lines, FALSE) = Total(c, S)
  <2>1. ASSUME NEW side \in BOOLEAN PROVE SideTotal(lines, side) = Total(Side(lines, side), S)
    <3>1. PICK g : AddsUp(g, Side(lines, side), S) /\ SideTotal(lines, side) = g[S]
      BY <1>1, <1>2, SideTotalAddsUp
    <3>2. Valued(Side(lines, side), S)
      BY <1>1, <1>2, SideType
    <3> QED BY <1>2, <3>1, <3>2, TotalIs
  <2> QED BY <1>1, <2>1
<1>10. 1 \in S /\ OneSided(lines[1]) /\ validate(lines[1]).currency = SpecCurrency
  <2>1. 1 \in S
    BY <1>1, <1>2
  <2> QED BY <1>2, <1>3, <2>1
<1>11. ASSUME NEW n \in S PROVE LineError(lines[n], SpecCurrency) = None
  <2>1. PICK line : line = lines[n]
    OBVIOUS
  <2>2. OneSided(line) /\ validate(line).currency = SpecCurrency
    BY <1>2, <1>3, <2>1
  <2>3. LineError(line, SpecCurrency) = None
    BY <2>2 DEF LineError, OneSided
  <2> QED BY <2>1, <2>3
<1>12. {n \in DOMAIN lines : LineError(lines[n], SpecCurrency) # None} = {}
  BY <1>2, <1>11
<1>13. PostError(lines) = None
  BY <1>2, <1>8, <1>9, <1>10, <1>12 DEF PostError
<1> QED BY <1>5, <1>13

-----------------------------------------------------------------------------
(* The balances the aggregate projects from what was generated. *)

SpecHome == [a \in Accounts |-> SpecCurrency]

\* The log that holds the entries G, and what it projects to.
EntryEvents(G) == [i \in DOMAIN G |-> [kind |-> "JournalEntryPosted", id |-> i, lines |-> G[i]]]

Projected(G) == replay(EntryEvents(G)).balances

BroughtOn(G, a) == [i \in DOMAIN G |-> NetOn(G[i], a)]

Touched(G, a) == \E i \in DOMAIN G : \E n \in DOMAIN G[i] : G[i][n].account = a

\* Every entry is closed; the projection holds, in the currency of the specification,
\* what the entries bring to each account, and an account they do not touch not at all.
BooksOf(G) ==
    /\ G \in Seq(Seq(JournalLine)) /\ Len(G) <= SpecEntries
    /\ \A i \in DOMAIN G : Closed(G[i])
    /\ EntryEvents(G) \in Seq(LedgerEvent)
    /\ Projected(G) \in Balances /\ KeptAtHome(SpecHome, Projected(G))
    /\ \A a \in Accounts : /\ Amount(Projected(G))[a] = Total(BroughtOn(G, a), DOMAIN G)
                           /\ Projected(G)[a] # None <=> Touched(G, a)

LEMMA NoBooks == BooksOf(<<>>)
<1>1. PICK G : G = <<>> /\ G \in Seq(Seq(JournalLine)) /\ Len(G) = 0 /\ DOMAIN G = {}
  <2>1. <<>> \in Seq(Seq(JournalLine))
    OBVIOUS
  <2>2. Len(<<>>) = 0 /\ DOMAIN <<>> = {}
    OBVIOUS
  <2>3. PICK G : G = <<>>
    OBVIOUS
  <2> QED BY <2>1, <2>2, <2>3
<1>2. PICK played : played = EntryEvents(G)
  OBVIOUS
<1>3. played = <<>> /\ played \in Seq(LedgerEvent)
  BY <1>1, <1>2 DEF EntryEvents
<1>4. PICK b : b = Projected(G)
  OBVIOUS
<1>5. b = [a \in Accounts |-> None]
  <2>1. replay(played) = DefaultState
    BY <1>3, ReplayStep
  <2> QED BY <1>2, <1>4, <2>1 DEF Projected, DefaultState
<1>6. b \in Balances /\ KeptAtHome(SpecHome, b)
  BY <1>5 DEF Balances, KeptAtHome
<1>7. ASSUME NEW a \in Accounts
      PROVE  Amount(b)[a] = Total(BroughtOn(G, a), DOMAIN G) /\ (b[a] # None <=> Touched(G, a))
  <2>1. Amount(b)[a] = 0
    BY <1>5 DEF Amount
  <2>2. Total(BroughtOn(G, a), DOMAIN G) = 0
    BY <1>1, TotalEmpty
  <2> QED BY <1>1, <1>5, <2>1, <2>2 DEF Touched
<1>8. Len(G) <= SpecEntries
  BY <1>1, GeneratorAssumption
<1> QED BY <1>1, <1>2, <1>3, <1>4, <1>6, <1>7, <1>8 DEF BooksOf

LEMMA MoreBooks ==
  ASSUME NEW G, BooksOf(G), Len(G) < SpecEntries, NEW lines, Closed(lines)
  PROVE  BooksOf(Append(G, lines))
<1>1. PICK H, N : H = Append(G, lines) /\ N = Len(G)
  OBVIOUS
<1>2. /\ G \in Seq(Seq(JournalLine)) /\ N \in Nat /\ DOMAIN G = 1..N
      /\ lines \in Seq(JournalLine) /\ Balanced(lines)
  BY <1>1, ClosedIsAccepted DEF BooksOf, Closed, SpecLines
<1>3. /\ H \in Seq(Seq(JournalLine)) /\ Len(H) = N + 1 /\ DOMAIN H = 1..(N + 1)
      /\ H[N + 1] = lines /\ \A i \in 1..N : H[i] = G[i]
  BY <1>1, <1>2
<1>4. Len(H) <= SpecEntries /\ N + 1 \in EntryIds
  <2>1. SpecEntries \in Nat /\ N < SpecEntries
    BY <1>1, GeneratorAssumption
  <2>2. N + 1 \in 1..SpecEntries /\ N + 1 <= SpecEntries
    BY <1>2, <2>1
  <2> QED BY <1>3, <2>2, GeneratorAssumption
<1>5. \A i \in DOMAIN H : Closed(H[i])
  <2> SUFFICES ASSUME NEW i \in 1..(N + 1) PROVE Closed(H[i])
    BY <1>3
  <2>1. CASE i = N + 1
    BY <1>3, <2>1
  <2>2. CASE i \in 1..N
    BY <1>2, <1>3, <2>2 DEF BooksOf
  <2> QED BY <1>2, <2>1, <2>2
<1>6. PICK event, played, longer :
         /\ event = [kind |-> "JournalEntryPosted", id |-> N + 1, lines |-> lines]
         /\ played = EntryEvents(G) /\ longer = EntryEvents(H)
  OBVIOUS
<1>7. event \in LedgerEvent /\ event.kind = "JournalEntryPosted"
      /\ event.id = N + 1 /\ event.lines = lines
  BY <1>2, <1>4, <1>6 DEF LedgerEvent
<1>8. played \in Seq(LedgerEvent) /\ longer = Append(played, event) /\ longer \in Seq(LedgerEvent)
  <2>1. played \in Seq(LedgerEvent)
    BY <1>6 DEF BooksOf
  <2>2. played = [i \in 1..N |-> [kind |-> "JournalEntryPosted", id |-> i, lines |-> G[i]]]
    BY <1>2, <1>6 DEF EntryEvents
  <2>3. longer = [i \in 1..(N + 1) |-> [kind |-> "JournalEntryPosted", id |-> i, lines |-> H[i]]]
    BY <1>3, <1>6 DEF EntryEvents
  <2>4. Len(played) = N
    <3>1. DOMAIN played = 1..N
      BY <2>2
    <3> QED BY <1>2, <2>1, <3>1
  <2>5. PICK more : more = Append(played, event)
    OBVIOUS
  <2>6. more \in Seq(LedgerEvent) /\ Len(more) = N + 1 /\ more[N + 1] = event
        /\ \A i \in 1..N : more[i] = played[i]
    BY <1>7, <2>1, <2>4, <2>5
  <2>7. more = [i \in 1..(N + 1) |-> more[i]]
    BY <1>2, <2>6
  <2>8. \A i \in 1..(N + 1) : more[i] = longer[i]
    <3> SUFFICES ASSUME NEW i \in 1..(N + 1) PROVE more[i] = longer[i]
      OBVIOUS
    <3>1. CASE i = N + 1
      BY <1>2, <1>3, <1>6, <2>3, <2>6, <3>1
    <3>2. CASE i \in 1..N
      BY <1>2, <1>3, <2>2, <2>3, <2>6, <3>2
    <3> QED BY <1>2, <3>1, <3>2
  <2>9. longer = [i \in 1..(N + 1) |-> longer[i]]
    BY <2>3
  <2>10. longer = more
    BY <2>7, <2>8, <2>9
  <2> QED BY <2>1, <2>5, <2>6, <2>10
<1>9. PICK b, c : b = Projected(G) /\ c = Projected(H)
  OBVIOUS
<1>10. b \in Balances /\ KeptAtHome(SpecHome, b)
       /\ \A a \in Accounts : /\ Amount(b)[a] = Total(BroughtOn(G, a), 1..N)
                              /\ b[a] # None <=> Touched(G, a)
  BY <1>2, <1>9 DEF BooksOf
<1>11. c = PostLines(b, lines)
  <2>1. PICK old : old = replay(played)
    OBVIOUS
  <2>2. old \in LedgerState
    BY <1>8, <2>1, ReplayType
  <2>3. replay(longer) = apply_event(old, event)
    BY <1>7, <1>8, <2>1, ReplayStep
  <2>4. apply_event(old, event) = post(old, N + 1, lines)
    BY <1>7 DEF apply_event
  <2>5. post(old, N + 1, lines).balances = PostLines(old.balances, lines)
    BY <2>2 DEF post, LedgerState
  <2> QED BY <1>6, <1>9, <2>1, <2>3, <2>4, <2>5 DEF Projected
<1>12. \A n \in DOMAIN lines : OneSided(lines[n])
  BY <1>2 DEF Balanced
<1>13. AtHome(SpecHome, lines)
  <2> SUFFICES ASSUME NEW n \in 1..Len(lines)
               PROVE  validate(lines[n]).currency = SpecHome[lines[n].account]
    BY DEF AtHome
  <2>1. lines[n] \in JournalLine /\ validate(lines[n]).currency = SpecCurrency
    BY <1>2 DEF Closed, SpecLines, SpecLine
  <2>2. lines[n].account \in Accounts
    BY <2>1 DEF JournalLine
  <2> QED BY <2>1, <2>2 DEF SpecHome
<1>14. c \in Balances /\ KeptAtHome(SpecHome, c)
  BY <1>2, <1>10, <1>11, <1>12, <1>13, PostLinesType, PostLinesHome
<1>15. ASSUME NEW a \in Accounts PROVE Amount(c)[a] = Total(BroughtOn(H, a), 1..(N + 1))
  <2>1. Amount(c)[a] = Amount(b)[a] + NetOn(lines, a)
    BY <1>2, <1>10, <1>11, <1>13, PostLinesOn
  <2>2. PICK v, w, S, m : /\ v = BroughtOn(G, a) /\ w = BroughtOn(H, a)
                          /\ S = 1..N /\ m = N + 1
    OBVIOUS
  <2>3. v = [i \in 1..N |-> NetOn(G[i], a)] /\ w = [i \in 1..(N + 1) |-> NetOn(H[i], a)]
    BY <1>2, <1>3, <2>2 DEF BroughtOn
  <2>4. ASSUME NEW i \in 1..(N + 1) PROVE w[i] \in Int
    <3>1. PICK it : it = H[i]
      OBVIOUS
    <3>2. Closed(it)
      BY <1>3, <1>5, <3>1
    <3>3. NetOn(it, a) \in Int
      BY <3>2, SpecLinesValued, NetOnType DEF Closed
    <3> QED BY <2>3, <3>1, <3>3
  <2>5. S \union {m} = 1..(N + 1) /\ m \notin S
    BY <1>2, <2>2
  <2>6. IsFiniteSet(S)
    BY <1>2, <2>2, FS_Interval
  <2>7. Valued(w, S \union {m}) /\ Valued(w, S)
    BY <2>4, <2>5 DEF Valued
  <2>8. Total(w, S \union {m}) = Total(w, S) + w[m]
    BY <2>5, <2>6, <2>7, TotalAdd
  <2>9. Total(w, S) = Total(v, S)
    <3>1. \A i \in S : w[i] = v[i]
      BY <1>2, <1>3, <2>2, <2>3
    <3> QED BY <2>6, <2>7, <3>1, TotalAgrees
  <2>10. w[m] = NetOn(lines, a)
    BY <1>2, <1>3, <2>2, <2>3
  <2>11. Amount(b)[a] = Total(v, S)
    BY <1>10, <2>2
  <2> QED BY <2>1, <2>2, <2>5, <2>8, <2>9, <2>10, <2>11
<1>16. ASSUME NEW a \in Accounts PROVE c[a] # None <=> Touched(H, a)
  <2>1. c[a] # None <=> b[a] # None \/ \E n \in DOMAIN lines : lines[n].account = a
    BY <1>2, <1>10, <1>11, <1>12, PostLinesTouch
  <2>2. Touched(H, a) <=> Touched(G, a) \/ \E n \in DOMAIN lines : lines[n].account = a
    <3>1. Touched(G, a) => Touched(H, a)
      <4> SUFFICES ASSUME NEW i \in 1..N, NEW n \in DOMAIN G[i], G[i][n].account = a
                   PROVE  Touched(H, a)
        BY <1>2 DEF Touched
      <4>1. i \in DOMAIN H /\ H[i] = G[i]
        BY <1>2, <1>3
      <4> QED BY <4>1 DEF Touched
    <3>2. (\E n \in DOMAIN lines : lines[n].account = a) => Touched(H, a)
      <4>1. N + 1 \in DOMAIN H
        BY <1>2, <1>3
      <4> QED BY <1>3, <4>1 DEF Touched
    <3>3. ASSUME NEW i \in DOMAIN H, NEW n \in DOMAIN H[i], H[i][n].account = a
          PROVE  Touched(G, a) \/ \E m \in DOMAIN lines : lines[m].account = a
      <4>1. CASE i = N + 1
        BY <1>3, <3>3, <4>1
      <4>2. CASE i \in 1..N
        BY <1>2, <1>3, <3>3, <4>2 DEF Touched
      <4> QED BY <1>2, <1>3, <4>1, <4>2
    <3> QED BY <3>1, <3>2, <3>3 DEF Touched
  <2> QED BY <1>10, <2>1, <2>2
<1>17. BooksOf(H)
  BY <1>3, <1>4, <1>5, <1>6, <1>8, <1>9, <1>14, <1>15, <1>16 DEF BooksOf
<1> QED BY <1>1, <1>17

-----------------------------------------------------------------------------
(* The generator's inductive invariant. *)

DrawnInv ==
    /\ BooksOf(generated)
    /\ drawing # None => /\ Len(generated) < SpecEntries
                         /\ SpecLines(drawn) /\ running = SumOfLines(drawn)

LEMMA DrawnStep ==
  ASSUME Len(SpecAccounts) >= 2, DrawnInv, [DrawNext]_generatorVars
  PROVE  DrawnInv'
<1>1. PICK G, H : G = generated /\ H = generated'
  OBVIOUS
<1>2. BooksOf(G)
  BY <1>1 DEF DrawnInv
<1>3. CASE UNCHANGED generatorVars
  <2>1. BooksOf(H)
    BY <1>1, <1>2, <1>3 DEF generatorVars
  <2> QED BY <1>1, <1>3, <2>1 DEF DrawnInv, generatorVars
<1>4. CASE BeginEntry
  <2>1. H = G /\ Len(generated) < SpecEntries /\ drawn' = <<>> /\ running' = 0
        /\ generated' = generated
    BY <1>1, <1>4 DEF BeginEntry
  <2>2. PICK lines : lines = <<>>
    OBVIOUS
  <2>3. SpecLines(lines) /\ SumOfLines(lines) = 0
    <3>1. lines \in Seq(JournalLine) /\ Len(lines) = 0 /\ DOMAIN lines = {} /\ 1..Len(lines) = {}
      BY <2>2
    <3> QED BY <3>1, TotalEmpty DEF SpecLines, SumOfLines
  <2>4. BooksOf(H) /\ drawn' = lines
    BY <1>2, <2>1, <2>2
  <2> QED BY <1>1, <2>1, <2>3, <2>4 DEF DrawnInv
<1>5. ASSUME NEW line, SpecLine(line), drawing # None, generated' = generated,
             drawn' = Append(drawn, line), running' = running + signed_amount(line).amount
      PROVE  DrawnInv'
  <2>1. PICK old, new : old = drawn /\ new = drawn'
    OBVIOUS
  <2>2. SpecLines(old) /\ running = SumOfLines(old) /\ Len(generated) < SpecEntries
    BY <1>5, <2>1 DEF DrawnInv
  <2>3. SpecLines(new) /\ SumOfLines(new) = SumOfLines(old) + signed_amount(line).amount
    BY <1>5, <2>1, <2>2, MoreLines
  <2>4. BooksOf(H) /\ running' = SumOfLines(new) /\ Len(generated') < SpecEntries
    BY <1>1, <1>2, <1>5, <2>2, <2>3
  <2> QED BY <1>1, <2>1, <2>3, <2>4 DEF DrawnInv
<1>6. CASE DrawDebit
  <2>1. PICK index \in Indices, minor \in 1 .. AtLeast(MaxMinorUnits, 1) :
           /\ drawn' = IF InSpec(index) THEN Append(drawn, DebitLine(index, minor)) ELSE drawn
           /\ running' = IF InSpec(index) THEN running + minor ELSE running
    BY <1>6 DEF DrawDebit
  <2>2. PICK line : line = DebitLine(index, minor)
    OBVIOUS
  <2>3. InSpec(index) /\ SpecLine(line) /\ signed_amount(line).amount = minor
    BY <2>2, DrawnLine
  <2> QED BY <1>5, <1>6, <2>1, <2>2, <2>3 DEF DrawDebit
<1>7. CASE DrawCredit
  <2>1. PICK index \in Indices, minor \in 1 .. AtLeast(MaxMinorUnits, 1) :
           /\ drawn' = IF InSpec(index) THEN Append(drawn, CreditLine(index, minor)) ELSE drawn
           /\ running' = IF InSpec(index) THEN running - minor ELSE running
    BY <1>7 DEF DrawCredit
  <2>2. PICK line : line = CreditLine(index, minor)
    OBVIOUS
  <2>3. InSpec(index) /\ SpecLine(line) /\ signed_amount(line).amount = -minor
    BY <2>2, DrawnLine
  <2>4. running \in Int
    BY <1>7, SpecLinesValued DEF DrawnInv, DrawCredit
  <2>5. running' = running + signed_amount(line).amount
    BY <2>1, <2>3, <2>4
  <2> QED BY <1>5, <1>7, <2>1, <2>2, <2>3, <2>5 DEF DrawCredit
<1>8. CASE Plug
  <2>1. PICK old : old = drawn /\ SpecLines(old) /\ running = SumOfLines(old) /\ running \in Int
                   /\ Len(G) < SpecEntries
    <3>1. drawing # None
      BY <1>8 DEF Plug
    <3> QED BY <1>1, <3>1, SpecLinesValued DEF DrawnInv
  <2>2. PICK index \in Indices :
          generated' = Append(generated,
                              IF InSpec(index)
                              THEN Append(drawn, IF running < 0 THEN DebitLine(index, -running)
                                                 ELSE CreditLine(index, running))
                              ELSE drawn)
    BY <1>8 DEF Plug
  <2>3. PICK closing : closing = IF running < 0 THEN DebitLine(index, -running)
                                 ELSE CreditLine(index, running)
    OBVIOUS
  <2>4. InSpec(index) /\ SpecLine(closing) /\ signed_amount(closing).amount = -running
    <3>1. InSpec(index)
      BY DrawnLine
    <3>2. CASE running < 0
      BY <2>1, <2>3, <3>1, <3>2, DrawnLine
    <3>3. CASE ~(running < 0)
      BY <2>1, <2>3, <3>1, <3>3, DrawnLine
    <3> QED BY <3>1, <3>2, <3>3
  <2>5. PICK lines : lines = Append(old, closing)
    OBVIOUS
  <2>6. H = Append(G, lines)
    BY <1>1, <2>1, <2>2, <2>3, <2>4, <2>5
  <2>7. Closed(lines)
    <3>1. SpecLines(lines) /\ SumOfLines(lines) = running + -running
      BY <2>1, <2>4, <2>5, MoreLines
    <3>2. lines # <<>>
      BY <2>1, <2>4, <2>5 DEF SpecLines, SpecLine
    <3> QED BY <2>1, <3>1, <3>2 DEF Closed
  <2>8. BooksOf(H)
    BY <1>2, <2>1, <2>6, <2>7, MoreBooks
  <2>9. drawing' = None
    BY <1>8 DEF Plug
  <2> QED BY <1>1, <2>8, <2>9 DEF DrawnInv
<1>9. CASE Finished
  BY <1>3, <1>9 DEF Finished
<1> QED BY <1>3, <1>4, <1>6, <1>7, <1>8, <1>9 DEF DrawNext

-----------------------------------------------------------------------------
(* The accumulator's ground truth. *)

\* What every line that was generated brings, by place.
Deltas == [p \in AllPlaces |-> Delta(LineOf(p))]

LEMMA DeltaIsSigned ==
  ASSUME NEW line \in JournalLine, OneSided(line)
  PROVE  Delta(line) = signed_amount(line).amount
<1>1. CASE line.debit # None
  <2>1. line.credit = None
    BY <1>1 DEF OneSided
  <2> QED BY <1>1, <2>1 DEF Delta, signed_amount
<1>2. CASE line.debit = None
  <2>1. line.credit # None /\ line.credit \in Money
    BY <1>2 DEF OneSided, JournalLine
  <2>2. Delta(line) = -line.credit.amount
    BY <1>2, <2>1 DEF Delta
  <2>3. signed_amount(line) = [line.credit EXCEPT !.amount = -@]
    BY <1>2, <2>1 DEF signed_amount
  <2> QED BY <2>1, <2>2, <2>3 DEF Money
<1> QED BY <1>1, <1>2

LEMMA DeltaSum ==
  ASSUME NEW S \in SUBSET AllPlaces
  PROVE  MapThenSumSet(LAMBDA p : Delta(LineOf(p)), S) = Total(Deltas, S)
<1>1. PICK v, ch : v = Deltas /\ ch = [s \in SUBSET S |-> First(s)]
  OBVIOUS
<1>2. Choice(ch, S)
  BY <1>1, FirstIsChoice
<1>3. ASSUME NEW g
      PROVE  Unfold(v, ch, SUBSET S, g) =
               [s \in SUBSET S |-> IF s = {} THEN 0
                                   ELSE Delta(LineOf(First(s))) + g[s \ {First(s)}]]
  <2>1. ASSUME NEW s \in SUBSET S, s # {}
        PROVE  ch[s] = First(s) /\ v[ch[s]] = Delta(LineOf(First(s)))
    <3>1. ch[s] = First(s) /\ ch[s] \in S
      BY <1>1, <1>2, <2>1 DEF Choice
    <3> QED BY <1>1, <3>1 DEF Deltas
  <2> QED BY <1>1, <2>1 DEF Unfold
<1>4. Sums(v, ch, S) =
        (CHOOSE g : g = [s \in SUBSET S |-> IF s = {} THEN 0
                            ELSE Delta(LineOf(First(s))) + g[s \ {First(s)}]])
  <2>1. Sums(v, ch, S) = (CHOOSE g : g = Unfold(v, ch, SUBSET S, g))
    BY DEF Sums
  <2>2. (CHOOSE g : g = Unfold(v, ch, SUBSET S, g)) =
        (CHOOSE g : g = [s \in SUBSET S |-> IF s = {} THEN 0
                            ELSE Delta(LineOf(First(s))) + g[s \ {First(s)}]])
    BY <1>3, Zenon
  <2> QED BY <2>1, <2>2, Zenon
<1>5. MapThenSumSet(LAMBDA p : Delta(LineOf(p)), S) = Sums(v, ch, S)[S]
  BY <1>4, Zenon DEF First, MapThenSumSet, MapThenFoldSet
<1> QED BY <1>1, <1>5 DEF Total

\* The places of the generated lines, and what is there.
LEMMA GeneratedPlaces ==
  ASSUME BooksOf(generated)
  PROVE  /\ Len(generated) \in Nat /\ DOMAIN generated = 1..Len(generated)
         /\ generated \in Seq(Seq(JournalLine))
         /\ AllPlaces = PlacesOf(generated, Len(generated)) /\ IsFiniteSet(AllPlaces)
         /\ \A p \in AllPlaces :
               /\ p = <<p[1], p[2]>> /\ p[1] \in DOMAIN generated /\ p[2] \in DOMAIN generated[p[1]]
               /\ LineOf(p) \in JournalLine /\ OneSided(LineOf(p)) /\ LineOf(p).account \in Accounts
               /\ Deltas[p] = signed_amount(LineOf(p)).amount /\ Deltas[p] \in Int
<1>1. Len(generated) \in Nat /\ DOMAIN generated = 1..Len(generated)
      /\ generated \in Seq(Seq(JournalLine))
  BY DEF BooksOf
<1>2. AllPlaces = PlacesOf(generated, Len(generated))
  BY <1>1 DEF AllPlaces, PlacesOf
<1>3. IsFiniteSet(AllPlaces)
  <2>1. \A i \in 1..Len(generated) : generated[i] \in Seq(JournalLine)
    BY <1>1
  <2>2. IsFiniteSet(PlacesOf(generated, Len(generated)))
    BY <1>1, <2>1, PlacesFinite
  <2> QED BY <1>2, <2>2
<1>4. ASSUME NEW p \in AllPlaces
      PROVE  /\ p = <<p[1], p[2]>> /\ p[1] \in DOMAIN generated /\ p[2] \in DOMAIN generated[p[1]]
             /\ LineOf(p) \in JournalLine /\ OneSided(LineOf(p)) /\ LineOf(p).account \in Accounts
             /\ Deltas[p] = signed_amount(LineOf(p)).amount /\ Deltas[p] \in Int
  <2>1. p = <<p[1], p[2]>> /\ p[1] \in 1..Len(generated) /\ p[2] \in DOMAIN generated[p[1]]
    BY <1>2, PlacesAre
  <2>2. PICK lines : lines = generated[p[1]] /\ Closed(lines)
    BY <1>1, <2>1 DEF BooksOf
  <2>3. PICK line : line = LineOf(p) /\ line = lines[p[2]] /\ SpecLine(line)
    BY <2>1, <2>2 DEF LineOf, Closed, SpecLines
  <2>4. line \in JournalLine /\ OneSided(line) /\ line.account \in Accounts
    BY <2>3 DEF SpecLine, JournalLine
  <2>5. Delta(line) = signed_amount(line).amount /\ signed_amount(line).amount \in Int
    BY <2>4, DeltaIsSigned, SignedAmountType DEF Money
  <2> QED BY <1>1, <2>1, <2>3, <2>4, <2>5 DEF Deltas
<1> QED BY <1>1, <1>2, <1>3, <1>4

\* All lines together bring nothing.
LEMMA DeltasCancel ==
  ASSUME BooksOf(generated)
  PROVE  Valued(Deltas, AllPlaces) /\ Total(Deltas, AllPlaces) = 0
<1>1. PICK G, N, P, v : G = generated /\ N = Len(G) /\ P = AllPlaces /\ v = Deltas
  OBVIOUS
<1>2. /\ N \in Nat /\ DOMAIN G = 1..N /\ IsFiniteSet(P) /\ P = PlacesOf(G, N)
      /\ \A i \in 1..N : G[i] \in Seq(JournalLine)
  BY <1>1, GeneratedPlaces
<1>3. Valued(v, P)
  BY <1>1, GeneratedPlaces DEF Valued
<1>4. PICK u : u = [i \in 1..N |-> Total(AtPlace(v, i, Len(G[i])), 1..Len(G[i]))]
  OBVIOUS
<1>5. Total(v, P) = Total(u, 1..N)
  <2>1. \A i \in 1..N : u[i] = Total(AtPlace(v, i, Len(G[i])), 1..Len(G[i]))
    BY <1>4
  <2>2. Valued(v, PlacesOf(G, N))
    BY <1>2, <1>3
  <2>3. N \in Nat /\ \A i \in 1..N : G[i] \in Seq(JournalLine)
    BY <1>2
  <2>4. Total(v, PlacesOf(G, N)) = Total(u, 1..N)
    BY <2>1, <2>2, <2>3, PlacesTotal
  <2> QED BY <1>2, <2>4
<1>6. ASSUME NEW i \in 1..N PROVE u[i] = 0
  <2>1. PICK lines, len : lines = G[i] /\ len = Len(lines) /\ Closed(lines)
    BY <1>1, <1>2 DEF BooksOf
  <2>2. /\ lines \in Seq(JournalLine) /\ len \in Nat /\ DOMAIN lines = 1..len
        /\ Valued(Signed(lines), 1..len) /\ IsFiniteSet(1..len)
    BY <2>1, SpecLinesValued DEF Closed
  <2>3. PICK x, y : x = AtPlace(v, i, len) /\ y = Signed(lines)
    OBVIOUS
  <2>4. ASSUME NEW n \in 1..len PROVE y[n] = x[n]
    <3>1. <<i, n>> \in P
      <4>1. n \in DOMAIN G[i]
        BY <2>1, <2>2
      <4>2. <<i, n>> \in {i} \X DOMAIN G[i]
        BY <4>1
      <4> QED BY <1>1, <1>2, <4>2 DEF AllPlaces
    <3>2. v[<<i, n>>] = signed_amount(lines[n]).amount
      <4>1. LineOf(<<i, n>>) = lines[n]
        BY <1>1, <2>1 DEF LineOf
      <4> QED BY <1>1, <3>1, <4>1, GeneratedPlaces
    <3>3. x[n] = v[<<i, n>>]
      BY <2>3 DEF AtPlace
    <3>4. y[n] = signed_amount(lines[n]).amount
      BY <2>1, <2>3 DEF Signed
    <3> QED BY <3>2, <3>3, <3>4
  <2>5. Total(y, 1..len) = Total(x, 1..len)
    BY <2>2, <2>3, <2>4, TotalAgrees
  <2>6. Total(y, 1..len) = 0
    BY <2>1, <2>3 DEF Closed, SumOfLines
  <2>7. u[i] = Total(x, 1..len)
    BY <1>4, <2>1, <2>3
  <2> QED BY <2>5, <2>6, <2>7
<1>7. Total(u, 1..N) = 0
  <2>1. IsFiniteSet(1..N)
    BY <1>2, FS_Interval
  <2> QED BY <1>6, <2>1, TotalOfZeros
<1> QED BY <1>1, <1>3, <1>5, <1>7

\* The lines of an account bring what the entries bring to it.
LEMMA DeltasOn ==
  ASSUME BooksOf(generated), NEW a \in Accounts
  PROVE  Total(Deltas, {p \in AllPlaces : LineOf(p).account = a}) =
            Total(BroughtOn(generated, a), DOMAIN generated)
<1>1. PICK G, N, P, d, s, v, u :
         /\ G = generated /\ N = Len(G) /\ P = AllPlaces /\ d = Deltas
         /\ s = {p \in P : LineOf(p).account = a}
         /\ v = [p \in P |-> IF LineOf(p).account = a THEN Deltas[p] ELSE 0]
         /\ u = BroughtOn(G, a)
  OBVIOUS
<1>2. /\ N \in Nat /\ DOMAIN G = 1..N /\ IsFiniteSet(P) /\ P = PlacesOf(G, N)
      /\ \A i \in 1..N : G[i] \in Seq(JournalLine)
  BY <1>1, GeneratedPlaces
<1>3. \A p \in P : d[p] \in Int /\ d[p] = signed_amount(LineOf(p)).amount
                   /\ v[p] = IF LineOf(p).account = a THEN d[p] ELSE 0
  BY <1>1, GeneratedPlaces
<1>4. Valued(v, P)
  BY <1>3 DEF Valued
<1>5. Total(d, s) = Total(v, P)
  <2>1. s \in SUBSET P /\ (\A p \in P \ s : v[p] = 0) /\ (\A p \in s : d[p] = v[p])
    BY <1>1, <1>3
  <2> QED BY <1>2, <1>4, <2>1, TotalPart
<1>6. ASSUME NEW i \in 1..N PROVE u[i] = Total(AtPlace(v, i, Len(G[i])), 1..Len(G[i]))
  <2>1. PICK lines, len : lines = G[i] /\ len = Len(lines) /\ Closed(lines)
    BY <1>1, <1>2 DEF BooksOf
  <2>2. /\ lines \in Seq(JournalLine) /\ len \in Nat /\ DOMAIN lines = 1..len
        /\ IsFiniteSet(1..len) /\ \A n \in 1..len : OneSided(lines[n])
    BY <2>1, SpecLinesValued DEF Closed
  <2>3. PICK x, y : x = AtPlace(v, i, len) /\ y = On(lines, a)
    OBVIOUS
  <2>4. ASSUME NEW n \in 1..len PROVE y[n] = x[n]
    <3>1. <<i, n>> \in P
      <4>1. n \in DOMAIN G[i]
        BY <2>1, <2>2
      <4>2. <<i, n>> \in {i} \X DOMAIN G[i]
        BY <4>1
      <4> QED BY <1>1, <1>2, <4>2 DEF AllPlaces
    <3>2. LineOf(<<i, n>>) = lines[n]
      BY <1>1, <2>1 DEF LineOf
    <3>3. v[<<i, n>>] = IF lines[n].account = a THEN signed_amount(lines[n]).amount ELSE 0
      BY <1>3, <3>1, <3>2
    <3>4. x[n] = v[<<i, n>>]
      BY <2>3 DEF AtPlace
    <3>5. y[n] = IF lines[n].account = a THEN signed_amount(lines[n]).amount ELSE 0
      BY <2>1, <2>3 DEF On
    <3> QED BY <3>3, <3>4, <3>5
  <2>5. Valued(y, 1..len)
    <3>1. Valued(On(lines, a), 1..Len(lines))
      BY <2>1, <2>2, OnType
    <3> QED BY <2>1, <2>3, <3>1
  <2>6. PICK g : AddsUp(g, y, 1..len) /\ NetOn(lines, a) = g[1..len]
    BY <2>1, <2>2, <2>3, NetOnAddsUp
  <2>7. Total(y, 1..len) = NetOn(lines, a)
    BY <2>2, <2>5, <2>6, TotalIs
  <2>8. Total(y, 1..len) = Total(x, 1..len)
    BY <2>2, <2>4, <2>5, TotalAgrees
  <2>9. u[i] = NetOn(lines, a)
    BY <1>1, <1>2, <2>1 DEF BroughtOn
  <2> QED BY <2>1, <2>3, <2>7, <2>8, <2>9
<1>7. Total(v, P) = Total(u, 1..N)
  <2>1. Valued(v, PlacesOf(G, N))
    BY <1>2, <1>4
  <2>2. Total(v, PlacesOf(G, N)) = Total(u, 1..N)
    BY <1>2, <1>6, <2>1, PlacesTotal
  <2> QED BY <1>2, <2>2
<1> QED BY <1>1, <1>2, <1>5, <1>7

\* The accumulator's value of each account, and what they add up to.
LEMMA GroundTruth ==
  ASSUME BooksOf(generated), NEW truth, truth = ground_truth
  PROVE  /\ DOMAIN truth = {LineOf(p).account : p \in AllPlaces}
         /\ \A a \in DOMAIN truth : /\ a \in Accounts
                                    /\ truth[a] = Total(BroughtOn(generated, a), DOMAIN generated)
         /\ Total(truth, DOMAIN truth) = 0
<1>1. PICK P, J, d, k : /\ P = AllPlaces /\ J = {LineOf(p).account : p \in P} /\ d = Deltas
                        /\ k = [p \in P |-> LineOf(p).account]
  OBVIOUS
<1>2. DOMAIN truth = J
  BY <1>1 DEF ground_truth
<1>3. J \subseteq Accounts /\ IsFiniteSet(P) /\ Valued(d, P) /\ Total(d, P) = 0
  BY <1>1, GeneratedPlaces, DeltasCancel
<1>4. ASSUME NEW a \in J PROVE truth[a] = Total(d, Fiber(k, P, a))
  <2>1. PICK s : s = {p \in AllPlaces : LineOf(p).account = a} /\ s \in SUBSET AllPlaces
    OBVIOUS
  <2>2. truth[a] = MapThenSumSet(LAMBDA p : Delta(LineOf(p)), {p \in AllPlaces : LineOf(p).account = a})
    BY <1>1 DEF ground_truth
  <2>3. truth[a] = MapThenSumSet(LAMBDA p : Delta(LineOf(p)), s)
    BY <2>1, <2>2, Zenon
  <2>4. truth[a] = Total(Deltas, s)
    BY <2>1, <2>3, DeltaSum, Zenon
  <2>5. s = Fiber(k, P, a)
    BY <1>1, <2>1 DEF Fiber
  <2> QED BY <1>1, <2>4, <2>5
<1>5. ASSUME NEW a \in J PROVE truth[a] = Total(BroughtOn(generated, a), DOMAIN generated)
  <2>1. Fiber(k, P, a) = {p \in AllPlaces : LineOf(p).account = a}
    BY <1>1 DEF Fiber
  <2>2. Total(d, Fiber(k, P, a)) = Total(BroughtOn(generated, a), DOMAIN generated)
    BY <1>1, <1>3, <2>1, DeltasOn
  <2> QED BY <1>4, <2>2
<1>6. Total(d, P) = Total(truth, J)
  <2>1. IsFiniteSet(J)
    <3>1. J = Range(k) /\ P = DOMAIN k
      BY <1>1 DEF Range
    <3>2. k \in Surjection(P, J)
      BY <1>1, <3>1 DEF Surjection
    <3> QED BY <1>3, <3>2, FS_Surjection
  <2>2. \A p \in P : k[p] \in J
    BY <1>1
  <2> QED BY <1>3, <1>4, <2>1, <2>2, TotalFibers
<1> QED BY <1>1, <1>2, <1>3, <1>5, <1>6

\* generate and ground_truth of generator.rs: whatever is drawn on at least two accounts,
\* the aggregate accepts every entry and projects the balances of the accumulator.
THEOREM GeneratorAgrees ==
  ASSUME Len(SpecAccounts) >= 2
  PROVE  DrawSpec => []AggregateAgreesWithGroundTruth
<1>1. DrawInit => DrawnInv
  <2> SUFFICES ASSUME DrawInit PROVE DrawnInv
    OBVIOUS
  <2>1. PICK G : G = generated /\ G = <<>> /\ drawing = None
    BY DEF DrawInit
  <2>2. BooksOf(G)
    BY <2>1, NoBooks
  <2> QED BY <2>1, <2>2 DEF DrawnInv
<1>2. DrawnInv /\ [DrawNext]_generatorVars => DrawnInv'
  BY DrawnStep
<1>3. DrawnInv => AggregateAgreesWithGroundTruth
  <2> SUFFICES ASSUME BooksOf(generated) PROVE AggregateAgreesWithGroundTruth
    BY DEF DrawnInv
  <2>1. PICK balances, truth : balances = Projected(generated) /\ truth = ground_truth
    OBVIOUS
  <2>2. /\ DOMAIN truth = {LineOf(p).account : p \in AllPlaces}
        /\ \A a \in DOMAIN truth : /\ a \in Accounts
                                   /\ truth[a] = Total(BroughtOn(generated, a), DOMAIN generated)
        /\ Total(truth, DOMAIN truth) = 0
    BY <2>1, GroundTruth
  <2>3. \A a \in Accounts : /\ Amount(balances)[a] = Total(BroughtOn(generated, a), DOMAIN generated)
                            /\ balances[a] # None <=> Touched(generated, a)
    BY <2>1 DEF BooksOf
  <2>4. \A i \in DOMAIN generated : PostError(generated[i]) = None
    BY ClosedIsAccepted DEF BooksOf
  <2>5. ASSUME NEW a \in Accounts
        PROVE  Touched(generated, a) <=> \E p \in AllPlaces : LineOf(p).account = a
    <3>1. ASSUME NEW i \in DOMAIN generated, NEW n \in DOMAIN generated[i],
                 generated[i][n].account = a
          PROVE  \E p \in AllPlaces : LineOf(p).account = a
      <4>1. PICK p : p = <<i, n>>
        OBVIOUS
      <4>2. p \in AllPlaces /\ LineOf(p).account = a
        BY <3>1, <4>1 DEF AllPlaces, LineOf
      <4> QED BY <4>2
    <3>2. ASSUME NEW p \in AllPlaces, LineOf(p).account = a PROVE Touched(generated, a)
      BY <3>2, GeneratedPlaces DEF Touched, LineOf
    <3> QED BY <3>1, <3>2 DEF Touched
  <2>6. {a \in Accounts : balances[a] # None} = DOMAIN truth
    <3>1. ASSUME NEW a \in Accounts PROVE balances[a] # None <=> a \in DOMAIN truth
      BY <2>2, <2>3, <2>5
    <3> QED BY <2>2, <3>1
  <2>7. \A a \in DOMAIN truth : balances[a].amount = truth[a]
    <3> SUFFICES ASSUME NEW a \in DOMAIN truth PROVE balances[a].amount = truth[a]
      OBVIOUS
    <3>1. a \in Accounts /\ balances[a] # None
      BY <2>6
    <3>2. Amount(balances)[a] = balances[a].amount
      BY <3>1 DEF Amount
    <3> QED BY <2>2, <2>3, <3>1, <3>2
  <2>8. MapThenSumSet(LAMBDA a : ground_truth[a], DOMAIN ground_truth) = 0
    <3>1. MapThenSumSet(LAMBDA a : ground_truth[a], DOMAIN ground_truth) =
             Total(ground_truth, DOMAIN ground_truth)
      BY FunctionTotal, Zenon
    <3> QED BY <2>1, <2>2, <3>1, Zenon
  <2>9. balances = replay(Posted).balances
    BY <2>1 DEF Projected, EntryEvents, Posted
  <2> QED BY <2>1, <2>4, <2>6, <2>7, <2>8, <2>9 DEF AggregateAgreesWithGroundTruth
<1> QED BY <1>1, <1>2, <1>3, PTL DEF DrawSpec
=============================================================================
