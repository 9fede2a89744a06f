----------------------------- MODULE Allocation -----------------------------
(***************************************************************************)
(* allocate (crates/testkit/src/allocation.rs), the corpus's reference     *)
(* allocation rule: one call, one action per stage and one per pass of its *)
(* loop.                                                                   *)
(***************************************************************************)
EXTENDS Shares

VARIABLES
    total, weights,   \* the arguments
    parts,            \* the shares so far
    remainders,       \* the indices, sorted by the size of the remainder
    leftover, cursor, \* the loop's variables
    result            \* "running", "ok" or the error

vars == <<total, weights, parts, remainders, leftover, cursor, result>>

Init ==
    /\ total \in Totals
    /\ weights \in BoundedSeq(Weights, MaxShares)
    /\ parts = <<>> /\ remainders = <<>>
    /\ leftover = 0 /\ cursor = 0
    /\ result = "running"

\* The early returns.
Reject ==
    /\ result = "running" /\ remainders = <<>>
    /\ \/ weights = <<>> /\ result' = "NoWeights"
       \/ (\E i \in DOMAIN weights : weights[i] < 0) /\ result' = "NegativeWeight"
       \/ /\ weights # <<>>
          /\ \A i \in DOMAIN weights : weights[i] = 0
          /\ result' = "ZeroWeight"
    /\ UNCHANGED <<total, weights, parts, remainders, leftover, cursor>>

\* Mutant: remainders are compared with their sign.
RankedSigned(t, w) == Ranked(Discarded(t, w))

\* Largest discarded fraction first.
RankedBySize(t, w) ==
    Ranked([i \in DOMAIN w |-> Magnitude(Discarded(t, w)[i])])

\* Exact shares, their truncation, the leftover, and the sort.
Truncate ==
    /\ result = "running" /\ remainders = <<>>
    /\ (\A i \in DOMAIN weights : weights[i] >= 0) /\ Sum(weights) # 0
    /\ parts' = Truncated(total, weights)
    /\ leftover' = total - Sum(parts')
    /\ remainders' = RankedBySize(total, weights)
    /\ result' = IF leftover' = 0 THEN "ok" ELSE "running"
    /\ UNCHANGED <<total, weights, cursor>>

\* Mutant: the limit on the passes is one short of a pass per part.
HandOutOnceTooFew ==
    /\ result = "running" /\ remainders # <<>>
    /\ LET step  == IF total < 0 THEN -Step ELSE Step
           index == remainders[(cursor % Len(remainders)) + 1]
       IN  /\ parts' = [parts EXCEPT ![index] = @ + step]
           /\ leftover' = leftover - step
    /\ cursor' = cursor + 1
    /\ result' = CASE cursor' > Len(remainders) - 2 -> "Overflow"
                   [] cursor' <= Len(remainders) - 2 /\ leftover' = 0 -> "ok"
                   [] OTHER -> "running"
    /\ UNCHANGED <<total, weights, remainders>>

\* One pass of the loop; the sign of a unit is that of the leftover when the
\* loop began, which it keeps unless the total was too precise.
HandOut ==
    /\ result = "running" /\ remainders # <<>>
    /\ LET step  == IF total < 0 THEN -Step ELSE Step
           index == remainders[(cursor % Len(remainders)) + 1]
       IN  /\ parts' = [parts EXCEPT ![index] = @ + step]
           /\ leftover' = leftover - step
    /\ cursor' = cursor + 1
    /\ result' = CASE cursor' > 2 * Len(remainders) -> "Overflow"
                   [] cursor' <= 2 * Len(remainders) /\ leftover' = 0 -> "ok"
                   [] OTHER -> "running"
    /\ UNCHANGED <<total, weights, remainders>>

Next == Reject \/ Truncate \/ HandOut

Spec == Init /\ [][Next]_vars

=============================================================================
