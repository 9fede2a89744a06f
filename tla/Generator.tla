----------------------------- MODULE Generator ------------------------------
(***************************************************************************)
(* generate of crates/testkit/src/generator.rs, the source of the ledgers  *)
(* the property tests feed the aggregate, and the aggregate they feed.     *)
(* Every draw of the seeded generator is a nondeterministic choice: what   *)
(* is shown holds for every seed.                                          *)
(***************************************************************************)
EXTENDS Ledger

CONSTANTS
    SpecAccounts,    \* GeneratorSpec.accounts, a sequence of accounts
    SpecCurrency,    \* GeneratorSpec.currency
    SpecEntries,     \* GeneratorSpec.entries
    MinLines,        \* GeneratorSpec.min_lines
    MaxLines,        \* GeneratorSpec.max_lines
    MaxMinorUnits    \* GeneratorSpec.max_minor_units

ASSUME GeneratorAssumption ==
    /\ SpecAccounts \in Seq(Accounts) /\ SpecCurrency \in Currencies
    /\ SpecEntries \in Nat /\ MinLines \in Nat /\ MaxLines \in Nat /\ MaxMinorUnits \in Nat
    /\ 1 .. SpecEntries \subseteq EntryIds

VARIABLES
    generated,    \* the entries generated so far
    drawing,      \* lines still to draw before the plug, or None between entries
    drawn,        \* the lines of the entry being generated
    running       \* their signed sum

generatorVars == <<generated, drawing, drawn, running>>

AtLeast(n, floor) == IF n < floor THEN floor ELSE n

account_count == AtLeast(Len(SpecAccounts), 2)

Indices == 0 .. account_count - 1

InSpec(index) == index < Len(SpecAccounts)

DebitLine(index, amount) ==
    [account |-> SpecAccounts[index + 1], credit |-> None,
     debit   |-> [currency |-> SpecCurrency, amount |-> amount]]

CreditLine(index, amount) ==
    [account |-> SpecAccounts[index + 1], debit |-> None,
     credit  |-> [currency |-> SpecCurrency, amount |-> amount]]

DrawInit == generated = <<>> /\ drawing = None /\ drawn = <<>> /\ running = 0

\* A one-line entry cannot balance: at least two lines.
BeginEntry ==
    /\ drawing = None /\ Len(generated) < SpecEntries
    /\ LET low == AtLeast(MinLines, 2)
       IN  \E line_count \in low .. AtLeast(MaxLines, low) : drawing' = line_count - 1
    /\ drawn' = <<>> /\ running' = 0
    /\ UNCHANGED generated

DrawDebit ==
    /\ drawing # None /\ drawing > 0
    /\ \E index \in Indices, minor \in 1 .. AtLeast(MaxMinorUnits, 1) :
          /\ drawn' = IF InSpec(index) THEN Append(drawn, DebitLine(index, minor)) ELSE drawn
          /\ running' = IF InSpec(index) THEN running + minor ELSE running
    /\ drawing' = drawing - 1
    /\ UNCHANGED generated

DrawCredit ==
    /\ drawing # None /\ drawing > 0
    /\ \E index \in Indices, minor \in 1 .. AtLeast(MaxMinorUnits, 1) :
          /\ drawn' = IF InSpec(index) THEN Append(drawn, CreditLine(index, minor)) ELSE drawn
          /\ running' = IF InSpec(index) THEN running - minor ELSE running
    /\ drawing' = drawing - 1
    /\ UNCHANGED generated

\* The closing line: the negation of the running sum, on an account drawn anew.
\* After a sum of zero it is a zero amount, whose side makes no difference.
Plug ==
    /\ drawing # None /\ drawing = 0
    /\ \E index \in Indices :
          LET closing == IF running < 0 THEN DebitLine(index, -running)
                         ELSE CreditLine(index, running)
          IN  generated' = Append(generated, IF InSpec(index) THEN Append(drawn, closing) ELSE drawn)
    /\ drawing' = None /\ drawn' = <<>> /\ running' = 0

Finished == drawing = None /\ Len(generated) = SpecEntries /\ UNCHANGED generatorVars

DrawNext == BeginEntry \/ DrawDebit \/ DrawCredit \/ Plug \/ Finished

DrawSpec == DrawInit /\ [][DrawNext]_generatorVars

-----------------------------------------------------------------------------

\* Mutant: credits are added.
DeltaUnsigned(line) == validate(line).amount

\* GeneratedLedger::ground_truth's reading of a line; other lines are skipped.
Delta(line) ==
    CASE line.debit # None /\ line.credit = None -> line.debit.amount
      [] line.debit = None /\ line.credit # None -> -line.credit.amount
      [] OTHER -> 0

\* GeneratedLedger::all_lines: the second line of the first entry is at <<1, 2>>.
AllPlaces == UNION {{i} \X DOMAIN generated[i] : i \in DOMAIN generated}

LineOf(place) == generated[place[1]][place[2]]

\* The accumulator without aggregate, event or projection.
ground_truth ==
    [a \in {LineOf(p).account : p \in AllPlaces} |->
        MapThenSumSet(LAMBDA p : Delta(LineOf(p)), {p \in AllPlaces : LineOf(p).account = a})]

\* The log the aggregate holds once every entry has been posted, entry i under the i-th id.
Posted == [i \in DOMAIN generated |-> [kind |-> "JournalEntryPosted", id |-> i, lines |-> generated[i]]]

(***************************************************************************)
(* Two independent implementations agree, whatever is drawn.  Every entry  *)
(* is "balanced by construction", so that handle_command accepts it; the   *)
(* balances the aggregate projects from the entries are those of the       *)
(* accumulator, on the same accounts; and they net to zero.                *)
(***************************************************************************)
AggregateAgreesWithGroundTruth ==
    LET balances == replay(Posted).balances
    IN  /\ \A i \in DOMAIN generated : PostError(generated[i]) = None
        /\ {a \in Accounts : balances[a] # None} = DOMAIN ground_truth
        /\ \A a \in DOMAIN ground_truth : balances[a].amount = ground_truth[a]
        /\ MapThenSumSet(LAMBDA a : ground_truth[a], DOMAIN ground_truth) = 0

=============================================================================
