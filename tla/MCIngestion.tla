---------------------------- MODULE MCIngestion -----------------------------
(* Small instances of Ingestion for TLC. *)
EXTENDS Ingestion

CONSTANTS p1, team1, run1, serving, oldKey, newKey, runKey, workKey,
          tagged, retagged, misfiled, unreadable, foreign, usd, eur

NoTags == [k \in TagKeys |-> Absent]

\* A row tagged under the old key of the project; the same row retagged under both
\* keys, in the Tags object and in a column, for a run that serves; a row whose
\* preferred project tag is garbled; a row with a column missing.
MCObjectTagsOf ==
    [c \in Contents |->
        CASE c \in {tagged, foreign} -> [NoTags EXCEPT ![oldKey] = p1, ![newKey] = Blank]
          [] c = retagged -> [NoTags EXCEPT ![oldKey] = Garbled, ![newKey] = p1, ![workKey] = serving]
          [] c = misfiled -> [NoTags EXCEPT ![oldKey] = p1, ![newKey] = Garbled]
          [] OTHER -> NoTags]
MCColumnTagsOf ==
    [c \in Contents |->
        CASE c = retagged -> [NoTags EXCEPT ![oldKey] = Blank, ![runKey] = run1]
          [] OTHER -> NoTags]

MCRules ==
    [d \in Dimension \union {"workload"} |->
        CASE d = "project" -> <<newKey, oldKey>>
          [] d = "run" -> <<runKey>>
          [] d = "workload" -> <<workKey>>
          [] OTHER -> <<>>]

MCFunctionOf == [w \in Workloads |-> "COGS"]

MCRunOf ==
    [c \in Contents |-> IF c \in Unreadable \/ AttributionFails(TagsOf(c)) THEN None
                       ELSE attribute(TagsOf(c)).ids["run"]]

\* A row without a currency, one in euro, and one in a currency nobody knows.
MCCodeOf == [c \in Contents |-> CASE c = retagged -> eur [] c = foreign -> Unlisted [] OTHER -> Absent]
MCCurrencyOf == [c \in Contents |-> parse_currency(CodeOf[c], DefaultCurrency)]
MCCostOf == [c \in Contents |-> CASE c = retagged -> 3 [] c = foreign -> 5 [] OTHER -> 2]

\* The third line ends when it starts.
MCChargePeriodOf == [line \in Lines |-> IF line = 3 THEN <<1, 1>> ELSE <<line, line + 1>>]

MCPeriods == 1..2
MCExternalIds == Periods \X Lines

Row(line, content) == [line |-> line, content |-> content]

\* An export, its restatement, one that lists a line twice, one with a code
\* that is not listed, an empty one.
MCFiles ==
    { <<Row(1, tagged), Row(2, tagged)>>,
      <<Row(1, retagged), Row(2, misfiled)>>,
      <<Row(2, retagged), Row(2, tagged), Row(1, unreadable), Row(3, tagged)>>,
      <<Row(1, retagged), Row(2, foreign)>>,
      <<>> }

=============================================================================
