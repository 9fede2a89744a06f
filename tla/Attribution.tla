---------------------------- MODULE Attribution -----------------------------
(***************************************************************************)
(* Tag-based attribution: crates/cost-spine/src/attribution/tags.rs, over  *)
(* the tags that collect_tags (providers/aws.rs) gathers from a row.       *)
(* A tag's value is an identifier, the name of a workload, Blank or        *)
(* Garbled.                                                                *)
(***************************************************************************)
EXTENDS Integers, Sequences, FiniteSetsExt

CONSTANTS
    TagKeys,
    Ids,              \* values that parse as a UUID
    Blank,            \* a value of white space only
    Garbled,          \* a value that is no UUID
    Absent,           \* no such tag, Option::None
    Workloads,        \* the workload names function_code_for knows
    FunctionOf,       \* the function code each of them means
    Rules,            \* the candidate keys of every dimension, in priority order
    DefaultProject, DefaultTeam     \* the defaults of the AttributionContext, or Absent

Required == {"project", "team"}
Optional == {"run", "customer", "model", "dataset", "commitment"}
Dimension == Required \union Optional

FunctionCodes == {"COGS", "RND", "OPEX"}
TagValue == Ids \union Workloads \union {Blank, Garbled, Absent}
Tags == [TagKeys -> TagValue]

ASSUME AttributionAssumption ==
    /\ Rules \in [Dimension \union {"workload"} -> Seq(TagKeys)]
    /\ FunctionOf \in [Workloads -> FunctionCodes]
    /\ DefaultProject \in Ids \union {Absent} /\ DefaultTeam \in Ids \union {Absent}
    /\ Ids \intersect (Workloads \union {Blank, Garbled, Absent}) = {}
    /\ Absent \notin Workloads

\* collect_tags: the flattened columns override the Tags object, blank ones do not.
collect_tags(object, flattened) ==
    [k \in TagKeys |-> IF flattened[k] \in {Absent, Blank} THEN object[k] ELSE flattened[k]]

\* The value under the first candidate key that carries one.
lookup(tags, candidates) ==
    LET carrying == {i \in DOMAIN candidates : tags[candidates[i]] \notin {Absent, Blank}}
    IN  IF carrying = {} THEN Absent ELSE tags[candidates[Min(carrying)]]

\* Mutant: the values of required dimensions are not parsed.
UnparseableIfOptional(tags, dimension) ==
    dimension \in Optional /\ lookup(tags, Rules[dimension]) \notin Ids \union {Absent}

\* parse_id fails on a value that is there but is no identifier.
Unparseable(tags, dimension) == lookup(tags, Rules[dimension]) \notin Ids \union {Absent}

DefaultOf(dimension) ==
    CASE dimension = "project" -> DefaultProject
      [] dimension = "team" -> DefaultTeam
      [] OTHER -> Absent

IdFor(tags, dimension) ==
    LET found == lookup(tags, Rules[dimension])
    IN  IF found # Absent THEN found ELSE DefaultOf(dimension)

function_code_for(workload, run_attributed) ==
    CASE workload \in Workloads -> FunctionOf[workload]
      [] workload \notin Workloads /\ run_attributed -> "RND"
      [] OTHER -> "OPEX"

\* Which error attribute returns, if any: it examines the project, then the team,
\* then the optional dimensions.
AttributionFails(tags) ==
    \/ \E d \in Dimension : Unparseable(tags, d)
    \/ \E d \in Required : IdFor(tags, d) = Absent

\* The dimensions of a row whose attribution does not fail.
attribute(tags) ==
    [ids      |-> [d \in Dimension |-> IdFor(tags, d)],
     function |-> function_code_for(lookup(tags, Rules["workload"]), IdFor(tags, "run") # Absent)]

=============================================================================
