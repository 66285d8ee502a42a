-------------------------- MODULE MCRelationTypes --------------------------
(***************************************************************************)
(* Names for the model checker: the fallback, a preset type, and a type    *)
(* that an LLM writes in either case.                                      *)
(***************************************************************************)
EXTENDS RelationTypes, TLC

CONSTANTS c1, c2, r1, r2

MCNames == {"RELATES_TO", "MENTORS", "mentors"}
MCUpper == [n \in MCNames |-> IF n = "mentors" THEN "MENTORS" ELSE n]

\* A database that was never seeded, one with the fallback, one with a preset type.
MCSeeds == {{}, {"RELATES_TO"}, {"RELATES_TO", "MENTORS"}}

\* For liveness: the names that make calls wait for each other.
LiveNames == {"RELATES_TO", "MENTORS"}
LiveUpper == [n \in LiveNames |-> n]
LiveSeeds == {{"RELATES_TO"}}

Symmetric == Permutations({c1, c2}) \cup Permutations({r1, r2})

=============================================================================
