-------------------------- MODULE MCConsolidation --------------------------
(***************************************************************************)
(* Extractions for the model checker, one per way through the pipeline.    *)
(***************************************************************************)
EXTENDS Consolidation

CONSTANTS m1, m2, u1, u2

Ev(timed, n)              == [timed |-> timed, chunks |-> n]
En(tid, ok, n, evs)       == [temp_id |-> tid, storable |-> ok, chunks |-> n, events |-> evs]
Rel(f, t)                 == [from |-> f, to |-> t]
Ex(n, es, rs, sugg)       == [chunks |-> n, entities |-> es, relations |-> rs, suggestions |-> sugg]

\* A blank message: nothing to extract, nothing to embed.
Blank == Ex(0, <<>>, <<>>, {})
\* Two entities listed in descending temp ids, an event each (one of them long),
\* a relation, a relation to an entity that is not listed and one to itself.
Rich == Ex(1, <<En(2, TRUE, 1, <<Ev(FALSE, 1)>>), En(1, TRUE, 1, <<Ev(FALSE, 2)>>)>>,
           <<Rel(1, 2), Rel(1, 3), Rel(2, 2)>>, {})
\* The same pair related twice; a long text whose event has a blank summary.
Twice == Ex(2, <<En(1, TRUE, 1, <<Ev(FALSE, 0)>>), En(2, TRUE, 1, <<>>)>>,
            <<Rel(1, 2), Rel(1, 2)>>, {})
\* An entity of a type that the enum of the database lacks (NARRATOR).
Narrator == Ex(1, <<En(1, TRUE, 1, <<>>), En(2, FALSE, 1, <<>>)>>, <<>>, {})
\* An event with a time.
Dated == Ex(1, <<En(1, TRUE, 1, <<Ev(FALSE, 1), Ev(TRUE, 1)>>)>>, <<>>, {})
\* Suggestions: a new name, a name that is known.
NewType == Ex(1, <<>>, <<>>, {"MENTORS"})
OldType == Ex(1, <<>>, <<>>, {"MENTORS", "WORKS_FOR"})

MCExtractions == {Blank, Rich, Twice, Narrator, Dated, NewType, OldType}
MCKnownTypes  == {"WORKS_FOR", "RELATES_TO"}

=============================================================================
