--------------------------- MODULE MCEntityMerge ---------------------------
(* A small instance of EntityMerge: three entities of one user. *)
EXTENDS EntityMerge, TLC

CONSTANTS a, b, c, x, y, z, e0

ThreeEntities == {a, b, c}
ThreeAliases  == {x, y, z}
OneEvent      == {e0}

\* c is linked to an event: its merge fails after it has written the aliases.
StartRows ==
  {[aliases   |-> (a :> {x}) @@ (b :> {y}) @@ (c :> {y}),
    links     |-> {[event |-> e0, entity |-> c]},
    relations |-> {[by |-> None, from |-> a, to |-> b], [by |-> None, from |-> b, to |-> c]}]}

\* Merges in both directions, and what may come between.  With {y} an update leaves a
\* and b with the same aliases: no merge of the two has anything to write to the other.
MixedRequests ==
  [kind : {"merge"}, keep : {a}, gone : {b, c}]
  \cup [kind : {"merge"}, keep : {b}, gone : {a}]
  \cup [kind : {"delete"}, gone : {b}]
  \cup [kind : {"update"}, keep : {a}, value : {{y}, {z}}]
  \cup [kind : {"event"}, ents : {<<a, b>>}]
  \cup [kind : {"link"}, event : {e0}, ents : {<<b>>}]
  \cup [kind : {"relate"}, from : {b}, to : {c}]
=============================================================================
