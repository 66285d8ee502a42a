---------------------------- MODULE MemoryGraph ----------------------------
(***************************************************************************)
(* The rows a chat message leaves in the database, and the graph that the  *)
(* extraction of one message declares.  Every row carries the message it   *)
(* comes from; identities (UUIDs, serials) are replaced by the place of    *)
(* the thing in the extraction, so two rows are equal only when they are   *)
(* the same row.                                                           *)
(*                                                                         *)
(* An extraction d (LLMExtractionResult) is a record:                      *)
(*   chunks       how many pieces the raw text is embedded in              *)
(*   entities     sequence of [temp_id, storable, chunks, events]; events  *)
(*                is a sequence of [timed, chunks]                         *)
(*   relations    sequence of [from, to], both temp ids                    *)
(*   suggestions  set of names of suggested relation types                 *)
(* "storable" says that entity_type is a label of the database's enum,     *)
(* "timed" that the event has a (textual) timestamp.  A text has 0 chunks  *)
(* when it is blank or when every piece of it is below min_chunk_tokens.   *)
(***************************************************************************)
EXTENDS Naturals, Sequences

\* Places: the raw message, the i-th entity, the j-th event of the i-th entity.
RawRef         == [kind |-> "raw_message", id |-> <<0, 0>>]
EntityRef(i)   == [kind |-> "entity", id |-> <<i, 0>>]
EventRef(i, j) == [kind |-> "event", id |-> <<i, j>>]

\* Rows.
NodeRow(m, ref)          == [msg |-> m, row |-> "node", ref |-> ref]
LinkRow(m, ev, en)       == [msg |-> m, row |-> "link", event |-> ev, entity |-> en]
RelationRow(m, k, f, t)  == [msg |-> m, row |-> "relationship", nr |-> k, from |-> f, to |-> t]
EmbeddingRow(m, ref, c)  == [msg |-> m, row |-> "embedding", of |-> ref, chunk |-> c]

\* The chunk numbers of a text cut in n pieces: a text that is one piece is
\* not a chunk (chunk_index and total_chunks are NULL, here <<>>).
ChunkNumbers(n) == IF n = 1 THEN {<<>>} ELSE {<<c, n>> : c \in 0 .. n - 1}

EventPlaces(d) ==
  UNION {{<<i, j>> : j \in DOMAIN d.entities[i].events} : i \in DOMAIN d.entities}

(***************************************************************************)
(* What the extraction declares, independent of how it is written: each    *)
(* event belongs to the entity that lists it, each relation to the two     *)
(* entities its temp ids name (a relation to an unlisted entity or to      *)
(* itself is not one), each text with a chunk to its embeddings.           *)
(***************************************************************************)
EntityRows(m, d) == {NodeRow(m, EntityRef(i)) : i \in DOMAIN d.entities}
EventRows(m, d)  == {NodeRow(m, EventRef(p[1], p[2])) : p \in EventPlaces(d)}
LinkRows(m, d)   == {LinkRow(m, EventRef(p[1], p[2]), EntityRef(p[1])) : p \in EventPlaces(d)}

Endpoints(d) ==
  {e \in (DOMAIN d.relations) \X (DOMAIN d.entities) \X (DOMAIN d.entities) :
      /\ d.entities[e[2]].temp_id = d.relations[e[1]].from
      /\ d.entities[e[3]].temp_id = d.relations[e[1]].to
      /\ e[2] # e[3]}

RelationRows(m, d) == {RelationRow(m, e[1], EntityRef(e[2]), EntityRef(e[3])) : e \in Endpoints(d)}

EmbeddingRows(m, d) ==
  {EmbeddingRow(m, RawRef, c) : c \in ChunkNumbers(d.chunks)}
  \cup (UNION {{EmbeddingRow(m, EntityRef(i), c) : c \in ChunkNumbers(d.entities[i].chunks)} :
                 i \in DOMAIN d.entities})
  \cup (UNION {{EmbeddingRow(m, EventRef(p[1], p[2]), c) :
                   c \in ChunkNumbers(d.entities[p[1]].events[p[2]].chunks)} :
                 p \in EventPlaces(d)})

Graph(m, d) ==
  {NodeRow(m, RawRef)} \cup EntityRows(m, d) \cup EventRows(m, d) \cup LinkRows(m, d)
    \cup RelationRows(m, d) \cup EmbeddingRows(m, d)

\* The rows that a row of the database refers to.
References(r) ==
  CASE r.row = "node"         -> {RawRef}
    [] r.row = "link"         -> {r.event, r.entity}
    [] r.row = "relationship" -> {r.from, r.to}
    [] r.row = "embedding"    -> {r.of}

\* The extraction can be written: what refuses one is explained in Consolidation.
Storable(d) ==
  /\ d.suggestions = {}
  /\ \A i \in DOMAIN d.entities :
        /\ d.entities[i].storable
        /\ \A j \in DOMAIN d.entities[i].events : ~ d.entities[i].events[j].timed

\* temp ids tell the entities of one extraction apart (what the schema asks of
\* the LLM: "a unique temporary identifier to each entity").
DistinctTempIds(d) ==
  \A i, k \in DOMAIN d.entities : d.entities[i].temp_id = d.entities[k].temp_id => i = k

=============================================================================
