------------------------ MODULE ConsolidationProofs ------------------------
(***************************************************************************)
(* Proofs about Consolidation, for any sets of messages, users and         *)
(* extractions whose temp ids are distinct.                                *)
(***************************************************************************)
EXTENDS Consolidation, TLAPS

-----------------------------------------------------------------------------
(* What the operators of the pipeline compute. *)

\* Consolidation's temp_id_to_uuid gives each entity back under its own temp id.
LEMMA MapIsExact ==
  ASSUME NEW d \in Extractions
  PROVE  /\ DOMAIN TempIdToUuid(d.entities) = {d.entities[i].temp_id : i \in DOMAIN d.entities}
         /\ \A i \in DOMAIN d.entities : TempIdToUuid(d.entities)[d.entities[i].temp_id] = i
<1> DEFINE es == d.entities
<1>1. es \in Seq(Entity) /\ DistinctTempIds(d)
  BY ExtractionsAssumption
<1>2. DOMAIN es \subseteq Nat
  BY <1>1
<1>3. DOMAIN TempIdToUuid(es) = {es[i].temp_id : i \in DOMAIN es}
  BY DEF TempIdToUuid
<1>4. ASSUME NEW i \in DOMAIN es
      PROVE  TempIdToUuid(es)[es[i].temp_id] = i
  <2> DEFINE P(x) == /\ es[x].temp_id = es[i].temp_id
                     /\ \A k \in DOMAIN es : es[k].temp_id = es[i].temp_id => k <= x
  <2>1. \A x \in DOMAIN es : es[x].temp_id = es[i].temp_id <=> x = i
    BY <1>1 DEF DistinctTempIds
  <2>2. P(i)
    BY <2>1, <1>2, i <= i
  <2>3. \A x \in DOMAIN es : P(x) => x = i
    BY <2>1
  <2>4. (CHOOSE x \in DOMAIN es : P(x)) = i
    BY <2>2, <2>3
  <2>5. TempIdToUuid(es)[es[i].temp_id] = CHOOSE x \in DOMAIN es : P(x)
    BY DEF TempIdToUuid
  <2> QED BY <2>4, <2>5
<1> QED BY <1>3, <1>4

\* consolidate_entities_events writes the events that are declared, each linked to
\* the entity that lists it.
LEMMA EventsAreDeclared ==
  ASSUME NEW m \in Messages, NEW d \in Extractions,
         job[m].data = d, ids[m] = TempIdToUuid(d.entities)
  PROVE  /\ ExtractedEvents(m) = EventPlaces(d)
         /\ EventLinks(m) = LinkRows(m, d)
<1>1. \A p \in EventPlaces(d) : p[1] \in DOMAIN d.entities
  BY DEF EventPlaces
<1>2. ExtractedEvents(m) = EventPlaces(d)
  <2>1. \A p \in EventPlaces(d) : d.entities[p[1]].temp_id \in DOMAIN ids[m]
    <3>1. DOMAIN ids[m] = {d.entities[i].temp_id : i \in DOMAIN d.entities}
      BY MapIsExact
    <3> QED BY <1>1, <3>1
  <2>2. ExtractedEvents(m) = {p \in EventPlaces(d) : d.entities[p[1]].temp_id \in DOMAIN ids[m]}
    BY DEF ExtractedEvents
  <2> QED BY <2>1, <2>2
<1>3. \A p \in EventPlaces(d) : ids[m][d.entities[p[1]].temp_id] = p[1]
  BY <1>1, MapIsExact
<1> QED BY <1>2, <1>3 DEF EventLinks, LinkRows

\* consolidate_events_relationship writes the relations that are declared.
LEMMA RelationsAreDeclared ==
  ASSUME NEW m \in Messages, NEW d \in Extractions,
         job[m].data = d, ids[m] = TempIdToUuid(d.entities)
  PROVE  {RelationshipRow(m, k) : k \in ResolvedRelations(m)} = RelationRows(m, d)
<1> DEFINE es == d.entities
           rs == d.relations
           Row(e) == RelationRow(m, e[1], EntityRef(e[2]), EntityRef(e[3]))
<1>1. /\ DOMAIN ids[m] = {es[i].temp_id : i \in DOMAIN es}
      /\ \A i \in DOMAIN es : ids[m][es[i].temp_id] = i
  BY MapIsExact
<1>2. ASSUME NEW k \in ResolvedRelations(m)
      PROVE  RelationshipRow(m, k) \in RelationRows(m, d)
  <2>1. k \in DOMAIN rs /\ rs[k].from \in DOMAIN ids[m] /\ rs[k].to \in DOMAIN ids[m]
        /\ ids[m][rs[k].from] # ids[m][rs[k].to]
    BY DEF ResolvedRelations
  <2>2. PICK i \in DOMAIN es : es[i].temp_id = rs[k].from
    BY <2>1, <1>1
  <2>3. PICK j \in DOMAIN es : es[j].temp_id = rs[k].to
    BY <2>1, <1>1
  <2>4. ids[m][rs[k].from] = i /\ ids[m][rs[k].to] = j
    BY <2>2, <2>3, <1>1
  <2>5. <<k, i, j>> \in Endpoints(d)
    BY <2>1, <2>2, <2>3, <2>4 DEF Endpoints
  <2>6. RelationshipRow(m, k) = Row(<<k, i, j>>)
    BY <2>4 DEF RelationshipRow
  <2> QED BY <2>5, <2>6 DEF RelationRows
<1>3. ASSUME NEW e \in Endpoints(d)
      PROVE  Row(e) \in {RelationshipRow(m, k) : k \in ResolvedRelations(m)}
  <2>1. /\ e[1] \in DOMAIN rs /\ e[2] \in DOMAIN es /\ e[3] \in DOMAIN es
        /\ es[e[2]].temp_id = rs[e[1]].from /\ es[e[3]].temp_id = rs[e[1]].to /\ e[2] # e[3]
    BY DEF Endpoints
  <2>2. ids[m][rs[e[1]].from] = e[2] /\ ids[m][rs[e[1]].to] = e[3]
    BY <2>1, <1>1
  <2>3. e[1] \in ResolvedRelations(m)
    <3>1. /\ es[e[2]].temp_id \in {es[i].temp_id : i \in DOMAIN es}
          /\ es[e[3]].temp_id \in {es[i].temp_id : i \in DOMAIN es}
      BY <2>1
    <3>2. rs[e[1]].from \in DOMAIN ids[m] /\ rs[e[1]].to \in DOMAIN ids[m]
      <4> HIDE DEF es, rs
      <4> QED BY <2>1, <1>1, <3>1, Zenon
    <3>3. ids[m][rs[e[1]].from] # ids[m][rs[e[1]].to]
      BY <2>1, <2>2
    <3> QED BY <2>1, <3>2, <3>3 DEF ResolvedRelations
  <2>4. Row(e) = RelationshipRow(m, e[1])
    BY <2>2 DEF RelationshipRow
  <2> QED BY <2>3, <2>4
<1> QED BY <1>2, <1>3 DEF RelationRows

\* The embeddables that a complete ConsolidationResult lists.
AllSources(d) ==
  {RawRef} \cup {EntityRef(i) : i \in DOMAIN d.entities}
    \cup {EventRef(p[1], p[2]) : p \in EventPlaces(d)}

\* generate_consolidation_embeddings writes one row per declared chunk.
LEMMA EmbeddingsAreDeclared ==
  ASSUME NEW m \in Messages, NEW d \in Extractions,
         job[m].data = d, sources[m] = AllSources(d)
  PROVE  {EmbeddingRow(m, e[1], e[2]) : e \in ChunkEntries(m)} = EmbeddingRows(m, d)
<1> DEFINE Entries == ChunkEntries(m)
           Row(e) == EmbeddingRow(m, e[1], e[2])
<1>1. \A e : e \in Entries <=> \E s \in sources[m] : \E c \in ChunkNumbers(Chunks(d, s)) : e = <<s, c>>
  BY DEF ChunkEntries
<1>2. /\ Chunks(d, RawRef) = d.chunks
      /\ \A i : Chunks(d, EntityRef(i)) = d.entities[i].chunks
      /\ \A i, j : Chunks(d, EventRef(i, j)) = d.entities[i].events[j].chunks
  BY DEF Chunks, RawRef, EntityRef, EventRef
<1>3. ASSUME NEW e \in Entries
      PROVE  Row(e) \in EmbeddingRows(m, d)
  <2>1. PICK s \in sources[m] : \E c \in ChunkNumbers(Chunks(d, s)) : e = <<s, c>>
    BY <1>1
  <2>2. PICK c \in ChunkNumbers(Chunks(d, s)) : e = <<s, c>>
    BY <2>1
  <2>3. Row(e) = EmbeddingRow(m, s, c)
    BY <2>2
  <2>4. CASE s = RawRef
    BY <2>2, <2>3, <2>4, <1>2 DEF EmbeddingRows
  <2>5. ASSUME NEW i \in DOMAIN d.entities, s = EntityRef(i)
        PROVE  Row(e) \in EmbeddingRows(m, d)
    BY <2>2, <2>3, <2>5, <1>2 DEF EmbeddingRows
  <2>6. ASSUME NEW p \in EventPlaces(d), s = EventRef(p[1], p[2])
        PROVE  Row(e) \in EmbeddingRows(m, d)
    BY <2>2, <2>3, <2>6, <1>2 DEF EmbeddingRows
  <2> QED BY <2>1, <2>4, <2>5, <2>6 DEF AllSources
<1>4. ASSUME NEW r \in EmbeddingRows(m, d)
      PROVE  r \in {Row(e) : e \in Entries}
  <2>1. ASSUME NEW s \in sources[m], NEW c \in ChunkNumbers(Chunks(d, s)), r = EmbeddingRow(m, s, c)
        PROVE  r \in {Row(e) : e \in Entries}
    <3>1. <<s, c>> \in Entries
      BY <1>1
    <3> QED BY <3>1, <2>1
  <2>2. ASSUME NEW c \in ChunkNumbers(d.chunks), r = EmbeddingRow(m, RawRef, c)
        PROVE  r \in {Row(e) : e \in Entries}
    BY <2>1, <2>2, <1>2, RawRef \in sources[m] DEF AllSources
  <2>3. ASSUME NEW i \in DOMAIN d.entities, NEW c \in ChunkNumbers(d.entities[i].chunks),
               r = EmbeddingRow(m, EntityRef(i), c)
        PROVE  r \in {Row(e) : e \in Entries}
    BY <2>1, <2>3, <1>2, EntityRef(i) \in sources[m] DEF AllSources
  <2>4. ASSUME NEW p \in EventPlaces(d), NEW c \in ChunkNumbers(d.entities[p[1]].events[p[2]].chunks),
               r = EmbeddingRow(m, EventRef(p[1], p[2]), c)
        PROVE  r \in {Row(e) : e \in Entries}
    BY <2>1, <2>4, <1>2, EventRef(p[1], p[2]) \in sources[m] DEF AllSources
  <2>5. \/ \E c \in ChunkNumbers(d.chunks) : r = EmbeddingRow(m, RawRef, c)
        \/ \E i \in DOMAIN d.entities : \E c \in ChunkNumbers(d.entities[i].chunks) :
              r = EmbeddingRow(m, EntityRef(i), c)
        \/ \E p \in EventPlaces(d) : \E c \in ChunkNumbers(d.entities[p[1]].events[p[2]].chunks) :
              r = EmbeddingRow(m, EventRef(p[1], p[2]), c)
    <3> DEFINE OfRaw == {EmbeddingRow(m, RawRef, c) : c \in ChunkNumbers(d.chunks)}
               OfEntity(i) == {EmbeddingRow(m, EntityRef(i), c) : c \in ChunkNumbers(d.entities[i].chunks)}
               OfEvent(p) == {EmbeddingRow(m, EventRef(p[1], p[2]), c) :
                                c \in ChunkNumbers(d.entities[p[1]].events[p[2]].chunks)}
    <3>1. EmbeddingRows(m, d) = OfRaw \cup (UNION {OfEntity(i) : i \in DOMAIN d.entities})
                                     \cup (UNION {OfEvent(p) : p \in EventPlaces(d)})
      BY DEF EmbeddingRows
    <3> HIDE DEF Row, Entries, OfRaw, OfEntity, OfEvent
    <3>2. \/ r \in OfRaw
          \/ \E i \in DOMAIN d.entities : r \in OfEntity(i)
          \/ \E p \in EventPlaces(d) : r \in OfEvent(p)
      BY <1>4, <3>1
    <3> QED BY <3>2 DEF OfRaw, OfEntity, OfEvent
  <2> QED BY <2>2, <2>3, <2>4, <2>5
<1> QED BY <1>3, <1>4

\* Every row of a graph carries its message.
LEMMA GraphCarriesMessage ==
  ASSUME NEW m, NEW d
  PROVE  \A r \in Graph(m, d) : r.msg = m
<1>1. \A r \in EntityRows(m, d) \cup EventRows(m, d) : r.msg = m
  BY DEF EntityRows, EventRows, NodeRow
<1>2. \A r \in LinkRows(m, d) : r.msg = m
  BY DEF LinkRows, LinkRow
<1>3. \A r \in RelationRows(m, d) : r.msg = m
  BY DEF RelationRows, RelationRow
<1>4. \A r \in EmbeddingRows(m, d) : r.msg = m
  BY DEF EmbeddingRows, EmbeddingRow
<1> QED BY <1>1, <1>2, <1>3, <1>4 DEF Graph, NodeRow

\* The rows a row of a graph refers to are in the graph.
LEMMA GraphIsClosed ==
  ASSUME NEW m, NEW d
  PROVE  \A r \in Graph(m, d) : \A ref \in References(r) : NodeRow(m, ref) \in Graph(m, d)
<1> DEFINE Closed(r) == \A ref \in References(r) : NodeRow(m, ref) \in Graph(m, d)
<1>1. /\ NodeRow(m, RawRef) \in Graph(m, d)
      /\ \A i \in DOMAIN d.entities : NodeRow(m, EntityRef(i)) \in Graph(m, d)
      /\ \A p \in EventPlaces(d) : /\ NodeRow(m, EventRef(p[1], p[2])) \in Graph(m, d)
                                   /\ p[1] \in DOMAIN d.entities
  BY DEF Graph, EntityRows, EventRows, EventPlaces
<1>2. \A ref : Closed(NodeRow(m, ref))
  BY <1>1 DEF References, NodeRow
<1>3. \A r \in EntityRows(m, d) \cup EventRows(m, d) : Closed(r)
  BY <1>2 DEF EntityRows, EventRows
<1>4. \A r \in LinkRows(m, d) : Closed(r)
  <2>1. ASSUME NEW p \in EventPlaces(d)
        PROVE  References(LinkRow(m, EventRef(p[1], p[2]), EntityRef(p[1])))
                 = {EventRef(p[1], p[2]), EntityRef(p[1])}
    BY DEF References, LinkRow
  <2> QED BY <2>1, <1>1 DEF LinkRows
<1>5. \A r \in RelationRows(m, d) : Closed(r)
  <2>1. ASSUME NEW e \in Endpoints(d)
        PROVE  /\ References(RelationRow(m, e[1], EntityRef(e[2]), EntityRef(e[3])))
                    = {EntityRef(e[2]), EntityRef(e[3])}
               /\ e[2] \in DOMAIN d.entities /\ e[3] \in DOMAIN d.entities
    BY DEF References, RelationRow, Endpoints
  <2> QED BY <2>1, <1>1 DEF RelationRows
<1>6. \A r \in EmbeddingRows(m, d) : Closed(r)
  <2>1. \A ref, c : References(EmbeddingRow(m, ref, c)) = {ref}
    BY DEF References, EmbeddingRow
  <2> QED BY <2>1, <1>1 DEF EmbeddingRows
<1> QED BY <1>2, <1>3, <1>4, <1>5, <1>6 DEF Graph

-----------------------------------------------------------------------------
(* The inductive invariant: what a job has written and collected is, at each *)
(* of its steps, exactly the part of the declared graph it has come to.      *)

AfterRaw         == {"suggestions", "entities", "events", "relationships", "chunks", "embedding", "commit"}
AfterSuggestions == {"entities", "events", "relationships", "chunks", "embedding", "commit"}
AfterEntities    == {"events", "relationships", "chunks", "embedding", "commit"}
AfterEvents      == {"relationships", "chunks", "embedding", "commit"}
AfterRelations   == {"chunks", "embedding", "commit"}

Part(c, S) == IF c THEN S ELSE {}

Written(m) ==
  Part(pc[m] \in AfterRaw, {NodeRow(m, RawRef)})
    \cup Part(pc[m] \in AfterEntities, EntityRows(m, job[m].data))
    \cup Part(pc[m] \in AfterEvents, EventRows(m, job[m].data) \cup LinkRows(m, job[m].data))
    \cup Part(pc[m] \in AfterRelations, RelationRows(m, job[m].data))
    \cup Part(pc[m] = "commit", EmbeddingRows(m, job[m].data))

EntityRefs(d) == {EntityRef(i) : i \in DOMAIN d.entities}
EventRefs(d)  == {EventRef(p[1], p[2]) : p \in EventPlaces(d)}

Listed(m) ==
  Part(pc[m] \in AfterRaw, {RawRef})
    \cup Part(pc[m] \in AfterEntities, EntityRefs(job[m].data))
    \cup Part(pc[m] \in AfterEvents, EventRefs(job[m].data))

AllStorable(d) == \A i \in DOMAIN d.entities : d.entities[i].storable
NoneTimed(d)   == \A p \in EventPlaces(d) : ~ d.entities[p[1]].events[p[2]].timed

StateOK ==
  /\ users \subseteq Users
  /\ leaving \subseteq users
  /\ job \in [Messages -> Jobs \cup {NoJob}]
  /\ pc \in [Messages -> Steps]
  /\ err \in [Messages -> Errors]
  /\ DOMAIN ids = Messages
  /\ DOMAIN sources = Messages
  /\ \A m \in Messages : pc[m] # "new" => job[m] \in Jobs

Progress(m) ==
  /\ tx[m] = Written(m)
  /\ pc[m] \in AfterRaw => job[m].owner \in users /\ sources[m] = Listed(m)
  /\ pc[m] \in AfterSuggestions => job[m].data.suggestions = {}
  /\ pc[m] \in AfterEntities => /\ ids[m] = TempIdToUuid(job[m].data.entities)
                                /\ AllStorable(job[m].data)
  /\ pc[m] \in AfterEvents => NoneTimed(job[m].data)

TxOK == /\ DOMAIN tx = Messages
        /\ tx = [m \in Messages |-> tx[m]]
        /\ \A m \in Messages : Progress(m)

DbOK ==
  /\ \A r \in db : r.msg \in Messages
  /\ \A m \in Messages :
       Memory(m) # {} => /\ pc[m] = "stored"
                         /\ Memory(m) = Graph(m, job[m].data)
                         /\ job[m].owner \in users

IInv == StateOK /\ TxOK /\ DbOK

\* A running job has written no more than the graph, and all of it at its commit.
LEMMA WrittenInGraph ==
  ASSUME NEW m
  PROVE  /\ Written(m) \subseteq Graph(m, job[m].data)
         /\ pc[m] = "commit" => Written(m) = Graph(m, job[m].data)
         /\ Written(m) # {} => pc[m] \in AfterRaw
BY DEF Written, Graph, Part, AfterRaw, AfterEntities, AfterEvents, AfterRelations

LEMMA InitIInv == Init => IInv
<1> SUFFICES ASSUME Init PROVE IInv
  OBVIOUS
<1>1. StateOK
  BY DEF Init, StateOK, Steps, Errors
<1>2. TxOK
  BY DEF Init, TxOK, Progress, Written, Part, AfterRaw, AfterSuggestions, AfterEntities,
         AfterEvents, AfterRelations
<1>3. DbOK
  BY DEF Init, DbOK, Memory
<1> QED BY <1>1, <1>2, <1>3 DEF IInv

\* A step of one job, the database apart, leaves the others where they are.
LEMMA OtherJobs ==
  ASSUME NEW n \in Messages, Progress(n), users' = users,
         pc'[n] = pc[n], job'[n] = job[n], tx'[n] = tx[n], ids'[n] = ids[n], sources'[n] = sources[n]
  PROVE  Progress(n)'
BY DEF Progress, Written, Listed

\* As long as the database, and the owners and steps of the messages that are
\* stored, stay as they are, so does DbOK.
LEMMA SameDb ==
  ASSUME DbOK, db' = db, users' = users,
         \A n \in Messages : pc[n] = "stored" => pc'[n] = "stored" /\ job'[n] = job[n]
  PROVE  DbOK'
<1>1. \A n : Memory(n)' = Memory(n)
  BY DEF Memory
<1> QED BY <1>1 DEF DbOK

\* A job that ends before its commit, with nothing written: what Raise and Lose do.
LEMMA EndsEmpty ==
  ASSUME IInv, NEW m \in Messages, NEW e \in Errors, NEW s \in {"failed", "lost"},
         pc[m] \in {"queued"} \cup Running,
         tx' = [tx EXCEPT ![m] = {}],
         err' = [err EXCEPT ![m] = e],
         pc' = [pc EXCEPT ![m] = s],
         UNCHANGED <<users, leaving, job, ids, sources, db>>
  PROVE  IInv'
<1> USE DEF IInv
<1>1. pc[m] # "stored" /\ pc[m] # "new"
  BY DEF Running
<1>2. StateOK'
  BY <1>1 DEF StateOK, Steps, Settled
<1>3. pc'[m] = s /\ tx'[m] = {} /\ DOMAIN tx' = Messages /\ tx' = [n \in Messages |-> tx'[n]]
  BY DEF StateOK, TxOK
<1>4. Progress(m)'
  BY <1>3 DEF Progress, Written, Part, AfterRaw, AfterSuggestions, AfterEntities, AfterEvents, AfterRelations
<1>5. ASSUME NEW n \in Messages, n # m
      PROVE  Progress(n)'
  BY <1>5, OtherJobs DEF TxOK, StateOK
<1>6. TxOK'
  BY <1>3, <1>4, <1>5 DEF TxOK
<1>7. DbOK'
  BY <1>1, SameDb DEF StateOK
<1> QED BY <1>2, <1>6, <1>7

\* A statement of a running job that goes on to the next step: it is enough to
\* look at what that job has written and collected.
LEMMA GoesOn ==
  ASSUME IInv, NEW m \in Messages, NEW s \in Running,
         pc[m] \in {"queued"} \cup Running,
         pc' = [pc EXCEPT ![m] = s],
         tx' = [n \in Messages |-> tx'[n]], DOMAIN ids' = Messages, DOMAIN sources' = Messages,
         \A n \in Messages \ {m} : tx'[n] = tx[n] /\ ids'[n] = ids[n] /\ sources'[n] = sources[n],
         UNCHANGED <<users, leaving, job, db, err>>,
         Progress(m)'
  PROVE  IInv'
<1> USE DEF IInv
<1>1. pc[m] # "stored" /\ pc[m] # "new"
  BY DEF Running
<1>2. StateOK'
  BY <1>1 DEF StateOK, Steps
<1>3. DOMAIN tx' = Messages
  OBVIOUS
<1>4. ASSUME NEW n \in Messages, n # m
      PROVE  Progress(n)'
  <2>1. pc'[n] = pc[n] /\ job'[n] = job[n] /\ tx'[n] = tx[n] /\ ids'[n] = ids[n] /\ sources'[n] = sources[n]
    BY <1>4 DEF TxOK, StateOK
  <2> QED BY <2>1, OtherJobs DEF TxOK
<1>5. TxOK'
  BY <1>3, <1>4 DEF TxOK
<1>6. DbOK'
  BY <1>1, SameDb DEF StateOK
<1> QED BY <1>2, <1>5, <1>6

LEMMA PublishStep ==
  ASSUME IInv, NEW m \in Messages, Publish(m)
  PROVE  IInv'
<1> USE DEF IInv, Publish, Goto
<1>1. PICK j \in Jobs : j.owner \in users /\ job' = [job EXCEPT ![m] = j]
  OBVIOUS
<1>2. StateOK'
  BY <1>1 DEF StateOK, Steps
<1>3. Progress(m)'
  <2>1. pc'[m] = "queued" /\ tx'[m] = {}
    BY DEF StateOK, TxOK, Progress, Written, Part, AfterRaw, AfterEntities, AfterEvents, AfterRelations
  <2> QED BY <2>1 DEF Progress, Written, Part, AfterRaw, AfterSuggestions, AfterEntities,
                      AfterEvents, AfterRelations
<1>4. ASSUME NEW n \in Messages, n # m
      PROVE  Progress(n)'
  BY <1>1, <1>4, OtherJobs DEF TxOK, StateOK
<1>5. TxOK'
  BY <1>3, <1>4 DEF TxOK
<1>6. DbOK'
  BY <1>1, SameDb DEF StateOK
<1> QED BY <1>2, <1>5, <1>6

LEMMA DeliverStep ==
  ASSUME IInv, NEW m \in Messages, Deliver(m)
  PROVE  IInv'
<1> USE DEF Deliver, Goto
<1>1. pc'[m] = "raw_message" /\ tx'[m] = tx[m] /\ tx[m] = {}
  BY DEF IInv, StateOK, TxOK, Progress, Written, Part, AfterRaw, AfterEntities, AfterEvents, AfterRelations
<1>2. Progress(m)'
  BY <1>1 DEF Progress, Written, Part, AfterRaw, AfterSuggestions, AfterEntities, AfterEvents, AfterRelations
<1>3. "raw_message" \in Running
  BY DEF Running
<1>4. tx' = [n \in Messages |-> tx'[n]] /\ DOMAIN ids' = Messages /\ DOMAIN sources' = Messages
  BY DEF IInv, StateOK, TxOK
<1> QED BY <1>2, <1>3, <1>4, GoesOn

LEMMA LoseStep ==
  ASSUME IInv, NEW m \in Messages, Lose(m)
  PROVE  IInv'
BY EndsEmpty, "Lost" \in Errors, "lost" \in {"failed", "lost"} DEF Lose, Goto, Errors

\* A statement that raises: its job ends with nothing written.
LEMMA RaiseStep ==
  ASSUME IInv, NEW m \in Messages, NEW e \in Errors, pc[m] \in Running, Raise(m, e),
         UNCHANGED <<users, leaving, job, ids, sources, db>>
  PROVE  IInv'
BY EndsEmpty, "failed" \in {"failed", "lost"} DEF Raise, Goto

\* What every step of a running job may count on.
LEMMA RunningJob ==
  ASSUME IInv, NEW m \in Messages, pc[m] \in Running
  PROVE  /\ job[m] \in Jobs /\ job[m].data \in Extractions /\ job[m].owner \in Users
         /\ Progress(m)
         /\ DOMAIN ids = Messages /\ DOMAIN sources = Messages /\ DOMAIN tx = Messages
         /\ DOMAIN pc = Messages
BY DEF IInv, StateOK, TxOK, Running, Jobs

LEMMA CreateRawMessageStep ==
  ASSUME IInv, NEW m \in Messages, CreateRawMessage(m)
  PROVE  IInv'
<1> USE DEF CreateRawMessage, Goto, Insert
<1>1. pc[m] = "raw_message" /\ pc[m] \in Running
  BY DEF Running
<1>2. CASE job[m].owner \in users
  <2>1. /\ tx' = [tx EXCEPT ![m] = @ \cup {NodeRow(m, RawRef)}]
        /\ sources' = [sources EXCEPT ![m] = {RawRef}]
        /\ pc' = [pc EXCEPT ![m] = "suggestions"]
        /\ UNCHANGED <<users, leaving, job, ids, db, err>>
    BY <1>2
  <2>2. tx[m] = {}
    BY <1>1, RunningJob DEF Progress, Written, Part, AfterRaw, AfterEntities, AfterEvents, AfterRelations
  <2>3. /\ tx'[m] = {NodeRow(m, RawRef)} /\ sources'[m] = {RawRef} /\ pc'[m] = "suggestions"
        /\ job'[m].owner \in users'
    BY <2>1, <2>2, <1>1, <1>2, RunningJob
  <2>4. Progress(m)'
    BY <2>3 DEF Progress, Written, Listed, Part, AfterRaw, AfterSuggestions, AfterEntities,
                AfterEvents, AfterRelations
  <2>5. tx' = [n \in Messages |-> tx'[n]] /\ DOMAIN ids' = Messages /\ DOMAIN sources' = Messages
    BY <2>1, <1>1, RunningJob
  <2> QED BY <2>1, <2>4, <2>5, <1>1, GoesOn, "suggestions" \in Running DEF Running
<1>3. CASE job[m].owner \notin users
  BY <1>1, <1>3, RaiseStep, "IntegrityError" \in Errors DEF Errors
<1> QED BY <1>2, <1>3

LEMMA BulkCreateRelationTypesStep ==
  ASSUME IInv, NEW m \in Messages, BulkCreateRelationTypes(m)
  PROVE  IInv'
<1> USE DEF BulkCreateRelationTypes, Goto
<1>1. pc[m] = "suggestions" /\ pc[m] \in Running
  BY DEF Running
<1>2. CASE job[m].data.suggestions = {}
  <2>1. /\ pc' = [pc EXCEPT ![m] = "entities"]
        /\ UNCHANGED <<users, leaving, job, ids, sources, tx, db, err>>
    BY <1>2
  <2>2. /\ pc'[m] = "entities" /\ tx'[m] = tx[m] /\ sources'[m] = sources[m] /\ Progress(m)
        /\ job'[m].owner = job[m].owner /\ job'[m].data = job[m].data
    BY <2>1, <1>1, RunningJob
  <2>3. Progress(m)'
    BY <2>1, <2>2, <1>1, <1>2 DEF Progress, Written, Listed, Part, AfterRaw, AfterSuggestions,
                           AfterEntities, AfterEvents, AfterRelations
  <2>4. tx' = [n \in Messages |-> tx'[n]] /\ DOMAIN ids' = Messages /\ DOMAIN sources' = Messages
    BY <2>1 DEF IInv, TxOK, StateOK
  <2> QED BY <2>1, <2>3, <2>4, <1>1, GoesOn, "entities" \in Running DEF Running
<1>3. CASE job[m].data.suggestions # {}
  BY <1>1, <1>3, RaiseStep, "IntegrityError" \in Errors, "ResourceClosedError" \in Errors DEF Errors
<1> QED BY <1>2, <1>3

LEMMA ConsolidateEntitiesStep ==
  ASSUME IInv, NEW m \in Messages, ConsolidateEntities(m)
  PROVE  IInv'
<1> USE DEF ConsolidateEntities, Goto, Insert
<1> DEFINE d == job[m].data
<1>1. pc[m] = "entities" /\ pc[m] \in Running
  BY DEF Running
<1>2. CASE AllStorable(d)
  <2>1. /\ tx' = [tx EXCEPT ![m] = @ \cup EntityRows(m, d)]
        /\ ids' = [ids EXCEPT ![m] = TempIdToUuid(d.entities)]
        /\ sources' = [sources EXCEPT ![m] = @ \cup EntityRefs(d)]
        /\ pc' = [pc EXCEPT ![m] = "events"]
        /\ UNCHANGED <<users, leaving, job, db, err>>
    BY <1>2 DEF AllStorable, EntityRows, EntityRefs
  <2>2. Progress(m)
    BY <1>1, RunningJob
  <2>3. /\ tx'[m] = tx[m] \cup EntityRows(m, d) /\ sources'[m] = sources[m] \cup EntityRefs(d)
        /\ ids'[m] = TempIdToUuid(d.entities) /\ pc'[m] = "events"
        /\ job'[m].owner = job[m].owner /\ job'[m].data = job[m].data
    BY <2>1, <1>1, RunningJob
  <2>4. Progress(m)'
    BY <2>1, <2>2, <2>3, <1>1, <1>2
       DEF Progress, Written, Listed, Part, AfterRaw, AfterSuggestions, AfterEntities,
           AfterEvents, AfterRelations
  <2>5. tx' = [n \in Messages |-> tx'[n]] /\ DOMAIN ids' = Messages /\ DOMAIN sources' = Messages
    BY <2>1, <1>1, RunningJob
  <2> QED BY <2>1, <2>4, <2>5, <1>1, GoesOn, "events" \in Running DEF Running
<1>3. CASE ~ AllStorable(d)
  BY <1>1, <1>3, RaiseStep, "DataError" \in Errors DEF Errors, AllStorable
<1> QED BY <1>2, <1>3

LEMMA ConsolidateEntitiesEventsStep ==
  ASSUME IInv, NEW m \in Messages, ConsolidateEntitiesEvents(m)
  PROVE  IInv'
<1> USE DEF ConsolidateEntitiesEvents, Goto, Insert
<1> DEFINE d == job[m].data
<1>1. pc[m] = "events" /\ pc[m] \in Running
  BY DEF Running
<1>2. Progress(m) /\ d \in Extractions
  BY <1>1, RunningJob
<1>3. ExtractedEvents(m) = EventPlaces(d) /\ EventLinks(m) = LinkRows(m, d)
  BY <1>1, <1>2, EventsAreDeclared DEF Progress, AfterEntities
<1>4. CASE NoneTimed(d)
  <2>1. /\ tx' = [tx EXCEPT ![m] = @ \cup ({NodeRow(m, e) : e \in EventRefs(d)} \cup LinkRows(m, d))]
        /\ sources' = [sources EXCEPT ![m] = @ \cup EventRefs(d)]
        /\ pc' = [pc EXCEPT ![m] = "relationships"]
        /\ UNCHANGED <<users, leaving, job, ids, db, err>>
    BY <1>3, <1>4 DEF NoneTimed, EventRefs
  <2>2. {NodeRow(m, e) : e \in EventRefs(d)} = EventRows(m, d)
    BY DEF EventRefs, EventRows
  <2>3. /\ tx'[m] = tx[m] \cup (EventRows(m, d) \cup LinkRows(m, d))
        /\ sources'[m] = sources[m] \cup EventRefs(d)
        /\ ids'[m] = ids[m] /\ pc'[m] = "relationships"
        /\ job'[m].owner = job[m].owner /\ job'[m].data = job[m].data
    BY <2>1, <2>2, <1>1, RunningJob
  <2>4. Progress(m)'
    BY <2>1, <2>3, <1>1, <1>2, <1>4
       DEF Progress, Written, Listed, Part, AfterRaw, AfterSuggestions, AfterEntities,
           AfterEvents, AfterRelations
  <2>5. tx' = [n \in Messages |-> tx'[n]] /\ DOMAIN ids' = Messages /\ DOMAIN sources' = Messages
    BY <2>1, <1>1, RunningJob
  <2> QED BY <2>1, <2>4, <2>5, <1>1, GoesOn, "relationships" \in Running DEF Running
<1>5. CASE ~ NoneTimed(d)
  <2>1. Raise(m, "DataError") /\ UNCHANGED <<users, leaving, job, ids, sources, db>>
    BY <1>3, <1>5 DEF NoneTimed
  <2> QED BY <2>1, <1>1, RaiseStep, "DataError" \in Errors DEF Errors
<1> QED BY <1>4, <1>5

LEMMA ConsolidateRelationshipsStep ==
  ASSUME IInv, NEW m \in Messages, ConsolidateRelationships(m)
  PROVE  IInv'
<1> USE DEF ConsolidateRelationships, Goto, Insert
<1> DEFINE d == job[m].data
           rows == {RelationshipRow(m, k) : k \in ResolvedRelations(m)}
<1>1. pc[m] = "relationships" /\ pc[m] \in Running
  BY DEF Running
<1>2. Progress(m) /\ d \in Extractions
  BY <1>1, RunningJob
<1>3. rows = RelationRows(m, d)
  BY <1>1, <1>2, RelationsAreDeclared DEF Progress, AfterEntities
<1>4. CASE Insert(m, rows) /\ pc' = [pc EXCEPT ![m] = "chunks"] /\ UNCHANGED err
  <2>1. /\ tx' = [tx EXCEPT ![m] = @ \cup rows]
        /\ pc' = [pc EXCEPT ![m] = "chunks"]
        /\ UNCHANGED <<users, leaving, job, ids, sources, db, err>>
    BY <1>4
  <2>2. /\ tx'[m] = tx[m] \cup RelationRows(m, d)
        /\ sources'[m] = sources[m] /\ ids'[m] = ids[m] /\ pc'[m] = "chunks"
        /\ job'[m].owner = job[m].owner /\ job'[m].data = job[m].data
    BY <2>1, <1>1, <1>3, RunningJob
  <2>3. Progress(m)'
    BY <2>1, <2>2, <1>1, <1>2
       DEF Progress, Written, Listed, Part, AfterRaw, AfterSuggestions, AfterEntities,
           AfterEvents, AfterRelations
  <2>4. tx' = [n \in Messages |-> tx'[n]] /\ DOMAIN ids' = Messages /\ DOMAIN sources' = Messages
    BY <2>1, <1>1, RunningJob
  <2> QED BY <2>1, <2>3, <2>4, <1>1, GoesOn, "chunks" \in Running DEF Running
<1>5. CASE Raise(m, "IntegrityError")
  BY <1>1, <1>5, RaiseStep, "IntegrityError" \in Errors DEF Errors
<1> QED BY <1>4, <1>5

\* The embeddings step knows all the embeddables of the message.
LEMMA EmbeddingsComplete ==
  ASSUME IInv, NEW m \in Messages, pc[m] \in {"chunks", "embedding"}
  PROVE  {EmbeddingRow(m, e[1], e[2]) : e \in ChunkEntries(m)} = EmbeddingRows(m, job[m].data)
<1>1. Progress(m) /\ job[m].data \in Extractions
  BY RunningJob DEF Running
<1>2. sources[m] = AllSources(job[m].data)
  BY <1>1 DEF Progress, Listed, Part, AfterRaw, AfterEntities, AfterEvents, AllSources,
              EntityRefs, EventRefs
<1> QED BY <1>1, <1>2, EmbeddingsAreDeclared

LEMMA SplitSourcesStep ==
  ASSUME IInv, NEW m \in Messages, SplitSources(m)
  PROVE  IInv'
<1> USE DEF SplitSources, Goto
<1>1. pc[m] = "chunks" /\ pc[m] \in Running
  BY DEF Running
<1>2. PICK s \in {"commit", "embedding"} :
         pc' = [pc EXCEPT ![m] = s] /\ (s = "commit" => ChunkEntries(m) = {})
  OBVIOUS
<1>3. s = "commit" => EmbeddingRows(m, job[m].data) = {}
  BY <1>1, <1>2, EmbeddingsComplete
<1>4. /\ tx'[m] = tx[m] /\ sources'[m] = sources[m] /\ ids'[m] = ids[m] /\ pc'[m] = s
      /\ job'[m].owner = job[m].owner /\ job'[m].data = job[m].data /\ Progress(m)
  BY <1>1, <1>2, RunningJob
<1>5. Progress(m)'
  BY <1>1, <1>3, <1>4
     DEF Progress, Written, Listed, Part, AfterRaw, AfterSuggestions, AfterEntities,
         AfterEvents, AfterRelations
<1>6. tx' = [n \in Messages |-> tx'[n]] /\ DOMAIN ids' = Messages /\ DOMAIN sources' = Messages
  BY DEF IInv, TxOK, StateOK
<1> QED BY <1>1, <1>2, <1>5, <1>6, GoesOn, s \in Running DEF Running

LEMMA PersistEmbeddingsStep ==
  ASSUME IInv, NEW m \in Messages, PersistEmbeddings(m)
  PROVE  IInv'
<1> USE DEF PersistEmbeddings, Goto, Insert
<1>1. pc[m] = "embedding" /\ pc[m] \in Running
  BY DEF Running
<1>2. /\ tx'[m] = tx[m] \cup EmbeddingRows(m, job[m].data)
      /\ sources'[m] = sources[m] /\ ids'[m] = ids[m] /\ pc'[m] = "commit"
      /\ job'[m].owner = job[m].owner /\ job'[m].data = job[m].data /\ Progress(m)
  BY <1>1, EmbeddingsComplete, RunningJob
<1>3. Progress(m)'
  BY <1>1, <1>2
     DEF Progress, Written, Listed, Part, AfterRaw, AfterSuggestions, AfterEntities,
         AfterEvents, AfterRelations
<1>4. tx' = [n \in Messages |-> tx'[n]] /\ DOMAIN ids' = Messages /\ DOMAIN sources' = Messages
  BY <1>1, RunningJob
<1> QED BY <1>1, <1>3, <1>4, GoesOn, "commit" \in Running DEF Running

LEMMA EmbeddingFailsStep ==
  ASSUME IInv, NEW m \in Messages, EmbeddingFails(m)
  PROVE  IInv'
BY RaiseStep, "UpstreamError" \in Errors, "embedding" \in Running DEF EmbeddingFails, Errors, Running

\* The commit makes the whole graph of its message visible, and only that.
LEMMA CommitWritesGraph ==
  ASSUME IInv, NEW m \in Messages, CommitTx(m)
  PROVE  /\ Memory(m) = {}
         /\ Memory(m)' = Graph(m, job[m].data)
         /\ \A n \in Messages \ {m} : Memory(n)' = Memory(n)
         /\ \A r \in db' : r.msg \in Messages
         /\ job[m].owner \in users
<1>1. pc[m] = "commit" /\ db' = db \cup tx[m]
  BY DEF CommitTx
<1>2. tx[m] = Graph(m, job[m].data) /\ job[m].owner \in users
  BY <1>1, RunningJob, WrittenInGraph DEF Progress, Running, AfterRaw
<1>3. \A r \in tx[m] : r.msg = m
  BY <1>2, GraphCarriesMessage
<1>4. Memory(m) = {}
  BY <1>1 DEF IInv, DbOK
<1>5. Memory(m)' = tx[m]
  BY <1>1, <1>3, <1>4 DEF Memory
<1>6. \A n \in Messages \ {m} : Memory(n)' = Memory(n)
  BY <1>1, <1>3 DEF Memory
<1>7. \A r \in db' : r.msg \in Messages
  BY <1>1, <1>3 DEF IInv, DbOK
<1> QED BY <1>2, <1>4, <1>5, <1>6, <1>7

LEMMA CommitTxStep ==
  ASSUME IInv, NEW m \in Messages, CommitTx(m)
  PROVE  IInv'
<1> USE DEF CommitTx, Goto
<1>1. pc[m] = "commit" /\ pc[m] \in Running
  BY DEF Running
<1>2. StateOK'
  BY <1>1, RunningJob DEF IInv, StateOK, Steps, Settled
<1>3. pc'[m] = "stored" /\ tx'[m] = {} /\ DOMAIN tx' = Messages /\ tx' = [n \in Messages |-> tx'[n]]
  BY <1>1, RunningJob
<1>4. Progress(m)'
  BY <1>3 DEF Progress, Written, Part, AfterRaw, AfterSuggestions, AfterEntities, AfterEvents, AfterRelations
<1>5. ASSUME NEW n \in Messages, n # m
      PROVE  Progress(n)' /\ pc'[n] = pc[n]
  <2>1. pc'[n] = pc[n] /\ tx'[n] = tx[n]
    BY <1>1, <1>5, RunningJob
  <2> QED BY <2>1, OtherJobs DEF IInv, TxOK
<1>6. TxOK'
  BY <1>3, <1>4, <1>5 DEF TxOK
<1>7. DbOK'
  <2>1. ASSUME NEW n \in Messages, Memory(n)' # {}
        PROVE  /\ pc'[n] = "stored" /\ Memory(n)' = Graph(n, job'[n].data)
               /\ job'[n].owner \in users'
    <3>1. CASE n = m
      BY <3>1, <1>3, CommitWritesGraph
    <3>2. CASE n # m
      <4>1. Memory(n)' = Memory(n) /\ pc'[n] = pc[n]
        BY <3>2, <1>5, CommitWritesGraph
      <4> QED BY <2>1, <4>1 DEF IInv, DbOK
    <3> QED BY <3>1, <3>2
  <2>2. \A r \in db' : r.msg \in Messages
    BY CommitWritesGraph
  <2> QED BY <2>1, <2>2 DEF DbOK
<1> QED BY <1>2, <1>6, <1>7 DEF IInv

LEMMA AdminSelectsStep ==
  ASSUME IInv, NEW u \in Users, AdminSelects(u)
  PROVE  IInv'
<1> USE DEF AdminSelects, IInv
<1>1. StateOK'
  BY DEF StateOK
<1>2. TxOK'
  BY OtherJobs DEF TxOK
<1>3. DbOK'
  BY SameDb
<1> QED BY <1>1, <1>2, <1>3

\* The cascade empties the memory of the messages of the user, and of no other.
LEMMA DeletionErases ==
  ASSUME IInv, NEW u \in Users, AdminDeletes(u), NEW m \in Messages
  PROVE  Memory(m)' = IF pc[m] = "stored" /\ job[m].owner = u THEN {} ELSE Memory(m)
<1>1. db' = {r \in db : r.msg \notin OwnedBy(u)}
  BY DEF AdminDeletes
<1>2. CASE m \in OwnedBy(u)
  <2>1. Memory(m)' = {} /\ job[m].owner = u
    BY <1>1, <1>2 DEF Memory, OwnedBy
  <2>2. pc[m] # "stored" => Memory(m) = {}
    BY DEF IInv, DbOK
  <2> QED BY <2>1, <2>2
<1>3. CASE m \notin OwnedBy(u)
  <2>1. Memory(m)' = Memory(m)
    BY <1>1, <1>3 DEF Memory
  <2>2. pc[m] = "stored" => job[m] # NoJob
    BY NoJobAssumption DEF IInv, StateOK
  <2> QED BY <2>1, <2>2, <1>3 DEF OwnedBy
<1> QED BY <1>2, <1>3

LEMMA AdminDeletesStep ==
  ASSUME IInv, NEW u \in Users, AdminDeletes(u)
  PROVE  IInv'
<1> USE DEF AdminDeletes
<1>1. StateOK'
  BY DEF IInv, StateOK
<1>2. ASSUME NEW n \in Messages
      PROVE  Progress(n)'
  <2>1. Progress(n)
    BY DEF IInv, TxOK
  <2>2. pc[n] \in AfterRaw => job[n] # NoJob /\ tx[n] # {}
    <3>1. ASSUME pc[n] \in AfterRaw
          PROVE  tx[n] # {}
      BY <3>1, <2>1 DEF Progress, Written, Part
    <3>2. ASSUME pc[n] \in AfterRaw
          PROVE  job[n] # NoJob
      BY <3>2, NoJobAssumption DEF IInv, StateOK, AfterRaw
    <3> QED BY <3>1, <3>2
  <2>3. pc[n] \in AfterRaw => job[n].owner \in users'
    BY <2>1, <2>2 DEF OwnedBy, Progress
  <2>4. Written(n)' = Written(n) /\ Listed(n)' = Listed(n)
    BY DEF Written, Listed
  <2> QED BY <2>1, <2>3, <2>4 DEF Progress
<1>3. TxOK'
  BY <1>2 DEF IInv, TxOK
<1>4. DbOK'
  <2>1. \A r \in db' : r.msg \in Messages
    BY DEF IInv, DbOK
  <2>2. ASSUME NEW n \in Messages, Memory(n)' # {}
        PROVE  /\ pc'[n] = "stored" /\ Memory(n)' = Graph(n, job'[n].data)
               /\ job'[n].owner \in users'
    BY <2>2, DeletionErases DEF IInv, DbOK
  <2> QED BY <2>1, <2>2 DEF DbOK
<1> QED BY <1>1, <1>3, <1>4 DEF IInv

LEMMA NextIInv == IInv /\ [Next]_vars => IInv'
<1> SUFFICES ASSUME IInv, [Next]_vars PROVE IInv'
  OBVIOUS
<1>1. ASSUME NEW m \in Messages, Publish(m) \/ Deliver(m) \/ Lose(m)
      PROVE  IInv'
  BY <1>1, PublishStep, DeliverStep, LoseStep
<1>2. ASSUME NEW m \in Messages, Consolidate(m)
      PROVE  IInv'
  BY <1>2, CreateRawMessageStep, BulkCreateRelationTypesStep, ConsolidateEntitiesStep,
     ConsolidateEntitiesEventsStep, ConsolidateRelationshipsStep DEF Consolidate
<1>3. ASSUME NEW m \in Messages, Embed(m) \/ CommitTx(m)
      PROVE  IInv'
  BY <1>3, SplitSourcesStep, PersistEmbeddingsStep, EmbeddingFailsStep, CommitTxStep DEF Embed
<1>4. ASSUME NEW u \in Users, AdminSelects(u) \/ AdminDeletes(u)
      PROVE  IInv'
  BY <1>4, AdminSelectsStep, AdminDeletesStep
<1>5. CASE UNCHANGED vars
  BY <1>5 DEF vars, IInv, StateOK, TxOK, DbOK, Progress, Written, Listed, Memory
<1> QED BY <1>1, <1>2, <1>3, <1>4, <1>5 DEF Next

\* At every moment each job has written exactly its part of the declared graph.
THEOREM Invariance == Spec => []IInv
BY InitIInv, NextIInv, PTL DEF Spec

-----------------------------------------------------------------------------
(* The properties of Consolidation. *)

\* Whole graphs only: see AllOrNothing.
THEOREM AtomicIngest == Spec => []AllOrNothing
<1>1. IInv => AllOrNothing
  BY DEF IInv, DbOK, AllOrNothing
<1> QED BY <1>1, Invariance, PTL

\* No row without its owner or without a row it refers to: see ReferencesResolve.
THEOREM NoDanglingRow == Spec => []ReferencesResolve
<1>1. IInv => ReferencesResolve
  <2> SUFFICES ASSUME IInv, NEW r \in db
               PROVE  /\ job[r.msg].owner \in users
                      /\ \A ref \in References(r) : NodeRow(r.msg, ref) \in db
    BY DEF ReferencesResolve
  <2> DEFINE m == r.msg
  <2>1. m \in Messages /\ r \in Memory(m)
    BY DEF IInv, DbOK, Memory
  <2>2. Memory(m) = Graph(m, job[m].data) /\ job[m].owner \in users
    BY <2>1 DEF IInv, DbOK
  <2>3. \A ref \in References(r) : NodeRow(m, ref) \in Memory(m)
    BY <2>1, <2>2, GraphIsClosed
  <2> QED BY <2>2, <2>3 DEF Memory
<1> QED BY <1>1, Invariance, PTL

\* The types of the variables.
THEOREM TypeCorrect == Spec => []TypeOK
<1> DEFINE Rows == UNION {Graph(m, d) : m \in Messages, d \in Extractions}
<1>1. IInv => TypeOK
  <2> SUFFICES ASSUME IInv PROVE TypeOK
    OBVIOUS
  <2>1. \A m \in Messages, d \in Extractions : Graph(m, d) \subseteq Rows
    OBVIOUS
  <2>2. ASSUME NEW m \in Messages
        PROVE  tx[m] \subseteq Rows
    <3>1. CASE tx[m] = {}
      BY <3>1
    <3>2. CASE tx[m] # {}
      <4>1. tx[m] \subseteq Graph(m, job[m].data) /\ pc[m] \in AfterRaw
        BY <3>2, WrittenInGraph DEF IInv, TxOK, Progress
      <4>2. job[m].data \in Extractions
        BY <4>1, RunningJob DEF AfterRaw, Running
      <4> QED BY <4>1, <4>2, <2>1
    <3> QED BY <3>1, <3>2
  <2>3. tx \in [Messages -> SUBSET Rows]
    BY <2>2 DEF IInv, TxOK
  <2>4. db \subseteq Rows
    <3> SUFFICES ASSUME NEW r \in db PROVE r \in Rows
      OBVIOUS
    <3>1. r.msg \in Messages /\ r \in Memory(r.msg)
      BY DEF IInv, DbOK, Memory
    <3>2. r \in Graph(r.msg, job[r.msg].data) /\ pc[r.msg] = "stored"
      BY <3>1 DEF IInv, DbOK
    <3>3. job[r.msg].data \in Extractions
      BY <3>1, <3>2 DEF IInv, StateOK, Jobs
    <3> QED BY <3>1, <3>2, <3>3, <2>1
  <2> QED BY <2>3, <2>4 DEF IInv, StateOK, TypeOK
<1> QED BY <1>1, Invariance, PTL

\* How the memory of a message changes in a step: a commit fills it, the deletion
\* of its owner empties it, and nothing else touches it.
LEMMA MemoryChanges ==
  ASSUME IInv, [Next]_vars, NEW m \in Messages
  PROVE  \/ Memory(m)' = Memory(m)
         \/ CommitTx(m) /\ Memory(m) = {}
         \/ \E u \in Users : AdminDeletes(u) /\ job[m].owner = u /\ Memory(m)' = {}
<1>1. CASE db' = db
  BY <1>1 DEF Memory
<1>2. ASSUME NEW n \in Messages, CommitTx(n)
      PROVE  Memory(m)' = Memory(m) \/ (CommitTx(m) /\ Memory(m) = {})
  BY <1>2, CommitWritesGraph
<1>3. ASSUME NEW u \in Users, AdminDeletes(u)
      PROVE  Memory(m)' = Memory(m) \/ (job[m].owner = u /\ Memory(m)' = {})
  BY <1>3, DeletionErases
<1>4. \/ db' = db
      \/ \E n \in Messages : CommitTx(n)
      \/ \E u \in Users : AdminDeletes(u)
  BY DEF Next, vars, Consolidate, Embed, Publish, Deliver, Lose, CreateRawMessage,
         BulkCreateRelationTypes, ConsolidateEntities, ConsolidateEntitiesEvents,
         ConsolidateRelationships, SplitSources, PersistEmbeddings, EmbeddingFails, AdminSelects
<1> QED BY <1>1, <1>2, <1>3, <1>4

\* No settled job runs again: see AtMostOnce.
THEOREM RunsAtMostOnce == Spec => AtMostOnce
<1> DEFINE Once(m) == pc[m] \in Settled => pc'[m] = pc[m] /\ Memory(m)' \subseteq Memory(m)
<1>1. ASSUME IInv, [Next]_vars, NEW m \in Messages
      PROVE  Once(m)
  <2> SUFFICES ASSUME pc[m] \in Settled PROVE pc'[m] = pc[m] /\ Memory(m)' \subseteq Memory(m)
    OBVIOUS
  <2>1. pc'[m] = pc[m]
    <3> USE DEF Settled, Running, Goto, Raise
    <3>1. DOMAIN pc = Messages
      BY <1>1 DEF IInv, StateOK
    <3>2. ASSUME NEW n \in Messages, Publish(n) \/ Deliver(n) \/ Lose(n)
          PROVE  pc'[m] = pc[m]
      BY <3>1, <3>2 DEF Publish, Deliver, Lose
    <3>3. ASSUME NEW n \in Messages, Consolidate(n)
          PROVE  pc'[m] = pc[m]
      BY <3>1, <3>3 DEF Consolidate, CreateRawMessage, BulkCreateRelationTypes,
             ConsolidateEntities, ConsolidateEntitiesEvents, ConsolidateRelationships
    <3>4. ASSUME NEW n \in Messages, Embed(n) \/ CommitTx(n)
          PROVE  pc'[m] = pc[m]
      BY <3>1, <3>4 DEF Embed, SplitSources, PersistEmbeddings, EmbeddingFails, CommitTx
    <3>5. ASSUME NEW u \in Users, AdminSelects(u) \/ AdminDeletes(u)
          PROVE  pc'[m] = pc[m]
      BY <3>5 DEF AdminSelects, AdminDeletes
    <3> QED BY <1>1, <3>2, <3>3, <3>4, <3>5 DEF Next, vars
  <2>2. Memory(m)' \subseteq Memory(m)
    BY <1>1, MemoryChanges DEF Settled, CommitTx
  <2> QED BY <2>1, <2>2
<1>2. IInv /\ [Next]_vars => [\A m \in Messages : Once(m)]_vars
  BY <1>1
<1> QED BY <1>2, Invariance, PTL DEF Spec, AtMostOnce

\* Memory goes only with its user, and then whole: see ForgottenWithUser.
THEOREM ForgetsWithUser == Spec => ForgottenWithUser
<1> DEFINE Forgets(m) ==
      Memory(m) # {} /\ Memory(m)' # Memory(m) => Memory(m)' = {} /\ job[m].owner \notin users'
<1>1. ASSUME IInv, [Next]_vars, NEW m \in Messages
      PROVE  Forgets(m)
  BY <1>1, MemoryChanges DEF AdminDeletes
<1>2. IInv /\ [Next]_vars => [\A m \in Messages : Forgets(m)]_vars
  BY <1>1
<1> QED BY <1>2, Invariance, PTL DEF Spec, ForgottenWithUser

-----------------------------------------------------------------------------
(* Consolidation implements MemoryIngest. *)

\* MemoryIngest declares the graph of a message with the same operators.
LEMMA SameGraph ==
  ASSUME NEW m, NEW d
  PROVE  Ingest!Graph(m, d) = Graph(m, d) /\ Ingest!Storable(d) = Storable(d)
<1>1. Ingest!EntityRows(m, d) = EntityRows(m, d)
  BY DEF EntityRows, Ingest!EntityRows, NodeRow, Ingest!NodeRow, EntityRef, Ingest!EntityRef
<1>2. Ingest!EventPlaces(d) = EventPlaces(d)
  BY DEF EventPlaces, Ingest!EventPlaces
<1>3. Ingest!EventRows(m, d) = EventRows(m, d)
  BY <1>2 DEF EventRows, Ingest!EventRows, NodeRow, Ingest!NodeRow, EventRef, Ingest!EventRef
<1>4. Ingest!LinkRows(m, d) = LinkRows(m, d)
  BY <1>2 DEF LinkRows, Ingest!LinkRows, LinkRow, Ingest!LinkRow, EventRef, Ingest!EventRef,
              EntityRef, Ingest!EntityRef
<1>5. Ingest!RelationRows(m, d) = RelationRows(m, d)
  BY DEF RelationRows, Ingest!RelationRows, Endpoints, Ingest!Endpoints, RelationRow,
         Ingest!RelationRow, EntityRef, Ingest!EntityRef
<1>6. Ingest!EmbeddingRows(m, d) = EmbeddingRows(m, d)
  BY <1>2 DEF EmbeddingRows, Ingest!EmbeddingRows, EmbeddingRow, Ingest!EmbeddingRow,
              ChunkNumbers, Ingest!ChunkNumbers, EntityRef, Ingest!EntityRef, EventRef,
              Ingest!EventRef, RawRef, Ingest!RawRef
<1>7. Ingest!NodeRow(m, Ingest!RawRef) = NodeRow(m, RawRef)
  BY DEF NodeRow, Ingest!NodeRow, RawRef, Ingest!RawRef
<1>8. Ingest!Storable(d) = Storable(d)
  BY DEF Storable, Ingest!Storable
<1> QED BY <1>1, <1>3, <1>4, <1>5, <1>6, <1>7, <1>8 DEF Graph, Ingest!Graph

\* A step of a running job that does not end it is no step of MemoryIngest.
LEMMA RunningIsOpen ==
  ASSUME IInv, NEW m \in Messages, NEW s \in Running, pc[m] \in {"queued"} \cup Running,
         pc' = [pc EXCEPT ![m] = s], UNCHANGED <<users, job, db>>
  PROVE  UNCHANGED Ingest!vars
<1>1. \A n \in Messages : Outcome(n)' = Outcome(n)
  <2>1. ASSUME NEW n \in Messages, n # m
        PROVE  pc'[n] = pc[n]
    BY <2>1 DEF IInv, StateOK
  <2>2. \A n : pc'[n] = pc[n] => Outcome(n)' = Outcome(n)
    BY DEF Outcome
  <2>3. pc'[m] = s
    BY DEF IInv, StateOK
  <2>4. Outcome(m) = "open" /\ Outcome(m)' = "open"
    BY <2>3 DEF Outcome, Running
  <2> QED BY <2>1, <2>2, <2>4
<1>2. \A n \in Messages : Memory(n)' = Memory(n)
  BY DEF Memory
<1> QED BY <1>1, <1>2 DEF Ingest!vars

\* A job that ends without a commit is lost.
LEMMA EndedIsLost ==
  ASSUME IInv, NEW m \in Messages, NEW s \in {"failed", "lost"}, pc[m] \in {"queued"} \cup Running,
         pc' = [pc EXCEPT ![m] = s], UNCHANGED <<users, job, db>>
  PROVE  Ingest!Lose(m)
<1>1. ASSUME NEW n \in Messages, n # m
      PROVE  Outcome(n)' = Outcome(n)
  <2>1. pc'[n] = pc[n]
    BY <1>1 DEF IInv, StateOK
  <2> QED BY <2>1 DEF Outcome
<1>2. pc'[m] = s
  BY DEF IInv, StateOK
<1>3. Outcome(m) = "open" /\ Outcome(m)' = "lost"
  BY <1>2 DEF Outcome, Running
<1>4. \A n \in Messages : Memory(n)' = Memory(n)
  BY DEF Memory
<1> QED BY <1>1, <1>3, <1>4 DEF Ingest!Lose

\* The commit stores the message, AdminDeletes erases a user, Publish accepts.
LEMMA CommitStores ==
  ASSUME IInv, NEW m \in Messages, CommitTx(m)
  PROVE  Ingest!Store(m)
<1>1. pc[m] = "commit" /\ pc[m] \in Running /\ pc' = [pc EXCEPT ![m] = "stored"]
  BY DEF CommitTx, Goto, Running
<1>2. ASSUME NEW n \in Messages, n # m
      PROVE  Outcome(n)' = Outcome(n)
  <2>1. pc'[n] = pc[n]
    BY <1>1, <1>2 DEF IInv, StateOK
  <2> QED BY <2>1 DEF Outcome
<1>3. Outcome(m) = "open" /\ Outcome(m)' = "stored"
  <2>1. pc'[m] = "stored"
    BY <1>1 DEF IInv, StateOK
  <2> QED BY <1>1, <2>1 DEF Outcome, Running
<1>4. Storable(job[m].data)
  <2> DEFINE d == job[m].data
  <2>1. d.suggestions = {} /\ AllStorable(d) /\ NoneTimed(d)
    BY <1>1, RunningJob DEF Progress, AfterSuggestions, AfterEntities, AfterEvents
  <2>2. \A i \in DOMAIN d.entities : \A j \in DOMAIN d.entities[i].events : <<i, j>> \in EventPlaces(d)
    BY DEF EventPlaces
  <2>3. \A i \in DOMAIN d.entities : \A j \in DOMAIN d.entities[i].events :
           ~ d.entities[i].events[j].timed
    BY <2>1, <2>2 DEF NoneTimed
  <2> QED BY <2>1, <2>3 DEF Storable, AllStorable
<1>5. users' = users /\ job' = job
  BY DEF CommitTx
<1>6. [n \in Messages |-> Memory(n)]' = [[n \in Messages |-> Memory(n)] EXCEPT ![m] = Graph(m, job[m].data)]
  BY CommitWritesGraph
<1>7. [n \in Messages |-> Outcome(n)]' = [[n \in Messages |-> Outcome(n)] EXCEPT ![m] = "stored"]
  BY <1>2, <1>3
<1>8. job[m].owner \in users
  BY CommitWritesGraph
<1>9. [n \in Messages |-> Outcome(n)][m] = "open"
  BY <1>3
<1> QED BY <1>4, <1>5, <1>6, <1>7, <1>8, <1>9, SameGraph DEF Ingest!Store

LEMMA DeletionErasesUser ==
  ASSUME IInv, NEW u \in Users, AdminDeletes(u)
  PROVE  Ingest!EraseUser(u)
<1>1. u \in users /\ users' = users \ {u} /\ UNCHANGED <<job, pc>>
  BY DEF AdminDeletes, IInv, StateOK
<1>2. \A m \in Messages : Outcome(m)' = Outcome(m) /\ (Outcome(m) = "stored" <=> pc[m] = "stored")
  BY <1>1 DEF Outcome, IInv, StateOK, Steps, Settled, Running
<1>3. \A m \in Messages :
        Memory(m)' = IF Outcome(m) = "stored" /\ job[m].owner = u THEN {} ELSE Memory(m)
  BY <1>2, DeletionErases
<1> QED BY <1>1, <1>2, <1>3 DEF Ingest!EraseUser

LEMMA PublishAccepts ==
  ASSUME IInv, NEW m \in Messages, Publish(m)
  PROVE  Ingest!Accept(m)
<1>1. /\ pc[m] = "new" /\ pc' = [pc EXCEPT ![m] = "queued"] /\ users' = users /\ db' = db
      /\ \E j \in Jobs : job' = [job EXCEPT ![m] = j]
  BY DEF Publish, Goto
<1>2. ASSUME NEW n \in Messages, n # m
      PROVE  Outcome(n)' = Outcome(n)
  <2>1. pc'[n] = pc[n]
    BY <1>1, <1>2 DEF IInv, StateOK
  <2> QED BY <2>1 DEF Outcome
<1>3. Outcome(m) = "new" /\ Outcome(m)' = "open"
  <2>1. pc'[m] = "queued"
    BY <1>1 DEF IInv, StateOK
  <2> QED BY <1>1, <2>1 DEF Outcome, Running
<1>4. \A n \in Messages : Memory(n)' = Memory(n)
  BY <1>1 DEF Memory
<1>5. Ingest!Jobs = Jobs
  BY DEF Ingest!Jobs, Jobs
<1> QED BY <1>1, <1>2, <1>3, <1>4, <1>5 DEF Ingest!Accept

LEMMA InitRefines == Init => Ingest!Init
<1> SUFFICES ASSUME Init PROVE Ingest!Init
  OBVIOUS
<1>1. \A m \in Messages : Outcome(m) = "new" /\ Memory(m) = {}
  BY DEF Init, Outcome, Running, Memory
<1> QED BY <1>1 DEF Init, Ingest!Init

LEMMA StepRefines == IInv /\ [Next]_vars => [Ingest!Next]_Ingest!vars
<1> SUFFICES ASSUME IInv, [Next]_vars PROVE [Ingest!Next]_Ingest!vars
  OBVIOUS
<1> USE DEF Goto, Raise
<1>1. ASSUME NEW m \in Messages, Publish(m)
      PROVE  Ingest!Next
  BY <1>1, PublishAccepts DEF Ingest!Next
<1>2. ASSUME NEW m \in Messages, Deliver(m)
      PROVE  UNCHANGED Ingest!vars
  BY <1>2, RunningIsOpen, "raw_message" \in Running DEF Deliver, Running
<1>3. ASSUME NEW m \in Messages, Lose(m)
      PROVE  Ingest!Next
  <2>1. Ingest!Lose(m)
    BY <1>3, EndedIsLost, "lost" \in {"failed", "lost"} DEF Lose
  <2> QED BY <2>1 DEF Ingest!Next
<1>4. ASSUME NEW m \in Messages, Consolidate(m)
      PROVE  Ingest!Next \/ UNCHANGED Ingest!vars
  <2>1. /\ UNCHANGED <<users, job, db>> /\ pc[m] \in Running
        /\ \E s \in {"suggestions", "entities", "events", "relationships", "chunks", "failed"} :
              pc' = [pc EXCEPT ![m] = s]
    BY <1>4 DEF Consolidate, CreateRawMessage, BulkCreateRelationTypes, ConsolidateEntities,
           ConsolidateEntitiesEvents, ConsolidateRelationships, Running
  <2>2. CASE pc' = [pc EXCEPT ![m] = "failed"]
    <3>1. Ingest!Lose(m)
      BY <2>1, <2>2, EndedIsLost, "failed" \in {"failed", "lost"}
    <3> QED BY <3>1 DEF Ingest!Next
  <2>3. ASSUME NEW s \in Running, pc' = [pc EXCEPT ![m] = s]
        PROVE  UNCHANGED Ingest!vars
    BY <2>1, <2>3, RunningIsOpen
  <2> QED BY <2>1, <2>2, <2>3 DEF Running
<1>5. ASSUME NEW m \in Messages, Embed(m)
      PROVE  Ingest!Next \/ UNCHANGED Ingest!vars
  <2>1. /\ UNCHANGED <<users, job, db>> /\ pc[m] \in Running
        /\ \E s \in {"embedding", "commit", "failed"} : pc' = [pc EXCEPT ![m] = s]
    BY <1>5 DEF Embed, SplitSources, PersistEmbeddings, EmbeddingFails, Running
  <2>2. CASE pc' = [pc EXCEPT ![m] = "failed"]
    <3>1. Ingest!Lose(m)
      BY <2>1, <2>2, EndedIsLost, "failed" \in {"failed", "lost"}
    <3> QED BY <3>1 DEF Ingest!Next
  <2>3. ASSUME NEW s \in Running, pc' = [pc EXCEPT ![m] = s]
        PROVE  UNCHANGED Ingest!vars
    BY <2>1, <2>3, RunningIsOpen
  <2> QED BY <2>1, <2>2, <2>3 DEF Running
<1>6. ASSUME NEW m \in Messages, CommitTx(m)
      PROVE  Ingest!Next
  BY <1>6, CommitStores DEF Ingest!Next
<1>7. ASSUME NEW u \in Users, AdminSelects(u)
      PROVE  UNCHANGED Ingest!vars
  BY <1>7 DEF AdminSelects, Ingest!vars, Outcome, Memory
<1>8. ASSUME NEW u \in Users, AdminDeletes(u)
      PROVE  Ingest!Next
  BY <1>8, DeletionErasesUser DEF Ingest!Next
<1>9. CASE UNCHANGED vars
  BY <1>9 DEF vars, Ingest!vars, Outcome, Memory
<1> QED BY <1>1, <1>2, <1>3, <1>4, <1>5, <1>6, <1>7, <1>8, <1>9 DEF Next

\* Whatever interleaves, the committed database changes as MemoryIngest says: see
\* ImplementsIngest.
THEOREM Refinement == Spec => ImplementsIngest
BY InitRefines, StepRefines, Invariance, PTL DEF Spec, ImplementsIngest, Ingest!Spec

=============================================================================
