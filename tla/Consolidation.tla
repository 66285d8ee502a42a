--------------------------- MODULE Consolidation ---------------------------
(***************************************************************************)
(* The worker side of the memory pipeline: consolidate_extracted_memory    *)
(* (api/tasks/tasks.py) runs ConsolidationService.consolidate and          *)
(* generate_consolidation_embeddings in one database transaction           *)
(* (provide_transaction_taskiq).  Many jobs run at once; each statement of *)
(* a job is one action, so that other jobs, the administrator's deletion   *)
(* of a user and crashes may come between any two of them.                 *)
(*                                                                         *)
(* A job arrives through a broker without acknowledgement: it is delivered *)
(* at most once and is not retried.  Writes of a running job are kept in   *)
(* tx and become visible (db) at its commit.                               *)
(***************************************************************************)
EXTENDS MemoryGraph, FiniteSets

CONSTANTS
  Messages,     \* the consolidation jobs that are ever published
  Users,
  Extractions,  \* what the LLM may extract from a message
  KnownTypes,   \* names of the relation types that are in the database
  NoJob         \* job of a message that is not published yet

Event  == [timed : BOOLEAN, chunks : Nat]
Entity == [temp_id : Nat, storable : BOOLEAN, chunks : Nat, events : Seq(Event)]

ASSUME ExtractionsAssumption ==
  \A d \in Extractions :
     /\ d.chunks \in Nat
     /\ d.entities \in Seq(Entity)
     /\ d.relations \in Seq([from : Nat, to : Nat])
     /\ DistinctTempIds(d)

VARIABLES
  users,    \* users that exist (committed)
  leaving,  \* users whose deletion the administrator has begun
  job,      \* [Messages -> the owner and extraction published for it]
  pc,       \* [Messages -> the statement its job executes next]
  ids,      \* [Messages -> temp_id_to_uuid]
  sources,  \* [Messages -> the embeddables of its ConsolidationResult]
  tx,       \* [Messages -> rows written, not committed]
  db,       \* committed rows
  err       \* [Messages -> the exception that ended the job, or "none"]

vars == <<users, leaving, job, pc, ids, sources, tx, db, err>>

Jobs == [owner : Users, data : Extractions]

ASSUME NoJobAssumption == NoJob \notin Jobs

Running  == {"raw_message", "suggestions", "entities", "events", "relationships",
             "chunks", "embedding", "commit"}
Settled  == {"stored", "failed", "lost"}
Steps    == {"new", "queued"} \cup Running \cup Settled
Errors   == {"none", "IntegrityError", "DataError", "ResourceClosedError", "UpstreamError", "Lost"}

EmptyMap == [tid \in {} |-> 0]

Init ==
  /\ users = Users
  /\ leaving = {}
  /\ job = [m \in Messages |-> NoJob]
  /\ pc = [m \in Messages |-> "new"]
  /\ ids = [m \in Messages |-> EmptyMap]
  /\ sources = [m \in Messages |-> {}]
  /\ tx = [m \in Messages |-> {}]
  /\ db = {}
  /\ err = [m \in Messages |-> "none"]

-----------------------------------------------------------------------------
(* Steps shared by the statements of a job. *)

Goto(m, step) == pc' = [pc EXCEPT ![m] = step]

Insert(m, rows) == tx' = [tx EXCEPT ![m] = @ \cup rows]

\* Variant: the session is not closed on an exception.
RaiseWithoutRollback(m, e) ==
  /\ UNCHANGED tx
  /\ err' = [err EXCEPT ![m] = e]
  /\ Goto(m, "failed")

\* An exception leaves the session's begin() block: the transaction is rolled
\* back.  IntegrityError is logged and swallowed, others reach the broker, which
\* records the failure and does not deliver the job again.
Raise(m, e) ==
  /\ tx' = [tx EXCEPT ![m] = {}]
  /\ err' = [err EXCEPT ![m] = e]
  /\ Goto(m, "failed")

-----------------------------------------------------------------------------
(* Publication and delivery. *)

\* The chat handler publishes the job of a user it has just authenticated.
Publish(m) ==
  /\ pc[m] = "new"
  /\ \E j \in Jobs :
        /\ j.owner \in users
        /\ job' = [job EXCEPT ![m] = j]
  /\ Goto(m, "queued")
  /\ UNCHANGED <<users, leaving, ids, sources, tx, db, err>>

Deliver(m) ==
  /\ pc[m] = "queued"
  /\ Goto(m, "raw_message")
  /\ UNCHANGED <<users, leaving, job, ids, sources, tx, db, err>>

\* The broker has no subscriber for the job, or the worker that runs it dies:
\* nothing brings the job back, and the database rolls its transaction back.
Lose(m) ==
  /\ pc[m] \in {"queued"} \cup Running
  /\ tx' = [tx EXCEPT ![m] = {}]
  /\ err' = [err EXCEPT ![m] = "Lost"]
  /\ Goto(m, "lost")
  /\ UNCHANGED <<users, leaving, job, ids, sources, db>>

-----------------------------------------------------------------------------
(* ConsolidationService.consolidate *)

\* The first write of the transaction.  The foreign key on users needs the owner
\* to exist and locks it (see AdminDeletes).
CreateRawMessage(m) ==
  /\ pc[m] = "raw_message"
  /\ \/ /\ job[m].owner \in users
        /\ Insert(m, {NodeRow(m, RawRef)})
        /\ sources' = [sources EXCEPT ![m] = {RawRef}]
        /\ Goto(m, "suggestions")
        /\ UNCHANGED err
     \/ /\ job[m].owner \notin users
        /\ Raise(m, "IntegrityError")
        /\ UNCHANGED sources
  /\ UNCHANGED <<users, leaving, job, ids, db>>

\* bulk_create_types inserts every suggested type and then reads the result of an
\* INSERT that returns no rows; the suggestions to insert next have no user_id.
\* Whichever is met first ends the job.
BulkCreateRelationTypes(m) ==
  /\ pc[m] = "suggestions"
  /\ LET names == job[m].data.suggestions
     IN \/ /\ names = {}
           /\ Goto(m, "entities")
           /\ UNCHANGED <<tx, err>>
        \/ /\ names \cap KnownTypes # {}
           /\ Raise(m, "IntegrityError")
        \/ /\ names # {} /\ names \cap KnownTypes = {}
           /\ Raise(m, "ResourceClosedError")
  /\ UNCHANGED <<users, leaving, job, ids, sources, db>>

\* Variant: the rows of RETURNING are taken in reverse.
TempIdToUuidReversed(es) ==
  [tid \in {es[i].temp_id : i \in DOMAIN es} |->
     Len(es) + 1 - (CHOOSE i \in DOMAIN es : es[i].temp_id = tid)]

\* temp_id -> UUID, filled in the order of the extraction: a later entity with
\* the same temp_id overwrites an earlier one.
TempIdToUuid(es) ==
  [tid \in {es[i].temp_id : i \in DOMAIN es} |->
     CHOOSE i \in DOMAIN es :
        /\ es[i].temp_id = tid
        /\ \A k \in DOMAIN es : es[k].temp_id = tid => k <= i]

\* PostgreSQL refuses an entity_type that is not a label of the enum the
\* migration created.  The rows of RETURNING are taken to come in the order of
\* the parameters, as consolidate does when it zips the two lists.
ConsolidateEntities(m) ==
  /\ pc[m] = "entities"
  /\ LET es == job[m].data.entities
     IN \/ /\ \A i \in DOMAIN es : es[i].storable
           /\ Insert(m, {NodeRow(m, EntityRef(i)) : i \in DOMAIN es})
           /\ ids' = [ids EXCEPT ![m] = TempIdToUuid(es)]
           /\ sources' = [sources EXCEPT ![m] = @ \cup {EntityRef(i) : i \in DOMAIN es}]
           /\ Goto(m, "events")
           /\ UNCHANGED err
        \/ /\ \E i \in DOMAIN es : ~ es[i].storable
           /\ Raise(m, "DataError")
           /\ UNCHANGED <<ids, sources>>
  /\ UNCHANGED <<users, leaving, job, db>>

\* The events of the entities that have a UUID, as places <<entity, event>>.
ExtractedEvents(m) ==
  LET es == job[m].data.entities
  IN {p \in EventPlaces(job[m].data) : es[p[1]].temp_id \in DOMAIN ids[m]}

\* An event is linked to the entity its temp_id stands for.
EventLinks(m) ==
  LET es == job[m].data.entities
  IN {LinkRow(m, EventRef(p[1], p[2]), EntityRef(ids[m][es[p[1]].temp_id])) :
         p \in ExtractedEvents(m)}

\* The timestamp of an event is passed on as text to a TIMESTAMP column, which
\* the driver refuses.
ConsolidateEntitiesEvents(m) ==
  /\ pc[m] = "events"
  /\ LET es == job[m].data.entities
         new == {EventRef(p[1], p[2]) : p \in ExtractedEvents(m)}
     IN \/ /\ \A p \in ExtractedEvents(m) : ~ es[p[1]].events[p[2]].timed
           /\ Insert(m, {NodeRow(m, e) : e \in new} \cup EventLinks(m))
           /\ sources' = [sources EXCEPT ![m] = @ \cup new]
           /\ Goto(m, "relationships")
           /\ UNCHANGED err
        \/ /\ \E p \in ExtractedEvents(m) : es[p[1]].events[p[2]].timed
           /\ Raise(m, "DataError")
           /\ UNCHANGED sources
  /\ UNCHANGED <<users, leaving, job, ids, db>>

\* Variant: a relation of an entity to itself is kept.
ResolvedRelationsSelf(m) ==
  LET rs == job[m].data.relations
  IN {k \in DOMAIN rs : rs[k].from \in DOMAIN ids[m] /\ rs[k].to \in DOMAIN ids[m]}

\* The relations whose two temp ids stand for two different entities.
ResolvedRelations(m) ==
  LET rs == job[m].data.relations
  IN {k \in DOMAIN rs :
        /\ rs[k].from \in DOMAIN ids[m]
        /\ rs[k].to \in DOMAIN ids[m]
        /\ ids[m][rs[k].from] # ids[m][rs[k].to]}

RelationshipRow(m, k) ==
  LET r == job[m].data.relations[k]
  IN RelationRow(m, k, EntityRef(ids[m][r.from]), EntityRef(ids[m][r.to]))

\* valid_from is the clock at the insertion: two rows between the same entities
\* collide on uq_relationship when the clock did not move.
ConsolidateRelationships(m) ==
  /\ pc[m] = "relationships"
  /\ LET rows == {RelationshipRow(m, k) : k \in ResolvedRelations(m)}
     IN \/ /\ Insert(m, rows)
           /\ Goto(m, "chunks")
           /\ UNCHANGED err
        \/ /\ \E r, s \in rows : r # s /\ r.from = s.from /\ r.to = s.to
           /\ Raise(m, "IntegrityError")
  /\ UNCHANGED <<users, leaving, job, ids, sources, db>>

-----------------------------------------------------------------------------
(* EmbeddingGeneratorService.generate_consolidation_embeddings *)

Chunks(d, ref) ==
  CASE ref.kind = "raw_message" -> d.chunks
    [] ref.kind = "entity"      -> d.entities[ref.id[1]].chunks
    [] ref.kind = "event"       -> d.entities[ref.id[1]].events[ref.id[2]].chunks

ChunkEntries(m) ==
  UNION {{<<s, c>> : c \in ChunkNumbers(Chunks(job[m].data, s))} : s \in sources[m]}

\* Variant: what consolidate wrote is committed before the API call.
SplitSourcesCommits(m) ==
  /\ pc[m] = "chunks"
  /\ db' = db \cup tx[m]
  /\ tx' = [tx EXCEPT ![m] = {}]
  /\ Goto(m, IF ChunkEntries(m) = {} THEN "commit" ELSE "embedding")
  /\ UNCHANGED <<users, leaving, job, ids, sources, err>>

\* Without a chunk there is nothing to embed; otherwise the embeddings API is
\* called with the transaction open.
SplitSources(m) ==
  /\ pc[m] = "chunks"
  /\ Goto(m, IF ChunkEntries(m) = {} THEN "commit" ELSE "embedding")
  /\ UNCHANGED <<users, leaving, job, ids, sources, tx, db, err>>

PersistEmbeddings(m) ==
  /\ pc[m] = "embedding"
  /\ Insert(m, {EmbeddingRow(m, e[1], e[2]) : e \in ChunkEntries(m)})
  /\ Goto(m, "commit")
  /\ UNCHANGED <<users, leaving, job, ids, sources, db, err>>

\* Variant: a failed API call is tried again, without end.
EmbeddingRetries(m) ==
  /\ pc[m] = "embedding"
  /\ Goto(m, "chunks")
  /\ UNCHANGED <<users, leaving, job, ids, sources, tx, db, err>>

\* The API fails, or answers with fewer vectors than texts (IndexError).
EmbeddingFails(m) ==
  /\ pc[m] = "embedding"
  /\ Raise(m, "UpstreamError")
  /\ UNCHANGED <<users, leaving, job, ids, sources, db>>

-----------------------------------------------------------------------------
(* End of the transaction. *)

CommitTx(m) ==
  /\ pc[m] = "commit"
  /\ db' = db \cup tx[m]
  /\ tx' = [tx EXCEPT ![m] = {}]
  /\ Goto(m, "stored")
  /\ UNCHANGED <<users, leaving, job, ids, sources, err>>

-----------------------------------------------------------------------------
(* The administrator deletes a user.  The ORM first reads the user's rows and *)
(* would set their user_id to NULL, so it goes on only when it sees none; the *)
(* DELETE then waits for the transactions that hold a key-share lock on the   *)
(* user, and cascades to whatever they committed.  The user's auth identities *)
(* and channels, which bar the deletion the same way, are taken to be gone.   *)

OwnedBy(u) == {m \in Messages : job[m] # NoJob /\ job[m].owner = u}

AdminSelects(u) ==
  /\ u \in users \ leaving
  /\ \A r \in db : r.msg \notin OwnedBy(u)
  /\ leaving' = leaving \cup {u}
  /\ UNCHANGED <<users, job, pc, ids, sources, tx, db, err>>

\* Variant: embeddings.user_id does not cascade.
AdminDeletesKeepsEmbeddings(u) ==
  /\ u \in leaving
  /\ \A m \in OwnedBy(u) : tx[m] = {}
  /\ users' = users \ {u}
  /\ leaving' = leaving \ {u}
  /\ db' = {r \in db : r.msg \notin OwnedBy(u) \/ r.row = "embedding"}
  /\ UNCHANGED <<job, pc, ids, sources, tx, err>>

AdminDeletes(u) ==
  /\ u \in leaving
  /\ \A m \in OwnedBy(u) : tx[m] = {}
  /\ users' = users \ {u}
  /\ leaving' = leaving \ {u}
  /\ db' = {r \in db : r.msg \notin OwnedBy(u)}
  /\ UNCHANGED <<job, pc, ids, sources, tx, err>>

-----------------------------------------------------------------------------
Consolidate(m) ==
  \/ CreateRawMessage(m)
  \/ BulkCreateRelationTypes(m)
  \/ ConsolidateEntities(m)
  \/ ConsolidateEntitiesEvents(m)
  \/ ConsolidateRelationships(m)

Embed(m) == SplitSources(m) \/ PersistEmbeddings(m) \/ EmbeddingFails(m)

Next ==
  \/ \E m \in Messages : Publish(m) \/ Deliver(m) \/ Lose(m)
                           \/ Consolidate(m) \/ Embed(m) \/ CommitTx(m)
  \/ \E u \in Users : AdminSelects(u) \/ AdminDeletes(u)

Spec == Init /\ [][Next]_vars

\* The worker's event loop runs a job it received to its end, an API call
\* returns or raises, the database finishes an unblocked statement; the broker
\* hands a queued job to a worker or loses it.  Nobody has to publish.
Fairness ==
  /\ \A m \in Messages : /\ WF_vars(Deliver(m))
                         /\ WF_vars(Consolidate(m))
                         /\ WF_vars(Embed(m))
                         /\ WF_vars(CommitTx(m))
  /\ \A u \in Users : WF_vars(AdminDeletes(u))

FairSpec == Spec /\ Fairness

-----------------------------------------------------------------------------
(* Properties. *)

TypeOK ==
  /\ users \subseteq Users
  /\ leaving \subseteq users
  /\ job \in [Messages -> Jobs \cup {NoJob}]
  /\ pc \in [Messages -> Steps]
  /\ \A m \in Messages : pc[m] # "new" => job[m] \in Jobs
  /\ err \in [Messages -> Errors]
  /\ tx \in [Messages -> SUBSET UNION {Graph(m, d) : m \in Messages, d \in Extractions}]
  /\ db \subseteq UNION {Graph(m, d) : m \in Messages, d \in Extractions}

\* What the database holds of a message.
Memory(m) == {r \in db : r.msg = m}

\* The database holds nothing of a message, or the whole graph its extraction
\* declares: entities, events each linked to the entity that lists it, relations
\* between the entities named, and the embeddings of every text.  One transaction
\* spans consolidate and the embeddings (dependencies.py provide_transaction_taskiq).
AllOrNothing ==
  \A m \in Messages :
     Memory(m) # {} => pc[m] = "stored" /\ Memory(m) = Graph(m, job[m].data)

\* Every row has an existing owner and refers to rows that are there, embeddings
\* too, whose reference no foreign key guards (models.py Embedding).
ReferencesResolve ==
  \A r \in db :
     /\ job[r.msg] # NoJob => job[r.msg].owner \in users
     /\ \A ref \in References(r) : NodeRow(r.msg, ref) \in db

\* A job runs at most once: once it is stored, failed or lost it never runs again
\* and never adds a row (no retry, no redelivery: tkq.py create_broker).
AtMostOnce ==
  [][\A m \in Messages : pc[m] \in Settled => pc'[m] = pc[m] /\ Memory(m)' \subseteq Memory(m)]_vars

\* What is remembered of a message is forgotten only together with its user, and
\* then completely (ON DELETE CASCADE of every table that has a user_id).
ForgottenWithUser ==
  [][\A m \in Messages :
       Memory(m) # {} /\ Memory(m)' # Memory(m)
         => Memory(m)' = {} /\ job[m].owner \notin users']_vars

\* Every published job ends: stored, failed or lost.  No path of the worker leaves
\* a transaction open.
EveryJobSettles == \A m \in Messages : pc[m] = "queued" ~> pc[m] \in Settled

\* The deletion of a user, which waits for the jobs that hold a lock on the user,
\* gets through, although each of them waits for the embeddings API meanwhile.
DeletionGetsThrough == \A u \in Users : u \in leaving ~> u \notin leaving

-----------------------------------------------------------------------------
(* Refinement: the committed database keeps the promise of MemoryIngest. *)

Outcome(m) ==
  CASE pc[m] = "new"                     -> "new"
    [] pc[m] \in {"queued"} \cup Running -> "open"
    [] pc[m] = "stored"                  -> "stored"
    [] pc[m] \in {"failed", "lost"}      -> "lost"

Ingest == INSTANCE MemoryIngest
            WITH outcome <- [m \in Messages |-> Outcome(m)],
                 memory  <- [m \in Messages |-> Memory(m)]

\* Whatever the statements of the jobs, the failures and the deletions interleave
\* to, the committed database changes as MemoryIngest says.
ImplementsIngest == Ingest!Spec

-----------------------------------------------------------------------------
(* What the comments and schemas say of the extraction, and the code refutes. *)

\* An extraction that keeps to its schema, with an entity type of the list it offers
\* ("use only types from the examples of this field") and times of the form it shows
\* ("Today", "21.05.2026"), has no value that the database refuses.
OfferedIsAccepted == \A m \in Messages : err[m] # "DataError"

\* Suggested relation types are created ("New relationship type creation"): without
\* a failure of the API a message with suggestions is stored.
SuggestionsStored ==
  \A m \in Messages :
     pc[m] = "failed" /\ job[m].data.suggestions # {} => err[m] = "UpstreamError"

=============================================================================
