# Verification of NZT

NZT is a personal-memory backend: a chat message is sent to an LLM, which
extracts entities, events and relations from it; a background worker writes
them, with vector embeddings, to PostgreSQL. This directory holds TLA+ models of
the parts of it that have behaviour, the TLC configurations that check them on
small instances, and theorems about them that TLAPS proves for all instances.

All paths below are relative to the repository's root; the application is in
`src/`, its tests in `tests/`, the migrations in `alembic/`.

## 1. Inventory

| component | state | operations | what is hard | what makes it correct |
|---|---|---|---|---|
| **Consolidation worker** `src/api/tasks/tasks.py`, `src/domain/consolidation/services.py`, `src/api/dependencies.py` (taskiq part), `src/core/tkq.py` | a job per message, one open transaction per running job, the committed rows of the memory tables | `consolidate_extracted_memory`: `consolidate` (raw message, suggested types, entities, events, links, relations), then `generate_consolidation_embeddings`, then commit | broker without persistence and acknowledgement; many jobs in one process; failure of any statement or of the embeddings API; death of the worker; the user deleted under the job; embeddings have no foreign key on what they embed | all or nothing of a message; no dangling row; a job runs at most once; every job ends; a user's memory goes with the user and only then |
| **Relation types** `src/domain/memory/services.py` (`EntityRelationTypeService`), `EntityRelationTypeRepository` | types (`name` unique, `is_accepted`), suggestions (`pending`, `accepted`, `rejected`), relations; what each session has loaded | `resolve_and_create_relationship`, `accept_relation_type`, `reject_relation_type`, edit in the admin panel | interleaved READ COMMITTED transactions, the unique index, row locks of `UPDATE`, the identity map that keeps stale attributes, ORM writes of changed attributes only | relations only use accepted types; a fallback leaves a suggestion; a review handles all it found and no verdict is overturned |
| **Rate limiter** `src/api/rate_limiter.py` | a list of timestamps per client | `dispatch` | window boundaries, a wall clock that may be set back or forward | never more than the limit in a window; never refused too early; bounded lists |
| **Chat request** `src/api/routes/chat.py`, `src/api/dependencies.py`, `src/domain/extraction`, `src/domain/llm`, middlewares and error handlers | one transaction per request, a connection of the pool | authenticate, extract (LLM), publish the job, answer (LLM), commit | the job is published before the answer exists and before the commit; a failed request is sent again; a connection is kept during two LLM calls; errors anywhere, each with its status | answered only after the publication, refused only before; connections accounted for; a message remembered twice has a known cause |
| **Accounts** `src/domain/users`, `src/api/routes/auth.py` | users, auth identities, channels | login (upsert of the profile), registration, Telegram authentication | concurrent logins, unique user names taken over, several identities with one provider id | one user per identity, complete registration, a profile that was sent |
| **Entity and event services** `src/domain/memory/services.py` | entities, events, links, relations | get-or-create, update, merge, create an event, link | merges in both directions at once, a link inserted while its entity is deleted, a merge that fails half-way | nothing refers to a merged entity; a merge is done or leaves no trace; an event has all its links |
| **Search and embeddings** `EmbeddingRepository`, `src/domain/search` | embeddings | similarity query; deletion by embeddable | floating-point vectors | – |
| **Extraction and LLM client** | none | prompt, HTTP call, parsing | external service | shape of the extraction |
| **Admin panel** `src/api/admin.py` | – | generic create/edit/delete of every table | comes in between anything else | as of the tables |
| **Schema and migrations** `src/domain/*/models.py`, `alembic/versions` | tables, constraints, enums | DDL | differs from the Python models | agrees with the models |
| **Assembly and errors** `src/main.py`, `src/api/exceptions.py`, `src/api/middlewares.py` | – | order of middlewares and handlers | an exception in a middleware passes by the handlers | the status of each error |
| **Start-up, logs, health, settings; deployment** | – | start-up | – | – |

How they interact: the chat request calls the LLM client, publishes a job to the
worker through NATS (a message, no reply) and commits its own transaction. The
worker, the requests and the admin panel share the database only; each has its
own session and transaction. The rate limiter stands before the requests and
shares nothing. Nothing in the application calls the relation-type service's
`resolve_and_create_relationship`, `accept_` and `reject_relation_type` yet (the
tests do), and nothing calls `EntityService` and `EventService`; they are modelled
with the session that every route of the application gets, `provide_transaction`.

The code's hazards, each at its line and with the properties that guard it, are
listed in `PROJECT.json`.

## 2. Modules

| module | stands for |
|---|---|
| `MemoryGraph` | the rows of the memory tables and the graph that one extraction declares |
| `MemoryIngest` | abstract specification: a message is stored once and whole, or lost without a trace; a deleted user takes their memory along |
| `Consolidation` | the worker, statement by statement, with the broker, the failures and the administrator; refines `MemoryIngest` |
| `MCConsolidation` | extractions for TLC |
| `ConsolidationProofs` | theorems about `Consolidation` |
| `RelationCuration` | abstract specification: a call and a review take effect in one step, on types that exist |
| `RelationTypes` | calls, reviews and the administrator's edits, statement by statement; refines `RelationCuration` |
| `MCRelationTypes` | names and seeds for TLC |
| `RelationTypesProofs` | theorems about the relations and the reviews of `RelationTypes` |
| `RelationTypesCallProofs` | theorems about its calls, about who waits for whom, and the refinement |
| `SlidingWindow` | abstract specification of a sliding-window limit |
| `RateLimiter` | `InMemoryRateLimiter` with a wall clock; refines `SlidingWindow` |
| `MCRateLimiter` | clients for TLC |
| `RateLimiterProofs` | theorems about `RateLimiter` |
| `ProfileStore` | abstract specification: a registration gives each column of the profile what it was sent or leaves it as it is, in one step |
| `Accounts` | registration and authentication of Telegram users, statement by statement, and the administrator's edits; refines `ProfileStore` |
| `MCAccounts` | profiles and requests for TLC |
| `AccountsProofs` | theorems about `Accounts` |
| `ChatService` | abstract specification: what a chat request promises its client |
| `ChatPipeline` | the chat request from the middlewares to the answer, the pool, the client, crashes; refines `ChatService`, and `MemoryIngest` on the publishing side |
| `MCChatPipeline` | requests for TLC |
| `ChatPipelineProofs` | theorems about `ChatPipeline` |
| `EntityGraph` | abstract specification: an operation on entities, events, links or relations takes effect in one step, as a whole |
| `EntityMerge` | `EntityService` and `EventService`, statement by statement; refines `EntityGraph` |
| `MCEntityMerge` | entities and requests for TLC |
| `EntityMergeProofs` | theorems about the rows of `EntityMerge` |
| `EntityGraphProofs` | the refinement of `EntityGraph` |

Operators whose comment begins with "Variant:" are not part of a specification:
each is a definition changed as a plausible bug would change it, and shows that
a property would notice (`PROJECT.json`, "mutants").

### Consolidation

State and code: `job` is the argument of the task, `pc` the statement the
coroutine is at, `ids` the local `temp_id_to_uuid`, `sources` the lists of a
`ConsolidationResult`, `tx` what its session has written, `db` what is
committed, `err` the exception that ended it. UUIDs and serials are replaced by
the place of the thing in the extraction ("entity 2 of message m"), so that the
model sees at once when a row refers to the wrong thing.

One action per awaited statement: `CreateRawMessage`, `BulkCreateRelationTypes`,
`ConsolidateEntities`, `ConsolidateEntitiesEvents` (its two INSERTs write for the
same job and are one step), `ConsolidateRelationships`, `SplitSources`,
`PersistEmbeddings` (the API call and the INSERT of its vectors) or
`EmbeddingFails`, `CommitTx`. `Lose` is the loss of a job by the broker or with
its worker. The refusals of the database are in the action they meet: an
unknown enum label, a text in a timestamp column, the same pair of entities
related twice at one instant, a user that is gone, a known relation type.

`AdminSelects` and `AdminDeletes` are the two halves of the deletion of a user in
the admin panel: the ORM reads the user's rows and goes on only if there are none
(it would set their NOT NULL `user_id` to NULL); the DELETE then waits for every
transaction that references the user, and cascades to what they committed in
between.

`MemoryIngest` is the promise. The refinement mapping reads `outcome` off `pc`
and `memory` off `db`: all the statements of a job are stutters until its commit,
which is `Store`; every failure, loss and rollback is `Lose`.

### RelationTypes

`types`, `accepted`, `suggestions` and `relations` are the committed tables.
For each call, `existing` is the local `existing_type_id`, `seen` what its session
has in the identity map under the asked name (and does not refresh), `created`
and `noted` its uncommitted INSERTs. A type is looked up with its name in upper
case and stored with the name as given, as in the code.

`CreateType` waits for another call that has inserted the same name and not
committed, then fails if it is there. A review's UPDATE is two steps:
`ScanPending` takes the snapshot, `UpdatePending` waits for rows another
review has updated and looks at them again, which is what READ COMMITTED does.
`CommitReview` writes `is_accepted` only if it differs from what was loaded
(`was`).

`usable` and `valid` are history variables: they record what has been true of the
suggested type while the call ran, for properties about calls and reviews that
overlap.

The mapping to `RelationCuration` keeps the four tables and reads `outcome` off `pc`:
every statement before a commit is a stutter. `RelationCuration` says of a review that
it settles some of what is pending under one type at that moment; that these
are all that it found is `ReviewIsComplete`. Its `Settle` leaves `accepted` alone or adds
the type: a review that confirms an acceptance which the administrator withdraws
in the meantime writes nothing, as in the code.

### RateLimiter

`dispatch` has no `await` before `call_next`, so one request is one action, `Pass`
or `Refuse`. `wall` is what `time.time()` returns, `real` the time that passes;
`StepBack` and `StepForward` set the wall clock. Each stored timestamp carries the
number of its request, the real time at which it was stored and its era, the number of
steps forward before it; the limiter reads none of them.

A step forward makes the limiter forget requests that are still in the window, and then
more pass than the docstring says ("Allows up to `max_requests` requests per
`window_seconds` per client IP"). `LimitHolds` and `SlidingWindow` therefore count the
requests of one era: the limit holds in every window that contains no step forward,
whatever steps back it contains.

The specification it refines, `SlidingWindow`, knows the real time and counts all
requests that passed. While the clock is `steady` (never set back) nothing is refused
unless the limit has passed within the window, also after a step forward; afterwards it
may refuse too early, but still never lets too many of one era pass.

### Accounts

`rows` and `identities` are the committed rows of `users` and `auth_identities`. For
each request, `req` is the body it brings, `user` the user of the identity it has
found, `loaded` the row its session holds, `held` the row it has updated and not
committed (and so has locked), `err` the exception that ended it. `first_name` stands
for `avatar_url` as well; what distinguishes the latter, its validator, is
`RefuseUrl`.

`FindIdentity` is the lookup by Telegram id; `LoadUser` reads the user; then the ORM
writes the columns in which the profile differs from what was loaded, and no
others, which is `KeepRow` or `UpdateRow`. The UPDATE is two steps, because it can
wait twice: for the lock of the row (`UpdateRow`), and for a transaction that is
entering or giving up the same user name in the unique index (`EnterName`). Two users
who swap names wait for each other; `DetectDeadlock` is the database ending one of
them. `CreateUser` always fails, see the run `Accounts_registration`; the statements
after it are never reached and have no action.

`AddIdentity`, `RemoveIdentity` and `DeleteUser` are the administrator. With them one
Telegram id can belong to two users, since the unique constraint includes the user,
and a user can vanish between the lookup and the UPDATE. Creation and edits of users
in the admin panel are left out.

The mapping to `ProfileStore` keeps `rows` and reads the outcome off `pc`. It makes the
point that the code computes the row from a profile it has loaded earlier, and the
promise speaks of the row at the commit: the two agree because only the columns that
differ are written, under the lock of the row.

### ChatPipeline

For each request, `pc` is what is done next, `input` what it brought (a text, a
token, a body that is valid or not), `error` the exception that ended it,
`status` what the client was sent. `holders` are the requests whose session has a
connection, `in_use` the pool's own count. `users`, `job`, `outcome` and `memory`
are the variables of `MemoryIngest`, an instance of which stands for the worker:
publishing is its `Publish`, and `Work` its `Store` and `Lose`. The worker is
thus taken as what `Consolidation` is shown to implement.

The actions follow the order in which FastAPI runs things: `Dispatch` (both
middlewares; whether the limiter lets the request pass is a choice here, which
`RateLimiter` makes), `DecodeToken` (the session exists, without a connection),
`Connect` (the first statement takes a connection), `FindUser` (and then the body
is validated), `BuildExtractionContext`, `Extract`, `Publish`, `Answer`, and
`Finish`: commit and return of the connection after the response. Each has a
failing twin. `Raise` is the way out for all of them: roll back, return the
connection, then the response; `Status` is the table of the exception handlers.
A payload that the schema refuses is a 500, as it is validated outside the `try`; so
is a refusal by the rate limiter, raised outside the reach of the handlers.

`Send` and `GiveUp` are the client: it sends a text again once it has heard an
error or has stopped waiting (the server does not notice). `Crash` is the death of
the API process with all its requests and connections.

The mapping to `ChatService` reads `state` off `status` and `error`, and `published`
off `job`. That to `MemoryIngest` is the identity: every other step leaves its
variables alone.

### EntityMerge

`entities`, `aliases`, `events`, `links`, `relations` are the committed rows. For
each operation `req` is its arguments, `kept` and `gone` the aliases its session
has loaded, `at` its place in `entity_ids`, `tx` what it has written. The row locks
are read off `tx`: an UPDATE and a DELETE lock their row, a new link or relation
locks the rows it refers to against deletion. `Blocks(p, o)` says that the next
statement of `o` waits for `p`.

`merge_entities` is `LoadKeep`, `LoadGone` (only then it asks whether both are
there), `UpdateAliases`, `LookForLinks`, `DeleteEntity`, `Commit`. The last but one
are the flush of the commit: the ORM selects the event links of the entity, and
if there are any it fails, since it would have to blank out part of a primary
key; then it deletes, and the foreign keys cascade to what others have committed in
between. The deletion of an entity in the admin panel takes the same way. Relations
are deleted by the ORM's cascade or by the foreign key, with the same result, so the
rows the ORM loads for that are not modelled. `create_event` is `InsertEvent` and an
`InsertLink` per entity. `BreakCircle` is the deadlock detector, `Interrupt` a
caller that is cancelled or loses its connection.

`get_or_create_entity` is not an action: it calls a method the repository does not
have. Embeddings of a merged entity stay behind, which no text of the repository
speaks of; they are not modelled here. `entity_ids` with a repeated entity is
refused by the primary key, as in the code.

A merge that finds no new alias writes nothing to the entity it keeps, and so does not
lock it. Two merges of the same entities in opposite directions then delete both, and
a merge may succeed after the entity it keeps has been deleted. No text of the repository
speaks of that; the model does it, and `EntityGraph` promises that the kept entity is
there only of a merge that writes to it. The mapping to `EntityGraph` keeps the
rows and reads the outcome off `pc`.

## 3. What the runs check

| run | checks | size |
|---|---|---|
| `Consolidation` | `AllOrNothing`, `ReferencesResolve`, refinement of `MemoryIngest` (`ImplementsIngest`); every published job ends (`EveryJobSettles`), the deletion of a user gets through (`DeletionGetsThrough`) | 148 000 states |
| `RelationTypes_safety` | `RelationsUseAcceptedTypes`, `AcceptedTypeIsUsed`, `FallbackLeavesTrace`, `CallIsAtomic` | 329 000 states up to symmetry |
| `RelationTypes_live` | `CallsEnd`, `ReviewsEnd`, `ReviewIsComplete`, `HoldersGoOn`, refinement of `RelationCuration` (`ImplementsCuration`) | 169 000 states |
| `RateLimiter` | `LimitHolds`, `ListBounded`, refinement of `SlidingWindow` (`IsSlidingWindow`) | 3 300 000 states up to symmetry |
| `Accounts` | `NamesUnique`, `ProfileWasSent`, `ProfileIsUpdated`, `RequestsEnd`, refinement of `ProfileStore` (`ImplementsProfileStore`) | 62 000 states |
| `ChatPipeline` | `PoolAccounting`, `RefusedIsNotRemembered`, `DuplicatesExplained`, `RequestsEnd`, refinement of `ChatService` (`ImplementsChatService`) and of `MemoryIngest` (`PublishesForIngest`) | 136 000 states |
| `EntityMerge` | `NoDanglingRow`, `AliasesHaveASource`, `EventKeepsItsLinks`, `OpsEnd`, refinement of `EntityGraph` (`ImplementsEntityGraph`) | 276 000 states |

The refinements say more than the properties named with them, and some that follow
from one are proved but not run by themselves: that no job runs twice (`AtMostOnce`)
and that memory is forgotten only with its user (`ForgottenWithUser`) follow from
`ImplementsIngest`, that no verdict is overturned (`ReviewedForGood`) from
`ImplementsCuration`, and that an entity is missing exactly if a merge or a deletion
of it was committed (`MissingIsMerged`) from `ImplementsEntityGraph`.

The other runs end with a counterexample: each checks what a text of the
repository says and the code does not do.

| run | the repository says | the code does |
|---|---|---|
| `Consolidation_schema` | the schema offers the LLM NARRATOR, QUANTITY and LAW as entity types, and asks for times such as "Today" or "21.05.2026" | the database's enum lacks them, and the time goes to a TIMESTAMP column: the whole message is lost |
| `Consolidation_suggestions` | "New relationship type creation" | reads rows of an INSERT that returns none: the whole message is lost |
| `RelationTypes_trace` | the suggestion refers to "The suggested relation type" | for a new type it refers to the fallback type; a review of the new type does not find it |
| `Accounts_registration` | `register`: "If the user is new, all required entities are created" | every registration of a new user fails: the `avatar_url` of `UserCreate` is None by default, and the model's validator calls `strip` on it |
| `EntityMerge_transfer` | "All relationships and event links are transferred to the kept entity" | the relations are deleted with the merged entity |

The same docstring says that event links are transferred. They are not: the merge of a
linked entity fails (`LookForLinks`), and no entity that was linked from the start is ever
removed (`Remove` in `EntityGraph`, which `ImplementsEntityGraph` checks). A fixed merge
would have to change that clause; it describes the code and is no promise.

`AcceptedTypeIsUsed` ("Once accepted, the type can be used directly in
relationships.") holds for names in upper case, the form the prompt asks for. A
type under another name can be created and accepted, but is never found.

Deadlock is not checked (`CHECK_DEADLOCK FALSE`): the jobs, calls, reviews and
requests of an instance are finite and the system rests when they are done. That
nobody waits forever is what the liveness properties say.

### Bounds

* `Consolidation`: two messages, two users. A job writes only rows of its own
  message, and jobs meet only through a user, so two jobs of one user and one
  of another cover the ways to interfere. `MCExtractions` has an extraction per
  way through the pipeline: blank, two related entities in an order that is not
  that of their temp ids with unresolved and reflexive relations, the same pair
  twice, a refused type, a refused time, suggestions new and known. Texts of 0,
  1 and 2 chunks are the three cases of the splitting.
* `RelationTypes`: two calls, one review, one edit by the administrator for safety;
  two calls and two reviews for liveness and for what reviews do to each other.
  Three names: the fallback, a type and the same in lower case; databases without
  seeds, with the fallback, with the type. `MaxEdits` bounds the edits; the
  liveness run has none, since an edit takes no lock a call or a review waits
  for and touches no suggestion. The names are symmetric in nothing, calls and
  reviews are; the symmetric run has no temporal property.
* `RateLimiter`: limit 2, window 3, time 0 to 4, so that requests of the first two
  instants leave the window while others stay; the clock is set back once (`MaxBack`) and
  forward once (`MaxForward`), by up to a window and in either order. Two clients show that
  they do not share a list; they are symmetric, and nothing here is about liveness.
* `Accounts`: two requests, two users with a name each and an identity each, three
  names. Two requests are what a swap of names, a wait for a row, a stale
  `loaded` and a lost update need. `MCInputs` has the swap, a new name both want, a
  profile without a name, one with a bad URL and an authentication. `MaxEdits` = 2
  lets the administrator remove an identity and give it to the other user.
* `ChatPipeline`: two requests and one connection: each can be the other sent again,
  and each can wait for the other's connection. `MCInputs` has two texts, every kind
  of token and a bad body. `MaxCrashes` = 2 lets both attempts at one message end in a
  crash. One user suffices, since requests meet in the pool and in a text only.
* `EntityMerge`: three operations, which is what two merges in opposite directions
  and something in between need; three entities, of which one has a link from the
  start; an event of two entities, so that the second link can fail; three aliases, of which
  one comes only from an update, so that it shows where an update goes that was not
  committed. An update may also leave two entities with the same aliases.

### Fairness

Only liveness needs any. `Consolidation`: the worker's event loop runs
the coroutines it has started, the database finishes a statement that is not
blocked, an API call returns or raises (an assumption about the API and its client
library: the source sets no time-out), and the broker hands a queued job over or loses it (weak fairness of `Deliver`, which
`Lose` disables). Nothing is fair about publishing, losing, failing or beginning
a deletion. `RelationTypes`: the database executes each statement that is not
blocked; nobody is obliged to begin a call or a review. `Accounts`: the same, for
each request once begun, and the database's deadlock detector, which is on by
default and which `DetectDeadlock` is; its weak fairness is that of `Serve`.
`EntityMerge`: the same, with `BreakCircle` in `Step`. `ChatPipeline`: weak fairness
of each request's `Handle`; a request that waits for a connection can always go on
by the pool's timeout (`DatabaseFails`), so none depends on another to end. That
a call of the LLM ends is assumed here as well. The client, the crashes, the worker and
the administrator are not fair.

## 4. What is proved

The theorems hold for every set of messages, users, extractions, names, calls, reviews
and requests, every limit and window; the assumptions are those of the modules, checked
by TLC on each instance: `ExtractionsAssumption` (extractions are well-formed and
have distinct temp ids), `NoJobAssumption`, `NamesAssumption`, `LimitAssumption`,
`AccountsAssumption` (names are unique at the start), `ChatAssumption`,
`WorkloadAssumption` (requests and starting rows are of their types, and no relation
at the start is reflexive).

**Consolidation.** The invariant is `StateOK /\ TxOK /\ DbOK`. None of the properties
is inductive by itself: that a commit writes the whole graph needs to know what
each statement has left in the transaction. `TxOK` therefore says, per program
counter, exactly which rows `tx` holds, and what `ids` and `sources` are; `DbOK`
that what the database holds of a message, if anything, is the graph of its job,
stored and owned by a user that exists.
Lemmas about the pure part come first: `MapIsExact` (with distinct temp ids,
`temp_id_to_uuid` sends each to its own entity), `EventsAreDeclared`,
`RelationsAreDeclared`, `EmbeddingsAreDeclared` (what the code computes from the map
and from `sources` is what the extraction declares) and `GraphIsClosed`. There
is one lemma per action. From the invariant follow `AtomicIngest`, `NoDanglingRow`,
`TypeCorrect`, the action properties `RunsAtMostOnce` and `ForgetsWithUser`, and
`Refinement`: `Spec => ImplementsIngest`.

**RelationTypes.** The invariant is `TypeOK /\ CallInv /\ ReviewInv`: a call past the
resolution has a resolved type in `valid`, and what it has seen as accepted was
accepted while it ran; what a review holds is pending until its commit and is held
by no other review; a suggestion has one row, whatever its status.
It gives `TypeCorrect`, `AcceptedTypesOnly` and `VerdictsStand`. `ReviewsAreComplete`
adds `ReviewScan`: what a review has scanned was pending and its call is done, so that
no such row can become pending again while the review waits for another.

`RelationTypesCallProofs` follows a call. `Traced` says what it has seen and created, at each
step, in terms of what it was asked: a call that falls back has the type in the table or
creates it itself, and from its commit on its suggestion is among the rows
(`FallbacksLeaveTraces`). `Used` says of a call whose type stays accepted while it runs that
it has seen the type as accepted and resolves to it, and so never creates, falls back
or fails (`AcceptedTypesAreUsed`). `CallsAreAtomic` counts rows: a call has no row before
its commit, one relation after it, and at most one suggestion. `Traced` also
says that a call which holds a name has only steps before it that wait for nobody, and
`HeldUntilCommit` that a review which holds rows is at its commit; hence
`NoWaitingInACircle` (`HoldersGoOn`), which is why the model needs no deadlock detector
here, unlike those of the accounts and the entities. `KeepsCuration`
(`Spec => ImplementsCuration`) adds `RefersInv`: what a call has found, may use or has
noted is a type that exists, and what a review holds is of the type it reviews.

**RateLimiter.** The invariant says that the lists are bounded, that since a
request of the present era passed the wall clock has gained nothing on the real time
(`NoHurry`), and that an entry of this era the limiter has dropped is out of the window of
real time (`Forgotten`). It gives `TypeCorrect`, `LimitIsKept`, `ListStaysBounded`.
`ExactLimit` (`Spec => IsSlidingWindow`) adds that requests are numbered and that the
wall clock loses nothing on the real time until it is set back (`Steady`).

**Accounts.** The invariant is `TypeOK /\ StepInv /\ NameInv /\ SentInv`. `StepInv`
says what a request has at each step; above all, the row that a request holds
exists, since a deletion waits for its lock. `NameInv` is why names stay
unique: a request past the index holds a name that no other committed row has, and
no other request past the index holds it for another user. `SentInv` says that
what is held is made of what the request brought and of what was committed. It gives
`TypeCorrect`, `NamesStayUnique` and `ProfilesWereSent`.
`RegistrationsShow` (`ProfileIsUpdated`: the only registration of a user that succeeded shows in the
profile) adds that, until one has succeeded, the row is that of the start
(`StartIsKept`) and every registration of the user works on that row (`WorksOnStart`).
`KeepsProfileStore` (`Spec => ImplementsProfileStore`) adds `LockInv`: an uncommitted row stays what
the UPDATE would write now, since the row is locked and an administrator who deletes it
waits.

**ChatPipeline.** The invariant is `TypeOK /\ Pool /\ Published /\ Told /\ Resent`: which
steps hold a connection, at which steps the job is out, with which error and status
a request can have ended, and that of two requests with one text the client has given
one up. `PoolAccounting` is not inductive since the counter and the set of holders
are changed by different rules in `Raise`; the other two properties need `Told`, the
order of publication and answer seen from the end. It gives `TypeCorrect`,
`ConnectionsAreAccounted`, `RefusalsLeaveNothing`, `ResendsAreExplained`, and, step by
step, the refinements `KeepsChatService` and `KeepsMemoryIngest`, for every
number of requests and every size of the pool.

**EntityMerge.** The argument is about locks: `WritesOK` says that what a transaction
has written refers to entities that exist, `Exclusive` that no other transaction has
deleted one of them; `DeletionOK` that a deletion was decided when nothing from the
start was linked; `EventOK` that a new event has the links inserted so far. It gives
`TypeCorrect`, `RowsNeverDangle`, `MergeIsAtomic` and `EventsKeepTheirLinks`, for any
workload. `AliasesAreExplained` (`AliasesHaveASource`) adds
`LoadedOK`: what an operation has loaded was committed, so that an alias does not reach
an entity through a merge that read it too early. `KeepsEntityGraph`
(`Spec => ImplementsEntityGraph`) adds `GraphInv`: a transaction holds the links and the relation
of its own request, all of them when it commits (`OwnRows`, `Complete`), and no two have
inserted the same link (`LinksApart`). The commit is then the operation of
`EntityGraph`, one case per kind of request; that the rows a merge finds missing take no
link or relation with them is where `RowsNeverDangle` is needed again.

Only model-checked: liveness (`EveryJobSettles`, `DeletionGetsThrough`, `CallsEnd`,
`ReviewsEnd`, `OpsEnd` and both `RequestsEnd`), which is beyond the prover. Every
invariant, action property and refinement that the passing runs check is proved.

## 5. Simplifications

* The rows of `INSERT ... RETURNING` are taken in the order of the parameters, as
  `consolidate` does, so that another order shows only in a mutant; temp ids of one extraction are distinct, as the schema asks.
* What an LLM or the embeddings API answers is data or a failure.
* Deletion of a user presupposes that the user's identities and channels have been
  deleted; of the memory rows only entities are deleted on their own (`EntityMerge`),
  and renaming and deleting a relation type is left out.
* A chat request has one connection. That the worker's pool may be exhausted is one of
  the reasons for which `Consolidation` loses a job.
* `MultipleResultsFound` at the look-up of an identity is in `Accounts` only.
* The wall clock runs as fast as the real time between its steps, and a step is of at most
  a window.
* Relations of a call fail only with the call; the entities it relates exist.

## 6. Not modelled

* Similarity search and `delete_by_embeddable`: one statement each, over vectors; the
  search service is empty.
* `_split_text`: the cutting is done by a library's splitter; what the service adds (a
  short text is one chunk, chunks under the minimum are dropped) is in
  `ChunkNumbers` as the number of chunks, which may be zero.
* The prompt, the HTTP calls to the LLM and the parsing of its answers: external
  services; their outcomes are actions.
* Start-up and shutdown (`lifetime.py`), the health and readiness probes, logging,
  settings, deployment, monitoring: no state that two steps could put at odds.
* `get_or_create_entity`, the creation of identity and channel of a new user: never
  reached, because the statement before them always fails.
* Generic edits of single rows in the admin panel, beyond those named above: forms of a
  library that write what is entered.

The status of each component and the reason is in `PROJECT.json`, "components".

## 7. Plan

Done: all modules above, with their proofs. The order was that of importance:
what is remembered, what it is typed as, who may ask, who is who, what a client is
told, what is merged.

1. Lemmas toward liveness that are invariants: for the accounts and the entities, that
   an operation which waits for nobody has a next step, and that a circle of waiting
   is one that `DetectDeadlock` and `BreakCircle` break.
2. The composition of chat requests and worker: that every message of `Consolidation` whose
   job `ChatPipeline` publishes ends stored or lost, from the two refinements of
   `MemoryIngest`.
