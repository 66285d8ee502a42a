----------------------------- MODULE EntityMerge -----------------------------
(***************************************************************************)
(* EntityService and EventService (domain/memory/services.py) over their   *)
(* repositories: entities are updated, merged and deleted while events are *)
(* created and linked to them.  Every operation runs in a READ COMMITTED   *)
(* transaction of its caller, one statement per action.  A statement that  *)
(* needs a row which another transaction has written waits for it; the     *)
(* database breaks a circle of waiting transactions.                       *)
(*                                                                         *)
(* merge_entities deletes the merged entity through the ORM: the flush of  *)
(* the commit first selects its event links, refuses to delete if there    *)
(* are any, and then deletes; the foreign keys cascade what was committed  *)
(* in between.  The admin panel deletes an entity the same way.            *)
(***************************************************************************)
EXTENDS Naturals, FiniteSets, Sequences

CONSTANTS
  Ops,        \* operations; one that creates an event stands for its id
  Entities, Aliases,
  OldEvents,  \* events that are there from the start
  Workload,   \* what the operations may be asked
  Starts,     \* the rows a database may start with
  None

Events == Ops \cup OldEvents

Links     == [event : Events, entity : Entities]
Relations == [by : Ops \cup {None}, from : Entities, to : Entities]

Merges     == [kind : {"merge"}, keep : Entities, gone : Entities]
Deletions  == [kind : {"delete"}, gone : Entities]
Updates    == [kind : {"update"}, keep : Entities, value : SUBSET Aliases]
NewEvents  == [kind : {"event"}, ents : Seq(Entities)]
NewLinks   == [kind : {"link"}, event : Events, ents : Seq(Entities)]
NewLinksTo == {r \in NewLinks : Len(r.ents) = 1}
Relates    == [kind : {"relate"}, from : Entities, to : Entities]
Requests   == Merges \cup Deletions \cup Updates \cup NewEvents \cup NewLinksTo \cup Relates

ASSUME WorkloadAssumption ==
  /\ Workload \subseteq Requests
  /\ Starts \subseteq [aliases : [Entities -> SUBSET Aliases],
                       links : SUBSET [event : OldEvents, entity : Entities],
                       relations : SUBSET [by : {None}, from : Entities, to : Entities]]
  /\ \A s \in Starts : \A x \in s.relations : x.from # x.to
  /\ Ops \cap OldEvents = {} /\ None \notin Ops /\ None \notin Workload
  /\ \A s \in SUBSET Aliases : s # None

VARIABLES
  entities, aliases, events, links, relations,  \* committed rows
  start,       \* the rows of the start
  pc, req,     \* [Ops -> step], [Ops -> what it is asked, or None]
  kept, gone,  \* [Ops -> aliases loaded of the entity that stays, of the other, or None]
  at,          \* [Ops -> place in entity_ids of the link it inserts next]
  tx           \* [Ops -> what it has written, uncommitted]

dbVars == <<entities, aliases, events, links, relations, start>>
vars   == <<dbVars, pc, req, kept, gone, at, tx>>

Steps == {"idle", "keep", "gone", "aliases", "links", "delete", "event", "link", "relate",
          "commit", "done", "failed"}

Writes == [do : {"update"}, entity : Entities, value : SUBSET Aliases]
          \cup [do : {"delete"}, entity : Entities]
          \cup [do : {"event"}]
          \cup [do : {"link"}, link : Links]
          \cup [do : {"relate"}, relation : Relations]

Init ==
  /\ start \in Starts
  /\ entities = Entities /\ aliases = start.aliases
  /\ events = OldEvents /\ links = start.links /\ relations = start.relations
  /\ pc = [o \in Ops |-> "idle"]
  /\ req = [o \in Ops |-> None]
  /\ kept = [o \in Ops |-> None] /\ gone = [o \in Ops |-> None]
  /\ at = [o \in Ops |-> 1]
  /\ tx = [o \in Ops |-> {}]

-----------------------------------------------------------------------------
(* What a transaction has written, and the row locks that gives it. *)

Updated(o)    == {w.entity : w \in {v \in tx[o] : v.do = "update"}}
Deleted(o)    == {w.entity : w \in {v \in tx[o] : v.do = "delete"}}
NewLinksOf(o) == {w.link : w \in {v \in tx[o] : v.do = "link"}}
NewRelations(o) == {w.relation : w \in {v \in tx[o] : v.do = "relate"}}

\* A new link or relation locks the entities it refers to against deletion.
Referred(o) == {l.entity : l \in NewLinksOf(o)}
               \cup UNION {{x.from, x.to} : x \in NewRelations(o)}

Goto(o, step) == pc' = [pc EXCEPT ![o] = step]

Write(o, rows) == tx' = [tx EXCEPT ![o] = @ \cup rows]

\* Variant: the transaction stays open.
FailKeepsLocks(o) ==
  /\ Goto(o, "failed")
  /\ UNCHANGED tx

\* An exception rolls the transaction back.
Fail(o) ==
  /\ tx' = [tx EXCEPT ![o] = {}]
  /\ Goto(o, "failed")

\* The transactions that the next statement of an operation waits for.
NextLink(o) == [event |-> IF req[o].kind = "event" THEN o ELSE req[o].event,
                entity |-> req[o].ents[at[o]]]

\* Variant: a link does not wait for a deletion.
BlocksButLink(p, o) ==
  \/ /\ pc[o] = "aliases"
     /\ req[o].keep \in Updated(p) \cup Deleted(p)
  \/ /\ pc[o] = "delete"
     /\ \/ req[o].gone \in Updated(p) \cup Deleted(p) \cup Referred(p)
        \/ \E x \in relations : req[o].gone \in {x.from, x.to} /\ Deleted(p) \cap {x.from, x.to} # {}
  \/ /\ pc[o] = "relate"
     /\ Deleted(p) \cap {req[o].from, req[o].to} # {}

Blocks(p, o) ==
  \/ /\ pc[o] = "aliases"
     /\ req[o].keep \in Updated(p) \cup Deleted(p)
  \/ /\ pc[o] = "delete"
     /\ \/ req[o].gone \in Updated(p) \cup Deleted(p) \cup Referred(p)
        \/ \E x \in relations : req[o].gone \in {x.from, x.to} /\ Deleted(p) \cap {x.from, x.to} # {}
  \/ /\ pc[o] = "link"
     /\ NextLink(o).entity \in Deleted(p) \/ NextLink(o) \in NewLinksOf(p)
  \/ /\ pc[o] = "relate"
     /\ Deleted(p) \cap {req[o].from, req[o].to} # {}

WaitsFor(o) == {p \in Ops \ {o} : Blocks(p, o)}

-----------------------------------------------------------------------------
(* The operations. *)

FirstStep(r) ==
  IF r.kind \in {"merge", "update"} THEN "keep" ELSE IF r.kind = "delete" THEN "gone" ELSE r.kind

Begin(o) ==
  /\ pc[o] = "idle"
  /\ \E r \in Workload :
        /\ r.kind = "link" => r.event \in events
        /\ req' = [req EXCEPT ![o] = r]
        /\ Goto(o, FirstStep(r))
  /\ UNCHANGED <<dbVars, kept, gone, at, tx>>

\* Variant: the requests share a session, and see what another has not committed.
ReadShared(e) ==
  IF e \in entities
    THEN aliases[e] \cup UNION {w.value : w \in {v \in UNION {tx[p] : p \in Ops} : v.do = "update" /\ v.entity = e}}
    ELSE None

\* get_by_id
Read(e) == IF e \in entities THEN aliases[e] ELSE None

\* update_entity writes what differs from what it loaded (EntityNotFoundError).
LoadKeep(o) ==
  /\ pc[o] = "keep"
  /\ kept' = [kept EXCEPT ![o] = Read(req[o].keep)]
  /\ \/ req[o].kind = "merge" /\ Goto(o, "gone")
     \/ req[o].kind = "update" /\ req[o].keep \notin entities /\ Goto(o, "failed")
     \/ /\ req[o].kind = "update" /\ req[o].keep \in entities
        /\ Goto(o, IF req[o].value = aliases[req[o].keep] THEN "commit" ELSE "aliases")
  /\ UNCHANGED <<dbVars, req, gone, at, tx>>

\* An entity that the session has loaded is not read again.
ReadGone(o) ==
  IF req[o].kind = "merge" /\ req[o].gone = req[o].keep THEN kept[o] ELSE Read(req[o].gone)

\* Only now merge_entities asks whether both were found (EntityNotFoundError).
LoadGone(o) ==
  /\ pc[o] = "gone"
  /\ gone' = [gone EXCEPT ![o] = ReadGone(o)]
  /\ \/ /\ ReadGone(o) = None \/ (req[o].kind = "merge" /\ kept[o] = None)
        /\ Goto(o, "failed")
     \/ /\ ReadGone(o) # None
        /\ req[o].kind = "merge" => kept[o] # None
        /\ Goto(o, IF req[o].kind = "merge" /\ ~ ReadGone(o) \subseteq kept[o] THEN "aliases" ELSE "links")
  /\ UNCHANGED <<dbVars, req, kept, at, tx>>

\* Variant: the lists are nested and not joined.
NewAliasesNested(o) == IF req[o].kind = "merge" THEN {kept[o], gone[o]} ELSE req[o].value

\* The aliases that merge_entities and update_entity give the entity.
NewAliases(o) == IF req[o].kind = "merge" THEN kept[o] \cup gone[o] ELSE req[o].value

\* An UPDATE that finds no row raises (StaleDataError).
UpdateAliases(o) ==
  /\ pc[o] = "aliases" /\ WaitsFor(o) = {}
  /\ \/ /\ req[o].keep \in entities
        /\ Write(o, {[do |-> "update", entity |-> req[o].keep, value |-> NewAliases(o)]})
        /\ Goto(o, IF req[o].kind = "merge" THEN "links" ELSE "commit")
     \/ /\ req[o].keep \notin entities
        /\ Fail(o)
  /\ UNCHANGED <<dbVars, req, kept, gone, at>>

\* The flush of the deletion cannot blank out the entity of a link: its column
\* is part of the primary key (AssertionError).  merge_entities, whose docstring says
\* that event links are transferred to the kept entity, fails on a linked one.
LookForLinks(o) ==
  /\ pc[o] = "links"
  /\ \/ /\ \E l \in links : l.entity = req[o].gone
        /\ Fail(o)
     \/ /\ \A l \in links : l.entity # req[o].gone
        /\ Goto(o, "delete")
        /\ UNCHANGED tx
  /\ UNCHANGED <<dbVars, req, kept, gone, at>>

\* Variant: the deletion is committed before the rest.
DeleteEntityCommits(o) ==
  /\ pc[o] = "delete" /\ WaitsFor(o) = {}
  /\ entities' = entities \ {req[o].gone}
  /\ links' = {l \in links : l.entity # req[o].gone}
  /\ relations' = {x \in relations : req[o].gone \notin {x.from, x.to}}
  /\ Goto(o, "commit")
  /\ UNCHANGED <<aliases, events, start, req, kept, gone, at, tx>>

\* A DELETE that finds no row is only warned about.
DeleteEntity(o) ==
  /\ pc[o] = "delete" /\ WaitsFor(o) = {}
  /\ Write(o, {[do |-> "delete", entity |-> e] : e \in {req[o].gone} \cap entities})
  /\ Goto(o, "commit")
  /\ UNCHANGED <<dbVars, req, kept, gone, at>>

\* create_event
InsertEvent(o) ==
  /\ pc[o] = "event"
  /\ Write(o, {[do |-> "event"]})
  /\ Goto(o, IF req[o].ents = <<>> THEN "commit" ELSE "link")
  /\ UNCHANGED <<dbVars, req, kept, gone, at>>

\* Variant: the last entity is forgotten.
InsertLinkStopsEarly(o) ==
  /\ pc[o] = "link" /\ WaitsFor(o) = {}
  /\ NextLink(o).entity \in entities /\ NextLink(o) \notin links \cup NewLinksOf(o)
  /\ Write(o, {[do |-> "link", link |-> NextLink(o)]})
  /\ at' = [at EXCEPT ![o] = @ + 1]
  /\ Goto(o, IF at[o] + 1 < Len(req[o].ents) THEN "link" ELSE "commit")
  /\ UNCHANGED <<dbVars, req, kept, gone>>

\* link_entity: the keys refuse a link of an entity that is gone, and a second
\* link of the same entity (IntegrityError).
InsertLink(o) ==
  /\ pc[o] = "link" /\ WaitsFor(o) = {}
  /\ \/ /\ NextLink(o).entity \in entities /\ NextLink(o) \notin links \cup NewLinksOf(o)
        /\ Write(o, {[do |-> "link", link |-> NextLink(o)]})
        /\ at' = [at EXCEPT ![o] = @ + 1]
        /\ Goto(o, IF at[o] < Len(req[o].ents) THEN "link" ELSE "commit")
     \/ /\ NextLink(o).entity \notin entities \/ NextLink(o) \in links \cup NewLinksOf(o)
        /\ Fail(o)
        /\ UNCHANGED at
  /\ UNCHANGED <<dbVars, req, kept, gone>>

\* RelationshipHistoryRepository.create: the INSERT is flushed with the commit.
InsertRelation(o) ==
  /\ pc[o] = "relate"
  /\ \/ /\ req[o].from # req[o].to /\ WaitsFor(o) = {} /\ {req[o].from, req[o].to} \subseteq entities
        /\ Write(o, {[do |-> "relate", relation |-> [by |-> o, from |-> req[o].from, to |-> req[o].to]]})
        /\ Goto(o, "commit")
     \/ /\ req[o].from = req[o].to \/ (WaitsFor(o) = {} /\ ~ {req[o].from, req[o].to} \subseteq entities)
        /\ Fail(o)
  /\ UNCHANGED <<dbVars, req, kept, gone, at>>

\* The foreign keys cascade a deletion to links and relations.
Commit(o) ==
  /\ pc[o] = "commit"
  /\ entities' = entities \ Deleted(o)
  /\ aliases' = [e \in Entities |->
                   IF e \in Updated(o) THEN NewAliases(o) ELSE aliases[e]]
  /\ events' = events \cup {v \in {o} : [do |-> "event"] \in tx[o]}
  /\ links' = {l \in links \cup NewLinksOf(o) : l.entity \notin Deleted(o)}
  /\ relations' = {x \in relations \cup NewRelations(o) : Deleted(o) \cap {x.from, x.to} = {}}
  /\ tx' = [tx EXCEPT ![o] = {}]
  /\ Goto(o, "done")
  /\ UNCHANGED <<start, req, kept, gone, at>>

\* The database ends one of the transactions that wait in a circle.
BreakCircle(o) ==
  /\ WaitsFor(o) # {}
  /\ \E circle \in SUBSET Ops :
        /\ o \in circle
        /\ \A p \in circle : /\ WaitsFor(p) \cap circle # {}
                             /\ \E q \in circle : p \in WaitsFor(q)
  /\ Fail(o)
  /\ UNCHANGED <<dbVars, req, kept, gone, at>>

\* The caller is cancelled or loses its connection before the commit.
Interrupt(o) ==
  /\ pc[o] \notin {"idle", "done", "failed"}
  /\ Fail(o)
  /\ UNCHANGED <<dbVars, req, kept, gone, at>>

Step(o) ==
  \/ LoadKeep(o) \/ LoadGone(o) \/ UpdateAliases(o) \/ LookForLinks(o) \/ DeleteEntity(o)
  \/ InsertEvent(o) \/ InsertLink(o) \/ InsertRelation(o) \/ Commit(o) \/ BreakCircle(o)

Next == \E o \in Ops : Begin(o) \/ Step(o) \/ Interrupt(o)

Spec == Init /\ [][Next]_vars

\* The database runs every statement that is not blocked and breaks every circle.
FairSpec == Spec /\ \A o \in Ops : WF_vars(Step(o))

-----------------------------------------------------------------------------
(* Properties. *)

TypeOK ==
  /\ entities \subseteq Entities /\ aliases \in [Entities -> SUBSET Aliases]
  /\ events \subseteq Events /\ links \subseteq Links /\ relations \subseteq Relations
  /\ start \in Starts
  /\ pc \in [Ops -> Steps]
  /\ req \in [Ops -> Workload \cup {None}]
  /\ kept \in [Ops -> {None} \cup SUBSET Aliases] /\ gone \in [Ops -> {None} \cup SUBSET Aliases]
  /\ at \in [Ops -> Nat \ {0}]
  /\ tx \in [Ops -> SUBSET Writes]

Finished(kinds) == {o \in Ops : pc[o] = "done" /\ req[o].kind \in kinds}

\* Links and relations refer to entities and events that are there, however an
\* insertion and a merge come in between each other (models.py, migration).
NoDanglingRow ==
  /\ \A l \in links : l.entity \in entities /\ l.event \in events
  /\ \A x \in relations : {x.from, x.to} \subseteq entities /\ x.from # x.to

\* An entity is missing exactly if a merge or a deletion of it has been committed:
\* a merge that fails after its update leaves the merged entity
\* (services.py merge_entities).
MissingIsMerged ==
  \A e \in Entities :
     e \notin entities <=> \E o \in Finished({"merge", "delete"}) : req[o].gone = e

\* An alias of an entity is one it started with, was given by an update, or took
\* over from an entity whose merge has been committed.
AliasesAreGiven ==
  \A e \in entities : \A a \in aliases[e] :
     \/ a \in start.aliases[e]
     \/ \E o \in Finished({"update", "merge"}) : req[o].keep = e /\ a \in NewAliases(o)

\* An alias that some entity had at the start, or that an update has committed.
Known(a) ==
  \/ \E e \in Entities : a \in start.aliases[e]
  \/ \E o \in Finished({"update"}) : a \in req[o].value

\* An alias never comes to an entity from a transaction that is not committed.
AliasesAreKnown == \A e \in entities : \A a \in aliases[e] : Known(a)

\* A merge that fails takes back the aliases it has already written, and what an
\* update wrote and did not commit comes to no entity, not even through a merge that
\* loads the entity meanwhile and is committed (services.py merge_entities, update_entity).
AliasesHaveASource == AliasesAreGiven /\ AliasesAreKnown

\* An event that was created is linked to every entity it was created with, as
\* long as the entity exists (services.py create_event).
EventKeepsItsLinks ==
  \A o \in Finished({"event"}) :
     /\ o \in events
     /\ \A i \in DOMAIN req[o].ents :
           req[o].ents[i] \in entities => [event |-> o, entity |-> req[o].ents[i]] \in links

\* Every operation comes to its end: no waiting in a circle that lasts.
OpsEnd == \A o \in Ops : pc[o] # "idle" ~> pc[o] \in {"done", "failed"}

-----------------------------------------------------------------------------
(* What the operations do to the rows, as EntityGraph promises it. *)

outcome == [o \in Ops |-> IF pc[o] \in {"done", "failed"} THEN pc[o] ELSE "open"]

Graph == INSTANCE EntityGraph WITH asked <- req

\* Every operation takes effect in one step, at its commit, and as a whole, whatever
\* the others commit between its statements (EntityService, EventService).
ImplementsEntityGraph == Graph!Spec

-----------------------------------------------------------------------------
(* What the documentation says and the code refutes. *)

\* "All relationships and event links are transferred to the kept entity".
RelationsAreTransferred ==
  [][\A o \in Ops : \A x \in relations, y \in Entities :
       /\ pc[o] = "commit" /\ pc'[o] = "done" /\ req[o].kind = "merge"
       /\ {x.from, x.to} = {req[o].gone, y} /\ y \notin {req[o].keep, req[o].gone}
       => \E z \in relations' : {z.from, z.to} = {req[o].keep, y}]_vars

=============================================================================
