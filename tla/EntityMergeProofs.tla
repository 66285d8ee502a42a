-------------------------- MODULE EntityMergeProofs --------------------------
(***************************************************************************)
(* The invariants of EntityMerge for any number of operations, entities,   *)
(* aliases and events, and any workload.  The argument is about locks:     *)
(* what a transaction has written refers to entities that exist, and no    *)
(* other transaction has deleted one of them (Exclusive).                  *)
(***************************************************************************)
EXTENDS EntityMerge, TLAPS

\* The entities a write locks.
Locked(w) ==
  {e \in Entities : \/ w.do \in {"update", "delete"} /\ e = w.entity
                    \/ w.do = "link" /\ e = w.link.entity
                    \/ w.do = "relate" /\ (e = w.relation.from \/ e = w.relation.to)}

\* What an operation has asked for, and been able to write, at each step.
StepsOf(kind) ==
  {s \in Steps :
     \/ s \in {"commit", "done", "failed"}
     \/ kind = "merge" /\ s \in {"keep", "gone", "aliases", "links", "delete"}
     \/ kind = "update" /\ s \in {"keep", "aliases"}
     \/ kind = "delete" /\ s \in {"gone", "links", "delete"}
     \/ kind = "event" /\ s \in {"event", "link"}
     \/ kind = "link" /\ s = "link"
     \/ kind = "relate" /\ s = "relate"}

AsAsked(o) ==
  /\ pc[o] # "idle" => req[o] \in Workload /\ pc[o] \in StepsOf(req[o].kind)
  /\ pc[o] # "idle" /\ req[o].kind = "link" => req[o].event \in events
  /\ pc[o] \notin {"links", "delete", "link", "commit"} => tx[o] = {}
  /\ pc[o] \in {"aliases", "links", "delete", "commit"} /\ req[o].kind = "merge" =>
        kept[o] # None /\ gone[o] # None

Unlinked(e) == \A l \in start.links : l.entity # e

\* Whoever tries to delete an entity with a link of the start fails, and so the link is
\* there when the next one looks for it.
StartLinksThere == start.links \subseteq links

Written(o, w) ==
  /\ w.do = "update" => req[o].kind \in {"merge", "update"} /\ w.entity = req[o].keep
  /\ w.do = "delete" => req[o].kind \in {"merge", "delete"} /\ w.entity = req[o].gone /\ Unlinked(w.entity)
  /\ w.do = "event" => req[o].kind = "event"
  /\ w.do = "link" => \/ w.link.event \in events
                      \/ w.link.event = o /\ [do |-> "event"] \in tx[o]
  /\ w.do = "relate" => w.relation.from # w.relation.to
  /\ Locked(w) \subseteq entities

WritesOK(o) == \A w \in tx[o] : Written(o, w)

\* Nobody has deleted an entity that another transaction has locked.
Exclusive ==
  \A o, p \in Ops : o # p =>
     \A w \in tx[o], v \in tx[p] : v.do = "delete" => v.entity \notin Locked(w)

\* A deletion is decided when nothing was linked from the start, and is there to commit.
DeletionOK(o) ==
  /\ pc[o] = "delete" => Unlinked(req[o].gone)
  /\ pc[o] = "commit" /\ req[o].kind \in {"merge", "delete"} =>
        req[o].gone \notin entities \/ [do |-> "delete", entity |-> req[o].gone] \in tx[o]

\* The place in entity_ids is one of the list when a link is inserted.
AtOK(o) ==
  /\ pc[o] \in {"idle", "event"} => at[o] = 1
  /\ pc[o] = "link" => at[o] \in DOMAIN req[o].ents

\* A new event has the links it has inserted so far, up to all of them.
LinkNumber(o, i) == [do |-> "link", link |-> [event |-> o, entity |-> req[o].ents[i]]]

EventOK(o) ==
  req[o] # None /\ req[o].kind = "event" =>
     /\ pc[o] \in {"link", "commit"} => [do |-> "event"] \in tx[o]
     /\ pc[o] = "link" => \A i \in DOMAIN req[o].ents : i < at[o] => LinkNumber(o, i) \in tx[o]
     /\ pc[o] = "commit" => \A i \in DOMAIN req[o].ents : LinkNumber(o, i) \in tx[o]

\* What an operation has loaded was committed.
LoadedOK(o) ==
  /\ kept[o] # None => \A a \in kept[o] : Known(a)
  /\ gone[o] # None => \A a \in gone[o] : Known(a)

IInv ==
  /\ TypeOK
  /\ \A o \in Ops : AsAsked(o) /\ AtOK(o) /\ WritesOK(o) /\ DeletionOK(o) /\ EventOK(o)
  /\ Exclusive
  /\ NoDanglingRow
  /\ StartLinksThere
  /\ MissingIsMerged
  /\ AliasesAreGiven
  /\ AliasesAreKnown /\ \A o \in Ops : LoadedOK(o)
  /\ EventKeepsItsLinks

-----------------------------------------------------------------------------
(* Types. *)

\* What a request of each kind has.
LEMMA RequestFacts ==
  ASSUME NEW r \in Workload
  PROVE  /\ r.kind \in {"merge", "delete", "update", "event", "link", "relate"}
         /\ r.kind \in {"merge", "delete"} => r.gone \in Entities
         /\ r.kind \in {"merge", "update"} => r.keep \in Entities
         /\ r.kind = "update" => r.value \subseteq Aliases
         /\ r.kind \in {"event", "link"} => r.ents \in Seq(Entities)
         /\ r.kind = "link" => r.event \in Events /\ Len(r.ents) = 1
         /\ r.kind = "relate" => r.from \in Entities /\ r.to \in Entities
<1>1. r \in Requests
  BY WorkloadAssumption
<1> QED
  BY <1>1 DEF Requests, Merges, Deletions, Updates, NewEvents, NewLinksTo, NewLinks, Relates

\* An operation that has begun knows what it is asked.
LEMMA Asked ==
  ASSUME TypeOK, NEW o \in Ops, AsAsked(o), pc[o] # "idle"
  PROVE  req[o] \in Workload /\ req[o] # None
BY WorkloadAssumption DEF AsAsked

\* What writes are made of.
LEMMA WriteFacts ==
  ASSUME NEW w \in Writes
  PROVE  /\ w.do \in {"update", "delete", "event", "link", "relate"}
         /\ w.do \in {"update", "delete"} => w.entity \in Entities
         /\ w.do = "update" => w.value \subseteq Aliases
         /\ w.do = "link" => w.link \in Links
         /\ w.do = "relate" => w.relation \in Relations
BY DEF Writes

\* What a link insert writes.
LEMMA NextLinkType ==
  ASSUME TypeOK, NEW o \in Ops, AsAsked(o), AtOK(o), pc[o] = "link"
  PROVE  /\ NextLink(o) \in Links
         /\ req[o].ents \in Seq(Entities) /\ at[o] \in DOMAIN req[o].ents
         /\ req[o].kind \in {"event", "link"}
         /\ NextLink(o).entity = req[o].ents[at[o]]
<1>1. req[o] \in Workload /\ req[o].kind \in {"event", "link"}
  BY DEF AsAsked, StepsOf
<1>2. req[o].ents \in Seq(Entities) /\ (req[o].kind = "link" => req[o].event \in Events)
  BY <1>1, RequestFacts
<1>3. at[o] \in DOMAIN req[o].ents
  BY DEF AtOK
<1>4. req[o].ents[at[o]] \in Entities
  BY <1>2, <1>3
<1> QED
  BY <1>1, <1>2, <1>3, <1>4 DEF NextLink, Links, Events

\* The aliases that are written are aliases.
LEMMA NewAliasesType ==
  ASSUME TypeOK, NEW o \in Ops, AsAsked(o),
         pc[o] = "aliases" \/ (pc[o] = "commit" /\ req[o].kind \in {"merge", "update"})
  PROVE  /\ NewAliases(o) \subseteq Aliases /\ req[o].keep \in Entities
         /\ req[o].kind \in {"merge", "update"}
<1>1. req[o] \in Workload /\ req[o].kind \in {"merge", "update"}
  BY DEF AsAsked, StepsOf
<1>2. CASE req[o].kind = "merge"
  <2>1. kept[o] \subseteq Aliases /\ gone[o] \subseteq Aliases
    BY <1>2 DEF TypeOK, AsAsked
  <2> QED
    BY <1>1, <1>2, <2>1, RequestFacts DEF NewAliases
<1>3. CASE req[o].kind = "update"
  BY <1>1, <1>3, RequestFacts DEF NewAliases
<1> QED
  BY <1>1, <1>2, <1>3

\* So do the transactions that write or roll back.
LEMMA WriteType ==
  ASSUME tx \in [Ops -> SUBSET Writes], NEW o \in Ops, NEW rows \in SUBSET Writes
  PROVE  /\ Write(o, rows) => tx' \in [Ops -> SUBSET Writes]
         /\ tx' = [tx EXCEPT ![o] = {}] => tx' \in [Ops -> SUBSET Writes]
BY DEF Write

LEMMA GotoType ==
  ASSUME pc \in [Ops -> Steps], NEW o \in Ops, NEW step \in Steps, Goto(o, step)
  PROVE  pc' \in [Ops -> Steps]
BY DEF Goto


\* What a commit makes of the rows.
LEMMA CommitType ==
  ASSUME TypeOK, NEW o \in Ops, AsAsked(o), WritesOK(o), Commit(o)
  PROVE  /\ entities' \subseteq Entities /\ aliases' \in [Entities -> SUBSET Aliases]
         /\ events' \subseteq Events /\ links' \subseteq Links /\ relations' \subseteq Relations
<1>1. tx[o] \subseteq Writes
  BY DEF TypeOK
<1>2. NewLinksOf(o) \subseteq Links /\ NewRelations(o) \subseteq Relations
  BY <1>1, WriteFacts DEF NewLinksOf, NewRelations
<1>3. ASSUME NEW e \in Updated(o) PROVE NewAliases(o) \subseteq Aliases
  <2>1. PICK w \in tx[o] : w.do = "update"
    BY DEF Updated
  <2>2. req[o].kind \in {"merge", "update"}
    BY <2>1 DEF WritesOK, Written
  <2> QED
    BY <2>2, NewAliasesType DEF Commit
<1>4. aliases' \in [Entities -> SUBSET Aliases]
  BY <1>3 DEF Commit, TypeOK
<1> QED
  BY <1>2, <1>4 DEF Commit, TypeOK, Events

\* Every step keeps the types of the variables.
LEMMA TypeStep == IInv /\ [Next]_vars => TypeOK'
<1> SUFFICES ASSUME IInv, [Next]_vars PROVE TypeOK'
  OBVIOUS
<1>0. TypeOK
  BY DEF IInv
<1> DEFINE Rows == /\ entities' \subseteq Entities /\ aliases' \in [Entities -> SUBSET Aliases]
                   /\ events' \subseteq Events /\ links' \subseteq Links /\ relations' \subseteq Relations
                   /\ start' \in Starts
           Loaded == /\ req' \in [Ops -> Workload \cup {None}]
                     /\ kept' \in [Ops -> {None} \cup SUBSET Aliases]
                     /\ gone' \in [Ops -> {None} \cup SUBSET Aliases]
                     /\ at' \in [Ops -> Nat \ {0}]
<1>1. UNCHANGED dbVars => Rows
  BY <1>0 DEF TypeOK, dbVars
<1>2. UNCHANGED <<req, kept, gone, at>> => Loaded
  BY <1>0 DEF TypeOK
<1>3. /\ pc \in [Ops -> Steps] /\ tx \in [Ops -> SUBSET Writes]
      /\ UNCHANGED tx => tx' \in [Ops -> SUBSET Writes]
  BY <1>0 DEF TypeOK
<1>4. ASSUME Rows, Loaded, pc' \in [Ops -> Steps], tx' \in [Ops -> SUBSET Writes] PROVE TypeOK'
  BY <1>4 DEF TypeOK
<1> HIDE DEF Rows, Loaded
<1>5. ASSUME NEW o \in Ops PROVE AsAsked(o) /\ AtOK(o) /\ WritesOK(o)
  BY DEF IInv
<1>6. ASSUME NEW o \in Ops, Fail(o) PROVE pc' \in [Ops -> Steps] /\ tx' \in [Ops -> SUBSET Writes]
  BY <1>3, <1>6 DEF Fail, Goto, Steps
<1>7. ASSUME NEW e \in Entities PROVE Read(e) \in {None} \cup SUBSET Aliases
  BY <1>0 DEF Read, TypeOK
<1>10. ASSUME NEW o \in Ops, Begin(o) PROVE TypeOK'
  <2>1. PICK r \in Workload : req' = [req EXCEPT ![o] = r] /\ Goto(o, FirstStep(r))
    BY <1>10 DEF Begin
  <2>2. FirstStep(r) \in Steps
    BY RequestFacts DEF FirstStep, Steps
  <2>3. Loaded
    BY <1>0, <1>10, <2>1 DEF Begin, Loaded, TypeOK
  <2> QED
    BY <1>1, <1>3, <1>4, <1>10, <2>1, <2>2, <2>3, GotoType DEF Begin
<1>11. ASSUME NEW o \in Ops, LoadKeep(o) PROVE TypeOK'
  <2>1. req[o] \in Workload /\ req[o].keep \in Entities
    BY <1>5, <1>11, RequestFacts DEF LoadKeep, AsAsked, StepsOf
  <2>2. Loaded
    BY <1>0, <1>7, <1>11, <2>1 DEF LoadKeep, Loaded, TypeOK
  <2>3. \E step \in Steps : Goto(o, step)
    BY <1>11 DEF LoadKeep, Steps
  <2> QED
    BY <1>1, <1>3, <1>4, <1>11, <2>2, <2>3, GotoType DEF LoadKeep
<1>12. ASSUME NEW o \in Ops, LoadGone(o) PROVE TypeOK'
  <2>1. req[o] \in Workload /\ req[o].gone \in Entities
    BY <1>5, <1>12, RequestFacts DEF LoadGone, AsAsked, StepsOf
  <2>2. ReadGone(o) \in {None} \cup SUBSET Aliases
    BY <1>0, <1>7, <2>1 DEF ReadGone, TypeOK
  <2>3. Loaded
    BY <1>0, <1>12, <2>2 DEF LoadGone, Loaded, TypeOK
  <2>4. \E step \in Steps : Goto(o, step)
    BY <1>12 DEF LoadGone, Steps
  <2> QED
    BY <1>1, <1>3, <1>4, <1>12, <2>3, <2>4, GotoType DEF LoadGone
<1>13. ASSUME NEW o \in Ops, UpdateAliases(o) PROVE TypeOK'
  <2>1. NewAliases(o) \subseteq Aliases /\ req[o].keep \in Entities
    BY <1>0, <1>5, <1>13, NewAliasesType DEF UpdateAliases
  <2>2. {[do |-> "update", entity |-> req[o].keep, value |-> NewAliases(o)]} \in SUBSET Writes
    BY <2>1 DEF Writes
  <2>3. \/ /\ Write(o, {[do |-> "update", entity |-> req[o].keep, value |-> NewAliases(o)]})
           /\ \E step \in Steps : Goto(o, step)
        \/ Fail(o)
    BY <1>13 DEF UpdateAliases, Steps
  <2>4. pc' \in [Ops -> Steps] /\ tx' \in [Ops -> SUBSET Writes]
    BY <1>3, <1>6, <2>2, <2>3, GotoType, WriteType
  <2> QED
    BY <1>1, <1>2, <1>4, <1>13, <2>4 DEF UpdateAliases
<1>14. ASSUME NEW o \in Ops, LookForLinks(o) PROVE TypeOK'
  <2>1. \/ Fail(o)
        \/ Goto(o, "delete") /\ UNCHANGED tx
    BY <1>14 DEF LookForLinks
  <2>2. pc' \in [Ops -> Steps] /\ tx' \in [Ops -> SUBSET Writes]
    BY <1>3, <1>6, <2>1, GotoType DEF Steps
  <2> QED
    BY <1>1, <1>2, <1>4, <1>14, <2>2 DEF LookForLinks
<1>15. ASSUME NEW o \in Ops, DeleteEntity(o) PROVE TypeOK'
  <2>1. {[do |-> "delete", entity |-> e] : e \in {req[o].gone} \cap entities} \in SUBSET Writes
    BY <1>0 DEF Writes, TypeOK
  <2>2. pc' \in [Ops -> Steps] /\ tx' \in [Ops -> SUBSET Writes]
    BY <1>3, <1>15, <2>1, GotoType, WriteType DEF DeleteEntity, Steps
  <2> QED
    BY <1>1, <1>2, <1>4, <1>15, <2>2 DEF DeleteEntity
<1>16. ASSUME NEW o \in Ops, InsertEvent(o) PROVE TypeOK'
  <2>1. {[do |-> "event"]} \in SUBSET Writes
    BY DEF Writes
  <2>2. \E step \in Steps : Goto(o, step)
    BY <1>16 DEF InsertEvent, Steps
  <2>3. pc' \in [Ops -> Steps] /\ tx' \in [Ops -> SUBSET Writes]
    BY <1>3, <1>16, <2>1, <2>2, GotoType, WriteType DEF InsertEvent
  <2> QED
    BY <1>1, <1>2, <1>4, <1>16, <2>3 DEF InsertEvent
<1>17. ASSUME NEW o \in Ops, InsertLink(o) PROVE TypeOK'
  <2>1. NextLink(o) \in Links
    BY <1>0, <1>5, <1>17, NextLinkType DEF InsertLink
  <2>2. {[do |-> "link", link |-> NextLink(o)]} \in SUBSET Writes
    BY <2>1 DEF Writes
  <2>3. \/ /\ Write(o, {[do |-> "link", link |-> NextLink(o)]})
           /\ at' = [at EXCEPT ![o] = @ + 1]
           /\ \E step \in Steps : Goto(o, step)
        \/ Fail(o) /\ UNCHANGED at
    BY <1>17 DEF InsertLink, Steps
  <2>4. pc' \in [Ops -> Steps] /\ tx' \in [Ops -> SUBSET Writes]
    BY <1>3, <1>6, <2>2, <2>3, GotoType, WriteType
  <2>5. Loaded
    BY <1>0, <1>17, <2>3 DEF InsertLink, Loaded, TypeOK
  <2> QED
    BY <1>1, <1>4, <1>17, <2>4, <2>5 DEF InsertLink
<1>18. ASSUME NEW o \in Ops, InsertRelation(o) PROVE TypeOK'
  <2>1. req[o] \in Workload /\ req[o].from \in Entities /\ req[o].to \in Entities
    BY <1>5, <1>18, RequestFacts DEF InsertRelation, AsAsked, StepsOf
  <2>2. {[do |-> "relate", relation |-> [by |-> o, from |-> req[o].from, to |-> req[o].to]]} \in SUBSET Writes
    BY <2>1 DEF Writes, Relations
  <2>3. \/ /\ Write(o, {[do |-> "relate", relation |-> [by |-> o, from |-> req[o].from, to |-> req[o].to]]})
           /\ Goto(o, "commit")
        \/ Fail(o)
    BY <1>18 DEF InsertRelation
  <2>4. pc' \in [Ops -> Steps] /\ tx' \in [Ops -> SUBSET Writes]
    BY <1>3, <1>6, <2>2, <2>3, GotoType, WriteType DEF Steps
  <2> QED
    BY <1>1, <1>2, <1>4, <1>18, <2>4 DEF InsertRelation
<1>19. ASSUME NEW o \in Ops, Commit(o) PROVE TypeOK'
  <2>1. Rows
    BY <1>0, <1>5, <1>19, CommitType DEF Commit, Rows, TypeOK
  <2>2. pc' \in [Ops -> Steps] /\ tx' \in [Ops -> SUBSET Writes]
    BY <1>3, <1>19, GotoType DEF Commit, Steps
  <2> QED
    BY <1>2, <1>4, <1>19, <2>1, <2>2 DEF Commit
<1>20. ASSUME NEW o \in Ops, BreakCircle(o) \/ Interrupt(o) PROVE TypeOK'
  BY <1>1, <1>2, <1>4, <1>6, <1>20 DEF BreakCircle, Interrupt
<1>21. CASE UNCHANGED vars
  BY <1>1, <1>2, <1>3, <1>4, <1>21 DEF vars
<1> QED
  BY <1>10, <1>11, <1>12, <1>13, <1>14, <1>15, <1>16, <1>17, <1>18, <1>19, <1>20, <1>21 DEF Next, Step

-----------------------------------------------------------------------------
(* What a step of one operation leaves alone. *)

Acts(o) == Begin(o) \/ Step(o) \/ Interrupt(o)

LEMMA Frame ==
  ASSUME TypeOK, NEW o \in Ops, Acts(o)
  PROVE  /\ \A p \in Ops \ {o} : /\ pc'[p] = pc[p] /\ req'[p] = req[p] /\ kept'[p] = kept[p]
                                /\ gone'[p] = gone[p] /\ at'[p] = at[p] /\ tx'[p] = tx[p]
         /\ start' = start
<1>1. \A p \in Ops \ {o} : pc'[p] = pc[p]
  BY DEF Acts, Begin, Step, LoadKeep, LoadGone, UpdateAliases, LookForLinks, DeleteEntity, InsertEvent,
         InsertLink, InsertRelation, Commit, BreakCircle, Interrupt, Fail, Goto, TypeOK
<1>2. \A p \in Ops \ {o} : tx'[p] = tx[p]
  BY DEF Acts, Begin, Step, LoadKeep, LoadGone, UpdateAliases, LookForLinks, DeleteEntity, InsertEvent,
         InsertLink, InsertRelation, Commit, BreakCircle, Interrupt, Fail, Write, TypeOK
<1>3. \A p \in Ops \ {o} : req'[p] = req[p] /\ kept'[p] = kept[p] /\ gone'[p] = gone[p] /\ at'[p] = at[p]
  BY DEF Acts, Begin, Step, LoadKeep, LoadGone, UpdateAliases, LookForLinks, DeleteEntity, InsertEvent,
         InsertLink, InsertRelation, Commit, BreakCircle, Interrupt, TypeOK
<1>4. start' = start
  BY DEF Acts, Begin, Step, LoadKeep, LoadGone, UpdateAliases, LookForLinks, DeleteEntity, InsertEvent,
         InsertLink, InsertRelation, Commit, BreakCircle, Interrupt, dbVars
<1> QED
  BY <1>1, <1>2, <1>3, <1>4

\* Only a commit changes rows: entities go, events come.
LEMMA RowsChange ==
  ASSUME NEW o \in Ops, Acts(o)
  PROVE  /\ Commit(o) \/ UNCHANGED dbVars
         /\ entities' \subseteq entities /\ events \subseteq events'
<1>1. Commit(o) \/ UNCHANGED dbVars
  BY DEF Acts, Begin, Step, LoadKeep, LoadGone, UpdateAliases, LookForLinks, DeleteEntity, InsertEvent,
         InsertLink, InsertRelation, BreakCircle, Interrupt
<1> QED
  BY <1>1 DEF Commit, dbVars

\* The rows a transaction has locked are those its writes lock.
LEMMA LocksOfWrites ==
  ASSUME NEW p, NEW w \in tx[p]
  PROVE  /\ Locked(w) \subseteq Updated(p) \cup Deleted(p) \cup Referred(p)
         /\ w.do = "delete" => w.entity \in Deleted(p)
         /\ w.do = "link" => w.link \in NewLinksOf(p)
<1>1. CASE w.do = "update"
  BY <1>1 DEF Locked, Updated
<1>2. CASE w.do = "delete"
  BY <1>2 DEF Locked, Deleted
<1>3. CASE w.do = "link"
  BY <1>3 DEF Locked, Referred, NewLinksOf
<1>4. CASE w.do = "relate"
  <2>1. w.relation \in NewRelations(p)
    BY <1>4 DEF NewRelations
  <2>2. {w.relation.from, w.relation.to} \subseteq Referred(p)
    BY <2>1 DEF Referred
  <2> QED
    BY <1>4, <2>2 DEF Locked
<1> QED
  BY <1>1, <1>2, <1>3, <1>4 DEF Locked

\* New writes that no other transaction stands against, and that stand against none.
Free(o, rows) ==
  \A w \in rows :
     /\ Locked(w) \subseteq entities
     /\ \A p \in Ops \ {o} : \A v \in tx[p] :
          /\ v.do = "delete" => v.entity \notin Locked(w)
          /\ w.do = "delete" => w.entity \notin Locked(v)

\* What a step does to the transaction of its operation.
Adds(o, rows) == tx' = [tx EXCEPT ![o] = @ \cup rows] /\ Free(o, rows)

Drops(o) == tx' = [tx EXCEPT ![o] = {}]

LEMMA ExclusiveStep ==
  ASSUME TypeOK, Exclusive, NEW o \in Ops, Drops(o) \/ \E rows \in SUBSET Writes : Adds(o, rows)
  PROVE  Exclusive'
<1> SUFFICES ASSUME NEW q \in Ops, NEW p \in Ops, q # p, NEW w \in tx'[q], NEW v \in tx'[p], v.do = "delete"
             PROVE  v.entity \notin Locked(w)
  BY DEF Exclusive
<1>1. tx \in [Ops -> SUBSET Writes]
  BY DEF TypeOK
<1>2. CASE Drops(o)
  BY <1>1, <1>2 DEF Drops, Exclusive
<1>3. ASSUME NEW rows \in SUBSET Writes, Adds(o, rows) PROVE v.entity \notin Locked(w)
  <2>1. tx'[o] = tx[o] \cup rows /\ \A r \in Ops \ {o} : tx'[r] = tx[r]
    BY <1>1, <1>3 DEF Adds
  <2>2. CASE w \in tx[q] /\ v \in tx[p]
    BY <2>2 DEF Exclusive
  <2>3. CASE w \notin tx[q]
    BY <1>3, <2>1, <2>3 DEF Adds, Free
  <2>4. CASE v \notin tx[p]
    BY <1>3, <2>1, <2>4 DEF Adds, Free
  <2> QED
    BY <2>2, <2>3, <2>4
<1> QED
  BY <1>2, <1>3

\* Every step adds writes that are free, or drops them all.
LEMMA TxStep ==
  ASSUME TypeOK, NEW o \in Ops, AsAsked(o), AtOK(o), WritesOK(o), DeletionOK(o), Acts(o)
  PROVE  Drops(o) \/ \E rows \in SUBSET Writes :
                        /\ Adds(o, rows)
                        /\ \A w \in rows : \/ Written(o, w)
                                           \/ pc[o] = "link" /\ w = [do |-> "link", link |-> NextLink(o)]
<1>0. tx \in [Ops -> SUBSET Writes]
  BY DEF TypeOK
<1>1. CASE UNCHANGED tx
  <2>1. tx' = [tx EXCEPT ![o] = @ \cup {}]
    BY <1>0, <1>1
  <2>2. Adds(o, {})
    BY <2>1 DEF Adds, Free
  <2>3. {} \in SUBSET Writes
    OBVIOUS
  <2> QED
    BY <2>2, <2>3
<1>2. CASE Fail(o) \/ Commit(o)
  BY <1>2 DEF Fail, Commit, Drops
<1>3. CASE UpdateAliases(o)
  <2> DEFINE new == [do |-> "update", entity |-> req[o].keep, value |-> NewAliases(o)]
  <2>1. CASE Fail(o)
    BY <1>2, <2>1
  <2>2. CASE ~ Fail(o)
    <3>1. Write(o, {new}) /\ req[o].keep \in entities /\ WaitsFor(o) = {} /\ pc[o] = "aliases"
      BY <1>3, <2>2 DEF UpdateAliases
    <3>2. NewAliases(o) \subseteq Aliases /\ req[o].keep \in Entities /\ req[o].kind \in {"merge", "update"}
      BY <3>1, NewAliasesType
    <3>3. new \in Writes /\ Locked(new) = {req[o].keep}
      BY <3>2 DEF Writes, Locked
    <3>4. \A p \in Ops \ {o} : req[o].keep \notin Deleted(p)
      BY <3>1 DEF WaitsFor, Blocks
    <3>5. Free(o, {new})
      BY <3>1, <3>3, <3>4, LocksOfWrites DEF Free
    <3>6. Written(o, new)
      BY <3>1, <3>2, <3>3 DEF Written
    <3>7. Adds(o, {new}) /\ {new} \in SUBSET Writes
      BY <3>1, <3>3, <3>5 DEF Adds, Write
    <3> QED
      BY <3>6, <3>7
  <2> QED
    BY <2>1, <2>2
<1>4. CASE DeleteEntity(o)
  <2> DEFINE rows == {[do |-> "delete", entity |-> e] : e \in {req[o].gone} \cap entities}
  <2>1. Write(o, rows) /\ WaitsFor(o) = {} /\ pc[o] = "delete"
    BY <1>4 DEF DeleteEntity
  <2>2. req[o].kind \in {"merge", "delete"} /\ Unlinked(req[o].gone)
    BY <2>1 DEF AsAsked, StepsOf, DeletionOK
  <2>3. \A p \in Ops \ {o} : req[o].gone \notin Updated(p) \cup Deleted(p) \cup Referred(p)
    BY <2>1 DEF WaitsFor, Blocks
  <2>4. ASSUME NEW w \in rows
        PROVE  /\ w \in Writes /\ w.do = "delete" /\ w.entity = req[o].gone
               /\ Locked(w) = {req[o].gone} /\ req[o].gone \in entities
    BY DEF Writes, Locked, TypeOK
  <2>5. Free(o, rows)
    BY <2>3, <2>4, LocksOfWrites DEF Free
  <2>6. \A w \in rows : Written(o, w)
    BY <2>2, <2>4 DEF Written
  <2> QED
    BY <2>1, <2>4, <2>5, <2>6 DEF Adds, Write
<1>5. CASE InsertEvent(o)
  <2> DEFINE new == [do |-> "event"]
  <2>1. Write(o, {new}) /\ req[o].kind = "event"
    BY <1>5 DEF InsertEvent, AsAsked, StepsOf
  <2>2. new \in Writes /\ Locked(new) = {}
    BY DEF Writes, Locked
  <2>3. Adds(o, {new})
    BY <2>1, <2>2 DEF Adds, Write, Free
  <2>4. {new} \in SUBSET Writes /\ Written(o, new)
    BY <2>1, <2>2 DEF Written
  <2> QED
    BY <2>3, <2>4
<1>6. CASE InsertLink(o)
  <2> DEFINE new == [do |-> "link", link |-> NextLink(o)]
  <2>1. CASE Fail(o)
    BY <1>2, <2>1
  <2>2. CASE ~ Fail(o)
    <3>1. Write(o, {new}) /\ NextLink(o).entity \in entities /\ WaitsFor(o) = {} /\ pc[o] = "link"
      BY <1>6, <2>2 DEF InsertLink
    <3>2. NextLink(o) \in Links
      BY <3>1, NextLinkType
    <3>3. new \in Writes /\ Locked(new) = {NextLink(o).entity}
      BY <3>2 DEF Writes, Locked, Links
    <3>4. \A p \in Ops \ {o} : NextLink(o).entity \notin Deleted(p)
      BY <3>1 DEF WaitsFor, Blocks
    <3>5. Free(o, {new})
      BY <3>1, <3>3, <3>4, LocksOfWrites DEF Free
    <3>6. Adds(o, {new}) /\ {new} \in SUBSET Writes
      BY <3>1, <3>3, <3>5 DEF Adds, Write
    <3> QED
      BY <3>1, <3>6
  <2> QED
    BY <2>1, <2>2
<1>7. CASE InsertRelation(o)
  <2> DEFINE new == [do |-> "relate", relation |-> [by |-> o, from |-> req[o].from, to |-> req[o].to]]
  <2>1. CASE Fail(o)
    BY <1>2, <2>1
  <2>2. CASE ~ Fail(o)
    <3>1. /\ Write(o, {new}) /\ {req[o].from, req[o].to} \subseteq entities /\ req[o].from # req[o].to
          /\ WaitsFor(o) = {} /\ pc[o] = "relate"
      BY <1>7, <2>2 DEF InsertRelation
    <3>2. req[o].from \in Entities /\ req[o].to \in Entities
      BY <3>1, RequestFacts DEF AsAsked, StepsOf
    <3>3. new \in Writes /\ Locked(new) = {req[o].from, req[o].to}
      BY <3>2 DEF Writes, Locked, Relations
    <3>4. \A p \in Ops \ {o} : Deleted(p) \cap {req[o].from, req[o].to} = {}
      BY <3>1 DEF WaitsFor, Blocks
    <3>5. Free(o, {new})
      BY <3>1, <3>3, <3>4, LocksOfWrites DEF Free
    <3>6. Written(o, new)
      BY <3>1, <3>3 DEF Written
    <3>7. Adds(o, {new}) /\ {new} \in SUBSET Writes
      BY <3>1, <3>3, <3>5 DEF Adds, Write
    <3> QED
      BY <3>6, <3>7
  <2> QED
    BY <2>1, <2>2
<1> QED
  BY <1>1, <1>2, <1>3, <1>4, <1>5, <1>6, <1>7
     DEF Acts, Begin, Step, LoadKeep, LoadGone, LookForLinks, BreakCircle, Interrupt

-----------------------------------------------------------------------------
(* Locks and writes. *)

LEMMA BeginsOnce ==
  ASSUME NEW o \in Ops, Acts(o)
  PROVE  /\ pc[o] = "idle" => Begin(o)
         /\ pc[o] # "idle" => UNCHANGED req
<1>1. CASE Begin(o)
  BY <1>1 DEF Begin
<1>2. CASE BreakCircle(o)
  <2>1. WaitsFor(o) # {}
    BY <1>2 DEF BreakCircle
  <2>2. pc[o] \in {"aliases", "delete", "link", "relate"}
    BY <2>1 DEF WaitsFor, Blocks
  <2> QED
    BY <1>2, <2>2 DEF BreakCircle
<1>3. CASE ~ Begin(o) /\ ~ BreakCircle(o)
  BY <1>3 DEF Acts, Step, LoadKeep, LoadGone, UpdateAliases, LookForLinks, DeleteEntity, InsertEvent,
              InsertLink, InsertRelation, Commit, Interrupt
<1> QED
  BY <1>1, <1>2, <1>3

\* Nobody deletes what another transaction has locked.
LEMMA LockedStay ==
  ASSUME IInv, NEW o \in Ops, Acts(o), NEW p \in Ops \ {o}, NEW w \in tx[p]
  PROVE  Locked(w) \subseteq entities'
<1>1. Locked(w) \subseteq entities
  BY DEF IInv, WritesOK, Written
<1>2. CASE UNCHANGED dbVars
  BY <1>1, <1>2 DEF dbVars
<1>3. CASE Commit(o)
  <2>1. ASSUME NEW e \in Deleted(o) PROVE e \notin Locked(w)
    BY DEF IInv, Exclusive, Deleted
  <2> QED
    BY <1>1, <1>3, <2>1 DEF Commit
<1> QED
  BY <1>2, <1>3, RowsChange

LEMMA WritesStep ==
  ASSUME IInv, NEW o \in Ops, Acts(o), NEW p \in Ops
  PROVE  WritesOK(p)'
<1>0. TypeOK /\ AsAsked(o) /\ AtOK(o) /\ WritesOK(o) /\ DeletionOK(o) /\ EventOK(o) /\ WritesOK(p)
  BY DEF IInv
<1>1. SUFFICES ASSUME NEW w \in tx'[p] PROVE Written(p, w)'
  BY DEF WritesOK
<1>2. start' = start /\ events \subseteq events'
  BY <1>0, Frame, RowsChange
<1>3. CASE p # o
  <2>1. w \in tx[p] /\ req'[p] = req[p] /\ tx'[p] = tx[p]
    BY <1>0, <1>3, Frame
  <2>2. Written(p, w) /\ Locked(w) \subseteq entities'
    BY <1>0, <1>3, <2>1, LockedStay DEF WritesOK
  <2> QED
    BY <1>2, <2>1, <2>2 DEF Written, Unlinked
<1>4. CASE p = o
  <2>1. tx \in [Ops -> SUBSET Writes]
    BY <1>0 DEF TypeOK
  <2>2. ~ Drops(o)
    BY <1>4, <2>1 DEF Drops
  <2>3. UNCHANGED dbVars
    BY <2>2, RowsChange DEF Commit, Drops
  <2>4. PICK rows \in SUBSET Writes :
             /\ Adds(o, rows)
             /\ \A v \in rows : \/ Written(o, v)
                                \/ pc[o] = "link" /\ v = [do |-> "link", link |-> NextLink(o)]
    BY <1>0, <2>2, TxStep
  <2>5. tx'[o] = tx[o] \cup rows /\ tx[o] \subseteq tx'[o]
    BY <2>1, <2>4 DEF Adds
  <2>6. CASE pc[o] = "idle"
    <3>1. tx'[o] = {}
      BY <1>0, <2>6, BeginsOnce DEF Begin, AsAsked
    <3> QED
      BY <1>4, <3>1
  <2>7. CASE pc[o] # "idle"
    <3>1. req' = req
      BY <2>7, BeginsOnce
    <3>2. CASE Written(o, w)
      BY <1>2, <1>4, <2>3, <2>5, <3>1, <3>2 DEF Written, Unlinked, dbVars
    <3>3. CASE ~ Written(o, w)
      <4>1. w \in rows
        BY <1>0, <1>4, <2>5, <3>3 DEF WritesOK
      <4>2. pc[o] = "link" /\ w = [do |-> "link", link |-> NextLink(o)] /\ Locked(w) \subseteq entities
        BY <2>4, <3>3, <4>1 DEF Adds, Free
      <4>3. req[o] \in Workload /\ req[o] # None /\ req[o].kind \in {"event", "link"}
        BY <1>0, <4>2, Asked DEF AsAsked, StepsOf
      <4>4. CASE req[o].kind = "event"
        <5>1. [do |-> "event"] \in tx[o] /\ NextLink(o).event = o
          BY <1>0, <4>2, <4>3, <4>4 DEF EventOK, NextLink
        <5> QED
          BY <1>4, <2>3, <2>5, <4>2, <5>1 DEF Written, dbVars
      <4>5. CASE req[o].kind = "link"
        <5>1. NextLink(o).event \in events
          BY <1>0, <4>2, <4>5 DEF AsAsked, NextLink
        <5> QED
          BY <1>4, <2>3, <4>2, <5>1 DEF Written, dbVars
      <4> QED
        BY <4>3, <4>4, <4>5
    <3> QED
      BY <3>2, <3>3
  <2> QED
    BY <2>6, <2>7
<1> QED
  BY <1>3, <1>4

-----------------------------------------------------------------------------
(* The steps of one operation. *)

\* What the other operations know of themselves they go on to know.
LEMMA OthersStep ==
  ASSUME IInv, NEW o \in Ops, Acts(o), NEW p \in Ops \ {o}
  PROVE  AsAsked(p)' /\ AtOK(p)' /\ DeletionOK(p)' /\ EventOK(p)'
<1>1. TypeOK /\ AsAsked(p) /\ AtOK(p) /\ DeletionOK(p) /\ EventOK(p)
  BY DEF IInv
<1>2. /\ pc'[p] = pc[p] /\ req'[p] = req[p] /\ kept'[p] = kept[p]
      /\ gone'[p] = gone[p] /\ at'[p] = at[p] /\ tx'[p] = tx[p] /\ start' = start
  BY <1>1, Frame
<1>3. entities' \subseteq entities /\ events \subseteq events'
  BY RowsChange
<1>4. AsAsked(p)'
  BY <1>1, <1>2, <1>3 DEF AsAsked
<1>5. AtOK(p)'
  BY <1>1, <1>2 DEF AtOK
<1>6. DeletionOK(p)'
  BY <1>1, <1>2, <1>3 DEF DeletionOK, Unlinked
<1>7. EventOK(p)'
  BY <1>1, <1>2 DEF EventOK, LinkNumber
<1> QED
  BY <1>4, <1>5, <1>6, <1>7

\* An operation that fails has nothing left to know.
LEMMA FailStep ==
  ASSUME TypeOK, NEW o \in Ops, AsAsked(o), pc[o] # "idle", Fail(o), UNCHANGED <<dbVars, req>>
  PROVE  AsAsked(o)' /\ AtOK(o)' /\ DeletionOK(o)' /\ EventOK(o)'
<1>1. pc'[o] = "failed" /\ tx'[o] = {} /\ req' = req /\ events' = events
  BY DEF Fail, Goto, TypeOK, dbVars
<1>2. "failed" \in StepsOf(req[o].kind)
  BY DEF StepsOf, Steps
<1> QED
  BY <1>1, <1>2 DEF AsAsked, AtOK, DeletionOK, EventOK

LEMMA AsAskedStep ==
  ASSUME IInv, NEW o \in Ops, Acts(o)
  PROVE  AsAsked(o)'
<1>0. TypeOK /\ AsAsked(o) /\ AtOK(o)
  BY DEF IInv
<1>1. pc[o] \in Steps /\ pc \in [Ops -> Steps] /\ tx \in [Ops -> SUBSET Writes] /\ req \in [Ops -> Workload \cup {None}]
      /\ kept \in [Ops -> {None} \cup SUBSET Aliases] /\ gone \in [Ops -> {None} \cup SUBSET Aliases]
  BY <1>0 DEF TypeOK
<1>2. CASE Begin(o)
  <2>1. PICK r \in Workload : /\ r.kind = "link" => r.event \in events
                              /\ req' = [req EXCEPT ![o] = r] /\ Goto(o, FirstStep(r))
    BY <1>2 DEF Begin
  <2>2. req'[o] = r /\ pc'[o] = FirstStep(r) /\ tx'[o] = {} /\ events' = events
    BY <1>0, <1>1, <1>2, <2>1 DEF Begin, Goto, AsAsked, dbVars
  <2>3. FirstStep(r) \in StepsOf(r.kind) /\ FirstStep(r) \in {"keep", "gone", "event", "link", "relate"}
    BY RequestFacts DEF FirstStep, StepsOf, Steps
  <2> QED
    BY <2>1, <2>2, <2>3 DEF AsAsked
<1>3. CASE Fail(o) /\ UNCHANGED <<dbVars, req>> /\ pc[o] # "idle"
  BY <1>0, <1>3, FailStep
<1>4. CASE LoadKeep(o)
  <2>1. /\ req' = req /\ tx' = tx /\ events' = events /\ tx[o] = {}
        /\ \/ req[o].kind = "merge" /\ pc'[o] = "gone"
           \/ req[o].kind = "update" /\ pc'[o] \in {"failed", "commit", "aliases"}
    BY <1>0, <1>1, <1>4 DEF LoadKeep, Goto, AsAsked, dbVars
  <2>2. req[o] \in Workload
    BY <1>0, <1>4 DEF LoadKeep, AsAsked
  <2> QED
    BY <2>1, <2>2 DEF AsAsked, StepsOf, Steps
<1>5. CASE LoadGone(o)
  <2>1. /\ req' = req /\ tx' = tx /\ events' = events /\ tx[o] = {} /\ kept' = kept
        /\ gone'[o] = ReadGone(o) /\ req[o] \in Workload /\ req[o].kind \in {"merge", "delete"}
    BY <1>0, <1>1, <1>5 DEF LoadGone, AsAsked, dbVars, StepsOf
  <2>2. \/ pc'[o] = "failed"
        \/ /\ ReadGone(o) # None /\ (req[o].kind = "merge" => kept[o] # None)
           /\ pc'[o] = "links" \/ (pc'[o] = "aliases" /\ req[o].kind = "merge")
    BY <1>1, <1>5 DEF LoadGone, Goto
  <2> QED
    BY <2>1, <2>2 DEF AsAsked, StepsOf, Steps
<1>6. CASE UpdateAliases(o) /\ ~ Fail(o)
  <2>1. /\ UNCHANGED <<req, kept, gone>> /\ events' = events /\ req[o] \in Workload
        /\ req[o].kind \in {"merge", "update"}
        /\ pc'[o] = IF req[o].kind = "merge" THEN "links" ELSE "commit"
    BY <1>0, <1>1, <1>6 DEF UpdateAliases, Goto, AsAsked, dbVars, StepsOf
  <2>2. req[o].kind = "merge" => kept[o] # None /\ gone[o] # None
    BY <1>0, <1>6 DEF UpdateAliases, AsAsked
  <2> QED
    BY <2>1, <2>2 DEF AsAsked, StepsOf, Steps
<1>7. CASE (LookForLinks(o) /\ ~ Fail(o)) \/ DeleteEntity(o)
  <2>1. /\ UNCHANGED <<req, kept, gone>> /\ events' = events /\ req[o] \in Workload
        /\ req[o].kind \in {"merge", "delete"} /\ pc'[o] \in {"delete", "commit"}
    BY <1>0, <1>1, <1>7 DEF LookForLinks, DeleteEntity, Goto, AsAsked, dbVars, StepsOf
  <2>2. req[o].kind = "merge" => kept[o] # None /\ gone[o] # None
    BY <1>0, <1>7 DEF LookForLinks, DeleteEntity, AsAsked
  <2> QED
    BY <2>1, <2>2 DEF AsAsked, StepsOf, Steps
<1>8. CASE InsertEvent(o) \/ (InsertLink(o) /\ ~ Fail(o)) \/ (InsertRelation(o) /\ ~ Fail(o))
  <2>1. /\ req' = req /\ events' = events /\ req[o] \in Workload
        /\ \/ req[o].kind \in {"event", "link"} /\ pc'[o] \in {"link", "commit"}
           \/ req[o].kind = "relate" /\ pc'[o] = "commit"
    BY <1>0, <1>1, <1>8 DEF InsertEvent, InsertLink, InsertRelation, Goto, AsAsked, dbVars, StepsOf
  <2>2. req[o].kind = "link" => req[o].event \in events
    BY <1>0, <1>8 DEF InsertEvent, InsertLink, InsertRelation, AsAsked
  <2> QED
    BY <2>1, <2>2 DEF AsAsked, StepsOf, Steps
<1>9. CASE Commit(o)
  <2>1. /\ req' = req /\ events \subseteq events' /\ req[o] \in Workload
        /\ pc'[o] = "done" /\ tx'[o] = {}
    BY <1>0, <1>1, <1>9 DEF Commit, Goto, AsAsked
  <2> QED
    BY <1>0, <1>9, <2>1 DEF AsAsked, StepsOf, Steps, Commit
<1>10. Begin(o) \/ pc[o] # "idle"
  BY BeginsOnce
<1> QED
  BY <1>2, <1>3, <1>4, <1>5, <1>6, <1>7, <1>8, <1>9, <1>10
     DEF Acts, Step, BreakCircle, Interrupt, UpdateAliases, LookForLinks, InsertLink, InsertRelation


LEMMA AtStep ==
  ASSUME IInv, NEW o \in Ops, Acts(o)
  PROVE  AtOK(o)'
<1>0. TypeOK /\ AsAsked(o) /\ AtOK(o)
  BY DEF IInv
<1>1. pc \in [Ops -> Steps] /\ at \in [Ops -> Nat \ {0}] /\ req \in [Ops -> Workload \cup {None}]
  BY <1>0 DEF TypeOK
<1>2. CASE Begin(o)
  <2>1. PICK r \in Workload : req' = [req EXCEPT ![o] = r] /\ Goto(o, FirstStep(r))
    BY <1>2 DEF Begin
  <2>2. req'[o] = r /\ pc'[o] = FirstStep(r) /\ at'[o] = 1
    BY <1>0, <1>1, <1>2, <2>1 DEF Begin, Goto, AtOK
  <2>3. ASSUME FirstStep(r) = "link" PROVE 1 \in DOMAIN r.ents
    <3>1. r.kind = "link"
      BY <2>3, RequestFacts DEF FirstStep
    <3>2. r.ents \in Seq(Entities) /\ Len(r.ents) = 1
      BY <3>1, RequestFacts
    <3> QED
      BY <3>2
  <2> QED
    BY <2>2, <2>3 DEF AtOK
<1>3. CASE InsertEvent(o)
  <2>1. req[o].ents \in Seq(Entities) /\ at[o] = 1
    BY <1>0, <1>3, RequestFacts DEF InsertEvent, AsAsked, AtOK, StepsOf
  <2>2. req'[o].ents = req[o].ents /\ at'[o] = 1 /\ pc'[o] = IF req[o].ents = <<>> THEN "commit" ELSE "link"
    BY <1>1, <1>3, <2>1 DEF InsertEvent, Goto
  <2> QED
    BY <2>1, <2>2 DEF AtOK
<1>4. CASE InsertLink(o)
  <2>1. req[o].ents \in Seq(Entities) /\ at[o] \in DOMAIN req[o].ents /\ req' = req
    BY <1>0, <1>4, NextLinkType DEF InsertLink
  <2>2. \/ pc'[o] \in {"failed", "commit"}
        \/ pc'[o] = "link" /\ at'[o] = at[o] + 1 /\ at[o] < Len(req[o].ents)
    BY <1>1, <1>4 DEF InsertLink, Fail, Goto
  <2> QED
    BY <2>1, <2>2 DEF AtOK
<1>5. CASE ~ Begin(o) /\ ~ InsertEvent(o) /\ ~ InsertLink(o)
  <2>1. pc'[o] \notin {"idle", "event", "link"}
    BY <1>1, <1>5 DEF Acts, Step, LoadKeep, LoadGone, UpdateAliases, LookForLinks, DeleteEntity,
                      InsertRelation, Commit, BreakCircle, Interrupt, Fail, Goto
  <2> QED
    BY <2>1 DEF AtOK
<1> QED
  BY <1>2, <1>3, <1>4, <1>5

LEMMA DeletionStep ==
  ASSUME IInv, NEW o \in Ops, Acts(o)
  PROVE  DeletionOK(o)'
<1>0. TypeOK /\ AsAsked(o) /\ DeletionOK(o) /\ StartLinksThere
  BY DEF IInv
<1>1. pc \in [Ops -> Steps] /\ tx \in [Ops -> SUBSET Writes]
  BY <1>0 DEF TypeOK
<1>2. CASE LookForLinks(o)
  <2>1. req' = req /\ start' = start /\ (pc'[o] = "delete" \/ pc'[o] = "failed")
    BY <1>1, <1>2 DEF LookForLinks, Fail, Goto, dbVars
  <2>2. pc'[o] = "delete" => \A l \in links : l.entity # req[o].gone
    BY <1>1, <1>2 DEF LookForLinks, Fail, Goto
  <2> QED
    BY <1>0, <2>1, <2>2 DEF DeletionOK, Unlinked, StartLinksThere
<1>3. CASE DeleteEntity(o)
  <2>1. /\ req' = req /\ entities' = entities /\ pc'[o] = "commit"
        /\ tx'[o] = tx[o] \cup {[do |-> "delete", entity |-> e] : e \in {req[o].gone} \cap entities}
    BY <1>1, <1>3 DEF DeleteEntity, Write, Goto, dbVars
  <2> QED
    BY <2>1 DEF DeletionOK
<1>4. CASE ~ LookForLinks(o) /\ ~ DeleteEntity(o)
  <2>1. pc'[o] # "delete"
    BY <1>1, <1>4, RequestFacts
       DEF Acts, Step, Begin, FirstStep, LoadKeep, LoadGone, UpdateAliases, InsertEvent, InsertLink,
                      InsertRelation, Commit, BreakCircle, Interrupt, Fail, Goto
  <2>2. ASSUME pc'[o] = "commit" PROVE req[o].kind \notin {"merge", "delete"} /\ req' = req
    <3>1. ~ Begin(o)
      BY <1>1, <2>2, RequestFacts DEF Begin, FirstStep, Goto
    <3>2. \/ LoadKeep(o) /\ req[o].kind = "update"
          \/ UpdateAliases(o) /\ req[o].kind # "merge"
          \/ InsertEvent(o) \/ InsertLink(o) \/ InsertRelation(o)
      BY <1>1, <1>4, <2>2, <3>1
         DEF Acts, Step, LoadKeep, LoadGone, UpdateAliases, Commit, BreakCircle, Interrupt, Fail, Goto
    <3> QED
      BY <1>0, <3>2 DEF LoadKeep, UpdateAliases, InsertEvent, InsertLink, InsertRelation, AsAsked, StepsOf
  <2> QED
    BY <2>1, <2>2 DEF DeletionOK
<1> QED
  BY <1>2, <1>3, <1>4

LEMMA EventStep ==
  ASSUME IInv, NEW o \in Ops, Acts(o)
  PROVE  EventOK(o)'
<1>0. TypeOK /\ AsAsked(o) /\ AtOK(o) /\ EventOK(o)
  BY DEF IInv
<1>1. pc \in [Ops -> Steps] /\ tx \in [Ops -> SUBSET Writes] /\ at \in [Ops -> Nat \ {0}]
  BY <1>0 DEF TypeOK
<1>2. CASE InsertEvent(o)
  <2>1. req[o].ents \in Seq(Entities) /\ at[o] = 1
    BY <1>0, <1>2, RequestFacts DEF InsertEvent, AsAsked, AtOK, StepsOf
  <2>2. /\ req' = req /\ at' = at /\ [do |-> "event"] \in tx'[o]
        /\ pc'[o] = IF req[o].ents = <<>> THEN "commit" ELSE "link"
    BY <1>1, <1>2 DEF InsertEvent, Write, Goto
  <2>3. pc'[o] = "link" => \A i \in DOMAIN req[o].ents : ~ (i < at[o])
    BY <2>1
  <2>4. pc'[o] = "commit" => DOMAIN req[o].ents = {}
    BY <2>1, <2>2
  <2> QED
    BY <2>1, <2>2, <2>3, <2>4 DEF EventOK
<1>3. CASE InsertLink(o) /\ ~ Fail(o)
  <2>1. /\ req[o].ents \in Seq(Entities) /\ at[o] \in DOMAIN req[o].ents
        /\ NextLink(o).entity = req[o].ents[at[o]]
    BY <1>0, <1>3, NextLinkType DEF InsertLink
  <2>2. /\ req' = req /\ at'[o] = at[o] + 1
        /\ tx'[o] = tx[o] \cup {[do |-> "link", link |-> NextLink(o)]}
        /\ pc'[o] = IF at[o] < Len(req[o].ents) THEN "link" ELSE "commit"
    BY <1>1, <1>3 DEF InsertLink, Write, Goto
  <2>3. ASSUME req[o] # None, req[o].kind = "event"
        PROVE  /\ [do |-> "event"] \in tx'[o]
               /\ \A i \in DOMAIN req[o].ents : i < at[o] + 1 => LinkNumber(o, i) \in tx'[o]
    <3>1. [do |-> "event"] \in tx[o] /\ \A i \in DOMAIN req[o].ents : i < at[o] => LinkNumber(o, i) \in tx[o]
      BY <1>0, <1>3, <2>3 DEF EventOK, InsertLink
    <3>2. LinkNumber(o, at[o]) \in tx'[o]
      BY <2>1, <2>2, <2>3 DEF LinkNumber, NextLink
    <3>3. \A i \in DOMAIN req[o].ents : i < at[o] + 1 => i < at[o] \/ i = at[o]
      BY <2>1
    <3> QED
      BY <2>2, <3>1, <3>2, <3>3
  <2>4. pc'[o] = "commit" => \A i \in DOMAIN req[o].ents : i < at[o] + 1
    BY <2>1, <2>2
  <2>5. \A i : LinkNumber(o, i)' = LinkNumber(o, i)
    BY <2>2 DEF LinkNumber
  <2> QED
    BY <2>2, <2>3, <2>4, <2>5 DEF EventOK
<1>4. CASE ~ InsertEvent(o) /\ ~ (InsertLink(o) /\ ~ Fail(o))
  <2>1. ASSUME pc'[o] \in {"link", "commit"}, req'[o] # None
        PROVE  req'[o].kind # "event"
    <3>1. CASE Begin(o)
      <4>1. PICK r \in Workload : req' = [req EXCEPT ![o] = r] /\ Goto(o, FirstStep(r))
        BY <3>1 DEF Begin
      <4>2. req'[o] = r /\ pc'[o] = FirstStep(r)
        BY <1>0, <1>1, <4>1 DEF Goto, TypeOK
      <4> QED
        BY <2>1, <4>2, RequestFacts DEF FirstStep
    <3>2. CASE ~ Begin(o)
      <4>1. LoadKeep(o) \/ UpdateAliases(o) \/ DeleteEntity(o) \/ InsertRelation(o)
        BY <1>1, <1>4, <2>1, <3>2
           DEF Acts, Step, LoadGone, LookForLinks, InsertLink, Commit, BreakCircle, Interrupt, Fail, Goto
      <4> QED
        BY <1>0, <4>1 DEF LoadKeep, UpdateAliases, DeleteEntity, InsertRelation, AsAsked, StepsOf
    <3> QED
      BY <3>1, <3>2
  <2> QED
    BY <2>1 DEF EventOK
<1> QED
  BY <1>2, <1>3, <1>4


-----------------------------------------------------------------------------
(* What a commit does to the rows. *)

LEMMA DanglingStep ==
  ASSUME IInv, NEW o \in Ops, Acts(o)
  PROVE  NoDanglingRow'
<1>0. TypeOK /\ WritesOK(o) /\ NoDanglingRow
  BY DEF IInv
<1>1. CASE UNCHANGED dbVars
  BY <1>0, <1>1 DEF dbVars, NoDanglingRow
<1>2. CASE Commit(o)
  <2>1. ASSUME NEW l \in links' PROVE l.entity \in entities' /\ l.event \in events'
    <3>1. l \in links \cup NewLinksOf(o) /\ l.entity \notin Deleted(o)
      BY <1>2 DEF Commit
    <3>2. CASE l \in links
      BY <1>0, <1>2, <3>1, <3>2 DEF NoDanglingRow, Commit
    <3>3. CASE l \in NewLinksOf(o)
      <4>1. PICK w \in tx[o] : w.do = "link" /\ w.link = l
        BY <3>3 DEF NewLinksOf
      <4>2. Written(o, w) /\ w \in Writes
        BY <1>0 DEF WritesOK, TypeOK
      <4>3. l.entity \in Entities
        BY <4>1, <4>2, WriteFacts DEF Links
      <4>4. l.entity \in entities
        BY <4>1, <4>2, <4>3 DEF Written, Locked
      <4>5. l.event \in events \/ (l.event = o /\ [do |-> "event"] \in tx[o])
        BY <4>1, <4>2 DEF Written
      <4> QED
        BY <1>2, <3>1, <4>4, <4>5 DEF Commit
    <3> QED
      BY <3>1, <3>2, <3>3
  <2>2. ASSUME NEW x \in relations' PROVE {x.from, x.to} \subseteq entities' /\ x.from # x.to
    <3>1. x \in relations \cup NewRelations(o) /\ Deleted(o) \cap {x.from, x.to} = {}
      BY <1>2 DEF Commit
    <3>2. CASE x \in relations
      BY <1>0, <1>2, <3>1, <3>2 DEF NoDanglingRow, Commit
    <3>3. CASE x \in NewRelations(o)
      <4>1. PICK w \in tx[o] : w.do = "relate" /\ w.relation = x
        BY <3>3 DEF NewRelations
      <4>2. Written(o, w) /\ w \in Writes
        BY <1>0 DEF WritesOK, TypeOK
      <4>3. x.from \in Entities /\ x.to \in Entities
        BY <4>1, <4>2, WriteFacts DEF Relations
      <4>4. {x.from, x.to} \subseteq entities /\ x.from # x.to
        BY <4>1, <4>2, <4>3 DEF Written, Locked
      <4> QED
        BY <1>2, <3>1, <4>4 DEF Commit
    <3> QED
      BY <3>1, <3>2, <3>3
  <2> QED
    BY <2>1, <2>2 DEF NoDanglingRow
<1> QED
  BY <1>1, <1>2, RowsChange

LEMMA StartLinksStep ==
  ASSUME IInv, NEW o \in Ops, Acts(o)
  PROVE  StartLinksThere'
<1>0. TypeOK /\ WritesOK(o) /\ StartLinksThere
  BY DEF IInv
<1>1. CASE UNCHANGED dbVars
  BY <1>0, <1>1 DEF dbVars, StartLinksThere
<1>2. CASE Commit(o)
  <2>1. ASSUME NEW l \in start.links PROVE l.entity \notin Deleted(o)
    BY <1>0 DEF Deleted, WritesOK, Written, Unlinked
  <2> QED
    BY <1>0, <1>2, <2>1 DEF Commit, StartLinksThere
<1> QED
  BY <1>1, <1>2, RowsChange

\* Operations that are done stay so, and one commit makes one more.
LEMMA DoneStep ==
  ASSUME IInv, NEW o \in Ops, Acts(o)
  PROVE  /\ \A p \in Ops : pc[p] = "done" => /\ pc'[p] = "done" /\ req'[p] = req[p]
                                           /\ kept'[p] = kept[p] /\ gone'[p] = gone[p]
         /\ \A p \in Ops : pc'[p] = "done" => pc[p] = "done" \/ (p = o /\ Commit(o))
<1>0. TypeOK
  BY DEF IInv
<1>1. pc[o] # "done"
  <2>1. BreakCircle(o) => pc[o] \in {"aliases", "delete", "link", "relate"}
    BY DEF BreakCircle, WaitsFor, Blocks
  <2> QED
    BY <2>1 DEF Acts, Begin, Step, LoadKeep, LoadGone, UpdateAliases, LookForLinks, DeleteEntity, InsertEvent,
                InsertLink, InsertRelation, Commit, Interrupt
<1>2. pc'[o] = "done" => Commit(o)
  BY <1>0, RequestFacts DEF Acts, Begin, FirstStep, Step, LoadKeep, LoadGone, UpdateAliases, LookForLinks, DeleteEntity,
         InsertEvent, InsertLink, InsertRelation, BreakCircle, Interrupt, Fail, Goto, TypeOK
<1> QED
  BY <1>0, <1>1, <1>2, Frame

LEMMA MissingStep ==
  ASSUME IInv, NEW o \in Ops, Acts(o)
  PROVE  MissingIsMerged'
<1>0. TypeOK /\ AsAsked(o) /\ WritesOK(o) /\ DeletionOK(o) /\ MissingIsMerged
  BY DEF IInv
<1>1. SUFFICES ASSUME NEW e \in Entities
               PROVE  e \notin entities' <=>
                        \E p \in Ops : pc'[p] = "done" /\ req'[p].kind \in {"merge", "delete"} /\ req'[p].gone = e
  BY DEF MissingIsMerged, Finished
<1>2. e \notin entities <=>
        \E p \in Ops : pc[p] = "done" /\ req[p].kind \in {"merge", "delete"} /\ req[p].gone = e
  BY <1>0 DEF MissingIsMerged, Finished
<1>3. CASE UNCHANGED dbVars /\ ~ Commit(o)
  BY <1>2, <1>3, DoneStep DEF dbVars
<1>4. CASE Commit(o)
  <2>1. req' = req /\ pc'[o] = "done" /\ pc[o] = "commit" /\ entities' = entities \ Deleted(o)
    BY <1>0, <1>4 DEF Commit, Goto, TypeOK
  <2>2. e \in Deleted(o) => req[o].kind \in {"merge", "delete"} /\ req[o].gone = e
    BY <1>0 DEF Deleted, WritesOK, Written
  <2>3. req[o].kind \in {"merge", "delete"} /\ req[o].gone = e => e \notin entities \/ e \in Deleted(o)
    BY <1>0, <2>1 DEF DeletionOK, Deleted
  <2>4. \A p \in Ops : pc'[p] = "done" <=> pc[p] = "done" \/ p = o
    BY <1>4, <2>1, DoneStep
  <2> QED
    BY <1>2, <2>1, <2>2, <2>3, <2>4
<1> QED
  BY <1>3, <1>4, RowsChange

LEMMA AliasesStep ==
  ASSUME IInv, NEW o \in Ops, Acts(o)
  PROVE  AliasesAreGiven'
<1>0. TypeOK /\ WritesOK(o) /\ AliasesAreGiven
  BY DEF IInv
<1>1. start' = start /\ entities' \subseteq entities
  BY <1>0, Frame, RowsChange
<1>2. ASSUME NEW p \in Finished({"update", "merge"})
      PROVE  p \in Finished({"update", "merge"})' /\ req'[p] = req[p] /\ NewAliases(p)' = NewAliases(p)
  BY <1>2, DoneStep DEF Finished, NewAliases
<1>3. SUFFICES ASSUME NEW e \in entities', NEW a \in aliases'[e]
               PROVE  \/ a \in start.aliases[e]
                      \/ \E p \in Finished({"update", "merge"})' : req'[p].keep = e /\ a \in NewAliases(p)'
  BY <1>1 DEF AliasesAreGiven
<1>4. e \in entities /\ e \in Entities
  BY <1>0, <1>1 DEF TypeOK
<1>5. CASE a \in aliases[e]
  <2>1. \/ a \in start.aliases[e]
        \/ \E p \in Finished({"update", "merge"}) : req[p].keep = e /\ a \in NewAliases(p)
    BY <1>0, <1>4, <1>5 DEF AliasesAreGiven
  <2> QED
    BY <1>2, <2>1
<1>6. CASE a \notin aliases[e]
  <2>1. Commit(o)
    BY <1>6, RowsChange DEF dbVars
  <2>2. e \in Updated(o) /\ a \in NewAliases(o)
    BY <1>4, <1>6, <2>1 DEF Commit
  <2>3. req[o].kind \in {"merge", "update"} /\ req[o].keep = e
    BY <1>0, <2>2 DEF Updated, WritesOK, Written
  <2>4. UNCHANGED <<req, kept, gone>> /\ pc'[o] = "done"
    BY <1>0, <2>1 DEF Commit, Goto, TypeOK
  <2>5. o \in Finished({"update", "merge"})'
    BY <2>3, <2>4 DEF Finished
  <2>6. NewAliases(o)' = NewAliases(o)
    BY <2>4 DEF NewAliases
  <2> QED
    BY <2>2, <2>3, <2>4, <2>5, <2>6
<1> QED
  BY <1>5, <1>6

\* What has been committed stays so.
LEMMA KnownStays ==
  ASSUME IInv, NEW o \in Ops, Acts(o), NEW a, Known(a)
  PROVE  Known(a)'
<1>1. start' = start
  BY Frame DEF IInv
<1>2. \A p \in Finished({"update"}) : p \in Finished({"update"})' /\ req'[p] = req[p]
  BY DoneStep DEF Finished
<1> QED
  BY <1>1, <1>2 DEF Known

\* What is loaded is committed, for only committed rows are read.
LEMMA LoadedStep ==
  ASSUME IInv, NEW o \in Ops, Acts(o), NEW p \in Ops
  PROVE  LoadedOK(p)'
<1>0. TypeOK /\ AliasesAreKnown /\ LoadedOK(p)
  BY DEF IInv
<1>1. CASE kept'[p] = kept[p] /\ gone'[p] = gone[p]
  BY <1>0, <1>1, KnownStays DEF LoadedOK
<1>2. CASE p = o /\ LoadKeep(o)
  <2>1. kept'[p] = Read(req[o].keep) /\ gone'[p] = gone[p]
    BY <1>0, <1>2 DEF LoadKeep, TypeOK
  <2>2. kept'[p] # None => \A a \in kept'[p] : Known(a)
    BY <1>0, <2>1 DEF Read, AliasesAreKnown
  <2> QED
    BY <1>0, <2>1, <2>2, KnownStays DEF LoadedOK
<1>3. CASE p = o /\ LoadGone(o)
  <2>1. gone'[p] = ReadGone(o) /\ kept'[p] = kept[p]
    BY <1>0, <1>3 DEF LoadGone, TypeOK
  <2>2. gone'[p] # None => \A a \in gone'[p] : Known(a)
    BY <1>0, <1>3, <2>1 DEF ReadGone, Read, AliasesAreKnown, LoadedOK
  <2> QED
    BY <1>0, <2>1, <2>2, KnownStays DEF LoadedOK
<1>4. UNCHANGED <<kept, gone>> \/ LoadKeep(o) \/ LoadGone(o)
  BY DEF Acts, Begin, Step, UpdateAliases, LookForLinks, DeleteEntity, InsertEvent,
         InsertLink, InsertRelation, Commit, BreakCircle, Interrupt
<1> QED
  BY <1>0, <1>1, <1>2, <1>3, <1>4, Frame

LEMMA KnownStep ==
  ASSUME IInv, NEW o \in Ops, Acts(o)
  PROVE  AliasesAreKnown'
<1>0. TypeOK /\ AsAsked(o) /\ WritesOK(o) /\ AliasesAreKnown /\ LoadedOK(o)
  BY DEF IInv
<1>1. SUFFICES ASSUME NEW e \in entities', NEW a \in aliases'[e] PROVE Known(a)'
  BY DEF AliasesAreKnown
<1>2. e \in entities /\ e \in Entities
  BY <1>0, RowsChange DEF TypeOK
<1>3. CASE a \in aliases[e]
  BY <1>0, <1>2, <1>3, KnownStays DEF AliasesAreKnown
<1>4. CASE a \notin aliases[e]
  <2>1. Commit(o)
    BY <1>4, RowsChange DEF dbVars
  <2>2. e \in Updated(o) /\ a \in NewAliases(o)
    BY <1>2, <1>4, <2>1 DEF Commit
  <2>3. req[o].kind \in {"merge", "update"}
    BY <1>0, <2>2 DEF Updated, WritesOK, Written
  <2>4. CASE req[o].kind = "merge"
    <3>1. kept[o] # None /\ gone[o] # None /\ a \in kept[o] \cup gone[o]
      BY <1>0, <2>1, <2>2, <2>4 DEF AsAsked, Commit, NewAliases
    <3> QED
      BY <1>0, <3>1, KnownStays DEF LoadedOK
  <2>5. CASE req[o].kind = "update"
    <3>1. a \in req[o].value
      BY <2>2, <2>5 DEF NewAliases
    <3>2. req' = req /\ pc'[o] = "done"
      BY <1>0, <2>1 DEF Commit, Goto, TypeOK
    <3>3. o \in Finished({"update"})'
      BY <2>5, <3>2 DEF Finished
    <3> QED
      BY <3>1, <3>2, <3>3 DEF Known
  <2> QED
    BY <2>3, <2>4, <2>5
<1> QED
  BY <1>3, <1>4

LEMMA EventLinksStep ==
  ASSUME IInv, NEW o \in Ops, Acts(o)
  PROVE  EventKeepsItsLinks'
<1>0. TypeOK /\ AsAsked(o) /\ EventOK(o) /\ EventKeepsItsLinks
  BY DEF IInv
<1>1. SUFFICES ASSUME NEW p \in Ops, pc'[p] = "done", req'[p].kind = "event"
               PROVE  /\ p \in events'
                      /\ \A i \in DOMAIN req'[p].ents :
                            req'[p].ents[i] \in entities' => [event |-> p, entity |-> req'[p].ents[i]] \in links'
  BY DEF EventKeepsItsLinks, Finished
<1>2. CASE pc[p] = "done"
  <2>1. req'[p] = req[p] /\ entities' \subseteq entities /\ events \subseteq events'
    BY <1>2, DoneStep, RowsChange
  <2>2. p \in Finished({"event"})
    BY <1>1, <1>2, <2>1 DEF Finished
  <2>3. p \in events /\ \A i \in DOMAIN req[p].ents :
                           req[p].ents[i] \in entities => [event |-> p, entity |-> req[p].ents[i]] \in links
    BY <1>0, <2>2 DEF EventKeepsItsLinks
  <2>4. ASSUME NEW l \in links, l.entity \in entities' PROVE l \in links'
    BY <2>4, RowsChange DEF Commit, dbVars
  <2> QED
    BY <2>1, <2>3, <2>4
<1>3. CASE pc[p] # "done"
  <2>1. p = o /\ Commit(o)
    BY <1>1, <1>3, DoneStep
  <2>2. req' = req /\ pc[o] = "commit" /\ req[o] # None
    BY <1>0, <2>1, Asked DEF Commit
  <2>3. [do |-> "event"] \in tx[o] /\ \A i \in DOMAIN req[o].ents : LinkNumber(o, i) \in tx[o]
    BY <1>0, <1>1, <2>1, <2>2 DEF EventOK
  <2>4. ASSUME NEW i \in DOMAIN req[o].ents
        PROVE  [event |-> o, entity |-> req[o].ents[i]] \in NewLinksOf(o)
    <3>1. LinkNumber(o, i) \in tx[o]
      BY <2>3
    <3> QED
      BY <3>1 DEF LinkNumber, NewLinksOf
  <2> QED
    BY <2>1, <2>2, <2>3, <2>4 DEF Commit
<1> QED
  BY <1>2, <1>3

-----------------------------------------------------------------------------
(* The theorems. *)

LEMMA InitIInv == Init => IInv
<1> SUFFICES ASSUME Init PROVE IInv
  OBVIOUS
<1>1. /\ \A o \in Ops : pc[o] = "idle" /\ req[o] = None /\ at[o] = 1 /\ tx[o] = {}
      /\ entities = Entities /\ events = OldEvents /\ links = start.links /\ relations = start.relations
      /\ aliases = start.aliases /\ start \in Starts
  BY DEF Init
<1>2. /\ start.aliases \in [Entities -> SUBSET Aliases]
      /\ start.links \subseteq [event : OldEvents, entity : Entities]
      /\ start.relations \subseteq [by : {None}, from : Entities, to : Entities]
      /\ \A x \in start.relations : x.from # x.to
  BY <1>1, WorkloadAssumption
<1>3. TypeOK
  BY <1>1, <1>2 DEF Init, TypeOK, Steps, Links, Relations, Events
<1>4. ASSUME NEW o \in Ops PROVE AsAsked(o) /\ AtOK(o) /\ WritesOK(o) /\ DeletionOK(o) /\ EventOK(o)
  BY <1>1 DEF AsAsked, AtOK, WritesOK, DeletionOK, EventOK
<1>5. Exclusive
  BY <1>1 DEF Exclusive
<1>6. NoDanglingRow /\ StartLinksThere
  BY <1>1, <1>2 DEF NoDanglingRow, StartLinksThere
<1>7. MissingIsMerged /\ AliasesAreGiven /\ EventKeepsItsLinks
  BY <1>1 DEF MissingIsMerged, AliasesAreGiven, EventKeepsItsLinks, Finished
<1>8. AliasesAreKnown /\ \A o \in Ops : LoadedOK(o)
  <2>1. entities = Entities /\ aliases = start.aliases /\ \A o \in Ops : kept[o] = None /\ gone[o] = None
    BY <1>1 DEF Init
  <2> QED
    BY <2>1 DEF AliasesAreKnown, LoadedOK, Known
<1> QED
  BY <1>3, <1>4, <1>5, <1>6, <1>7, <1>8 DEF IInv

LEMMA StepIInv == IInv /\ [Next]_vars => IInv'
<1> SUFFICES ASSUME IInv, [Next]_vars PROVE IInv'
  OBVIOUS
<1>1. TypeOK'
  BY TypeStep
<1>2. ASSUME NEW o \in Ops, Acts(o) PROVE IInv'
  <2>1. TypeOK /\ AsAsked(o) /\ AtOK(o) /\ WritesOK(o) /\ DeletionOK(o) /\ Exclusive
    BY DEF IInv
  <2>2. Drops(o) \/ \E rows \in SUBSET Writes : Adds(o, rows)
    BY <1>2, <2>1, TxStep
  <2>3. Exclusive'
    BY <2>1, <2>2, ExclusiveStep
  <2>4. ASSUME NEW p \in Ops PROVE (AsAsked(p) /\ AtOK(p) /\ WritesOK(p) /\ DeletionOK(p) /\ EventOK(p))'
    <3>1. CASE p = o
      BY <1>2, <3>1, AsAskedStep, AtStep, WritesStep, DeletionStep, EventStep
    <3>2. CASE p # o
      BY <1>2, <3>2, OthersStep, WritesStep
    <3> QED
      BY <3>1, <3>2
  <2>5. AliasesAreKnown' /\ \A p \in Ops : LoadedOK(p)'
    BY <1>2, KnownStep, LoadedStep
  <2> QED
    BY <1>1, <1>2, <2>3, <2>4, <2>5, DanglingStep, StartLinksStep, MissingStep, AliasesStep, EventLinksStep DEF IInv
<1>3. CASE UNCHANGED vars
  <2>1. UNCHANGED <<entities, aliases, events, links, relations, start, pc, req, kept, gone, at, tx>>
    BY <1>3 DEF vars, dbVars
  <2>2. ASSUME NEW o \in Ops PROVE (AsAsked(o) /\ AtOK(o) /\ WritesOK(o))'
    <3>1. AsAsked(o) /\ AtOK(o) /\ WritesOK(o)
      BY DEF IInv
    <3> QED
      BY <2>1, <3>1 DEF AsAsked, AtOK, WritesOK, Written, Unlinked
  <2>3. ASSUME NEW o \in Ops PROVE (DeletionOK(o) /\ EventOK(o))'
    <3>1. DeletionOK(o) /\ EventOK(o)
      BY DEF IInv
    <3> QED
      BY <2>1, <3>1 DEF DeletionOK, EventOK, LinkNumber, Unlinked
  <2>4. Exclusive' /\ NoDanglingRow' /\ StartLinksThere'
    BY <2>1 DEF IInv, Exclusive, NoDanglingRow, StartLinksThere
  <2>5. MissingIsMerged' /\ EventKeepsItsLinks'
    BY <2>1 DEF IInv, MissingIsMerged, EventKeepsItsLinks, Finished
  <2>6. AliasesAreGiven'
    <3>1. \A o \in Ops : NewAliases(o)' = NewAliases(o)
      BY <2>1 DEF NewAliases
    <3> QED
      BY <2>1, <3>1 DEF IInv, AliasesAreGiven, Finished
  <2>7. \A a : Known(a)' <=> Known(a)
    BY <2>1 DEF Known, Finished
  <2>8. AliasesAreKnown' /\ \A o \in Ops : LoadedOK(o)'
    BY <2>1, <2>7 DEF IInv, AliasesAreKnown, LoadedOK
  <2> QED
    BY <1>1, <2>2, <2>3, <2>4, <2>5, <2>6, <2>8 DEF IInv
<1> QED
  BY <1>2, <1>3 DEF Next, Acts

LEMMA Inductive == Spec => []IInv
BY InitIInv, StepIInv, PTL DEF Spec

\* The variables keep their types (services.py EntityService and EventService).
THEOREM TypeCorrect == Spec => []TypeOK
<1>1. IInv => TypeOK
  BY DEF IInv
<1> QED
  BY <1>1, Inductive, PTL

\* No link and no relation refers to an entity that is gone or an event that never
\* was, whatever is merged, deleted, linked and interrupted at the same time.
THEOREM RowsNeverDangle == Spec => []NoDanglingRow
<1>1. IInv => NoDanglingRow
  BY DEF IInv
<1> QED
  BY <1>1, Inductive, PTL

\* merge_entities is all or nothing: the merged entity is missing if and only if a
\* merge or deletion of it was committed.
THEOREM MergeIsAtomic == Spec => []MissingIsMerged
<1>1. IInv => MissingIsMerged
  BY DEF IInv
<1> QED
  BY <1>1, Inductive, PTL

\* An entity has no alias of a merge or an update that failed (merge_entities writes
\* the aliases before it knows whether the other entity can be deleted), nor does one
\* come by a detour, through the merges that load what an update has not committed.
THEOREM AliasesAreExplained == Spec => []AliasesHaveASource
<1>1. IInv => AliasesHaveASource
  BY DEF IInv, AliasesHaveASource
<1> QED
  BY <1>1, Inductive, PTL

\* create_event links the event to each of its entities that is not deleted.
THEOREM EventsKeepTheirLinks == Spec => []EventKeepsItsLinks
<1>1. IInv => EventKeepsItsLinks
  BY DEF IInv
<1> QED
  BY <1>1, Inductive, PTL

=============================================================================
