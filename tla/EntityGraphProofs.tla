-------------------------- MODULE EntityGraphProofs --------------------------
(***************************************************************************)
(* EntityMerge implements EntityGraph: an operation takes effect at its    *)
(* commit, as a whole.  To the invariant of EntityMergeProofs this adds    *)
(* that a transaction holds the rows of its own request and no others, all *)
(* of them when it commits, and that no link is inserted twice.            *)
(***************************************************************************)
EXTENDS EntityMergeProofs

EventOf(o)      == IF req[o].kind = "event" THEN o ELSE req[o].event
MembersOf(o)    == {req[o].ents[i] : i \in DOMAIN req[o].ents}
LinkTo(o, e)    == [do |-> "link", link |-> [event |-> EventOf(o), entity |-> e]]
RelationOf(o)   == [by |-> o, from |-> req[o].from, to |-> req[o].to]
OwnRelation(o)  == [do |-> "relate", relation |-> RelationOf(o)]

\* A link or a relation that is written is the one that was asked for, and new.
OwnRow(o, w) ==
  /\ w.do = "link" => /\ req[o].kind \in {"event", "link"}
                      /\ \E e \in MembersOf(o) : w = LinkTo(o, e)
                      /\ w.link \notin links
  /\ w.do = "relate" => req[o].kind = "relate" /\ w = OwnRelation(o)

OwnRows(o) == \A w \in tx[o] : OwnRow(o, w)

\* What was asked for is there to commit.
Complete(o) ==
  /\ pc[o] = "idle" => req[o] = None
  /\ pc[o] = "commit" /\ req[o].kind = "link" => \A e \in MembersOf(o) : LinkTo(o, e) \in tx[o]
  /\ pc[o] = "commit" /\ req[o].kind = "relate" => OwnRelation(o) \in tx[o]

\* No two transactions have inserted the same link.
LinksApart ==
  \A o, p \in Ops : o # p =>
     \A w \in tx[o], v \in tx[p] : w.do = "link" /\ v.do = "link" => w.link # v.link

GraphInv == (\A o \in Ops : OwnRows(o) /\ Complete(o)) /\ LinksApart

-----------------------------------------------------------------------------
(* The rows of a transaction. *)

\* Which rows a step adds to its transaction.
LEMMA RowsAdded ==
  ASSUME IInv, NEW o \in Ops, Acts(o), NEW w \in tx'[o], w \notin tx[o]
  PROVE  /\ UNCHANGED <<dbVars, req>>
         /\ \/ w.do \in {"update", "delete", "event"}
            \/ /\ pc[o] = "link" /\ w = [do |-> "link", link |-> NextLink(o)]
               /\ NextLink(o) \notin links /\ WaitsFor(o) = {}
            \/ pc[o] = "relate" /\ w = OwnRelation(o)
<1>0. tx \in [Ops -> SUBSET Writes]
  BY DEF IInv, TypeOK
<1>1. ~ Fail(o) /\ ~ Commit(o) /\ ~ UNCHANGED tx
  BY <1>0 DEF Fail, Commit
<1>2. ASSUME NEW rows, Write(o, rows) PROVE w \in rows
  BY <1>0, <1>2 DEF Write
<1>3. CASE UpdateAliases(o)
  BY <1>1, <1>2, <1>3 DEF UpdateAliases
<1>4. CASE DeleteEntity(o)
  BY <1>2, <1>4 DEF DeleteEntity
<1>5. CASE InsertEvent(o)
  BY <1>2, <1>5 DEF InsertEvent
<1>6. CASE InsertLink(o)
  BY <1>1, <1>2, <1>6 DEF InsertLink
<1>7. CASE InsertRelation(o)
  BY <1>1, <1>2, <1>7 DEF InsertRelation, OwnRelation, RelationOf
<1> QED
  BY <1>1, <1>3, <1>4, <1>5, <1>6, <1>7
  DEF Acts, Begin, Step, LoadKeep, LoadGone, LookForLinks, BreakCircle, Interrupt

\* A row that is still held was not committed, and its operation has begun.
LEMMA RowsHeld ==
  ASSUME IInv, NEW o \in Ops, Acts(o), NEW w \in tx[o], w \in tx'[o]
  PROVE  UNCHANGED <<dbVars, req>>
<1>1. tx[o] # {} /\ tx'[o] # {}
  OBVIOUS
<1>2. ~ Commit(o)
  BY <1>1 DEF Commit, IInv, TypeOK
<1>3. pc[o] # "idle"
  BY <1>1 DEF IInv, AsAsked
<1> QED
  BY <1>2, <1>3, RowsChange, BeginsOnce

LEMMA OwnRowsStep ==
  ASSUME IInv, GraphInv, NEW o \in Ops, Acts(o), NEW p \in Ops
  PROVE  OwnRows(p)'
<1>1. SUFFICES ASSUME NEW w \in tx'[p] PROVE OwnRow(p, w)'
  BY DEF OwnRows
<1>2. CASE p = o /\ w \in tx[p]
  <2>1. UNCHANGED <<links, req>>
    BY <1>2, RowsHeld DEF dbVars
  <2>2. OwnRow(p, w)
    BY <1>2 DEF GraphInv, OwnRows
  <2> QED
    BY <2>1, <2>2 DEF OwnRow, MembersOf, LinkTo, EventOf, OwnRelation, RelationOf
<1>3. CASE p = o /\ w \notin tx[p]
  <2>1. UNCHANGED <<links, req>>
    BY <1>3, RowsAdded DEF dbVars
  <2>2. AsAsked(o) /\ AtOK(o) /\ TypeOK
    BY DEF IInv
  <2>3. CASE w.do \in {"update", "delete", "event"}
    BY <2>3 DEF OwnRow
  <2>4. CASE pc[o] = "link" /\ w = [do |-> "link", link |-> NextLink(o)] /\ NextLink(o) \notin links
    <3>1. req[o].kind \in {"event", "link"} /\ at[o] \in DOMAIN req[o].ents
      BY <2>2, <2>4, NextLinkType
    <3>2. w = LinkTo(o, req[o].ents[at[o]]) /\ req[o].ents[at[o]] \in MembersOf(o)
      BY <2>4, <3>1 DEF LinkTo, EventOf, NextLink, MembersOf
    <3>3. OwnRow(o, w)
      BY <2>4, <3>1, <3>2 DEF OwnRow
    <3> QED
      BY <1>3, <2>1, <3>3 DEF OwnRow, MembersOf, LinkTo, EventOf, OwnRelation, RelationOf
  <2>5. CASE pc[o] = "relate" /\ w = OwnRelation(o)
    <3>1. req[o].kind = "relate"
      BY <2>2, <2>5 DEF AsAsked, StepsOf
    <3> QED
      BY <1>3, <2>1, <2>5, <3>1 DEF OwnRow, OwnRelation, RelationOf
  <2> QED
    BY <1>3, <2>3, <2>4, <2>5, RowsAdded
<1>4. CASE p # o
  <2>1. w \in tx[p] /\ req'[p] = req[p]
    BY <1>4, Frame DEF IInv
  <2>2. OwnRow(p, w)
    BY <2>1 DEF GraphInv, OwnRows
  <2>3. ASSUME w.do = "link", w.link \in links' PROVE FALSE
    <3>1. w.link \notin links
      BY <2>2, <2>3 DEF OwnRow
    <3>2. w.link \in NewLinksOf(o)
      BY <2>3, <3>1, RowsChange DEF Commit, dbVars
    <3>3. PICK v \in tx[o] : v.do = "link" /\ v.link = w.link
      BY <3>2 DEF NewLinksOf
    <3> QED
      BY <1>4, <2>1, <2>3, <3>3 DEF GraphInv, LinksApart
  <2> QED
    BY <2>1, <2>2, <2>3 DEF OwnRow, MembersOf, LinkTo, EventOf, OwnRelation, RelationOf
<1> QED
  BY <1>2, <1>3, <1>4

LEMMA ApartStep ==
  ASSUME IInv, GraphInv, NEW o \in Ops, Acts(o)
  PROVE  LinksApart'
<1>1. ASSUME NEW p \in Ops \ {o}, NEW w \in tx'[o], NEW v \in tx[p], w.do = "link", v.do = "link"
      PROVE  w.link # v.link
  <2>1. CASE w \in tx[o]
    BY <1>1, <2>1 DEF GraphInv, LinksApart
  <2>2. CASE w \notin tx[o]
    <3>1. pc[o] = "link" /\ w = [do |-> "link", link |-> NextLink(o)] /\ WaitsFor(o) = {}
      BY <1>1, <2>2, RowsAdded DEF OwnRelation
    <3>2. NextLink(o) \notin NewLinksOf(p)
      BY <3>1 DEF WaitsFor, Blocks
    <3>3. v.link \in NewLinksOf(p)
      BY <1>1 DEF NewLinksOf
    <3> QED
      BY <3>1, <3>2, <3>3
  <2> QED
    BY <2>1, <2>2
<1>2. \A p \in Ops \ {o} : tx'[p] = tx[p]
  BY Frame DEF IInv
<1>3. SUFFICES ASSUME NEW p \in Ops, NEW q \in Ops, p # q, NEW w \in tx'[p], NEW v \in tx'[q],
                      w.do = "link", v.do = "link"
               PROVE  w.link # v.link
  BY DEF LinksApart
<1>4. CASE p = o
  BY <1>1, <1>2, <1>3, <1>4
<1>5. CASE q = o
  BY <1>1, <1>2, <1>3, <1>5
<1>6. CASE p # o /\ q # o
  BY <1>2, <1>3, <1>6 DEF GraphInv, LinksApart
<1> QED
  BY <1>4, <1>5, <1>6

\* The last row of a link or a relation is written with the step to the commit.
LEMMA CompleteStep ==
  ASSUME IInv, GraphInv, NEW o \in Ops, Acts(o), NEW p \in Ops
  PROVE  Complete(p)'
<1>0. /\ pc \in [Ops -> Steps] /\ tx \in [Ops -> SUBSET Writes] /\ req \in [Ops -> Workload \cup {None}]
      /\ AsAsked(p) /\ AtOK(p) /\ Complete(p)
  BY DEF IInv, TypeOK, GraphInv
<1>1. CASE p # o
  <2>1. pc'[p] = pc[p] /\ req'[p] = req[p] /\ tx'[p] = tx[p]
    BY <1>1, Frame DEF IInv
  <2> QED
    BY <1>0, <2>1 DEF Complete, MembersOf, LinkTo, EventOf, OwnRelation, RelationOf
<1>2. CASE p = o /\ Begin(o)
  <2>1. PICK r \in Workload : req' = [req EXCEPT ![o] = r] /\ Goto(o, FirstStep(r))
    BY <1>2 DEF Begin
  <2>2. pc'[o] = FirstStep(r) /\ r.kind \in {"merge", "delete", "update", "event", "link", "relate"}
    BY <1>0, <2>1, RequestFacts DEF Goto
  <2>3. pc'[o] \notin {"idle", "commit"}
    BY <2>2 DEF FirstStep
  <2> QED
    BY <1>2, <2>3 DEF Complete
<1>3. CASE p = o /\ ~ Begin(o)
  <2>1. pc[o] # "idle" /\ req' = req /\ req[o] \in Workload /\ pc[o] \in StepsOf(req[o].kind)
    BY <1>0, <1>3, BeginsOnce DEF AsAsked
  <2>2. CASE InsertLink(o)
    <3>1. CASE Fail(o)
      BY <1>0, <1>3, <3>1 DEF Fail, Goto, Complete
    <3>2. CASE ~ Fail(o)
      <4>1. pc[o] = "link" /\ Write(o, {[do |-> "link", link |-> NextLink(o)]})
            /\ pc'[o] \in {"link", "commit"}
        BY <1>0, <2>2, <3>2 DEF InsertLink, Goto
      <4>2. req[o].kind = "link" => \A e \in MembersOf(o) : e = NextLink(o).entity
        <5>1. req[o].kind = "link" => req[o].ents \in Seq(Entities) /\ Len(req[o].ents) = 1
          BY <2>1, RequestFacts
        <5>2. at[o] \in DOMAIN req[o].ents
          BY <1>0, <1>3, <4>1 DEF AtOK
        <5> QED
          BY <5>1, <5>2 DEF MembersOf, NextLink
      <4>3. [do |-> "link", link |-> NextLink(o)] \in tx'[o]
        BY <1>0, <4>1 DEF Write
      <4>4. req[o].kind \in {"event", "link"}
        BY <2>1, <4>1 DEF StepsOf
      <4>5. req[o].kind = "link" => \A e \in MembersOf(o) : LinkTo(o, e) \in tx'[o]
        BY <4>2, <4>3 DEF LinkTo, EventOf, NextLink
      <4> QED
        BY <1>3, <2>1, <4>1, <4>4, <4>5 DEF Complete, MembersOf, LinkTo, EventOf
    <3> QED
      BY <3>1, <3>2
  <2>3. CASE InsertRelation(o)
    <3>1. CASE Fail(o)
      BY <1>0, <1>3, <3>1 DEF Fail, Goto, Complete
    <3>2. CASE ~ Fail(o)
      <4>1. pc[o] = "relate" /\ Write(o, {OwnRelation(o)}) /\ pc'[o] = "commit"
        BY <1>0, <2>3, <3>2 DEF InsertRelation, Goto, OwnRelation, RelationOf
      <4>2. OwnRelation(o) \in tx'[o] /\ req[o].kind = "relate"
        BY <1>0, <2>1, <4>1 DEF Write, StepsOf
      <4> QED
        BY <1>3, <2>1, <4>1, <4>2 DEF Complete, OwnRelation, RelationOf
    <3> QED
      BY <3>1, <3>2
  <2>4. CASE ~ InsertLink(o) /\ ~ InsertRelation(o)
    <3>1. \/ pc'[o] \notin {"idle", "commit"}
          \/ pc[o] \in {"keep", "aliases", "delete", "event"}
      BY <1>0, <1>3, <2>1, <2>4 DEF Acts, Step, LoadKeep, LoadGone, UpdateAliases, LookForLinks, DeleteEntity,
             InsertEvent, Commit, BreakCircle, Interrupt, Fail, Goto
    <3>2. pc[o] \in {"keep", "aliases", "delete", "event"} => req[o].kind \notin {"link", "relate"}
      BY <2>1 DEF StepsOf
    <3>3. pc'[o] # "idle"
      BY <1>0, <1>3, <2>1, <2>4 DEF Acts, Step, LoadKeep, LoadGone, UpdateAliases, LookForLinks, DeleteEntity,
             InsertEvent, Commit, BreakCircle, Interrupt, Fail, Goto
    <3> QED
      BY <1>3, <2>1, <3>1, <3>2, <3>3 DEF Complete
  <2> QED
    BY <2>2, <2>3, <2>4
<1> QED
  BY <1>1, <1>2, <1>3

LEMMA GraphInvStep == IInv /\ GraphInv /\ [Next]_vars => GraphInv'
<1> SUFFICES ASSUME IInv, GraphInv, [Next]_vars PROVE GraphInv'
  OBVIOUS
<1>1. ASSUME NEW o \in Ops, Acts(o) PROVE GraphInv'
  BY <1>1, OwnRowsStep, CompleteStep, ApartStep DEF GraphInv
<1>2. CASE UNCHANGED vars
  BY <1>2 DEF vars, dbVars, GraphInv, OwnRows, OwnRow, Complete, LinksApart, MembersOf, LinkTo, EventOf,
              OwnRelation, RelationOf
<1> QED
  BY <1>1, <1>2 DEF Next, Acts

-----------------------------------------------------------------------------
(* What a commit makes of the rows, by what was asked. *)

\* Only the entity that an update or a merge keeps is updated.
LEMMA UpdatedIsKept ==
  ASSUME IInv, NEW o \in Ops
  PROVE  /\ Updated(o) \subseteq entities /\ Updated(o) \subseteq {req[o].keep}
         /\ req[o].kind \notin {"merge", "update"} => Updated(o) = {}
<1> SUFFICES ASSUME NEW w \in tx[o], w.do = "update"
             PROVE  w.entity \in entities /\ w.entity = req[o].keep /\ req[o].kind \in {"merge", "update"}
  BY DEF Updated
<1>1. Written(o, w) /\ w \in Writes
  BY DEF IInv, WritesOK, TypeOK
<1>2. w.entity \in Locked(w)
  BY <1>1, WriteFacts DEF Locked
<1> QED
  BY <1>1, <1>2 DEF Written

\* Only the entity that a merge or a deletion removes is deleted.
LEMMA DeletedIsGone ==
  ASSUME IInv, NEW o \in Ops, pc[o] = "commit"
  PROVE  /\ req[o].kind \notin {"merge", "delete"} => Deleted(o) = {}
         /\ req[o].kind \in {"merge", "delete"} =>
               /\ Deleted(o) = {req[o].gone} \cap entities
               /\ req[o].gone \in entities => Unlinked(req[o].gone)
<1>1. ASSUME NEW w \in tx[o], w.do = "delete"
      PROVE  /\ w.entity = req[o].gone /\ Unlinked(w.entity) /\ req[o].kind \in {"merge", "delete"}
             /\ w.entity \in entities
  <2>1. Written(o, w) /\ w \in Writes
    BY DEF IInv, WritesOK, TypeOK
  <2>2. w.entity \in Locked(w)
    BY <1>1, <2>1, WriteFacts DEF Locked
  <2> QED
    BY <1>1, <2>1, <2>2 DEF Written
<1>2. req[o].kind \notin {"merge", "delete"} => Deleted(o) = {}
  BY <1>1 DEF Deleted
<1>3. ASSUME req[o].kind \in {"merge", "delete"}, req[o].gone \in entities
      PROVE  [do |-> "delete", entity |-> req[o].gone] \in tx[o]
  BY <1>3 DEF IInv, DeletionOK
<1> QED
  BY <1>1, <1>2, <1>3 DEF Deleted

\* A transaction holds exactly the links that were asked for.
LEMMA LinksAreAsked ==
  ASSUME IInv, GraphInv, NEW o \in Ops, pc[o] = "commit"
  PROVE  /\ req[o].kind \notin {"event", "link"} => NewLinksOf(o) = {}
         /\ req[o].kind \in {"event", "link"} =>
               /\ NewLinksOf(o) = Graph!LinksTo(EventOf(o), Graph!Members(o))
               /\ NewLinksOf(o) \cap links = {} /\ Graph!Members(o) \subseteq entities
<1>1. ASSUME NEW w \in tx[o], w.do = "link"
      PROVE  /\ req[o].kind \in {"event", "link"} /\ w.link \notin links
             /\ w.link \in Graph!LinksTo(EventOf(o), Graph!Members(o))
  BY <1>1 DEF GraphInv, OwnRows, OwnRow, MembersOf, LinkTo, Graph!LinksTo, Graph!Members
<1>2. ASSUME NEW e \in Graph!Members(o), req[o].kind \in {"event", "link"}
      PROVE  [event |-> EventOf(o), entity |-> e] \in NewLinksOf(o) /\ e \in entities
  <2>1. e \in MembersOf(o) /\ req[o] # None
    BY Asked DEF IInv, Graph!Members, MembersOf
  <2>2. LinkTo(o, e) \in tx[o]
    BY <1>2, <2>1 DEF IInv, EventOK, LinkNumber, GraphInv, Complete, LinkTo, EventOf, MembersOf
  <2>3. Written(o, LinkTo(o, e)) /\ LinkTo(o, e) \in Writes
    BY <2>2 DEF IInv, WritesOK, TypeOK
  <2>4. e \in Locked(LinkTo(o, e))
    BY <2>3, WriteFacts DEF Locked, LinkTo, Links
  <2> QED
    BY <2>2, <2>3, <2>4 DEF Written, NewLinksOf, LinkTo
<1>3. req[o].kind \in {"event", "link"} => NewLinksOf(o) = Graph!LinksTo(EventOf(o), Graph!Members(o))
  BY <1>1, <1>2 DEF NewLinksOf, Graph!LinksTo
<1> QED
  BY <1>1, <1>2, <1>3 DEF NewLinksOf

LEMMA RelationsAreAsked ==
  ASSUME IInv, GraphInv, NEW o \in Ops, pc[o] = "commit"
  PROVE  /\ req[o].kind # "relate" => NewRelations(o) = {}
         /\ req[o].kind = "relate" =>
               /\ NewRelations(o) = {RelationOf(o)}
               /\ {req[o].from, req[o].to} \subseteq entities /\ req[o].from # req[o].to
<1>1. ASSUME NEW w \in tx[o], w.do = "relate"
      PROVE  req[o].kind = "relate" /\ w.relation = RelationOf(o)
  BY <1>1 DEF GraphInv, OwnRows, OwnRow, OwnRelation
<1>2. ASSUME req[o].kind = "relate"
      PROVE  /\ RelationOf(o) \in NewRelations(o)
             /\ {req[o].from, req[o].to} \subseteq entities /\ req[o].from # req[o].to
  <2>1. OwnRelation(o) \in tx[o]
    BY <1>2 DEF GraphInv, Complete
  <2>2. Written(o, OwnRelation(o)) /\ OwnRelation(o) \in Writes
    BY <2>1 DEF IInv, WritesOK, TypeOK
  <2>3. {req[o].from, req[o].to} \subseteq Locked(OwnRelation(o))
    BY <2>2, WriteFacts DEF Locked, OwnRelation, RelationOf, Relations
  <2> QED
    BY <2>1, <2>2, <2>3 DEF Written, NewRelations, OwnRelation, RelationOf
<1> QED
  BY <1>1, <1>2 DEF NewRelations

\* Only create_event adds an event: its own.
LEMMA EventsAreAsked ==
  ASSUME IInv, NEW o \in Ops, Commit(o)
  PROVE  events' = IF req[o].kind = "event" THEN events \cup {o} ELSE events
<1>1. req[o] # None /\ pc[o] = "commit"
  BY Asked DEF IInv, Commit
<1>2. req[o].kind = "event" => [do |-> "event"] \in tx[o]
  BY <1>1 DEF IInv, EventOK
<1>3. [do |-> "event"] \in tx[o] => req[o].kind = "event"
  BY DEF IInv, WritesOK, Written
<1> QED
  BY <1>2, <1>3 DEF Commit

-----------------------------------------------------------------------------
(* EntityMerge implements EntityGraph. *)

LEMMA OutcomeStep ==
  ASSUME TypeOK, NEW o \in Ops, NEW step \in Steps, Goto(o, step)
  PROVE  outcome' = [outcome EXCEPT ![o] = IF step \in {"done", "failed"} THEN step ELSE "open"]
<1>1. pc' = [pc EXCEPT ![o] = step] /\ pc \in [Ops -> Steps]
  BY DEF Goto, TypeOK
<1> QED
  BY <1>1 DEF outcome

LEMMA OutcomeOpen ==
  ASSUME NEW o \in Ops, pc[o] \notin {"done", "failed"}
  PROVE  outcome[o] = "open"
BY DEF outcome

\* A statement that is not the last shows nobody anything.
LEMMA GraphStutters ==
  ASSUME TypeOK, NEW o \in Ops, NEW step \in Steps \ {"done", "failed"}, Goto(o, step),
         pc[o] \notin {"done", "failed"}, UNCHANGED <<dbVars, req>>
  PROVE  UNCHANGED Graph!vars
<1>1. outcome' = [outcome EXCEPT ![o] = "open"]
  BY OutcomeStep
<1>2. outcome' = outcome
  BY <1>1, OutcomeOpen DEF outcome
<1> QED
  BY <1>2 DEF Graph!vars, Graph!graph, dbVars

LEMMA FailIsFail ==
  ASSUME IInv, NEW o \in Ops, Goto(o, "failed"), pc[o] \notin {"idle", "done", "failed"},
         UNCHANGED <<dbVars, req>>
  PROVE  Graph!Fail(o)
<1>1. outcome' = [outcome EXCEPT ![o] = "failed"]
  BY OutcomeStep DEF IInv, Steps
<1>2. req[o] # None
  BY Asked DEF IInv
<1> QED
  BY <1>1, <1>2, OutcomeOpen DEF Graph!Fail, Graph!Close, Graph!graph, dbVars

LEMMA BeginIsAsk ==
  ASSUME IInv, GraphInv, NEW o \in Ops, Begin(o)
  PROVE  Graph!Ask(o)
<1>1. PICK r \in Workload : req' = [req EXCEPT ![o] = r] /\ Goto(o, FirstStep(r))
  BY DEF Begin
<1>2. FirstStep(r) \in Steps \ {"done", "failed"}
  BY RequestFacts DEF FirstStep, Steps
<1>3. outcome' = [outcome EXCEPT ![o] = "open"]
  BY <1>1, <1>2, OutcomeStep DEF IInv
<1>4. outcome' = outcome
  BY <1>3, OutcomeOpen DEF outcome, Begin
<1>5. req[o] = None
  BY DEF Begin, GraphInv, Complete
<1> QED
  BY <1>1, <1>4, <1>5 DEF Graph!Ask, Graph!graph, dbVars, Begin

\* What the commit does to the aliases.
LEMMA CommitAssigns ==
  ASSUME IInv, NEW o \in Ops, Commit(o)
  PROVE  \/ aliases' = aliases
         \/ /\ req[o].kind \in {"merge", "update"} /\ NewAliases(o) \subseteq Aliases
            /\ Graph!Assign(o, NewAliases(o))
<1>1. aliases \in [Entities -> SUBSET Aliases]
  BY DEF IInv, TypeOK
<1>2. CASE Updated(o) = {}
  BY <1>1, <1>2 DEF Commit
<1>3. CASE Updated(o) # {}
  <2>1. Updated(o) = {req[o].keep} /\ req[o].keep \in entities /\ req[o].kind \in {"merge", "update"}
    BY <1>3, UpdatedIsKept
  <2>2. aliases' = [aliases EXCEPT ![req[o].keep] = NewAliases(o)]
    BY <1>1, <2>1 DEF Commit
  <2>3. NewAliases(o) \subseteq Aliases
    BY <2>1, NewAliasesType DEF IInv, Commit
  <2> QED
    BY <2>1, <2>2, <2>3 DEF Graph!Assign
<1> QED
  BY <1>2, <1>3

\* What it does to the rest, when nothing is deleted.
LEMMA CommitAdds ==
  ASSUME IInv, NEW o \in Ops, Commit(o), Deleted(o) = {}
  PROVE  /\ entities' = entities /\ links' = links \cup NewLinksOf(o)
         /\ relations' = relations \cup NewRelations(o)
BY DEF Commit

LEMMA CommitRemoves ==
  ASSUME IInv, GraphInv, NEW o \in Ops, Commit(o), req[o].kind \in {"merge", "delete"}
  PROVE  Graph!Remove(req[o].gone)
<1>1. /\ Deleted(o) = {req[o].gone} \cap entities
      /\ req[o].gone \in entities => Unlinked(req[o].gone)
  BY DeletedIsGone DEF Commit
<1>2. NewLinksOf(o) = {} /\ NewRelations(o) = {} /\ events' = events
  BY LinksAreAsked, RelationsAreAsked, EventsAreAsked DEF Commit
<1>3. /\ \A l \in links : l.entity \in entities
      /\ \A x \in relations : {x.from, x.to} \subseteq entities
  BY DEF IInv, NoDanglingRow
<1>4. entities' = entities \ {req[o].gone}
  BY <1>1 DEF Commit
<1>5. links' = {l \in links : l.entity # req[o].gone}
  BY <1>1, <1>2, <1>3 DEF Commit
<1>6. relations' = {x \in relations : req[o].gone \notin {x.from, x.to}}
  BY <1>1, <1>2, <1>3 DEF Commit
<1> QED
  BY <1>1, <1>2, <1>4, <1>5, <1>6 DEF Graph!Remove, Unlinked

LEMMA CommitTakesEffect ==
  ASSUME IInv, GraphInv, NEW o \in Ops, Commit(o)
  PROVE  Graph!Next
<1>0. pc[o] = "commit" /\ req[o] \in Workload /\ req[o] # None /\ start' = start /\ req' = req
  BY Asked DEF IInv, Commit
<1>1. Graph!Close(o, "done")
  <2>1. outcome' = [outcome EXCEPT ![o] = "done"]
    BY OutcomeStep DEF IInv, Commit, Steps
  <2> QED
    BY <1>0, <2>1, OutcomeOpen DEF Graph!Close
<1>2. req[o].kind \in {"merge", "delete", "update", "event", "link", "relate"}
  BY <1>0, RequestFacts
<1>3. CASE req[o].kind = "merge"
  <2>1. Graph!Merge(o)
    BY <1>1, <1>3, CommitRemoves, CommitAssigns DEF Graph!Merge, Graph!Does
  <2> QED
    BY <2>1 DEF Graph!Next
<1>4. CASE req[o].kind = "delete"
  <2>1. Graph!Delete(o)
    BY <1>1, <1>4, CommitRemoves, CommitAssigns DEF Graph!Delete, Graph!Does
  <2> QED
    BY <2>1 DEF Graph!Next
<1>5. CASE req[o].kind \notin {"merge", "delete"}
  <2>1. entities' = entities /\ links' = links \cup NewLinksOf(o) /\ relations' = relations \cup NewRelations(o)
    BY <1>0, <1>5, DeletedIsGone, CommitAdds
  <2>2. CASE req[o].kind = "update"
    <3>1. UNCHANGED <<entities, events, links, relations, start>>
      BY <1>0, <2>1, <2>2, LinksAreAsked, RelationsAreAsked, EventsAreAsked
    <3>2. NewAliases(o) = req[o].value
      BY <2>2 DEF NewAliases
    <3>3. Graph!Update(o)
      BY <1>1, <2>2, <3>1, <3>2, CommitAssigns DEF Graph!Update, Graph!Does, Graph!graph
    <3> QED
      BY <3>3 DEF Graph!Next
  <2>3. CASE req[o].kind # "update"
    <3>1. aliases' = aliases
      BY <1>5, <2>3, CommitAssigns
    <3>2. CASE req[o].kind = "event"
      <4>1. relations' = relations /\ events' = events \cup {o} /\ EventOf(o) = o
        BY <1>0, <2>1, <3>2, RelationsAreAsked, EventsAreAsked DEF EventOf
      <4>2. Graph!LinkAll(o, o)
        BY <1>0, <2>1, <3>2, <4>1, LinksAreAsked DEF Graph!LinkAll
      <4>3. Graph!CreateEvent(o)
        BY <1>1, <2>1, <3>1, <3>2, <4>1, <4>2 DEF Graph!CreateEvent, Graph!Does
      <4> QED
        BY <4>3 DEF Graph!Next
    <3>3. CASE req[o].kind = "link"
      <4>1. relations' = relations /\ events' = events /\ EventOf(o) = req[o].event /\ req[o].event \in events
        BY <1>0, <2>1, <3>3, RelationsAreAsked, EventsAreAsked DEF EventOf, IInv, AsAsked
      <4>2. Graph!LinkAll(o, req[o].event)
        BY <1>0, <2>1, <3>3, <4>1, LinksAreAsked DEF Graph!LinkAll
      <4>3. Graph!Link(o)
        BY <1>1, <2>1, <3>1, <3>3, <4>1, <4>2 DEF Graph!Link, Graph!Does
      <4> QED
        BY <4>3 DEF Graph!Next
    <3>4. CASE req[o].kind = "relate"
      <4>1. events' = events /\ links' = links
        BY <1>0, <2>1, <3>4, LinksAreAsked, EventsAreAsked
      <4>2. Graph!Relate(o)
        BY <1>0, <1>1, <2>1, <3>1, <3>4, <4>1, RelationsAreAsked DEF Graph!Relate, Graph!Does, RelationOf
      <4> QED
        BY <4>2 DEF Graph!Next
    <3> QED
      BY <1>2, <1>5, <2>3, <3>2, <3>3, <3>4
  <2> QED
    BY <2>2, <2>3
<1> QED
  BY <1>3, <1>4, <1>5

LEMMA GraphStep ==
  ASSUME IInv, GraphInv, [Next]_vars
  PROVE  Graph!Next \/ UNCHANGED Graph!vars
<1>0. TypeOK
  BY DEF IInv
<1>1. ASSUME NEW o \in Ops, Begin(o) PROVE Graph!Next
  BY <1>1, BeginIsAsk DEF Graph!Next
<1>2. ASSUME NEW o \in Ops, Commit(o) PROVE Graph!Next
  BY <1>2, CommitTakesEffect
<1>3. ASSUME NEW o \in Ops, Acts(o), ~ Begin(o), ~ Commit(o)
      PROVE  Graph!Next \/ UNCHANGED Graph!vars
  <2>1. pc[o] \notin {"idle", "done", "failed"}
    <3>1. WaitsFor(o) # {} => pc[o] \in {"aliases", "delete", "link", "relate"}
      BY DEF WaitsFor, Blocks
    <3> QED
      BY <1>3, <3>1 DEF Acts, Step, LoadKeep, LoadGone, UpdateAliases, LookForLinks, DeleteEntity, InsertEvent,
                        InsertLink, InsertRelation, BreakCircle, Interrupt
  <2>2. UNCHANGED <<dbVars, req>>
    BY <1>3, <2>1, RowsChange, BeginsOnce
  <2>3. Goto(o, "failed") \/ \E step \in Steps \ {"done", "failed"} : Goto(o, step)
    BY <1>3 DEF Acts, Step, LoadKeep, LoadGone, UpdateAliases, LookForLinks, DeleteEntity, InsertEvent,
                InsertLink, InsertRelation, BreakCircle, Interrupt, Fail, Steps
  <2>4. CASE Goto(o, "failed")
    BY <2>1, <2>2, <2>4, FailIsFail DEF Graph!Next
  <2> QED
    BY <1>0, <2>1, <2>2, <2>3, <2>4, GraphStutters
<1>4. CASE UNCHANGED vars
  BY <1>4 DEF vars, dbVars, Graph!vars, Graph!graph, outcome
<1> QED
  BY <1>1, <1>2, <1>3, <1>4 DEF Next, Acts

\* Whatever the operations commit between each other's statements, each takes effect at
\* its commit, as a whole or not at all: a merge removes the entity with its relations,
\* and fails on one that was linked from the start; an event comes with all its links, and
\* no link is made twice or to what is gone (services.py EntityService, EventService).
THEOREM KeepsEntityGraph == Spec => ImplementsEntityGraph
<1>1. Init => GraphInv /\ Graph!Init
  <2> SUFFICES ASSUME Init PROVE GraphInv /\ Graph!Init
    OBVIOUS
  <2>1. \A o \in Ops : pc[o] = "idle" /\ req[o] = None /\ tx[o] = {}
    BY DEF Init
  <2>2. GraphInv
    BY <2>1 DEF GraphInv, OwnRows, Complete, LinksApart
  <2>3. outcome = [o \in Ops |-> "open"]
    BY <2>1 DEF outcome
  <2> QED
    BY <2>2, <2>3 DEF Init, Graph!Init
<1>2. IInv /\ GraphInv /\ [Next]_vars => GraphInv'
  BY GraphInvStep
<1>3. IInv /\ GraphInv /\ [Next]_vars => [Graph!Next]_(Graph!vars)
  BY GraphStep
<1> QED
  BY <1>1, <1>2, <1>3, Inductive, PTL DEF Spec, ImplementsEntityGraph, Graph!Spec

=============================================================================
