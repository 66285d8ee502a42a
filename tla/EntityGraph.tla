----------------------------- MODULE EntityGraph -----------------------------
(***************************************************************************)
(* What EntityService and EventService do to the entities, events, links   *)
(* and relations: an operation takes effect in one step, as a whole or not *)
(* at all; what it adds refers to what is there; what it removes takes its *)
(* links and relations along.  An entity that was linked from the start is *)
(* never removed: its deletion and its merge fail, although the docstring  *)
(* of merge_entities says that the links are transferred.  That a merge    *)
(* keeps an entity holds only when it writes to that entity.               *)
(***************************************************************************)
CONSTANTS Ops, Entities, Aliases, OldEvents, Workload, Starts, None

VARIABLES
  entities, aliases, events, links, relations,
  start,   \* the rows of the start
  asked,   \* [Ops -> what the operation is asked, or None]
  outcome  \* [Ops -> whether it is open, done or failed]

graph == <<entities, events, links, relations, start>>
vars  == <<graph, aliases, asked, outcome>>

Init ==
  /\ start \in Starts
  /\ entities = Entities /\ aliases = start.aliases
  /\ events = OldEvents /\ links = start.links /\ relations = start.relations
  /\ asked = [o \in Ops |-> None]
  /\ outcome = [o \in Ops |-> "open"]

Ask(o) ==
  /\ asked[o] = None
  /\ \E r \in Workload : asked' = [asked EXCEPT ![o] = r]
  /\ UNCHANGED <<graph, aliases, outcome>>

Close(o, how) ==
  /\ asked[o] # None /\ outcome[o] = "open"
  /\ outcome' = [outcome EXCEPT ![o] = how]
  /\ UNCHANGED <<start, asked>>

Fail(o) == Close(o, "failed") /\ UNCHANGED <<graph, aliases>>

Does(o, kind) == Close(o, "done") /\ asked[o].kind = kind

Assign(o, value) ==
  /\ asked[o].keep \in entities
  /\ aliases' = [aliases EXCEPT ![asked[o].keep] = value]

\* The entity is gone already, or it had no link at the start.
Remove(e) ==
  /\ \A l \in start.links : l.entity = e => e \notin entities
  /\ entities' = entities \ {e}
  /\ links' = {l \in links : l.entity # e}
  /\ relations' = {x \in relations : e \notin {x.from, x.to}}
  /\ UNCHANGED events

Merge(o) ==
  /\ Does(o, "merge")
  /\ Remove(asked[o].gone)
  /\ UNCHANGED aliases \/ \E value \in SUBSET Aliases : Assign(o, value)

Delete(o) == Does(o, "delete") /\ Remove(asked[o].gone) /\ UNCHANGED aliases

\* An update that changes nothing is not written.
Update(o) ==
  /\ Does(o, "update")
  /\ UNCHANGED aliases \/ Assign(o, asked[o].value)
  /\ UNCHANGED graph

Members(o)    == {asked[o].ents[i] : i \in DOMAIN asked[o].ents}
LinksTo(v, S) == {[event |-> v, entity |-> e] : e \in S}

\* Links to entities that are there, none of them for a second time.
LinkAll(o, v) ==
  /\ Members(o) \subseteq entities
  /\ LinksTo(v, Members(o)) \cap links = {}
  /\ links' = links \cup LinksTo(v, Members(o))

CreateEvent(o) ==
  /\ Does(o, "event")
  /\ LinkAll(o, o)
  /\ events' = events \cup {o}
  /\ UNCHANGED <<entities, relations, aliases>>

Link(o) ==
  /\ Does(o, "link")
  /\ asked[o].event \in events
  /\ LinkAll(o, asked[o].event)
  /\ UNCHANGED <<entities, events, relations, aliases>>

Relate(o) ==
  /\ Does(o, "relate")
  /\ {asked[o].from, asked[o].to} \subseteq entities /\ asked[o].from # asked[o].to
  /\ relations' = relations \cup {[by |-> o, from |-> asked[o].from, to |-> asked[o].to]}
  /\ UNCHANGED <<entities, events, links, aliases>>

Next ==
  \E o \in Ops : \/ Ask(o) \/ Fail(o) \/ Merge(o) \/ Delete(o) \/ Update(o)
                 \/ CreateEvent(o) \/ Link(o) \/ Relate(o)

Spec == Init /\ [][Next]_vars

=============================================================================
