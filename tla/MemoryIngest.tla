---------------------------- MODULE MemoryIngest ----------------------------
(***************************************************************************)
(* What consolidation promises, seen from the committed database: a        *)
(* message accepted for a user is stored once, as the whole graph its      *)
(* extraction declares, or is lost without a trace; and a user that is     *)
(* deleted takes their memory along.                                       *)
(***************************************************************************)
EXTENDS MemoryGraph

CONSTANTS Messages, Users, Extractions, NoJob

VARIABLES users,    \* users that exist
          job,      \* [Messages -> what was accepted: the owner and the extraction]
          outcome,  \* [Messages -> {"new", "open", "stored", "lost"}]
          memory    \* [Messages -> the rows the database holds of it]

vars == <<users, job, outcome, memory>>

Jobs == [owner : Users, data : Extractions]

Init ==
  /\ users = Users
  /\ job = [m \in Messages |-> NoJob]
  /\ outcome = [m \in Messages |-> "new"]
  /\ memory = [m \in Messages |-> {}]

Accept(m) ==
  /\ outcome[m] = "new"
  /\ \E j \in Jobs : job' = [job EXCEPT ![m] = j]
  /\ outcome' = [outcome EXCEPT ![m] = "open"]
  /\ UNCHANGED <<users, memory>>

Store(m) ==
  /\ outcome[m] = "open"
  /\ job[m].owner \in users
  /\ Storable(job[m].data)
  /\ memory' = [memory EXCEPT ![m] = Graph(m, job[m].data)]
  /\ outcome' = [outcome EXCEPT ![m] = "stored"]
  /\ UNCHANGED <<users, job>>

Lose(m) ==
  /\ outcome[m] = "open"
  /\ outcome' = [outcome EXCEPT ![m] = "lost"]
  /\ UNCHANGED <<users, job, memory>>

EraseUser(u) ==
  /\ u \in users
  /\ users' = users \ {u}
  /\ memory' = [m \in Messages |->
                  IF outcome[m] = "stored" /\ job[m].owner = u THEN {} ELSE memory[m]]
  /\ UNCHANGED <<job, outcome>>

Next ==
  \/ \E m \in Messages : Accept(m) \/ Store(m) \/ Lose(m)
  \/ \E u \in Users : EraseUser(u)

Spec == Init /\ [][Next]_vars

=============================================================================
