--------------------------- MODULE RelationCuration ---------------------------
(***************************************************************************)
(* What EntityRelationTypeService promises of the relation types: a call   *)
(* relates its entities, suggests a type and adds one in a single step, or *)
(* does nothing, and refers only to types that exist; a review settles     *)
(* suggestions of one type, all pending at that moment, in a single step,  *)
(* and a rejection takes no acceptance back.                               *)
(***************************************************************************)
CONSTANTS Calls, Names

VARIABLES
  types, accepted,  \* names of the types that exist, that are accepted
  suggestions,      \* records [call, type, about, status]
  relations,        \* records [call, type]
  outcome           \* [Calls -> whether the call is open, done or failed]

vars == <<types, accepted, suggestions, relations, outcome>>

Init ==
  /\ types \subseteq Names /\ accepted = types
  /\ suggestions = {} /\ relations = {}
  /\ outcome = [c \in Calls |-> "open"]

Close(c, how) ==
  /\ outcome[c] = "open"
  /\ outcome' = [outcome EXCEPT ![c] = how]
  /\ UNCHANGED accepted

AtMostOne(S) == {{}} \cup {{x} : x \in S}

Suggestion(c) == [call : {c}, type : types, about : Names, status : {"pending"}]

Relate(c) ==
  /\ Close(c, "done")
  /\ \E t \in types, new \in AtMostOne(Names), own \in AtMostOne(Suggestion(c)) :
       /\ types' = types \cup new
       /\ suggestions' = suggestions \cup own
       /\ relations' = relations \cup {[call |-> c, type |-> t]}

Abort(c) == Close(c, "failed") /\ UNCHANGED <<types, suggestions, relations>>

Pending(t) == {s \in suggestions : s.type = t /\ s.status = "pending"}

Settled(S, verdict) == {[s EXCEPT !.status = verdict] : s \in S}

Settle(t, verdict) ==
  /\ t \in types
  /\ \E S \in SUBSET Pending(t) : suggestions' = (suggestions \ S) \cup Settled(S, verdict)
  /\ \/ accepted' = accepted
     \/ verdict = "accepted" /\ accepted' = accepted \cup {t}
  /\ UNCHANGED <<types, relations, outcome>>

\* The administrator.
Edit(t) ==
  /\ t \in types
  /\ accepted' \in {accepted \cup {t}, accepted \ {t}}
  /\ UNCHANGED <<types, suggestions, relations, outcome>>

Next ==
  \/ \E c \in Calls : Relate(c) \/ Abort(c)
  \/ \E t \in Names : Settle(t, "accepted") \/ Settle(t, "rejected") \/ Edit(t)

Spec == Init /\ [][Next]_vars

=============================================================================
