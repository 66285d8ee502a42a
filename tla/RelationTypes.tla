--------------------------- MODULE RelationTypes ---------------------------
(***************************************************************************)
(* EntityRelationTypeService (domain/memory/services.py): the life of a    *)
(* relation type that the LLM suggests.  A call of                         *)
(* resolve_and_create_relationship resolves the suggested name to an       *)
(* accepted type or to the fallback, may create the type and record a      *)
(* suggestion, and relates two entities; a review accepts or rejects a     *)
(* type and its pending suggestions.  Every call and every review runs in  *)
(* a READ COMMITTED transaction of its own (dependencies.py                *)
(* provide_transaction), one statement per action: a statement sees what   *)
(* others committed before it.                                             *)
(*                                                                         *)
(* The name of a type is unique and stands for its id.  The administrator  *)
(* may accept a type or take that back in the admin panel (api/admin.py)   *)
(* at any time; renaming and deleting types is left out.                   *)
(***************************************************************************)
EXTENDS Naturals, FiniteSets

CONSTANTS
  Calls,     \* calls of resolve_and_create_relationship
  Reviews,   \* calls of accept_relation_type and reject_relation_type
  Names,     \* names of relation types, in any case
  Upper,     \* [Names -> Names], str.upper
  Fallback,  \* RELATES_TO
  Seeds,     \* the sets of accepted types a database may start with
  MaxEdits,  \* bound on what the administrator does
  None

ASSUME NamesAssumption ==
  /\ Upper \in [Names -> Names]
  /\ Fallback \in Names /\ Upper[Fallback] = Fallback
  /\ Seeds \subseteq SUBSET Names /\ MaxEdits \in Nat
  /\ None \notin Names

VARIABLES
  types, accepted,  \* names of the types that exist, that are accepted
  edits,            \* how often the administrator has edited a type
  suggestions,      \* committed rows of entity_relation_type_suggestions
  relations,        \* committed rows of relationships_history
  pc,               \* [Calls -> step]
  req,              \* [Calls -> what is asked: the name, and if a message is given]
  usable,           \* [Calls -> the name has been an accepted type since the call began]
  valid,            \* [Calls -> the types that were accepted at some time during the call]
  existing,         \* [Calls -> existing_type_id, or None]
  seen,             \* [Calls -> what the session loaded under the asked name]
  created,          \* [Calls -> the type it inserted, uncommitted, or None]
  resolved,         \* [Calls -> the resolved type, or None]
  noted,            \* [Calls -> the suggestions it inserted, uncommitted]
  rpc, target,      \* [Reviews -> step, and the type under review]
  was,              \* [Reviews -> is_accepted of that type, as it was loaded]
  verdict,          \* [Reviews -> status it gives]
  scan,             \* [Reviews -> the pending suggestions its UPDATE found]
  held              \* [Reviews -> the suggestions it updated, uncommitted]

callVars   == <<pc, req, usable, valid, existing, seen, created, resolved, noted>>
reviewVars == <<rpc, target, was, verdict, scan, held>>
vars       == <<types, accepted, edits, suggestions, relations, callVars, reviewVars>>

Requests    == [name : Names, message : BOOLEAN]
Found       == [type : Names, is_accepted : BOOLEAN]
Nothing     == [type |-> None, is_accepted |-> FALSE]
Statuses    == {"pending", "accepted", "rejected"}
Suggestions == [call : Calls, type : Names, about : Names, status : Statuses]
Relations   == [call : Calls, type : Names]
CallSteps   == {"idle", "lookup", "resolve", "create", "fallback", "suggest", "commit", "done", "failed"}
ReviewSteps == {"idle", "scan", "update", "commit", "done", "failed"}

Init ==
  /\ accepted \in Seeds
  /\ types = accepted
  /\ edits = 0
  /\ suggestions = {} /\ relations = {}
  /\ pc = [c \in Calls |-> "idle"]
  /\ req \in [Calls -> Requests]
  /\ usable = [c \in Calls |-> FALSE]
  /\ valid = [c \in Calls |-> {}]
  /\ existing = [c \in Calls |-> None]
  /\ seen = [c \in Calls |-> Nothing]
  /\ created = [c \in Calls |-> None]
  /\ resolved = [c \in Calls |-> None]
  /\ noted = [c \in Calls |-> {}]
  /\ rpc = [r \in Reviews |-> "idle"]
  /\ target = [r \in Reviews |-> None]
  /\ was = [r \in Reviews |-> FALSE]
  /\ verdict = [r \in Reviews |-> "pending"]
  /\ scan = [r \in Reviews |-> {}]
  /\ held = [r \in Reviews |-> {}]

-----------------------------------------------------------------------------
(* resolve_and_create_relationship *)

Goto(c, step) == pc' = [pc EXCEPT ![c] = step]

\* An exception rolls the transaction of the call back.
Fail(c) ==
  /\ created' = [created EXCEPT ![c] = None]
  /\ noted' = [noted EXCEPT ![c] = {}]
  /\ Goto(c, "failed")

\* get_by_name: the query is upper-cased, the stored names are not.
\* The session sees the type it created itself, which is not accepted.
GetByName(c, name) ==
  IF Upper[name] \in types \cup {created[c]}
    THEN [type |-> Upper[name], is_accepted |-> Upper[name] \in accepted]
    ELSE Nothing

Begin(c) ==
  /\ pc[c] = "idle"
  /\ usable' = [usable EXCEPT ![c] = req[c].name \in accepted]
  /\ valid' = [valid EXCEPT ![c] = @ \cup accepted]
  /\ Goto(c, "lookup")
  /\ UNCHANGED <<types, accepted, edits, suggestions, relations, req, existing, seen, created, resolved, noted, reviewVars>>

\* Step 1 of the call: existing_type_id.
LookUp(c) ==
  /\ pc[c] = "lookup"
  /\ existing' = [existing EXCEPT ![c] = GetByName(c, req[c].name).type]
  /\ seen' = [seen EXCEPT ![c] = GetByName(c, req[c].name)]
  /\ Goto(c, "resolve")
  /\ UNCHANGED <<types, accepted, edits, suggestions, relations, req, usable, valid, created, resolved, noted, reviewVars>>

\* get_or_create_relation_type looks the name up again.  A type the session has
\* loaded already keeps the is_accepted it was loaded with.
SeenAgain(c) ==
  IF seen[c] # Nothing THEN seen[c] ELSE GetByName(c, req[c].name)

\* Variant: an existing type is used whether it is accepted or not.
ResolveUnaccepted(c) ==
  /\ pc[c] = "resolve"
  /\ seen' = [seen EXCEPT ![c] = SeenAgain(c)]
  /\ \/ /\ SeenAgain(c) # Nothing
        /\ resolved' = [resolved EXCEPT ![c] = SeenAgain(c).type]
        /\ Goto(c, "suggest")
     \/ /\ SeenAgain(c) = Nothing
        /\ Goto(c, "create")
        /\ UNCHANGED resolved
  /\ UNCHANGED <<types, accepted, edits, suggestions, relations, req, usable, valid, existing, created, noted, reviewVars>>

\* Variant: an accepted type is not returned at once.
ResolveFallsThrough(c) ==
  /\ pc[c] = "resolve"
  /\ seen' = [seen EXCEPT ![c] = SeenAgain(c)]
  /\ Goto(c, IF SeenAgain(c) = Nothing THEN "create" ELSE "fallback")
  /\ UNCHANGED <<types, accepted, edits, suggestions, relations, req, usable, valid, existing, created, resolved, noted, reviewVars>>

Resolve(c) ==
  /\ pc[c] = "resolve"
  /\ seen' = [seen EXCEPT ![c] = SeenAgain(c)]
  /\ \/ /\ SeenAgain(c).is_accepted
        /\ resolved' = [resolved EXCEPT ![c] = SeenAgain(c).type]
        /\ Goto(c, "suggest")
     \/ /\ SeenAgain(c) = Nothing
        /\ Goto(c, "create")
        /\ UNCHANGED resolved
     \/ /\ SeenAgain(c) # Nothing /\ ~ SeenAgain(c).is_accepted
        /\ Goto(c, "fallback")
        /\ UNCHANGED resolved
  /\ UNCHANGED <<types, accepted, edits, suggestions, relations, req, usable, valid, existing, created, noted, reviewVars>>

\* Variant: a name that is taken is waited for, as if its owner would give it back.
CreateTypeWaits(c) ==
  /\ pc[c] = "create"
  /\ req[c].name \notin types \cup {created[o] : o \in Calls}
  /\ created' = [created EXCEPT ![c] = req[c].name]
  /\ Goto(c, "fallback")
  /\ UNCHANGED <<types, accepted, edits, suggestions, relations, req, usable, valid, existing, seen, resolved, noted, reviewVars>>

\* create_type stores the name as given.  The unique index makes the INSERT wait
\* for a call that inserted the same name, and refuses it once that committed.
CreateType(c) ==
  /\ pc[c] = "create"
  /\ \A o \in Calls \ {c} : created[o] # req[c].name
  /\ \/ /\ req[c].name \notin types
        /\ created' = [created EXCEPT ![c] = req[c].name]
        /\ Goto(c, "fallback")
        /\ UNCHANGED noted
     \/ /\ req[c].name \in types
        /\ Fail(c)
  /\ UNCHANGED <<types, accepted, edits, suggestions, relations, req, usable, valid, existing, seen, resolved, reviewVars>>

\* _get_fallback_type.  If the fallback itself was asked for, the session has it.
FallbackSeen(c) ==
  IF seen[c].type = Fallback THEN seen[c] ELSE GetByName(c, Fallback)

GetFallback(c) ==
  /\ pc[c] = "fallback"
  /\ \/ /\ FallbackSeen(c).is_accepted
        /\ resolved' = [resolved EXCEPT ![c] = Fallback]
        /\ Goto(c, "suggest")
        /\ UNCHANGED <<created, noted>>
     \/ /\ ~ FallbackSeen(c).is_accepted
        /\ Fail(c)
        /\ UNCHANGED resolved
  /\ UNCHANGED <<types, accepted, edits, suggestions, relations, req, usable, valid, existing, seen, reviewVars>>

\* Variant: no default for a type that did not exist.
SuggestionTypeAsFound(c) == existing[c]

\* Step 3 of the call: suggestion_type_id = existing_type_id or resolved_type.id.
SuggestionType(c) == IF existing[c] # None THEN existing[c] ELSE resolved[c]

\* Variant: a suggestion is recorded only for a type that existed.
RecordSuggestionOfExisting(c) ==
  /\ pc[c] = "suggest"
  /\ noted' = [noted EXCEPT ![c] =
                 IF req[c].message /\ existing[c] # None /\ Upper[req[c].name] # resolved[c]
                   THEN {[call |-> c, type |-> existing[c], about |-> req[c].name, status |-> "pending"]}
                   ELSE {}]
  /\ Goto(c, "commit")
  /\ UNCHANGED <<types, accepted, edits, suggestions, relations, req, usable, valid, existing, seen, created, resolved, reviewVars>>

\* Variant: the suggestion is committed at once.
RecordSuggestionCommits(c) ==
  /\ pc[c] = "suggest"
  /\ suggestions' = IF req[c].message /\ Upper[req[c].name] # resolved[c]
                      THEN suggestions \cup {[call |-> c, type |-> SuggestionType(c), about |-> req[c].name, status |-> "pending"]}
                      ELSE suggestions
  /\ Goto(c, "commit")
  /\ UNCHANGED <<types, accepted, edits, relations, req, usable, valid, existing, seen, created, resolved, noted, reviewVars>>

RecordSuggestion(c) ==
  /\ pc[c] = "suggest"
  /\ noted' = [noted EXCEPT ![c] =
                 IF req[c].message /\ Upper[req[c].name] # resolved[c]
                   THEN {[call |-> c, type |-> SuggestionType(c), about |-> req[c].name, status |-> "pending"]}
                   ELSE {}]
  /\ Goto(c, "commit")
  /\ UNCHANGED <<types, accepted, edits, suggestions, relations, req, usable, valid, existing, seen, created, resolved, reviewVars>>

\* The relationship is flushed with the commit of the transaction.
CommitCall(c) ==
  /\ pc[c] = "commit"
  /\ types' = types \cup ({created[c]} \ {None})
  /\ suggestions' = suggestions \cup noted[c]
  /\ relations' = relations \cup {[call |-> c, type |-> resolved[c]]}
  /\ created' = [created EXCEPT ![c] = None]
  /\ noted' = [noted EXCEPT ![c] = {}]
  /\ Goto(c, "done")
  /\ UNCHANGED <<accepted, edits, req, usable, valid, existing, seen, resolved, reviewVars>>

-----------------------------------------------------------------------------
(* accept_relation_type, reject_relation_type *)

\* What the calls that are running witness when is_accepted changes.
Witness ==
  /\ usable' = [c \in Calls |-> usable[c] /\ req[c].name \in accepted']
  /\ valid' = [c \in Calls |->
                 IF pc[c] \in {"idle", "done", "failed"} THEN valid[c] ELSE valid[c] \cup accepted']
  /\ UNCHANGED <<pc, req, existing, seen, created, resolved, noted>>

RGoto(r, step) == rpc' = [rpc EXCEPT ![r] = step]

\* An unknown type ends the review (EntityNotFoundError).
BeginReview(r) ==
  /\ rpc[r] = "idle"
  /\ \E t \in Names, v \in {"accepted", "rejected"} :
        /\ target' = [target EXCEPT ![r] = t]
        /\ verdict' = [verdict EXCEPT ![r] = v]
        /\ was' = [was EXCEPT ![r] = t \in accepted]
        /\ RGoto(r, IF t \in types THEN "scan" ELSE "failed")
  /\ UNCHANGED <<types, accepted, edits, suggestions, relations, callVars, scan, held>>

PendingOf(t) == {s \in suggestions : s.type = t /\ s.status = "pending"}

\* The UPDATE finds its rows in the snapshot it starts with ...
ScanPending(r) ==
  /\ rpc[r] = "scan"
  /\ scan' = [scan EXCEPT ![r] = PendingOf(target[r])]
  /\ RGoto(r, "update")
  /\ UNCHANGED <<types, accepted, edits, suggestions, relations, callVars, target, was, verdict, held>>

\* Variant: rows that another review has updated are passed over (SKIP LOCKED).
UpdatePendingSkips(r) ==
  /\ rpc[r] = "update"
  /\ held' = [held EXCEPT ![r] = (scan[r] \cap PendingOf(target[r])) \ UNION {held[o] : o \in Reviews \ {r}}]
  /\ RGoto(r, "commit")
  /\ UNCHANGED <<types, accepted, edits, suggestions, relations, callVars, target, was, verdict, scan>>

\* ... waits for the rows that another review has updated, and looks again
\* whether they are still pending.
UpdatePending(r) ==
  /\ rpc[r] = "update"
  /\ \A o \in Reviews \ {r} : held[o] \cap scan[r] = {}
  /\ held' = [held EXCEPT ![r] = scan[r] \cap PendingOf(target[r])]
  /\ RGoto(r, "commit")
  /\ UNCHANGED <<types, accepted, edits, suggestions, relations, callVars, target, was, verdict, scan>>

Reviewed(s, rows, status) ==
  IF [s EXCEPT !.status = "pending"] \in rows THEN [s EXCEPT !.status = status] ELSE s

\* Variant: the rows stay locked after the review.
CommitReviewKeepsLocks(r) ==
  /\ rpc[r] = "commit"
  /\ suggestions' = {Reviewed(s, held[r], verdict[r]) : s \in suggestions}
  /\ accepted' = IF verdict[r] = "accepted" /\ ~ was[r] THEN accepted \cup {target[r]} ELSE accepted
  /\ Witness
  /\ RGoto(r, "done")
  /\ UNCHANGED <<types, edits, relations, target, was, verdict, scan, held>>

\* Variant: a rejection writes is_accepted back, as it was loaded.
CommitReviewWritesBack(r) ==
  /\ rpc[r] = "commit"
  /\ suggestions' = {Reviewed(s, held[r], verdict[r]) : s \in suggestions}
  /\ accepted' = IF verdict[r] = "accepted" \/ was[r] THEN accepted \cup {target[r]} ELSE accepted \ {target[r]}
  /\ Witness
  /\ held' = [held EXCEPT ![r] = {}]
  /\ RGoto(r, "done")
  /\ UNCHANGED <<types, edits, relations, target, was, verdict, scan>>

\* is_accepted is flushed with the commit, if that changes what was loaded.
CommitReview(r) ==
  /\ rpc[r] = "commit"
  /\ suggestions' = {Reviewed(s, held[r], verdict[r]) : s \in suggestions}
  /\ accepted' = IF verdict[r] = "accepted" /\ ~ was[r] THEN accepted \cup {target[r]} ELSE accepted
  /\ Witness
  /\ held' = [held EXCEPT ![r] = {}]
  /\ RGoto(r, "done")
  /\ UNCHANGED <<types, edits, relations, target, was, verdict, scan>>

\* The administrator sets or clears is_accepted (EntityRelationTypeAdmin).
AdminEdits(t) ==
  /\ t \in types /\ edits < MaxEdits
  /\ edits' = edits + 1
  /\ accepted' \in {accepted \cup {t}, accepted \ {t}}
  /\ Witness
  /\ UNCHANGED <<types, suggestions, relations, reviewVars>>

-----------------------------------------------------------------------------
Call(c) == \/ LookUp(c) \/ Resolve(c) \/ CreateType(c) \/ GetFallback(c)
           \/ RecordSuggestion(c) \/ CommitCall(c)

Review(r) == ScanPending(r) \/ UpdatePending(r) \/ CommitReview(r)

Next ==
  \/ \E c \in Calls : Begin(c) \/ Call(c)
  \/ \E r \in Reviews : BeginReview(r) \/ Review(r)
  \/ \E t \in Names : AdminEdits(t)

Spec == Init /\ [][Next]_vars

\* The database runs every statement that is not blocked.
FairSpec == Spec /\ (\A c \in Calls : WF_vars(Call(c))) /\ (\A r \in Reviews : WF_vars(Review(r)))

-----------------------------------------------------------------------------
(* Properties. *)

TypeOK ==
  /\ types \subseteq Names /\ accepted \subseteq types /\ edits \in Nat
  /\ suggestions \subseteq Suggestions /\ relations \subseteq Relations
  /\ pc \in [Calls -> CallSteps]
  /\ req \in [Calls -> Requests]
  /\ usable \in [Calls -> BOOLEAN]
  /\ valid \in [Calls -> SUBSET Names]
  /\ existing \in [Calls -> Names \cup {None}]
  /\ seen \in [Calls -> Found \cup {Nothing}]
  /\ created \in [Calls -> Names \cup {None}]
  /\ resolved \in [Calls -> Names \cup {None}]
  /\ noted \in [Calls -> SUBSET Suggestions]
  /\ rpc \in [Reviews -> ReviewSteps]
  /\ target \in [Reviews -> Names \cup {None}]
  /\ was \in [Reviews -> BOOLEAN]
  /\ verdict \in [Reviews -> Statuses]
  /\ scan \in [Reviews -> SUBSET Suggestions] /\ held \in [Reviews -> SUBSET Suggestions]

\* A relationship has a type that was accepted at some time during its call, whatever
\* the LLM suggested and however reviews, other calls and the administrator come in
\* between (services.py get_or_create_relation_type).
RelationsUseAcceptedTypes == \A x \in relations : x.type \in valid[x.call]

\* A call that fell back to another type than the one suggested leaves the
\* suggestion for a review, if a message is given; and the type it suggests, unless
\* it was there, exists from then on (services.py resolve_and_create_relationship).
FallbackLeavesTrace ==
  \A c \in Calls :
     pc[c] = "done" /\ resolved[c] # Upper[req[c].name] =>
        /\ req[c].message => \E s \in suggestions : s.call = c /\ s.about = req[c].name
        /\ req[c].name \in types \/ Upper[req[c].name] \in types

\* "Once accepted, the type can be used directly in relationships": a call that asks
\* for a type by its upper-case name, while it stays accepted, succeeds with that type,
\* whatever the other calls and the reviews do (for other names see get_by_name).
AcceptedTypeIsUsed ==
  \A c \in Calls :
     pc[c] \in {"done", "failed"} /\ usable[c] /\ req[c].name = Upper[req[c].name]
       => pc[c] = "done" /\ resolved[c] = req[c].name

\* A call relates its entities once, in the transaction that creates its type and
\* records its suggestion; a failed call leaves nothing.
CallIsAtomic ==
  \A c \in Calls :
     /\ (\E x \in relations : x.call = c) <=> pc[c] = "done"
     /\ (\E s \in suggestions : s.call = c) => pc[c] = "done"
     /\ Cardinality({x \in relations : x.call = c} \cup {s \in suggestions : s.call = c}) <= 2

\* A review that is done leaves none of the suggestions pending that its UPDATE
\* found, also if another review of the same type got there first.
ReviewIsComplete ==
  \A r \in Reviews : rpc[r] = "done" => scan[r] \cap suggestions = {}

\* The status a review gave a suggestion is never changed by another
\* (the UPDATE asks for pending ones: services.py accept_/reject_relation_type).
ReviewedForGood ==
  [][\A s \in suggestions : s.status # "pending" => s \in suggestions']_vars

\* Whoever holds what another waits for, an uncommitted name or updated rows, goes on
\* without waiting and still has its commit or its end before it (the unique index and
\* the row locks under services.py resolve_and_create_relationship, accept_relation_type).
HoldersGoOn ==
  /\ \A c, o \in Calls :
        c # o /\ pc[c] = "create" /\ created[o] = req[c].name => pc[o] \in {"fallback", "suggest", "commit"}
  /\ \A r, o \in Reviews :
        r # o /\ rpc[r] = "update" /\ held[o] \cap scan[r] # {} => rpc[o] = "commit"

\* Every call and every review comes to its end: no waiting in a circle.
CallsEnd   == \A c \in Calls : pc[c] = "lookup" ~> pc[c] \in {"done", "failed"}
ReviewsEnd == \A r \in Reviews : rpc[r] = "scan" ~> rpc[r] = "done"

-----------------------------------------------------------------------------
(* The promise of RelationCuration. *)

outcome == [c \in Calls |-> IF pc[c] \in {"done", "failed"} THEN pc[c] ELSE "open"]

Curation == INSTANCE RelationCuration

\* However calls, reviews and the administrator interleave: calls take effect at once
\* and refer only to types that exist, a review settles only what is pending when it
\* commits, and no verdict or rejection undoes another's (services.py
\* resolve_and_create_relationship, accept_relation_type, reject_relation_type).
ImplementsCuration == Curation!Spec

-----------------------------------------------------------------------------
(* What the documentation says and the code refutes. *)

\* A suggestion points to "the suggested relation type".
SuggestionNamesItsType ==
  \A s \in suggestions : s.type = s.about \/ s.type = Upper[s.about]

=============================================================================
