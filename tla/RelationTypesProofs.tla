------------------------ MODULE RelationTypesProofs ------------------------
(***************************************************************************)
(* Proofs about RelationTypes, for any number of calls, reviews and names. *)
(*                                                                         *)
(* RelationsUseAcceptedTypes and ReviewedForGood are not inductive: what a *)
(* call has loaded and resolved must have been accepted during the call,   *)
(* and the rows a review holds must still be pending when it commits,      *)
(* although other reviews commit in between.                               *)
(***************************************************************************)
EXTENDS RelationTypes, TLAPS

\* What is accepted now was accepted during every running call.
Running == {"lookup", "resolve", "create", "fallback", "suggest", "commit"}
ValidIsCurrent == \A c \in Calls : pc[c] \in Running => accepted \subseteq valid[c]

SeenIsAccepted == \A c \in Calls : seen[c].is_accepted => seen[c].type \in valid[c]

ResolvedIsAccepted ==
  \A c \in Calls : pc[c] \in {"suggest", "commit", "done"} => resolved[c] \in valid[c]

\* A call notes at most one suggestion, its own, and pending.
NotedByCall ==
  \A c \in Calls :
     /\ \A s \in noted[c] : s.call = c /\ s.status = "pending"
     /\ \A s, t \in noted[c] : s = t

SuggestedWhenDone == \A s \in suggestions : pc[s.call] = "done"

AsPending(s) == [call |-> s.call, type |-> s.type, about |-> s.about, status |-> "pending"]

\* A suggestion has one row, whatever its status.
OneRow == \A s, t \in suggestions : AsPending(s) = AsPending(t) => s = t

\* A review that goes on is about a type that exists.
UnderReview ==
  \A r \in Reviews : rpc[r] \in {"scan", "update", "commit"} => target[r] \in types

\* What a review holds is pending and held by no other.
HeldPending == \A r \in Reviews : \A s \in held[r] : s \in suggestions /\ s.status = "pending"
HeldOnce    == \A r, o \in Reviews : r # o => held[r] \cap held[o] = {}

CallInv   == ValidIsCurrent /\ SeenIsAccepted /\ ResolvedIsAccepted /\ RelationsUseAcceptedTypes
ReviewInv == UnderReview /\ NotedByCall /\ SuggestedWhenDone /\ OneRow /\ HeldPending /\ HeldOnce

-----------------------------------------------------------------------------
\* A look-up finds a type or nothing.
LEMMA GetByNameType ==
  ASSUME TypeOK, NEW c \in Calls, NEW n \in Names
  PROVE  /\ GetByName(c, n) \in Found \cup {Nothing}
         /\ GetByName(c, n).type \in Names \cup {None}
         /\ GetByName(c, n).is_accepted => GetByName(c, n).type \in accepted
<1>1. Upper[n] \in Names
  BY NamesAssumption
<1>2. CASE Upper[n] \in types \cup {created[c]}
  <2>1. GetByName(c, n) = [type |-> Upper[n], is_accepted |-> Upper[n] \in accepted]
    BY <1>2 DEF GetByName
  <2>2. CASE Upper[n] \in accepted
    <3>1. TRUE = (Upper[n] \in accepted)
      BY <2>2, Zenon
    <3>2. GetByName(c, n) = [type |-> Upper[n], is_accepted |-> TRUE]
      BY <2>1, <3>1, Zenon
    <3> QED
      BY <1>1, <2>2, <3>2 DEF Found
  <2>3. CASE Upper[n] \notin accepted
    <3>1. (Upper[n] \in accepted) = FALSE
      BY <2>3
    <3>2. GetByName(c, n) = [type |-> Upper[n], is_accepted |-> FALSE]
      BY <2>1, <3>1, Zenon
    <3> QED
      BY <1>1, <3>2 DEF Found
  <2> QED
    BY <2>2, <2>3
<1>3. CASE Upper[n] \notin types \cup {created[c]}
  BY <1>3 DEF GetByName, Nothing
<1> QED
  BY <1>2, <1>3

\* So does the second look-up of a call, which may see what it has loaded before.
LEMMA SeenAgainType ==
  ASSUME TypeOK, SeenIsAccepted, ValidIsCurrent, NEW c \in Calls, pc[c] \in Running
  PROVE  /\ SeenAgain(c) \in Found \cup {Nothing}
         /\ SeenAgain(c).is_accepted => SeenAgain(c).type \in valid[c]
<1>1. req[c].name \in Names
  BY DEF TypeOK, Requests
<1> QED
  BY <1>1, GetByNameType DEF SeenAgain, SeenIsAccepted, ValidIsCurrent, TypeOK

\* What calls witness keeps its type.
LEMMA WitnessType ==
  ASSUME TypeOK, Witness, accepted' \subseteq Names
  PROVE  usable' \in [Calls -> BOOLEAN] /\ valid' \in [Calls -> SUBSET Names]
BY DEF TypeOK, Witness

\* A step of a call moves that call to one of its steps.
LEMMA PcType ==
  ASSUME pc \in [Calls -> CallSteps], NEW c \in Calls, Call(c)
  PROVE  pc' \in [Calls -> CallSteps]
<1>1. CASE LookUp(c)
  <2>1. pc' = [pc EXCEPT ![c] = "resolve"]
    BY <1>1 DEF LookUp, Goto
  <2> QED
    BY <2>1 DEF CallSteps
<1>2. CASE Resolve(c)
  <2>1. \/ pc' = [pc EXCEPT ![c] = "suggest"] \/ pc' = [pc EXCEPT ![c] = "create"]
        \/ pc' = [pc EXCEPT ![c] = "fallback"]
    BY <1>2 DEF Resolve, Goto
  <2> QED
    BY <2>1 DEF CallSteps
<1>3. CASE CreateType(c)
  <2>1. pc' = [pc EXCEPT ![c] = "fallback"] \/ pc' = [pc EXCEPT ![c] = "failed"]
    BY <1>3 DEF CreateType, Fail, Goto
  <2> QED
    BY <2>1 DEF CallSteps
<1>4. CASE GetFallback(c)
  <2>1. pc' = [pc EXCEPT ![c] = "suggest"] \/ pc' = [pc EXCEPT ![c] = "failed"]
    BY <1>4 DEF GetFallback, Fail, Goto
  <2> QED
    BY <2>1 DEF CallSteps
<1>5. CASE RecordSuggestion(c)
  <2>1. pc' = [pc EXCEPT ![c] = "commit"]
    BY <1>5 DEF RecordSuggestion, Goto
  <2> QED
    BY <2>1 DEF CallSteps
<1>6. CASE CommitCall(c)
  <2>1. pc' = [pc EXCEPT ![c] = "done"]
    BY <1>6 DEF CommitCall, Goto
  <2> QED
    BY <2>1 DEF CallSteps
<1> QED
  BY <1>1, <1>2, <1>3, <1>4, <1>5, <1>6 DEF Call

\* Every step keeps the types of the variables.
LEMMA TypeStep == TypeOK /\ CallInv /\ UnderReview /\ [Next]_vars => TypeOK'
<1> SUFFICES ASSUME TypeOK, CallInv, UnderReview, [Next]_vars PROVE TypeOK'
  OBVIOUS
<1> USE NamesAssumption DEF TypeOK, Requests, Found, Nothing, Statuses, Suggestions, Relations, CallSteps, ReviewSteps
<1>1. ASSUME NEW c \in Calls, Begin(c) PROVE TypeOK'
  <2>1. valid' \in [Calls -> SUBSET Names] /\ usable' \in [Calls -> BOOLEAN]
    BY <1>1 DEF Begin
  <2> QED
    BY <1>1, <2>1 DEF Begin, Goto, reviewVars
<1>2. ASSUME NEW c \in Calls, LookUp(c) PROVE TypeOK'
  <2>1. req[c].name \in Names
    OBVIOUS
  <2>2. GetByName(c, req[c].name) \in Found \cup {Nothing} /\ GetByName(c, req[c].name).type \in Names \cup {None}
    BY <2>1, GetByNameType
  <2> HIDE DEF Found, Nothing, Requests
  <2>3. seen' \in [Calls -> Found \cup {Nothing}] /\ existing' \in [Calls -> Names \cup {None}]
    BY <1>2, <2>2 DEF LookUp
  <2> QED
    BY <1>2, <2>3 DEF LookUp, Goto, reviewVars
<1>3. ASSUME NEW c \in Calls, Resolve(c) PROVE TypeOK'
  <2>1. SeenAgain(c) \in Found \cup {Nothing} /\ (SeenAgain(c).is_accepted => SeenAgain(c).type \in Names)
    BY <1>3, SeenAgainType DEF CallInv, Resolve, Running
  <2> HIDE DEF Found, Nothing, Requests
  <2>2. seen' \in [Calls -> Found \cup {Nothing}]
    BY <1>3, <2>1 DEF Resolve
  <2>3. resolved' \in [Calls -> Names \cup {None}]
    BY <1>3, <2>1 DEF Resolve
  <2>4. pc' \in [Calls -> CallSteps]
    <3>1. Call(c)
      BY <1>3 DEF Call
    <3>2. pc \in [Calls -> CallSteps]
      OBVIOUS
    <3> QED
      BY <3>1, <3>2, PcType
  <2> QED
    BY <1>3, <2>2, <2>3, <2>4 DEF Resolve, reviewVars
<1>4. ASSUME NEW c \in Calls, CreateType(c) PROVE TypeOK'
  <2> HIDE DEF Found, Nothing
  <2>1. created' \in [Calls -> Names \cup {None}]
    BY <1>4 DEF CreateType, Fail
  <2>2. noted' \in [Calls -> SUBSET Suggestions]
    <3>1. noted' = noted \/ noted' = [noted EXCEPT ![c] = {}]
      BY <1>4 DEF CreateType, Fail
    <3> QED
      BY <3>1
  <2>3. pc' \in [Calls -> CallSteps]
    <3>1. Call(c)
      BY <1>4 DEF Call
    <3>2. pc \in [Calls -> CallSteps]
      OBVIOUS
    <3> QED
      BY <3>1, <3>2, PcType
  <2> QED
    BY <1>4, <2>1, <2>2, <2>3 DEF CreateType, reviewVars
<1>5. ASSUME NEW c \in Calls, GetFallback(c) PROVE TypeOK'
  <2> HIDE DEF Found, Nothing
  <2>1. resolved' \in [Calls -> Names \cup {None}] /\ created' \in [Calls -> Names \cup {None}]
    <3>1. resolved' = resolved \/ resolved' = [resolved EXCEPT ![c] = Fallback]
      BY <1>5 DEF GetFallback
    <3>2. created' = created \/ created' = [created EXCEPT ![c] = None]
      BY <1>5 DEF GetFallback, Fail
    <3>3. resolved \in [Calls -> Names \cup {None}] /\ created \in [Calls -> Names \cup {None}] /\ Fallback \in Names
      OBVIOUS
    <3> HIDE DEF TypeOK
    <3> QED
      BY <3>1, <3>2, <3>3
  <2>2. noted' \in [Calls -> SUBSET Suggestions]
    <3>1. noted' = noted \/ noted' = [noted EXCEPT ![c] = {}]
      BY <1>5 DEF GetFallback, Fail
    <3> QED
      BY <3>1
  <2>3. pc' \in [Calls -> CallSteps]
    <3>1. Call(c)
      BY <1>5 DEF Call
    <3>2. pc \in [Calls -> CallSteps]
      OBVIOUS
    <3> QED
      BY <3>1, <3>2, PcType
  <2> QED
    BY <1>5, <2>1, <2>2, <2>3 DEF GetFallback, reviewVars
<1>6. ASSUME NEW c \in Calls, RecordSuggestion(c) PROVE TypeOK'
  <2>1. SuggestionType(c) \in Names
    BY <1>6 DEF RecordSuggestion, SuggestionType, CallInv, ResolvedIsAccepted
  <2>2. noted' \in [Calls -> SUBSET Suggestions]
    BY <1>6, <2>1 DEF RecordSuggestion
  <2> QED
    BY <1>6, <2>2 DEF RecordSuggestion, Goto, reviewVars
<1>7. ASSUME NEW c \in Calls, CommitCall(c) PROVE TypeOK'
  <2>1. resolved[c] \in Names
    BY <1>7 DEF CommitCall, CallInv, ResolvedIsAccepted
  <2>2. relations' \subseteq Relations /\ suggestions' \subseteq Suggestions /\ types' \subseteq Names
    BY <1>7, <2>1 DEF CommitCall
  <2> QED
    BY <1>7, <2>2 DEF CommitCall, Goto, reviewVars
<1>8. ASSUME NEW r \in Reviews, BeginReview(r) PROVE TypeOK'
  BY <1>8 DEF BeginReview, RGoto, callVars
<1>9. ASSUME NEW r \in Reviews, ScanPending(r) PROVE TypeOK'
  BY <1>9 DEF ScanPending, PendingOf, RGoto, callVars
<1>10. ASSUME NEW r \in Reviews, UpdatePending(r) PROVE TypeOK'
  BY <1>10 DEF UpdatePending, PendingOf, RGoto, callVars
<1>11. ASSUME NEW r \in Reviews, CommitReview(r) PROVE TypeOK'
  <2>1. ASSUME NEW s \in suggestions PROVE Reviewed(s, held[r], verdict[r]) \in Suggestions
    <3>1. s \in Suggestions /\ verdict[r] \in Statuses
      OBVIOUS
    <3> QED
      BY <3>1 DEF Reviewed
  <2>2. suggestions' \subseteq Suggestions
    BY <1>11, <2>1 DEF CommitReview
  <2>3. accepted' \subseteq types
    BY <1>11 DEF CommitReview, UnderReview
  <2>4. usable' \in [Calls -> BOOLEAN] /\ valid' \in [Calls -> SUBSET Names]
    BY <1>11, <2>3, WitnessType DEF CommitReview
  <2> HIDE DEF Found, Nothing
  <2> QED
    BY <1>11, <2>2, <2>3, <2>4 DEF CommitReview, Witness, RGoto
<1>13. ASSUME NEW t \in Names, AdminEdits(t) PROVE TypeOK'
  <2>1. accepted' \subseteq types
    BY <1>13 DEF AdminEdits
  <2>2. usable' \in [Calls -> BOOLEAN] /\ valid' \in [Calls -> SUBSET Names]
    BY <1>13, <2>1, WitnessType DEF AdminEdits
  <2> HIDE DEF Found, Nothing
  <2> QED
    BY <1>13, <2>1, <2>2 DEF AdminEdits, Witness, reviewVars
<1>12. CASE UNCHANGED vars
  BY <1>12 DEF vars, callVars, reviewVars
<1> QED
  BY <1>1, <1>2, <1>3, <1>4, <1>5, <1>6, <1>7, <1>8, <1>9, <1>10, <1>11, <1>12, <1>13 DEF Next, Call, Review

\* A call that runs knows all the types that are accepted, and forgets none.
LEMMA ValidStep ==
  ASSUME TypeOK, ValidIsCurrent, [Next]_vars
  PROVE  ValidIsCurrent' /\ \A c \in Calls : valid[c] \subseteq valid'[c]
<1> USE DEF ValidIsCurrent, Running
<1>0. pc \in [Calls -> CallSteps] /\ valid \in [Calls -> SUBSET Names]
  BY DEF TypeOK
<1>1. ASSUME NEW c \in Calls, Begin(c) PROVE ValidIsCurrent' /\ \A d \in Calls : valid[d] \subseteq valid'[d]
  <2>1. accepted' = accepted /\ valid' = [valid EXCEPT ![c] = @ \cup accepted] /\ pc' = [pc EXCEPT ![c] = "lookup"]
    BY <1>1 DEF Begin, Goto
  <2> QED
    BY <1>0, <2>1
<1>2. ASSUME NEW c \in Calls, Call(c) PROVE ValidIsCurrent' /\ \A d \in Calls : valid[d] \subseteq valid'[d]
  <2>1. UNCHANGED <<accepted, valid>> /\ pc[c] \in Running
    BY <1>2 DEF Call, LookUp, Resolve, CreateType, GetFallback, RecordSuggestion, CommitCall
  <2>2. \A d \in Calls \ {c} : pc'[d] = pc[d]
    BY <1>0, <1>2 DEF Call, LookUp, Resolve, CreateType, GetFallback, RecordSuggestion, CommitCall, Fail, Goto
  <2> QED
    BY <2>1, <2>2
<1>3. CASE Witness
  BY <1>0, <1>3 DEF Witness, CallSteps
<1>4. CASE UNCHANGED <<accepted, valid, pc>>
  BY <1>4
<1> QED
  BY <1>1, <1>2, <1>3, <1>4 DEF Next, Review, BeginReview, ScanPending, UpdatePending, CommitReview, AdminEdits,
                                vars, callVars

\* What a call has resolved was accepted while it ran, until its commit and after.
LEMMA CallStep == TypeOK /\ CallInv /\ UnderReview /\ [Next]_vars => CallInv'
<1> SUFFICES ASSUME TypeOK, CallInv, UnderReview, [Next]_vars PROVE CallInv'
  OBVIOUS
<1>1. TypeOK' /\ ValidIsCurrent' /\ \A c \in Calls : valid[c] \subseteq valid'[c]
  BY TypeStep, ValidStep DEF CallInv
<1> HIDE DEF TypeOK
<1>2. SeenIsAccepted'
  <2>0. seen \in [Calls -> Found \cup {Nothing}]
    BY DEF TypeOK
  <2>1. ASSUME NEW c \in Calls, LookUp(c) PROVE SeenIsAccepted'
    <3>1. req[c].name \in Names
      BY DEF TypeOK, Requests
    <3>2. GetByName(c, req[c].name).is_accepted => GetByName(c, req[c].name).type \in valid[c]
      BY <2>1, <3>1, GetByNameType DEF CallInv, ValidIsCurrent, Running, LookUp
    <3> QED
      BY <2>0, <2>1, <3>2 DEF LookUp, CallInv, SeenIsAccepted
  <2>2. ASSUME NEW c \in Calls, Resolve(c) PROVE SeenIsAccepted'
    <3>1. SeenAgain(c).is_accepted => SeenAgain(c).type \in valid[c]
      BY <2>2, SeenAgainType DEF CallInv, Resolve, Running
    <3> QED
      BY <2>0, <2>2, <3>1 DEF Resolve, CallInv, SeenIsAccepted
  <2>3. CASE UNCHANGED seen
    BY <1>1, <2>3 DEF CallInv, SeenIsAccepted
  <2> QED
    BY <2>1, <2>2, <2>3 DEF Next, Call, Review, Begin, CreateType, GetFallback, RecordSuggestion, CommitCall,
                            BeginReview, ScanPending, UpdatePending, CommitReview, AdminEdits, Witness, vars, callVars
<1>3. ResolvedIsAccepted'
  <2>1. pc \in [Calls -> CallSteps] /\ resolved \in [Calls -> Names \cup {None}]
    BY DEF TypeOK
  <2>2. ASSUME NEW c \in Calls, Resolve(c) PROVE ResolvedIsAccepted'
    <3>1. SeenAgain(c).is_accepted => SeenAgain(c).type \in valid[c]
      BY <2>2, SeenAgainType DEF CallInv, Resolve, Running
    <3> QED
      BY <2>1, <2>2, <3>1 DEF Resolve, Goto, CallInv, ResolvedIsAccepted
  <2>3. ASSUME NEW c \in Calls, GetFallback(c) PROVE ResolvedIsAccepted'
    <3>1. Fallback \in Names /\ Upper[Fallback] = Fallback /\ seen[c] \in Found \cup {Nothing}
      BY NamesAssumption DEF TypeOK
    <3>2. GetByName(c, Fallback).is_accepted => Fallback \in accepted
      BY <3>1 DEF GetByName, Nothing
    <3>3. FallbackSeen(c).is_accepted => Fallback \in valid[c]
      BY <2>3, <3>2 DEF FallbackSeen, CallInv, SeenIsAccepted, ValidIsCurrent, Running, GetFallback
    <3> QED
      BY <2>1, <2>3, <3>3 DEF GetFallback, Fail, Goto, CallInv, ResolvedIsAccepted
  <2>4. ASSUME NEW c \in Calls, Begin(c) PROVE ResolvedIsAccepted'
    BY <1>1, <2>1, <2>4 DEF Begin, Goto, CallInv, ResolvedIsAccepted
  <2>5. ASSUME NEW c \in Calls, LookUp(c) \/ CreateType(c) PROVE ResolvedIsAccepted'
    BY <2>1, <2>5 DEF LookUp, CreateType, Fail, Goto, CallInv, ResolvedIsAccepted
  <2>6. ASSUME NEW c \in Calls, RecordSuggestion(c) \/ CommitCall(c) PROVE ResolvedIsAccepted'
    BY <2>1, <2>6 DEF RecordSuggestion, CommitCall, Goto, CallInv, ResolvedIsAccepted
  <2>7. CASE UNCHANGED <<pc, resolved>>
    BY <1>1, <2>7 DEF CallInv, ResolvedIsAccepted
  <2> QED
    BY <2>2, <2>3, <2>4, <2>5, <2>6, <2>7 DEF Next, Call, Review, BeginReview, ScanPending, UpdatePending,
                                              CommitReview, AdminEdits, Witness, vars, callVars
<1>4. RelationsUseAcceptedTypes'
  <2>1. ASSUME NEW c \in Calls, CommitCall(c) PROVE RelationsUseAcceptedTypes'
    BY <1>1, <2>1 DEF CommitCall, CallInv, ResolvedIsAccepted, RelationsUseAcceptedTypes
  <2>2. CASE UNCHANGED relations
    BY <1>1, <2>2 DEF CallInv, RelationsUseAcceptedTypes, TypeOK, Relations
  <2> QED
    BY <2>1, <2>2 DEF Next, Call, Review, Begin, LookUp, Resolve, CreateType, GetFallback, RecordSuggestion,
                      BeginReview, ScanPending, UpdatePending, CommitReview, AdminEdits, vars
<1> QED
  BY <1>1, <1>2, <1>3, <1>4 DEF CallInv

-----------------------------------------------------------------------------
\* The steps that touch neither the suggestions nor what is noted or held.
LEMMA OtherStep ==
  ASSUME TypeOK, ReviewInv, UNCHANGED <<suggestions, noted, held>>,
         \A s \in suggestions : pc[s.call] = "done" => pc'[s.call] = "done",
         types \subseteq types',
         \A r \in Reviews : rpc'[r] \in {"scan", "update", "commit"} =>
            target'[r] \in types' \/ (target'[r] = target[r] /\ rpc[r] \in {"scan", "update", "commit"})
  PROVE  ReviewInv'
BY DEF ReviewInv, UnderReview, NotedByCall, SuggestedWhenDone, OneRow, HeldPending, HeldOnce, AsPending

\* A suggestion keeps one row, and what a review holds stays pending, in every step.
LEMMA ReviewStep == TypeOK /\ ReviewInv /\ [Next]_vars => ReviewInv'
<1> SUFFICES ASSUME TypeOK, ReviewInv, [Next]_vars PROVE ReviewInv'
  OBVIOUS
<1>0. /\ pc \in [Calls -> CallSteps] /\ noted \in [Calls -> SUBSET Suggestions]
      /\ rpc \in [Reviews -> ReviewSteps] /\ target \in [Reviews -> Names \cup {None}]
      /\ held \in [Reviews -> SUBSET Suggestions] /\ scan \in [Reviews -> SUBSET Suggestions]
      /\ suggestions \subseteq Suggestions
      /\ \A s \in Suggestions : s.call \in Calls
  BY DEF TypeOK, Suggestions
<1>1. ASSUME NEW c \in Calls, Begin(c) \/ LookUp(c) \/ Resolve(c) PROVE ReviewInv'
  <2>1. UNCHANGED <<suggestions, types, rpc, target, held, noted>>
    BY <1>1 DEF Begin, LookUp, Resolve, reviewVars
  <2>2. \A d \in Calls : pc[d] = "done" => pc'[d] = "done"
    BY <1>0, <1>1 DEF Begin, LookUp, Resolve, Goto
  <2> QED
    BY <1>0, <2>1, <2>2, OtherStep
<1>2. ASSUME NEW c \in Calls, CreateType(c) \/ GetFallback(c) PROVE ReviewInv'
  <2>1. UNCHANGED <<suggestions, types, rpc, target, held>>
    BY <1>2 DEF CreateType, GetFallback, reviewVars
  <2>2. \A d \in Calls : pc[d] = "done" => pc'[d] = "done"
    BY <1>0, <1>2 DEF CreateType, GetFallback, Fail, Goto
  <2>3. noted' = noted \/ noted' = [noted EXCEPT ![c] = {}]
    BY <1>2 DEF CreateType, GetFallback, Fail
  <2>4. NotedByCall'
    BY <1>0, <2>3 DEF ReviewInv, NotedByCall
  <2> QED
    BY <1>0, <2>1, <2>2, <2>4 DEF ReviewInv, UnderReview, SuggestedWhenDone, OneRow, HeldPending, HeldOnce, AsPending
<1>3. ASSUME NEW c \in Calls, RecordSuggestion(c) PROVE ReviewInv'
  <2>1. UNCHANGED <<suggestions, types, rpc, target, held>>
    BY <1>3 DEF RecordSuggestion, reviewVars
  <2>2. \A d \in Calls : pc[d] = "done" => pc'[d] = "done"
    BY <1>0, <1>3 DEF RecordSuggestion, Goto
  <2>3. NotedByCall'
    <3>1. \/ noted' = [noted EXCEPT ![c] = {}]
          \/ noted' = [noted EXCEPT ![c] =
               {[call |-> c, type |-> SuggestionType(c), about |-> req[c].name, status |-> "pending"]}]
      BY <1>3 DEF RecordSuggestion
    <3> QED
      BY <1>0, <3>1 DEF ReviewInv, NotedByCall
  <2> QED
    BY <1>0, <2>1, <2>2, <2>3 DEF ReviewInv, UnderReview, SuggestedWhenDone, OneRow, HeldPending, HeldOnce, AsPending
<1>4. ASSUME NEW c \in Calls, CommitCall(c) PROVE ReviewInv'
  <2>1. /\ suggestions' = suggestions \cup noted[c]
        /\ noted' = [noted EXCEPT ![c] = {}]
        /\ pc[c] = "commit" /\ pc' = [pc EXCEPT ![c] = "done"]
        /\ types \subseteq types' /\ UNCHANGED <<rpc, target, held>>
    BY <1>4 DEF CommitCall, Goto, reviewVars
  <2>2. \A s \in noted[c] : s.call = c
    BY DEF ReviewInv, NotedByCall
  <2>3. \A s \in suggestions : s.call # c
    BY <2>1 DEF ReviewInv, SuggestedWhenDone
  <2>4. OneRow'
    <3> SUFFICES ASSUME NEW s \in suggestions', NEW t \in suggestions', AsPending(s) = AsPending(t)
                 PROVE  s = t
      BY DEF OneRow, AsPending
    <3>1. s.call = t.call
      BY DEF AsPending
    <3>2. (s \in suggestions /\ t \in suggestions) \/ (s \in noted[c] /\ t \in noted[c])
      BY <2>1, <2>2, <2>3, <3>1
    <3> QED
      BY <3>2 DEF ReviewInv, OneRow, NotedByCall
  <2>5. NotedByCall' /\ SuggestedWhenDone'
    BY <1>0, <2>1, <2>2 DEF ReviewInv, NotedByCall, SuggestedWhenDone
  <2>6. UnderReview' /\ HeldPending' /\ HeldOnce'
    BY <2>1 DEF ReviewInv, UnderReview, HeldPending, HeldOnce
  <2> QED
    BY <2>4, <2>5, <2>6 DEF ReviewInv
<1>5. ASSUME NEW r \in Reviews, BeginReview(r) \/ ScanPending(r) PROVE ReviewInv'
  <2>1. UNCHANGED <<suggestions, noted, held, pc, types>>
    BY <1>5 DEF BeginReview, ScanPending, callVars
  <2>2. \A o \in Reviews : rpc'[o] \in {"scan", "update", "commit"} =>
           target'[o] \in types \/ (target'[o] = target[o] /\ rpc[o] \in {"scan", "update", "commit"})
    BY <1>0, <1>5 DEF BeginReview, ScanPending, RGoto
  <2> QED
    BY <1>0, <2>1, <2>2, OtherStep
<1>6. ASSUME NEW r \in Reviews, UpdatePending(r) PROVE ReviewInv'
  <2>1. /\ UNCHANGED <<suggestions, noted, pc, types, target>>
        /\ rpc[r] = "update" /\ rpc' = [rpc EXCEPT ![r] = "commit"]
        /\ held' = [held EXCEPT ![r] = scan[r] \cap PendingOf(target[r])]
        /\ \A o \in Reviews \ {r} : held[o] \cap scan[r] = {}
    BY <1>6 DEF UpdatePending, RGoto, callVars
  <2>2. HeldPending'
    BY <1>0, <2>1 DEF ReviewInv, HeldPending, PendingOf
  <2>3. HeldOnce'
    BY <1>0, <2>1 DEF ReviewInv, HeldOnce
  <2>4. NotedByCall' /\ SuggestedWhenDone' /\ OneRow' /\ UnderReview'
    BY <1>0, <2>1 DEF ReviewInv, NotedByCall, SuggestedWhenDone, OneRow, UnderReview, AsPending
  <2> QED
    BY <2>2, <2>3, <2>4 DEF ReviewInv
<1>7. ASSUME NEW r \in Reviews, CommitReview(r) PROVE ReviewInv'
  <2> DEFINE Now(s) == Reviewed(s, held[r], verdict[r])
  <2>1. /\ UNCHANGED <<noted, pc, types, target>>
        /\ rpc[r] = "commit" /\ rpc' = [rpc EXCEPT ![r] = "done"]
        /\ suggestions' = {Now(s) : s \in suggestions}
        /\ held' = [held EXCEPT ![r] = {}]
    BY <1>7 DEF CommitReview, Witness, RGoto
  <2>2. ASSUME NEW s \in suggestions PROVE AsPending(Now(s)) = AsPending(s) /\ Now(s).call = s.call
    <3>1. s \in Suggestions
      BY <1>0
    <3> QED
      BY <3>1 DEF Reviewed, AsPending, Suggestions
  <2>3. OneRow'
    <3> SUFFICES ASSUME NEW s \in suggestions', NEW t \in suggestions', AsPending(s) = AsPending(t)
                 PROVE  s = t
      BY DEF OneRow, AsPending
    <3>1. PICK p \in suggestions : s = Now(p)
      BY <2>1
    <3>2. PICK q \in suggestions : t = Now(q)
      BY <2>1
    <3>3. AsPending(p) = AsPending(q)
      BY <3>1, <3>2, <2>2
    <3>4. p = q
      BY <3>3 DEF ReviewInv, OneRow
    <3> QED
      BY <3>1, <3>2, <3>4
  <2>4. HeldPending'
    <3> SUFFICES ASSUME NEW o \in Reviews, NEW s \in held'[o]
                 PROVE  s \in suggestions' /\ s.status = "pending"
      BY DEF HeldPending
    <3>1. o # r /\ s \in held[o]
      BY <1>0, <2>1
    <3>2. s \in suggestions /\ s.status = "pending" /\ s \notin held[r] /\ s \in Suggestions
      BY <1>0, <3>1 DEF ReviewInv, HeldPending, HeldOnce
    <3>3. [s EXCEPT !.status = "pending"] = s
      BY <3>2 DEF Suggestions
    <3>4. Now(s) = s
      BY <3>2, <3>3 DEF Reviewed
    <3> QED
      BY <2>1, <3>2, <3>4
  <2>5. SuggestedWhenDone'
    BY <2>1, <2>2 DEF ReviewInv, SuggestedWhenDone
  <2>6. NotedByCall' /\ UnderReview' /\ HeldOnce'
    BY <1>0, <2>1 DEF ReviewInv, NotedByCall, UnderReview, HeldOnce
  <2> QED
    BY <2>3, <2>4, <2>5, <2>6 DEF ReviewInv
<1>8. CASE UNCHANGED vars
  BY <1>8, OtherStep DEF vars, callVars, reviewVars, ReviewInv, UnderReview
<1>9. ASSUME NEW t \in Names, AdminEdits(t) PROVE ReviewInv'
  <2>1. UNCHANGED <<suggestions, noted, held, pc, types, rpc, target>>
    BY <1>9 DEF AdminEdits, Witness, reviewVars
  <2> QED
    BY <2>1, OtherStep
<1> QED
  BY <1>1, <1>2, <1>3, <1>4, <1>5, <1>6, <1>7, <1>8, <1>9 DEF Next, Call, Review

-----------------------------------------------------------------------------
IInv == TypeOK /\ CallInv /\ ReviewInv

\* The inductive invariant holds initially and is kept by every step.
LEMMA Invariance == Spec => []IInv
<1>1. Init => IInv
  <2> SUFFICES ASSUME Init PROVE IInv
    OBVIOUS
  <2> USE NamesAssumption DEF Init
  <2>1. TypeOK
    BY DEF TypeOK, Found, Nothing, Statuses, CallSteps, ReviewSteps
  <2>2. CallInv
    BY DEF CallInv, ValidIsCurrent, Running, SeenIsAccepted, ResolvedIsAccepted, RelationsUseAcceptedTypes, Nothing
  <2>3. ReviewInv
    BY DEF ReviewInv, UnderReview, NotedByCall, SuggestedWhenDone, OneRow, HeldPending, HeldOnce
  <2> QED
    BY <2>1, <2>2, <2>3 DEF IInv
<1>2. IInv /\ [Next]_vars => IInv'
  BY TypeStep, CallStep, ReviewStep DEF IInv, ReviewInv
<1> QED
  BY <1>1, <1>2, PTL DEF Spec

\* Every variable keeps its type, whatever calls and reviews do.
THEOREM TypeCorrect == Spec => []TypeOK
<1>1. IInv => TypeOK
  BY DEF IInv
<1> QED
  BY <1>1, Invariance, PTL

\* A relationship is only committed with a type that was accepted during its call.
THEOREM AcceptedTypesOnly == Spec => []RelationsUseAcceptedTypes
<1>1. IInv => RelationsUseAcceptedTypes
  BY DEF IInv, CallInv
<1> QED
  BY <1>1, Invariance, PTL

\* No review changes the verdict that another has given, however the two interleave.
THEOREM VerdictsStand == Spec => ReviewedForGood
<1> DEFINE Kept == \A s \in suggestions : s.status # "pending" => s \in suggestions'
<1>1. IInv /\ [Next]_vars => [Kept]_vars
  <2> SUFFICES ASSUME IInv, [Next]_vars, NEW s \in suggestions, s.status # "pending"
               PROVE  s \in suggestions'
    OBVIOUS
  <2>1. ASSUME NEW r \in Reviews, CommitReview(r) PROVE s \in suggestions'
    <3>1. s \in Suggestions
      BY DEF IInv, TypeOK
    <3>2. [s EXCEPT !.status = "pending"] \notin held[r]
      <4> SUFFICES ASSUME [s EXCEPT !.status = "pending"] \in held[r] PROVE FALSE
        OBVIOUS
      <4> DEFINE p == [s EXCEPT !.status = "pending"]
      <4>1. p \in suggestions
        BY DEF IInv, ReviewInv, HeldPending
      <4>2. AsPending(p) = AsPending(s) /\ p.status = "pending"
        BY <3>1 DEF AsPending, Suggestions
      <4>3. p = s
        BY <4>1, <4>2 DEF IInv, ReviewInv, OneRow
      <4> QED
        BY <4>2, <4>3
    <3>3. Reviewed(s, held[r], verdict[r]) = s
      BY <3>2 DEF Reviewed
    <3> QED
      BY <2>1, <3>3 DEF CommitReview
  <2>2. CASE suggestions \subseteq suggestions'
    BY <2>2
  <2> QED
    BY <2>1, <2>2 DEF Next, Call, Review, Begin, LookUp, Resolve, CreateType, GetFallback, RecordSuggestion,
                      CommitCall, BeginReview, ScanPending, UpdatePending, AdminEdits, vars
<1>2. Spec => [][Kept]_vars
  BY <1>1, Invariance, PTL DEF Spec
<1> QED
  BY <1>2 DEF ReviewedForGood

-----------------------------------------------------------------------------
(* The rows a review found stay found: none of them is pending again. *)

ReviewScan ==
  \A r \in Reviews :
     /\ rpc[r] \in {"scan", "update", "commit"} => verdict[r] # "pending"
     /\ \A s \in scan[r] : s.status = "pending" /\ pc[s.call] = "done"
     /\ rpc[r] = "update" => \A s \in scan[r] : s.type = target[r]
     /\ rpc[r] = "commit" => scan[r] \cap suggestions \subseteq held[r]
     /\ rpc[r] = "done" => scan[r] \cap suggestions = {}

\* A row whose call is done does not become pending.
LEMMA NoReturn ==
  ASSUME IInv, ReviewScan, [Next]_vars, NEW s \in suggestions', s.status = "pending",
         pc[s.call] = "done"
  PROVE  s \in suggestions
<1>1. ASSUME NEW c \in Calls, CommitCall(c) PROVE s \in suggestions
  <2>1. s \in suggestions \/ s \in noted[c]
    BY <1>1 DEF CommitCall
  <2>2. s \in noted[c] => s.call = c
    BY DEF IInv, ReviewInv, NotedByCall
  <2> QED
    BY <1>1, <2>1, <2>2 DEF CommitCall
<1>2. ASSUME NEW r \in Reviews, CommitReview(r) PROVE s \in suggestions
  <2>1. PICK p \in suggestions : s = Reviewed(p, held[r], verdict[r])
    BY <1>2 DEF CommitReview
  <2>2. p \in Suggestions /\ verdict[r] # "pending"
    BY <1>2 DEF IInv, TypeOK, ReviewScan, CommitReview
  <2>3. [p EXCEPT !.status = verdict[r]].status = verdict[r]
    BY <2>2 DEF Suggestions
  <2> QED
    BY <2>1, <2>2, <2>3 DEF Reviewed
<1>3. CASE UNCHANGED suggestions
  BY <1>3
<1> QED
  BY <1>1, <1>2, <1>3 DEF Next, Call, Review, Begin, LookUp, Resolve, CreateType, GetFallback, RecordSuggestion,
                          BeginReview, ScanPending, UpdatePending, AdminEdits, vars

LEMMA DoneStaysDone ==
  ASSUME TypeOK, [Next]_vars, NEW c \in Calls, pc[c] = "done" PROVE pc'[c] = "done"
<1>0. pc \in [Calls -> CallSteps]
  BY DEF TypeOK
<1>1. ASSUME NEW d \in Calls, Begin(d) \/ LookUp(d) \/ Resolve(d) PROVE pc'[c] = "done"
  BY <1>0, <1>1 DEF Begin, LookUp, Resolve, Goto
<1>2. ASSUME NEW d \in Calls, CreateType(d) \/ GetFallback(d) PROVE pc'[c] = "done"
  BY <1>0, <1>2 DEF CreateType, GetFallback, Fail, Goto
<1>3. ASSUME NEW d \in Calls, RecordSuggestion(d) \/ CommitCall(d) PROVE pc'[c] = "done"
  BY <1>0, <1>3 DEF RecordSuggestion, CommitCall, Goto
<1>4. CASE UNCHANGED pc
  BY <1>4
<1> QED
  BY <1>1, <1>2, <1>3, <1>4 DEF Next, Call, Review, BeginReview, ScanPending, UpdatePending, CommitReview,
                                AdminEdits, Witness, vars, callVars

LEMMA ReviewScanStep == ASSUME IInv, ReviewScan, [Next]_vars PROVE ReviewScan'
<1>0. /\ rpc \in [Reviews -> ReviewSteps] /\ verdict \in [Reviews -> Statuses]
      /\ scan \in [Reviews -> SUBSET Suggestions] /\ held \in [Reviews -> SUBSET Suggestions]
      /\ \A s \in Suggestions : s.call \in Calls
  BY DEF IInv, TypeOK, Suggestions
<1>1. \A c \in Calls : pc[c] = "done" => pc'[c] = "done"
  BY DoneStaysDone DEF IInv
<1>2. \A r \in Reviews : \A s \in scan[r] : s.status = "pending" /\ pc[s.call] = "done"
                                          /\ pc'[s.call] = "done"
  BY <1>0, <1>1 DEF ReviewScan
<1>3. \A r \in Reviews : scan[r] \cap suggestions' \subseteq suggestions
  BY <1>2, NoReturn
<1>4. CASE UNCHANGED <<rpc, target, verdict, scan, held>>
  BY <1>2, <1>3, <1>4 DEF ReviewScan
<1>5. ASSUME NEW r \in Reviews, BeginReview(r) PROVE ReviewScan'
  <2>1. PICK v \in {"accepted", "rejected"} : verdict' = [verdict EXCEPT ![r] = v]
    BY <1>5 DEF BeginReview
  <2>2. /\ UNCHANGED <<scan, held, suggestions>>
        /\ \A o \in Reviews \ {r} : rpc'[o] = rpc[o] /\ target'[o] = target[o]
        /\ rpc'[r] \notin {"update", "commit", "done"}
    BY <1>0, <1>5 DEF BeginReview, RGoto
  <2> QED
    BY <1>0, <1>2, <2>1, <2>2 DEF ReviewScan
<1>6. ASSUME NEW r \in Reviews, ScanPending(r) PROVE ReviewScan'
  <2>1. /\ UNCHANGED <<target, verdict, held, suggestions, pc>> /\ rpc[r] = "scan"
        /\ rpc' = [rpc EXCEPT ![r] = "update"]
        /\ scan' = [scan EXCEPT ![r] = PendingOf(target[r])]
    BY <1>6 DEF ScanPending, RGoto, callVars
  <2>2. \A s \in PendingOf(target[r]) : s.type = target[r] /\ s.status = "pending" /\ pc[s.call] = "done"
    BY DEF PendingOf, IInv, ReviewInv, SuggestedWhenDone
  <2> QED
    BY <1>0, <2>1, <2>2 DEF ReviewScan
<1>7. ASSUME NEW r \in Reviews, UpdatePending(r) PROVE ReviewScan'
  <2>1. /\ UNCHANGED <<target, verdict, scan, suggestions, pc>> /\ rpc[r] = "update"
        /\ rpc' = [rpc EXCEPT ![r] = "commit"]
        /\ held' = [held EXCEPT ![r] = scan[r] \cap PendingOf(target[r])]
    BY <1>7 DEF UpdatePending, RGoto, callVars
  <2>2. scan[r] \cap suggestions \subseteq PendingOf(target[r])
    BY <1>2, <2>1 DEF PendingOf, ReviewScan
  <2> QED
    BY <1>0, <1>2, <2>1, <2>2 DEF ReviewScan
<1>8. ASSUME NEW r \in Reviews, CommitReview(r) PROVE ReviewScan'
  <2>1. /\ UNCHANGED <<target, verdict, scan>> /\ rpc[r] = "commit"
        /\ rpc' = [rpc EXCEPT ![r] = "done"] /\ held' = [held EXCEPT ![r] = {}]
        /\ suggestions' = {Reviewed(s, held[r], verdict[r]) : s \in suggestions}
    BY <1>8 DEF CommitReview, Witness, RGoto
  <2>2. ASSUME NEW s \in scan[r], s \in suggestions' PROVE FALSE
    <3>1. s \in suggestions /\ s \in held[r] /\ s \in Suggestions /\ s.status = "pending"
      BY <1>0, <1>2, <1>3, <2>1, <2>2 DEF ReviewScan
    <3>2. PICK p \in suggestions : s = Reviewed(p, held[r], verdict[r])
      BY <2>1, <2>2
    <3>3. p \in Suggestions /\ verdict[r] # "pending"
      BY <2>1 DEF IInv, TypeOK, ReviewScan
    <3>4. AsPending(p) = AsPending(s)
      BY <3>1, <3>2, <3>3 DEF Reviewed, AsPending, Suggestions
    <3>5. p = s
      BY <3>1, <3>4 DEF IInv, ReviewInv, OneRow
    <3>6. [s EXCEPT !.status = "pending"] = s /\ [s EXCEPT !.status = verdict[r]].status = verdict[r]
      BY <3>1 DEF Suggestions
    <3> QED
      BY <3>1, <3>2, <3>3, <3>5, <3>6 DEF Reviewed
  <2> QED
    BY <1>0, <1>2, <1>3, <2>1, <2>2 DEF ReviewScan
<1> QED
  BY <1>4, <1>5, <1>6, <1>7, <1>8 DEF Next, Call, Review, Begin, LookUp, Resolve, CreateType, GetFallback,
     RecordSuggestion, CommitCall, AdminEdits, vars, reviewVars

\* A review that is done has settled all the suggestions its UPDATE found, also those
\* for which it waited for another review.
THEOREM ReviewsAreComplete == Spec => []ReviewIsComplete
<1>1. Init => ReviewScan
  BY DEF Init, ReviewScan
<1>2. IInv /\ ReviewScan /\ [Next]_vars => ReviewScan'
  BY ReviewScanStep
<1>3. ReviewScan => ReviewIsComplete
  BY DEF ReviewScan, ReviewIsComplete
<1> QED
  BY <1>1, <1>2, <1>3, Invariance, PTL DEF Spec

=============================================================================
