----------------------- MODULE RelationTypesCallProofs -----------------------
(***************************************************************************)
(* Proofs about one call of resolve_and_create_relationship, between all   *)
(* that other calls, reviews and the administrator do: it is atomic, it    *)
(* uses the accepted type it was asked for, and where it falls back it     *)
(* leaves the suggestion and the type.  Each follows a call through its    *)
(* steps: what it has loaded and created stays in step with what it was    *)
(* asked (Traced), and a type that is accepted throughout is the one it    *)
(* loads and resolves to (Used).                                           *)
(*                                                                         *)
(* Then about all of them: who holds a name or a row has only the commit   *)
(* to do (HeldUntilCommit), and calls and reviews refer to types that      *)
(* exist (RefersInv), which makes each commit a step of RelationCuration.  *)
(***************************************************************************)
EXTENDS RelationTypesProofs, FiniteSetTheorems

Asked(c)  == req[c].name
Stored(c) == Upper[req[c].name]

\* The suggestion of c is among the rows.
LeftIn(c, rows) == req[c].message /\ resolved[c] # Stored(c) => \E s \in rows : s.call = c /\ s.about = Asked(c)

Traced(c) ==
  /\ created[c] # None => created[c] = Asked(c) /\ pc[c] \in {"fallback", "suggest", "commit"}
  /\ pc[c] \in {"idle", "lookup"} => seen[c] = Nothing
  /\ seen[c] # Nothing => seen[c].type = Stored(c) /\ Stored(c) \in types
  /\ pc[c] \in {"fallback", "suggest", "commit"} => created[c] = Asked(c) \/ Stored(c) \in types
  /\ pc[c] = "done" => Asked(c) \in types \/ Stored(c) \in types
  /\ pc[c] = "commit" => LeftIn(c, noted[c])
  /\ pc[c] = "done" => LeftIn(c, suggestions)

\* The type that c asks for, by its stored name, has been accepted since c began.
Entitled(c) == usable[c] /\ Asked(c) = Stored(c)

Used(c) ==
  /\ pc[c] \in Running /\ usable[c] => Asked(c) \in accepted
  /\ Entitled(c) /\ pc[c] = "resolve" => seen[c].is_accepted /\ seen[c].type = Asked(c)
  /\ Entitled(c) => pc[c] \notin {"create", "fallback", "failed"}
  /\ Entitled(c) /\ pc[c] \in {"suggest", "commit", "done"} => resolved[c] = Asked(c)

\* A call has one row of each kind, and a relation exactly when it is done.
RelatedWhenDone == \A c \in Calls : (\E x \in relations : x.call = c) <=> pc[c] = "done"
OneRelation     == \A x, y \in relations : x.call = y.call => x = y
OneSuggestion   == \A s, t \in suggestions : s.call = t.call => s = t

RowsInv == RelatedWhenDone /\ OneRelation /\ OneSuggestion

CallsInv == RowsInv /\ \A c \in Calls : Traced(c) /\ Used(c)

-----------------------------------------------------------------------------
(* What a step leaves alone. *)

CallAction(c) == Begin(c) \/ Call(c)

\* Nothing is asked anew and no type goes away; a suggestion keeps its call and name.
LEMMA Lasting ==
  ASSUME IInv, [Next]_vars
  PROVE  /\ req' = req /\ types \subseteq types'
         /\ \A s \in suggestions : \E t \in suggestions' : t.call = s.call /\ t.about = s.about
<1>1. req' = req /\ types \subseteq types'
  BY DEF Next, Call, Review, Begin, LookUp, Resolve, CreateType, GetFallback, RecordSuggestion, CommitCall,
         BeginReview, ScanPending, UpdatePending, CommitReview, AdminEdits, Witness, vars, callVars
<1>2. ASSUME NEW r \in Reviews, CommitReview(r), NEW s \in suggestions
      PROVE  \E t \in suggestions' : t.call = s.call /\ t.about = s.about
  <2>1. s \in Suggestions
    BY DEF IInv, TypeOK
  <2>2. Reviewed(s, held[r], verdict[r]).call = s.call /\ Reviewed(s, held[r], verdict[r]).about = s.about
    BY <2>1 DEF Reviewed, Suggestions
  <2> QED
    BY <1>2, <2>2 DEF CommitReview
<1>3. (\E r \in Reviews : CommitReview(r)) \/ suggestions \subseteq suggestions'
  BY DEF Next, Call, Review, Begin, LookUp, Resolve, CreateType, GetFallback, RecordSuggestion, CommitCall,
         BeginReview, ScanPending, UpdatePending, AdminEdits, vars
<1> QED
  BY <1>1, <1>2, <1>3

\* A step of a call leaves the other calls and what is accepted alone.
LEMMA CallFrame ==
  ASSUME TypeOK, NEW c \in Calls, CallAction(c)
  PROVE  /\ \A d \in Calls \ {c} : /\ pc'[d] = pc[d] /\ seen'[d] = seen[d] /\ created'[d] = created[d]
                                  /\ resolved'[d] = resolved[d] /\ noted'[d] = noted[d] /\ usable'[d] = usable[d]
         /\ accepted' = accepted
<1>1. \A d \in Calls \ {c} : pc'[d] = pc[d]
  BY DEF TypeOK, CallAction, Call, Begin, LookUp, Resolve, CreateType, GetFallback, RecordSuggestion, CommitCall, Fail, Goto
<1>2. \A d \in Calls \ {c} : created'[d] = created[d] /\ noted'[d] = noted[d]
  BY DEF TypeOK, CallAction, Call, Begin, LookUp, Resolve, CreateType, GetFallback, RecordSuggestion, CommitCall, Fail
<1>3. \A d \in Calls \ {c} : seen'[d] = seen[d] /\ resolved'[d] = resolved[d] /\ usable'[d] = usable[d]
  BY DEF TypeOK, CallAction, Call, Begin, LookUp, Resolve, CreateType, GetFallback, RecordSuggestion, CommitCall
<1>4. accepted' = accepted
  BY DEF CallAction, Call, Begin, LookUp, Resolve, CreateType, GetFallback, RecordSuggestion, CommitCall
<1> QED
  BY <1>1, <1>2, <1>3, <1>4

\* A call stays in step as long as it does nothing itself.
LEMMA OtherCall ==
  ASSUME NEW d \in Calls, Traced(d), Used(d),
         pc'[d] = pc[d], req' = req, seen'[d] = seen[d], created'[d] = created[d],
         resolved'[d] = resolved[d], noted'[d] = noted[d],
         types \subseteq types', usable'[d] => usable[d],
         pc[d] \in Running /\ usable'[d] => Asked(d) \in accepted',
         \A s \in suggestions : \E t \in suggestions' : t.call = s.call /\ t.about = s.about
  PROVE  Traced(d)' /\ Used(d)'
<1>1. Asked(d)' = Asked(d) /\ Stored(d)' = Stored(d)
  BY DEF Asked, Stored
<1>2. LeftIn(d, noted[d])' <=> LeftIn(d, noted[d])
  BY <1>1 DEF LeftIn
<1>3. LeftIn(d, suggestions) => LeftIn(d, suggestions)'
  BY <1>1 DEF LeftIn
<1>4. Traced(d)'
  BY <1>1, <1>2, <1>3 DEF Traced
<1>5. Used(d)'
  BY <1>1 DEF Used, Entitled
<1> QED
  BY <1>4, <1>5

-----------------------------------------------------------------------------
(* The steps of a call. *)

\* A call that has created nothing finds the stored name, if it finds anything, and
\* finds it accepted if it is.
LEMMA LookUpFinds ==
  ASSUME TypeOK, NEW c \in Calls, created[c] = None
  PROVE  /\ GetByName(c, Asked(c)) # Nothing =>
               GetByName(c, Asked(c)).type = Stored(c) /\ Stored(c) \in types
         /\ Stored(c) \in accepted =>
               /\ GetByName(c, Asked(c)) # Nothing
               /\ GetByName(c, Asked(c)).is_accepted
<1>1. Asked(c) \in Names /\ Stored(c) \in Names /\ None \notin Names /\ accepted \subseteq types
  BY NamesAssumption DEF TypeOK, Requests, Asked, Stored
<1>2. CASE Stored(c) \in types
  <2>1. GetByName(c, Asked(c)) = [type |-> Stored(c), is_accepted |-> Stored(c) \in accepted]
    BY <1>2 DEF GetByName, Asked, Stored
  <2>2. GetByName(c, Asked(c)) # Nothing
    BY <1>1, <2>1 DEF Nothing
  <2>3. GetByName(c, Asked(c)).type = Stored(c)
    BY <2>1
  <2>4. ASSUME Stored(c) \in accepted PROVE GetByName(c, Asked(c)).is_accepted
    <3>1. (Stored(c) \in accepted) = TRUE
      BY <2>4
    <3>2. GetByName(c, Asked(c)) = [type |-> Stored(c), is_accepted |-> TRUE]
      BY <2>1, <3>1, Zenon
    <3> QED
      BY <3>2
  <2> QED
    BY <1>2, <2>2, <2>3, <2>4
<1>3. CASE Stored(c) \notin types
  <2>1. Stored(c) \notin types \cup {created[c]}
    BY <1>1, <1>3
  <2> QED
    BY <1>1, <1>3, <2>1 DEF GetByName, Asked, Stored
<1> QED
  BY <1>2, <1>3

LEMMA OwnStep ==
  ASSUME IInv, NEW c \in Calls, Traced(c), Used(c), CallAction(c)
  PROVE  Traced(c)' /\ Used(c)'
<1>0. TypeOK /\ CallInv
  BY DEF IInv
<1>1. req' = req /\ accepted' = accepted /\ types \subseteq types'
  BY DEF CallAction, Call, Begin, LookUp, Resolve, CreateType, GetFallback, RecordSuggestion, CommitCall
<1>2. Asked(c)' = Asked(c) /\ Stored(c)' = Stored(c) /\ Asked(c) = req[c].name /\ Stored(c) = Upper[req[c].name]
  BY <1>1 DEF Asked, Stored
<1>3. Asked(c) \in Names /\ Stored(c) \in Names /\ None \notin Names /\ accepted \subseteq types
  BY <1>0, NamesAssumption DEF TypeOK, Requests, Asked, Stored
<1>4. Nothing.type = None /\ Nothing.is_accepted = FALSE
  BY DEF Nothing
<1>5. CASE Begin(c)
  <2>1. /\ pc[c] = "idle" /\ pc'[c] = "lookup" /\ created'[c] = created[c] /\ seen'[c] = seen[c]
        /\ usable'[c] => Asked(c) \in accepted
    BY <1>0, <1>2, <1>5 DEF Begin, Goto, TypeOK
  <2>2. created[c] = None /\ seen[c] = Nothing
    BY <2>1 DEF Traced
  <2>3. Traced(c)'
    BY <2>1, <2>2 DEF Traced
  <2>4. Used(c)'
    BY <1>1, <1>2, <2>1 DEF Used, Entitled
  <2> QED BY <2>3, <2>4
<1>6. CASE LookUp(c)
  <2>1. /\ pc[c] = "lookup" /\ pc'[c] = "resolve" /\ created'[c] = created[c] /\ types' = types
        /\ seen'[c] = GetByName(c, Asked(c)) /\ usable'[c] = usable[c]
    BY <1>0, <1>2, <1>6 DEF LookUp, Goto, TypeOK
  <2>2. created[c] = None
    BY <2>1 DEF Traced
  <2>3. Traced(c)'
    BY <1>0, <1>2, <2>1, <2>2, LookUpFinds DEF Traced
  <2>4. usable[c] => Asked(c) \in accepted
    BY <2>1 DEF Used, Running
  <2>5. Asked(c) = Stored(c) /\ Asked(c) \in accepted =>
          GetByName(c, Asked(c)).is_accepted /\ GetByName(c, Asked(c)).type = Asked(c)
    BY <1>0, <2>2, LookUpFinds
  <2>6. Used(c)'
    BY <1>1, <1>2, <2>1, <2>4, <2>5 DEF Used, Entitled
  <2> QED BY <2>3, <2>6
<1>7. CASE Resolve(c)
  <2>1. /\ pc[c] = "resolve" /\ created'[c] = created[c] /\ types' = types
        /\ seen'[c] = SeenAgain(c) /\ usable'[c] = usable[c]
    BY <1>0, <1>7 DEF Resolve, TypeOK
  <2>2. created[c] = None
    BY <2>1 DEF Traced
  <2>3. SeenAgain(c) # Nothing => SeenAgain(c).type = Stored(c) /\ Stored(c) \in types
    BY <1>0, <1>2, <2>2, LookUpFinds DEF SeenAgain, Traced
  <2>4. \/ pc'[c] = "suggest" /\ SeenAgain(c).is_accepted /\ resolved'[c] = SeenAgain(c).type
        \/ pc'[c] = "create" /\ SeenAgain(c) = Nothing
        \/ pc'[c] = "fallback" /\ SeenAgain(c) # Nothing /\ ~ SeenAgain(c).is_accepted
    BY <1>0, <1>7 DEF Resolve, Goto, TypeOK
  <2>5. Traced(c)'
    BY <1>2, <1>4, <2>1, <2>2, <2>3, <2>4 DEF Traced
  <2>6. Entitled(c) => SeenAgain(c).is_accepted /\ SeenAgain(c).type = Asked(c)
    BY <1>4, <2>1 DEF Used, SeenAgain
  <2>7. Used(c)'
    BY <1>1, <1>2, <1>4, <2>1, <2>4, <2>6 DEF Used, Entitled, Running
  <2> QED BY <2>5, <2>7
<1>8. CASE CreateType(c)
  <2>1. /\ pc[c] = "create" /\ types' = types /\ seen'[c] = seen[c] /\ usable'[c] = usable[c]
        /\ \/ pc'[c] = "fallback" /\ created'[c] = Asked(c)
           \/ pc'[c] = "failed" /\ created'[c] = None
    BY <1>0, <1>2, <1>8 DEF CreateType, Fail, Goto, TypeOK
  <2>2. ~ Entitled(c)
    BY <2>1 DEF Used
  <2>3. Traced(c)'
    BY <1>2, <2>1 DEF Traced
  <2>4. Used(c)'
    BY <1>1, <1>2, <2>1, <2>2 DEF Used, Entitled, Running
  <2> QED BY <2>3, <2>4
<1>9. CASE GetFallback(c)
  <2>1. /\ pc[c] = "fallback" /\ types' = types /\ seen'[c] = seen[c] /\ usable'[c] = usable[c]
        /\ \/ pc'[c] = "suggest" /\ created'[c] = created[c]
           \/ pc'[c] = "failed" /\ created'[c] = None
    BY <1>0, <1>9 DEF GetFallback, Fail, Goto, TypeOK
  <2>2. ~ Entitled(c)
    BY <2>1 DEF Used
  <2>3. Traced(c)'
    BY <1>2, <2>1 DEF Traced
  <2>4. Used(c)'
    BY <1>1, <1>2, <2>1, <2>2 DEF Used, Entitled, Running
  <2> QED BY <2>3, <2>4
<1>10. CASE RecordSuggestion(c)
  <2>1. /\ pc[c] = "suggest" /\ pc'[c] = "commit" /\ types' = types /\ seen'[c] = seen[c]
        /\ usable'[c] = usable[c] /\ created'[c] = created[c] /\ resolved'[c] = resolved[c]
    BY <1>0, <1>10 DEF RecordSuggestion, Goto, TypeOK
  <2>2. LeftIn(c, noted[c])'
    <3> DEFINE row == [call |-> c, type |-> SuggestionType(c), about |-> req[c].name, status |-> "pending"]
    <3>1. noted'[c] = IF req[c].message /\ Stored(c) # resolved[c] THEN {row} ELSE {}
      BY <1>0, <1>2, <1>10 DEF RecordSuggestion, TypeOK
    <3>2. row.call = c /\ row.about = Asked(c)
      BY <1>2
    <3> HIDE DEF row
    <3> QED
      BY <1>1, <1>2, <2>1, <3>1, <3>2 DEF LeftIn
  <2>3. Traced(c)'
    BY <1>2, <2>1, <2>2 DEF Traced
  <2>4. Used(c)'
    BY <1>1, <1>2, <2>1 DEF Used, Entitled, Running
  <2> QED BY <2>3, <2>4
<1>11. CASE CommitCall(c)
  <2>1. /\ pc[c] = "commit" /\ pc'[c] = "done" /\ seen'[c] = seen[c] /\ usable'[c] = usable[c]
        /\ resolved'[c] = resolved[c] /\ created'[c] = None
        /\ types' = types \cup ({created[c]} \ {None}) /\ suggestions' = suggestions \cup noted[c]
    BY <1>0, <1>11 DEF CommitCall, Goto, TypeOK
  <2>2. LeftIn(c, suggestions)'
    BY <1>1, <1>2, <2>1 DEF Traced, LeftIn
  <2>3. Asked(c) \in types' \/ Stored(c) \in types'
    BY <1>3, <2>1 DEF Traced
  <2>4. Traced(c)'
    BY <1>1, <1>2, <2>1, <2>2, <2>3 DEF Traced
  <2>5. Used(c)'
    BY <1>1, <1>2, <2>1 DEF Used, Entitled, Running
  <2> QED BY <2>4, <2>5
<1> QED
  BY <1>5, <1>6, <1>7, <1>8, <1>9, <1>10, <1>11 DEF CallAction, Call

-----------------------------------------------------------------------------
(* The rows of a call. *)

\* A call is done by its commit and by nothing else.
LEMMA DoneByCommit ==
  ASSUME IInv, [Next]_vars, NEW c \in Calls
  PROVE  pc'[c] = "done" <=> pc[c] = "done" \/ CommitCall(c)
<1>0. TypeOK
  BY DEF IInv
<1>1. CommitCall(c) => pc'[c] = "done"
  BY <1>0 DEF CommitCall, Goto, TypeOK
<1>2. pc[c] = "done" => pc'[c] = "done"
  BY <1>0, DoneStaysDone
<1>3. ASSUME NEW d \in Calls, CallAction(d), pc'[c] = "done" PROVE pc[c] = "done" \/ CommitCall(c)
  <2>1. CASE c = d
    BY <1>0, <1>3, <2>1 DEF CallAction, Call, Begin, LookUp, Resolve, CreateType, GetFallback, RecordSuggestion,
                            Fail, Goto, TypeOK
  <2>2. CASE c # d
    BY <1>0, <1>3, <2>2, CallFrame
  <2> QED BY <2>1, <2>2
<1>4. (\E d \in Calls : CallAction(d)) \/ UNCHANGED pc
  BY DEF CallAction, Next, Review, BeginReview, ScanPending, UpdatePending, CommitReview, AdminEdits, Witness,
         vars, callVars
<1> QED
  BY <1>1, <1>2, <1>3, <1>4

LEMMA RowsStep == ASSUME IInv, RowsInv, [Next]_vars PROVE RowsInv'
<1>0. /\ relations \subseteq Relations /\ suggestions \subseteq Suggestions
      /\ SuggestedWhenDone /\ NotedByCall
  BY DEF IInv, TypeOK, ReviewInv
<1>1. \A c \in Calls : pc'[c] = "done" <=> pc[c] = "done" \/ CommitCall(c)
  BY DoneByCommit
<1>2. ASSUME NEW c \in Calls, CommitCall(c) PROVE RowsInv'
  <2>1. /\ pc[c] = "commit" /\ suggestions' = suggestions \cup noted[c]
        /\ relations' = relations \cup {[call |-> c, type |-> resolved[c]]}
    BY <1>2 DEF CommitCall
  <2>2. \A d \in Calls \ {c} : pc'[d] = pc[d]
    BY <1>2, CallFrame DEF CallAction, Call, IInv
  <2>3. pc'[c] = "done"
    BY <1>1, <1>2
  <2>4. ~ \E x \in relations : x.call = c
    BY <2>1 DEF RowsInv, RelatedWhenDone
  <2> DEFINE row == [call |-> c, type |-> resolved[c]]
  <2>a. row.call = c /\ relations' = relations \cup {row}
    BY <2>1
  <2> HIDE DEF row
  <2>5. RelatedWhenDone'
    <3>1. ASSUME NEW d \in Calls \ {c} PROVE (\E x \in relations' : x.call = d) <=> pc'[d] = "done"
      BY <2>2, <2>a DEF RowsInv, RelatedWhenDone
    <3>2. \E x \in relations' : x.call = c
      BY <2>a
    <3> QED
      BY <2>3, <3>1, <3>2 DEF RelatedWhenDone
  <2>6. OneRelation'
    BY <2>4, <2>a DEF RowsInv, OneRelation
  <2>7. (\A s \in suggestions : s.call # c) /\ \A s, t \in noted[c] : s.call = c /\ s = t
    BY <1>0, <2>1 DEF SuggestedWhenDone, NotedByCall
  <2>8. OneSuggestion'
    BY <2>1, <2>7 DEF RowsInv, OneSuggestion
  <2> QED BY <2>5, <2>6, <2>8 DEF RowsInv
<1>3. ASSUME NEW r \in Reviews, CommitReview(r) PROVE RowsInv'
  <2>1. /\ relations' = relations /\ pc' = pc
        /\ suggestions' = {Reviewed(s, held[r], verdict[r]) : s \in suggestions}
    BY <1>3 DEF CommitReview, Witness
  <2>2. ASSUME NEW s \in suggestions PROVE Reviewed(s, held[r], verdict[r]).call = s.call
    <3>1. s \in Suggestions
      BY <1>0
    <3> QED
      BY <3>1 DEF Reviewed, Suggestions
  <2>3. OneSuggestion'
    BY <2>1, <2>2 DEF RowsInv, OneSuggestion
  <2> QED
    BY <2>1, <2>3 DEF RowsInv, RelatedWhenDone, OneRelation
<1>4. ASSUME UNCHANGED <<relations, suggestions>>, \A c \in Calls : ~ CommitCall(c) PROVE RowsInv'
  BY <1>1, <1>4 DEF RowsInv, RelatedWhenDone, OneRelation, OneSuggestion
<1>5. \/ \E c \in Calls : CommitCall(c)
      \/ \E r \in Reviews : CommitReview(r)
      \/ UNCHANGED <<relations, suggestions>>
  BY DEF Next, Call, Review, Begin, LookUp, Resolve, CreateType, GetFallback, RecordSuggestion,
         BeginReview, ScanPending, UpdatePending, AdminEdits, vars
<1> QED
  BY <1>2, <1>3, <1>4, <1>5

\* Every call stays in step with what it was asked, whoever moves.
LEMMA CallsStep == ASSUME IInv, CallsInv, [Next]_vars PROVE CallsInv'
<1>0. TypeOK
  BY DEF IInv
<1>1. RowsInv'
  BY RowsStep DEF CallsInv
<1>2. ASSUME NEW c \in Calls, CallAction(c), NEW d \in Calls PROVE Traced(d)' /\ Used(d)'
  <2>0. Traced(d) /\ Used(d)
    BY DEF CallsInv
  <2>1. CASE d = c
    BY <1>2, <2>0, <2>1, OwnStep
  <2>2. CASE d # c
    <3>1. pc[d] \in Running /\ usable[d] => Asked(d) \in accepted
      BY <2>0 DEF Used
    <3> QED
      BY <1>0, <1>2, <2>0, <2>2, <3>1, CallFrame, Lasting, OtherCall
  <2> QED BY <2>1, <2>2
<1>3. ASSUME Witness, NEW d \in Calls PROVE Traced(d)' /\ Used(d)'
  <2>1. Traced(d) /\ Used(d)
    BY DEF CallsInv
  <2>2. usable'[d] => usable[d] /\ Asked(d) \in accepted'
    BY <1>3 DEF Witness, Asked
  <2>3. UNCHANGED <<pc, seen, created, resolved, noted>>
    BY <1>3 DEF Witness
  <2> QED
    BY <2>1, <2>2, <2>3, Lasting, OtherCall
<1>4. ASSUME UNCHANGED <<accepted, callVars>>, NEW d \in Calls PROVE Traced(d)' /\ Used(d)'
  <2>1. Traced(d) /\ Used(d)
    BY DEF CallsInv
  <2>2. pc[d] \in Running /\ usable[d] => Asked(d) \in accepted
    BY <2>1 DEF Used
  <2> QED
    BY <1>4, <2>1, <2>2, Lasting, OtherCall DEF callVars
<1>5. (\E c \in Calls : CallAction(c)) \/ Witness \/ UNCHANGED <<accepted, callVars>>
  BY DEF CallAction, Next, Review, BeginReview, ScanPending, UpdatePending, CommitReview, AdminEdits, vars
<1> QED
  BY <1>1, <1>2, <1>3, <1>4, <1>5 DEF CallsInv

LEMMA CallsInvariance == Spec => []CallsInv
<1>1. Init => CallsInv
  <2> SUFFICES ASSUME Init PROVE CallsInv
    OBVIOUS
  <2>1. ASSUME NEW c \in Calls PROVE Traced(c) /\ Used(c)
    BY DEF Init, Traced, Used, Entitled, Running
  <2>2. RowsInv
    BY DEF Init, RowsInv, RelatedWhenDone, OneRelation, OneSuggestion
  <2> QED BY <2>1, <2>2 DEF CallsInv
<1>2. IInv /\ CallsInv /\ [Next]_vars => CallsInv'
  BY CallsStep
<1> QED
  BY <1>1, <1>2, Invariance, PTL DEF Spec

-----------------------------------------------------------------------------
\* A call that is done without the type it was asked for leaves the suggestion for a
\* review, and a type of that name, whatever happened to the type meanwhile.
THEOREM FallbacksLeaveTraces == Spec => []FallbackLeavesTrace
<1>1. CallsInv => FallbackLeavesTrace
  BY DEF CallsInv, Traced, LeftIn, Asked, Stored, FallbackLeavesTrace
<1> QED
  BY <1>1, CallsInvariance, PTL

\* A call that asks for an accepted type by its stored name gets it and does not fail,
\* unless the type loses its acceptance before the call ends.
THEOREM AcceptedTypesAreUsed == Spec => []AcceptedTypeIsUsed
<1>1. CallsInv => AcceptedTypeIsUsed
  BY DEF CallsInv, Used, Entitled, Asked, Stored, AcceptedTypeIsUsed
<1> QED
  BY <1>1, CallsInvariance, PTL

\* Two sets of at most one element each have two between them.
LEMMA AtMostTwo ==
  ASSUME NEW S, NEW T, \A x, y \in S : x = y, \A x, y \in T : x = y
  PROVE  Cardinality(S \cup T) <= 2
<1>1. PICK a : S \subseteq {a}
  OBVIOUS
<1>2. PICK b : T \subseteq {b}
  OBVIOUS
<1>3. IsFiniteSet({}) /\ Cardinality({}) = 0
  BY FS_EmptySet
<1>4. IsFiniteSet({a}) /\ Cardinality({a}) = 1
  BY FS_Singleton
<1>5. IsFiniteSet({a} \cup {b}) /\ Cardinality({a} \cup {b}) <= 2
  BY <1>4, FS_AddElement
<1>6. Cardinality(S \cup T) <= Cardinality({a} \cup {b}) /\ Cardinality(S \cup T) \in Nat
  BY <1>1, <1>2, <1>5, FS_Subset, FS_CardinalityType
<1>7. Cardinality({a} \cup {b}) \in Nat
  BY <1>5, FS_CardinalityType
<1> QED
  BY <1>5, <1>6, <1>7

\* A call relates its entities once, with at most one suggestion, or leaves nothing.
THEOREM CallsAreAtomic == Spec => []CallIsAtomic
<1>1. IInv /\ CallsInv => CallIsAtomic
  <2> SUFFICES ASSUME IInv, CallsInv, NEW c \in Calls
               PROVE  /\ (\E x \in relations : x.call = c) <=> pc[c] = "done"
                      /\ (\E s \in suggestions : s.call = c) => pc[c] = "done"
                      /\ Cardinality({x \in relations : x.call = c} \cup {s \in suggestions : s.call = c}) <= 2
    BY DEF CallIsAtomic
  <2>1. (\E x \in relations : x.call = c) <=> pc[c] = "done"
    BY DEF CallsInv, RowsInv, RelatedWhenDone
  <2>2. (\E s \in suggestions : s.call = c) => pc[c] = "done"
    BY DEF IInv, ReviewInv, SuggestedWhenDone
  <2>3. \A x, y \in {z \in relations : z.call = c} : x = y
    BY DEF CallsInv, RowsInv, OneRelation
  <2>4. \A x, y \in {s \in suggestions : s.call = c} : x = y
    BY DEF CallsInv, RowsInv, OneSuggestion
  <2> QED BY <2>1, <2>2, <2>3, <2>4, AtMostTwo
<1> QED
  BY <1>1, Invariance, CallsInvariance, PTL

-----------------------------------------------------------------------------
(* Who holds something is about to commit. *)

HeldUntilCommit == \A r \in Reviews : held[r] # {} => rpc[r] = "commit"

LEMMA HeldStep == ASSUME TypeOK, HeldUntilCommit, [Next]_vars PROVE HeldUntilCommit'
<1>0. rpc \in [Reviews -> ReviewSteps] /\ held \in [Reviews -> SUBSET Suggestions]
  BY DEF TypeOK
<1>1. ASSUME NEW r \in Reviews, BeginReview(r) \/ ScanPending(r) PROVE HeldUntilCommit'
  <2>1. rpc[r] # "commit" /\ held' = held /\ \A o \in Reviews \ {r} : rpc'[o] = rpc[o]
    BY <1>0, <1>1 DEF BeginReview, ScanPending, RGoto
  <2> QED
    BY <2>1 DEF HeldUntilCommit
<1>2. ASSUME NEW r \in Reviews, UpdatePending(r) \/ CommitReview(r) PROVE HeldUntilCommit'
  <2>1. /\ rpc'[r] = "commit" \/ held'[r] = {}
        /\ \A o \in Reviews \ {r} : rpc'[o] = rpc[o] /\ held'[o] = held[o]
    BY <1>0, <1>2 DEF UpdatePending, CommitReview, RGoto
  <2> QED
    BY <2>1 DEF HeldUntilCommit
<1>3. CASE UNCHANGED <<rpc, held>>
  BY <1>3 DEF HeldUntilCommit
<1> QED
  BY <1>1, <1>2, <1>3 DEF Next, Call, Review, Begin, LookUp, Resolve, CreateType, GetFallback, RecordSuggestion,
                          CommitCall, AdminEdits, vars, reviewVars

\* Nobody waits for one who waits in turn or has ended: calls that create the same
\* name, and reviews of the same suggestions, cannot block each other in a circle.
THEOREM NoWaitingInACircle == Spec => []HoldersGoOn
<1>1. Init => HeldUntilCommit
  BY DEF Init, HeldUntilCommit
<1>2. TypeOK /\ HeldUntilCommit /\ [Next]_vars => HeldUntilCommit'
  BY HeldStep
<1>3. TypeOK /\ CallsInv /\ HeldUntilCommit => HoldersGoOn
  <2> SUFFICES ASSUME TypeOK, CallsInv, HeldUntilCommit PROVE HoldersGoOn
    OBVIOUS
  <2>1. ASSUME NEW c \in Calls, NEW o \in Calls, created[o] = req[c].name
        PROVE  pc[o] \in {"fallback", "suggest", "commit"}
    <3>1. created[o] # None
      BY <2>1, NamesAssumption DEF TypeOK, Requests
    <3> QED
      BY <3>1 DEF CallsInv, Traced
  <2>2. ASSUME NEW r \in Reviews, NEW o \in Reviews, held[o] \cap scan[r] # {}
        PROVE  rpc[o] = "commit"
    BY <2>2 DEF HeldUntilCommit
  <2> QED
    BY <2>1, <2>2 DEF HoldersGoOn
<1> QED
  BY <1>1, <1>2, <1>3, TypeCorrect, CallsInvariance, PTL DEF Spec

-----------------------------------------------------------------------------
(* Everything refers to types that exist, and a review holds rows of its type. *)

RefersToTypes(c) ==
  /\ valid[c] \subseteq types
  /\ existing[c] \in types \cup {None}
  /\ \A s \in noted[c] : s.type \in types

HoldsItsType(r) == \A s \in held[r] : s.type = target[r]

RefersInv == (\A c \in Calls : RefersToTypes(c)) /\ (\A r \in Reviews : HoldsItsType(r))

\* The suggested type is one that was found, or accepted during the call.
LEMMA SuggestionTypeExists ==
  ASSUME IInv, NEW c \in Calls, RefersToTypes(c), pc[c] = "suggest"
  PROVE  SuggestionType(c) \in types
<1>1. resolved[c] \in types
  BY DEF IInv, CallInv, ResolvedIsAccepted, RefersToTypes
<1> QED
  BY <1>1 DEF SuggestionType, RefersToTypes

\* A step after which what a call refers to was there already, or is accepted.
LEMMA RefersStays ==
  ASSUME TypeOK', RefersInv, types \subseteq types',
         \A c \in Calls : /\ valid'[c] \subseteq valid[c] \cup accepted'
                         /\ existing'[c] \in types \cup {None}
                         /\ \A s \in noted'[c] : s.type \in types,
         \A r \in Reviews : held'[r] = {} \/ (held'[r] = held[r] /\ target'[r] = target[r])
  PROVE  RefersInv'
<1>1. accepted' \subseteq types'
  BY DEF TypeOK
<1>2. ASSUME NEW c \in Calls PROVE RefersToTypes(c)'
  BY <1>1 DEF RefersInv, RefersToTypes
<1>3. ASSUME NEW r \in Reviews PROVE HoldsItsType(r)'
  BY DEF RefersInv, HoldsItsType
<1> QED
  BY <1>2, <1>3 DEF RefersInv

LEMMA RefersStep ==
  ASSUME IInv, TypeOK', CallsInv, HeldUntilCommit, RefersInv, [Next]_vars
  PROVE  RefersInv'
<1>0. /\ existing \in [Calls -> Names \cup {None}] /\ noted \in [Calls -> SUBSET Suggestions]
      /\ valid \in [Calls -> SUBSET Names] /\ created \in [Calls -> Names \cup {None}]
      /\ target \in [Reviews -> Names \cup {None}] /\ held \in [Reviews -> SUBSET Suggestions]
      /\ rpc \in [Reviews -> ReviewSteps]
  BY DEF IInv, TypeOK
<1>1. \A c \in Calls : existing[c] \in types \cup {None} /\ \A s \in noted[c] : s.type \in types
  BY DEF RefersInv, RefersToTypes
<1>2. ASSUME NEW c \in Calls, Begin(c) PROVE RefersInv'
  <2>1. UNCHANGED <<types, accepted, existing, noted, target, held>>
    BY <1>2 DEF Begin, reviewVars
  <2>2. \A d \in Calls : valid'[d] \subseteq valid[d] \cup accepted'
    BY <1>0, <1>2, <2>1 DEF Begin
  <2> QED
    BY <1>1, <2>1, <2>2, RefersStays
<1>3. ASSUME NEW c \in Calls, LookUp(c) PROVE RefersInv'
  <2>1. UNCHANGED <<types, valid, noted, target, held>> /\ pc[c] = "lookup"
    BY <1>3 DEF LookUp, reviewVars
  <2>2. created[c] = None
    BY <2>1 DEF CallsInv, Traced
  <2>3. GetByName(c, req[c].name).type \in types \cup {None}
    BY <2>2, LookUpFinds DEF IInv, Asked, Nothing
  <2>4. \A d \in Calls : existing'[d] \in types \cup {None}
    BY <1>0, <1>1, <1>3, <2>3 DEF LookUp
  <2> QED
    BY <1>1, <2>1, <2>4, RefersStays
<1>4. ASSUME NEW c \in Calls, Resolve(c) \/ CreateType(c) \/ GetFallback(c) PROVE RefersInv'
  <2>1. UNCHANGED <<types, valid, existing, target, held>>
    BY <1>4 DEF Resolve, CreateType, GetFallback, reviewVars
  <2>2. \A d \in Calls : noted'[d] \subseteq noted[d]
    BY <1>0, <1>4 DEF Resolve, CreateType, GetFallback, Fail
  <2> QED
    BY <1>1, <2>1, <2>2, RefersStays
<1>5. ASSUME NEW c \in Calls, RecordSuggestion(c) PROVE RefersInv'
  <2>1. UNCHANGED <<types, valid, existing, target, held>> /\ pc[c] = "suggest"
    BY <1>5 DEF RecordSuggestion, reviewVars
  <2>2. SuggestionType(c) \in types
    BY <2>1, SuggestionTypeExists DEF RefersInv
  <2>3. \A d \in Calls : \A s \in noted'[d] : s.type \in types
    BY <1>0, <1>1, <1>5, <2>2 DEF RecordSuggestion
  <2> QED
    BY <1>1, <2>1, <2>3, RefersStays
<1>6. ASSUME NEW c \in Calls, CommitCall(c) PROVE RefersInv'
  <2>1. types \subseteq types' /\ UNCHANGED <<valid, existing, target, held>>
    BY <1>6 DEF CommitCall, reviewVars
  <2>2. \A d \in Calls : noted'[d] \subseteq noted[d]
    BY <1>0, <1>6 DEF CommitCall
  <2> QED
    BY <1>1, <2>1, <2>2, RefersStays
<1>7. ASSUME NEW r \in Reviews, BeginReview(r) PROVE RefersInv'
  <2>1. UNCHANGED <<types, valid, existing, noted, held>> /\ rpc[r] = "idle"
    BY <1>7 DEF BeginReview, callVars
  <2>2. \A o \in Reviews \ {r} : target'[o] = target[o]
    BY <1>0, <1>7 DEF BeginReview
  <2>3. held[r] = {}
    BY <2>1 DEF HeldUntilCommit
  <2> QED
    BY <1>1, <2>1, <2>2, <2>3, RefersStays
<1>8. ASSUME NEW r \in Reviews, UpdatePending(r) PROVE RefersInv'
  <2>1. UNCHANGED <<types, valid, existing, noted, target>>
    BY <1>8 DEF UpdatePending, callVars
  <2>2. held' = [held EXCEPT ![r] = scan[r] \cap PendingOf(target[r])]
    BY <1>8 DEF UpdatePending
  <2>3. \A o \in Reviews : HoldsItsType(o)'
    BY <1>0, <2>1, <2>2 DEF RefersInv, HoldsItsType, PendingOf
  <2>4. \A c \in Calls : RefersToTypes(c)'
    BY <2>1 DEF RefersInv, RefersToTypes
  <2> QED
    BY <2>3, <2>4 DEF RefersInv
<1>9. ASSUME NEW r \in Reviews, CommitReview(r) PROVE RefersInv'
  <2>1. UNCHANGED <<types, existing, noted, target>> /\ Witness
    BY <1>9 DEF CommitReview, Witness
  <2>2. \A c \in Calls : valid'[c] \subseteq valid[c] \cup accepted'
    BY <2>1 DEF Witness
  <2>3. \A o \in Reviews : held'[o] = {} \/ held'[o] = held[o]
    BY <1>0, <1>9 DEF CommitReview
  <2> QED
    BY <1>1, <2>1, <2>2, <2>3, RefersStays
<1>10. ASSUME NEW t \in Names, AdminEdits(t) PROVE RefersInv'
  <2>1. UNCHANGED <<types, existing, noted, target, held>> /\ Witness
    BY <1>10 DEF AdminEdits, Witness, reviewVars
  <2>2. \A c \in Calls : valid'[c] \subseteq valid[c] \cup accepted'
    BY <2>1 DEF Witness
  <2> QED
    BY <1>1, <2>1, <2>2, RefersStays
<1>11. CASE UNCHANGED <<types, valid, existing, noted, target, held>>
  BY <1>1, <1>11, RefersStays
<1> QED
  BY <1>2, <1>3, <1>4, <1>5, <1>6, <1>7, <1>8, <1>9, <1>10, <1>11
  DEF Next, Call, Review, ScanPending, vars, callVars, reviewVars

-----------------------------------------------------------------------------
(* RelationTypes implements RelationCuration. *)

\* What a step of c does to the outcomes.
LEMMA OutcomeStep ==
  ASSUME TypeOK, NEW c \in Calls, NEW step \in CallSteps, Goto(c, step)
  PROVE  outcome' = [outcome EXCEPT ![c] = IF step \in {"done", "failed"} THEN step ELSE "open"]
<1>1. pc' = [pc EXCEPT ![c] = step] /\ pc \in [Calls -> CallSteps]
  BY DEF Goto, TypeOK
<1> QED
  BY <1>1 DEF outcome

LEMMA OutcomeOpen ==
  ASSUME NEW c \in Calls, pc[c] \notin {"done", "failed"}
  PROVE  outcome[c] = "open"
BY DEF outcome

\* A step under way shows nobody anything.
LEMMA CurationStutters ==
  ASSUME TypeOK, NEW c \in Calls, NEW step \in CallSteps \ {"done", "failed"}, Goto(c, step),
         pc[c] \notin {"done", "failed"}, UNCHANGED <<types, accepted, suggestions, relations>>
  PROVE  UNCHANGED Curation!vars
<1>1. outcome' = [outcome EXCEPT ![c] = "open"]
  BY OutcomeStep
<1>2. outcome' = outcome
  BY <1>1, OutcomeOpen DEF outcome
<1> QED
  BY <1>2 DEF Curation!vars

LEMMA FailIsAbort ==
  ASSUME TypeOK, NEW c \in Calls, Fail(c), pc[c] \notin {"done", "failed"},
         UNCHANGED <<types, accepted, suggestions, relations>>
  PROVE  Curation!Abort(c)
<1>1. outcome' = [outcome EXCEPT ![c] = "failed"]
  BY OutcomeStep DEF Fail, CallSteps
<1> QED
  BY <1>1, OutcomeOpen DEF Curation!Abort, Curation!Close

\* What a call has noted is nothing or one suggestion of its own, of a type that exists.
LEMMA NotedIsOwn ==
  ASSUME IInv, RefersInv, NEW c \in Calls
  PROVE  noted[c] \in Curation!AtMostOne(Curation!Suggestion(c))
<1>1. \A s \in noted[c] : s \in Curation!Suggestion(c)
  <2> SUFFICES ASSUME NEW s \in noted[c] PROVE s \in Curation!Suggestion(c)
    OBVIOUS
  <2>1. s \in Suggestions
    BY DEF IInv, TypeOK
  <2>2. s.call = c /\ s.status = "pending" /\ s.type \in types
    BY DEF IInv, ReviewInv, NotedByCall, RefersInv, RefersToTypes
  <2> QED
    BY <2>1, <2>2 DEF Suggestions, Curation!Suggestion
<1>2. \A s, t \in noted[c] : s = t
  BY DEF IInv, ReviewInv, NotedByCall
<1>3. CASE noted[c] = {}
  BY <1>3 DEF Curation!AtMostOne
<1>4. ASSUME NEW s \in noted[c] PROVE noted[c] \in Curation!AtMostOne(Curation!Suggestion(c))
  <2>1. noted[c] = {s}
    BY <1>2
  <2> QED
    BY <1>1, <2>1 DEF Curation!AtMostOne
<1> QED
  BY <1>3, <1>4

LEMMA CommitIsRelate ==
  ASSUME IInv, RefersInv, NEW c \in Calls, CommitCall(c)
  PROVE  Curation!Relate(c)
<1> DEFINE new == {created[c]} \ {None}
<1>1. Curation!Close(c, "done")
  <2>1. outcome' = [outcome EXCEPT ![c] = "done"]
    BY OutcomeStep DEF IInv, CommitCall, CallSteps
  <2> QED
    BY <2>1, OutcomeOpen DEF CommitCall, Curation!Close
<1>2. resolved[c] \in types
  BY DEF IInv, CallInv, ResolvedIsAccepted, RefersInv, RefersToTypes, CommitCall
<1>3. new \in Curation!AtMostOne(Names)
  <2>1. created[c] \in Names \cup {None}
    BY DEF IInv, TypeOK
  <2>2. new = {} \/ (new = {created[c]} /\ created[c] \in Names)
    BY <2>1
  <2> QED
    BY <2>2 DEF Curation!AtMostOne
<1>4. noted[c] \in Curation!AtMostOne(Curation!Suggestion(c))
  BY NotedIsOwn
<1>5. /\ types' = types \cup new
      /\ suggestions' = suggestions \cup noted[c]
      /\ relations' = relations \cup {[call |-> c, type |-> resolved[c]]}
  BY DEF CommitCall
<1> HIDE DEF new
<1> QED
  BY <1>1, <1>2, <1>3, <1>4, <1>5 DEF Curation!Relate

\* The commit of a review changes the rows it holds and no others.
LEMMA ReviewedRows ==
  ASSUME IInv, NEW r \in Reviews, NEW status
  PROVE  {Reviewed(s, held[r], status) : s \in suggestions}
           = (suggestions \ held[r]) \cup Curation!Settled(held[r], status)
<1>1. held[r] \subseteq suggestions /\ \A s \in held[r] : s.status = "pending"
  BY DEF IInv, ReviewInv, HeldPending
<1>2. suggestions \subseteq Suggestions
  BY DEF IInv, TypeOK
<1>3. ASSUME NEW s \in held[r] PROVE Reviewed(s, held[r], status) = [s EXCEPT !.status = status]
  <2>1. [s EXCEPT !.status = "pending"] = s
    BY <1>1, <1>2 DEF Suggestions
  <2> QED
    BY <2>1 DEF Reviewed
<1>4. ASSUME NEW s \in suggestions \ held[r] PROVE Reviewed(s, held[r], status) = s
  <2> DEFINE p == [s EXCEPT !.status = "pending"]
  <2>1. AsPending(p) = AsPending(s)
    BY <1>2 DEF AsPending, Suggestions
  <2>2. p \notin held[r]
    BY <1>1, <2>1 DEF IInv, ReviewInv, OneRow
  <2> QED
    BY <2>2 DEF Reviewed
<1> QED
  BY <1>1, <1>3, <1>4 DEF Curation!Settled

LEMMA CommitIsSettle ==
  ASSUME IInv, ReviewScan, RefersInv, NEW r \in Reviews, CommitReview(r)
  PROVE  Curation!Next
<1>1. target[r] \in types /\ target[r] \in Names
  BY DEF IInv, TypeOK, ReviewInv, UnderReview, CommitReview
<1>2. verdict[r] \in {"accepted", "rejected"}
  BY DEF IInv, TypeOK, Statuses, ReviewScan, CommitReview
<1>3. held[r] \in SUBSET Curation!Pending(target[r])
  BY DEF IInv, ReviewInv, HeldPending, RefersInv, HoldsItsType, Curation!Pending
<1>4. suggestions' = (suggestions \ held[r]) \cup Curation!Settled(held[r], verdict[r])
  BY ReviewedRows DEF CommitReview
<1>5. accepted' = accepted \/ (verdict[r] = "accepted" /\ accepted' = accepted \cup {target[r]})
  BY DEF CommitReview
<1>6. UNCHANGED <<types, relations, outcome>>
  BY DEF CommitReview, Witness, outcome
<1>7. Curation!Settle(target[r], verdict[r])
  BY <1>1, <1>3, <1>4, <1>5, <1>6 DEF Curation!Settle
<1> QED
  BY <1>1, <1>2, <1>7 DEF Curation!Next

LEMMA CurationStep ==
  ASSUME IInv, ReviewScan, RefersInv, [Next]_vars
  PROVE  Curation!Next \/ UNCHANGED Curation!vars
<1>0. TypeOK
  BY DEF IInv
<1>1. ASSUME NEW c \in Calls, Begin(c) \/ LookUp(c) \/ Resolve(c) \/ RecordSuggestion(c)
      PROVE  UNCHANGED Curation!vars
  <2>1. pc[c] \notin {"done", "failed"} /\ UNCHANGED <<types, accepted, suggestions, relations>>
    BY <1>1 DEF Begin, LookUp, Resolve, RecordSuggestion
  <2>2. \E step \in CallSteps \ {"done", "failed"} : Goto(c, step)
    BY <1>1 DEF Begin, LookUp, Resolve, RecordSuggestion, CallSteps
  <2> QED
    BY <1>0, <2>1, <2>2, CurationStutters
<1>2. ASSUME NEW c \in Calls, CreateType(c) \/ GetFallback(c)
      PROVE  Curation!Next \/ UNCHANGED Curation!vars
  <2>1. pc[c] \notin {"done", "failed"} /\ UNCHANGED <<types, accepted, suggestions, relations>>
    BY <1>2 DEF CreateType, GetFallback
  <2>2. Fail(c) \/ \E step \in CallSteps \ {"done", "failed"} : Goto(c, step)
    BY <1>2 DEF CreateType, GetFallback, CallSteps
  <2>3. CASE Fail(c)
    BY <1>0, <2>1, <2>3, FailIsAbort DEF Curation!Next
  <2> QED
    BY <1>0, <2>1, <2>2, <2>3, CurationStutters
<1>3. ASSUME NEW c \in Calls, CommitCall(c) PROVE Curation!Next
  BY <1>3, CommitIsRelate DEF Curation!Next
<1>4. ASSUME NEW r \in Reviews, BeginReview(r) \/ ScanPending(r) \/ UpdatePending(r)
      PROVE  UNCHANGED Curation!vars
  BY <1>4 DEF BeginReview, ScanPending, UpdatePending, callVars, Curation!vars, outcome
<1>5. ASSUME NEW r \in Reviews, CommitReview(r) PROVE Curation!Next
  BY <1>5, CommitIsSettle
<1>6. ASSUME NEW t \in Names, AdminEdits(t) PROVE Curation!Next
  <2>1. Curation!Edit(t)
    BY <1>6 DEF AdminEdits, Witness, Curation!Edit, outcome
  <2> QED
    BY <2>1 DEF Curation!Next
<1>7. CASE UNCHANGED vars
  BY <1>7 DEF vars, callVars, Curation!vars, outcome
<1> QED
  BY <1>1, <1>2, <1>3, <1>4, <1>5, <1>6, <1>7 DEF Next, Call, Review

\* However calls, reviews and the administrator interleave, a call takes effect at its
\* commit, on types that exist, and a review settles what is pending at its own
\* (services.py EntityRelationTypeService).
THEOREM KeepsCuration == Spec => ImplementsCuration
<1>1. Init => HeldUntilCommit /\ ReviewScan /\ RefersInv /\ Curation!Init
  <2> SUFFICES ASSUME Init PROVE HeldUntilCommit /\ ReviewScan /\ RefersInv /\ Curation!Init
    OBVIOUS
  <2>1. HeldUntilCommit /\ ReviewScan
    BY DEF Init, HeldUntilCommit, ReviewScan
  <2>2. RefersInv
    BY DEF Init, RefersInv, RefersToTypes, HoldsItsType
  <2>3. outcome = [c \in Calls |-> "open"]
    BY DEF Init, outcome
  <2>4. types \subseteq Names
    BY NamesAssumption DEF Init
  <2> QED
    BY <2>1, <2>2, <2>3, <2>4 DEF Init, Curation!Init
<1>2. IInv /\ HeldUntilCommit /\ [Next]_vars => HeldUntilCommit'
  BY HeldStep DEF IInv
<1>3. IInv /\ ReviewScan /\ [Next]_vars => ReviewScan'
  BY ReviewScanStep
<1>4. IInv /\ IInv' /\ CallsInv /\ HeldUntilCommit /\ RefersInv /\ [Next]_vars => RefersInv'
  BY RefersStep DEF IInv
<1>5. IInv /\ ReviewScan /\ RefersInv /\ [Next]_vars => [Curation!Next]_(Curation!vars)
  BY CurationStep
<1> QED
  BY <1>1, <1>2, <1>3, <1>4, <1>5, Invariance, CallsInvariance, PTL
  DEF Spec, ImplementsCuration, Curation!Spec

=============================================================================
