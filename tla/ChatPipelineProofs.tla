------------------------- MODULE ChatPipelineProofs -------------------------
(***************************************************************************)
(* Proofs about ChatPipeline: the pool's accounts, what a refusal and a    *)
(* message that is sent again leave behind, and the refinement of the two  *)
(* promises, to the client (ChatService) and to the memory (MemoryIngest). *)
(*                                                                         *)
(* The inductive invariant IInv adds to the types what each step of the    *)
(* handler has behind it: the connection, the job, the error and status.   *)
(***************************************************************************)
EXTENDS ChatPipeline, FiniteSetTheorems, TLAPS

Holding == {"user", "context", "extract", "publish", "answer", "answered"}
Early   == {"idle", "arrived", "token", "connect", "user", "context", "extract", "publish"}

\* The pool's counter counts the requests between their first statement and the end.
Pool ==
  /\ IsFiniteSet(holders) /\ in_use = Cardinality(holders) /\ in_use <= Limit
  /\ \A a \in Attempts : a \in holders <=> pc[a] \in Holding

\* The job goes out between the steps "publish" and "answer".
Published ==
  /\ DOMAIN memory = Attempts
  /\ \A a \in Attempts :
        /\ outcome[a] = "new" => job[a] = NoJob /\ memory[a] = {}
        /\ outcome[a] # "new" => job[a] \in Ingest!Jobs
        /\ pc[a] \in Early => outcome[a] = "new"
        /\ pc[a] \in {"answer", "answered"} => outcome[a] # "new"

\* How a request can have ended, and with what in the memory.
Ended(a) ==
  \/ error[a] = "none" /\ status[a] = 200 /\ outcome[a] # "new"
  \/ error[a] = "Crash" /\ status[a] = 0
  \/ error[a] \in Refusals /\ status[a] \in {401, 422} /\ outcome[a] = "new"
  \/ error[a] \in Failures /\ status[a] = 500 /\ (error[a] = "AnswerError" \/ outcome[a] = "new")

Told ==
  \A a \in Attempts :
     /\ pc[a] \in {"idle"} \cup InFlight => error[a] = "none" /\ status[a] = 0
     /\ pc[a] = "answered" => error[a] = "none" /\ status[a] = 200
     /\ pc[a] = "done" => Ended(a)

\* Of two requests with the same text the client gave one up.
Resent ==
  \A a, b \in Attempts :
     a # b /\ pc[a] # "idle" /\ pc[b] # "idle" /\ input[a].text = input[b].text
       => Unheard(a) \/ Unheard(b)

IInv == TypeOK /\ Pool /\ Published /\ Told /\ Resent

-----------------------------------------------------------------------------
(* Steps. *)

\* The steps of the handler that write nothing but pc.
LEMMA MoveKeepsInv ==
  ASSUME IInv, NEW a \in Attempts, NEW s \in InFlight, NEW t \in InFlight,
         s # "answer", t # "answer", s \in Holding <=> t \in Holding,
         pc[a] = s, Goto(a, t),
         UNCHANGED <<input, error, status, left, holders, in_use, crashes, ingestVars>>
  PROVE  IInv'
<1>0. IInv OBVIOUS
<1>1. pc' = [pc EXCEPT ![a] = t] /\ pc \in [Attempts -> Steps] /\ t \in Steps
  BY DEF IInv, TypeOK, Goto, Steps
<1>2. pc' \in [Attempts -> Steps] /\ pc'[a] = t /\ \A b \in Attempts \ {a} : pc'[b] = pc[b]
  BY <1>1
<1>3. t \in Early /\ s \in Early
  BY DEF InFlight, Early
<1>4. TypeOK'
  BY <1>0, <1>2 DEF IInv, TypeOK, ingestVars, InFlight
<1>5. Pool'
  BY <1>0, <1>2 DEF IInv, Pool
<1>6. Published'
  BY <1>0, <1>2, <1>3 DEF IInv, Published, ingestVars, Early
<1>7. Told'
  BY <1>0, <1>2 DEF IInv, Told, Ended, ingestVars, InFlight
<1>8. Resent'
  BY <1>0, <1>2 DEF IInv, Resent, Unheard, InFlight
<1>9. QED BY <1>4, <1>5, <1>6, <1>7, <1>8 DEF IInv

\* A request that fails: its connection goes back, its job is out only after "publish".
LEMMA RaiseKeepsInv ==
  ASSUME IInv, ChatAssumption, NEW a \in Attempts, NEW e \in Refusals \cup Failures,
         pc[a] \in InFlight, pc[a] = "answer" <=> e = "AnswerError",
         Raise(a, e), UNCHANGED <<input, left, crashes, ingestVars>>
  PROVE  IInv'
<1>0. IInv OBVIOUS
<1>1. /\ pc' = [pc EXCEPT ![a] = "done"]
      /\ error' = [error EXCEPT ![a] = e]
      /\ status' = [status EXCEPT ![a] = Status(e)]
      /\ holders' = holders \ {a}
      /\ in_use' = IF a \in holders THEN in_use - 1 ELSE in_use
  BY DEF Raise, Goto
<1>2. pc \in [Attempts -> Steps] /\ error \in [Attempts -> Errors]
      /\ status \in [Attempts -> {0, 200, 401, 422, 500}] /\ in_use \in Nat
  BY <1>0 DEF IInv, TypeOK
<1>3. Status(e) \in {401, 422, 500} /\ (e \in Refusals => Status(e) \in {401, 422})
      /\ (e \in Failures => Status(e) = 500)
  BY DEF Status, Refusals, Failures
<1>4. "done" \in Steps /\ e \in Errors /\ e # "none"
  BY DEF Steps, Errors, Refusals, Failures
<1>5. /\ pc' \in [Attempts -> Steps] /\ pc'[a] = "done"
      /\ \A b \in Attempts \ {a} : pc'[b] = pc[b]
  BY <1>1, <1>2, <1>4
<1>6. /\ error' \in [Attempts -> Errors] /\ error'[a] = e
      /\ \A b \in Attempts \ {a} : error'[b] = error[b]
  BY <1>1, <1>2, <1>4
<1>7. /\ status' \in [Attempts -> {0, 200, 401, 422, 500}] /\ status'[a] = Status(e)
      /\ \A b \in Attempts \ {a} : status'[b] = status[b]
  BY <1>1, <1>2, <1>3
<1>8. Pool' /\ in_use' \in Nat
  <2>1. IsFiniteSet(holders') /\ in_use' = Cardinality(holders') /\ in_use' <= in_use
        /\ in_use' \in Nat
    <3>1. CASE a \in holders
      <4>1. Cardinality(holders \ {a}) = Cardinality(holders) - 1 /\ IsFiniteSet(holders \ {a})
        BY <1>0, <3>1, FS_RemoveElement DEF IInv, Pool
      <4>2. Cardinality(holders \ {a}) \in Nat
        BY <4>1, FS_CardinalityType
      <4>3. QED BY <4>1, <4>2, <3>1, <1>0, <1>1, <1>2 DEF IInv, Pool
    <3>2. CASE a \notin holders
      <4>1. holders \ {a} = holders
        BY <3>2
      <4>2. in_use' = in_use /\ holders' = holders
        BY <4>1, <3>2, <1>1
      <4>3. QED BY <4>2, <1>0, <1>2 DEF IInv, Pool
    <3>3. QED BY <3>1, <3>2
  <2>2. \A b \in Attempts : b \in holders' <=> pc'[b] \in Holding
    BY <1>0, <1>1, <1>5 DEF IInv, Pool, Holding
  <2>3. Limit \in Nat
    BY DEF ChatAssumption, Limit
  <2>4. in_use <= Limit
    BY <1>0 DEF IInv, Pool
  <2>5. in_use' <= Limit
    BY <2>1, <2>3, <2>4, <1>2
  <2>6. QED BY <2>1, <2>2, <2>5 DEF Pool, Limit
<1>9. TypeOK'
  <2>1. pc[a] # "idle"
    BY DEF InFlight
  <2>2. input' = input /\ left' = left /\ crashes' = crashes /\ users' = users /\ job' = job
        /\ outcome' = outcome /\ holders' \subseteq Attempts
    BY <1>0, <1>1 DEF ingestVars, IInv, TypeOK
  <2>3. \A b \in Attempts : pc'[b] # "idle" => input'[b] \in Input
    BY <1>0, <1>5, <2>1, <2>2 DEF IInv, TypeOK
  <2>4. QED BY <1>0, <1>5, <1>6, <1>7, <1>8, <2>2, <2>3 DEF IInv, TypeOK
<1>10. outcome' = outcome /\ job' = job /\ memory' = memory /\ left' = left /\ input' = input
  BY DEF ingestVars
<1>11. pc[a] # "answer" => outcome[a] = "new"
  BY <1>0 DEF IInv, Published, InFlight, Early
<1>12. Published'
  BY <1>0, <1>5, <1>10 DEF IInv, Published, Early
<1>13. Told'
  <2>1. e \in Refusals \/ e # "AnswerError" => outcome'[a] = "new"
    BY <1>10, <1>11 DEF Refusals
  <2>2. Ended(a)'
    BY <2>1, <1>3, <1>6, <1>7 DEF Ended
  <2>3. \A b \in Attempts \ {a} : Ended(b)' <=> Ended(b)
    BY <1>6, <1>7, <1>10 DEF Ended
  <2>4. QED BY <1>0, <1>5, <1>6, <1>7, <2>2, <2>3 DEF IInv, Told, InFlight
<1>14. Resent'
  <2>1. \A b \in Attempts : Unheard(b) => Unheard(b)'
    BY <1>4, <1>6, <1>10 DEF Unheard
  <2>2. \A b \in Attempts : pc'[b] # "idle" => pc[b] # "idle"
    BY <1>5 DEF InFlight
  <2>3. QED BY <1>0, <1>10, <2>1, <2>2 DEF IInv, Resent
<1>15. QED BY <1>8, <1>9, <1>12, <1>13, <1>14 DEF IInv

LEMMA InitInv == ASSUME ChatAssumption, Init PROVE IInv
<1>1. TypeOK
  BY DEF Init, TypeOK, Ingest!Init, Steps, Errors
<1>2. Pool
  <2>1. Cardinality({}) = 0 /\ IsFiniteSet({})
    BY FS_EmptySet
  <2>2. Limit \in Nat
    BY DEF ChatAssumption, Limit
  <2>3. QED BY <2>1, <2>2 DEF Init, Pool, Holding
<1>3. Published
  BY DEF Init, Ingest!Init, Published
<1>4. Told
  BY DEF Init, Told, InFlight
<1>5. Resent
  BY DEF Init, Resent
<1>6. QED BY <1>1, <1>2, <1>3, <1>4, <1>5 DEF IInv

LEMMA SendInv == ASSUME IInv, NEW a \in Attempts, Send(a), ChatAssumption PROVE IInv'
<1>0. IInv OBVIOUS
<1>1. PICK i \in Inputs :
        /\ \A b \in Attempts : pc[b] # "idle" /\ input[b].text = i.text => Unheard(b)
        /\ input' = [input EXCEPT ![a] = i]
  BY DEF Send
<1>2. i \in Input
  BY DEF ChatAssumption
<1>3. pc[a] = "idle" /\ pc' = [pc EXCEPT ![a] = "arrived"]
      /\ UNCHANGED <<error, status, left, holders, in_use, crashes, ingestVars>>
  BY DEF Send, Goto
<1>4. /\ pc' \in [Attempts -> Steps] /\ pc'[a] = "arrived"
      /\ \A b \in Attempts \ {a} : pc'[b] = pc[b]
  BY <1>0, <1>3 DEF IInv, TypeOK, Steps, InFlight
<1>5. /\ input' \in [Attempts -> {None} \cup Input] /\ input'[a] = i
      /\ \A b \in Attempts \ {a} : input'[b] = input[b]
  BY <1>0, <1>1, <1>2 DEF IInv, TypeOK
<1>6. TypeOK'
  BY <1>0, <1>2, <1>3, <1>4, <1>5 DEF IInv, TypeOK, ingestVars
<1>7. Pool'
  BY <1>0, <1>3, <1>4 DEF IInv, Pool, Holding
<1>8. Published'
  BY <1>0, <1>3, <1>4 DEF IInv, Published, ingestVars, Early
<1>9. Told'
  BY <1>0, <1>3, <1>4 DEF IInv, Told, Ended, ingestVars, InFlight
<1>10. Resent'
  BY <1>0, <1>1, <1>3, <1>4, <1>5 DEF IInv, Resent, Unheard
<1>11. QED BY <1>6, <1>7, <1>8, <1>9, <1>10 DEF IInv

LEMMA GiveUpInv == ASSUME IInv, NEW a \in Attempts, GiveUp(a) PROVE IInv'
<1>0. IInv OBVIOUS
<1>1. left' = left \cup {a} /\ UNCHANGED <<pc, input, error, status, holders, in_use, crashes, ingestVars>>
  BY DEF GiveUp
<1>2. TypeOK'
  BY <1>0, <1>1 DEF IInv, TypeOK, ingestVars
<1>3. Pool'
  BY <1>0, <1>1 DEF IInv, Pool
<1>4. Published' /\ Told'
  BY <1>0, <1>1 DEF IInv, Published, Told, Ended, ingestVars
<1>5. Resent'
  BY <1>0, <1>1 DEF IInv, Resent, Unheard
<1>6. QED BY <1>2, <1>3, <1>4, <1>5 DEF IInv

LEMMA DispatchInv == ASSUME IInv, ChatAssumption, NEW a \in Attempts, Dispatch(a) PROVE IInv'
<1>1. CASE Goto(a, "token") /\ UNCHANGED <<error, status, holders, in_use>>
  BY <1>1, MoveKeepsInv DEF Dispatch, InFlight, Holding
<1>2. CASE Raise(a, "RateLimitExceededError")
  BY <1>2, RaiseKeepsInv DEF Dispatch, InFlight, Failures
<1>3. QED BY <1>1, <1>2 DEF Dispatch

LEMMA DecodeTokenInv == ASSUME IInv, ChatAssumption, NEW a \in Attempts, DecodeToken(a) PROVE IInv'
<1>1. CASE Goto(a, "connect") /\ UNCHANGED <<error, status, holders, in_use>>
  BY <1>1, MoveKeepsInv DEF DecodeToken, InFlight, Holding
<1>2. CASE input[a].token # "valid" /\ Raise(a, TokenError(input[a].token))
  <2>1. input[a] \in Input
    BY DEF IInv, TypeOK, DecodeToken
  <2>2. input[a].token \in {"missing", "unsplit", "forged", "foreign"}
    BY <1>2, <2>1 DEF Input, Tokens
  <2>3. TokenError(input[a].token) \in
          {"RequestValidationError", "IndexError", "InvalidTokenError", "ValidationError"}
    BY <2>2 DEF TokenError
  <2>4. TokenError(input[a].token) \in Refusals \cup Failures
        /\ TokenError(input[a].token) # "AnswerError"
    BY <2>3 DEF Refusals, Failures
  <2>5. pc[a] \in InFlight /\ pc[a] # "answer" /\ UNCHANGED <<input, left, crashes, ingestVars>>
    BY DEF DecodeToken, InFlight
  <2>6. QED BY <1>2, <2>4, <2>5, RaiseKeepsInv
<1>3. QED BY <1>1, <1>2 DEF DecodeToken

LEMMA FindUserInv == ASSUME IInv, ChatAssumption, NEW a \in Attempts, FindUser(a) PROVE IInv'
<1>1. CASE Goto(a, "context") /\ UNCHANGED <<error, status, holders, in_use>>
  BY <1>1, MoveKeepsInv DEF FindUser, InFlight, Holding
<1>2. CASE Raise(a, "AuthenticationError")
  BY <1>2, RaiseKeepsInv DEF FindUser, InFlight, Refusals
<1>3. CASE Raise(a, "RequestValidationError")
  BY <1>3, RaiseKeepsInv DEF FindUser, InFlight, Refusals
<1>4. QED BY <1>1, <1>2, <1>3 DEF FindUser

LEMMA FailuresInv ==
  ASSUME IInv, ChatAssumption, NEW a \in Attempts,
         DatabaseFails(a) \/ ExtractFails(a) \/ PublishFails(a) \/ AnswerFails(a)
  PROVE  IInv'
<1>1. CASE DatabaseFails(a)
  BY <1>1, RaiseKeepsInv DEF DatabaseFails, InFlight, Failures
<1>2. CASE ExtractFails(a)
  BY <1>2, RaiseKeepsInv DEF ExtractFails, InFlight, Failures
<1>3. CASE PublishFails(a)
  BY <1>3, RaiseKeepsInv DEF PublishFails, InFlight, Failures
<1>4. CASE AnswerFails(a)
  BY <1>4, RaiseKeepsInv DEF AnswerFails, InFlight, Failures
<1>5. QED BY <1>1, <1>2, <1>3, <1>4

LEMMA ExtractionInv ==
  ASSUME IInv, NEW a \in Attempts, BuildExtractionContext(a) \/ Extract(a) PROVE IInv'
<1>1. CASE BuildExtractionContext(a)
  BY <1>1, MoveKeepsInv DEF BuildExtractionContext, InFlight, Holding
<1>2. CASE Extract(a)
  BY <1>2, MoveKeepsInv DEF Extract, InFlight, Holding
<1>3. QED BY <1>1, <1>2

LEMMA ConnectInv == ASSUME IInv, ChatAssumption, NEW a \in Attempts, Connect(a) PROVE IInv'
<1>0. IInv OBVIOUS
<1>1. /\ pc[a] = "connect" /\ in_use < Limit
      /\ pc' = [pc EXCEPT ![a] = "user"] /\ holders' = holders \cup {a} /\ in_use' = in_use + 1
      /\ UNCHANGED <<input, error, status, left, crashes, ingestVars>>
  BY DEF Connect, Goto
<1>2. /\ pc' \in [Attempts -> Steps] /\ pc'[a] = "user"
      /\ \A b \in Attempts \ {a} : pc'[b] = pc[b]
  BY <1>0, <1>1 DEF IInv, TypeOK, Steps, InFlight
<1>3. in_use \in Nat /\ Limit \in Nat /\ in_use' \in Nat /\ in_use' <= Limit
  BY <1>0, <1>1 DEF IInv, TypeOK, ChatAssumption, Limit
<1>4. a \notin holders
  BY <1>0, <1>1 DEF IInv, Pool, Holding
<1>5. Cardinality(holders \cup {a}) = Cardinality(holders) + 1 /\ IsFiniteSet(holders \cup {a})
  BY <1>0, <1>4, FS_AddElement DEF IInv, Pool
<1>6. Pool'
  <2>1. \A b \in Attempts : b \in holders' <=> pc'[b] \in Holding
    BY <1>0, <1>1, <1>2 DEF IInv, Pool, Holding
  <2>2. in_use = Cardinality(holders)
    BY <1>0 DEF IInv, Pool
  <2>3. QED BY <1>1, <1>3, <1>5, <2>1, <2>2 DEF Pool, Limit
<1>7. TypeOK'
  <2>1. holders' \subseteq Attempts
    BY <1>0, <1>1 DEF IInv, TypeOK
  <2>2. QED BY <1>0, <1>1, <1>2, <1>3, <2>1 DEF IInv, TypeOK, ingestVars
<1>8. Published'
  BY <1>0, <1>1, <1>2 DEF IInv, Published, ingestVars, Early
<1>9. Told'
  BY <1>0, <1>1, <1>2 DEF IInv, Told, Ended, ingestVars, InFlight
<1>10. Resent'
  BY <1>0, <1>1, <1>2 DEF IInv, Resent, Unheard
<1>11. QED BY <1>6, <1>7, <1>8, <1>9, <1>10 DEF IInv

LEMMA PublishInv ==
  ASSUME IInv, NoJobAssumption, NEW a \in Attempts, Publish(a) PROVE IInv'
<1>0. IInv OBVIOUS
<1>1. PICK d \in Extractions : job' = [job EXCEPT ![a] = [owner |-> input[a].user, data |-> d]]
  BY DEF Publish
<1>2. /\ pc[a] = "publish" /\ pc' = [pc EXCEPT ![a] = "answer"]
      /\ outcome' = [outcome EXCEPT ![a] = "open"]
      /\ UNCHANGED <<input, error, status, left, holders, in_use, crashes, users, memory>>
  BY DEF Publish, Goto
<1>3. /\ pc' \in [Attempts -> Steps] /\ pc'[a] = "answer"
      /\ \A b \in Attempts \ {a} : pc'[b] = pc[b]
  BY <1>0, <1>2 DEF IInv, TypeOK, Steps, InFlight
<1>4. [owner |-> input[a].user, data |-> d] \in Ingest!Jobs
  BY <1>0, <1>2 DEF IInv, TypeOK, Input, Ingest!Jobs
<1>5. /\ job' \in [Attempts -> Ingest!Jobs \cup {NoJob}] /\ job'[a] \in Ingest!Jobs
      /\ \A b \in Attempts \ {a} : job'[b] = job[b]
  BY <1>0, <1>1, <1>4 DEF IInv, TypeOK
<1>6. /\ outcome' \in [Attempts -> {"new", "open", "stored", "lost"}] /\ outcome'[a] = "open"
      /\ \A b \in Attempts \ {a} : outcome'[b] = outcome[b]
  BY <1>0, <1>2 DEF IInv, TypeOK
<1>7. TypeOK'
  BY <1>0, <1>2, <1>3, <1>5, <1>6 DEF IInv, TypeOK
<1>8. Pool'
  BY <1>0, <1>2, <1>3 DEF IInv, Pool, Holding
<1>9. Published'
  BY <1>0, <1>2, <1>3, <1>5, <1>6 DEF IInv, Published, Early
<1>10. Told'
  BY <1>0, <1>2, <1>3, <1>6 DEF IInv, Told, Ended, InFlight
<1>11. Resent'
  BY <1>0, <1>2, <1>3 DEF IInv, Resent, Unheard
<1>12. QED BY <1>7, <1>8, <1>9, <1>10, <1>11 DEF IInv

LEMMA AnswerInv == ASSUME IInv, NEW a \in Attempts, Answer(a) PROVE IInv'
<1>0. IInv OBVIOUS
<1>1. /\ pc[a] = "answer" /\ pc' = [pc EXCEPT ![a] = "answered"]
      /\ status' = [status EXCEPT ![a] = 200]
      /\ UNCHANGED <<input, error, left, holders, in_use, crashes, ingestVars>>
  BY DEF Answer, Goto
<1>2. /\ pc' \in [Attempts -> Steps] /\ pc'[a] = "answered"
      /\ \A b \in Attempts \ {a} : pc'[b] = pc[b]
  BY <1>0, <1>1 DEF IInv, TypeOK, Steps, InFlight
<1>3. /\ status' \in [Attempts -> {0, 200, 401, 422, 500}] /\ status'[a] = 200
      /\ \A b \in Attempts \ {a} : status'[b] = status[b]
  BY <1>0, <1>1 DEF IInv, TypeOK
<1>4. TypeOK'
  BY <1>0, <1>1, <1>2, <1>3 DEF IInv, TypeOK, ingestVars
<1>5. Pool'
  BY <1>0, <1>1, <1>2 DEF IInv, Pool, Holding
<1>6. Published'
  BY <1>0, <1>1, <1>2 DEF IInv, Published, ingestVars, Early
<1>7. Told'
  BY <1>0, <1>1, <1>2, <1>3 DEF IInv, Told, Ended, ingestVars, InFlight
<1>8. Resent'
  BY <1>0, <1>1, <1>2 DEF IInv, Resent, Unheard
<1>9. QED BY <1>4, <1>5, <1>6, <1>7, <1>8 DEF IInv

LEMMA FinishInv == ASSUME IInv, ChatAssumption, NEW a \in Attempts, Finish(a) PROVE IInv'
<1>0. IInv OBVIOUS
<1>1. /\ pc[a] = "answered" /\ pc' = [pc EXCEPT ![a] = "done"]
      /\ holders' = holders \ {a} /\ in_use' = in_use - 1
      /\ UNCHANGED <<input, error, status, left, crashes, ingestVars>>
  BY DEF Finish, Goto
<1>2. /\ pc' \in [Attempts -> Steps] /\ pc'[a] = "done"
      /\ \A b \in Attempts \ {a} : pc'[b] = pc[b]
  BY <1>0, <1>1 DEF IInv, TypeOK, Steps
<1>3. a \in holders
  BY <1>0, <1>1 DEF IInv, Pool, Holding
<1>4. Cardinality(holders \ {a}) = Cardinality(holders) - 1 /\ IsFiniteSet(holders \ {a})
  BY <1>0, <1>3, FS_RemoveElement DEF IInv, Pool
<1>5. in_use \in Nat /\ in_use <= Limit /\ in_use = Cardinality(holders) /\ Limit \in Nat
  BY <1>0 DEF IInv, TypeOK, Pool, ChatAssumption, Limit
<1>6. Cardinality(holders \ {a}) \in Nat
  BY <1>4, FS_CardinalityType
<1>7. in_use' \in Nat /\ in_use' = Cardinality(holders') /\ in_use' <= Limit
  BY <1>1, <1>4, <1>5, <1>6
<1>8. Pool'
  <2>1. \A b \in Attempts : b \in holders' <=> pc'[b] \in Holding
    BY <1>0, <1>1, <1>2 DEF IInv, Pool, Holding
  <2>2. QED BY <1>1, <1>4, <1>7, <2>1 DEF Pool, Limit
<1>9. TypeOK'
  <2>1. holders' \subseteq Attempts
    BY <1>0, <1>1 DEF IInv, TypeOK
  <2>2. QED BY <1>0, <1>1, <1>2, <1>7, <2>1 DEF IInv, TypeOK, ingestVars
<1>10. Published'
  BY <1>0, <1>1, <1>2 DEF IInv, Published, ingestVars, Early
<1>11. Told'
  BY <1>0, <1>1, <1>2 DEF IInv, Told, Published, Ended, ingestVars, InFlight
<1>12. Resent'
  BY <1>0, <1>1, <1>2 DEF IInv, Resent, Unheard
<1>13. QED BY <1>8, <1>9, <1>10, <1>11, <1>12 DEF IInv

LEMMA CrashInv == ASSUME IInv, ChatAssumption, Crash PROVE IInv'
<1>0. IInv OBVIOUS
<1>1. /\ error' = [a \in Attempts |-> IF a \in Down THEN "Crash" ELSE error[a]]
      /\ pc' = [a \in Attempts |-> IF pc[a] \in InFlight \cup {"answered"} THEN "done" ELSE pc[a]]
      /\ holders' = {} /\ in_use' = 0 /\ crashes' = crashes + 1
      /\ UNCHANGED <<input, status, left, ingestVars>>
  BY DEF Crash
<1>2. pc' \in [Attempts -> Steps] /\ \A a \in Attempts : pc'[a] \in {"idle", "done"}
  BY <1>0, <1>1 DEF IInv, TypeOK, Steps
<1>3. \A a \in Attempts :
        /\ pc'[a] = "idle" <=> pc[a] = "idle"
        /\ pc[a] \in InFlight => error'[a] = "Crash"
        /\ pc[a] \notin InFlight => error'[a] = error[a]
  BY <1>0, <1>1 DEF IInv, TypeOK, Steps, InFlight, Down
<1>4. error' \in [Attempts -> Errors]
  BY <1>0, <1>1 DEF IInv, TypeOK, Errors
<1>5. TypeOK'
  <2>1. crashes' \in Nat /\ in_use' \in Nat
    BY <1>0, <1>1 DEF IInv, TypeOK
  <2>2. QED BY <1>0, <1>1, <1>2, <1>3, <1>4, <2>1 DEF IInv, TypeOK, ingestVars
<1>6. Pool'
  <2>1. Cardinality({}) = 0 /\ IsFiniteSet({}) /\ Limit \in Nat
    BY FS_EmptySet DEF ChatAssumption, Limit
  <2>2. QED BY <1>1, <1>2, <2>1 DEF Pool, Holding, Limit
<1>7. Published'
  BY <1>0, <1>1, <1>2, <1>3 DEF IInv, Published, ingestVars, Early
<1>8. Told'
  <2>1. outcome' = outcome /\ status' = status
    BY <1>1 DEF ingestVars
  <2>2. ASSUME NEW a \in Attempts, pc'[a] = "done" PROVE Ended(a)'
    <3>1. CASE pc[a] \in InFlight
      BY <3>1, <2>1, <1>0, <1>3 DEF IInv, Told, Ended
    <3>2. CASE pc[a] = "answered"
      BY <3>2, <2>1, <1>0, <1>3 DEF IInv, Told, Published, Ended, InFlight
    <3>3. CASE pc[a] = "done"
      BY <3>3, <2>1, <1>0, <1>3 DEF IInv, Told, Ended, InFlight
    <3>4. pc[a] \in Steps /\ pc[a] # "idle"
      BY <2>2, <1>0, <1>3 DEF IInv, TypeOK
    <3>5. QED BY <3>1, <3>2, <3>3, <3>4 DEF Steps
  <2>3. ASSUME NEW a \in Attempts, pc'[a] = "idle" PROVE error'[a] = "none" /\ status'[a] = 0
    BY <2>1, <2>3, <1>0, <1>3 DEF IInv, Told, InFlight
  <2>4. QED BY <1>2, <2>2, <2>3 DEF Told, InFlight
<1>9. Resent'
  <2>1. \A a \in Attempts : Unheard(a) => Unheard(a)'
    BY <1>1, <1>3 DEF Unheard
  <2>2. QED BY <1>0, <1>1, <1>3, <2>1 DEF IInv, Resent
<1>10. QED BY <1>5, <1>6, <1>7, <1>8, <1>9 DEF IInv

\* What the worker and the administrator change is the memory alone.
LEMMA MemoryInv ==
  ASSUME IInv, UNCHANGED <<chatVars, job>>, users' \subseteq users,
         outcome' \in [Attempts -> {"new", "open", "stored", "lost"}],
         DOMAIN memory' = Attempts,
         \A a \in Attempts : outcome'[a] = "new" <=> outcome[a] = "new",
         \A a \in Attempts : outcome[a] = "new" => memory'[a] = {}
  PROVE  IInv'
<1>0. IInv OBVIOUS
<1>1. UNCHANGED <<pc, input, error, status, left, holders, in_use, crashes, job>>
  BY DEF chatVars
<1>2. TypeOK'
  BY <1>0, <1>1 DEF IInv, TypeOK
<1>3. Pool'
  BY <1>0, <1>1 DEF IInv, Pool
<1>4. Published'
  BY <1>0, <1>1 DEF IInv, Published
<1>5. Told'
  BY <1>0, <1>1 DEF IInv, Told, Ended
<1>6. Resent'
  BY <1>0, <1>1 DEF IInv, Resent, Unheard
<1>7. QED BY <1>2, <1>3, <1>4, <1>5, <1>6 DEF IInv

LEMMA WorkInv == ASSUME IInv, NEW a \in Attempts, Work(a) PROVE IInv'
<1>1. outcome \in [Attempts -> {"new", "open", "stored", "lost"}] /\ DOMAIN memory = Attempts
  BY DEF IInv, TypeOK, Published
<1>2. CASE Ingest!Store(a)
  <2>1. PICK g : memory' = [memory EXCEPT ![a] = g]
    BY <1>2 DEF Ingest!Store
  <2>2. outcome[a] = "open" /\ outcome' = [outcome EXCEPT ![a] = "stored"]
        /\ UNCHANGED <<users, job, chatVars>>
    BY <1>2 DEF Ingest!Store, Work
  <2>3. \A b \in Attempts : outcome[b] = "new" => memory[b] = {}
    BY DEF IInv, Published
  <2>4. \A b \in Attempts : outcome[b] = "new" => memory'[b] = {}
    BY <1>1, <2>1, <2>2, <2>3
  <2>5. DOMAIN memory' = Attempts
    BY <1>1, <2>1
  <2>6. /\ outcome' \in [Attempts -> {"new", "open", "stored", "lost"}]
        /\ \A b \in Attempts : outcome'[b] = "new" <=> outcome[b] = "new"
    BY <1>1, <2>2
  <2>7. QED BY <2>2, <2>4, <2>5, <2>6, MemoryInv
<1>3. CASE Ingest!Lose(a)
  <2>1. outcome[a] = "open" /\ outcome' = [outcome EXCEPT ![a] = "lost"]
        /\ UNCHANGED <<users, job, memory, chatVars>>
    BY <1>3 DEF Ingest!Lose, Work
  <2>2. /\ outcome' \in [Attempts -> {"new", "open", "stored", "lost"}]
        /\ \A b \in Attempts : outcome'[b] = "new" <=> outcome[b] = "new"
    BY <1>1, <2>1
  <2>3. \A b \in Attempts : outcome[b] = "new" => memory'[b] = {}
    BY <2>1 DEF IInv, Published
  <2>4. QED BY <1>1, <2>1, <2>2, <2>3, MemoryInv
<1>4. QED BY <1>2, <1>3 DEF Work

LEMMA DeleteInv == ASSUME IInv, NEW u \in Users, Delete(u) PROVE IInv'
<1>1. /\ users' = users \ {u} /\ UNCHANGED <<job, outcome, chatVars>>
      /\ memory' = [m \in Attempts |->
                      IF outcome[m] = "stored" /\ job[m].owner = u THEN {} ELSE memory[m]]
  BY DEF Delete, Ingest!EraseUser
<1>2. \A b \in Attempts : outcome[b] = "new" => memory'[b] = {}
  BY <1>1 DEF IInv, Published
<1>3. outcome' \in [Attempts -> {"new", "open", "stored", "lost"}] /\ DOMAIN memory' = Attempts
  BY <1>1 DEF IInv, TypeOK
<1>4. QED BY <1>1, <1>2, <1>3, MemoryInv

LEMMA NextInv == ASSUME IInv, ChatAssumption, NoJobAssumption, [Next]_vars PROVE IInv'
<1>1. ASSUME NEW a \in Attempts, Handle(a) PROVE IInv'
  BY <1>1, DispatchInv, DecodeTokenInv, ConnectInv, FindUserInv, FailuresInv, ExtractionInv,
     PublishInv, AnswerInv, FinishInv DEF Handle
<1>2. ASSUME NEW a \in Attempts, Send(a) \/ GiveUp(a) \/ Work(a) PROVE IInv'
  BY <1>2, SendInv, GiveUpInv, WorkInv
<1>3. ASSUME NEW u \in Users, Delete(u) PROVE IInv'
  BY <1>3, DeleteInv
<1>4. CASE Crash
  BY <1>4, CrashInv
<1>5. CASE UNCHANGED vars
  <2>1. UNCHANGED <<chatVars, job, users, outcome, memory>>
    BY <1>5 DEF vars, chatVars
  <2>2. outcome' \in [Attempts -> {"new", "open", "stored", "lost"}] /\ DOMAIN memory' = Attempts
        /\ \A b \in Attempts : outcome[b] = "new" => memory'[b] = {}
    BY <2>1 DEF IInv, TypeOK, Published
  <2>3. QED BY <2>1, <2>2, MemoryInv
<1>6. QED BY <1>1, <1>2, <1>3, <1>4, <1>5 DEF Next

THEOREM Invariance == Spec => []IInv
<1>1. Init => IInv
  BY InitInv, ChatAssumption
<1>2. IInv /\ [Next]_vars => IInv'
  BY NextInv, ChatAssumption, NoJobAssumption
<1>3. QED BY <1>1, <1>2, PTL DEF Spec

-----------------------------------------------------------------------------
(* Safety. *)

\* The variables of a request, the pool and the memory keep their types.
THEOREM TypeCorrect == Spec => []TypeOK
<1>1. IInv => TypeOK
  BY DEF IInv
<1>2. QED BY <1>1, Invariance, PTL

\* For any number of requests and any pool: the connections that are out are those of
\* the requests at work, within the limit; no way to end a request keeps one.
THEOREM ConnectionsAreAccounted == Spec => []PoolAccounting
<1>1. IInv => PoolAccounting
  BY DEF IInv, TypeOK, Pool, PoolAccounting, Holding
<1>2. QED BY <1>1, Invariance, PTL

LEMMA RefusedIsNew ==
  ASSUME IInv, NEW a \in Attempts, status[a] \in 400 .. 499 PROVE outcome[a] = "new"
<1>1. pc[a] \in Steps /\ status[a] # 0 /\ status[a] # 200 /\ status[a] # 500
  BY DEF IInv, TypeOK
<1>2. pc[a] = "done"
  BY <1>1 DEF IInv, Told, Steps
<1>3. QED BY <1>1, <1>2 DEF IInv, Told, Ended

\* A request refused with a client error leaves nothing to remember, ever.
THEOREM RefusalsLeaveNothing == Spec => []RefusedIsNotRemembered
<1>1. IInv => RefusedIsNotRemembered
  BY RefusedIsNew DEF IInv, Published, RefusedIsNotRemembered
<1>2. QED BY <1>1, Invariance, PTL

\* Whatever is remembered twice of a text was sent again after a request that failed,
\* was given up or died when its job was already out.
THEOREM ResendsAreExplained == Spec => []DuplicatesExplained
<1>1. ASSUME IInv, NEW a \in Attempts, memory[a] # {}, Unheard(a)
      PROVE  a \in left \/ error[a] \in {"AnswerError", "Crash"}
  <2>1. outcome[a] # "new" /\ pc[a] \in Steps
    BY <1>1 DEF IInv, TypeOK, Published
  <2>2. CASE error[a] # "none"
    <3>1. pc[a] = "done"
      BY <2>1, <2>2, <1>1 DEF IInv, Told, Steps
    <3>2. QED BY <2>1, <2>2, <3>1, <1>1 DEF IInv, Told, Ended
  <2>3. QED BY <2>2, <1>1 DEF Unheard
<1>2. ASSUME IInv, NEW a \in Attempts, memory[a] # {} PROVE pc[a] # "idle"
  BY <1>2 DEF IInv, Published, Early
<1>3. IInv => DuplicatesExplained
  <2>1. SUFFICES ASSUME IInv, NEW a \in Attempts, NEW b \in Attempts, a # b,
                        memory[a] # {}, memory[b] # {}, input[a].text = input[b].text
                 PROVE  \E c \in {a, b} : c \in left \/ error[c] \in {"AnswerError", "Crash"}
    BY DEF DuplicatesExplained
  <2>2. Unheard(a) \/ Unheard(b)
    BY <2>1, <1>2 DEF IInv, Resent
  <2>3. QED BY <2>1, <2>2, <1>1
<1>4. QED BY <1>3, Invariance, PTL

-----------------------------------------------------------------------------
(* The memory's side: every step is one of MemoryIngest or none. *)

LEMMA IngestUnchanged == ASSUME UNCHANGED ingestVars PROVE UNCHANGED Ingest!vars
BY DEF ingestVars, Ingest!vars

LEMMA RestOfHandleIsSilent ==
  ASSUME NEW a \in Attempts, Handle(a), ~ Publish(a) PROVE UNCHANGED ingestVars
<1>1. CASE Dispatch(a) \/ DecodeToken(a) \/ Connect(a) \/ DatabaseFails(a) \/ FindUser(a)
  BY <1>1 DEF Dispatch, DecodeToken, Connect, DatabaseFails, FindUser
<1>2. CASE BuildExtractionContext(a) \/ Extract(a) \/ ExtractFails(a) \/ PublishFails(a)
  BY <1>2 DEF BuildExtractionContext, Extract, ExtractFails, PublishFails
<1>3. CASE Answer(a) \/ AnswerFails(a) \/ Finish(a)
  BY <1>3 DEF Answer, AnswerFails, Finish
<1>4. QED BY <1>1, <1>2, <1>3 DEF Handle

LEMMA PublishIsAccept ==
  ASSUME IInv, NEW a \in Attempts, Publish(a) PROVE Ingest!Accept(a)
<1>1. PICK d \in Extractions : job' = [job EXCEPT ![a] = [owner |-> input[a].user, data |-> d]]
  BY DEF Publish
<1>2. [owner |-> input[a].user, data |-> d] \in Ingest!Jobs
  <2>1. pc[a] = "publish"
    BY DEF Publish
  <2>2. input[a] \in Input
    BY <2>1 DEF IInv, TypeOK
  <2>3. QED BY <2>2 DEF Input, Ingest!Jobs
<1>3. outcome[a] = "new"
  BY DEF IInv, Published, Publish, Early
<1>4. \E j \in Ingest!Jobs : job' = [job EXCEPT ![a] = j]
  BY <1>1, <1>2
<1>5. QED BY <1>3, <1>4 DEF Publish, Ingest!Accept

\* The requests publish for the memory as MemoryIngest asks: a job once, with an owner
\* and an extraction.  With Consolidation's proof this is the promise of API and
\* worker together.
THEOREM KeepsMemoryIngest == Spec => PublishesForIngest
<1>1. Init => Ingest!Init
  BY DEF Init
<1>2. IInv /\ [Next]_vars => [Ingest!Next]_(Ingest!vars)
  <2>1. SUFFICES ASSUME IInv, [Next]_vars PROVE Ingest!Next \/ UNCHANGED Ingest!vars
    OBVIOUS
  <2>2. ASSUME NEW a \in Attempts, Handle(a) PROVE Ingest!Next \/ UNCHANGED Ingest!vars
    <3>1. CASE Publish(a)
      BY <3>1, <2>1, PublishIsAccept DEF Ingest!Next
    <3>2. CASE ~ Publish(a)
      BY <3>2, <2>2, RestOfHandleIsSilent, IngestUnchanged
    <3>3. QED BY <3>1, <3>2
  <2>3. ASSUME NEW a \in Attempts, Send(a) \/ GiveUp(a) PROVE UNCHANGED Ingest!vars
    BY <2>3, IngestUnchanged DEF Send, GiveUp
  <2>4. ASSUME NEW a \in Attempts, Work(a) PROVE Ingest!Next
    BY <2>4 DEF Work, Ingest!Next
  <2>5. ASSUME NEW u \in Users, Delete(u) PROVE Ingest!Next
    BY <2>5 DEF Delete, Ingest!Next
  <2>6. CASE Crash
    BY <2>6, IngestUnchanged DEF Crash
  <2>7. CASE UNCHANGED vars
    BY <2>7, IngestUnchanged DEF vars, ingestVars
  <2>8. QED BY <2>1, <2>2, <2>3, <2>4, <2>5, <2>6, <2>7 DEF Next
<1>3. QED BY <1>1, <1>2, Invariance, PTL DEF Spec, PublishesForIngest, Ingest!Spec

-----------------------------------------------------------------------------
(* The client's side: every step is one of ChatService or none. *)

States == [a \in Attempts |-> State(a)]
Jobbed == [a \in Attempts |-> job[a] # NoJob]

LEMMA StateOf ==
  ASSUME IInv, NEW a \in Attempts
  PROVE  /\ pc[a] = "idle" => State(a) = "none"
         /\ pc[a] \in InFlight => State(a) = "open"
         /\ pc[a] = "answered" => State(a) = "answered"
         /\ pc[a] = "done" /\ error[a] = "none" => State(a) = "answered"
         /\ pc[a] = "done" /\ error[a] \in Refusals => State(a) = "refused"
         /\ pc[a] = "done" /\ error[a] \in Failures \cup {"Crash"} => State(a) = "failed"
<1>1. CASE pc[a] = "idle"
  BY <1>1 DEF State, InFlight
<1>2. CASE pc[a] \in InFlight
  BY <1>2 DEF IInv, Told, State, InFlight
<1>3. CASE pc[a] = "answered"
  BY <1>3 DEF IInv, Told, State, InFlight
<1>4. CASE pc[a] = "done"
  <2>1. Ended(a)
    BY <1>4 DEF IInv, Told
  <2>2. QED BY <1>4, <2>1 DEF Ended, State, Refusals, Failures, InFlight
<1>5. pc[a] \in Steps
  BY DEF IInv, TypeOK
<1>6. QED BY <1>1, <1>2, <1>3, <1>4, <1>5 DEF Steps

\* The state of a request depends on nothing but its pc, error and status.
LEMMA StateKept ==
  ASSUME NEW b \in Attempts, pc'[b] = pc[b], error'[b] = error[b], status'[b] = status[b]
  PROVE  State(b)' = State(b)
BY DEF State

LEMMA SilentStep ==
  ASSUME \A b \in Attempts : State(b)' = State(b), UNCHANGED job
  PROVE  UNCHANGED Chat!vars
<1>1. States' = States
  BY DEF States
<1>2. Jobbed' = Jobbed
  BY DEF Jobbed
<1>3. QED BY <1>1, <1>2 DEF States, Jobbed, Chat!vars

LEMMA StatesChange ==
  ASSUME NEW a \in Attempts, NEW how, State(a)' = how,
         \A b \in Attempts \ {a} : State(b)' = State(b)
  PROVE  States' = [States EXCEPT ![a] = how]
BY DEF States

LEMMA JobbedAt == ASSUME IInv, NoJobAssumption, NEW a \in Attempts
                  PROVE  Jobbed[a] <=> outcome[a] # "new"
BY DEF IInv, Published, Jobbed, NoJobAssumption

LEMMA StatesAt == ASSUME NEW a \in Attempts PROVE States[a] = State(a)
BY DEF States

\* A request that fails is refused before its job is out, and may fail at any time.
LEMMA RaiseMaps ==
  ASSUME IInv, IInv', NoJobAssumption, NEW a \in Attempts, NEW e \in Refusals \cup Failures,
         pc[a] \in InFlight, Raise(a, e), UNCHANGED ingestVars
  PROVE  Chat!Next
<1>1. /\ pc' = [pc EXCEPT ![a] = "done"] /\ error' = [error EXCEPT ![a] = e]
      /\ status' = [status EXCEPT ![a] = Status(e)] /\ UNCHANGED <<job, outcome>>
  BY DEF Raise, Goto, ingestVars
<1>2. pc'[a] = "done" /\ error'[a] = e
  BY <1>1 DEF IInv, TypeOK
<1>3. \A b \in Attempts \ {a} : State(b)' = State(b)
  BY <1>1, StateKept DEF IInv, TypeOK
<1>4. States[a] = "open"
  BY StateOf, StatesAt
<1>5. Jobbed' = Jobbed
  BY <1>1 DEF Jobbed
<1>6. (e \in Refusals => State(a)' = "refused") /\ (e \in Failures => State(a)' = "failed")
  <2>1. Ended(a)'
    BY <1>2 DEF IInv, Told
  <2>2. QED BY <1>2, <2>1 DEF Ended, State, Refusals, Failures
<1>7. CASE e \in Refusals
  <2>1. States' = [States EXCEPT ![a] = "refused"]
    BY <1>3, <1>6, <1>7, StatesChange
  <2>2. outcome[a] = "new"
    <3>1. Ended(a)' /\ error'[a] # "none" /\ error'[a] # "Crash" /\ error'[a] \notin Failures
      BY <1>2, <1>7 DEF IInv, Told, Refusals, Failures
    <3>2. outcome'[a] = "new"
      BY <3>1 DEF Ended
    <3>3. QED BY <1>1, <3>2
  <2>3. ~ Jobbed[a]
    BY <2>2, JobbedAt
  <2>4. Chat!Refuse(a)
    BY <1>4, <1>5, <2>1, <2>3 DEF Chat!Refuse, Chat!Close, States, Jobbed
  <2>5. QED BY <2>4 DEF Chat!Next
<1>8. CASE e \in Failures
  <2>1. States' = [b \in Attempts |-> IF b \in {a} THEN "failed" ELSE States[b]]
    BY <1>3, <1>6, <1>8 DEF States
  <2>2. Chat!Fail({a})
    BY <1>4, <1>5, <2>1 DEF Chat!Fail, States, Jobbed
  <2>3. {a} \in SUBSET Attempts
    OBVIOUS
  <2>4. QED BY <2>2, <2>3 DEF Chat!Next
<1>9. QED BY <1>7, <1>8

\* The steps between the refusals change nothing the client can tell.
LEMMA InnerStepMaps ==
  ASSUME IInv, NEW a \in Attempts, NEW t \in InFlight, pc[a] \in InFlight, Goto(a, t),
         UNCHANGED <<error, status, job>>
  PROVE  UNCHANGED Chat!vars
<1>1. pc' = [pc EXCEPT ![a] = t] /\ pc \in [Attempts -> Steps]
  BY DEF Goto, IInv, TypeOK
<1>2. State(a)' = State(a)
  BY <1>1 DEF State, InFlight
<1>3. \A b \in Attempts \ {a} : State(b)' = State(b)
  BY <1>1, StateKept
<1>4. QED BY <1>2, <1>3, SilentStep

LEMMA OutsideMaps ==
  ASSUME UNCHANGED <<pc, error, status, job>> PROVE UNCHANGED Chat!vars
BY StateKept, SilentStep

LEMMA SendMaps == ASSUME IInv, IInv', NEW a \in Attempts, Send(a) PROVE Chat!Next
<1>1. /\ pc[a] = "idle" /\ pc' = [pc EXCEPT ![a] = "arrived"] /\ UNCHANGED <<error, status, job>>
      /\ pc \in [Attempts -> Steps]
  BY DEF Send, Goto, ingestVars, IInv, TypeOK
<1>2. States[a] = "none"
  BY <1>1, StateOf, StatesAt
<1>3. error[a] = "none" /\ status[a] = 0
  BY <1>1 DEF IInv, Told
<1>4. State(a)' = "open"
  BY <1>1, <1>3 DEF State
<1>5. States' = [States EXCEPT ![a] = "open"]
  BY <1>1, <1>4, StateKept, StatesChange
<1>6. Jobbed' = Jobbed
  BY <1>1 DEF Jobbed
<1>7. Chat!Open(a)
  BY <1>2, <1>5, <1>6 DEF Chat!Open, States, Jobbed
<1>8. QED BY <1>7 DEF Chat!Next

LEMMA PublishMaps ==
  ASSUME IInv, IInv', NoJobAssumption, NEW a \in Attempts, Publish(a) PROVE Chat!Next
<1>1. PICK j : job' = [job EXCEPT ![a] = j]
  BY DEF Publish
<1>2. /\ pc[a] = "publish" /\ pc' = [pc EXCEPT ![a] = "answer"] /\ UNCHANGED <<error, status>>
      /\ pc \in [Attempts -> Steps] /\ outcome' = [outcome EXCEPT ![a] = "open"]
  BY DEF Publish, Goto, IInv, TypeOK
<1>3. States' = States
  <2>1. State(a)' = State(a)
    BY <1>2 DEF State
  <2>2. \A b \in Attempts \ {a} : State(b)' = State(b)
    BY <1>2, StateKept
  <2>3. QED BY <2>1, <2>2 DEF States
<1>4. States[a] = "open"
  BY <1>2, StateOf, StatesAt DEF InFlight
<1>5. ~ Jobbed[a]
  BY <1>2, JobbedAt DEF IInv, Published, Early
<1>6. job'[a] # NoJob
  BY <1>2 DEF IInv, TypeOK, Published, NoJobAssumption
<1>7. \A b \in Attempts \ {a} : job'[b] = job[b]
  BY <1>1 DEF IInv, TypeOK
<1>8. Jobbed' = [Jobbed EXCEPT ![a] = TRUE]
  BY <1>6, <1>7 DEF Jobbed
<1>9. Chat!Publish(a)
  BY <1>3, <1>4, <1>5, <1>8 DEF Chat!Publish, States, Jobbed
<1>10. QED BY <1>9 DEF Chat!Next

LEMMA AnswerMaps ==
  ASSUME IInv, NoJobAssumption, NEW a \in Attempts, Answer(a) PROVE Chat!Next
<1>1. /\ pc[a] = "answer" /\ pc' = [pc EXCEPT ![a] = "answered"]
      /\ status' = [status EXCEPT ![a] = 200] /\ UNCHANGED <<error, job>>
      /\ pc \in [Attempts -> Steps] /\ status \in [Attempts -> {0, 200, 401, 422, 500}]
  BY DEF Answer, Goto, ingestVars, IInv, TypeOK
<1>2. States[a] = "open"
  BY <1>1, StateOf, StatesAt DEF InFlight
<1>3. Jobbed[a]
  BY <1>1, JobbedAt DEF IInv, Published
<1>4. State(a)' = "answered"
  BY <1>1 DEF State
<1>5. States' = [States EXCEPT ![a] = "answered"]
  BY <1>1, <1>4, StateKept, StatesChange
<1>6. Jobbed' = Jobbed
  BY <1>1 DEF Jobbed
<1>7. Chat!Answer(a)
  BY <1>2, <1>3, <1>5, <1>6 DEF Chat!Answer, Chat!Close, States, Jobbed
<1>8. QED BY <1>7 DEF Chat!Next

LEMMA FinishMaps == ASSUME IInv, NEW a \in Attempts, Finish(a) PROVE UNCHANGED Chat!vars
<1>1. /\ pc[a] = "answered" /\ pc' = [pc EXCEPT ![a] = "done"] /\ UNCHANGED <<error, status, job>>
      /\ pc \in [Attempts -> Steps]
  BY DEF Finish, Goto, ingestVars, IInv, TypeOK
<1>2. State(a)' = State(a)
  BY <1>1 DEF State
<1>3. \A b \in Attempts \ {a} : State(b)' = State(b)
  BY <1>1, StateKept
<1>4. QED BY <1>1, <1>2, <1>3, SilentStep

\* A crash fails every open request at once, and none if there is none.
LEMMA CrashMaps ==
  ASSUME IInv, IInv', Crash PROVE Chat!Next \/ UNCHANGED Chat!vars
<1>1. /\ error' = [a \in Attempts |-> IF a \in Down THEN "Crash" ELSE error[a]]
      /\ pc' = [a \in Attempts |-> IF pc[a] \in InFlight \cup {"answered"} THEN "done" ELSE pc[a]]
      /\ UNCHANGED <<status, job>>
  BY DEF Crash, ingestVars
<1>2. ASSUME NEW a \in Attempts, a \in Down PROVE States[a] = "open" /\ State(a)' = "failed"
  <2>1. pc[a] \in InFlight
    BY <1>2 DEF Down
  <2>2. status[a] = 0 /\ pc'[a] = "done" /\ error'[a] = "Crash"
    BY <1>1, <1>2, <2>1 DEF IInv, Told
  <2>3. QED BY <1>1, <2>1, <2>2, StateOf, StatesAt DEF State
<1>3. ASSUME NEW a \in Attempts, a \notin Down PROVE State(a)' = State(a)
  <2>1. pc[a] \in {"idle", "answered", "done"}
    BY <1>3 DEF IInv, TypeOK, Steps, Down
  <2>2. error'[a] = error[a] /\ status'[a] = status[a] /\ (pc'[a] = "idle" <=> pc[a] = "idle")
    BY <1>1, <1>3, <2>1 DEF InFlight
  <2>3. QED BY <2>2 DEF State
<1>4. Jobbed' = Jobbed
  BY <1>1 DEF Jobbed
<1>5. CASE Down = {}
  BY <1>1, <1>3, <1>5, SilentStep
<1>6. CASE Down # {}
  <2>1. Down \in SUBSET Attempts
    BY DEF Down
  <2>2. States' = [a \in Attempts |-> IF a \in Down THEN "failed" ELSE States[a]]
    BY <1>2, <1>3 DEF States
  <2>3. Chat!Fail(Down)
    BY <1>2, <1>4, <1>6, <2>1, <2>2 DEF Chat!Fail, States, Jobbed
  <2>4. QED BY <2>1, <2>3 DEF Chat!Next
<1>7. QED BY <1>5, <1>6

LEMMA HandleMaps ==
  ASSUME IInv, IInv', NoJobAssumption, NEW a \in Attempts, Handle(a)
  PROVE  Chat!Next \/ UNCHANGED Chat!vars
<1>1. CASE \E t \in InFlight : /\ pc[a] \in InFlight /\ Goto(a, t)
                               /\ UNCHANGED <<error, status, job>>
  BY <1>1, InnerStepMaps
<1>2. CASE \E e \in Refusals \cup Failures :
             pc[a] \in InFlight /\ Raise(a, e) /\ UNCHANGED ingestVars
  BY <1>2, RaiseMaps
<1>3. CASE Dispatch(a)
  BY <1>1, <1>2, <1>3 DEF Dispatch, InFlight, Failures, ingestVars
<1>4. CASE DecodeToken(a)
  <2>1. pc[a] = "token" /\ UNCHANGED ingestVars
    BY <1>4 DEF DecodeToken
  <2>2. CASE Goto(a, "connect") /\ UNCHANGED <<error, status, holders, in_use>>
    BY <1>1, <2>1, <2>2 DEF InFlight, ingestVars
  <2>3. CASE input[a].token # "valid" /\ Raise(a, TokenError(input[a].token))
    <3>1. input[a].token \in {"missing", "unsplit", "forged", "foreign"}
      BY <2>1, <2>3 DEF IInv, TypeOK, Input, Tokens
    <3>2. TokenError(input[a].token) \in
            {"RequestValidationError", "IndexError", "InvalidTokenError", "ValidationError"}
      BY <3>1 DEF TokenError
    <3>3. TokenError(input[a].token) \in Refusals \cup Failures
      BY <3>2 DEF Refusals, Failures
    <3>4. QED BY <1>2, <2>1, <2>3, <3>3 DEF InFlight
  <2>4. QED BY <1>4, <2>2, <2>3 DEF DecodeToken
<1>5. CASE Connect(a)
  BY <1>1, <1>5 DEF Connect, InFlight, ingestVars
<1>6. CASE FindUser(a)
  BY <1>1, <1>2, <1>6 DEF FindUser, InFlight, Refusals, ingestVars
<1>7. CASE BuildExtractionContext(a) \/ Extract(a)
  BY <1>1, <1>7 DEF BuildExtractionContext, Extract, InFlight, ingestVars
<1>8. CASE DatabaseFails(a)
  BY <1>2, <1>8 DEF DatabaseFails, InFlight, Failures
<1>9. CASE ExtractFails(a) \/ PublishFails(a) \/ AnswerFails(a)
  BY <1>2, <1>9 DEF ExtractFails, PublishFails, AnswerFails, InFlight, Failures
<1>10. CASE Publish(a)
  BY <1>10, PublishMaps
<1>11. CASE Answer(a)
  BY <1>11, AnswerMaps
<1>12. CASE Finish(a)
  BY <1>12, FinishMaps
<1>13. QED BY <1>3, <1>4, <1>5, <1>6, <1>7, <1>8, <1>9, <1>10, <1>11, <1>12 DEF Handle

LEMMA MapsNext ==
  ASSUME IInv, IInv', NoJobAssumption, [Next]_vars PROVE Chat!Next \/ UNCHANGED Chat!vars
<1>1. ASSUME NEW a \in Attempts, Send(a) PROVE Chat!Next
  BY <1>1, SendMaps
<1>2. ASSUME NEW a \in Attempts, GiveUp(a) PROVE UNCHANGED Chat!vars
  BY <1>2, OutsideMaps DEF GiveUp, ingestVars
<1>3. ASSUME NEW a \in Attempts, Work(a) PROVE UNCHANGED Chat!vars
  BY <1>3, OutsideMaps DEF Work, chatVars, Ingest!Store, Ingest!Lose
<1>4. ASSUME NEW u \in Users, Delete(u) PROVE UNCHANGED Chat!vars
  BY <1>4, OutsideMaps DEF Delete, chatVars, Ingest!EraseUser
<1>5. CASE UNCHANGED vars
  BY <1>5, OutsideMaps DEF vars
<1>6. QED BY <1>1, <1>2, <1>3, <1>4, <1>5, HandleMaps, CrashMaps DEF Next

LEMMA MapsInit == ASSUME Init, NoJobAssumption PROVE Chat!Init
<1>1. \A a \in Attempts : State(a) = "none" /\ (job[a] # NoJob) = FALSE
  BY DEF Init, State, Ingest!Init
<1>2. States = [a \in Attempts |-> "none"]
  BY <1>1 DEF States
<1>3. Jobbed = [a \in Attempts |-> FALSE]
  BY <1>1 DEF Jobbed
<1>4. QED BY <1>2, <1>3 DEF Chat!Init, States, Jobbed

\* For any number of requests, inputs, failures and crashes: who is answered has had
\* their job published, who is refused has not.
THEOREM KeepsChatService == Spec => ImplementsChatService
<1>1. Init => Chat!Init
  BY MapsInit, NoJobAssumption
<1>2. IInv /\ IInv' /\ [Next]_vars => [Chat!Next]_(Chat!vars)
  BY MapsNext, NoJobAssumption
<1>3. QED BY <1>1, <1>2, Invariance, PTL DEF Spec, ImplementsChatService, Chat!Spec

=============================================================================
