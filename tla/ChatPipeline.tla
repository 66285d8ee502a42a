---------------------------- MODULE ChatPipeline ----------------------------
(***************************************************************************)
(* POST /chat/send_message (api/routes/chat.py) from the middlewares to    *)
(* the answer, with the pool of database connections that all requests of  *)
(* the API process share, the client that sends a message again when it    *)
(* hears nothing good of it, and the memory the published jobs go to.      *)
(*                                                                         *)
(* A session takes a connection for its first statement and gives it back  *)
(* when the dependency provide_transaction is left: on an exception before *)
(* the error response, otherwise after the response.  So a request keeps   *)
(* it during both calls of the LLM.                                        *)
(*                                                                         *)
(* The worker is taken as what it promises, MemoryIngest, which            *)
(* Consolidation implements; whether the rate limiter lets a request pass  *)
(* is a choice here, RateLimiter makes it.                                 *)
(***************************************************************************)
EXTENDS Integers, FiniteSets

CONSTANTS
  Attempts,               \* requests
  Texts,                  \* what a client has to say
  Users, Extractions, NoJob,
  Inputs,                 \* what a request may bring
  PoolSize, MaxOverflow,  \* POOL_SIZE, MAX_OVERFLOW
  MaxCrashes,             \* bound on the crashes of the API process
  None

\* The Authorization header: a token of a user; none; without a blank; with a bad
\* signature; with a payload that is not a TelegramProviderTokenPayload.
Tokens == {"valid", "missing", "unsplit", "forged", "foreign"}
Input  == [text : Texts, token : Tokens, user : Users, valid_body : BOOLEAN]

ASSUME ChatAssumption ==
  /\ Inputs \subseteq Input
  /\ None \notin Input
  /\ PoolSize \in Nat \ {0} /\ MaxOverflow \in Nat /\ MaxCrashes \in Nat

VARIABLES
  pc,       \* [Attempts -> what the handler does next]
  input,    \* [Attempts -> what the request brought]
  error,    \* [Attempts -> the exception that ended the request, or "none"]
  status,   \* [Attempts -> the HTTP status it was answered with, 0 before]
  left,     \* attempts whose client does not wait any longer
  holders,  \* attempts whose session has a connection
  in_use,   \* connections that are checked out of the pool
  crashes,  \* crashes so far
  users, job, outcome, memory  \* of MemoryIngest

chatVars   == <<pc, input, error, status, left, holders, in_use, crashes>>
ingestVars == <<users, job, outcome, memory>>
vars       == <<pc, input, error, status, left, holders, in_use, crashes,
                users, job, outcome, memory>>

Ingest == INSTANCE MemoryIngest WITH Messages <- Attempts

ASSUME NoJobAssumption == NoJob \notin Ingest!Jobs

InFlight == {"arrived", "token", "connect", "user", "context", "extract", "publish", "answer"}
Steps    == {"idle"} \cup InFlight \cup {"answered", "done"}

Refusals == {"InvalidTokenError", "AuthenticationError", "RequestValidationError"}
Failures == {"RateLimitExceededError", "IndexError", "ValidationError", "DatabaseError",
             "ExtractionError", "PublishError", "AnswerError"}
Errors   == {"none", "Crash"} \cup Refusals \cup Failures

Init ==
  /\ pc = [a \in Attempts |-> "idle"]
  /\ input = [a \in Attempts |-> None]
  /\ error = [a \in Attempts |-> "none"]
  /\ status = [a \in Attempts |-> 0]
  /\ left = {} /\ holders = {} /\ in_use = 0 /\ crashes = 0
  /\ Ingest!Init

Limit == PoolSize + MaxOverflow

Goto(a, step) == pc' = [pc EXCEPT ![a] = step]

\* Variant: the status of the LLM's error is passed on, a 401 for the API key.
StatusPassedOn(e) ==
  IF e = "RequestValidationError" THEN 422
  ELSE IF e \in Refusals \cup {"ExtractionError", "AnswerError"} THEN 401 ELSE 500

\* The exception handlers.  HTTPException and the errors of the application have a
\* status; the others are a 500, and so is RateLimitExceededError: it is raised in
\* a middleware, outside the reach of the handler that would make it a 429.
Status(e) ==
  IF e = "RequestValidationError" THEN 422 ELSE IF e \in Refusals THEN 401 ELSE 500

\* Variant: the connection is not given back when the session is rolled back.
RaiseKeepsConnection(a, e) ==
  /\ holders' = holders \ {a}
  /\ UNCHANGED in_use
  /\ error' = [error EXCEPT ![a] = e]
  /\ status' = [status EXCEPT ![a] = Status(e)]
  /\ Goto(a, "done")

\* Variant: a connection is given back whether there is one or not.
RaiseReleasesTwice(a, e) ==
  /\ holders' = holders \ {a}
  /\ in_use' = in_use - 1
  /\ error' = [error EXCEPT ![a] = e]
  /\ status' = [status EXCEPT ![a] = Status(e)]
  /\ Goto(a, "done")

\* An exception leaves the handler: the transaction is rolled back, the connection
\* goes back to the pool, then the error response is sent.
Raise(a, e) ==
  /\ holders' = holders \ {a}
  /\ in_use' = IF a \in holders THEN in_use - 1 ELSE in_use
  /\ error' = [error EXCEPT ![a] = e]
  /\ status' = [status EXCEPT ![a] = Status(e)]
  /\ Goto(a, "done")

-----------------------------------------------------------------------------
(* The client. *)

\* The client has no answer to wait for, or heard an error.
Unheard(a) == a \in left \/ error[a] # "none"

\* A text is sent again once the client gave up every earlier attempt at it.
Send(a) ==
  /\ pc[a] = "idle"
  /\ \E i \in Inputs :
        /\ \A b \in Attempts : pc[b] # "idle" /\ input[b].text = i.text => Unheard(b)
        /\ input' = [input EXCEPT ![a] = i]
  /\ Goto(a, "arrived")
  /\ UNCHANGED <<error, status, left, holders, in_use, crashes, ingestVars>>

\* The client's timeout; the server does not notice and carries on.
GiveUp(a) ==
  /\ pc[a] \in InFlight /\ a \notin left
  /\ left' = left \cup {a}
  /\ UNCHANGED <<pc, input, error, status, holders, in_use, crashes, ingestVars>>

-----------------------------------------------------------------------------
(* The middlewares and the dependencies of the route. *)

Dispatch(a) ==
  /\ pc[a] = "arrived"
  /\ \/ /\ Goto(a, "token")
        /\ UNCHANGED <<error, status, holders, in_use>>
     \/ Raise(a, "RateLimitExceededError")
  /\ UNCHANGED <<input, left, crashes, ingestVars>>

TokenError(t) ==
  CASE t = "missing" -> "RequestValidationError"
    [] t = "unsplit" -> "IndexError"
    [] t = "forged"  -> "InvalidTokenError"
    [] t = "foreign" -> "ValidationError"

\* The session is there but has no connection; the header is read and the token
\* decoded.  The payload is validated outside the try, an error of it is a 500.
DecodeToken(a) ==
  /\ pc[a] = "token"
  /\ \/ /\ input[a].token = "valid"
        /\ Goto(a, "connect")
        /\ UNCHANGED <<error, status, holders, in_use>>
     \/ /\ input[a].token # "valid"
        /\ Raise(a, TokenError(input[a].token))
  /\ UNCHANGED <<input, left, crashes, ingestVars>>

\* The first statement checks a connection out.
Connect(a) ==
  /\ pc[a] = "connect" /\ in_use < Limit
  /\ holders' = holders \cup {a}
  /\ in_use' = in_use + 1
  /\ Goto(a, "user")
  /\ UNCHANGED <<input, error, status, left, crashes, ingestVars>>

\* The pool's timeout, a database that is down, a statement that fails.
DatabaseFails(a) ==
  /\ pc[a] \in {"connect", "user", "context"}
  /\ Raise(a, "DatabaseError")
  /\ UNCHANGED <<input, left, crashes, ingestVars>>

\* The user of the token's telegram_id; then the body is validated, which FastAPI
\* does after it has called the dependencies.
FindUser(a) ==
  /\ pc[a] = "user"
  /\ \/ /\ input[a].user \in users /\ input[a].valid_body
        /\ Goto(a, "context")
        /\ UNCHANGED <<error, status, holders, in_use>>
     \/ /\ input[a].user \notin users
        /\ Raise(a, "AuthenticationError")
     \/ /\ input[a].user \in users /\ ~ input[a].valid_body
        /\ Raise(a, "RequestValidationError")
  /\ UNCHANGED <<input, left, crashes, ingestVars>>

-----------------------------------------------------------------------------
(* send_chat_message *)

\* The relation types for the prompt, in the request's transaction.
BuildExtractionContext(a) ==
  /\ pc[a] = "context"
  /\ Goto(a, "extract")
  /\ UNCHANGED <<input, error, status, left, holders, in_use, crashes, ingestVars>>

\* Variant: without an extraction the message is answered all the same.
ExtractSkips(a) ==
  /\ pc[a] = "extract"
  /\ Goto(a, "answer")
  /\ UNCHANGED <<input, error, status, left, holders, in_use, crashes, ingestVars>>

Extract(a) ==
  /\ pc[a] = "extract"
  /\ Goto(a, "publish")
  /\ UNCHANGED <<input, error, status, left, holders, in_use, crashes, ingestVars>>

\* Variant: the LLM is asked again until it returns what the schema asks for.
ExtractRetries(a) ==
  /\ pc[a] = "extract"
  /\ Goto(a, "context")
  /\ UNCHANGED <<input, error, status, left, holders, in_use, crashes, ingestVars>>

\* The API of the LLM fails, or its answer is not what the schema asks for.
ExtractFails(a) ==
  /\ pc[a] = "extract"
  /\ Raise(a, "ExtractionError")
  /\ UNCHANGED <<input, left, crashes, ingestVars>>

\* The job takes the user that was found before the LLM was called.
Publish(a) ==
  /\ pc[a] = "publish"
  /\ \E d \in Extractions :
        job' = [job EXCEPT ![a] = [owner |-> input[a].user, data |-> d]]
  /\ outcome' = [outcome EXCEPT ![a] = "open"]
  /\ Goto(a, "answer")
  /\ UNCHANGED <<input, error, status, left, holders, in_use, crashes, users, memory>>

\* Variant: the broker has the job although the call raises.
PublishFailsLate(a) ==
  /\ pc[a] = "publish"
  /\ \E d \in Extractions :
        job' = [job EXCEPT ![a] = [owner |-> input[a].user, data |-> d]]
  /\ outcome' = [outcome EXCEPT ![a] = "open"]
  /\ Raise(a, "PublishError")
  /\ UNCHANGED <<input, left, crashes, users, memory>>

\* The NATS client refuses before it sends (no connection, payload too large).
PublishFails(a) ==
  /\ pc[a] = "publish"
  /\ Raise(a, "PublishError")
  /\ UNCHANGED <<input, left, crashes, ingestVars>>

\* The answer is sent; the session is still open.
Answer(a) ==
  /\ pc[a] = "answer"
  /\ status' = [status EXCEPT ![a] = 200]
  /\ Goto(a, "answered")
  /\ UNCHANGED <<input, error, left, holders, in_use, crashes, ingestVars>>

\* Variant: after an error of the LLM the handler is run again.
AnswerRetriesAll(a) ==
  /\ pc[a] = "answer"
  /\ Goto(a, "extract")
  /\ UNCHANGED <<input, error, status, left, holders, in_use, crashes, ingestVars>>

\* The API of the LLM fails: the job is published all the same.
AnswerFails(a) ==
  /\ pc[a] = "answer"
  /\ Raise(a, "AnswerError")
  /\ UNCHANGED <<input, left, crashes, ingestVars>>

\* After the response: the transaction is committed, the session closed.
Finish(a) ==
  /\ pc[a] = "answered"
  /\ holders' = holders \ {a}
  /\ in_use' = in_use - 1
  /\ Goto(a, "done")
  /\ UNCHANGED <<input, error, status, left, crashes, ingestVars>>

-----------------------------------------------------------------------------
(* The rest of the system. *)

Down == {a \in Attempts : pc[a] \in InFlight}

\* The API process dies and is started again: the connections of its clients are
\* reset, its connections to the database closed; what is published stays.
Crash ==
  /\ crashes < MaxCrashes
  /\ crashes' = crashes + 1
  /\ error' = [a \in Attempts |-> IF a \in Down THEN "Crash" ELSE error[a]]
  /\ pc' = [a \in Attempts |-> IF pc[a] \in InFlight \cup {"answered"} THEN "done" ELSE pc[a]]
  /\ holders' = {} /\ in_use' = 0
  /\ UNCHANGED <<input, status, left, ingestVars>>

\* The worker keeps or loses a job, the administrator deletes a user.
Work(a)   == (Ingest!Store(a) \/ Ingest!Lose(a)) /\ UNCHANGED chatVars
Delete(u) == Ingest!EraseUser(u) /\ UNCHANGED chatVars

Handle(a) ==
  \/ Dispatch(a) \/ DecodeToken(a)
  \/ Connect(a) \/ DatabaseFails(a) \/ FindUser(a)
  \/ BuildExtractionContext(a) \/ Extract(a) \/ ExtractFails(a)
  \/ Publish(a) \/ PublishFails(a)
  \/ Answer(a) \/ AnswerFails(a) \/ Finish(a)

Next ==
  \/ \E a \in Attempts : Send(a) \/ GiveUp(a) \/ Handle(a) \/ Work(a)
  \/ \E u \in Users : Delete(u)
  \/ Crash

Spec == Init /\ [][Next]_vars

\* The event loop runs every handler on; a wait for a connection and a call of an
\* API end, one way or the other (pool timeout, an error of the client).
FairSpec == Spec /\ \A a \in Attempts : WF_vars(Handle(a))

-----------------------------------------------------------------------------
(* Properties. *)

TypeOK ==
  /\ pc \in [Attempts -> Steps]
  /\ input \in [Attempts -> {None} \cup Input]
  /\ \A a \in Attempts : pc[a] # "idle" => input[a] \in Input
  /\ error \in [Attempts -> Errors]
  /\ status \in [Attempts -> {0, 200, 401, 422, 500}]
  /\ left \subseteq Attempts /\ holders \subseteq Attempts
  /\ in_use \in Nat /\ crashes \in Nat
  /\ users \subseteq Users
  /\ job \in [Attempts -> Ingest!Jobs \cup {NoJob}]
  /\ outcome \in [Attempts -> {"new", "open", "stored", "lost"}]

\* Every connection that is out belongs to a request that is still at work, there
\* are never more of them than the pool allows, and a request that ended in any way
\* has given its own back (dependencies.py provide_transaction, database.py
\* create_engine_from_settings).
PoolAccounting ==
  /\ in_use = Cardinality(holders)
  /\ in_use <= Limit
  /\ \A a \in holders : pc[a] \notin {"idle", "arrived", "token", "connect", "done"}

\* A client error says that nothing of the message will be remembered: whatever
\* refuses a request comes before the job is published (chat.py send_chat_message).
RefusedIsNotRemembered ==
  \A a \in Attempts : status[a] \in 400 .. 499 => job[a] = NoJob /\ memory[a] = {}

\* A message that was sent again is remembered twice only if the answer failed, the
\* client lost patience or the process died after the job was published: no other
\* error leaves a job behind (the order of the calls in send_chat_message).
DuplicatesExplained ==
  \A a, b \in Attempts :
     a # b /\ memory[a] # {} /\ memory[b] # {} /\ input[a].text = input[b].text
       => \E c \in {a, b} : c \in left \/ error[c] \in {"AnswerError", "Crash"}

\* Every request comes to its end and gives its connection back, also when more
\* requests than connections wait for the LLM or for each other.
RequestsEnd == \A a \in Attempts : pc[a] = "arrived" ~> pc[a] = "done"

\* For the client, the handler keeps the promise of ChatService.
State(a) ==
  IF pc[a] = "idle" THEN "none"
  ELSE IF status[a] = 200 THEN "answered"
  ELSE IF status[a] \in 400 .. 499 THEN "refused"
  ELSE IF error[a] # "none" THEN "failed"
  ELSE "open"

Chat == INSTANCE ChatService
          WITH state     <- [a \in Attempts |-> State(a)],
               published <- [a \in Attempts |-> job[a] # NoJob]

\* Whatever fails and wherever, a client is answered only after the job went out and
\* refused only before (ChatService).
ImplementsChatService == Chat!Spec

\* The jobs that the requests publish are those the memory is promised for: each at
\* most once, with an owner and an extraction (MemoryIngest).
PublishesForIngest == Ingest!Spec

=============================================================================
