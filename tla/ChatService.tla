----------------------------- MODULE ChatService -----------------------------
(***************************************************************************)
(* What POST /chat/send_message promises its client: a message is answered *)
(* only after its job went to the memory; a refusal (a client error, 4xx)  *)
(* says that the message did not; a failure says nothing.                  *)
(***************************************************************************)
CONSTANT Attempts

VARIABLES state,     \* [Attempts -> what has become of the request]
          published  \* [Attempts -> whether its job is published]

vars == <<state, published>>

States == {"none", "open", "answered", "refused", "failed"}

Init ==
  /\ state = [a \in Attempts |-> "none"]
  /\ published = [a \in Attempts |-> FALSE]

Close(a, how) ==
  /\ state[a] = "open"
  /\ state' = [state EXCEPT ![a] = how]
  /\ UNCHANGED published

Open(a) ==
  /\ state[a] = "none"
  /\ state' = [state EXCEPT ![a] = "open"]
  /\ UNCHANGED published

Publish(a) ==
  /\ state[a] = "open" /\ ~ published[a]
  /\ published' = [published EXCEPT ![a] = TRUE]
  /\ UNCHANGED state

Answer(a) == published[a] /\ Close(a, "answered")
Refuse(a) == ~ published[a] /\ Close(a, "refused")

\* Several requests fail at once when the server goes down.
Fail(down) ==
  /\ down # {}
  /\ \A a \in down : state[a] = "open"
  /\ state' = [a \in Attempts |-> IF a \in down THEN "failed" ELSE state[a]]
  /\ UNCHANGED published

Next ==
  \/ \E a \in Attempts : Open(a) \/ Publish(a) \/ Answer(a) \/ Refuse(a)
  \/ \E down \in SUBSET Attempts : Fail(down)

Spec == Init /\ [][Next]_vars

=============================================================================
