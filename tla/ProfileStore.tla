----------------------------- MODULE ProfileStore -----------------------------
(***************************************************************************)
(* What UserService promises of the profiles: a registration that succeeds *)
(* takes effect at once.  It gives each column what it was sent or leaves  *)
(* it as it is at that moment, whatever the request had loaded before, and *)
(* never takes a name that another user has.                               *)
(***************************************************************************)
CONSTANTS
  Requests, Users,
  Inputs,  \* what a request may bring
  Start,   \* [Users -> the profile at the start]
  None

VARIABLES
  rows,    \* [Users -> the profile, or None once deleted]
  sent,    \* [Requests -> what the request has brought, or None]
  outcome  \* [Requests -> whether it is open, done or failed]

vars == <<rows, sent, outcome>>

Init ==
  /\ rows = Start
  /\ sent = [r \in Requests |-> None]
  /\ outcome = [r \in Requests |-> "open"]

Close(r, how) ==
  /\ sent[r] # None /\ outcome[r] = "open"
  /\ outcome' = [outcome EXCEPT ![r] = how]
  /\ UNCHANGED sent

Ask(r) ==
  /\ sent[r] = None
  /\ \E i \in Inputs : sent' = [sent EXCEPT ![r] = i]
  /\ UNCHANGED <<rows, outcome>>

FreeFor(u, name) == \A v \in Users \ {u} : rows[v] # None => rows[v].username # name

Register(r, u) ==
  /\ Close(r, "done")
  /\ sent[r].kind = "register" /\ rows[u] # None
  /\ \E first \in {rows[u].first_name, sent[r].first_name},
        name \in {rows[u].username} \cup ({sent[r].username} \ {None}) :
       /\ name # None => FreeFor(u, name)
       /\ rows' = [rows EXCEPT ![u] = [first_name |-> first, username |-> name]]

\* An authentication, or a profile in which nothing is new.
Pass(r) == Close(r, "done") /\ UNCHANGED rows

Fail(r) == Close(r, "failed") /\ UNCHANGED rows

Delete(u) ==
  /\ rows[u] # None
  /\ rows' = [rows EXCEPT ![u] = None]
  /\ UNCHANGED <<sent, outcome>>

Next ==
  \/ \E r \in Requests : Ask(r) \/ Pass(r) \/ Fail(r) \/ \E u \in Users : Register(r, u)
  \/ \E u \in Users : Delete(u)

Spec == Init /\ [][Next]_vars

=============================================================================
