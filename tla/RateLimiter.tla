---------------------------- MODULE RateLimiter ----------------------------
(***************************************************************************)
(* InMemoryRateLimiter (api/rate_limiter.py).  The body of dispatch up to  *)
(* call_next contains no await, so a request is one action; requests to    *)
(* the excluded paths touch nothing.  The limiter reads time.time(), a     *)
(* wall clock that may be set back (StepBack) or forward (StepForward);    *)
(* "real" is the time that passes.  The list of a client's timestamps is a *)
(* set of entries with the number of the request, which keeps equal        *)
(* timestamps apart; stamp is what the limiter stores, at the real time    *)
(* and era the number of steps forward before it, neither of which it      *)
(* knows.                                                                  *)
(***************************************************************************)
EXTENDS Integers, FiniteSets

CONSTANTS
  Clients,
  MaxRequests,  \* max_requests
  Window,       \* window_seconds
  MaxBack,      \* how often the wall clock may be set back
  MaxForward,   \* how often it may be set forward
  MaxTime       \* the time at which the clock stops

ASSUME LimitAssumption ==
  /\ MaxRequests \in Nat /\ Window \in Nat
  /\ MaxBack \in Nat /\ MaxForward \in Nat /\ MaxTime \in Nat

VARIABLES
  real, wall,  \* the time, and what time.time() returns
  backs,       \* how often the wall clock was set back
  forwards,    \* how often it was set forward
  count,       \* [Clients -> how many of its requests have passed]
  requests,    \* [Clients -> _requests[client_ip]]
  passed,      \* [Clients -> all its requests that passed]
  answer       \* [Clients -> the answer to its last request]

vars == <<real, wall, backs, forwards, count, requests, passed, answer>>

Entries == [nr : Nat, stamp : Int, at : Nat, era : Nat]
Answers == {"none", "passed", "refused"}

Init ==
  /\ real = 0 /\ wall = 0 /\ backs = 0 /\ forwards = 0
  /\ count = [c \in Clients |-> 0]
  /\ requests = [c \in Clients |-> {}]
  /\ passed = [c \in Clients |-> {}]
  /\ answer = [c \in Clients |-> "none"]

\* Variant: the list keeps the ages of the requests instead of their timestamps.
KeptAges(c) ==
  {[nr |-> r.nr, age |-> wall - r.stamp] : r \in {q \in requests[c] : q.stamp > wall - Window}}

\* Variant: an entry that leaves the window at this instant is still counted.
KeptLong(c) == {r \in requests[c] : r.stamp >= wall - Window}

\* The timestamps inside the window.
Kept(c) == {r \in requests[c] : r.stamp > wall - Window}

Entry(c) == [nr |-> count[c], stamp |-> wall, at |-> real, era |-> forwards]

\* Variant: the list is begun anew when a request passes.
PassForgets(c) ==
  /\ Cardinality(Kept(c)) < MaxRequests
  /\ requests' = [requests EXCEPT ![c] = {Entry(c)}]
  /\ passed' = [passed EXCEPT ![c] = @ \cup {Entry(c)}]
  /\ count' = [count EXCEPT ![c] = @ + 1]
  /\ answer' = [answer EXCEPT ![c] = "passed"]
  /\ UNCHANGED <<real, wall, backs, forwards>>

\* Variant: the limit is compared with the list that was there (> for >=).
PassAtLimit(c) ==
  /\ Cardinality(Kept(c)) <= MaxRequests
  /\ requests' = [requests EXCEPT ![c] = Kept(c) \cup {Entry(c)}]
  /\ passed' = [passed EXCEPT ![c] = @ \cup {Entry(c)}]
  /\ count' = [count EXCEPT ![c] = @ + 1]
  /\ answer' = [answer EXCEPT ![c] = "passed"]
  /\ UNCHANGED <<real, wall, backs, forwards>>

Pass(c) ==
  /\ Cardinality(Kept(c)) < MaxRequests
  /\ requests' = [requests EXCEPT ![c] = Kept(c) \cup {Entry(c)}]
  /\ passed' = [passed EXCEPT ![c] = @ \cup {Entry(c)}]
  /\ count' = [count EXCEPT ![c] = @ + 1]
  /\ answer' = [answer EXCEPT ![c] = "passed"]
  /\ UNCHANGED <<real, wall, backs, forwards>>

\* RateLimitExceededError; the list stays pruned.
Refuse(c) ==
  /\ Cardinality(Kept(c)) >= MaxRequests
  /\ requests' = [requests EXCEPT ![c] = Kept(c)]
  /\ answer' = [answer EXCEPT ![c] = "refused"]
  /\ UNCHANGED <<real, wall, backs, forwards, count, passed>>

Tick ==
  /\ real < MaxTime
  /\ real' = real + 1 /\ wall' = wall + 1
  /\ UNCHANGED <<backs, forwards, count, requests, passed, answer>>

StepBack ==
  /\ backs < MaxBack
  /\ backs' = backs + 1
  /\ wall' \in wall - Window .. wall - 1
  /\ UNCHANGED <<real, forwards, count, requests, passed, answer>>

StepForward ==
  /\ forwards < MaxForward
  /\ forwards' = forwards + 1
  /\ wall' \in wall + 1 .. wall + Window
  /\ UNCHANGED <<real, backs, count, requests, passed, answer>>

Next == Tick \/ StepBack \/ StepForward \/ \E c \in Clients : Pass(c) \/ Refuse(c)

Spec == Init /\ [][Next]_vars

-----------------------------------------------------------------------------
TypeOK ==
  /\ real \in Nat /\ wall \in Int /\ backs \in Nat /\ forwards \in Nat
  /\ count \in [Clients -> Nat]
  /\ requests \in [Clients -> SUBSET Entries]
  /\ passed \in [Clients -> SUBSET Entries]
  /\ answer \in [Clients -> Answers]

\* The requests that passed in the Window up to q, since the last step forward before q.
WindowOf(c, q) ==
  {r \in passed[c] : r.era = q.era /\ q.at - Window < r.at /\ r.at <= q.at}

\* At most MaxRequests requests of a client pass within any Window of real time,
\* also when the wall clock is set back in between ("Allows up to `max_requests`
\* requests per `window_seconds` per client IP": rate_limiter.py).  A step forward
\* makes the limiter forget, and the count begins anew with it.
LimitHolds ==
  \A c \in Clients : \A q \in passed[c] : Cardinality(WindowOf(c, q)) <= MaxRequests

\* The list of a client never holds more than MaxRequests timestamps: the
\* memory of the limiter is bounded per client.
ListBounded == \A c \in Clients : Cardinality(requests[c]) <= MaxRequests

\* The limiter lets nothing pass that the window of its era has no room for, and until
\* the clock is set back it refuses a request only when MaxRequests have passed within
\* the Window; without any step of the clock it is exact.
Exact == INSTANCE SlidingWindow
           WITH now <- real,
                steady <- backs = 0,
                passed <- [c \in Clients |-> {[nr |-> r.nr, at |-> r.at, era |-> r.era] : r \in passed[c]}]

IsSlidingWindow == Exact!Spec

=============================================================================
