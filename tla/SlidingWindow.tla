--------------------------- MODULE SlidingWindow ---------------------------
(***************************************************************************)
(* What a sliding-window limit promises: a request passes only when fewer  *)
(* than MaxRequests requests of its client have passed within the last     *)
(* Window, since the clock was last set forward; and as long as the clock  *)
(* was not set back it is refused only when no fewer have passed within    *)
(* the last Window.                                                        *)
(***************************************************************************)
EXTENDS Integers, FiniteSets

CONSTANTS Clients, MaxRequests, Window

VARIABLES now,       \* the time
          steady,    \* the clock was never set back
          forwards,  \* how often the clock was set forward
          count,     \* [Clients -> how many requests have passed]
          passed,    \* [Clients -> the requests that passed, each with its number, time and era]
          answer     \* [Clients -> the answer to the last request]

vars == <<now, steady, forwards, count, passed, answer>>

InWindow(c) == {r \in passed[c] : r.at > now - Window}
Recent(c)   == {r \in InWindow(c) : r.era = forwards}

Init ==
  /\ now = 0 /\ steady = TRUE /\ forwards = 0
  /\ count = [c \in Clients |-> 0]
  /\ passed = [c \in Clients |-> {}]
  /\ answer = [c \in Clients |-> "none"]

Pass(c) ==
  /\ Cardinality(Recent(c)) < MaxRequests
  /\ passed' = [passed EXCEPT ![c] = @ \cup {[nr |-> count[c], at |-> now, era |-> forwards]}]
  /\ count' = [count EXCEPT ![c] = @ + 1]
  /\ answer' = [answer EXCEPT ![c] = "passed"]
  /\ UNCHANGED <<now, steady, forwards>>

Refuse(c) ==
  /\ steady => Cardinality(InWindow(c)) >= MaxRequests
  /\ answer' = [answer EXCEPT ![c] = "refused"]
  /\ UNCHANGED <<now, steady, forwards, count, passed>>

Tick == now' = now + 1 /\ UNCHANGED <<steady, forwards, count, passed, answer>>

SetBack == steady' = FALSE /\ UNCHANGED <<now, forwards, count, passed, answer>>

SetForward == forwards' = forwards + 1 /\ UNCHANGED <<now, steady, count, passed, answer>>

Next == Tick \/ SetBack \/ SetForward \/ \E c \in Clients : Pass(c) \/ Refuse(c)

Spec == Init /\ [][Next]_vars

=============================================================================
