------------------------- MODULE RateLimiterProofs -------------------------
(***************************************************************************)
(* Proofs about RateLimiter, for any number of clients, any limit and any  *)
(* window, and a wall clock set back and forward any number of times.      *)
(*                                                                         *)
(* LimitHolds is not inductive: it needs to know that the limiter has not  *)
(* forgotten a request of this era that passed within the last Window      *)
(* (Forgotten), which holds because, until it is set forward, the wall     *)
(* clock gains nothing on the time that has passed since the request       *)
(* (NoHurry).                                                              *)
(***************************************************************************)
EXTENDS RateLimiter, FiniteSetTheorems, TLAPS

Bounded ==
  \A c \in Clients : IsFiniteSet(passed[c]) /\ IsFiniteSet(requests[c]) /\ requests[c] \subseteq passed[c]

\* Since a request of this era passed the wall clock has gained nothing on the real time.
NoHurry ==
  \A c \in Clients : \A r \in passed[c] :
     /\ r.at <= real /\ r.era <= forwards
     /\ r.era = forwards => wall - r.stamp <= real - r.at

\* What left the list in this era left the window.
Forgotten ==
  \A c \in Clients : \A r \in passed[c] \ requests[c] : r.era = forwards => r.at + Window <= real

IInv == TypeOK /\ Bounded /\ ListBounded /\ NoHurry /\ Forgotten /\ LimitHolds

-----------------------------------------------------------------------------
\* Pruning keeps a finite part of the list, with everything of this era that is in the window.
LEMMA KeptIsRecent ==
  ASSUME IInv, NEW c \in Clients
  PROVE  /\ Kept(c) \subseteq requests[c]
         /\ IsFiniteSet(Kept(c)) /\ Cardinality(Kept(c)) \in Nat
         /\ Cardinality(Kept(c)) <= Cardinality(requests[c])
         /\ \A r \in passed[c] : r.era = forwards /\ r.at > real - Window => r \in Kept(c)
         /\ \A r \in passed[c] \ Kept(c) : r.era = forwards => r.at + Window <= real
<1>1. Kept(c) \in SUBSET requests[c]
  BY DEF Kept
<1>2. IsFiniteSet(requests[c])
  BY DEF IInv, Bounded
<1>3. IsFiniteSet(Kept(c)) /\ Cardinality(Kept(c)) <= Cardinality(requests[c])
  BY <1>1, <1>2, FS_Subset
<1>4. Cardinality(Kept(c)) \in Nat
  BY <1>3, FS_CardinalityType
<1>5. ASSUME NEW r \in passed[c], r \notin Kept(c), r.era = forwards PROVE r.at + Window <= real
  <2>1. r \in Entries /\ real \in Nat /\ wall \in Int /\ Window \in Nat
    BY LimitAssumption DEF IInv, TypeOK
  <2>2. CASE r \in requests[c]
    <3>1. r.stamp <= wall - Window
      BY <1>5, <2>1, <2>2 DEF Kept, Entries
    <3>2. wall - r.stamp <= real - r.at
      BY <1>5 DEF IInv, NoHurry
    <3> QED
      BY <2>1, <3>1, <3>2 DEF Entries
  <2>3. CASE r \notin requests[c]
    BY <1>5, <2>3 DEF IInv, Forgotten
  <2> QED
    BY <2>2, <2>3
<1>6. ASSUME NEW r \in passed[c], r.era = forwards, r.at > real - Window PROVE r \in Kept(c)
  <2>1. r \in Entries /\ real \in Nat /\ Window \in Nat
    BY LimitAssumption DEF IInv, TypeOK
  <2> QED
    BY <1>5, <1>6, <2>1 DEF Entries
<1> QED
  BY <1>1, <1>3, <1>4, <1>5, <1>6

\* A request that passes keeps the invariant.
LEMMA PassStep ==
  ASSUME IInv, NEW c \in Clients, Pass(c)
  PROVE  IInv'
<1>0. /\ real \in Nat /\ wall \in Int /\ forwards \in Nat /\ Window \in Nat /\ MaxRequests \in Nat
      /\ count \in [Clients -> Nat]
      /\ requests \in [Clients -> SUBSET Entries] /\ passed \in [Clients -> SUBSET Entries]
  BY LimitAssumption DEF IInv, TypeOK
<1>1. Entry(c) \in Entries /\ Entry(c).stamp = wall /\ Entry(c).at = real /\ Entry(c).era = forwards
  BY <1>0 DEF Entry, Entries
<1>2. /\ Cardinality(Kept(c)) < MaxRequests
      /\ requests' = [requests EXCEPT ![c] = Kept(c) \cup {Entry(c)}]
      /\ passed' = [passed EXCEPT ![c] = passed[c] \cup {Entry(c)}]
      /\ UNCHANGED <<real, wall, backs, forwards>>
  BY DEF Pass
<1>3. /\ IsFiniteSet(Kept(c) \cup {Entry(c)})
      /\ Cardinality(Kept(c) \cup {Entry(c)}) <= MaxRequests
      /\ Cardinality(Kept(c) \cup {Entry(c)}) \in Nat
  <2>1. IsFiniteSet(Kept(c)) /\ Cardinality(Kept(c)) \in Nat
    BY KeptIsRecent
  <2>2. /\ IsFiniteSet(Kept(c) \cup {Entry(c)})
        /\ \/ Cardinality(Kept(c) \cup {Entry(c)}) = Cardinality(Kept(c))
           \/ Cardinality(Kept(c) \cup {Entry(c)}) = Cardinality(Kept(c)) + 1
    BY <2>1, FS_AddElement
  <2> QED
    BY <1>0, <1>2, <2>1, <2>2
<1>4. TypeOK'
  <2>1. count' \in [Clients -> Nat] /\ answer' \in [Clients -> Answers]
    BY <1>0 DEF Pass, IInv, TypeOK, Answers
  <2>2. requests' \in [Clients -> SUBSET Entries] /\ passed' \in [Clients -> SUBSET Entries]
    BY <1>0, <1>1, <1>2, KeptIsRecent
  <2> QED
    BY <1>2, <2>1, <2>2 DEF IInv, TypeOK
<1>5. Bounded' /\ ListBounded'
  <2>1. IsFiniteSet(passed[c] \cup {Entry(c)})
    BY FS_AddElement DEF IInv, Bounded
  <2> QED
    BY <1>0, <1>2, <1>3, <2>1, KeptIsRecent DEF IInv, Bounded, ListBounded
<1>6. NoHurry'
  BY <1>0, <1>1, <1>2 DEF IInv, NoHurry
<1>7. Forgotten'
  <2> SUFFICES ASSUME NEW d \in Clients, NEW r \in passed'[d], r \notin requests'[d], r.era = forwards
               PROVE  r.at + Window <= real
    BY <1>2 DEF Forgotten
  <2>1. CASE d = c
    BY <1>0, <1>2, <2>1, KeptIsRecent
  <2>2. CASE d # c
    BY <1>0, <1>2, <2>2 DEF IInv, Forgotten
  <2> QED
    BY <2>1, <2>2
<1>8. LimitHolds'
  <2> SUFFICES ASSUME NEW d \in Clients, NEW q \in passed'[d]
               PROVE  Cardinality({r \in passed'[d] : r.era = q.era /\ q.at - Window < r.at /\ r.at <= q.at}) <= MaxRequests
    BY DEF LimitHolds, WindowOf
  <2>1. CASE d = c /\ q.at = real /\ q.era = forwards
    <3> DEFINE Last == {r \in passed'[d] : r.era = q.era /\ q.at - Window < r.at /\ r.at <= q.at}
    <3>1. Last \in SUBSET (Kept(c) \cup {Entry(c)})
      BY <1>0, <1>2, <2>1, KeptIsRecent
    <3>2. IsFiniteSet(Last) /\ Cardinality(Last) <= Cardinality(Kept(c) \cup {Entry(c)})
      BY <1>3, <3>1, FS_Subset
    <3>3. Cardinality(Last) \in Nat
      BY <3>2, FS_CardinalityType
    <3> HIDE DEF Last
    <3>4. Cardinality(Last) <= MaxRequests
      BY <1>0, <1>3, <3>2, <3>3
    <3> QED
      BY <3>4 DEF Last
  <2>2. CASE d # c \/ q.at # real \/ q.era # forwards
    <3>1. q \in passed[d]
      BY <1>0, <1>1, <1>2, <2>2
    <3>2. q.at <= real /\ q \in Entries
      BY <1>0, <3>1 DEF IInv, NoHurry
    <3>3. {r \in passed'[d] : r.era = q.era /\ q.at - Window < r.at /\ r.at <= q.at} = WindowOf(d, q)
      <4>1. CASE d # c
        BY <1>0, <1>2, <4>1 DEF WindowOf
      <4>2. CASE d = c /\ (q.at # real \/ q.era # forwards)
        <5>1. passed'[d] = passed[d] \cup {Entry(c)}
          BY <1>0, <1>2, <4>2
        <5>2. ~ (Entry(c).at <= q.at) \/ Entry(c).era # q.era
          BY <1>0, <1>1, <3>2, <4>2 DEF Entries
        <5> QED
          BY <5>1, <5>2 DEF WindowOf
      <4> QED
        BY <2>2, <4>1, <4>2
    <3> QED
      BY <3>1, <3>3 DEF IInv, LimitHolds
  <2> QED
    BY <1>0, <2>1, <2>2
<1> QED
  BY <1>4, <1>5, <1>6, <1>7, <1>8 DEF IInv

\* So does a request that is refused: it prunes the list.
LEMMA RefuseStep ==
  ASSUME IInv, NEW c \in Clients, Refuse(c)
  PROVE  IInv'
<1>0. /\ real \in Nat /\ Window \in Nat /\ MaxRequests \in Nat
      /\ requests \in [Clients -> SUBSET Entries] /\ passed \in [Clients -> SUBSET Entries]
  BY LimitAssumption DEF IInv, TypeOK
<1>1. /\ requests' = [requests EXCEPT ![c] = Kept(c)]
      /\ answer' = [answer EXCEPT ![c] = "refused"]
      /\ UNCHANGED <<real, wall, backs, forwards, count, passed>>
  BY DEF Refuse
<1>2. IsFiniteSet(requests[c]) /\ Cardinality(requests[c]) \in Nat /\ Cardinality(requests[c]) <= MaxRequests
  BY FS_CardinalityType DEF IInv, Bounded, ListBounded
<1>3. TypeOK'
  <2>1. answer' \in [Clients -> Answers]
    BY <1>1 DEF IInv, TypeOK, Answers
  <2>2. requests' \in [Clients -> SUBSET Entries]
    BY <1>0, <1>1, KeptIsRecent
  <2> QED
    BY <1>1, <2>1, <2>2 DEF IInv, TypeOK
<1>4. Bounded' /\ ListBounded'
  BY <1>0, <1>1, <1>2, KeptIsRecent DEF IInv, Bounded, ListBounded
<1>5. Forgotten'
  BY <1>0, <1>1, KeptIsRecent DEF IInv, Forgotten
<1>6. NoHurry' /\ LimitHolds'
  BY <1>1 DEF IInv, NoHurry, LimitHolds, WindowOf
<1> QED
  BY <1>3, <1>4, <1>5, <1>6 DEF IInv

\* And the clocks.
LEMMA ClockStep ==
  ASSUME IInv, Tick \/ StepBack \/ StepForward
  PROVE  IInv'
<1>0. /\ real \in Nat /\ wall \in Int /\ backs \in Nat /\ forwards \in Nat /\ Window \in Nat
      /\ passed \in [Clients -> SUBSET Entries]
  BY LimitAssumption DEF IInv, TypeOK
<1>1. /\ UNCHANGED <<count, requests, passed, answer>>
      /\ \/ forwards' = forwards /\ real' = real + 1 /\ wall' = wall + 1
         \/ forwards' = forwards /\ real' = real /\ wall' \in Int /\ wall' < wall
         \/ forwards' = forwards + 1 /\ real' = real /\ wall' \in Int
      /\ backs' \in Nat
  BY <1>0 DEF Tick, StepBack, StepForward
<1>2. TypeOK' /\ Bounded' /\ ListBounded' /\ LimitHolds'
  BY <1>0, <1>1 DEF IInv, TypeOK, Bounded, ListBounded, LimitHolds, WindowOf
<1>3. NoHurry'
  <2> SUFFICES ASSUME NEW c \in Clients, NEW r \in passed[c]
               PROVE  /\ r.at <= real' /\ r.era <= forwards'
                      /\ r.era = forwards' => wall' - r.stamp <= real' - r.at
    BY <1>1 DEF NoHurry
  <2>1. /\ r.at \in Nat /\ r.era \in Nat /\ r.stamp \in Int /\ r.at <= real /\ r.era <= forwards
        /\ r.era = forwards => wall - r.stamp <= real - r.at
    BY <1>0 DEF IInv, NoHurry, Entries
  <2> QED
    BY <1>0, <1>1, <2>1
<1>4. Forgotten'
  <2> SUFFICES ASSUME NEW c \in Clients, NEW r \in passed[c], r \notin requests[c], r.era = forwards'
               PROVE  r.at + Window <= real'
    BY <1>1 DEF Forgotten
  <2>1. r.at \in Nat /\ r.era <= forwards /\ (r.era = forwards => r.at + Window <= real)
    BY <1>0 DEF IInv, NoHurry, Forgotten, Entries
  <2> QED
    BY <1>0, <1>1, <2>1
<1> QED
  BY <1>2, <1>3, <1>4 DEF IInv

LEMMA Invariance == Spec => []IInv
<1>1. Init => IInv
  <2> SUFFICES ASSUME Init PROVE IInv
    OBVIOUS
  <2>1. TypeOK /\ Bounded /\ NoHurry /\ Forgotten /\ LimitHolds
    BY FS_EmptySet DEF Init, TypeOK, Answers, Bounded, NoHurry, Forgotten, LimitHolds
  <2>2. ListBounded
    BY LimitAssumption, FS_EmptySet DEF Init, ListBounded
  <2> QED
    BY <2>1, <2>2 DEF IInv
<1>2. IInv /\ [Next]_vars => IInv'
  <2>1. CASE UNCHANGED vars
    BY <2>1 DEF vars, IInv, TypeOK, Bounded, ListBounded, NoHurry, Forgotten, LimitHolds, WindowOf
  <2> QED
    BY <2>1, PassStep, RefuseStep, ClockStep DEF Next
<1> QED
  BY <1>1, <1>2, PTL DEF Spec

\* Every variable keeps its type.
THEOREM TypeCorrect == Spec => []TypeOK
<1>1. IInv => TypeOK
  BY DEF IInv
<1> QED
  BY <1>1, Invariance, PTL

\* However the wall clock is set back, at most MaxRequests requests of a client pass
\* within a Window of real time in which it is not set forward.
THEOREM LimitIsKept == Spec => []LimitHolds
<1>1. IInv => LimitHolds
  BY DEF IInv
<1> QED
  BY <1>1, Invariance, PTL

\* The list of a client never grows beyond MaxRequests.
THEOREM ListStaysBounded == Spec => []ListBounded
<1>1. IInv => ListBounded
  BY DEF IInv
<1> QED
  BY <1>1, Invariance, PTL

-----------------------------------------------------------------------------
(* The limiter implements SlidingWindow. *)

\* Entries are told apart by their number.
Numbered ==
  /\ \A c \in Clients : \A r \in passed[c] : r.nr < count[c]
  /\ \A c \in Clients : \A r, q \in passed[c] : r.nr = q.nr => r = q

\* Until it is set back the wall clock loses nothing on the real time.
Steady ==
  backs = 0 => \A c \in Clients : \A r \in passed[c] : real - r.at <= wall - r.stamp

LEMMA NumberedInit == Init => Numbered /\ Steady
BY DEF Init, Numbered, Steady

LEMMA NumberedStep == TypeOK /\ Numbered /\ [Next]_vars => Numbered'
<1> SUFFICES ASSUME TypeOK, Numbered, [Next]_vars PROVE Numbered'
  OBVIOUS
<1>0. /\ count \in [Clients -> Nat] /\ passed \in [Clients -> SUBSET Entries]
  BY DEF TypeOK
<1>1. ASSUME NEW c \in Clients, Pass(c) PROVE Numbered'
  <2>1. /\ passed' = [passed EXCEPT ![c] = passed[c] \cup {Entry(c)}]
        /\ count' = [count EXCEPT ![c] = count[c] + 1]
    BY <1>1 DEF Pass
  <2>2. Entry(c).nr = count[c]
    BY DEF Entry
  <2>3. \A r \in passed[c] : r.nr \in Nat /\ r.nr < count[c]
    BY <1>0 DEF Numbered, Entries
  <2>4. ASSUME NEW d \in Clients, NEW r \in passed'[d]
        PROVE  r.nr < count'[d]
    <3>1. CASE d = c
      BY <1>0, <2>1, <2>2, <2>3, <3>1 DEF Numbered
    <3>2. CASE d # c
      BY <1>0, <2>1, <3>2 DEF Numbered
    <3> QED
      BY <3>1, <3>2
  <2>5. ASSUME NEW d \in Clients, NEW r \in passed'[d], NEW q \in passed'[d], r.nr = q.nr
        PROVE  r = q
    <3>1. CASE d = c
      <4>1. passed'[d] = passed[c] \cup {Entry(c)}
        BY <1>0, <2>1, <3>1
      <4>2. \A x \in passed[c] : x.nr # Entry(c).nr
        BY <1>0, <2>2, <2>3
      <4> QED
        BY <2>5, <4>1, <4>2 DEF Numbered
    <3>2. CASE d # c
      BY <1>0, <2>1, <2>5, <3>2 DEF Numbered
    <3> QED
      BY <3>1, <3>2
  <2> QED
    BY <2>1, <2>4, <2>5 DEF Numbered
<1>2. CASE UNCHANGED <<count, passed>>
  BY <1>2 DEF Numbered
<1> QED
  BY <1>1, <1>2 DEF Next, Refuse, Tick, StepBack, StepForward, vars

LEMMA SteadyStep == TypeOK /\ Steady /\ [Next]_vars => Steady'
<1> SUFFICES ASSUME TypeOK, Steady, [Next]_vars, backs' = 0,
                    NEW d \in Clients, NEW r \in passed'[d]
             PROVE  real' - r.at <= wall' - r.stamp
  BY DEF Steady
<1>0. passed \in [Clients -> SUBSET Entries] /\ backs \in Nat /\ real \in Nat /\ wall \in Int
  BY DEF TypeOK
<1>1. ~ StepBack
  BY <1>0 DEF StepBack
<1>2. backs = 0
  BY <1>1 DEF Next, Pass, Refuse, Tick, StepForward, vars
<1>3. ASSUME r \in passed[d] PROVE r.at \in Nat /\ r.stamp \in Int /\ real - r.at <= wall - r.stamp
  BY <1>0, <1>2, <1>3 DEF Steady, Entries
<1>4. ASSUME NEW c \in Clients, Pass(c) PROVE real' - r.at <= wall' - r.stamp
  <2>1. real' = real /\ wall' = wall
    BY <1>4 DEF Pass
  <2>2. r \in passed[d] \/ r = Entry(c)
    BY <1>0, <1>4 DEF Pass
  <2>3. Entry(c).at = real /\ Entry(c).stamp = wall
    BY DEF Entry
  <2>4. CASE r = Entry(c)
    BY <1>0, <2>1, <2>3, <2>4
  <2>5. CASE r \in passed[d]
    BY <1>3, <2>1, <2>5
  <2> QED
    BY <2>2, <2>4, <2>5
<1>5. CASE UNCHANGED <<real, wall, passed>>
  BY <1>3, <1>5
<1>6. CASE Tick \/ StepForward
  <2>1. /\ passed' = passed
        /\ \/ real' = real + 1 /\ wall' = wall + 1
           \/ real' = real /\ wall' \in Int /\ wall' > wall
    BY <1>0, <1>6, LimitAssumption DEF Tick, StepForward
  <2> QED
    BY <1>0, <1>3, <2>1
<1> QED
  BY <1>1, <1>4, <1>5, <1>6 DEF Next, Refuse, vars

\* The two modules count in the same way.
LEMMA SameCardinality == \A S : Exact!Cardinality(S) = Cardinality(S)
BY Zenon DEF Exact!Cardinality, Cardinality

Seen(r) == [nr |-> r.nr, at |-> r.at, era |-> r.era]
SeenPassed == [c \in Clients |-> {[nr |-> r.nr, at |-> r.at, era |-> r.era] : r \in passed[c]}]

\* Requests can be counted by what SlidingWindow sees of them.
LEMMA SeenCardinality ==
  ASSUME Numbered, NEW c \in Clients, NEW S \in SUBSET passed[c], IsFiniteSet(S)
  PROVE  Cardinality({Seen(r) : r \in S}) = Cardinality(S)
<1> DEFINE f == [r \in S |-> Seen(r)]
<1> DEFINE T == {Seen(r) : r \in S}
<1>1. f \in [S -> T]
  OBVIOUS
<1>2. \A r, q \in S : f[r] = f[q] => r = q
  BY DEF Seen, Numbered
<1>3. \A s \in T : \E r \in S : f[r] = s
  OBVIOUS
<1> HIDE DEF f, T
<1>4. f \in Injection(S, T) /\ f \in Surjection(S, T)
  BY <1>1, <1>2, <1>3 DEF Injection, IsInjective, Surjection
<1>5. ExistsBijection(S, T)
  BY <1>4 DEF ExistsBijection, Bijection
<1>6. Cardinality(T) = Cardinality(S)
  BY <1>5, FS_Bijection
<1> QED
  BY <1>6 DEF T

\* The limiter counts at least what the window of this era contains, and until the clock
\* is set back nothing that is not in the window.
LEMMA CountsTheWindow ==
  ASSUME IInv, Numbered, Steady, NEW c \in Clients
  PROVE  /\ Cardinality(Exact!Recent(c)) \in Nat /\ Cardinality(Exact!InWindow(c)) \in Nat
         /\ Cardinality(Exact!Recent(c)) <= Cardinality(Kept(c))
         /\ backs = 0 => Cardinality(Exact!InWindow(c)) >= Cardinality(Kept(c))
<1> DEFINE Within == {r \in passed[c] : r.at > real - Window}
<1> DEFINE Inside == {r \in Within : r.era = forwards}
<1>0. /\ real \in Nat /\ wall \in Int /\ Window \in Nat /\ passed \in [Clients -> SUBSET Entries]
      /\ IsFiniteSet(passed[c]) /\ requests[c] \subseteq passed[c]
  BY LimitAssumption DEF IInv, TypeOK, Bounded
<1>1. Exact!InWindow(c) = {Seen(r) : r \in Within}
  BY DEF Exact!InWindow, Seen
<1>2. Exact!Recent(c) = {Seen(r) : r \in Inside}
  BY <1>1 DEF Exact!Recent, Seen
<1>3. Within \in SUBSET passed[c] /\ Inside \in SUBSET passed[c] /\ Inside \in SUBSET Kept(c)
  BY KeptIsRecent
<1>4. IsFiniteSet(Within) /\ IsFiniteSet(Inside) /\ IsFiniteSet(Kept(c)) /\ Cardinality(Inside) <= Cardinality(Kept(c))
  BY <1>0, <1>3, KeptIsRecent, FS_Subset
<1>5. Cardinality(Within) \in Nat /\ Cardinality(Inside) \in Nat
  BY <1>4, FS_CardinalityType
<1>6. backs = 0 => Cardinality(Kept(c)) <= Cardinality(Within)
  <2> SUFFICES ASSUME backs = 0 PROVE Cardinality(Kept(c)) <= Cardinality(Within)
    OBVIOUS
  <2>1. ASSUME NEW r \in Kept(c) PROVE r \in Within
    <3>1. r \in passed[c] /\ r.stamp > wall - Window
      BY <1>0 DEF Kept
    <3>2. r.at \in Nat /\ r.stamp \in Int /\ real - r.at <= wall - r.stamp
      BY <1>0, <3>1 DEF Steady, Entries
    <3> QED
      BY <1>0, <3>1, <3>2
  <2> QED
    BY <1>4, <2>1, FS_Subset
<1> HIDE DEF Within, Inside
<1>7. Cardinality(Exact!InWindow(c)) = Cardinality(Within) /\ Cardinality(Exact!Recent(c)) = Cardinality(Inside)
  BY <1>1, <1>2, <1>3, <1>4, SeenCardinality
<1> QED
  BY <1>4, <1>5, <1>6, <1>7

\* The limiter implements the sliding window: it never lets too many pass in an era, and
\* until the clock is set back it never refuses too early.
THEOREM ExactLimit == Spec => IsSlidingWindow
<1>1. Init => Exact!Init
  <2> SUFFICES ASSUME Init PROVE Exact!Init
    OBVIOUS
  <2>1. SeenPassed = [c \in Clients |-> {}]
    BY DEF Init, SeenPassed
  <2>2. (backs = 0) = TRUE
    BY DEF Init
  <2> QED
    BY <2>1, <2>2, Zenon DEF Init, Exact!Init, SeenPassed
<1>2. IInv /\ Numbered /\ Steady /\ [Next]_vars => [Exact!Next]_(Exact!vars)
  <2> SUFFICES ASSUME IInv, Numbered, Steady, [Next]_vars PROVE Exact!Next \/ UNCHANGED Exact!vars
    OBVIOUS
  <2>0. passed \in [Clients -> SUBSET Entries] /\ backs \in Nat /\ MaxRequests \in Nat
    BY LimitAssumption DEF IInv, TypeOK
  <2>1. ASSUME NEW c \in Clients, Pass(c) PROVE Exact!Pass(c)
    <3>1. Cardinality(Exact!Recent(c)) < MaxRequests
      <4>1. Cardinality(Kept(c)) < MaxRequests /\ Cardinality(Kept(c)) \in Nat
        BY <2>1, KeptIsRecent DEF Pass
      <4> QED
        BY <2>0, <4>1, CountsTheWindow
    <3>2. passed' = [passed EXCEPT ![c] = passed[c] \cup {Entry(c)}] /\ UNCHANGED <<real, backs, forwards>>
      BY <2>1 DEF Pass
    <3>3. Seen(Entry(c)) = [nr |-> count[c], at |-> real, era |-> forwards]
      BY DEF Seen, Entry
    <3>4. SeenPassed' = [SeenPassed EXCEPT ![c] = SeenPassed[c] \cup {[nr |-> count[c], at |-> real, era |-> forwards]}]
      <4>1. ASSUME NEW d \in Clients, d # c PROVE {Seen(r) : r \in passed'[d]} = SeenPassed[d]
        BY <2>0, <3>2, <4>1 DEF SeenPassed, Seen
      <4>2. {Seen(r) : r \in passed'[c]} = SeenPassed[c] \cup {Seen(Entry(c))}
        BY <2>0, <3>2 DEF SeenPassed, Seen
      <4> QED
        BY <3>3, <4>1, <4>2 DEF SeenPassed, Seen
    <3>5. (backs = 0)' = (backs = 0)
      BY <3>2
    <3> QED
      BY <2>1, <3>1, <3>4, <3>5, SameCardinality DEF Pass, Exact!Pass, SeenPassed
  <2>2. ASSUME NEW c \in Clients, Refuse(c) PROVE Exact!Refuse(c)
    <3>1. backs = 0 => Cardinality(Exact!InWindow(c)) >= MaxRequests
      BY <2>0, <2>2, CountsTheWindow, KeptIsRecent DEF Refuse
    <3>2. (backs = 0)' = (backs = 0)
      BY <2>2 DEF Refuse
    <3> QED
      BY <2>2, <3>1, <3>2, SameCardinality DEF Refuse, Exact!Refuse
  <2>3. CASE Tick
    <3>1. (backs = 0)' = (backs = 0)
      BY <2>3 DEF Tick
    <3> QED
      BY <2>3, <3>1 DEF Tick, Exact!Next, Exact!Tick
  <2>4. CASE StepBack
    <3>1. (backs = 0)' = FALSE
      BY <2>0, <2>4 DEF StepBack
    <3> QED
      BY <2>4, <3>1 DEF StepBack, Exact!Next, Exact!SetBack
  <2>5. CASE StepForward
    <3>1. (backs = 0)' = (backs = 0)
      BY <2>5 DEF StepForward
    <3> QED
      BY <2>5, <3>1 DEF StepForward, Exact!Next, Exact!SetForward
  <2>6. CASE UNCHANGED vars
    BY <2>6 DEF vars, Exact!vars
  <2> QED
    BY <2>1, <2>2, <2>3, <2>4, <2>5, <2>6 DEF Next, Exact!Next
<1>3. Spec => [](Numbered /\ Steady)
  <2>1. IInv /\ Numbered /\ Steady /\ [Next]_vars => (Numbered /\ Steady)'
    BY NumberedStep, SteadyStep DEF IInv
  <2> QED
    BY <2>1, NumberedInit, Invariance, PTL DEF Spec
<1> QED
  BY <1>1, <1>2, <1>3, Invariance, PTL DEF Spec, IsSlidingWindow, Exact!Spec

=============================================================================
