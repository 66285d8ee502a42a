--------------------------- MODULE AccountsProofs ---------------------------
(***************************************************************************)
(* Proofs about Accounts, for any number of requests, users and names.     *)
(*                                                                         *)
(* That names are unique is not inductive: it needs to know that a name in *)
(* an uncommitted row that has passed the index is no other user's, be it  *)
(* committed (NewNameIsFree) or uncommitted (NewNamesDiffer).  That the    *)
(* profile shows a registration needs to know that nobody else has touched *)
(* the row it was computed from (WorksOnStart).  That registrations take   *)
(* effect at once needs the row locks: an uncommitted row stays the one    *)
(* the UPDATE would write now (LockInv).                                   *)
(***************************************************************************)
EXTENDS Accounts, TLAPS

\* What a request knows at its steps.
StepInv ==
  \A r \in Requests :
     /\ pc[r] # "idle" => req[r] \in Input
     /\ pc[r] \in {"load", "update", "index", "commit"} => user[r] \in Users
     /\ pc[r] \in {"update", "index", "commit"} => loaded[r] \in Profiles /\ req[r].kind = "register"
     /\ pc[r] = "index" => held[r] # None
     /\ held[r] # None => pc[r] \in {"index", "commit"} /\ rows[user[r]] # None

\* The new row of r has passed the index, with a name.
Indexed(r) == pc[r] = "commit" /\ held[r] # None /\ held[r].username # None

NewNameIsFree ==
  \A r \in Requests : Indexed(r) =>
     \A v \in Users \ {user[r]} : rows[v] # None => rows[v].username # held[r].username

NewNamesDiffer ==
  \A r, o \in Requests :
     Indexed(r) /\ Indexed(o) /\ user[r] # user[o] => held[r].username # held[o].username

NameInv == NamesUnique /\ NewNameIsFree /\ NewNamesDiffer

\* What a profile of u may be made of, and what the uncommitted row of r adds.
SentFirst(u) == {Start[u].first_name} \cup {req[r].first_name : r \in Updates(u)}
SentName(u)  == {Start[u].username} \cup ({req[r].username : r \in Updates(u)} \ {None})

HeldWasSent ==
  \A r \in Requests : held[r] # None =>
     /\ held[r].first_name \in SentFirst(user[r]) \cup {req[r].first_name}
     /\ held[r].username \in SentName(user[r]) \cup ({req[r].username} \ {None})

SentInv == ProfileWasSent /\ HeldWasSent

\* The profile p has what r has sent.
Shows(r, p) == p.first_name = req[r].first_name /\ req[r].username \in {None, p.username}

\* As long as no registration of u has succeeded, the row of u is the one of the
\* start, and every registration of u under way works on that row.
StartIsKept == \A u \in Users : Updates(u) = {} /\ rows[u] # None => rows[u] = Start[u]

WorksOnStart(r) ==
  Updates(user[r]) = {} =>
     /\ pc[r] = "update" => loaded[r] = Start[user[r]]
     /\ pc[r] \in {"index", "commit"} /\ held[r] # None => Shows(r, held[r])
     /\ pc[r] = "commit" /\ held[r] = None => Shows(r, Start[user[r]])

ShowInv == StartIsKept /\ ProfileIsUpdated /\ \A r \in Requests : WorksOnStart(r)

\* An uncommitted row is still what the UPDATE would write now, for nobody else has
\* locked the row.
LockInv ==
  \A r \in Requests :
     /\ pc[r] = "idle" => req[r] = None
     /\ held[r] # None => /\ held[r] = Updated(r)
                          /\ \A o \in Requests \ {r} : user[o] = user[r] => held[o] = None

-----------------------------------------------------------------------------
\* A new row is a profile.
LEMMA UpdatedType ==
  ASSUME TypeOK, NEW r \in Requests, req[r] \in Input, user[r] \in Users,
         rows[user[r]] # None
  PROVE  Updated(r) \in Profiles
<1>1. rows[user[r]] \in Profiles
  BY DEF TypeOK
<1>2. req[r].first_name \in FirstNames /\ req[r].username \in Usernames \cup {None}
  BY DEF Input
<1> QED
  BY <1>1, <1>2 DEF Updated, Profiles

\* A step keeps the types and what the requests know.
LEMMA TypeStep == TypeOK /\ StepInv /\ [Next]_vars => TypeOK' /\ StepInv'
<1> USE AccountsAssumption
<1> SUFFICES ASSUME TypeOK, StepInv, [Next]_vars PROVE TypeOK' /\ StepInv'
  OBVIOUS
<1>0. None \notin Profiles /\ None \notin Users /\ None \notin Input
  OBVIOUS
<1>f. ASSUME NEW r \in Requests, NEW e \in Errors, Fail(r, e),
             UNCHANGED <<rows, identities, edits, req>>,
             user' \in [Requests -> Users \cup {None}], loaded' \in [Requests -> Profiles \cup {None}],
             pc[r] # "idle", \A o \in Requests \ {r} : user'[o] = user[o] /\ loaded'[o] = loaded[o]
      PROVE  TypeOK' /\ StepInv'
  <2>1. TypeOK'
    BY <1>f DEF TypeOK, Fail, Goto, Steps
  <2>2. StepInv'
    BY <1>f, <1>0 DEF TypeOK, StepInv, Fail, Goto
  <2> QED BY <2>1, <2>2
<1>1. ASSUME NEW r \in Requests, Begin(r) PROVE TypeOK' /\ StepInv'
  <2>1. TypeOK'
    BY <1>1 DEF TypeOK, Begin, Goto, Steps
  <2>2. StepInv'
    BY <1>1, <1>0 DEF TypeOK, StepInv, Begin, Goto
  <2> QED BY <2>1, <2>2
<1>2. ASSUME NEW r \in Requests, FindIdentity(r) PROVE TypeOK' /\ StepInv'
  <2>1. CASE Fail(r, "MultipleResultsFound") /\ UNCHANGED user
    BY <1>2, <2>1, <1>f DEF FindIdentity, Errors, TypeOK
  <2>2. CASE Fail(r, "NotRegistered") /\ UNCHANGED user
    BY <1>2, <2>2, <1>f DEF FindIdentity, Errors, TypeOK
  <2>3. ASSUME NEW i \in identities, user' = [user EXCEPT ![r] = i.user], Goto(r, "load"), UNCHANGED <<held, err>>
        PROVE  TypeOK' /\ StepInv'
    <3>1. i.user \in Users
      BY <2>3 DEF TypeOK, Identity
    <3>2. TypeOK'
      BY <1>2, <2>3, <3>1 DEF TypeOK, FindIdentity, Goto, Steps
    <3>3. StepInv'
      BY <1>2, <2>3, <3>1, <1>0 DEF TypeOK, StepInv, FindIdentity, Goto
    <3> QED BY <3>2, <3>3
  <2>4. CASE Goto(r, "create") /\ UNCHANGED <<user, held, err>>
    <3>1. TypeOK'
      BY <1>2, <2>4 DEF TypeOK, FindIdentity, Goto, Steps
    <3>2. StepInv'
      BY <1>2, <2>4, <1>0 DEF TypeOK, StepInv, FindIdentity, Goto
    <3> QED BY <3>1, <3>2
  <2> QED
    BY <1>2, <2>1, <2>2, <2>3, <2>4 DEF FindIdentity
<1>3. ASSUME NEW r \in Requests, CreateUser(r) PROVE TypeOK' /\ StepInv'
  BY <1>3, <1>f DEF CreateUser, Errors, TypeOK
<1>4. ASSUME NEW r \in Requests, LoadUser(r) PROVE TypeOK' /\ StepInv'
  <2>0. user[r] \in Users /\ req[r] \in Input
    BY <1>4 DEF LoadUser, StepInv
  <2>1. loaded' \in [Requests -> Profiles \cup {None}] /\ loaded'[r] = rows[user[r]]
        /\ \A o \in Requests \ {r} : loaded'[o] = loaded[o]
    BY <1>4, <2>0 DEF LoadUser, TypeOK
  <2>2. CASE rows[user[r]] # None
    <3>1. loaded'[r] \in Profiles
      BY <2>0, <2>1, <2>2 DEF TypeOK
    <3>2. UNCHANGED <<held, err>> /\ Goto(r, IF req[r].kind = "register" THEN "update" ELSE "done")
      BY <1>4, <2>2 DEF LoadUser
    <3>3. TypeOK'
      BY <1>4, <2>1, <3>2 DEF TypeOK, LoadUser, Goto, Steps
    <3>4. StepInv'
      BY <1>4, <2>0, <2>1, <3>1, <3>2, <1>0 DEF TypeOK, StepInv, LoadUser, Goto
    <3> QED BY <3>3, <3>4
  <2>3. CASE rows[user[r]] = None
    <3>1. Fail(r, "ValidationError") \/ Fail(r, "NotRegistered")
      BY <1>4, <2>3 DEF LoadUser
    <3> QED
      BY <1>4, <2>1, <3>1, <1>f DEF LoadUser, Errors, TypeOK
  <2> QED BY <2>2, <2>3
<1>5. ASSUME NEW r \in Requests, RefuseUrl(r) PROVE TypeOK' /\ StepInv'
  BY <1>5, <1>f DEF RefuseUrl, Errors, TypeOK
<1>6. ASSUME NEW r \in Requests, KeepRow(r) PROVE TypeOK' /\ StepInv'
  <2>1. TypeOK'
    BY <1>6 DEF TypeOK, KeepRow, Goto, Steps
  <2>2. StepInv'
    BY <1>6, <1>0 DEF TypeOK, StepInv, KeepRow, Goto
  <2> QED BY <2>1, <2>2
<1>7. ASSUME NEW r \in Requests, UpdateRow(r) PROVE TypeOK' /\ StepInv'
  <2>1. CASE rows[user[r]] = None
    <3>1. Fail(r, "StaleDataError")
      BY <1>7, <2>1 DEF UpdateRow, WriteRow
    <3> QED BY <1>7, <3>1, <1>f DEF UpdateRow, Errors, TypeOK
  <2>2. CASE rows[user[r]] # None
    <3>1. held' = [held EXCEPT ![r] = Updated(r)] /\ UNCHANGED err
          /\ (Goto(r, "commit") \/ Goto(r, "index"))
      BY <1>7, <2>2 DEF UpdateRow, WriteRow
    <3>2. req[r] \in Input /\ user[r] \in Users
      BY <1>7 DEF UpdateRow, StepInv
    <3>3. Updated(r) \in Profiles /\ Updated(r) # None
      BY <2>2, <3>2, <1>0, UpdatedType
    <3>4. TypeOK'
      BY <1>7, <3>1, <3>3 DEF TypeOK, UpdateRow, Goto, Steps
    <3>5. StepInv'
      BY <1>7, <2>2, <3>1, <3>2, <3>3 DEF TypeOK, StepInv, UpdateRow, Goto
    <3> QED BY <3>4, <3>5
  <2> QED BY <2>1, <2>2
<1>8. ASSUME NEW r \in Requests, EnterName(r) PROVE TypeOK' /\ StepInv'
  <2>1. CASE NameTaken(r)
    BY <1>8, <2>1, <1>f DEF EnterName, Errors, TypeOK
  <2>2. CASE ~ NameTaken(r)
    <3>1. TypeOK'
      BY <1>8, <2>2 DEF TypeOK, EnterName, Goto, Steps
    <3>2. StepInv'
      BY <1>8, <2>2, <1>0 DEF TypeOK, StepInv, EnterName, Goto
    <3> QED BY <3>1, <3>2
  <2> QED BY <2>1, <2>2
<1>9. ASSUME NEW r \in Requests, DetectDeadlock(r) PROVE TypeOK' /\ StepInv'
  <2>1. PICK y \in Requests : r \in WaitsFor(y)
    BY <1>9 DEF DetectDeadlock, InCircle
  <2>2. held[r] # None
    BY <2>1 DEF WaitsFor
  <2>3. pc[r] # "idle"
    BY <2>2 DEF StepInv
  <2> QED
    BY <1>9, <2>3, <1>f DEF DetectDeadlock, Errors, TypeOK
<1>10. ASSUME NEW r \in Requests, Commit(r) PROVE TypeOK' /\ StepInv'
  <2>0. user[r] \in Users
    BY <1>10 DEF Commit, StepInv
  <2>1. rows' \in [Users -> Profiles \cup {None}] /\ \A u \in Users : rows[u] # None => rows'[u] # None
    BY <1>10, <2>0 DEF Commit, TypeOK
  <2>2. TypeOK'
    BY <1>10, <2>1 DEF TypeOK, Commit, Goto, Steps
  <2>3. \A o \in Requests : held[o] # None => user[o] \in Users
    BY DEF StepInv
  <2>4. StepInv'
    BY <1>10, <2>1, <2>3 DEF TypeOK, StepInv, Commit, Goto
  <2> QED BY <2>2, <2>4
<1>11. ASSUME NEW i \in Identity, AddIdentity(i) \/ RemoveIdentity(i) PROVE TypeOK' /\ StepInv'
  BY <1>11 DEF AddIdentity, RemoveIdentity, TypeOK, StepInv
<1>12. ASSUME NEW u \in Users, DeleteUser(u) PROVE TypeOK' /\ StepInv'
  <2>1. rows' \in [Users -> Profiles \cup {None}] /\ \A v \in Users \ {u} : rows'[v] = rows[v]
    BY <1>12 DEF DeleteUser, TypeOK
  <2>2. \A o \in Requests : held[o] # None => user[o] \in Users \ {u}
    BY <1>12 DEF StepInv, DeleteUser
  <2>3. TypeOK'
    BY <1>12, <2>1 DEF DeleteUser, TypeOK
  <2>4. StepInv'
    BY <1>12, <2>1, <2>2 DEF DeleteUser, StepInv
  <2> QED BY <2>3, <2>4
<1>13. CASE UNCHANGED vars
  BY <1>13 DEF vars, TypeOK, StepInv
<1> QED
  BY <1>1, <1>2, <1>3, <1>4, <1>5, <1>6, <1>7, <1>8, <1>9, <1>10, <1>11, <1>12, <1>13 DEF Next, Serve

-----------------------------------------------------------------------------
\* A step that writes no row, and after which its request has no new name in the
\* index, keeps the names apart.
LEMMA NameUntouched ==
  ASSUME NameInv, NEW r \in Requests, rows' = rows, ~ Indexed(r)',
         \A o \in Requests \ {r} : pc'[o] = pc[o] /\ held'[o] = held[o] /\ user'[o] = user[o]
  PROVE  NameInv'
<1>1. \A o \in Requests : Indexed(o)' => o # r /\ Indexed(o)
  BY DEF Indexed
<1> QED
  BY <1>1 DEF NameInv, NamesUnique, NewNameIsFree, NewNamesDiffer

\* A new row that comes to its commit with a name that is no other user's, committed
\* or in the index, keeps the names apart.
LEMMA NameEntered ==
  ASSUME NameInv, NEW r \in Requests, rows' = rows, user' = user,
         \A o \in Requests \ {r} : pc'[o] = pc[o] /\ held'[o] = held[o],
         Indexed(r)' => /\ \A v \in Users \ {user[r]} :
                             rows[v] # None => rows[v].username # held'[r].username
                        /\ \A o \in Requests \ {r} :
                             Indexed(o) /\ user[o] # user[r] => held[o].username # held'[r].username
  PROVE  NameInv'
<1>1. \A o \in Requests \ {r} : Indexed(o)' <=> Indexed(o)
  BY DEF Indexed
<1>2. NamesUnique'
  BY DEF NameInv, NamesUnique
<1>3. NewNameIsFree'
  BY <1>1 DEF NameInv, NewNameIsFree
<1>4. NewNamesDiffer'
  BY <1>1 DEF NameInv, NewNamesDiffer
<1> QED
  BY <1>2, <1>3, <1>4 DEF NameInv

LEMMA NameStep == TypeOK /\ StepInv /\ NameInv /\ [Next]_vars => NameInv'
<1> SUFFICES ASSUME TypeOK, StepInv, NameInv, [Next]_vars PROVE NameInv'
  OBVIOUS
<1> USE AccountsAssumption
<1>f. ASSUME NEW r \in Requests, NEW e, Fail(r, e), rows' = rows, UNCHANGED user PROVE NameInv'
  <2>1. held'[r] = None /\ \A o \in Requests \ {r} : pc'[o] = pc[o] /\ held'[o] = held[o]
    BY <1>f DEF Fail, Goto, TypeOK
  <2> QED
    BY <1>f, <2>1, NameUntouched DEF Indexed
<1>1. ASSUME NEW r \in Requests, Begin(r) \/ FindIdentity(r) \/ LoadUser(r) PROVE NameInv'
  <2>1. pc[r] \in {"idle", "identity", "load"} /\ held[r] = None
    BY <1>1 DEF Begin, FindIdentity, LoadUser, StepInv
  <2>2. held'[r] = None /\ rows' = rows
    BY <1>1, <2>1 DEF Begin, FindIdentity, LoadUser, Fail, TypeOK
  <2>3. \A o \in Requests \ {r} : pc'[o] = pc[o] /\ held'[o] = held[o] /\ user'[o] = user[o]
    BY <1>1 DEF Begin, FindIdentity, LoadUser, Fail, Goto, TypeOK
  <2> QED
    BY <2>2, <2>3, NameUntouched DEF Indexed
<1>2. ASSUME NEW r \in Requests, CreateUser(r) \/ RefuseUrl(r) \/ DetectDeadlock(r) PROVE NameInv'
  BY <1>2, <1>f DEF CreateUser, RefuseUrl, DetectDeadlock
<1>3. ASSUME NEW r \in Requests, KeepRow(r) PROVE NameInv'
  <2>1. held[r] = None
    BY <1>3 DEF KeepRow, StepInv
  <2>2. \A o \in Requests \ {r} : pc'[o] = pc[o] /\ held'[o] = held[o] /\ user'[o] = user[o]
    BY <1>3 DEF KeepRow, Goto, TypeOK
  <2> QED
    BY <1>3, <2>1, <2>2, NameUntouched DEF Indexed, KeepRow
<1>4. ASSUME NEW r \in Requests, UpdateRow(r) PROVE NameInv'
  <2>0. user[r] \in Users /\ UNCHANGED <<rows, user>> /\ pc[r] = "update"
    BY <1>4 DEF UpdateRow, StepInv
  <2>1. CASE rows[user[r]] = None
    BY <1>4, <2>0, <2>1, <1>f DEF UpdateRow, WriteRow
  <2>2. CASE rows[user[r]] # None
    <3>1. held' = [held EXCEPT ![r] = Updated(r)]
          /\ Goto(r, IF Updated(r).username = rows[user[r]].username THEN "commit" ELSE "index")
      BY <1>4, <2>2 DEF UpdateRow, WriteRow
    <3>2. held'[r] = Updated(r) /\ \A o \in Requests \ {r} : pc'[o] = pc[o] /\ held'[o] = held[o]
      BY <3>1 DEF TypeOK, Goto
    <3>3. Indexed(r)' => Updated(r).username = rows[user[r]].username /\ Updated(r).username # None
      BY <3>1, <3>2 DEF Indexed, TypeOK, Goto
    <3>4. ASSUME Indexed(r)', NEW v \in Users \ {user[r]}, rows[v] # None
          PROVE  rows[v].username # held'[r].username
      BY <2>0, <2>2, <3>2, <3>3, <3>4 DEF NameInv, NamesUnique
    <3>5. ASSUME Indexed(r)', NEW o \in Requests \ {r}, Indexed(o), user[o] # user[r]
          PROVE  held[o].username # held'[r].username
      BY <2>0, <2>2, <3>2, <3>3, <3>5 DEF NameInv, NewNameIsFree
    <3> QED
      BY <2>0, <3>2, <3>4, <3>5, NameEntered
  <2> QED BY <2>1, <2>2
<1>5. ASSUME NEW r \in Requests, EnterName(r) PROVE NameInv'
  <2>1. CASE NameTaken(r)
    BY <1>5, <2>1, <1>f DEF EnterName
  <2>2. CASE ~ NameTaken(r)
    <3>1. UNCHANGED <<rows, user, held>> /\ WaitsFor(r) = {} /\ pc[r] = "index"
      BY <1>5, <2>2 DEF EnterName
    <3>2. \A o \in Requests \ {r} : pc'[o] = pc[o]
      BY <1>5, <2>2 DEF EnterName, Goto, TypeOK
    <3>3. ASSUME NEW v \in Users \ {user[r]}, rows[v] # None
          PROVE  rows[v].username # held'[r].username
      BY <2>2, <3>1, <3>3 DEF NameTaken
    <3>4. ASSUME NEW o \in Requests \ {r}, Indexed(o), user[o] # user[r]
          PROVE  held[o].username # held'[r].username
      BY <3>1, <3>4 DEF WaitsFor, HoldsName, Indexed
    <3> QED
      BY <3>1, <3>2, <3>3, <3>4, NameEntered
  <2> QED BY <2>1, <2>2
<1>6. ASSUME NEW r \in Requests, Commit(r) PROVE NameInv'
  <2>0. user[r] \in Users /\ user' = user /\ pc[r] = "commit"
    BY <1>6 DEF Commit, StepInv
  <2>1. held'[r] = None /\ \A o \in Requests \ {r} : pc'[o] = pc[o] /\ held'[o] = held[o]
    BY <1>6 DEF Commit, Goto, TypeOK
  <2>2. CASE held[r] = None
    BY <1>6, <2>0, <2>1, <2>2, NameUntouched DEF Indexed, Commit
  <2>3. CASE held[r] # None
    <3>1. \A u \in Users : rows'[u] = IF u = user[r] THEN held[r] ELSE rows[u]
      BY <1>6, <2>0, <2>3 DEF Commit, TypeOK
    <3>2. \A o \in Requests : Indexed(o)' => o # r /\ Indexed(o)
      BY <2>1 DEF Indexed
    <3>3. held[r].username # None => Indexed(r)
      BY <2>0, <2>3 DEF Indexed
    <3>4. NamesUnique'
      BY <2>0, <3>1, <3>3 DEF NameInv, NamesUnique, NewNameIsFree
    <3>5. ASSUME NEW o \in Requests, Indexed(o)', NEW v \in Users \ {user[o]}, rows'[v] # None
          PROVE  rows'[v].username # held'[o].username
      <4>1. Indexed(o) /\ held'[o] = held[o] /\ held[o].username # None
        BY <2>1, <3>2, <3>5 DEF Indexed
      <4>2. CASE v = user[r]
        BY <2>0, <3>1, <3>3, <3>5, <4>1, <4>2 DEF NameInv, NewNamesDiffer
      <4>3. CASE v # user[r]
        BY <3>1, <3>5, <4>1, <4>3 DEF NameInv, NewNameIsFree
      <4> QED BY <4>2, <4>3
    <3>6. NewNameIsFree'
      BY <2>0, <3>5 DEF NewNameIsFree
    <3>7. NewNamesDiffer'
      BY <2>0, <2>1, <3>2 DEF NameInv, NewNamesDiffer
    <3> QED BY <3>4, <3>6, <3>7 DEF NameInv
  <2> QED BY <2>2, <2>3
<1>7. ASSUME NEW i \in Identity, AddIdentity(i) \/ RemoveIdentity(i) PROVE NameInv'
  BY <1>7 DEF AddIdentity, RemoveIdentity, NameInv, NamesUnique, NewNameIsFree, NewNamesDiffer, Indexed
<1>8. ASSUME NEW u \in Users, DeleteUser(u) PROVE NameInv'
  <2>1. \A v \in Users : rows'[v] = rows[v] \/ rows'[v] = None
    BY <1>8 DEF DeleteUser, TypeOK
  <2>2. UNCHANGED <<pc, held, user>>
    BY <1>8 DEF DeleteUser
  <2> QED
    BY <2>1, <2>2 DEF NameInv, NamesUnique, NewNameIsFree, NewNamesDiffer, Indexed
<1>9. CASE UNCHANGED vars
  BY <1>9 DEF vars, NameInv, NamesUnique, NewNameIsFree, NewNamesDiffer, Indexed
<1> QED
  BY <1>1, <1>2, <1>3, <1>4, <1>5, <1>6, <1>7, <1>8, <1>9 DEF Next, Serve

-----------------------------------------------------------------------------
\* A step that leaves the rows, and every request that is done, as they are.
LEMMA SentUntouched ==
  ASSUME SentInv, NEW r \in Requests,
         \A u \in Users : rows'[u] \in {rows[u], None},
         \A u : Updates(u)' = Updates(u),
         \A o \in Requests : pc[o] = "done" => req'[o] = req[o],
         \A o \in Requests \ {r} : held[o] # None => user'[o] = user[o] /\ req'[o] = req[o],
         \A o \in Requests \ {r} : held'[o] = held[o],
         held'[r] # None =>
           /\ held'[r].first_name \in SentFirst(user'[r]) \cup {req'[r].first_name}
           /\ held'[r].username \in SentName(user'[r]) \cup ({req'[r].username} \ {None})
  PROVE  SentInv'
<1>1. \A u : SentFirst(u)' = SentFirst(u) /\ SentName(u)' = SentName(u)
  <2> SUFFICES ASSUME NEW u PROVE SentFirst(u)' = SentFirst(u) /\ SentName(u)' = SentName(u)
    OBVIOUS
  <2>1. Updates(u)' = Updates(u) /\ \A o \in Updates(u) : req'[o] = req[o]
    BY DEF Updates
  <2>2. {req'[o].first_name : o \in Updates(u)'} = {req[o].first_name : o \in Updates(u)}
    BY <2>1
  <2>3. {req'[o].username : o \in Updates(u)'} = {req[o].username : o \in Updates(u)}
    BY <2>1
  <2> QED
    BY <2>2, <2>3 DEF SentFirst, SentName
<1>2. ProfileWasSent'
  BY <1>1 DEF SentInv, ProfileWasSent, SentFirst, SentName
<1>3. HeldWasSent'
  BY <1>1 DEF SentInv, HeldWasSent
<1> QED
  BY <1>2, <1>3 DEF SentInv

LEMMA SentStep == TypeOK /\ StepInv /\ SentInv /\ [Next]_vars => SentInv'
<1> SUFFICES ASSUME TypeOK, StepInv, SentInv, [Next]_vars PROVE SentInv'
  OBVIOUS
<1> USE AccountsAssumption
\* The first steps of a request, which hold nothing and are not a success.
<1>1. ASSUME NEW r \in Requests,
             Begin(r) \/ FindIdentity(r) \/ CreateUser(r) \/ LoadUser(r) \/ RefuseUrl(r) \/ KeepRow(r)
      PROVE  SentInv'
  <2>1. pc[r] \in {"idle", "identity", "create", "load", "update"} /\ held[r] = None
    BY <1>1 DEF Begin, FindIdentity, CreateUser, LoadUser, RefuseUrl, KeepRow, StepInv
  <2>2. rows' = rows /\ held'[r] = None /\ \A o \in Requests \ {r} : held'[o] = held[o]
    BY <1>1, <2>1 DEF Begin, FindIdentity, CreateUser, LoadUser, RefuseUrl, KeepRow, Fail, TypeOK
  <2>3. \A o \in Requests \ {r} : pc'[o] = pc[o] /\ user'[o] = user[o] /\ req'[o] = req[o]
    BY <1>1 DEF Begin, FindIdentity, CreateUser, LoadUser, RefuseUrl, KeepRow, Fail, Goto, TypeOK
  <2>4. pc'[r] = "done" => req'[r].kind # "register"
    BY <1>1 DEF Begin, FindIdentity, CreateUser, LoadUser, RefuseUrl, KeepRow, Fail, Goto, TypeOK
  <2>5. \A u : Updates(u)' = Updates(u)
    BY <2>1, <2>3, <2>4 DEF Updates
  <2> QED
    BY <2>1, <2>2, <2>3, <2>5, SentUntouched
<1>2. ASSUME NEW r \in Requests, UpdateRow(r) PROVE SentInv'
  <2>1. UNCHANGED <<rows, user, req>> /\ pc[r] = "update" /\ user[r] \in Users
    BY <1>2 DEF UpdateRow, StepInv
  <2>2. pc'[r] # "done" /\ \A o \in Requests \ {r} : pc'[o] = pc[o] /\ held'[o] = held[o]
    BY <1>2 DEF UpdateRow, WriteRow, Fail, Goto, TypeOK
  <2>3. \A u : Updates(u)' = Updates(u)
    BY <2>1, <2>2 DEF Updates
  <2>4. ASSUME held'[r] # None
        PROVE  rows[user[r]] # None /\ held'[r] = Updated(r)
    BY <1>2, <2>1, <2>4 DEF UpdateRow, WriteRow, Fail, TypeOK
  <2>5. ASSUME held'[r] # None
        PROVE  /\ held'[r].first_name \in SentFirst(user[r]) \cup {req[r].first_name}
               /\ held'[r].username \in SentName(user[r]) \cup ({req[r].username} \ {None})
    <3>1. rows[user[r]].first_name \in SentFirst(user[r]) /\ rows[user[r]].username \in SentName(user[r])
      BY <2>1, <2>4, <2>5 DEF SentInv, ProfileWasSent, SentFirst, SentName
    <3>2. Updated(r).first_name \in {rows[user[r]].first_name, req[r].first_name}
      BY DEF Updated
    <3>3. Updated(r).username \in {rows[user[r]].username} \cup ({req[r].username} \ {None})
      BY DEF Updated, RenamesUser
    <3> QED
      BY <2>4, <2>5, <3>1, <3>2, <3>3
  <2> QED
    BY <2>1, <2>2, <2>3, <2>5, SentUntouched
<1>3. ASSUME NEW r \in Requests, EnterName(r) \/ DetectDeadlock(r) PROVE SentInv'
  <2>1. UNCHANGED <<rows, user, req>>
    BY <1>3 DEF EnterName, DetectDeadlock
  <2>2. pc[r] # "done"
    <3>1. CASE EnterName(r)
      BY <3>1 DEF EnterName
    <3>2. CASE DetectDeadlock(r)
      <4>1. PICK y \in Requests : r \in WaitsFor(y)
        BY <3>2 DEF DetectDeadlock, InCircle
      <4> QED
        BY <4>1 DEF WaitsFor, StepInv
    <3> QED BY <1>3, <3>1, <3>2
  <2>3. pc'[r] # "done" /\ held'[r] \in {held[r], None}
        /\ \A o \in Requests \ {r} : pc'[o] = pc[o] /\ held'[o] = held[o]
    BY <1>3 DEF EnterName, DetectDeadlock, Fail, Goto, TypeOK
  <2>4. \A u : Updates(u)' = Updates(u)
    BY <2>1, <2>2, <2>3 DEF Updates
  <2> QED
    BY <2>1, <2>3, <2>4, SentUntouched DEF SentInv, HeldWasSent
<1>4. ASSUME NEW r \in Requests, Commit(r) PROVE SentInv'
  <2>1. UNCHANGED <<user, req>> /\ pc[r] = "commit" /\ user[r] \in Users /\ req[r].kind = "register"
    BY <1>4 DEF Commit, StepInv
  <2>2. pc'[r] = "done" /\ held'[r] = None
        /\ \A o \in Requests \ {r} : pc'[o] = pc[o] /\ held'[o] = held[o]
    BY <1>4 DEF Commit, Goto, TypeOK
  <2>3. \A u : Updates(u) \subseteq Updates(u)'
    BY <2>1, <2>2 DEF Updates
  <2>4. \A u : u = user[r] => r \in Updates(u)'
    BY <2>1, <2>2 DEF Updates
  <2>5. \A u : SentFirst(u) \subseteq SentFirst(u)' /\ SentName(u) \subseteq SentName(u)'
    BY <2>1, <2>3 DEF SentFirst, SentName
  <2>6. ASSUME NEW u, u = user[r]
        PROVE  req[r].first_name \in SentFirst(u)' /\ {req[r].username} \ {None} \subseteq SentName(u)'
    BY <2>1, <2>4, <2>6 DEF SentFirst, SentName
  <2>7. \A u \in Users : rows'[u] = rows[u] \/ (u = user[r] /\ held[r] # None /\ rows'[u] = held[r])
    BY <1>4, <2>1 DEF Commit, TypeOK
  <2>8. ASSUME NEW u \in Users, rows'[u] # None
        PROVE  rows'[u].first_name \in SentFirst(u)' /\ rows'[u].username \in SentName(u)'
    <3>1. CASE rows'[u] = rows[u]
      BY <2>5, <2>8, <3>1 DEF SentInv, ProfileWasSent, SentFirst, SentName
    <3>2. CASE u = user[r] /\ held[r] # None /\ rows'[u] = held[r]
      <4>1. held[r].first_name \in SentFirst(u) \cup {req[r].first_name}
            /\ held[r].username \in SentName(u) \cup ({req[r].username} \ {None})
        BY <3>2 DEF SentInv, HeldWasSent
      <4>2. held[r].first_name \in SentFirst(u)'
        BY <2>5, <2>6, <3>2, <4>1
      <4>3. held[r].username \in SentName(u)'
        BY <2>5, <2>6, <3>2, <4>1
      <4> QED BY <3>2, <4>2, <4>3
    <3> QED BY <2>7, <3>1, <3>2
  <2>9. ProfileWasSent'
    BY <2>8 DEF ProfileWasSent, SentFirst, SentName
  <2>10. HeldWasSent'
    BY <2>1, <2>2, <2>5 DEF SentInv, HeldWasSent
  <2> QED BY <2>9, <2>10 DEF SentInv
<1>5. ASSUME NEW i \in Identity, AddIdentity(i) \/ RemoveIdentity(i) PROVE SentInv'
  BY <1>5 DEF AddIdentity, RemoveIdentity, SentInv, ProfileWasSent, HeldWasSent, SentFirst, SentName, Updates
<1>6. ASSUME NEW u \in Users, DeleteUser(u) PROVE SentInv'
  <2>1. \A v \in Users : rows'[v] \in {rows[v], None}
    BY <1>6 DEF DeleteUser, TypeOK
  <2>2. UNCHANGED <<pc, req, user, held>>
    BY <1>6 DEF DeleteUser
  <2>3. \A v : SentFirst(v)' = SentFirst(v) /\ SentName(v)' = SentName(v)
    BY <2>2 DEF SentFirst, SentName, Updates
  <2>4. ProfileWasSent'
    BY <2>1, <2>3 DEF SentInv, ProfileWasSent, SentFirst, SentName
  <2>5. HeldWasSent'
    BY <2>2, <2>3 DEF SentInv, HeldWasSent
  <2> QED BY <2>4, <2>5 DEF SentInv
<1>7. CASE UNCHANGED vars
  BY <1>7 DEF vars, SentInv, ProfileWasSent, HeldWasSent, SentFirst, SentName, Updates
<1> QED
  BY <1>1, <1>2, <1>3, <1>4, <1>5, <1>6, <1>7 DEF Next, Serve

-----------------------------------------------------------------------------
\* A step of r that is not a success of a registration, after which r still works on
\* the row of the start, if nobody else has succeeded.
LEMMA ShowUntouched ==
  ASSUME ShowInv, NEW r \in Requests,
         \A u \in Users : rows'[u] \in {rows[u], None},
         \A u : Updates(u)' = Updates(u),
         \A o \in Requests \ {r} : /\ pc'[o] = pc[o] /\ req'[o] = req[o] /\ user'[o] = user[o]
                                  /\ loaded'[o] = loaded[o] /\ held'[o] = held[o],
         pc[r] = "done" => req'[r] = req[r],
         WorksOnStart(r)'
  PROVE  ShowInv'
<1>1. \A u : \A o \in Updates(u) : req'[o] = req[o]
  BY DEF Updates
<1>2. StartIsKept' /\ ProfileIsUpdated'
  BY <1>1 DEF ShowInv, StartIsKept, ProfileIsUpdated
<1>3. ASSUME NEW o \in Requests PROVE WorksOnStart(o)'
  <2>1. CASE o = r
    BY <2>1
  <2>2. CASE o # r
    <3>1. WorksOnStart(o)
      BY DEF ShowInv
    <3>2. Updates(user[o])' = Updates(user[o])
      BY <2>2
    <3> QED
      BY <2>2, <3>1, <3>2 DEF WorksOnStart, Shows
  <2> QED BY <2>1, <2>2
<1> QED
  BY <1>2, <1>3 DEF ShowInv

\* A step that does not touch the requests at all.
LEMMA ShowStays ==
  ASSUME ShowInv, UNCHANGED <<pc, req, user, loaded, held>>,
         \A u \in Users : rows'[u] \in {rows[u], None}
  PROVE  ShowInv'
<1>1. \A u : Updates(u)' = Updates(u)
  BY DEF Updates
<1>2. StartIsKept' /\ ProfileIsUpdated'
  BY <1>1 DEF ShowInv, StartIsKept, ProfileIsUpdated
<1>3. ASSUME NEW o \in Requests PROVE WorksOnStart(o)'
  <2>1. WorksOnStart(o) /\ Updates(user[o])' = Updates(user[o])
    BY <1>1 DEF ShowInv
  <2> QED
    BY <2>1 DEF WorksOnStart, Shows
<1> QED
  BY <1>2, <1>3 DEF ShowInv

LEMMA ShowStep == TypeOK /\ StepInv /\ ShowInv /\ [Next]_vars => ShowInv'
<1> SUFFICES ASSUME TypeOK, StepInv, ShowInv, [Next]_vars PROVE ShowInv'
  OBVIOUS
<1> USE AccountsAssumption
\* A failure ends the request, which has not been a success before.
<1>f. ASSUME NEW r \in Requests, NEW e, Fail(r, e), pc[r] # "done",
             UNCHANGED <<rows, req>>,
             \A o \in Requests \ {r} : user'[o] = user[o] /\ loaded'[o] = loaded[o]
      PROVE  ShowInv'
  <2>1. pc'[r] = "failed" /\ \A o \in Requests \ {r} : pc'[o] = pc[o] /\ held'[o] = held[o]
    BY <1>f DEF Fail, Goto, TypeOK
  <2>2. \A u : Updates(u)' = Updates(u)
    BY <1>f, <2>1 DEF Updates
  <2>3. WorksOnStart(r)'
    BY <2>1 DEF WorksOnStart
  <2> QED
    BY <1>f, <2>1, <2>2, <2>3, ShowUntouched
\* The steps up to the update, and the entry into the index.
<1>g. ASSUME NEW r \in Requests, NEW step \in Steps, Goto(r, step), pc[r] # "done",
             step = "done" => req[r].kind # "register",
             step \in {"update", "index", "commit"} => WorksOnStart(r)',
             rows' = rows,
             \A o \in Requests \ {r} : /\ req'[o] = req[o] /\ user'[o] = user[o]
                                      /\ loaded'[o] = loaded[o] /\ held'[o] = held[o],
             step = "done" => req'[r] = req[r]
      PROVE  ShowInv'
  <2>1. pc'[r] = step /\ \A o \in Requests \ {r} : pc'[o] = pc[o]
    BY <1>g DEF Goto, TypeOK
  <2>2. \A u : Updates(u)' = Updates(u)
    BY <1>g, <2>1 DEF Updates
  <2>3. WorksOnStart(r)'
    BY <1>g, <2>1 DEF WorksOnStart
  <2> QED
    BY <1>g, <2>1, <2>2, <2>3, ShowUntouched
<1>1. ASSUME NEW r \in Requests, Begin(r) PROVE ShowInv'
  BY <1>1, <1>g DEF Begin, Steps, TypeOK
<1>2. ASSUME NEW r \in Requests, FindIdentity(r) PROVE ShowInv'
  <2>1. CASE \E e : Fail(r, e)
    BY <1>2, <2>1, <1>f DEF FindIdentity, TypeOK
  <2>2. CASE (Goto(r, "load") \/ Goto(r, "create")) /\ UNCHANGED held
    BY <1>2, <2>2, <1>g DEF FindIdentity, Steps, TypeOK
  <2> QED
    BY <1>2, <2>1, <2>2 DEF FindIdentity
<1>3. ASSUME NEW r \in Requests, CreateUser(r) \/ RefuseUrl(r) PROVE ShowInv'
  BY <1>3, <1>f DEF CreateUser, RefuseUrl
<1>4. ASSUME NEW r \in Requests, LoadUser(r) PROVE ShowInv'
  <2>0. user[r] \in Users /\ pc[r] = "load" /\ UNCHANGED <<rows, req, user>>
    BY <1>4 DEF LoadUser, StepInv
  <2>1. loaded'[r] = rows[user[r]] /\ \A o \in Requests \ {r} : loaded'[o] = loaded[o]
    BY <1>4 DEF LoadUser, TypeOK
  <2>2. CASE rows[user[r]] = None
    <3>1. Fail(r, "ValidationError") \/ Fail(r, "NotRegistered")
      BY <1>4, <2>2 DEF LoadUser
    <3> QED
      BY <2>0, <2>1, <3>1, <1>f
  <2>3. CASE rows[user[r]] # None /\ req[r].kind = "register"
    <3>1. Goto(r, "update") /\ held' = held
      BY <1>4, <2>3 DEF LoadUser
    <3>2. pc'[r] = "update" /\ \A o \in Requests \ {r} : pc'[o] = pc[o]
      BY <3>1 DEF Goto, TypeOK
    <3>3. \A u : Updates(u)' = Updates(u)
      BY <2>0, <3>2 DEF Updates
    <3>4. Updates(user[r]) = {} => loaded'[r] = Start[user[r]]
      BY <2>0, <2>1, <2>3 DEF ShowInv, StartIsKept
    <3>5. WorksOnStart(r)'
      BY <2>0, <3>2, <3>3, <3>4 DEF WorksOnStart
    <3> QED
      BY <2>0, <2>1, <3>1, <3>2, <3>3, <3>5, ShowUntouched
  <2>4. CASE rows[user[r]] # None /\ req[r].kind # "register"
    <3>1. Goto(r, "done") /\ held' = held
      BY <1>4, <2>4 DEF LoadUser
    <3> QED
      BY <2>0, <2>1, <2>4, <3>1, <1>g DEF Steps
  <2> QED
    BY <2>2, <2>3, <2>4
<1>5. ASSUME NEW r \in Requests, KeepRow(r) PROVE ShowInv'
  <2>1. /\ pc[r] = "update" /\ UNCHANGED <<rows, req, user, loaded, held>> /\ held[r] = None
        /\ Goto(r, "commit") /\ pc'[r] = "commit" /\ \A o \in Requests \ {r} : pc'[o] = pc[o]
    BY <1>5 DEF KeepRow, Goto, TypeOK, StepInv
  <2>2. \A u : Updates(u)' = Updates(u)
    BY <2>1 DEF Updates
  <2>3. Shows(r, loaded[r])
    BY <1>5 DEF KeepRow, RenamesFirst, RenamesUser, Shows
  <2>4. Updates(user[r]) = {} => loaded[r] = Start[user[r]]
    BY <2>1 DEF ShowInv, WorksOnStart
  <2>5. WorksOnStart(r)'
    BY <2>1, <2>2, <2>3, <2>4 DEF WorksOnStart, Shows
  <2> QED
    BY <2>1, <2>2, <2>5, ShowUntouched
<1>6. ASSUME NEW r \in Requests, UpdateRow(r) PROVE ShowInv'
  <2>1. /\ pc[r] = "update" /\ UNCHANGED <<rows, req, user, loaded>> /\ user[r] \in Users
    BY <1>6 DEF UpdateRow, StepInv
  <2>2. CASE Fail(r, "StaleDataError")
    BY <2>1, <2>2, <1>f
  <2>3. CASE rows[user[r]] # None /\ held' = [held EXCEPT ![r] = Updated(r)]
    <3>1. /\ held'[r] = Updated(r) /\ \A o \in Requests \ {r} : held'[o] = held[o] /\ pc'[o] = pc[o]
          /\ pc'[r] \in {"index", "commit"}
      BY <1>6, <2>3 DEF UpdateRow, WriteRow, Fail, Goto, TypeOK
    <3>2. \A u : Updates(u)' = Updates(u)
      BY <2>1, <3>1 DEF Updates
    <3>3. ASSUME Updates(user[r]) = {} PROVE Shows(r, Updated(r))
      <4>1. loaded[r] = Start[user[r]] /\ rows[user[r]] = Start[user[r]]
        BY <2>1, <2>3, <3>3 DEF ShowInv, StartIsKept, WorksOnStart
      <4> QED
        BY <4>1 DEF Shows, Updated, RenamesFirst, RenamesUser
    <3>4. held'[r] # None
      BY <2>1, <2>3, <3>1, UpdatedType DEF StepInv
    <3>5. WorksOnStart(r)'
      BY <2>1, <3>1, <3>2, <3>3, <3>4 DEF WorksOnStart, Shows
    <3> QED
      BY <2>1, <3>1, <3>2, <3>5, ShowUntouched
  <2> QED
    BY <1>6, <2>2, <2>3 DEF UpdateRow, WriteRow
<1>7. ASSUME NEW r \in Requests, EnterName(r) PROVE ShowInv'
  <2>1. pc[r] = "index" /\ UNCHANGED <<rows, req, user, loaded>> /\ held[r] # None
    BY <1>7 DEF EnterName, StepInv
  <2>2. CASE Fail(r, "IntegrityError")
    BY <2>1, <2>2, <1>f
  <2>3. CASE Goto(r, "commit") /\ held' = held
    <3>1. pc'[r] = "commit" /\ \A o \in Requests \ {r} : pc'[o] = pc[o]
      BY <2>3 DEF Goto, TypeOK
    <3>2. \A u : Updates(u)' = Updates(u)
      BY <2>1, <3>1 DEF Updates
    <3>3. WorksOnStart(r)'
      BY <2>1, <2>3, <3>1, <3>2 DEF ShowInv, WorksOnStart, Shows
    <3> QED
      BY <2>1, <2>3, <3>1, <3>2, <3>3, ShowUntouched
  <2> QED
    BY <1>7, <2>2, <2>3 DEF EnterName
<1>8. ASSUME NEW r \in Requests, DetectDeadlock(r) PROVE ShowInv'
  <2>1. PICK y \in Requests : r \in WaitsFor(y)
    BY <1>8 DEF DetectDeadlock, InCircle
  <2>2. pc[r] # "done"
    BY <2>1 DEF WaitsFor, StepInv
  <2> QED
    BY <1>8, <2>2, <1>f DEF DetectDeadlock
\* The first success of a registration of a user shows in the row.
<1>9. ASSUME NEW r \in Requests, Commit(r) PROVE ShowInv'
  <2>1. /\ UNCHANGED <<user, req, loaded>> /\ pc[r] = "commit" /\ user[r] \in Users
        /\ req[r].kind = "register"
    BY <1>9 DEF Commit, StepInv
  <2>2. pc'[r] = "done" /\ \A o \in Requests \ {r} : pc'[o] = pc[o] /\ held'[o] = held[o]
    BY <1>9 DEF Commit, Goto, TypeOK
  <2>3. \A u : Updates(u)' = IF u = user[r] THEN Updates(u) \cup {r} ELSE Updates(u)
    BY <2>1, <2>2 DEF Updates
  <2>4. rows'[user[r]] = IF held[r] # None THEN held[r] ELSE rows[user[r]]
    BY <1>9, <2>1 DEF Commit, TypeOK
  <2>5. \A u \in Users \ {user[r]} : rows'[u] = rows[u]
    BY <1>9, <2>1 DEF Commit, TypeOK
  <2>6. r \notin Updates(user[r])
    BY <2>1 DEF Updates
  <2>7. StartIsKept'
    BY <2>3, <2>5 DEF ShowInv, StartIsKept
  <2>8. ASSUME Updates(user[r])' = {r}, rows'[user[r]] # None PROVE Shows(r, rows'[user[r]])
    <3>1. Updates(user[r]) = {}
      BY <2>1, <2>3, <2>6, <2>8
    <3> QED
      BY <2>1, <2>4, <2>8, <3>1 DEF ShowInv, StartIsKept, WorksOnStart
  <2>9. ProfileIsUpdated'
    <3> SUFFICES ASSUME NEW u \in Users, NEW x \in Updates(u)', rows'[u] # None, Updates(u)' = {x}
                 PROVE  rows'[u].first_name = req'[x].first_name /\ req'[x].username \in {None, rows'[u].username}
      BY DEF ProfileIsUpdated
    <3>1. CASE u = user[r]
      <4>1. x = r
        BY <2>1, <2>3, <3>1
      <4> QED
        BY <2>1, <2>8, <3>1, <4>1 DEF Shows
    <3>2. CASE u # user[r]
      <4>1. Updates(u) = {x} /\ rows'[u] = rows[u]
        BY <2>1, <2>3, <2>5, <3>2
      <4> QED
        BY <2>1, <4>1 DEF ShowInv, ProfileIsUpdated
    <3> QED BY <3>1, <3>2
  <2>10. ASSUME NEW o \in Requests PROVE WorksOnStart(o)'
    <3>1. CASE user[o] = user[r]
      <4>1. Updates(user[o])' # {}
        BY <2>1, <2>3, <3>1
      <4> QED
        BY <4>1 DEF WorksOnStart
    <3>2. CASE user[o] # user[r]
      <4>1. o # r /\ WorksOnStart(o) /\ Updates(user[o])' = Updates(user[o])
        BY <2>1, <2>3, <3>2 DEF ShowInv
      <4> QED
        BY <2>1, <2>2, <4>1 DEF WorksOnStart, Shows
    <3> QED BY <3>1, <3>2
  <2> QED
    BY <2>7, <2>9, <2>10 DEF ShowInv
<1>10. ASSUME NEW i \in Identity, AddIdentity(i) \/ RemoveIdentity(i) PROVE ShowInv'
  BY <1>10, ShowStays DEF AddIdentity, RemoveIdentity
<1>11. ASSUME NEW u \in Users, DeleteUser(u) PROVE ShowInv'
  <2>1. \A v \in Users : rows'[v] \in {rows[v], None}
    BY <1>11 DEF DeleteUser, TypeOK
  <2> QED
    BY <1>11, <2>1, ShowStays DEF DeleteUser
<1>12. CASE UNCHANGED vars
  BY <1>12, ShowStays DEF vars
<1> QED
  BY <1>1, <1>2, <1>3, <1>4, <1>5, <1>6, <1>7, <1>8, <1>9, <1>10, <1>11, <1>12 DEF Next, Serve

-----------------------------------------------------------------------------
\* A step of r after which r holds no lock, and that writes no row another has locked.
LEMMA LockUntouched ==
  ASSUME LockInv, NEW r \in Requests, held'[r] = None, pc'[r] # "idle",
         \A o \in Requests \ {r} :
            /\ pc'[o] = pc[o] /\ req'[o] = req[o] /\ user'[o] = user[o]
            /\ loaded'[o] = loaded[o] /\ held'[o] = held[o]
            /\ held[o] # None => rows'[user[o]] = rows[user[o]]
  PROVE  LockInv'
<1> SUFFICES ASSUME NEW o \in Requests \ {r}, held'[o] # None
             PROVE  /\ held'[o] = Updated(o)'
                    /\ \A p \in Requests \ {o} : user'[p] = user'[o] => held'[p] = None
  BY DEF LockInv
<1>1. Updated(o)' = Updated(o)
  BY DEF Updated, RenamesFirst, RenamesUser
<1> QED
  BY <1>1 DEF LockInv

\* A step that leaves the requests and every locked row as they are.
LEMMA LockStays ==
  ASSUME LockInv, \A o \in Requests : pc'[o] = "idle" => pc[o] = "idle",
         UNCHANGED <<req, user, loaded, held>>,
         \A o \in Requests : held[o] # None => rows'[user[o]] = rows[user[o]]
  PROVE  LockInv'
<1>1. \A o \in Requests : held[o] # None => Updated(o)' = Updated(o)
  BY DEF Updated, RenamesFirst, RenamesUser
<1> QED
  BY <1>1 DEF LockInv

LEMMA LockStep == TypeOK /\ StepInv /\ LockInv /\ [Next]_vars => LockInv'
<1> SUFFICES ASSUME TypeOK, StepInv, LockInv, [Next]_vars PROVE LockInv'
  OBVIOUS
<1> USE AccountsAssumption
<1>1. ASSUME NEW r \in Requests,
             Begin(r) \/ FindIdentity(r) \/ CreateUser(r) \/ LoadUser(r) \/ RefuseUrl(r) \/ KeepRow(r)
      PROVE  LockInv'
  <2>1. pc[r] \in {"idle", "identity", "create", "load", "update"} /\ held[r] = None
    BY <1>1 DEF Begin, FindIdentity, CreateUser, LoadUser, RefuseUrl, KeepRow, StepInv
  <2>2. rows' = rows /\ held'[r] = None /\ \A o \in Requests \ {r} : held'[o] = held[o]
    BY <1>1, <2>1 DEF Begin, FindIdentity, CreateUser, LoadUser, RefuseUrl, KeepRow, Fail, TypeOK
  <2>3. /\ pc'[r] # "idle"
        /\ \A o \in Requests \ {r} : pc'[o] = pc[o] /\ user'[o] = user[o] /\ req'[o] = req[o]
    BY <1>1 DEF Begin, FindIdentity, CreateUser, LoadUser, RefuseUrl, KeepRow, Fail, Goto, TypeOK
  <2>4. \A o \in Requests \ {r} : loaded'[o] = loaded[o]
    BY <1>1 DEF Begin, FindIdentity, CreateUser, LoadUser, RefuseUrl, KeepRow, TypeOK
  <2> QED
    BY <2>2, <2>3, <2>4, LockUntouched
\* The row is locked only if nobody else has locked it.
<1>2. ASSUME NEW r \in Requests, UpdateRow(r) PROVE LockInv'
  <2>1. /\ UNCHANGED <<rows, user, req, loaded>> /\ pc[r] = "update" /\ user[r] \in Users
        /\ held[r] = None
    BY <1>2 DEF UpdateRow, StepInv
  <2>2. pc'[r] # "idle" /\ \A o \in Requests \ {r} : pc'[o] = pc[o] /\ held'[o] = held[o]
    BY <1>2 DEF UpdateRow, WriteRow, Fail, Goto, TypeOK
  <2>3. CASE held'[r] = None
    BY <2>1, <2>2, <2>3, LockUntouched
  <2>4. CASE held'[r] # None
    <3>1. held'[r] = Updated(r)
      BY <1>2, <2>1, <2>4 DEF UpdateRow, WriteRow, Fail, TypeOK
    <3>2. \A o \in Requests : Updated(o)' = Updated(o)
      BY <2>1 DEF Updated, RenamesFirst, RenamesUser
    <3>3. \A o \in Requests \ {r} : user[o] = user[r] => held[o] = None
      BY <1>2, <2>1 DEF UpdateRow, WaitsFor, LocksRow
    <3> QED
      BY <2>1, <2>2, <3>1, <3>2, <3>3 DEF LockInv
  <2> QED BY <2>3, <2>4
<1>3. ASSUME NEW r \in Requests, EnterName(r) PROVE LockInv'
  <2>1. pc[r] = "index" /\ UNCHANGED <<rows, user, req, loaded>>
    BY <1>3 DEF EnterName
  <2>2. pc'[r] # "idle" /\ \A o \in Requests \ {r} : pc'[o] = pc[o] /\ held'[o] = held[o]
    BY <1>3 DEF EnterName, Fail, Goto, TypeOK
  <2>3. held' = held \/ held'[r] = None
    BY <1>3 DEF EnterName, Fail, TypeOK
  <2>4. CASE held'[r] = None
    BY <2>1, <2>2, <2>4, LockUntouched
  <2>5. CASE held' = held
    BY <2>1, <2>2, <2>5, LockStays
  <2> QED BY <2>3, <2>4, <2>5
<1>4. ASSUME NEW r \in Requests, DetectDeadlock(r) PROVE LockInv'
  <2>1. UNCHANGED <<rows, user, req, loaded>>
    BY <1>4 DEF DetectDeadlock
  <2>2. pc'[r] # "idle" /\ held'[r] = None /\ \A o \in Requests \ {r} : pc'[o] = pc[o] /\ held'[o] = held[o]
    BY <1>4 DEF DetectDeadlock, Fail, Goto, TypeOK
  <2> QED
    BY <2>1, <2>2, LockUntouched
\* What is committed is a row that nobody else has locked.
<1>5. ASSUME NEW r \in Requests, Commit(r) PROVE LockInv'
  <2>1. UNCHANGED <<user, req, loaded>> /\ user[r] \in Users
    BY <1>5 DEF Commit, StepInv
  <2>2. /\ pc'[r] # "idle" /\ held'[r] = None
        /\ \A o \in Requests \ {r} : pc'[o] = pc[o] /\ held'[o] = held[o]
    BY <1>5 DEF Commit, Goto, TypeOK
  <2>3. ASSUME NEW o \in Requests \ {r}, held[o] # None
        PROVE  rows'[user[o]] = rows[user[o]]
    <3>1. user[o] \in Users /\ (held[r] # None => user[o] # user[r])
      BY <2>3 DEF StepInv, LockInv
    <3> QED
      BY <1>5, <2>1, <3>1 DEF Commit, TypeOK
  <2> QED
    BY <2>1, <2>2, <2>3, LockUntouched
<1>6. ASSUME NEW i \in Identity, AddIdentity(i) \/ RemoveIdentity(i) PROVE LockInv'
  BY <1>6, LockStays DEF AddIdentity, RemoveIdentity
<1>7. ASSUME NEW u \in Users, DeleteUser(u) PROVE LockInv'
  <2>1. \A o \in Requests : held[o] # None => rows'[user[o]] = rows[user[o]]
    BY <1>7 DEF DeleteUser, StepInv, TypeOK
  <2> QED
    BY <1>7, <2>1, LockStays DEF DeleteUser
<1>8. CASE UNCHANGED vars
  BY <1>8, LockStays DEF vars
<1> QED
  BY <1>1, <1>2, <1>3, <1>4, <1>5, <1>6, <1>7, <1>8 DEF Next, Serve

-----------------------------------------------------------------------------
IInv == TypeOK /\ StepInv /\ NameInv /\ SentInv /\ ShowInv /\ LockInv

\* The inductive invariant holds initially and is kept by every step.
LEMMA Invariance == Spec => []IInv
<1>1. Init => IInv
  <2> SUFFICES ASSUME Init PROVE IInv
    OBVIOUS
  <2> USE AccountsAssumption
  <2>1. TypeOK
    BY DEF Init, TypeOK, Steps, Errors
  <2>2. StepInv /\ \A r \in Requests : held[r] = None
    BY DEF Init, StepInv
  <2>3. NameInv
    BY <2>2 DEF Init, NameInv, NamesUnique, NewNameIsFree, NewNamesDiffer, Indexed
  <2>4. SentInv
    BY <2>2 DEF Init, SentInv, ProfileWasSent, HeldWasSent
  <2>5. ShowInv
    BY DEF Init, ShowInv, StartIsKept, WorksOnStart, ProfileIsUpdated, Updates
  <2>6. LockInv
    BY <2>2 DEF Init, LockInv
  <2> QED BY <2>1, <2>2, <2>3, <2>4, <2>5, <2>6 DEF IInv
<1>2. IInv /\ [Next]_vars => IInv'
  BY TypeStep, NameStep, SentStep, ShowStep, LockStep DEF IInv
<1> QED
  BY <1>1, <1>2, PTL DEF Spec

\* Every variable keeps its type (UserService and the tables it uses).
THEOREM TypeCorrect == Spec => []TypeOK
<1>1. IInv => TypeOK
  BY DEF IInv
<1> QED
  BY <1>1, Invariance, PTL

\* No two users ever have the same name, however many registrations take names over
\* at the same time (UserRepository.update against the unique index).
THEOREM NamesStayUnique == Spec => []NamesUnique
<1>1. IInv => NamesUnique
  BY DEF IInv, NameInv
<1> QED
  BY <1>1, Invariance, PTL

\* A profile holds nothing but what successful registrations of its user have sent
\* and what it held at the start (UserService.update_user).
THEOREM ProfilesWereSent == Spec => []ProfileWasSent
<1>1. IInv => ProfileWasSent
  BY DEF IInv, SentInv
<1> QED
  BY <1>1, Invariance, PTL

\* The only registration of a user that succeeded shows in the profile, whatever the
\* administrator and the registrations of others did, or those that failed
\* (UserService.update_user sets what differs from the row it loaded).
THEOREM RegistrationsShow == Spec => []ProfileIsUpdated
<1>1. IInv => ProfileIsUpdated
  BY DEF IInv, ShowInv
<1> QED
  BY <1>1, Invariance, PTL

-----------------------------------------------------------------------------
(* Accounts implements ProfileStore. *)

\* What a step of r does to the outcomes.
LEMMA OutcomeStep ==
  ASSUME TypeOK, NEW r \in Requests, NEW step \in Steps, Goto(r, step)
  PROVE  outcome' = [outcome EXCEPT ![r] = IF step \in {"done", "failed"} THEN step ELSE "open"]
<1>1. pc' = [pc EXCEPT ![r] = step] /\ pc \in [Requests -> Steps]
  BY DEF Goto, TypeOK
<1> QED
  BY <1>1 DEF outcome

\* The request is open as long as it is under way.
LEMMA OutcomeOpen ==
  ASSUME NEW r \in Requests, pc[r] \notin {"done", "failed"}
  PROVE  outcome[r] = "open"
BY DEF outcome

\* A step under way leaves the store as it is.
LEMMA StoreStutters ==
  ASSUME TypeOK, NEW r \in Requests, NEW step \in Steps \ {"done", "failed"}, Goto(r, step),
         pc[r] \notin {"done", "failed"}, UNCHANGED <<rows, req>>
  PROVE  UNCHANGED Store!vars
<1>1. outcome \in [Requests -> {"open", "done", "failed"}]
  BY DEF outcome, TypeOK
<1>2. outcome' = [outcome EXCEPT ![r] = "open"]
  BY OutcomeStep
<1>3. outcome' = outcome
  BY <1>1, <1>2, OutcomeOpen
<1> QED
  BY <1>3 DEF Store!vars

\* A failure changes nothing in the store.
LEMMA FailIsFail ==
  ASSUME TypeOK, StepInv, NEW r \in Requests, NEW e, Fail(r, e),
         pc[r] \notin {"idle", "done", "failed"}, UNCHANGED <<rows, req>>
  PROVE  Store!Fail(r)
<1>1. req[r] # None
  BY AccountsAssumption DEF StepInv
<1>2. outcome' = [outcome EXCEPT ![r] = "failed"]
  BY OutcomeStep DEF Fail, Steps
<1> QED
  BY <1>1, <1>2, OutcomeOpen DEF Store!Fail, Store!Close

\* A success that has no row to write.
LEMMA PassIsPass ==
  ASSUME TypeOK, StepInv, NEW r \in Requests, Goto(r, "done"),
         pc[r] \notin {"idle", "done", "failed"}, UNCHANGED <<rows, req>>
  PROVE  Store!Pass(r)
<1>1. req[r] # None
  BY AccountsAssumption DEF StepInv
<1>2. outcome' = [outcome EXCEPT ![r] = "done"]
  BY OutcomeStep DEF Steps
<1> QED
  BY <1>1, <1>2, OutcomeOpen DEF Store!Pass, Store!Close

\* A commit of a new row is a registration: the row is what the profile makes of the
\* row as it is now (LockInv), and its name is free (NameInv).
LEMMA CommitIsRegister ==
  ASSUME IInv, NEW r \in Requests, Commit(r), held[r] # None
  PROVE  Store!Register(r, user[r])
<1>1. /\ pc[r] = "commit" /\ user[r] \in Users /\ rows[user[r]] # None
      /\ req[r].kind = "register" /\ req[r] \in Input
  BY DEF IInv, Commit, StepInv
<1>2. Store!Close(r, "done")
  <2>1. outcome' = [outcome EXCEPT ![r] = "done"]
    BY OutcomeStep DEF IInv, Commit, Steps
  <2>2. req[r] # None /\ outcome[r] = "open" /\ req' = req
    BY <1>1, OutcomeOpen, AccountsAssumption DEF Commit
  <2> QED
    BY <2>1, <2>2 DEF Store!Close
<1>3. held[r] = Updated(r) /\ rows' = [rows EXCEPT ![user[r]] = held[r]]
  BY DEF IInv, LockInv, Commit
<1> DEFINE first == held[r].first_name
           name  == held[r].username
<1>4. held[r] = [first_name |-> first, username |-> name]
  BY <1>3 DEF Updated
<1>5. first \in {rows[user[r]].first_name, req[r].first_name}
  BY <1>3 DEF Updated
<1>6. name \in {rows[user[r]].username} \cup ({req[r].username} \ {None})
  BY <1>3 DEF Updated, RenamesUser
<1>7. name # None => Store!FreeFor(user[r], name)
  BY <1>1 DEF IInv, NameInv, NewNameIsFree, Indexed, Store!FreeFor
<1> HIDE DEF first, name
<1>8. rows' = [rows EXCEPT ![user[r]] = [first_name |-> first, username |-> name]]
  BY <1>3, <1>4
<1> QED
  BY <1>1, <1>2, <1>5, <1>6, <1>7, <1>8 DEF Store!Register

LEMMA StoreInit == Init => Store!Init
<1> SUFFICES ASSUME Init PROVE Store!Init
  OBVIOUS
<1>1. \A r \in Requests : pc[r] = "idle"
  BY DEF Init
<1>2. outcome = [r \in Requests |-> "open"]
  BY <1>1 DEF outcome
<1> QED
  BY <1>2 DEF Init, Store!Init

LEMMA StoreStep == IInv /\ [Next]_vars => [Store!Next]_(Store!vars)
<1> SUFFICES ASSUME IInv, [Next]_vars PROVE Store!Next \/ UNCHANGED Store!vars
  OBVIOUS
<1> USE DEF IInv
<1>f. ASSUME NEW r \in Requests, NEW e, Fail(r, e), UNCHANGED <<rows, req>>,
             pc[r] \notin {"idle", "done", "failed"}
      PROVE  Store!Next
  BY <1>f, FailIsFail DEF Store!Next
<1>1. ASSUME NEW r \in Requests, Begin(r) PROVE Store!Next
  <2>1. req[r] = None /\ rows' = rows /\ \E i \in Inputs : req' = [req EXCEPT ![r] = i]
    BY <1>1 DEF Begin, LockInv
  <2>2. outcome' = [outcome EXCEPT ![r] = "open"]
    BY <1>1, OutcomeStep DEF Begin, Steps
  <2>3. outcome' = outcome
    BY <1>1, <2>2, OutcomeOpen DEF Begin, outcome
  <2> QED
    BY <2>1, <2>3 DEF Store!Next, Store!Ask
<1>2. ASSUME NEW r \in Requests, FindIdentity(r) PROVE Store!Next \/ UNCHANGED Store!vars
  <2>1. pc[r] = "identity" /\ UNCHANGED <<rows, req>>
    BY <1>2 DEF FindIdentity
  <2>2. (\E e : Fail(r, e)) \/ Goto(r, "load") \/ Goto(r, "create")
    BY <1>2 DEF FindIdentity
  <2> QED
    BY <2>1, <2>2, <1>f, StoreStutters DEF Steps
<1>3. ASSUME NEW r \in Requests, CreateUser(r) \/ RefuseUrl(r) PROVE Store!Next
  BY <1>3, <1>f DEF CreateUser, RefuseUrl
<1>4. ASSUME NEW r \in Requests, LoadUser(r) PROVE Store!Next \/ UNCHANGED Store!vars
  <2>1. pc[r] = "load" /\ UNCHANGED <<rows, req>>
    BY <1>4 DEF LoadUser
  <2>2. (\E e : Fail(r, e)) \/ Goto(r, "update") \/ Goto(r, "done")
    BY <1>4 DEF LoadUser
  <2>3. CASE Goto(r, "done")
    BY <2>1, <2>3, PassIsPass DEF Store!Next
  <2> QED
    BY <2>1, <2>2, <2>3, <1>f, StoreStutters DEF Steps
<1>5. ASSUME NEW r \in Requests, KeepRow(r) PROVE UNCHANGED Store!vars
  BY <1>5, StoreStutters DEF KeepRow, Steps
<1>6. ASSUME NEW r \in Requests, UpdateRow(r) PROVE Store!Next \/ UNCHANGED Store!vars
  <2>1. pc[r] = "update" /\ UNCHANGED <<rows, req>>
    BY <1>6 DEF UpdateRow
  <2>2. (\E e : Fail(r, e)) \/ Goto(r, "commit") \/ Goto(r, "index")
    BY <1>6 DEF UpdateRow, WriteRow
  <2> QED
    BY <2>1, <2>2, <1>f, StoreStutters DEF Steps
<1>7. ASSUME NEW r \in Requests, EnterName(r) PROVE Store!Next \/ UNCHANGED Store!vars
  <2>1. pc[r] = "index" /\ UNCHANGED <<rows, req>>
    BY <1>7 DEF EnterName
  <2>2. (\E e : Fail(r, e)) \/ Goto(r, "commit")
    BY <1>7 DEF EnterName
  <2> QED
    BY <2>1, <2>2, <1>f, StoreStutters DEF Steps
<1>8. ASSUME NEW r \in Requests, DetectDeadlock(r) PROVE Store!Next
  <2>1. PICK y \in Requests : r \in WaitsFor(y)
    BY <1>8 DEF DetectDeadlock, InCircle
  <2>2. pc[r] \in {"index", "commit"}
    BY <2>1 DEF WaitsFor, StepInv
  <2> QED
    BY <1>8, <2>2, <1>f DEF DetectDeadlock
<1>9. ASSUME NEW r \in Requests, Commit(r) PROVE Store!Next
  <2>1. CASE held[r] # None
    BY <1>9, <2>1, CommitIsRegister DEF Store!Next, Commit, StepInv
  <2>2. CASE held[r] = None
    <3>1. Store!Pass(r)
      BY <1>9, <2>2, PassIsPass DEF Commit
    <3> QED
      BY <3>1 DEF Store!Next
  <2> QED BY <2>1, <2>2
<1>10. ASSUME NEW i \in Identity, AddIdentity(i) \/ RemoveIdentity(i) PROVE UNCHANGED Store!vars
  BY <1>10 DEF AddIdentity, RemoveIdentity, Store!vars, outcome
<1>11. ASSUME NEW u \in Users, DeleteUser(u) PROVE Store!Next
  BY <1>11 DEF DeleteUser, Store!Next, Store!Delete, outcome
<1>12. CASE UNCHANGED vars
  BY <1>12 DEF vars, Store!vars, outcome
<1> QED
  BY <1>1, <1>2, <1>3, <1>4, <1>5, <1>6, <1>7, <1>8, <1>9, <1>10, <1>11, <1>12 DEF Next, Serve

\* Whatever a request had loaded, its registration takes effect at once, on the row as
\* it is at the commit (UserRepository.update flushes the columns that differ, and its
\* UPDATE locks the row).
THEOREM KeepsProfileStore == Spec => ImplementsProfileStore
<1>1. Init => Store!Init
  BY StoreInit
<1>2. IInv /\ [Next]_vars => [Store!Next]_(Store!vars)
  BY StoreStep
<1> QED
  BY <1>1, <1>2, Invariance, PTL DEF Spec, ImplementsProfileStore, Store!Spec

=============================================================================
