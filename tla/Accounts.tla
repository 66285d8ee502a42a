------------------------------ MODULE Accounts ------------------------------
(***************************************************************************)
(* UserService (domain/users/services.py): the requests that find a user   *)
(* by a Telegram id.  A registration of a known id takes the profile it    *)
(* brings over into the user's row; an authentication only loads the user. *)
(* Each request runs in a READ COMMITTED transaction of its own            *)
(* (dependencies.py provide_transaction), one statement per action; the    *)
(* UPDATE of the flush is two, for it locks the row first and then enters  *)
(* the new name in the unique index of users.username.                     *)
(*                                                                         *)
(* The columns of a user are username, and first_name, which stands for    *)
(* avatar_url as well.  The administrator adds and removes identities and  *)
(* deletes users meanwhile; no request does, see CreateUser.               *)
(***************************************************************************)
EXTENDS Naturals, FiniteSets

CONSTANTS
  Requests,
  Users, Telegrams,    \* users, ids of Telegram accounts
  FirstNames, Usernames,
  Inputs,              \* what a request may bring
  Start, Identities,   \* the rows of users and of auth_identities at the start
  MaxEdits,            \* bound on the identities the administrator adds and removes
  None

Kinds    == {"register", "authenticate"}
Profiles == [first_name : FirstNames, username : Usernames \cup {None}]
Identity == [telegram : Telegrams, user : Users]
Input    == [kind : Kinds, telegram : Telegrams, first_name : FirstNames,
             username : Usernames \cup {None}, valid_url : BOOLEAN]

ASSUME AccountsAssumption ==
  /\ Inputs \subseteq Input
  /\ None \notin Usernames \cup Profiles \cup Users \cup Input
  /\ Start \in [Users -> Profiles]
  /\ \A u, v \in Users : u # v /\ Start[u].username # None => Start[u].username # Start[v].username
  /\ Identities \subseteq Identity
  /\ MaxEdits \in Nat

VARIABLES
  rows,        \* [Users -> the committed row of the user, or None once deleted]
  identities,  \* the committed rows of auth_identities
  edits,       \* how many identities the administrator has added and removed
  pc,          \* [Requests -> step]
  req,         \* [Requests -> what it brings]
  user,        \* [Requests -> the user of the identity found]
  loaded,      \* [Requests -> the row its session has loaded]
  held,        \* [Requests -> the row it has updated, locked and uncommitted, or None]
  err          \* [Requests -> why it failed]

vars == <<rows, identities, edits, pc, req, user, loaded, held, err>>

Steps  == {"idle", "identity", "load", "create", "update", "index", "commit", "done", "failed"}
Errors == {"none", "MultipleResultsFound", "NotRegistered", "AttributeError", "ValueError",
           "ValidationError", "StaleDataError", "IntegrityError", "DeadlockDetected"}

Init ==
  /\ rows = Start
  /\ identities = Identities
  /\ edits = 0
  /\ pc = [r \in Requests |-> "idle"]
  /\ req = [r \in Requests |-> None]
  /\ user = [r \in Requests |-> None]
  /\ loaded = [r \in Requests |-> None]
  /\ held = [r \in Requests |-> None]
  /\ err = [r \in Requests |-> "none"]

Goto(r, step) == pc' = [pc EXCEPT ![r] = step]

\* Variant: the session is not closed on an exception.
FailKeepsLocks(r, e) ==
  /\ UNCHANGED held
  /\ err' = [err EXCEPT ![r] = e]
  /\ Goto(r, "failed")

\* An exception rolls the transaction back and answers the request.
Fail(r, e) ==
  /\ held' = [held EXCEPT ![r] = None]
  /\ err' = [err EXCEPT ![r] = e]
  /\ Goto(r, "failed")

-----------------------------------------------------------------------------
(* get_or_create_user_from_telegram and get_user_by_telegram_id *)

Begin(r) ==
  /\ pc[r] = "idle"
  /\ \E i \in Inputs : req' = [req EXCEPT ![r] = i]
  /\ Goto(r, "identity")
  /\ UNCHANGED <<rows, identities, edits, user, loaded, held, err>>

FoundBy(r) == {i \in identities : i.telegram = req[r].telegram}

\* scalar_one_or_none: uq_user_provider does not keep an id from being that of
\* two users.
FindIdentity(r) ==
  /\ pc[r] = "identity"
  /\ \/ /\ \E i, j \in FoundBy(r) : i # j
        /\ Fail(r, "MultipleResultsFound")
        /\ UNCHANGED user
     \/ \E i \in identities :
          /\ FoundBy(r) = {i}
          /\ user' = [user EXCEPT ![r] = i.user]
          /\ Goto(r, "load")
          /\ UNCHANGED <<held, err>>
     \/ /\ FoundBy(r) = {} /\ req[r].kind = "register"
        /\ Goto(r, "create")
        /\ UNCHANGED <<user, held, err>>
     \/ /\ FoundBy(r) = {} /\ req[r].kind = "authenticate"
        /\ Fail(r, "NotRegistered")
        /\ UNCHANGED user
  /\ UNCHANGED <<rows, identities, edits, req, loaded>>

\* _create_new_telegram_user: UserCreate has no avatar_url, and the validator of
\* the model strips it all the same.  No statement after this one is ever reached.
CreateUser(r) ==
  /\ pc[r] = "create"
  /\ Fail(r, "AttributeError")
  /\ UNCHANGED <<rows, identities, edits, req, user, loaded>>

\* A user that was deleted meanwhile: update_user returns None, which the response
\* of a registration refuses.
LoadUser(r) ==
  /\ pc[r] = "load"
  /\ loaded' = [loaded EXCEPT ![r] = rows[user[r]]]
  /\ \/ /\ rows[user[r]] # None
        /\ Goto(r, IF req[r].kind = "register" THEN "update" ELSE "done")
        /\ UNCHANGED <<held, err>>
     \/ /\ rows[user[r]] = None
        /\ Fail(r, IF req[r].kind = "register" THEN "ValidationError" ELSE "NotRegistered")
  /\ UNCHANGED <<rows, identities, edits, req, user>>

-----------------------------------------------------------------------------
(* update_user *)

RenamesFirst(r) == req[r].first_name # loaded[r].first_name

\* Variant: without exclude_none.
RenamesUserToNone(r) == req[r].username # loaded[r].username

RenamesUser(r) == req[r].username \notin {None, loaded[r].username}

\* Variant: only the name is kept.
UpdatedName(r) ==
  [username |-> IF RenamesUser(r) THEN req[r].username ELSE rows[user[r]].username]

\* Variant: every column is written, as it was loaded.
UpdatedWhole(r) ==
  [first_name |-> IF RenamesFirst(r) THEN req[r].first_name ELSE loaded[r].first_name,
   username   |-> IF RenamesUser(r) THEN req[r].username ELSE loaded[r].username]

\* The row as the UPDATE leaves it: it sets only the columns in which the profile
\* (exclude_none) differs from what was loaded, whatever was committed since.
Updated(r) ==
  [first_name |-> IF RenamesFirst(r) THEN req[r].first_name ELSE rows[user[r]].first_name,
   username   |-> IF RenamesUser(r) THEN req[r].username ELSE rows[user[r]].username]

\* o has locked the row that r wants to update.
LocksRow(o, r) == pc[r] = "update" /\ user[o] = user[r]

\* o has the name that r wants in the index, and may yet give it back: in its new
\* row, once that is in the index, or in the old row it is replacing.
HoldsName(o, r) ==
  /\ pc[r] = "index" /\ user[o] # user[r]
  /\ \/ rows[user[o]].username = held[r].username
     \/ pc[o] = "commit" /\ held[o].username = held[r].username

WaitsFor(r) == {o \in Requests \ {r} : held[o] # None /\ (LocksRow(o, r) \/ HoldsName(o, r))}

\* The validator of the model refuses the URL of the avatar.
RefuseUrl(r) ==
  /\ pc[r] = "update" /\ ~ req[r].valid_url
  /\ Fail(r, "ValueError")
  /\ UNCHANGED <<rows, identities, edits, req, user, loaded>>

\* A profile that is as it was loaded is not written.
KeepRow(r) ==
  /\ pc[r] = "update" /\ req[r].valid_url
  /\ ~ RenamesFirst(r) /\ ~ RenamesUser(r)
  /\ Goto(r, "commit")
  /\ UNCHANGED <<rows, identities, edits, req, user, loaded, held, err>>

\* A row that is gone is not updated, which the ORM notices.
WriteRow(r) ==
  \/ /\ rows[user[r]] = None
     /\ Fail(r, "StaleDataError")
  \/ /\ rows[user[r]] # None
     /\ held' = [held EXCEPT ![r] = Updated(r)]
     /\ Goto(r, IF Updated(r).username = rows[user[r]].username THEN "commit" ELSE "index")
     /\ UNCHANGED err

\* Variant: a row that another request has locked is passed over (SKIP LOCKED).
UpdateRowSkipsLocked(r) ==
  /\ pc[r] = "update" /\ req[r].valid_url
  /\ RenamesFirst(r) \/ RenamesUser(r)
  /\ \/ WaitsFor(r) = {} /\ WriteRow(r)
     \/ WaitsFor(r) # {} /\ Goto(r, "commit") /\ UNCHANGED <<held, err>>
  /\ UNCHANGED <<rows, identities, edits, req, user, loaded>>

UpdateRow(r) ==
  /\ pc[r] = "update" /\ req[r].valid_url
  /\ RenamesFirst(r) \/ RenamesUser(r)
  /\ WaitsFor(r) = {}
  /\ WriteRow(r)
  /\ UNCHANGED <<rows, identities, edits, req, user, loaded>>

NameTaken(r) ==
  \E v \in Users \ {user[r]} : rows[v] # None /\ rows[v].username = held[r].username

\* Variant: names are compared with the committed ones only.
EnterNameAtOnce(r) ==
  /\ pc[r] = "index"
  /\ \/ /\ NameTaken(r)
        /\ Fail(r, "IntegrityError")
     \/ /\ ~ NameTaken(r)
        /\ Goto(r, "commit")
        /\ UNCHANGED <<held, err>>
  /\ UNCHANGED <<rows, identities, edits, req, user, loaded>>

EnterName(r) ==
  /\ pc[r] = "index"
  /\ WaitsFor(r) = {}
  /\ \/ /\ NameTaken(r)
        /\ Fail(r, "IntegrityError")
     \/ /\ ~ NameTaken(r)
        /\ Goto(r, "commit")
        /\ UNCHANGED <<held, err>>
  /\ UNCHANGED <<rows, identities, edits, req, user, loaded>>

\* Requests that wait for each other in a circle; PostgreSQL ends one of them.
InCircle(r) ==
  \E S \in SUBSET Requests :
     /\ r \in S
     /\ \A x \in S : WaitsFor(x) \cap S # {} /\ \E y \in S : x \in WaitsFor(y)

DetectDeadlock(r) ==
  /\ InCircle(r)
  /\ Fail(r, "DeadlockDetected")
  /\ UNCHANGED <<rows, identities, edits, req, user, loaded>>

Commit(r) ==
  /\ pc[r] = "commit"
  /\ rows' = IF held[r] # None THEN [rows EXCEPT ![user[r]] = held[r]] ELSE rows
  /\ held' = [held EXCEPT ![r] = None]
  /\ Goto(r, "done")
  /\ UNCHANGED <<identities, edits, req, user, loaded, err>>

-----------------------------------------------------------------------------
(* The admin panel. *)

AddIdentity(i) ==
  /\ edits < MaxEdits /\ i \notin identities /\ rows[i.user] # None
  /\ edits' = edits + 1
  /\ identities' = identities \cup {i}
  /\ UNCHANGED <<rows, pc, req, user, loaded, held, err>>

RemoveIdentity(i) ==
  /\ edits < MaxEdits /\ i \in identities
  /\ edits' = edits + 1
  /\ identities' = identities \ {i}
  /\ UNCHANGED <<rows, pc, req, user, loaded, held, err>>

\* A user with identities is not deleted: the ORM would set their NOT NULL user_id
\* to NULL.  The DELETE waits for an UPDATE of the row.
DeleteUser(u) ==
  /\ rows[u] # None
  /\ \A i \in identities : i.user # u
  /\ \A r \in Requests : user[r] = u => held[r] = None
  /\ rows' = [rows EXCEPT ![u] = None]
  /\ UNCHANGED <<identities, edits, pc, req, user, loaded, held, err>>

-----------------------------------------------------------------------------
Serve(r) ==
  \/ FindIdentity(r) \/ CreateUser(r) \/ LoadUser(r)
  \/ RefuseUrl(r) \/ KeepRow(r) \/ UpdateRow(r) \/ EnterName(r) \/ DetectDeadlock(r) \/ Commit(r)

Next ==
  \/ \E r \in Requests : Begin(r) \/ Serve(r)
  \/ \E i \in Identity : AddIdentity(i) \/ RemoveIdentity(i)
  \/ \E u \in Users : DeleteUser(u)

Spec == Init /\ [][Next]_vars

\* The database executes a statement that is not blocked, and finds a deadlock.
FairSpec == Spec /\ \A r \in Requests : WF_vars(Serve(r))

-----------------------------------------------------------------------------
(* Properties. *)

TypeOK ==
  /\ rows \in [Users -> Profiles \cup {None}]
  /\ identities \subseteq Identity
  /\ edits \in Nat
  /\ pc \in [Requests -> Steps]
  /\ req \in [Requests -> Input \cup {None}]
  /\ user \in [Requests -> Users \cup {None}]
  /\ loaded \in [Requests -> Profiles \cup {None}]
  /\ held \in [Requests -> Profiles \cup {None}]
  /\ err \in [Requests -> Errors]

\* No two users have the same user name, also when registrations take names over
\* from each other at the same time (users.username is unique: models.py User).
NamesUnique ==
  \A u, v \in Users :
     u # v /\ rows[u] # None /\ rows[v] # None /\ rows[u].username # None
       => rows[u].username # rows[v].username

\* The requests that have updated the profile of u.
Updates(u) == {r \in Requests : pc[r] = "done" /\ req[r].kind = "register" /\ user[r] = u}

\* A user's profile is made of what it was and of what registrations of this user
\* that succeeded have brought: nothing of a failed one or of another user's, and no
\* name is lost to a profile without one (services.py update_user).
ProfileWasSent ==
  \A u \in Users : rows[u] # None =>
     /\ rows[u].first_name \in {Start[u].first_name} \cup {req[r].first_name : r \in Updates(u)}
     /\ rows[u].username \in {Start[u].username} \cup ({req[r].username : r \in Updates(u)} \ {None})

\* A registration of a known user that succeeded shows in the profile, unless
\* another one of the same user succeeded too ("If the user already exists their
\* profile is updated": auth.py register).
ProfileIsUpdated ==
  \A u \in Users : \A r \in Updates(u) : rows[u] # None /\ Updates(u) = {r} =>
     /\ rows[u].first_name = req[r].first_name
     /\ req[r].username \in {None, rows[u].username}

\* Every request ends, also if registrations take over each other's names: none
\* waits forever.
RequestsEnd == \A r \in Requests : pc[r] = "identity" ~> pc[r] \in {"done", "failed"}

-----------------------------------------------------------------------------
(* The promise of ProfileStore. *)

outcome == [r \in Requests |-> IF pc[r] \in {"done", "failed"} THEN pc[r] ELSE "open"]

Store == INSTANCE ProfileStore WITH sent <- req

\* A registration takes effect at once, at its commit, and writes over no column it
\* has nothing new for: the row is locked from the UPDATE on, which computes it
\* from what is committed then and not from what was loaded (UserRepository.update).
ImplementsProfileStore == Store!Spec

-----------------------------------------------------------------------------
(* What the documentation says and the code refutes. *)

\* "If the user is new, all required entities are created": a registration that
\* finds no user does not fail, unless the user name is taken.
NewUsersAreCreated ==
  \A r \in Requests :
     err[r] = "AttributeError" =>
       \E u \in Users : rows[u] # None /\ rows[u].username # None /\ rows[u].username = req[r].username

=============================================================================
