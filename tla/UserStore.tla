------------------------------ MODULE UserStore ------------------------------
(***************************************************************************)
(* The user database (app/access_control.py) and the handlers that change  *)
(* it: /api/users in app/restream_manager.py, run by gunicorn threads, and *)
(* the commands of scripts/manage_users.py.  The file is replaced          *)
(* atomically and read afresh by every call; nothing locks it from a load  *)
(* to the save of what was loaded, nor from a handler's checks to either.  *)
(***************************************************************************)
EXTENDS Naturals, FiniteSets

CONSTANTS
  Users, Hashes,     \* usernames and password hashes
  Roles,             \* the roles; the checks tell "admin" from the others
  Tasks,             \* gunicorn threads and command lines that can run at a time
  NoUser,            \* no account, and no actor
  WithCommands       \* TRUE: manage_users.py may run beside the web interface

Account == [hash : Hashes, role : Roles, enabled : BOOLEAN]
PublicAccount == [role : Roles, enabled : BOOLEAN]

ASSUME UsersAssumption ==
  /\ "admin" \in Roles
  /\ NoUser \notin Users \cup Account \cup PublicAccount
  /\ WithCommands \in BOOLEAN

VARIABLES
  db,    \* the users file: username -> account
  task   \* what each thread does, and which accounts the saves of others may have
         \* changed since it looked its own up and since it loaded its copy

uvars == <<db, task>>

WebOps == {"create", "role", "enable", "disable", "password"}
CommandOps == {"set", "disable_user"}

NoTask == [pc |-> "idle", op |-> "role", actor |-> NoUser, user |-> NoUser,
           role |-> "admin", account |-> NoUser, payload |-> <<>>,
           missedChecks |-> {}, missedCopy |-> {}]

UTypeOK ==
  /\ db \in [Users -> Account \cup {NoUser}]
  /\ \A t \in Tasks :
       /\ task[t].pc \in {"idle", "lookup", "self", "count", "load", "save"}
       /\ task[t].op \in WebOps \cup CommandOps
       /\ task[t].account \in PublicAccount \cup {NoUser}
       /\ task[t].pc = "save" => task[t].payload \in [Users -> Account \cup {NoUser}]
       /\ task[t].missedCopy \subseteq Users /\ task[t].missedChecks \subseteq Users

IsAdmin(account) == account # NoUser /\ account.enabled /\ account.role = "admin"
EnabledAdmins == {u \in Users : IsAdmin(db[u])}

\* Mutant of Public: the whole account.
PublicWithHash(account) == account

\* What public_user returns: no hash.
Public(account) ==
  IF account = NoUser THEN NoUser ELSE [role |-> account.role, enabled |-> account.enabled]

-----------------------------------------------------------------------------
Goto(t, pc) == task' = [task EXCEPT ![t].pc = pc]
End(t) == task' = [task EXCEPT ![t] = NoTask]

\* enforce_role_access: the session's account is enabled and an administrator.
WebRequest(t, op, actor, user, role) ==
  /\ task[t].pc = "idle"
  /\ IsAdmin(db[actor])
  /\ task' = [task EXCEPT ![t] = [NoTask EXCEPT
       !.pc = "lookup", !.op = op, !.user = user,
       !.actor = IF op = "disable" THEN actor ELSE NoUser,
       !.role = IF op \in {"create", "role"} THEN role ELSE "admin"]]
  /\ UNCHANGED db

\* manage_users.py goes straight to the store: the first it reads is the file.
Command(t, op, user, role) ==
  /\ WithCommands
  /\ task[t].pc = "idle"
  /\ op = "disable_user" => db[user] # NoUser
  /\ task' = [task EXCEPT ![t] = [NoTask EXCEPT
       !.pc = "save", !.op = op, !.user = user, !.payload = db,
       !.role = IF op = "set" THEN role ELSE "admin"]]
  /\ UNCHANGED db

\* public_user(username), what the handler concludes from it, and what of it it
\* reads again.
Lookup(t) ==
  /\ task[t].pc = "lookup"
  /\ LET account == Public(db[task[t].user])
         kept == IF task[t].op \in {"disable", "password"} THEN account ELSE NoUser
         found == [task EXCEPT ![t].account = kept]
     IN  IF (account = NoUser) # (task[t].op = "create")
         THEN End(t)
         ELSE task' = [found EXCEPT ![t].pc =
                CASE task[t].op = "disable" -> "self"
                  [] task[t].op = "role" /\ task[t].role # "admin"
                                         /\ IsAdmin(account) -> "count"
                  [] OTHER -> "load"]
  /\ UNCHANGED db

\* current_web_user() reads the actor's account again.
Self(t) ==
  /\ task[t].pc = "self"
  /\ LET actor == db[task[t].actor]
     IN  IF actor # NoUser /\ actor.enabled /\ task[t].user = task[t].actor
         THEN End(t)
         ELSE task' = [task EXCEPT ![t] = [@ EXCEPT !.actor = NoUser, !.account = NoUser,
                !.pc = IF IsAdmin(task[t].account) THEN "count" ELSE "load"]]
  /\ UNCHANGED db

\* Mutant of Count: the boundary is off by one.
CountBelowOne(t) ==
  /\ task[t].pc = "count"
  /\ IF Cardinality(EnabledAdmins) < 1 THEN End(t) ELSE Goto(t, "load")
  /\ UNCHANGED db

\* enabled_admin_count()
Count(t) ==
  /\ task[t].pc = "count"
  /\ IF Cardinality(EnabledAdmins) <= 1 THEN End(t) ELSE Goto(t, "load")
  /\ UNCHANGED db

\* UserStore.load, at the start of set_user, set_role and set_enabled.
Load(t) ==
  /\ task[t].pc = "load"
  /\ IF task[t].op \in {"role", "enable", "disable"}
        /\ db[task[t].user] = NoUser
     THEN End(t)
     ELSE task' = [task EXCEPT ![t].pc = "save", ![t].payload = db]
  /\ UNCHANGED db

\* Mutant of Changed: whatever is changed, the account is enabled again.
ChangedEnabling(t, hash) ==
  LET old == task[t].payload[task[t].user]
  IN  [hash |-> IF task[t].op \in {"create", "set", "password"} THEN hash ELSE old.hash,
       role |-> IF task[t].op \in {"create", "set", "role"} THEN task[t].role ELSE old.role,
       enabled |-> task[t].op \notin {"disable", "disable_user"}]

\* The account as the method leaves it in the loaded payload.  set_user hashes
\* the password with a salt of its own; reset_password passes it the role and
\* the flag that its public_user read.
Changed(t, hash) ==
  LET old == task[t].payload[task[t].user]
      set(role, enabled) == [hash |-> hash, role |-> role, enabled |-> enabled]
  IN  CASE task[t].op \in {"create", "set"} -> set(task[t].role, TRUE)
        [] task[t].op = "password" -> set(task[t].account.role, task[t].account.enabled)
        [] task[t].op = "role" -> [old EXCEPT !.role = task[t].role]
        [] task[t].op = "enable" -> [old EXCEPT !.enabled = TRUE]
        [] task[t].op \in {"disable", "disable_user"} -> [old EXCEPT !.enabled = FALSE]

\* The task r, once another has saved over these accounts.
Overtaken(r, accounts) ==
  [r EXCEPT
     !.missedChecks = IF r.op \in WebOps /\ r.pc \in {"self", "count", "load", "save"}
                      THEN @ \cup accounts ELSE @,
     !.missedCopy = IF r.pc = "save" THEN @ \cup accounts ELSE @]

\* Whoever else is at work misses the account that t saves, and the accounts
\* that t has missed itself: it puts them back as it loaded them.
Overtake(t) ==
  LET accounts == task[t].missedCopy \cup {task[t].user}
  IN  task' = [u \in Tasks |-> IF u = t THEN NoTask ELSE Overtaken(task[u], accounts)]

\* Mutant of Save: only the changed account is written.
SaveAlone(t) ==
  /\ task[t].pc = "save"
  /\ \E hash \in Hashes :
       db' = [u \in Users |-> IF u = task[t].user THEN Changed(t, hash) ELSE NoUser]
  /\ Overtake(t)

\* UserStore.save: the whole payload replaces the file.
Save(t) ==
  /\ task[t].pc = "save"
  /\ \E hash \in Hashes :
       db' = [task[t].payload EXCEPT ![task[t].user] = Changed(t, hash)]
  /\ Overtake(t)

\* A password the policy refuses, or a save that fails: nothing is written.
GiveUp(t) ==
  /\ task[t].pc \in {"load", "save"}
  /\ End(t)
  /\ UNCHANGED db

-----------------------------------------------------------------------------
\* RBAC is enabled only once an enabled administrator exists (docs/RBAC.md).
UInit ==
  /\ db \in [Users -> Account \cup {NoUser}]
  /\ EnabledAdmins # {}
  /\ task = [t \in Tasks |-> NoTask]

Step(t) == Lookup(t) \/ Self(t) \/ Count(t) \/ Load(t) \/ Save(t) \/ GiveUp(t)

UNext ==
  \E t \in Tasks :
    \/ Step(t)
    \/ \E user \in Users, role \in Roles :
         \/ \E op \in WebOps, actor \in Users : WebRequest(t, op, actor, user, role)
         \/ \E op \in CommandOps : Command(t, op, user, role)

USpec == UInit /\ [][UNext]_uvars

-----------------------------------------------------------------------------
\* In this step t saves, and has done.
Saves(t) == task[t].pc = "save" /\ task'[t].pc = "idle" /\ Save(t)

\* "Safety rules prevent an administrator from [...] disabling or demoting the
\* last enabled administrator" (docs/RBAC.md): no request to the web interface
\* leaves the node without one.  A command may.
EnabledAdminRemains ==
  [][\A t \in Tasks : Saves(t) /\ task[t].op \in WebOps /\ EnabledAdmins # {} =>
       (EnabledAdmins # {})']_uvars

\* "Replace only an existing user's password hash" (reset_password): a reset
\* leaves the role and the enabled flag as they are when it writes.
ResetKeepsAccess ==
  [][\A t \in Tasks : Saves(t) /\ task[t].op = "password" =>
       /\ db'[task[t].user].role = db[task[t].user].role
       /\ db'[task[t].user].enabled = db[task[t].user].enabled]_uvars

\* Nothing orders two saves, and each writes the whole file.  Even so a save
\* changes no other account than those that saves overlapping it were for: an
\* account that nobody saved since the task loaded its copy stays as it is.
OnlyOverlapsAreUndone ==
  [][\A t \in Tasks : Saves(t) =>
       \A u \in Users \ ({task[t].user} \cup task[t].missedCopy) : db'[u] = db[u]]_uvars

\* "Change a user's role without replacing the password hash", "enable or disable
\* an existing user", "replace only an existing user's password hash": that is all
\* each does to the account as it is in the file, unless another task saved the
\* account after this one read it.
OnlyItsFieldChanges ==
  [][\A t \in Tasks : Saves(t) =>
       LET r == task[t]
           old == db[r.user]
           new == db'[r.user]
       IN  /\ r.user \notin r.missedCopy =>
                /\ r.op = "role" => new = [old EXCEPT !.role = r.role]
                /\ r.op = "enable" => new = [old EXCEPT !.enabled = TRUE]
                /\ r.op \in {"disable", "disable_user"} => new = [old EXCEPT !.enabled = FALSE]
           /\ r.user \notin r.missedChecks /\ r.op = "password" =>
                new = [old EXCEPT !.hash = new.hash]]_uvars

\* A request takes the last enabled administrator away only when another task
\* saved an account after this one looked its own up: the checks of the handlers
\* are right, and lack a lock from the check to the save.
LastAdminGoesInOverlap ==
  [][\A t \in Tasks :
       /\ Saves(t) /\ task[t].op \in WebOps
       /\ EnabledAdmins # {} /\ (EnabledAdmins = {})'
       => task[t].missedChecks # {}]_uvars
=============================================================================
