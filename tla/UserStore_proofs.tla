-------------------------- MODULE UserStore_proofs ---------------------------
(***************************************************************************)
(* Proofs about UserStore, for any users, hashes and roles and any number  *)
(* of requests and commands at a time, however they overlap: the types; a  *)
(* save undoes nothing but what overlapped it; each method changes what it *)
(* says unless another task saved the account after it was read; the last  *)
(* enabled administrator goes only when another task saved in between.     *)
(***************************************************************************)
EXTENDS UserStore, TLAPS, FiniteSetTheorems

Payload == [Users -> Account \cup {NoUser}]

\* The operations that change an account which must be there, and those that
\* may take an administrator away.
Changing == {"role", "enable", "disable", "disable_user"}
Demotes(r) == r.op = "disable" \/ (r.op = "role" /\ r.role # "admin")

TaskType ==
  [pc : {"idle", "lookup", "self", "count", "load", "save"}, op : WebOps \cup CommandOps,
   actor : Users \cup {NoUser}, user : Users \cup {NoUser}, role : Roles,
   account : PublicAccount \cup {NoUser}, payload : Payload \cup {<<>>},
   missedChecks : SUBSET Users, missedCopy : SUBSET Users]

\* What a task holds is enough for the step it is at.
TaskOK(r) ==
  /\ r \in TaskType
  /\ r.pc # "idle" => r.user \in Users
  /\ r.pc \in {"lookup", "self", "count", "load"} => r.op \in WebOps
  /\ r.pc = "self" => r.op = "disable"
  /\ r.pc = "count" => Demotes(r)
  /\ r.pc \in {"load", "save"} /\ r.op = "password" => r.account \in PublicAccount
  /\ r.pc = "save" => r.payload \in Payload
  /\ r.pc = "save" /\ r.op \in Changing => r.payload[r.user] \in Account

\* The copy a task loaded is what the file holds, but for the accounts it misses.
Copied(r) == r.pc = "save" => \A u \in Users \ r.missedCopy : r.payload[u] = db[u]

\* So is the account it looked up; and what its checks found holds as long as
\* nobody has saved since.
Checked(r) ==
  /\ r.missedCopy \subseteq r.missedChecks
  /\ /\ r.pc = "self" \/ (r.pc \in {"load", "save"} /\ r.op = "password")
     /\ r.user \notin r.missedChecks
     => r.account = Public(db[r.user])
  /\ r.pc \in {"self", "count", "load", "save"} /\ r.missedChecks = {} =>
       /\ r.op = "create" => db[r.user] = NoUser
       /\ r.pc \in {"load", "save"} /\ Demotes(r) /\ IsAdmin(db[r.user]) =>
            \E u \in EnabledAdmins : u # r.user

Reads(r) == Copied(r) /\ (r.op \in WebOps => Checked(r))

UsersInv ==
  /\ db \in Payload
  /\ task \in [Tasks -> TaskType]
  /\ \A t \in Tasks : TaskOK(task[t]) /\ Reads(task[t])

-----------------------------------------------------------------------------
(* One task moves, and the file stays *)

\* A task that does nothing has a well-typed state and has read nothing.
LEMMA NoTaskOK == TaskOK(NoTask) /\ Reads(NoTask) /\ NoTask.pc = "idle"
<1>1. NoTask \in TaskType
  BY UsersAssumption DEF NoTask, TaskType, WebOps, CommandOps
<1>2. NoTask.pc = "idle" /\ NoTask.missedCopy = {} /\ NoTask.missedChecks = {}
  BY DEF NoTask
<1> HIDE DEF NoTask
<1> QED BY <1>1, <1>2 DEF TaskOK, Reads, Copied, Checked

\* Any state of a task that is right on its own may take the place of the old.
LEMMA TaskMoves ==
  ASSUME UsersInv, NEW t \in Tasks, NEW r, TaskOK(r), Reads(r),
         task' = [task EXCEPT ![t] = r], db' = db
  PROVE  UsersInv'
<1>1. /\ task' \in [Tasks -> TaskType] /\ task'[t] = r
      /\ \A u \in Tasks : u # t => task'[u] = task[u]
  BY DEF UsersInv, TaskOK
<1>2. EnabledAdmins' = EnabledAdmins
  BY DEF EnabledAdmins
<1>3. ASSUME NEW u \in Tasks PROVE TaskOK(task'[u]) /\ Reads(task'[u])
  BY <1>1 DEF UsersInv
<1>4. ASSUME NEW u \in Tasks PROVE TaskOK(task[u])' /\ Reads(task[u])'
  BY <1>2, <1>3 DEF TaskOK, Reads, Copied, Checked
<1> QED BY <1>1, <1>4 DEF UsersInv

\* A task that ends without a save leaves everything right.
LEMMA TaskEnds ==
  ASSUME UsersInv, NEW t \in Tasks, End(t), db' = db
  PROVE  UsersInv'
BY NoTaskOK, TaskMoves DEF End

\* More than one of anything is one more than any one of them.
LEMMA AnotherOne ==
  ASSUME NEW S, NEW x \in S, ~(Cardinality(S) <= 1)
  PROVE  \E y \in S : y # x
<1> SUFFICES ASSUME \A y \in S : y = x PROVE FALSE
  OBVIOUS
<1>1. S = {x}
  OBVIOUS
<1>2. Cardinality({x}) = 1
  BY FS_Singleton
<1> QED BY <1>1, <1>2

\* What public_user returns tells an administrator as the account does.
LEMMA PublicTells ==
  ASSUME NEW account \in Account \cup {NoUser}
  PROVE  /\ Public(account) \in PublicAccount \cup {NoUser}
         /\ account # NoUser => Public(account) \in PublicAccount
         /\ IsAdmin(Public(account)) <=> IsAdmin(account)
<1>1. CASE account = NoUser
  BY <1>1 DEF Public, IsAdmin
<1>2. CASE account # NoUser
  <2>1. Public(account) = [role |-> account.role, enabled |-> account.enabled]
    BY <1>2 DEF Public
  <2>2. account.role \in Roles /\ account.enabled \in BOOLEAN
    BY <1>2 DEF Account
  <2>3. Public(account) \in PublicAccount
    BY <2>1, <2>2 DEF PublicAccount
  <2>4. Public(account) # NoUser
    BY <2>3, UsersAssumption
  <2> QED BY <1>2, <2>1, <2>3, <2>4 DEF IsAdmin
<1> QED BY <1>1, <1>2

-----------------------------------------------------------------------------
(* Requests and commands begin *)

\* A request to the web interface begins with its lookup ahead.
LEMMA RequestInductive ==
  ASSUME UsersInv, NEW t \in Tasks, NEW op \in WebOps, NEW actor \in Users,
         NEW user \in Users, NEW role \in Roles, WebRequest(t, op, actor, user, role)
  PROVE  UsersInv'
<1> DEFINE l == IF op \in {"create", "role"} THEN role ELSE "admin"
           a == IF op = "disable" THEN actor ELSE NoUser
           r == [NoTask EXCEPT !.pc = "lookup", !.op = op, !.user = user, !.actor = a,
                               !.role = l]
<1>1. l \in Roles /\ a \in Users \cup {NoUser}
  BY UsersAssumption
<1>2. task' = [task EXCEPT ![t] = r] /\ db' = db
  BY DEF WebRequest
<1> HIDE DEF l, a
<1>3. r \in TaskType
  BY <1>1, NoTaskOK DEF TaskOK, TaskType
<1>4. r.pc = "lookup" /\ r.op = op /\ r.user = user /\ r.missedCopy = {} /\ r.missedChecks = {}
  BY DEF NoTask
<1> HIDE DEF r
<1>5. TaskOK(r) /\ Reads(r)
  BY <1>3, <1>4 DEF TaskOK, Reads, Copied, Checked
<1> QED BY <1>2, <1>5, TaskMoves

\* A command begins with a copy of the file as it is.
LEMMA CommandInductive ==
  ASSUME UsersInv, NEW t \in Tasks, NEW op \in CommandOps, NEW user \in Users,
         NEW role \in Roles, Command(t, op, user, role)
  PROVE  UsersInv'
<1> DEFINE l == IF op = "set" THEN role ELSE "admin"
           r == [NoTask EXCEPT !.pc = "save", !.op = op, !.user = user, !.payload = db,
                               !.role = l]
<1>1. l \in Roles /\ db \in Payload
  BY UsersAssumption DEF UsersInv
<1>2. task' = [task EXCEPT ![t] = r] /\ db' = db /\ (op = "disable_user" => db[user] # NoUser)
  BY DEF Command
<1>3. op \in Changing => db[user] \in Account
  BY <1>1, <1>2 DEF Payload, Changing, CommandOps
<1>4. op # "password" /\ op \notin WebOps
  BY DEF CommandOps, WebOps
<1> HIDE DEF l
<1>5. r \in TaskType
  BY <1>1, NoTaskOK DEF TaskOK, TaskType
<1>6. r.pc = "save" /\ r.user = user /\ r.op = op /\ r.payload = db
  BY DEF NoTask
<1> HIDE DEF r
<1>7. TaskOK(r) /\ Reads(r)
  BY <1>1, <1>3, <1>4, <1>5, <1>6 DEF TaskOK, Reads, Copied
<1> QED BY <1>2, <1>7, TaskMoves

-----------------------------------------------------------------------------
(* What a task reads *)

\* The lookup of an account, and what the handler concludes from it.
LEMMA LookupInductive ==
  ASSUME UsersInv, NEW t \in Tasks, Lookup(t)
  PROVE  UsersInv'
<1> DEFINE r == task[t]
           account == Public(db[r.user])
           kept == IF r.op \in {"disable", "password"} THEN account ELSE NoUser
           pc == CASE r.op = "disable" -> "self"
                   [] r.op = "role" /\ r.role # "admin" /\ IsAdmin(account) -> "count"
                   [] OTHER -> "load"
           q == [r EXCEPT !.account = kept, !.pc = pc]
<1>0. /\ r \in TaskType /\ TaskOK(r) /\ Reads(r) /\ r.pc = "lookup" /\ db' = db
      /\ r.user \in Users /\ db[r.user] \in Account \cup {NoUser}
  BY DEF UsersInv, Lookup, TaskOK, Payload
<1>1. CASE (account = NoUser) # (r.op = "create")
  BY <1>0, <1>1, TaskEnds DEF Lookup
<1>2. CASE ~((account = NoUser) # (r.op = "create"))
  <2>1. task' = [task EXCEPT ![t] = q]
    BY <1>2 DEF Lookup, UsersInv
  <2>2. /\ pc \in {"self", "count", "load"}
        /\ pc = "self" <=> r.op = "disable"
        /\ pc = "count" => r.op = "role" /\ r.role # "admin"
        /\ pc = "load" => r.op # "disable"
                          /\ ~(r.op = "role" /\ r.role # "admin" /\ IsAdmin(account))
    OBVIOUS
  <2>3. /\ account \in PublicAccount \cup {NoUser}
        /\ db[r.user] # NoUser => account \in PublicAccount
        /\ IsAdmin(account) <=> IsAdmin(db[r.user])
    BY <1>0, PublicTells
  <2>4. account = NoUser <=> db[r.user] = NoUser
    BY <2>3, UsersAssumption DEF Public
  <2>5. kept \in PublicAccount \cup {NoUser} /\ (r.op \in {"disable", "password"} => kept = account)
    BY <2>3
  <2>6. r.op = "create" <=> account = NoUser
    BY <1>2
  <2> HIDE DEF pc, kept, account
  <2>7. /\ q \in TaskType /\ q.pc = pc /\ q.account = kept /\ q.op = r.op /\ q.user = r.user
        /\ q.role = r.role /\ q.missedCopy = r.missedCopy /\ q.missedChecks = r.missedChecks
    BY <1>0, <2>2, <2>5 DEF TaskType
  <2> HIDE DEF q
  <2>8. TaskOK(q)
    BY <1>0, <2>2, <2>3, <2>4, <2>5, <2>6, <2>7 DEF TaskOK, Demotes
  <2>9. Reads(q)
    <3>1. r.op \in WebOps => r.missedCopy \subseteq r.missedChecks
      BY <1>0 DEF Reads, Checked
    <3>2. q.pc \in {"self", "load"} /\ (q.pc = "self" \/ q.op = "password") =>
            q.account = Public(db[q.user])
      BY <2>2, <2>5, <2>7 DEF account
    <3>3. ~(q.pc = "load" /\ Demotes(q) /\ IsAdmin(db[q.user]))
      BY <2>2, <2>3, <2>7 DEF Demotes
    <3> QED BY <2>2, <2>4, <2>6, <2>7, <3>1, <3>2, <3>3 DEF Reads, Copied, Checked
  <2> QED BY <1>0, <2>1, <2>8, <2>9, TaskMoves
<1> QED BY <1>1, <1>2

\* The actor's own account read again.
LEMMA SelfInductive ==
  ASSUME UsersInv, NEW t \in Tasks, Self(t)
  PROVE  UsersInv'
<1> DEFINE r == task[t]
           pc == IF IsAdmin(r.account) THEN "count" ELSE "load"
           q == [r EXCEPT !.actor = NoUser, !.account = NoUser, !.pc = pc]
<1>0. /\ r \in TaskType /\ TaskOK(r) /\ Reads(r) /\ r.pc = "self" /\ db' = db
      /\ r.user \in Users /\ db[r.user] \in Account \cup {NoUser} /\ r.op = "disable"
  BY DEF UsersInv, Self, TaskOK, Payload
<1>1. CASE End(t)
  BY <1>0, <1>1, TaskEnds
<1>2. CASE task' = [task EXCEPT ![t] = q]
  <2>1. pc \in {"count", "load"} /\ (pc = "load" => ~IsAdmin(r.account))
    OBVIOUS
  <2> HIDE DEF pc
  <2>2. /\ q \in TaskType /\ q.pc = pc /\ q.op = r.op /\ q.user = r.user /\ q.role = r.role
        /\ q.missedCopy = r.missedCopy /\ q.missedChecks = r.missedChecks
    BY <1>0, <2>1 DEF TaskType
  <2> HIDE DEF q
  <2>3. TaskOK(q)
    BY <1>0, <2>1, <2>2 DEF TaskOK, Demotes
  <2>4. Checked(r)
    BY <1>0 DEF Reads, WebOps
  <2>5. q.missedChecks = {} /\ q.pc = "load" => ~IsAdmin(db[q.user])
    BY <1>0, <2>1, <2>2, <2>4, PublicTells DEF Checked
  <2>6. Reads(q)
    BY <1>0, <2>1, <2>2, <2>4, <2>5 DEF Reads, Copied, Checked
  <2> QED BY <1>0, <1>2, <2>3, <2>6, TaskMoves
<1> QED BY <1>1, <1>2 DEF Self, UsersInv

\* The count lets a demotion pass only with a second administrator.
LEMMA CountInductive ==
  ASSUME UsersInv, NEW t \in Tasks, Count(t)
  PROVE  UsersInv'
<1> DEFINE r == task[t]
           q == [r EXCEPT !.pc = "load"]
<1>0. /\ r \in TaskType /\ TaskOK(r) /\ Reads(r) /\ r.pc = "count" /\ db' = db
      /\ r.user \in Users /\ Demotes(r)
  BY DEF UsersInv, Count, TaskOK
<1>1. CASE End(t)
  BY <1>0, <1>1, TaskEnds
<1>2. CASE Goto(t, "load") /\ ~(Cardinality(EnabledAdmins) <= 1)
  <2>1. task' = [task EXCEPT ![t] = q]
    BY <1>2 DEF Goto, UsersInv
  <2>2. /\ q \in TaskType /\ q.pc = "load" /\ q.op = r.op /\ q.user = r.user
        /\ q.role = r.role /\ q.missedCopy = r.missedCopy /\ q.missedChecks = r.missedChecks
    BY <1>0 DEF TaskType
  <2> HIDE DEF q
  <2>3. TaskOK(q)
    BY <1>0, <2>2 DEF TaskOK, Demotes
  <2>4. Checked(r) /\ r.op \notin {"create", "password"}
    BY <1>0 DEF Reads, WebOps, Demotes
  <2>5. IsAdmin(db[q.user]) => \E u \in EnabledAdmins : u # q.user
    <3>1. IsAdmin(db[q.user]) => q.user \in EnabledAdmins
      BY <1>0, <2>2 DEF EnabledAdmins
    <3> QED BY <1>2, <3>1, AnotherOne
  <2>6. Reads(q)
    BY <1>0, <2>2, <2>4, <2>5 DEF Reads, Copied, Checked
  <2> QED BY <1>0, <2>1, <2>3, <2>6, TaskMoves
<1> QED BY <1>1, <1>2 DEF Count

\* A load copies the file as it is.
LEMMA LoadInductive ==
  ASSUME UsersInv, NEW t \in Tasks, Load(t)
  PROVE  UsersInv'
<1> DEFINE r == task[t]
           q == [r EXCEPT !.pc = "save", !.payload = db]
<1>0. /\ r \in TaskType /\ TaskOK(r) /\ Reads(r) /\ r.pc = "load" /\ db' = db
      /\ r.user \in Users /\ db \in Payload
  BY DEF UsersInv, Load, TaskOK
<1>1. CASE End(t)
  BY <1>0, <1>1, TaskEnds
<1>2. CASE /\ task' = [task EXCEPT ![t] = q]
           /\ ~(r.op \in {"role", "enable", "disable"} /\ db[r.user] = NoUser)
  <2>1. /\ q \in TaskType /\ q.pc = "save" /\ q.payload = db /\ q.account = r.account
        /\ q.op = r.op /\ q.user = r.user /\ q.role = r.role
        /\ q.missedCopy = r.missedCopy /\ q.missedChecks = r.missedChecks
    BY <1>0 DEF TaskType
  <2>2. r.op \in WebOps /\ (r.op \in Changing => db[r.user] \in Account)
    BY <1>0, <1>2 DEF TaskOK, Changing, Payload, WebOps
  <2>3. Checked(r)
    BY <1>0, <2>2 DEF Reads
  <2> HIDE DEF q
  <2>4. TaskOK(q)
    BY <1>0, <2>1, <2>2 DEF TaskOK
  <2>5. Reads(q)
    BY <1>0, <2>1, <2>3 DEF Reads, Copied, Checked, Demotes
  <2> QED BY <1>0, <1>2, <2>4, <2>5, TaskMoves
<1> QED BY <1>1, <1>2 DEF Load, UsersInv

-----------------------------------------------------------------------------
(* Saves *)

\* What a save writes for its user is an account.
LEMMA ChangedTyped ==
  ASSUME UsersInv, NEW t \in Tasks, NEW hash \in Hashes, task[t].pc = "save"
  PROVE  Changed(t, hash) \in Account
<1> DEFINE r == task[t]
           old == r.payload[r.user]
<1>1. TaskOK(r)
  BY DEF UsersInv
<1>2. /\ r.op \in WebOps \cup CommandOps /\ r.role \in Roles
      /\ r.op = "password" => r.account \in PublicAccount
      /\ r.op \in Changing => old \in Account
  BY <1>1 DEF TaskOK, TaskType
<1>3. CASE r.op \in {"create", "set"}
  <2>1. Changed(t, hash) = [hash |-> hash, role |-> r.role, enabled |-> TRUE]
    BY <1>3 DEF Changed
  <2> QED BY <1>2, <1>3, <2>1 DEF Account
<1>4. CASE r.op = "password"
  <2>1. Changed(t, hash) = [hash |-> hash, role |-> r.account.role,
                            enabled |-> r.account.enabled]
    BY <1>4 DEF Changed
  <2> QED BY <1>2, <1>4, <2>1 DEF Account, PublicAccount
<1>5. CASE r.op \in Changing
  <2>1. \/ Changed(t, hash) = [old EXCEPT !.role = r.role]
        \/ Changed(t, hash) = [old EXCEPT !.enabled = TRUE]
        \/ Changed(t, hash) = [old EXCEPT !.enabled = FALSE]
    BY <1>5 DEF Changed, Changing
  <2>2. old \in Account
    BY <1>2, <1>5
  <2> HIDE DEF old
  <2> QED BY <1>2, <2>1, <2>2 DEF Account
<1> QED BY <1>2, <1>3, <1>4, <1>5 DEF WebOps, CommandOps, Changing

\* What a save writes: the account of its user, and for the others that the task
\* has not missed what the file holds.
LEMMA SaveWrites ==
  ASSUME UsersInv, NEW t \in Tasks, Save(t)
  PROVE  \E hash \in Hashes :
           /\ task[t].user \in Users /\ task[t].payload \in Payload /\ db' \in Payload
           /\ Changed(t, hash) \in Account
           /\ db'[task[t].user] = Changed(t, hash)
           /\ \A u \in Users \ ({task[t].user} \cup task[t].missedCopy) : db'[u] = db[u]
<1> DEFINE r == task[t]
<1>1. r.pc = "save" /\ TaskOK(r) /\ Copied(r)
  BY DEF Save, UsersInv, Reads
<1>2. r.user \in Users /\ r.payload \in Payload
  BY <1>1 DEF TaskOK
<1>3. PICK hash \in Hashes : db' = [r.payload EXCEPT ![r.user] = Changed(t, hash)]
  BY DEF Save
<1>4. Changed(t, hash) \in Account
  BY <1>1, ChangedTyped
<1>5. \A u \in Users \ r.missedCopy : r.payload[u] = db[u]
  BY <1>1 DEF Copied
<1>6. db' \in Payload /\ db'[r.user] = Changed(t, hash)
      /\ \A u \in Users \ {r.user} : db'[u] = r.payload[u]
  BY <1>2, <1>3, <1>4 DEF Payload
<1> QED BY <1>2, <1>4, <1>5, <1>6

\* Whoever is overtaken still holds what it needs.
LEMMA OvertakenOK ==
  ASSUME NEW r, TaskOK(r), NEW accounts \in SUBSET Users
  PROVE  TaskOK(Overtaken(r, accounts))
<1> DEFINE a == IF r.op \in WebOps /\ r.pc \in {"self", "count", "load", "save"}
                THEN r.missedChecks \cup accounts ELSE r.missedChecks
           b == IF r.pc = "save" THEN r.missedCopy \cup accounts ELSE r.missedCopy
           q == [r EXCEPT !.missedChecks = a, !.missedCopy = b]
<1>0. a \in SUBSET Users /\ b \in SUBSET Users /\ Overtaken(r, accounts) = q
  BY DEF TaskOK, TaskType, Overtaken
<1> HIDE DEF a, b
<1>1. /\ q \in TaskType /\ q.pc = r.pc /\ q.op = r.op /\ q.user = r.user
      /\ q.role = r.role /\ q.account = r.account /\ q.payload = r.payload
  BY <1>0 DEF TaskOK, TaskType
<1> HIDE DEF q
<1>2. TaskOK(q)
  BY <1>1 DEF TaskOK, Demotes
<1> QED BY <1>0, <1>2

\* A save: whoever is at work misses the accounts it may change.
LEMMA SaveInductive ==
  ASSUME UsersInv, NEW t \in Tasks, Save(t)
  PROVE  UsersInv'
<1> DEFINE accounts == task[t].missedCopy \cup {task[t].user}
<1>1. /\ accounts \in SUBSET Users /\ accounts # {} /\ db' \in Payload
      /\ \A u \in Users \ accounts : db'[u] = db[u]
  <2>1. task[t].missedCopy \in SUBSET Users
    BY DEF UsersInv, TaskType
  <2> QED BY <2>1, SaveWrites
<1>2. task' = [u \in Tasks |-> IF u = t THEN NoTask ELSE Overtaken(task[u], accounts)]
  BY DEF Save, Overtake
<1> HIDE DEF accounts
<1>3. ASSUME NEW u \in Tasks
      PROVE  TaskOK(task'[u]) /\ Reads(task[u])'
  <2>1. CASE u = t
    <3>1. task'[u] = NoTask /\ NoTask.missedCopy = {} /\ NoTask.missedChecks = {}
      BY <1>2, <2>1 DEF NoTask
    <3> QED BY <3>1, NoTaskOK DEF Reads, Copied, Checked
  <2>2. CASE u # t
    <3> DEFINE r == task[u]
               q == Overtaken(r, accounts)
    <3>1. task'[u] = q /\ r \in TaskType /\ TaskOK(r) /\ Reads(r)
      BY <1>2, <2>2 DEF UsersInv
    <3>2. /\ q.pc = r.pc /\ q.op = r.op /\ q.user = r.user /\ q.role = r.role
          /\ q.account = r.account /\ q.payload = r.payload
          /\ q.missedChecks = IF r.op \in WebOps /\ r.pc \in {"self", "count", "load", "save"}
                              THEN r.missedChecks \cup accounts ELSE r.missedChecks
          /\ q.missedCopy = IF r.pc = "save" THEN r.missedCopy \cup accounts ELSE r.missedCopy
      BY <3>1 DEF TaskType, Overtaken
    <3>3. TaskOK(q)
      BY <1>1, <3>1, OvertakenOK
    <3> HIDE DEF q
    <3>4. q.pc = "save" => \A v \in Users \ q.missedCopy : q.payload[v] = db'[v]
      BY <1>1, <3>1, <3>2 DEF Reads, Copied
    <3>5. ASSUME q.op \in WebOps
          PROVE  /\ q.missedCopy \subseteq q.missedChecks
                 /\ /\ q.pc = "self" \/ (q.pc \in {"load", "save"} /\ q.op = "password")
                    /\ q.user \notin q.missedChecks
                    => q.account = Public(db'[q.user])
                 /\ q.pc \in {"self", "count", "load", "save"} => q.missedChecks # {}
      <4>1. Checked(r) /\ q.missedCopy \subseteq q.missedChecks
        BY <3>1, <3>2, <3>5 DEF Reads, Checked
      <4>2. ASSUME q.pc = "self" \/ (q.pc \in {"load", "save"} /\ q.op = "password"),
                   q.user \notin q.missedChecks
            PROVE  q.account = Public(db'[q.user])
        <5>1. r.user \in Users /\ q.missedChecks = r.missedChecks \cup accounts
          BY <3>1, <3>2, <3>5, <4>2 DEF TaskOK
        <5>2. r.account = Public(db[r.user]) /\ db'[r.user] = db[r.user]
          BY <1>1, <3>2, <4>1, <4>2, <5>1 DEF Checked
        <5> QED BY <3>2, <5>2
      <4>3. q.pc \in {"self", "count", "load", "save"} => q.missedChecks # {}
        BY <1>1, <3>2, <3>5
      <4> QED BY <4>1, <4>2, <4>3
    <3>6. Reads(task[u])'
      BY <3>1, <3>4, <3>5 DEF Reads, Copied, Checked
    <3> QED BY <3>1, <3>3, <3>6
  <2> QED BY <2>1, <2>2
<1>4. task' \in [Tasks -> TaskType]
  BY <1>2, <1>3 DEF TaskOK
<1>5. \A u \in Tasks : TaskOK(task[u])' /\ Reads(task[u])'
  BY <1>3 DEF TaskOK
<1> QED BY <1>1, <1>4, <1>5 DEF UsersInv

-----------------------------------------------------------------------------
(* The results *)

\* Every step keeps the invariant.
LEMMA UsersInductive ==
  ASSUME UsersInv, [UNext]_uvars
  PROVE  UsersInv'
<1>1. ASSUME NEW t \in Tasks, Step(t) PROVE UsersInv'
  <2>1. CASE GiveUp(t)
    BY <2>1, TaskEnds DEF GiveUp
  <2> QED BY <1>1, <2>1, LookupInductive, SelfInductive, CountInductive, LoadInductive,
             SaveInductive DEF Step
<1>2. CASE UNCHANGED uvars
  <2>1. task' = task /\ db' = db /\ EnabledAdmins' = EnabledAdmins
    BY <1>2 DEF uvars, EnabledAdmins
  <2> QED BY <2>1 DEF UsersInv, TaskOK, Reads, Copied, Checked
<1> QED BY <1>1, <1>2, RequestInductive, CommandInductive DEF UNext

\* The invariant holds from the start.
LEMMA UsersHolds == USpec => []UsersInv
<1>1. UInit => UsersInv
  BY NoTaskOK DEF UInit, UsersInv, Payload, TaskOK
<1> QED BY <1>1, UsersInductive, PTL DEF USpec

\* The users file and what each task holds of it keep their type, with any number
\* of requests and commands at a time.
THEOREM UsersKeepType == USpec => []UTypeOK
<1>1. UsersInv => UTypeOK
  BY DEF UsersInv, UTypeOK, TaskOK, TaskType, Payload
<1> QED BY <1>1, UsersHolds, PTL

\* However requests and commands overlap, a save leaves an account of another
\* user that nobody saved since it loaded its copy.
THEOREM OverlapsUndoNoMore == USpec => OnlyOverlapsAreUndone
<1>1. ASSUME UsersInv, NEW t \in Tasks, Saves(t)
      PROVE  \A u \in Users \ ({task[t].user} \cup task[t].missedCopy) : db'[u] = db[u]
  BY <1>1, SaveWrites DEF Saves
<1>2. UsersInv =>
        [\A t \in Tasks : Saves(t) =>
           \A u \in Users \ ({task[t].user} \cup task[t].missedCopy) : db'[u] = db[u]]_uvars
  BY <1>1
<1> QED BY <1>2, UsersHolds, PTL DEF OnlyOverlapsAreUndone

\* What a save makes of its own account: the one field its method is for, of the
\* account as it is, where the account was not saved since the method read it.
LEMMA FieldOfSave ==
  ASSUME UsersInv, NEW t \in Tasks, Saves(t)
  PROVE  LET r == task[t]
             old == db[r.user]
             new == db'[r.user]
         IN  /\ r.user \notin r.missedCopy =>
                  /\ r.op = "role" => new = [old EXCEPT !.role = r.role]
                  /\ r.op = "enable" => new = [old EXCEPT !.enabled = TRUE]
                  /\ r.op \in {"disable", "disable_user"} =>
                       new = [old EXCEPT !.enabled = FALSE]
             /\ r.user \notin r.missedChecks /\ r.op = "password" =>
                  new = [old EXCEPT !.hash = new.hash]
<1> DEFINE r == task[t]
           old == db[r.user]
           new == db'[r.user]
<1>0. r.pc = "save" /\ TaskOK(r) /\ Reads(r) /\ Save(t)
  BY DEF Saves, UsersInv
<1>1. PICK hash \in Hashes :
        r.user \in Users /\ Changed(t, hash) \in Account /\ new = Changed(t, hash)
  BY <1>0, SaveWrites
<1>2. ASSUME r.user \notin r.missedCopy
      PROVE  /\ r.op = "role" => new = [old EXCEPT !.role = r.role]
             /\ r.op = "enable" => new = [old EXCEPT !.enabled = TRUE]
             /\ r.op \in {"disable", "disable_user"} => new = [old EXCEPT !.enabled = FALSE]
  <2>1. r.payload[r.user] = old
    BY <1>0, <1>1, <1>2 DEF Reads, Copied
  <2> QED BY <1>1, <2>1 DEF Changed
<1>3. ASSUME r.user \notin r.missedChecks, r.op = "password"
      PROVE  new = [old EXCEPT !.hash = new.hash]
  <2>1. r.account = Public(old) /\ r.account \in PublicAccount
    BY <1>0, <1>3 DEF Reads, Checked, TaskOK, WebOps
  <2>2. old \in Account /\ old # NoUser
    BY <1>1, <2>1, UsersAssumption DEF UsersInv, Payload, Public
  <2>3. r.account.role = old.role /\ r.account.enabled = old.enabled
    BY <2>1, <2>2 DEF Public
  <2>4. Changed(t, hash) = [hash |-> hash, role |-> r.account.role,
                            enabled |-> r.account.enabled]
    BY <1>3 DEF Changed
  <2>5. new = [hash |-> hash, role |-> old.role, enabled |-> old.enabled]
    BY <1>1, <2>3, <2>4
  <2> HIDE DEF old, new
  <2>6. [old EXCEPT !.hash = hash] = [hash |-> hash, role |-> old.role, enabled |-> old.enabled]
    BY <2>2 DEF Account
  <2> QED BY <2>5, <2>6
<1> QED BY <1>2, <1>3

\* A change of the role, of the flag or of the password changes nothing else of
\* the account as it is, unless another task saved it after it was read.
THEOREM MethodsKeepToTheirField == USpec => OnlyItsFieldChanges
<1>1. UsersInv =>
        [\A t \in Tasks : Saves(t) =>
           LET r == task[t]
               old == db[r.user]
               new == db'[r.user]
           IN  /\ r.user \notin r.missedCopy =>
                    /\ r.op = "role" => new = [old EXCEPT !.role = r.role]
                    /\ r.op = "enable" => new = [old EXCEPT !.enabled = TRUE]
                    /\ r.op \in {"disable", "disable_user"} =>
                         new = [old EXCEPT !.enabled = FALSE]
               /\ r.user \notin r.missedChecks /\ r.op = "password" =>
                    new = [old EXCEPT !.hash = new.hash]]_uvars
  BY FieldOfSave
<1> QED BY <1>1, UsersHolds, PTL DEF OnlyItsFieldChanges

\* An administrator whose account a save changes remains one, where nobody saved
\* since the lookup, unless the request is one that demotes.
LEMMA StaysAdmin ==
  ASSUME UsersInv, NEW t \in Tasks, Saves(t), task[t].op \in WebOps,
         task[t].missedChecks = {}, IsAdmin(db[task[t].user]), ~Demotes(task[t])
  PROVE  IsAdmin(db'[task[t].user])
<1> DEFINE r == task[t]
           old == db[r.user]
           new == db'[r.user]
<1>0. /\ r.pc = "save" /\ TaskOK(r) /\ Reads(r) /\ Save(t) /\ Checked(r)
      /\ r.missedCopy = {} /\ db \in Payload
  BY DEF Saves, UsersInv, Reads, Checked
<1>1. new \in Account /\ new # NoUser /\ r.user \in Users
  BY <1>0, SaveWrites, UsersAssumption
<1>2. old \in Account /\ old.enabled /\ old.role = "admin" /\ r.op # "create"
  BY <1>0, <1>1 DEF IsAdmin, Payload, Checked
<1>3. /\ r.op = "role" => new = [old EXCEPT !.role = r.role]
      /\ r.op = "enable" => new = [old EXCEPT !.enabled = TRUE]
      /\ r.op = "password" => new = [old EXCEPT !.hash = new.hash]
  BY <1>0, FieldOfSave
<1> HIDE DEF old, new
<1>4. CASE r.op = "role"
  <2>1. r.role = "admin"
    BY <1>4 DEF Demotes
  <2>2. new.role = "admin" /\ new.enabled = old.enabled
    BY <1>2, <1>3, <1>4, <2>1 DEF Account
  <2> QED BY <1>1, <1>2, <2>2 DEF IsAdmin, new
<1>5. CASE r.op = "enable"
  <2>1. new.role = old.role /\ new.enabled = TRUE
    BY <1>2, <1>3, <1>5 DEF Account
  <2> QED BY <1>1, <1>2, <2>1 DEF IsAdmin, new
<1>6. CASE r.op = "password"
  <2>1. new.role = old.role /\ new.enabled = old.enabled
    BY <1>2, <1>3, <1>6 DEF Account
  <2> QED BY <1>1, <1>2, <2>1 DEF IsAdmin, new
<1> QED BY <1>2, <1>4, <1>5, <1>6 DEF WebOps, Demotes

\* A request that takes the last enabled administrator away has been overtaken by
\* the save of another between its lookup and its own save.
THEOREM LastAdminFalls == USpec => LastAdminGoesInOverlap
<1>1. ASSUME UsersInv, NEW t \in Tasks, Saves(t), task[t].op \in WebOps,
             EnabledAdmins # {}, task[t].missedChecks = {}
      PROVE  (EnabledAdmins # {})'
  <2> DEFINE r == task[t]
             v == r.user
  <2>1. r.missedCopy = {} /\ v \in Users /\ Checked(r) /\ r.pc = "save"
    BY <1>1 DEF Saves, UsersInv, Reads, Checked, TaskOK
  <2>2. \A u \in Users : u # v => db'[u] = db[u]
    BY <1>1, <2>1, SaveWrites DEF Saves
  <2>3. Demotes(r) /\ IsAdmin(db[v]) => \E u \in EnabledAdmins : u # v
    BY <1>1, <2>1 DEF Checked
  <2>4. PICK a \in Users : IsAdmin(db[a])
    BY <1>1 DEF EnabledAdmins
  <2>5. \E u \in Users : IsAdmin(db'[u])
    <3>1. CASE a # v
      BY <2>2, <2>4, <3>1
    <3>2. CASE a = v /\ ~Demotes(r)
      BY <1>1, <2>1, <2>4, <3>2, StaysAdmin
    <3>3. CASE a = v /\ Demotes(r)
      <4>1. PICK u \in EnabledAdmins : u # v
        BY <2>3, <2>4, <3>3
      <4> QED BY <2>2, <4>1 DEF EnabledAdmins
    <3> QED BY <3>1, <3>2, <3>3
  <2> QED BY <2>5 DEF EnabledAdmins, IsAdmin
<1>2. UsersInv =>
        [\A t \in Tasks :
           /\ Saves(t) /\ task[t].op \in WebOps
           /\ EnabledAdmins # {} /\ (EnabledAdmins = {})'
           => task[t].missedChecks # {}]_uvars
  BY <1>1
<1> QED BY <1>2, UsersHolds, PTL DEF LastAdminGoesInOverlap
=============================================================================
