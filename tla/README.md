# A verification project for the Arena RTMP node

TLA+ models of the node's own programs, the TLC configurations that check them, and
proofs, checked by TLAPS, of all that is safety in them.  Paths and line numbers refer to
the repository; `PROJECT.json` names, for each definition, the lines it stands for.

## The system

The node takes camera streams over RTMP and does three things with them: it shows
them as HLS, guards who may publish, and forwards ("restreams") them to outside
destinations.  The media path is MediaMTX and Nginx; what the repository adds is
the administration around it.

| Part | State it keeps | Operations | Who calls it |
|---|---|---|---|
| Restream Supervisor, `app/restream_supervisor.py` | a re-entrant lock; FFmpeg children; for each field and destination index a pid file, a log and a progress file | start, stop, restart, delete_destination | the manager, over a Unix socket, one thread a request |
| Supervisor client, `app/supervisor_client.py` | none | request, with a timeout of 5 s | the manager's handlers |
| Restream Manager, `app/restream_manager.py` | the configuration lock | restream control, destination and field edits, users, status, audit | administrators' browsers; one gunicorn process, four threads |
| Configuration store, `app/config_store.py` | `restream-config.json` | validated load, atomic save | manager (reads and writes), supervisor and authorization (read) |
| User store, `app/access_control.py` | `users.json` | set_user, set_role, set_enabled, disable_user, reset_password, authenticate | manager threads, `scripts/manage_users.py` |
| Updater, `scripts/update.sh` | a file lock, a backup directory | check, apply | the operator |
| Migrations, `app/config_migrations.py`, `scripts/migrate_config.py` | none | schema 0 -> 1 -> 2 | updater, operator |
| Audit log, `app/audit_log.py` | a log and its rotated files | append, recent | manager threads |
| Publish authorization, `app/rtmp_auth.py` | none; reads the configuration for each request | allow or refuse a publisher | Nginx-RTMP, MediaMTX |
| Monitoring, `app/monitoring.py` | caches of the streams and byte counts seen last | health, metrics | browsers, the updater |
| Pages, `app/templates/*.html`, `web/script.js` | polling timers, players | the browser's side of the API | people |
| Installer, renderers, systemd units | none | run once, or declarative | the operator |

How they interact.  The manager holds the *configuration lock* (in-process) for a
whole handler and, inside it, calls the supervisor, which holds *its own lock* for
one start, stop or deletion.  Both processes read the same configuration file and
share no lock.  The manager's answer can come before the supervisor is done (a
timeout), and either process can be restarted under the other.  Web threads and
the command line share the users file and no lock at all.  The updater stops,
replaces and restarts everything while administrators may still be working.

What makes each part correct, and what is hard about it:

* Supervisor: one FFmpeg a slot, none forgotten, stop means stopped; threads,
  zombies and reaping, failing spawns, FFmpeg that ignores signals, restarts.
* Manager and supervisor together: nothing streams to an entry that is not the
  configured one; edits renumber destinations while processes are keyed by number.
* Users: an enabled administrator remains; each change changes what it says and
  nothing else; checks and writes are separate steps of concurrent requests.
* Updater: one release or the other, never a mixture; failures at every step.
* Audit log: bounded, newest records kept, readable while it rotates.
* Configuration and migrations: a migration keeps destinations and publish policy, and
  the original survives every failure; the file is replaced, never rewritten in place.
* Authorization: the configuration of one moment decides; a rotated key is revoked; what
  the pages show, the ingress admits.
* Monitoring: each request sees one Nginx worker only; a live stream stays shown and an
  ended one is forgotten; an answer does not contradict itself.

The hazards, each at its line, are listed in `PROJECT.json`.

## Modules

| Module | Models |
|---|---|
| `RestreamSupervisor` | the supervisor, its FFmpeg processes and files |
| `RestreamNode` | the manager's restream handlers and status composed with the supervisor (extends it) |
| `RestreamService` | what manager and supervisor promise together (abstract) |
| `UserStore` | user handlers, command line and users file |
| `Updater` | `update.sh apply`, its rollback, the services meanwhile |
| `Release` | what the updater promises (abstract) |
| `AuditLog` | the audit log's appends, rotation and queries |
| `ConfigMigrations` | the three schemas of the configuration, the migrations, `migrate_config.py --apply` |
| `PublishAuth` | field and key handlers, the auth service, the ingress and the addresses the pages show (extends `ConfigMigrations`) |
| `PublishGate` | what the node promises about publishing (abstract) |
| `Monitoring` | metrics requests, the streams they remember, Nginx's workers and MediaMTX |
| `MC...` | the instances TLC checks |
| `..._proofs` | theorems about the module of that name |

Operators named as a mutant in their comment are wrong on purpose: each replaces
the definition below it to confirm that a property notices such a bug.  Nothing
else uses them.

### RestreamSupervisor

`req[c]` is a request thread.  Its `pc` says where it is: waiting for the lock
(`want_start`, `want_stop`, `want_delete`), in the loop of start or stop, in the
two waits of stop (`term` after SIGTERM, `kill` after SIGKILL), before
delete_destination's nested stop (`delete`) or in its loop over the files
(`compact`), or answered.  `sel` and `todo` are the indices of the call and those
its loop has not visited; `snap` is the destination list the call read when it
entered.  A restart is a stop that ends in `want_start` with the lock released,
which is what `restart` does: two calls, each taking the lock itself.

Destinations are model values (a url with its audio mode).  Each file is modelled
by whose it is: `log[s]` is the set of destinations that wrote to the slot's log,
`progress[s]` the destination whose FFmpeg wrote the progress file.  `proc[p]` is
what the kernel knows under a pid.  A process that exits is a zombie until the
supervisor reaps it, and a zombie still counts as running to `process()`, since
psutil's `is_running()` is true of it; the pid file then keeps its slot occupied
until a stop, or until another spawn reaps the zombie (`Popen` polls the children
whose objects were dropped).  As a consequence a start for a slot whose FFmpeg
has died may answer `already_running` while the manager's status, which checks
for zombies, says stopped.

`FreshPids = FALSE` lets the kernel give a new process the pid that a stale pid
file of another slot names.  `PidWriteFails = TRUE` lets the pid file's write fail
after the spawn (`RecordFails`).

One step is a stretch of code inside which another thread, process or poll could not tell a
difference that a property is about: the selection of the indices, the spawn of start and,
apart from it, the writing of the pid file (`StartSpawn`, `StartRecord`), each wait of stop,
one index's renamings in delete_destination.  The spawn and the pid file are two steps because the manager's status
and the metrics read the files under no lock, and there they find an FFmpeg that streams and
no pid file.  What is still merged is smaller: the unlinking of a stale progress file, the
header of the log and the spawn (nothing runs at the slot before it), the two unlinks after
a wait of stop (no process is left), and the log and the progress file of one index.

### RestreamNode

`configLock` is `CONFIG_STORE.locked()`, `call[m]` the handler a manager thread
runs.  `Begin` is everything up to the request being sent, with the handler's
early returns in `Accepts`; then the answer (`Reply`), a closed connection
(`ConnectionLost`), or the client's timeout (`TimeOut`); then `Save` or
`SaveFails`.  An update sends any new url and validates it only when saving, so
`SaveFails` also stands for a url that is refused after the restream was stopped.
A timeout is possible while some stop is waiting for its FFmpeg: nothing else in
the supervisor takes seconds.

`Faults` selects what may go wrong (timeouts, restarts of either service, failing
saves); `UsedOps` restricts the operations of a run.  `RestedSpec` is the node in which no
handler begins while the supervisor is at work on a request that was given up; the code
guarantees that only as long as no client gives up.

`Statuses(s)` is what `get_process_status` may answer for a slot: it takes no lock and
looks at the pid file, the process and the progress file; how old the process and its
progress are is not modelled, so it is a set.  A poll is taken as one look at a state, though
it reads these one after the other.  `Counted(s)` is the count of the metrics,
which takes a zombie for a restream, unlike the status.  `StatusIsTrue` says what an
administrator may rely on.  Two cases are exempt.  Between the spawn (restream_supervisor.py:151)
and the writing of the pid file (166), `JustSpawned`, the code shows a streaming FFmpeg as
stopped and does not count it.  And a stale pid file whose pid the kernel gave
to the FFmpeg of another slot shows that process's life with the old slot's progress.

### UserStore

A request is modelled at the granularity of its reads and writes of the users
file: the access check, `public_user`, the actor's account, the count of enabled
administrators, `load`, `save`.  Each of these reads the file afresh.  The password
policy and failing writes are `GiveUp`.  `set_user` hashes with a fresh salt after its load,
so the hash is chosen at the save.

The code locks nothing here, so two changes can undo each other: whoever saves last puts the
whole file back as it was loaded.  Nothing in the model excludes that.  Two history fields of
a task record it: `missedCopy` are the accounts that saves of others may have changed since
this task loaded its copy, and `missedChecks` those since it looked its own account up
(`Overtake`; a save also passes on what it has missed itself, since it puts that back).  The
properties say what overlaps can do and what they cannot: a save changes another account only
if that is among the missed ones (`OnlyOverlapsAreUndone`); a change of a role, a flag or a
password changes nothing else of the account as it is in the file, unless the account was
missed (`OnlyItsFieldChanges`); and the last enabled administrator goes only if something was
missed between the lookup and the save (`LastAdminGoesInOverlap`).  The two promises of the
documentation itself, `EnabledAdminRemains` and `ResetKeepsAccess`, fail.

### Updater

A run of the script goes through the steps of `apply_update`.  Replacing files is
two steps, with `Partial` in between; stopping and starting go service by service.
`systemctl stop` is taken to stop the service (systemd kills what does not end);
`|| true` then only covers units that are not running.  The operator is assumed
not to start services by hand during an update or after one that was cut short.
An update is *cut short* when it is killed or a command of its rollback fails; `Release`
then promises nothing about what is installed.  A rollback goes on when a service does
not start and only warns; `missed` records which, so that `ServicesComeBack` can ask for
all others.

### AuditLog

Records are numbered as they are written; a file is the set of the records in it,
and no records is the same as no file, to a rotation and to a query alike.  The
lock admits one append at a time, so `append` is where its holder is: before the
unlink of the oldest backup, at the rename of file `k`, before the write.  A failure
(`AppendFails`) or a restart of the manager may come between any two file operations,
and so may a step of the query, which takes no lock and reads file after file.  What a
record says is abstracted to its kind, which gives its size and whether a query asks
for it.  Kinds in `Cut` have a text with U+0085, U+2028 or U+2029: `append` writes it as it is
(`ensure_ascii=False`, audit_log.py:128), `recent` takes it for the end of a line
(`str.splitlines`, 193), and the pieces do not decode and are skipped.  `Readable` therefore
excludes these records, and `NothingSkipped` does not say that a query finds them, because it
does not.  (A piece that happens to be JSON by itself is not modelled.)  `bytes` is the size of each file, the `st_size` that the rotation looks at; a write
may fall short by any amount.  A write cut short (`torn`) makes its own line and the one `joined` to it
unreadable; the properties of queries exempt the two.  Nothing in the code notices
such a write, although docs/AUDIT.md says that write failures are reported.

### ConfigMigrations

A field is a function on the keys its JSON object has, since the code tells a missing key
from a null one.  `Migrate` chains the two upgrades, each of which validates the whole
configuration in the old version first, and then applies the current rules.  `tool` is a
run of `migrate_config.py --apply`: load and migrate in memory, backup, replace, chown.
Any of the last three may fail or be killed, and the tool can be run again, as root (by
the updater) or as the owner.  The services are down meanwhile; `StartServices` ends this
part.

Two things the properties had to exempt.  A list that is full at `MaxDest` and a different
`restream_url` make one destination too many, and the migration refuses the file
(`Overfull`).  A run killed between the replacement and the chown leaves a file that only
root reads, and the next run finds the schema current, changes nothing and exits 0 (`cut`).
An empty or null `restream_url` is refused by `validate_legacy_v0`, although
`migrate_v0_to_v1` has a branch for it.  docs/DEPLOYMENT.md:138 says that new installations
start at `schema_version` 1; the code's current version is 2.

### PublishAuth

`edit[m]` is a manager thread inside a handler: `Begin` takes the configuration lock and
edits the loaded copy, `Save` replaces the file.  A save may fail before the replacement or
after it (the fsync of the directory); then the handler answers 500 although a key has been
rotated, so `IssuedKeyIsConfigured` speaks of successful answers.  Keys are drawn fresh
(`secrets.token_urlsafe`), therefore from the ASCII ones.  `request[a]` is a publisher: it
asks, one load of the file decides, and a service that goes away refuses.

`Verdict` is the table of `authorize_publish` with the exceptions around it: `hmac` does
not compare texts that are not ASCII, so such a key answers 503.  `NginxAdmits` and
`MediaMTXAdmits` put the ingress in front of it: Nginx asks for the `auth_places` of its
profile only, MediaMTX knows one path for a place, `placeN/streamN`.  `ShownStream` and
`ShownKey` are the address the pages show for a camera.  It differs from the one the auth
service expects for a null `stream_key`, which `camera_publish_url` shows as "None" and
everything else takes for the default.  `ShownUrlIsAdmitted` exempts this case, keys that are
not ASCII and, behind MediaMTX, renamed streams: there the code does show an address that is
refused.

`PublishGate` is the abstract promise: each place has a policy, administrators change one
thing of one place at a time, a replaced key never returns, and every request is decided
by the policy of one moment between its arrival and its answer.  The refinement mapping
(`Policy`) reads the policy, with the destinations, out of a file of any version, so that
a migration must be a stutter.

What the code does not promise, and no property asks: an established publisher is never
asked again; a place without publish auth, or one that Nginx does not ask about, takes any
key; a new field starts without publish auth.

### Monitoring

`metrics[t]` is a request: it reads the age of the HLS segments, asks Nginx for its
statistics and gets those of whichever worker serves it, merges them under
`_RTMP_CACHE_LOCK` into `cache` and, for the places in `mediaPlaces`, overlays MediaMTX's
path list, fetched under the same lock.  Publishers come and go, segments appear and grow
old, and workers or MediaMTX fail to answer between any two steps.  Nginx has `rtmp_auto_push`
on (nginx/templates/rtmp.conf.template:2), so a worker may have a stream because another one
pushes it there (`copies`, `Push`), and reports it as its own; a push ends some time after
its publisher has left (`EndPush`).  A stream is modelled by the publication it comes from,
not by its numbers nor by the worker that reported it: the cached entry may go back and forth
between the reports of two workers, and `LiveIsShown` says only that it stays an entry of this
publication.

## Runs

| Run | Configuration | Shows |
|---|---|---|
| `node` | 1 field, up to 2 destinations, 2 manager threads, 2 requests, 2 pids reused freely, failing saves, restarts of both services, timeouts that the next handler outwaits (`RestedSpec`) | the node implements `RestreamService`; nothing streams to an edited or removed entry; the status shown is true once a pid file is written; every FFmpeg is tracked, what stop visited stays silent, an acknowledged stop is one |
| `node_live` | 1 destination, 2 requests that overlap because of timeouts (`NodeSpec`, without `AtRest`), failing saves, restarts of both services, lost pid files | the supervisor's lock is exclusive; every handler gives the configuration lock back, every call the supervisor's |
| `node_logs` | up to 3 destinations, each entered once | logs follow their destinations through deletions |
| `node_timeout` | timeouts | *violation*, see below |
| `users` | 2 accounts, 2 hashes, 2 tasks among web requests and commands, overlapping freely | overlaps undo what they overlapped and no more; without one, each change changes what it says and an enabled administrator remains |
| `users_last_admin`, `users_reset` | 2 accounts, 2 requests | *violations*, see below |
| `updater` | 2 updates, 2 services, failing steps, starts and rollbacks, kills | an update is atomic unless cut short; services never run beside code, units or a schema of another release; updates never overlap; stopped services run again |
| `updater_edits` | 1 update, 1 edit | *violation*, see below |
| `audit` | 6 records of two sizes, the long ones with a line separator in their text, files of 1 or 2 lines, 2 backups, 1 query, 1 write cut short | files stay bounded; what they hold is an unbroken end of the history; a file's worth of the newest records remains; a query skips no readable record |
| `publish` | 1 place, up to 2 destinations, 177 first files of versions 0 to 3, legal or not, 4 keys of which one is not ASCII, 2 runs of the migration tool, 2 manager threads, 1 publisher | the node implements `PublishGate`; migrations are refused for one reason only and can be undone; exit code 0 means ready; replaced keys are refused and issued ones configured; the shown address is admitted |
| `monitoring` | 1 place, 2 workers that push to each other, 2 requests, MediaMTX serving this place, another or none | an answer agrees with itself; a live stream stays shown; an ended one is forgotten |

Why the bounds are enough.  Fields share only the lock and the pids, and the pids
of a second field are no different from those of a second slot, so one field with
two slots has every interaction between slots; three are needed only to see the
files of two later destinations move, which is the logs run.  In `node_live`
and `node_timeout` two requests give every overlap of a critical section with one that waits; a
third would wait as the second does.  In `node`, `RestedSpec` lets at most one request be at
work at a time; the second connection is for one whose answer is still on its way.  Two pids
give one process a slot, and reuse.  Two updates give a concurrent and a later one, and two
services a first and a last to stop and start.  Edits are bounded at one: a property about
losing one needs no second.  Six records fill the audit log and both backups, so that a
rotation begins which must drop some; queries do not influence each other, so one is
enough.  Places share nothing but the file, which every handler loads and saves whole
under one lock, and a verdict looks at one place, so one place stands for sixteen; two
destinations at `MaxDest` 2 make a full list, and a second run of the tool follows every
way the first can end.  Publishers do not influence each other.  Two workers are the one
that has a publisher and one that it pushes to or not; two metrics requests give a late one
whose segments or statistics are old.  `CHECK_DEADLOCK` is off only where the modelled world
may end (a killed or broken update that nobody follows).

Fairness.  `FairSpec` and `NodeFairSpec` assume that a thread that can take its
next step takes it: Python threads are scheduled, the waits of stop have timeouts,
a thread waiting for a free lock gets it if the lock stays free.  Nothing is
assumed of FFmpeg, which may run for ever and ignore signals, nor of arrivals.
`DFairSpec` assumes that a running script goes on: each command succeeds or fails.
`MFairSpec` assumes that metrics requests keep coming and run (the monitoring page polls),
that every worker serves one again and again (the kernel spreads connections over the
workers that accept them; a worker never asked could keep its stream unseen), that a push
ends when its publisher has gone, and that segments nobody renews grow old.  `LiveIsShown`
speaks only of runs in which the manager stops restarting.

What the violations show:

* `node_timeout`.  A client gives a slow restart up after 5 s and the handler
  releases the configuration lock.  A deletion of the same destination enters
  between the restart's stop and its start; the start then reads the
  configuration before the deletion has saved it, and FFmpeg streams to a
  destination that is no longer configured and that no button can stop.
* `users_last_admin`.  Two administrators disable or demote each other: both see a
  count of two, and none remains.
* `users_reset`.  A reset writes back the role and the flag it read, and so restores
  an access just taken away.  Every method of the store loads and saves the whole
  file, so any two overlapping changes undo each other likewise, also of two accounts: a
  change of a role that overlaps a change of a password brings the old password back.  The
  run `users` shows that such overlaps are the only way to lose a change.
* `updater_edits`.  The backup is taken before the services stop; a rollback
  returns to it and so undoes what administrators saved in between.

## Proofs

Every invariant and every action property that a passing run checks, and the three
refinements, are also theorems: what a run shows on its instance holds for every value
of the constants that the module's named assumptions admit.  What remains with TLC alone
is liveness.

| Module | Assumes | Theorems |
|---|---|---|
| `RestreamSupervisor_proofs` | `ConstantsAssumption`; the last two: `~PidWriteFails` | `LockSafety`, `NoProcessIsLost`, `StoppedIsSilent` |
| `RestreamNode_proofs` | also `NodeAssumption` | `NodeTypes`, whatever fails |
| | `~PidWriteFails`; whatever else fails | `NodeIsSupervisor`, `StreamsAreShown` |
| | `~PidWriteFails`, of `RestedSpec` | `RunsAsConfigured`, `StatusHolds`, `StopHolds`, `NodeImplementsService` |
| | `~PidWriteFails`, `NoGivingUp` | `PatientNodeRests`, `PatientNode` |
| | `CleanLogs` | `LogsFollow` |
| `UserStore_proofs` | `UsersAssumption` | `UsersKeepType`, `OverlapsUndoNoMore`, `MethodsKeepToTheirField`, `LastAdminFalls`, with any number of tasks |
| `Updater_proofs` | `UpdaterAssumption` | `UpdaterTyped`, `UpdatesNeverOverlap`, `NothingRunsBesideOtherFiles`, `UpdaterImplementsRelease` |
| `PublishAuth_proofs`, on `ConfigMigrations_proofs` | `ConfigAssumption`, `FilesAssumption`, `AuthAssumption` | `PublishTyped`, `MigrationLosesNothing`, `OnlyFullListsRefused`, `ExitCodeHolds`, `RevocationHolds`, `IssuedKeyHolds`, `AddressesAgree`, `PublishImplementsGate` |
| `AuditLog_proofs` | `AuditAssumption` | `AuditTypes`, `HistoryUnbroken`, `QueriesSkipNothing`, `FilesStayBounded`, `NewestRemain` |
| `Monitoring_proofs` | `MonitoringAssumption` | `MonitoringTyped`, `AnswersAgree` |

### The supervisor

`LockInv` joins types and the lock discipline with `WellFormed`: a start only visits
indices of the list it read, a deletion names an index, a process has a slot.  Without the
first, `snap[i + 1]` might not be a destination; without the last, a reaped process might
have had no slot to be tracked at.  `LockInv` is inductive (one lemma a group of actions).
`Tracked` is inductive beside it: a spawn happens only at a slot whose pid file names no
existing process, and such a slot, by `Tracked` itself, has none (`UnknownIsEmpty`); so
overwriting the pid file loses nothing.  Between a spawn and its pid file the spawning thread
is the one that knows the process (`Unrecorded`), and it holds the lock.  `VisitedIsSilent` rests on both: the slot a stop
passes over as unknown is empty by `Tracked`; the slot whose process it reaps had no other;
and no other thread can start anything meanwhile, because starting needs the lock
(`OthersOutside`), while exits and output start nothing (`NoneStarts`).  The hypothesis
`~PidWriteFails` is needed: with a failed write a process is really lost.

### The node

`NodeInv` adds to the supervisor's invariants what ties the two processes together:
`Exclusive` (while the configuration lock is held, the supervisor is at work for nobody but
its holder), `LoadedInv` (what an edit loaded is still what is configured), `RequestInv` (what a
request read of the field's list is still the list), `LinkInv` (it is what the handler asked
for), `QuietInv` (from a successful answer to the save, what was to be stopped is silent),
`ProcInv` and `FreshInv` (processes stream what is configured, and find no progress of an
earlier one).  Every edit then changes an entry only while its slot is silent, and every
start reads the list that is configured.

The theorems are about `RestedSpec`: any client may give up and the manager may be restarted
under any request, but no handler begins, and none edits, while the supervisor is at work on
a request without a handler (`AtRest`).  What is left of an abandoned request then goes by
the configuration that is still there, since only a handler edits it.  `AtRest` is what is
missing in the code when a client gives up: without it `Exclusive` fails, and with it
everything above, as the run `node_timeout` shows.  It is a consequence of the code when
nobody does (`NoGivingUp`): then every request has a handler that waits for it
(`AllAttended`), so that the configuration lock is enough (`PatientNodeRests`), and the node
as it is has all four properties (`PatientNode`).  Failing saves, refused edits, restarts of
the supervisor, reused pids and FFmpeg that ignores signals are all covered.

Whatever clients do, the node is one of the environments of the supervisor
(`NodeIsSupervisor`), whose own guarantees therefore hold; one of them is that what streams is
counted and not shown stopped once the start that spawned it has written the pid file
(`StreamsAreShown`), so that an administrator can see even what a given-up request has
started at a slot that is configured.

`NodeImplementsService` shows that each step is one of `RestreamService` or a stutter under
the mapping `StreamOf`; by `Tracked` a slot has one process at most, so that the mapping's
`CHOOSE` is determined (`StreamOfOne`).

`LogsFollow` needs a second invariant, `LogInv`: outside a deletion every log is in order
(`InOrder`); while one moves the files, those of the indices in `todo` and below the deleted
one are where their destination is and the others one lower (`Placed`), `todo` is what is
left from some index up (`Upper`), and from the last move to the save the configured list is
the one without its shift (`Moved`).  Its hypothesis is what the run `node_logs` assumes.  It
is needed: after a deletion whose save fails or that is interrupted the logs are off by one,
and a destination entered again finds its old log under its old index.  That the lists have
no entry twice and are lists without any one of their entries is part of it.

### Users

Everything is proved of tasks that overlap freely, with no condition.  `Copied`: what a task
has loaded is what the file holds, but for the accounts it has missed; this is inductive only
because a save passes its own missed accounts on, and it gives `OverlapsUndoNoMore` at once.
`Checked`: what a handler has looked up is still so for an account it has not missed, and if
it has missed none, the count's other enabled administrator is still there, and an account to
be created still is not.  With both, the save of a task that missed nothing leaves an enabled
administrator (`StaysAdmin` for the account it writes, `Checked` for another one), whence
`LastAdminFalls`.  That the documented promises fail is what the runs `users_last_admin` and
`users_reset` show; what is proved is that nothing but an overlap makes them fail.

### The updater

`UpdaterInv`: exactly the run between lock and end holds the lock (`HolderInv`); what runs is
what is installed (`Fits`); each step of a run knows what it has stopped and replaced
(`StageOK`); and unless an update was cut short, what is installed - or, from the backup on,
what the rollback would install - is one release (`WholeInv`).  The steps from the backup to
the end are stutters of `Release`, the last one is its atomic change.  A run of TLC checks
instances of two releases and two services; the proof takes any order of any services and
any schemas.

### Configuration and publishing

`ConfigMigrations_proofs` has the lemmas about the operators: what each migration makes of
each key (`V1Gets`, `V2Gets`), that it makes a legal field of a legal one or a list that is
too long (`V1Field`, `V2Field`), that `Migrate` makes a legal configuration of the current
version or refuses (`MigrateMakes`), and `ToolInv`, the stages of the tool: only a migration
that succeeds changes the file, after its backup.  `PublishAuth_proofs` shows that both
migrations keep every place's policy (`V1KeepsPolicy`, `V2KeepsPolicy`), whence they are
stutters of `PublishGate`; that a copy about to be saved differs from the file in its one
field and brings back no spent key (`EditInv`, `KeyInv`); and that a key taken out stays out
and authorizes nobody who asks with it (`StaleInv`).  `FilesAssumption` says that the first
file is what JSON can hold under the keys that matter, legal or not.

### Audit log

`HistoryInv`: a file moves only to an empty place (`Vacated`), the oldest goes first, and a
new record is newer than all.  `Awaited` is why a query skips nothing: files only ever move
up, in the direction the query reads, so what it has not found yet is in a file it has still
to read; and a file contributes the newest part of what matches (`TakenIsUpper`), all of it
unless the limit is reached (`TakenIsAll`).  `SizeInv`: an append that writes has found room,
and one that rotates has found the current file full, so that whatever is dropped, a full
file is left; a file's size is state (`bytes`, its `st_size`), so no sum over records is
needed.

### Monitoring

`MergedConfirmed`: what a merge leaves of Nginx's streams is confirmed by the segments the
request itself read, whatever the other requests put into the cache meanwhile; and for
MediaMTX's places the overlay replaces both parts of the answer from one list of paths
(`OverlayKeeps`).

### Only model-checked

`CallEventuallyEnds`, `LockEventuallyFree`, `ServicesComeBack`, `LiveIsShown` and
`EndedIsForgotten` are liveness, or rest on it, and out of the prover's reach.  The
violations are instances by nature.

## Not modelled, and the plan

What could be stated next:

1. `Monitoring`: the rates computed from byte counts, and the health checks beside them.
2. `RestreamNode` where `AtRest` does not hold: which entries may then be streamed to by
   mistake is shown by example (`node_timeout`) and not characterised.

Not modelled:

* In the manager: the upload of previews, sessions and CSRF tokens (cryptography of a
  library), the log tail, the rendering of pages.  None changes state the rest depends on.
* In the monitoring: the numbers of a stream and the bitrates made from byte counts.
  Health checks parse MediaMTX's paths without the lock and update the same counts, so a
  bitrate can be off; this is listed among the hazards and no property covers it.  The
  system snapshot and the health checks read and report.
* The installer, a straight line on an empty target; the renderers' text and the read-only
  audit scripts, beyond what the rendered files decide for `PublishAuth`.
* The viewer and administration pages: browser programs that poll; only the
  addresses that the manager shows are modelled.
* MediaMTX, Nginx and FFmpeg themselves, beyond what the node sees of them.
* The legacy recorder, which nothing starts.
* Compositions of `RestreamNode` with `Updater` and with `PublishAuth`.  The updater meets
  the node as a stop and a start of its services, which `ManagerRestart` and
  `SupervisorRestart` model, and, when it rolls back, by putting an older configuration file in
  place while they are down (`updater_edits`), which no action of `RestreamNode` does.  The field handlers of `PublishAuth` edit what `RestreamNode`
  does not look at, under the same lock.
