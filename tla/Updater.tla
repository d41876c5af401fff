------------------------------- MODULE Updater -------------------------------
(***************************************************************************)
(* update.sh apply, run from the checkout of a release: under a file lock  *)
(* it remembers the active services, backs the installation up, stops the  *)
(* services, migrates the configuration, replaces code and units, starts   *)
(* the services again and asks the manager for its health.  From the backup*)
(* on, the first failing command triggers the rollback (the ERR trap);     *)
(* before it, it only ends the script (set -e); in the rollback, where the *)
(* trap is removed, it ends the script half-way.                           *)
(*                                                                         *)
(* A run of the script is named by its release.  Code and units are those  *)
(* of a release or Partial while they are being replaced.  The private     *)
(* state is its schema and the number of edits administrators made to it.  *)
(***************************************************************************)
EXTENDS Naturals, Sequences

CONSTANTS
  Runs,        \* the updates, each from a release of its own
  First,       \* the release that is installed at first
  Partial, NoRun, Stopped, NoBackup,
  Manager,     \* arena-restream-manager.service
  StopOrder,   \* the services in the order in which they are stopped
  SchemaOf,    \* release -> the configuration schema its code supports
  MaxEdits,    \* bound on the edits
  Faults       \* what may go wrong, a subset of AllFaults

Releases == Runs \cup {First}
Services == {StopOrder[k] : k \in DOMAIN StopOrder}
AllFaults == {"step", "start", "restore", "kill"}

ASSUME UpdaterAssumption ==
  /\ First \notin Runs
  /\ {Partial, Stopped} \cap Releases = {} /\ NoRun \notin Runs
  /\ StopOrder \in Seq(Services) /\ Manager \in Services
  /\ SchemaOf \in [Releases -> {1, 2}]
  /\ MaxEdits \in Nat
  /\ Faults \subseteq AllFaults

VARIABLES
  lock,     \* the run that holds the file lock
  code,     \* TARGET: the installed code
  units,    \* the installed unit files
  config,   \* TARGET/state
  active,   \* service -> the release it runs, or Stopped
  run       \* the runs of the script

disk == <<code, units, config>>
dvars == <<lock, code, units, config, active, run>>

NoConfig == [schema |-> 0, edits |-> 0]
ConfigType == [schema : {0, 1, 2}, edits : 0 .. MaxEdits]
BackupType ==
  [code : Releases \cup {Partial}, units : Releases \cup {Partial}, config : ConfigType]

NewRun == [pc |-> "preflight", k |-> 1, remembered |-> {}, backup |-> NoBackup,
           missed |-> {}]

\* The steps between the setting and the removal of the trap, and the rollback.
Armed == {"stop", "migrate", "replace", "replacing", "validate", "units", "installing",
          "start", "health"}
RollingBack == {"rb_stop", "rb_restore", "rb_restoring", "rb_start"}
Prepared == {"remember", "backup"}
Ended == {"done", "failed", "rolled_back", "broken", "killed"}

Working == Prepared \cup Armed \cup RollingBack

RunType ==
  [pc : {"preflight", "lock"} \cup Working \cup Ended,
   k : 1 .. Len(StopOrder) + 1, remembered : SUBSET Services,
   backup : BackupType \cup {NoBackup},
   missed : SUBSET Services]   \* history: not started by its rollback

DTypeOK ==
  /\ lock \in Runs \cup {NoRun}
  /\ {code, units} \subseteq Releases \cup {Partial}
  /\ config \in ConfigType
  /\ active \in [Services -> Releases \cup {Partial, Stopped}]
  /\ run \in [Runs -> RunType]

-----------------------------------------------------------------------------
At(u, pc) == run[u].pc = pc
Goto(u, pc) == run' = [run EXCEPT ![u].pc = pc, ![u].k = 1]
End(u, pc) == Goto(u, pc) /\ lock' = IF lock = u THEN NoRun ELSE lock

\* preflight: the working configuration exists and can be migrated.
Preflight(u) ==
  /\ At(u, "preflight")
  /\ config.schema \in 1 .. SchemaOf[u]
  /\ Goto(u, "lock")
  /\ UNCHANGED <<lock, disk, active>>

\* Mutant of TakeLock: without flock.
TakeLockAlways(u) ==
  /\ At(u, "lock")
  /\ lock' = u /\ Goto(u, "remember")
  /\ UNCHANGED <<disk, active>>

\* flock -n: another update makes this one fail.
TakeLock(u) ==
  /\ At(u, "lock")
  /\ IF lock = NoRun THEN lock' = u /\ Goto(u, "remember") ELSE End(u, "failed")
  /\ UNCHANGED <<disk, active>>

Remember(u) ==
  /\ At(u, "remember")
  /\ run' = [run EXCEPT ![u].pc = "backup",
                        ![u].remembered = {s \in Services : active[s] # Stopped}]
  /\ UNCHANGED <<lock, disk, active>>

CreateBackup(u) ==
  /\ At(u, "backup")
  /\ run' = [run EXCEPT ![u].pc = "stop",
       ![u].backup = [code |-> code, units |-> units, config |-> config]]
  /\ UNCHANGED <<lock, disk, active>>

\* stop_services, one by one; stopping what is not running changes nothing.
StopService(u) ==
  /\ run[u].pc \in {"stop", "rb_stop"}
  /\ IF run[u].k > Len(StopOrder)
     THEN /\ Goto(u, IF At(u, "stop") THEN "migrate" ELSE "rb_restore")
          /\ UNCHANGED active
     ELSE /\ active' = [active EXCEPT ![StopOrder[run[u].k]] = Stopped]
          /\ run' = [run EXCEPT ![u].k = @ + 1]
  /\ UNCHANGED <<lock, disk>>

\* Mutant of Migrate: the version is advanced whatever it was.
MigrateAgain(u) ==
  /\ At(u, "migrate")
  /\ config' = [config EXCEPT !.schema = @ + 1]
  /\ Goto(u, "replace")
  /\ UNCHANGED <<lock, code, units, active>>

\* migrate_config.py --apply replaces the file atomically.
Migrate(u) ==
  /\ At(u, "migrate")
  /\ config.schema \in 1 .. SchemaOf[u]
  /\ config' = [config EXCEPT !.schema = SchemaOf[u]]
  /\ Goto(u, "replace")
  /\ UNCHANGED <<lock, code, units, active>>

\* replace_managed_files deletes and copies one item after the other.
Replace(u) ==
  /\ \/ At(u, "replace") /\ code' = Partial /\ Goto(u, "replacing")
     \/ At(u, "replacing") /\ code' = u /\ Goto(u, "validate")
  /\ UNCHANGED <<lock, units, config, active>>

ValidateInstalled(u) ==
  /\ At(u, "validate")
  /\ config.schema = SchemaOf[code]
  /\ Goto(u, "units")
  /\ UNCHANGED <<lock, disk, active>>

InstallUnits(u) ==
  /\ \/ At(u, "units") /\ units' = Partial /\ Goto(u, "installing")
     \/ At(u, "installing") /\ units' = u /\ Goto(u, "start")
  /\ UNCHANGED <<lock, code, config, active>>

\* Mutant of StartService: nothing is started after a rollback.
StartUnlessRolledBack(u) ==
  /\ run[u].pc \in {"start", "rb_start"}
  /\ active' = [s \in Services |->
                  IF s \in run[u].remembered /\ At(u, "start") THEN code ELSE active[s]]
  /\ IF At(u, "start") THEN Goto(u, "health") /\ UNCHANGED lock ELSE End(u, "rolled_back")
  /\ UNCHANGED disk

\* start_previous_services, in the reverse order.
StartService(u) ==
  /\ run[u].pc \in {"start", "rb_start"}
  /\ IF run[u].k > Len(StopOrder)
     THEN /\ IF At(u, "start") THEN Goto(u, "health") /\ UNCHANGED lock
                               ELSE End(u, "rolled_back")
          /\ UNCHANGED active
     ELSE LET s == StopOrder[Len(StopOrder) + 1 - run[u].k]
          IN  /\ active' = IF s \in run[u].remembered
                           THEN [active EXCEPT ![s] = code] ELSE active
              /\ run' = [run EXCEPT ![u].k = @ + 1]
              /\ UNCHANGED lock
  /\ UNCHANGED disk

\* wait_for_manager, when the manager was active; then the trap is removed.
Health(u) ==
  /\ At(u, "health")
  /\ Manager \in run[u].remembered => active[Manager] # Stopped
  /\ End(u, "done")
  /\ UNCHANGED <<disk, active>>

\* Mutant of Restore: the units are left alone.
RestoreWithoutUnits(u) ==
  /\ \/ At(u, "rb_restore") /\ code' = Partial /\ UNCHANGED config /\ Goto(u, "rb_restoring")
     \/ /\ At(u, "rb_restoring")
        /\ code' = run[u].backup.code /\ config' = run[u].backup.config
        /\ Goto(u, "rb_start")
  /\ UNCHANGED <<lock, units, active>>

\* restore_backup: code, configuration and state, then the units.
Restore(u) ==
  /\ \/ /\ At(u, "rb_restore")
        /\ code' = Partial /\ UNCHANGED <<units, config>>
        /\ Goto(u, "rb_restoring")
     \/ /\ At(u, "rb_restoring")
        /\ code' = run[u].backup.code
        /\ units' = run[u].backup.units
        /\ config' = run[u].backup.config
        /\ Goto(u, "rb_start")
  /\ UNCHANGED <<lock, active>>

-----------------------------------------------------------------------------
(* What goes wrong *)

\* A command fails before the trap is set: the script ends.
FailEarly(u) ==
  /\ "step" \in Faults \/ (At(u, "preflight") /\ config.schema \notin 1 .. SchemaOf[u])
  /\ run[u].pc \in {"preflight"} \cup Prepared
  /\ End(u, "failed")
  /\ UNCHANGED <<disk, active>>

\* Mutant of Fail: the rollback does not stop the services again.
FailWithoutStop(u) ==
  /\ "step" \in Faults /\ run[u].pc \in Armed \ {"stop", "start"}
  /\ Goto(u, "rb_restore")
  /\ UNCHANGED <<lock, disk, active>>

\* A command fails while the trap is set: rollback_on_error.  The failures of
\* stop_services are ignored.
Fail(u) ==
  /\ \/ "step" \in Faults /\ run[u].pc \in Armed \ {"stop", "start"}
     \/ "start" \in Faults /\ At(u, "start")
  /\ Goto(u, "rb_stop")
  /\ UNCHANGED <<lock, disk, active>>

\* A start that fails in the rollback is ignored, the next one is tried.
StartIgnored(u) ==
  /\ "start" \in Faults /\ At(u, "rb_start")
  /\ run[u].k <= Len(StopOrder)
  /\ LET s == StopOrder[Len(StopOrder) + 1 - run[u].k]
     IN  /\ s \in run[u].remembered
         /\ run' = [run EXCEPT ![u].k = @ + 1, ![u].missed = @ \cup {s}]
  /\ UNCHANGED <<lock, disk, active>>

\* A command of restore_backup fails: the script ends with half of it done.
RestoreFails(u) ==
  /\ "restore" \in Faults /\ At(u, "rb_restoring")
  /\ config' \in {config, run[u].backup.config, NoConfig}
  /\ units' \in {units, Partial}
  /\ End(u, "broken")
  /\ UNCHANGED <<code, active>>

\* A signal, or the loss of the terminal: no trap runs.
Kill(u) ==
  /\ "kill" \in Faults
  /\ run[u].pc \in Working
  /\ End(u, "killed")
  /\ UNCHANGED <<disk, active>>

-----------------------------------------------------------------------------
(* The services meanwhile *)

\* An administrator changes the configuration or a password in the manager.
Edit ==
  /\ active[Manager] # Stopped
  /\ config.edits < MaxEdits
  /\ config' = [config EXCEPT !.edits = @ + 1]
  /\ UNCHANGED <<lock, code, units, active, run>>

\* The operator starts or stops a service, but neither during an update nor
\* after one that was cut short.
Operate(s) ==
  /\ lock = NoRun
  /\ \A u \in Runs : run[u].pc \notin {"broken", "killed"}
  /\ active' = [active EXCEPT ![s] = IF @ = Stopped THEN code ELSE Stopped]
  /\ UNCHANGED <<lock, disk, run>>

DInit ==
  /\ lock = NoRun
  /\ code = First /\ units = First
  /\ config = [schema |-> SchemaOf[First], edits |-> 0]
  /\ active \in [Services -> {First, Stopped}]
  /\ run = [u \in Runs |-> NewRun]

Step(u) ==
  \/ Preflight(u) \/ TakeLock(u) \/ Remember(u) \/ CreateBackup(u) \/ StopService(u)
  \/ Migrate(u) \/ Replace(u) \/ ValidateInstalled(u) \/ InstallUnits(u)
  \/ StartService(u) \/ Health(u) \/ Restore(u)

Trouble(u) ==
  FailEarly(u) \/ Fail(u) \/ StartIgnored(u) \/ RestoreFails(u) \/ Kill(u)

DNext ==
  \/ \E u \in Runs : Step(u) \/ Trouble(u)
  \/ Edit
  \/ \E s \in Services : Operate(s)

DSpec == DInit /\ [][DNext]_dvars

\* A running script goes on: each of its commands ends, and a rejected check
\* is a failing command.
DFairSpec == DSpec /\ \A u \in Runs : WF_dvars(Step(u) \/ Fail(u))

-----------------------------------------------------------------------------
(* Properties *)

\* No service ever runs beside replaced code, beside unit files of another
\* release or with a configuration its code does not support: files change only
\* while the services are down, in the update and in the rollback, and what is
\* started again fits what is installed.
RunningFitsDisk ==
  \A s \in Services : active[s] # Stopped =>
    active[s] = code /\ units = code /\ config.schema = SchemaOf[code]

\* "blocks a parallel update" (docs/DEPLOYMENT.md): two runs never overlap
\* between the lock and their end.
OneAtATime ==
  \A u, v \in Runs :
    {run[u].pc, run[v].pc} \subseteq Working => u = v

\* The installation as the outside sees it: during an update, the one that its
\* rollback would return to.
Installation ==
  IF \E u \in Runs : run[u].pc \in Armed \cup RollingBack
  THEN LET u == CHOOSE u \in Runs : run[u].pc \in Armed \cup RollingBack
       IN  [code |-> run[u].backup.code, units |-> run[u].backup.units,
            schema |-> run[u].backup.config.schema]
  ELSE [code |-> code, units |-> units, schema |-> config.schema]

SomeCutShort == \E u \in Runs : run[u].pc \in {"broken", "killed"}

R == INSTANCE Release WITH node <- Installation, cut <- SomeCutShort

\* Unless one is cut short, an update installs code, units and schema of one
\* release together or changes nothing, whichever step fails; and one that
\* succeeds after another was cut short mends the installation.
UpdateIsAtomic ==
  /\ R!AtomicUpdates
  /\ [][\A u \in Runs : Health(u) => R!Update(u)]_dvars

\* "The updater preserves private configuration" (README.md): no edit is lost.
EditsKept == [][config'.edits >= config.edits]_config

\* A service that an update stopped runs again in the end, unless the update
\* was killed, its rollback failed, or the rollback could not start the service.
ServicesComeBack ==
  \A u \in Runs, s \in Services :
    (At(u, "stop") /\ s \in run[u].remembered)
      ~> \/ active[s] # Stopped
         \/ run[u].pc \in {"broken", "killed"}
         \/ s \in run[u].missed
=============================================================================
