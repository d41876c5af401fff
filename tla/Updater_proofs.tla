---------------------------- MODULE Updater_proofs ----------------------------
(***************************************************************************)
(* Proofs about Updater, for any number of updates and services, any order *)
(* of stopping them and any schemas: updates do not overlap, nothing runs  *)
(* beside code, units or a schema that are not its own, and the updater    *)
(* implements Release.                                                     *)
(***************************************************************************)
EXTENDS Updater, TLAPS

USE DEF At

-----------------------------------------------------------------------------
(* The inductive invariant *)

\* From the backup on, a run has one.
Guarded == Armed \cup RollingBack

\* Exactly the run between the lock and its end holds the lock.
HolderInv == \A u \in Runs : run[u].pc \in Working <=> lock = u

BackedUp == \A u \in Runs : run[u].pc \in Guarded => run[u].backup \in BackupType

TypeInv == DTypeOK /\ HolderInv /\ BackedUp

\* What runs is what is installed, and it is a release.
Fits ==
  \A s \in Services : active[s] # Stopped =>
    /\ code \in Releases /\ active[s] = code
    /\ units = code /\ config.schema = SchemaOf[code]

\* All is down while files change.
Down == {"migrate", "replace", "replacing", "validate", "units", "installing",
         "rb_restore", "rb_restoring"}

\* What a run has done so far, at each of its steps.
StageOK(u) ==
  LET r == run[u]
  IN  /\ r.pc \in Prepared => r.k = 1
      /\ r.pc = "backup" => \A s \in r.remembered : active[s] # Stopped
      /\ r.pc \in {"stop", "rb_stop"} =>
           \A j \in 1 .. r.k - 1 : active[StopOrder[j]] = Stopped
      /\ r.pc \in Down => \A s \in Services : active[s] = Stopped
      /\ r.pc \in {"replace", "replacing", "validate", "units", "installing", "start", "health"}
           => config.schema = SchemaOf[u]
      /\ r.pc \in {"validate", "units", "installing", "start", "health"} => code = u
      /\ r.pc \in {"start", "health"} => units = u
      /\ r.pc \in Guarded /\ r.remembered # {} =>
           /\ r.backup.code \in Releases /\ r.backup.units = r.backup.code
           /\ r.backup.config.schema = SchemaOf[r.backup.code]
      /\ r.pc = "rb_start" =>
           /\ code = r.backup.code /\ units = r.backup.units
           /\ config.schema = r.backup.config.schema

\* Unless an update was cut short, what is installed, or what the rollback
\* would install, is one release.
WholeInv == ~SomeCutShort => \E r \in Releases : Installation = R!Installed(r)

Stages == \A u \in Runs : StageOK(u)

UpdaterInv == TypeInv /\ Fits /\ Stages /\ WholeInv

-----------------------------------------------------------------------------
(* One run moves *)

\* What a step of run u leaves of the runs: the others, and u's notes.
Moves(u, pc, k) ==
  /\ run' \in [Runs -> RunType]
  /\ run'[u].pc = pc /\ run'[u].k = k
  /\ \A v \in Runs \ {u} : run'[v] = run[v]

KeepsNotes(u) ==
  run'[u].remembered = run[u].remembered /\ run'[u].backup = run[u].backup

\* The order of services names every service.
LEMMA OrderTyped ==
  /\ Len(StopOrder) \in Nat
  /\ \A j \in 1 .. Len(StopOrder) : StopOrder[j] \in Services
  /\ \A s \in Services : \E j \in 1 .. Len(StopOrder) : s = StopOrder[j]
BY UpdaterAssumption DEF Services

\* Going to another place of the script keeps what the update remembers.
LEMMA GotoMoves ==
  ASSUME DTypeOK, NEW u \in Runs, NEW pc \in {"preflight", "lock"} \cup Working \cup Ended,
         Goto(u, pc)
  PROVE  Moves(u, pc, 1) /\ KeepsNotes(u)
<1> DEFINE r == [run[u] EXCEPT !.pc = pc, !.k = 1]
<1>1. run \in [Runs -> RunType] /\ run[u] \in RunType
  BY DEF DTypeOK
<1>2. r \in RunType
  <2>1. 1 \in 1 .. Len(StopOrder) + 1
    BY OrderTyped
  <2> QED BY <1>1, <2>1 DEF RunType
<1>3. run' = [run EXCEPT ![u] = r]
  BY <1>1 DEF Goto, RunType
<1>4. run'[u] = r /\ r.pc = pc /\ r.k = 1 /\ r.remembered = run[u].remembered
      /\ r.backup = run[u].backup
  BY <1>1, <1>3 DEF RunType
<1> HIDE DEF r
<1> QED BY <1>1, <1>2, <1>3, <1>4 DEF Moves, KeepsNotes

\* The loops over the services count.
LEMMA CountMoves ==
  ASSUME DTypeOK, NEW u \in Runs, run[u].k <= Len(StopOrder),
         \/ run' = [run EXCEPT ![u].k = @ + 1]
         \/ \E s \in Services : run' = [run EXCEPT ![u].k = @ + 1, ![u].missed = @ \cup {s}]
  PROVE  Moves(u, run[u].pc, run[u].k + 1) /\ KeepsNotes(u)
<1>1. run \in [Runs -> RunType] /\ run[u] \in RunType
  BY DEF DTypeOK
<1>2. run[u].k + 1 \in 1 .. Len(StopOrder) + 1
  BY <1>1, OrderTyped DEF RunType
<1>3. CASE run' = [run EXCEPT ![u].k = @ + 1]
  <2> DEFINE r == [run[u] EXCEPT !.k = @ + 1]
  <2>1. r \in RunType
    BY <1>1, <1>2 DEF RunType
  <2>2. run' = [run EXCEPT ![u] = r]
    BY <1>1, <1>3 DEF RunType
  <2>3. r.pc = run[u].pc /\ r.k = run[u].k + 1 /\ r.remembered = run[u].remembered
        /\ r.backup = run[u].backup
    BY <1>1 DEF RunType
  <2> HIDE DEF r
  <2> QED BY <1>1, <2>1, <2>2, <2>3 DEF Moves, KeepsNotes
<1>4. ASSUME NEW s \in Services, run' = [run EXCEPT ![u].k = @ + 1, ![u].missed = @ \cup {s}]
      PROVE  Moves(u, run[u].pc, run[u].k + 1) /\ KeepsNotes(u)
  <2> DEFINE r == [run[u] EXCEPT !.k = @ + 1, !.missed = @ \cup {s}]
  <2>1. r \in RunType
    BY <1>1, <1>2 DEF RunType
  <2>2. run' = [run EXCEPT ![u] = r]
    BY <1>1, <1>4 DEF RunType
  <2>3. r.pc = run[u].pc /\ r.k = run[u].k + 1 /\ r.remembered = run[u].remembered
        /\ r.backup = run[u].backup
    BY <1>1 DEF RunType
  <2> HIDE DEF r
  <2> QED BY <1>1, <2>1, <2>2, <2>3 DEF Moves, KeepsNotes
<1> QED BY <1>3, <1>4

\* The step of a run keeps the types when what it leaves is typed and its place
\* and the lock agree.
LEMMA MoverTyped ==
  ASSUME TypeInv, NEW u \in Runs, NEW pc, NEW k, Moves(u, pc, k),
         {code, units}' \subseteq Releases \cup {Partial}, config' \in ConfigType,
         active' \in [Services -> Releases \cup {Partial, Stopped}],
         \/ lock' = lock /\ (pc \in Working <=> run[u].pc \in Working)
         \/ lock = NoRun /\ lock' = u /\ pc \in Working
         \/ lock' = (IF lock = u THEN NoRun ELSE lock) /\ pc \notin Working,
         pc \in Guarded => run'[u].backup \in BackupType
  PROVE  TypeInv'
<1>1. lock' \in Runs \cup {NoRun}
  BY DEF TypeInv, DTypeOK
<1>2. DTypeOK'
  BY <1>1 DEF Moves, DTypeOK
<1>3. HolderInv'
  <2>1. \A v \in Runs : run[v].pc \in Working <=> lock = v
    BY DEF TypeInv, HolderInv
  <2>2. run'[u].pc = pc /\ \A v \in Runs \ {u} : run'[v] = run[v]
    BY DEF Moves
  <2>3. ASSUME NEW v \in Runs PROVE run'[v].pc \in Working <=> lock' = v
    BY <2>1, <2>2, UpdaterAssumption
  <2> QED BY <2>3 DEF HolderInv
<1>4. BackedUp'
  BY DEF Moves, TypeInv, BackedUp
<1> QED BY <1>2, <1>3, <1>4 DEF TypeInv

\* Its holder alone is at work while files or services change.
LEMMA OthersKeep ==
  ASSUME TypeInv, Stages, NEW u \in Runs, NEW pc, NEW k, Moves(u, pc, k),
         lock = u \/ UNCHANGED <<code, units, config, active>>
  PROVE  \A v \in Runs \ {u} : StageOK(v)'
<1> SUFFICES ASSUME NEW v \in Runs \ {u} PROVE StageOK(v)'
  OBVIOUS
<1>1. run'[v] = run[v] /\ StageOK(v)
  BY DEF Moves, Stages
<1>2. CASE lock = u
  <2>1. run[v].pc \notin Working
    BY <1>2 DEF TypeInv, HolderInv
  <2> QED BY <1>1, <2>1 DEF StageOK, Working, Guarded, Down, Prepared, Armed, RollingBack
<1>3. CASE UNCHANGED <<code, units, config, active>>
  <2>1. /\ run'[v] = run[v] /\ code' = code /\ units' = units
        /\ config' = config /\ active' = active
    BY <1>1, <1>3
  <2>2. StageOK(v)' = StageOK(v)
    BY ONLY <2>1, ZenonT(40) DEF StageOK
  <2> QED BY <1>1, <2>2
<1> QED BY <1>2, <1>3

-----------------------------------------------------------------------------
(* The installation as Release sees it *)

\* What Release allows a step to be.
Simulates ==
  SomeCutShort' \/ Installation' = Installation \/ \E r \in Releases : R!Update(r)

\* During an update that can still be undone the installation counts as its backup.
LEMMA GuardedInstallation ==
  ASSUME TypeInv, NEW u \in Runs, run[u].pc \in Guarded
  PROVE  Installation = [code |-> run[u].backup.code, units |-> run[u].backup.units,
                         schema |-> run[u].backup.config.schema]
<1>1. \A v \in Runs : run[v].pc \in Guarded => v = u
  BY DEF TypeInv, HolderInv, Guarded, Working
<1>2. (CHOOSE v \in Runs : run[v].pc \in Guarded) = u
  BY <1>1
<1> QED BY <1>2 DEF Installation, Guarded

\* The same of the state that a step leads to.
LEMMA GuardedInstallationNext ==
  ASSUME TypeInv', NEW u \in Runs, run'[u].pc \in Guarded
  PROVE  Installation' = [code |-> run'[u].backup.code, units |-> run'[u].backup.units,
                          schema |-> run'[u].backup.config.schema]
<1>1. \A v \in Runs : run'[v].pc \in Guarded => v = u
  BY DEF TypeInv, HolderInv, Guarded, Working
<1>2. (CHOOSE v \in Runs : run'[v].pc \in Guarded) = u
  BY <1>1
<1> QED BY <1>2 DEF Installation, Guarded

\* Otherwise the installation counts as what is on the disk.
LEMMA OpenInstallation ==
  ASSUME \A u \in Runs : run[u].pc \notin Guarded
  PROVE  Installation = [code |-> code, units |-> units, schema |-> config.schema]
BY DEF Installation, Guarded

\* As OpenInstallation, of the next state.
LEMMA OpenInstallationNext ==
  ASSUME \A u \in Runs : run'[u].pc \notin Guarded
  PROVE  Installation' = [code |-> code', units |-> units', schema |-> config'.schema]
BY DEF Installation, Guarded

\* A step between two guarded places changes nothing for the outside.
LEMMA GuardedSimulates ==
  ASSUME TypeInv, TypeInv', NEW u \in Runs, NEW pc, NEW k, Moves(u, pc, k), KeepsNotes(u),
         run[u].pc \in Guarded, pc \in Guarded
  PROVE  Simulates
<1>1. run'[u].pc \in Guarded /\ run'[u].backup = run[u].backup
  BY DEF Moves, KeepsNotes
<1> QED BY <1>1, GuardedInstallation, GuardedInstallationNext DEF Simulates

\* Nor does a step between two others that leaves the files alone.
LEMMA OpenSimulates ==
  ASSUME TypeInv, TypeInv', NEW u \in Runs, NEW pc, NEW k, Moves(u, pc, k),
         run[u].pc \notin Guarded, pc \notin Guarded, UNCHANGED disk
  PROVE  Simulates
<1>1. CASE \E v \in Runs : run[v].pc \in Guarded
  <2>1. PICK v \in Runs \ {u} : run[v].pc \in Guarded
    BY <1>1
  <2>2. run'[v] = run[v]
    BY <2>1 DEF Moves
  <2> QED BY <2>1, <2>2, GuardedInstallation, GuardedInstallationNext DEF Simulates
<1>2. CASE \A v \in Runs : run[v].pc \notin Guarded
  <2>1. \A v \in Runs : run'[v].pc \notin Guarded
    BY <1>2 DEF Moves
  <2> QED BY <1>2, <2>1, OpenInstallation, OpenInstallationNext DEF Simulates, disk
<1> QED BY <1>1, <1>2

\* Whoever is cut short stays so, and steps that Release allows keep the
\* installation whole.
LEMMA SimulationKeepsWhole ==
  ASSUME TypeInv, WholeInv, Simulates, NEW u \in Runs, NEW pc, NEW k, Moves(u, pc, k),
         run[u].pc \notin {"broken", "killed"}
  PROVE  WholeInv'
<1>1. SomeCutShort => SomeCutShort'
  BY DEF SomeCutShort, Moves
<1>2. \A r \in Releases : R!Update(r) => Installation' = R!Installed(r)
  BY DEF R!Update
<1>3. \A r \in Releases : R!Installed(r)' = R!Installed(r)
  BY DEF R!Installed
<1> QED BY <1>1, <1>2, <1>3 DEF WholeInv, Simulates

-----------------------------------------------------------------------------
(* The steps *)

\* What a step of the run u has to keep.
StepKeeps(u) == TypeInv' /\ Fits' /\ Stages' /\ Simulates /\ run[u].pc \notin Ended
                /\ \E pc, k : Moves(u, pc, k)

\* The places of a run, and where each group of them lies.
LEMMA Places ==
  /\ Armed \subseteq Guarded /\ RollingBack \subseteq Guarded
  /\ Guarded \subseteq Working /\ Prepared \subseteq Working
  /\ Prepared \cap Guarded = {}
  /\ Working \cap Ended = {} /\ {"preflight", "lock"} \cap (Working \cup Ended) = {}
BY DEF Guarded, Working, Armed, RollingBack, Prepared, Ended

\* A step up to the lock, or one that gives up there, touches nothing.
LEMMA OpenKeeps ==
  ASSUME UpdaterInv, NEW u \in Runs, NEW pc \in {"lock", "remember", "failed"},
         Moves(u, pc, 1), run[u].pc \notin Guarded \cup Ended, UNCHANGED <<disk, active>>,
         \/ lock' = lock /\ pc = "lock" /\ run[u].pc \notin Working
         \/ lock = NoRun /\ lock' = u /\ pc = "remember"
         \/ lock' = (IF lock = u THEN NoRun ELSE lock) /\ pc = "failed"
  PROVE  StepKeeps(u)
<1>0. TypeInv /\ DTypeOK /\ Stages /\ HolderInv
  BY DEF UpdaterInv, TypeInv
<1>1. pc \notin Guarded /\ (pc \in Working <=> pc = "remember")
  BY DEF Guarded, Working, Armed, RollingBack, Prepared
<1>2. TypeInv'
  BY <1>0, <1>1, MoverTyped DEF disk, DTypeOK
<1>3. \A v \in Runs \ {u} : StageOK(v)'
  BY <1>0, OthersKeep DEF disk
<1>4. StageOK(u)'
  BY <1>1 DEF Moves, StageOK, Down, Guarded, Armed, RollingBack, Prepared
<1>5. Fits'
  BY DEF UpdaterInv, Fits, disk
<1>6. Simulates
  BY <1>0, <1>1, <1>2, OpenSimulates
<1> QED BY <1>2, <1>3, <1>4, <1>5, <1>6 DEF StepKeeps, Stages

\* The checks before the lock change nothing.
LEMMA PreflightKeeps ==
  ASSUME UpdaterInv, NEW u \in Runs, Preflight(u)
  PROVE  StepKeeps(u)
<1>1. run[u].pc = "preflight" /\ Moves(u, "lock", 1)
  BY GotoMoves DEF UpdaterInv, TypeInv, Preflight
<1> QED BY <1>1, Places, OpenKeeps DEF Preflight

\* flock lets one update in.
LEMMA TakeLockKeeps ==
  ASSUME UpdaterInv, NEW u \in Runs, TakeLock(u)
  PROVE  StepKeeps(u)
<1>0. DTypeOK /\ run[u].pc = "lock" /\ run[u].pc \notin Guarded \cup Ended
  BY Places DEF UpdaterInv, TypeInv, TakeLock
<1>1. CASE lock = NoRun
  <2>1. lock' = u /\ Goto(u, "remember")
    BY <1>1 DEF TakeLock
  <2>2. Moves(u, "remember", 1)
    BY <1>0, <2>1, GotoMoves DEF Working, Prepared
  <2> QED BY <1>0, <1>1, <2>1, <2>2, OpenKeeps DEF TakeLock
<1>2. CASE lock # NoRun
  <2>1. Goto(u, "failed") /\ lock' = IF lock = u THEN NoRun ELSE lock
    BY <1>2 DEF TakeLock, End
  <2>2. Moves(u, "failed", 1)
    BY <1>0, <2>1, GotoMoves DEF Ended
  <2> QED BY <1>0, <2>1, <2>2, OpenKeeps DEF TakeLock
<1> QED BY <1>1, <1>2

\* A failure before the first change changes nothing.
LEMMA FailEarlyKeeps ==
  ASSUME UpdaterInv, NEW u \in Runs, FailEarly(u)
  PROVE  StepKeeps(u)
<1>0. DTypeOK /\ run[u].pc \notin Guarded \cup Ended
  BY Places DEF UpdaterInv, TypeInv, FailEarly
<1>1. Goto(u, "failed") /\ lock' = IF lock = u THEN NoRun ELSE lock
  BY DEF FailEarly, End
<1>2. Moves(u, "failed", 1)
  BY <1>0, <1>1, GotoMoves DEF Ended
<1> QED BY <1>0, <1>1, <1>2, OpenKeeps DEF FailEarly

\* What is remembered is what runs.
LEMMA RememberKeeps ==
  ASSUME UpdaterInv, NEW u \in Runs, Remember(u)
  PROVE  StepKeeps(u)
<1> DEFINE on == {s \in Services : active[s] # Stopped}
           r == [run[u] EXCEPT !.pc = "backup", !.remembered = on]
<1>0. TypeInv /\ DTypeOK /\ Stages /\ HolderInv /\ run[u] \in RunType
      /\ run[u].pc = "remember" /\ run \in [Runs -> RunType]
  BY DEF UpdaterInv, TypeInv, Remember, DTypeOK
<1>1. r \in RunType /\ run' = [run EXCEPT ![u] = r] /\ r.pc = "backup" /\ r.remembered = on
      /\ r.k = run[u].k
  BY <1>0 DEF RunType, Remember, Working, Prepared
<1> HIDE DEF r
<1>2. Moves(u, "backup", run[u].k) /\ run'[u].remembered = on
  BY <1>0, <1>1 DEF Moves
<1>3. "backup" \in Working /\ "backup" \notin Guarded /\ run[u].pc \in Working
      /\ run[u].pc \notin Guarded
  BY <1>0 DEF Working, Prepared, Guarded, Armed, RollingBack
<1>4. TypeInv'
  BY <1>0, <1>2, <1>3, MoverTyped DEF Remember, disk, DTypeOK
<1>5. \A v \in Runs \ {u} : StageOK(v)'
  BY <1>0, <1>2, OthersKeep DEF Remember, disk
<1>6. StageOK(u)'
  BY <1>0, <1>2, <1>3 DEF Moves, Stages, StageOK, Down, Prepared, Remember
<1>7. Fits'
  BY DEF UpdaterInv, Fits, Remember, disk
<1>8. Simulates
  BY <1>0, <1>2, <1>3, <1>4, OpenSimulates DEF Remember
<1> QED BY <1>2, <1>3, <1>4, <1>5, <1>6, <1>7, <1>8, Places DEF StepKeeps, Stages

\* The backup is taken of what is installed: for the outside nothing changes,
\* and if anything runs the backup is of one release.
LEMMA BackupKeeps ==
  ASSUME UpdaterInv, NEW u \in Runs, CreateBackup(u)
  PROVE  StepKeeps(u)
<1> DEFINE b == [code |-> code, units |-> units, config |-> config]
           r == [run[u] EXCEPT !.pc = "stop", !.backup = b]
<1>0. TypeInv /\ DTypeOK /\ Stages /\ HolderInv /\ run[u] \in RunType /\ StageOK(u)
      /\ run[u].pc = "backup" /\ run \in [Runs -> RunType]
  BY DEF UpdaterInv, TypeInv, CreateBackup, DTypeOK, Stages
<1>1. b \in BackupType
  BY <1>0 DEF DTypeOK, BackupType
<1>2. "stop" \in Guarded /\ "stop" \in Working /\ run[u].pc \in Working /\ run[u].pc \notin Guarded
  BY <1>0 DEF Working, Prepared, Guarded, Armed, RollingBack
<1>3. r \in RunType /\ run' = [run EXCEPT ![u] = r] /\ r.pc = "stop" /\ r.backup = b
      /\ r.remembered = run[u].remembered /\ r.k = run[u].k
  BY <1>0, <1>1, <1>2 DEF RunType, CreateBackup
<1> HIDE DEF r
<1>4. Moves(u, "stop", run[u].k) /\ run'[u].remembered = run[u].remembered /\ run'[u].backup = b
  BY <1>0, <1>3 DEF Moves
<1>5. lock = u
  BY <1>0, <1>2 DEF HolderInv
<1>6. TypeInv'
  BY <1>0, <1>1, <1>2, <1>4, MoverTyped DEF CreateBackup, disk, DTypeOK
<1>7. \A v \in Runs \ {u} : StageOK(v)'
  BY <1>0, <1>4, <1>5, OthersKeep
<1>8. StageOK(u)'
  <2>1. run[u].k = 1 /\ \A s \in run[u].remembered : s \in Services /\ active[s] # Stopped
    BY <1>0 DEF StageOK, Prepared, RunType
  <2>2. run[u].remembered # {} =>
          code \in Releases /\ units = code /\ config.schema = SchemaOf[code]
    BY <2>1 DEF UpdaterInv, Fits
  <2>3. "stop" \notin Prepared /\ "stop" \notin Down
    BY DEF Prepared, Down
  <2> QED BY <1>4, <2>1, <2>2, <2>3 DEF Moves, StageOK
<1>9. Fits'
  BY DEF UpdaterInv, Fits, CreateBackup, disk
<1>10. Simulates
  <2>1. \A v \in Runs : run[v].pc \notin Guarded
    BY <1>0, <1>2, <1>5, Places DEF HolderInv
  <2>2. run'[u].pc \in Guarded
    BY <1>2, <1>4 DEF Moves
  <2> QED BY <1>4, <1>6, <2>1, <2>2, OpenInstallation, GuardedInstallationNext DEF Simulates
<1> QED BY <1>0, <1>4, <1>6, <1>7, <1>8, <1>9, <1>10 DEF StepKeeps, Stages, Ended

\* A step between two guarded places has to look after its own stage and after
\* what runs.
LEMMA GuardedKeeps ==
  ASSUME UpdaterInv, NEW u \in Runs, NEW pc, NEW k, Moves(u, pc, k), KeepsNotes(u),
         run[u].pc \in Guarded, pc \in Guarded, lock' = lock,
         {code, units}' \subseteq Releases \cup {Partial}, config' \in ConfigType,
         active' \in [Services -> Releases \cup {Partial, Stopped}],
         Fits', StageOK(u)'
  PROVE  StepKeeps(u)
<1>0. TypeInv /\ Stages /\ lock = u /\ run[u].backup \in BackupType
  BY Places DEF UpdaterInv, TypeInv, HolderInv, BackedUp
<1>1. TypeInv'
  <2>1. pc \in Working <=> run[u].pc \in Working
    BY Places
  <2>2. run'[u].backup \in BackupType
    BY <1>0 DEF KeepsNotes
  <2> QED BY <1>0, <2>1, <2>2, MoverTyped
<1>2. \A v \in Runs \ {u} : StageOK(v)'
  BY <1>0, OthersKeep
<1>3. Simulates
  BY <1>0, <1>1, GuardedSimulates
<1> QED BY <1>1, <1>2, <1>3, Places DEF StepKeeps, Stages

\* The services are stopped one by one; in the end all are down.
LEMMA StopKeeps ==
  ASSUME UpdaterInv, NEW u \in Runs, StopService(u)
  PROVE  StepKeeps(u)
<1>0. TypeInv /\ DTypeOK /\ StageOK(u) /\ Fits /\ run[u].pc \in {"stop", "rb_stop"}
      /\ run[u] \in RunType
  BY DEF UpdaterInv, TypeInv, StopService, DTypeOK, Stages
<1>1. {"stop", "rb_stop", "migrate", "rb_restore"} \subseteq Guarded
      /\ {"stop", "rb_stop", "migrate", "rb_restore"} \subseteq Working
      /\ {"stop", "rb_stop"} \cap Down = {} /\ Guarded \cap Prepared = {}
  BY Places DEF Guarded, Armed, RollingBack, Down, Prepared, Working
<1>2. run[u].k \in Nat /\ Len(StopOrder) \in Nat
  BY <1>0, OrderTyped DEF RunType
<1>3. CASE run[u].k > Len(StopOrder)
  <2> DEFINE pc == IF At(u, "stop") THEN "migrate" ELSE "rb_restore"
  <2>1. Moves(u, pc, 1) /\ KeepsNotes(u) /\ active' = active
    BY <1>0, <1>1, <1>3, GotoMoves DEF StopService
  <2>2. \A s \in Services : active[s] = Stopped
    BY <1>0, <1>2, <1>3, OrderTyped DEF StageOK
  <2>3. StageOK(u)'
    BY <1>0, <1>1, <2>1, <2>2 DEF Moves, KeepsNotes, StageOK, StopService, disk
  <2>4. Fits'
    BY <1>0, <2>1 DEF Fits, StopService, disk
  <2> HIDE DEF pc
  <2> QED BY <1>0, <1>1, <2>1, <2>3, <2>4, GuardedKeeps DEF StopService, disk, DTypeOK, pc
<1>4. CASE run[u].k <= Len(StopOrder)
  <2> DEFINE s == StopOrder[run[u].k]
  <2>1. /\ active' = [active EXCEPT ![s] = Stopped] /\ run' = [run EXCEPT ![u].k = @ + 1]
        /\ UNCHANGED <<lock, code, units, config>>
    BY <1>2, <1>4 DEF StopService, disk
  <2>2. Moves(u, run[u].pc, run[u].k + 1) /\ KeepsNotes(u)
    BY <1>0, <1>4, <2>1, CountMoves
  <2>3. active' \in [Services -> Releases \cup {Partial, Stopped}]
        /\ \A q \in Services : active'[q] = active[q] \/ active'[q] = Stopped
    BY <1>0, <2>1 DEF DTypeOK
  <2>4. \A j \in 1 .. run[u].k : active'[StopOrder[j]] = Stopped
    <3> SUFFICES ASSUME NEW j \in 1 .. run[u].k PROVE active'[StopOrder[j]] = Stopped
      OBVIOUS
    <3>1. StopOrder[j] \in Services /\ s \in Services
      BY <1>2, <1>4, <1>0, OrderTyped DEF RunType
    <3>2. j = run[u].k \/ j \in 1 .. run[u].k - 1
      BY <1>2
    <3> QED BY <1>0, <2>1, <3>1, <3>2 DEF StageOK, DTypeOK
  <2>5. StageOK(u)'
    BY <1>0, <1>1, <1>2, <2>1, <2>2, <2>4 DEF Moves, KeepsNotes, StageOK
  <2>6. Fits'
    BY <1>0, <2>1, <2>3 DEF Fits
  <2> QED BY <1>0, <1>1, <2>1, <2>2, <2>3, <2>5, <2>6, GuardedKeeps DEF DTypeOK
<1> QED BY <1>2, <1>3, <1>4

\* Files change while all is down: such a step has to look after the files.
LEMMA DownKeeps ==
  ASSUME UpdaterInv, NEW u \in Runs, NEW pc, Goto(u, pc), run[u].pc \in Down,
         pc \in Guarded \ {"stop", "rb_stop"}, UNCHANGED <<lock, active>>,
         {code, units}' \subseteq Releases \cup {Partial}, config' \in ConfigType,
         pc \in {"replace", "replacing", "validate", "units", "installing", "start", "health"}
           => config'.schema = SchemaOf[u],
         pc \in {"validate", "units", "installing", "start", "health"} => code' = u,
         pc \in {"start", "health"} => units' = u,
         pc = "rb_start" =>
           /\ code' = run[u].backup.code /\ units' = run[u].backup.units
           /\ config'.schema = run[u].backup.config.schema
  PROVE  StepKeeps(u)
<1>0. TypeInv /\ DTypeOK /\ StageOK(u)
  BY DEF UpdaterInv, TypeInv, Stages
<1>1. run[u].pc \in Guarded /\ pc \in Working /\ pc \notin Prepared /\ pc # "backup"
  BY Places DEF Down, Guarded, Armed, RollingBack, Prepared
<1>2. Moves(u, pc, 1) /\ KeepsNotes(u)
  BY <1>0, <1>1, GotoMoves
<1>3. \A s \in Services : active[s] = Stopped
  BY <1>0 DEF StageOK
<1>4. Fits'
  BY <1>3 DEF Fits
<1>5. StageOK(u)'
  BY <1>0, <1>1, <1>2, <1>3 DEF Moves, KeepsNotes, StageOK
<1> QED BY <1>0, <1>1, <1>2, <1>4, <1>5, GuardedKeeps DEF DTypeOK

\* Migrating, replacing and restoring files happens while the services are down.
LEMMA FilesKeep ==
  ASSUME UpdaterInv, NEW u \in Runs,
         Migrate(u) \/ Replace(u) \/ ValidateInstalled(u) \/ InstallUnits(u) \/ Restore(u)
  PROVE  StepKeeps(u)
<1>0. DTypeOK /\ StageOK(u) /\ run[u] \in RunType
      /\ (run[u].pc \in Guarded => run[u].backup \in BackupType)
  BY DEF UpdaterInv, TypeInv, DTypeOK, Stages, BackedUp
<1>1. /\ Down \subseteq Guarded
      /\ {"replace", "replacing", "validate", "units", "installing", "start",
          "rb_restoring", "rb_start"} \subseteq Guarded \ {"stop", "rb_stop"}
  BY DEF Down, Guarded, Armed, RollingBack
<1>2. u \in Releases
  BY DEF Releases
<1>3. CASE Migrate(u)
  <2>1. SchemaOf[u] \in {1, 2}
    BY <1>2, UpdaterAssumption
  <2>2. config' \in ConfigType /\ config'.schema = SchemaOf[u]
    BY <1>0, <1>3, <2>1 DEF Migrate, DTypeOK, ConfigType
  <2>3. run[u].pc \in Down
    BY <1>3 DEF Migrate, Down
  <2> QED BY <1>0, <1>1, <1>3, <2>2, <2>3, DownKeeps DEF Migrate, DTypeOK
<1>4. CASE Replace(u)
  <2>1. CASE run[u].pc = "replace"
    <3>1. Goto(u, "replacing") /\ code' = Partial /\ run[u].pc \in Down
      BY <1>4, <2>1 DEF Replace, Down
    <3> QED BY <1>0, <1>1, <1>4, <2>1, <3>1, DownKeeps DEF Replace, DTypeOK, StageOK
  <2>2. CASE run[u].pc = "replacing"
    <3>1. Goto(u, "validate") /\ code' = u /\ run[u].pc \in Down
      BY <1>4, <2>2 DEF Replace, Down
    <3> QED BY <1>0, <1>1, <1>2, <1>4, <2>2, <3>1, DownKeeps DEF Replace, DTypeOK, StageOK
  <2> QED BY <1>4, <2>1, <2>2 DEF Replace
<1>5. CASE ValidateInstalled(u)
  <2>1. run[u].pc = "validate" /\ run[u].pc \in Down
    BY <1>5 DEF ValidateInstalled, Down
  <2> QED BY <1>0, <1>1, <1>5, <2>1, DownKeeps DEF ValidateInstalled, disk, DTypeOK, StageOK
<1>6. CASE InstallUnits(u)
  <2>1. CASE run[u].pc = "units"
    <3>1. Goto(u, "installing") /\ units' = Partial /\ run[u].pc \in Down
      BY <1>6, <2>1 DEF InstallUnits, Down
    <3> QED BY <1>0, <1>1, <1>6, <2>1, <3>1, DownKeeps DEF InstallUnits, DTypeOK, StageOK
  <2>2. CASE run[u].pc = "installing"
    <3>1. Goto(u, "start") /\ units' = u /\ run[u].pc \in Down
      BY <1>6, <2>2 DEF InstallUnits, Down
    <3> QED BY <1>0, <1>1, <1>2, <1>6, <2>2, <3>1, DownKeeps DEF InstallUnits, DTypeOK, StageOK
  <2> QED BY <1>6, <2>1, <2>2 DEF InstallUnits
<1>7. CASE Restore(u)
  <2>1. CASE run[u].pc = "rb_restore"
    <3>1. Goto(u, "rb_restoring") /\ code' = Partial /\ UNCHANGED <<units, config>>
          /\ run[u].pc \in Down
      BY <1>7, <2>1 DEF Restore, Down
    <3> QED BY <1>0, <1>1, <1>7, <2>1, <3>1, DownKeeps DEF Restore, DTypeOK
  <2>2. CASE run[u].pc = "rb_restoring"
    <3> DEFINE b == run[u].backup
    <3>1. /\ Goto(u, "rb_start") /\ run[u].pc \in Down
          /\ code' = b.code /\ units' = b.units /\ config' = b.config
      BY <1>7, <2>2 DEF Restore, Down
    <3>2. {b.code, b.units} \subseteq Releases \cup {Partial} /\ b.config \in ConfigType
      BY <1>0, <1>1, <3>1 DEF BackupType
    <3> QED BY <1>0, <1>1, <1>7, <2>2, <3>1, <3>2, DownKeeps DEF Restore
  <2> QED BY <1>7, <2>1, <2>2 DEF Restore
<1> QED BY <1>3, <1>4, <1>5, <1>6, <1>7

\* What a run ends as: it is open again.
LEMMA EndKeeps ==
  ASSUME UpdaterInv, NEW u \in Runs, NEW pc \in Ended, End(u, pc), run[u].pc \in Working,
         active' = active,
         {code, units}' \subseteq Releases \cup {Partial}, config' \in ConfigType,
         Fits', Simulates
  PROVE  StepKeeps(u)
<1>0. TypeInv /\ DTypeOK /\ Stages /\ lock = u
  BY DEF UpdaterInv, TypeInv, HolderInv
<1>1. Moves(u, pc, 1)
  BY <1>0, GotoMoves DEF End
<1>2. TypeInv'
  BY <1>0, <1>1, Places, MoverTyped DEF End, DTypeOK
<1>3. \A v \in Runs \ {u} : StageOK(v)'
  BY <1>0, <1>1, OthersKeep
<1>4. StageOK(u)'
  BY <1>1 DEF Moves, StageOK, Ended, Prepared, Down, Guarded, Armed, RollingBack
<1> QED BY <1>1, <1>2, <1>3, <1>4, Places DEF StepKeeps, Stages

\* An update that is cut short leaves whatever it leaves.
LEMMA CutShortKeeps ==
  ASSUME UpdaterInv, NEW u \in Runs, RestoreFails(u) \/ Kill(u)
  PROVE  StepKeeps(u)
<1>0. DTypeOK /\ StageOK(u) /\ Fits
      /\ (run[u].pc \in Guarded => run[u].backup \in BackupType)
  BY DEF UpdaterInv, TypeInv, Stages, BackedUp
<1>1. CASE RestoreFails(u)
  <2>1. run[u].pc = "rb_restoring" /\ End(u, "broken") /\ UNCHANGED <<code, active>>
        /\ units' \in {units, Partial}
        /\ config' \in {config, run[u].backup.config, NoConfig}
    BY <1>1 DEF RestoreFails
  <2>2. "rb_restoring" \in Guarded /\ "rb_restoring" \in Working /\ "broken" \in Ended
        /\ "rb_restoring" \in Down
    BY DEF Guarded, RollingBack, Working, Ended, Down
  <2>3. config' \in ConfigType
    BY <1>0, <2>1, <2>2, UpdaterAssumption DEF DTypeOK, BackupType, ConfigType, NoConfig
  <2>4. Fits'
    BY <1>0, <2>1, <2>2 DEF StageOK, Fits
  <2>5. Moves(u, "broken", 1)
    BY <1>0, <2>1, <2>2, GotoMoves DEF End
  <2>6. Simulates
    BY <2>5 DEF Moves, Simulates, SomeCutShort
  <2> QED BY <1>0, <2>1, <2>2, <2>3, <2>4, <2>6, EndKeeps DEF DTypeOK
<1>2. CASE Kill(u)
  <2>1. run[u].pc \in Working /\ End(u, "killed") /\ UNCHANGED <<code, units, config, active>>
        /\ "killed" \in Ended
    BY <1>2 DEF Kill, disk, Ended
  <2>2. Fits'
    BY <1>0, <2>1 DEF Fits
  <2>3. Moves(u, "killed", 1)
    BY <1>0, <2>1, GotoMoves DEF End
  <2>4. Simulates
    BY <2>3 DEF Moves, Simulates, SomeCutShort
  <2> QED BY <1>0, <2>1, <2>2, <2>4, EndKeeps DEF DTypeOK
<1> QED BY <1>1, <1>2

\* What is started is what is installed.  After a rollback that is the backup,
\* which is of one release if there is anything to start.
LEMMA StartKeeps ==
  ASSUME UpdaterInv, NEW u \in Runs, StartService(u) \/ StartIgnored(u)
  PROVE  StepKeeps(u)
<1>0. /\ TypeInv /\ DTypeOK /\ StageOK(u) /\ Fits /\ run[u] \in RunType
      /\ run[u].pc \in {"start", "rb_start"} /\ UNCHANGED <<code, units, config>>
  BY DEF UpdaterInv, TypeInv, DTypeOK, Stages, StartService, StartIgnored, disk
<1>1. /\ {"start", "rb_start", "health"} \subseteq Guarded
      /\ {"start", "rb_start", "health"} \subseteq Working
      /\ {"start", "rb_start", "health"} \cap (Down \cup Prepared \cup {"stop", "rb_stop"}) = {}
  BY DEF Guarded, Armed, RollingBack, Working, Down, Prepared
<1>2. run[u].k \in 1 .. Len(StopOrder) + 1 /\ Len(StopOrder) \in Nat
  BY <1>0, OrderTyped DEF RunType
<1>3. ASSUME run[u].k <= Len(StopOrder), lock' = lock,
             \/ run' = [run EXCEPT ![u].k = @ + 1]
             \/ \E s \in Services : run' = [run EXCEPT ![u].k = @ + 1, ![u].missed = @ \cup {s}],
             \/ active' = active
             \/ \E s \in Services : s \in run[u].remembered /\ active' = [active EXCEPT ![s] = code]
      PROVE  StepKeeps(u)
  <2>1. Moves(u, run[u].pc, run[u].k + 1) /\ KeepsNotes(u)
    BY <1>0, <1>3, CountMoves
  <2>2. active' \in [Services -> Releases \cup {Partial, Stopped}]
        /\ \A s \in Services : \/ active'[s] = active[s]
                               \/ run[u].remembered # {} /\ active'[s] = code
    BY <1>0, <1>3 DEF DTypeOK
  <2>3. run[u].remembered # {} =>
          code \in Releases /\ units = code /\ config.schema = SchemaOf[code]
    <3>1. CASE run[u].pc = "start"
      BY <1>0, <3>1 DEF StageOK, Releases
    <3>2. CASE run[u].pc = "rb_start"
      BY <1>0, <1>1, <3>2 DEF StageOK
    <3> QED BY <1>0, <3>1, <3>2
  <2>4. Fits'
    BY <1>0, <2>2, <2>3 DEF Fits
  <2>5. StageOK(u)'
    BY <1>0, <1>1, <2>1 DEF Moves, KeepsNotes, StageOK, Prepared, Down
  <2> QED BY <1>0, <1>1, <1>3, <2>1, <2>2, <2>4, <2>5, GuardedKeeps DEF DTypeOK
<1>4. CASE StartIgnored(u)
  <2>1. StopOrder[Len(StopOrder) + 1 - run[u].k] \in Services /\ run[u].k <= Len(StopOrder)
    BY <1>2, <1>4, OrderTyped DEF StartIgnored
  <2> QED BY <1>3, <1>4, <2>1 DEF StartIgnored
<1>5. CASE StartService(u) /\ run[u].k <= Len(StopOrder)
  <2>1. StopOrder[Len(StopOrder) + 1 - run[u].k] \in Services
    BY <1>2, <1>5, OrderTyped
  <2>2. lock' = lock /\ run' = [run EXCEPT ![u].k = @ + 1]
    BY <1>2, <1>5 DEF StartService
  <2>3. \/ active' = active
        \/ \E s \in Services : s \in run[u].remembered /\ active' = [active EXCEPT ![s] = code]
    BY <1>2, <1>5, <2>1 DEF StartService
  <2> QED BY <1>3, <1>5, <2>2, <2>3
<1>6. CASE StartService(u) /\ run[u].k > Len(StopOrder) /\ run[u].pc = "start"
  <2>1. Goto(u, "health") /\ UNCHANGED <<lock, active>>
    BY <1>6 DEF StartService
  <2>2. Moves(u, "health", 1) /\ KeepsNotes(u)
    BY <1>0, <1>1, <2>1, GotoMoves
  <2>3. Fits'
    BY <1>0, <2>1 DEF Fits
  <2>4. StageOK(u)'
    BY <1>0, <1>1, <1>6, <2>2 DEF Moves, KeepsNotes, StageOK, Prepared, Down
  <2> QED BY <1>0, <1>1, <1>6, <2>1, <2>2, <2>3, <2>4, GuardedKeeps DEF DTypeOK
<1>7. CASE StartService(u) /\ run[u].k > Len(StopOrder) /\ run[u].pc = "rb_start"
  <2>1. End(u, "rolled_back") /\ active' = active /\ "rolled_back" \in Ended
    BY <1>7 DEF StartService, Ended
  <2>2. Fits'
    BY <1>0, <2>1 DEF Fits
  <2>3. Installation' = Installation
    <3>1. Moves(u, "rolled_back", 1)
      BY <1>0, <2>1, GotoMoves DEF End
    <3>2. \A v \in Runs : run'[v].pc \notin Guarded
      BY <1>0, <1>1, <2>1, <3>1, Places DEF Moves, TypeInv, HolderInv
    <3> QED BY <1>0, <1>1, <1>7, <3>2, GuardedInstallation, OpenInstallationNext DEF StageOK
  <2> QED BY <1>0, <1>1, <2>1, <2>2, <2>3, EndKeeps DEF DTypeOK, Simulates
<1> QED BY <1>0, <1>2, <1>4, <1>5, <1>6, <1>7

\* The update succeeds: code, units and schema are those of its release.
LEMMA HealthInstalls ==
  ASSUME UpdaterInv, NEW u \in Runs, Health(u)
  PROVE  R!Update(u)
<1>0. TypeInv /\ DTypeOK /\ StageOK(u) /\ run[u].pc = "health" /\ End(u, "done")
      /\ UNCHANGED <<code, units, config>>
  BY DEF UpdaterInv, TypeInv, Stages, Health, disk
<1>1. "health" \in Guarded /\ "done" \in Ended
  BY DEF Guarded, Armed, Ended
<1>2. Moves(u, "done", 1)
  BY <1>0, <1>1, GotoMoves DEF End
<1>3. \A v \in Runs : run'[v].pc \notin Guarded
  BY <1>0, <1>1, <1>2, Places DEF Moves, TypeInv, HolderInv
<1> QED BY <1>0, <1>3, OpenInstallationNext DEF StageOK, R!Update, R!Installed

\* The health check ends an update and makes its release the installed one.
LEMMA HealthKeeps ==
  ASSUME UpdaterInv, NEW u \in Runs, Health(u)
  PROVE  StepKeeps(u)
<1>1. /\ run[u].pc \in Working /\ End(u, "done") /\ "done" \in Ended
      /\ UNCHANGED <<code, units, config, active>>
  BY DEF Health, disk, Working, Armed, Ended
<1>2. Fits' /\ DTypeOK
  BY <1>1 DEF UpdaterInv, TypeInv, Fits
<1>3. Simulates
  BY HealthInstalls DEF Simulates, Releases
<1> QED BY <1>1, <1>2, <1>3, EndKeeps DEF DTypeOK

\* The rollback begins by stopping what may have been started.
LEMMA FailKeeps ==
  ASSUME UpdaterInv, NEW u \in Runs, Fail(u)
  PROVE  StepKeeps(u)
<1>0. DTypeOK /\ StageOK(u) /\ Fits /\ Goto(u, "rb_stop") /\ run[u].pc \in Guarded
      /\ UNCHANGED <<lock, code, units, config, active>>
  BY DEF UpdaterInv, TypeInv, Stages, Fail, disk, Guarded, Armed
<1>1. "rb_stop" \in Guarded /\ "rb_stop" \in Working /\ "rb_stop" \notin Down \cup Prepared
  BY DEF Guarded, RollingBack, Working, Down, Prepared
<1>2. Moves(u, "rb_stop", 1) /\ KeepsNotes(u)
  BY <1>0, <1>1, GotoMoves
<1>3. Fits'
  BY <1>0 DEF Fits
<1>4. StageOK(u)'
  BY <1>0, <1>1, <1>2 DEF Moves, KeepsNotes, StageOK
<1> QED BY <1>0, <1>1, <1>2, <1>3, <1>4, GuardedKeeps DEF DTypeOK

\* Every step of an update keeps the invariant.
LEMMA RunKeeps ==
  ASSUME UpdaterInv, NEW u \in Runs, Step(u) \/ Trouble(u)
  PROVE  StepKeeps(u)
<1>1. CASE Preflight(u) \/ TakeLock(u) \/ Remember(u) \/ CreateBackup(u)
  BY <1>1, PreflightKeeps, TakeLockKeeps, RememberKeeps, BackupKeeps
<1>2. CASE StopService(u) \/ Migrate(u) \/ Replace(u) \/ ValidateInstalled(u)
           \/ InstallUnits(u) \/ Restore(u)
  BY <1>2, StopKeeps, FilesKeep
<1>3. CASE StartService(u) \/ StartIgnored(u) \/ Health(u)
  BY <1>3, StartKeeps, HealthKeeps
<1>4. CASE FailEarly(u) \/ Fail(u) \/ RestoreFails(u) \/ Kill(u)
  BY <1>4, FailEarlyKeeps, FailKeeps, CutShortKeeps
<1> QED BY <1>1, <1>2, <1>3, <1>4 DEF Step, Trouble

-----------------------------------------------------------------------------
(* The services meanwhile, and the whole *)

\* An edit leaves the schema alone, and the installation with it.
LEMMA EditKeeps ==
  ASSUME UpdaterInv, Edit
  PROVE  UpdaterInv' /\ Installation' = Installation
<1>0. TypeInv /\ DTypeOK /\ UNCHANGED <<lock, code, units, active, run>>
      /\ config' = [config EXCEPT !.edits = @ + 1] /\ config.edits < MaxEdits
  BY DEF UpdaterInv, TypeInv, Edit
<1>1. config' \in ConfigType /\ config'.schema = config.schema
  <2>1. config \in ConfigType /\ config.edits \in 0 .. MaxEdits
    BY <1>0 DEF DTypeOK, ConfigType
  <2>2. config.edits + 1 \in 0 .. MaxEdits
    BY <1>0, <2>1, UpdaterAssumption
  <2> QED BY <1>0, <2>1, <2>2 DEF ConfigType
<1>2. TypeInv'
  BY <1>0, <1>1 DEF TypeInv, DTypeOK, HolderInv, BackedUp
<1>3. Fits' /\ Stages'
  BY <1>0, <1>1 DEF UpdaterInv, Fits, Stages, StageOK
<1>4. Installation' = Installation
  BY <1>0, <1>1 DEF Installation
<1>5. WholeInv'
  BY <1>0, <1>4 DEF UpdaterInv, WholeInv, SomeCutShort, R!Installed
<1> QED BY <1>2, <1>3, <1>4, <1>5 DEF UpdaterInv

\* Between updates what the operator starts is one release, whole.
LEMMA OperateKeeps ==
  ASSUME UpdaterInv, NEW s \in Services, Operate(s)
  PROVE  UpdaterInv' /\ Installation' = Installation
<1>0. /\ TypeInv /\ DTypeOK /\ HolderInv /\ lock = NoRun /\ ~SomeCutShort
      /\ UNCHANGED <<lock, code, units, config, run>>
      /\ active' = [active EXCEPT ![s] = IF @ = Stopped THEN code ELSE Stopped]
  BY DEF UpdaterInv, TypeInv, Operate, SomeCutShort, disk
<1>1. \A u \in Runs : run[u].pc \notin Working
  BY <1>0, UpdaterAssumption DEF HolderInv
<1>2. code \in Releases /\ units = code /\ config.schema = SchemaOf[code]
  <2>1. PICK r \in Releases : Installation = R!Installed(r)
    BY <1>0 DEF UpdaterInv, WholeInv
  <2>2. \A u \in Runs : run[u].pc \notin Guarded
    BY <1>1, Places
  <2>3. [code |-> code, units |-> units, schema |-> config.schema]
          = [code |-> r, units |-> r, schema |-> SchemaOf[r]]
    BY <2>1, <2>2, OpenInstallation DEF R!Installed
  <2> QED BY <2>3
<1>3. TypeInv'
  BY <1>0 DEF TypeInv, DTypeOK, HolderInv, BackedUp
<1>4. Fits'
  BY <1>0, <1>2 DEF UpdaterInv, Fits, DTypeOK
<1>5. Stages'
  BY <1>0, <1>1 DEF UpdaterInv, Stages, StageOK, Working, Guarded, Down, Prepared, Armed,
                    RollingBack
<1>6. Installation' = Installation
  BY <1>0 DEF Installation
<1>7. WholeInv'
  BY <1>0, <1>6 DEF UpdaterInv, WholeInv, SomeCutShort, R!Installed
<1> QED BY <1>3, <1>4, <1>5, <1>6, <1>7 DEF UpdaterInv

\* The invariant holds of a node that was installed and started.
LEMMA UpdaterStarts == DInit => UpdaterInv
<1> SUFFICES ASSUME DInit PROVE UpdaterInv
  OBVIOUS
<1>1. First \in Releases /\ SchemaOf[First] \in {1, 2}
  BY UpdaterAssumption DEF Releases
<1>2. \A u \in Runs : run[u] = NewRun
  BY DEF DInit
<1>3. NewRun \in RunType
  <2>1. 1 \in 1 .. Len(StopOrder) + 1
    BY OrderTyped
  <2> QED BY <2>1 DEF NewRun, RunType
<1>4. DTypeOK
  BY <1>1, <1>3, UpdaterAssumption DEF DInit, DTypeOK, ConfigType
<1>5. \A u \in Runs : run[u].pc = "preflight"
  <2>1. NewRun.pc = "preflight"
    BY DEF NewRun
  <2> QED BY <1>2, <2>1
<1>6. "preflight" \notin Working \cup Ended
  BY Places
<1>7. TypeInv
  BY <1>4, <1>5, <1>6, Places, UpdaterAssumption DEF TypeInv, HolderInv, BackedUp, DInit
<1>8. Fits
  BY <1>1 DEF DInit, Fits
<1>9. Stages
  BY <1>5, <1>6 DEF Stages, StageOK, Working, Guarded, Down, Prepared, Armed, RollingBack
<1>10. Installation = R!Installed(First)
  BY <1>5, <1>6, Places, OpenInstallation DEF DInit, R!Installed
<1> QED BY <1>1, <1>7, <1>8, <1>9, <1>10 DEF UpdaterInv, WholeInv

\* Every step keeps the invariant and is one of Release, or a stutter.
LEMMA UpdaterSteps ==
  ASSUME UpdaterInv, [DNext]_dvars
  PROVE  UpdaterInv' /\ Simulates
<1>1. ASSUME NEW u \in Runs, Step(u) \/ Trouble(u)
      PROVE  UpdaterInv' /\ Simulates
  <2>1. StepKeeps(u)
    BY <1>1, RunKeeps
  <2>2. PICK pc, k : Moves(u, pc, k)
    BY <2>1 DEF StepKeeps
  <2>3. WholeInv'
    BY <2>1, <2>2, SimulationKeepsWhole DEF StepKeeps, UpdaterInv, Ended
  <2> QED BY <2>1, <2>3 DEF StepKeeps, UpdaterInv
<1>2. CASE Edit
  BY <1>2, EditKeeps DEF Simulates
<1>3. ASSUME NEW s \in Services, Operate(s)
      PROVE  UpdaterInv' /\ Simulates
  BY <1>3, OperateKeeps DEF Simulates
<1>4. CASE UNCHANGED dvars
  <2>1. Installation' = Installation
    BY <1>4 DEF dvars, Installation
  <2> QED BY <1>4, <2>1 DEF dvars, UpdaterInv, TypeInv, DTypeOK, HolderInv, BackedUp, Fits,
                        Stages, StageOK, WholeInv, SomeCutShort, R!Installed, Simulates
<1> QED BY <1>1, <1>2, <1>3, <1>4 DEF DNext

\* The invariant behind the results below: types, the lock's holder, the stage
\* of each update, what fits what, and the release that is whole.
THEOREM UpdaterInductive == DSpec => []UpdaterInv
<1>1. UpdaterInv /\ [DNext]_dvars => UpdaterInv'
  BY UpdaterSteps
<1> QED BY <1>1, UpdaterStarts, PTL DEF DSpec

\* The state keeps its type: installation, services, backups and what each
\* update remembers.
THEOREM UpdaterTyped == DSpec => []DTypeOK
<1>1. UpdaterInv => DTypeOK
  BY DEF UpdaterInv, TypeInv
<1> QED BY <1>1, UpdaterInductive, PTL

\* Two updates never overlap between the lock and their end: flock admits one,
\* and whoever ends releases only its own lock.
THEOREM UpdatesNeverOverlap == DSpec => []OneAtATime
<1>1. UpdaterInv => OneAtATime
  BY DEF UpdaterInv, TypeInv, HolderInv, OneAtATime
<1> QED BY <1>1, UpdaterInductive, PTL

\* No service runs beside code or unit files that are not of the release it was
\* started from, nor with a configuration of a schema that release does not
\* support, whichever command of an update or of its rollback fails.
THEOREM NothingRunsBesideOtherFiles == DSpec => []RunningFitsDisk
<1>1. UpdaterInv => RunningFitsDisk
  BY DEF UpdaterInv, Fits, RunningFitsDisk
<1> QED BY <1>1, UpdaterInductive, PTL

\* The updater implements Release: until an update is cut short, code, units and
\* schema change together to those of one release or not at all.
THEOREM UpdaterImplementsRelease == DSpec => UpdateIsAtomic
<1>1. DInit => R!RInit /\ ~SomeCutShort
  <2> SUFFICES ASSUME DInit PROVE R!RInit /\ ~SomeCutShort
    OBVIOUS
  <2>1. ~SomeCutShort
    BY DEF DInit, NewRun, SomeCutShort
  <2> QED BY <2>1, UpdaterStarts DEF UpdaterInv, WholeInv, R!RInit
<1>2. UpdaterInv /\ [DNext]_dvars
        => [R!CutShort \/ \E r \in Releases : R!Update(r)]_Installation
  BY UpdaterSteps DEF Simulates, R!CutShort
<1>3. UpdaterInv /\ [DNext]_dvars => [\A u \in Runs : Health(u) => R!Update(u)]_dvars
  BY HealthInstalls
<1> QED BY <1>1, <1>2, <1>3, UpdaterInductive, PTL DEF DSpec, UpdateIsAtomic, R!AtomicUpdates
=============================================================================
