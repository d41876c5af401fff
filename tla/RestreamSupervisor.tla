------------------------- MODULE RestreamSupervisor -------------------------
(***************************************************************************)
(* The restream supervisor (app/restream_supervisor.py): the only owner of *)
(* the outgoing FFmpeg processes.  Every request runs in a thread of its   *)
(* own (UnixServer); start, stop and delete_destination hold one re-entrant*)
(* lock from their first read of the configuration to their answer, and    *)
(* restart is a stop followed by a start with the lock free in between.    *)
(*                                                                         *)
(* A slot <<f, i>> is destination i (counted from 0) of field f.  What the *)
(* supervisor knows of a slot is in files: the pid file, the log and the   *)
(* progress file FFmpeg writes.  A destination (url and audio mode) is a   *)
(* model value, and the files are modelled by whose they are: a log by the *)
(* set of destinations that wrote to it, a progress file by the one that   *)
(* wrote it.  An FFmpeg process is "new" from its spawn, "live" once it has*)
(* opened its progress file, and a "zombie" from its exit until the        *)
(* supervisor reaps it.                                                    *)
(***************************************************************************)
EXTENDS Integers, Sequences, FiniteSets

CONSTANTS
  Fields,        \* the fields, 1..16 in the code
  MaxDest,       \* the most destinations a field may have, 32 in the code
  Dests,         \* destinations: a url and an audio mode
  DestLists,     \* the destination lists a configured field may have
  Conns,         \* request threads that can exist at a time
  Pids,          \* process identifiers
  NoField, NoDest, NoPid, NoConn, NoSlot,
  FreshPids,     \* TRUE: no new process gets a pid that some pid file names
  PidWriteFails  \* TRUE: writing the pid file may fail after the spawn

Indices == 0 .. MaxDest - 1
Slots == Fields \X Indices
All == -1        \* url_index None: every destination of the field

ASSUME ConstantsAssumption ==
  /\ Fields # {}
  /\ MaxDest \in Nat \ {0}
  /\ DestLists \subseteq Seq(Dests)
  /\ \A list \in DestLists : Len(list) <= MaxDest
  /\ NoField \notin DestLists
  /\ NoDest \notin Dests
  /\ NoPid \notin Pids
  /\ NoConn \notin Conns
  /\ NoSlot \notin Slots
  /\ FreshPids \in BOOLEAN
  /\ PidWriteFails \in BOOLEAN

VARIABLES
  config,     \* the configuration file: field -> list of destinations
  lock,       \* the thread that holds RestreamSupervisor.lock
  req,        \* the request threads
  pidFile,    \* slot -> the pid its pid file names
  log,        \* slot -> the destinations whose output its log holds
  progress,   \* slot -> the destination that wrote its progress file
  proc        \* pid -> the process the kernel knows under it

files == <<pidFile, log, progress>>
vars == <<config, lock, req, pidFile, log, progress, proc>>

Actions == {"start", "stop", "restart", "delete_destination"}

FreeProc == [st |-> "free", slot |-> NoSlot, dest |-> NoDest]

IdleReq ==
  [pc |-> "idle", act |-> "stop", f |-> CHOOSE f \in Fields : TRUE, i |-> All,
   sel |-> {}, todo |-> {}, snap |-> <<>>, last |-> NoPid, ok |-> FALSE]

\* The program points at which a thread holds the lock.
Holding == {"start", "spawned", "stop", "term", "kill", "delete", "compact"}
\* The program points at which a thread waits for it.
Waiting == {"want_start", "want_stop", "want_delete"}

ReqType ==
  [pc : {"idle", "answered"} \cup Waiting \cup Holding,
   act : Actions, f : Fields, i : Indices \cup {All},
   sel : SUBSET Indices,       \* indices of the current call
   todo : SUBSET Indices,      \* those its loop has still to visit
   snap : DestLists \cup {<<>>},  \* the destinations read at the call's start
   last : Pids \cup {NoPid},   \* the Popen object the loop still refers to
   ok : BOOLEAN]

ProcType ==
  [st : {"free", "new", "live", "zombie"},
   slot : Slots \cup {NoSlot}, dest : Dests \cup {NoDest}]

TypeOK ==
  /\ config \in [Fields -> DestLists \cup {NoField}]
  /\ lock \in Conns \cup {NoConn}
  /\ req \in [Conns -> ReqType]
  /\ pidFile \in [Slots -> Pids \cup {NoPid}]
  /\ log \in [Slots -> SUBSET Dests]
  /\ progress \in [Slots -> Dests \cup {NoDest}]
  /\ proc \in [Pids -> ProcType]

-----------------------------------------------------------------------------
(* Processes, pid files and the selection of indices *)

Exists(p) == proc[p].st # "free"
Alive(p) == proc[p].st \in {"new", "live"}

\* Mutant of Known: exited processes that nobody has reaped are disregarded.
KnownIfAlive(s) == pidFile[s] # NoPid /\ Alive(pidFile[s])

\* process(f, i): the pid file names a process and the process exists.  A
\* zombie does: psutil's is_running() is true of it.
Known(s) == pidFile[s] # NoPid /\ Exists(pidFile[s])

\* Some FFmpeg really streams for slot s.
Streaming(s) == \E p \in Pids : Alive(p) /\ proc[p].slot = s

Least(S) == CHOOSE k \in S : \A j \in S : k <= j

\* selected_indices(f, i): refused when the field or the index is missing.
CanSelect(f, i) == config[f] # NoField /\ (i = All \/ i < Len(config[f]))
Selected(f, i) == IF i = All THEN 0 .. Len(config[f]) - 1 ELSE {i}

\* The slot that thread c visits: its loops run over the indices in order.
Here(c) == <<req[c].f, Least(req[c].todo)>>

At(c, pc) == req[c].pc = pc
Looping(c, pc) == At(c, pc) /\ req[c].todo # {}
Visited(c) == req[c].todo \ {Least(req[c].todo)}

\* Process p was spawned by thread c, which has not yet written its pid file.
Unrecorded(c, p) ==
  At(c, "spawned") /\ req[c].last = p /\ proc[p].slot = Here(c)

Answer(c, ok) ==
  /\ req' = [req EXCEPT ![c] = [IdleReq EXCEPT !.pc = "answered", !.ok = ok]]
  /\ lock' = IF lock = c THEN NoConn ELSE lock

\* The child whose Popen object is dropped is reaped if it has exited.
Reap(processes) ==
  proc' = [p \in Pids |-> IF p \in processes /\ proc[p].st = "zombie"
                          THEN FreeProc ELSE proc[p]]

-----------------------------------------------------------------------------
(* RequestHandler.handle and RestreamSupervisor.handle: a new request *)

Receive(c, act, f, i) ==
  /\ At(c, "idle")
  /\ act = "delete_destination" => i # All
  /\ req' = [req EXCEPT ![c] =
       [IdleReq EXCEPT !.act = act, !.f = f, !.i = i,
          !.pc = CASE act = "start" -> "want_start"
                   [] act = "delete_destination" -> "want_delete"
                   [] OTHER -> "want_stop"]]
  /\ UNCHANGED <<config, lock, files, proc>>

\* The answer is written to the socket, whether or not the client still
\* waits for it, and the thread ends.
Done(c) ==
  /\ At(c, "answered")
  /\ req' = [req EXCEPT ![c] = IdleReq]
  /\ UNCHANGED <<config, lock, files, proc>>

\* A call that cannot select its indices raises ValueError and answers failure.
Refuse(c) ==
  /\ lock = NoConn
  /\ req[c].pc \in Waiting
  /\ ~CanSelect(req[c].f, req[c].i)
  /\ Answer(c, FALSE)
  /\ UNCHANGED <<config, files, proc>>

\* Mutant of Enter: the call does not wait for the lock.
EnterUnlocked(c, from, to) ==
  /\ At(c, from)
  /\ CanSelect(req[c].f, req[c].i)
  /\ lock' = c
  /\ LET sel == Selected(req[c].f, req[c].i)
     IN  req' = [req EXCEPT ![c].pc = to, ![c].sel = sel, ![c].todo = sel,
                            ![c].snap = IF to = "stop" THEN <<>>
                                        ELSE config[req[c].f]]
  /\ UNCHANGED <<config, files, proc>>

\* A call takes the lock and reads the configuration.
Enter(c, from, to) ==
  /\ At(c, from)
  /\ lock = NoConn
  /\ CanSelect(req[c].f, req[c].i)
  /\ lock' = c
  /\ LET sel == Selected(req[c].f, req[c].i)
     IN  req' = [req EXCEPT ![c].pc = to, ![c].sel = sel, ![c].todo = sel,
                            ![c].snap = IF to = "stop" THEN <<>>
                                        ELSE config[req[c].f]]
  /\ UNCHANGED <<config, files, proc>>

-----------------------------------------------------------------------------
(* start *)

EnterStart(c) == Enter(c, "want_start", "start")

StartKnown(c) ==
  /\ Looping(c, "start")
  /\ Known(Here(c))
  /\ req' = [req EXCEPT ![c].todo = Visited(c), ![c].ok = TRUE]
  /\ UNCHANGED <<config, lock, files, proc>>

\* Mutant of PrepareSlot: the progress of the previous run stays.
PrepareLogOnly(s, dest) ==
  /\ log' = [log EXCEPT ![s] = @ \cup {dest}]
  /\ UNCHANGED progress

\* What start does to the slot's files before the spawn: process() unlinks a
\* stale pid file, the stale progress is unlinked, the log gets a header.
PrepareSlot(s, dest) ==
  /\ progress' = [progress EXCEPT ![s] = NoDest]
  /\ log' = [log EXCEPT ![s] = @ \cup {dest}]

\* Popen reaps the children whose Popen objects are gone, and the assignment
\* of the new object drops that of the previous index.
Spawn(s, dest, p) ==
  proc' = [q \in Pids |->
             IF q = p THEN [st |-> "new", slot |-> s, dest |-> dest]
             ELSE IF proc[q].st = "zombie" THEN FreeProc ELSE proc[q]]

\* A process is spawned.  Until StartRecord only the thread knows of it: who
\* reads the files meanwhile, under no lock, finds no pid file.
StartSpawn(c, p) ==
  /\ Looping(c, "start")
  /\ ~Known(Here(c))
  /\ proc[p].st = "free"
  /\ FreshPids => \A s \in Slots \ {Here(c)} : pidFile[s] # p
  /\ LET dest == req[c].snap[Here(c)[2] + 1]
     IN  PrepareSlot(Here(c), dest) /\ Spawn(Here(c), dest, p)
  /\ pidFile' = [pidFile EXCEPT ![Here(c)] = NoPid]
  /\ req' = [req EXCEPT ![c].pc = "spawned", ![c].last = p]
  /\ UNCHANGED <<config, lock>>

\* The spawned process gets its pid file, and the loop goes on.
StartRecord(c) ==
  /\ At(c, "spawned")
  /\ pidFile' = [pidFile EXCEPT ![Here(c)] = req[c].last]
  /\ req' = [req EXCEPT ![c].pc = "start", ![c].todo = Visited(c), ![c].ok = TRUE]
  /\ UNCHANGED <<config, lock, log, progress, proc>>

\* Writing the pid file fails: it is missing or left empty, which process()
\* treats alike, and the call ends with the process running.
RecordFails(c) ==
  /\ PidWriteFails
  /\ At(c, "spawned")
  /\ Reap({req[c].last})
  /\ Answer(c, FALSE)
  /\ UNCHANGED <<config, files>>

\* Opening the log or the spawn itself fails: the rest is not started.
StartFails(c) ==
  /\ Looping(c, "start")
  /\ ~Known(Here(c))
  /\ \/ UNCHANGED log /\ Reap({req[c].last})
     \/ /\ log' = [log EXCEPT ![Here(c)] = @ \cup {req[c].snap[Here(c)[2] + 1]}]
        /\ Reap(Pids)
  /\ progress' = [progress EXCEPT ![Here(c)] = NoDest]
  /\ pidFile' = [pidFile EXCEPT ![Here(c)] = NoPid]
  /\ Answer(c, FALSE)
  /\ UNCHANGED config

\* success: something was started or was already running.
FinishStart(c) ==
  /\ At(c, "start") /\ req[c].todo = {}
  /\ Answer(c, req[c].ok)
  /\ Reap({req[c].last})
  /\ UNCHANGED <<config, files>>

-----------------------------------------------------------------------------
(* stop *)

EnterStop(c) == Enter(c, "want_stop", "stop")

\* process() finds nothing and has unlinked a stale pid file.
StopUnknown(c) ==
  /\ Looping(c, "stop")
  /\ ~Known(Here(c))
  /\ pidFile' = [pidFile EXCEPT ![Here(c)] = NoPid]
  /\ req' = [req EXCEPT ![c].todo = Visited(c)]
  /\ UNCHANGED <<config, lock, log, progress, proc>>

\* Mutant of StopTerminate: the exit is not waited for.
StopWithoutWaiting(c) ==
  /\ Looping(c, "stop")
  /\ Known(Here(c))
  /\ req' = [req EXCEPT ![c].todo = Visited(c)]
  /\ UNCHANGED <<config, lock, files, proc>>

\* SIGTERM: FFmpeg may exit from now on, or not.
StopTerminate(c) ==
  /\ Looping(c, "stop")
  /\ Known(Here(c))
  /\ req' = [req EXCEPT ![c].pc = "term"]
  /\ UNCHANGED <<config, lock, files, proc>>

\* wait() returns: the process is reaped and its files are unlinked.
StopReap(c) ==
  /\ req[c].pc \in {"term", "kill"}
  /\ proc[pidFile[Here(c)]].st = "zombie"
  /\ proc' = [proc EXCEPT ![pidFile[Here(c)]] = FreeProc]
  /\ pidFile' = [pidFile EXCEPT ![Here(c)] = NoPid]
  /\ progress' = [progress EXCEPT ![Here(c)] = NoDest]
  /\ req' = [req EXCEPT ![c].pc = "stop", ![c].todo = Visited(c)]
  /\ UNCHANGED <<config, lock, log>>

\* Ten seconds pass: SIGKILL.
StopKill(c) ==
  /\ At(c, "term")
  /\ Alive(pidFile[Here(c)])
  /\ req' = [req EXCEPT ![c].pc = "kill"]
  /\ UNCHANGED <<config, lock, files, proc>>

\* Mutants of StopGiveUp: the second wait has no timeout; its timeout is
\* taken for an exit.
StopWaitsForever(c) == FALSE
StopAssumesExit(c) ==
  /\ At(c, "kill")
  /\ Alive(pidFile[Here(c)])
  /\ Answer(c, TRUE)
  /\ UNCHANGED <<config, files, proc>>

\* Five more pass: TimeoutExpired leaves the method, the rest is not stopped.
StopGiveUp(c) ==
  /\ At(c, "kill")
  /\ Alive(pidFile[Here(c)])
  /\ Answer(c, FALSE)
  /\ UNCHANGED <<config, files, proc>>

\* The loop is over.  restart releases the lock and goes on with start;
\* delete_destination, which still holds it, goes on with the files of the
\* indices from the deleted one up to the count it read first.
FinishStop(c) ==
  /\ At(c, "stop") /\ req[c].todo = {}
  /\ \/ req[c].act = "stop" /\ Answer(c, TRUE)
     \/ /\ req[c].act = "restart"
        /\ lock' = NoConn
        /\ req' = [req EXCEPT ![c].pc = "want_start", ![c].sel = {}]
     \/ /\ req[c].act = "delete_destination"
        /\ req' = [req EXCEPT ![c].pc = "compact",
                              ![c].todo = req[c].i .. Len(req[c].snap) - 1]
        /\ UNCHANGED lock
  /\ UNCHANGED <<config, files, proc>>

-----------------------------------------------------------------------------
(* delete_destination *)

EnterDelete(c) == Enter(c, "want_delete", "delete")

\* The nested stop(field_id) reads the configuration a second time.
DeleteStop(c) ==
  /\ At(c, "delete")
  /\ IF CanSelect(req[c].f, All)
     THEN /\ LET sel == Selected(req[c].f, All)
             IN  req' = [req EXCEPT ![c].pc = "stop", ![c].sel = sel, ![c].todo = sel]
          /\ UNCHANGED lock
     ELSE Answer(c, FALSE)
  /\ UNCHANGED <<config, files, proc>>

\* Mutant of Compact: the logs stay where they are.
CompactKeepingLogs(c) ==
  /\ Looping(c, "compact")
  /\ req' = [req EXCEPT ![c].todo = Visited(c)]
  /\ UNCHANGED <<config, lock, files, proc>>

\* The deleted destination's log and progress are unlinked, then every later
\* one's is renamed to the index below (os.replace, when it exists).
Compact(c) ==
  /\ Looping(c, "compact")
  /\ LET from == Here(c)
         to == <<from[1], from[2] - 1>>
     IN  IF from[2] = req[c].i
         THEN /\ log' = [log EXCEPT ![from] = {}]
              /\ progress' = [progress EXCEPT ![from] = NoDest]
         ELSE /\ log' = IF log[from] = {} THEN log
                        ELSE [log EXCEPT ![to] = log[from], ![from] = {}]
              /\ progress' = IF progress[from] = NoDest THEN progress
                             ELSE [progress EXCEPT ![to] = progress[from],
                                                   ![from] = NoDest]
  /\ req' = [req EXCEPT ![c].todo = Visited(c)]
  /\ UNCHANGED <<config, lock, pidFile, proc>>

FinishDelete(c) ==
  /\ At(c, "compact") /\ req[c].todo = {}
  /\ Answer(c, TRUE)
  /\ UNCHANGED <<config, files, proc>>

-----------------------------------------------------------------------------
(* FFmpeg, the service manager and the configuration file *)

\* FFmpeg opens its progress file and reports its output there.
Output(p) ==
  /\ proc[p].st = "new"
  /\ proc' = [proc EXCEPT ![p].st = "live"]
  /\ progress' = [progress EXCEPT ![proc[p].slot] = proc[p].dest]
  /\ UNCHANGED <<config, lock, req, pidFile, log>>

\* FFmpeg exits: on a signal, or because its input or output failed.
Exit(p) ==
  /\ Alive(p)
  /\ proc' = [proc EXCEPT ![p].st = "zombie"]
  /\ UNCHANGED <<config, lock, req, files>>

\* The service stops or dies and systemd starts it again.  systemd kills what
\* is left of its control group, the FFmpeg processes; the files survive.
SupervisorRestart ==
  /\ lock' = NoConn
  /\ req' = [c \in Conns |-> IdleReq]
  /\ proc' = [p \in Pids |-> FreeProc]
  /\ UNCHANGED <<config, files>>

\* The manager, which shares no lock with the supervisor, replaces the file.
ReplaceConfig(f, list) ==
  /\ config' = [config EXCEPT ![f] = list]
  /\ UNCHANGED <<lock, req, files, proc>>

-----------------------------------------------------------------------------
Init ==
  /\ config \in [Fields -> DestLists \cup {NoField}]
  /\ lock = NoConn
  /\ req = [c \in Conns |-> IdleReq]
  /\ pidFile = [s \in Slots |-> NoPid]
  /\ log = [s \in Slots |-> {}]
  /\ progress = [s \in Slots |-> NoDest]
  /\ proc = [p \in Pids |-> FreeProc]

\* What the thread that holds the lock does next.
StartStep(c) ==
  \/ StartKnown(c) \/ StartFails(c) \/ FinishStart(c)
  \/ StartRecord(c) \/ RecordFails(c)
  \/ \E p \in Pids : StartSpawn(c, p)

StopStep(c) ==
  \/ StopUnknown(c) \/ StopTerminate(c) \/ StopReap(c)
  \/ StopKill(c) \/ StopGiveUp(c) \/ FinishStop(c)

DeleteStep(c) == DeleteStop(c) \/ Compact(c) \/ FinishDelete(c)

LockedStep(c) == StartStep(c) \/ StopStep(c) \/ DeleteStep(c)

EntryStep(c) == Refuse(c) \/ EnterStart(c) \/ EnterStop(c) \/ EnterDelete(c)

\* All that the supervisor and its children do, whoever their client is.
Serve ==
  \/ \E c \in Conns : LockedStep(c) \/ EntryStep(c)
  \/ \E p \in Pids : Output(p) \/ Exit(p)

Next ==
  \/ Serve
  \/ \E c \in Conns :
       \/ Done(c)
       \/ \E act \in Actions, f \in Fields, i \in Indices \cup {All} :
            Receive(c, act, f, i)
  \/ SupervisorRestart
  \/ \E f \in Fields, list \in DestLists \cup {NoField} : ReplaceConfig(f, list)

Spec == Init /\ [][Next]_vars

\* A running thread is scheduled: Python's threads run until they block, and
\* the waits of stop are bounded by its timeouts.
FairSpec == Spec /\ \A c \in Conns : WF_vars(LockedStep(c))

-----------------------------------------------------------------------------
(* Properties *)

\* The lock: exactly the thread inside start, stop or delete_destination
\* holds it, so their critical sections never overlap.
LockDiscipline ==
  \A c \in Conns : req[c].pc \in Holding <=> lock = c

\* The pid file of a slot names every FFmpeg spawned for the slot, alive or
\* not yet reaped: no process is lost and a slot never has two.  Only between
\* its spawn and the write of its pid file is one known to the thread that
\* spawned it alone, and its slot has no pid file.
Tracked ==
  /\ \A p \in Pids : Exists(p) =>
       pidFile[proc[p].slot] = p \/ \E c \in Conns : Unrecorded(c, p)
  /\ \A c \in Conns : At(c, "spawned") => pidFile[Here(c)] = NoPid

\* stop: a slot the loop has visited has no FFmpeg, and stays without one for
\* as long as the call (or the delete that made it) holds the lock.  What
\* stop and delete_destination answer as stopped is stopped.
VisitedIsSilent ==
  \A c \in Conns :
    req[c].pc \in {"stop", "term", "kill", "compact"} =>
      \A i \in req[c].sel :
        (req[c].pc = "compact" \/ i \notin req[c].todo) => ~Streaming(<<req[c].f, i>>)

\* The shape of requests and processes that the invariants above rest on: a
\* delete names one destination, start visits indices of the list it read and
\* knows the process it just spawned, and a process that exists was spawned for
\* a slot and a destination.
WellFormed ==
  /\ \A c \in Conns :
       /\ req[c].act = "delete_destination" => req[c].i # All
       /\ req[c].pc \in {"start", "spawned"} =>
            req[c].todo \subseteq 0 .. Len(req[c].snap) - 1
       /\ At(c, "spawned") => req[c].todo # {} /\ req[c].last \in Pids
  /\ \A p \in Pids : Exists(p) => proc[p].slot \in Slots /\ proc[p].dest \in Dests

\* Inductive for every value of the constants.
LockInv == TypeOK /\ WellFormed /\ LockDiscipline

\* Inductive when no pid file write fails.
ProcessInv == LockInv /\ Tracked /\ VisitedIsSilent

\* Every call gives the lock back, even when FFmpeg ignores both signals.
LockEventuallyFree ==
  \A c \in Conns : (lock = c) ~> (lock # c)
=============================================================================
