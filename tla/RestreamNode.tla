---------------------------- MODULE RestreamNode ----------------------------
(***************************************************************************)
(* The restream manager (app/restream_manager.py, under one gunicorn worker*)
(* with several threads) composed with the restream supervisor it calls    *)
(* over a Unix socket (app/supervisor_client.py).                          *)
(*                                                                         *)
(* Every handler below is decorated with @serialized_config_write: it holds*)
(* CONFIG_STORE's lock from its first to its last step.  start, stop and   *)
(* restart only forward a request; an update, a delete and a field deletion*)
(* load the configuration, have the supervisor stop what they are about to *)
(* change, and save the edited copy when the supervisor answered success.  *)
(* The two processes share the configuration file and no lock: a client    *)
(* that gives up leaves its request running in the supervisor.             *)
(***************************************************************************)
EXTENDS RestreamSupervisor

CONSTANTS
  Threads,      \* manager threads that call the supervisor
  NoThread,
  Faults,       \* what may go wrong, a subset of AllFaults
  UsedOps,      \* the handlers that administrators use, a subset of Ops
  FreshDests    \* TRUE: an administrator only enters destinations never used

AllFaults == {"timeout", "manager_restart", "supervisor_restart", "save"}

Ops == {"start", "stop", "restart", "update_url", "delete_url", "delete_field"}

ASSUME NodeAssumption ==
  /\ UsedOps \subseteq Ops
  /\ <<>> \in DestLists
  /\ Fields \subseteq Nat
  /\ NoThread \notin Threads
  /\ Faults \subseteq AllFaults
  /\ FreshDests \in BOOLEAN

VARIABLES
  configLock,   \* the thread inside CONFIG_STORE.locked()
  call          \* manager threads: the handler they run

managerVars == <<configLock, call>>
nodeVars == <<vars, managerVars>>

NoCall == [pc |-> "idle", op |-> "start", f |-> CHOOSE f \in Fields : TRUE,
           i |-> All, new |-> NoDest, loaded |-> <<>>, conn |-> NoConn]

\* Mutant of Request: a deletion stops only the destination it removes.
RequestStopOne(op) ==
  IF op \in {"start", "stop", "restart"} THEN op ELSE "stop"

\* The supervisor action that a handler requests, and the index it sends.
Request(op) ==
  CASE op \in {"start", "stop", "restart"} -> op
    [] op \in {"update_url", "delete_field"} -> "stop"
    [] op = "delete_url" -> "delete_destination"

Edits == {"update_url", "delete_url", "delete_field"}

CallType ==
  [pc : {"idle", "waiting", "saving"}, op : Ops, f : Fields,
   i : Indices \cup {All}, new : Dests \cup {NoDest},
   loaded : DestLists \cup {<<>>}, conn : Conns \cup {NoConn}]

NodeTypeOK ==
  /\ TypeOK
  /\ configLock \in Threads \cup {NoThread}
  /\ call \in [Threads -> CallType]

-----------------------------------------------------------------------------
(* The handlers *)

\* A destination an administrator enters; "never used" when FreshDests.
Entered(d) ==
  FreshDests => /\ \A s \in Slots : d \notin log[s]
                /\ \A f \in Fields : config[f] # NoField =>
                     \A k \in 1 .. Len(config[f]) : config[f][k] # d

\* The handler's early returns: the field and the index must exist.
Accepts(op, f, i) ==
  CASE op \in {"start", "stop", "restart"} -> TRUE
    [] op \in {"update_url", "delete_url"} ->
         config[f] # NoField /\ i # All /\ i < Len(config[f])
    [] op = "delete_field" -> config[f] # NoField /\ i = All

\* A thread takes CONFIG_STORE's lock, loads the configuration if it will edit
\* it, and sends its request on a new connection.  An update may carry any
\* url: it is validated only by save_config.
Begin(m, op, f, i, new, c) ==
  /\ configLock = NoThread
  /\ call[m].pc = "idle"
  /\ Accepts(op, f, i)
  /\ IF op = "update_url" THEN new = NoDest \/ Entered(new) ELSE new = NoDest
  /\ configLock' = m
  /\ call' = [call EXCEPT ![m] =
       [pc |-> "waiting", op |-> op, f |-> f, i |-> i, new |-> new, conn |-> c,
        loaded |-> IF op \in Edits THEN config[f] ELSE <<>>]]
  /\ Receive(c, Request(op), f, i)

Release(m) ==
  /\ configLock' = NoThread
  /\ call' = [call EXCEPT ![m] = NoCall]

\* Mutant of Reply: an edit is saved whatever the supervisor answered.
ReplyUnheeded(m) ==
  /\ call[m].pc = "waiting"
  /\ At(call[m].conn, "answered")
  /\ IF call[m].op \in Edits
     THEN /\ call' = [call EXCEPT ![m].pc = "saving", ![m].conn = NoConn]
          /\ UNCHANGED configLock
     ELSE Release(m)
  /\ Done(call[m].conn)

\* supervisor_action returns: a refused edit answers 503, start, stop and
\* restart answer what the supervisor said, an accepted edit goes on to save.
Reply(m) ==
  /\ call[m].pc = "waiting"
  /\ At(call[m].conn, "answered")
  /\ IF call[m].op \in Edits /\ req[call[m].conn].ok
     THEN /\ call' = [call EXCEPT ![m].pc = "saving", ![m].conn = NoConn]
          /\ UNCHANGED configLock
     ELSE Release(m)
  /\ Done(call[m].conn)

\* Mutant of ConnectionLost: the end of the connection goes unnoticed.
ConnectionLostUnnoticed(m) == FALSE

\* The supervisor went away under the request: SupervisorUnavailable.
ConnectionLost(m) ==
  /\ call[m].pc = "waiting"
  /\ At(call[m].conn, "idle")
  /\ Release(m)
  /\ UNCHANGED vars

\* Five seconds without an answer: SupervisorUnavailable.  The supervisor's
\* thread is not told.  Nothing in the supervisor takes that long but the waits
\* of a stop, which the others wait for.
TimeOut(m) ==
  /\ "timeout" \in Faults
  /\ call[m].pc = "waiting"
  /\ \E c \in Conns : req[c].pc \in {"term", "kill"}
  /\ Release(m)
  /\ UNCHANGED vars

RemoveAt(list, i) ==
  [k \in 1 .. Len(list) - 1 |-> IF k <= i THEN list[k] ELSE list[k + 1]]

\* The field as the handler leaves it in its copy.
Edited(m) ==
  CASE call[m].op = "update_url" -> [call[m].loaded EXCEPT ![call[m].i + 1] = call[m].new]
    [] call[m].op = "delete_url" -> RemoveAt(call[m].loaded, call[m].i)
    [] call[m].op = "delete_field" -> NoField

\* The copy is one that validate_config accepts.
Valid(m) == call[m].op = "delete_field" \/ Edited(m) \in DestLists

\* save_config validates the copy and replaces the file.
Save(m) ==
  /\ call[m].pc = "saving"
  /\ Valid(m)
  /\ Release(m)
  /\ ReplaceConfig(call[m].f, Edited(m))

\* The copy is refused (400), or writing it fails (500): the file stays.
SaveFails(m) ==
  /\ call[m].pc = "saving"
  /\ "save" \in Faults \/ ~Valid(m)
  /\ Release(m)
  /\ UNCHANGED vars

\* Mutant of AddUrl: the edited copy is not validated.
AddUrlUnchecked(f, d) ==
  /\ configLock = NoThread
  /\ config[f] # NoField
  /\ Entered(d)
  /\ ReplaceConfig(f, Append(config[f], d))
  /\ UNCHANGED managerVars

\* Handlers that do not call the supervisor: one step under the lock.
AddUrl(f, d) ==
  /\ configLock = NoThread
  /\ config[f] # NoField
  /\ Append(config[f], d) \in DestLists
  /\ Entered(d)
  /\ ReplaceConfig(f, Append(config[f], d))
  /\ UNCHANGED managerVars

\* A new field takes the lowest free slot and has no destinations.
CreateField(f) ==
  /\ configLock = NoThread
  /\ config[f] = NoField
  /\ \A g \in Fields : g < f => config[g] # NoField
  /\ ReplaceConfig(f, <<>>)
  /\ UNCHANGED managerVars

-----------------------------------------------------------------------------
(* The processes *)

\* The supervisor and its children, and the end of a request nobody waits for.
SupervisorStep ==
  /\ \/ Serve
     \/ \E c \in Conns : Done(c) /\ \A m \in Threads : call[m].conn # c
  /\ UNCHANGED managerVars

NodeSupervisorRestart ==
  /\ "supervisor_restart" \in Faults
  /\ SupervisorRestart
  /\ UNCHANGED managerVars

\* The manager stops or dies: its handlers are gone, wherever they were.
ManagerRestart ==
  /\ "manager_restart" \in Faults
  /\ configLock' = NoThread
  /\ call' = [m \in Threads |-> NoCall]
  /\ UNCHANGED vars

NodeInit ==
  /\ Init
  /\ configLock = NoThread
  /\ call = [m \in Threads |-> NoCall]

CallStep(m) ==
  Reply(m) \/ ConnectionLost(m) \/ TimeOut(m) \/ Save(m) \/ SaveFails(m)

BeginSome ==
  \E m \in Threads, op \in UsedOps, f \in Fields, i \in Indices \cup {All},
     new \in Dests \cup {NoDest}, c \in Conns : Begin(m, op, f, i, new, c)

NodeNext ==
  \/ SupervisorStep
  \/ BeginSome
  \/ \E m \in Threads : CallStep(m)
  \/ \E f \in Fields, d \in Dests : AddUrl(f, d)
  \/ \E f \in Fields : CreateField(f)
  \/ NodeSupervisorRestart
  \/ ManagerRestart

NodeSpec == NodeInit /\ [][NodeNext]_nodeVars

\* Threads that can run do: in the supervisor (a thread inside its lock, or
\* waiting for a free lock) and in the manager.
NodeFairSpec ==
  /\ NodeSpec
  /\ \A c \in Conns : /\ WF_nodeVars(LockedStep(c) /\ UNCHANGED managerVars)
                      /\ WF_nodeVars(EntryStep(c) /\ UNCHANGED managerVars)
  /\ \A m \in Threads : WF_nodeVars(CallStep(m))

-----------------------------------------------------------------------------
(* How far a request that nobody waits for may overlap with what comes after *)

\* The supervisor is at work on a request: it waits for its lock or has it.
Serving(r) == r.pc \notin {"idle", "answered"}

\* No handler takes the configuration lock, and none edits without it, while the
\* supervisor is at work on a request, whose client then has given it up.  The
\* code does not see to that: its lock ends with the client's patience.
AtRest ==
  configLock = NoThread /\ (configLock' # NoThread \/ config' # config) =>
    \A c \in Conns : ~Serving(req[c])

\* The node when it is so: clients may give up, and their requests are completed
\* before the next handler begins.
RestedNext == NodeNext /\ AtRest
RestedSpec == NodeInit /\ [][RestedNext]_nodeVars

-----------------------------------------------------------------------------
(* What the manager shows of a slot: it reads the supervisor's files and the *)
(* process table, under no lock, and writes nothing.                         *)

\* read_ffmpeg_progress: the file shows output of whichever FFmpeg wrote it.
HasOutput(s) == progress[s] # NoDest

\* The statuses get_process_status may give, whatever the ages of the process
\* and of its progress are.
Statuses(s) ==
  IF pidFile[s] = NoPid \/ ~Alive(pidFile[s]) THEN {"stopped"}
  ELSE {"starting", "error"} \cup (IF HasOutput(s) THEN {"running"} ELSE {})

\* restream_snapshot counts a slot whose process exists, a zombie too.
Counted(s) == Known(s)

\* A start has spawned the slot's FFmpeg and has not yet written its pid file.
JustSpawned(s) == \E c \in Conns : At(c, "spawned") /\ Here(c) = s

\* The slots of the configuration, those the pages and the counts go through.
Configured == {s \in Slots : config[s[1]] # NoField /\ s[2] < Len(config[s[1]])}

-----------------------------------------------------------------------------
(* Properties *)

\* Every running FFmpeg streams to the destination configured at its slot: no
\* restream outlives the entry it was started from, and no edit changes an
\* entry under a running restream.
RunningIsConfigured ==
  \A p \in Pids : Alive(p) =>
    LET f == proc[p].slot[1]
        i == proc[p].slot[2]
    IN  /\ config[f] # NoField
        /\ i < Len(config[f])
        /\ config[f][i + 1] = proc[p].dest

\* The administrator acts on the status shown.  A slot whose FFmpeg streams is
\* never shown stopped and is counted, but for the moment between its spawn and
\* the write of its pid file, when its own start is still at work; one that is
\* shown running streams, with output of its own and not of an earlier run, the
\* destination configured there - unless its pid file is stale and its pid has
\* a new owner.
StatusIsTrue ==
  \A s \in Configured :
    /\ Streaming(s) => \/ "stopped" \notin Statuses(s) /\ Counted(s)
                       \/ JustSpawned(s)
    /\ "running" \in Statuses(s) =>
         LET p == proc[pidFile[s]]
         IN  p.slot = s => p.st = "live" /\ p.dest = config[s[1]][s[2] + 1]

\* "The destination will be stopped and removed" (the dialog of the delete
\* button): no FFmpeg streams to a destination its field no longer has.
RemovedIsStopped ==
  \A p \in Pids : Alive(p) =>
    LET list == config[proc[p].slot[1]]
    IN  list # NoField /\ \E k \in 1 .. Len(list) : list[k] = proc[p].dest

\* When no handler is running, a slot's log holds no output of a destination
\* that is configured at another slot of the field: delete_destination moved
\* every log with its destination.
LogFollowsDestination ==
  configLock = NoThread =>
    \A f \in Fields : config[f] # NoField =>
      \A i, j \in 0 .. Len(config[f]) - 1 :
        i # j => config[f][j + 1] \notin log[<<f, i>>]

\* A stop answered success to its client is one: at that moment none of the
\* destinations it named has a running FFmpeg.
StopIsStopped ==
  [][\A m \in Threads :
       Reply(m) /\ call[m].op = "stop" /\ req[call[m].conn].ok =>
         \A i \in Indices : call[m].i \in {All, i} => ~Streaming(<<call[m].f, i>>)]_nodeVars

\* What a slot streams to, for the abstract service.
StreamOf(s) ==
  IF Streaming(s)
  THEN (CHOOSE r \in {proc[p] : p \in {q \in Pids : Alive(q) /\ proc[q].slot = s}} : TRUE).dest
  ELSE NoDest

S == INSTANCE RestreamService WITH stream <- [s \in Slots |-> StreamOf(s)]

\* The node implements the restream service: seen from outside, start, stop and
\* the edits are atomic, and no entry changes under a running restream.
ImplementsService == S!Service

\* Every handler ends and gives CONFIG_STORE's lock back, so that no FFmpeg,
\* however stuck, blocks the administration of the node for ever.
CallEventuallyEnds == \A m \in Threads : (configLock = m) ~> (configLock # m)
=============================================================================
