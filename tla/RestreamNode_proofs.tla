------------------------ MODULE RestreamNode_proofs -------------------------
(***************************************************************************)
(* Proofs about the node, for any fields, destinations, threads, requests  *)
(* and pids.  Whatever goes wrong: its types, and what the supervisor      *)
(* guarantees by itself.  As long as pid files can be written and no       *)
(* handler begins while the supervisor is at work on a request that its    *)
(* client gave up - in particular when none does: that what runs is what   *)
(* is configured, that a stop is one, that the status shown is true, and   *)
(* that the node implements RestreamService.  When nothing fails: that     *)
(* logs follow their destinations.                                         *)
(***************************************************************************)
EXTENDS RestreamNode, RestreamSupervisor_proofs

USE DEF All, Indices, Slots

-----------------------------------------------------------------------------
(* The inductive invariant *)

\* Whatever goes wrong: a waiting handler waits on a connection, and an edit
\* has loaded a field that was there.
CallsTyped ==
  /\ configLock \in Threads \cup {NoThread}
  /\ call \in [Threads -> CallType]
  /\ \A m \in Threads : call[m].pc = "waiting" => call[m].conn \in Conns

NodeTyped == LockInv /\ CallsTyped

\* A handler waits for the answer on connection c.
Attended(c) == \E m \in Threads : call[m].pc = "waiting" /\ call[m].conn = c

\* CONFIG_STORE's lock: only its holder runs a handler, and while it is held the
\* supervisor is at work for nobody but a handler that waits.
Exclusive ==
  /\ \A m \in Threads : call[m].pc # "idle" => configLock = m
  /\ \A c \in Conns : Serving(req[c]) => Attended(c) \/ configLock = NoThread

\* What an edit loaded is still what is configured, and it names an entry there.
LoadedInv ==
  \A m \in Threads : call[m].pc # "idle" =>
    /\ call[m].pc = "saving" => call[m].op \in Edits
    /\ call[m].op \in Edits =>
         config[call[m].f] # NoField /\ call[m].loaded = config[call[m].f]
    /\ call[m].op \in {"update_url", "delete_url"} =>
         call[m].i # All /\ call[m].i < Len(call[m].loaded)
    /\ call[m].op = "delete_field" => call[m].i = All

\* The destinations that a call of the supervisor is to stop.
Named(act, i, j) == act = "delete_destination" \/ i \in {All, j}

\* A request that has read the field's list has read what it still is: start
\* runs over it, and stop's selection covers what it was asked to stop.
RequestOK(r, list) ==
  /\ r.pc \in {"want_start", "start", "spawned"} => r.act \in {"start", "restart"}
  /\ r.pc = "want_stop" => r.act \in {"stop", "restart"}
  /\ r.pc \in {"stop", "term", "kill"} => r.act # "start"
  /\ r.pc \in {"want_delete", "delete", "compact"} => r.act = "delete_destination"
  /\ r.pc \in {"start", "spawned"} => list # NoField /\ r.snap = list
  /\ r.pc \in {"stop", "term", "kill", "compact"} =>
       /\ list # NoField
       /\ \A j \in Indices : j < Len(list) /\ Named(r.act, r.i, j) => j \in r.sel

RequestInv == \A c \in Conns : RequestOK(req[c], config[req[c].f])

\* The supervisor serves what the handler asked for.
LinkInv ==
  \A m \in Threads : call[m].pc = "waiting" /\ Serving(req[call[m].conn]) =>
    /\ req[call[m].conn].act = Request(call[m].op)
    /\ req[call[m].conn].f = call[m].f
    /\ req[call[m].conn].i = call[m].i

\* The handlers that go on only when something has been stopped, and the point
\* from which it is.
Stops(op) == op \in Edits \cup {"stop"}
Accepted(m) ==
  \/ call[m].pc = "saving"
  \/ call[m].pc = "waiting" /\ At(call[m].conn, "answered") /\ req[call[m].conn].ok

QuietInv ==
  \A m \in Threads : Stops(call[m].op) /\ Accepted(m) =>
    \A j \in Indices :
      Named(Request(call[m].op), call[m].i, j) => ~Streaming(<<call[m].f, j>>)

\* Every process was spawned for an entry that is still the one configured.
ProcInv ==
  \A p \in Pids : Alive(p) =>
    /\ config[proc[p].slot[1]] # NoField
    /\ proc[p].slot[2] < Len(config[proc[p].slot[1]])
    /\ config[proc[p].slot[1]][proc[p].slot[2] + 1] = proc[p].dest

\* A process that has written nothing yet finds no progress of an earlier one.
FreshInv == \A p \in Pids : proc[p].st = "new" => progress[proc[p].slot] = NoDest

HandlerInv == Exclusive /\ LoadedInv /\ RequestInv /\ LinkInv /\ QuietInv

NodeInv ==
  /\ NodeTyped /\ Tracked /\ VisitedIsSilent
  /\ HandlerInv /\ ProcInv /\ FreshInv

-----------------------------------------------------------------------------
(* Types, whatever goes wrong *)

\* A thread without a handler has a well-typed state.
LEMMA NoCallTyped == NoCall \in CallType /\ NoCall.pc = "idle" /\ NoCall.conn = NoConn
BY ConstantsAssumption DEF NoCall, CallType, Ops

\* What a handler saves is a list that may be configured, or no field.
LEMMA EditedTyped ==
  ASSUME CallsTyped, NEW m \in Threads, Valid(m)
  PROVE  Edited(m) \in DestLists \cup {NoField}
BY DEF Valid, Edited

\* Every handler requests an action of the supervisor.
LEMMA RequestTyped == \A op \in Ops : Request(op) \in Actions
BY DEF Request, Ops, Actions

\* Every step of the node is a step of the supervisor and its surroundings, or
\* leaves them as they are.
LEMMA NodeStepIsNext ==
  ASSUME CallsTyped, [NodeNext]_nodeVars
  PROVE  [Next]_vars
<1>1. CASE SupervisorStep
  BY <1>1 DEF SupervisorStep, Next
<1>2. ASSUME NEW m \in Threads, NEW op \in UsedOps, NEW f \in Fields,
             NEW i \in Indices \cup {All}, NEW new \in Dests \cup {NoDest},
             NEW c \in Conns, Begin(m, op, f, i, new, c)
      PROVE  Next
  <2>1. Request(op) \in Actions /\ Receive(c, Request(op), f, i)
    BY <1>2, RequestTyped, NodeAssumption DEF Begin
  <2>2. QED
    BY <2>1 DEF Next
<1>3. ASSUME NEW m \in Threads, Reply(m) PROVE Next
  <2>1. Done(call[m].conn) /\ call[m].conn \in Conns
    BY <1>3 DEF Reply, CallsTyped
  <2>2. QED
    BY <2>1 DEF Next
<1>4. ASSUME NEW m \in Threads, ConnectionLost(m) \/ TimeOut(m) \/ SaveFails(m)
      PROVE  UNCHANGED vars
  BY <1>4 DEF ConnectionLost, TimeOut, SaveFails
<1>5. ASSUME NEW m \in Threads, Save(m) PROVE Next
  <2>1. ReplaceConfig(call[m].f, Edited(m)) /\ call[m].f \in Fields
    BY <1>5 DEF Save, CallsTyped, CallType
  <2>2. Edited(m) \in DestLists \cup {NoField}
    BY <1>5, EditedTyped DEF Save
  <2>3. QED
    BY <2>1, <2>2 DEF Next
<1>6. ASSUME NEW f \in Fields, NEW d \in Dests, AddUrl(f, d) PROVE Next
  BY <1>6 DEF AddUrl, Next
<1>7. ASSUME NEW f \in Fields, CreateField(f) PROVE Next
  BY <1>7, NodeAssumption DEF CreateField, Next
<1>8. CASE NodeSupervisorRestart
  BY <1>8 DEF NodeSupervisorRestart, Next
<1>9. CASE ManagerRestart \/ UNCHANGED nodeVars
  BY <1>9 DEF ManagerRestart, nodeVars
<1>10. QED
  BY <1>1, <1>2, <1>3, <1>4, <1>5, <1>6, <1>7, <1>8, <1>9 DEF NodeNext, BeginSome, CallStep

\* A handler starts with a call of its type, on a connection.
LEMMA BeginTyped ==
  ASSUME NodeTyped, NEW m \in Threads, NEW op \in UsedOps, NEW f \in Fields,
         NEW i \in Indices \cup {All}, NEW new \in Dests \cup {NoDest},
         NEW c \in Conns, Begin(m, op, f, i, new, c)
  PROVE  CallsTyped'
<1> DEFINE r == [pc |-> "waiting", op |-> op, f |-> f, i |-> i, new |-> new, conn |-> c,
                 loaded |-> IF op \in Edits THEN config[f] ELSE <<>>]
<1>1. configLock' = m /\ call' = [call EXCEPT ![m] = r] /\ Accepts(op, f, i)
  BY DEF Begin
<1>2. config[f] \in DestLists \cup {NoField}
  BY DEF NodeTyped, LockInv, TypeOK
<1>3. op \in Edits => config[f] # NoField
  BY <1>1 DEF Accepts, Edits
<1>4. r \in CallType /\ r.conn \in Conns
  BY <1>2, <1>3, NodeAssumption DEF CallType
<1> HIDE DEF r
<1> QED BY <1>1, <1>4 DEF NodeTyped, CallsTyped

\* Every step keeps the handlers well typed.
LEMMA CallsTypedInductive ==
  ASSUME NodeTyped, [NodeNext]_nodeVars
  PROVE  CallsTyped'
<1>0. call \in [Threads -> CallType] /\ configLock \in Threads \cup {NoThread}
  BY DEF NodeTyped, CallsTyped
<1>1. ASSUME NEW m \in Threads, Release(m) PROVE CallsTyped'
  BY <1>0, <1>1, NoCallTyped DEF Release, CallsTyped, NodeTyped
<1>2. ASSUME NEW m \in Threads, Reply(m) PROVE CallsTyped'
  <2>1. CASE Release(m)
    BY <1>1, <2>1
  <2>2. CASE call' = [call EXCEPT ![m].pc = "saving", ![m].conn = NoConn] /\ UNCHANGED configLock
    <3> DEFINE r == [call[m] EXCEPT !.pc = "saving", !.conn = NoConn]
    <3>1. call' = [call EXCEPT ![m] = r]
      BY <1>0, <2>2
    <3>2. r \in CallType /\ r.pc = "saving"
      BY <1>0 DEF CallType
    <3> HIDE DEF r
    <3> QED BY <1>0, <2>2, <3>1, <3>2 DEF CallsTyped, NodeTyped
  <2> QED BY <1>2, <2>1, <2>2 DEF Reply
<1>3. ASSUME NEW m \in Threads, CallStep(m) PROVE CallsTyped'
  BY <1>1, <1>2, <1>3 DEF CallStep, ConnectionLost, TimeOut, Save, SaveFails
<1>4. CASE ManagerRestart
  BY <1>4, NoCallTyped DEF ManagerRestart, CallsTyped
<1>5. CASE BeginSome
  BY <1>5, BeginTyped DEF BeginSome
<1>6. CASE UNCHANGED managerVars
  BY <1>6 DEF managerVars, NodeTyped, CallsTyped
<1> QED BY <1>3, <1>4, <1>5, <1>6
        DEF NodeNext, SupervisorStep, AddUrl, CreateField, NodeSupervisorRestart, nodeVars

\* Every step of the supervisor keeps its lock and types.
LEMMA LockInvInductive ==
  ASSUME LockInv, [Next]_vars
  PROVE  LockInv'
BY StartPreserves, StopPreserves, DeletePreserves, EntryPreserves, OtherPreserves
   DEF Next, Serve, LockedStep

\* The supervisor's invariants hold when it starts.
LEMMA SupervisorStarts == Init => LockInv /\ Tracked /\ VisitedIsSilent
<1>1. Init => TypeOK
  BY IdleTyped, ConstantsAssumption DEF Init, TypeOK
<1>2. Init => WellFormed /\ LockDiscipline /\ Tracked
  BY ConstantsAssumption
     DEF Init, WellFormed, LockDiscipline, Tracked, IdleReq, FreeProc, Holding, At, Exists
<1>3. Init => VisitedIsSilent
  BY DEF Init, VisitedIsSilent, IdleReq
<1> QED BY <1>1, <1>2, <1>3 DEF LockInv

\* The state of the two processes keeps its type whatever fails, times out or is
\* restarted: in particular, what is saved is a configuration.
THEOREM NodeTypes == NodeSpec => []NodeTypeOK
<1>1. NodeInit => NodeTyped
  BY SupervisorStarts, NoCallTyped DEF NodeInit, NodeTyped, CallsTyped
<1>2. NodeTyped /\ [NodeNext]_nodeVars => NodeTyped'
  BY NodeStepIsNext, CallsTypedInductive, LockInvInductive DEF NodeTyped
<1>3. NodeTyped => NodeTypeOK
  BY DEF NodeTyped, NodeTypeOK, CallsTyped, LockInv
<1> QED BY <1>1, <1>2, <1>3, PTL DEF NodeSpec

\* What is tracked is known by its pid file, or just spawned.
LEMMA StreamsKnown ==
  ASSUME Tracked, NEW s, Streaming(s), ~JustSpawned(s)
  PROVE  "stopped" \notin Statuses(s) /\ Counted(s)
<1>1. PICK p \in Pids : Alive(p) /\ proc[p].slot = s
  BY DEF Streaming
<1>2. pidFile[s] = p /\ Exists(p) /\ p # NoPid
  BY <1>1, ConstantsAssumption DEF Tracked, Unrecorded, JustSpawned, Alive, Exists
<1> QED BY <1>1, <1>2 DEF Statuses, Counted, Known

\* To the supervisor the manager is a client as any other: whatever fails, times out
\* or is restarted, what the supervisor guarantees by itself holds in the node.
THEOREM NodeIsSupervisor == NodeSpec => Spec
<1>1. NodeInit => NodeTyped /\ Init
  BY SupervisorStarts, NoCallTyped DEF NodeInit, NodeTyped, CallsTyped
<1>2. NodeTyped /\ [NodeNext]_nodeVars => NodeTyped'
  BY NodeStepIsNext, CallsTypedInductive, LockInvInductive DEF NodeTyped
<1>3. NodeTyped /\ [NodeNext]_nodeVars => [Next]_vars
  BY NodeStepIsNext DEF NodeTyped
<1> QED BY <1>1, <1>2, <1>3, PTL DEF NodeSpec, Spec

\* In particular, also when clients give up: no FFmpeg is lost or doubled, what a stop
\* has visited stays silent while it holds the lock, and what streams for a slot
\* shows as a stream there and is counted, unless the start that spawned it has
\* not yet written its pid file.
THEOREM StreamsAreShown ==
  ASSUME ~PidWriteFails
  PROVE  NodeSpec => /\ []LockDiscipline /\ []Tracked /\ []VisitedIsSilent
                     /\ [](\A s \in Configured :
                             Streaming(s) => \/ "stopped" \notin Statuses(s) /\ Counted(s)
                                             \/ JustSpawned(s))
<1>1. ASSUME Tracked, NEW s \in Configured, Streaming(s), ~JustSpawned(s)
      PROVE  "stopped" \notin Statuses(s) /\ Counted(s)
  BY <1>1, StreamsKnown
<1>2. Tracked => \A s \in Configured :
                   Streaming(s) => \/ "stopped" \notin Statuses(s) /\ Counted(s)
                                   \/ JustSpawned(s)
  BY <1>1
<1> QED BY <1>2, NodeIsSupervisor, LockSafety, NoProcessIsLost, StoppedIsSilent, PTL

-----------------------------------------------------------------------------
(* What a step of the supervisor does to the request it serves *)

\* All of what a call was to stop is silent.
Stopped(r) ==
  r.act \in {"stop", "delete_destination"} =>
    \A j \in Indices : Named(r.act, r.i, j) => ~Streaming(<<r.f, j>>)

\* One thread goes on with its request, or answers it; nobody else moves.
ThreadEffect(c) ==
  /\ config' = config
  /\ \A d \in Conns : d # c => req'[d] = req[d]
  /\ Serving(req[c])
  /\ \/ /\ Serving(req'[c]) /\ RequestOK(req'[c], config[req[c].f])
        /\ req'[c].act = req[c].act /\ req'[c].f = req[c].f /\ req'[c].i = req[c].i
     \/ req'[c].pc = "answered" /\ (req'[c].ok => Stopped(req[c]))

\* A request that goes on and is still served has the effect allowed.
LEMMA MoveEffect ==
  ASSUME LockInv, NEW c \in Conns, NEW r, req' = [req EXCEPT ![c] = r], config' = config,
         Serving(req[c]), Serving(r), RequestOK(r, config[req[c].f]),
         r.act = req[c].act, r.f = req[c].f, r.i = req[c].i
  PROVE  ThreadEffect(c)
<1>1. req'[c] = r /\ \A d \in Conns : d # c => req'[d] = req[d]
  BY DEF LockInv, TypeOK
<1> QED BY <1>1 DEF ThreadEffect

\* A request that is answered has the effect allowed.
LEMMA AnswerEffect ==
  ASSUME LockInv, NEW c \in Conns, NEW ok \in BOOLEAN, Answer(c, ok), config' = config,
         Serving(req[c]), ok => Stopped(req[c])
  PROVE  ThreadEffect(c)
<1> DEFINE r == [IdleReq EXCEPT !.pc = "answered", !.ok = ok]
<1>1. req' = [req EXCEPT ![c] = r]
  BY DEF Answer
<1>2. r.pc = "answered" /\ (r.ok <=> ok)
  BY DEF IdleReq
<1> HIDE DEF r
<1>3. req'[c] = r /\ \A d \in Conns : d # c => req'[d] = req[d]
  BY <1>1 DEF LockInv, TypeOK
<1> QED BY <1>2, <1>3 DEF ThreadEffect

\* A start's step answers, or goes on with the list it read.
LEMMA StartMoves ==
  ASSUME LockInv, NEW c \in Conns, StartStep(c)
  PROVE  /\ req[c].pc \in {"start", "spawned"} /\ config' = config
         /\ \/ \E ok \in BOOLEAN : Answer(c, ok)
            \/ \E r : /\ req' = [req EXCEPT ![c] = r] /\ r.pc \in {"start", "spawned"}
                       /\ r.act = req[c].act /\ r.f = req[c].f /\ r.i = req[c].i
                       /\ r.snap = req[c].snap
<1>0. req[c] \in ReqType /\ req \in [Conns -> ReqType]
  BY DEF LockInv, TypeOK
<1>1. req[c].pc \in {"start", "spawned"} /\ config' = config
  BY DEF StartStep, StartKnown, StartSpawn, StartRecord, RecordFails, StartFails,
         FinishStart, Looping, At, files
<1> DEFINE GoesOn(r) ==
             /\ req' = [req EXCEPT ![c] = r] /\ r.pc \in {"start", "spawned"}
             /\ r.act = req[c].act /\ r.f = req[c].f /\ r.i = req[c].i
             /\ r.snap = req[c].snap
<1>2. CASE StartKnown(c)
  <2>1. GoesOn([req[c] EXCEPT !.todo = Visited(c), !.ok = TRUE])
    BY <1>0, <1>1, <1>2 DEF StartKnown, Looping, At, ReqType
  <2> QED BY <1>1, <2>1
<1>3. ASSUME NEW p \in Pids, StartSpawn(c, p) PROVE \E r : GoesOn(r)
  <2>1. GoesOn([req[c] EXCEPT !.pc = "spawned", !.last = p])
    BY <1>0, <1>3 DEF StartSpawn, ReqType
  <2> QED BY <2>1
<1>4. CASE StartRecord(c)
  <2>1. GoesOn([req[c] EXCEPT !.pc = "start", !.todo = Visited(c), !.ok = TRUE])
    BY <1>0, <1>4 DEF StartRecord, ReqType
  <2> QED BY <1>1, <2>1
<1>5. CASE RecordFails(c) \/ StartFails(c) \/ FinishStart(c)
  <2>1. Answer(c, FALSE) \/ Answer(c, req[c].ok)
    BY <1>5 DEF RecordFails, StartFails, FinishStart
  <2>2. req[c].ok \in BOOLEAN
    BY <1>0 DEF ReqType
  <2> QED BY <1>1, <2>1, <2>2
<1> QED BY <1>1, <1>2, <1>3, <1>4, <1>5 DEF StartStep

\* A start's step has the effect allowed.
LEMMA StartEffect ==
  ASSUME LockInv, NEW c \in Conns, RequestOK(req[c], config[req[c].f]), StartStep(c)
  PROVE  ThreadEffect(c)
<1>1. req[c].pc \in {"start", "spawned"} /\ config' = config
  BY StartMoves
<1>2. Serving(req[c]) /\ Stopped(req[c])
  BY <1>1 DEF Serving, RequestOK, Stopped
<1>3. ASSUME NEW ok \in BOOLEAN, Answer(c, ok) PROVE ThreadEffect(c)
  BY <1>1, <1>2, <1>3, AnswerEffect
<1>4. ASSUME NEW r, req' = [req EXCEPT ![c] = r], r.pc \in {"start", "spawned"},
             r.act = req[c].act, r.f = req[c].f, r.i = req[c].i, r.snap = req[c].snap
      PROVE  ThreadEffect(c)
  <2>1. RequestOK(r, config[req[c].f]) /\ Serving(r)
    BY <1>1, <1>4 DEF RequestOK, Serving
  <2> QED BY <1>1, <1>2, <1>4, <2>1, MoveEffect
<1> QED BY <1>3, <1>4, StartMoves

\* When stop has visited all it selected, what it was to stop is silent: beyond
\* the configured list nothing ever streams.
LEMMA StoppedAll ==
  ASSUME LockInv, VisitedIsSilent, ProcInv, NEW c \in Conns,
         RequestOK(req[c], config[req[c].f]),
         \/ req[c].pc = "stop" /\ req[c].todo = {}
         \/ req[c].pc = "compact"
  PROVE  \A j \in Indices :
           Named(req[c].act, req[c].i, j) => ~Streaming(<<req[c].f, j>>)
<1> SUFFICES ASSUME NEW j \in Indices, Named(req[c].act, req[c].i, j),
                    Streaming(<<req[c].f, j>>)
             PROVE  FALSE
  OBVIOUS
<1>1. PICK p \in Pids : Alive(p) /\ proc[p].slot = <<req[c].f, j>>
  BY DEF Streaming
<1>2. j < Len(config[req[c].f])
  <2>1. proc[p].slot[2] < Len(config[proc[p].slot[1]])
    BY <1>1 DEF ProcInv
  <2>2. proc[p].slot[1] = req[c].f /\ proc[p].slot[2] = j
    BY <1>1
  <2> QED BY <2>1, <2>2
<1>3. j \in req[c].sel
  BY <1>2 DEF RequestOK
<1> QED BY <1>3 DEF VisitedIsSilent

\* A stop's step has the effect allowed: it answers success when all is stopped.
LEMMA StopEffect ==
  ASSUME LockInv, VisitedIsSilent, ProcInv, NEW c \in Conns,
         RequestOK(req[c], config[req[c].f]), StopStep(c)
  PROVE  ThreadEffect(c)
<1>0. req[c] \in ReqType /\ req \in [Conns -> ReqType]
  BY DEF LockInv, TypeOK
<1>1. req[c].pc \in {"stop", "term", "kill"} /\ config' = config
  BY DEF StopStep, StopUnknown, StopTerminate, StopReap, StopKill, StopGiveUp, FinishStop,
         Looping, At, files
<1>2. Serving(req[c])
  BY <1>1 DEF Serving
<1>3. ASSUME NEW pc \in {"stop", "term", "kill"}, NEW todo,
             req' = [req EXCEPT ![c] = [req[c] EXCEPT !.pc = pc, !.todo = todo]]
      PROVE  ThreadEffect(c)
  <2> DEFINE r == [req[c] EXCEPT !.pc = pc, !.todo = todo]
  <2>1. /\ r.pc = pc /\ r.act = req[c].act /\ r.f = req[c].f /\ r.i = req[c].i
        /\ r.sel = req[c].sel
    BY <1>0 DEF ReqType
  <2> HIDE DEF r
  <2>2. RequestOK(r, config[req[c].f]) /\ Serving(r)
    BY <1>1, <2>1 DEF RequestOK, Serving
  <2>3. req' = [req EXCEPT ![c] = r]
    BY <1>3 DEF r
  <2> QED BY <1>1, <1>2, <2>1, <2>2, <2>3, MoveEffect
<1>4. CASE StopUnknown(c) \/ StopTerminate(c) \/ StopReap(c) \/ StopKill(c)
  <2>1. CASE StopUnknown(c)
    <3>1. req' = [req EXCEPT ![c] = [req[c] EXCEPT !.pc = "stop", !.todo = Visited(c)]]
      BY <1>0, <2>1 DEF StopUnknown, Looping, At, ReqType
    <3> QED BY <1>3, <3>1
  <2>2. CASE StopTerminate(c)
    <3>1. req' = [req EXCEPT ![c] = [req[c] EXCEPT !.pc = "term", !.todo = req[c].todo]]
      BY <1>0, <2>2 DEF StopTerminate, ReqType
    <3> QED BY <1>3, <3>1
  <2>3. CASE StopReap(c)
    <3>1. req' = [req EXCEPT ![c] = [req[c] EXCEPT !.pc = "stop", !.todo = Visited(c)]]
      BY <1>0, <2>3 DEF StopReap
    <3> QED BY <1>3, <3>1
  <2>4. CASE StopKill(c)
    <3>1. req' = [req EXCEPT ![c] = [req[c] EXCEPT !.pc = "kill", !.todo = req[c].todo]]
      BY <1>0, <2>4 DEF StopKill, ReqType
    <3> QED BY <1>3, <3>1
  <2> QED BY <1>4, <2>1, <2>2, <2>3, <2>4
<1>5. CASE StopGiveUp(c)
  BY <1>1, <1>2, <1>5, AnswerEffect DEF StopGiveUp
<1>6. CASE FinishStop(c)
  <2>1. req[c].pc = "stop" /\ req[c].todo = {}
    BY <1>6 DEF FinishStop, At
  <2>2. Stopped(req[c])
    BY <2>1, StoppedAll DEF Stopped
  <2>3. CASE req[c].act = "stop" /\ Answer(c, TRUE)
    BY <1>1, <1>2, <2>2, <2>3, AnswerEffect
  <2>4. CASE req[c].act = "restart" /\ req' = [req EXCEPT ![c].pc = "want_start", ![c].sel = {}]
    <3> DEFINE r == [req[c] EXCEPT !.pc = "want_start", !.sel = {}]
    <3>1. r.pc = "want_start" /\ r.act = req[c].act /\ r.f = req[c].f /\ r.i = req[c].i
      BY <1>0 DEF ReqType
    <3>2. req' = [req EXCEPT ![c] = r]
      BY <1>0, <2>4
    <3> HIDE DEF r
    <3>3. RequestOK(r, config[req[c].f]) /\ Serving(r)
      BY <2>4, <3>1 DEF RequestOK, Serving
    <3> QED BY <1>1, <1>2, <3>1, <3>2, <3>3, MoveEffect
  <2>5. CASE /\ req[c].act = "delete_destination"
             /\ req' = [req EXCEPT ![c].pc = "compact",
                                   ![c].todo = req[c].i .. Len(req[c].snap) - 1]
    <3> DEFINE todo == req[c].i .. Len(req[c].snap) - 1
               r == [req[c] EXCEPT !.pc = "compact", !.todo = todo]
    <3>1. req' = [req EXCEPT ![c] = r]
      BY <1>0, <2>5
    <3> HIDE DEF todo
    <3>2. /\ r.pc = "compact" /\ r.act = req[c].act /\ r.f = req[c].f /\ r.i = req[c].i
          /\ r.sel = req[c].sel
      BY <1>0 DEF ReqType
    <3> HIDE DEF r
    <3>3. RequestOK(r, config[req[c].f]) /\ Serving(r)
      BY <2>1, <2>5, <3>2 DEF RequestOK, Serving
    <3> QED BY <1>1, <1>2, <3>1, <3>2, <3>3, MoveEffect
  <2> QED BY <1>6, <2>3, <2>4, <2>5 DEF FinishStop
<1> QED BY <1>4, <1>5, <1>6 DEF StopStep

\* A deletion's step has the effect allowed.
LEMMA DeleteEffect ==
  ASSUME LockInv, VisitedIsSilent, ProcInv, NEW c \in Conns,
         RequestOK(req[c], config[req[c].f]), DeleteStep(c)
  PROVE  ThreadEffect(c)
<1>0. req[c] \in ReqType /\ req \in [Conns -> ReqType]
  BY DEF LockInv, TypeOK
<1>1. req[c].pc \in {"delete", "compact"} /\ config' = config /\ req[c].act = "delete_destination"
  BY DEF DeleteStep, DeleteStop, Compact, FinishDelete, Looping, At, files, RequestOK
<1>2. Serving(req[c])
  BY <1>1 DEF Serving
<1>3. CASE DeleteStop(c)
  <2>1. CASE Answer(c, FALSE)
    BY <1>1, <1>2, <2>1, AnswerEffect
  <2>2. CASE CanSelect(req[c].f, All)
             /\ req' = [req EXCEPT ![c].pc = "stop", ![c].sel = Selected(req[c].f, All),
                                   ![c].todo = Selected(req[c].f, All)]
    <3> DEFINE sel == Selected(req[c].f, All)
               r == [req[c] EXCEPT !.pc = "stop", !.sel = sel, !.todo = sel]
    <3>0. sel = 0 .. Len(config[req[c].f]) - 1 /\ config[req[c].f] # NoField
      BY <2>2 DEF Selected, CanSelect
    <3>1. req' = [req EXCEPT ![c] = r]
      BY <1>0, <2>2
    <3> HIDE DEF sel
    <3>2. /\ r.pc = "stop" /\ r.act = req[c].act /\ r.f = req[c].f /\ r.i = req[c].i
          /\ r.sel = sel
      BY <1>0 DEF ReqType
    <3> HIDE DEF r
    <3>3. RequestOK(r, config[req[c].f]) /\ Serving(r)
      <4>1. Len(config[req[c].f]) \in Nat
        BY <1>0, <3>0, ConstantsAssumption DEF LockInv, TypeOK, ReqType
      <4>2. \A j \in Indices : j < Len(config[req[c].f]) => j \in sel
        <5> DEFINE n == Len(config[req[c].f])
        <5>1. n \in Nat /\ sel = 0 .. n - 1
          BY <3>0, <4>1
        <5> HIDE DEF n
        <5> SUFFICES ASSUME NEW j \in Indices, j < n PROVE j \in sel
          BY DEF n
        <5>2. j \in Nat
          BY ConstantsAssumption
        <5> QED BY <5>1, <5>2
      <4> QED BY <1>1, <3>0, <3>2, <4>2 DEF RequestOK, Serving
    <3> QED BY <1>1, <1>2, <3>1, <3>2, <3>3, MoveEffect
  <2> QED BY <1>3, <2>1, <2>2 DEF DeleteStop
<1>4. CASE Compact(c)
  <2> DEFINE r == [req[c] EXCEPT !.todo = Visited(c)]
  <2>1. req' = [req EXCEPT ![c] = r] /\ req[c].pc = "compact"
    BY <1>0, <1>4 DEF Compact, Looping, At
  <2>2. /\ r.pc = req[c].pc /\ r.act = req[c].act /\ r.f = req[c].f /\ r.i = req[c].i
        /\ r.sel = req[c].sel
    BY <1>0 DEF ReqType
  <2> HIDE DEF r
  <2>3. RequestOK(r, config[req[c].f]) /\ Serving(r)
    BY <2>1, <2>2 DEF RequestOK, Serving
  <2> QED BY <1>1, <1>2, <2>1, <2>2, <2>3, MoveEffect
<1>5. CASE FinishDelete(c)
  <2>1. Stopped(req[c])
    BY <1>5, StoppedAll DEF FinishDelete, At, Stopped
  <2> QED BY <1>1, <1>2, <1>5, <2>1, AnswerEffect DEF FinishDelete
<1> QED BY <1>3, <1>4, <1>5 DEF DeleteStep

\* Entering the supervisor's lock, or being refused, has the effect allowed.
LEMMA EntryEffect ==
  ASSUME LockInv, NEW c \in Conns, RequestOK(req[c], config[req[c].f]), EntryStep(c)
  PROVE  ThreadEffect(c)
<1>0. req[c] \in ReqType /\ req \in [Conns -> ReqType]
  BY DEF LockInv, TypeOK
<1>1. req[c].pc \in Waiting /\ config' = config
  BY DEF EntryStep, Refuse, EnterStart, EnterStop, EnterDelete, Enter, At, Waiting, files
<1>2. Serving(req[c])
  BY <1>1 DEF Serving, Waiting
<1>3. CASE Refuse(c)
  BY <1>1, <1>2, <1>3, AnswerEffect DEF Refuse
<1>4. ASSUME NEW from, NEW to,
             \/ from = "want_start" /\ to = "start"
             \/ from = "want_stop" /\ to = "stop"
             \/ from = "want_delete" /\ to = "delete",
             Enter(c, from, to)
      PROVE  ThreadEffect(c)
  <2> DEFINE sel == Selected(req[c].f, req[c].i)
             snap == IF to = "stop" THEN <<>> ELSE config[req[c].f]
             r == [req[c] EXCEPT !.pc = to, !.sel = sel, !.todo = sel, !.snap = snap]
  <2>1. req' = [req EXCEPT ![c] = r] /\ req[c].pc = from /\ CanSelect(req[c].f, req[c].i)
    BY <1>0, <1>4 DEF Enter, At
  <2>2. config[req[c].f] # NoField /\ (to = "start" => snap = config[req[c].f])
    BY <2>1 DEF CanSelect
  <2>3. \A j \in Indices : j < Len(config[req[c].f]) /\ req[c].i \in {All, j} => j \in sel
    <3>1. Len(config[req[c].f]) \in Nat
      BY <1>0, <2>2, ConstantsAssumption DEF LockInv, TypeOK, ReqType
    <3> DEFINE n == Len(config[req[c].f])
    <3>2. sel = IF req[c].i = All THEN 0 .. n - 1 ELSE {req[c].i}
      BY DEF Selected
    <3> SUFFICES ASSUME NEW j \in Indices, j < n, req[c].i \in {All, j} PROVE j \in sel
      OBVIOUS
    <3>3. j \in Nat /\ n \in Nat
      BY <3>1, ConstantsAssumption
    <3> HIDE DEF n, sel
    <3> QED BY <3>2, <3>3
  <2> HIDE DEF sel, snap
  <2>4. /\ r.pc = to /\ r.act = req[c].act /\ r.f = req[c].f /\ r.i = req[c].i
        /\ r.sel = sel /\ r.snap = snap
    BY <1>0 DEF ReqType
  <2> HIDE DEF r
  <2>5. RequestOK(r, config[req[c].f]) /\ Serving(r)
    BY <1>4, <2>1, <2>2, <2>3, <2>4 DEF RequestOK, Serving, Named
  <2> QED BY <1>1, <1>2, <2>1, <2>4, <2>5, MoveEffect
<1> QED BY <1>3, <1>4 DEF EntryStep, EnterStart, EnterStop, EnterDelete

\* Every step of the supervisor's threads has the effect allowed.
LEMMA ServiceEffect ==
  ASSUME LockInv, VisitedIsSilent, ProcInv, RequestInv, NEW c \in Conns,
         LockedStep(c) \/ EntryStep(c)
  PROVE  ThreadEffect(c)
BY StartEffect, StopEffect, DeleteEffect, EntryEffect DEF LockedStep, RequestInv

-----------------------------------------------------------------------------
(* Processes: who streams, and to what *)

\* At most one process streams for a slot.
OnePerSlot(pr) ==
  \A p, q \in Pids :
    /\ pr[p].st \in {"new", "live"} /\ pr[q].st \in {"new", "live"}
    /\ pr[p].slot = pr[q].slot
    => p = q

\* Processes that are tracked are at most one a slot.
LEMMA TrackedOnePerSlot ==
  /\ LockDiscipline /\ Tracked => OnePerSlot(proc)
  /\ LockDiscipline' /\ Tracked' => OnePerSlot(proc')
<1>1. ASSUME LockDiscipline, Tracked PROVE OnePerSlot(proc)
  BY <1>1, ConstantsAssumption
     DEF LockDiscipline, Holding, Tracked, Unrecorded, At, Exists, OnePerSlot
<1>2. ASSUME LockDiscipline', Tracked' PROVE OnePerSlot(proc')
  BY <1>2, ConstantsAssumption
     DEF LockDiscipline, Holding, Tracked, Unrecorded, At, Exists, OnePerSlot
<1> QED BY <1>1, <1>2

\* The same processes are alive, for the same slots and destinations.
SameAlive ==
  \A p \in Pids : /\ Alive(p)' <=> Alive(p)
                  /\ Alive(p) => proc'[p].slot = proc[p].slot /\ proc'[p].dest = proc[p].dest

\* No process comes to life, and those that stay keep slot and destination.
NoneSpawned ==
  \A p \in Pids : Alive(p)' => /\ Alive(p)
                               /\ proc'[p].slot = proc[p].slot /\ proc'[p].dest = proc[p].dest

\* Reaping kills nobody.
LEMMA ReapSame ==
  ASSUME NEW gone, Reap(gone)
  PROVE  SameAlive
BY DEF Reap, SameAlive, Alive, FreeProc

\* Of the steps of a thread inside the lock only a spawn changes what streams.
LEMMA LockedSame ==
  ASSUME LockInv, NEW c \in Conns, LockedStep(c)
  PROVE  SameAlive \/ \E p \in Pids : StartSpawn(c, p)
<1>1. CASE StartFails(c) \/ RecordFails(c) \/ FinishStart(c)
  BY <1>1, ReapSame DEF StartFails, RecordFails, FinishStart
<1>2. CASE StopReap(c)
  BY <1>2 DEF StopReap, SameAlive, Alive, FreeProc, LockInv, TypeOK
<1>3. CASE proc' = proc
  BY <1>3 DEF SameAlive, Alive
<1> QED BY <1>1, <1>2, <1>3
        DEF LockedStep, StartStep, StopStep, DeleteStep, StartKnown, StartRecord,
            StopUnknown, StopTerminate, StopKill, StopGiveUp, FinishStop, DeleteStop,
            Compact, FinishDelete, files

\* A spawn adds one process, to a slot that was silent, for the destination
\* configured there.
LEMMA SpawnEffect ==
  ASSUME LockInv, Tracked, NEW c \in Conns, RequestOK(req[c], config[req[c].f]),
         NEW p \in Pids, StartSpawn(c, p)
  PROVE  /\ config' = config
         /\ Here(c) \in Slots /\ config[Here(c)[1]] # NoField
         /\ Here(c)[2] < Len(config[Here(c)[1]])
         /\ ~Streaming(Here(c))
         /\ progress' = [progress EXCEPT ![Here(c)] = NoDest]
         /\ proc'[p] = [st |-> "new", slot |-> Here(c),
                        dest |-> config[Here(c)[1]][Here(c)[2] + 1]]
         /\ ~Alive(p)
         /\ \A q \in Pids \ {p} :
              proc'[q] = IF proc[q].st = "zombie" THEN FreeProc ELSE proc[q]
<1>1. Looping(c, "start") /\ ~Known(Here(c)) /\ proc[p].st = "free" /\ config' = config
  BY DEF StartSpawn
<1>2. Here(c) \in Slots /\ Here(c)[2] \in 0 .. Len(req[c].snap) - 1 /\ Here(c)[1] = req[c].f
  BY <1>1, StartTyped DEF Here
<1>3. req[c].snap = config[req[c].f] /\ config[req[c].f] # NoField
  BY <1>1 DEF Looping, At, RequestOK
<1>4. ~Streaming(Here(c))
  BY <1>1, <1>2, UnknownIsEmpty DEF Streaming, Alive, Exists, Looping, At, Holding
<1>5. /\ progress' = [progress EXCEPT ![Here(c)] = NoDest]
      /\ Spawn(Here(c), req[c].snap[Here(c)[2] + 1], p)
  BY DEF StartSpawn, PrepareSlot
<1>6. Len(req[c].snap) \in Nat
  <2>1. req[c] \in ReqType
    BY DEF LockInv, TypeOK
  <2> QED BY <2>1, ConstantsAssumption DEF ReqType
<1> QED BY <1>1, <1>2, <1>3, <1>4, <1>5, <1>6 DEF Spawn, Alive

-----------------------------------------------------------------------------
(* The handlers' invariants *)

\* Where nothing streams and nothing is spawned, nothing streams.
LEMMA StillQuiet ==
  ASSUME NoneSpawned, NEW s, ~Streaming(s)
  PROVE  ~Streaming(s)'
BY DEF NoneSpawned, Streaming

\* Where the same processes are alive, none has been spawned.
LEMMA SameNone ==
  ASSUME SameAlive
  PROVE  NoneSpawned
BY DEF SameAlive, NoneSpawned

\* The supervisor is at work for nobody.
NobodyServed == \A c \in Conns : ~Serving(req[c])

\* Under the free lock no handler runs.
LEMMA NobodyRuns ==
  ASSUME Exclusive, configLock = NoThread
  PROVE  \A n \in Threads : call[n].pc = "idle"
BY NodeAssumption DEF Exclusive

\* The lock of a handler that does not wait keeps every request out.
LEMMA NobodyWaits ==
  ASSUME Exclusive, NEW m \in Threads, call[m].pc = "saving"
  PROVE  /\ \A n \in Threads : n # m => call[n].pc = "idle"
         /\ NobodyServed
<1>1. configLock = m /\ configLock # NoThread
  BY NodeAssumption DEF Exclusive
<1>2. \A n \in Threads : n # m => call[n].pc = "idle"
  BY <1>1 DEF Exclusive
<1>3. \A c \in Conns : ~Attended(c)
  BY <1>2 DEF Attended
<1> QED BY <1>1, <1>2, <1>3 DEF Exclusive, NobodyServed

\* A handler that waits keeps every other request out.
LEMMA OthersWait ==
  ASSUME Exclusive, NEW m \in Threads, call[m].pc = "waiting"
  PROVE  /\ configLock = m /\ configLock # NoThread
         /\ \A n \in Threads : n # m => call[n].pc = "idle"
         /\ \A c \in Conns : c # call[m].conn => ~Serving(req[c])
<1>1. configLock = m /\ configLock # NoThread
  BY NodeAssumption DEF Exclusive
<1>2. \A n \in Threads : n # m => call[n].pc = "idle"
  BY <1>1 DEF Exclusive
<1>3. \A c \in Conns : c # call[m].conn => ~Attended(c)
  BY <1>2 DEF Attended
<1> QED BY <1>1, <1>2, <1>3 DEF Exclusive

\* A request that is not served is nothing the invariants speak of.
LEMMA NotServedOK ==
  ASSUME NEW r, ~Serving(r), NEW list
  PROVE  RequestOK(r, list)
BY DEF Serving, RequestOK

\* Where nobody is served there are no requests to speak of.
LEMMA NobodyServedOK ==
  /\ NobodyServed => RequestInv
  /\ NobodyServed' => RequestInv'
<1>1. NobodyServed => RequestInv
  BY NotServedOK DEF NobodyServed, RequestInv
<1>2. NobodyServed' => RequestInv'
  BY NotServedOK DEF NobodyServed, RequestInv
<1> QED BY <1>1, <1>2

\* The supervisor goes on with a request.
LEMMA ThreadHandlers ==
  ASSUME NodeTyped, HandlerInv, NEW c \in Conns, ThreadEffect(c), UNCHANGED managerVars,
         NoneSpawned \/ req[c].act \in {"start", "restart"}
  PROVE  HandlerInv'
<1>0. configLock' = configLock /\ call' = call /\ config' = config
  BY DEF managerVars, ThreadEffect
<1>1. \A d \in Conns : d # c => req'[d] = req[d]
  BY DEF ThreadEffect
<1>2. LoadedInv'
  BY <1>0 DEF HandlerInv, LoadedInv
<1>3. RequestInv'
  <2>1. RequestOK(req'[c], config[req'[c].f])
    <3>1. CASE req'[c].pc = "answered"
      BY <3>1 DEF RequestOK
    <3>2. CASE Serving(req'[c])
      BY <3>2 DEF ThreadEffect, Serving
    <3> QED BY <3>1, <3>2 DEF ThreadEffect
  <2> QED BY <1>0, <1>1, <2>1 DEF HandlerInv, RequestInv
<1>4. Exclusive'
  <2>1. \A d \in Conns : Serving(req'[d]) => Serving(req[d])
    BY <1>1 DEF ThreadEffect
  <2>2. \A d \in Conns : Attended(d)' <=> Attended(d)
    BY <1>0 DEF Attended
  <2> QED BY <1>0, <2>1, <2>2 DEF HandlerInv, Exclusive
<1>5. CASE configLock = NoThread
  <2>1. \A n \in Threads : call'[n].pc = "idle"
    BY <1>0, <1>5, NobodyRuns DEF HandlerInv
  <2>2. LinkInv' /\ QuietInv'
    BY <2>1 DEF LinkInv, QuietInv, Accepted
  <2> QED BY <1>2, <1>3, <1>4, <2>2 DEF HandlerInv
<1>6. CASE configLock # NoThread
  <2>1. PICK m \in Threads : call[m].pc = "waiting" /\ call[m].conn = c
    BY <1>6 DEF HandlerInv, Exclusive, ThreadEffect, Attended
  <2>2. \A n \in Threads : call[n].pc # "idle" => n = m
    BY <2>1 DEF HandlerInv, Exclusive
  <2>3. /\ req[c].act = Request(call[m].op) /\ req[c].f = call[m].f /\ req[c].i = call[m].i
        /\ Serving(req[c])
    BY <2>1 DEF HandlerInv, LinkInv, ThreadEffect
  <2>4. LinkInv'
    <3>1. Serving(req'[c]) => req'[c].act = req[c].act /\ req'[c].f = req[c].f /\ req'[c].i = req[c].i
      BY DEF ThreadEffect, Serving
    <3> QED BY <1>0, <2>1, <2>2, <2>3, <3>1 DEF LinkInv
  <2>5. QuietInv'
    <3> SUFFICES ASSUME NEW n \in Threads, Stops(call[n].op), Accepted(n)',
                        NEW j \in Indices, Named(Request(call[n].op), call[n].i, j)
                 PROVE  ~Streaming(<<call[n].f, j>>)'
      BY <1>0 DEF QuietInv
    <3>1. n = m
      BY <1>0, <2>2 DEF Accepted
    <3>2. req'[c].pc = "answered" /\ req'[c].ok
      BY <1>0, <2>1, <3>1 DEF Accepted, At
    <3>3. Stopped(req[c])
      BY <3>2 DEF ThreadEffect, Serving
    <3>4. Request(call[m].op) \in {"stop", "delete_destination"}
      BY <3>1 DEF Stops, Edits, Request
    <3>5. ~Streaming(<<call[n].f, j>>)
      BY <2>3, <3>1, <3>3, <3>4 DEF Stopped
    <3>6. NoneSpawned
      BY <2>3, <3>1, <3>4
    <3> QED BY <1>0, <3>5, <3>6 DEF NoneSpawned, Streaming
  <2> QED BY <1>2, <1>3, <1>4, <2>4, <2>5 DEF HandlerInv
<1> QED BY <1>5, <1>6

\* FFmpeg writes or exits, the supervisor restarts, or it has answered a request
\* nobody waits for: what was quiet stays so.
LEMMA ProcessHandlers ==
  ASSUME HandlerInv, NoneSpawned, config' = config, UNCHANGED managerVars,
         \/ req' = req
         \/ \A c \in Conns : req'[c].pc = "idle"
         \/ \E c \in Conns : Done(c) /\ ~Attended(c),
         CallsTyped, LockInv
  PROVE  HandlerInv'
<1>0. configLock' = configLock /\ call' = call
  BY DEF managerVars
<1>1. \A c \in Conns :
        \/ req'[c] = req[c]
        \/ req'[c].pc = "idle" /\ (~Attended(c) \/ \A d \in Conns : req'[d].pc = "idle")
  <2>1. ASSUME NEW c \in Conns, Done(c) PROVE req'[c].pc = "idle" /\ \A d \in Conns : d # c => req'[d] = req[d]
    BY <2>1 DEF Done, IdleReq, LockInv, TypeOK
  <2> QED BY <2>1
<1>2. Exclusive' /\ LoadedInv'
  <2>1. \A c \in Conns : /\ Serving(req'[c]) => Serving(req[c])
                         /\ Attended(c)' <=> Attended(c)
    BY <1>0, <1>1 DEF Serving, Attended
  <2> QED BY <1>0, <2>1 DEF HandlerInv, Exclusive, LoadedInv
<1>3. RequestInv' /\ LinkInv'
  <2>1. RequestInv'
    BY <1>1, NotServedOK DEF HandlerInv, RequestInv, Serving
  <2>2. LinkInv'
    <3> SUFFICES ASSUME NEW m \in Threads, call[m].pc = "waiting", Serving(req'[call[m].conn])
                 PROVE  /\ req'[call[m].conn].act = Request(call[m].op)
                        /\ req'[call[m].conn].f = call[m].f
                        /\ req'[call[m].conn].i = call[m].i
      BY <1>0 DEF LinkInv
    <3>1. call[m].conn \in Conns /\ req'[call[m].conn].pc # "idle"
      BY DEF CallsTyped, Serving
    <3>2. req'[call[m].conn] = req[call[m].conn]
      BY <1>1, <3>1
    <3> QED BY <3>2 DEF HandlerInv, LinkInv
  <2> QED BY <2>1, <2>2
<1>4. QuietInv'
  <2> SUFFICES ASSUME NEW n \in Threads, Stops(call[n].op), Accepted(n)',
                      NEW j \in Indices, Named(Request(call[n].op), call[n].i, j)
               PROVE  ~Streaming(<<call[n].f, j>>)'
    BY <1>0 DEF QuietInv
  <2>1. Accepted(n)
    <3>1. CASE call[n].pc = "saving"
      BY <3>1 DEF Accepted
    <3>2. CASE call[n].pc = "waiting" /\ req'[call[n].conn].pc = "answered" /\ req'[call[n].conn].ok
      <4>1. call[n].conn \in Conns /\ req'[call[n].conn].pc # "idle"
        BY <3>2 DEF CallsTyped
      <4>2. req'[call[n].conn] = req[call[n].conn]
        BY <1>1, <4>1
      <4> QED BY <3>2, <4>2 DEF Accepted, At
    <3> QED BY <1>0, <3>1, <3>2 DEF Accepted, At
  <2>2. ~Streaming(<<call[n].f, j>>)
    BY <2>1 DEF HandlerInv, QuietInv
  <2> QED BY <1>0, <2>2 DEF NoneSpawned, Streaming
<1> QED BY <1>2, <1>3, <1>4 DEF HandlerInv

\* A handler takes the lock and sends its request.
LEMMA BeginHandlers ==
  ASSUME NodeTyped, HandlerInv, NEW m \in Threads, NEW op \in UsedOps, NEW f \in Fields,
         NEW i \in Indices \cup {All}, NEW new \in Dests \cup {NoDest},
         NEW c \in Conns, Begin(m, op, f, i, new, c), NobodyServed
  PROVE  HandlerInv'
<1> DEFINE r == [pc |-> "waiting", op |-> op, f |-> f, i |-> i, new |-> new, conn |-> c,
                 loaded |-> IF op \in Edits THEN config[f] ELSE <<>>]
           act == Request(op)
           pc == CASE act = "start" -> "want_start"
                   [] act = "delete_destination" -> "want_delete"
                   [] OTHER -> "want_stop"
           q == [IdleReq EXCEPT !.act = act, !.f = f, !.i = i, !.pc = pc]
<1>0. /\ configLock = NoThread /\ configLock' = m /\ Accepts(op, f, i)
      /\ call' = [call EXCEPT ![m] = r] /\ config' = config
  BY DEF Begin, Receive
<1>1. req' = [req EXCEPT ![c] = q]
  BY DEF Begin, Receive
<1>2. \A n \in Threads : call[n].pc = "idle"
  BY <1>0, NobodyRuns DEF HandlerInv
<1>3. act \in Actions
  BY RequestTyped, NodeAssumption
<1>4. /\ q.pc = pc /\ q.act = act /\ q.f = f /\ q.i = i
      /\ pc \in Waiting /\ (pc = "want_start" <=> act = "start")
      /\ (pc = "want_delete" <=> act = "delete_destination")
  <2>1. /\ pc \in Waiting /\ (pc = "want_start" <=> act = "start")
        /\ (pc = "want_delete" <=> act = "delete_destination")
    BY DEF Waiting
  <2> HIDE DEF pc, act
  <2> QED BY <2>1 DEF IdleReq
<1>5. /\ r.pc = "waiting" /\ r.op = op /\ r.f = f /\ r.i = i /\ r.conn = c
      /\ op \in Edits => r.loaded = config[f]
  OBVIOUS
<1>6. act = Request(op)
  OBVIOUS
<1> HIDE DEF r, q, pc, act
<1>7. /\ call'[m] = r /\ \A n \in Threads : n # m => call'[n].pc = "idle"
      /\ req'[c] = q /\ \A d \in Conns : d # c => ~Serving(req'[d])
  BY <1>0, <1>1, <1>2 DEF NodeTyped, CallsTyped, LockInv, TypeOK, NobodyServed
<1>8. Exclusive'
  <2>1. Attended(c)'
    BY <1>5, <1>7 DEF Attended
  <2> QED BY <1>0, <1>7, <2>1 DEF Exclusive
<1>9. LoadedInv'
  <2>1. op \in Edits => config[f] # NoField
    BY <1>0 DEF Accepts, Edits
  <2>2. op \in {"update_url", "delete_url"} => i # All /\ i < Len(config[f]) /\ op \in Edits
    BY <1>0 DEF Accepts, Edits
  <2>3. op = "delete_field" => i = All
    BY <1>0 DEF Accepts
  <2> QED BY <1>0, <1>5, <1>7, <2>1, <2>2, <2>3 DEF LoadedInv
<1>10. RequestInv'
  <2>1. RequestOK(q, config[q.f])
    BY <1>3, <1>4 DEF RequestOK, Waiting, Actions
  <2> QED BY <1>0, <1>7, <2>1, NotServedOK DEF RequestInv
<1>11. LinkInv'
  BY <1>4, <1>5, <1>6, <1>7 DEF LinkInv, Serving
<1>12. QuietInv'
  <2>1. \A n \in Threads : ~Accepted(n)'
    BY <1>4, <1>5, <1>7 DEF Accepted, At, Waiting
  <2> QED BY <2>1 DEF QuietInv
<1> QED BY <1>8, <1>9, <1>10, <1>11, <1>12 DEF HandlerInv

\* A handler ends, whatever the supervisor goes on with.
LEMMA ReleaseHandlers ==
  ASSUME configLock' = NoThread, \A n \in Threads : call'[n].pc = "idle", RequestInv'
  PROVE  HandlerInv'
<1>1. Exclusive' /\ LoadedInv' /\ LinkInv' /\ QuietInv'
  BY DEF Exclusive, LoadedInv, LinkInv, QuietInv, Accepted
<1> QED BY <1>1 DEF HandlerInv

\* After a handler has released the lock none runs.
LEMMA ReleasedRuns ==
  ASSUME NodeTyped, Exclusive, NEW m \in Threads, Release(m), call[m].pc # "idle"
  PROVE  configLock' = NoThread /\ \A n \in Threads : call'[n].pc = "idle"
<1>1. \A n \in Threads : n # m => call[n].pc = "idle"
  BY DEF Exclusive
<1> QED BY <1>1, NoCallTyped DEF Release, NodeTyped, CallsTyped

\* The supervisor's answer reaches the handler: an accepted edit goes on to save.
LEMMA ReplyHandlers ==
  ASSUME NodeTyped, HandlerInv, NEW m \in Threads, Reply(m)
  PROVE  HandlerInv'
<1> DEFINE c == call[m].conn
<1>0. /\ call[m].pc = "waiting" /\ At(c, "answered") /\ c \in Conns
      /\ req' = [req EXCEPT ![c] = IdleReq] /\ config' = config /\ proc' = proc
  BY DEF Reply, Done, NodeTyped, CallsTyped
<1>1. /\ configLock = m /\ configLock # NoThread
      /\ \A n \in Threads : n # m => call[n].pc = "idle"
      /\ \A d \in Conns : d # c => ~Serving(req[d])
  BY <1>0, OthersWait DEF HandlerInv
<1>2. NobodyServed'
  <2>1. \A d \in Conns : d # c => req'[d] = req[d]
    BY <1>0 DEF NodeTyped, LockInv, TypeOK
  <2>2. ~Serving(req'[c])
    BY <1>0 DEF IdleReq, Serving, NodeTyped, LockInv, TypeOK
  <2> QED BY <1>1, <2>1, <2>2 DEF NobodyServed
<1>5. RequestInv'
  BY <1>2, NobodyServedOK
<1>3. CASE Release(m)
  BY <1>0, <1>3, <1>5, ReleasedRuns, ReleaseHandlers DEF HandlerInv
<1>4. CASE /\ call[m].op \in Edits /\ req[c].ok
           /\ call' = [call EXCEPT ![m].pc = "saving", ![m].conn = NoConn]
           /\ UNCHANGED configLock
  <2>0. call[m] \in CallType
    BY DEF NodeTyped, CallsTyped
  <2>1. /\ call'[m].pc = "saving" /\ call'[m].op = call[m].op /\ call'[m].f = call[m].f
        /\ call'[m].i = call[m].i /\ call'[m].loaded = call[m].loaded
        /\ \A n \in Threads : n # m => call'[n] = call[n]
    BY <1>4, <2>0 DEF NodeTyped, CallsTyped, CallType
  <2>8. configLock' = m /\ call[m].op \in Edits /\ Accepted(m)
    BY <1>0, <1>1, <1>4 DEF Accepted
  <2>9. \A n \in Threads : n # m => call'[n].pc = "idle"
    BY <1>1, <2>1
  <2>3. Exclusive'
    BY <1>2, <2>8, <2>9 DEF Exclusive, NobodyServed
  <2>4. LoadedInv'
    <3>1. /\ config[call[m].f] # NoField /\ call[m].loaded = config[call[m].f]
          /\ call[m].op \in {"update_url", "delete_url"} =>
               call[m].i # All /\ call[m].i < Len(call[m].loaded)
          /\ call[m].op = "delete_field" => call[m].i = All
      BY <1>0, <2>8 DEF HandlerInv, LoadedInv
    <3> QED BY <1>0, <2>1, <2>8, <2>9, <3>1 DEF LoadedInv
  <2>5. LinkInv'
    BY <2>1, <2>9 DEF LinkInv
  <2>6. QuietInv'
    <3> SUFFICES ASSUME NEW n \in Threads, Stops(call'[n].op), Accepted(n)',
                        NEW j \in Indices, Named(Request(call'[n].op), call'[n].i, j)
                 PROVE  ~Streaming(<<call[n].f, j>>)'
      BY <2>1, <2>9 DEF QuietInv, Accepted
    <3>1. n = m
      BY <2>9 DEF Accepted
    <3>3. ~Streaming(<<call[m].f, j>>)
      BY <2>1, <2>8, <3>1 DEF HandlerInv, QuietInv
    <3> QED BY <1>0, <2>1, <3>1, <3>3 DEF Streaming, Alive
  <2> QED BY <1>5, <2>3, <2>4, <2>5, <2>6 DEF HandlerInv
<1> QED BY <1>3, <1>4 DEF Reply

\* A step of a thread of the supervisor spawns nothing, or serves a start.
LEMMA ServiceSpawns ==
  ASSUME LockInv, RequestInv, NEW c \in Conns, LockedStep(c) \/ EntryStep(c)
  PROVE  NoneSpawned \/ req[c].act \in {"start", "restart"}
<1>1. CASE EntryStep(c)
  BY <1>1 DEF EntryStep, Refuse, EnterStart, EnterStop, EnterDelete, Enter, NoneSpawned, Alive
<1>2. CASE LockedStep(c)
  <2>1. CASE SameAlive
    BY <2>1, SameNone
  <2>2. ASSUME NEW p \in Pids, StartSpawn(c, p)
        PROVE  req[c].act \in {"start", "restart"}
    <3>1. req[c].pc = "start"
      BY <2>2 DEF StartSpawn, Looping, At
    <3>2. RequestOK(req[c], config[req[c].f])
      BY DEF RequestInv
    <3> QED BY <3>1, <3>2 DEF RequestOK
  <2> QED BY <1>2, <2>1, <2>2, LockedSame
<1> QED BY <1>1, <1>2, Zenon

\* Every step keeps what ties handlers to the requests they wait for.
LEMMA HandlersInductive ==
  ASSUME NodeTyped, VisitedIsSilent, ProcInv, HandlerInv, [RestedNext]_nodeVars
  PROVE  HandlerInv'
<1>0. CallsTyped /\ LockInv /\ Exclusive /\ RequestInv
  BY DEF NodeTyped, HandlerInv
<1>8. (NodeNext /\ AtRest) \/ UNCHANGED nodeVars
  BY DEF RestedNext
<1>1. CASE SupervisorStep
  <2>0. UNCHANGED managerVars
    BY <1>1 DEF SupervisorStep
  <2>1. ASSUME NEW c \in Conns, LockedStep(c) \/ EntryStep(c) PROVE HandlerInv'
    BY <1>0, <2>0, <2>1, ServiceEffect, ServiceSpawns, ThreadHandlers
  <2>2. ASSUME NEW p \in Pids, Output(p) \/ Exit(p) PROVE HandlerInv'
    <3>1. NoneSpawned
      BY <1>0, <2>2 DEF Output, Exit, NoneSpawned, Alive, LockInv, TypeOK, ProcType
    <3>2. config' = config /\ req' = req
      BY <2>2 DEF Output, Exit
    <3> QED BY <1>0, <2>0, <3>1, <3>2, ProcessHandlers
  <2>3. ASSUME NEW c \in Conns, Done(c), \A m \in Threads : call[m].conn # c PROVE HandlerInv'
    <3>1. NoneSpawned /\ config' = config
      BY <2>3 DEF Done, NoneSpawned, Alive
    <3>2. ~Attended(c)
      BY <2>3 DEF Attended
    <3> QED BY <1>0, <2>0, <2>3, <3>1, <3>2, ProcessHandlers
  <2> QED BY <1>1, <2>1, <2>2, <2>3 DEF SupervisorStep, Serve
<1>2. ASSUME NEW m \in Threads, NEW op \in UsedOps, NEW f \in Fields,
             NEW i \in Indices \cup {All}, NEW new \in Dests \cup {NoDest},
             NEW c \in Conns, Begin(m, op, f, i, new, c), AtRest
      PROVE  HandlerInv'
  <2>1. configLock = NoThread /\ configLock' # NoThread
    BY <1>2, NodeAssumption DEF Begin
  <2>2. NobodyServed
    BY <1>2, <2>1 DEF AtRest, NobodyServed
  <2> QED BY <1>2, <2>2, BeginHandlers
<1>3. ASSUME NEW m \in Threads, CallStep(m) PROVE HandlerInv'
  <2>1. CASE Reply(m)
    BY <2>1, ReplyHandlers
  <2>2. CASE TimeOut(m) \/ ConnectionLost(m) \/ SaveFails(m)
    <3>1. Release(m) /\ call[m].pc # "idle" /\ req' = req /\ config' = config
      BY <2>2 DEF TimeOut, ConnectionLost, SaveFails, vars
    <3>2. RequestInv'
      BY <1>0, <3>1 DEF RequestInv
    <3> QED BY <1>0, <3>1, <3>2, ReleasedRuns, ReleaseHandlers
  <2>3. CASE Save(m)
    <3>1. call[m].pc = "saving" /\ Release(m) /\ req' = req
      BY <2>3 DEF Save, ReplaceConfig
    <3>2. NobodyServed'
      BY <1>0, <3>1, NobodyWaits DEF NobodyServed
    <3> QED BY <1>0, <3>1, <3>2, NobodyServedOK, ReleasedRuns, ReleaseHandlers
  <2> QED BY <1>3, <2>1, <2>2, <2>3 DEF CallStep
<1>4. CASE /\ AtRest
           /\ \/ \E f \in Fields, d \in Dests : AddUrl(f, d)
              \/ \E f \in Fields : CreateField(f)
  <2>1. configLock = NoThread /\ UNCHANGED managerVars /\ req' = req
    BY <1>4 DEF AddUrl, CreateField, ReplaceConfig
  <2>2. configLock' = NoThread /\ \A n \in Threads : call'[n].pc = "idle"
    BY <1>0, <2>1, NobodyRuns DEF managerVars
  <2>3. RequestInv'
    <3>1. CASE config' = config
      BY <1>0, <2>1, <3>1 DEF RequestInv
    <3>2. CASE config' # config
      <4>1. NobodyServed'
        BY <1>4, <2>1, <3>2 DEF AtRest, NobodyServed
      <4> QED BY <4>1, NobodyServedOK
    <3> QED BY <3>1, <3>2
  <2> QED BY <2>2, <2>3, ReleaseHandlers
<1>5. CASE NodeSupervisorRestart
  <2>1. NoneSpawned /\ (\A c \in Conns : req'[c].pc = "idle") /\ config' = config
        /\ UNCHANGED managerVars
    BY <1>5 DEF NodeSupervisorRestart, SupervisorRestart, NoneSpawned, Alive, FreeProc, IdleReq
  <2> QED BY <1>0, <2>1, ProcessHandlers
<1>6. CASE ManagerRestart
  <2>1. configLock' = NoThread /\ (\A n \in Threads : call'[n].pc = "idle")
        /\ req' = req /\ config' = config
    BY <1>6, NoCallTyped DEF ManagerRestart, vars
  <2>2. RequestInv'
    BY <1>0, <2>1 DEF RequestInv
  <2> QED BY <2>1, <2>2, ReleaseHandlers
<1>7. CASE UNCHANGED nodeVars
  <2>1. NoneSpawned /\ req' = req /\ config' = config /\ UNCHANGED managerVars
    BY <1>7 DEF nodeVars, vars, NoneSpawned, Alive
  <2> QED BY <1>0, <2>1, ProcessHandlers
<1> QED BY <1>1, <1>2, <1>3, <1>4, <1>5, <1>6, <1>7, <1>8 DEF NodeNext, BeginSome

-----------------------------------------------------------------------------
(* What runs is what is configured *)

\* Processes stay what is configured while nothing is spawned or edited.
LEMMA KeptProc ==
  ASSUME ProcInv, NoneSpawned, config' = config
  PROVE  ProcInv'
BY DEF ProcInv, NoneSpawned

\* A start spawns for an entry of the list that is configured.
LEMMA SpawnedProc ==
  ASSUME LockInv, Tracked, ProcInv, NEW c \in Conns, RequestOK(req[c], config[req[c].f]),
         NEW p \in Pids, StartSpawn(c, p)
  PROVE  ProcInv'
<1> DEFINE s == Here(c)
           r == [st |-> "new", slot |-> s, dest |-> config[s[1]][s[2] + 1]]
<1>1. /\ config' = config /\ config[s[1]] # NoField /\ s[2] < Len(config[s[1]])
      /\ proc'[p] = r
      /\ \A q \in Pids \ {p} : proc'[q] = IF proc[q].st = "zombie" THEN FreeProc ELSE proc[q]
  BY SpawnEffect
<1>2. r.slot = s /\ r.dest = config[s[1]][s[2] + 1]
  OBVIOUS
<1>3. \A q \in Pids \ {p} : Alive(q)' => Alive(q) /\ proc'[q] = proc[q]
  BY <1>1 DEF Alive, FreeProc
<1> HIDE DEF r, s
<1>4. \A q \in Pids \ {p} : Alive(q)' =>
        /\ config'[proc'[q].slot[1]] # NoField
        /\ proc'[q].slot[2] < Len(config'[proc'[q].slot[1]])
        /\ config'[proc'[q].slot[1]][proc'[q].slot[2] + 1] = proc'[q].dest
  BY <1>1, <1>3 DEF ProcInv
<1>5. /\ config'[proc'[p].slot[1]] # NoField
      /\ proc'[p].slot[2] < Len(config'[proc'[p].slot[1]])
      /\ config'[proc'[p].slot[1]][proc'[p].slot[2] + 1] = proc'[p].dest
  BY <1>1, <1>2
<1> QED BY <1>4, <1>5 DEF ProcInv

\* A list has what the running processes of field f stream to, where they do.
Agrees(f, list) ==
  \A p \in Pids : Alive(p) /\ proc[p].slot[1] = f =>
    /\ list # NoField /\ proc[p].slot[2] < Len(list)
    /\ list[proc[p].slot[2] + 1] = proc[p].dest

\* The edits of a field whose lists stay as they are wherever something streams.
LEMMA ReplacedProc ==
  ASSUME LockInv, ProcInv, proc' = proc, NEW f \in Fields, NEW list,
         config' = [config EXCEPT ![f] = list], Agrees(f, list)
  PROVE  ProcInv'
<1>1. config'[f] = list /\ \A g \in Fields : g # f => config'[g] = config[g]
  BY DEF LockInv, TypeOK
<1>2. \A p \in Pids : Alive(p) => proc[p].slot[1] \in Fields
  <2>1. \A p \in Pids : Alive(p) => proc[p].slot \in Slots
    BY DEF Alive, Exists, LockInv, WellFormed
  <2> QED BY <2>1
<1>3. SUFFICES ASSUME NEW p \in Pids, Alive(p)
               PROVE  LET now == config'[proc[p].slot[1]]
                      IN  /\ now # NoField /\ proc[p].slot[2] < Len(now)
                          /\ now[proc[p].slot[2] + 1] = proc[p].dest
  BY DEF ProcInv, Alive
<1>4. CASE proc[p].slot[1] = f
  BY <1>1, <1>3, <1>4 DEF Agrees
<1>5. CASE proc[p].slot[1] # f
  BY <1>1, <1>2, <1>3, <1>5 DEF ProcInv
<1> QED BY <1>4, <1>5

\* What a handler that saves may rely on.
LEMMA Saving ==
  ASSUME NodeTyped, HandlerInv, NEW m \in Threads, Save(m)
  PROVE  /\ call[m].f \in Fields /\ call[m].op \in Edits /\ proc' = proc
         /\ config' = [config EXCEPT ![call[m].f] = Edited(m)]
         /\ config[call[m].f] \in DestLists /\ config[call[m].f] # NoField
         /\ call[m].loaded = config[call[m].f]
         /\ \A j \in Indices : Named(Request(call[m].op), call[m].i, j)
                                 => ~Streaming(<<call[m].f, j>>)
<1>1. call[m].f \in Fields
  BY DEF NodeTyped, CallsTyped, CallType
<1>2. call[m].pc = "saving" /\ ReplaceConfig(call[m].f, Edited(m))
  BY DEF Save
<1>3. /\ call[m].op \in Edits /\ config[call[m].f] # NoField
      /\ call[m].loaded = config[call[m].f]
  BY <1>2 DEF HandlerInv, LoadedInv
<1>4. config[call[m].f] \in DestLists
  BY <1>1, <1>3 DEF NodeTyped, LockInv, TypeOK
<1>5. \A j \in Indices : Named(Request(call[m].op), call[m].i, j) => ~Streaming(<<call[m].f, j>>)
  BY <1>2, <1>3 DEF HandlerInv, QuietInv, Accepted, Stops
<1> QED BY <1>1, <1>2, <1>3, <1>4, <1>5 DEF ReplaceConfig

\* An entry is replaced only while its slot is silent.
LEMMA UpdateSaved ==
  ASSUME NodeTyped, HandlerInv, NEW m \in Threads, Save(m), call[m].op = "update_url"
  PROVE  /\ call[m].i \in Indices /\ call[m].i < Len(config[call[m].f]) /\ call[m].new \in Dests
         /\ Edited(m) = [config[call[m].f] EXCEPT ![call[m].i + 1] = call[m].new]
         /\ ~Streaming(<<call[m].f, call[m].i>>)
<1> DEFINE list == config[call[m].f]
           i == call[m].i
           d == call[m].new
<1>1. list \in DestLists /\ call[m].loaded = list
  BY Saving
<1>2. i \in Indices /\ i < Len(list)
  <2>1. i \in Indices \cup {All}
    BY DEF NodeTyped, CallsTyped, CallType
  <2>2. i # All /\ i < Len(call[m].loaded)
    BY DEF Save, HandlerInv, LoadedInv
  <2> QED BY <1>1, <2>1, <2>2
<1>3. Edited(m) = [list EXCEPT ![i + 1] = d] /\ Edited(m) \in DestLists
  BY <1>1 DEF Save, Valid, Edited
<1>4. ~Streaming(<<call[m].f, i>>)
  BY <1>2, Saving DEF Named
<1>5. d \in Dests
  <2>1. list \in Seq(Dests) /\ Edited(m) \in Seq(Dests)
    BY <1>1, <1>3, ConstantsAssumption
  <2> HIDE DEF list, i, d
  <2>2. i \in Nat /\ Len(list) \in Nat /\ DOMAIN list = 1 .. Len(list)
    BY <1>2, <2>1, ConstantsAssumption
  <2>3. i + 1 \in DOMAIN list
    BY <1>2, <2>2
  <2>4. DOMAIN Edited(m) = DOMAIN list /\ Edited(m)[i + 1] = d
    BY <1>3, <2>3
  <2> QED BY <2>1, <2>3, <2>4
<1> QED BY <1>2, <1>3, <1>4, <1>5

\* An entry or a field is removed only while the whole field is silent.
LEMMA DeleteSaved ==
  ASSUME NodeTyped, HandlerInv, NEW m \in Threads, Save(m), call[m].op # "update_url"
  PROVE  /\ \A j \in Indices : ~Streaming(<<call[m].f, j>>)
         /\ call[m].op = "delete_url" =>
              /\ call[m].i \in Indices /\ call[m].i < Len(config[call[m].f])
              /\ Edited(m) = RemoveAt(config[call[m].f], call[m].i)
         /\ call[m].op = "delete_field" => Edited(m) = NoField
<1>1. call[m].op \in {"delete_url", "delete_field"}
  BY Saving DEF Edits
<1>2. call[m].op = "delete_field" => call[m].i = All
  BY DEF Save, HandlerInv, LoadedInv
<1>3. \A j \in Indices : ~Streaming(<<call[m].f, j>>)
  BY <1>1, <1>2, Saving DEF Named, Request
<1>4. call[m].i \in Indices \cup {All}
  BY DEF NodeTyped, CallsTyped, CallType
<1>5. call[m].op = "delete_url" => call[m].i # All /\ call[m].i < Len(call[m].loaded)
  BY DEF Save, HandlerInv, LoadedInv
<1> QED BY <1>1, <1>3, <1>4, <1>5, Saving DEF Edited

\* Where something streams, the entry it was spawned for is in the list.
LEMMA StreamsInList ==
  ASSUME LockInv, ProcInv, NEW p \in Pids, Alive(p)
  PROVE  LET f == proc[p].slot[1]
             i == proc[p].slot[2]
         IN  /\ f \in Fields /\ i \in Indices /\ proc[p].slot = <<f, i>>
             /\ Streaming(<<f, i>>) /\ proc[p].dest \in Dests
             /\ config[f] # NoField /\ i < Len(config[f]) /\ config[f][i + 1] = proc[p].dest
<1>1. proc[p].slot \in Slots /\ proc[p].dest \in Dests
  BY DEF Alive, Exists, LockInv, WellFormed
<1> QED BY <1>1 DEF ProcInv, Streaming

\* An edit of the configuration changes no entry that something streams to.
LEMMA ReplacingKeeps ==
  ASSUME NodeTyped, ProcInv, HandlerInv,
         \/ \E m \in Threads : Save(m)
         \/ \E f \in Fields, d \in Dests : AddUrl(f, d)
         \/ \E f \in Fields : CreateField(f)
  PROVE  ProcInv'
<1>0. LockInv
  BY DEF NodeTyped
<1>1. ASSUME NEW m \in Threads, Save(m) PROVE ProcInv'
  <2> DEFINE f == call[m].f
             i == call[m].i
  <2>1. /\ f \in Fields /\ proc' = proc /\ config' = [config EXCEPT ![f] = Edited(m)]
        /\ config[f] \in DestLists
    BY <1>1, Saving
  <2>2. CASE call[m].op = "update_url"
    <3>1. /\ i \in Indices /\ Edited(m) = [config[f] EXCEPT ![i + 1] = call[m].new]
          /\ ~Streaming(<<f, i>>) /\ Edited(m) # NoField
      BY <1>1, <2>2, UpdateSaved, ConstantsAssumption DEF Save, Valid
    <3>2. ASSUME NEW p \in Pids, Alive(p), proc[p].slot[1] = f
          PROVE  /\ proc[p].slot[2] < Len(Edited(m))
                 /\ Edited(m)[proc[p].slot[2] + 1] = proc[p].dest
      <4> DEFINE j == proc[p].slot[2]
      <4>1. /\ j \in Indices /\ Streaming(<<f, j>>) /\ j < Len(config[f])
            /\ config[f][j + 1] = proc[p].dest
        BY <1>0, <3>2, StreamsInList
      <4>2. config[f] \in Seq(Dests) /\ i \in Nat /\ j \in Nat /\ j # i
        <5>1. config[f] \in Seq(Dests)
          BY <2>1, ConstantsAssumption
        <5>2. i \in Nat /\ j \in Nat
          <6>1. i \in Indices /\ j \in Indices
            BY <3>1, <4>1
          <6> HIDE DEF f, i, j
          <6> QED BY <6>1, ConstantsAssumption
        <5>3. j # i
          BY <3>1, <4>1, Zenon
        <5> QED BY <5>1, <5>2, <5>3
      <4> HIDE DEF f, i, j
      <4>3. Len(Edited(m)) = Len(config[f]) /\ Edited(m)[j + 1] = config[f][j + 1]
        <5> DEFINE list == config[f]
        <5>1. Edited(m) = [list EXCEPT ![i + 1] = call[m].new] /\ list \in Seq(Dests)
          BY <3>1, <4>2
        <5>2. j + 1 \in 1 .. Len(list) /\ j + 1 # i + 1
          BY <4>1, <4>2, <5>1
        <5> HIDE DEF list
        <5>3. Len(Edited(m)) = Len(list) /\ Edited(m)[j + 1] = list[j + 1]
          BY <5>1, <5>2
        <5> QED BY <5>3 DEF list
      <4> QED BY <4>1, <4>3 DEF j
    <3> DEFINE list == Edited(m)
    <3>3. Agrees(f, list)
      BY <3>1, <3>2 DEF Agrees
    <3>4. f \in Fields /\ proc' = proc /\ config' = [config EXCEPT ![f] = list]
      BY <2>1
    <3> HIDE DEF f, list
    <3> QED BY <1>0, <3>3, <3>4, ReplacedProc
  <2>3. CASE call[m].op # "update_url"
    <3>1. Agrees(f, Edited(m))
      BY <1>0, <1>1, <2>3, DeleteSaved, StreamsInList DEF Agrees
    <3> HIDE DEF f
    <3> QED BY <1>0, <2>1, <3>1, ReplacedProc
  <2> QED BY <2>2, <2>3
<1>2. ASSUME NEW f \in Fields, NEW d \in Dests, AddUrl(f, d) PROVE ProcInv'
  <2> DEFINE list == Append(config[f], d)
  <2>1. /\ config[f] # NoField /\ list \in DestLists /\ proc' = proc
        /\ config' = [config EXCEPT ![f] = list]
    BY <1>2 DEF AddUrl, ReplaceConfig
  <2>2. config[f] \in Seq(Dests) /\ list # NoField
    BY <1>0, <2>1, ConstantsAssumption DEF LockInv, TypeOK
  <2>3. ASSUME NEW p \in Pids, Alive(p), proc[p].slot[1] = f
        PROVE  proc[p].slot[2] < Len(list) /\ list[proc[p].slot[2] + 1] = proc[p].dest
    <3> DEFINE j == proc[p].slot[2]
    <3>1. j \in Indices /\ j < Len(config[f]) /\ config[f][j + 1] = proc[p].dest
      BY <1>0, <2>3, StreamsInList
    <3>2. j \in Nat
      BY <3>1, ConstantsAssumption
    <3> HIDE DEF j
    <3>3. j < Len(list) /\ list[j + 1] = config[f][j + 1]
      BY <2>2, <3>1, <3>2
    <3> QED BY <3>1, <3>3 DEF j
  <2> HIDE DEF list
  <2>4. Agrees(f, list)
    BY <2>2, <2>3 DEF Agrees
  <2> QED BY <1>0, <2>1, <2>4, ReplacedProc
<1>3. ASSUME NEW f \in Fields, CreateField(f) PROVE ProcInv'
  <2>1. config[f] = NoField /\ proc' = proc /\ config' = [config EXCEPT ![f] = <<>>]
    BY <1>3 DEF CreateField, ReplaceConfig
  <2>2. Agrees(f, <<>>)
    BY <1>0, <2>1, StreamsInList DEF Agrees
  <2> QED BY <1>0, <2>1, <2>2, ReplacedProc
<1> QED BY <1>1, <1>2, <1>3

\* The steps that neither spawn nor replace the file.
LEMMA ProcInductive ==
  ASSUME NodeTyped, Tracked, ProcInv, HandlerInv, [NodeNext]_nodeVars
  PROVE  ProcInv'
<1>0. LockInv /\ CallsTyped /\ RequestInv
  BY DEF NodeTyped, HandlerInv
<1>1. CASE SupervisorStep
  <2>1. ASSUME NEW c \in Conns, LockedStep(c) PROVE ProcInv'
    <3>1. config' = config
      BY <2>1 DEF LockedStep, StartStep, StopStep, DeleteStep, StartKnown, StartSpawn,
                  StartRecord, RecordFails, StartFails, FinishStart, StopUnknown, StopTerminate, StopReap, StopKill,
                  StopGiveUp, FinishStop, DeleteStop, Compact, FinishDelete
    <3>2. RequestOK(req[c], config[req[c].f])
      BY <1>0 DEF RequestInv
    <3>3. CASE SameAlive
      BY <1>0, <3>1, <3>3, SameNone, KeptProc
    <3>4. ASSUME NEW p \in Pids, StartSpawn(c, p)
          PROVE  ProcInv'
      BY <1>0, <3>2, <3>4, SpawnedProc
    <3> QED BY <1>0, <2>1, <3>3, <3>4, LockedSame, Zenon
  <2>2. ASSUME NEW c \in Conns, EntryStep(c) \/ Done(c) PROVE ProcInv'
    <3>1. proc' = proc /\ config' = config
      BY <2>2 DEF EntryStep, Refuse, EnterStart, EnterStop, EnterDelete, Enter, Done
    <3> QED BY <3>1 DEF ProcInv, Alive
  <2>3. ASSUME NEW p \in Pids, Output(p) \/ Exit(p) PROVE ProcInv'
    <3>1. NoneSpawned /\ config' = config
      BY <1>0, <2>3 DEF Output, Exit, NoneSpawned, Alive, LockInv, TypeOK, ProcType
    <3> QED BY <3>1, KeptProc
  <2> QED BY <1>1, <2>1, <2>2, <2>3 DEF SupervisorStep, Serve
<1>2. ASSUME proc' = proc, config' = config PROVE ProcInv'
  BY <1>2 DEF ProcInv, Alive
<1>3. CASE BeginSome
  BY <1>2, <1>3 DEF BeginSome, Begin, Receive
<1>4. ASSUME NEW m \in Threads, CallStep(m) PROVE ProcInv'
  BY <1>2, <1>4, ReplacingKeeps
     DEF CallStep, Reply, Done, ConnectionLost, TimeOut, SaveFails, vars
<1>5. CASE NodeSupervisorRestart
  BY <1>5 DEF NodeSupervisorRestart, SupervisorRestart, ProcInv, Alive, FreeProc
<1>6. CASE ManagerRestart \/ UNCHANGED nodeVars
  BY <1>2, <1>6 DEF ManagerRestart, nodeVars, vars
<1> QED BY <1>1, <1>3, <1>4, <1>5, <1>6, ReplacingKeeps DEF NodeNext

-----------------------------------------------------------------------------
(* A process that has written nothing finds no progress *)

\* Progress that is left alone or removed leaves new processes without any.
LEMMA FreshKept ==
  ASSUME FreshInv,
         \A p \in Pids : proc'[p].st = "new" =>
           /\ proc[p].st = "new" /\ proc'[p].slot = proc[p].slot
           /\ progress'[proc[p].slot] \in {progress[proc[p].slot], NoDest}
  PROVE  FreshInv'
BY DEF FreshInv

\* Removing one progress file writes none.
LEMMA ClearedProgress ==
  ASSUME LockInv, NEW s, progress' = [progress EXCEPT ![s] = NoDest]
  PROVE  \A t \in Slots : progress'[t] \in {progress[t], NoDest}
BY DEF LockInv, TypeOK

\* A process that has written nothing yet is alive, and has a slot.
LEMMA NewInSlots ==
  ASSUME LockInv
  PROVE  \A p \in Pids : proc[p].st = "new" => proc[p].slot \in Slots /\ Alive(p) /\ Exists(p)
BY DEF LockInv, WellFormed, Alive, Exists

\* Progress files are renamed only onto slots that are silent.
LEMMA CompactFresh ==
  ASSUME LockInv, VisitedIsSilent, ProcInv, FreshInv, NEW c \in Conns,
         RequestOK(req[c], config[req[c].f]), Compact(c)
  PROVE  FreshInv'
<1> DEFINE from == Here(c)
           to == <<from[1], from[2] - 1>>
<1>1. req[c].pc = "compact" /\ req[c].todo # {} /\ proc' = proc
  BY DEF Compact, Looping, At
<1>2. from \in Slots /\ from = <<req[c].f, from[2]>>
  BY <1>1, HereTyped DEF LockInv, Here
<1>3. req[c].act = "delete_destination" /\ req[c].f \in Fields
  BY <1>1 DEF RequestOK, LockInv, TypeOK, ReqType
<1>4. \A j \in Indices : ~Streaming(<<req[c].f, j>>)
  BY <1>1, <1>3, StoppedAll DEF Named
<1>5. \A p \in Pids : proc[p].st = "new" => proc[p].slot \in Slots /\ proc[p].slot[1] # req[c].f
  <2> SUFFICES ASSUME NEW p \in Pids, proc[p].st = "new", proc[p].slot[1] = req[c].f PROVE FALSE
    BY NewInSlots
  <2>1. proc[p].slot \in Slots /\ Alive(p)
    BY NewInSlots
  <2>2. \E j \in Indices : proc[p].slot = <<req[c].f, j>>
    BY <2>1
  <2> QED BY <1>4, <2>1, <2>2 DEF Streaming
<1>6. \A t \in Slots : t[1] # req[c].f => progress'[t] = progress[t]
  <2> SUFFICES ASSUME NEW t \in Slots, t[1] # req[c].f PROVE progress'[t] = progress[t]
    OBVIOUS
  <2>1. t # from /\ t # to
    BY <1>2
  <2>2. \/ progress' = [progress EXCEPT ![from] = NoDest]
        \/ progress' = progress
        \/ progress' = [progress EXCEPT ![to] = progress[from], ![from] = NoDest]
    BY DEF Compact
  <2> HIDE DEF from, to
  <2> QED BY <2>1, <2>2 DEF LockInv, TypeOK
<1> QED BY <1>1, <1>5, <1>6, FreshKept

\* Every step leaves processes that have written nothing without progress.
LEMMA FreshInductive ==
  ASSUME NodeTyped, Tracked, VisitedIsSilent, ProcInv, HandlerInv, FreshInv,
         [NodeNext]_nodeVars
  PROVE  FreshInv'
<1>0. LockInv /\ RequestInv /\ progress \in [Slots -> Dests \cup {NoDest}]
      /\ proc \in [Pids -> ProcType]
  BY DEF NodeTyped, HandlerInv, LockInv, TypeOK
<1>1. ASSUME \A p \in Pids : proc'[p].st = "new" => proc'[p] = proc[p],
             \/ progress' = progress
             \/ \E s : progress' = [progress EXCEPT ![s] = NoDest]
      PROVE  FreshInv'
  <2>1. \A t \in Slots : progress'[t] \in {progress[t], NoDest}
    BY <1>0, <1>1, ClearedProgress
  <2> QED BY <1>0, <1>1, <2>1, FreshKept, NewInSlots
<1>2. ASSUME NEW c \in Conns, LockedStep(c) PROVE FreshInv'
  <2>0. RequestOK(req[c], config[req[c].f])
    BY <1>0 DEF RequestInv
  <2>1. CASE StartFails(c)
    <3>1. \A p \in Pids : proc'[p].st = "new" => proc'[p] = proc[p]
      BY <2>1 DEF StartFails, Reap, FreeProc
    <3> QED BY <1>1, <2>1, <3>1 DEF StartFails
  <2>2. CASE FinishStart(c) \/ RecordFails(c)
    <3>0. Reap({req[c].last})
      BY <2>2 DEF FinishStart, RecordFails
    <3>1. \A p \in Pids : proc'[p].st = "new" => proc'[p] = proc[p]
      BY <3>0 DEF Reap, FreeProc
    <3>2. progress' = progress
      BY <2>2 DEF FinishStart, RecordFails, files
    <3> QED BY <1>1, <3>1, <3>2
  <2>3. CASE StopReap(c)
    <3>1. \A p \in Pids : proc'[p].st = "new" => proc'[p] = proc[p]
      BY <1>0, <2>3 DEF StopReap, FreeProc
    <3> QED BY <1>1, <2>3, <3>1 DEF StopReap
  <2>4. CASE Compact(c)
    BY <1>0, <2>0, <2>4, CompactFresh
  <2>5. ASSUME NEW p \in Pids, StartSpawn(c, p)
        PROVE  FreshInv'
    <3> DEFINE r == [st |-> "new", slot |-> Here(c),
                     dest |-> config[Here(c)[1]][Here(c)[2] + 1]]
    <3>1. /\ progress' = [progress EXCEPT ![Here(c)] = NoDest] /\ Here(c) \in Slots
          /\ proc'[p] = r
          /\ \A q \in Pids \ {p} : proc'[q] = IF proc[q].st = "zombie" THEN FreeProc ELSE proc[q]
      BY <1>0, <2>0, <2>5, SpawnEffect
    <3>2. r.slot = Here(c)
      OBVIOUS
    <3> HIDE DEF r
    <3>3. progress'[Here(c)] = NoDest /\ \A t \in Slots : progress'[t] \in {progress[t], NoDest}
      BY <1>0, <3>1
    <3>4. \A q \in Pids \ {p} : proc'[q].st = "new" => proc'[q] = proc[q]
      BY <3>1 DEF FreeProc
    <3>5. \A q \in Pids \ {p} : proc'[q].st = "new" => progress'[proc'[q].slot] = NoDest
      BY <1>0, <3>3, <3>4, NewInSlots DEF FreshInv
    <3>6. progress'[proc'[p].slot] = NoDest
      BY <3>1, <3>2, <3>3
    <3> QED BY <3>5, <3>6 DEF FreshInv
  <2>6. CASE proc' = proc /\ (progress' = progress \/ \E s : progress' = [progress EXCEPT ![s] = NoDest])
    BY <1>1, <2>6
  <2> QED BY <1>2, <2>1, <2>2, <2>3, <2>4, <2>5, <2>6
          DEF LockedStep, StartStep, StopStep, DeleteStep, StartKnown, StartRecord,
              StopUnknown, StopTerminate, StopKill, StopGiveUp, FinishStop, DeleteStop,
              FinishDelete, files
<1>3. ASSUME NEW p \in Pids, Output(p) PROVE FreshInv'
  <2> DEFINE s == proc[p].slot
  <2>1. /\ proc[p].st = "new" /\ proc' = [proc EXCEPT ![p].st = "live"]
        /\ progress' = [progress EXCEPT ![s] = proc[p].dest]
    BY <1>3 DEF Output
  <2>2. \A q \in Pids : proc'[q].st = "new" => q # p /\ proc'[q] = proc[q]
    BY <1>0, <2>1 DEF ProcType
  <2>3. \A q \in Pids : proc[q].st = "new" /\ q # p => proc[q].slot # s
    <3>1. OnePerSlot(proc)
      BY <1>0, TrackedOnePerSlot DEF LockInv
    <3> QED BY <2>1, <3>1 DEF OnePerSlot
  <2> HIDE DEF s
  <2>4. \A t \in Slots : t # s => progress'[t] = progress[t]
    BY <1>0, <2>1
  <2> QED BY <1>0, <2>2, <2>3, <2>4, FreshKept, NewInSlots
<1>4. ASSUME NEW p \in Pids, Exit(p) PROVE FreshInv'
  <2>1. \A q \in Pids : proc'[q].st = "new" => proc'[q] = proc[q]
    BY <1>0, <1>4 DEF Exit, ProcType
  <2>2. progress' = progress
    BY <1>4 DEF Exit, files
  <2> QED BY <1>1, <2>1, <2>2
<1>5. CASE NodeSupervisorRestart
  BY <1>5 DEF NodeSupervisorRestart, SupervisorRestart, FreshInv, FreeProc
<1>6. CASE proc' = proc /\ progress' = progress
  BY <1>1, <1>6
<1>7. CASE SupervisorStep
  <2>1. ASSUME NEW c \in Conns, EntryStep(c) \/ Done(c) PROVE proc' = proc /\ progress' = progress
    BY <2>1 DEF EntryStep, Refuse, EnterStart, EnterStop, EnterDelete, Enter, Done, files
  <2> QED BY <1>2, <1>3, <1>4, <1>6, <1>7, <2>1 DEF SupervisorStep, Serve
<1>8. CASE BeginSome
  BY <1>6, <1>8 DEF BeginSome, Begin, Receive, files
<1>9. ASSUME NEW m \in Threads, CallStep(m) PROVE FreshInv'
  BY <1>6, <1>9
     DEF CallStep, Reply, Done, ConnectionLost, TimeOut, Save, SaveFails, ReplaceConfig, vars, files
<1>10. CASE \/ \E f \in Fields, d \in Dests : AddUrl(f, d)
            \/ \E f \in Fields : CreateField(f)
  BY <1>6, <1>10 DEF AddUrl, CreateField, ReplaceConfig, files
<1>11. CASE ManagerRestart \/ UNCHANGED nodeVars
  BY <1>6, <1>11 DEF ManagerRestart, nodeVars, vars, files
<1> QED BY <1>5, <1>7, <1>8, <1>9, <1>10, <1>11 DEF NodeNext

-----------------------------------------------------------------------------
(* The invariant and what it shows *)

\* The invariant holds when the node starts.
LEMMA NodeStarts == NodeInit => NodeInv
<1> SUFFICES ASSUME NodeInit PROVE NodeInv
  OBVIOUS
<1>1. NodeTyped /\ Tracked /\ VisitedIsSilent
  BY SupervisorStarts, NoCallTyped DEF NodeInit, NodeTyped, CallsTyped
<1>2. (\A m \in Threads : call[m].pc = "idle") /\ \A c \in Conns : req[c].pc = "idle"
  BY NoCallTyped DEF NodeInit, Init, IdleReq
<1>3. HandlerInv
  BY <1>2, NobodyServedOK
     DEF HandlerInv, Exclusive, LoadedInv, LinkInv, QuietInv, Accepted, NobodyServed, Serving
<1>4. ProcInv /\ FreshInv
  BY DEF NodeInit, Init, FreeProc, ProcInv, FreshInv, Alive
<1> QED BY <1>1, <1>3, <1>4 DEF NodeInv

\* Every step keeps the invariant.
LEMMA NodeSteps ==
  ASSUME ~PidWriteFails, NodeInv, [RestedNext]_nodeVars
  PROVE  NodeInv'
<1>1. NodeTyped /\ Tracked /\ VisitedIsSilent /\ HandlerInv /\ ProcInv /\ FreshInv
      /\ LockInv /\ CallsTyped
  BY DEF NodeInv, NodeTyped
<1>0. [NodeNext]_nodeVars
  BY DEF RestedNext
<1>2. [Next]_vars
  BY <1>0, <1>1, NodeStepIsNext
<1>3. NodeTyped'
  BY <1>0, <1>1, <1>2, CallsTypedInductive, LockInvInductive DEF NodeTyped
<1>4. Tracked' /\ VisitedIsSilent'
  BY <1>1, <1>2, TrackedInductive, SilentInductive
<1>5. HandlerInv' /\ ProcInv' /\ FreshInv'
  BY <1>0, <1>1, HandlersInductive, ProcInductive, FreshInductive
<1> QED BY <1>3, <1>4, <1>5 DEF NodeInv

\* The invariant behind the results below.
THEOREM NodeInductive == ASSUME ~PidWriteFails PROVE RestedSpec => []NodeInv
<1>1. NodeInv /\ [RestedNext]_nodeVars => NodeInv'
  BY NodeSteps
<1> QED BY <1>1, NodeStarts, PTL DEF RestedSpec

\* As long as pid files can be written and no handler begins while the supervisor is
\* at work on a request that was given up, every FFmpeg streams to the destination
\* configured at its slot, whatever is started, stopped, edited and deleted by whom,
\* fails to be saved, times out or is restarted.
THEOREM RunsAsConfigured ==
  ASSUME ~PidWriteFails PROVE RestedSpec => []RunningIsConfigured
<1>1. NodeInv => RunningIsConfigured
  BY DEF NodeInv, ProcInv, RunningIsConfigured
<1> QED BY <1>1, NodeInductive, PTL

\* Under the same conditions the status shown is true: what streams is counted and
\* never shown stopped once its pid file is written, and what is shown running
\* streams, with output of its own, what is configured.
THEOREM StatusHolds ==
  ASSUME ~PidWriteFails PROVE RestedSpec => []StatusIsTrue
<1>1. ASSUME NodeInv PROVE StatusIsTrue
  <2>0. Tracked /\ ProcInv /\ FreshInv /\ LockInv
    BY <1>1 DEF NodeInv, NodeTyped
  <2> SUFFICES ASSUME NEW s \in Configured
               PROVE  /\ Streaming(s) => \/ "stopped" \notin Statuses(s) /\ Counted(s)
                                         \/ JustSpawned(s)
                      /\ "running" \in Statuses(s) =>
                           LET p == proc[pidFile[s]]
                           IN  p.slot = s => p.st = "live" /\ p.dest = config[s[1]][s[2] + 1]
    BY DEF StatusIsTrue
  <2>1. ASSUME Streaming(s), ~JustSpawned(s)
        PROVE  "stopped" \notin Statuses(s) /\ Counted(s)
    BY <2>0, <2>1, StreamsKnown
  <2>2. ASSUME "running" \in Statuses(s), proc[pidFile[s]].slot = s
        PROVE  proc[pidFile[s]].st = "live" /\ proc[pidFile[s]].dest = config[s[1]][s[2] + 1]
    <3>1. pidFile[s] # NoPid /\ Alive(pidFile[s]) /\ HasOutput(s)
      BY <2>2 DEF Statuses
    <3>2. pidFile[s] \in Pids
      BY <2>0, <3>1 DEF LockInv, TypeOK, Configured
    <3> QED BY <2>0, <2>2, <3>1, <3>2 DEF ProcInv, FreshInv, HasOutput, Alive
  <2> QED BY <2>1, <2>2
<1> QED BY <1>1, NodeInductive, PTL

\* Under the same conditions a stop that a client is told to have succeeded has
\* stopped everything it named.
THEOREM StopHolds ==
  ASSUME ~PidWriteFails PROVE RestedSpec => StopIsStopped
<1>1. ASSUME NodeInv, [RestedNext]_nodeVars
      PROVE  [\A m \in Threads :
                Reply(m) /\ call[m].op = "stop" /\ req[call[m].conn].ok =>
                  \A i \in Indices : call[m].i \in {All, i} => ~Streaming(<<call[m].f, i>>)]_nodeVars
  <2> SUFFICES ASSUME NEW m \in Threads, Reply(m), call[m].op = "stop", req[call[m].conn].ok,
                      NEW i \in Indices, call[m].i \in {All, i}
               PROVE  ~Streaming(<<call[m].f, i>>)
    OBVIOUS
  <2>1. Accepted(m) /\ Stops(call[m].op) /\ Named(Request(call[m].op), call[m].i, i)
    BY DEF Reply, Accepted, Stops, Named
  <2> QED BY <1>1, <2>1 DEF NodeInv, HandlerInv, QuietInv
<1> QED BY <1>1, NodeInductive, PTL DEF RestedSpec, StopIsStopped

-----------------------------------------------------------------------------
(* The node implements RestreamService *)

\* What slot s streams to when the processes are pr: StreamOf, of any state.
RunningAt(pr, s) == {p \in Pids : pr[p].st \in {"new", "live"} /\ pr[p].slot = s}
StreamIn(pr, s) ==
  IF RunningAt(pr, s) = {} THEN NoDest
  ELSE (CHOOSE r \in {pr[p] : p \in RunningAt(pr, s)} : TRUE).dest
StreamsOf(pr) == [s \in Slots |-> StreamIn(pr, s)]

\* The streams of the refinement mapping are those of the processes, now and next.
LEMMA StreamNow ==
  /\ [s \in Slots |-> StreamOf(s)] = StreamsOf(proc)
  /\ [s \in Slots |-> StreamOf(s)]' = StreamsOf(proc')
<1>1. \A s : RunningAt(proc, s) = {q \in Pids : Alive(q) /\ proc[q].slot = s}
  BY DEF RunningAt, Alive
<1>2. \A s : RunningAt(proc', s) = {q \in Pids : Alive(q)' /\ proc'[q].slot = s}
  BY DEF RunningAt, Alive
<1>3. \A s : (RunningAt(proc, s) # {} <=> Streaming(s)) /\ (RunningAt(proc', s) # {} <=> Streaming(s)')
  BY <1>1, <1>2 DEF Streaming
<1>4. ASSUME NEW s PROVE StreamOf(s) = StreamIn(proc, s)
  <2> DEFINE A == {q \in Pids : Alive(q) /\ proc[q].slot = s}
  <2>1. StreamOf(s) = IF Streaming(s) THEN (CHOOSE r \in {proc[p] : p \in A} : TRUE).dest
                      ELSE NoDest
    BY DEF StreamOf
  <2>2. A = RunningAt(proc, s)
    BY <1>1
  <2> HIDE DEF A
  <2> QED BY <1>3, <2>1, <2>2 DEF StreamIn
<1>5. ASSUME NEW s PROVE StreamOf(s)' = StreamIn(proc', s)
  <2> DEFINE A == {q \in Pids : Alive(q)' /\ proc'[q].slot = s}
  <2>1. StreamOf(s)' = IF Streaming(s)' THEN (CHOOSE r \in {proc'[p] : p \in A} : TRUE).dest
                       ELSE NoDest
    BY DEF StreamOf
  <2>2. A = RunningAt(proc', s)
    BY <1>2
  <2> HIDE DEF A
  <2> QED BY <1>3, <2>1, <2>2 DEF StreamIn
<1> QED BY <1>4, <1>5 DEF StreamsOf

\* The stream of a slot with a process is that process's.
LEMMA StreamOfOne ==
  ASSUME NEW pr, OnePerSlot(pr), NEW p \in Pids, pr[p].st \in {"new", "live"}
  PROVE  StreamIn(pr, pr[p].slot) = pr[p].dest
<1> DEFINE R == RunningAt(pr, pr[p].slot)
<1>1. R = {p}
  BY DEF RunningAt, OnePerSlot
<1>2. {pr[q] : q \in R} = {pr[p]}
  BY <1>1
<1>3. (CHOOSE r \in {pr[p]} : TRUE) = pr[p]
  OBVIOUS
<1> QED BY <1>1, <1>2, <1>3 DEF StreamIn

\* A silent slot has no stream.
LEMMA SilentStream ==
  ASSUME NEW s, ~Streaming(s)
  PROVE  StreamIn(proc, s) = NoDest
BY DEF Streaming, Alive, RunningAt, StreamIn

\* Two states with the same processes alive have the same streams.
LEMMA SameStreams ==
  ASSUME NEW pr, NEW qr, OnePerSlot(pr), OnePerSlot(qr), NEW s,
         RunningAt(qr, s) = RunningAt(pr, s),
         \A p \in RunningAt(pr, s) : qr[p].dest = pr[p].dest
  PROVE  StreamIn(qr, s) = StreamIn(pr, s)
<1>1. CASE RunningAt(pr, s) = {}
  BY <1>1 DEF StreamIn
<1>2. CASE RunningAt(pr, s) # {}
  <2>1. PICK p \in Pids : p \in RunningAt(pr, s)
    BY <1>2 DEF RunningAt
  <2>2. /\ pr[p].st \in {"new", "live"} /\ pr[p].slot = s
        /\ qr[p].st \in {"new", "live"} /\ qr[p].slot = s
    BY <2>1 DEF RunningAt
  <2>3. StreamIn(pr, s) = pr[p].dest
    BY <2>2, StreamOfOne
  <2>4. StreamIn(qr, s) = qr[p].dest
    BY <2>2, StreamOfOne
  <2> QED BY <2>1, <2>3, <2>4
<1> QED BY <1>1, <1>2

\* A step of the node as the service sees it.
Implements == [S!SNext]_(S!svars)

\* A step that leaves processes and configuration is a stutter.
LEMMA SameImplements ==
  ASSUME LockDiscipline, LockDiscipline', Tracked, Tracked', SameAlive, config' = config
  PROVE  Implements
<1>1. \A s : RunningAt(proc', s) = RunningAt(proc, s)
  BY DEF SameAlive, Alive, RunningAt
<1>2. \A s : \A p \in RunningAt(proc, s) : proc'[p].dest = proc[p].dest
  BY DEF SameAlive, Alive, RunningAt
<1>3. \A s : StreamIn(proc', s) = StreamIn(proc, s)
  BY <1>1, <1>2, TrackedOnePerSlot, SameStreams
<1>4. StreamsOf(proc') = StreamsOf(proc)
  BY <1>3 DEF StreamsOf
<1> QED BY <1>4, StreamNow DEF Implements, S!svars

\* A spawn is a start.
LEMMA SpawnImplements ==
  ASSUME LockInv, LockDiscipline, LockDiscipline', Tracked, Tracked', NEW c \in Conns,
         RequestOK(req[c], config[req[c].f]),
         NEW p \in Pids, StartSpawn(c, p)
  PROVE  Implements
<1> DEFINE s == Here(c)
           d == config[s[1]][s[2] + 1]
           r == [st |-> "new", slot |-> s, dest |-> d]
<1>1. /\ config' = config /\ s \in Slots /\ config[s[1]] # NoField /\ s[2] < Len(config[s[1]])
      /\ ~Streaming(s) /\ proc'[p] = r /\ ~Alive(p)
      /\ \A q \in Pids \ {p} : proc'[q] = IF proc[q].st = "zombie" THEN FreeProc ELSE proc[q]
  BY SpawnEffect
<1>2. r.st = "new" /\ r.slot = s /\ r.dest = d
  OBVIOUS
<1> HIDE DEF r, d, s
<1>3. StreamIn(proc, s) = NoDest
  BY <1>1, SilentStream
<1>4. StreamIn(proc', s) = d
  <2>1. proc'[p].st \in {"new", "live"} /\ proc'[p].slot = s /\ proc'[p].dest = d
    BY <1>1, <1>2
  <2> QED BY <2>1, StreamOfOne, TrackedOnePerSlot
<1>5. ASSUME NEW t, t # s PROVE StreamIn(proc', t) = StreamIn(proc, t)
  <2>1. \A q \in Pids : q # p =>
          /\ proc'[q].st \in {"new", "live"} <=> proc[q].st \in {"new", "live"}
          /\ proc[q].st \in {"new", "live"} => proc'[q] = proc[q]
    BY <1>1 DEF FreeProc
  <2>2. p \notin RunningAt(proc, t) /\ p \notin RunningAt(proc', t)
    BY <1>1, <1>2, <1>5 DEF RunningAt, Alive
  <2>3. /\ RunningAt(proc', t) = RunningAt(proc, t)
        /\ \A q \in RunningAt(proc, t) : proc'[q].dest = proc[q].dest
    BY <2>1, <2>2 DEF RunningAt
  <2> QED BY <2>3, SameStreams, TrackedOnePerSlot
<1>6. StreamsOf(proc') = [StreamsOf(proc) EXCEPT ![s] = d] /\ StreamsOf(proc)[s] = NoDest
  BY <1>1, <1>3, <1>4, <1>5 DEF StreamsOf
<1>7. s[1] \in Fields /\ s[2] \in 0 .. MaxDest - 1 /\ s = <<s[1], s[2]>>
  BY <1>1
<1>8. S!StartStream(s[1], s[2])
  BY <1>1, <1>6, <1>7, StreamNow DEF S!StartStream, d
<1> QED BY <1>7, <1>8 DEF Implements, S!SNext

\* The end of a process is the end of its stream.
LEMMA ExitImplements ==
  ASSUME LockInv, LockDiscipline, LockDiscipline', Tracked, Tracked', NEW p \in Pids, Exit(p)
  PROVE  Implements
<1> DEFINE s == proc[p].slot
<1>1. /\ s \in Slots /\ Alive(p) /\ config' = config
      /\ proc'[p].st = "zombie" /\ \A q \in Pids : q # p => proc'[q] = proc[q]
  BY DEF Exit, Alive, Exists, LockInv, TypeOK, ProcType, WellFormed
<1> HIDE DEF s
<1>2. StreamIn(proc', s) = NoDest
  <2>1. RunningAt(proc', s) = {}
    BY <1>1, TrackedOnePerSlot DEF RunningAt, OnePerSlot, Alive, s
  <2> QED BY <2>1 DEF StreamIn
<1>3. ASSUME NEW t, t # s PROVE StreamIn(proc', t) = StreamIn(proc, t)
  <2>1. /\ RunningAt(proc', t) = RunningAt(proc, t)
        /\ \A q \in RunningAt(proc, t) : proc'[q].dest = proc[q].dest
    BY <1>1, <1>3 DEF RunningAt, Alive, s
  <2> QED BY <2>1, SameStreams, TrackedOnePerSlot
<1>4. StreamsOf(proc') = [StreamsOf(proc) EXCEPT ![s] = NoDest]
  BY <1>1, <1>2, <1>3 DEF StreamsOf
<1>5. S!EndStream(s) /\ s \in S!Slots
  BY <1>1, <1>4, StreamNow DEF S!EndStream, S!Slots
<1> QED BY <1>5 DEF Implements, S!SNext

\* A restart of the supervisor ends all streams.
LEMMA RestartImplements ==
  ASSUME SupervisorRestart
  PROVE  Implements
<1>1. config' = config /\ \A p \in Pids : proc'[p].st = "free"
  BY DEF SupervisorRestart, FreeProc
<1>2. \A s : StreamIn(proc', s) = NoDest
  BY <1>1 DEF StreamIn, RunningAt
<1>3. S!EndAllStreams
  BY <1>1, <1>2, StreamNow DEF S!EndAllStreams, S!Slots, StreamsOf
<1> QED BY <1>3 DEF Implements, S!SNext

\* An edit changes no stream, and is one of the service's.
LEMMA EditImplements ==
  ASSUME NodeTyped, HandlerInv, ProcInv,
         \/ \E m \in Threads : Save(m)
         \/ \E f \in Fields, d \in Dests : AddUrl(f, d)
         \/ \E f \in Fields : CreateField(f)
  PROVE  Implements
<1>0. /\ [s \in Slots |-> StreamOf(s)]' = [s \in Slots |-> StreamOf(s)]
      /\ \A s \in Slots : ~Streaming(s) => [t \in Slots |-> StreamOf(t)][s] = NoDest
  <2>1. proc' = proc
    BY DEF Save, AddUrl, CreateField, ReplaceConfig
  <2> QED BY <2>1, StreamNow, SilentStream DEF StreamsOf
<1>1. ASSUME NEW m \in Threads, Save(m) PROVE Implements
  <2> DEFINE f == call[m].f
             i == call[m].i
  <2>1. /\ f \in Fields /\ call[m].op \in Edits /\ config[f] # NoField
        /\ config' = [config EXCEPT ![f] = Edited(m)]
    BY <1>1, Saving
  <2>2. CASE call[m].op = "update_url"
    <3> DEFINE d == call[m].new
    <3>1. /\ i \in Indices /\ i < Len(config[f]) /\ d \in Dests
          /\ Edited(m) = [config[f] EXCEPT ![i + 1] = d] /\ ~Streaming(<<f, i>>)
      BY <1>1, <2>2, UpdateSaved
    <3>2. <<f, i>> \in Slots
      BY <2>1, <3>1
    <3>3. S!EditField(f, [config[f] EXCEPT ![i + 1] = d])
      BY <1>0, <2>1, <3>1 DEF S!EditField
    <3>4. [t \in Slots |-> StreamOf(t)][<<f, i>>] = NoDest
      BY <1>0, <3>1, <3>2
    <3> HIDE DEF f, i, d
    <3>5. S!UpdateEntry(f, i, d)
      BY <2>1, <3>1, <3>3, <3>4 DEF S!UpdateEntry
    <3> QED BY <2>1, <3>1, <3>5 DEF Implements, S!SNext
  <2>3. CASE call[m].op # "update_url"
    <3>1. S!Quiet(f)
      <4> SUFFICES ASSUME NEW s \in Slots, s[1] = f
                   PROVE  [t \in Slots |-> StreamOf(t)][s] = NoDest
        BY DEF S!Quiet, S!Slots
      <4>1. s[2] \in Indices /\ s = <<f, s[2]>>
        OBVIOUS
      <4>2. ~Streaming(s)
        BY <1>1, <2>3, <4>1, DeleteSaved
      <4> QED BY <1>0, <4>2
    <3>2. CASE call[m].op = "delete_url"
      <4>1. i \in Indices /\ i < Len(config[f]) /\ Edited(m) = RemoveAt(config[f], i)
        BY <1>1, <3>2, DeleteSaved
      <4>2. RemoveAt(config[f], i)
              = [k \in 1 .. Len(config[f]) - 1 |-> config[f][IF k <= i THEN k ELSE k + 1]]
        BY DEF RemoveAt
      <4> HIDE DEF f, i
      <4>3. S!DeleteEntry(f, i)
        BY <1>0, <2>1, <3>1, <4>1, <4>2 DEF S!DeleteEntry, S!EditField
      <4> QED BY <2>1, <4>1, <4>3 DEF Implements, S!SNext
    <3>3. CASE call[m].op = "delete_field"
      <4>1. Edited(m) = NoField
        BY <1>1, <3>3, DeleteSaved
      <4> HIDE DEF f
      <4>2. S!DeleteField(f)
        BY <1>0, <2>1, <3>1, <4>1 DEF S!DeleteField, S!EditField
      <4> QED BY <2>1, <4>2 DEF Implements, S!SNext
    <3> QED BY <2>1, <2>3, <3>2, <3>3 DEF Edits
  <2> QED BY <2>2, <2>3
<1>2. ASSUME NEW f \in Fields, NEW d \in Dests, AddUrl(f, d) PROVE Implements
  <2>1. S!AddEntry(f, d)
    BY <1>0, <1>2 DEF AddUrl, ReplaceConfig, S!AddEntry, S!EditField
  <2> QED BY <2>1 DEF Implements, S!SNext
<1>3. ASSUME NEW f \in Fields, CreateField(f) PROVE Implements
  <2>1. S!CreateField(f)
    BY <1>0, <1>3 DEF CreateField, ReplaceConfig, S!CreateField, S!EditField
  <2> QED BY <2>1 DEF Implements, S!SNext
<1> QED BY <1>1, <1>2, <1>3

\* Every step of the node is one of RestreamService, or a stutter.
LEMMA NodeImplements ==
  ASSUME NodeInv, NodeInv', [NodeNext]_nodeVars
  PROVE  Implements
<1>0. /\ NodeTyped /\ LockInv /\ Tracked /\ Tracked' /\ HandlerInv /\ ProcInv /\ RequestInv
      /\ LockDiscipline /\ LockDiscipline'
  BY DEF NodeInv, NodeTyped, HandlerInv, LockInv
<1>1. ASSUME proc' = proc, config' = config PROVE Implements
  BY <1>0, <1>1, SameImplements DEF SameAlive, Alive
<1>2. CASE SupervisorStep
  <2>1. ASSUME NEW c \in Conns, LockedStep(c) PROVE Implements
    <3>1. config' = config
      BY <2>1 DEF LockedStep, StartStep, StopStep, DeleteStep, StartKnown, StartSpawn,
                  StartRecord, RecordFails, StartFails, FinishStart, StopUnknown, StopTerminate, StopReap, StopKill,
                  StopGiveUp, FinishStop, DeleteStop, Compact, FinishDelete
    <3>2. RequestOK(req[c], config[req[c].f])
      BY <1>0 DEF RequestInv
    <3>3. CASE SameAlive
      BY <1>0, <3>1, <3>3, SameImplements
    <3>4. ASSUME NEW p \in Pids, StartSpawn(c, p)
          PROVE  Implements
      BY <1>0, <3>2, <3>4, SpawnImplements
    <3> QED BY <1>0, <2>1, <3>3, <3>4, LockedSame, Zenon
  <2>2. ASSUME NEW c \in Conns, EntryStep(c) \/ Done(c) PROVE Implements
    <3>1. proc' = proc /\ config' = config
      BY <2>2 DEF EntryStep, Refuse, EnterStart, EnterStop, EnterDelete, Enter, Done
    <3> QED BY <1>1, <3>1
  <2>3. ASSUME NEW p \in Pids, Output(p) PROVE Implements
    <3>1. SameAlive /\ config' = config
      BY <1>0, <2>3 DEF Output, SameAlive, Alive, LockInv, TypeOK, ProcType
    <3> QED BY <1>0, <3>1, SameImplements
  <2>4. ASSUME NEW p \in Pids, Exit(p) PROVE Implements
    BY <1>0, <2>4, ExitImplements
  <2> QED BY <1>2, <2>1, <2>2, <2>3, <2>4 DEF SupervisorStep, Serve
<1>3. CASE BeginSome
  BY <1>1, <1>3 DEF BeginSome, Begin, Receive
<1>4. ASSUME NEW m \in Threads, CallStep(m) PROVE Implements
  BY <1>0, <1>1, <1>4, EditImplements
     DEF CallStep, Reply, Done, ConnectionLost, TimeOut, SaveFails, vars
<1>5. CASE NodeSupervisorRestart
  BY <1>5, RestartImplements DEF NodeSupervisorRestart
<1>6. CASE ManagerRestart \/ UNCHANGED nodeVars
  BY <1>1, <1>6 DEF ManagerRestart, nodeVars, vars
<1> QED BY <1>0, <1>2, <1>3, <1>4, <1>5, <1>6, EditImplements DEF NodeNext

\* Under the same conditions the node implements RestreamService: seen from
\* outside, start, stop and the edits are atomic, and no entry changes under a
\* running restream.
THEOREM NodeImplementsService ==
  ASSUME ~PidWriteFails PROVE RestedSpec => ImplementsService
<1>1. NodeInit => S!SInit
  <2> SUFFICES ASSUME NodeInit PROVE S!SInit
    OBVIOUS
  <2>1. \A s : StreamIn(proc, s) = NoDest
    BY DEF NodeInit, Init, FreeProc, StreamIn, RunningAt
  <2> QED BY <2>1, StreamNow DEF NodeInit, Init, S!SInit, S!Slots, StreamsOf
<1>2. NodeInv /\ [RestedNext]_nodeVars => NodeInv'
  BY NodeSteps
<1>3. NodeInv /\ NodeInv' /\ [RestedNext]_nodeVars => [S!SNext]_(S!svars)
  BY NodeImplements DEF Implements, RestedNext
<1> QED BY <1>1, <1>2, <1>3, NodeStarts, PTL DEF RestedSpec, ImplementsService, S!Service

-----------------------------------------------------------------------------
(* When clients wait for their answers *)

\* No client gives up, and the manager is not restarted under a request.
NoGivingUp == {"timeout", "manager_restart"} \cap Faults = {}

\* Every request has a handler that waits for it.
AllAttended == \A c \in Conns : req[c].pc # "idle" => Attended(c)

PatientInv == NodeInv /\ AllAttended

\* While a handler waits, its request is the only one.
LEMMA OnlyRequest ==
  ASSUME Exclusive, AllAttended, NEW m \in Threads, call[m].pc = "waiting"
  PROVE  \A d \in Conns : d # call[m].conn => req[d].pc = "idle"
<1>1. \A n \in Threads : call[n].pc = "waiting" => n = m
  BY OthersWait
<1> QED BY <1>1 DEF AllAttended, Attended

\* While no handler waits, there is no request.
LEMMA NoRequests ==
  ASSUME AllAttended, \A m \in Threads : call[m].pc # "waiting"
  PROVE  \A c \in Conns : req[c].pc = "idle"
BY DEF AllAttended, Attended

\* No step leaves a request without its handler.
LEMMA AttendedInductive ==
  ASSUME NoGivingUp, NodeInv, AllAttended, [NodeNext]_nodeVars
  PROVE  AllAttended'
<1>0. /\ NodeTyped /\ LockInv /\ CallsTyped /\ Exclusive /\ RequestInv
      /\ VisitedIsSilent /\ ProcInv
  BY DEF NodeInv, NodeTyped, HandlerInv
<1>1. ASSUME call' = call, \A c \in Conns : req'[c].pc # "idle" => req[c].pc # "idle"
      PROVE  AllAttended'
  BY <1>1 DEF AllAttended, Attended
<1>2. ASSUME \A c \in Conns : req'[c].pc = "idle" PROVE AllAttended'
  BY <1>2 DEF AllAttended
<1>3. CASE SupervisorStep
  <2>0. call' = call
    BY <1>3 DEF SupervisorStep, managerVars
  <2>1. ASSUME NEW c \in Conns, LockedStep(c) \/ EntryStep(c) PROVE AllAttended'
    <3>1. Serving(req[c]) /\ \A d \in Conns : d # c => req'[d] = req[d]
      BY <1>0, <2>1, ServiceEffect DEF ThreadEffect
    <3> QED BY <1>1, <2>0, <3>1 DEF Serving
  <2>2. ASSUME NEW p \in Pids, Output(p) \/ Exit(p) PROVE AllAttended'
    BY <1>1, <2>0, <2>2 DEF Output, Exit
  <2>3. ASSUME NEW c \in Conns, Done(c) PROVE AllAttended'
    <3>1. \A d \in Conns : req'[d].pc # "idle" => req'[d] = req[d]
      BY <1>0, <2>3 DEF Done, IdleReq, LockInv, TypeOK
    <3> QED BY <1>1, <2>0, <3>1
  <2> QED BY <1>3, <2>1, <2>2, <2>3 DEF SupervisorStep, Serve
<1>4. ASSUME NEW m \in Threads, NEW op \in UsedOps, NEW f \in Fields,
             NEW i \in Indices \cup {All}, NEW new \in Dests \cup {NoDest},
             NEW c \in Conns, Begin(m, op, f, i, new, c)
      PROVE  AllAttended'
  <2> DEFINE r == [pc |-> "waiting", op |-> op, f |-> f, i |-> i, new |-> new, conn |-> c,
                   loaded |-> IF op \in Edits THEN config[f] ELSE <<>>]
  <2>1. configLock = NoThread /\ call' = [call EXCEPT ![m] = r]
    BY <1>4 DEF Begin
  <2>2. r.pc = "waiting" /\ r.conn = c
    OBVIOUS
  <2> HIDE DEF r
  <2>3. \A d \in Conns : d # c => req'[d] = req[d]
    BY <1>0, <1>4 DEF Begin, Receive, LockInv, TypeOK
  <2>4. \A d \in Conns : req[d].pc = "idle"
    BY <1>0, <2>1, NobodyRuns, NoRequests
  <2>5. call'[m].pc = "waiting" /\ call'[m].conn = c
    BY <1>0, <2>1, <2>2 DEF CallsTyped
  <2> QED BY <2>3, <2>4, <2>5 DEF AllAttended, Attended
<1>5. ASSUME NEW m \in Threads, CallStep(m) PROVE AllAttended'
  <2>1. CASE Reply(m)
    <3>1. call[m].pc = "waiting" /\ call[m].conn \in Conns
          /\ req' = [req EXCEPT ![call[m].conn] = IdleReq]
      BY <1>0, <2>1 DEF Reply, Done, CallsTyped
    <3>2. \A d \in Conns : d # call[m].conn => req[d].pc = "idle"
      BY <1>0, <3>1, OnlyRequest
    <3> QED BY <1>0, <1>2, <3>1, <3>2 DEF IdleReq, LockInv, TypeOK
  <2>2. CASE ConnectionLost(m)
    <3>1. call[m].pc = "waiting" /\ req[call[m].conn].pc = "idle" /\ req' = req
      BY <2>2 DEF ConnectionLost, At, vars
    <3>2. \A d \in Conns : d # call[m].conn => req[d].pc = "idle"
      BY <1>0, <3>1, OnlyRequest
    <3> QED BY <1>2, <3>1, <3>2
  <2>3. CASE TimeOut(m)
    BY <2>3 DEF TimeOut, NoGivingUp
  <2>4. CASE Save(m) \/ SaveFails(m)
    <3>1. call[m].pc = "saving" /\ req' = req
      BY <2>4 DEF Save, SaveFails, ReplaceConfig, vars
    <3>2. \A n \in Threads : call[n].pc # "waiting"
      BY <1>0, <3>1, NobodyWaits
    <3> QED BY <1>2, <3>1, <3>2, NoRequests
  <2> QED BY <1>5, <2>1, <2>2, <2>3, <2>4 DEF CallStep
<1>6. CASE \/ \E f \in Fields, d \in Dests : AddUrl(f, d)
           \/ \E f \in Fields : CreateField(f)
  BY <1>1, <1>6 DEF AddUrl, CreateField, ReplaceConfig, managerVars
<1>7. CASE NodeSupervisorRestart
  BY <1>2, <1>7 DEF NodeSupervisorRestart, SupervisorRestart, IdleReq
<1>8. CASE ManagerRestart
  BY <1>8 DEF ManagerRestart, NoGivingUp
<1>9. CASE UNCHANGED nodeVars
  BY <1>1, <1>9 DEF nodeVars, vars, managerVars
<1> QED BY <1>3, <1>4, <1>5, <1>6, <1>7, <1>8, <1>9 DEF NodeNext, BeginSome

\* Then whoever takes the lock finds the supervisor at rest.
LEMMA PatientRests ==
  ASSUME NodeInv, AllAttended, [NodeNext]_nodeVars
  PROVE  [RestedNext]_nodeVars
<1>1. configLock = NoThread => NobodyServed
  <2>1. configLock = NoThread => \A m \in Threads : call[m].pc # "waiting"
    BY NobodyRuns DEF NodeInv, HandlerInv
  <2> QED BY <2>1, NoRequests DEF NobodyServed, Serving
<1>2. AtRest
  BY <1>1 DEF AtRest, NobodyServed
<1> QED BY <1>2 DEF RestedNext

\* Every step keeps the invariant of patient clients.
LEMMA PatientSteps ==
  ASSUME NoGivingUp, ~PidWriteFails, PatientInv, [NodeNext]_nodeVars
  PROVE  PatientInv'
BY NodeSteps, AttendedInductive, PatientRests DEF PatientInv

\* The invariant holds when the node starts.
LEMMA PatientStarts == NodeInit => PatientInv
<1>1. NodeInit => AllAttended
  BY DEF NodeInit, Init, IdleReq, AllAttended
<1> QED BY <1>1, NodeStarts DEF PatientInv

\* As long as no client gives up and pid files can be written, the manager's
\* lock is enough: no handler begins while the supervisor is at work.
THEOREM PatientNodeRests == ASSUME NoGivingUp, ~PidWriteFails PROVE NodeSpec => RestedSpec
<1>1. PatientInv /\ [NodeNext]_nodeVars => PatientInv'
  BY PatientSteps
<1>2. PatientInv /\ [NodeNext]_nodeVars => [RestedNext]_nodeVars
  BY PatientRests DEF PatientInv
<1> QED BY <1>1, <1>2, PatientStarts, PTL DEF NodeSpec, RestedSpec

\* Hence all of the above holds of the node itself, as it is, when no client
\* gives up: what runs is what is configured, the status shown is true, a stop is
\* one, and the node implements RestreamService.
THEOREM PatientNode ==
  ASSUME NoGivingUp, ~PidWriteFails
  PROVE  NodeSpec => /\ []RunningIsConfigured /\ []StatusIsTrue
                     /\ StopIsStopped /\ ImplementsService
BY PatientNodeRests, RunsAsConfigured, StatusHolds, StopHolds, NodeImplementsService

-----------------------------------------------------------------------------
(* Logs follow their destinations *)

\* Nothing fails to be saved or restarts, and administrators enter destinations
\* that were never used; a list has no destination twice, and without one of its
\* entries it still is one.
CleanLogs ==
  /\ Faults = {} /\ FreshDests /\ ~PidWriteFails
  /\ \A list \in DestLists :
       /\ \A j, k \in 1 .. Len(list) : list[j] = list[k] => j = k
       /\ \A i \in 0 .. Len(list) - 1 : RemoveAt(list, i) \in DestLists

\* While destination i is being deleted and the files of the indices in todo
\* have not been moved: where the output of destination j may be.
InPlace(i, todo, j, x) == IF j < i \/ j \in todo THEN x = j ELSE j # i /\ x = j - 1

\* The output of a destination in the list is nowhere else.
Placed(list, f, lg, i, todo) ==
  \A j \in 0 .. Len(list) - 1, x \in Indices :
    list[j + 1] \in lg[<<f, x>>] => InPlace(i, todo, j, x)

InOrder(list, f, lg) ==
  \A j \in 0 .. Len(list) - 1, x \in Indices : list[j + 1] \in lg[<<f, x>>] => x = j

\* The files that have not been moved are those from some index up.
Upper(todo, i, n) ==
  /\ todo \subseteq i .. n - 1
  /\ \A a \in todo, b \in i .. n - 1 : a <= b => b \in todo

\* A deletion goes by the list it read first.
RequestLogs(r, list, lg) ==
  /\ r.act = "delete_destination" /\ r.pc \in {"delete", "stop", "term", "kill"} =>
       r.snap = list
  /\ r.pc = "compact" => Upper(r.todo, r.i, Len(list)) /\ Placed(list, r.f, lg, r.i, r.todo)

\* The supervisor has moved the files, the manager has not saved yet.
Moved(m) == call[m].op = "delete_url" /\ Accepted(m)

Shifting(f) ==
  \/ \E c \in Conns : At(c, "compact") /\ req[c].f = f
  \/ \E m \in Threads : Moved(m) /\ call[m].f = f

\* A destination that no list and no log holds.
NeverUsed(d, lg, lists) ==
  /\ \A s \in Slots : d \notin lg[s]
  /\ \A f \in Fields : lists[f] # NoField =>
       \A k \in 1 .. Len(lists[f]) : lists[f][k] # d

LogInv ==
  /\ \A c \in Conns : RequestLogs(req[c], config[req[c].f], log)
  /\ \A m \in Threads : Moved(m) => Placed(config[call[m].f], call[m].f, log, call[m].i, {})
  /\ \A f \in Fields : config[f] # NoField /\ ~Shifting(f) => InOrder(config[f], f, log)
  /\ \A m \in Threads : call[m].pc # "idle" /\ call[m].op = "update_url" =>
       call[m].new = NoDest \/ NeverUsed(call[m].new, log, config)

\* Before any file is moved the order is what it was.
LEMMA ShiftBegins ==
  ASSUME NEW list, NEW f, NEW lg, NEW i \in Nat, Len(list) \in Nat, InOrder(list, f, lg)
  PROVE  /\ Placed(list, f, lg, i, i .. Len(list) - 1)
         /\ Upper(i .. Len(list) - 1, i, Len(list))
<1>1. \A j \in 0 .. Len(list) - 1 : j < i \/ j \in i .. Len(list) - 1
  OBVIOUS
<1>2. Placed(list, f, lg, i, i .. Len(list) - 1)
  BY <1>1 DEF Placed, InOrder, InPlace
<1> QED BY <1>2 DEF Upper

\* The next file moves down, or goes if it is that of the entry to be deleted.
FileMoved(f, lg, new, i, k) ==
  \A x \in Indices :
    new[<<f, x>>] =
      IF k = i THEN IF x = i THEN {} ELSE lg[<<f, x>>]
      ELSE IF lg[<<f, k>>] = {} THEN lg[<<f, x>>]
      ELSE IF x = k THEN {} ELSE IF x = k - 1 THEN lg[<<f, k>>] ELSE lg[<<f, x>>]

\* Compacting: a file that is moved is in the place of its destination.
LEMMA FileMoves ==
  ASSUME NEW list, NEW f, NEW lg, NEW new, NEW i \in Nat, Len(list) \in Nat,
         Len(list) <= MaxDest, NEW todo, Upper(todo, i, Len(list)),
         NEW k \in todo, \A j \in todo : k <= j,
         Placed(list, f, lg, i, todo), FileMoved(f, lg, new, i, k)
  PROVE  /\ Placed(list, f, new, i, todo \ {k})
         /\ Upper(todo \ {k}, i, Len(list))
<1> DEFINE n == Len(list)
<1>0. k \in i .. n - 1 /\ n \in Nat /\ MaxDest \in Nat /\ k \in Nat /\ k \in Indices
  BY ConstantsAssumption DEF Upper
<1>1. \A b \in i .. n - 1 : k <= b <=> b \in todo
  BY DEF Upper
<1>2. Upper(todo \ {k}, i, n)
  BY <1>0 DEF Upper
<1>3. ASSUME NEW j \in 0 .. n - 1, NEW x \in Indices, list[j + 1] \in new[<<f, x>>]
      PROVE  InPlace(i, todo \ {k}, j, x)
  <2>0. j \in Nat /\ x \in Nat /\ (j >= i => (k <= j <=> j \in todo))
    BY <1>0, <1>1, <1>3
  <2>1. \A y \in Indices : list[j + 1] \in lg[<<f, y>>] => InPlace(i, todo, j, y)
    BY <1>3 DEF Placed
  <2>2. CASE k = i
    <3>1. x # i /\ list[j + 1] \in lg[<<f, x>>]
      BY <1>3, <2>2 DEF FileMoved
    <3>2. InPlace(i, todo, j, x)
      BY <2>1, <3>1
    <3> QED BY <1>0, <2>0, <2>2, <3>1, <3>2 DEF InPlace
  <2>3. CASE k # i /\ lg[<<f, k>>] = {}
    <3>1. x # k /\ list[j + 1] \in lg[<<f, x>>]
      BY <1>0, <1>3, <2>3 DEF FileMoved
    <3>2. InPlace(i, todo, j, x)
      BY <2>1, <3>1
    <3> QED BY <1>0, <2>0, <3>1, <3>2 DEF InPlace
  <2>4. CASE k # i /\ lg[<<f, k>>] # {} /\ x = k - 1
    <3>1. list[j + 1] \in lg[<<f, k>>]
      BY <1>0, <1>3, <2>4 DEF FileMoved
    <3>2. InPlace(i, todo, j, k)
      BY <1>0, <2>1, <3>1
    <3>3. k > i
      BY <1>0, <2>4
    <3> QED BY <1>0, <2>0, <2>4, <3>2, <3>3 DEF InPlace
  <2>5. CASE k # i /\ lg[<<f, k>>] # {} /\ x # k - 1
    <3>1. x # k /\ list[j + 1] \in lg[<<f, x>>]
      BY <1>0, <1>3, <2>5 DEF FileMoved
    <3>2. InPlace(i, todo, j, x)
      BY <2>1, <3>1
    <3> QED BY <1>0, <2>0, <2>5, <3>1, <3>2 DEF InPlace
  <2> QED BY <2>2, <2>3, <2>4, <2>5
<1> QED BY <1>2, <1>3 DEF Placed

\* When all have been moved the order is that of the list without the entry.
LEMMA ShiftEnds ==
  ASSUME NEW list, NEW f, NEW lg, NEW i \in Nat, Len(list) \in Nat, i < Len(list),
         Placed(list, f, lg, i, {}), NEW new, new = RemoveAt(list, i), Len(new) = Len(list) - 1
  PROVE  InOrder(new, f, lg)
<1> SUFFICES ASSUME NEW j \in 0 .. Len(new) - 1, NEW x \in Indices,
                    new[j + 1] \in lg[<<f, x>>]
             PROVE  x = j
  BY DEF InOrder
<1>1. /\ j + 1 \in 1 .. Len(list) - 1 /\ j \in Nat /\ x \in Int
      /\ j \in 0 .. Len(list) - 1 /\ j + 1 \in 0 .. Len(list) - 1
  BY ConstantsAssumption
<1>2. new[j + 1] = IF j + 1 <= i THEN list[j + 1] ELSE list[j + 2]
  <2>1. new[j + 1] = IF j + 1 <= i THEN list[j + 1] ELSE list[(j + 1) + 1]
    BY <1>1 DEF RemoveAt
  <2>2. (j + 1) + 1 = j + 2
    BY <1>1
  <2> QED BY <2>1, <2>2
<1>3. CASE j + 1 <= i
  <2>1. InPlace(i, {}, j, x)
    BY <1>1, <1>2, <1>3 DEF Placed
  <2> QED BY <1>1, <1>3, <2>1 DEF InPlace
<1>4. CASE ~(j + 1 <= i)
  <2>1. list[(j + 1) + 1] \in lg[<<f, x>>]
    <3>1. (j + 1) + 1 = j + 2
      BY <1>1
    <3> QED BY <1>2, <1>4, <3>1
  <2>2. InPlace(i, {}, j + 1, x)
    BY <1>1, <2>1 DEF Placed
  <2> QED BY <1>1, <1>4, <2>2 DEF InPlace
<1> QED BY <1>3, <1>4

\* An entry that no log has seen changes no order.
LEMMA FreshEntry ==
  ASSUME NEW list, NEW f \in Fields, NEW lg, InOrder(list, f, lg),
         NEW new, Len(new) \in Nat, NEW d, \A s \in Slots : d \notin lg[s],
         \A j \in 0 .. Len(new) - 1 :
           new[j + 1] = d \/ (j \in 0 .. Len(list) - 1 /\ new[j + 1] = list[j + 1])
  PROVE  InOrder(new, f, lg)
<1> SUFFICES ASSUME NEW j \in 0 .. Len(new) - 1, NEW x \in Indices,
                    new[j + 1] \in lg[<<f, x>>]
             PROVE  x = j
  BY DEF InOrder
<1>1. <<f, x>> \in Slots
  OBVIOUS
<1>2. j \in 0 .. Len(list) - 1 /\ new[j + 1] = list[j + 1]
  BY <1>1
<1> QED BY <1>2 DEF InOrder

\* A start writes to the log of its slot, and names its own destination.
LEMMA OutputBegins ==
  ASSUME NEW list, NEW f, NEW lg, NEW new, InOrder(list, f, lg),
         NEW h \in 0 .. Len(list) - 1,
         \A j, k \in 1 .. Len(list) : list[j] = list[k] => j = k, Len(list) \in Nat,
         \A x \in Indices :
           new[<<f, x>>] \subseteq lg[<<f, x>>] \cup (IF x = h THEN {list[h + 1]} ELSE {})
  PROVE  InOrder(list, f, new)
<1> SUFFICES ASSUME NEW j \in 0 .. Len(list) - 1, NEW x \in Indices,
                    list[j + 1] \in new[<<f, x>>], ~(list[j + 1] \in lg[<<f, x>>])
             PROVE  x = j
  BY DEF InOrder
<1>1. x = h /\ list[j + 1] = list[h + 1]
  OBVIOUS
<1>2. j + 1 \in 1 .. Len(list) /\ h + 1 \in 1 .. Len(list)
  OBVIOUS
<1>3. j + 1 = h + 1
  BY <1>1, <1>2
<1> QED BY <1>1, <1>3

\* What an administrator enters was never used.
LEMMA EnteredIsNew ==
  ASSUME CleanLogs, NEW d, Entered(d)
  PROVE  NeverUsed(d, log, config)
BY DEF CleanLogs, Entered, NeverUsed

\* A configured list is one.
LEMMA ListTyped ==
  ASSUME NodeTyped, NEW f \in Fields, config[f] # NoField
  PROVE  /\ config[f] \in DestLists /\ config[f] \in Seq(Dests)
         /\ Len(config[f]) \in Nat /\ Len(config[f]) <= MaxDest
<1>1. config[f] \in DestLists
  BY DEF NodeTyped, LockInv, TypeOK
<1>2. config[f] \in Seq(Dests) /\ Len(config[f]) <= MaxDest
  BY <1>1, ConstantsAssumption
<1>3. Len(config[f]) \in Nat
  BY <1>2
<1> QED BY <1>1, <1>2, <1>3

\* Neither lists nor logs change, and no deletion moves a file or is over.
LEMMA LogKept ==
  ASSUME LogInv, config' = config, log' = log,
         \A c \in Conns :
           \/ req'[c] = req[c]
           \/ /\ req[c].pc # "compact" /\ req'[c].pc # "compact"
              /\ req'[c].act = "delete_destination"
                   /\ req'[c].pc \in {"delete", "stop", "term", "kill"} =>
                   req'[c].snap = config[req'[c].f],
         \A m \in Threads :
           /\ Moved(m)' <=> Moved(m)
           /\ Moved(m) => call'[m].f = call[m].f /\ call'[m].i = call[m].i,
         \A m \in Threads : call'[m].pc # "idle" /\ call'[m].op = "update_url" =>
           call'[m].new = NoDest \/ NeverUsed(call'[m].new, log, config)
  PROVE  LogInv'
<1>1. ASSUME NEW c \in Conns
      PROVE  RequestLogs(req'[c], config[req'[c].f], log)
  BY DEF LogInv, RequestLogs
<1>2. ASSUME NEW m \in Threads, Moved(m)'
      PROVE  Placed(config[call'[m].f], call'[m].f, log, call'[m].i, {})
  <2>1. Moved(m) /\ call'[m].f = call[m].f /\ call'[m].i = call[m].i
    BY <1>2
  <2> QED BY <2>1 DEF LogInv
<1>3. \A f \in Fields : Shifting(f)' <=> Shifting(f)
  <2> SUFFICES ASSUME NEW f \in Fields PROVE Shifting(f)' <=> Shifting(f)
    OBVIOUS
  <2>1. \A c \in Conns : At(c, "compact") /\ req[c].f = f <=>
                         At(c, "compact")' /\ req'[c].f = f
    BY DEF At
  <2>2. \A m \in Threads : Moved(m) /\ call[m].f = f <=> Moved(m)' /\ call'[m].f = f
    OBVIOUS
  <2> QED BY <2>1, <2>2 DEF Shifting
<1> QED BY <1>1, <1>2, <1>3 DEF LogInv

\* Lists are in order when nothing is moved, before or after.
LEMMA LogOrdered ==
  ASSUME \A c \in Conns : req'[c].pc # "compact" /\
           (req'[c].act = "delete_destination"
              /\ req'[c].pc \in {"delete", "stop", "term", "kill"} =>
              req'[c].snap = config'[req'[c].f]),
         \A m \in Threads : ~Moved(m)',
         \A f \in Fields : config'[f] # NoField => InOrder(config'[f], f, log'),
         \A m \in Threads : call'[m].pc # "idle" /\ call'[m].op = "update_url" =>
           call'[m].new = NoDest \/ NeverUsed(call'[m].new, log', config')
  PROVE  LogInv'
<1>1. \A c \in Conns : RequestLogs(req'[c], config'[req'[c].f], log')
  BY DEF RequestLogs
<1> QED BY <1>1 DEF LogInv

\* When nothing is moved all lists are in order.
LEMMA AllInOrder ==
  ASSUME LogInv, \A c \in Conns : req[c].pc # "compact", \A m \in Threads : ~Moved(m)
  PROVE  \A f \in Fields : config[f] # NoField => InOrder(config[f], f, log)
BY DEF LogInv, Shifting, At

\* While a request is served: its handler waits, and nobody else does anything.
LEMMA OneServed ==
  ASSUME NodeTyped, HandlerInv, AllAttended, NEW c \in Conns, Serving(req[c])
  PROVE  \E m \in Threads :
           /\ call[m].pc = "waiting" /\ call[m].conn = c
           /\ \A n \in Threads : n # m => call[n].pc = "idle"
           /\ \A d \in Conns : d # c => req[d].pc = "idle"
           /\ \A n \in Threads : ~Moved(n)
           /\ req[c].act = Request(call[m].op) /\ req[c].f = call[m].f
           /\ req[c].i = call[m].i
<1>1. PICK m \in Threads : call[m].pc = "waiting" /\ call[m].conn = c
  BY DEF AllAttended, Attended, Serving
<1>2. \A n \in Threads : n # m => call[n].pc = "idle"
  BY <1>1 DEF HandlerInv, Exclusive
<1>3. \A d \in Conns : d # c => req[d].pc = "idle"
  BY <1>1, OnlyRequest DEF HandlerInv
<1>4. \A n \in Threads : ~Moved(n)
  BY <1>1, <1>2 DEF Moved, Accepted, At, Serving
<1>5. req[c].act = Request(call[m].op) /\ req[c].f = call[m].f /\ req[c].i = call[m].i
  BY <1>1 DEF HandlerInv, LinkInv
<1> QED BY <1>1, <1>2, <1>3, <1>4, <1>5

\* What a start writes to the logs: the destination of one slot, to its own.
LogGrows(f, list, lg, new) ==
  \E h \in 0 .. Len(list) - 1 : \A g \in Fields, x \in Indices :
    new[<<g, x>>] \subseteq
      lg[<<g, x>>] \cup (IF g = f /\ x = h THEN {list[h + 1]} ELSE {})

\* A step of a request that moves no file.
LEMMA ThreadLogs ==
  ASSUME NodeTyped, HandlerInv, AllAttended, LogInv, CleanLogs, NEW c \in Conns, Serving(req[c]),
         req[c].pc # "compact", req'[c].pc # "compact", call' = call, config' = config,
         \A d \in Conns : d # c => req'[d] = req[d],
         req'[c].pc = "answered" /\ req'[c].ok => req[c].act # "delete_destination",
         req'[c].act = "delete_destination"
           /\ req'[c].pc \in {"delete", "stop", "term", "kill"} =>
           req'[c].snap = config[req'[c].f],
         \/ log' = log
         \/ /\ req[c].act \in {"start", "restart"} /\ req[c].f \in Fields
            /\ config[req[c].f] # NoField
            /\ LogGrows(req[c].f, config[req[c].f], log, log')
  PROVE  LogInv'
<1>1. PICK m \in Threads :
        /\ call[m].pc = "waiting" /\ call[m].conn = c
        /\ \A n \in Threads : n # m => call[n].pc = "idle"
        /\ \A d \in Conns : d # c => req[d].pc = "idle"
        /\ \A n \in Threads : ~Moved(n)
        /\ req[c].act = Request(call[m].op) /\ req[c].f = call[m].f
        /\ req[c].i = call[m].i
  BY OneServed
<1>2. \A d \in Conns : req'[d].pc # "compact" /\
        (req'[d].act = "delete_destination"
           /\ req'[d].pc \in {"delete", "stop", "term", "kill"} =>
           req'[d].snap = config'[req'[d].f])
  BY <1>1
<1>3. \A n \in Threads : ~Moved(n)'
  <2> SUFFICES ASSUME NEW n \in Threads, Moved(n)' PROVE FALSE
    OBVIOUS
  <2>1. n = m /\ call[m].op = "delete_url"
    BY <1>1 DEF Moved, Accepted
  <2>2. req'[c].pc = "answered" /\ req'[c].ok
    BY <1>1, <2>1 DEF Moved, Accepted, At
  <2>3. req[c].act = "delete_destination"
    BY <1>1, <2>1 DEF Request
  <2> QED BY <2>2, <2>3
<1>4. \A f \in Fields : config[f] # NoField => InOrder(config[f], f, log)
  BY <1>1, AllInOrder
<1>5. \A f \in Fields : config[f] # NoField => InOrder(config[f], f, log')
  <2>1. CASE log' = log
    BY <1>4, <2>1
  <2>2. CASE /\ config[req[c].f] # NoField /\ req[c].f \in Fields
             /\ LogGrows(req[c].f, config[req[c].f], log, log')
    <3> DEFINE g == req[c].f
    <3>1. PICK h \in 0 .. Len(config[g]) - 1 : \A f \in Fields, x \in Indices :
            log'[<<f, x>>] \subseteq
              log[<<f, x>>] \cup (IF f = g /\ x = h THEN {config[g][h + 1]} ELSE {})
      BY <2>2 DEF LogGrows
    <3> SUFFICES ASSUME NEW f \in Fields, config[f] # NoField
                 PROVE  InOrder(config[f], f, log')
      OBVIOUS
    <3>2. CASE f = g
      <4>1. /\ Len(config[g]) \in Nat
            /\ \A j, k \in 1 .. Len(config[g]) : config[g][j] = config[g][k] => j = k
        BY <2>2, ListTyped DEF CleanLogs
      <4>2. \A x \in Indices :
              log'[<<g, x>>] \subseteq
                log[<<g, x>>] \cup (IF x = h THEN {config[g][h + 1]} ELSE {})
        BY <2>2, <3>1
      <4>3. InOrder(config[g], g, log)
        BY <1>4, <2>2
      <4> HIDE DEF g
      <4> QED BY <3>2, <4>1, <4>2, <4>3, OutputBegins
    <3>3. CASE f # g
      BY <1>4, <3>1, <3>3 DEF InOrder
    <3> QED BY <3>2, <3>3
  <2> QED BY <2>1, <2>2
<1>6. \A n \in Threads : call'[n].pc # "idle" /\ call'[n].op = "update_url" =>
        call'[n].new = NoDest \/ NeverUsed(call'[n].new, log', config')
  <2> SUFFICES ASSUME NEW n \in Threads, call[n].pc # "idle", call[n].op = "update_url"
               PROVE  call[n].new = NoDest \/ NeverUsed(call[n].new, log', config)
    OBVIOUS
  <2>1. n = m /\ req[c].act = "stop"
    BY <1>1 DEF Request
  <2>2. log' = log
    BY <2>1
  <2> QED BY <2>2 DEF LogInv
<1> QED BY <1>2, <1>3, <1>5, <1>6, LogOrdered

\* An answer that does not confirm a deletion.
LEMMA AnswerLogs ==
  ASSUME NodeTyped, HandlerInv, AllAttended, LogInv, CleanLogs, NEW c \in Conns, Serving(req[c]),
         req[c].pc # "compact", call' = call, config' = config,
         NEW ok \in BOOLEAN, Answer(c, ok), ok => req[c].act # "delete_destination",
         \/ log' = log
         \/ /\ req[c].act \in {"start", "restart"} /\ req[c].f \in Fields
            /\ config[req[c].f] # NoField
            /\ LogGrows(req[c].f, config[req[c].f], log, log')
  PROVE  LogInv'
<1> DEFINE r == [IdleReq EXCEPT !.pc = "answered", !.ok = ok]
<1>1. req' = [req EXCEPT ![c] = r]
  BY DEF Answer
<1>2. r.pc = "answered" /\ (r.ok <=> ok)
  BY DEF IdleReq
<1> HIDE DEF r
<1>3. req'[c] = r /\ \A d \in Conns : d # c => req'[d] = req[d]
  BY <1>1 DEF NodeTyped, LockInv, TypeOK
<1> QED BY <1>2, <1>3, ThreadLogs

\* A request goes on and moves no file.
LEMMA MoveLogs ==
  ASSUME NodeTyped, HandlerInv, AllAttended, LogInv, CleanLogs, NEW c \in Conns, Serving(req[c]),
         req[c].pc # "compact", call' = call, config' = config,
         NEW r, req' = [req EXCEPT ![c] = r], Serving(r), r.pc # "compact",
         r.act = "delete_destination" /\ r.pc \in {"delete", "stop", "term", "kill"} =>
           r.snap = config[r.f],
         \/ log' = log
         \/ /\ req[c].act \in {"start", "restart"} /\ req[c].f \in Fields
            /\ config[req[c].f] # NoField
            /\ LogGrows(req[c].f, config[req[c].f], log, log')
  PROVE  LogInv'
<1>1. req'[c] = r /\ \A d \in Conns : d # c => req'[d] = req[d]
  BY DEF NodeTyped, LockInv, TypeOK
<1>2. r.pc # "answered"
  BY DEF Serving
<1> QED BY <1>1, <1>2, ThreadLogs

\* Entering the supervisor's lock, or being refused, moves no log.
LEMMA EntryLogs ==
  ASSUME NodeTyped, HandlerInv, AllAttended, LogInv, CleanLogs, NEW c \in Conns, EntryStep(c),
         call' = call
  PROVE  LogInv'
<1>0. req[c] \in ReqType /\ RequestOK(req[c], config[req[c].f])
  BY DEF NodeTyped, LockInv, TypeOK, HandlerInv, RequestInv
<1>1. req[c].pc \in Waiting /\ config' = config /\ log' = log
  BY DEF EntryStep, Refuse, EnterStart, EnterStop, EnterDelete, Enter, At, Waiting, files
<1>2. Serving(req[c]) /\ req[c].pc # "compact"
  BY <1>1 DEF Serving, Waiting
<1>3. CASE Refuse(c)
  BY <1>1, <1>2, <1>3, AnswerLogs DEF Refuse
<1>4. ASSUME NEW from, NEW to,
             \/ from = "want_start" /\ to = "start"
             \/ from = "want_stop" /\ to = "stop"
             \/ from = "want_delete" /\ to = "delete",
             Enter(c, from, to)
      PROVE  LogInv'
  <2> DEFINE sel == Selected(req[c].f, req[c].i)
             snap == IF to = "stop" THEN <<>> ELSE config[req[c].f]
             r == [req[c] EXCEPT !.pc = to, !.sel = sel, !.todo = sel, !.snap = snap]
  <2>1. req' = [req EXCEPT ![c] = r] /\ req[c].pc = from
    BY <1>0, <1>4 DEF Enter, At, NodeTyped, LockInv, TypeOK
  <2>2. to = "stop" => req[c].act # "delete_destination"
    BY <1>0, <1>4, <2>1 DEF RequestOK
  <2>3. to # "stop" => snap = config[req[c].f]
    OBVIOUS
  <2> HIDE DEF sel, snap
  <2>4. r.pc = to /\ r.act = req[c].act /\ r.f = req[c].f /\ r.snap = snap
    BY <1>0 DEF ReqType
  <2> HIDE DEF r
  <2>5. /\ Serving(r) /\ r.pc # "compact"
        /\ r.act = "delete_destination" /\ r.pc \in {"delete", "stop", "term", "kill"} =>
             r.snap = config[r.f]
    BY <1>4, <2>2, <2>3, <2>4 DEF Serving
  <2> QED BY <1>1, <1>2, <2>1, <2>5, MoveLogs
<1> QED BY <1>3, <1>4 DEF EntryStep, EnterStart, EnterStop, EnterDelete

\* A start writes to the log of the slot whose entry it read.
LEMMA StartLogs ==
  ASSUME NodeTyped, HandlerInv, AllAttended, LogInv, CleanLogs, NEW c \in Conns, StartStep(c),
         call' = call
  PROVE  LogInv'
<1>0. /\ req[c] \in ReqType /\ RequestOK(req[c], config[req[c].f]) /\ LockInv
      /\ log \in [Slots -> SUBSET Dests]
  BY DEF NodeTyped, LockInv, TypeOK, HandlerInv, RequestInv
<1>1. req[c].pc \in {"start", "spawned"} /\ config' = config
  BY <1>0, StartMoves
<1>2. /\ Serving(req[c]) /\ req[c].pc # "compact"
      /\ req[c].act \in {"start", "restart"} /\ req[c].f \in Fields
      /\ config[req[c].f] # NoField /\ req[c].snap = config[req[c].f]
  <2>1. req[c].f \in Fields
    BY <1>0 DEF ReqType
  <2>2. /\ req[c].act \in {"start", "restart"}
        /\ config[req[c].f] # NoField /\ req[c].snap = config[req[c].f]
    BY <1>0, <1>1 DEF RequestOK
  <2> QED BY <1>1, <2>1, <2>2 DEF Serving
<1>3. req[c].act # "delete_destination"
  BY <1>2
<1>4. \/ log' = log
      \/ Looping(c, "start") /\ log' = [log EXCEPT ![Here(c)] =
                                          @ \cup {req[c].snap[Here(c)[2] + 1]}]
  BY DEF StartStep, StartKnown, StartSpawn, StartRecord, RecordFails, StartFails,
         FinishStart, PrepareSlot, files
<1>5. log' = log \/ LogGrows(req[c].f, config[req[c].f], log, log')
  <2> SUFFICES ASSUME Looping(c, "start"),
                      log' = [log EXCEPT ![Here(c)] =
                                log[Here(c)] \cup {req[c].snap[Here(c)[2] + 1]}]
               PROVE  LogGrows(req[c].f, config[req[c].f], log, log')
    BY <1>4
  <2> DEFINE h == Here(c)[2]
             d == req[c].snap[h + 1]
  <2>1. /\ Here(c) \in Slots /\ h \in 0 .. Len(config[req[c].f]) - 1
        /\ Here(c) = <<req[c].f, h>>
    BY <1>0, <1>2, StartTyped DEF Here
  <2>2. d = config[req[c].f][h + 1]
    BY <1>2
  <2>3. log' = [log EXCEPT ![Here(c)] = log[Here(c)] \cup {d}]
    OBVIOUS
  <2> HIDE DEF h, d
  <2>4. \A g \in Fields, x \in Indices :
          log'[<<g, x>>] \subseteq
            log[<<g, x>>] \cup (IF g = req[c].f /\ x = h THEN {d} ELSE {})
    <3> SUFFICES ASSUME NEW g \in Fields, NEW x \in Indices
                 PROVE  log'[<<g, x>>] \subseteq
                   log[<<g, x>>] \cup (IF g = req[c].f /\ x = h THEN {d} ELSE {})
      OBVIOUS
    <3>1. <<g, x>> \in Slots
      OBVIOUS
    <3>2. log'[<<g, x>>] = IF <<g, x>> = Here(c) THEN log[<<g, x>>] \cup {d} ELSE log[<<g, x>>]
      BY <1>0, <2>1, <2>3, <3>1
    <3>3. <<g, x>> = Here(c) => g = req[c].f /\ x = h
      BY <2>1
    <3> QED BY <3>2, <3>3
  <2> QED BY <2>1, <2>2, <2>4 DEF LogGrows
<1>6. ASSUME NEW r, req' = [req EXCEPT ![c] = r], r.pc \in {"start", "spawned"},
             r.act = req[c].act
      PROVE  LogInv'
  <2>1. Serving(r) /\ r.pc # "compact" /\ r.act # "delete_destination"
    BY <1>3, <1>6 DEF Serving
  <2> QED BY <1>1, <1>2, <1>5, <1>6, <2>1, MoveLogs
<1>7. ASSUME NEW ok \in BOOLEAN, Answer(c, ok) PROVE LogInv'
  BY <1>1, <1>2, <1>3, <1>5, <1>7, AnswerLogs
<1> QED BY <1>0, <1>6, <1>7, StartMoves

\* A deletion moves a file, or is about to.
LEMMA CompactLogs ==
  ASSUME NodeTyped, HandlerInv, AllAttended, NEW c \in Conns, Serving(req[c]),
         req[c].act = "delete_destination", call' = call, config' = config,
         NEW r, req' = [req EXCEPT ![c] = r], r.pc = "compact", r.f = req[c].f,
         Upper(r.todo, r.i, Len(config[r.f])),
         Placed(config[r.f], r.f, log', r.i, r.todo),
         \A f \in Fields : f # r.f /\ config[f] # NoField => InOrder(config[f], f, log')
  PROVE  LogInv'
<1>1. PICK m \in Threads :
        /\ call[m].pc = "waiting" /\ call[m].conn = c
        /\ \A n \in Threads : n # m => call[n].pc = "idle"
        /\ \A d \in Conns : d # c => req[d].pc = "idle"
        /\ \A n \in Threads : ~Moved(n)
        /\ req[c].act = Request(call[m].op) /\ req[c].f = call[m].f
        /\ req[c].i = call[m].i
  BY OneServed
<1>2. req'[c] = r /\ \A d \in Conns : d # c => req'[d].pc = "idle"
  BY <1>1 DEF NodeTyped, LockInv, TypeOK
<1>3. \A d \in Conns : RequestLogs(req'[d], config[req'[d].f], log')
  BY <1>2 DEF RequestLogs
<1>4. \A n \in Threads : ~Moved(n)'
  BY <1>1, <1>2 DEF Moved, Accepted, At
<1>5. Shifting(r.f)'
  BY <1>2 DEF Shifting, At
<1>6. \A f \in Fields : config[f] # NoField /\ ~Shifting(f)' => InOrder(config[f], f, log')
  BY <1>5
<1>7. \A n \in Threads : call[n].pc # "idle" => call[n].op # "update_url"
  BY <1>1 DEF Request
<1> QED BY <1>3, <1>4, <1>6, <1>7 DEF LogInv

\* A stop moves no log; at its end a deletion begins to.
LEMMA StopLogs ==
  ASSUME NodeTyped, HandlerInv, AllAttended, LogInv, CleanLogs, NEW c \in Conns, StopStep(c),
         call' = call
  PROVE  LogInv'
<1>0. /\ req[c] \in ReqType /\ RequestOK(req[c], config[req[c].f]) /\ LockInv
      /\ req \in [Conns -> ReqType] /\ RequestLogs(req[c], config[req[c].f], log)
  BY DEF NodeTyped, LockInv, TypeOK, HandlerInv, RequestInv, LogInv
<1>1. req[c].pc \in {"stop", "term", "kill"} /\ config' = config /\ log' = log
  BY DEF StopStep, StopUnknown, StopTerminate, StopReap, StopKill, StopGiveUp, FinishStop,
         Looping, At, files
<1>2. Serving(req[c]) /\ req[c].pc # "compact"
  BY <1>1 DEF Serving
<1>3. req[c].act = "delete_destination" => req[c].snap = config[req[c].f]
  BY <1>0, <1>1 DEF RequestLogs
<1>4. ASSUME NEW pc \in {"stop", "term", "kill", "want_start"}, NEW todo, NEW sel,
             req' = [req EXCEPT ![c] = [req[c] EXCEPT !.pc = pc, !.todo = todo, !.sel = sel]]
      PROVE  LogInv'
  <2> DEFINE r == [req[c] EXCEPT !.pc = pc, !.todo = todo, !.sel = sel]
  <2>1. r.pc = pc /\ r.act = req[c].act /\ r.f = req[c].f /\ r.snap = req[c].snap
    BY <1>0 DEF ReqType
  <2>2. req' = [req EXCEPT ![c] = r]
    BY <1>4
  <2> HIDE DEF r
  <2>3. /\ Serving(r) /\ r.pc # "compact"
        /\ r.act = "delete_destination" => r.snap = config[r.f]
    BY <1>3, <2>1 DEF Serving
  <2> QED BY <1>1, <1>2, <2>2, <2>3, MoveLogs
<1>5. CASE StopUnknown(c) \/ StopTerminate(c) \/ StopReap(c) \/ StopKill(c)
  <2>1. CASE StopUnknown(c)
    <3>1. req' = [req EXCEPT ![c] =
                   [req[c] EXCEPT !.pc = "stop", !.todo = Visited(c), !.sel = req[c].sel]]
      BY <1>0, <2>1 DEF StopUnknown, Looping, At, ReqType
    <3> QED BY <1>4, <3>1
  <2>2. CASE StopTerminate(c)
    <3>1. req' = [req EXCEPT ![c] =
                   [req[c] EXCEPT !.pc = "term", !.todo = req[c].todo, !.sel = req[c].sel]]
      BY <1>0, <2>2 DEF StopTerminate, ReqType
    <3> QED BY <1>4, <3>1
  <2>3. CASE StopReap(c)
    <3>1. req' = [req EXCEPT ![c] =
                   [req[c] EXCEPT !.pc = "stop", !.todo = Visited(c), !.sel = req[c].sel]]
      BY <1>0, <2>3 DEF StopReap, ReqType
    <3> QED BY <1>4, <3>1
  <2>4. CASE StopKill(c)
    <3>1. req' = [req EXCEPT ![c] =
                   [req[c] EXCEPT !.pc = "kill", !.todo = req[c].todo, !.sel = req[c].sel]]
      BY <1>0, <2>4 DEF StopKill, ReqType
    <3> QED BY <1>4, <3>1
  <2> QED BY <1>5, <2>1, <2>2, <2>3, <2>4
<1>6. CASE StopGiveUp(c)
  BY <1>1, <1>2, <1>6, AnswerLogs DEF StopGiveUp
<1>7. CASE FinishStop(c)
  <2>1. CASE req[c].act = "stop" /\ Answer(c, TRUE)
    BY <1>1, <1>2, <2>1, AnswerLogs
  <2>2. CASE req[c].act = "restart" /\ req' = [req EXCEPT ![c].pc = "want_start", ![c].sel = {}]
    <3>1. req' = [req EXCEPT ![c] =
                   [req[c] EXCEPT !.pc = "want_start", !.todo = req[c].todo, !.sel = {}]]
      BY <1>0, <2>2 DEF ReqType
    <3> QED BY <1>4, <3>1
  <2>3. CASE /\ req[c].act = "delete_destination"
             /\ req' = [req EXCEPT ![c].pc = "compact",
                                   ![c].todo = req[c].i .. Len(req[c].snap) - 1]
    <3> DEFINE todo == req[c].i .. Len(req[c].snap) - 1
               r == [req[c] EXCEPT !.pc = "compact", !.todo = todo]
    <3>1. req' = [req EXCEPT ![c] = r]
      BY <1>0, <2>3
    <3>2. todo = req[c].i .. Len(config[req[c].f]) - 1
      BY <1>3, <2>3
    <3> HIDE DEF todo
    <3>3. r.pc = "compact" /\ r.f = req[c].f /\ r.i = req[c].i /\ r.todo = todo
      BY <1>0 DEF ReqType
    <3> HIDE DEF r
    <3>4. req[c].f \in Fields /\ config[req[c].f] # NoField /\ req[c].i \in Nat
      BY <1>0, <1>1, <2>3, ConstantsAssumption DEF ReqType, RequestOK, LockInv, WellFormed
    <3>5. \A f \in Fields : config[f] # NoField => InOrder(config[f], f, log)
      BY <1>2, AllInOrder, OneServed
    <3>6. Len(config[req[c].f]) \in Nat /\ InOrder(config[req[c].f], req[c].f, log)
      BY <3>4, <3>5, ListTyped
    <3>7. /\ Placed(config[req[c].f], req[c].f, log, req[c].i, todo)
          /\ Upper(todo, req[c].i, Len(config[req[c].f]))
      BY <3>2, <3>4, <3>6, ShiftBegins
    <3> QED BY <1>1, <1>2, <2>3, <3>1, <3>3, <3>5, <3>7, CompactLogs
  <2> QED BY <1>7, <2>1, <2>2, <2>3 DEF FinishStop
<1> QED BY <1>5, <1>6, <1>7 DEF StopStep

\* A deletion moves the logs down one by one, and then says so.
LEMMA DeleteLogs ==
  ASSUME NodeTyped, HandlerInv, AllAttended, LogInv, CleanLogs, NEW c \in Conns, DeleteStep(c),
         call' = call
  PROVE  LogInv'
<1>0. /\ req[c] \in ReqType /\ RequestOK(req[c], config[req[c].f]) /\ LockInv
      /\ req \in [Conns -> ReqType] /\ RequestLogs(req[c], config[req[c].f], log)
      /\ log \in [Slots -> SUBSET Dests] /\ TypeOK
  BY DEF NodeTyped, LockInv, TypeOK, HandlerInv, RequestInv, LogInv
<1>1. /\ req[c].pc \in {"delete", "compact"} /\ config' = config
      /\ req[c].act = "delete_destination"
  BY <1>0 DEF DeleteStep, DeleteStop, Compact, FinishDelete, Looping, At, files, RequestOK
<1>2. Serving(req[c])
  BY <1>1 DEF Serving
<1>3. req[c].f \in Fields /\ req[c].i \in Nat
  BY <1>0, <1>1, ConstantsAssumption DEF ReqType, LockInv, WellFormed
<1> DEFINE f == req[c].f
           i == req[c].i
<1>4. CASE DeleteStop(c)
  <2>0. req[c].pc = "delete" /\ log' = log
    BY <1>4 DEF DeleteStop, At, files
  <2>1. CASE Answer(c, FALSE)
    BY <1>1, <1>2, <2>0, <2>1, AnswerLogs
  <2>2. CASE req' = [req EXCEPT ![c].pc = "stop", ![c].sel = Selected(req[c].f, All),
                                ![c].todo = Selected(req[c].f, All)]
    <3> DEFINE sel == Selected(req[c].f, All)
               r == [req[c] EXCEPT !.pc = "stop", !.sel = sel, !.todo = sel]
    <3>1. req' = [req EXCEPT ![c] = r]
      BY <1>0, <2>2
    <3> HIDE DEF sel
    <3>2. /\ r.pc = "stop" /\ r.act = req[c].act /\ r.f = req[c].f /\ r.snap = req[c].snap
      BY <1>0 DEF ReqType
    <3> HIDE DEF r
    <3>3. r.snap = config[r.f]
      BY <1>0, <1>1, <2>0, <3>2 DEF RequestLogs
    <3>4. Serving(r)
      BY <3>2 DEF Serving
    <3> QED BY <1>1, <1>2, <2>0, <3>1, <3>2, <3>3, <3>4, MoveLogs
  <2> QED BY <1>4, <2>1, <2>2 DEF DeleteStop
<1>5. CASE Compact(c) \/ FinishDelete(c)
  <2>0. /\ req[c].pc = "compact" /\ Upper(req[c].todo, i, Len(config[f]))
        /\ Placed(config[f], f, log, i, req[c].todo)
    BY <1>0, <1>5 DEF Compact, FinishDelete, Looping, At, RequestLogs
  <2>1. config[f] # NoField
    BY <1>0, <2>0 DEF RequestOK
  <2>2. Len(config[f]) \in Nat /\ Len(config[f]) <= MaxDest
    BY <1>3, <2>1, ListTyped
  <2>3. PICK m \in Threads :
        /\ call[m].pc = "waiting" /\ call[m].conn = c
        /\ \A n \in Threads : n # m => call[n].pc = "idle"
        /\ \A d \in Conns : d # c => req[d].pc = "idle"
        /\ \A n \in Threads : ~Moved(n)
        /\ req[c].act = Request(call[m].op) /\ f = call[m].f
        /\ i = call[m].i
    BY <1>2, OneServed
  <2>4. \A g \in Fields : g # f /\ config[g] # NoField => InOrder(config[g], g, log)
    BY <2>3 DEF LogInv, Shifting, At
  <2>5. CASE Compact(c)
    <3> DEFINE k == Here(c)[2]
               r == [req[c] EXCEPT !.todo = Visited(c)]
    <3>1. req' = [req EXCEPT ![c] = r] /\ req[c].todo # {}
      BY <1>0, <2>5 DEF Compact, Looping
    <3>2. Here(c) = <<f, k>> /\ k \in req[c].todo /\ Visited(c) = req[c].todo \ {k}
          /\ \A j \in req[c].todo : k <= j
      <4>1. req[c].todo \in SUBSET Indices
        BY <1>0 DEF ReqType
      <4>2. Least(req[c].todo) \in req[c].todo /\ \A j \in req[c].todo : Least(req[c].todo) <= j
        BY <3>1, <4>1, LeastInSet
      <4> QED BY <4>2 DEF Here, Visited
    <3>3. FileMoved(f, log, log', i, k) /\ \A g \in Fields, x \in Indices :
                                              g # f => log'[<<g, x>>] = log[<<g, x>>]
      <4>0. /\ \A g \in Fields, x \in Indices : <<g, x>> \in Slots
            /\ <<f, k>> \in Slots
            /\ k # i => k - 1 \in Indices /\ <<f, k - 1>> \in Slots /\ k - 1 # k
        <5>1. k \in i .. Len(config[f]) - 1
          BY <2>0, <3>2 DEF Upper
        <5>2. k \in Indices /\ (k # i => k - 1 \in Indices /\ k - 1 # k)
          <6>1. i \in Nat /\ Len(config[f]) \in Nat /\ Len(config[f]) <= MaxDest
            BY <1>3, <2>2, ConstantsAssumption
          <6> HIDE DEF k, f, i
          <6>2. k \in Nat /\ i <= k /\ k < MaxDest
            BY <5>1, <6>1, ConstantsAssumption
          <6>3. k # i => k - 1 \in Nat /\ k - 1 < MaxDest
            BY <6>1, <6>2, ConstantsAssumption
          <6>4. k - 1 # k
            BY <6>2
          <6> QED BY <6>2, <6>3, <6>4, ConstantsAssumption
        <5>3. f \in Fields
          BY <1>3
        <5> QED BY <5>2, <5>3
      <4>1. log' = IF k = i THEN [log EXCEPT ![<<f, k>>] = {}]
                   ELSE IF log[<<f, k>>] = {} THEN log
                   ELSE [log EXCEPT ![<<f, k - 1>>] = log[<<f, k>>], ![<<f, k>>] = {}]
        BY <2>5, <3>2 DEF Compact
      <4> HIDE DEF k, f, i
      <4>2. CASE k = i
        BY <1>0, <4>0, <4>1, <4>2 DEF FileMoved
      <4>3. CASE k # i /\ log[<<f, k>>] = {}
        BY <1>0, <4>0, <4>1, <4>3 DEF FileMoved
      <4>4. CASE k # i /\ log[<<f, k>>] # {}
        <5>1. \A g \in Fields, x \in Indices :
                log'[<<g, x>>] = IF g = f /\ x = k THEN {}
                                 ELSE IF g = f /\ x = k - 1 THEN log[<<f, k>>]
                                 ELSE log[<<g, x>>]
          BY <1>0, <4>0, <4>1, <4>4
        <5>2. f \in Fields
          BY <1>3 DEF f
        <5> QED BY <4>4, <5>1, <5>2 DEF FileMoved
      <4> QED BY <4>2, <4>3, <4>4
    <3>4. /\ Placed(config[f], f, log', i, Visited(c))
          /\ Upper(Visited(c), i, Len(config[f]))
      <4> DEFINE todo == req[c].todo
                 list == config[f]
      <4>1. /\ i \in Nat /\ Len(list) \in Nat /\ Len(list) <= MaxDest
            /\ Upper(todo, i, Len(list)) /\ Placed(list, f, log, i, todo)
            /\ k \in todo /\ (\A j \in todo : k <= j) /\ Visited(c) = todo \ {k}
            /\ FileMoved(f, log, log', i, k)
        BY <1>3, <2>0, <2>2, <3>2, <3>3
      <4> HIDE DEF k, f, i, todo, list
      <4>2. Placed(list, f, log', i, todo \ {k}) /\ Upper(todo \ {k}, i, Len(list))
        BY <4>1, FileMoves
      <4> QED BY <4>1, <4>2 DEF list
    <3>5. r.pc = "compact" /\ r.f = f /\ r.i = i /\ r.todo = Visited(c)
      BY <1>0, <2>0 DEF ReqType
    <3> HIDE DEF r
    <3>6. \A g \in Fields : g # r.f /\ config[g] # NoField => InOrder(config[g], g, log')
      BY <2>4, <3>3, <3>5 DEF InOrder
    <3> QED BY <1>1, <1>2, <3>1, <3>4, <3>5, <3>6, CompactLogs
  <2>6. CASE FinishDelete(c)
    <3>1. log' = log /\ req[c].todo = {} /\ Answer(c, TRUE)
      BY <2>6 DEF FinishDelete, files
    <3>2. req'[c].pc = "answered" /\ \A d \in Conns : d # c => req'[d] = req[d]
      BY <1>0, <3>1 DEF Answer, IdleReq
    <3>3. \A d \in Conns : RequestLogs(req'[d], config[req'[d].f], log)
      BY <2>3, <3>2 DEF RequestLogs
    <3>4. \A n \in Threads : Moved(n)' => n = m
      BY <2>3 DEF Moved, Accepted
    <3>5. call[m].op = "delete_url"
      BY <1>1, <2>3 DEF Request, NodeTyped, CallsTyped, CallType, Ops
    <3>6. Moved(m)'
      <4>1. req'[c].ok
        BY <1>0, <3>1 DEF Answer, IdleReq
      <4> QED BY <2>3, <3>2, <3>5, <4>1 DEF Moved, Accepted, At
    <3>7. \A g \in Fields : g = f => Shifting(g)'
      BY <2>3, <3>6 DEF Shifting
    <3>8. \A n \in Threads : call[n].pc # "idle" => call[n].op # "update_url"
      BY <2>3, <3>5
    <3>9. \A n \in Threads : Moved(n)' => Placed(config[call[n].f], call[n].f, log, call[n].i, {})
      BY <2>0, <2>3, <3>1, <3>4
    <3>10. \A g \in Fields : config[g] # NoField /\ ~Shifting(g)' => InOrder(config[g], g, log)
      BY <2>4, <3>7
    <3> QED BY <1>1, <3>1, <3>3, <3>8, <3>9, <3>10 DEF LogInv
  <2> QED BY <1>5, <2>5, <2>6
<1> QED BY <1>4, <1>5 DEF DeleteStep

\* Nobody is served and nobody waits any more.
LEMMA RestedLogs ==
  ASSUME \A c \in Conns : req'[c].pc = "idle", \A m \in Threads : call'[m].pc = "idle",
         \A f \in Fields : config'[f] # NoField => InOrder(config'[f], f, log')
  PROVE  LogInv'
<1>1. \A m \in Threads : ~Moved(m)'
  BY DEF Moved, Accepted
<1> QED BY <1>1, LogOrdered

\* A handler sends its request: what it enters was never used.
LEMMA BeginLogs ==
  ASSUME NodeTyped, HandlerInv, AllAttended, LogInv, CleanLogs, NEW m \in Threads,
         NEW op \in UsedOps, NEW f \in Fields, NEW i \in Indices \cup {All},
         NEW new \in Dests \cup {NoDest}, NEW c \in Conns, Begin(m, op, f, i, new, c)
  PROVE  LogInv'
<1> DEFINE r == [pc |-> "waiting", op |-> op, f |-> f, i |-> i, new |-> new, conn |-> c,
                 loaded |-> IF op \in Edits THEN config[f] ELSE <<>>]
           act == Request(op)
           pc == CASE act = "start" -> "want_start"
                   [] act = "delete_destination" -> "want_delete"
                   [] OTHER -> "want_stop"
           q == [IdleReq EXCEPT !.act = act, !.f = f, !.i = i, !.pc = pc]
<1>0. /\ configLock = NoThread /\ call' = [call EXCEPT ![m] = r]
      /\ op = "update_url" => new = NoDest \/ Entered(new)
      /\ config' = config /\ log' = log
  BY DEF Begin, Receive, files
<1>1. req' = [req EXCEPT ![c] = q]
  BY DEF Begin, Receive
<1>2. /\ \A n \in Threads : call[n].pc = "idle"
      /\ \A d \in Conns : req[d].pc = "idle"
  BY <1>0, NobodyRuns, NoRequests DEF HandlerInv
<1>3. q.pc = pc /\ pc \in Waiting
  <2>1. pc \in Waiting
    BY DEF Waiting
  <2> HIDE DEF pc, act
  <2> QED BY <2>1 DEF IdleReq
<1>4. r.pc = "waiting" /\ r.op = op /\ r.new = new /\ r.conn = c
  OBVIOUS
<1> HIDE DEF r, q, pc, act
<1>5. /\ call'[m] = r /\ \A n \in Threads : n # m => call'[n].pc = "idle"
      /\ req'[c] = q /\ \A d \in Conns : d # c => req'[d].pc = "idle"
  BY <1>0, <1>1, <1>2 DEF NodeTyped, CallsTyped, LockInv, TypeOK
<1>6. \A d \in Conns : req'[d].pc \notin {"compact", "delete", "stop", "term", "kill"}
  BY <1>3, <1>5 DEF Waiting
<1>7. \A n \in Threads : ~Moved(n)'
  <2> SUFFICES ASSUME NEW n \in Threads, Accepted(n)' PROVE FALSE
    BY DEF Moved
  <2>1. n = m /\ req'[c].pc = "answered"
    BY <1>4, <1>5 DEF Accepted, At
  <2> QED BY <1>3, <1>5, <2>1 DEF Waiting
<1>8. \A g \in Fields : config'[g] # NoField => InOrder(config'[g], g, log')
  <2>1. \A n \in Threads : ~Moved(n)
    BY <1>2 DEF Moved, Accepted
  <2> QED BY <1>0, <1>2, <2>1, AllInOrder
<1>9. \A n \in Threads : call'[n].pc # "idle" /\ call'[n].op = "update_url" =>
        call'[n].new = NoDest \/ NeverUsed(call'[n].new, log', config')
  BY <1>0, <1>4, <1>5, EnteredIsNew
<1> QED BY <1>6, <1>7, <1>8, <1>9, LogOrdered

\* The supervisor's answer reaches the handler.
LEMMA ReplyLogs ==
  ASSUME NodeTyped, HandlerInv, AllAttended, LogInv, NEW m \in Threads, Reply(m)
  PROVE  LogInv'
<1> DEFINE c == call[m].conn
<1>0. /\ call[m].pc = "waiting" /\ At(c, "answered") /\ c \in Conns
      /\ req' = [req EXCEPT ![c] = IdleReq] /\ config' = config /\ log' = log
  BY DEF Reply, Done, NodeTyped, CallsTyped, files
<1>1. \A n \in Threads : n # m => call[n].pc = "idle"
  BY <1>0 DEF HandlerInv, Exclusive
<1>2. \A d \in Conns : d # c => req[d].pc = "idle"
  BY <1>0, OnlyRequest DEF HandlerInv
<1>3. \A d \in Conns : req'[d].pc = "idle"
  BY <1>0, <1>2 DEF IdleReq, NodeTyped, LockInv, TypeOK
<1>4. \A d \in Conns : req[d].pc # "compact"
  BY <1>0, <1>2 DEF At
<1>5. CASE Release(m) /\ ~(call[m].op \in Edits /\ req[c].ok)
  <2>1. \A n \in Threads : ~Moved(n)
    BY <1>0, <1>1, <1>5 DEF Moved, Accepted, Edits
  <2>2. \A n \in Threads : call'[n].pc = "idle"
    BY <1>1, <1>5, NoCallTyped DEF Release, NodeTyped, CallsTyped
  <2> QED BY <1>0, <1>3, <1>4, <2>1, <2>2, AllInOrder, RestedLogs
<1>6. CASE /\ call[m].op \in Edits /\ req[c].ok
           /\ call' = [call EXCEPT ![m].pc = "saving", ![m].conn = NoConn]
  <2>0. call[m] \in CallType
    BY DEF NodeTyped, CallsTyped
  <2>1. /\ call'[m].pc = "saving" /\ call'[m].op = call[m].op /\ call'[m].f = call[m].f
        /\ call'[m].i = call[m].i /\ call'[m].new = call[m].new
        /\ \A n \in Threads : n # m => call'[n] = call[n]
    BY <1>6, <2>0 DEF NodeTyped, CallsTyped, CallType
  <2>2. \A n \in Threads : /\ Moved(n)' <=> Moved(n)
                           /\ Moved(n) => call'[n].f = call[n].f /\ call'[n].i = call[n].i
    <3>1. Moved(m)' <=> Moved(m)
      BY <1>0, <1>6, <2>1 DEF Moved, Accepted
    <3>2. \A n \in Threads : n # m => ~Moved(n) /\ ~Moved(n)'
      BY <1>1, <2>1 DEF Moved, Accepted
    <3> QED BY <2>1, <3>1, <3>2
  <2>3. \A n \in Threads : call'[n].pc # "idle" /\ call'[n].op = "update_url" =>
          call'[n].new = NoDest \/ NeverUsed(call'[n].new, log, config)
    BY <1>0, <2>1 DEF LogInv
  <2> QED BY <1>0, <1>3, <1>4, <2>2, <2>3, LogKept
<1> QED BY <1>5, <1>6 DEF Reply

\* An edit is saved.
LEMMA SaveLogs ==
  ASSUME NodeTyped, HandlerInv, AllAttended, LogInv, NEW m \in Threads, Save(m)
  PROVE  LogInv'
<1> DEFINE f == call[m].f
           i == call[m].i
           list == config[f]
<1>0. /\ f \in Fields /\ call[m].op \in Edits /\ list # NoField
      /\ config' = [config EXCEPT ![f] = Edited(m)]
  BY Saving
<1>1. call[m].pc = "saving" /\ Release(m) /\ log' = log /\ req' = req /\ Valid(m)
  BY DEF Save, ReplaceConfig, files
<1>2. configLock = m /\ (\A n \in Threads : n # m => call[n].pc = "idle")
  BY <1>1 DEF HandlerInv, Exclusive
<1>3. \A c \in Conns : req[c].pc = "idle"
  BY <1>1, <1>2, NoRequests
<1>4. \A n \in Threads : call'[n].pc = "idle"
  BY <1>1, <1>2, NoCallTyped DEF Release, NodeTyped, CallsTyped
<1>5. \A g \in Fields : g # f => ~Shifting(g)
  BY <1>2, <1>3 DEF Shifting, At, Moved, Accepted
<1>6. \A g \in Fields : g # f /\ config[g] # NoField => InOrder(config[g], g, log)
  BY <1>5 DEF LogInv
<1>7. list \in Seq(Dests) /\ Len(list) \in Nat
  BY <1>0, ListTyped
<1>8. Edited(m) # NoField => InOrder(Edited(m), f, log)
  <2>1. CASE call[m].op = "delete_url"
    <3>1. /\ i \in Indices /\ i < Len(list) /\ Edited(m) = RemoveAt(list, i)
          /\ Edited(m) \in DestLists
      BY <1>1, <2>1, DeleteSaved DEF Valid
    <3>2. Placed(list, f, log, i, {})
      BY <1>1, <2>1 DEF LogInv, Moved, Accepted
    <3> DEFINE new == Edited(m)
    <3> HIDE DEF new, list, i, f
    <3>3. new = RemoveAt(list, i) /\ new \in Seq(Dests) /\ i \in Nat
      BY <3>1, ConstantsAssumption DEF new
    <3>4. DOMAIN new = 1 .. Len(list) - 1 /\ Len(list) - 1 \in Nat
      BY <1>7, <3>1, <3>3 DEF RemoveAt
    <3>5. Len(new) = Len(list) - 1
      BY <3>3, <3>4
    <3>6. InOrder(new, f, log)
      BY <1>7, <3>1, <3>2, <3>3, <3>5, ShiftEnds
    <3> QED BY <3>6 DEF new
  <2>2. CASE call[m].op = "update_url"
    <3> DEFINE d == call[m].new
               new == Edited(m)
    <3>1. /\ i \in Indices /\ i < Len(list) /\ d \in Dests
          /\ new = [list EXCEPT ![i + 1] = d]
      BY <2>2, UpdateSaved
    <3>2. \A s \in Slots : d \notin log[s]
      BY <1>1, <2>2, <3>1, ConstantsAssumption DEF LogInv, NeverUsed
    <3>3. InOrder(list, f, log)
      <4>1. ~Shifting(f)
        BY <1>2, <1>3, <2>2 DEF Shifting, At, Moved, Accepted
      <4> QED BY <1>0, <4>1 DEF LogInv
    <3> HIDE DEF new, list, i, f, d
    <3>4. Len(new) = Len(list) /\ Len(new) \in Nat
      BY <1>7, <3>1
    <3>5. \A j \in 0 .. Len(new) - 1 :
            new[j + 1] = d \/ (j \in 0 .. Len(list) - 1 /\ new[j + 1] = list[j + 1])
      BY <1>7, <3>1, <3>4
    <3>6. InOrder(new, f, log)
      BY <1>0, <3>2, <3>3, <3>4, <3>5, FreshEntry
    <3> QED BY <3>6 DEF new
  <2>3. CASE call[m].op = "delete_field"
    BY <2>3, DeleteSaved
  <2> QED BY <1>0, <2>1, <2>2, <2>3 DEF Edits
<1> HIDE DEF f
<1>9. \A g \in Fields : config'[g] # NoField => InOrder(config'[g], g, log')
  <2> SUFFICES ASSUME NEW g \in Fields, config'[g] # NoField
               PROVE  InOrder(config'[g], g, log)
    BY <1>1
  <2>1. CASE g = f
    <3>1. config'[g] = Edited(m)
      BY <1>0, <2>1 DEF NodeTyped, LockInv, TypeOK
    <3> QED BY <1>8, <2>1, <3>1
  <2>2. CASE g # f
    <3>1. config'[g] = config[g]
      BY <1>0, <2>2 DEF NodeTyped, LockInv, TypeOK
    <3> QED BY <1>6, <2>2, <3>1
  <2> QED BY <2>1, <2>2
<1> QED BY <1>1, <1>3, <1>4, <1>9, RestedLogs

\* An edit is refused, which a deletion never is: its list without an entry is one.
LEMMA RefusedLogs ==
  ASSUME NodeTyped, HandlerInv, AllAttended, LogInv, CleanLogs, NEW m \in Threads, SaveFails(m)
  PROVE  LogInv'
<1>1. call[m].pc = "saving" /\ Release(m) /\ ~Valid(m) /\ UNCHANGED <<config, log, req>>
  BY DEF SaveFails, CleanLogs, vars
<1>2. configLock = m /\ (\A n \in Threads : n # m => call[n].pc = "idle")
  BY <1>1 DEF HandlerInv, Exclusive
<1>3. \A c \in Conns : req[c].pc = "idle"
  BY <1>1, <1>2, NoRequests
<1>4. \A n \in Threads : call'[n].pc = "idle"
  BY <1>1, <1>2, NoCallTyped DEF Release, NodeTyped, CallsTyped
<1>5. call[m].op # "delete_url"
  <2> SUFFICES ASSUME call[m].op = "delete_url" PROVE FALSE
    OBVIOUS
  <2>1. /\ call[m].f \in Fields /\ call[m].i \in Indices \cup {All}
        /\ config[call[m].f] # NoField /\ call[m].loaded = config[call[m].f]
        /\ call[m].i # All /\ call[m].i < Len(call[m].loaded)
    BY <1>1 DEF HandlerInv, LoadedInv, Edits, NodeTyped, CallsTyped, CallType
  <2>2. call[m].loaded \in DestLists /\ Len(call[m].loaded) \in Nat
    BY <2>1, ListTyped
  <2>3. call[m].i \in 0 .. Len(call[m].loaded) - 1
    BY <2>1, <2>2, ConstantsAssumption
  <2>4. RemoveAt(call[m].loaded, call[m].i) \in DestLists
    BY <2>2, <2>3 DEF CleanLogs
  <2> QED BY <1>1, <2>4 DEF Valid, Edited
<1>6. \A n \in Threads : ~Moved(n)
  BY <1>2, <1>5 DEF Moved, Accepted
<1>7. \A f \in Fields : config'[f] # NoField => InOrder(config'[f], f, log')
  BY <1>1, <1>3, <1>6, AllInOrder
<1> QED BY <1>1, <1>3, <1>4, <1>7, RestedLogs

\* An entry or a field is added.
LEMMA AddedLogs ==
  ASSUME NodeTyped, HandlerInv, AllAttended, LogInv, CleanLogs, NEW f \in Fields,
         CreateField(f) \/ \E d \in Dests : AddUrl(f, d)
  PROVE  LogInv'
<1>1. configLock = NoThread /\ UNCHANGED <<log, req>> /\ call' = call
  BY DEF CreateField, AddUrl, ReplaceConfig, files, managerVars
<1>2. /\ \A n \in Threads : call[n].pc = "idle"
      /\ \A c \in Conns : req[c].pc = "idle"
  BY <1>1, NobodyRuns, NoRequests DEF HandlerInv
<1>3. \A g \in Fields : config[g] # NoField => InOrder(config[g], g, log)
  BY <1>2, AllInOrder DEF Moved, Accepted
<1>4. ASSUME NEW list, config' = [config EXCEPT ![f] = list], InOrder(list, f, log)
      PROVE  LogInv'
  <2>1. \A g \in Fields : config'[g] # NoField => InOrder(config'[g], g, log')
    BY <1>1, <1>3, <1>4 DEF NodeTyped, LockInv, TypeOK
  <2> QED BY <1>1, <1>2, <2>1, RestedLogs
<1>5. CASE CreateField(f)
  <2>1. config' = [config EXCEPT ![f] = <<>>] /\ InOrder(<<>>, f, log)
    BY <1>5 DEF CreateField, ReplaceConfig, InOrder
  <2> QED BY <1>4, <2>1
<1>6. ASSUME NEW d \in Dests, AddUrl(f, d) PROVE LogInv'
  <2> DEFINE list == config[f]
             new == Append(list, d)
  <2>1. list # NoField /\ Entered(d) /\ config' = [config EXCEPT ![f] = new]
    BY <1>6 DEF AddUrl, ReplaceConfig
  <2>2. \A s \in Slots : d \notin log[s]
    BY <2>1, EnteredIsNew DEF NeverUsed
  <2>3. InOrder(list, f, log) /\ list \in Seq(Dests) /\ Len(list) \in Nat
    BY <1>3, <2>1, ListTyped
  <2> HIDE DEF list
  <2>4. /\ Len(new) \in Nat
        /\ \A j \in 0 .. Len(new) - 1 :
             new[j + 1] = d \/ (j \in 0 .. Len(list) - 1 /\ new[j + 1] = list[j + 1])
    BY <2>3
  <2> HIDE DEF new
  <2>5. InOrder(new, f, log)
    BY <2>2, <2>3, <2>4, FreshEntry
  <2> QED BY <1>4, <2>1, <2>5
<1> QED BY <1>5, <1>6

\* Empty logs are in order.
LEMMA LogsStart == NodeInit => LogInv
<1> SUFFICES ASSUME NodeInit PROVE LogInv
  OBVIOUS
<1>1. (\A m \in Threads : call[m].pc = "idle") /\ \A c \in Conns : req[c].pc = "idle"
  BY NoCallTyped DEF NodeInit, Init, IdleReq
<1>2. \A s \in Slots : log[s] = {}
  BY DEF NodeInit, Init
<1>3. \A f \in Fields : InOrder(config[f], f, log)
  BY <1>2 DEF InOrder
<1> QED BY <1>1, <1>3 DEF LogInv, RequestLogs, Moved, Accepted

\* Every step keeps every log where its destination is or is about to be.
LEMMA LogsInductive ==
  ASSUME PatientInv, LogInv, CleanLogs, [NodeNext]_nodeVars
  PROVE  LogInv'
<1>0. NodeTyped /\ HandlerInv /\ AllAttended /\ Exclusive /\ Faults = {}
  BY DEF PatientInv, NodeInv, HandlerInv, CleanLogs
<1>1. ASSUME UNCHANGED <<config, log, req, call>> PROVE LogInv'
  <2>1. \A m \in Threads : Moved(m)' <=> Moved(m)
    BY <1>1 DEF Moved, Accepted, At
  <2>2. \A m \in Threads : call[m].pc # "idle" /\ call[m].op = "update_url" =>
          call[m].new = NoDest \/ NeverUsed(call[m].new, log, config)
    BY DEF LogInv
  <2> QED BY <1>1, <2>1, <2>2, LogKept
<1>2. CASE SupervisorStep
  <2>0. call' = call
    BY <1>2 DEF SupervisorStep, managerVars
  <2>1. ASSUME NEW c \in Conns, LockedStep(c) \/ EntryStep(c) PROVE LogInv'
    BY <1>0, <2>0, <2>1, StartLogs, StopLogs, DeleteLogs, EntryLogs DEF LockedStep
  <2>2. ASSUME NEW p \in Pids, Output(p) \/ Exit(p) PROVE LogInv'
    BY <1>1, <2>0, <2>2 DEF Output, Exit, files
  <2>3. ASSUME NEW c \in Conns, Done(c), \A m \in Threads : call[m].conn # c PROVE FALSE
    BY <1>0, <2>3 DEF Done, At, AllAttended, Attended
  <2> QED BY <1>2, <2>1, <2>2, <2>3 DEF SupervisorStep, Serve
<1>3. CASE BeginSome
  BY <1>0, <1>3, BeginLogs DEF BeginSome
<1>4. ASSUME NEW m \in Threads, CallStep(m) PROVE LogInv'
  <2>1. CASE Reply(m)
    BY <1>0, <2>1, ReplyLogs
  <2>2. CASE TimeOut(m)
    BY <1>0, <2>2 DEF TimeOut
  <2>3. CASE ConnectionLost(m)
    <3>1. /\ call[m].pc = "waiting" /\ Release(m) /\ UNCHANGED <<config, log, req>>
          /\ At(call[m].conn, "idle")
      BY <2>3 DEF ConnectionLost, vars
    <3>2. \A n \in Threads : n # m => call[n].pc = "idle"
      BY <1>0, <3>1 DEF Exclusive
    <3>3. \A c \in Conns : req[c].pc = "idle"
      BY <1>0, <3>1, OnlyRequest DEF At
    <3>4. \A n \in Threads : ~Moved(n) /\ call'[n].pc = "idle"
      BY <1>0, <3>1, <3>2, NoCallTyped
         DEF Moved, Accepted, At, Release, NodeTyped, CallsTyped
    <3> QED BY <3>1, <3>3, <3>4, AllInOrder, RestedLogs
  <2>4. CASE Save(m)
    BY <1>0, <2>4, SaveLogs
  <2>5. CASE SaveFails(m)
    BY <1>0, <2>5, RefusedLogs
  <2> QED BY <1>4, <2>1, <2>2, <2>3, <2>4, <2>5 DEF CallStep
<1>5. CASE \/ \E f \in Fields, d \in Dests : AddUrl(f, d)
           \/ \E f \in Fields : CreateField(f)
  BY <1>0, <1>5, AddedLogs
<1>6. CASE NodeSupervisorRestart \/ ManagerRestart
  BY <1>0, <1>6 DEF NodeSupervisorRestart, ManagerRestart
<1>7. CASE UNCHANGED nodeVars
  BY <1>1, <1>7 DEF nodeVars, vars, managerVars
<1> QED BY <1>2, <1>3, <1>4, <1>5, <1>6, <1>7 DEF NodeNext

\* When nothing fails to be saved or restarts, no client gives up and no destination
\* is entered twice, every log is where its destination is whenever no handler runs:
\* delete_destination has moved the logs as the list has moved.
THEOREM LogsFollow == ASSUME CleanLogs PROVE NodeSpec => []LogFollowsDestination
<1>1. NoGivingUp /\ ~PidWriteFails
  BY DEF CleanLogs, NoGivingUp
<1>2. PatientInv /\ LogInv /\ [NodeNext]_nodeVars => LogInv'
  BY LogsInductive
<1>3. ASSUME PatientInv, LogInv PROVE LogFollowsDestination
  <2> SUFFICES ASSUME configLock = NoThread, NEW f \in Fields, config[f] # NoField,
                      NEW i \in 0 .. Len(config[f]) - 1, NEW j \in 0 .. Len(config[f]) - 1,
                      i # j
               PROVE  config[f][j + 1] \notin log[<<f, i>>]
    BY DEF LogFollowsDestination
  <2>1. /\ \A n \in Threads : call[n].pc = "idle"
        /\ \A c \in Conns : req[c].pc = "idle"
    BY <1>3, NobodyRuns, NoRequests DEF PatientInv, NodeInv, HandlerInv
  <2>2. InOrder(config[f], f, log)
    BY <1>3, <2>1, AllInOrder DEF Moved, Accepted
  <2>3. i \in Indices
    BY <1>3, ListTyped, ConstantsAssumption DEF PatientInv, NodeInv
  <2> QED BY <2>2, <2>3 DEF InOrder
<1>4. PatientInv /\ [NodeNext]_nodeVars => PatientInv'
  BY <1>1, PatientSteps
<1> QED BY <1>2, <1>3, <1>4, PatientStarts, LogsStart, PTL DEF NodeSpec
=============================================================================
