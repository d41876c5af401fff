---------------------- MODULE RestreamSupervisor_proofs ----------------------
(***************************************************************************)
(* Proofs about RestreamSupervisor, for every value of its constants: the  *)
(* types and the lock (LockInv), then, when no pid file write fails, that  *)
(* no process is ever lost and that what is answered as stopped is.        *)
(***************************************************************************)
EXTENDS RestreamSupervisor, TLAPS, WellFoundedInduction

USE DEF All, Indices, Slots

\* Least(S) is the smallest member of a nonempty set S of indices: the loops visit
\* an index of their list.
LEMMA LeastInSet ==
  ASSUME NEW S \in SUBSET Indices, S # {}
  PROVE  Least(S) \in S /\ \A j \in S : Least(S) <= j
<1>1. S \subseteq Nat
  BY ConstantsAssumption
<1>2. PICK x \in S : \A y \in S : ~(<<y, x>> \in OpToRel(<, Nat))
  BY <1>1, WFMin, NatLessThanWellFounded, Zenon
<1>3. \A y \in S : x <= y
  <2>1. SUFFICES ASSUME NEW y \in S, y < x PROVE FALSE
    BY <1>1
  <2>2. <<y, x>> \in Nat \X Nat /\ <<y, x>>[1] < <<y, x>>[2]
    BY <1>1, <2>1
  <2>3. <<y, x>> \in OpToRel(<, Nat)
    BY <2>2, Zenon DEF OpToRel
  <2>4. QED
    BY <1>2, <2>3
<1>4. QED
  BY <1>3 DEF Least

\* The indices of a call are indices of the configured list.
LEMMA SelectedTyped ==
  ASSUME TypeOK, NEW f \in Fields, NEW i \in Indices \cup {All}, CanSelect(f, i)
  PROVE  /\ config[f] \in DestLists /\ config[f] \in Seq(Dests)
         /\ Len(config[f]) \in Nat /\ Len(config[f]) <= MaxDest
         /\ Selected(f, i) \in SUBSET Indices
         /\ Selected(f, i) \subseteq 0 .. Len(config[f]) - 1
<1>1. config[f] \in DestLists
  BY DEF TypeOK, CanSelect
<1>2. config[f] \in Seq(Dests) /\ Len(config[f]) \in Nat /\ Len(config[f]) <= MaxDest
  BY <1>1, ConstantsAssumption
<1>3. Selected(f, i) \subseteq 0 .. Len(config[f]) - 1
  BY <1>2 DEF CanSelect, Selected
<1>4. QED
  BY <1>1, <1>2, <1>3, ConstantsAssumption

\* The idle request and the free process are well typed.
LEMMA IdleTyped == IdleReq \in ReqType /\ FreeProc \in ProcType
  BY ConstantsAssumption DEF IdleReq, FreeProc, ReqType, Actions, ProcType, Waiting, Holding

\* The slot a loop visits is a slot, of an index still to visit.
LEMMA HereTyped ==
  ASSUME TypeOK, NEW c \in Conns, req[c].todo # {}
  PROVE  /\ Here(c) \in Slots
         /\ Here(c)[1] = req[c].f /\ Here(c)[2] = Least(req[c].todo)
         /\ Least(req[c].todo) \in req[c].todo
         /\ Visited(c) \in SUBSET Indices
<1>1. req[c] \in ReqType
  BY DEF TypeOK
<1>2. req[c].f \in Fields /\ req[c].todo \in SUBSET Indices
  BY <1>1 DEF ReqType
<1>3. Least(req[c].todo) \in req[c].todo
  BY <1>2, LeastInSet
<1>4. QED
  BY <1>2, <1>3 DEF Here, Visited

-----------------------------------------------------------------------------
(* LockInv, taken apart by what a step changes: the thread that moves, the  *)
(* files and the processes.                                                 *)

ReqOK(r) ==
  /\ r \in ReqType
  /\ r.act = "delete_destination" => r.i # All
  /\ r.pc \in {"start", "spawned"} => r.todo \subseteq 0 .. Len(r.snap) - 1
  /\ r.pc = "spawned" => r.todo # {} /\ r.last \in Pids

FilesOK ==
  /\ config \in [Fields -> DestLists \cup {NoField}]
  /\ pidFile \in [Slots -> Pids \cup {NoPid}]
  /\ log \in [Slots -> SUBSET Dests]
  /\ progress \in [Slots -> Dests \cup {NoDest}]

ProcsOK ==
  /\ proc \in [Pids -> ProcType]
  /\ \A p \in Pids : Exists(p) => proc[p].slot \in Slots /\ proc[p].dest \in Dests

\* LockInv, thread by thread.
LEMMA LockInvParts ==
  LockInv <=> /\ FilesOK /\ ProcsOK /\ LockDiscipline
              /\ lock \in Conns \cup {NoConn}
              /\ req \in [Conns -> ReqType]
              /\ \A c \in Conns : ReqOK(req[c])
  BY DEF LockInv, TypeOK, WellFormed, FilesOK, ProcsOK, ReqOK, At

\* One thread moves: it stays in its region and the lock as it is, or it takes
\* the free lock, or it leaves its region and gives the lock back.
LEMMA ThreadMoves ==
  ASSUME LockInv, NEW c \in Conns, NEW r, ReqOK(r),
         req' = [req EXCEPT ![c] = r],
         \/ lock' = lock /\ (r.pc \in Holding <=> req[c].pc \in Holding)
         \/ lock = NoConn /\ lock' = c /\ r.pc \in Holding
         \/ lock \in {c, NoConn} /\ lock' = NoConn /\ r.pc \notin Holding,
         FilesOK', ProcsOK'
  PROVE  LockInv'
<1>1. /\ req' \in [Conns -> ReqType] /\ req'[c] = r
      /\ \A d \in Conns : d # c => req'[d] = req[d]
  BY LockInvParts DEF ReqOK
<1>2. \A d \in Conns : ReqOK(req'[d])
  BY <1>1, LockInvParts
<1>3. LockDiscipline'
  BY <1>1, LockInvParts, ConstantsAssumption DEF LockDiscipline
<1>4. lock' \in Conns \cup {NoConn}
  BY LockInvParts
<1>5. (\A d \in Conns : ReqOK(req[d]))'
  BY <1>2
<1>6. QED
  BY <1>1, <1>3, <1>4, <1>5 DEF LockInv, TypeOK, WellFormed, FilesOK, ProcsOK, ReqOK, At

\* The thread that answers.
LEMMA AnswerPreserves ==
  ASSUME LockInv, NEW c \in Conns, NEW ok \in BOOLEAN, Answer(c, ok),
         FilesOK', ProcsOK'
  PROVE  LockInv'
<1> DEFINE r == [IdleReq EXCEPT !.pc = "answered", !.ok = ok]
<1>1. ReqOK(r) /\ r.pc \notin Holding
  BY IdleTyped DEF ReqOK, ReqType, IdleReq, Holding
<1>2. req' = [req EXCEPT ![c] = r] /\ lock' = IF lock = c THEN NoConn ELSE lock
  BY DEF Answer
<1>3. lock # c => req[c].pc \notin Holding
  BY DEF LockInv, LockDiscipline
<1>4. \/ lock' = lock /\ (r.pc \in Holding <=> req[c].pc \in Holding)
      \/ lock \in {c, NoConn} /\ lock' = NoConn /\ r.pc \notin Holding
  BY <1>1, <1>2, <1>3
<1>5. QED
  BY <1>1, <1>2, <1>4, ThreadMoves

\* A thread that stays in its region without touching files or processes.
LEMMA LoopPreserves ==
  ASSUME LockInv, NEW c \in Conns, NEW r, ReqOK(r),
         req' = [req EXCEPT ![c] = r], lock' = lock,
         r.pc \in Holding <=> req[c].pc \in Holding,
         FilesOK', ProcsOK'
  PROVE  LockInv'
  BY ThreadMoves

\* Reaping leaves processes well formed.
LEMMA ReapTyped ==
  ASSUME ProcsOK, NEW S, Reap(S)
  PROVE  ProcsOK'
<1>1. proc' \in [Pids -> ProcType]
  BY IdleTyped DEF ProcsOK, Reap
<1>2. \A p \in Pids : proc'[p].st # "free" => proc'[p] = proc[p]
  BY DEF Reap, FreeProc
<1>3. QED
  BY <1>1, <1>2 DEF ProcsOK, Exists

\* A spawn leaves processes well formed.
LEMMA SpawnTyped ==
  ASSUME ProcsOK, NEW s \in Slots, NEW d \in Dests, NEW p \in Pids, Spawn(s, d, p)
  PROVE  ProcsOK'
<1> DEFINE r == [st |-> "new", slot |-> s, dest |-> d]
<1>1. r \in ProcType /\ r.slot = s /\ r.dest = d
  BY DEF ProcType
<1>2. proc' \in [Pids -> ProcType] /\ proc'[p] = r
  BY <1>1, IdleTyped DEF ProcsOK, Spawn
<1>3. \A q \in Pids \ {p} : proc'[q].st # "free" => proc'[q] = proc[q]
  BY DEF Spawn, FreeProc
<1>4. QED
  BY <1>1, <1>2, <1>3 DEF ProcsOK, Exists

-----------------------------------------------------------------------------
(* LockInv is inductive *)

\* start: the destination a spawn is given is one of the list it read.
LEMMA StartTyped ==
  ASSUME LockInv, NEW c \in Conns, Looping(c, "start")
  PROVE  /\ Here(c) \in Slots /\ Here(c)[2] \in 0 .. Len(req[c].snap) - 1
         /\ req[c].snap[Here(c)[2] + 1] \in Dests
         /\ Visited(c) \in SUBSET Indices /\ Visited(c) \subseteq req[c].todo
<1>1. ReqOK(req[c]) /\ req[c].pc = "start" /\ req[c].todo # {}
  BY LockInvParts DEF Looping, At
<1>2. Here(c) \in Slots /\ Here(c)[2] \in req[c].todo /\ Visited(c) \in SUBSET Indices
  BY <1>1, HereTyped DEF LockInv
<1>3. req[c].snap \in DestLists \cup {<<>>}
  BY <1>1 DEF ReqOK, ReqType
<1>4. req[c].snap \in Seq(Dests) /\ Len(req[c].snap) \in Nat
  <2>1. <<>> \in Seq(Dests)
    OBVIOUS
  <2>2. req[c].snap \in Seq(Dests)
    BY <1>3, <2>1, ConstantsAssumption
  <2>3. QED
    BY <2>2
<1>5. Here(c)[2] \in 0 .. Len(req[c].snap) - 1
  BY <1>1, <1>2 DEF ReqOK
<1>6. QED
  BY <1>2, <1>4, <1>5 DEF Visited

\* A start's step keeps types and lock.
LEMMA StartPreserves ==
  ASSUME LockInv, NEW c \in Conns, StartStep(c)
  PROVE  LockInv'
<1>0. FilesOK /\ ProcsOK /\ ReqOK(req[c]) /\ req[c] \in ReqType
  BY LockInvParts DEF ReqOK
<1>1. CASE StartKnown(c)
  <2> DEFINE r == [req[c] EXCEPT !.todo = Visited(c), !.ok = TRUE]
  <2>1. Looping(c, "start") /\ req' = [req EXCEPT ![c] = r] /\ lock' = lock
        /\ UNCHANGED <<config, pidFile, log, progress, proc>>
    BY <1>1 DEF StartKnown, files
  <2>2. /\ req[c].pc = "start" /\ Visited(c) \in SUBSET Indices
        /\ Visited(c) \subseteq req[c].todo
    BY <2>1, StartTyped DEF Looping, At
  <2>3. ReqOK(r) /\ r.pc = req[c].pc
    BY <1>0, <2>2 DEF ReqOK, ReqType
  <2>4. FilesOK' /\ ProcsOK'
    BY <1>0, <2>1 DEF FilesOK, ProcsOK, Exists
  <2>5. QED
    BY <2>1, <2>3, <2>4, LoopPreserves
<1>2. ASSUME NEW p \in Pids, StartSpawn(c, p) PROVE LockInv'
  <2> DEFINE r == [req[c] EXCEPT !.pc = "spawned", !.last = p]
             d == req[c].snap[Here(c)[2] + 1]
  <2>1. /\ Looping(c, "start") /\ req' = [req EXCEPT ![c] = r] /\ lock' = lock
        /\ PrepareSlot(Here(c), d) /\ Spawn(Here(c), d, p)
        /\ pidFile' = [pidFile EXCEPT ![Here(c)] = NoPid] /\ config' = config
    BY <1>2 DEF StartSpawn
  <2>2. req[c].pc = "start" /\ req[c].todo # {}
    BY <2>1 DEF Looping, At
  <2>3. ReqOK(r) /\ r.pc \in Holding /\ req[c].pc \in Holding
    BY <1>0, <2>2 DEF ReqOK, ReqType, Holding
  <2>4. Here(c) \in Slots /\ d \in Dests
    BY <2>1, StartTyped
  <2>5. FilesOK'
    BY <1>0, <2>1, <2>4 DEF FilesOK, PrepareSlot
  <2>6. ProcsOK'
    BY <1>0, <2>1, <2>4, SpawnTyped
  <2>7. QED
    BY <2>1, <2>3, <2>5, <2>6, LoopPreserves
<1>3. CASE StartRecord(c)
  <2> DEFINE r == [req[c] EXCEPT !.pc = "start", !.todo = Visited(c), !.ok = TRUE]
  <2>1. /\ req[c].pc = "spawned" /\ req' = [req EXCEPT ![c] = r] /\ lock' = lock
        /\ pidFile' = [pidFile EXCEPT ![Here(c)] = req[c].last]
        /\ UNCHANGED <<config, log, progress, proc>>
    BY <1>3 DEF StartRecord, At
  <2>2. /\ req[c].todo # {} /\ req[c].last \in Pids
        /\ req[c].todo \subseteq 0 .. Len(req[c].snap) - 1
    BY <1>0, <2>1 DEF ReqOK
  <2>3. Visited(c) \in SUBSET Indices /\ Visited(c) \subseteq req[c].todo
    BY <2>2, HereTyped DEF LockInv, Visited
  <2>4. ReqOK(r) /\ r.pc \in Holding /\ req[c].pc \in Holding
    BY <1>0, <2>1, <2>2, <2>3 DEF ReqOK, ReqType, Holding
  <2>5. FilesOK' /\ ProcsOK'
    BY <1>0, <2>1, <2>2 DEF FilesOK, ProcsOK, Exists
  <2>6. QED
    BY <2>1, <2>4, <2>5, LoopPreserves
<1>4. CASE RecordFails(c)
  <2>1. FilesOK' /\ ProcsOK'
    BY <1>0, <1>4, ReapTyped DEF FilesOK, RecordFails, files
  <2>2. QED
    BY <1>4, <2>1, AnswerPreserves DEF RecordFails
<1>5. CASE StartFails(c)
  <2> DEFINE d == req[c].snap[Here(c)[2] + 1]
  <2>1. /\ Looping(c, "start") /\ Answer(c, FALSE) /\ config' = config
        /\ log' = log \/ log' = [log EXCEPT ![Here(c)] = @ \cup {d}]
        /\ progress' = [progress EXCEPT ![Here(c)] = NoDest]
        /\ pidFile' = [pidFile EXCEPT ![Here(c)] = NoPid]
        /\ Reap({req[c].last}) \/ Reap(Pids)
    BY <1>5 DEF StartFails
  <2>2. Here(c) \in Slots /\ d \in Dests
    BY <2>1, StartTyped
  <2>3. FilesOK'
    BY <1>0, <2>1, <2>2 DEF FilesOK
  <2>4. ProcsOK'
    BY <1>0, <2>1, ReapTyped
  <2>5. QED
    BY <2>1, <2>3, <2>4, AnswerPreserves
<1>6. CASE FinishStart(c)
  <2>1. req[c].ok \in BOOLEAN
    BY <1>0 DEF ReqType
  <2>2. FilesOK' /\ ProcsOK'
    BY <1>0, <1>6, ReapTyped DEF FilesOK, FinishStart, files
  <2>3. QED
    BY <1>6, <2>1, <2>2, AnswerPreserves DEF FinishStart
<1>7. QED
  BY <1>1, <1>2, <1>3, <1>4, <1>5, <1>6 DEF StartStep

\* stop: the loop, the waits and what follows them.
LEMMA StopPreserves ==
  ASSUME LockInv, NEW c \in Conns, StopStep(c)
  PROVE  LockInv'
<1>0. FilesOK /\ ProcsOK /\ ReqOK(req[c]) /\ req[c] \in ReqType
  BY LockInvParts DEF ReqOK
<1>1. CASE StopUnknown(c)
  <2> DEFINE r == [req[c] EXCEPT !.todo = Visited(c)]
  <2>1. /\ req[c].pc = "stop" /\ req[c].todo # {}
        /\ req' = [req EXCEPT ![c] = r] /\ lock' = lock
    BY <1>1 DEF StopUnknown, Looping, At
  <2>2. ReqOK(r) /\ r.pc = req[c].pc
    BY <1>0, <2>1, HereTyped DEF ReqOK, ReqType, LockInv
  <2>3. FilesOK' /\ ProcsOK'
    BY <1>0, <1>1 DEF FilesOK, ProcsOK, Exists, StopUnknown
  <2>4. QED
    BY <2>1, <2>2, <2>3, LoopPreserves
<1>2. CASE StopTerminate(c)
  <2> DEFINE r == [req[c] EXCEPT !.pc = "term"]
  <2>1. /\ req[c].pc = "stop" /\ req' = [req EXCEPT ![c] = r] /\ lock' = lock
        /\ UNCHANGED <<config, pidFile, log, progress, proc>>
    BY <1>2 DEF StopTerminate, Looping, At, files
  <2>2. ReqOK(r) /\ r.pc \in Holding /\ req[c].pc \in Holding
    BY <1>0, <2>1 DEF ReqOK, ReqType, Holding
  <2>3. FilesOK' /\ ProcsOK'
    BY <1>0, <2>1 DEF FilesOK, ProcsOK, Exists
  <2>4. QED
    BY <2>1, <2>2, <2>3, LoopPreserves
<1>3. CASE StopReap(c)
  <2> DEFINE r == [req[c] EXCEPT !.pc = "stop", !.todo = Visited(c)]
  <2>1. /\ req[c].pc \in {"term", "kill"}
        /\ req' = [req EXCEPT ![c] = r] /\ lock' = lock
    BY <1>3 DEF StopReap
  <2>2. Visited(c) \in SUBSET Indices
    BY <1>0 DEF Visited, ReqType
  <2>3. ReqOK(r) /\ r.pc \in Holding /\ req[c].pc \in Holding
    BY <1>0, <2>1, <2>2 DEF ReqOK, ReqType, Holding
  <2>4. FilesOK'
    BY <1>0, <1>3 DEF FilesOK, StopReap
  <2>5. ProcsOK'
    BY <1>0, <1>3, IdleTyped DEF ProcsOK, Exists, StopReap, FreeProc
  <2>6. QED
    BY <2>1, <2>3, <2>4, <2>5, LoopPreserves
<1>4. CASE StopKill(c)
  <2> DEFINE r == [req[c] EXCEPT !.pc = "kill"]
  <2>1. /\ req[c].pc = "term" /\ req' = [req EXCEPT ![c] = r] /\ lock' = lock
        /\ UNCHANGED <<config, pidFile, log, progress, proc>>
    BY <1>4 DEF StopKill, At, files
  <2>2. ReqOK(r) /\ r.pc \in Holding /\ req[c].pc \in Holding
    BY <1>0, <2>1 DEF ReqOK, ReqType, Holding
  <2>3. FilesOK' /\ ProcsOK'
    BY <1>0, <2>1 DEF FilesOK, ProcsOK, Exists
  <2>4. QED
    BY <2>1, <2>2, <2>3, LoopPreserves
<1>5. CASE StopGiveUp(c)
  <2>1. FilesOK' /\ ProcsOK'
    BY <1>0, <1>5 DEF FilesOK, ProcsOK, Exists, StopGiveUp, files
  <2>2. QED
    BY <1>5, <2>1, AnswerPreserves DEF StopGiveUp
<1>6. CASE FinishStop(c)
  <2>1. FilesOK' /\ ProcsOK' /\ req[c].pc = "stop"
    BY <1>0, <1>6 DEF FilesOK, ProcsOK, Exists, FinishStop, files, At
  <2>2. CASE Answer(c, TRUE)
    BY <2>1, <2>2, AnswerPreserves
  <2>3. CASE req[c].act = "restart"
             /\ lock' = NoConn
             /\ req' = [req EXCEPT ![c].pc = "want_start", ![c].sel = {}]
    <3> DEFINE r == [req[c] EXCEPT !.pc = "want_start", !.sel = {}]
    <3>1. ReqOK(r) /\ r.pc \notin Holding /\ req' = [req EXCEPT ![c] = r]
      <4>1. "want_start" \in Waiting /\ "want_start" \notin Holding
        BY DEF Waiting, Holding
      <4>2. r \in ReqType /\ r.pc = "want_start" /\ r.act = "restart"
        BY <1>0, <2>3, <4>1 DEF ReqType
      <4>3. QED
        BY <1>0, <2>3, <4>1, <4>2 DEF ReqOK
    <3>2. lock = c
      BY <2>1 DEF LockInv, LockDiscipline, Holding
    <3>3. QED
      BY <2>1, <2>3, <3>1, <3>2, ThreadMoves
  <2>4. CASE req[c].act = "delete_destination" /\ lock' = lock
             /\ req' = [req EXCEPT ![c].pc = "compact",
                                   ![c].todo = req[c].i .. Len(req[c].snap) - 1]
    <3> DEFINE r == [req[c] EXCEPT !.pc = "compact",
                                   !.todo = req[c].i .. Len(req[c].snap) - 1]
    <3>1. req[c].i \in Indices /\ req[c].snap \in DestLists \cup {<<>>}
      BY <1>0, <2>4 DEF ReqOK, ReqType
    <3>2. Len(req[c].snap) \in Nat /\ Len(req[c].snap) <= MaxDest
      BY <3>1, ConstantsAssumption
    <3>3. req[c].i .. Len(req[c].snap) - 1 \in SUBSET Indices
      BY <3>1, <3>2, ConstantsAssumption
    <3>4. ReqOK(r) /\ r.pc \in Holding /\ req' = [req EXCEPT ![c] = r]
      BY <1>0, <2>4, <3>3 DEF ReqOK, ReqType, Holding
    <3>5. QED
      BY <2>1, <2>4, <3>4, LoopPreserves DEF Holding
  <2>5. QED
    BY <1>6, <2>2, <2>3, <2>4 DEF FinishStop
<1>7. QED
  BY <1>1, <1>2, <1>3, <1>4, <1>5, <1>6 DEF StopStep

\* delete_destination: its own read, its nested stop's, and the compaction.
LEMMA DeletePreserves ==
  ASSUME LockInv, NEW c \in Conns, DeleteStep(c)
  PROVE  LockInv'
<1>0. FilesOK /\ ProcsOK /\ ReqOK(req[c]) /\ req[c] \in ReqType /\ TypeOK
  BY LockInvParts DEF ReqOK, LockInv
<1>1. CASE DeleteStop(c)
  <2>1. FilesOK' /\ ProcsOK' /\ req[c].pc = "delete"
    BY <1>0, <1>1 DEF FilesOK, ProcsOK, Exists, DeleteStop, files, At
  <2>2. CASE CanSelect(req[c].f, All)
    <3> DEFINE sel == Selected(req[c].f, All)
               r == [req[c] EXCEPT !.pc = "stop", !.sel = sel, !.todo = sel]
    <3>1. sel \in SUBSET Indices
      BY <1>0, <2>2, SelectedTyped DEF ReqType
    <3>2. ReqOK(r) /\ r.pc \in Holding
      BY <1>0, <3>1 DEF ReqOK, ReqType, Holding
    <3>3. req' = [req EXCEPT ![c] = r] /\ lock' = lock
      BY <1>1, <2>2 DEF DeleteStop
    <3>4. QED
      BY <2>1, <3>2, <3>3, LoopPreserves DEF Holding
  <2>3. CASE ~CanSelect(req[c].f, All)
    BY <1>1, <2>1, <2>3, AnswerPreserves DEF DeleteStop
  <2>4. QED
    BY <2>2, <2>3
<1>2. CASE Compact(c)
  <2> DEFINE r == [req[c] EXCEPT !.todo = Visited(c)]
  <2>1. /\ req[c].pc = "compact" /\ req[c].todo # {}
        /\ req' = [req EXCEPT ![c] = r] /\ lock' = lock
        /\ UNCHANGED <<config, pidFile, proc>>
    BY <1>2 DEF Compact, Looping, At
  <2>2. Visited(c) \in SUBSET Indices /\ Here(c) \in Slots
    BY <1>0, <2>1, HereTyped
  <2>3. ReqOK(r) /\ r.pc = req[c].pc
    BY <1>0, <2>1, <2>2 DEF ReqOK, ReqType
  <2>4. log' \in [Slots -> SUBSET Dests] /\ progress' \in [Slots -> Dests \cup {NoDest}]
    <3>1. CASE Here(c)[2] = req[c].i
      BY <1>0, <1>2, <2>2, <3>1 DEF Compact, FilesOK
    <3>2. CASE Here(c)[2] # req[c].i
      <4>1. log' = log \/ log' = [log EXCEPT ![<<Here(c)[1], Here(c)[2] - 1>>] = log[Here(c)],
                                             ![Here(c)] = {}]
        BY <1>2, <3>2 DEF Compact
      <4>2. \/ progress' = progress
            \/ progress' = [progress EXCEPT ![<<Here(c)[1], Here(c)[2] - 1>>] = progress[Here(c)],
                                            ![Here(c)] = NoDest]
        BY <1>2, <3>2 DEF Compact
      <4>3. log[Here(c)] \in SUBSET Dests /\ progress[Here(c)] \in Dests \cup {NoDest}
        BY <1>0, <2>2 DEF FilesOK
      <4>4. log' \in [Slots -> SUBSET Dests]
        BY <1>0, <4>1, <4>3 DEF FilesOK
      <4>5. progress' \in [Slots -> Dests \cup {NoDest}]
        BY <1>0, <4>2, <4>3 DEF FilesOK
      <4>6. QED
        BY <4>4, <4>5
    <3>3. QED
      BY <3>1, <3>2
  <2>5. FilesOK' /\ ProcsOK'
    BY <1>0, <2>1, <2>4 DEF FilesOK, ProcsOK, Exists
  <2>6. QED
    BY <2>1, <2>3, <2>5, LoopPreserves
<1>3. CASE FinishDelete(c)
  <2>1. FilesOK' /\ ProcsOK'
    BY <1>0, <1>3 DEF FilesOK, ProcsOK, Exists, FinishDelete, files
  <2>2. QED
    BY <1>3, <2>1, AnswerPreserves DEF FinishDelete
<1>4. QED
  BY <1>1, <1>2, <1>3 DEF DeleteStep

\* A call begins: it is refused or it takes the lock.
LEMMA EntryPreserves ==
  ASSUME LockInv, NEW c \in Conns, EntryStep(c)
  PROVE  LockInv'
<1>0. FilesOK /\ ProcsOK /\ ReqOK(req[c]) /\ req[c] \in ReqType /\ TypeOK
  BY LockInvParts DEF ReqOK, LockInv
<1>1. CASE Refuse(c)
  <2>1. FilesOK' /\ ProcsOK'
    BY <1>0, <1>1 DEF FilesOK, ProcsOK, Exists, Refuse, files
  <2>2. QED
    BY <1>1, <2>1, AnswerPreserves DEF Refuse
<1>2. ASSUME NEW from, NEW to \in {"start", "stop", "delete"}, Enter(c, from, to)
      PROVE  LockInv'
  <2> DEFINE sel == Selected(req[c].f, req[c].i)
             r == [req[c] EXCEPT !.pc = to, !.sel = sel, !.todo = sel,
                                 !.snap = IF to = "stop" THEN <<>> ELSE config[req[c].f]]
  <2>1. /\ CanSelect(req[c].f, req[c].i) /\ lock = NoConn /\ lock' = c
        /\ req' = [req EXCEPT ![c] = r]
        /\ UNCHANGED <<config, pidFile, log, progress, proc>>
    BY <1>2 DEF Enter, files
  <2>2. req[c].f \in Fields /\ req[c].i \in Indices \cup {All}
    BY <1>0 DEF ReqType
  <2>3. /\ sel \in SUBSET Indices /\ config[req[c].f] \in DestLists
        /\ sel \subseteq 0 .. Len(config[req[c].f]) - 1
    BY <1>0, <2>1, <2>2, SelectedTyped
  <2>4. r \in ReqType
    <3> DEFINE snap == IF to = "stop" THEN <<>> ELSE config[req[c].f]
    <3>1. snap \in DestLists \cup {<<>>} /\ to \in Holding
      BY <2>3 DEF Holding
    <3>2. r = [req[c] EXCEPT !.pc = to, !.sel = sel, !.todo = sel, !.snap = snap]
      OBVIOUS
    <3> HIDE DEF snap, sel, r
    <3>3. QED
      BY <1>0, <2>3, <3>1, <3>2 DEF ReqType
  <2>5. r.act = req[c].act /\ r.i = req[c].i /\ r.pc = to /\ r.todo = sel
        /\ (to = "start" => r.snap = config[req[c].f])
    BY <1>0 DEF ReqType
  <2>6. ReqOK(r) /\ r.pc \in Holding
    BY <1>0, <2>3, <2>4, <2>5 DEF ReqOK, Holding
  <2>7. FilesOK' /\ ProcsOK'
    BY <1>0, <2>1 DEF FilesOK, ProcsOK, Exists
  <2>8. QED
    BY <2>1, <2>6, <2>7, ThreadMoves
<1>3. QED
  BY <1>1, <1>2 DEF EntryStep, EnterStart, EnterStop, EnterDelete

\* The steps outside the lock.
LEMMA OtherPreserves ==
  ASSUME LockInv,
         \/ \E c \in Conns :
              \/ Done(c)
              \/ \E act \in Actions, f \in Fields, i \in Indices \cup {All} :
                   Receive(c, act, f, i)
         \/ \E p \in Pids : Output(p) \/ Exit(p)
         \/ SupervisorRestart
         \/ \E f \in Fields, list \in DestLists \cup {NoField} : ReplaceConfig(f, list)
         \/ UNCHANGED vars
  PROVE  LockInv'
<1>0. FilesOK /\ ProcsOK
  BY LockInvParts
<1>1. ReqOK(IdleReq) /\ IdleReq.pc = "idle"
  BY IdleTyped DEF ReqOK, IdleReq
<1>2. ASSUME NEW c \in Conns, Done(c) PROVE LockInv'
  <2>1. FilesOK' /\ ProcsOK'
    BY <1>0, <1>2 DEF FilesOK, ProcsOK, Exists, Done, files
  <2>2. QED
    BY <1>1, <1>2, <2>1, LoopPreserves DEF Done, At, Holding
<1>3. ASSUME NEW c \in Conns, NEW act \in Actions, NEW f \in Fields,
             NEW i \in Indices \cup {All}, Receive(c, act, f, i)
      PROVE  LockInv'
  <2> DEFINE pc == CASE act = "start" -> "want_start"
                     [] act = "delete_destination" -> "want_delete"
                     [] OTHER -> "want_stop"
             r == [IdleReq EXCEPT !.act = act, !.f = f, !.i = i, !.pc = pc]
  <2>1. pc \in Waiting
    BY DEF Waiting
  <2>2. r \in ReqType /\ r.act = act /\ r.i = i /\ r.pc = pc
    <3> HIDE DEF pc
    <3> QED BY <2>1, IdleTyped DEF ReqType, IdleReq
  <2>3. ReqOK(r) /\ r.pc \notin Holding
    BY <1>3, <2>1, <2>2 DEF ReqOK, Receive, Waiting, Holding
  <2>4. /\ req[c].pc = "idle" /\ req' = [req EXCEPT ![c] = r] /\ lock' = lock
        /\ UNCHANGED <<config, pidFile, log, progress, proc>>
    BY <1>3 DEF Receive, At, files
  <2>5. FilesOK' /\ ProcsOK'
    BY <1>0, <2>4 DEF FilesOK, ProcsOK, Exists
  <2>6. QED
    BY <2>3, <2>4, <2>5, LoopPreserves DEF Holding
<1>4. ASSUME NEW p \in Pids, Output(p) PROVE LockInv'
  <2>1. proc' = [proc EXCEPT ![p].st = "live"] /\ proc[p].st = "new"
    BY <1>4 DEF Output
  <2>2. ProcsOK'
    BY <1>0, <2>1 DEF ProcsOK, Exists, ProcType
  <2>3. FilesOK'
    BY <1>0, <1>4 DEF FilesOK, ProcsOK, Exists, Output
  <2>4. QED
    BY <1>4, <2>2, <2>3 DEF Output, LockInv, TypeOK, WellFormed, LockDiscipline,
                            FilesOK, ProcsOK, At
<1>5. ASSUME NEW p \in Pids, Exit(p) PROVE LockInv'
  <2>1. ProcsOK'
    BY <1>0, <1>5 DEF ProcsOK, Exists, ProcType, Exit, Alive
  <2>2. QED
    BY <1>5, <2>1 DEF Exit, files, LockInv, TypeOK, WellFormed, LockDiscipline,
                      FilesOK, ProcsOK, At
<1>6. CASE SupervisorRestart
  <2>1. /\ req' \in [Conns -> ReqType]
        /\ \A c \in Conns : req'[c] = IdleReq
    BY <1>6, IdleTyped DEF SupervisorRestart
  <2>2. proc' \in [Pids -> ProcType] /\ \A p \in Pids : proc'[p].st = "free"
    BY <1>6, IdleTyped DEF SupervisorRestart, FreeProc
  <2>3. LockDiscipline'
    BY <1>1, <1>6, <2>1, ConstantsAssumption
       DEF LockDiscipline, SupervisorRestart, Holding
  <2>4. QED
    BY <1>1, <1>6, <2>1, <2>2, <2>3
       DEF SupervisorRestart, files, LockInv, TypeOK, WellFormed, ReqOK, At, Exists
<1>7. ASSUME NEW f \in Fields, NEW list \in DestLists \cup {NoField}, ReplaceConfig(f, list)
      PROVE  LockInv'
  BY <1>7 DEF ReplaceConfig, files, LockInv, TypeOK, WellFormed, LockDiscipline, At, Exists
<1>8. CASE UNCHANGED vars
  BY <1>8 DEF vars, LockInv, TypeOK, WellFormed, LockDiscipline, At, Exists
<1>9. QED
  BY <1>2, <1>3, <1>4, <1>5, <1>6, <1>7, <1>8

\* The supervisor's types are right and exactly the thread inside start, stop
\* or delete_destination holds RestreamSupervisor.lock: critical sections
\* never overlap, however calls fail, time out or are cut by a restart.
THEOREM LockSafety == Spec => [](TypeOK /\ LockDiscipline)
<1>1. Init => LockInv
  <2>1. SUFFICES ASSUME Init PROVE LockInv
    OBVIOUS
  <2>2. TypeOK
    BY <2>1, IdleTyped, ConstantsAssumption DEF Init, TypeOK
  <2>3. WellFormed /\ LockDiscipline
    BY <2>1, ConstantsAssumption
       DEF Init, WellFormed, LockDiscipline, IdleReq, FreeProc, Holding, At, Exists
  <2>4. QED
    BY <2>2, <2>3 DEF LockInv
<1>2. LockInv /\ [Next]_vars => LockInv'
  BY StartPreserves, StopPreserves, DeletePreserves, EntryPreserves, OtherPreserves
     DEF Next, Serve, LockedStep
<1>3. LockInv => TypeOK /\ LockDiscipline
  BY DEF LockInv
<1>4. QED
  BY <1>1, <1>2, <1>3, PTL DEF Spec

-----------------------------------------------------------------------------
(* No process is lost.  A step changes a slot's pid file to name a process  *)
(* it spawned, or empties it once the process it named is gone.             *)

\* A step inside the lock is one thread's.
LEMMA MovesAlone ==
  ASSUME LockInv, NEW c \in Conns, LockedStep(c)
  PROVE  /\ req[c].pc \in Holding
         /\ \A d \in Conns : d # c => req'[d] = req[d]
<1> DEFINE Alone == \A d \in Conns : d # c => req'[d] = req[d]
<1>1. req \in [Conns -> ReqType]
  <2>1. TypeOK
    BY DEF LockInv
  <2>2. QED
    BY <2>1 DEF TypeOK
<1>2. req[c].pc \in Holding
  BY DEF LockedStep, StartStep, StopStep, DeleteStep, StartKnown, StartSpawn,
         StartRecord, RecordFails, StartFails, FinishStart, StopUnknown, StopTerminate, StopReap,
         StopKill, StopGiveUp, FinishStop, DeleteStop, Compact, FinishDelete,
         Looping, At, Holding
<1>3. ASSUME NEW ok, Answer(c, ok) PROVE Alone
  BY <1>1, <1>3 DEF Answer
<1> HIDE DEF Alone
<1> SUFFICES Alone
  BY <1>2 DEF Alone
<1>4. CASE StartStep(c)
  <2>1. CASE StartKnown(c)
    BY <1>1, <2>1 DEF StartKnown, Alone
  <2>2. ASSUME NEW p \in Pids, StartSpawn(c, p) PROVE Alone
    BY <1>1, <2>2 DEF StartSpawn, Alone
  <2>3. CASE StartRecord(c)
    BY <1>1, <2>3 DEF StartRecord, Alone
  <2>4. CASE RecordFails(c) \/ StartFails(c) \/ FinishStart(c)
    BY <1>3, <2>4 DEF RecordFails, StartFails, FinishStart
  <2>5. QED
    BY <1>4, <2>1, <2>2, <2>3, <2>4 DEF StartStep
<1>5. CASE StopStep(c)
  <2>1. CASE StopUnknown(c) \/ StopTerminate(c)
    BY <1>1, <2>1 DEF StopUnknown, StopTerminate, Alone
  <2>2. CASE StopReap(c) \/ StopKill(c)
    BY <1>1, <2>2 DEF StopReap, StopKill, Alone
  <2>3. CASE StopGiveUp(c)
    BY <1>3, <2>3 DEF StopGiveUp
  <2>4. CASE FinishStop(c)
    <3>1. \/ Answer(c, TRUE)
          \/ req' = [req EXCEPT ![c].pc = "want_start", ![c].sel = {}]
          \/ req' = [req EXCEPT ![c].pc = "compact",
                                ![c].todo = req[c].i .. Len(req[c].snap) - 1]
      BY <2>4 DEF FinishStop
    <3>2. QED
      BY <1>1, <1>3, <3>1 DEF Alone
  <2>5. QED
    BY <1>5, <2>1, <2>2, <2>3, <2>4 DEF StopStep
<1>6. CASE DeleteStep(c)
  <2>1. CASE DeleteStop(c)
    BY <1>1, <1>3, <2>1 DEF DeleteStop, Alone
  <2>2. CASE Compact(c)
    BY <1>1, <2>2 DEF Compact, Alone
  <2>3. CASE FinishDelete(c)
    BY <1>3, <2>3 DEF FinishDelete
  <2>4. QED
    BY <1>6, <2>1, <2>2, <2>3 DEF DeleteStep
<1>7. QED
  BY <1>4, <1>5, <1>6 DEF LockedStep

\* Outside the window between a spawn and its record, the pid files alone name
\* every process.
LEMMA FilesName ==
  ASSUME LockInv, Tracked, NEW c \in Conns, req[c].pc \in Holding, ~At(c, "spawned")
  PROVE  /\ \A d \in Conns : ~At(d, "spawned")
         /\ \A p \in Pids : Exists(p) => pidFile[proc[p].slot] = p
<1>1. \A d \in Conns : ~At(d, "spawned")
  BY DEF LockInv, LockDiscipline, At, Holding
<1>2. QED
  BY <1>1 DEF Tracked, Unrecorded

\* With every process tracked, a slot that process() finds empty is silent.
LEMMA UnknownIsEmpty ==
  ASSUME LockInv, Tracked, NEW c \in Conns, req[c].pc \in Holding, ~At(c, "spawned"),
         NEW s \in Slots, ~Known(s)
  PROVE  \A p \in Pids : Exists(p) => proc[p].slot # s
  BY FilesName, ConstantsAssumption DEF Known

\* A step after which the pid files name every process loses none.
LEMMA NamedTracked ==
  ASSUME LockInv, NEW c \in Conns, LockedStep(c), req'[c].pc # "spawned",
         \A p \in Pids : proc'[p].st # "free" => pidFile'[proc'[p].slot] = p
  PROVE  Tracked'
<1>1. \A d \in Conns : d # c => req'[d].pc # "spawned"
  BY MovesAlone DEF LockInv, LockDiscipline, Holding
<1>2. QED
  BY <1>1 DEF Tracked, Exists, At

\* Nor does one that touches neither pid files nor a thread that has spawned.
LEMMA QuietTracked ==
  ASSUME Tracked, pidFile' = pidFile,
         \A p \in Pids : proc'[p].st # "free" => Exists(p) /\ proc'[p].slot = proc[p].slot,
         \A d \in Conns : req[d].pc = "spawned" \/ req'[d].pc = "spawned" => req'[d] = req[d]
  PROVE  Tracked'
<1>1. \A d \in Conns : At(d, "spawned")' => At(d, "spawned") /\ Here(d)' = Here(d)
  BY DEF At, Here
<1>2. ASSUME NEW p \in Pids, Exists(p)', NEW d \in Conns, Unrecorded(d, p)
      PROVE  Unrecorded(d, p)'
  BY <1>2 DEF Unrecorded, At, Here, Exists
<1>3. \A p \in Pids : Exists(p)' =>
        pidFile'[proc'[p].slot] = p \/ \E d \in Conns : Unrecorded(d, p)'
  BY <1>2 DEF Tracked, Exists
<1>4. \A d \in Conns : At(d, "spawned")' => pidFile'[Here(d)'] = NoPid
  BY <1>1 DEF Tracked
<1>5. QED
  BY <1>3, <1>4 DEF Tracked

\* Whoever answers has not just spawned.
LEMMA AnswerPc ==
  ASSUME TypeOK, NEW c \in Conns, NEW ok, Answer(c, ok)
  PROVE  req'[c].pc = "answered"
<1> DEFINE r == [IdleReq EXCEPT !.pc = "answered", !.ok = ok]
<1>1. req' = [req EXCEPT ![c] = r] /\ req \in [Conns -> ReqType]
  BY DEF Answer, TypeOK
<1>2. r.pc = "answered"
  BY DEF IdleReq
<1>3. QED
  BY <1>1, <1>2

\* The steps of a start lose no process.
LEMMA StartTracked ==
  ASSUME LockInv, Tracked, ~PidWriteFails, NEW c \in Conns, StartStep(c)
  PROVE  Tracked'
<1>0. TypeOK /\ req \in [Conns -> ReqType] /\ req[c] \in ReqType /\ LockedStep(c)
  BY DEF LockInv, TypeOK, LockedStep
<1>1. CASE StartKnown(c)
  <2>1. req'[c].pc = "start" /\ req[c].pc = "start" /\ UNCHANGED <<pidFile, proc>>
    BY <1>0, <1>1 DEF StartKnown, files, Looping, At, ReqType
  <2>2. QED
    BY <1>0, <2>1, NamedTracked, FilesName DEF At, Holding, Exists
<1>2. ASSUME NEW p \in Pids, StartSpawn(c, p) PROVE Tracked'
  <2> DEFINE s == Here(c)
  <2>1. /\ req[c].pc = "start" /\ s \in Slots /\ ~Known(s)
        /\ Spawn(s, req[c].snap[s[2] + 1], p)
        /\ pidFile' = [pidFile EXCEPT ![s] = NoPid]
        /\ req' = [req EXCEPT ![c] = [req[c] EXCEPT !.pc = "spawned", !.last = p]]
    BY <1>2, StartTyped DEF StartSpawn, Looping, At
  <2>2. req'[c].pc = "spawned" /\ req'[c].last = p /\ Here(c)' = s
    BY <1>0, <2>1 DEF ReqType, Here
  <2>3. Unrecorded(c, p)'
    BY <2>1, <2>2 DEF Unrecorded, At, Spawn
  <2>4. ASSUME NEW q \in Pids, q # p, Exists(q)' PROVE pidFile'[proc'[q].slot] = q
    <3>1. proc'[q] = proc[q] /\ Exists(q)
      BY <2>1, <2>4 DEF Spawn, FreeProc, Exists
    <3>2. pidFile[proc[q].slot] = q /\ proc[q].slot # s
      BY <2>1, <3>1, FilesName, UnknownIsEmpty DEF At, Holding
    <3>3. proc[q].slot \in Slots
      BY <3>1 DEF LockInv, WellFormed
    <3>4. QED
      BY <1>0, <2>1, <3>1, <3>2, <3>3 DEF TypeOK
  <2>5. ASSUME NEW d \in Conns, At(d, "spawned")' PROVE pidFile'[Here(d)'] = NoPid
    <3>1. d = c
      BY <1>0, <2>1, <2>5, MovesAlone, FilesName DEF At, Holding
    <3>2. QED
      BY <1>0, <2>1, <2>2, <3>1 DEF TypeOK
  <2>6. QED
    BY <2>3, <2>4, <2>5 DEF Tracked
<1>3. CASE StartRecord(c)
  <2> DEFINE s == Here(c)
  <2>1. /\ req[c].pc = "spawned" /\ proc' = proc
        /\ pidFile' = [pidFile EXCEPT ![s] = req[c].last]
        /\ req'[c].pc = "start"
    BY <1>0, <1>3 DEF StartRecord, At, ReqType
  <2>2. req[c].todo # {} /\ req[c].last \in Pids
    BY <2>1 DEF LockInv, WellFormed, At
  <2>3. s \in Slots /\ pidFile[s] = NoPid
    BY <1>0, <2>1, <2>2, HereTyped DEF Tracked, At
  <2>4. \A d \in Conns : At(d, "spawned") => d = c
    BY <2>1 DEF LockInv, LockDiscipline, At, Holding
  <2>5. ASSUME NEW p \in Pids, Exists(p) PROVE pidFile'[proc[p].slot] = p
    <3>1. CASE pidFile[proc[p].slot] = p
      BY <1>0, <2>1, <2>3, <2>5, <3>1, ConstantsAssumption
         DEF TypeOK, LockInv, WellFormed
    <3>2. CASE Unrecorded(c, p)
      BY <1>0, <2>1, <2>3, <3>2 DEF TypeOK, Unrecorded
    <3>3. QED
      BY <2>4, <2>5, <3>1, <3>2 DEF Tracked, Unrecorded
  <2>6. QED
    BY <1>0, <2>1, <2>5, NamedTracked DEF Exists
<1>4. CASE RecordFails(c)
  BY <1>4 DEF RecordFails
<1>5. CASE StartFails(c)
  <2>1. /\ req[c].pc = "start" /\ Here(c) \in Slots /\ ~Known(Here(c))
        /\ Reap({req[c].last}) \/ Reap(Pids)
        /\ pidFile' = [pidFile EXCEPT ![Here(c)] = NoPid] /\ Answer(c, FALSE)
    BY <1>5, StartTyped DEF StartFails, Looping, At
  <2>2. \A p \in Pids : proc'[p].st # "free" => proc'[p] = proc[p]
    BY <2>1 DEF Reap, FreeProc
  <2>3. ASSUME NEW p \in Pids, proc'[p].st # "free" PROVE pidFile'[proc'[p].slot] = p
    <3>1. /\ pidFile[proc[p].slot] = p /\ proc[p].slot # Here(c)
          /\ proc[p].slot \in Slots
      BY <2>1, <2>2, <2>3, FilesName, UnknownIsEmpty
         DEF At, Holding, Exists, LockInv, WellFormed
    <3>2. QED
      BY <1>0, <2>1, <2>2, <2>3, <3>1 DEF TypeOK
  <2>4. QED
    BY <1>0, <2>1, <2>3, AnswerPc, NamedTracked
<1>6. CASE FinishStart(c)
  <2>1. /\ req[c].pc = "start" /\ Reap({req[c].last}) /\ pidFile' = pidFile
        /\ Answer(c, req[c].ok)
    BY <1>6 DEF FinishStart, files, At
  <2>2. \A p \in Pids : proc'[p].st # "free" => proc'[p] = proc[p]
    BY <2>1 DEF Reap, FreeProc
  <2>3. \A p \in Pids : proc'[p].st # "free" => pidFile'[proc'[p].slot] = p
    BY <2>1, <2>2, FilesName DEF At, Holding, Exists
  <2>4. QED
    BY <1>0, <2>1, <2>3, AnswerPc, NamedTracked
<1>7. QED
  BY <1>1, <1>2, <1>3, <1>4, <1>5, <1>6 DEF StartStep

\* The steps of a stop and of a deletion are not those of a thread that has
\* just spawned, and make none.
LEMMA StopPc ==
  ASSUME TypeOK, NEW c \in Conns, StopStep(c) \/ DeleteStep(c)
  PROVE  req[c].pc \in Holding /\ ~At(c, "spawned") /\ req'[c].pc # "spawned"
<1>0. req \in [Conns -> ReqType] /\ req[c] \in ReqType
  BY DEF TypeOK
<1>1. req[c].pc \in Holding /\ ~At(c, "spawned")
  BY DEF StopStep, DeleteStep, StopUnknown, StopTerminate, StopReap, StopKill,
         StopGiveUp, FinishStop, DeleteStop, Compact, FinishDelete, Looping, At, Holding
<1> SUFFICES req'[c].pc # "spawned"
  BY <1>1
<1>2. ASSUME NEW ok, Answer(c, ok) PROVE req'[c].pc # "spawned"
  BY <1>2, AnswerPc
<1>3. CASE StopUnknown(c) \/ StopTerminate(c) \/ Compact(c)
  BY <1>0, <1>3 DEF StopUnknown, StopTerminate, Compact, Looping, At, ReqType
<1>4. CASE StopReap(c) \/ StopKill(c)
  BY <1>0, <1>4 DEF StopReap, StopKill, ReqType
<1>5. CASE StopGiveUp(c) \/ FinishDelete(c)
  BY <1>2, <1>5 DEF StopGiveUp, FinishDelete
<1>6. CASE FinishStop(c)
  <2>1. \/ Answer(c, TRUE)
        \/ req' = [req EXCEPT ![c].pc = "want_start", ![c].sel = {}]
        \/ req' = [req EXCEPT ![c].pc = "compact",
                              ![c].todo = req[c].i .. Len(req[c].snap) - 1]
    BY <1>6 DEF FinishStop
  <2>2. CASE Answer(c, TRUE)
    BY <1>2, <2>2
  <2>3. CASE req' = [req EXCEPT ![c].pc = "want_start", ![c].sel = {}]
    BY <1>0, <2>3 DEF ReqType
  <2>4. CASE req' = [req EXCEPT ![c].pc = "compact",
                                ![c].todo = req[c].i .. Len(req[c].snap) - 1]
    BY <1>0, <2>4 DEF ReqType
  <2>5. QED
    BY <2>1, <2>2, <2>3, <2>4
<1>7. CASE DeleteStop(c)
  <2>1. \/ Answer(c, FALSE)
        \/ req' = [req EXCEPT ![c].pc = "stop", ![c].sel = Selected(req[c].f, All),
                              ![c].todo = Selected(req[c].f, All)]
    BY <1>7 DEF DeleteStop
  <2>2. CASE Answer(c, FALSE)
    BY <1>2, <2>2
  <2>3. CASE req' = [req EXCEPT ![c].pc = "stop", ![c].sel = Selected(req[c].f, All),
                                ![c].todo = Selected(req[c].f, All)]
    BY <1>0, <2>3 DEF ReqType
  <2>4. QED
    BY <2>1, <2>2, <2>3
<1>8. QED
  BY <1>3, <1>4, <1>5, <1>6, <1>7 DEF StopStep, DeleteStep

\* No step inside the lock loses a process.
LEMMA LockedTracked ==
  ASSUME LockInv, Tracked, ~PidWriteFails, NEW c \in Conns, LockedStep(c)
  PROVE  Tracked'
<1>1. CASE StartStep(c)
  BY <1>1, StartTracked
<1>2. CASE StopStep(c) \/ DeleteStep(c)
  <2>0. TypeOK /\ req[c].pc \in Holding /\ ~At(c, "spawned") /\ req'[c].pc # "spawned"
    BY <1>2, StopPc DEF LockInv
  <2>1. \A p \in Pids : Exists(p) => pidFile[proc[p].slot] = p /\ proc[p].slot \in Slots
    BY <2>0, FilesName DEF LockInv, WellFormed
  <2>2. ASSUME \A p \in Pids : proc'[p].st # "free" => pidFile'[proc'[p].slot] = p
        PROVE  Tracked'
    BY <2>0, <2>2, NamedTracked
  <2>3. CASE StopUnknown(c)
    <3>1. Here(c) \in Slots /\ ~Known(Here(c)) /\ proc' = proc
          /\ pidFile' = [pidFile EXCEPT ![Here(c)] = NoPid]
      BY <2>0, <2>3, HereTyped DEF StopUnknown, Looping
    <3>2. \A p \in Pids : Exists(p) => proc[p].slot # Here(c)
      BY <2>0, <3>1, UnknownIsEmpty
    <3>3. QED
      BY <2>0, <2>1, <2>2, <3>1, <3>2 DEF Exists, TypeOK
  <2>4. CASE StopReap(c)
    <3> DEFINE p == pidFile[Here(c)]
    <3>1. proc' = [proc EXCEPT ![p] = FreeProc] /\ pidFile' = [pidFile EXCEPT ![Here(c)] = NoPid]
      BY <2>4 DEF StopReap
    <3>2. \A q \in Pids : proc'[q].st # "free" => q # p /\ proc'[q] = proc[q]
      BY <2>0, <3>1 DEF FreeProc, TypeOK
    <3>3. \A q \in Pids : Exists(q) /\ q # p => proc[q].slot # Here(c)
      BY <2>1
    <3>4. QED
      BY <2>0, <2>1, <2>2, <3>1, <3>2, <3>3 DEF Exists, TypeOK
  <2>5. CASE StopTerminate(c) \/ StopKill(c) \/ StopGiveUp(c) \/ FinishStop(c)
             \/ DeleteStop(c) \/ Compact(c) \/ FinishDelete(c)
    <3>1. UNCHANGED <<pidFile, proc>>
      BY <2>5 DEF StopTerminate, StopKill, StopGiveUp, FinishStop, DeleteStop, Compact,
                  FinishDelete, files
    <3>2. QED
      BY <2>1, <2>2, <3>1 DEF Exists
  <2>6. QED
    BY <1>2, <2>3, <2>4, <2>5 DEF StopStep, DeleteStep
<1>3. QED
  BY <1>1, <1>2 DEF LockedStep

\* No step loses a process, as long as pid files can be written.
LEMMA TrackedInductive ==
  ASSUME LockInv, Tracked, ~PidWriteFails, [Next]_vars
  PROVE  Tracked'
<1>0. TypeOK /\ req \in [Conns -> ReqType]
  BY DEF LockInv, TypeOK
<1>1. ASSUME NEW c \in Conns, LockedStep(c) PROVE Tracked'
  BY <1>1, LockedTracked
<1>2. ASSUME NEW c \in Conns, UNCHANGED <<pidFile, proc>>,
             \A d \in Conns : d # c => req'[d] = req[d],
             req[c].pc # "spawned", req'[c].pc # "spawned"
      PROVE  Tracked'
  BY <1>2, QuietTracked DEF Exists
<1>3. ASSUME NEW c \in Conns, EntryStep(c) PROVE Tracked'
  <2>1. CASE Refuse(c)
    <3>1. /\ UNCHANGED <<pidFile, proc>> /\ req[c].pc \in Waiting
          /\ \A d \in Conns : d # c => req'[d] = req[d]
      BY <1>0, <2>1 DEF Refuse, files, Answer
    <3>2. req'[c].pc = "answered"
      BY <1>0, <2>1, AnswerPc DEF Refuse
    <3>3. QED
      BY <1>2, <3>1, <3>2 DEF Waiting
  <2>2. ASSUME NEW from \in Waiting, NEW to \in {"start", "stop", "delete"}, Enter(c, from, to)
        PROVE  Tracked'
    <3>1. /\ UNCHANGED <<pidFile, proc>> /\ req[c].pc \in Waiting /\ req'[c].pc = to
          /\ \A d \in Conns : d # c => req'[d] = req[d]
      BY <1>0, <2>2 DEF Enter, files, At, ReqType
    <3>2. QED
      BY <1>2, <3>1 DEF Waiting
  <2>3. QED
    BY <1>3, <2>1, <2>2 DEF EntryStep, EnterStart, EnterStop, EnterDelete, Waiting
<1>4. ASSUME NEW c \in Conns, Done(c) PROVE Tracked'
  <2>1. /\ req[c].pc = "answered" /\ req'[c] = IdleReq /\ UNCHANGED <<pidFile, proc>>
        /\ \A d \in Conns : d # c => req'[d] = req[d]
    BY <1>0, <1>4 DEF Done, At, files
  <2>2. QED
    BY <1>2, <2>1 DEF IdleReq
<1>5. ASSUME NEW c \in Conns, NEW act, NEW f, NEW i, Receive(c, act, f, i) PROVE Tracked'
  <2> DEFINE pc == CASE act = "start" -> "want_start"
                     [] act = "delete_destination" -> "want_delete"
                     [] OTHER -> "want_stop"
             r == [IdleReq EXCEPT !.act = act, !.f = f, !.i = i, !.pc = pc]
  <2>1. req' = [req EXCEPT ![c] = r] /\ UNCHANGED <<pidFile, proc>> /\ req[c].pc = "idle"
    BY <1>5 DEF Receive, files, At
  <2>2. r.pc = pc
    BY DEF IdleReq
  <2>3. pc # "spawned"
    OBVIOUS
  <2> HIDE DEF r, pc
  <2>4. req'[c].pc # "spawned" /\ \A d \in Conns : d # c => req'[d] = req[d]
    BY <1>0, <2>1, <2>2, <2>3
  <2>5. QED
    BY <1>2, <2>1, <2>4
<1>6. ASSUME NEW p \in Pids, Output(p) \/ Exit(p) PROVE Tracked'
  <2>1. /\ pidFile' = pidFile /\ req' = req
        /\ Exists(p)
        /\ \A q \in Pids : proc'[q].slot = proc[q].slot /\ (q # p => proc'[q] = proc[q])
    BY <1>6 DEF Output, Exit, Alive, Exists, files, LockInv, TypeOK, ProcType
  <2>2. QED
    BY <2>1, QuietTracked DEF Exists
<1>7. CASE SupervisorRestart
  BY <1>7 DEF SupervisorRestart, FreeProc, Tracked, Exists, At, IdleReq
<1>8. CASE \/ \E f \in Fields, list \in DestLists \cup {NoField} : ReplaceConfig(f, list)
           \/ UNCHANGED vars
  <2>1. UNCHANGED <<pidFile, proc, req>>
    BY <1>8 DEF ReplaceConfig, files, vars
  <2>2. QED
    BY <2>1, QuietTracked DEF Exists
<1>9. QED
  BY <1>1, <1>3, <1>4, <1>5, <1>6, <1>7, <1>8 DEF Next, Serve

\* As long as pid files can be written, the pid file of a slot names every
\* FFmpeg that was spawned for it and has not been reaped: none is lost and no
\* slot ever has two.
THEOREM NoProcessIsLost == ASSUME ~PidWriteFails PROVE Spec => []Tracked
<1>1. Init => LockInv /\ Tracked
  <2>1. Init => TypeOK
    BY IdleTyped, ConstantsAssumption DEF Init, TypeOK
  <2>2. Init => WellFormed /\ LockDiscipline /\ Tracked
    BY ConstantsAssumption
       DEF Init, WellFormed, LockDiscipline, Tracked, IdleReq, FreeProc, Holding, At, Exists
  <2>3. QED
    BY <2>1, <2>2 DEF LockInv
<1>2. LockInv /\ Tracked /\ [Next]_vars => (LockInv /\ Tracked)'
  BY TrackedInductive, StartPreserves, StopPreserves, DeletePreserves, EntryPreserves,
     OtherPreserves DEF Next, Serve, LockedStep
<1>3. QED
  BY <1>1, <1>2, PTL DEF Spec

-----------------------------------------------------------------------------
(* What stop has visited is silent: the lock keeps start out, and no other  *)
(* step makes a slot stream.                                                *)

\* The clause of VisitedIsSilent for one thread.
SilentFor(c) ==
  req[c].pc \in {"stop", "term", "kill", "compact"} =>
    \A i \in req[c].sel :
      (req[c].pc = "compact" \/ i \notin req[c].todo) => ~Streaming(<<req[c].f, i>>)

\* No slot begins to stream when no process comes to life or changes its slot.
NoneStarts ==
  \A p \in Pids : Alive(p)' => Alive(p) /\ proc'[p].slot = proc[p].slot

\* What is silent stays so while nothing starts.
LEMMA StillSilent ==
  ASSUME NoneStarts, NEW s, ~Streaming(s)
  PROVE  ~Streaming(s)'
  BY DEF NoneStarts, Streaming

\* What a stop has visited stays silent while it rests and nothing starts.
LEMMA UnmovedSilent ==
  ASSUME VisitedIsSilent, NoneStarts, NEW d \in Conns, req'[d] = req[d]
  PROVE  SilentFor(d)'
<1>1. SilentFor(d)
  BY DEF VisitedIsSilent, SilentFor
<1>2. ASSUME NEW s, ~Streaming(s), NEW p \in Pids, Alive(p)'
      PROVE  proc'[p].slot # s
  BY <1>2 DEF NoneStarts, Streaming
<1>3. QED
  BY <1>1, <1>2 DEF SilentFor, Streaming

\* A thread outside the lock is not one the invariant speaks of.
LEMMA OthersOutside ==
  ASSUME LockInv, NEW c \in Conns, req[c].pc \in Holding,
         NEW d \in Conns, d # c, req'[d] = req[d]
  PROVE  SilentFor(d)'
<1>1. req[d].pc \notin Holding
  BY DEF LockInv, LockDiscipline
<1>2. QED
  BY <1>1 DEF SilentFor, Holding

\* An answered request is nothing the invariant speaks of.
LEMMA AnsweredSilent ==
  ASSUME LockInv, NEW c \in Conns, NEW ok \in BOOLEAN, Answer(c, ok)
  PROVE  /\ req'[c].pc = "answered" /\ SilentFor(c)'
         /\ \A d \in Conns : d # c => req'[d] = req[d]
<1> DEFINE r == [IdleReq EXCEPT !.pc = "answered", !.ok = ok]
<1>1. req' = [req EXCEPT ![c] = r] /\ req \in [Conns -> ReqType]
  BY DEF Answer, LockInv, TypeOK
<1>2. r.pc = "answered"
  BY DEF IdleReq
<1>3. req'[c].pc = "answered" /\ \A d \in Conns : d # c => req'[d] = req[d]
  BY <1>1, <1>2
<1>4. QED
  BY <1>3 DEF SilentFor

\* The steps of start end in a start or an answer.
LEMMA StartSilent ==
  ASSUME LockInv, NEW c \in Conns, StartStep(c)
  PROVE  SilentFor(c)'
<1>0. req \in [Conns -> ReqType] /\ req[c] \in ReqType
  BY DEF LockInv, TypeOK
<1>1. CASE StartKnown(c)
  <2>1. req'[c].pc = "start"
    BY <1>0, <1>1 DEF StartKnown, Looping, At, ReqType
  <2>2. QED
    BY <2>1 DEF SilentFor
<1>2. ASSUME NEW p \in Pids, StartSpawn(c, p) PROVE SilentFor(c)'
  <2>1. req'[c].pc = "spawned"
    BY <1>0, <1>2 DEF StartSpawn, ReqType
  <2>2. QED
    BY <2>1 DEF SilentFor
<1>3. CASE StartRecord(c)
  <2>1. req'[c].pc = "start"
    BY <1>0, <1>3 DEF StartRecord, ReqType
  <2>2. QED
    BY <2>1 DEF SilentFor
<1>4. CASE RecordFails(c) \/ StartFails(c) \/ FinishStart(c)
  <2>1. Answer(c, FALSE) \/ Answer(c, req[c].ok)
    BY <1>4 DEF RecordFails, StartFails, FinishStart
  <2>2. req[c].ok \in BOOLEAN
    BY <1>0 DEF ReqType
  <2>3. QED
    BY <2>1, <2>2, AnsweredSilent
<1>5. QED
  BY <1>1, <1>2, <1>3, <1>4 DEF StartStep

\* What a stop passes over is silent.
LEMMA StopSilent ==
  ASSUME LockInv, Tracked, VisitedIsSilent, NEW c \in Conns, StopStep(c) \/ DeleteStep(c)
  PROVE  SilentFor(c)'
<1>0. req \in [Conns -> ReqType] /\ req[c] \in ReqType /\ TypeOK /\ SilentFor(c)
  BY DEF LockInv, TypeOK, VisitedIsSilent, SilentFor
<1>1. CASE StopUnknown(c)
  <2>1. /\ req[c].pc = "stop" /\ req[c].todo # {} /\ ~Known(Here(c)) /\ proc' = proc
        /\ req'[c] = [req[c] EXCEPT !.todo = Visited(c)]
    BY <1>0, <1>1 DEF StopUnknown, Looping, At
  <2>2. Here(c) \in Slots /\ Here(c) = <<req[c].f, Least(req[c].todo)>>
    BY <1>0, <2>1, HereTyped DEF Here
  <2>3. ~Streaming(Here(c))
    BY <2>1, <2>2, UnknownIsEmpty DEF Streaming, Alive, Exists, At, Holding
  <2>4. \A i \in req[c].sel : i \notin Visited(c) => ~Streaming(<<req[c].f, i>>)
    BY <1>0, <2>1, <2>2, <2>3 DEF SilentFor, Visited
  <2>5. /\ req'[c].pc = "stop" /\ req'[c].sel = req[c].sel /\ req'[c].f = req[c].f
        /\ req'[c].todo = Visited(c)
    BY <1>0, <2>1 DEF ReqType
  <2>6. NoneStarts
    BY <2>1 DEF NoneStarts, Alive
  <2>7. QED
    BY <2>4, <2>5, <2>6, StillSilent DEF SilentFor
<1>2. CASE StopTerminate(c) \/ StopKill(c)
  <2>1. /\ req'[c].sel = req[c].sel /\ req'[c].todo = req[c].todo /\ req'[c].f = req[c].f
        /\ req'[c].pc # "compact" /\ req[c].pc \in {"stop", "term"} /\ proc' = proc
    BY <1>0, <1>2 DEF StopTerminate, StopKill, Looping, At, files, ReqType
  <2>2. NoneStarts
    BY <2>1 DEF NoneStarts, Alive
  <2>3. QED
    BY <1>0, <2>1, <2>2, StillSilent DEF SilentFor
<1>3. CASE StopReap(c)
  <2> DEFINE p == pidFile[Here(c)]
  <2>1. /\ req[c].pc \in {"term", "kill"} /\ proc' = [proc EXCEPT ![p] = FreeProc]
        /\ req'[c] = [req[c] EXCEPT !.pc = "stop", !.todo = Visited(c)]
    BY <1>0, <1>3 DEF StopReap
  <2>2. Here(c) = <<req[c].f, Least(req[c].todo)>>
    BY DEF Here
  <2>3. NoneStarts
    BY <1>0, <2>1 DEF NoneStarts, Alive, FreeProc, TypeOK
  <2>4. \A q \in Pids : Alive(q)' => Alive(q) /\ q # p
    BY <1>0, <2>1, <2>3 DEF NoneStarts, Alive, FreeProc, TypeOK
  <2>5. \A q \in Pids : Alive(q)' => proc'[q].slot # Here(c)
    <3>1. SUFFICES ASSUME NEW q \in Pids, Alive(q)', proc'[q].slot = Here(c) PROVE FALSE
      OBVIOUS
    <3>2. Alive(q) /\ q # p /\ proc[q].slot = Here(c)
      BY <2>3, <2>4, <3>1 DEF NoneStarts
    <3>3. pidFile[proc[q].slot] = q
      BY <2>1, <3>2, FilesName DEF Alive, Exists, At, Holding
    <3>4. QED
      BY <3>2, <3>3
  <2>6. /\ req'[c].pc = "stop" /\ req'[c].sel = req[c].sel /\ req'[c].f = req[c].f
        /\ req'[c].todo = Visited(c)
    BY <1>0, <2>1 DEF ReqType
  <2>7. ASSUME NEW i \in req[c].sel, i \notin Visited(c)
        PROVE  \A q \in Pids : Alive(q)' => proc'[q].slot # <<req[c].f, i>>
    <3>1. CASE i = Least(req[c].todo)
      BY <2>2, <2>5, <3>1
    <3>2. CASE i \notin req[c].todo
      <4>1. ~Streaming(<<req[c].f, i>>)
        BY <1>0, <2>1, <2>7, <3>2 DEF SilentFor
      <4>2. QED
        BY <2>3, <4>1 DEF Streaming, NoneStarts
    <3>3. QED
      BY <2>7, <3>1, <3>2 DEF Visited
  <2>8. \A i \in req'[c].sel : i \notin req'[c].todo => ~Streaming(<<req[c].f, i>>)'
    BY <2>6, <2>7 DEF Streaming
  <2>9. QED
    BY <2>6, <2>8 DEF SilentFor
<1>4. CASE StopGiveUp(c) \/ FinishDelete(c)
  <2>1. \E ok \in BOOLEAN : Answer(c, ok)
    BY <1>4 DEF StopGiveUp, FinishDelete
  <2>2. QED
    BY <2>1, AnsweredSilent
<1>5. CASE FinishStop(c)
  <2>1. req[c].pc = "stop" /\ req[c].todo = {} /\ proc' = proc
    BY <1>5 DEF FinishStop, At
  <2>2. \/ Answer(c, TRUE)
        \/ req' = [req EXCEPT ![c].pc = "want_start", ![c].sel = {}]
        \/ req' = [req EXCEPT ![c].pc = "compact",
                              ![c].todo = req[c].i .. Len(req[c].snap) - 1]
    BY <1>5 DEF FinishStop
  <2>3. QED
    <3>1. CASE Answer(c, TRUE)
      BY <3>1, AnsweredSilent
    <3>2. CASE req' = [req EXCEPT ![c].pc = "want_start", ![c].sel = {}]
      <4>1. req'[c].pc = "want_start"
        BY <1>0, <3>2 DEF ReqType
      <4>2. QED
        BY <4>1 DEF SilentFor
    <3>3. CASE req' = [req EXCEPT ![c].pc = "compact",
                                  ![c].todo = req[c].i .. Len(req[c].snap) - 1]
      <4>1. /\ req'[c].pc = "compact" /\ req'[c].sel = req[c].sel
            /\ req'[c].f = req[c].f
        BY <1>0, <3>3 DEF ReqType
      <4>2. QED
        BY <1>0, <2>1, <4>1 DEF SilentFor, Streaming, Alive
    <3>4. QED
      BY <2>2, <3>1, <3>2, <3>3
<1>6. CASE DeleteStop(c)
  <2> DEFINE sel == Selected(req[c].f, All)
  <2>1. \/ Answer(c, FALSE)
        \/ req' = [req EXCEPT ![c].pc = "stop", ![c].sel = sel, ![c].todo = sel]
    BY <1>6 DEF DeleteStop
  <2>2. CASE Answer(c, FALSE)
    BY <2>2, AnsweredSilent
  <2>3. CASE req' = [req EXCEPT ![c].pc = "stop", ![c].sel = sel, ![c].todo = sel]
    <3> HIDE DEF sel
    <3>1. req'[c].pc = "stop" /\ req'[c].sel = sel /\ req'[c].todo = sel
      BY <1>0, <2>3 DEF ReqType
    <3>2. QED
      BY <3>1 DEF SilentFor
  <2>4. QED
    BY <2>1, <2>2, <2>3
<1>7. CASE Compact(c)
  <2>1. /\ req[c].pc = "compact" /\ req'[c].pc = "compact" /\ req'[c].sel = req[c].sel
        /\ req'[c].f = req[c].f /\ proc' = proc
    BY <1>0, <1>7 DEF Compact, Looping, At, ReqType
  <2>2. QED
    BY <1>0, <2>1 DEF SilentFor, Streaming, Alive
<1>8. QED
  BY <1>1, <1>2, <1>3, <1>4, <1>5, <1>6, <1>7 DEF StopStep, DeleteStep

\* A request that enters has visited nothing yet.
LEMMA EntrySilent ==
  ASSUME LockInv, NEW c \in Conns, EntryStep(c)
  PROVE  SilentFor(c)' /\ proc' = proc /\ \A d \in Conns : d # c => req'[d] = req[d]
<1>0. req \in [Conns -> ReqType] /\ req[c] \in ReqType
  BY DEF LockInv, TypeOK
<1>1. CASE Refuse(c)
  BY <1>1, AnsweredSilent DEF Refuse
<1>2. ASSUME NEW from, NEW to \in {"start", "stop", "delete"}, Enter(c, from, to)
      PROVE  SilentFor(c)' /\ proc' = proc /\ \A d \in Conns : d # c => req'[d] = req[d]
  <2>1. /\ req'[c].todo = req'[c].sel /\ req'[c].pc = to /\ proc' = proc
        /\ \A d \in Conns : d # c => req'[d] = req[d]
    BY <1>0, <1>2 DEF Enter, ReqType
  <2>2. QED
    BY <1>2, <2>1 DEF SilentFor
<1>3. QED
  BY <1>1, <1>2 DEF EntryStep, EnterStart, EnterStop, EnterDelete

\* Every step leaves what a stop has visited silent.
LEMMA SilentInductive ==
  ASSUME LockInv, Tracked, VisitedIsSilent, [Next]_vars
  PROVE  VisitedIsSilent'
<1>1. ASSUME NEW c \in Conns, LockedStep(c) PROVE VisitedIsSilent'
  <2>1. SilentFor(c)'
    BY <1>1, StartSilent, StopSilent DEF LockedStep
  <2>2. ASSUME NEW d \in Conns, d # c PROVE SilentFor(d)'
    BY <1>1, <2>2, MovesAlone, OthersOutside
  <2>3. QED
    BY <2>1, <2>2 DEF VisitedIsSilent, SilentFor
<1>2. ASSUME NEW c \in Conns, EntryStep(c) PROVE VisitedIsSilent'
  <2>1. NoneStarts
    BY <1>2, EntrySilent DEF NoneStarts, Alive
  <2>2. \A d \in Conns : SilentFor(d)'
    BY <1>2, <2>1, EntrySilent, UnmovedSilent
  <2>3. QED
    BY <2>2 DEF VisitedIsSilent, SilentFor
<1>3. ASSUME NEW c \in Conns,
             Done(c) \/ \E act \in Actions, f \in Fields, i \in Indices \cup {All} :
                          Receive(c, act, f, i)
      PROVE  VisitedIsSilent'
  <2>0. req \in [Conns -> ReqType] /\ proc' = proc
    BY <1>3 DEF Done, Receive, LockInv, TypeOK
  <2>1. /\ req'[c].pc \in {"idle", "want_start", "want_stop", "want_delete"}
        /\ proc' = proc /\ \A d \in Conns : d # c => req'[d] = req[d]
    <3>1. CASE Done(c)
      BY <2>0, <3>1 DEF Done, IdleReq
    <3>2. ASSUME NEW act \in Actions, NEW f \in Fields, NEW i \in Indices \cup {All},
                 Receive(c, act, f, i)
          PROVE  /\ req'[c].pc \in {"want_start", "want_stop", "want_delete"}
                 /\ \A d \in Conns : d # c => req'[d] = req[d]
      <4> DEFINE pc == CASE act = "start" -> "want_start"
                         [] act = "delete_destination" -> "want_delete"
                         [] OTHER -> "want_stop"
                 r == [IdleReq EXCEPT !.act = act, !.f = f, !.i = i, !.pc = pc]
      <4>1. req' = [req EXCEPT ![c] = r]
        BY <3>2 DEF Receive
      <4>2. r.pc = pc
        BY DEF IdleReq
      <4>3. pc \in {"want_start", "want_stop", "want_delete"}
        OBVIOUS
      <4> HIDE DEF r, pc
      <4>4. QED
        BY <2>0, <4>1, <4>2, <4>3
    <3>3. QED
      BY <1>3, <2>0, <3>1, <3>2
  <2>2. NoneStarts
    BY <2>1 DEF NoneStarts, Alive
  <2>3. SilentFor(c)'
    BY <2>1 DEF SilentFor
  <2>4. \A d \in Conns : SilentFor(d)'
    BY <2>1, <2>2, <2>3, UnmovedSilent
  <2>5. QED
    BY <2>4 DEF VisitedIsSilent, SilentFor
<1>4. CASE \/ \E p \in Pids : Output(p) \/ Exit(p)
           \/ \E f \in Fields, list \in DestLists \cup {NoField} : ReplaceConfig(f, list)
           \/ UNCHANGED vars
  <2>1. NoneStarts /\ req' = req
    BY <1>4 DEF Output, Exit, ReplaceConfig, vars, files, NoneStarts, Alive,
                LockInv, TypeOK, ProcType
  <2>2. \A d \in Conns : SilentFor(d)'
    BY <2>1, UnmovedSilent
  <2>3. QED
    BY <2>2 DEF VisitedIsSilent, SilentFor
<1>5. CASE SupervisorRestart
  BY <1>5 DEF SupervisorRestart, VisitedIsSilent, IdleReq
<1>6. QED
  BY <1>1, <1>2, <1>3, <1>4, <1>5 DEF Next, Serve

\* What a stop has visited stays without an FFmpeg for as long as the call (or
\* the deletion that made it) goes on, whatever other requests arrive: a
\* destination that stop or delete_destination answers as stopped is stopped.
THEOREM StoppedIsSilent == ASSUME ~PidWriteFails PROVE Spec => []VisitedIsSilent
<1>1. Init => LockInv /\ Tracked /\ VisitedIsSilent
  <2>1. Init => TypeOK
    BY IdleTyped, ConstantsAssumption DEF Init, TypeOK
  <2>2. Init => WellFormed /\ LockDiscipline /\ Tracked
    BY ConstantsAssumption
       DEF Init, WellFormed, LockDiscipline, Tracked, IdleReq, FreeProc, Holding, At, Exists
  <2>3. Init => VisitedIsSilent
    BY DEF Init, VisitedIsSilent, IdleReq
  <2>4. QED
    BY <2>1, <2>2, <2>3 DEF LockInv
<1>2. LockInv /\ [Next]_vars => LockInv'
  BY StartPreserves, StopPreserves, DeletePreserves, EntryPreserves,
     OtherPreserves DEF Next, Serve, LockedStep
<1>3. LockInv /\ Tracked /\ VisitedIsSilent /\ [Next]_vars
        => (LockInv /\ Tracked /\ VisitedIsSilent)'
  BY <1>2, TrackedInductive, SilentInductive
<1>4. QED
  BY <1>1, <1>3, PTL DEF Spec
=============================================================================
