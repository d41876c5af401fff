------------------------------ MODULE AuditLog -------------------------------
(***************************************************************************)
(* The audit log (app/audit_log.py): the manager's threads append records   *)
(* to a file of bounded size that is rotated under a lock, and queries read *)
(* the file and its backups, newest first, without that lock.               *)
(***************************************************************************)
EXTENDS Naturals, Sequences, FiniteSets

CONSTANTS
  Kinds,         \* kinds of records, which a query selects by actor, action, ...
  Cut,           \* those whose text has a line separator that JSON leaves as it is
  Size,          \* kind -> bytes of its line
  MaxBytes,      \* max_bytes
  BackupCount,   \* backup_count
  Filters,       \* the kinds a query may ask for
  Limits,        \* limits of queries
  MaxRecords,    \* bound: records ever written
  MaxTorn        \* bound: writes that fall short

ASSUME AuditAssumption ==
  /\ Kinds # {}
  /\ Cut \subseteq Kinds
  /\ Size \in [Kinds -> Nat]
  /\ MaxBytes \in Nat
  /\ \A kind \in Kinds : Size[kind] \in 1 .. MaxBytes
  /\ BackupCount \in Nat \ {0}
  /\ Filters \subseteq SUBSET Kinds
  /\ Limits \subseteq Nat \ {0}
  /\ MaxRecords \in Nat
  /\ MaxTorn \in Nat

VARIABLES
  files,    \* the records in audit.jsonl, at 0, and in its backups; {}: no file
  bytes,    \* st_size of each of them; 0: no file
  written,  \* the kinds of all records ever written: the n-th is record n
  torn,     \* the records whose line was cut short
  joined,   \* the records whose line begins where such a line ends
  append,   \* the append that holds the lock
  recent    \* a query

avars == <<files, bytes, written, torn, joined, append, recent>>

FileIds == 0 .. BackupCount
Ids == 1 .. Len(written)
Retained == UNION {files[k] : k \in FileIds}

NoAppend == [pc |-> "idle", k |-> 0, kind |-> CHOOSE kind \in Kinds : TRUE]
NoQuery == [pc |-> "idle", k |-> 0, from |-> 1, want |-> {}, limit |-> 1,
            got |-> {}, count |-> 0]

ATypeOK ==
  /\ written \in Seq(Kinds)
  /\ files \in [FileIds -> SUBSET Ids]
  /\ bytes \in [FileIds -> Nat]
  /\ torn \subseteq Ids
  /\ joined \subseteq Ids
  /\ append \in [pc : {"idle", "unlink", "shift", "write"},
                 k : 0 .. BackupCount - 1, kind : Kinds]
  /\ recent \in [pc : {"idle", "read", "done"}, k : FileIds, from : Nat \ {0},
                 want : SUBSET Kinds, limit : Nat, got : SUBSET Ids, count : Nat]

-----------------------------------------------------------------------------
(* append *)

\* Mutant of Fits: the incoming record is not counted.
FitsNow(kind) == bytes[0] <= MaxBytes

Fits(kind) == bytes[0] + Size[kind] <= MaxBytes

\* Mutant of BeginAppend: the moves begin one index too high.
BeginAppendTooHigh(kind) ==
  /\ append.pc = "idle"
  /\ Len(written) < MaxRecords
  /\ append' = [pc |-> IF Fits(kind) THEN "write" ELSE "unlink",
                k |-> BackupCount, kind |-> kind]
  /\ UNCHANGED <<files, bytes, written, torn, joined, recent>>

\* A thread takes the lock and looks whether the file must be rotated.
BeginAppend(kind) ==
  /\ append.pc = "idle"
  /\ Len(written) < MaxRecords
  /\ append' = [pc |-> IF Fits(kind) THEN "write" ELSE "unlink",
                k |-> BackupCount - 1, kind |-> kind]
  /\ UNCHANGED <<files, bytes, written, torn, joined, recent>>

\* Mutant of Unlink: the current file is removed.
UnlinkCurrent ==
  /\ append.pc = "unlink"
  /\ files' = [files EXCEPT ![0] = {}]
  /\ bytes' = [bytes EXCEPT ![0] = 0]
  /\ append' = [append EXCEPT !.pc = "shift"]
  /\ UNCHANGED <<written, torn, joined, recent>>

\* oldest.unlink()
Unlink ==
  /\ append.pc = "unlink"
  /\ files' = [files EXCEPT ![BackupCount] = {}]
  /\ bytes' = [bytes EXCEPT ![BackupCount] = 0]
  /\ append' = [append EXCEPT !.pc = "shift"]
  /\ UNCHANGED <<written, torn, joined, recent>>

\* Mutant of Shift: the current file is copied.
ShiftByCopy ==
  /\ append.pc = "shift"
  /\ LET k == append.k
     IN  IF files[k] = {}
         THEN UNCHANGED <<files, bytes>>
         ELSE /\ files' = [files EXCEPT ![k] = IF k = 0 THEN @ ELSE {}, ![k + 1] = files[k]]
              /\ bytes' = [bytes EXCEPT ![k] = IF k = 0 THEN @ ELSE 0, ![k + 1] = bytes[k]]
  /\ append' = IF append.k = 0 THEN [append EXCEPT !.pc = "write"]
               ELSE [append EXCEPT !.k = @ - 1]
  /\ UNCHANGED <<written, torn, joined, recent>>

\* One os.replace, of the oldest first; a file that is missing is passed over.
Shift ==
  /\ append.pc = "shift"
  /\ LET k == append.k
     IN  IF files[k] = {}
         THEN UNCHANGED <<files, bytes>>
         ELSE /\ files' = [files EXCEPT ![k] = {}, ![k + 1] = files[k]]
              /\ bytes' = [bytes EXCEPT ![k] = 0, ![k + 1] = bytes[k]]
  /\ append' = IF append.k = 0 THEN [append EXCEPT !.pc = "write"]
               ELSE [append EXCEPT !.k = @ - 1]
  /\ UNCHANGED <<written, torn, joined, recent>>

\* os.write: its result is not looked at, so on a full disk only the beginning
\* of the line may be written, and the next line is joined to it.
Write(length) ==
  /\ append.pc = "write"
  /\ length \in 1 .. Size[append.kind]
  /\ LET n == Len(written) + 1
         whole == length = Size[append.kind]
     IN  /\ files' = [files EXCEPT ![0] = @ \cup {n}]
         /\ bytes' = [bytes EXCEPT ![0] = @ + length]
         /\ written' = Append(written, append.kind)
         /\ whole \/ Cardinality(torn) < MaxTorn
         /\ torn' = IF whole THEN torn ELSE torn \cup {n}
         /\ joined' = IF n - 1 \in files[0] \cap torn THEN joined \cup {n} ELSE joined
  /\ append' = NoAppend
  /\ UNCHANGED recent

\* A step of append raises: the lock is released, what was done stays done.
AppendFails ==
  /\ append.pc # "idle"
  /\ append' = NoAppend
  /\ UNCHANGED <<files, bytes, written, torn, joined, recent>>

-----------------------------------------------------------------------------
(* recent *)

\* A record can be decoded when its line is whole and alone, and splitlines()
\* takes it for one line: json.dumps(ensure_ascii=False) leaves U+0085, U+2028
\* and U+2029 as they are, splitlines() cuts there, and neither piece is JSON.
Readable(n) == n \notin torn \cup joined /\ written[n] \notin Cut

Wanted(n) == written[n] \in recent.want

Query(want, limit) ==
  /\ recent.pc \in {"idle", "done"}
  /\ recent' = [pc |-> "read", k |-> 0, from |-> Len(written) + 1, want |-> want,
                limit |-> limit, got |-> {}, count |-> 0]
  /\ UNCHANGED <<files, bytes, written, torn, joined, append>>

\* What the query takes of a file: from the last line back, up to its limit.
Taken(file) ==
  LET matching == {n \in file : Readable(n) /\ Wanted(n)}
  IN  {n \in matching :
         Cardinality({m \in matching : m > n}) < recent.limit - recent.count}

\* Mutant of ReadFile: a missing file ends the query.
ReadUntilMissing ==
  /\ recent.pc = "read"
  /\ LET taken == Taken(files[recent.k])
         count == recent.count + Cardinality(taken)
         ends == count >= recent.limit \/ recent.k = BackupCount \/ files[recent.k] = {}
     IN  recent' = [recent EXCEPT !.pc = IF ends THEN "done" ELSE "read",
                                  !.k = IF ends THEN @ ELSE @ + 1,
                                  !.got = @ \cup taken, !.count = count]
  /\ UNCHANGED <<files, bytes, written, torn, joined, append>>

\* The next file is read; a rotation between two of them may show the query
\* what it has already seen, which then counts twice.
ReadFile ==
  /\ recent.pc = "read"
  /\ LET taken == Taken(files[recent.k])
         count == recent.count + Cardinality(taken)
         ends == count >= recent.limit \/ recent.k = BackupCount
     IN  recent' = [recent EXCEPT !.pc = IF ends THEN "done" ELSE "read",
                                  !.k = IF ends THEN @ ELSE @ + 1,
                                  !.got = @ \cup taken, !.count = count]
  /\ UNCHANGED <<files, bytes, written, torn, joined, append>>

-----------------------------------------------------------------------------
\* The manager is killed, at any point of a rotation, and comes back.
Restart ==
  /\ append' = NoAppend
  /\ recent' = NoQuery
  /\ UNCHANGED <<files, bytes, written, torn, joined>>

AInit ==
  /\ files = [k \in FileIds |-> {}]
  /\ bytes = [k \in FileIds |-> 0]
  /\ written = <<>>
  /\ torn = {}
  /\ joined = {}
  /\ append = NoAppend
  /\ recent = NoQuery

ANext ==
  \/ \E kind \in Kinds : BeginAppend(kind)
  \/ Unlink \/ Shift
  \/ \E length \in 1 .. MaxBytes : Write(length)
  \/ AppendFails
  \/ \E want \in Filters, limit \in Limits : Query(want, limit)
  \/ ReadFile
  \/ Restart

ASpec == AInit /\ [][ANext]_avars

-----------------------------------------------------------------------------
\* "The current file is limited to 5 MiB" (docs/AUDIT.md), and so is each backup.
SizeBounded == \A k \in FileIds : bytes[k] <= MaxBytes

\* The backups continue each other: what is retained is an unbroken end of all
\* that was written, and a record in a later file is older, also while a
\* rotation is under way and after one that was interrupted.
EndOfHistory ==
  /\ \A n \in Retained : n .. Len(written) \subseteq Retained
  /\ \A j, k \in FileIds : j < k =>
       \A a \in files[j], b \in files[k] : b < a

\* Rotation drops records only when a file's worth of newer ones remains: a file
\* that some record does not fit into, even if rotations keep being interrupted
\* and are started again.
NewestKept ==
  Retained # Ids =>
    \E k \in FileIds, kind \in Kinds : bytes[k] + Size[kind] > MaxBytes

\* A query skips no readable record: of those that match and were written before
\* it began, it has every one that is newer than one it returns; and if its limit
\* did not stop it, every one that is still retained.  It does skip, silently, a
\* record whose line was cut short or joined to such a line, and one with a line
\* separator in its text.
NothingSkipped ==
  \A n \in Ids : Readable(n) /\ Wanted(n) /\ n < recent.from =>
    /\ (\E m \in recent.got : m < n) => n \in recent.got
    /\ recent.pc = "done" /\ recent.count < recent.limit /\ n \in Retained => n \in recent.got
=============================================================================
