--------------------------- MODULE AuditLog_proofs ---------------------------
(* The audit log loses no record between two that it retains. *)
EXTENDS AuditLog, FiniteSetTheorems, WellFoundedInduction, TLAPS

\* What the moves of a rotation rest on: the place moved to is empty.
Vacated ==
  /\ append.pc = "unlink" => append.k = BackupCount - 1
  /\ append.pc = "shift" => files[append.k + 1] = {}

HistoryInv == ATypeOK /\ EndOfHistory /\ Vacated

\* The state of no append at all is one of the appends' states.
LEMMA NoAppendTyped ==
  NoAppend \in [pc : {"idle", "unlink", "shift", "write"}, k : 0 .. BackupCount - 1,
                kind : Kinds]
  /\ NoAppend.pc = "idle"
  BY AuditAssumption DEF NoAppend

\* What the types say of each part of the state, one by one.
LEMMA TypeParts ==
  ASSUME HistoryInv
  PROVE  /\ Len(written) \in Nat /\ Ids \subseteq Nat
         /\ files \in [FileIds -> SUBSET Ids] /\ bytes \in [FileIds -> Nat]
         /\ FileIds \subseteq Nat /\ 0 \in FileIds /\ BackupCount \in FileIds
         /\ append.k \in FileIds /\ append.k + 1 \in FileIds /\ append.kind \in Kinds
         /\ recent.k \in FileIds /\ recent.from \in Nat /\ recent.limit \in Nat
         /\ recent.count \in Nat /\ recent.got \subseteq Ids
<1>0. ATypeOK
  BY DEF HistoryInv
<1>1. Len(written) \in Nat /\ Ids \subseteq Nat
  BY <1>0 DEF ATypeOK, Ids
<1>2. FileIds \subseteq Nat /\ 0 \in FileIds /\ BackupCount \in FileIds
  BY AuditAssumption DEF FileIds
<1>3. append.k \in FileIds /\ append.k + 1 \in FileIds /\ append.kind \in Kinds
  <2>1. append.k \in 0 .. BackupCount - 1 /\ append.kind \in Kinds
    BY <1>0 DEF ATypeOK
  <2>2. QED
    BY <2>1, AuditAssumption DEF FileIds
<1>4. /\ recent.k \in FileIds /\ recent.from \in Nat /\ recent.limit \in Nat
      /\ recent.count \in Nat /\ recent.got \subseteq Ids
  BY <1>0 DEF ATypeOK
<1>5. files \in [FileIds -> SUBSET Ids] /\ bytes \in [FileIds -> Nat]
  BY <1>0 DEF ATypeOK
<1>6. QED
  BY <1>1, <1>2, <1>3, <1>4, <1>5

\* Of two files, the later one has the older records.
LEMMA Ordered ==
  ASSUME HistoryInv, NEW j \in FileIds, NEW k \in FileIds, j < k,
         NEW a \in files[j], NEW b \in files[k]
  PROVE  b < a
  BY DEF HistoryInv, EndOfHistory

\* What was written after a record that is retained is retained.
LEMMA Unbroken ==
  ASSUME HistoryInv, NEW n \in Retained, NEW m \in n .. Len(written)
  PROVE  m \in Retained
  BY DEF HistoryInv, EndOfHistory

\* Before the first record there is no history to be in disorder.
LEMMA InitHistory == AInit => HistoryInv
<1> SUFFICES ASSUME AInit PROVE HistoryInv
  OBVIOUS
<1>1. NoQuery \in [pc : {"idle", "read", "done"}, k : FileIds, from : Nat \ {0},
                   want : SUBSET Kinds, limit : Nat, got : SUBSET Ids, count : Nat]
  BY AuditAssumption DEF NoQuery, FileIds
<1>2. ATypeOK
  BY <1>1, NoAppendTyped DEF AInit, ATypeOK
<1>3. EndOfHistory /\ Vacated
  BY NoAppendTyped DEF AInit, EndOfHistory, Retained, Vacated, NoAppend
<1>4. QED
  BY <1>2, <1>3 DEF HistoryInv

\* The files, the order in them and the history stay as they are.
LEMMA FilesKept ==
  ASSUME HistoryInv, UNCHANGED <<files, written, torn, joined>>
  PROVE  EndOfHistory' /\ Ids' = Ids
  BY DEF HistoryInv, EndOfHistory, Retained, Ids

\* An append that begins has touched no file yet.
LEMMA AppendHistory ==
  ASSUME HistoryInv, NEW kind \in Kinds, BeginAppend(kind)
  PROVE  HistoryInv'
<1>1. append'.pc # "shift" /\ append'.k = BackupCount - 1
  BY DEF BeginAppend
<1>2. append' \in [pc : {"idle", "unlink", "shift", "write"}, k : 0 .. BackupCount - 1,
                   kind : Kinds]
  BY AuditAssumption DEF BeginAppend
<1>3. ATypeOK'
  BY <1>2 DEF BeginAppend, HistoryInv, ATypeOK, Ids
<1>4. QED
  BY <1>1, <1>3, FilesKept DEF BeginAppend, HistoryInv, Vacated

\* The oldest backup goes: what is left is newer.
LEMMA UnlinkHistory ==
  ASSUME HistoryInv, Unlink
  PROVE  HistoryInv'
<1> USE AuditAssumption
<1>1. /\ files' = [files EXCEPT ![BackupCount] = {}]
      /\ bytes' = [bytes EXCEPT ![BackupCount] = 0]
      /\ written' = written /\ torn' = torn /\ joined' = joined /\ recent' = recent
      /\ append' = [append EXCEPT !.pc = "shift"] /\ append.pc = "unlink"
  BY DEF Unlink
<1>2. ATypeOK'
  BY <1>1 DEF HistoryInv, ATypeOK, Ids
<1>3. EndOfHistory'
  <2>1. \A k \in FileIds : files'[k] = IF k = BackupCount THEN {} ELSE files[k]
    BY <1>1 DEF HistoryInv, ATypeOK
  <2>2. \A n \in Retained' : \A m \in n .. Len(written) : m \in Retained'
    <3> SUFFICES ASSUME NEW n \in Retained', NEW m \in n .. Len(written)
                 PROVE  m \in Retained'
      OBVIOUS
    <3>1. PICK j \in FileIds : n \in files[j] /\ j # BackupCount
      BY <2>1 DEF Retained, FileIds
    <3>2. PICK k \in FileIds : m \in files[k]
      <4>1. n \in Retained
        BY <3>1 DEF Retained
      <4>2. m \in Retained
        BY <4>1, Unbroken
      <4>3. QED
        BY <4>2 DEF Retained
    <3>3. k # BackupCount
      <4>1. n \in Nat
        BY <3>1, TypeParts
      <4>2. ~(m < n)
        BY <4>1
      <4>3. ~(j < k)
        BY <3>1, <3>2, <4>2, Ordered
      <4>4. k = BackupCount => j < k
        BY <3>1 DEF FileIds
      <4>5. QED
        BY <4>3, <4>4
    <3>4. QED
      BY <2>1, <3>2, <3>3 DEF Retained, FileIds
  <2>3. QED
    BY <1>1, <2>1, <2>2 DEF EndOfHistory, HistoryInv, FileIds
<1>4. Vacated'
  <2>1. append'.pc = "shift" /\ append'.k + 1 = BackupCount
    BY <1>1 DEF HistoryInv, ATypeOK, Vacated
  <2>2. files'[BackupCount] = {}
    BY <1>1 DEF HistoryInv, ATypeOK, FileIds
  <2>3. QED
    BY <2>1, <2>2 DEF Vacated
<1>5. QED
  BY <1>2, <1>3, <1>4 DEF HistoryInv

\* A file moves up to an empty place: the order and the whole stay.
LEMMA ShiftHistory ==
  ASSUME HistoryInv, Shift
  PROVE  HistoryInv'
<1> DEFINE k == append.k
<1>1. /\ written' = written /\ torn' = torn /\ joined' = joined /\ recent' = recent
      /\ k \in FileIds /\ k + 1 \in FileIds /\ files[k + 1] = {}
  <2>1. /\ written' = written /\ torn' = torn /\ joined' = joined /\ recent' = recent
        /\ append.pc = "shift"
    BY DEF Shift
  <2>2. k \in FileIds /\ k + 1 \in FileIds
    BY TypeParts
  <2>3. QED
    BY <2>1, <2>2 DEF HistoryInv, Vacated
<1>2. \A j \in FileIds : files'[j] = IF j = k THEN {} ELSE IF j = k + 1 THEN files[k]
                                     ELSE files[j]
  <2>1. files \in [FileIds -> SUBSET Ids] /\ k \in Nat
    BY TypeParts
  <2>2. CASE files[k] = {}
    <3>1. files' = files
      BY <2>2 DEF Shift
    <3>2. QED
      BY <1>1, <2>2, <3>1
  <2>3. CASE files[k] # {}
    <3>1. files' = [files EXCEPT ![k] = {}, ![k + 1] = files[k]]
      BY <2>3 DEF Shift
    <3>2. QED
      BY <1>1, <2>1, <3>1
  <2>4. QED
    BY <2>2, <2>3
<1>3. files' \in [FileIds -> SUBSET Ids]
  <2>1. files' = files \/ files' = [files EXCEPT ![k] = {}, ![k + 1] = files[k]]
    BY DEF Shift
  <2>2. QED
    BY <1>1, <2>1, TypeParts
<1>10. bytes' \in [FileIds -> Nat]
  <2>1. bytes \in [FileIds -> Nat]
    BY DEF HistoryInv, ATypeOK
  <2>2. bytes' = bytes \/ bytes' = [bytes EXCEPT ![k] = 0, ![k + 1] = bytes[k]]
    BY DEF Shift
  <2>3. QED
    BY <1>1, <2>1, <2>2
<1>4. /\ append' \in [pc : {"idle", "unlink", "shift", "write"},
                      k : 0 .. BackupCount - 1, kind : Kinds]
      /\ append'.pc # "unlink"
      /\ append'.pc = "shift" => k # 0 /\ append'.k = k - 1
  <2>1. append \in [pc : {"idle", "unlink", "shift", "write"}, k : 0 .. BackupCount - 1,
                    kind : Kinds] /\ append.pc = "shift"
    BY DEF Shift, HistoryInv, ATypeOK
  <2>2. CASE k = 0
    BY <2>1, <2>2 DEF Shift
  <2>3. CASE k # 0
    <3>1. append' = [append EXCEPT !.k = k - 1] /\ k - 1 \in 0 .. BackupCount - 1
      BY <2>1, <2>3, AuditAssumption DEF Shift
    <3>2. QED
      BY <2>1, <2>3, <3>1
  <2>4. QED
    BY <2>2, <2>3
<1>5. ATypeOK'
  <2>1. Ids' = Ids
    BY <1>1 DEF Ids
  <2>2. QED
    BY <1>1, <1>3, <1>4, <1>10, <2>1 DEF HistoryInv, ATypeOK
<1>6. Retained' = Retained
  BY <1>1, <1>2 DEF Retained
<1>7. \A i, j \in FileIds : i < j =>
        \A a \in files'[i], b \in files'[j] : b < a
  <2> SUFFICES ASSUME NEW i \in FileIds, NEW j \in FileIds, i < j,
                      NEW a \in files'[i], NEW b \in files'[j]
               PROVE  b < a
    OBVIOUS
  <2> DEFINE Was(l) == IF l = k + 1 THEN k ELSE l
  <2>1. i # k /\ a \in files[Was(i)] /\ j # k /\ b \in files[Was(j)]
    BY <1>2
  <2>2. i \in Nat /\ j \in Nat /\ k \in Nat
    BY TypeParts
  <2>3. Was(i) < Was(j)
    BY <2>1, <2>2
  <2>4. Was(i) \in FileIds /\ Was(j) \in FileIds
    BY <1>1
  <2> HIDE DEF Was
  <2>5. QED
    BY <2>1, <2>3, <2>4, Ordered
<1>8. Vacated'
  <2>1. append'.pc = "shift" => append'.k + 1 = k
    BY <1>1, <1>4 DEF FileIds
  <2>2. files'[k] = {}
    BY <1>1, <1>2
  <2>3. QED
    BY <1>4, <2>1, <2>2 DEF Vacated
<1>9. QED
  BY <1>1, <1>5, <1>6, <1>7, <1>8 DEF HistoryInv, EndOfHistory

\* The new record is newer than all, and in the first file.
LEMMA WriteHistory ==
  ASSUME HistoryInv, NEW length \in 1 .. MaxBytes, Write(length)
  PROVE  HistoryInv'
<1> USE AuditAssumption
<1> DEFINE n == Len(written) + 1
<1>1. /\ files' = [files EXCEPT ![0] = files[0] \cup {n}]
      /\ written' = Append(written, append.kind)
      /\ torn' \subseteq torn \cup {n} /\ joined' \subseteq joined \cup {n}
      /\ append' = NoAppend /\ recent' = recent
  BY DEF Write
<1>2. written' \in Seq(Kinds) /\ Len(written') = n /\ Len(written) \in Nat
  BY <1>1 DEF HistoryInv, ATypeOK
<1>3. Ids' = Ids \cup {n} /\ Ids \subseteq Ids' /\ n \in Ids'
  BY <1>2 DEF Ids
<1>4. /\ files \in [FileIds -> SUBSET Ids] /\ 0 \in FileIds
  BY DEF HistoryInv, ATypeOK, FileIds
<1>5. \A j \in FileIds : files'[j] = IF j = 0 THEN files[0] \cup {n} ELSE files[j]
  BY <1>1, <1>4
<1>6. files' \in [FileIds -> SUBSET Ids']
  BY <1>1, <1>3, <1>4
<1>14. bytes' \in [FileIds -> Nat]
  <2>1. bytes' = [bytes EXCEPT ![0] = bytes[0] + length] /\ length \in Nat
    BY DEF Write
  <2>2. bytes \in [FileIds -> Nat]
    BY TypeParts
  <2>3. QED
    BY <1>4, <2>1, <2>2
<1>7. recent' \in [pc : {"idle", "read", "done"}, k : FileIds, from : Nat \ {0},
                   want : SUBSET Kinds, limit : Nat, got : SUBSET Ids', count : Nat]
  BY <1>1, <1>3 DEF HistoryInv, ATypeOK
<1>8. ATypeOK'
  <2>1. torn' \subseteq Ids' /\ joined' \subseteq Ids'
    BY <1>1, <1>3 DEF HistoryInv, ATypeOK
  <2>2. QED
    BY <1>1, <1>2, <1>6, <1>7, <1>14, <2>1, NoAppendTyped DEF ATypeOK
<1>9. Retained' = Retained \cup {n}
  BY <1>4, <1>5 DEF Retained
<1>10. \A m \in Retained' : m .. Len(written') \subseteq Retained'
  <2>1. \A m \in Retained' : m = n \/ (m \in Retained /\ m .. Len(written) \subseteq Retained)
    BY <1>9 DEF HistoryInv, EndOfHistory
  <2>2. \A m \in Retained : m \in Nat
    BY <1>4 DEF Retained, Ids
  <2>3. \A m \in Retained : m .. n \subseteq (m .. Len(written)) \cup {n}
    BY <1>2, <2>2
  <2>4. n .. n \subseteq {n}
    BY <1>2
  <2>5. QED
    BY <1>2, <1>9, <2>1, <2>3, <2>4
<1>11. \A i, j \in FileIds : i < j =>
         \A a \in files'[i], b \in files'[j] : b < a
  <2>1. \A j \in FileIds : \A b \in files[j] : b < n
    BY <1>2, <1>4 DEF Ids
  <2>2. SUFFICES ASSUME NEW i \in FileIds, NEW j \in FileIds, i < j,
                        NEW a \in files'[i], NEW b \in files'[j]
                 PROVE  b < a
    OBVIOUS
  <2>3. b \in files[j]
    <3>1. j # 0
      BY <2>2, TypeParts
    <3>2. QED
      BY <1>5, <3>1
  <2>4. CASE a = n
    BY <2>1, <2>3, <2>4
  <2>5. CASE a # n
    <3>1. a \in files[i]
      BY <1>5, <2>5
    <3>2. QED
      BY <2>2, <2>3, <3>1, Ordered
  <2>6. QED
    BY <2>4, <2>5
<1>12. Vacated'
  BY <1>1, NoAppendTyped DEF Vacated
<1>13. QED
  BY <1>8, <1>10, <1>11, <1>12 DEF HistoryInv, EndOfHistory

\* What ends an append, or asks and answers a query, touches no file.
LEMMA OthersHistory ==
  ASSUME HistoryInv,
         \/ AppendFails \/ Restart \/ ReadFile
         \/ \E want \in Filters, limit \in Limits : Query(want, limit)
  PROVE  HistoryInv'
<1> USE AuditAssumption
<1> DEFINE Queries == [pc : {"idle", "read", "done"}, k : FileIds, from : Nat \ {0},
                       want : SUBSET Kinds, limit : Nat, got : SUBSET Ids, count : Nat]
<1>1. /\ files' = files /\ bytes' = bytes /\ written' = written
      /\ torn' = torn /\ joined' = joined /\ (append' = append \/ append' = NoAppend)
  BY DEF AppendFails, Restart, ReadFile, Query
<1>2. Ids' = Ids /\ EndOfHistory'
  BY <1>1, FilesKept
<1>3. recent \in Queries
  BY DEF HistoryInv, ATypeOK
<1>4. recent' \in Queries
  <2>1. CASE AppendFails
    BY <2>1, <1>3 DEF AppendFails
  <2>2. CASE Restart
    BY <2>2 DEF Restart, NoQuery, FileIds
  <2>3. ASSUME NEW want \in Filters, NEW limit \in Limits, Query(want, limit)
        PROVE  recent' \in Queries
    <3>0. Len(written) \in Nat /\ 0 \in FileIds
      BY TypeParts
    <3>1. Len(written) + 1 \in Nat \ {0} /\ 0 \in FileIds
      BY <3>0
    <3>3. limit \in Nat /\ want \in SUBSET Kinds
      OBVIOUS
    <3>2. QED
      BY <2>3, <3>1, <3>3 DEF Query
  <2>4. CASE ReadFile
    <3> DEFINE taken == Taken(files[recent.k])
               total == recent.count + Cardinality(taken)
    <3>1. taken \subseteq Ids /\ IsFiniteSet(Ids)
      BY <1>3, FS_Interval DEF Taken, HistoryInv, ATypeOK, Ids
    <3>2. total \in Nat
      BY <1>3, <3>1, FS_Subset, FS_CardinalityType
    <3> HIDE DEF taken, total
    <3>3. PICK ends \in BOOLEAN :
            /\ ends \/ recent.k # BackupCount
            /\ recent' = [recent EXCEPT !.pc = IF ends THEN "done" ELSE "read",
                                        !.k = IF ends THEN recent.k ELSE recent.k + 1,
                                        !.got = recent.got \cup taken, !.count = total]
      BY <2>4 DEF ReadFile, taken, total
    <3>4. (IF ends THEN recent.k ELSE recent.k + 1) \in FileIds
      BY <1>3, <3>3 DEF FileIds
    <3>5. QED
      BY <1>3, <3>1, <3>2, <3>3, <3>4
  <2>5. QED
    BY <2>1, <2>2, <2>3, <2>4
<1>5. append' \in [pc : {"idle", "unlink", "shift", "write"}, k : 0 .. BackupCount - 1,
                   kind : Kinds]
  BY <1>1, NoAppendTyped DEF HistoryInv, ATypeOK
<1>6. ATypeOK'
  BY <1>1, <1>2, <1>4, <1>5 DEF HistoryInv, ATypeOK
<1>7. Vacated'
  BY <1>1, NoAppendTyped DEF HistoryInv, Vacated
<1>8. QED
  BY <1>2, <1>6, <1>7 DEF HistoryInv

\* Every step keeps the history an unbroken end of all that was written.
LEMMA HistoryInductive ==
  ASSUME HistoryInv, [ANext]_avars
  PROVE  HistoryInv'
<1>1. CASE ANext
  BY <1>1, AppendHistory, UnlinkHistory, ShiftHistory, WriteHistory, OthersHistory DEF ANext
<1>2. CASE UNCHANGED avars
  <2>1. Ids' = Ids /\ EndOfHistory'
    BY <1>2, FilesKept DEF avars
  <2>2. ATypeOK'
    BY <1>2, <2>1 DEF avars, HistoryInv, ATypeOK
  <2>3. Vacated'
    BY <1>2 DEF avars, HistoryInv, Vacated
  <2>4. QED
    BY <2>1, <2>2, <2>3 DEF HistoryInv
<1>3. QED
  BY <1>1, <1>2

\* For any number and sizes of records, any limit and any number of backups:
\* whatever is interrupted, what the files of the audit log hold is an unbroken
\* end of the history, in order.
THEOREM HistoryUnbroken == ASpec => [](ATypeOK /\ EndOfHistory)
<1>1. HistoryInv => ATypeOK /\ EndOfHistory
  BY DEF HistoryInv
<1>2. QED
  BY InitHistory, HistoryInductive, <1>1, PTL DEF ASpec

\* Files, history, the lock's holder and the query keep their types: no append
\* moves a file beyond the last backup.
THEOREM AuditTypes == ASpec => []ATypeOK
BY HistoryUnbroken, PTL

-----------------------------------------------------------------------------
\* What a query has still to return: lines written before it began.
Asked(n) == n \in Ids /\ Readable(n) /\ Wanted(n) /\ n < recent.from

\* What is asked for and was not found yet is not in a file that was read; if
\* anything was found, all newer lines were.
Awaited ==
  /\ recent.from <= Len(written) + 1
  /\ \A n : Asked(n) /\ n \notin recent.got =>
       /\ \A m \in recent.got : n <= m
       /\ recent.pc = "read" => \A j \in FileIds : n \in files[j] => recent.k <= j
       /\ recent.pc = "done" => recent.count >= recent.limit \/ n \notin Retained

QueryInv == HistoryInv /\ Awaited

\* What the invariant says of a query implies that it skips nothing.
LEMMA QuerySafe == QueryInv => NothingSkipped
<1> SUFFICES ASSUME QueryInv, NEW n \in Ids, Readable(n), Wanted(n), n < recent.from
             PROVE  /\ (\E m \in recent.got : m < n) => n \in recent.got
                    /\ recent.pc = "done" /\ recent.count < recent.limit /\ n \in Retained
                         => n \in recent.got
  BY DEF NothingSkipped
<1>1. recent.got \subseteq Nat /\ n \in Nat /\ recent.count \in Nat /\ recent.limit \in Nat
  BY DEF QueryInv, HistoryInv, ATypeOK, Ids
<1>2. QED
  BY <1>1 DEF QueryInv, Awaited, Asked

\* A bounded set of numbers has a greatest one.
LEMMA Greatest ==
  ASSUME NEW S \in SUBSET Nat, NEW b \in Nat, \A x \in S : x <= b, S # {}
  PROVE  \E x \in S : \A y \in S : y <= x
<1> DEFINE T == {b - x : x \in S}
<1>1. T \subseteq Nat /\ T # {}
  <2>1. \A x \in S : b - x \in Nat
    OBVIOUS
  <2>2. QED
    BY <2>1
<1>2. PICK d \in T : \A e \in T : ~(<<e, d>> \in OpToRel(<, Nat))
  BY <1>1, NatLessThanWellFounded, WFMin
<1>3. \A e \in T : ~(e < d)
  BY <1>1, <1>2 DEF OpToRel
<1>4. PICK x \in S : d = b - x
  OBVIOUS
<1>5. ASSUME NEW y \in S PROVE y <= x
  <2>1. ~(b - y < b - x)
    BY <1>3, <1>4
  <2>2. x \in Nat /\ y \in Nat
    OBVIOUS
  <2>3. QED
    BY <2>1, <2>2
<1>6. QED
  BY <1>5

Matching(file) == {n \in file : Readable(n) /\ Wanted(n)}

\* The records of a file that match are finitely many numbers.
LEMMA MatchingFinite ==
  ASSUME ATypeOK, NEW k \in FileIds, NEW S \in SUBSET Matching(files[k])
  PROVE  IsFiniteSet(S) /\ S \in SUBSET Nat /\ Cardinality(S) \in Nat
         /\ Len(written) \in Nat /\ \A n \in S : n <= Len(written)
<1>1. Len(written) \in Nat /\ S \subseteq 1 .. Len(written)
  BY DEF ATypeOK, Matching, Ids
<1>2. IsFiniteSet(1 .. Len(written))
  BY <1>1, FS_Interval
<1>3. IsFiniteSet(S)
  BY <1>1, <1>2, FS_Subset
<1>4. QED
  BY <1>1, <1>3, FS_CardinalityType

\* What a file contributes is the newer part of what matches.
LEMMA TakenIsUpper ==
  ASSUME ATypeOK, NEW k \in FileIds,
         NEW m \in Taken(files[k]), NEW n \in Matching(files[k]), m < n
  PROVE  n \in Taken(files[k])
<1> DEFINE M == Matching(files[k])
           above(x) == {y \in M : y > x}
<1>1. above(n) \subseteq above(m) /\ above(m) \subseteq M /\ m \in M
  <2>1. m \in M
    BY DEF Taken, Matching
  <2>2. M \in SUBSET Matching(files[k])
    OBVIOUS
  <2>3. M \in SUBSET Nat
    BY <2>2, MatchingFinite
  <2>4. QED
    BY <2>1, <2>3
<1>2. Cardinality(above(n)) <= Cardinality(above(m))
  BY <1>1, MatchingFinite, FS_Subset
<1>3. Cardinality(above(n)) \in Nat /\ Cardinality(above(m)) \in Nat
  BY <1>1, MatchingFinite
<1>4. Taken(files[k]) = {x \in M : Cardinality(above(x)) < recent.limit - recent.count}
  BY DEF Taken, Matching
<1>5. recent.limit - recent.count \in Int
  BY DEF ATypeOK
<1> HIDE DEF M, above
<1>6. QED
  BY <1>2, <1>3, <1>4, <1>5 DEF M

\* It is all of what matches, unless it exhausts the limit.
LEMMA TakenIsAll ==
  ASSUME ATypeOK, NEW k \in FileIds,
         recent.count + Cardinality(Taken(files[k])) < recent.limit
  PROVE  Matching(files[k]) \subseteq Taken(files[k])
<1> DEFINE M == Matching(files[k])
           above(x) == {y \in M : y > x}
           T == Taken(files[k])
<1>1. T = {x \in M : Cardinality(above(x)) < recent.limit - recent.count}
  BY DEF Taken, Matching
<1>2. SUFFICES ASSUME M \ T # {} PROVE FALSE
  OBVIOUS
<1>3. PICK x \in M \ T : \A y \in M \ T : y <= x
  <2> DEFINE rest == M \ T
  <2>1. rest \in SUBSET Matching(files[k]) /\ rest # {}
    BY <1>2
  <2> HIDE DEF rest
  <2>2. /\ rest \in SUBSET Nat /\ Len(written) \in Nat
        /\ \A y \in rest : y <= Len(written)
    BY <2>1, MatchingFinite
  <2>3. \E x \in rest : \A y \in rest : y <= x
    BY <2>1, <2>2, Greatest
  <2>4. QED
    BY <2>3 DEF rest
<1>4. above(x) \subseteq T
  <2>1. M \in SUBSET Nat
    BY MatchingFinite
  <2>2. QED
    BY <1>3, <2>1
<1>5. Cardinality(above(x)) <= Cardinality(T) /\ Cardinality(above(x)) \in Nat
      /\ Cardinality(T) \in Nat
  <2>1. T \in SUBSET M
    BY <1>1
  <2>2. QED
    BY <1>4, <2>1, MatchingFinite, FS_Subset
<1>6. recent.limit \in Nat /\ recent.count \in Nat
  BY DEF ATypeOK
<1>7. ~(Cardinality(above(x)) < recent.limit - recent.count)
  <2>1. x \in M /\ x \notin T
    BY <1>3
  <2> HIDE DEF M, above
  <2>2. QED
    BY <1>1, <2>1
<1> HIDE DEF M, above
<1>8. recent.count + Cardinality(T) < recent.limit
  OBVIOUS
<1> HIDE DEF T
<1>9. QED
  BY <1>5, <1>6, <1>7, <1>8

\* A step that leaves the query alone, and moves what it asks for upwards only.
LEMMA QueryUndisturbed ==
  ASSUME QueryInv, HistoryInv', recent' = recent,
         Len(written) <= Len(written'),
         \A n \in Ids' : n < recent.from =>
           /\ Readable(n)' => Readable(n)
           /\ written'[n] = written[n]
           /\ n \in Retained' => n \in Retained
           /\ \A j \in FileIds : n \in files'[j] => \E i \in FileIds : i <= j /\ n \in files[i]
  PROVE  Awaited'
<1>1. Len(written) \in Nat /\ Len(written') \in Nat /\ recent.from \in Nat
  BY DEF QueryInv, HistoryInv, ATypeOK
<1>2. \A n : Asked(n)' => Asked(n)
  BY <1>1 DEF Asked, Wanted, Ids, QueryInv, Awaited
<1>3. \A n : Asked(n)' => n \in Ids' /\ n < recent.from
  BY DEF Asked
<1>4. recent.k \in FileIds /\ FileIds \subseteq Nat
  BY AuditAssumption DEF QueryInv, HistoryInv, ATypeOK, FileIds
<1>5. ASSUME NEW n, Asked(n)', n \notin recent.got
      PROVE  /\ \A m \in recent.got : n <= m
             /\ recent.pc = "read" => \A j \in FileIds : n \in files'[j] => recent.k <= j
             /\ recent.pc = "done" => recent.count >= recent.limit \/ n \notin Retained'
  <2>1. /\ \A m \in recent.got : n <= m
        /\ recent.pc = "read" => \A j \in FileIds : n \in files[j] => recent.k <= j
        /\ recent.pc = "done" => recent.count >= recent.limit \/ n \notin Retained
    BY <1>2, <1>5 DEF QueryInv, Awaited
  <2>2. recent.pc = "read" => \A j \in FileIds : n \in files'[j] => recent.k <= j
    <3>1. SUFFICES ASSUME recent.pc = "read", NEW j \in FileIds, n \in files'[j]
                   PROVE  recent.k <= j
      OBVIOUS
    <3>2. PICK i \in FileIds : i <= j /\ n \in files[i]
      BY <1>3, <1>5, <3>1
    <3>3. recent.k <= i /\ recent.k \in Nat /\ i \in Nat /\ j \in Nat
      BY <1>4, <2>1, <3>1, <3>2
    <3>4. QED
      BY <3>2, <3>3
  <2>3. QED
    BY <1>3, <1>5, <2>1, <2>2
<1>6. recent.from <= Len(written') + 1
  BY <1>1 DEF QueryInv, Awaited
<1>7. QED
  BY <1>5, <1>6 DEF Awaited

\* Steps that leave files and query alone leave what is awaited.
LEMMA StillAwaited ==
  ASSUME QueryInv, HistoryInv',
         \/ \E kind \in Kinds : BeginAppend(kind)
         \/ AppendFails \/ UNCHANGED avars
  PROVE  Awaited'
<1>1. UNCHANGED <<files, written, torn, joined, recent>>
  BY DEF BeginAppend, AppendFails, avars
<1>2. FileIds \subseteq Nat
  BY AuditAssumption DEF FileIds
<1>3. Len(written) \in Nat
  BY DEF QueryInv, HistoryInv, ATypeOK
<1>4. QED
  BY <1>1, <1>2, <1>3, QueryUndisturbed DEF Readable, Retained

\* Rotations move records only to files the query reads later.
LEMMA RotationAwaited ==
  ASSUME QueryInv, HistoryInv', Unlink \/ Shift
  PROVE  Awaited'
<1> USE AuditAssumption
<1>1. UNCHANGED <<written, torn, joined, recent>> /\ Len(written) \in Nat
  BY DEF Unlink, Shift, QueryInv, HistoryInv, ATypeOK
<1>2. \A j \in FileIds : \A n \in files'[j] :
        \E i \in FileIds : i <= j /\ n \in files[i]
  <2>0. files \in [FileIds -> SUBSET Ids] /\ append.k \in 0 .. BackupCount - 1
    BY DEF QueryInv, HistoryInv, ATypeOK
  <2>1. CASE Unlink
    BY <2>0, <2>1 DEF Unlink, FileIds
  <2>2. CASE Shift
    <3>1. \A j \in FileIds :
            \/ files'[j] = {} \/ files'[j] = files[j]
            \/ j = append.k + 1 /\ files'[j] = files[append.k]
      BY <2>0, <2>2 DEF Shift
    <3>2. append.k \in FileIds /\ append.k <= append.k + 1 /\ \A j \in FileIds : j <= j
      BY <2>0 DEF FileIds
    <3>3. QED
      BY <3>1, <3>2
  <2>3. QED
    BY <2>1, <2>2
<1>3. Retained' \subseteq Retained
  BY <1>2 DEF Retained
<1>4. QED
  BY <1>1, <1>2, <1>3, QueryUndisturbed DEF Readable

\* A record written meanwhile is newer than what the query asks for.
LEMMA WriteAwaited ==
  ASSUME QueryInv, HistoryInv', NEW length \in 1 .. MaxBytes, Write(length)
  PROVE  Awaited'
<1> DEFINE n == Len(written) + 1
<1>1. /\ files' = [files EXCEPT ![0] = files[0] \cup {n}]
      /\ written' = Append(written, append.kind)
      /\ torn \subseteq torn' /\ joined \subseteq joined' /\ recent' = recent
  BY DEF Write
<1>2. /\ Len(written) \in Nat /\ Len(written') = n
      /\ \A m \in 1 .. Len(written) : written'[m] = written[m]
  BY <1>1 DEF QueryInv, HistoryInv, ATypeOK
<1>3. files \in [FileIds -> SUBSET Ids] /\ FileIds \subseteq Nat
  BY AuditAssumption DEF QueryInv, HistoryInv, ATypeOK, FileIds
<1>4. \A m \in Ids' : m < recent.from => m \in 1 .. Len(written) /\ m # n
  <2>1. recent.from \in Nat /\ recent.from <= Len(written) + 1
    BY TypeParts DEF QueryInv, Awaited
  <2>2. QED
    BY <1>2, <2>1 DEF Ids
<1>5. \A j \in FileIds : files'[j] \subseteq files[j] \cup {n}
  BY <1>1, <1>3
<1>6. \A m \in Ids' : m < recent.from =>
        /\ Readable(m)' => Readable(m)
        /\ written'[m] = written[m]
        /\ m \in Retained' => m \in Retained
        /\ \A j \in FileIds : m \in files'[j] => \E i \in FileIds : i <= j /\ m \in files[i]
  BY <1>1, <1>2, <1>3, <1>4, <1>5 DEF Readable, Retained
<1>7. Len(written) <= Len(written')
  BY <1>2
<1> HIDE DEF n
<1>8. QED
  BY <1>1, <1>6, <1>7, QueryUndisturbed

\* A query that has found nothing yet has everything in the files before it.
LEMMA NewQueryAwaited ==
  ASSUME QueryInv, HistoryInv',
         Restart \/ \E want \in Filters, limit \in Limits : Query(want, limit)
  PROVE  Awaited'
<1>1. Len(written') = Len(written) /\ Len(written) \in Nat /\ FileIds \subseteq Nat
  <2>1. written' = written
    BY DEF Restart, Query
  <2>2. Len(written) \in Nat
    BY DEF QueryInv, HistoryInv, ATypeOK
  <2>3. QED
    BY <2>1, <2>2, AuditAssumption DEF FileIds
<1>2. CASE Restart
  BY <1>1, <1>2 DEF Restart, NoQuery, Awaited, Asked, Ids
<1>3. ASSUME NEW want \in Filters, NEW limit \in Limits, Query(want, limit)
      PROVE  Awaited'
  <2>1. /\ recent'.pc = "read" /\ recent'.k = 0 /\ recent'.got = {}
        /\ recent'.from = Len(written) + 1
    BY <1>3 DEF Query
  <2>2. \A j \in FileIds : 0 <= j
    BY <1>1
  <2>3. QED
    BY <1>1, <2>1, <2>2 DEF Awaited
<1>4. QED
  BY <1>2, <1>3

\* Reading a file: what is missed there is older than all that was found, or
\* the limit is reached.
LEMMA ReadAwaited ==
  ASSUME QueryInv, HistoryInv', ReadFile
  PROVE  Awaited'
<1> USE AuditAssumption
<1> DEFINE k == recent.k
           taken == Taken(files[k])
           total == recent.count + Cardinality(taken)
<1>1. /\ UNCHANGED <<files, written, torn, joined>> /\ recent.pc = "read"
      /\ k \in FileIds /\ FileIds \subseteq Nat
  <2>1. UNCHANGED <<files, written, torn, joined>> /\ recent.pc = "read"
    BY DEF ReadFile
  <2>2. QED
    BY <2>1, TypeParts DEF QueryInv
<1>2. PICK ends \in BOOLEAN :
        /\ ends <=> total >= recent.limit \/ k = BackupCount
        /\ recent' = [recent EXCEPT !.pc = IF ends THEN "done" ELSE "read",
                                    !.k = IF ends THEN k ELSE k + 1,
                                    !.got = recent.got \cup taken, !.count = total]
  BY DEF ReadFile
<1>3. /\ recent'.pc = IF ends THEN "done" ELSE "read"
      /\ recent'.k = IF ends THEN k ELSE k + 1
      /\ recent'.got = recent.got \cup taken /\ recent'.count = total
      /\ recent'.from = recent.from /\ recent'.limit = recent.limit
      /\ recent'.want = recent.want
  BY <1>2 DEF QueryInv, HistoryInv, ATypeOK
<1>4. total \in Int /\ recent.limit \in Int
  <2>1. taken \in SUBSET Matching(files[k]) /\ ATypeOK
    BY DEF Taken, Matching, QueryInv, HistoryInv
  <2>2. Cardinality(taken) \in Nat
    BY <1>1, <2>1, MatchingFinite
  <2>3. recent.count \in Nat /\ recent.limit \in Nat
    BY <2>1 DEF ATypeOK
  <2>4. QED
    BY <2>2, <2>3
<1>5. ASSUME NEW n, Asked(n)', n \notin recent'.got
      PROVE  /\ \A m \in recent'.got : n <= m
             /\ recent'.pc = "read" => \A j \in FileIds : n \in files'[j] => recent'.k <= j
             /\ recent'.pc = "done" => recent'.count >= recent'.limit \/ n \notin Retained'
  <2>1. /\ Asked(n) /\ n \notin recent.got /\ n \notin taken /\ n \in Ids
        /\ \A m \in recent.got : n <= m
        /\ \A j \in FileIds : n \in files[j] => k <= j
    BY <1>1, <1>3, <1>5 DEF Asked, Readable, Wanted, Ids, QueryInv, Awaited
  <2>2. n \in files[k] => n \in Matching(files[k])
    BY <2>1 DEF Asked, Matching
  <2>3. files \in [FileIds -> SUBSET Ids] /\ Ids \subseteq Nat
    BY TypeParts DEF QueryInv
  <2>4. ASSUME NEW m \in taken PROVE n <= m
    <3>1. m \in files[k] /\ m \in Nat /\ n \in Nat
      BY <1>1, <2>1, <2>3 DEF Taken
    <3>2. SUFFICES ASSUME m < n PROVE FALSE
      BY <3>1
    <3>3. n \in m .. Len(written)
      BY <2>1, <3>1, <3>2 DEF Ids
    <3>4. PICK j \in FileIds : n \in files[j]
      <4>1. m \in Retained
        <5>1. \A i \in FileIds : files[i] \subseteq Retained
          BY DEF Retained
        <5>2. QED
          BY <1>1, <3>1, <5>1
      <4>2. n \in Retained
        BY <3>3, <4>1 DEF QueryInv, HistoryInv, EndOfHistory
      <4>3. QED
        BY <4>2 DEF Retained
    <3>5. ~(k < j)
      BY <1>1, <3>1, <3>2, <3>4 DEF QueryInv, HistoryInv, EndOfHistory
    <3>6. j = k
      <4>1. k <= j /\ k \in Nat /\ j \in Nat
        BY <1>1, <2>1, <3>4
      <4>2. QED
        BY <3>5, <4>1
    <3>7. QED
      BY <1>1, <2>1, <2>2, <3>2, <3>4, <3>6, TakenIsUpper DEF QueryInv, HistoryInv
  <2>5. total < recent.limit => n \notin files[k]
    BY <1>1, <2>1, <2>2, TakenIsAll DEF QueryInv, HistoryInv
  <2>6. ASSUME recent'.pc = "read", NEW j \in FileIds, n \in files'[j]
        PROVE  recent'.k <= j
    <3>1. ~ends /\ total < recent.limit
      BY <1>2, <1>3, <1>4, <2>6
    <3>2. k <= j /\ j # k
      BY <1>1, <2>1, <2>5, <2>6, <3>1
    <3>3. QED
      BY <1>1, <1>3, <3>1, <3>2
  <2>7. ASSUME recent'.pc = "done", total < recent.limit, n \in Retained'
        PROVE  FALSE
    <3>1. k = BackupCount
      BY <1>2, <1>3, <1>4, <2>7
    <3>2. PICK j \in FileIds : n \in files[j]
      BY <1>1, <2>7 DEF Retained
    <3>3. j = k
      BY <2>1, <3>1, <3>2 DEF FileIds
    <3>4. QED
      BY <2>5, <2>7, <3>2, <3>3
  <2>8. QED
    BY <1>3, <1>4, <2>1, <2>4, <2>6, <2>7
<1>6. recent'.from <= Len(written') + 1
  BY <1>1, <1>3 DEF QueryInv, Awaited
<1>7. QED
  BY <1>5, <1>6 DEF Awaited

\* Every step keeps what a query has not found in a file it has still to read.
LEMMA QueryInductive ==
  ASSUME QueryInv, [ANext]_avars
  PROVE  QueryInv'
<1>1. HistoryInv'
  BY HistoryInductive DEF QueryInv
<1>2. CASE ANext
  BY <1>1, <1>2, StillAwaited, RotationAwaited, WriteAwaited, NewQueryAwaited, ReadAwaited
     DEF ANext, QueryInv
<1>3. CASE UNCHANGED avars
  BY <1>1, <1>3, StillAwaited DEF QueryInv
<1>4. QED
  BY <1>1, <1>2, <1>3 DEF QueryInv

\* However appends and rotations interleave with a query, and wherever they are
\* interrupted: the query skips no record that it should have returned.
THEOREM QueriesSkipNothing == ASpec => []NothingSkipped
<1>1. AInit => QueryInv
  <2>1. AInit => Awaited
    BY DEF AInit, NoQuery, Awaited, Asked, Ids
  <2>2. QED
    BY <2>1, InitHistory DEF QueryInv
<1>2. QED
  BY <1>1, QueryInductive, QuerySafe, PTL DEF ASpec

-----------------------------------------------------------------------------
(* The sizes of the files *)

\* A file that some record does not fit into.
Full(k) == \E kind \in Kinds : bytes[k] + Size[kind] > MaxBytes

\* The record to be written fits into the current file; a rotation that is
\* under way began because one did not.
SizeInv ==
  /\ SizeBounded /\ NewestKept
  /\ \A k \in FileIds : files[k] = {} => bytes[k] = 0
  /\ append.pc = "write" => Fits(append.kind)
  /\ append.pc \in {"unlink", "shift"} => Full(0)

\* Some record does not fit into a file: that file is not empty, and it does.
LEMMA FullIsNotEmpty ==
  ASSUME SizeInv, NEW k \in FileIds, Full(k)
  PROVE  files[k] # {}
<1>1. \A kind \in Kinds : Size[kind] \in Nat /\ Size[kind] <= MaxBytes /\ MaxBytes \in Nat
  BY AuditAssumption
<1> QED BY <1>1 DEF SizeInv, Full

\* Files, history and what the lock's holder does stay, or it gives up.
LEMMA SizesUntouched ==
  ASSUME SizeInv, UNCHANGED <<files, bytes, written>>,
         append' = append \/ append' = NoAppend
  PROVE  SizeInv'
<1>1. NoAppend.pc = "idle"
  BY NoAppendTyped
<1> QED BY <1>1 DEF SizeInv, SizeBounded, NewestKept, Retained, Ids, Fits, Full

\* An append begins to rotate because its record does not fit.
LEMMA AppendSizes ==
  ASSUME HistoryInv, SizeInv, NEW kind \in Kinds, BeginAppend(kind)
  PROVE  SizeInv'
<1>1. UNCHANGED <<files, bytes, written>>
  BY DEF BeginAppend
<1>2. append'.pc = (IF Fits(kind) THEN "write" ELSE "unlink") /\ append'.kind = kind
  BY DEF BeginAppend
<1>3. bytes[0] \in Nat /\ Size[kind] \in Nat /\ MaxBytes \in Nat
  BY AuditAssumption DEF HistoryInv, ATypeOK, FileIds
<1>4. ~Fits(kind) => Full(0)
  BY <1>3 DEF Fits, Full
<1>5. Fits(kind)' <=> Fits(kind)
  BY <1>1 DEF Fits
<1>6. Full(0)' <=> Full(0)
  BY <1>1 DEF Full
<1>7. (SizeBounded /\ NewestKept)'
  BY <1>1 DEF SizeInv, SizeBounded, NewestKept, Retained, Ids
<1>8. append'.pc = "write" => Fits(append.kind)'
  <2>1. append'.pc = "write" => bytes[0] + Size[kind] <= MaxBytes
    BY <1>2 DEF Fits
  <2> QED BY <1>1, <1>2, <2>1 DEF Fits
<1> QED BY <1>1, <1>2, <1>4, <1>6, <1>7, <1>8 DEF SizeInv

\* The oldest backup goes, the full current file stays.
LEMMA UnlinkSizes ==
  ASSUME HistoryInv, SizeInv, Unlink
  PROVE  SizeInv'
<1>1. /\ append.pc = "unlink" /\ append'.pc = "shift"
      /\ 0 \in FileIds /\ BackupCount \in FileIds /\ BackupCount # 0
  BY AuditAssumption DEF Unlink, HistoryInv, ATypeOK, FileIds
<1>2. /\ \A k \in FileIds : bytes'[k] = IF k = BackupCount THEN 0 ELSE bytes[k]
      /\ \A k \in FileIds : files'[k] = IF k = BackupCount THEN {} ELSE files[k]
  BY <1>1 DEF Unlink, HistoryInv, ATypeOK
<1>3. Full(0)'
  BY <1>1, <1>2 DEF SizeInv, Full
<1>4. SizeBounded'
  BY <1>2, AuditAssumption DEF SizeInv, SizeBounded
<1>5. NewestKept'
  BY <1>1, <1>3 DEF NewestKept, Full
<1> QED BY <1>1, <1>2, <1>3, <1>4, <1>5 DEF SizeInv

\* A file moves to the place of none; the last to move is the full one.
LEMMA ShiftSizes ==
  ASSUME HistoryInv, SizeInv, Shift
  PROVE  SizeInv'
<1> DEFINE k == append.k
<1>1. /\ append \in [pc : {"idle", "unlink", "shift", "write"}, k : 0 .. BackupCount - 1,
                     kind : Kinds]
      /\ append.pc = "shift"
  BY DEF Shift, HistoryInv, ATypeOK
<1>2. /\ k \in FileIds /\ k + 1 \in FileIds /\ 0 \in FileIds /\ k + 1 # k /\ k + 1 # 0
      /\ files[k + 1] = {} /\ bytes[k + 1] = 0
  BY <1>1, AuditAssumption DEF HistoryInv, Vacated, FileIds, SizeInv
<1>3. /\ append'.kind = append.kind /\ append'.pc \in {"shift", "write"}
      /\ append'.pc = "write" <=> k = 0
  BY <1>1 DEF Shift
<1> HIDE DEF k
<1>4. /\ \A j \in FileIds : bytes'[j] = IF j = k THEN 0 ELSE IF j = k + 1 THEN bytes[k]
                                        ELSE bytes[j]
      /\ \A j \in FileIds : files'[j] = IF j = k THEN {} ELSE IF j = k + 1 THEN files[k]
                                        ELSE files[j]
  <2>1. bytes \in [FileIds -> Nat] /\ files \in [FileIds -> SUBSET Ids]
    BY DEF HistoryInv, ATypeOK
  <2>2. CASE files[k] = {}
    <3>1. bytes' = bytes /\ files' = files /\ bytes[k] = 0
      BY <1>2, <2>2 DEF Shift, k, SizeInv
    <3> QED BY <1>2, <2>2, <3>1
  <2>3. CASE files[k] # {}
    <3>1. /\ bytes' = [bytes EXCEPT ![k] = 0, ![k + 1] = bytes[k]]
          /\ files' = [files EXCEPT ![k] = {}, ![k + 1] = files[k]]
      BY <2>3 DEF Shift, k
    <3> QED BY <1>2, <2>1, <3>1
  <2> QED BY <2>2, <2>3
<1>5. Full(0)
  BY <1>1 DEF SizeInv
<1>6. IF k = 0 THEN Full(1)' ELSE Full(0)'
  BY <1>2, <1>4, <1>5 DEF Full
<1>7. NewestKept'
  <2>1. 1 \in FileIds
    BY AuditAssumption DEF FileIds
  <2> QED BY <1>2, <1>6, <2>1 DEF NewestKept, Full
<1>8. SizeBounded'
  BY <1>2, <1>4, AuditAssumption DEF SizeInv, SizeBounded
<1>9. append'.pc = "write" => Fits(append.kind)'
  <2>1. append.kind \in Kinds
    BY <1>1
  <2>2. k = 0 => bytes'[0] = 0
    BY <1>2, <1>4
  <2>3. 0 + Size[append.kind] <= MaxBytes
    BY <2>1, AuditAssumption
  <2> QED BY <1>3, <2>2, <2>3 DEF Fits
<1>10. append'.pc = "shift" => Full(0)'
  BY <1>3, <1>6
<1>11. \A j \in FileIds : files'[j] = {} => bytes'[j] = 0
  BY <1>2, <1>4 DEF SizeInv
<1> QED BY <1>3, <1>7, <1>8, <1>9, <1>10, <1>11 DEF SizeInv

\* What is written fits, and makes no full file less full.
LEMMA WriteSizes ==
  ASSUME HistoryInv, SizeInv, NEW length \in 1 .. MaxBytes, Write(length)
  PROVE  SizeInv'
<1>1. /\ append.pc = "write" /\ append' = NoAppend /\ NoAppend.pc = "idle"
      /\ append.kind \in Kinds /\ length <= Size[append.kind] /\ length \in Nat
  <2>1. append.kind \in Kinds
    BY DEF HistoryInv, ATypeOK
  <2>2. Size[append.kind] \in Nat /\ MaxBytes \in Nat
    BY <2>1, AuditAssumption
  <2> QED BY <2>1, <2>2, NoAppendTyped DEF Write
<1>2. /\ bytes \in [FileIds -> Nat] /\ files \in [FileIds -> SUBSET Ids] /\ 0 \in FileIds
      /\ written \in Seq(Kinds) /\ Len(written) \in Nat
      /\ \A kind \in Kinds : Size[kind] \in Nat
      /\ MaxBytes \in Nat
  <2>1. BackupCount \in Nat /\ MaxBytes \in Nat /\ \A kind \in Kinds : Size[kind] \in Nat
    BY AuditAssumption
  <2>2. 0 \in FileIds
    BY <2>1 DEF FileIds
  <2>3. /\ bytes \in [FileIds -> Nat] /\ files \in [FileIds -> SUBSET Ids]
        /\ written \in Seq(Kinds)
    BY DEF HistoryInv, ATypeOK
  <2>4. Len(written) \in Nat
    BY <2>3
  <2> QED BY <2>1, <2>2, <2>3, <2>4
<1>3. /\ \A k \in FileIds : bytes'[k] = IF k = 0 THEN bytes[0] + length ELSE bytes[k]
      /\ \A k \in FileIds : files'[k] = IF k = 0 THEN files[0] \cup {Len(written) + 1}
                                        ELSE files[k]
      /\ written' = Append(written, append.kind)
  BY <1>2 DEF Write
<1>4. SizeBounded'
  <2>1. bytes[0] + Size[append.kind] <= MaxBytes
    BY <1>1 DEF SizeInv, Fits
  <2>2. bytes[0] + length <= MaxBytes
    BY <1>1, <1>2, <2>1
  <2> QED BY <1>3, <2>2 DEF SizeInv, SizeBounded
<1>5. \A k \in FileIds : Full(k) => Full(k)'
  <2> SUFFICES ASSUME NEW k \in FileIds, NEW kind \in Kinds, bytes[k] + Size[kind] > MaxBytes
               PROVE  bytes'[k] + Size[kind] > MaxBytes
    BY DEF Full
  <2>1. bytes[k] \in Nat /\ length \in Nat /\ Size[kind] \in Nat
    BY <1>1, <1>2
  <2>2. bytes'[k] \in {bytes[k], bytes[k] + length}
    BY <1>3
  <2> QED BY <1>2, <2>1, <2>2
<1>6. Retained = Ids => Retained' = Ids'
  <2>1. Ids' = Ids \cup {Len(written) + 1}
    BY <1>2, <1>3 DEF Ids
  <2>2. Retained' = Retained \cup {Len(written) + 1}
    <3> DEFINE n == Len(written) + 1
    <3>1. \A k \in FileIds : files'[k] = IF k = 0 THEN files[0] \cup {n} ELSE files[k]
      BY <1>3
    <3> HIDE DEF n
    <3>2. 0 \in FileIds
      BY <1>2
    <3>3. Retained' = Retained \cup {n}
      BY <3>1, <3>2 DEF Retained
    <3> QED BY <3>3 DEF n
  <2> QED BY <2>1, <2>2
<1>7. NewestKept'
  BY <1>5, <1>6 DEF SizeInv, NewestKept, Full
<1>8. \A k \in FileIds : files'[k] = {} => bytes'[k] = 0
  BY <1>3 DEF SizeInv
<1> QED BY <1>1, <1>4, <1>7, <1>8 DEF SizeInv

\* The invariant behind the results below.
LEMMA SizesInductive == ASpec => []SizeInv
<1>1. AInit => SizeInv
  <2> SUFFICES ASSUME AInit PROVE SizeInv
    OBVIOUS
  <2>1. /\ append.pc = "idle" /\ Len(written) = 0
        /\ \A k \in FileIds : files[k] = {} /\ bytes[k] = 0
    BY NoAppendTyped DEF AInit
  <2>2. Ids = {} /\ Retained = {}
    BY <2>1 DEF Ids, Retained
  <2> QED BY <2>1, <2>2, AuditAssumption DEF SizeInv, SizeBounded, NewestKept
<1>2. HistoryInv /\ SizeInv /\ [ANext]_avars => SizeInv'
  <2> SUFFICES ASSUME HistoryInv, SizeInv, [ANext]_avars PROVE SizeInv'
    OBVIOUS
  <2>1. CASE AppendFails \/ Restart \/ ReadFile \/ UNCHANGED avars
             \/ \E want \in Filters, limit \in Limits : Query(want, limit)
    <3>1. UNCHANGED <<files, bytes, written>> /\ (append' = append \/ append' = NoAppend)
      BY <2>1 DEF AppendFails, Restart, ReadFile, Query, avars
    <3> QED BY <3>1, SizesUntouched
  <2> QED BY <2>1, AppendSizes, UnlinkSizes, ShiftSizes, WriteSizes DEF ANext
<1> QED BY <1>1, <1>2, InitHistory, HistoryInductive, PTL DEF ASpec

\* For any sizes, limit and number of backups, with writes that fall short and
\* interruptions anywhere: neither the current file nor a backup grows beyond
\* max_bytes.
THEOREM FilesStayBounded == ASpec => []SizeBounded
<1>1. SizeInv => SizeBounded
  BY DEF SizeInv
<1> QED BY <1>1, SizesInductive, PTL

\* Likewise, records are dropped only while a file is left that some record does
\* not fit into: rotations that are interrupted and begun again do not empty
\* the log.
THEOREM NewestRemain == ASpec => []NewestKept
<1>1. SizeInv => NewestKept
  BY DEF SizeInv
<1> QED BY <1>1, SizesInductive, PTL
=============================================================================
