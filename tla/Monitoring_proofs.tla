------------------------- MODULE Monitoring_proofs -------------------------
(***************************************************************************)
(* What holds of the answers of the metrics for any places, workers and    *)
(* threads, in every order of the steps of requests, publishers, Nginx and *)
(* MediaMTX.                                                               *)
(***************************************************************************)
EXTENDS Monitoring, TLAPS

\* What a merge leaves of Nginx's streams is confirmed by the segments that the
\* request itself read.
Confirmed(m) ==
  \A p \in Places :
    m.apps[p] # MediaMTX /\ (m.apps[p] # Nobody => m.hls[p] # "no_signal")

MergedConfirmed == \A t \in Threads : At(t, "merged") => Confirmed(metrics[t])

MInv == MTypeOK /\ MergedConfirmed /\ AnswerAgrees

-----------------------------------------------------------------------------
(* Types *)

\* What a merge gives is a worker or nobody for every place.
LEMMA MergedTyped ==
  ASSUME MTypeOK, NEW t \in Threads
  PROVE  Merged(t) \in [Places -> Workers \cup {Nobody}]
<1>1. metrics[t].seen \in [Places -> Workers \cup {Nobody}] /\ cache \in [Places -> Workers \cup {Nobody}]
  BY DEF MTypeOK, MetricsType
<1> QED BY <1>1 DEF Merged

\* Nobody has asked anything yet, and the metrics of nobody are well typed.
LEMMA NoMetricsTyped == NoMetrics \in MetricsType /\ NoMetrics.pc = "idle"
BY DEF NoMetrics, NoApps, MetricsType, States, Sources

\* A step of request t that keeps the lock right keeps the types.
LEMMA StepTyped ==
  ASSUME MTypeOK, NEW t \in Threads, NEW m \in MetricsType,
         metrics' = [metrics EXCEPT ![t] = m], UNCHANGED world,
         cache' \in [Places -> Workers \cup {Nobody}],
         \/ lock' = lock /\ (m.pc = "merged" <=> metrics[t].pc = "merged")
         \/ lock = NoThread /\ lock' = t /\ m.pc = "merged"
         \/ lock = t /\ lock' = NoThread /\ m.pc # "merged"
  PROVE  MTypeOK'
<1>1. /\ mediaPlaces' \in Settings /\ ready' \subseteq Places \cap mediaPlaces'
      /\ publisher' \in [Places -> Workers \cup {Nobody}]
      /\ copies' \in [Places -> [Workers -> Workers \cup {Nobody}]]
      /\ segments' \in [Places -> States]
  BY DEF MTypeOK, world
<1>2. metrics' \in [Threads -> MetricsType]
  BY DEF MTypeOK
<1>3. ASSUME NEW u \in Threads PROVE lock' = u <=> metrics'[u].pc = "merged"
  <2>1. lock = u <=> metrics[u].pc = "merged"
    BY DEF MTypeOK
  <2>2. metrics'[u] = IF u = t THEN m ELSE metrics[u]
    BY DEF MTypeOK
  <2>3. NoThread \notin Threads
    BY MonitoringAssumption
  <2> QED BY <2>1, <2>2, <2>3
<1> QED BY <1>1, <1>2, <1>3 DEF MTypeOK

-----------------------------------------------------------------------------
(* The steps of a request *)

\* One step of a request keeps the invariant when it keeps the types and the
\* metrics that it leaves are confirmed (merged) or agree (answered).
LEMMA StepAgrees ==
  ASSUME MInv, MTypeOK', NEW t \in Threads, NEW m,
         metrics' = [metrics EXCEPT ![t] = m], mediaPlaces' = mediaPlaces,
         m.pc = "merged" => Confirmed(m),
         m.pc = "answered" =>
           \A p \in Places :
             IF p \in mediaPlaces
             THEN <<m.apps[p], m.hls[p]>> \in {<<MediaMTX, "signal">>, <<Nobody, "no_signal">>}
             ELSE m.apps[p] # MediaMTX /\ (m.apps[p] # Nobody => m.hls[p] # "no_signal")
  PROVE  MInv'
<1>1. \A u \in Threads : metrics'[u] = IF u = t THEN m ELSE metrics[u]
  BY DEF MInv, MTypeOK
<1>2. MergedConfirmed'
  BY <1>1 DEF MInv, MergedConfirmed, Confirmed, At
<1>3. AnswerAgrees'
  BY <1>1 DEF MInv, AnswerAgrees, At
<1> QED BY <1>2, <1>3 DEF MInv

\* Reading the segments and the statistics decides nothing yet.
LEMMA ReadingKeeps ==
  ASSUME MInv, NEW t \in Threads, ReadHls(t) \/ Stat(t)
  PROVE  MInv'
<1>t. MTypeOK /\ metrics[t] \in MetricsType
  BY DEF MInv, MTypeOK
<1>1. ASSUME NEW m \in MetricsType, metrics' = [metrics EXCEPT ![t] = m],
             m.pc \in {"hls", "stat"}, metrics[t].pc # "merged", UNCHANGED <<world, cache, lock>>
      PROVE  MInv'
  <2>1. cache' \in [Places -> Workers \cup {Nobody}]
    BY <1>1, <1>t DEF MTypeOK
  <2>2. MTypeOK'
    BY <1>1, <1>t, <2>1, StepTyped
  <2> QED BY <1>1, <2>2, StepAgrees DEF world
<1>2. CASE ReadHls(t)
  <2> DEFINE m == [metrics[t] EXCEPT !.pc = "hls", !.hls = segments]
  <2>1. m \in MetricsType /\ m.pc = "hls"
    BY <1>t DEF MTypeOK, MetricsType
  <2>2. metrics' = [metrics EXCEPT ![t] = m] /\ metrics[t].pc # "merged"
    BY <1>2, <1>t DEF ReadHls, At, MTypeOK, MetricsType
  <2> QED BY <1>1, <1>2, <2>1, <2>2 DEF ReadHls
<1>3. ASSUME NEW w \in Workers, ReadStat(t, w) PROVE MInv'
  <2> DEFINE seen == [p \in Places |-> Streamed(p, w)]
             m == [metrics[t] EXCEPT !.pc = "stat", !.seen = seen]
  <2>0. seen \in [Places -> Workers \cup {Nobody}]
    BY <1>t DEF Streamed, MTypeOK
  <2> HIDE DEF seen
  <2>1. m \in MetricsType /\ m.pc = "stat"
    BY <1>t, <2>0 DEF MetricsType
  <2>2. metrics' = [metrics EXCEPT ![t] = m] /\ metrics[t].pc # "merged"
    BY <1>3, <1>t DEF ReadStat, At, MTypeOK, MetricsType, seen
  <2> QED BY <1>1, <1>3, <2>1, <2>2 DEF ReadStat
<1>4. CASE StatFails(t)
  <2> DEFINE m == [metrics[t] EXCEPT !.pc = "stat", !.seen = NoApps]
  <2>1. m \in MetricsType /\ m.pc = "stat"
    BY <1>t DEF MetricsType, NoApps
  <2>2. metrics' = [metrics EXCEPT ![t] = m] /\ metrics[t].pc # "merged"
    BY <1>4, <1>t DEF StatFails, At, MTypeOK, MetricsType
  <2> QED BY <1>1, <1>4, <2>1, <2>2 DEF StatFails
<1> QED BY <1>2, <1>3, <1>4 DEF Stat

\* The merge takes in only what the request's own segments confirm.
LEMMA MergeKeeps ==
  ASSUME MInv, NEW t \in Threads, Merge(t)
  PROVE  MInv'
<1> DEFINE pc == IF mediaPlaces = {} THEN "answered" ELSE "merged"
           m == [metrics[t] EXCEPT !.pc = pc, !.apps = Merged(t), !.seen = NoApps]
<1>t. MTypeOK /\ metrics[t] \in MetricsType
  BY DEF MInv, MTypeOK
<1>1. Merged(t) \in [Places -> Workers \cup {Nobody}]
  BY <1>t, MergedTyped
<1>2. m \in MetricsType /\ m.pc = pc /\ m.apps = Merged(t) /\ m.hls = metrics[t].hls
  BY <1>t, <1>1 DEF MetricsType, Sources, NoApps
<1>3. metrics' = [metrics EXCEPT ![t] = m] /\ metrics[t].pc = "stat"
  BY <1>t DEF Merge, At, MTypeOK, MetricsType
<1>4. Confirmed(m)
  BY <1>1, <1>2, MonitoringAssumption DEF Confirmed, Merged
<1>5. MTypeOK'
  <2>1. cache' \in [Places -> Workers \cup {Nobody}] /\ UNCHANGED world
    BY <1>1 DEF Merge
  <2>2. \/ lock' = lock /\ m.pc = "answered"
        \/ lock = NoThread /\ lock' = t /\ m.pc = "merged"
    BY <1>2 DEF Merge
  <2>3. m \in MetricsType
    BY <1>2
  <2> HIDE DEF m, pc
  <2> QED BY <1>3, <1>t, <2>1, <2>2, <2>3, StepTyped
<1>6. m.pc = "answered" => mediaPlaces = {}
  BY <1>2
<1>7. mediaPlaces' = mediaPlaces
  BY DEF Merge, world
<1> HIDE DEF m
<1> QED BY <1>3, <1>4, <1>5, <1>6, <1>7, StepAgrees DEF Confirmed

\* For MediaMTX's places the overlay decides both parts of the answer, for the
\* others neither.
LEMMA OverlayKeeps ==
  ASSUME MInv, NEW t \in Threads, At(t, "merged"),
         NEW paths, paths \subseteq Places \cap mediaPlaces, Overlay(t, paths)
  PROVE  MInv'
<1> DEFINE old == metrics[t]
           apps == [p \in Places |-> IF p \in paths THEN MediaMTX
                                     ELSE IF p \in mediaPlaces THEN Nobody ELSE old.apps[p]]
           hls == [p \in Places |-> IF p \in paths THEN "signal"
                                    ELSE IF p \in mediaPlaces THEN "no_signal" ELSE old.hls[p]]
           m == [old EXCEPT !.pc = "answered", !.apps = apps, !.hls = hls]
<1>t. MTypeOK /\ old \in MetricsType /\ lock = t
  BY DEF MInv, MTypeOK, At
<1>1. apps \in [Places -> Sources] /\ hls \in [Places -> States]
  BY <1>t DEF MetricsType, Sources, States
<1>2. m \in MetricsType /\ m.pc = "answered" /\ m.apps = apps /\ m.hls = hls
  BY <1>t, <1>1 DEF MetricsType
<1>3. metrics' = [metrics EXCEPT ![t] = m]
  BY <1>t DEF Overlay, MTypeOK, MetricsType
<1>4. Confirmed(old)
  BY DEF MInv, MergedConfirmed
<1>5. ASSUME NEW p \in Places
      PROVE  IF p \in mediaPlaces
             THEN <<m.apps[p], m.hls[p]>> \in {<<MediaMTX, "signal">>, <<Nobody, "no_signal">>}
             ELSE m.apps[p] # MediaMTX /\ (m.apps[p] # Nobody => m.hls[p] # "no_signal")
  BY <1>2, <1>4 DEF Confirmed
<1>6. cache' \in [Places -> Workers \cup {Nobody}] /\ lock' = NoThread /\ UNCHANGED world
  BY <1>t DEF Overlay, MTypeOK
<1> HIDE DEF m
<1>7. MTypeOK'
  BY <1>t, <1>2, <1>3, <1>6, StepTyped
<1>8. m.pc # "merged" /\ mediaPlaces' = mediaPlaces
  BY <1>2, <1>6 DEF world
<1> QED BY <1>3, <1>5, <1>7, <1>8, StepAgrees

\* An answered request leaves nothing behind.
LEMMA AnswerKeeps ==
  ASSUME MInv, NEW t \in Threads, Answer(t)
  PROVE  MInv'
<1>t. MTypeOK /\ metrics[t].pc = "answered"
  BY DEF MInv, Answer, At
<1>1. cache' \in [Places -> Workers \cup {Nobody}]
  BY <1>t DEF Answer, MTypeOK
<1>2. MTypeOK'
  BY <1>t, <1>1, NoMetricsTyped, StepTyped DEF Answer
<1> QED BY <1>2, NoMetricsTyped, StepAgrees DEF Answer, world

\* Publishers, segments and paths change what the next requests will read.
LEMMA WorldKeeps ==
  ASSUME MInv, World
  PROVE  MInv'
<1>1. /\ UNCHANGED <<mediaPlaces, cache, lock, metrics>>
      /\ publisher' \in [Places -> Workers \cup {Nobody}]
      /\ copies' \in [Places -> [Workers -> Workers \cup {Nobody}]]
      /\ segments' \in [Places -> States]
      /\ ready' \subseteq Places \cap mediaPlaces
  BY DEF World, Publish, Unpublish, Push, EndPush, PublishMedia, Segment, NoSegment,
         MInv, MTypeOK, States
<1> QED BY <1>1 DEF MInv, MTypeOK, MergedConfirmed, AnswerAgrees, Confirmed, At

\* A restarted manager has no requests.
LEMMA RestartKeeps ==
  ASSUME MInv, ManagerRestart
  PROVE  MInv'
<1>1. \A t \in Threads : metrics'[t].pc = "idle" /\ lock' # t
  BY NoMetricsTyped, MonitoringAssumption DEF ManagerRestart
<1>2. MTypeOK'
  BY <1>1, NoMetricsTyped DEF ManagerRestart, NoApps, MInv, MTypeOK, world
<1> QED BY <1>1, <1>2 DEF MInv, MergedConfirmed, AnswerAgrees, At

-----------------------------------------------------------------------------
(* The theorems *)

\* For any places, workers and threads: no answer contradicts itself.
THEOREM AnswersAgree == MSpec => [](MTypeOK /\ AnswerAgrees)
<1>1. MInit => MInv
  <2> SUFFICES ASSUME MInit PROVE MInv
    OBVIOUS
  <2>1. \A t \in Threads : metrics[t].pc = "idle" /\ lock # t
    BY NoMetricsTyped, MonitoringAssumption DEF MInit
  <2>2. MTypeOK
    BY <2>1, NoMetricsTyped DEF MInit, MTypeOK, NoApps
  <2> QED BY <2>1, <2>2 DEF MInv, MergedConfirmed, AnswerAgrees, At
<1>2. MInv /\ [MNext]_mvars => MInv'
  <2> SUFFICES ASSUME MInv, [MNext]_mvars PROVE MInv'
    OBVIOUS
  <2>1. CASE World
    BY <2>1, WorldKeeps
  <2>2. CASE ManagerRestart
    BY <2>2, RestartKeeps
  <2>3. ASSUME NEW t \in Threads, Request(t) PROVE MInv'
    <3>1. CASE ReadMedia(t)
      <4>1. ready \subseteq Places \cap mediaPlaces
        BY DEF MInv, MTypeOK
      <4> QED BY <3>1, <4>1, OverlayKeeps DEF ReadMedia
    <3> QED BY <2>3, <3>1, ReadingKeeps, MergeKeeps, AnswerKeeps DEF Request
  <2>4. CASE UNCHANGED mvars
    BY <2>4 DEF mvars, world, MInv, MTypeOK, MergedConfirmed, AnswerAgrees, Confirmed, At
  <2> QED BY <2>1, <2>2, <2>3, <2>4 DEF MNext
<1>3. MInv => MTypeOK /\ AnswerAgrees
  BY DEF MInv
<1> QED BY <1>1, <1>2, <1>3, PTL DEF MSpec

\* The state keeps its type, and exactly the request between its merge and its
\* reading of MediaMTX holds _RTMP_CACHE_LOCK.
THEOREM MonitoringTyped == MSpec => []MTypeOK
BY AnswersAgree, PTL
=============================================================================
