----------------------------- MODULE Monitoring -----------------------------
(***************************************************************************)
(* The node's metrics (app/monitoring.py, /api/node/metrics): which places *)
(* receive a stream.  A request reads the age of the HLS segments, then the*)
(* statistics of Nginx-RTMP, which are those of the one worker that happens*)
(* to serve it, and merges them under _RTMP_CACHE_LOCK into what earlier   *)
(* requests saw at the other workers; for the places that MediaMTX serves  *)
(* its path list, fetched under the same lock, takes precedence.  Requests *)
(* overlap and publishers come and go between any two of their steps.      *)
(*                                                                         *)
(* The metrics of a stream are modelled by whose stream they are of: the   *)
(* one published at a worker, whichever worker reports it, or MediaMTX's.  *)
(* The numbers in them, and the rates that MediaMTX's byte counts are      *)
(* turned into, are left out.                                              *)
(***************************************************************************)
EXTENDS Naturals

CONSTANTS
  Places,       \* the places looked at, of 1..16
  Settings,     \* the values that settings.mediamtx_hls_places may have
  Workers,      \* Nginx's worker processes
  Threads,      \* the manager's threads
  Nobody, MediaMTX, NoThread

ASSUME MonitoringAssumption ==
  /\ Nobody \notin Workers \cup {MediaMTX}
  /\ MediaMTX \notin Workers
  /\ NoThread \notin Threads

VARIABLES
  mediaPlaces,\* settings.mediamtx_hls_places, read when the manager starts
  publisher,  \* place -> the Nginx worker its stream is published at, or Nobody
  copies,     \* place -> worker -> the worker that pushes it the stream, or Nobody
  segments,   \* place -> whether Nginx's HLS segments are young enough
  ready,      \* the places whose MediaMTX path has a publisher
  cache,      \* _RTMP_APPLICATION_CACHE: place -> the worker its stream was published at
  lock,       \* _RTMP_CACHE_LOCK
  metrics     \* the requests

world == <<mediaPlaces, publisher, copies, segments, ready>>
mvars == <<world, cache, lock, metrics>>

\* "active" (the latest segment is younger than 30 seconds) and "stale"
\* (younger than 120) are both a signal.
States == {"signal", "no_signal"}
Sources == Workers \cup {MediaMTX, Nobody}

NoApps == [p \in Places |-> Nobody]
NoMetrics ==
  [pc |-> "idle", hls |-> [p \in Places |-> "no_signal"], seen |-> NoApps, apps |-> NoApps]

MetricsType ==
  [pc : {"idle", "hls", "stat", "merged", "answered"},
   hls : [Places -> States],                 \* the snapshot of the segments
   seen : [Places -> Workers \cup {Nobody}], \* the applications of the statistics
   apps : [Places -> Sources]]               \* the applications of the answer

MTypeOK ==
  /\ publisher \in [Places -> Workers \cup {Nobody}]
  /\ copies \in [Places -> [Workers -> Workers \cup {Nobody}]]
  /\ segments \in [Places -> States]
  /\ mediaPlaces \in Settings /\ ready \subseteq Places \cap mediaPlaces
  /\ cache \in [Places -> Workers \cup {Nobody}]
  /\ metrics \in [Threads -> MetricsType]
  /\ \A t \in Threads : lock = t <=> metrics[t].pc = "merged"

At(t, pc) == metrics[t].pc = pc

-----------------------------------------------------------------------------
(* Nginx and MediaMTX *)

\* Whose stream worker w has for place p: its own publisher's, or the one that
\* another worker pushes to it.
Streamed(p, w) == IF publisher[p] = w THEN w ELSE copies[p][w]

\* A publisher connects to a worker, or to MediaMTX, and later leaves.
Publish(p, w) ==
  /\ publisher[p] = Nobody /\ copies[p][w] = Nobody
  /\ publisher' = [publisher EXCEPT ![p] = w]
  /\ UNCHANGED <<mediaPlaces, copies, segments, ready, cache, lock, metrics>>

Unpublish(p) ==
  /\ publisher[p] # Nobody
  /\ publisher' = [publisher EXCEPT ![p] = Nobody]
  /\ UNCHANGED <<mediaPlaces, copies, segments, ready, cache, lock, metrics>>

\* rtmp_auto_push: the worker pushes the stream to another one, which has it as
\* a stream of its own.
Push(p, w) ==
  /\ publisher[p] \notin {Nobody, w} /\ copies[p][w] = Nobody
  /\ copies' = [copies EXCEPT ![p][w] = publisher[p]]
  /\ UNCHANGED <<mediaPlaces, publisher, segments, ready, cache, lock, metrics>>

\* A push ends: some time after its publisher left, or because it broke.
EndPush(p, w) ==
  /\ copies[p][w] # Nobody
  /\ copies' = [copies EXCEPT ![p][w] = Nobody]
  /\ UNCHANGED <<mediaPlaces, publisher, segments, ready, cache, lock, metrics>>

PublishMedia(p) ==
  /\ ready' = IF p \in ready THEN ready \ {p} ELSE ready \cup {p}
  /\ UNCHANGED <<mediaPlaces, publisher, copies, segments, cache, lock, metrics>>

\* Nginx writes a segment of what some worker has.
Segment(p) ==
  /\ \E w \in Workers : Streamed(p, w) # Nobody
  /\ segments' = [segments EXCEPT ![p] = "signal"]
  /\ UNCHANGED <<mediaPlaces, publisher, copies, ready, cache, lock, metrics>>

\* Two minutes pass without one, or Nginx has removed them all.
NoSegment(p) ==
  /\ segments[p] # "no_signal"
  /\ segments' = [segments EXCEPT ![p] = "no_signal"]
  /\ UNCHANGED <<mediaPlaces, publisher, copies, ready, cache, lock, metrics>>

-----------------------------------------------------------------------------
(* metrics_snapshot *)

\* hls_snapshot.
ReadHls(t) ==
  /\ At(t, "idle")
  /\ metrics' = [metrics EXCEPT ![t].pc = "hls", ![t].hls = segments]
  /\ UNCHANGED <<world, cache, lock>>

\* rtmp_snapshot: worker w answers with the streams that it has.
ReadStat(t, w) ==
  /\ At(t, "hls")
  /\ metrics' = [metrics EXCEPT ![t].pc = "stat",
                   ![t].seen = [p \in Places |-> Streamed(p, w)]]
  /\ UNCHANGED <<world, cache, lock>>

\* Nginx does not answer, or not with XML: no applications.
StatFails(t) ==
  /\ At(t, "hls")
  /\ metrics' = [metrics EXCEPT ![t].pc = "stat", ![t].seen = NoApps]
  /\ UNCHANGED <<world, cache, lock>>

\* Mutants of Merged: what the worker does not see is forgotten; what HLS does
\* not confirm is kept.
MergedForgetting(t) ==
  [p \in Places |-> IF metrics[t].hls[p] # "no_signal" THEN metrics[t].seen[p] ELSE Nobody]
MergedKeeping(t) ==
  [p \in Places |-> IF metrics[t].seen[p] # Nobody THEN metrics[t].seen[p] ELSE cache[p]]

\* merge_rtmp_snapshot: the cache takes in what the worker sees, then drops
\* what HLS does not confirm.
Merged(t) ==
  [p \in Places |-> IF metrics[t].hls[p] = "no_signal" THEN Nobody
                    ELSE IF metrics[t].seen[p] # Nobody THEN metrics[t].seen[p]
                    ELSE cache[p]]

Merge(t) ==
  /\ At(t, "stat")
  /\ lock = NoThread
  /\ cache' = Merged(t)
  /\ metrics' = [metrics EXCEPT ![t].pc = IF mediaPlaces = {} THEN "answered" ELSE "merged",
                                ![t].apps = Merged(t), ![t].seen = NoApps]
  /\ lock' = IF mediaPlaces = {} THEN lock ELSE t
  /\ UNCHANGED world

\* Mutants of Overlay: the lock is not released; a path that is not ready
\* leaves what Nginx said.
OverlayHolding(t, paths) ==
  /\ metrics' = [metrics EXCEPT ![t].pc = "answered"]
  /\ UNCHANGED <<world, cache, lock>>
OverlayReady(t, paths) ==
  /\ metrics' = [metrics EXCEPT ![t].pc = "answered",
       ![t].apps = [p \in Places |-> IF p \in paths THEN MediaMTX ELSE @[p]]]
  /\ lock' = NoThread
  /\ UNCHANGED <<world, cache>>

\* merge_mediamtx_snapshot: the places of MediaMTX show what its paths say, as
\* if there were none when it did not answer.
Overlay(t, paths) ==
  /\ metrics' = [metrics EXCEPT ![t].pc = "answered",
       ![t].apps = [p \in Places |-> IF p \in paths THEN MediaMTX
                                     ELSE IF p \in mediaPlaces THEN Nobody ELSE @[p]],
       ![t].hls = [p \in Places |-> IF p \in paths THEN "signal"
                                    ELSE IF p \in mediaPlaces THEN "no_signal" ELSE @[p]]]
  /\ lock' = NoThread
  /\ UNCHANGED <<world, cache>>

ReadMedia(t) ==
  /\ At(t, "merged")
  /\ Overlay(t, ready) \/ Overlay(t, {})

Answer(t) ==
  /\ At(t, "answered")
  /\ metrics' = [metrics EXCEPT ![t] = NoMetrics]
  /\ UNCHANGED <<world, cache, lock>>

\* The manager restarts: the requests and the cache are gone.
ManagerRestart ==
  /\ metrics' = [t \in Threads |-> NoMetrics]
  /\ cache' = NoApps
  /\ lock' = NoThread
  /\ UNCHANGED world

-----------------------------------------------------------------------------
MInit ==
  /\ publisher \in [Places -> Workers \cup {Nobody}]
  /\ copies = [p \in Places |-> [w \in Workers |-> Nobody]]
  /\ segments \in [Places -> States]
  /\ mediaPlaces \in Settings /\ ready \in SUBSET (Places \cap mediaPlaces)
  /\ cache = NoApps
  /\ lock = NoThread
  /\ metrics = [t \in Threads |-> NoMetrics]

World ==
  \/ \E p \in Places : \/ \E w \in Workers : Publish(p, w) \/ Push(p, w) \/ EndPush(p, w)
                       \/ Unpublish(p) \/ Segment(p) \/ NoSegment(p)
  \/ \E p \in Places \cap mediaPlaces : PublishMedia(p)

Stat(t) == StatFails(t) \/ \E w \in Workers : ReadStat(t, w)

Request(t) == ReadHls(t) \/ Stat(t) \/ Merge(t) \/ ReadMedia(t) \/ Answer(t)

MNext == World \/ ManagerRestart \/ \E t \in Threads : Request(t)

MSpec == MInit /\ [][MNext]_mvars

\* Requests keep coming (the monitoring page polls) and run, every worker serves
\* the statistics of some request again and again (the kernel spreads the
\* connections), segments that are not renewed grow old, and a worker ends what
\* it pushed when its publisher has left.
MFairSpec ==
  /\ MSpec
  /\ \A t \in Threads : WF_mvars(Request(t))
  /\ \A w \in Workers : SF_mvars(\E t \in Threads : ReadStat(t, w))
  /\ \A p \in Places : WF_mvars(NoSegment(p) /\ publisher[p] = Nobody)
  /\ \A p \in Places, w \in Workers :
       WF_mvars(EndPush(p, w) /\ copies[p][w] # publisher[p])

-----------------------------------------------------------------------------
(* Properties *)

\* An answer does not contradict itself: it shows a stream for a place only if
\* its HLS state for that place is a signal, and for a place that moved to
\* MediaMTX it shows MediaMTX's stream with an active signal or nothing, even
\* while Nginx has a stream or segments for it.
AnswerAgrees ==
  \A t \in Threads : At(t, "answered") =>
    \A p \in Places :
      LET app == metrics[t].apps[p]
          hls == metrics[t].hls[p]
      IN  IF p \in mediaPlaces
          THEN <<app, hls>> \in {<<MediaMTX, "signal">>, <<Nobody, "no_signal">>}
          ELSE app # MediaMTX /\ (app # Nobody => hls # "no_signal")

\* A stream that stays published is eventually the one the cache shows, and stays
\* so: whichever workers report it, as publisher's or as pushed, or do not; with
\* copies of an earlier stream still there; and although some requests had read
\* the segments before the stream came.
LiveIsShown ==
  \A p \in Places, w \in Workers :
    <>[](publisher[p] = w /\ segments[p] = "signal") /\ <>[][~ManagerRestart]_mvars
      => <>[](cache[p] = w)

\* A stream that ended for good is eventually forgotten for good, although the
\* workers it was pushed to report it a while longer and requests that still saw
\* it end late.
EndedIsForgotten ==
  \A p \in Places : <>[](publisher[p] = Nobody) => <>[](cache[p] = Nobody)
=============================================================================
