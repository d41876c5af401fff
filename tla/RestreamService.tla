--------------------------- MODULE RestreamService ---------------------------
(***************************************************************************)
(* What the node promises of its restreams, without processes, locks or    *)
(* files: a slot streams to the destination configured there or to none,   *)
(* and an entry of the configuration changes only while nothing streams    *)
(* from it.  RestreamNode implements it as long as no client gives up.     *)
(***************************************************************************)
EXTENDS Integers, Sequences

CONSTANTS Fields, MaxDest, Dests, DestLists, NoField, NoDest

VARIABLES
  config,   \* field -> its list of destinations, or NoField
  stream    \* slot -> the destination that it streams to, or NoDest

svars == <<config, stream>>

Slots == Fields \X (0 .. MaxDest - 1)

Quiet(f) == \A s \in Slots : s[1] = f => stream[s] = NoDest

SInit ==
  /\ config \in [Fields -> DestLists \cup {NoField}]
  /\ stream = [s \in Slots |-> NoDest]

\* start
StartStream(f, i) ==
  /\ config[f] # NoField /\ i < Len(config[f])
  /\ stream[<<f, i>>] = NoDest
  /\ stream' = [stream EXCEPT ![<<f, i>>] = config[f][i + 1]]
  /\ UNCHANGED config

\* stop, or the end of the FFmpeg process
EndStream(s) ==
  /\ stream' = [stream EXCEPT ![s] = NoDest]
  /\ UNCHANGED config

\* the end of the supervisor
EndAllStreams ==
  /\ stream' = [s \in Slots |-> NoDest]
  /\ UNCHANGED config

EditField(f, list) ==
  /\ config' = [config EXCEPT ![f] = list]
  /\ UNCHANGED stream

AddEntry(f, d) ==
  /\ config[f] # NoField
  /\ EditField(f, Append(config[f], d))

\* An entry is replaced under a slot that does not stream.
UpdateEntry(f, i, d) ==
  /\ config[f] # NoField /\ i < Len(config[f])
  /\ stream[<<f, i>>] = NoDest
  /\ EditField(f, [config[f] EXCEPT ![i + 1] = d])

\* Removing an entry renumbers the later ones: the whole field is quiet.
DeleteEntry(f, i) ==
  /\ config[f] # NoField /\ i < Len(config[f])
  /\ Quiet(f)
  /\ EditField(f, [k \in 1 .. Len(config[f]) - 1 |->
                     config[f][IF k <= i THEN k ELSE k + 1]])

CreateField(f) == config[f] = NoField /\ EditField(f, <<>>)

DeleteField(f) == config[f] # NoField /\ Quiet(f) /\ EditField(f, NoField)

SNext ==
  \/ \E f \in Fields :
       \/ \E i \in 0 .. MaxDest - 1 :
            \/ StartStream(f, i) \/ DeleteEntry(f, i)
            \/ \E d \in Dests : UpdateEntry(f, i, d)
       \/ \E d \in Dests : AddEntry(f, d)
       \/ CreateField(f) \/ DeleteField(f)
  \/ \E s \in Slots : EndStream(s)
  \/ EndAllStreams

Service == SInit /\ [][SNext]_svars
=============================================================================
