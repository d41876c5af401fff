---------------------------- MODULE PublishGate ----------------------------
(***************************************************************************)
(* What the node promises about publishing.  Every place has a policy: the *)
(* stream that may be published there, whether the publisher must prove a  *)
(* key, and which.  Administrators change one thing of one place at a time,*)
(* a key that was replaced never comes back, and nothing else changes a    *)
(* policy: no migration, restart or failure does.  Each request is decided *)
(* at one moment between its arrival and its answer, by the policy of that *)
(* moment; when the policies are not available, or something fails, it is  *)
(* refused.                                                                *)
(***************************************************************************)
CONSTANTS Places, Streams, Keys, DefaultStream, Requests, Null, NoPlace

VARIABLES
  policy,      \* place -> its policy, or NoPlace
  spent,       \* the keys that some policy has had
  available,   \* requests can be decided
  request      \* the publish requests

gateVars == <<policy, spent, available, request>>

\* What the policy of its place says of a request.
Permits(r) ==
  LET p == policy[r.f]
  IN  p # NoPlace /\ r.s = p.stream /\ (p.auth => p.key # Null /\ r.k = p.key)

Change(f, p) ==
  /\ policy' = [policy EXCEPT ![f] = p]
  /\ spent' = spent \cup (IF p = NoPlace THEN {} ELSE {p.key} \ {Null})
  /\ UNCHANGED <<available, request>>

Rotate(f) ==
  /\ policy[f] # NoPlace
  /\ \E k \in Keys \ spent : Change(f, [policy[f] EXCEPT !.key = k])

Rename(f) ==
  /\ policy[f] # NoPlace
  /\ \E s \in Streams : Change(f, [policy[f] EXCEPT !.stream = s])

Create(f) ==
  /\ policy[f] = NoPlace
  /\ \E k \in Keys \ spent, s \in Streams :
       Change(f, [stream |-> s, auth |-> FALSE, key |-> k, dests |-> <<>>])

Remove(f) == policy[f] # NoPlace /\ Change(f, NoPlace)

Switch ==
  /\ available' = ~available
  /\ UNCHANGED <<policy, spent, request>>

Arrive(a) ==
  /\ request[a].st = "idle"
  /\ \E f \in Places, s \in Streams, k \in Keys \cup {Null} :
       request' = [request EXCEPT ![a] = [st |-> "asked", f |-> f, s |-> s, k |-> k]]
  /\ UNCHANGED <<policy, spent, available>>

Decide(a) ==
  /\ request[a].st = "asked"
  /\ \/ /\ available /\ Permits(request[a])
        /\ request' = [request EXCEPT ![a].st = "admitted"]
     \/ /\ available => ~Permits(request[a])
        /\ request' = [request EXCEPT ![a].st = "refused"]
     \/ request' = [request EXCEPT ![a].st = "failed"]
  /\ UNCHANGED <<policy, spent, available>>

Leave(a) ==
  /\ request[a].st # "idle"
  /\ request' = [request EXCEPT ![a] = [st |-> "idle"]]
  /\ UNCHANGED <<policy, spent, available>>

GateNext ==
  \/ \E f \in Places : Rotate(f) \/ Rename(f) \/ Create(f) \/ Remove(f)
  \/ Switch
  \/ \E a \in Requests : Arrive(a) \/ Decide(a) \/ Leave(a)

Gate == [][GateNext]_gateVars
=============================================================================
