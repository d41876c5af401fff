------------------------------- MODULE Release -------------------------------
(***************************************************************************)
(* What the updater promises of an installation: its code, its unit files  *)
(* and the schema of its configuration belong to one release, and change   *)
(* together to those of another one or not at all - until an update is cut *)
(* short.                                                                  *)
(***************************************************************************)
EXTENDS Naturals

CONSTANTS Releases, SchemaOf

VARIABLES
  node,   \* the installation
  cut     \* whether some update was cut short

Installed(r) == [code |-> r, units |-> r, schema |-> SchemaOf[r]]

Update(r) == node' = Installed(r)

RInit == \E r \in Releases : node = Installed(r)

\* What is left is then anything.
CutShort == cut'

AtomicUpdates == RInit /\ ~cut /\ [][CutShort \/ \E r \in Releases : Update(r)]_node
=============================================================================
