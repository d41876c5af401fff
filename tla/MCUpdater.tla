------------------------------ MODULE MCUpdater ------------------------------
(* Two updates, from a release of the old schema and one of the new. *)
EXTENDS Updater, TLC

CONSTANTS r1, r2, manager, supervisor

MCStopOrder == <<manager, supervisor>>
MCSchemaOf == [r \in Releases |-> IF r = First THEN 1 ELSE 2]
=============================================================================
