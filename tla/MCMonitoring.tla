---------------------------- MODULE MCMonitoring ----------------------------
(* One place, on Nginx or on MediaMTX, with or without others on MediaMTX; two
   workers, two requests. *)
EXTENDS Monitoring

CONSTANTS place, other

MCPlaces == {place}
MCSettings == {{}, {place}, {other}}
=============================================================================
