--------------------------- MODULE MCRestreamNode ---------------------------
(* One field and up to two destinations, two manager threads, two requests. *)
EXTENDS RestreamNode, TLC

CONSTANTS d1, d2, d3

MCFields == {1}
MCDests == {d1, d2}
MCDestLists == {<<>>, <<d1>>, <<d2>>, <<d1, d2>>, <<d2, d1>>}

\* The logs run: up to three destinations, each entered once.
MCDests3 == {d1, d2, d3}
MCDestLists3 == {list \in UNION {[1 .. n -> MCDests3] : n \in 0 .. 3} :
                  \A j, k \in DOMAIN list : j # k => list[j] # list[k]}
MCLogOps == {"start", "update_url", "delete_url", "delete_field"}

\* The liveness run: one destination.
MCDest1 == {d1}
MCDestLists1 == {<<>>, <<d1>>}

MCOps == {"start", "stop", "restart", "delete_url"}

Symmetric == Permutations(Conns) \cup Permutations(Pids) \cup Permutations(Threads)
             \cup Permutations(Dests)
=============================================================================
