----------------------------- MODULE MCUserStore -----------------------------
(* Two accounts, two roles, two password hashes. *)
EXTENDS UserStore, TLC

MCRoles == {"admin", "viewer"}

Symmetric == Permutations(Users) \cup Permutations(Hashes) \cup Permutations(Tasks)
=============================================================================
