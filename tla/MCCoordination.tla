----------------------------- MODULE MCCoordination -----------------------------
(* Small instances of Coordination. *)
EXTENDS Coordination, TLC

MCSymmetry == Permutations(Users) \cup Permutations(Groups) \cup Permutations(Codes)
              \cup Permutations(Concerts) \cup Permutations(Reqs)
================================================================================
