------------------------------- MODULE MCWorker -------------------------------
(* Small instances of Worker. *)
EXTENDS Worker, TLC

MCSymmetry == Permutations(Users) \cup Permutations(Notifs) \cup Permutations(Endpoints)
              \cup Permutations(SubIds) \cup Permutations(Workers)
================================================================================
