------------------------------ MODULE MCDelivery ------------------------------
(* Small instances of Delivery. *)
EXTENDS Delivery, TLC

MCSymmetry == Permutations(Users) \cup Permutations(Notifs) \cup Permutations(Endpoints)
              \cup Permutations(SubIds) \cup Permutations(Workers)
================================================================================
