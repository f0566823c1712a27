------------------------------ MODULE MCPayments ------------------------------
(* Small instances of Payments. *)
EXTENDS Payments, TLC

CONSTANTS u1, u2, u3, c1, paypal

\* u3 is a user who is in no group.
MCMembers == [c \in Concerts |-> Users \ {u3}]

\* A refused amount and an accepted one.
MCAmounts == {-1, 5}

LedgerOps == {"Activate", "Deactivate", "AddItem", "RemoveItem", "Report", "UnReport",
              "Confirm", "UnConfirm", "Get"}
LivenessOps == {"Activate", "Deactivate", "SetAmount", "SetPaymentLink"}
StatusOps == {"Activate", "Deactivate", "Report", "UnReport", "Confirm", "UnConfirm"}
ConfirmOps == {"Activate", "Confirm"}
ActivationOps == {"Activate", "Deactivate"}

\* Goroutines and ids are interchangeable, members are too.
MCSymmetry == Permutations(Procs) \cup Permutations(CollIds) \cup Permutations(ItemIds)
MemberSymmetry == MCSymmetry \cup Permutations(Users \ {u3})
================================================================================
