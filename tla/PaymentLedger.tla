----------------------------- MODULE PaymentLedger -----------------------------
(***************************************************************************)
(* What payment tracking promises: for every concert at most one ledger,   *)
(* held by the member who opened it, with one status per debtor.  Every    *)
(* operation is indivisible.  Payments implements it.                      *)
(***************************************************************************)
CONSTANTS Users, Concerts

VARIABLE ledger     \* a function from the concerts that have a ledger

Status == {"open", "reported", "confirmed"}

Init == ledger = [c \in {} |-> {}]

Debtors(c) == DOMAIN ledger[c].status
Put(c, debts) == ledger' = [ledger EXCEPT ![c].status = debts]

\* A member takes charge; a share is owed by any users: whom, is not decided here.
Open(c) ==
  /\ c \notin DOMAIN ledger
  /\ \E u \in Users, S \in SUBSET Users :
       ledger' = [d \in DOMAIN ledger \cup {c} |->
                    IF d = c THEN [responsible |-> u, status |-> [v \in S |-> "open"]]
                             ELSE ledger[d]]

Close(c) ==
  /\ c \in DOMAIN ledger
  /\ ledger' = [d \in DOMAIN ledger \ {c} |-> ledger[d]]

Charge(c) ==
  /\ c \in DOMAIN ledger
  /\ \E u \in Users \ Debtors(c) :
       Put(c, [v \in Debtors(c) \cup {u} |->
                 IF v = u THEN "open" ELSE ledger[c].status[v]])

Waive(c) ==
  /\ c \in DOMAIN ledger
  /\ \E u \in Debtors(c) : Put(c, [v \in Debtors(c) \ {u} |-> ledger[c].status[v]])

Mark(c) ==
  /\ c \in DOMAIN ledger
  /\ \E u \in Debtors(c), s \in Status : Put(c, [ledger[c].status EXCEPT ![u] = s])

\* What leaves the ledgers as they are is no step of theirs.
Next ==
  /\ ledger' # ledger
  /\ \E c \in Concerts : Open(c) \/ Close(c) \/ Charge(c) \/ Waive(c) \/ Mark(c)

Spec == Init /\ [][Next]_ledger

================================================================================
