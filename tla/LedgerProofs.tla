----------------------------- MODULE LedgerProofs -----------------------------
(***************************************************************************)
(* What a client of Payments is shown and told, and that the service is an *)
(* implementation of PaymentLedger.                                        *)
(***************************************************************************)
EXTENDS PaymentsProofs

--------------------------------------------------------------------------------
(* What GET shows *)

\* A request has nothing to show before it is answered.
NothingShown == \A p \in Procs : req[p].pc # "idle" => req[p].seen = {}

Unseen(r) == "seen" \in DOMAIN r /\ r.seen = {}

LEMMA ReceivedUnseen == ASSUME NEW op, NEW u, NEW c PROVE Unseen(Received(op, u, c))
  BY DEF Unseen, Received, Blank

\* What the operations fill in when they are received.
LEMMA FilledUnseen ==
  ASSUME NEW r, Unseen(r)
  PROVE  /\ \A x, y : Unseen([r EXCEPT !.coll = x, !.link = y])
         /\ \A x, y : Unseen([r EXCEPT !.amount = x, !.link = y])
         /\ \A x, y : Unseen([r EXCEPT !.coll = x, !.isResponsible = y])
         /\ \A x, y : Unseen([r EXCEPT !.item = x, !.amount = y])
         /\ \A x, y, z : Unseen([r EXCEPT !.coll = x, !.debtor = y, !.amount = z])
  BY DEF Unseen

LEMMA ProceedUnseen ==
  ASSUME IInv, NEW p \in Procs, NEW r, Unseen(r), NEW code, NEW next,
         Proceed(p, r, code, next)
  PROVE  req'[p].pc # "idle" => req'[p].seen = {}
  BY DEF Unseen, Proceed, Answered, Blank, IInv, TypeOK

LEMMA ShownAtTheEnd ==
  ASSUME IInv, NothingShown, NEW p \in Procs, Receive(p) \/ Statement(p) \/ Abort(p)
  PROVE  req'[p].pc # "idle" => req'[p].seen = {}
<1>1. ASSUME NEW code, Respond(p, code) PROVE req'[p].pc = "idle"
  BY <1>1 DEF Respond, Answered, Blank, IInv, TypeOK
<1>2. CASE Receive(p)
  <2>1. CASE Activate(p)
    <3>1. \A u, c, a, l : Unseen([Received("Activate", u, c) EXCEPT !.amount = a,
                                                                   !.link = l])
      BY ReceivedUnseen, FilledUnseen
    <3>2. PICK r, code : Unseen(r) /\ Proceed(p, r, code, "insert")
      BY <2>1, <3>1 DEF Activate
    <3> QED BY <3>2, ProceedUnseen
  <2>2. CASE Get(p)
    <3>1. \A u, c, k, b : Unseen([Received("Get", u, c) EXCEPT !.coll = k,
                                                              !.isResponsible = b])
      BY ReceivedUnseen, FilledUnseen
    <3>2. PICK r, code : Unseen(r) /\ Proceed(p, r, code, "view")
      BY <2>2, <3>1, ReceivedUnseen DEF Get
    <3> QED BY <3>2, ProceedUnseen
  <2>3. CASE AddItem(p)
    <3>1. \A u, c, k, v, a : Unseen([Received("AddItem", u, c) EXCEPT !.coll = k,
                                       !.debtor = v, !.amount = a])
      BY ReceivedUnseen, FilledUnseen
    <3>2. PICK r, code : Unseen(r) /\ Proceed(p, r, code, "check")
      BY <2>3, <3>1, ReceivedUnseen DEF AddItem
    <3> QED BY <3>2, ProceedUnseen
  <2>4. ASSUME NEW op, NEW u, NEW c, NEW l, CollectionOp(p, op, u, c, l)
        PROVE  req'[p].pc # "idle" => req'[p].seen = {}
    <3>1. \A k : Unseen([Received(op, u, c) EXCEPT !.coll = k, !.link = l])
      BY ReceivedUnseen, FilledUnseen
    <3>2. PICK r, code : Unseen(r) /\ Proceed(p, r, code, "write")
      BY <2>4, <3>1, ReceivedUnseen DEF CollectionOp
    <3> QED BY <3>2, ProceedUnseen
  <2>5. ASSUME NEW op, NEW u, NEW c, NEW i, NEW a, ItemOp(p, op, u, c, i, a)
        PROVE  req'[p].pc # "idle" => req'[p].seen = {}
    <3> DEFINE r == [Received(op, u, c) EXCEPT !.item = i, !.amount = a]
    <3>1. Unseen(r)
      BY ReceivedUnseen, FilledUnseen
    <3>2. \A k, b : Unseen([r EXCEPT !.coll = k, !.isResponsible = b])
      BY <3>1, FilledUnseen
    <3>3. PICK s, code : Unseen(s) /\ Proceed(p, s, code, "item")
      BY <2>5, <3>1, <3>2 DEF ItemOp
    <3> QED BY <3>3, ProceedUnseen
  <2>6. CASE Deactivate(p) \/ SetPaymentLink(p)
    BY <2>4, <2>6 DEF Deactivate, SetPaymentLink
  <2>7. CASE SetAmount(p) \/ RemoveItem(p) \/ transition(p)
    BY <2>5, <2>7 DEF SetAmount, RemoveItem, transition
  <2> QED BY <1>2, <2>1, <2>2, <2>3, <2>6, <2>7 DEF Receive
<1>3. CASE Statement(p)
  <2>1. CASE ActivateInsert(p)
    <3> DEFINE claimed(k, S) == [req[p] EXCEPT !.pc = "commit", !.coll = k, !.seed = S]
    <3>1. Unseen(req[p])
      <4>1. req[p].pc = "insert"
        BY <2>1 DEF ActivateInsert
      <4> QED BY <4>1 DEF NothingShown, Unseen, IInv, TypeOK, Request
    <3>2. \A k, S : claimed(k, S).seen = {}
      BY <3>1 DEF Unseen
    <3> HIDE DEF claimed
    <3>3. CASE \E k, S : req' = [req EXCEPT ![p] = claimed(k, S)]
      BY <3>2, <3>3 DEF IInv, TypeOK
    <3>4. CASE Respond(p, "internal")
      BY <1>1, <3>4
    <3>5. \/ Respond(p, "internal")
          \/ \E k, S : req' = [req EXCEPT ![p] = claimed(k, S)]
      BY <2>1 DEF ActivateInsert, claimed
    <3> QED BY <3>3, <3>4, <3>5
  <2>2. CASE ActivateCommit(p) \/ AddItemReread(p) \/ DeactivateWrite(p)
             \/ SetPaymentLinkWrite(p) \/ RemoveItemWrite(p)
    BY <1>1, <2>2 DEF ActivateCommit, AddItemReread, DeactivateWrite,
                      SetPaymentLinkWrite, RemoveItemWrite
  <2>3. CASE GetItems(p)
    BY <2>3 DEF GetItems, Answered, Blank, IInv, TypeOK
  <2>4. CASE AddItemCheck(p) \/ LoadItem(p)
    <3>1. Unseen(req[p])
      BY <2>4 DEF AddItemCheck, LoadItem, NothingShown, Unseen, IInv, TypeOK, Request
    <3>2. \A v, b : Unseen([req[p] EXCEPT !.debtor = v, !.reportedAt = b])
      BY <3>1 DEF Unseen
    <3>3. PICK r, code : Unseen(r) /\ Proceed(p, r, code, "write")
      BY <2>4, <3>1, <3>2 DEF AddItemCheck, LoadItem
    <3> QED BY <3>3, ProceedUnseen
  <2>5. CASE AddItemWrite(p)
    BY <1>1, <2>5 DEF AddItemWrite, NothingShown, IInv, TypeOK, Request
  <2>6. CASE \/ SetAmountWrite(p) \/ ReportWrite(p) \/ UnReportWrite(p)
             \/ ConfirmWrite(p) \/ UnConfirmWrite(p)
    BY <1>1, <2>6 DEF SetAmountWrite, ReportWrite, UnReportWrite, ConfirmWrite,
                      UnConfirmWrite, Updated, Vanished
  <2> QED BY <1>3, <2>1, <2>2, <2>3, <2>4, <2>5, <2>6 DEF Statement
<1>4. CASE Abort(p)
  BY <1>1, <1>4 DEF Abort
<1> QED BY <1>2, <1>3, <1>4

THEOREM NothingShownEarly == Spec => []NothingShown
<1>1. Init => NothingShown
  BY DEF Init, NothingShown, Blank
<1>2. IInv /\ NothingShown /\ [Next]_vars => NothingShown'
  <2> SUFFICES ASSUME IInv, NothingShown, [Next]_vars PROVE NothingShown'
    OBVIOUS
  <2>1. ASSUME NEW p \in Procs, Receive(p) \/ Statement(p) \/ Abort(p)
        PROVE  NothingShown'
    <3>1. OnlyMoves(p)
      BY <2>1, RequestMoves
    <3>2. req'[p].pc # "idle" => req'[p].seen = {}
      BY <2>1, ShownAtTheEnd
    <3> QED BY <3>1, <3>2 DEF OnlyMoves, NothingShown
  <2>2. ASSUME NEW c \in Concerts, NEW u \in Users, UpsertRSVP(c, u)
        PROVE  NothingShown'
    BY <2>2 DEF UpsertRSVP, NothingShown
  <2>3. CASE UNCHANGED vars
    BY <2>3 DEF vars, NothingShown
  <2> QED BY <2>1, <2>2, <2>3 DEF Next
<1> QED BY <1>1, <1>2, InvariantHolds, PTL DEF Spec

\* From one request that lists items: they are the user's own, or those of a
\* collection the user is responsible for at that moment.
LEMMA ListedIsOwn ==
  ASSUME IInv, NEW p \in Procs, GetItems(p), NEW i \in req'[p].seen
  PROVE  req[p].user \in {items[i].user, ResponsibleFor(i)}
<1> DEFINE r == req[p]
<1>1. /\ i \in DOMAIN items /\ items[i].coll = r.coll
      /\ r.isResponsible \/ items[i].user = r.user
  BY DEF GetItems, ListPaymentItems, GetPaymentItemForUser, Answered, Blank, IInv, TypeOK
<1>2. r.isResponsible => collections[r.coll].responsible = r.user
  BY <1>1 DEF IInv, InFlightSound, Privileged, ItemsBelong
<1> QED BY <1>1, <1>2 DEF ResponsibleFor

\* A member sees no one else's debt, even when the collection that was loaded is
\* replaced by another member's before its items are listed.
THEOREM ViewsAlwaysAuthorised == Spec => ViewAuthorised
<1> DEFINE A == \A p \in Procs : req[p].pc = "view" => \A i \in req'[p].seen :
                  req[p].user \in {items[i].user, ResponsibleFor(i)}
<1>1. ASSUME IInv, NothingShown, [Next]_vars PROVE [A]_vars
  <2> SUFFICES ASSUME Next, NEW q \in Procs, req[q].pc = "view", NEW i \in req'[q].seen
               PROVE  req[q].user \in {items[i].user, ResponsibleFor(i)}
    BY <1>1
  <2>1. req[q].seen = {}
    BY <1>1 DEF NothingShown
  <2>2. ASSUME NEW p \in Procs, Receive(p) \/ Statement(p) \/ Abort(p)
        PROVE  req[q].user \in {items[i].user, ResponsibleFor(i)}
    <3>1. OnlyMoves(p)
      BY <1>1, <2>2, RequestMoves
    <3>2. q = p
      BY <2>1, <3>1 DEF OnlyMoves
    <3>3. CASE GetItems(p)
      BY <1>1, <3>2, <3>3, ListedIsOwn
    <3>4. CASE Abort(p)
      BY <1>1, <3>2, <3>4 DEF Abort, Respond, Answered, Blank, IInv, TypeOK
    <3>5. CASE Receive(p)
      BY <3>2, <3>5 DEF Receive, Activate, Get, AddItem, Deactivate, SetPaymentLink,
           CollectionOp, SetAmount, RemoveItem, transition, ItemOp, CanReceive
    <3>6. CASE Statement(p) /\ ~GetItems(p)
      BY <3>2, <3>6 DEF Statement, ActivateInsert, ActivateCommit, AddItemCheck,
           AddItemWrite, AddItemReread, DeactivateWrite, SetPaymentLinkWrite, LoadItem,
           SetAmountWrite, RemoveItemWrite, ReportWrite, UnReportWrite, ConfirmWrite,
           UnConfirmWrite, Writing
    <3> QED BY <2>2, <3>3, <3>4, <3>5, <3>6
  <2>3. ASSUME NEW c \in Concerts, NEW u \in Users, UpsertRSVP(c, u)
        PROVE  FALSE
    BY <2>1, <2>3 DEF UpsertRSVP
  <2> QED BY <2>2, <2>3 DEF Next
<1> QED BY <1>1, InvariantHolds, NothingShownEarly, PTL DEF Spec, ViewAuthorised

--------------------------------------------------------------------------------
(* Notifications *)

\* A step of p answers no Confirm but p's own.
LEMMA ConfirmsAlone ==
  ASSUME IInv, NEW p \in Procs, Receive(p) \/ Statement(p) \/ Abort(p)
  PROVE  Confirming \subseteq {p}
  BY RequestMoves DEF Confirming, OnlyMoves

\* No statement but ConfirmWrite answers a Confirm with 200.
LEMMA NoneConfirming ==
  ASSUME IInv, NEW p \in Procs,
         Receive(p) \/ Abort(p) \/ (Statement(p) /\ ~Writing(p, "Confirm"))
  PROVE  Confirming = {}
<1>1. SUFFICES p \notin Confirming
  BY ConfirmsAlone
<1>2. CASE Receive(p)
  <2>1. req[p].pc = "idle"
    BY <1>2 DEF Receive, Activate, Get, AddItem, Deactivate, SetPaymentLink, CollectionOp,
         SetAmount, RemoveItem, transition, ItemOp, CanReceive
  <2> QED BY <2>1 DEF Confirming
<1>3. CASE Abort(p)
  <2>1. req'[p].answer = "gone"
    BY <1>3 DEF Abort, Respond, Answered, Blank, IInv, TypeOK
  <2> QED BY <2>1 DEF Confirming
<1>4. CASE LoadItem(p)
  <2>1. PICK r, code : "pc" \in DOMAIN r /\ Proceed(p, r, code, "write")
    <3>1. "pc" \in DOMAIN req[p]
      BY DEF IInv, TypeOK, Request
    <3>2. \A v, b : "pc" \in DOMAIN [req[p] EXCEPT !.debtor = v, !.reportedAt = b]
      BY <3>1
    <3> QED BY <1>4, <3>1, <3>2 DEF LoadItem
  <2>2. req'[p].pc = "write" \/ req'[p].answer # "ok"
    BY <2>1 DEF Proceed, Answered, Blank, IInv, TypeOK
  <2> QED BY <2>2 DEF Confirming
<1>5. CASE Statement(p) /\ ~LoadItem(p) /\ ~Writing(p, "Confirm")
  <2>1. req[p].op # "Confirm"
    <3>1. InFlightSound(req[p])
      BY DEF IInv
    <3> QED BY <1>5, <3>1 DEF Statement, InFlightSound, ActivateInsert, ActivateCommit,
          GetItems, AddItemCheck, AddItemWrite, AddItemReread, DeactivateWrite,
          SetPaymentLinkWrite, SetAmountWrite, RemoveItemWrite, ReportWrite,
          UnReportWrite, ConfirmWrite, UnConfirmWrite, Writing
  <2> QED BY <2>1 DEF Confirming
<1> QED BY <1>2, <1>3, <1>4, <1>5

\* A step that inserts no row into the outbox must not call for one.
LEMMA QuietStep ==
  ASSUME enqueued' = {}, Confirming = {}, DOMAIN items' \subseteq DOMAIN items,
         \A i \in DOMAIN items \cap DOMAIN items' : ~NewlyConfirmed(i)
  PROVE  Announced
<1>1. NewDebtors = {}
  BY DEF NewDebtors
<1> QED BY <1>1 DEF Announced

LEMMA CommitAnnounced ==
  ASSUME IInv, NEW p \in Procs, ActivateCommit(p)
  PROVE  Announced
<1> DEFINE r == req[p]
<1>1. r.seed \subseteq Users
  BY DEF IInv, TypeOK, Request
<1>0. PICK I \in SUBSET FreshItems : \E debtor \in Bijection(I, r.seed) :
        items' = [i \in DOMAIN items \cup I |->
                    IF i \in I THEN CreatePaymentItem(r.coll, debtor[i], r.amount)
                               ELSE items[i]]
  BY DEF ActivateCommit
<1>2. PICK debtor \in Bijection(I, r.seed) :
        items' = [i \in DOMAIN items \cup I |->
                    IF i \in I THEN CreatePaymentItem(r.coll, debtor[i], r.amount)
                               ELSE items[i]]
  BY <1>0
<1>3. enqueued' = r.seed \X {"please_pay"}
  BY DEF ActivateCommit
<1>4. DOMAIN items' \ DOMAIN items = I /\ I \cap DOMAIN items = {}
  BY <1>2 DEF FreshItems
<1>5. \A i \in I : items'[i].user = debtor[i]
  BY <1>2 DEF CreatePaymentItem
<1>6. \A u : u \in r.seed <=> \E i \in I : debtor[i] = u
  BY DEF Bijection, Injection, IsInjective, Surjection
<1>7. \A i \in DOMAIN items \cap DOMAIN items' : items'[i] = items[i]
  BY <1>2, <1>4
<1>8. NewDebtors = r.seed \X {"please_pay"}
  BY <1>4, <1>5, <1>6 DEF NewDebtors
<1>9. Confirming = {}
  <2>1. Statement(p) /\ ~Writing(p, "Confirm")
    BY DEF Statement, ActivateCommit, Writing
  <2> QED BY <2>1, NoneConfirming
<1> QED BY <1>3, <1>7, <1>8, <1>9 DEF Announced, NewlyConfirmed

LEMMA AddItemAnnounced ==
  ASSUME IInv, NEW p \in Procs, AddItemWrite(p)
  PROVE  Announced
<1> DEFINE r == req[p]
<1>0. Confirming = {}
  <2>1. Statement(p) /\ ~Writing(p, "Confirm")
    BY DEF Statement, AddItemWrite, Writing
  <2> QED BY <2>1, NoneConfirming
<1>1. CASE enqueued' = {} /\ UNCHANGED items
  BY <1>0, <1>1, QuietStep DEF NewlyConfirmed
<1>2. CASE ~(enqueued' = {} /\ UNCHANGED items)
  <2>1. /\ enqueued' = {<<r.debtor, "please_pay">>}
        /\ \E i \in FreshItems :
             items' = [j \in DOMAIN items \cup {i} |->
                         IF j = i THEN CreatePaymentItem(r.coll, r.debtor, r.amount)
                                  ELSE items[j]]
    BY <1>2 DEF AddItemWrite
  <2>2. PICK i \in FreshItems :
          items' = [j \in DOMAIN items \cup {i} |->
                      IF j = i THEN CreatePaymentItem(r.coll, r.debtor, r.amount)
                               ELSE items[j]]
    BY <2>1
  <2>3. DOMAIN items' \ DOMAIN items = {i} /\ items'[i].user = r.debtor
    BY <2>2 DEF FreshItems, CreatePaymentItem
  <2>4. \A j \in DOMAIN items \cap DOMAIN items' : items'[j] = items[j]
    BY <2>2 DEF FreshItems
  <2>5. NewDebtors = {<<r.debtor, "please_pay">>}
    BY <2>3 DEF NewDebtors
  <2> QED BY <1>0, <2>1, <2>4, <2>5 DEF Announced, NewlyConfirmed
<1> QED BY <1>1, <1>2

LEMMA ConfirmAnnounced ==
  ASSUME IInv, NEW p \in Procs, ConfirmWrite(p)
  PROVE  Announced
<1> DEFINE r == req[p]
<1>0. /\ r.pc = "write" /\ r.op = "Confirm"
      /\ Confirming \subseteq {p}
  BY ConfirmsAlone DEF ConfirmWrite, Writing, Statement
<1>1. CASE Vanished(p) /\ enqueued' = {}
  <2>1. req'[p].answer = "internal"
    BY <1>1 DEF Vanished, Respond, Answered, Blank, IInv, TypeOK
  <2>2. Confirming = {}
    BY <1>0, <2>1 DEF Confirming
  <2> QED BY <1>1, <2>2, QuietStep DEF NewlyConfirmed, Vanished
<1>2. CASE /\ Updated(p)
           /\ UpdatePaymentItemStatus(r.item, "confirmed", r.reportedAt, TRUE)
           /\ enqueued' = {<<r.debtor, "confirmed">>}
  <2>1. r.item \in DOMAIN items /\ DOMAIN items' = DOMAIN items
    BY <1>2 DEF Updated, UpdatePaymentItemStatus
  <2>2. items[r.item].user = r.debtor
    BY <1>0, <2>1 DEF IInv, InFlightSound, ItemOps
  <2>3. items[r.item] \in Item
    BY <2>1 DEF IInv, TypeOK
  <2>4. items'[r.item].status = "confirmed"
    BY <1>2, <2>1, <2>3 DEF UpdatePaymentItemStatus, Item
  <2>5. \A i \in DOMAIN items \ {r.item} : items'[i] = items[i]
    BY <1>2 DEF UpdatePaymentItemStatus
  <2>6. NewDebtors = {}
    BY <2>1 DEF NewDebtors
  <2>7. req'[p].pc = "idle" /\ req'[p].answer = "ok"
    BY <1>2 DEF Updated, Respond, Answered, Blank, IInv, TypeOK
  <2>8. Confirming = {p}
    BY <1>0, <2>7 DEF Confirming
  <2>9. enqueued' = {<<items[req[q].item].user, "confirmed">> : q \in Confirming}
    BY <1>2, <2>2, <2>8
  <2> QED BY <2>1, <2>4, <2>5, <2>6, <2>8, <2>9 DEF Announced, NewlyConfirmed
<1> QED BY <1>1, <1>2 DEF ConfirmWrite

LEMMA OtherWritesQuiet ==
  ASSUME IInv, NEW p \in Procs,
         \/ SetAmountWrite(p) \/ ReportWrite(p) \/ UnReportWrite(p) \/ UnConfirmWrite(p)
         \/ RemoveItemWrite(p) \/ DeactivateWrite(p)
  PROVE  Announced
<1>0. Confirming = {}
  <2>1. Statement(p) /\ ~Writing(p, "Confirm")
    BY DEF Statement, SetAmountWrite, ReportWrite, UnReportWrite, UnConfirmWrite,
         RemoveItemWrite, DeactivateWrite, Writing
  <2> QED BY <2>1, NoneConfirming
<1>1. enqueued' = {}
  BY DEF SetAmountWrite, ReportWrite, UnReportWrite, UnConfirmWrite, RemoveItemWrite,
         DeactivateWrite
<1>2. CASE UNCHANGED items
  BY <1>0, <1>1, <1>2, QuietStep DEF NewlyConfirmed
<1>3. CASE RemoveItemWrite(p) \/ DeactivateWrite(p)
  <2>1. /\ DOMAIN items' \subseteq DOMAIN items
        /\ \A i \in DOMAIN items' : items'[i] = items[i]
    BY <1>3 DEF RemoveItemWrite, DeactivateWrite, DeletePaymentItem,
                DeletePaymentCollection, Restrict
  <2> QED BY <1>0, <1>1, <2>1, QuietStep DEF NewlyConfirmed
<1>4. CASE SetAmountWrite(p) /\ ~UNCHANGED items
  <2>1. UpdatePaymentItemAmount(req[p].item, req[p].amount)
    BY <1>4 DEF SetAmountWrite, Vanished
  <2>2. \A i \in DOMAIN items : items[i] \in Item
    BY DEF IInv, TypeOK
  <2>3. /\ DOMAIN items' = DOMAIN items
        /\ \A i \in DOMAIN items : items'[i].status = items[i].status
    BY <2>1, <2>2 DEF UpdatePaymentItemAmount, Item
  <2> QED BY <1>0, <1>1, <2>3, QuietStep DEF NewlyConfirmed
<1>5. CASE ReportWrite(p) \/ UnReportWrite(p) \/ UnConfirmWrite(p)
  <2>1. \E s \in {"reported", "open"}, b \in BOOLEAN :
          UpdatePaymentItemStatus(req[p].item, s, b, FALSE) \/ UNCHANGED items
    BY <1>5 DEF ReportWrite, UnReportWrite, UnConfirmWrite, Vanished, IInv, TypeOK, Request
  <2>2. PICK s \in {"reported", "open"}, b \in BOOLEAN :
          UpdatePaymentItemStatus(req[p].item, s, b, FALSE) \/ UNCHANGED items
    BY <2>1
  <2>3. \A i \in DOMAIN items : items[i] \in Item
    BY DEF IInv, TypeOK
  <2>4. /\ DOMAIN items' = DOMAIN items
        /\ \A i \in DOMAIN items : items'[i].status \in {items[i].status, s}
    BY <2>2, <2>3 DEF UpdatePaymentItemStatus, Item
  <2> QED BY <1>0, <1>1, <2>4, QuietStep DEF NewlyConfirmed
<1> QED BY <1>2, <1>3, <1>4, <1>5

\* Whatever happens between a request's check and its write, the outbox rows that
\* commit are one for every debtor added and one for the debtor whose item a
\* Confirm that is answered 200 leaves confirmed, and no others.
THEOREM AlwaysNotifiedAtomically == Spec => NotifiedAtomically
<1>1. ASSUME IInv, [Next]_vars PROVE [Announced]_vars
  <2> SUFFICES ASSUME Next PROVE Announced
    BY <1>1
  <2>1. ASSUME UNCHANGED items, enqueued' = {}, Confirming = {} PROVE Announced
    BY <2>1, QuietStep DEF NewlyConfirmed
  <2>2. ASSUME NEW p \in Procs, Receive(p) \/ Abort(p) PROVE Announced
    <3>1. UNCHANGED items /\ enqueued' = {}
      BY <2>2 DEF Receive, Activate, Get, AddItem, Deactivate, SetPaymentLink,
         CollectionOp, SetAmount, RemoveItem, transition, ItemOp, Abort
    <3> QED BY <1>1, <2>1, <2>2, <3>1, NoneConfirming
  <2>3. ASSUME NEW p \in Procs, Statement(p) PROVE Announced
    <3>1. CASE \/ ActivateInsert(p) \/ GetItems(p) \/ AddItemCheck(p)
               \/ AddItemReread(p) \/ SetPaymentLinkWrite(p) \/ LoadItem(p)
      <4>1. UNCHANGED items /\ enqueued' = {}
        BY <3>1 DEF ActivateInsert, GetItems, AddItemCheck, AddItemReread,
           SetPaymentLinkWrite, LoadItem
      <4>2. ~Writing(p, "Confirm")
        BY <3>1 DEF ActivateInsert, GetItems, AddItemCheck, AddItemReread,
           SetPaymentLinkWrite, LoadItem, Writing
      <4> QED BY <1>1, <2>1, <2>3, <4>1, <4>2, NoneConfirming
    <3> QED BY <1>1, <2>3, <3>1, CommitAnnounced, AddItemAnnounced, ConfirmAnnounced,
               OtherWritesQuiet DEF Statement
  <2>4. ASSUME NEW c \in Concerts, NEW u \in Users, UpsertRSVP(c, u) PROVE Announced
    <3>1. UNCHANGED <<items, req>> /\ enqueued' = {}
      BY <2>4 DEF UpsertRSVP
    <3>2. Confirming = {}
      BY <3>1 DEF Confirming
    <3> QED BY <2>1, <3>1, <3>2
  <2> QED BY <2>2, <2>3, <2>4 DEF Next
<1> QED BY <1>1, InvariantHolds, PTL DEF Spec, NotifiedAtomically

--------------------------------------------------------------------------------
(* The ledger that rows amount to *)

\* The refinement mapping as a function of the rows, C those of
\* payment_collections and I those of payment_items, so that the states before
\* and after a step can be compared.
CollIn(C, c) == CHOOSE k \in {j \in DOMAIN C : C[j].concert = c} : TRUE

Debts(I, k) ==
  [u \in {I[i].user : i \in {j \in DOMAIN I : I[j].coll = k}} |->
     I[CHOOSE i \in {j \in DOMAIN I : I[j].coll = k /\ I[j].user = u} : TRUE].status]

LedgerOf(C, I) ==
  [c \in {d \in Concerts : {k \in DOMAIN C : C[k].concert = d} # {}} |->
     [responsible |-> C[CollIn(C, c)].responsible, status |-> Debts(I, CollIn(C, c))]]

LEMMA LedgerIs == /\ ledger = LedgerOf(collections, items)
                  /\ ledger' = LedgerOf(collections', items')
  BY DEF ledger, LedgerOf, CollIn, Debts, Active, CollOf, GetPaymentCollectionByConcert,
         ListPaymentItems, GetPaymentItemForUser

ChargedOnce(I) ==
  \A i, j \in DOMAIN I : I[i].coll = I[j].coll /\ I[i].user = I[j].user => i = j

\* What the UNIQUE and REFERENCES constraints make of the rows.
Keyed(C, I) ==
  /\ \A k \in DOMAIN C : C[k].concert \in Concerts
  /\ \A j, k \in DOMAIN C : C[j].concert = C[k].concert => j = k
  /\ \A i \in DOMAIN I : I[i].coll \in DOMAIN C
  /\ ChargedOnce(I)

LEMMA RowsKeyed == IInv => Keyed(collections, items)
  BY DEF IInv, TypeOK, Collection, OneCollectionPerConcert, ItemsBelong, Keyed,
         ChargedOnce

LEMMA RowsStayKeyed == IInv' => Keyed(collections', items')
  BY DEF IInv, TypeOK, Collection, OneCollectionPerConcert, ItemsBelong, Keyed,
         ChargedOnce

LEMMA ChooseOnly == ASSUME NEW x, NEW S, S = {x} PROVE (CHOOSE y \in S : TRUE) = x
  OBVIOUS

LEMMA DebtsAre ==
  ASSUME NEW I, ChargedOnce(I), NEW k
  PROVE  /\ \A u : u \in DOMAIN Debts(I, k) <=>
                    \E i \in DOMAIN I : I[i].coll = k /\ I[i].user = u
         /\ \A i \in DOMAIN I : I[i].coll = k => Debts(I, k)[I[i].user] = I[i].status
<1>1. ASSUME NEW i \in DOMAIN I, I[i].coll = k
      PROVE  Debts(I, k)[I[i].user] = I[i].status
  <2>1. {j \in DOMAIN I : I[j].coll = k /\ I[j].user = I[i].user} = {i}
    BY <1>1 DEF ChargedOnce
  <2>2. (CHOOSE x \in {j \in DOMAIN I : I[j].coll = k /\ I[j].user = I[i].user} : TRUE) = i
    BY <2>1, ChooseOnly
  <2> QED BY <1>1, <2>2 DEF Debts
<1>2. DOMAIN Debts(I, k) = {I[i].user : i \in {j \in DOMAIN I : I[j].coll = k}}
  BY DEF Debts
<1> QED BY <1>1, <1>2

LEMMA DebtsFunction ==
  ASSUME NEW I, NEW k PROVE Debts(I, k) = [u \in DOMAIN Debts(I, k) |-> Debts(I, k)[u]]
  BY DEF Debts

LEMMA LedgerAre ==
  ASSUME NEW C, NEW I, Keyed(C, I)
  PROVE  /\ DOMAIN LedgerOf(C, I) = {C[k].concert : k \in DOMAIN C}
         /\ \A k \in DOMAIN C :
              LedgerOf(C, I)[C[k].concert] = [responsible |-> C[k].responsible,
                                              status |-> Debts(I, k)]
<1> DEFINE L == LedgerOf(C, I)
<1>1. DOMAIN L = {C[k].concert : k \in DOMAIN C}
  BY DEF LedgerOf, Keyed
<1>2. ASSUME NEW k \in DOMAIN C
      PROVE  L[C[k].concert] = [responsible |-> C[k].responsible, status |-> Debts(I, k)]
  <2>1. {j \in DOMAIN C : C[j].concert = C[k].concert} = {k}
    BY DEF Keyed
  <2>2. CollIn(C, C[k].concert) = k
    BY <2>1, ChooseOnly DEF CollIn
  <2>3. C[k].concert \in {d \in Concerts : {j \in DOMAIN C : C[j].concert = d} # {}}
    BY DEF Keyed
  <2> QED BY <2>2, <2>3 DEF LedgerOf
<1> QED BY <1>1, <1>2

LEMMA EntryIs ==
  ASSUME NEW C, NEW I, Keyed(C, I), NEW k \in DOMAIN C
  PROVE  LedgerOf(C, I)[C[k].concert] = [responsible |-> C[k].responsible,
                                         status |-> Debts(I, k)]
  BY LedgerAre

LEMMA LedgerFunction ==
  ASSUME NEW C, NEW I
  PROVE  LedgerOf(C, I) = [c \in DOMAIN LedgerOf(C, I) |-> LedgerOf(C, I)[c]]
  BY DEF LedgerOf

\* A collection whose items keep their debtors and statuses keeps its debts.
LEMMA SameDebts ==
  ASSUME NEW I, NEW J, ChargedOnce(I), ChargedOnce(J), NEW k,
         {i \in DOMAIN I : I[i].coll = k} = {i \in DOMAIN J : J[i].coll = k},
         \A i \in DOMAIN I : I[i].coll = k =>
           I[i].user = J[i].user /\ I[i].status = J[i].status
  PROVE  Debts(I, k) = Debts(J, k)
<1>0. /\ \A u : u \in DOMAIN Debts(I, k) <=>
                 \E i \in DOMAIN I : I[i].coll = k /\ I[i].user = u
      /\ \A i \in DOMAIN I : I[i].coll = k => Debts(I, k)[I[i].user] = I[i].status
      /\ \A u : u \in DOMAIN Debts(J, k) <=>
                 \E i \in DOMAIN J : J[i].coll = k /\ J[i].user = u
      /\ \A i \in DOMAIN J : J[i].coll = k => Debts(J, k)[J[i].user] = J[i].status
  BY DebtsAre
<1>1. DOMAIN Debts(I, k) = DOMAIN Debts(J, k)
  <2>1. \A i : i \in DOMAIN I /\ I[i].coll = k <=> i \in DOMAIN J /\ J[i].coll = k
    OBVIOUS
  <2>2. \A u : u \in DOMAIN Debts(I, k) <=> u \in DOMAIN Debts(J, k)
    BY <1>0, <2>1
  <2> QED BY <2>2
<1>2. \A u \in DOMAIN Debts(I, k) : Debts(I, k)[u] = Debts(J, k)[u]
  <2> SUFFICES ASSUME NEW u \in DOMAIN Debts(I, k)
               PROVE  Debts(I, k)[u] = Debts(J, k)[u]
    OBVIOUS
  <2>1. PICK i \in DOMAIN I : I[i].coll = k /\ I[i].user = u
    BY <1>0
  <2>2. i \in DOMAIN J /\ J[i].coll = k /\ J[i].user = u /\ I[i].status = J[i].status
    BY <2>1
  <2> QED BY <1>0, <2>1, <2>2
<1>3. Debts(I, k) = [u \in DOMAIN Debts(I, k) |-> Debts(I, k)[u]]
  BY DebtsFunction
<1>4. Debts(J, k) = [u \in DOMAIN Debts(J, k) |-> Debts(J, k)[u]]
  BY DebtsFunction
<1> QED BY <1>1, <1>2, <1>3, <1>4

\* Collections that keep their concert, responsible and debts keep the ledger.
LEMMA SameLedger ==
  ASSUME NEW C, NEW I, NEW D, NEW J, Keyed(C, I), Keyed(D, J),
         DOMAIN D = DOMAIN C,
         \A k \in DOMAIN C : /\ D[k].concert = C[k].concert
                             /\ D[k].responsible = C[k].responsible
                             /\ Debts(I, k) = Debts(J, k)
  PROVE  LedgerOf(D, J) = LedgerOf(C, I)
<1> DEFINE L == LedgerOf(C, I)
           M == LedgerOf(D, J)
<1>0. /\ DOMAIN L = {C[k].concert : k \in DOMAIN C}
      /\ DOMAIN M = {D[k].concert : k \in DOMAIN D}
  BY LedgerAre
<1>1. DOMAIN L = DOMAIN M
  <2> HIDE DEF L, M
  <2> QED BY <1>0
<1>2. ASSUME NEW c \in DOMAIN L PROVE L[c] = M[c]
  <2>1. PICK k \in DOMAIN C : C[k].concert = c
    BY <1>0, <1>2
  <2>2. L[c] = [responsible |-> C[k].responsible, status |-> Debts(I, k)]
    BY <2>1, LedgerAre
  <2>3. M[c] = [responsible |-> D[k].responsible, status |-> Debts(J, k)]
    <3>1. k \in DOMAIN D /\ D[k].concert = c
      BY <2>1
    <3> QED BY <3>1, LedgerAre
  <2> QED BY <2>2, <2>3
<1>3. L = [c \in DOMAIN L |-> L[c]] /\ M = [c \in DOMAIN M |-> M[c]]
  BY LedgerFunction
<1> QED BY <1>1, <1>2, <1>3

\* One collection's debts change.
LEMMA PutLedger ==
  ASSUME NEW C, NEW I, NEW J, Keyed(C, I), Keyed(C, J), NEW k \in DOMAIN C,
         \A j \in DOMAIN C \ {k} : Debts(I, j) = Debts(J, j)
  PROVE  LedgerOf(C, J) = [LedgerOf(C, I) EXCEPT ![C[k].concert].status = Debts(J, k)]
<1> DEFINE L == LedgerOf(C, I)
           M == LedgerOf(C, J)
           N == [L EXCEPT ![C[k].concert].status = Debts(J, k)]
<1>0. /\ DOMAIN L = {C[j].concert : j \in DOMAIN C}
      /\ DOMAIN M = {C[j].concert : j \in DOMAIN C}
  BY LedgerAre
<1>1. DOMAIN L = DOMAIN M /\ DOMAIN N = DOMAIN L
  BY <1>0
<1>2. ASSUME NEW c \in DOMAIN M PROVE N[c] = M[c]
  <2>1. PICK j \in DOMAIN C : C[j].concert = c
    BY <1>0, <1>2
  <2>2. L[c] = [responsible |-> C[j].responsible, status |-> Debts(I, j)]
    BY <2>1, LedgerAre
  <2>3. M[c] = [responsible |-> C[j].responsible, status |-> Debts(J, j)]
    BY <2>1, LedgerAre
  <2>4. CASE j = k
    <3>1. N[c] = [L[c] EXCEPT !.status = Debts(J, k)]
      BY <1>1, <2>1, <2>4
    <3> QED BY <2>2, <2>3, <2>4, <3>1
  <2>5. CASE j # k
    <3>1. C[k].concert # c
      BY <2>1, <2>5 DEF Keyed
    <3>2. N[c] = L[c]
      BY <1>1, <3>1
    <3> QED BY <2>2, <2>3, <2>5, <3>2
  <2> QED BY <2>4, <2>5
<1>3. M = [c \in DOMAIN M |-> M[c]] /\ N = [c \in DOMAIN N |-> N[c]]
  BY LedgerFunction
<1> QED BY <1>1, <1>2, <1>3

\* The rows of S and their debts are the same in both states.
Kept(S, C, I, D, J) == \A j \in S : D[j] = C[j] /\ Debts(I, j) = Debts(J, j)

Adds(k, C, D) == k \notin DOMAIN C /\ DOMAIN D = DOMAIN C \cup {k}
Removes(k, C, D) == k \in DOMAIN C /\ DOMAIN D = DOMAIN C \ {k}

\* A row is added, with items of its own.
LEMMA OpenLedger ==
  ASSUME NEW C, NEW I, NEW D, NEW J, Keyed(C, I), Keyed(D, J), NEW k,
         Adds(k, C, D),
         Kept(DOMAIN C, C, I, D, J)
  PROVE  /\ D[k].concert \notin DOMAIN LedgerOf(C, I)
         /\ DOMAIN LedgerOf(D, J) = DOMAIN LedgerOf(C, I) \cup {D[k].concert}
         /\ LedgerOf(D, J)[D[k].concert] = [responsible |-> D[k].responsible,
                                            status |-> Debts(J, k)]
         /\ \A c \in DOMAIN LedgerOf(C, I) : LedgerOf(D, J)[c] = LedgerOf(C, I)[c]
<1> DEFINE L == LedgerOf(C, I)
           M == LedgerOf(D, J)
<1>1. /\ DOMAIN L = {C[j].concert : j \in DOMAIN C}
      /\ DOMAIN M = {D[j].concert : j \in DOMAIN D}
  BY LedgerAre
<1>2. ASSUME NEW j \in DOMAIN C
      PROVE  L[C[j].concert] = [responsible |-> C[j].responsible, status |-> Debts(I, j)]
  BY EntryIs
<1>3. ASSUME NEW j \in DOMAIN D
      PROVE  M[D[j].concert] = [responsible |-> D[j].responsible, status |-> Debts(J, j)]
  BY EntryIs
<1> HIDE DEF L, M
<1> USE DEF Adds
<1>4. \A j \in DOMAIN C : C[j].concert # D[k].concert
  BY DEF Keyed, Kept
<1>5. D[k].concert \notin DOMAIN L
  BY <1>1, <1>4
<1>6. DOMAIN M = DOMAIN L \cup {D[k].concert}
  BY <1>1 DEF Kept
<1>7. M[D[k].concert] = [responsible |-> D[k].responsible, status |-> Debts(J, k)]
  BY <1>3
<1>8. ASSUME NEW c \in DOMAIN L PROVE M[c] = L[c]
  <2>1. PICK j \in DOMAIN C : C[j].concert = c
    BY <1>1, <1>8
  <2>2. L[c] = [responsible |-> C[j].responsible, status |-> Debts(I, j)]
    BY <1>2, <1>3, <2>1
  <2>3. j \in DOMAIN D /\ D[j] = C[j]
    BY DEF Kept
  <2>4. M[D[j].concert] = [responsible |-> D[j].responsible, status |-> Debts(J, j)]
    BY <1>2, <1>3, <2>3
  <2> QED BY <2>1, <2>2, <2>3, <2>4 DEF Kept
<1> QED BY <1>5, <1>6, <1>7, <1>8 DEF L, M

\* A row is removed.
LEMMA CloseLedger ==
  ASSUME NEW C, NEW I, NEW D, NEW J, Keyed(C, I), Keyed(D, J), NEW k,
         Removes(k, C, D),
         Kept(DOMAIN D, C, I, D, J)
  PROVE  /\ C[k].concert \in DOMAIN LedgerOf(C, I)
         /\ LedgerOf(D, J) = [c \in DOMAIN LedgerOf(C, I) \ {C[k].concert} |->
                                LedgerOf(C, I)[c]]
<1> DEFINE L == LedgerOf(C, I)
           M == LedgerOf(D, J)
<1>1. /\ DOMAIN L = {C[j].concert : j \in DOMAIN C}
      /\ DOMAIN M = {D[j].concert : j \in DOMAIN D}
  BY LedgerAre
<1>2. ASSUME NEW j \in DOMAIN C
      PROVE  L[C[j].concert] = [responsible |-> C[j].responsible, status |-> Debts(I, j)]
  BY EntryIs
<1>3. ASSUME NEW j \in DOMAIN D
      PROVE  M[D[j].concert] = [responsible |-> D[j].responsible, status |-> Debts(J, j)]
  BY EntryIs
<1> HIDE DEF L, M
<1> USE DEF Removes
<1>4. \A j \in DOMAIN D : C[j].concert # C[k].concert
  BY DEF Keyed, Kept
<1>5. C[k].concert \in DOMAIN L
  BY <1>1
<1>6. DOMAIN M = DOMAIN L \ {C[k].concert}
  BY <1>1, <1>4 DEF Kept
<1>7. ASSUME NEW c \in DOMAIN M PROVE M[c] = L[c]
  <2>1. PICK j \in DOMAIN D : D[j].concert = c
    BY <1>1, <1>7
  <2>2. M[c] = [responsible |-> D[j].responsible, status |-> Debts(J, j)]
    BY <1>2, <1>3, <2>1
  <2>3. j \in DOMAIN C /\ D[j] = C[j]
    BY DEF Kept
  <2>4. L[C[j].concert] = [responsible |-> C[j].responsible, status |-> Debts(I, j)]
    BY <1>2, <1>3, <2>3
  <2> QED BY <2>1, <2>2, <2>3, <2>4 DEF Kept
<1>8. M = [c \in DOMAIN M |-> M[c]]
  BY LedgerFunction DEF L, M
<1> QED BY <1>5, <1>6, <1>7, <1>8 DEF L, M

--------------------------------------------------------------------------------
(* Steps of the service as steps of the ledger *)

LEMMA OpensLedger ==
  ASSUME IInv, IInv', NEW p \in Procs, ActivateCommit(p)
  PROVE  \E c \in Concerts : Ledger!Open(c)
<1> PICK r : r = req[p]
  OBVIOUS
<1>1. Keyed(collections, items) /\ Keyed(collections', items')
  BY RowsKeyed, RowsStayKeyed
<1>2. /\ r.coll \notin DOMAIN collections
      /\ DOMAIN collections' = DOMAIN collections \cup {r.coll}
      /\ \A k \in DOMAIN collections : collections'[k] = collections[k]
  BY DEF ActivateCommit, CreatePaymentCollection, IInv, SlotsExclusive
<1>3. PICK I \in SUBSET FreshItems :
        /\ DOMAIN items' = DOMAIN items \cup I
        /\ \A i \in I : items'[i].coll = r.coll /\ items'[i].status = "open"
        /\ \A i \in DOMAIN items \ I : items'[i] = items[i]
  BY DEF ActivateCommit, CreatePaymentItem
<1>4. I \cap DOMAIN items = {}
  BY DEF FreshItems
<1>5. ASSUME NEW k \in DOMAIN collections PROVE Debts(items, k) = Debts(items', k)
  BY <1>1, <1>2, <1>3, <1>4, SameDebts DEF Keyed
<1>6. Kept(DOMAIN collections, collections, items, collections', items')
  BY <1>2, <1>5 DEF Kept
<1> DEFINE debts == Debts(items', r.coll)
           S == DOMAIN debts
<1>7. S \subseteq Users
  <2>1. \A i \in DOMAIN items' : items'[i].user \in Users
    BY DEF IInv, TypeOK, Item
  <2> QED BY <1>1, <2>1, DebtsAre DEF Keyed
<1>8. \A v \in S : debts[v] = "open"
  <2> SUFFICES ASSUME NEW v \in S PROVE debts[v] = "open"
    OBVIOUS
  <2>1. PICK i \in DOMAIN items' : items'[i].coll = r.coll /\ items'[i].user = v
    BY <1>1, DebtsAre DEF Keyed
  <2>2. i \in I
    BY <1>1, <1>2, <1>3, <2>1 DEF Keyed
  <2> QED BY <1>1, <1>3, <2>1, <2>2, DebtsAre DEF Keyed
<1>9. debts = [v \in S |-> "open"]
  BY <1>8, DebtsFunction
<1>10. collections'[r.coll].concert \in Concerts /\ collections'[r.coll].responsible \in Users
  BY <1>2 DEF IInv, TypeOK, Collection
<1> DEFINE c == collections'[r.coll].concert
           u == collections'[r.coll].responsible
<1>11. /\ c \notin DOMAIN ledger
       /\ ledger' = [d \in DOMAIN ledger \cup {c} |->
                       IF d = c THEN [responsible |-> u, status |-> debts] ELSE ledger[d]]
  <2>1. PICK k : k = r.coll
    OBVIOUS
  <2>2. Adds(k, collections, collections')
    BY <1>2, <2>1 DEF Adds
  <2>3. /\ collections'[k].concert \notin DOMAIN ledger
        /\ DOMAIN ledger' = DOMAIN ledger \cup {collections'[k].concert}
        /\ ledger'[collections'[k].concert] =
             [responsible |-> collections'[k].responsible, status |-> Debts(items', k)]
        /\ \A d \in DOMAIN ledger : ledger'[d] = ledger[d]
    <3>1. /\ collections'[k].concert \notin DOMAIN LedgerOf(collections, items)
          /\ DOMAIN LedgerOf(collections', items') =
               DOMAIN LedgerOf(collections, items) \cup {collections'[k].concert}
          /\ LedgerOf(collections', items')[collections'[k].concert] =
               [responsible |-> collections'[k].responsible, status |-> Debts(items', k)]
          /\ \A d \in DOMAIN LedgerOf(collections, items) :
               LedgerOf(collections', items')[d] = LedgerOf(collections, items)[d]
      BY <1>1, <1>6, <2>2, OpenLedger
    <3> QED BY <3>1, LedgerIs
  <2>4. ledger' = [d \in DOMAIN ledger' |-> ledger'[d]]
    BY LedgerFunction, LedgerIs
  <2> QED BY <2>1, <2>3, <2>4
<1> HIDE DEF debts, S
<1>12. ledger' = [d \in DOMAIN ledger \cup {c} |->
                    IF d = c THEN [responsible |-> u, status |-> [v \in S |-> "open"]]
                             ELSE ledger[d]]
  BY <1>9, <1>11
<1>13. S \in SUBSET Users /\ u \in Users /\ c \in Concerts
  BY <1>7, <1>10
<1> HIDE DEF c, u
<1>14. Ledger!Open(c)
  BY <1>11, <1>12, <1>13 DEF Ledger!Open
<1> QED BY <1>13, <1>14

LEMMA ClosesLedger ==
  ASSUME IInv, IInv', NEW p \in Procs, DeactivateWrite(p)
  PROVE  UNCHANGED ledger \/ \E c \in Concerts : Ledger!Close(c)
<1> PICK k : k = req[p].coll
  OBVIOUS
<1>1. Keyed(collections, items) /\ Keyed(collections', items')
  BY RowsKeyed, RowsStayKeyed
<1>2. /\ DOMAIN collections' = DOMAIN collections \ {k}
      /\ \A j \in DOMAIN collections' : collections'[j] = collections[j]
      /\ DOMAIN items' = {i \in DOMAIN items : items[i].coll # k}
      /\ \A i \in DOMAIN items' : items'[i] = items[i]
  BY DEF DeactivateWrite, DeletePaymentCollection, Restrict, ListPaymentItems
<1>3. ASSUME NEW j \in DOMAIN collections' PROVE Debts(items, j) = Debts(items', j)
  BY <1>1, <1>2, SameDebts DEF Keyed
<1>4. CASE k \in DOMAIN collections
  <2>1. Kept(DOMAIN collections', collections, items, collections', items')
    BY <1>2, <1>3 DEF Kept
  <2>2. Removes(k, collections, collections')
    BY <1>2, <1>4 DEF Removes
  <2>3. /\ collections[k].concert \in DOMAIN ledger
        /\ ledger' = [c \in DOMAIN ledger \ {collections[k].concert} |-> ledger[c]]
    BY <1>1, <2>1, <2>2, CloseLedger, LedgerIs
  <2> QED BY <1>1, <1>4, <2>3 DEF Ledger!Close, Keyed
<1>5. CASE k \notin DOMAIN collections
  <2>1. DOMAIN collections' = DOMAIN collections
    BY <1>2, <1>5
  <2> QED BY <1>1, <1>2, <1>3, <2>1, SameLedger, LedgerIs
<1> QED BY <1>4, <1>5

\* A step that changes items of one collection changes that one's debts.
LEMMA PutsLedger ==
  ASSUME IInv, IInv', UNCHANGED collections, NEW k \in DOMAIN collections,
         \A j \in DOMAIN collections \ {k} : Debts(items, j) = Debts(items', j)
  PROVE  LET c == collections[k].concert IN
         /\ c \in Concerts /\ c \in DOMAIN ledger
         /\ ledger[c].status = Debts(items, k)
         /\ ledger' = [ledger EXCEPT ![c].status = Debts(items', k)]
<1>1. Keyed(collections, items) /\ Keyed(collections, items')
  <2>1. Keyed(collections', items')
    BY RowsStayKeyed
  <2> QED BY <2>1, RowsKeyed
<1> DEFINE c == collections[k].concert
<1>2. c \in Concerts
  BY <1>1 DEF Keyed
<1>3. c \in DOMAIN ledger
  BY <1>1, LedgerAre, LedgerIs
<1>4. ledger[c].status = Debts(items, k)
  <2>1. ledger[c] = [responsible |-> collections[k].responsible, status |-> Debts(items, k)]
    BY <1>1, EntryIs, LedgerIs
  <2> QED BY <2>1
<1>5. ledger' = [ledger EXCEPT ![c].status = Debts(items', k)]
  <2>1. LedgerOf(collections, items') =
          [LedgerOf(collections, items) EXCEPT ![c].status = Debts(items', k)]
    BY <1>1, PutLedger
  <2> QED BY <2>1, LedgerIs
<1> QED BY <1>2, <1>3, <1>4, <1>5

LEMMA ChargesLedger ==
  ASSUME IInv, IInv', NEW p \in Procs, AddItemWrite(p)
  PROVE  UNCHANGED ledger \/ \E c \in Concerts : Ledger!Charge(c)
<1> PICK r : r = req[p]
  OBVIOUS
<1>0. UNCHANGED collections
  BY DEF AddItemWrite
<1>1. CASE UNCHANGED items
  BY <1>0, <1>1, LedgerIs
<1>2. CASE items' # items
  <2> PICK k, u : k = r.coll /\ u = r.debtor
    OBVIOUS
  <2>1. /\ k \in DOMAIN collections
        /\ \A i \in DOMAIN items : ~(items[i].coll = k /\ items[i].user = u)
    BY <1>2 DEF AddItemWrite, GetPaymentItemForUser
  <2>2. \E i \in FreshItems :
          items' = [j \in DOMAIN items \cup {i} |->
                      IF j = i THEN CreatePaymentItem(k, u, r.amount) ELSE items[j]]
    BY <1>2 DEF AddItemWrite
  <2>3. PICK i \in FreshItems :
          items' = [j \in DOMAIN items \cup {i} |->
                      IF j = i THEN CreatePaymentItem(k, u, r.amount) ELSE items[j]]
    BY <2>2
  <2>4. /\ i \notin DOMAIN items /\ DOMAIN items' = DOMAIN items \cup {i}
        /\ \A j \in DOMAIN items : items'[j] = items[j]
        /\ items'[i].coll = k /\ items'[i].user = u /\ items'[i].status = "open"
    BY <2>3 DEF FreshItems, CreatePaymentItem
  <2>5. ChargedOnce(items) /\ ChargedOnce(items')
    BY RowsKeyed, RowsStayKeyed DEF Keyed
  <2>6. \A j \in DOMAIN collections \ {k} : Debts(items, j) = Debts(items', j)
    BY <2>4, <2>5, SameDebts
  <2> DEFINE before == Debts(items, k)
             after == Debts(items', k)
  <2>7. \A v : v \in DOMAIN before <=> \E j \in DOMAIN items : items[j].coll = k /\ items[j].user = v
    BY <2>5, DebtsAre
  <2>8. \A v : v \in DOMAIN after <=> \E j \in DOMAIN items' : items'[j].coll = k /\ items'[j].user = v
    BY <2>5, DebtsAre
  <2>9. u \notin DOMAIN before
    BY <2>1, <2>7
  <2>10. DOMAIN after = DOMAIN before \cup {u}
    <3> HIDE DEF before, after
    <3>1. \A v : v \in DOMAIN after <=> v \in DOMAIN before \cup {u}
      BY <2>4, <2>7, <2>8
    <3> QED BY <3>1
  <2>11. after[u] = "open"
    BY <2>4, <2>5, DebtsAre
  <2>12. \A v \in DOMAIN before : after[v] = before[v]
    <3> SUFFICES ASSUME NEW v \in DOMAIN before PROVE after[v] = before[v]
      OBVIOUS
    <3>1. PICK j \in DOMAIN items : items[j].coll = k /\ items[j].user = v
      BY <2>7
    <3>2. before[v] = items[j].status
      BY <2>5, <3>1, DebtsAre
    <3>3. j \in DOMAIN items' /\ items'[j].coll = k /\ items'[j].user = v
      BY <2>4, <3>1
    <3>4. after[v] = items'[j].status
      BY <2>5, <3>3, DebtsAre
    <3> QED BY <2>4, <3>2, <3>4
  <2>13. after = [v \in DOMAIN after |-> after[v]]
    BY DebtsFunction
  <2>14. u \in Users
    <3>1. items'[i].user \in Users
      BY <2>4 DEF IInv, TypeOK, Item
    <3> QED BY <2>4, <3>1
  <2> HIDE DEF before, after
  <2>15. after = [v \in DOMAIN before \cup {u} |-> IF v = u THEN "open" ELSE before[v]]
    BY <2>9, <2>10, <2>11, <2>12, <2>13
  <2>16. PICK c : c = collections[k].concert
    OBVIOUS
  <2>17. /\ c \in Concerts /\ c \in DOMAIN ledger /\ ledger[c].status = before
         /\ ledger' = [ledger EXCEPT ![c].status = after]
    BY <1>0, <2>1, <2>6, <2>16, PutsLedger DEF before, after
  <2>18. Ledger!Charge(c)
    BY <2>9, <2>14, <2>15, <2>17 DEF Ledger!Charge, Ledger!Debtors, Ledger!Put
  <2> QED BY <2>17, <2>18
<1> QED BY <1>1, <1>2

LEMMA WaivesLedger ==
  ASSUME IInv, IInv', NEW p \in Procs, RemoveItemWrite(p)
  PROVE  UNCHANGED ledger \/ \E c \in Concerts : Ledger!Waive(c)
<1> PICK i : i = req[p].item
  OBVIOUS
<1>0. UNCHANGED collections
  BY DEF RemoveItemWrite
<1>1. /\ DOMAIN items' = DOMAIN items \ {i}
      /\ \A j \in DOMAIN items' : items'[j] = items[j]
  BY DEF RemoveItemWrite, DeletePaymentItem, Restrict
<1>2. ChargedOnce(items) /\ ChargedOnce(items')
  BY RowsKeyed, RowsStayKeyed DEF Keyed
<1>3. Keyed(collections, items) /\ Keyed(collections, items')
  <2>1. Keyed(collections', items')
    BY RowsStayKeyed
  <2> QED BY <1>0, <2>1, RowsKeyed
<1>4. CASE i \notin DOMAIN items
  <2>1. \A k \in DOMAIN collections : Debts(items, k) = Debts(items', k)
    BY <1>1, <1>2, <1>4, SameDebts
  <2> QED BY <1>0, <1>3, <2>1, SameLedger, LedgerIs
<1>5. CASE i \in DOMAIN items
  <2> PICK k, u : k = items[i].coll /\ u = items[i].user
    OBVIOUS
  <2>1. k \in DOMAIN collections
    BY <1>3, <1>5 DEF Keyed
  <2>2. \A j \in DOMAIN collections \ {k} : Debts(items, j) = Debts(items', j)
    BY <1>1, <1>2, SameDebts
  <2> DEFINE before == Debts(items, k)
             after == Debts(items', k)
  <2>3. \A v : v \in DOMAIN before <=> \E j \in DOMAIN items : items[j].coll = k /\ items[j].user = v
    BY <1>2, DebtsAre
  <2>4. \A v : v \in DOMAIN after <=> \E j \in DOMAIN items' : items'[j].coll = k /\ items'[j].user = v
    BY <1>2, DebtsAre
  <2>5. u \in DOMAIN before
    BY <1>5, <2>3
  <2>6. DOMAIN after = DOMAIN before \ {u}
    <3> HIDE DEF before, after
    <3>1. \A j \in DOMAIN items : items[j].coll = k /\ items[j].user = u => j = i
      BY <1>2, <1>5 DEF ChargedOnce
    <3>2. \A v : v \in DOMAIN after <=> v \in DOMAIN before \ {u}
      BY <1>1, <2>3, <2>4, <3>1
    <3> QED BY <3>2
  <2>7. \A v \in DOMAIN after : after[v] = before[v]
    <3> SUFFICES ASSUME NEW v \in DOMAIN after PROVE after[v] = before[v]
      OBVIOUS
    <3>1. PICK j \in DOMAIN items' : items'[j].coll = k /\ items'[j].user = v
      BY <2>4
    <3>2. after[v] = items'[j].status
      BY <1>2, <3>1, DebtsAre
    <3>3. j \in DOMAIN items /\ items[j].coll = k /\ items[j].user = v
      BY <1>1, <3>1
    <3>4. before[v] = items[j].status
      BY <1>2, <3>3, DebtsAre
    <3> QED BY <1>1, <3>2, <3>4
  <2>8. after = [v \in DOMAIN after |-> after[v]]
    BY DebtsFunction
  <2> HIDE DEF before, after
  <2>9. after = [v \in DOMAIN before \ {u} |-> before[v]]
    BY <2>6, <2>7, <2>8
  <2>10. PICK c : c = collections[k].concert
    OBVIOUS
  <2>11. /\ c \in Concerts /\ c \in DOMAIN ledger /\ ledger[c].status = before
         /\ ledger' = [ledger EXCEPT ![c].status = after]
    BY <1>0, <2>1, <2>2, <2>10, PutsLedger DEF before, after
  <2>12. Ledger!Waive(c)
    BY <2>5, <2>9, <2>11 DEF Ledger!Waive, Ledger!Debtors, Ledger!Put
  <2> QED BY <2>11, <2>12
<1> QED BY <1>4, <1>5

\* An UPDATE of one item's status, by whichever of the four operations.
LEMMA MarksLedger ==
  ASSUME IInv, IInv', UNCHANGED collections, NEW i \in DOMAIN items,
         NEW s \in Statuses, NEW reported, NEW confirmed,
         UpdatePaymentItemStatus(i, s, reported, confirmed)
  PROVE  \E c \in Concerts : Ledger!Mark(c)
<1>1. \A j \in DOMAIN items : items[j] \in Item
  BY DEF IInv, TypeOK
<1>2. /\ DOMAIN items' = DOMAIN items
      /\ \A j \in DOMAIN items \ {i} : items'[j] = items[j]
      /\ items'[i].coll = items[i].coll /\ items'[i].user = items[i].user
      /\ items'[i].status = s
  BY <1>1 DEF UpdatePaymentItemStatus, Item
<1>3. Keyed(collections, items) /\ ChargedOnce(items) /\ ChargedOnce(items')
  BY RowsKeyed, RowsStayKeyed DEF Keyed
<1> PICK k, u : k = items[i].coll /\ u = items[i].user
  OBVIOUS
<1>4. k \in DOMAIN collections
  BY <1>3 DEF Keyed
<1>5. \A j \in DOMAIN collections \ {k} : Debts(items, j) = Debts(items', j)
  <2> SUFFICES ASSUME NEW j \in DOMAIN collections \ {k}
               PROVE  Debts(items, j) = Debts(items', j)
    OBVIOUS
  <2>1. \A x \in DOMAIN items : items[x].coll = j => items'[x] = items[x]
    BY <1>2
  <2>2. {x \in DOMAIN items : items[x].coll = j} = {x \in DOMAIN items' : items'[x].coll = j}
    BY <1>2
  <2> QED BY <1>3, <2>1, <2>2, SameDebts
<1> DEFINE before == Debts(items, k)
           after == Debts(items', k)
<1>6. \A v : v \in DOMAIN before <=> \E j \in DOMAIN items : items[j].coll = k /\ items[j].user = v
  BY <1>3, DebtsAre
<1>7. \A v : v \in DOMAIN after <=> \E j \in DOMAIN items' : items'[j].coll = k /\ items'[j].user = v
  BY <1>3, DebtsAre
<1>8. u \in DOMAIN before
  BY <1>6
<1>9. DOMAIN after = DOMAIN before
  <2> HIDE DEF before, after
  <2>1. \A j \in DOMAIN items : items'[j].coll = items[j].coll /\ items'[j].user = items[j].user
    BY <1>2
  <2>2. \A v : v \in DOMAIN after <=> v \in DOMAIN before
    BY <1>2, <1>6, <1>7, <2>1
  <2> QED BY <2>2
<1>10. after[u] = s
  BY <1>2, <1>3, DebtsAre
<1>11. \A v \in DOMAIN before \ {u} : after[v] = before[v]
  <2> SUFFICES ASSUME NEW v \in DOMAIN before \ {u} PROVE after[v] = before[v]
    OBVIOUS
  <2>1. PICK j \in DOMAIN items : items[j].coll = k /\ items[j].user = v
    BY <1>6
  <2>2. before[v] = items[j].status
    BY <1>3, <2>1, DebtsAre
  <2>3. j \in DOMAIN items' /\ items'[j] = items[j]
    BY <1>2, <2>1
  <2>4. after[v] = items'[j].status
    BY <1>3, <2>1, <2>3, DebtsAre
  <2> QED BY <2>2, <2>3, <2>4
<1>12. /\ after = [v \in DOMAIN after |-> after[v]]
       /\ before = [v \in DOMAIN before |-> before[v]]
  BY DebtsFunction
<1> HIDE DEF before, after
<1>13. after = [before EXCEPT ![u] = s]
  BY <1>8, <1>9, <1>10, <1>11, <1>12
<1>14. PICK c : c = collections[k].concert
  OBVIOUS
<1>15. /\ c \in Concerts /\ c \in DOMAIN ledger /\ ledger[c].status = before
       /\ ledger' = [ledger EXCEPT ![c].status = after]
  BY <1>4, <1>5, <1>14, PutsLedger DEF before, after
<1>16. Ledger!Mark(c)
  BY <1>8, <1>13, <1>15 DEF Ledger!Mark, Ledger!Debtors, Ledger!Put, Ledger!Status, Statuses
<1> QED BY <1>15, <1>16

LEMMA StatusWritesMark ==
  ASSUME IInv, IInv', NEW p \in Procs,
         ReportWrite(p) \/ UnReportWrite(p) \/ ConfirmWrite(p) \/ UnConfirmWrite(p)
  PROVE  UNCHANGED ledger \/ \E c \in Concerts : Ledger!Mark(c)
<1>1. UNCHANGED collections
  BY DEF ReportWrite, UnReportWrite, ConfirmWrite, UnConfirmWrite
<1>2. CASE UNCHANGED items
  BY <1>1, <1>2, LedgerIs
<1>3. CASE items' # items
  <2>1. \E s \in Statuses : \E a, b :
          /\ req[p].item \in DOMAIN items
          /\ UpdatePaymentItemStatus(req[p].item, s, a, b)
    BY <1>3 DEF ReportWrite, UnReportWrite, ConfirmWrite, UnConfirmWrite, Updated,
                Vanished, Statuses
  <2>2. PICK i \in DOMAIN items : i = req[p].item
    BY <2>1
  <2> QED BY <1>1, <2>1, <2>2, MarksLedger
<1> QED BY <1>2, <1>3

\* What changes neither debtors nor statuses is no step of the ledger.
LEMMA OtherWritesStutter ==
  ASSUME IInv, IInv', NEW p \in Procs, SetAmountWrite(p) \/ SetPaymentLinkWrite(p)
  PROVE  UNCHANGED ledger
<1>1. Keyed(collections, items) /\ Keyed(collections', items')
  BY RowsKeyed, RowsStayKeyed
<1>2. CASE SetAmountWrite(p)
  <2>1. \A i \in DOMAIN items : items[i] \in Item
    BY DEF IInv, TypeOK
  <2>2. UNCHANGED collections
    BY <1>2 DEF SetAmountWrite
  <2>3. /\ DOMAIN items' = DOMAIN items
        /\ \A i \in DOMAIN items : /\ items'[i].coll = items[i].coll
                                   /\ items'[i].user = items[i].user
                                   /\ items'[i].status = items[i].status
    <3>1. CASE UNCHANGED items
      BY <3>1
    <3>2. CASE UpdatePaymentItemAmount(req[p].item, req[p].amount)
      BY <2>1, <3>2 DEF UpdatePaymentItemAmount, Item
    <3> QED BY <1>2, <3>1, <3>2 DEF SetAmountWrite, Vanished
  <2>4. ASSUME NEW k \in DOMAIN collections PROVE Debts(items, k) = Debts(items', k)
    <3>1. {i \in DOMAIN items : items[i].coll = k} = {i \in DOMAIN items' : items'[i].coll = k}
      BY <2>3
    <3> QED BY <1>1, <2>3, <3>1, SameDebts DEF Keyed
  <2> QED BY <1>1, <2>2, <2>4, SameLedger, LedgerIs
<1>3. CASE SetPaymentLinkWrite(p)
  <2>1. \A k \in DOMAIN collections : collections[k] \in Collection
    BY DEF IInv, TypeOK
  <2>2. UNCHANGED items
    BY <1>3 DEF SetPaymentLinkWrite
  <2>3. /\ DOMAIN collections' = DOMAIN collections
        /\ \A k \in DOMAIN collections :
             /\ collections'[k].concert = collections[k].concert
             /\ collections'[k].responsible = collections[k].responsible
    BY <1>3, <2>1 DEF SetPaymentLinkWrite, UpdatePaymentCollectionLink, Collection
  <2> QED BY <1>1, <2>2, <2>3, SameLedger, LedgerIs
<1> QED BY <1>2, <1>3

\* Every step of the service is one step of the ledger or leaves it alone.
LEMMA StepsOfLedger ==
  ASSUME IInv, IInv', [Next]_vars
  PROVE  [Ledger!Next]_ledger
<1> SUFFICES UNCHANGED ledger \/
      \E c \in Concerts : \/ Ledger!Open(c) \/ Ledger!Close(c) \/ Ledger!Charge(c)
                          \/ Ledger!Waive(c) \/ Ledger!Mark(c)
  BY DEF Ledger!Next
<1>1. ASSUME UNCHANGED <<collections, items>> PROVE UNCHANGED ledger
  BY <1>1, LedgerIs
<1>2. ASSUME NEW p \in Procs, Receive(p) \/ Abort(p) PROVE UNCHANGED ledger
  BY <1>1, <1>2 DEF Receive, Activate, Get, AddItem, Deactivate, SetPaymentLink,
       CollectionOp, SetAmount, RemoveItem, transition, ItemOp, Abort
<1>3. ASSUME NEW p \in Procs, \/ ActivateInsert(p) \/ GetItems(p) \/ AddItemCheck(p)
                              \/ AddItemReread(p) \/ LoadItem(p)
      PROVE  UNCHANGED ledger
  BY <1>1, <1>3 DEF ActivateInsert, GetItems, AddItemCheck, AddItemReread, LoadItem
<1>4. ASSUME NEW c \in Concerts, NEW u \in Users, UpsertRSVP(c, u) PROVE UNCHANGED ledger
  BY <1>1, <1>4 DEF UpsertRSVP
<1>5. CASE UNCHANGED vars
  BY <1>1, <1>5 DEF vars
<1> QED BY <1>2, <1>3, <1>4, <1>5, OpensLedger, ClosesLedger, ChargesLedger, WaivesLedger,
           StatusWritesMark, OtherWritesStutter DEF Next, Statement

\* Payments implements PaymentLedger: however requests interleave and whatever
\* they had read before they wrote, a member can think of every operation as
\* indivisible.
THEOREM LedgerImplemented == Spec => ImplementsLedger
<1>1. Init => Ledger!Init
  BY DEF Init, Ledger!Init, ledger, Active, GetPaymentCollectionByConcert
<1>2. IInv /\ IInv' /\ [Next]_vars => [Ledger!Next]_ledger
  BY StepsOfLedger
<1> QED BY <1>1, <1>2, InvariantHolds, PTL DEF Spec, ImplementsLedger, Ledger!Spec

================================================================================
