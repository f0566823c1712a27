-------------------------- MODULE CoordinationProofs --------------------------
(***************************************************************************)
(* Theorems about Coordination, for any sets of users, groups, codes,      *)
(* concerts and goroutines.                                                *)
(***************************************************************************)
EXTENDS Coordination, TLAPS

HistoryType ==
  overlapped \subseteq Concerts \X SUBSET Users /\ late \subseteq Concerts \X Users

\* The row that request q inserts but has not committed clashes with no other.
InsertsAlone(r, q) ==
  \A x \in Reqs \ {r} :
    /\ q.pc = "groupCommit" /\ req[x].pc = "groupCommit" =>
         req[x].group # q.group /\ req[x].code # q.code
    /\ q.pc \in {"concertList", "concertCommit"} /\ Inserted(x) =>
         req[x].concert # q.concert

--------------------------------------------------------------------------------
(* Steps that only change what a request holds *)

LEMMA IdleType == Idle \in Request
  BY DEF Idle, Request, PCs, Statuses

LEMMA IdleAdmitted == Admitted(Idle)
  BY DEF Admitted, Idle

LEMMA IdleAlone == ASSUME NEW r PROVE InsertsAlone(r, Idle)
  BY DEF InsertsAlone, Idle

\* A step that writes no row keeps the invariant if what it leaves in the
\* request is admitted and clashes with nothing.
LEMMA StepOfRequest ==
  ASSUME IInv, NEW r \in Reqs, NEW q \in Request, Goto(r, q), UNCHANGED Rows,
         Admitted(q), InsertsAlone(r, q), HistoryType'
  PROVE  IInv'
<1>1. req \in [Reqs -> Request] /\ req' = [req EXCEPT ![r] = q]
  BY DEF IInv, TypeOK, Goto
<1>2. req' \in [Reqs -> Request]
  BY <1>1
<1>3. \A x \in Reqs : req'[x] = IF x = r THEN q ELSE req[x]
  BY <1>1
<1>4. TypeOK'
  BY <1>2 DEF IInv, TypeOK, Rows, HistoryType
<1>5. CodesUnique'
  BY DEF IInv, CodesUnique, Rows
<1>6. CreatorIsAdmin'
  BY DEF IInv, CreatorIsAdmin, Rows
<1>7. StaysInGroup'
  BY DEF IInv, StaysInGroup, Rows, Members
<1>8. ASSUME NEW x \in Reqs PROVE Admitted(req[x])'
  <2>1. CASE x = r
    BY <2>1, <1>3 DEF Admitted, CodesInUse, Members, Rows
  <2>2. CASE x # r
    <3>1. Admitted(req[x])
      BY DEF IInv
    <3> QED BY <2>2, <3>1, <1>3 DEF Admitted, CodesInUse, Members, Rows
  <2> QED BY <2>1, <2>2
<1>9. InsertsDistinct'
  BY <1>3 DEF IInv, InsertsDistinct, InsertsAlone, Inserted
<1> QED BY <1>4, <1>5, <1>6, <1>7, <1>8, <1>9 DEF IInv

LEMMA HistoryKept == ASSUME IInv, UNCHANGED History PROVE HistoryType'
  BY DEF IInv, TypeOK, History, HistoryType

\* A request is answered and nothing is written.
LEMMA StepAnswer ==
  ASSUME IInv, NEW r \in Reqs, Answer(r), UNCHANGED <<Rows, History>>
  PROVE  IInv'
  BY StepOfRequest, IdleType, IdleAdmitted, IdleAlone, HistoryKept DEF Answer

LEMMA RequestTypes ==
  ASSUME IInv, NEW r \in Reqs
  PROVE  req[r] \in Request /\ Admitted(req[r])
  BY DEF IInv, TypeOK

LEMMA StepReceive ==
  ASSUME IInv, NEW r \in Reqs, NEW u \in Users, Receive(r, u)
  PROVE  IInv'
<1>1. UNCHANGED Rows /\ HistoryType'
  BY HistoryKept DEF Receive
<1>2. CASE Goto(r, [Idle EXCEPT !.pc = "group", !.user = u])
  <2> DEFINE q == [Idle EXCEPT !.pc = "group", !.user = u]
  <2>1. q \in Request
    BY IdleType DEF Request, PCs
  <2>2. Admitted(q) /\ InsertsAlone(r, q)
    BY DEF Admitted, InsertsAlone, Idle
  <2> HIDE DEF q
  <2> QED BY <1>1, <1>2, <2>1, <2>2, StepOfRequest DEF q
<1>3. ASSUME NEW k \in Codes,
             Goto(r, [Idle EXCEPT !.pc = "join", !.user = u, !.code = k])
      PROVE  IInv'
  <2> DEFINE q == [Idle EXCEPT !.pc = "join", !.user = u, !.code = k]
  <2>1. q \in Request
    BY IdleType DEF Request, PCs
  <2>2. Admitted(q) /\ InsertsAlone(r, q)
    BY DEF Admitted, InsertsAlone, Idle
  <2> HIDE DEF q
  <2> QED BY <1>1, <1>3, <2>1, <2>2, StepOfRequest DEF q
<1>4. ASSUME NEW g \in Groups, NEW pc \in {"invite", "concert"},
             Goto(r, [Idle EXCEPT !.pc = pc, !.user = u, !.group = g])
      PROVE  IInv'
  <2> DEFINE q == [Idle EXCEPT !.pc = pc, !.user = u, !.group = g]
  <2>1. q \in Request
    BY IdleType DEF Request, PCs
  <2>2. Admitted(q) /\ InsertsAlone(r, q)
    BY DEF Admitted, InsertsAlone, Idle
  <2> HIDE DEF q
  <2> QED BY <1>1, <1>4, <2>1, <2>2, StepOfRequest DEF q
<1>5. ASSUME NEW c \in Concerts, NEW st \in {"yes", "no"},
             Goto(r, [Idle EXCEPT !.pc = "rsvp", !.user = u, !.concert = c, !.status = st])
      PROVE  IInv'
  <2> DEFINE q == [Idle EXCEPT !.pc = "rsvp", !.user = u, !.concert = c, !.status = st]
  <2>1. q \in Request
    BY IdleType DEF Request, PCs, Statuses
  <2>2. Admitted(q) /\ InsertsAlone(r, q)
    BY DEF Admitted, InsertsAlone, Idle
  <2> HIDE DEF q
  <2> QED BY <1>1, <1>5, <2>1, <2>2, StepOfRequest DEF q
<1> QED BY <1>2, <1>3, <1>4, <1>5 DEF Receive

\* RequireMembership and what the callers add to it.
LEMMA StepGate ==
  ASSUME IInv, NEW r \in Reqs, NEW pc, NEW admitted,
         NEW next \in {"inviteWrite", "concertInsert", "rsvpUpsert"},
         Gate(r, pc, admitted, next),
         req[r].user \in admitted => Admitted([req[r] EXCEPT !.pc = next])
  PROVE  IInv'
<1>1. UNCHANGED Rows /\ HistoryType'
  BY HistoryKept DEF Gate
<1>2. CASE Answer(r)
  BY <1>2, StepAnswer DEF Gate
<1>3. CASE /\ req[r].user \in admitted
           /\ Goto(r, [req[r] EXCEPT !.pc = next])
  <2> DEFINE q == [req[r] EXCEPT !.pc = next]
  <2>1. q \in Request /\ q.pc = next
    BY RequestTypes DEF Request, PCs
  <2>2. Admitted(q) /\ InsertsAlone(r, q)
    BY <1>3, <2>1 DEF InsertsAlone
  <2> HIDE DEF q
  <2> QED BY <1>1, <1>3, <2>1, <2>2, StepOfRequest DEF q
<1> QED BY <1>2, <1>3 DEF Gate

LEMMA StepRegenerateInvite ==
  ASSUME IInv, NEW r \in Reqs, RegenerateInvite(r)
  PROVE  IInv'
<1> DEFINE q == [req[r] EXCEPT !.pc = "inviteWrite"]
<1>1. req[r].pc = "invite" /\ req[r].user \in Users /\ req[r].group \in Groups
  BY RequestTypes DEF RegenerateInvite, Gate, Admitted
<1>2. ASSUME role[req[r].group][req[r].user] = "admin"
      PROVE  req[r].group \in DOMAIN groups
  BY <1>1, <1>2 DEF IInv, CreatorIsAdmin
<1>3. ASSUME role[req[r].group][req[r].user] = "admin"
      PROVE  Admitted(q)
  <2>1. /\ q.pc = "inviteWrite" /\ q.user = req[r].user /\ q.group = req[r].group
    BY RequestTypes DEF Request
  <2> QED BY <1>1, <1>2, <1>3, <2>1 DEF Admitted
<1> HIDE DEF q
<1> QED BY <1>3, StepGate DEF RegenerateInvite, q

LEMMA StepCreate ==
  ASSUME IInv, NEW r \in Reqs, Create(r)
  PROVE  IInv'
<1> DEFINE q == [req[r] EXCEPT !.pc = "concertInsert"]
<1>1. req[r].pc = "concert" /\ req[r].user \in Users /\ req[r].group \in Groups
  BY RequestTypes DEF Create, Gate, Admitted
<1>2. ASSUME req[r].user \in Members(req[r].group)
      PROVE  Admitted(q)
  <2>1. q.pc = "concertInsert" /\ q.user = req[r].user /\ q.group = req[r].group
    BY RequestTypes DEF Request
  <2> QED BY <1>1, <1>2, <2>1 DEF Admitted
<1> HIDE DEF q
<1> QED BY <1>2, StepGate DEF Create, q

LEMMA StepSet ==
  ASSUME IInv, NEW r \in Reqs, Set(r)
  PROVE  IInv'
<1> DEFINE q == [req[r] EXCEPT !.pc = "rsvpUpsert"]
           c == req[r].concert
<1>1. req[r].pc = "rsvp" /\ req[r].user \in Users /\ req[r].rows = {}
  BY RequestTypes DEF Set, Gate, Admitted
<1>2. ASSUME c \in DOMAIN concerts, req[r].user \in Members(concerts[c].group_id)
      PROVE  Admitted(q)
  <2>1. /\ q.pc = "rsvpUpsert" /\ q.user = req[r].user /\ q.concert = c
        /\ q.rows = req[r].rows
    BY RequestTypes DEF Request
  <2> QED BY <1>1, <1>2, <2>1 DEF Admitted
<1> HIDE DEF q
<1> QED BY <1>2, StepGate DEF Set, q

LEMMA StepCreateGroup ==
  ASSUME IInv, NEW r \in Reqs, CreateGroup(r)
  PROVE  IInv'
<1>1. UNCHANGED Rows /\ HistoryType'
  BY HistoryKept DEF CreateGroup
<1>2. CASE Answer(r)
  BY <1>2, StepAnswer DEF CreateGroup
<1>3. ASSUME NEW k \in Codes \ CodesInUse, ~AwaitsCode(r, k),
             NEW g \in Groups \ DOMAIN groups,
             \A x \in Reqs : req[x].pc = "groupCommit" => req[x].group # g,
             Goto(r, [req[r] EXCEPT !.pc = "groupCommit", !.group = g, !.code = k])
      PROVE  IInv'
  <2> DEFINE q == [req[r] EXCEPT !.pc = "groupCommit", !.group = g, !.code = k]
  <2>1. /\ q \in Request
        /\ q.pc = "groupCommit" /\ q.group = g /\ q.code = k /\ q.user = req[r].user
    BY RequestTypes DEF Request, PCs
  <2>2. req[r].user \in Users
    BY RequestTypes DEF CreateGroup, Admitted
  <2>3. Admitted(q)
    BY <2>1, <2>2 DEF Admitted
  <2>4. InsertsAlone(r, q)
    BY <1>3, <2>1 DEF InsertsAlone, AwaitsCode
  <2> HIDE DEF q
  <2> QED BY <1>1, <1>3, <2>1, <2>3, <2>4, StepOfRequest DEF q
<1> QED BY <1>2, <1>3 DEF CreateGroup

LEMMA StepJoin ==
  ASSUME IInv, NEW r \in Reqs, Join(r)
  PROVE  IInv'
<1>1. UNCHANGED Rows /\ HistoryType'
  BY HistoryKept DEF Join
<1>2. CASE Answer(r)
  BY <1>2, StepAnswer DEF Join
<1>3. ASSUME NEW g \in DOMAIN groups, Goto(r, [req[r] EXCEPT !.pc = "joinAdd", !.group = g])
      PROVE  IInv'
  <2> DEFINE q == [req[r] EXCEPT !.pc = "joinAdd", !.group = g]
  <2>1. g \in Groups
    BY DEF IInv, TypeOK
  <2>2. q \in Request /\ q.pc = "joinAdd" /\ q.group = g /\ q.user = req[r].user
    BY <2>1, RequestTypes DEF Request, PCs
  <2>3. req[r].user \in Users
    BY RequestTypes DEF Join, Admitted
  <2>4. Admitted(q) /\ InsertsAlone(r, q)
    BY <2>2, <2>3 DEF Admitted, InsertsAlone
  <2> HIDE DEF q
  <2> QED BY <1>1, <1>3, <2>2, <2>4, StepOfRequest DEF q
<1> QED BY <1>2, <1>3 DEF Join

LEMMA StepCreateConcert ==
  ASSUME IInv, NEW r \in Reqs, CreateConcert(r)
  PROVE  IInv'
<1>1. UNCHANGED Rows /\ HistoryType'
  BY HistoryKept DEF CreateConcert
<1>2. PICK c \in Concerts \ DOMAIN concerts :
        /\ \A x \in Reqs : Inserted(x) => req[x].concert # c
        /\ Goto(r, [req[r] EXCEPT !.pc = "concertList", !.concert = c])
  BY DEF CreateConcert
<1> DEFINE q == [req[r] EXCEPT !.pc = "concertList", !.concert = c]
<1>3. /\ q \in Request /\ q.pc = "concertList" /\ q.concert = c
      /\ q.user = req[r].user /\ q.group = req[r].group
  BY RequestTypes DEF Request, PCs
<1>4. /\ req[r].user \in Users /\ req[r].group \in Groups
      /\ req[r].user \in Members(req[r].group)
  BY RequestTypes DEF CreateConcert, Admitted
<1>5. Admitted(q)
  BY <1>3, <1>4 DEF Admitted
<1>6. InsertsAlone(r, q)
  BY <1>2, <1>3 DEF InsertsAlone
<1> HIDE DEF q
<1> QED BY <1>1, <1>2, <1>3, <1>5, <1>6, StepOfRequest DEF q

LEMMA StepListGroupMembers ==
  ASSUME IInv, NEW r \in Reqs, ListGroupMembers(r)
  PROVE  IInv'
<1>1. UNCHANGED Rows /\ HistoryType'
  BY HistoryKept DEF ListGroupMembers
<1> DEFINE S == Members(req[r].group) \ {req[r].user}
           q == [req[r] EXCEPT !.pc = "concertCommit", !.rows = S]
<1>2. S \in SUBSET Users
  BY DEF Members
<1>3. /\ q \in Request /\ q.pc = "concertCommit" /\ q.concert = req[r].concert
      /\ q.user = req[r].user /\ q.group = req[r].group /\ q.rows = S
  BY <1>2, RequestTypes DEF Request, PCs
<1>4. req[r].pc = "concertList" /\ Goto(r, q)
  BY DEF ListGroupMembers
<1>5. Admitted(q)
  BY <1>3, <1>4, RequestTypes DEF Admitted
<1>6. InsertsAlone(r, q)
  BY <1>3, <1>4 DEF InsertsAlone, IInv, InsertsDistinct, Inserted
<1> HIDE DEF q
<1> QED BY <1>1, <1>3, <1>4, <1>5, <1>6, StepOfRequest

LEMMA StepUpsertRSVP ==
  ASSUME IInv, NEW r \in Reqs, UpsertRSVP(r)
  PROVE  IInv'
<1> DEFINE q == [req[r] EXCEPT !.pc = IF req[r].status = "yes" THEN "rsvpList"
                                                             ELSE "rsvpCommit"]
<1>1. /\ q \in Request /\ q.pc \in {"rsvpList", "rsvpCommit"}
      /\ q.concert = req[r].concert /\ q.user = req[r].user /\ q.rows = req[r].rows
  BY RequestTypes DEF Request, PCs
<1>2. req[r].pc = "rsvpUpsert" /\ Goto(r, q) /\ UNCHANGED Rows
  BY DEF UpsertRSVP
<1>3. Admitted(q) /\ InsertsAlone(r, q)
  BY <1>1, <1>2, RequestTypes DEF Admitted, InsertsAlone
<1>4. HistoryType'
  <2>1. req[r].concert \in Concerts /\ req[r].user \in Users
    BY <1>2, RequestTypes DEF Admitted, IInv, TypeOK
  <2>2. \A x \in Reqs : SaysYes(x) => req[x].user \in Users
    BY RequestTypes DEF SaysYes, Admitted
  <2> QED BY <2>1, <2>2 DEF UpsertRSVP, HistoryType, IInv, TypeOK
<1> HIDE DEF q
<1> QED BY <1>1, <1>2, <1>3, <1>4, StepOfRequest

LEMMA StepListRSVPs ==
  ASSUME IInv, NEW r \in Reqs, ListRSVPsForConcert(r)
  PROVE  IInv'
<1>1. UNCHANGED Rows /\ HistoryType'
  BY HistoryKept DEF ListRSVPsForConcert
<1> DEFINE S == YesResponders(req[r].concert) \ {req[r].user}
           q == [req[r] EXCEPT !.pc = "rsvpCommit", !.rows = S]
<1>2. S \in SUBSET Users
  BY DEF YesResponders
<1>3. /\ q \in Request /\ q.pc = "rsvpCommit" /\ q.concert = req[r].concert
      /\ q.user = req[r].user /\ q.rows = S
  BY <1>2, RequestTypes DEF Request, PCs
<1>4. req[r].pc = "rsvpList" /\ Goto(r, q)
  BY DEF ListRSVPsForConcert
<1>5. req[r].concert \in DOMAIN concerts /\ req[r].concert \in Concerts
  BY <1>4, RequestTypes DEF Admitted, IInv, TypeOK
<1>6. S \subseteq Members(concerts[req[r].concert].group_id) \ {req[r].user}
  BY <1>5 DEF IInv, StaysInGroup, YesResponders
<1>7. Admitted(q) /\ InsertsAlone(r, q)
  BY <1>3, <1>4, <1>6, RequestTypes DEF Admitted, InsertsAlone
<1> HIDE DEF q
<1> QED BY <1>1, <1>3, <1>4, <1>7, StepOfRequest

--------------------------------------------------------------------------------
(* Steps that write rows; each of them answers its request *)

LEMMA AnsweredRequests ==
  ASSUME IInv, NEW r \in Reqs, Answer(r)
  PROVE  /\ req' \in [Reqs -> Request]
         /\ \A x \in Reqs : req'[x] = IF x = r THEN Idle ELSE req[x]
         /\ InsertsDistinct'
<1>1. \A x \in Reqs : req'[x] = IF x = r THEN Idle ELSE req[x]
  BY DEF IInv, TypeOK, Answer, Goto
<1>2. req' \in [Reqs -> Request]
  BY IdleType DEF IInv, TypeOK, Answer, Goto
<1>3. InsertsDistinct'
  BY <1>1 DEF IInv, InsertsDistinct, Inserted, Idle
<1> QED BY <1>1, <1>2, <1>3

\* Only the other requests are still to be looked at.
LEMMA OthersAdmitted ==
  ASSUME IInv, NEW r \in Reqs, Answer(r),
         \A x \in Reqs \ {r} : req'[x] = req[x] => Admitted(req[x])'
  PROVE  \A x \in Reqs : Admitted(req[x])'
<1>1. \A x \in Reqs : req'[x] = IF x = r THEN Idle ELSE req[x]
  BY AnsweredRequests
<1>2. Admitted(req[r])'
  BY <1>1 DEF Admitted, Idle
<1> QED BY <1>1, <1>2

LEMMA StepCommitGroup ==
  ASSUME IInv, NEW r \in Reqs, CommitGroup(r)
  PROVE  IInv'
<1> DEFINE g == req[r].group
           k == req[r].code
           u == req[r].user
<1>1. /\ u \in Users /\ g \in Groups \ DOMAIN groups /\ k \in Codes \ CodesInUse
      /\ req[r].pc = "groupCommit"
  BY RequestTypes DEF CommitGroup, Admitted
<1>2. /\ DOMAIN groups' = DOMAIN groups \cup {g}
      /\ groups'[g] = [invite_code |-> k, created_by |-> u]
      /\ \A h \in DOMAIN groups : groups'[h] = groups[h]
  BY <1>1 DEF CommitGroup
<1>3. \A h \in Groups, v \in Users :
        role'[h][v] = IF h = g /\ v = u THEN "admin" ELSE role[h][v]
  BY <1>1 DEF CommitGroup, IInv, TypeOK
<1>4. Answer(r) /\ UNCHANGED <<concerts, rsvps, notifications, overlapped, late>>
  BY DEF CommitGroup, History
<1>5. \A h \in Groups : Members(h) \subseteq Members(h)'
  BY <1>3 DEF Members
<1>6. TypeOK'
  <2>1. groups' \in [DOMAIN groups' -> Group] /\ DOMAIN groups' \subseteq Groups
    BY <1>1 DEF CommitGroup, IInv, TypeOK, Group
  <2>2. role' \in [Groups -> [Users -> Roles]]
    BY <1>1 DEF CommitGroup, IInv, TypeOK, Roles
  <2> QED BY <1>4, <2>1, <2>2, AnsweredRequests DEF IInv, TypeOK
<1>7. CodesUnique'
  BY <1>1, <1>2 DEF IInv, CodesUnique, CodesInUse
<1>8. CreatorIsAdmin'
  BY <1>1, <1>2, <1>3 DEF IInv, CreatorIsAdmin
<1>9. StaysInGroup'
  BY <1>4, <1>5 DEF IInv, StaysInGroup, TypeOK, Concert, Notification
<1>10. ASSUME NEW x \in Reqs \ {r}, req'[x] = req[x] PROVE Admitted(req[x])'
  <2>1. Admitted(req[x]) /\ req[x] \in Request
    BY RequestTypes
  <2>2. req[x].pc = "groupCommit" =>
          /\ req[x].group \in Groups \ DOMAIN groups'
          /\ req[x].code \in Codes \ CodesInUse'
    BY <1>1, <1>2, <2>1 DEF IInv, InsertsDistinct, Admitted, CodesInUse
  <2>3. req[x].pc = "inviteWrite" =>
          req[x].group \in DOMAIN groups' /\ role'[req[x].group][req[x].user] = "admin"
    BY <1>1, <1>2, <1>3, <2>1 DEF Admitted, IInv, TypeOK
  <2>4. req[x].pc \in {"rsvpUpsert", "rsvpList", "rsvpCommit"} =>
          concerts[req[x].concert].group_id \in Groups
    BY <2>1 DEF Admitted, IInv, TypeOK, Concert
  <2> QED BY <1>2, <1>4, <1>5, <1>10, <2>1, <2>2, <2>3, <2>4 DEF Admitted
<1> QED BY <1>4, <1>6, <1>7, <1>8, <1>9, <1>10, AnsweredRequests, OthersAdmitted DEF IInv

LEMMA StepAddGroupMember ==
  ASSUME IInv, NEW r \in Reqs, AddGroupMember(r)
  PROVE  IInv'
<1> DEFINE g == req[r].group
           u == req[r].user
<1>1. u \in Users /\ g \in DOMAIN groups /\ g \in Groups
  BY RequestTypes DEF AddGroupMember, Admitted, IInv, TypeOK
<1>2. \A h \in Groups, v \in Users :
        role'[h][v] = IF h = g /\ v = u /\ role[g][u] = "none" THEN "member" ELSE role[h][v]
  BY <1>1 DEF AddGroupMember, IInv, TypeOK
<1>3. Answer(r) /\ UNCHANGED <<groups, concerts, rsvps, notifications, overlapped>>
  BY DEF AddGroupMember
<1>4. \A h \in Groups : Members(h) \subseteq Members(h)'
  BY <1>2 DEF Members
<1>5. late' \subseteq Concerts \X Users
  <2>1. \A y \in Reqs : Inserted(y) => req[y].concert \in Concerts
    BY RequestTypes DEF Inserted, Admitted
  <2> QED BY <1>1, <2>1 DEF AddGroupMember, JoinedLate, IInv, TypeOK
<1>6. TypeOK'
  <2>1. role' \in [Groups -> [Users -> Roles]]
    <3>1. role \in [Groups -> [Users -> Roles]] /\ "member" \in Roles
      BY DEF IInv, TypeOK, Roles
    <3>2. UNCHANGED role \/ role' = [role EXCEPT ![g][u] = "member"]
      BY DEF AddGroupMember
    <3> QED BY <1>1, <3>1, <3>2
  <2> QED BY <1>3, <1>5, <2>1, AnsweredRequests DEF IInv, TypeOK
<1>7. CodesUnique'
  BY <1>3 DEF IInv, CodesUnique
<1>8. CreatorIsAdmin'
  BY <1>1, <1>2, <1>3 DEF IInv, CreatorIsAdmin
<1>9. StaysInGroup'
  BY <1>3, <1>4 DEF IInv, StaysInGroup, TypeOK, Concert, Notification
<1>10. ASSUME NEW x \in Reqs \ {r}, req'[x] = req[x] PROVE Admitted(req[x])'
  <2>1. Admitted(req[x]) /\ req[x] \in Request
    BY RequestTypes
  <2>2. req[x].pc = "inviteWrite" => role'[req[x].group][req[x].user] = "admin"
    BY <1>2, <2>1 DEF Admitted, IInv, TypeOK
  <2>3. req[x].pc \in {"rsvpUpsert", "rsvpList", "rsvpCommit"} =>
          concerts[req[x].concert].group_id \in Groups
    BY <2>1 DEF Admitted, IInv, TypeOK, Concert
  <2> QED BY <1>3, <1>4, <1>10, <2>1, <2>2, <2>3 DEF Admitted, CodesInUse
<1> QED BY <1>3, <1>6, <1>7, <1>8, <1>9, <1>10, AnsweredRequests, OthersAdmitted DEF IInv

LEMMA StepUpdateGroupInviteCode ==
  ASSUME IInv, NEW r \in Reqs, UpdateGroupInviteCode(r)
  PROVE  IInv'
<1> DEFINE g == req[r].group
<1>1. g \in DOMAIN groups
  BY RequestTypes DEF UpdateGroupInviteCode, Admitted
<1>2. Answer(r) /\ UNCHANGED <<role, concerts, rsvps, notifications, overlapped, late>>
  BY DEF UpdateGroupInviteCode, History
<1>3. CASE UNCHANGED groups
  BY <1>2, <1>3, StepAnswer DEF Rows, History
<1>4. ASSUME NEW k \in Codes, ~AwaitsCode(r, k),
             ~\E h \in DOMAIN groups \ {g} : groups[h].invite_code = k,
             groups' = [groups EXCEPT ![g].invite_code = k]
      PROVE  IInv'
  <2>1. /\ DOMAIN groups' = DOMAIN groups
        /\ groups'[g] = [groups[g] EXCEPT !.invite_code = k]
        /\ \A h \in DOMAIN groups \ {g} : groups'[h] = groups[h]
    BY <1>1, <1>4
  <2>2. \A h \in DOMAIN groups : groups[h] \in Group
    BY DEF IInv, TypeOK
  <2>3. groups'[g].invite_code = k /\ groups'[g].created_by = groups[g].created_by
    BY <1>1, <2>1, <2>2 DEF Group
  <2>4. TypeOK'
    <3>1. groups' \in [DOMAIN groups' -> Group]
      BY <1>1, <1>4, <2>2 DEF Group, IInv, TypeOK
    <3> QED BY <1>2, <2>1, <3>1, AnsweredRequests DEF IInv, TypeOK
  <2>5. CodesUnique'
    BY <1>4, <2>1, <2>3 DEF IInv, CodesUnique
  <2>6. CreatorIsAdmin'
    BY <1>2, <2>1, <2>3 DEF IInv, CreatorIsAdmin
  <2>7. StaysInGroup'
    BY <1>2 DEF IInv, StaysInGroup, Members
  <2>8. ASSUME NEW x \in Reqs \ {r}, req'[x] = req[x] PROVE Admitted(req[x])'
    <3>1. Admitted(req[x])
      BY RequestTypes
    <3>2. req[x].pc = "groupCommit" => req[x].code \in Codes \ CodesInUse'
      BY <1>4, <2>1, <2>3, <3>1 DEF Admitted, AwaitsCode, CodesInUse
    <3> QED BY <1>2, <2>1, <2>8, <3>1, <3>2 DEF Admitted, Members
  <2> QED BY <1>2, <2>4, <2>5, <2>6, <2>7, <2>8, AnsweredRequests, OthersAdmitted DEF IInv
<1> QED BY <1>3, <1>4 DEF UpdateGroupInviteCode

LEMMA StepCommitConcert ==
  ASSUME IInv, NEW r \in Reqs, CommitConcert(r)
  PROVE  IInv'
<1> DEFINE g == req[r].group
           u == req[r].user
           c == req[r].concert
           sent == Tell("concert_new", c, u, req[r].rows)
<1>1. /\ req[r].pc = "concertCommit"
      /\ u \in Users /\ g \in Groups /\ u \in Members(g) /\ c \in Concerts \ DOMAIN concerts
      /\ req[r].rows \subseteq Members(g) \ {u}
  BY RequestTypes DEF CommitConcert, Admitted
<1>2. /\ DOMAIN concerts' = DOMAIN concerts \cup {c}
      /\ concerts'[c] = [group_id |-> g, created_by |-> u]
      /\ \A d \in DOMAIN concerts : concerts'[d] = concerts[d]
  BY <1>1 DEF CommitConcert
<1>3. /\ Answer(r) /\ UNCHANGED <<groups, role, rsvps, overlapped, late>>
      /\ notifications' = notifications \cup sent
  BY DEF CommitConcert, History
<1>4. sent \subseteq Notification
  BY <1>1 DEF Tell, Notification, Members
<1>5. TypeOK'
  <2>1. concerts' \in [DOMAIN concerts' -> Concert] /\ DOMAIN concerts' \subseteq Concerts
    BY <1>1 DEF CommitConcert, IInv, TypeOK, Concert
  <2> QED BY <1>3, <1>4, <2>1, AnsweredRequests DEF IInv, TypeOK
<1>6. CodesUnique' /\ CreatorIsAdmin'
  BY <1>3 DEF IInv, CodesUnique, CreatorIsAdmin
<1>7. StaysInGroup'
  <2>1. \A d \in DOMAIN concerts' :
          (concerts[d].created_by \in Members(concerts[d].group_id))'
    BY <1>1, <1>2, <1>3 DEF IInv, StaysInGroup, Members
  <2>2. \A d \in Concerts, v \in Users : rsvps'[d][v] # "none" =>
          d \in DOMAIN concerts' /\ v \in Members(concerts[d].group_id)'
    BY <1>2, <1>3 DEF IInv, StaysInGroup, Members
  <2>3. ASSUME NEW n \in notifications'
        PROVE  /\ n.concert \in DOMAIN concerts' /\ n.from # n.to
               /\ {n.from, n.to} \subseteq Members(concerts[n.concert].group_id)'
    <3>1. CASE n \in notifications
      BY <3>1, <1>2, <1>3 DEF IInv, StaysInGroup, Members
    <3>2. CASE n \in sent
      <4>1. n.concert = c /\ n.from = u /\ n.to \in req[r].rows
        BY <3>2 DEF Tell
      <4> QED BY <1>1, <1>2, <1>3, <4>1 DEF Members
    <3> QED BY <1>3, <3>1, <3>2
  <2> QED BY <2>1, <2>2, <2>3 DEF StaysInGroup
<1>8. ASSUME NEW x \in Reqs \ {r}, req'[x] = req[x] PROVE Admitted(req[x])'
  <2>1. Admitted(req[x])
    BY RequestTypes
  <2>2. req[x].pc \in {"concertList", "concertCommit"} =>
          req[x].concert \in Concerts \ DOMAIN concerts'
    BY <1>1, <1>2, <2>1 DEF IInv, InsertsDistinct, Inserted, Admitted
  <2> QED BY <1>2, <1>3, <1>8, <2>1, <2>2 DEF Admitted, CodesInUse, Members
<1> QED BY <1>3, <1>5, <1>6, <1>7, <1>8, AnsweredRequests, OthersAdmitted DEF IInv

LEMMA StepCommitRSVP ==
  ASSUME IInv, NEW r \in Reqs, CommitRSVP(r)
  PROVE  IInv'
<1> DEFINE u == req[r].user
           c == req[r].concert
           sent == Tell("rsvp_changed", c, u, req[r].rows)
<1>1. /\ u \in Users /\ c \in Concerts /\ c \in DOMAIN concerts
      /\ u \in Members(concerts[c].group_id)
      /\ req[r].rows \subseteq Members(concerts[c].group_id) \ {u}
      /\ req[r].status \in Statuses
  BY RequestTypes DEF CommitRSVP, Admitted, Request, IInv, TypeOK
<1>2. \A d \in Concerts, v \in Users :
        rsvps'[d][v] = IF d = c /\ v = u THEN req[r].status ELSE rsvps[d][v]
  BY <1>1 DEF CommitRSVP, IInv, TypeOK
<1>3. /\ Answer(r) /\ UNCHANGED <<groups, role, concerts, overlapped, late>>
      /\ notifications' = notifications \cup sent
  BY DEF CommitRSVP, History
<1>4. sent \subseteq Notification
  BY <1>1 DEF Tell, Notification, Members
<1>5. TypeOK'
  <2>1. rsvps' \in [Concerts -> [Users -> Statuses]]
    BY <1>1 DEF CommitRSVP, IInv, TypeOK
  <2> QED BY <1>3, <1>4, <2>1, AnsweredRequests DEF IInv, TypeOK
<1>6. CodesUnique' /\ CreatorIsAdmin'
  BY <1>3 DEF IInv, CodesUnique, CreatorIsAdmin
<1>7. StaysInGroup'
  <2>1. \A d \in DOMAIN concerts' :
          (concerts[d].created_by \in Members(concerts[d].group_id))'
    BY <1>3 DEF IInv, StaysInGroup, Members
  <2>2. \A d \in Concerts, v \in Users : rsvps'[d][v] # "none" =>
          d \in DOMAIN concerts' /\ v \in Members(concerts[d].group_id)'
    BY <1>1, <1>2, <1>3 DEF IInv, StaysInGroup, Members
  <2>3. ASSUME NEW n \in notifications'
        PROVE  /\ n.concert \in DOMAIN concerts' /\ n.from # n.to
               /\ {n.from, n.to} \subseteq Members(concerts[n.concert].group_id)'
    <3>1. CASE n \in notifications
      BY <3>1, <1>3 DEF IInv, StaysInGroup, Members
    <3>2. CASE n \in sent
      <4>1. n.concert = c /\ n.from = u /\ n.to \in req[r].rows
        BY <3>2 DEF Tell
      <4> QED BY <1>1, <1>3, <4>1 DEF Members
    <3> QED BY <1>3, <3>1, <3>2
  <2> QED BY <2>1, <2>2, <2>3 DEF StaysInGroup
<1>8. ASSUME NEW x \in Reqs \ {r}, req'[x] = req[x] PROVE Admitted(req[x])'
  <2>1. Admitted(req[x])
    BY RequestTypes
  <2> QED BY <1>3, <1>8, <2>1 DEF Admitted, CodesInUse, Members
<1> QED BY <1>3, <1>5, <1>6, <1>7, <1>8, AnsweredRequests, OthersAdmitted DEF IInv

--------------------------------------------------------------------------------
(* The theorems *)

LEMMA InvInit == Init => IInv
<1> SUFFICES ASSUME Init PROVE IInv
  OBVIOUS
<1>1. \A r \in Reqs : req[r] = Idle
  BY DEF Init
<1>2. TypeOK
  BY IdleType DEF Init, TypeOK, Roles, Statuses
<1>3. CodesUnique /\ CreatorIsAdmin
  BY DEF Init, CodesUnique, CreatorIsAdmin
<1>4. StaysInGroup
  BY DEF Init, StaysInGroup
<1>5. \A r \in Reqs : Admitted(req[r])
  BY <1>1, IdleAdmitted
<1>6. InsertsDistinct
  BY <1>1 DEF InsertsDistinct, Inserted, Idle
<1> QED BY <1>2, <1>3, <1>4, <1>5, <1>6 DEF IInv

LEMMA InvNext == IInv /\ [Next]_vars => IInv'
<1> SUFFICES ASSUME IInv, [Next]_vars PROVE IInv'
  OBVIOUS
<1>1. ASSUME NEW r \in Reqs, Serve(r) PROVE IInv'
  BY <1>1, StepCreateGroup, StepCommitGroup, StepJoin, StepAddGroupMember,
     StepRegenerateInvite, StepUpdateGroupInviteCode, StepCreate, StepCreateConcert,
     StepListGroupMembers, StepCommitConcert, StepSet, StepUpsertRSVP, StepListRSVPs,
     StepCommitRSVP DEF Serve
<1>2. ASSUME NEW r \in Reqs, Abort(r) PROVE IInv'
  BY <1>2, StepAnswer DEF Abort
<1>3. CASE UNCHANGED vars
  BY <1>3 DEF vars, IInv, TypeOK, CodesUnique, CreatorIsAdmin, StaysInGroup, Members,
     Admitted, CodesInUse, InsertsDistinct, Inserted
<1> QED BY <1>1, <1>2, <1>3, StepReceive DEF Next

\* Whatever requests are in flight, what they have found out still holds when
\* they write.
THEOREM CoordinationInvariant == Spec => []IInv
  BY InvInit, InvNext, PTL DEF Spec

\* The rows keep their types.
THEOREM CoordinationTypeCorrect == Spec => []TypeOK
<1>1. IInv => TypeOK
  BY DEF IInv
<1> QED BY <1>1, CoordinationInvariant, PTL

\* A code opens one group at most (UNIQUE (invite_code), groups.go Create and
\* RegenerateInvite).
THEOREM CodesAlwaysUnique == Spec => []CodesUnique
<1>1. IInv => CodesUnique
  BY DEF IInv
<1> QED BY <1>1, CoordinationInvariant, PTL

\* The creator is the only admin of a group (groups.go Create and Join).
THEOREM CreatorAlwaysAdmin == Spec => []CreatorIsAdmin
<1>1. IInv => CreatorIsAdmin
  BY DEF IInv
<1> QED BY <1>1, CoordinationInvariant, PTL

\* Concerts, answers and notifications stay within the group (concerts.go Create
\* and Get, rsvps.go Set).
THEOREM AlwaysStaysInGroup == Spec => []StaysInGroup
<1>1. IInv => StaysInGroup
  BY DEF IInv
<1> QED BY <1>1, CoordinationInvariant, PTL

ReplacedByAdmin ==
  \A g \in DOMAIN groups : groups'[g].invite_code # groups[g].invite_code =>
    \E r \in Reqs : /\ req[r].group = g /\ req[r].user # Nil
                    /\ role[g][req[r].user] = "admin"

LEMMA ReplacedByAdminNext ==
  ASSUME IInv, Next PROVE ReplacedByAdmin
<1>1. ASSUME NEW r \in Reqs, UpdateGroupInviteCode(r) PROVE ReplacedByAdmin
  <2>1. /\ req[r].group \in DOMAIN groups /\ req[r].user \in Users
        /\ role[req[r].group][req[r].user] = "admin"
    BY <1>1, RequestTypes DEF UpdateGroupInviteCode, Admitted
  <2>2. req[r].user # Nil
    BY <2>1, CoordinationNilAssumption
  <2>3. \A g \in DOMAIN groups : g # req[r].group => groups'[g] = groups[g]
    BY <1>1 DEF UpdateGroupInviteCode
  <2> QED BY <2>1, <2>2, <2>3 DEF ReplacedByAdmin
<1>2. ASSUME NEW r \in Reqs, CommitGroup(r) PROVE ReplacedByAdmin
  <2>1. req[r].group \notin DOMAIN groups
    BY <1>2, RequestTypes DEF CommitGroup, Admitted
  <2>2. \A g \in DOMAIN groups : groups'[g] = groups[g]
    BY <1>2, <2>1 DEF CommitGroup
  <2> QED BY <2>2 DEF ReplacedByAdmin
<1>3. CASE UNCHANGED groups
  BY <1>3 DEF ReplacedByAdmin
<1>4. ASSUME NEW r \in Reqs, Serve(r) PROVE ReplacedByAdmin
  <2>1. \/ UpdateGroupInviteCode(r) \/ CommitGroup(r) \/ UNCHANGED groups
    BY <1>4 DEF Serve, CreateGroup, Join, AddGroupMember, RegenerateInvite, Create,
       CreateConcert, ListGroupMembers, CommitConcert, Set, UpsertRSVP,
       ListRSVPsForConcert, CommitRSVP, Gate, Rows
  <2> QED BY <2>1, <1>1, <1>2, <1>3
<1> QED BY <1>3, <1>4 DEF Next, Abort, Receive, Rows

\* An invite code is replaced only for the admin of the group, who still is it
\* when the UPDATE runs (groups.go RegenerateInvite).
THEOREM AdminAlwaysReplacesCode == Spec => AdminReplacesCode
<1>1. IInv /\ [Next]_vars => [ReplacedByAdmin]_vars
  BY ReplacedByAdminNext
<1> QED BY <1>1, CoordinationInvariant, PTL DEF Spec, AdminReplacesCode, ReplacedByAdmin

================================================================================
