------------------------------ MODULE Coordination ------------------------------
(***************************************************************************)
(* Groups, concerts and answers: service/groups.go, concerts.go, rsvps.go, *)
(* their handlers and their SQL.                                           *)
(*                                                                         *)
(* A request is served by a goroutine of some replica, one statement a     *)
(* step.  Transactions are READ COMMITTED: each statement sees what has    *)
(* been committed, and what the transaction itself has written, which is   *)
(* part of req[r] until its commit.  Nothing is ever removed from groups,  *)
(* members, concerts or answers.                                           *)
(***************************************************************************)
EXTENDS Naturals, FiniteSets

CONSTANTS
  Users,
  Groups,    \* uuids of groups
  Codes,     \* the invite codes newInviteCode draws from
  Concerts,  \* uuids of concerts
  Reqs,      \* the goroutines
  Nil

ASSUME CoordinationNilAssumption ==
  Nil \notin Users \cup Groups \cup Codes \cup Concerts

VARIABLES
  groups,         \* a function from the ids of the rows
  role,           \* group_members
  concerts,       \* a function from the ids of the rows
  rsvps,
  notifications,  \* history: what was ever enqueued and committed
  req,
  overlapped,     \* history: answers of yes whose transactions overlapped
  late            \* history: who joined when a concert had been inserted

vars == <<groups, role, concerts, rsvps, notifications, req, overlapped, late>>

--------------------------------------------------------------------------------
Roles == {"none", "member", "admin"}
Statuses == {"none", "yes", "no"}

Group == [invite_code : Codes, created_by : Users]
Concert == [group_id : Groups, created_by : Users]
Notification ==
  [type : {"concert_new", "rsvp_changed"}, concert : Concerts, from : Users, to : Users]

PCs == {"idle", "group", "groupCommit", "join", "joinAdd", "invite", "inviteWrite",
        "concert", "concertInsert", "concertList", "concertCommit",
        "rsvp", "rsvpUpsert", "rsvpList", "rsvpCommit"}

Request == [pc : PCs, user : Users \cup {Nil}, group : Groups \cup {Nil},
            code : Codes \cup {Nil}, concert : Concerts \cup {Nil},
            status : Statuses, rows : SUBSET Users]

Idle == [pc |-> "idle", user |-> Nil, group |-> Nil, code |-> Nil, concert |-> Nil,
         status |-> "none", rows |-> {}]

Goto(r, request) == req' = [req EXCEPT ![r] = request]
\* An answer is sent, a transaction that was not committed is rolled back.
Answer(r) == Goto(r, Idle)

History == <<overlapped, late>>
Rows == <<groups, role, concerts, rsvps, notifications>>

Members(g) == {u \in Users : role[g][u] # "none"}
YesResponders(c) == {u \in Users : rsvps[c][u] = "yes"}

\* The transactions that have inserted a concert, or answered yes.
Inserted(r) == req[r].pc \in {"concertList", "concertCommit"}
SaysYes(r) == req[r].pc \in {"rsvpList", "rsvpCommit"} /\ req[r].status = "yes"

Tell(type, c, u, to) ==
  {[type |-> type, concert |-> c, from |-> u, to |-> v] : v \in to}

--------------------------------------------------------------------------------
(* A request arrives.  Ids in paths may name nothing; a body that is refused  *)
(* (an empty name, a bad date, a status other than yes and no) ends it at once. *)
Receive(r, u) ==
  /\ req[r].pc = "idle"
  /\ \/ Goto(r, [Idle EXCEPT !.pc = "group", !.user = u])
     \/ \E k \in Codes : Goto(r, [Idle EXCEPT !.pc = "join", !.user = u, !.code = k])
     \/ \E g \in Groups, pc \in {"invite", "concert"} :
          Goto(r, [Idle EXCEPT !.pc = pc, !.user = u, !.group = g])
     \/ \E c \in Concerts, s \in {"yes", "no"} :
          Goto(r, [Idle EXCEPT !.pc = "rsvp", !.user = u, !.concert = c, !.status = s])
  /\ UNCHANGED <<Rows, History>>

\* The client disconnects or a statement fails.
Abort(r) == req[r].pc # "idle" /\ Answer(r) /\ UNCHANGED <<Rows, History>>

--------------------------------------------------------------------------------
(* GroupService *)

CodesInUse == {groups[g].invite_code : g \in DOMAIN groups}

\* An INSERT waits for another transaction that has inserted the same code.
AwaitsCode(r, k) == \E x \in Reqs \ {r} : req[x].pc = "groupCommit" /\ req[x].code = k

\* Fault: invite_code without UNIQUE.
CreateGroupTwice(r) ==
  /\ req[r].pc = "group"
  /\ \E k \in Codes : \E g \in Groups \ DOMAIN groups :
       /\ \A x \in Reqs : req[x].pc = "groupCommit" => req[x].group # g
       /\ Goto(r, [req[r] EXCEPT !.pc = "groupCommit", !.group = g, !.code = k])
  /\ UNCHANGED <<Rows, History>>

\* The row and its creator's membership; a code in use violates UNIQUE: 500.
CreateGroup(r) ==
  /\ req[r].pc = "group"
  /\ \E k \in Codes :
       /\ ~AwaitsCode(r, k)
       /\ \/ k \in CodesInUse /\ Answer(r)
          \/ /\ k \notin CodesInUse
             /\ \E g \in Groups \ DOMAIN groups :
                  /\ \A x \in Reqs : req[x].pc = "groupCommit" => req[x].group # g
                  /\ Goto(r, [req[r] EXCEPT !.pc = "groupCommit", !.group = g, !.code = k])
  /\ UNCHANGED <<Rows, History>>

\* Fault: a role the CHECK of the column does not know.
CommitGroupOwner(r) ==
  /\ req[r].pc = "groupCommit"
  /\ LET q == req[r] IN
     /\ groups' = [g \in DOMAIN groups \cup {q.group} |->
          IF g = q.group THEN [invite_code |-> q.code, created_by |-> q.user] ELSE groups[g]]
     /\ role' = [role EXCEPT ![q.group][q.user] = "owner"]
  /\ Answer(r)
  /\ UNCHANGED <<concerts, rsvps, notifications, History>>

CommitGroup(r) ==
  /\ req[r].pc = "groupCommit"
  /\ LET q == req[r] IN
     /\ groups' = [g \in DOMAIN groups \cup {q.group} |->
          IF g = q.group THEN [invite_code |-> q.code, created_by |-> q.user] ELSE groups[g]]
     /\ role' = [role EXCEPT ![q.group][q.user] = "admin"]
  /\ Answer(r)
  /\ UNCHANGED <<concerts, rsvps, notifications, History>>

\* GetGroupByInviteCode: 404 if no group has the code.
Join(r) ==
  /\ req[r].pc = "join"
  /\ \/ req[r].code \notin CodesInUse /\ Answer(r)
     \/ \E g \in DOMAIN groups :
          /\ groups[g].invite_code = req[r].code
          /\ Goto(r, [req[r] EXCEPT !.pc = "joinAdd", !.group = g])
  /\ UNCHANGED <<Rows, History>>

\* Whoever was no member when a concert was inserted may not be told of it.
JoinedLate(g, u) ==
  late' = late \cup
    {<<c, u>> : c \in {d \in DOMAIN concerts : concerts[d].group_id = g}
                      \cup {req[x].concert : x \in {y \in Reqs : Inserted(y) /\ req[y].group = g}}}

\* Fault: ON CONFLICT (group_id, user_id) DO UPDATE SET role.
AddGroupMemberUpserts(r) ==
  /\ req[r].pc = "joinAdd"
  /\ LET g == req[r].group  u == req[r].user IN
     /\ role' = [role EXCEPT ![g][u] = "member"]
     /\ IF role[g][u] = "none" THEN JoinedLate(g, u) ELSE UNCHANGED late
  /\ Answer(r)
  /\ UNCHANGED <<groups, concerts, rsvps, notifications, overlapped>>

\* ON CONFLICT DO NOTHING.  The code may have been replaced since it was read.
AddGroupMember(r) ==
  /\ req[r].pc = "joinAdd"
  /\ LET g == req[r].group  u == req[r].user IN
     IF role[g][u] = "none"
     THEN role' = [role EXCEPT ![g][u] = "member"] /\ JoinedLate(g, u)
     ELSE UNCHANGED <<role, late>>
  /\ Answer(r)
  /\ UNCHANGED <<groups, concerts, rsvps, notifications, overlapped>>

\* RequireMembership: 403, for a group that does not exist too.
Gate(r, pc, admitted, next) ==
  /\ req[r].pc = pc
  /\ \/ req[r].user \notin admitted /\ Answer(r)
     \/ req[r].user \in admitted /\ Goto(r, [req[r] EXCEPT !.pc = next])
  /\ UNCHANGED <<Rows, History>>

\* Fault: m.Role is not looked at.
RegenerateByMember(r) == Gate(r, "invite", Members(req[r].group), "inviteWrite")

RegenerateInvite(r) ==
  Gate(r, "invite", {u \in Users : role[req[r].group][u] = "admin"}, "inviteWrite")

UpdateGroupInviteCode(r) ==
  /\ req[r].pc = "inviteWrite"
  /\ \E k \in Codes :
       /\ ~AwaitsCode(r, k)
       /\ IF \E g \in DOMAIN groups \ {req[r].group} : groups[g].invite_code = k
          THEN UNCHANGED groups
          ELSE groups' = [groups EXCEPT ![req[r].group].invite_code = k]
  /\ Answer(r)
  /\ UNCHANGED <<role, concerts, rsvps, notifications, History>>

--------------------------------------------------------------------------------
(* ConcertService *)

Create(r) == Gate(r, "concert", Members(req[r].group), "concertInsert")

CreateConcert(r) ==
  /\ req[r].pc = "concertInsert"
  /\ \E c \in Concerts \ DOMAIN concerts :
       /\ \A x \in Reqs : Inserted(x) => req[x].concert # c
       /\ Goto(r, [req[r] EXCEPT !.pc = "concertList", !.concert = c])
  /\ UNCHANGED <<Rows, History>>

\* Fault: only those with role 'member' are listed.
ListPlainMembers(r) ==
  /\ req[r].pc = "concertList"
  /\ Goto(r, [req[r] EXCEPT !.pc = "concertCommit",
       !.rows = {u \in Users \ {req[r].user} : role[req[r].group][u] = "member"}])
  /\ UNCHANGED <<Rows, History>>

ListGroupMembers(r) ==
  /\ req[r].pc = "concertList"
  /\ Goto(r, [req[r] EXCEPT !.pc = "concertCommit",
                            !.rows = Members(req[r].group) \ {req[r].user}])
  /\ UNCHANGED <<Rows, History>>

CommitConcert(r) ==
  /\ req[r].pc = "concertCommit"
  /\ LET q == req[r] IN
     /\ concerts' = [c \in DOMAIN concerts \cup {q.concert} |->
          IF c = q.concert THEN [group_id |-> q.group, created_by |-> q.user] ELSE concerts[c]]
     /\ notifications' = notifications \cup Tell("concert_new", q.concert, q.user, q.rows)
  /\ Answer(r)
  /\ UNCHANGED <<groups, role, rsvps, History>>

--------------------------------------------------------------------------------
(* RSVPService *)

\* Fault: the concert is loaded without RequireMembership.
SetUngated(r) ==
  Gate(r, "rsvp", {u \in Users : req[r].concert \in DOMAIN concerts}, "rsvpUpsert")

\* ConcertService.Get: 404 or 403.
Set(r) ==
  Gate(r, "rsvp",
       {u \in Users : /\ req[r].concert \in DOMAIN concerts
                      /\ u \in Members(concerts[req[r].concert].group_id)},
       "rsvpUpsert")

\* Fault: only a first answer is announced, not one that has been changed.
UpsertRSVPFirst(r) ==
  /\ req[r].pc = "rsvpUpsert"
  /\ \A x \in Reqs \ {r} : req[x].pc \in {"rsvpList", "rsvpCommit"} =>
       <<req[x].concert, req[x].user>> # <<req[r].concert, req[r].user>>
  /\ Goto(r, [req[r] EXCEPT !.pc =
       IF req[r].status = "yes" /\ rsvps[req[r].concert][req[r].user] = "none"
       THEN "rsvpList" ELSE "rsvpCommit"])
  /\ overlapped' = IF req[r].status # "yes" THEN overlapped
       ELSE overlapped \cup {<<req[r].concert, {req[r].user, req[x].user}>> :
              x \in {y \in Reqs : SaysYes(y) /\ req[y].concert = req[r].concert}}
  /\ UNCHANGED <<Rows, late>>

\* The row is locked until the commit: the other answer of the same user waits.
UpsertRSVP(r) ==
  /\ req[r].pc = "rsvpUpsert"
  /\ \A x \in Reqs \ {r} : req[x].pc \in {"rsvpList", "rsvpCommit"} =>
       <<req[x].concert, req[x].user>> # <<req[r].concert, req[r].user>>
  /\ Goto(r, [req[r] EXCEPT !.pc = IF req[r].status = "yes" THEN "rsvpList"
                                   ELSE "rsvpCommit"])
  /\ overlapped' = IF req[r].status # "yes" THEN overlapped
       ELSE overlapped \cup {<<req[r].concert, {req[r].user, req[x].user}>> :
              x \in {y \in Reqs : SaysYes(y) /\ req[y].concert = req[r].concert}}
  /\ UNCHANGED <<Rows, late>>

ListRSVPsForConcert(r) ==
  /\ req[r].pc = "rsvpList"
  /\ Goto(r, [req[r] EXCEPT !.pc = "rsvpCommit",
                            !.rows = YesResponders(req[r].concert) \ {req[r].user}])
  /\ UNCHANGED <<Rows, History>>

CommitRSVP(r) ==
  /\ req[r].pc = "rsvpCommit"
  /\ LET q == req[r] IN
     /\ rsvps' = [rsvps EXCEPT ![q.concert][q.user] = q.status]
     /\ notifications' = notifications \cup
          Tell("rsvp_changed", q.concert, q.user, q.rows)
  /\ Answer(r)
  /\ UNCHANGED <<groups, role, concerts, History>>

--------------------------------------------------------------------------------
Serve(r) ==
  \/ CreateGroup(r) \/ CommitGroup(r) \/ Join(r) \/ AddGroupMember(r)
  \/ RegenerateInvite(r) \/ UpdateGroupInviteCode(r)
  \/ Create(r) \/ CreateConcert(r) \/ ListGroupMembers(r) \/ CommitConcert(r)
  \/ Set(r) \/ UpsertRSVP(r) \/ ListRSVPsForConcert(r) \/ CommitRSVP(r)

Init ==
  /\ groups = [g \in {} |-> Nil]
  /\ role = [g \in Groups |-> [u \in Users |-> "none"]]
  /\ concerts = [c \in {} |-> Nil]
  /\ rsvps = [c \in Concerts |-> [u \in Users |-> "none"]]
  /\ notifications = {}
  /\ req = [r \in Reqs |-> Idle]
  /\ overlapped = {}
  /\ late = {}

Next == \E r \in Reqs : Serve(r) \/ Abort(r) \/ \E u \in Users : Receive(r, u)

Spec == Init /\ [][Next]_vars

--------------------------------------------------------------------------------
(* Properties *)

TypeOK ==
  /\ DOMAIN groups \subseteq Groups /\ groups \in [DOMAIN groups -> Group]
  /\ role \in [Groups -> [Users -> Roles]]
  /\ DOMAIN concerts \subseteq Concerts /\ concerts \in [DOMAIN concerts -> Concert]
  /\ rsvps \in [Concerts -> [Users -> Statuses]]
  /\ notifications \subseteq Notification
  /\ req \in [Reqs -> Request]
  /\ overlapped \subseteq Concerts \X SUBSET Users
  /\ late \subseteq Concerts \X Users

\* A code opens one group at most, whichever groups are created and whichever
\* codes are replaced at the same time.
CodesUnique ==
  \A g, h \in DOMAIN groups : groups[g].invite_code = groups[h].invite_code => g = h

\* A group has its creator for admin from the moment anyone sees it, also when
\* the creator joins it again by its code, and nobody else becomes one.
CreatorIsAdmin ==
  \A g \in Groups : {u \in Users : role[g][u] = "admin"} =
    IF g \in DOMAIN groups THEN {groups[g].created_by} ELSE {}

\* A code is replaced only for somebody who is admin of that group when it is.
AdminReplacesCode == [][ \A g \in DOMAIN groups :
  groups'[g].invite_code # groups[g].invite_code =>
    \E r \in Reqs : /\ req[r].group = g /\ req[r].user # Nil
                    /\ role[g][req[r].user] = "admin" ]_vars

\* Concerts, answers and notifications stay within the group: only members plan
\* and answer, and what is enqueued goes to other members.
StaysInGroup ==
  /\ \A c \in DOMAIN concerts : concerts[c].created_by \in Members(concerts[c].group_id)
  /\ \A c \in Concerts, u \in Users : rsvps[c][u] # "none" =>
       c \in DOMAIN concerts /\ u \in Members(concerts[c].group_id)
  /\ \A n \in notifications :
       /\ n.concert \in DOMAIN concerts /\ n.from # n.to
       /\ {n.from, n.to} \subseteq Members(concerts[n.concert].group_id)

Told(type, c, u, v) == Tell(type, c, u, {v}) \subseteq notifications

\* Every member who was one when a concert was inserted is told of it.
MembersAnnounced ==
  \A c \in DOMAIN concerts :
    \A u \in Members(concerts[c].group_id) \ {concerts[c].created_by} :
      Told("concert_new", c, concerts[c].created_by, u) \/ <<c, u>> \in late

\* Of two members one was told of the other, or they answered at the same moment.
Informed(c, u, v) ==
  \/ Told("rsvp_changed", c, u, v) \/ Told("rsvp_changed", c, v, u)
  \/ <<c, {u, v}>> \in overlapped

\* Of two members who are coming, one has been told of the other, however often
\* they changed their minds, unless they answered at the same moment.
CoAttendeesTold ==
  \A c \in Concerts : \A u, v \in YesResponders(c) : u = v \/ Informed(c, u, v)

--------------------------------------------------------------------------------
(* What the safety properties rest on *)

\* What a request has found out before it writes still holds when it does: groups
\* and concerts are never removed, memberships never end, the creator stays the
\* admin, and what a transaction has inserted nobody else can insert.
Admitted(q) ==
  /\ q.pc # "idle" => q.user \in Users
  /\ q.pc \in {"invite", "concert"} => q.group \in Groups
  /\ q.pc = "groupCommit" =>
       q.group \in Groups \ DOMAIN groups /\ q.code \in Codes \ CodesInUse
  /\ q.pc = "joinAdd" => q.group \in DOMAIN groups
  /\ q.pc = "inviteWrite" =>
       q.group \in DOMAIN groups /\ role[q.group][q.user] = "admin"
  /\ q.pc \in {"concertInsert", "concertList", "concertCommit"} =>
       q.group \in Groups /\ q.user \in Members(q.group)
  /\ q.pc \in {"concertList", "concertCommit"} => q.concert \in Concerts \ DOMAIN concerts
  /\ q.pc = "concertCommit" => q.rows \subseteq Members(q.group) \ {q.user}
  /\ q.pc = "rsvp" => q.concert \in Concerts /\ q.rows = {}
  /\ q.pc \in {"rsvpUpsert", "rsvpList", "rsvpCommit"} =>
       /\ q.concert \in DOMAIN concerts
       /\ q.user \in Members(concerts[q.concert].group_id)
       /\ q.rows \subseteq Members(concerts[q.concert].group_id) \ {q.user}

\* Uncommitted rows do not clash: gen_random_uuid(), and UNIQUE (invite_code).
InsertsDistinct ==
  \A x, y \in Reqs : x # y =>
    /\ req[x].pc = "groupCommit" /\ req[y].pc = "groupCommit" =>
         req[x].group # req[y].group /\ req[x].code # req[y].code
    /\ Inserted(x) /\ Inserted(y) => req[x].concert # req[y].concert

\* The inductive invariant.
IInv ==
  /\ TypeOK
  /\ CodesUnique
  /\ CreatorIsAdmin
  /\ StaysInGroup
  /\ \A r \in Reqs : Admitted(req[r])
  /\ InsertsDistinct

\* A request that is about to announce a concert has listed every member, but for
\* those who have joined since it inserted the concert.
Announcing ==
  /\ \A g \in Groups \ DOMAIN groups : Members(g) = {}
  /\ \A r \in Reqs : req[r].pc = "concertCommit" =>
       \A u \in Members(req[r].group) \ {req[r].user} :
         u \in req[r].rows \/ <<req[r].concert, u>> \in late

\* Of two answers of yes at the same moment both are marked, whoever commits first;
\* one that is about to commit has listed all that were committed before it began.
AnswersSeen ==
  /\ \A x, y \in Reqs : x # y /\ SaysYes(x) /\ SaysYes(y) /\ req[x].concert = req[y].concert =>
       <<req[x].concert, {req[x].user, req[y].user}>> \in overlapped
  /\ \A r \in Reqs : req[r].pc = "rsvpCommit" /\ req[r].status = "yes" =>
       \A v \in YesResponders(req[r].concert) \ {req[r].user} :
         v \in req[r].rows \/ Informed(req[r].concert, req[r].user, v)

\* What nobody is left out by, inductive together with IInv.
NInv == MembersAnnounced /\ CoAttendeesTold /\ Announcing /\ AnswersSeen

--------------------------------------------------------------------------------
(* What the design says and the code does not do *)

\* cycle 3 design: "when a user sets yes: one rsvp_changed row per other
\* yes-responder of that concert".  Two transactions that overlap do not see each
\* other's answer, and neither member is told.
OneOfTwoTold ==
  \A c \in Concerts : \A u, v \in YesResponders(c) :
    u = v \/ Told("rsvp_changed", c, u, v) \/ Told("rsvp_changed", c, v, u)

================================================================================
