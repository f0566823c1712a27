------------------------------- MODULE WebProofs -------------------------------
(***************************************************************************)
(* Proofs about Web for every set of users, calls, endpoints and chains:   *)
(* the inductive invariant WebInv, and what follows from it.               *)
(*                                                                         *)
(* The calls of the page are followed one step at a time (Others, Turns),  *)
(* the rest of the accounts by the lemmas of AccountsProofs.               *)
(***************************************************************************)
EXTENDS Web, AccountsProofs

\* Slot k alone is used.
Others(k) ==
  /\ calls' \in [Calls -> Call \cup {Nil}]
  /\ \A j \in Calls \ {k} : calls'[j] = calls[j]

\* What the page asks with the cookie that the browser holds afterwards.
Asks(k, op) ==
  /\ calls'[k] # Nil
  /\ calls'[k] = Request(op, Browser, jar'[Browser], Nil, Nil)

\* What becomes of a call when the page does something.
Turns(k) ==
  \/ calls'[k] = Nil
  \/ calls'[k] = calls[k]
  \/ Asks(k, "me")
  \/ Asks(k, "groups")

\* Nobody else makes a call of the page or changes what it asked, nor takes a
\* me() or a fetch away from it.
Own(j) == calls[j] # Nil /\ calls[j].from = Browser
Reads(j) == Own(j) /\ calls[j].op \in {"me", "groups"}

SameCall(j) ==
  /\ calls'[j] # Nil /\ calls'[j].from = Browser => Own(j)
  /\ calls'[j] # Nil /\ Own(j) =>
       /\ calls'[j].from = Browser /\ calls'[j].op = calls[j].op
       /\ calls'[j].cookie = calls[j].cookie
  /\ Reads(j) => calls'[j] # Nil

--------------------------------------------------------------------------------
(* Calls and the jar *)

LEMMA CallTypes ==
  ASSUME AInv
  PROVE  /\ calls \in [Calls -> Call \cup {Nil}]
         /\ jar \in [Clients -> Token \cup {Nil}]
         /\ Browser \in Clients /\ jar[Browser] \in Token \cup {Nil}
         /\ now \in Nat
BY BrowserAssumption, ClockAssumption DEF AInv, AccountsTypeOK

LEMMA RequestIsCall ==
  ASSUME NEW op \in {"me", "groups"}, NEW cookie \in Token \cup {Nil}
  PROVE  /\ Request(op, Browser, cookie, Nil, Nil) \in Call
         /\ Request(op, Browser, cookie, Nil, Nil) # Nil
<1>1. 0 \in Statuses /\ op \in LoginOps \cup GatedOps
  BY DEF Statuses, GatedOps
<1>2. Request(op, Browser, cookie, Nil, Nil) \in Call
  BY <1>1, BrowserAssumption DEF Request, Call
<1> QED
  BY <1>2, NoCallAssumption

\* A session that has expired never becomes valid again.
LEMMA Expired ==
  ASSUME NEW t \in Token \cup {Nil}, ~Valid(t), now \in Nat, now' \in Nat, now' >= now
  PROVE  ~(t # Nil /\ now' < t.exp)
<1>1. CASE t = Nil
  BY <1>1
<1>2. CASE t # Nil
  <2>1. t.exp \in Nat
    BY <1>2 DEF Token
  <2>2. ~(now < t.exp)
    BY <1>2 DEF Valid
  <2> QED
    BY <2>1, <2>2
<1> QED
  BY <1>1, <1>2

\* What the page asks is a sound call, and not answered yet.
LEMMA AsksSound ==
  ASSUME NEW k \in Calls, NEW op \in {"me", "groups"}, Asks(k, op),
         jar'[Browser] \in Token \cup {Nil}
  PROVE  /\ calls'[k] \in Call /\ calls'[k] # Nil
         /\ calls'[k].op = op /\ calls'[k].from = Browser
         /\ calls'[k].cookie = jar'[Browser]
         /\ calls'[k].token = Nil /\ calls'[k].status = 0
         /\ calls'[k].op \notin LoginOps
<1>1. calls'[k] = Request(op, Browser, jar'[Browser], Nil, Nil)
  BY DEF Asks
<1> QED
  BY <1>1, RequestIsCall DEF Request, LoginOps, Asks

\* A step of the page leaves the accounts sound, and the answers true.
LEMMA TurnsSound ==
  ASSUME AInv, GatedAnswers, UNCHANGED <<users, now, enrolled>>,
         calls' = [j \in Calls |-> calls'[j]], \A j \in Calls : Turns(j),
         jar' \in [Clients -> Token \cup {Nil}], \A c \in Clients : Genuine(jar'[c])
  PROVE  AInv' /\ GatedAnswers' /\ calls' \in [Calls -> Call \cup {Nil}]
<1>1. jar'[Browser] \in Token \cup {Nil} /\ Genuine(jar'[Browser])
  BY BrowserAssumption
<1>2. \A j \in Calls : \/ calls'[j] = Nil
                       \/ calls'[j] = calls[j]
                       \/ /\ calls'[j] \in Call /\ calls'[j] # Nil
                          /\ calls'[j].cookie = jar'[Browser]
                          /\ calls'[j].token = Nil /\ calls'[j].status = 0
                          /\ calls'[j].op \notin LoginOps
  BY <1>1, AsksSound DEF Turns
<1>3. \A j \in Calls : calls'[j] \in Call \cup {Nil}
  BY <1>2, CallTypes
<1>4. calls' \in [Calls -> Call \cup {Nil}]
  BY <1>3
<1>5. \A j \in Calls : calls'[j] # Nil /\ calls'[j].op \in LoginOps =>
        [op |-> calls'[j].op, cred |-> calls'[j].cred, name |-> calls'[j].name] \in Attempts
  BY <1>2 DEF AInv, CallsAttempted
<1>6. \A j \in Calls : calls'[j] # Nil =>
        Genuine(calls'[j].token) /\ Genuine(calls'[j].cookie)
  BY <1>1, <1>2 DEF AInv, SessionsByCredential, Genuine
<1>7. AInv'
  BY <1>4, <1>5, <1>6, TransportSound
<1>8. GatedAnswers'
  BY <1>2 DEF GatedAnswers, Valid
<1> QED
  BY <1>4, <1>7, <1>8

--------------------------------------------------------------------------------
(* The server and the other clients *)

\* An answer keeps what was asked.
LEMMA AnswerKeeps ==
  ASSUME AInv, NEW k \in Calls, calls[k] # Nil,
         \/ \E st : Reply(k, st)
         \/ \E st, u, cred : ReplySession(k, st, u, cred)
  PROVE  /\ calls'[k].op = calls[k].op /\ calls'[k].from = calls[k].from
         /\ calls'[k].cookie = calls[k].cookie
<1>1. calls \in [Calls -> Call \cup {Nil}] /\ calls[k] \in Call
  BY CallTypes
<1>2. ASSUME NEW st, Reply(k, st)
      PROVE  calls' = [calls EXCEPT ![k] = [calls[k] EXCEPT !.status = st]]
  BY <1>1, <1>2 DEF Reply
<1>3. ASSUME NEW st, NEW u, NEW tok
      PROVE  LET new == [calls[k] EXCEPT !.status = st, !.user = u, !.token = tok] IN
             /\ new.op = calls[k].op /\ new.from = calls[k].from
             /\ new.cookie = calls[k].cookie
  BY <1>1 DEF Call
<1>4. CASE \E st : Reply(k, st)
  BY <1>1, <1>2, <1>4 DEF Call
<1>5. CASE \E st, u, cred : ReplySession(k, st, u, cred)
  <2>1. PICK st, u, cred : ReplySession(k, st, u, cred)
    BY <1>5
  <2>2. \E tok : calls'[k] = [calls[k] EXCEPT !.status = st, !.user = u, !.token = tok]
    BY <1>1, <2>1 DEF ReplySession
  <2> QED
    BY <1>3, <2>2
<1> QED
  BY <1>4, <1>5

\* What SessionMiddleware answers.
LEMMA GatedKeeps ==
  ASSUME AInv, NEW k \in Calls, Gated(k)
  PROVE  /\ UNCHANGED <<jar, now>> /\ calls[k] # Nil /\ calls'[k] # Nil
         /\ calls'[k].op = calls[k].op /\ calls'[k].from = calls[k].from
         /\ calls'[k].cookie = calls[k].cookie
         /\ \/ calls'[k].status = 401 /\ ~Valid(calls[k].cookie)
            \/ /\ calls'[k].status \in {200, 204}
               /\ calls[k].op # "logout" => calls'[k].status = 200
               /\ calls'[k].user = calls[k].cookie.user /\ calls[k].cookie # Nil
<1> DEFINE st == IF calls[k].op = "logout" THEN 204 ELSE 200
           new == [calls[k] EXCEPT !.status = st, !.user = calls[k].cookie.user]
<1>1. /\ calls[k] # Nil /\ calls[k] \in Call /\ calls \in [Calls -> Call \cup {Nil}]
      /\ UNCHANGED <<jar, now>>
  BY CallTypes DEF Gated, Pending
<1>2. CASE ~Valid(calls[k].cookie) /\ Reply(k, 401)
  <2>1. [calls[k] EXCEPT !.status = 401] \in Call
    BY <1>1 DEF Call, Statuses
  <2>2. calls'[k] = [calls[k] EXCEPT !.status = 401]
    BY <1>1, <1>2 DEF Reply
  <2> QED
    BY <1>1, <1>2, <2>1, <2>2, NoCallAssumption DEF Call
<1>3. CASE Valid(calls[k].cookie) /\ calls' = [calls EXCEPT ![k] = new]
  <2>1. /\ calls[k].cookie \in Token /\ calls[k].cookie # Nil
        /\ st \in Statuses /\ st \in {200, 204} /\ (calls[k].op # "logout" => st = 200)
    BY <1>1, <1>3 DEF Valid, Call, Statuses
  <2>2. calls[k].cookie.user \in UserIds
    BY <2>1 DEF Token
  <2> HIDE DEF st
  <2>3. new \in Call /\ calls'[k] = new
    <3>1. new \in Call
      BY <1>1, <2>1, <2>2 DEF Call
    <3> QED
      BY <1>1, <1>3, <3>1
  <2>4. /\ new.op = calls[k].op /\ new.from = calls[k].from
        /\ new.cookie = calls[k].cookie /\ new.status = st
        /\ new.user = calls[k].cookie.user
    BY <1>1 DEF Call
  <2> HIDE DEF new
  <2> QED
    BY <1>1, <2>1, <2>3, <2>4, NoCallAssumption
<1> QED
  BY <1>1, <1>2, <1>3 DEF Gated

\* A handler answers one call, and keeps what was asked.
LEMMA HandleKeeps ==
  ASSUME AInv, GatedAnswers, NEW k \in Calls, Handle(k)
  PROVE  /\ UNCHANGED <<jar, now>>
         /\ \A j \in Calls : SameCall(j)
         /\ GatedAnswers'
<1>1. \A j \in Calls \ {k} : calls'[j] = calls[j]
  BY OwnCallOnly
<1>2. CASE Gated(k)
  <2>1. \A j \in Calls : SameCall(j)
    BY <1>1, <1>2, GatedKeeps DEF SameCall, Own, Reads
  <2>2. GatedAnswers'
    BY <1>1, <1>2, GatedKeeps DEF GatedAnswers, Valid
  <2> QED
    BY <1>2, <2>1, <2>2, GatedKeeps
<1>3. CASE Register(k) \/ LoginWithPassword(k) \/ LoginWithIDToken(k) \/ DevLogin(k)
  <2>1. /\ UNCHANGED <<jar, now>> /\ calls[k] # Nil
        /\ calls[k].op \in {"register", "login", "oidc", "dev"}
        /\ (\E st : Reply(k, st)) \/ \E st, u, cred : ReplySession(k, st, u, cred)
    BY <1>3 DEF Register, LoginWithPassword, LoginWithIDToken, DevLogin, Pending
  <2>2. /\ calls'[k].op = calls[k].op /\ calls'[k].from = calls[k].from
        /\ calls'[k].cookie = calls[k].cookie
    BY <2>1, AnswerKeeps
  <2>3. \A j \in Calls : SameCall(j)
    BY <1>1, <2>1, <2>2 DEF SameCall, Own, Reads
  <2>4. GatedAnswers'
    BY <1>1, <2>1, <2>2 DEF GatedAnswers, Valid
  <2> QED
    BY <2>1, <2>3, <2>4
<1> QED
  BY <1>2, <1>3 DEF Handle

LEMMA ElsewhereKeeps ==
  ASSUME AInv, GatedAnswers, Elsewhere
  PROVE  /\ AInv' /\ GatedAnswers'
         /\ jar'[Browser] = jar[Browser] /\ now' \in Nat /\ now' >= now
         /\ \A j \in Calls : SameCall(j)
         /\ UNCHANGED pageVars
<1>1. AInv' /\ UNCHANGED pageVars
  BY StepSound DEF Elsewhere, AccountsNext
<1>2. now \in Nat /\ now' \in Nat /\ jar \in [Clients -> Token \cup {Nil}]
      /\ calls \in [Calls -> Call \cup {Nil}] /\ Browser \in Clients
  BY <1>1, CallTypes, ClockAssumption DEF AInv, AccountsTypeOK
<1>3. CASE \E k \in Calls : Handle(k)
  BY <1>1, <1>2, <1>3, HandleKeeps
<1>4. CASE \E k \in Calls : ~Mine(k, LoginOps \cup GatedOps) /\ (Arrive(k) \/ Lose(k))
  <2>1. PICK k \in Calls : ~Mine(k, LoginOps \cup GatedOps) /\ (Arrive(k) \/ Lose(k))
    BY <1>4
  <2>2. calls[k] # Nil /\ calls[k] \in Call
    BY <1>2, <2>1 DEF Arrive, Lose, Answered
  <2>3. calls[k].from # Browser /\ calls[k].from \in Clients
    BY <2>1, <2>2 DEF Mine, Call
  <2>4. calls' = [calls EXCEPT ![k] = Nil] /\ now' = now
    BY <2>1 DEF Arrive, Lose
  <2>5. jar'[Browser] = jar[Browser]
    BY <1>2, <2>1, <2>3 DEF Arrive, Lose, JarAfter
  <2>6. \A j \in Calls : calls'[j] \in {calls[j], Nil} /\ (j # k => calls'[j] = calls[j])
    BY <1>2, <2>4
  <2>7. \A j \in Calls : SameCall(j)
    BY <2>3, <2>6 DEF SameCall, Own, Reads
  <2>8. GatedAnswers'
    BY <2>4, <2>6 DEF GatedAnswers, Valid
  <2> QED
    BY <1>1, <1>2, <2>4, <2>5, <2>7, <2>8
<1>5. CASE \E k \in Calls, c \in Clients \ {Browser} : Send(k, c)
  <2>1. PICK k \in Calls, c \in Clients \ {Browser} : Send(k, c)
    BY <1>5
  <2>2. PICK op, cred, name : Post(k, op, c, cred, name)
    BY <2>1 DEF Send
  <2>3. /\ calls[k] = Nil /\ calls'[k] = Request(op, c, jar[c], cred, name)
        /\ \A j \in Calls \ {k} : calls'[j] = calls[j]
        /\ UNCHANGED <<jar, now>>
    BY <1>2, <2>2 DEF Post
  <2>4. calls'[k].from = c /\ calls'[k].status = 0
    BY <2>3 DEF Request
  <2>5. \A j \in Calls : SameCall(j)
    BY <2>1, <2>3, <2>4 DEF SameCall, Own, Reads
  <2>6. GatedAnswers'
    BY <2>3, <2>4 DEF GatedAnswers, Valid
  <2> QED
    BY <1>1, <1>2, <2>3, <2>5, <2>6
<1>6. CASE Tick
  <2>1. now' = now + 1 /\ UNCHANGED <<jar, calls>>
    BY <1>6 DEF Tick
  <2>2. now' >= now
    BY <1>2, <2>1
  <2>3. GatedAnswers'
    <3> SUFFICES ASSUME NEW k \in Calls, calls[k] # Nil, calls[k].op \in {"me", "groups"},
                        calls[k].status = 401
                 PROVE  ~(calls[k].cookie # Nil /\ now' < calls[k].cookie.exp)
      BY <2>1 DEF GatedAnswers, Valid
    <3>1. calls[k].cookie \in Token \cup {Nil}
      BY <1>2 DEF Call
    <3>2. ~Valid(calls[k].cookie)
      BY DEF GatedAnswers
    <3> QED
      BY <1>2, <2>2, <3>1, <3>2, Expired
  <2>4. \A j \in Calls : SameCall(j)
    BY <2>1 DEF SameCall, Own, Reads
  <2> QED
    BY <1>1, <1>2, <2>1, <2>2, <2>3, <2>4
<1> QED
  BY <1>3, <1>4, <1>5, <1>6 DEF Elsewhere

\* The same calls are under way.
LEMMA SameUnderWay ==
  ASSUME \A j \in Calls : SameCall(j)
  PROVE  /\ UnderWay({"me"})' = UnderWay({"me"})
         /\ UnderWay({"groups"})' = UnderWay({"groups"})
         /\ UnderWay({"me", "groups"})' = UnderWay({"me", "groups"})
         /\ UnderWay(LoginOps \cup GatedOps)' \subseteq UnderWay(LoginOps \cup GatedOps)
         /\ \A j \in UnderWay({"me", "groups"}) : calls'[j].cookie = calls[j].cookie
<1>1. \A j \in Calls : Mine(j, {"me"})' <=> Mine(j, {"me"})
  BY DEF SameCall, Own, Reads, Mine
<1>2. \A j \in Calls : Mine(j, {"groups"})' <=> Mine(j, {"groups"})
  BY DEF SameCall, Own, Reads, Mine
<1>3. \A j \in Calls : Mine(j, {"me", "groups"})' <=> Mine(j, {"me", "groups"})
  BY DEF SameCall, Own, Reads, Mine
<1>4. \A j \in Calls : Mine(j, LoginOps \cup GatedOps)' => Mine(j, LoginOps \cup GatedOps)
  BY DEF SameCall, Own, Reads, Mine
<1>5. \A j \in UnderWay({"me", "groups"}) : calls'[j].cookie = calls[j].cookie
  BY DEF SameCall, Own, Reads, UnderWay, Mine
<1> QED
  BY <1>1, <1>2, <1>3, <1>4, <1>5 DEF UnderWay

\* What is shown, known and under way stays the same.
LEMMA PageKept ==
  ASSUME PageInv, AInv', GatedAnswers', UNCHANGED pageVars,
         jar'[Browser] = jar[Browser], now' \in Nat, now' >= now,
         UnderWay({"me"})' = UnderWay({"me"}),
         UnderWay({"groups"})' = UnderWay({"groups"}),
         UnderWay({"me", "groups"})' = UnderWay({"me", "groups"}),
         page.route # "closed" \/
           UnderWay(LoginOps \cup GatedOps)' \subseteq UnderWay(LoginOps \cup GatedOps),
         \A j \in UnderWay({"me", "groups"}) : calls'[j].cookie = calls[j].cookie
  PROVE  PageInv'
<1>1. /\ page' = page /\ cache' = cache /\ excuses' = excuses
      /\ Shows(page)' = Shows(page)
  BY DEF pageVars, Shows
<1>2. PageTypeOK'
  BY <1>1 DEF PageInv, PageTypeOK
<1>3. ClosedQuiet'
  BY <1>1 DEF PageInv, ClosedQuiet
<1>4. \A j \in UnderWay({"me"}) \cup UnderWay({"groups"}) :
        calls'[j].cookie = calls[j].cookie
  BY DEF UnderWay, Mine
<1>5. MeInStep'
  BY <1>1, <1>4 DEF PageInv, MeInStep
<1>6. FetchInStep'
  BY <1>1, <1>4 DEF PageInv, FetchInStep
<1>7. PageKnowsUser'
  <2>1. jar[Browser] \in Token \cup {Nil} /\ now \in Nat
    BY CallTypes DEF PageInv
  <2>2. ~Valid(jar[Browser]) => ~Valid(jar[Browser])'
    BY <2>1, Expired DEF Valid
  <2> QED
    BY <1>1, <2>2 DEF PageInv, PageKnowsUser
<1>8. OwnGroupsShown'
  BY <1>1 DEF PageInv, OwnGroupsShown
<1> QED
  BY <1>2, <1>3, <1>5, <1>6, <1>7, <1>8 DEF PageInv

LEMMA ElsewhereSound == PageInv /\ Elsewhere => PageInv'
<1> SUFFICES ASSUME PageInv, Elsewhere PROVE PageInv'
  OBVIOUS
<1>1. AInv /\ GatedAnswers
  BY DEF PageInv
<1> QED
  BY <1>1, ElsewhereKeeps, SameUnderWay, PageKept

--------------------------------------------------------------------------------
(* The steps of the page *)

\* The slot of a call of the page is used for nothing else, or for asking again.
LEMMA FreedUnderWay ==
  ASSUME NEW k \in Calls, Others(k), calls'[k] = Nil
  PROVE  /\ UnderWay({"me"})' = UnderWay({"me"}) \ {k}
         /\ UnderWay({"groups"})' = UnderWay({"groups"}) \ {k}
         /\ UnderWay({"me", "groups"})' = UnderWay({"me", "groups"}) \ {k}
         /\ UnderWay(LoginOps \cup GatedOps)' \subseteq UnderWay(LoginOps \cup GatedOps)
BY DEF Others, UnderWay, Mine

LEMMA AskedUnderWay ==
  ASSUME NEW k \in Calls, Others(k), NEW op \in {"me", "groups"}, Asks(k, op),
         jar'[Browser] \in Token \cup {Nil}
  PROVE  /\ op = "me" => /\ UnderWay({"me"})' = UnderWay({"me"}) \cup {k}
                         /\ UnderWay({"groups"})' = UnderWay({"groups"}) \ {k}
         /\ op = "groups" => /\ UnderWay({"me"})' = UnderWay({"me"}) \ {k}
                             /\ UnderWay({"groups"})' = UnderWay({"groups"}) \cup {k}
         /\ k \in UnderWay({"me", "groups"})'
         /\ calls'[k].cookie = jar'[Browser]
<1>1. /\ calls'[k] # Nil /\ calls'[k].op = op /\ calls'[k].from = Browser
      /\ calls'[k].cookie = jar'[Browser]
  BY AsksSound
<1> QED
  BY <1>1 DEF Others, UnderWay, Mine

\* One slot is used, and no session changes hands.
LEMMA SlotSound ==
  ASSUME AInv, GatedAnswers, NEW k \in Calls, NEW new,
         new \in {Nil, Ask("me"), Ask("groups")},
         calls' = [calls EXCEPT ![k] = new], UNCHANGED <<users, jar, now, enrolled>>
  PROVE  /\ AInv' /\ GatedAnswers' /\ Others(k)
         /\ new = Nil => calls'[k] = Nil
         /\ new = Ask("me") => Asks(k, "me")
         /\ new = Ask("groups") => Asks(k, "groups")
<1>1. /\ calls \in [Calls -> Call \cup {Nil}] /\ jar \in [Clients -> Token \cup {Nil}]
      /\ jar[Browser] \in Token \cup {Nil}
  BY CallTypes
<1>2. /\ calls'[k] = new /\ calls' = [j \in Calls |-> calls'[j]]
      /\ \A j \in Calls \ {k} : calls'[j] = calls[j]
  BY <1>1
<1>3. /\ new = Nil => calls'[k] = Nil
      /\ new = Ask("me") => Asks(k, "me")
      /\ new = Ask("groups") => Asks(k, "groups")
  BY <1>1, <1>2, RequestIsCall DEF Asks, Ask
<1>4. \A j \in Calls : Turns(j)
  BY <1>2, <1>3 DEF Turns
<1>5. \A c \in Clients : Genuine(jar'[c])
  BY DEF AInv, SessionsByCredential
<1> QED
  BY <1>1, <1>2, <1>3, <1>4, <1>5, TurnsSound DEF Others

LEMMA Rendered ==
  ASSUME AInv, GatedAnswers, NEW k \in Calls, NEW p, NEW why, Render(k, p, why, Nil),
         UNCHANGED <<users, jar, now, enrolled>>
  PROVE  /\ AInv' /\ GatedAnswers' /\ Others(k) /\ page' = p
         /\ excuses' \cap {"raced", "lost"} = why \cap {"raced", "lost"}
         /\ excuses' \subseteq why \cup {"joined"}
         /\ UnderWay({"me"})' = UnderWay({"me"}) \ {k}
         /\ \/ /\ UnderWay({"groups"})' = {k} /\ calls'[k].cookie = jar[Browser]
               /\ k \in UnderWay({"me", "groups"})'
            \/ /\ UnderWay({"groups"})' = UnderWay({"groups"}) \ {k}
               /\ UnderWay({"me", "groups"})' = UnderWay({"me", "groups"}) \ {k}
               /\ Shows(p) => "joined" \in excuses' \/ (Shows(page) /\ excuses' = why)
<1> DEFINE mounts == Shows(p) /\ ~Shows(page)
           fetching == UnderWay({"groups"}) # {}
           new == IF mounts /\ ~fetching THEN Ask("groups") ELSE Nil
<1>1. /\ page' = p /\ calls' = [calls EXCEPT ![k] = new]
      /\ excuses' = IF ~mounts THEN why ELSE IF fetching THEN why \cup {"joined"}
                    ELSE why \ {"joined", "gaveUp"}
  BY DEF Render
<1>2. jar'[Browser] \in Token \cup {Nil}
  BY CallTypes
<1>3. new \in {Nil, Ask("me"), Ask("groups")}
  OBVIOUS
<1>4. /\ AInv' /\ GatedAnswers' /\ Others(k)
      /\ new = Nil => calls'[k] = Nil
      /\ new = Ask("groups") => Asks(k, "groups")
  <2> HIDE DEF new
  <2> QED
    BY <1>1, <1>3, SlotSound
<1>5. CASE mounts /\ ~fetching
  <2>1. Asks(k, "groups")
    BY <1>4, <1>5
  <2> QED
    BY <1>1, <1>2, <1>4, <1>5, <2>1, AskedUnderWay
<1>6. CASE ~(mounts /\ ~fetching)
  <2>1. calls'[k] = Nil
    BY <1>4, <1>6
  <2> QED
    BY <1>1, <1>4, <1>6, <2>1, FreedUnderWay
<1> QED
  BY <1>5, <1>6

\* The types of what is under way and of the page.
LEMMA PageTypes ==
  ASSUME PageInv
  PROVE  /\ AInv /\ GatedAnswers
         /\ calls \in [Calls -> Call \cup {Nil}] /\ jar \in [Clients -> Token \cup {Nil}]
         /\ jar[Browser] \in Token \cup {Nil}
         /\ page \in Page /\ excuses \subseteq Excuses
BY CallTypes DEF PageInv, PageTypeOK

\* Whoever gave the answer that is on its way to the page.
LEMMA AnsweredRight ==
  ASSUME PageInv, NEW k \in UnderWay({"me", "groups"}), Answered(k)
  PROVE  \/ /\ calls[k].status = 200 /\ calls[k].cookie # Nil
            /\ calls[k].user = calls[k].cookie.user /\ calls[k].user \in UserIds
         \/ calls[k].status # 200 /\ ~Valid(calls[k].cookie)
<1>1. calls[k] # Nil /\ calls[k].op \in {"me", "groups"} /\ calls[k].status # 0
  BY DEF UnderWay, Mine, Answered
<1>2. k \in Calls /\ calls[k].cookie \in Token \cup {Nil}
  BY <1>1, PageTypes DEF UnderWay, Call
<1> QED
  BY <1>1, <1>2 DEF PageInv, GatedAnswers, Token

\* With nothing under way that a closed page could have asked, it is open.
LEMMA PageOpen ==
  ASSUME PageInv, NEW k \in Calls, Mine(k, LoginOps) \/ Mine(k, {"me"})
                                   \/ Mine(k, {"groups"}) \/ page.history
  PROVE  page.route # "closed"
<1>1. Mine(k, LoginOps \cup GatedOps) \/ page.history
  BY DEF Mine, GatedOps
<1> QED
  BY <1>1 DEF PageInv, ClosedQuiet, UnderWay

LEMMA MeAnsweredSound ==
  ASSUME PageInv, NEW k \in Calls, MeAnswered(k) PROVE PageInv'
<1> DEFINE p == [page EXCEPT !.userId = calls[k].user, !.loading = FALSE]
<1>1. /\ Answered(k) /\ Mine(k, {"me"}) /\ calls[k].status = 200
      /\ Render(k, p, excuses, Nil)
      /\ UNCHANGED <<users, jar, now, enrolled>> /\ cache' = cache
  BY DEF MeAnswered
<1>2. /\ AInv' /\ GatedAnswers' /\ Others(k) /\ page' = p
      /\ excuses' \cap {"raced", "lost"} = excuses \cap {"raced", "lost"}
      /\ excuses' \subseteq excuses \cup {"joined"}
      /\ UnderWay({"me"})' = UnderWay({"me"}) \ {k}
      /\ \/ /\ UnderWay({"groups"})' = {k} /\ calls'[k].cookie = jar[Browser]
            /\ k \in UnderWay({"me", "groups"})'
         \/ /\ UnderWay({"groups"})' = UnderWay({"groups"}) \ {k}
            /\ UnderWay({"me", "groups"})' = UnderWay({"me", "groups"}) \ {k}
            /\ Shows(p) => "joined" \in excuses' \/ (Shows(page) /\ excuses' = excuses)
  BY <1>1, PageTypes, Rendered
<1>3. /\ k \in UnderWay({"me"}) /\ k \in UnderWay({"me", "groups"})
      /\ k \notin UnderWay({"groups"})
  BY <1>1 DEF UnderWay, Mine
<1>4. /\ calls[k].cookie # Nil /\ calls[k].user = calls[k].cookie.user
      /\ calls[k].user \in UserIds
  BY <1>1, <1>3, AnsweredRight
<1>5. /\ p \in Page /\ p.userId = calls[k].user /\ p.route = page.route /\ ~p.loading
      /\ p.history = page.history
  BY <1>4, PageTypes DEF Page
<1>6. page.route # "closed"
  BY <1>1, PageOpen
<1> HIDE DEF p
<1>7. "raced" \notin excuses => /\ UnderWay({"me"}) = {k} /\ page.loading
                                /\ calls[k].cookie = jar[Browser]
  BY <1>3 DEF PageInv, MeInStep
<1>8. PageTypeOK'
  BY <1>1, <1>2, <1>5, PageTypes DEF PageInv, PageTypeOK, Excuses
<1>9. ClosedQuiet'
  BY <1>2, <1>5, <1>6 DEF ClosedQuiet
<1>10. MeInStep'
  BY <1>2, <1>7 DEF MeInStep
<1>11. FetchInStep'
  <2>1. \A j, l \in UnderWay({"groups"})' : j = l
    BY <1>2 DEF PageInv, FetchInStep
  <2>2. ASSUME Shows(p), excuses' \cap {"raced", "lost", "joined"} = {},
               NEW j \in UnderWay({"groups"})'
        PROVE  calls'[j].cookie = jar'[Browser]
    BY <1>1, <1>2, <1>7, <2>2 DEF Shows
  <2> QED
    BY <1>2, <2>1, <2>2 DEF FetchInStep, Shows
<1>12. PageKnowsUser'
  BY <1>1, <1>2, <1>4, <1>5, <1>7 DEF PageKnowsUser
<1>13. OwnGroupsShown'
  BY <1>2, <1>7 DEF OwnGroupsShown, Shows
<1> QED
  BY <1>2, <1>8, <1>9, <1>10, <1>11, <1>12, <1>13 DEF PageInv

LEMMA MeFailedSound ==
  ASSUME PageInv, NEW k \in Calls, MeFailed(k) PROVE PageInv'
<1> DEFINE q == [page EXCEPT !.userId = Nil, !.loading = FALSE]
           p == Routed(q)
           refused == Answered(k) /\ calls[k].status # 200
           why == IF refused THEN excuses ELSE excuses \cup {"lost"}
<1>1. /\ Mine(k, {"me"}) /\ Render(k, p, why, Nil)
      /\ UNCHANGED <<users, jar, now, enrolled>> /\ cache' = cache
  BY DEF MeFailed
<1>2. /\ AInv' /\ GatedAnswers' /\ Others(k) /\ page' = p
      /\ excuses' \cap {"raced", "lost"} = why \cap {"raced", "lost"}
      /\ excuses' \subseteq why \cup {"joined"}
      /\ UnderWay({"me"})' = UnderWay({"me"}) \ {k}
      /\ \/ /\ UnderWay({"groups"})' = {k} /\ calls'[k].cookie = jar[Browser]
            /\ k \in UnderWay({"me", "groups"})'
         \/ /\ UnderWay({"groups"})' = UnderWay({"groups"}) \ {k}
            /\ UnderWay({"me", "groups"})' = UnderWay({"me", "groups"}) \ {k}
            /\ Shows(p) => "joined" \in excuses' \/ (Shows(page) /\ excuses' = why)
  BY <1>1, PageTypes, Rendered
<1>3. k \in UnderWay({"me"}) /\ k \in UnderWay({"me", "groups"})
  BY <1>1 DEF UnderWay, Mine
<1>4. refused => ~Valid(calls[k].cookie)
  BY <1>3, AnsweredRight
<1>5. page.route # "closed"
  BY <1>1, PageOpen
<1>6. p \in Page /\ p.userId = Nil /\ p.route # "closed" /\ ~Shows(p)
  <2>1. q \in Page /\ q.userId = Nil /\ q.route # "closed"
    BY <1>5, PageTypes DEF Page
  <2> HIDE DEF q
  <2> QED
    BY <2>1 DEF Routed, Page, Shows
<1> HIDE DEF p, refused
<1>7. "raced" \notin excuses => UnderWay({"me"}) = {k} /\ calls[k].cookie = jar[Browser]
  BY <1>3 DEF PageInv, MeInStep
<1>8. PageTypeOK'
  BY <1>1, <1>2, <1>6, PageTypes DEF PageInv, PageTypeOK, Excuses
<1>9. ClosedQuiet'
  BY <1>2, <1>6 DEF ClosedQuiet
<1>10. MeInStep'
  BY <1>2, <1>7 DEF MeInStep
<1>11. FetchInStep'
  BY <1>2, <1>6 DEF PageInv, FetchInStep, Shows
<1>12. PageKnowsUser'
  <2> SUFFICES ASSUME excuses' \cap {"raced", "lost"} = {} PROVE ~Valid(jar[Browser])
    BY <1>1, <1>2, <1>6 DEF PageKnowsUser, Valid
  <2>1. refused /\ "raced" \notin excuses
    BY <1>2
  <2> QED
    BY <1>1, <1>4, <1>7, <2>1 DEF Valid
<1>13. OwnGroupsShown'
  BY <1>2, <1>6 DEF OwnGroupsShown, Shows
<1> QED
  BY <1>2, <1>8, <1>9, <1>10, <1>11, <1>12, <1>13 DEF PageInv

LEMMA NavigateSound ==
  ASSUME PageInv, NEW k \in Calls, Navigate(k) PROVE PageInv'
<1> DEFINE q == [page EXCEPT !.route = IF @ = "login" THEN "groups" ELSE "login"]
           p == Routed(q)
<1>1. /\ page.history /\ calls[k] = Nil /\ Render(k, p, excuses, Nil)
      /\ UNCHANGED <<users, jar, now, enrolled>> /\ cache' = cache
  BY DEF Navigate
<1>2. /\ AInv' /\ GatedAnswers' /\ Others(k) /\ page' = p
      /\ excuses' \cap {"raced", "lost"} = excuses \cap {"raced", "lost"}
      /\ excuses' \subseteq excuses \cup {"joined"}
      /\ UnderWay({"me"})' = UnderWay({"me"}) \ {k}
      /\ \/ /\ UnderWay({"groups"})' = {k} /\ calls'[k].cookie = jar[Browser]
            /\ k \in UnderWay({"me", "groups"})'
         \/ /\ UnderWay({"groups"})' = UnderWay({"groups"}) \ {k}
            /\ UnderWay({"me", "groups"})' = UnderWay({"me", "groups"}) \ {k}
            /\ Shows(p) => "joined" \in excuses' \/ (Shows(page) /\ excuses' = excuses)
  BY <1>1, PageTypes, Rendered
<1>3. /\ k \notin UnderWay({"me"}) /\ k \notin UnderWay({"groups"})
      /\ k \notin UnderWay({"me", "groups"})
  BY <1>1 DEF UnderWay, Mine
<1>4. page.route # "closed"
  BY <1>1, PageOpen
<1>5. /\ p \in Page /\ p.userId = page.userId /\ p.loading = page.loading
      /\ p.route # "closed"
  <2>1. /\ q \in Page /\ q.userId = page.userId /\ q.loading = page.loading
        /\ q.route # "closed"
    BY PageTypes DEF Page
  <2> HIDE DEF q
  <2> QED
    BY <2>1 DEF Routed, Page
<1> HIDE DEF p
<1>6. \A j \in Calls : j # k => calls'[j] = calls[j]
  BY <1>2 DEF Others
<1>7. PageTypeOK'
  BY <1>1, <1>2, <1>5, PageTypes DEF PageInv, PageTypeOK, Excuses
<1>8. ClosedQuiet'
  BY <1>2, <1>5 DEF ClosedQuiet
<1>9. MeInStep'
  <2>1. \A j \in UnderWay({"me"}) : calls'[j].cookie = calls[j].cookie
    BY <1>3, <1>6 DEF UnderWay
  <2> QED
    BY <1>1, <1>2, <1>3, <1>5, <2>1 DEF PageInv, MeInStep
<1>10. FetchInStep'
  <2>1. \A j \in UnderWay({"groups"}) : calls'[j].cookie = calls[j].cookie
    BY <1>3, <1>6 DEF UnderWay
  <2>2. \A j, l \in UnderWay({"groups"})' : j = l
    BY <1>2 DEF PageInv, FetchInStep
  <2>3. ASSUME Shows(p), excuses' \cap {"raced", "lost", "joined"} = {},
               NEW j \in UnderWay({"groups"})'
        PROVE  calls'[j].cookie = jar'[Browser]
    BY <1>1, <1>2, <2>1, <2>3 DEF PageInv, FetchInStep
  <2> QED
    BY <1>2, <2>2, <2>3 DEF FetchInStep, Shows
<1>11. PageKnowsUser'
  BY <1>1, <1>2, <1>3, <1>4, <1>5 DEF PageInv, PageKnowsUser, Valid
<1>12. OwnGroupsShown'
  BY <1>1, <1>2, <1>3, <1>5 DEF PageInv, OwnGroupsShown, Shows
<1> QED
  BY <1>2, <1>7, <1>8, <1>9, <1>10, <1>11, <1>12 DEF PageInv

LEMMA SubmitSound ==
  ASSUME PageInv, NEW k \in Calls, Submit(k) PROVE PageInv'
<1>1. PICK a \in Attempts : Post(k, a.op, Browser, a.cred, a.name)
  BY DEF Submit
<1>2. page.route = "login" /\ UNCHANGED pageVars
  BY DEF Submit
<1>3. /\ calls[k] = Nil /\ UNCHANGED <<users, jar, now, enrolled>>
      /\ calls' = [calls EXCEPT ![k] = Request(a.op, Browser, jar[Browser], a.cred, a.name)]
  BY <1>1 DEF Post
<1>4. AInv'
  <2>1. Send(k, Browser)
    BY <1>1 DEF Send
  <2> QED
    BY <2>1, SendSound, BrowserAssumption, PageTypes
<1>5. /\ calls'[k].op = a.op /\ calls'[k].status = 0
      /\ \A j \in Calls \ {k} : calls'[j] = calls[j]
  BY <1>3, PageTypes DEF Request
<1>6. a.op \notin {"me", "groups"}
  <2>1. a.op \in {"register", "login", "oidc", "dev"}
    BY AttemptAssumption
  <2> QED
    BY <2>1
<1>7. GatedAnswers'
  BY <1>3, <1>5, PageTypes DEF GatedAnswers, Valid
<1>8. \A j \in Calls : j \in UnderWay({"me", "groups"}) =>
        j # k /\ calls'[j].cookie = calls[j].cookie
  BY <1>3, <1>5 DEF UnderWay, Mine
<1>9. /\ UnderWay({"me"})' = UnderWay({"me"})
      /\ UnderWay({"groups"})' = UnderWay({"groups"})
      /\ UnderWay({"me", "groups"})' = UnderWay({"me", "groups"})
  BY <1>3, <1>5, <1>6 DEF UnderWay, Mine
<1>10. now' \in Nat /\ now' >= now
  BY <1>3, PageTypes, CallTypes
<1> QED
  BY <1>2, <1>3, <1>4, <1>7, <1>8, <1>9, <1>10, PageKept DEF UnderWay

\* The calls that are left when one has ended.
LEMMA EndSound ==
  ASSUME PageInv, NEW k \in Calls, calls' = [calls EXCEPT ![k] = Nil],
         UNCHANGED <<users, jar, now, enrolled>>
  PROVE  /\ AInv' /\ GatedAnswers' /\ Others(k) /\ calls'[k] = Nil
         /\ UnderWay({"me"})' = UnderWay({"me"}) \ {k}
         /\ UnderWay({"groups"})' = UnderWay({"groups"}) \ {k}
         /\ UnderWay({"me", "groups"})' = UnderWay({"me", "groups"}) \ {k}
         /\ UnderWay(LoginOps \cup GatedOps)' \subseteq UnderWay(LoginOps \cup GatedOps)
         /\ \A j \in Calls : j # k => calls'[j] = calls[j]
<1>1. AInv' /\ GatedAnswers' /\ Others(k) /\ calls'[k] = Nil
  BY PageTypes, SlotSound
<1> QED
  BY <1>1, FreedUnderWay DEF Others

LEMMA SubmitFailedSound ==
  ASSUME PageInv, NEW k \in Calls, SubmitFailed(k) PROVE PageInv'
<1>1. /\ Mine(k, LoginOps) /\ calls' = [calls EXCEPT ![k] = Nil]
      /\ UNCHANGED <<users, jar, now, enrolled>> /\ UNCHANGED pageVars
  BY DEF SubmitFailed, pageVars
<1>2. /\ k \notin UnderWay({"me"}) /\ k \notin UnderWay({"groups"})
      /\ k \notin UnderWay({"me", "groups"})
  BY <1>1 DEF UnderWay, Mine, LoginOps
<1>3. /\ AInv' /\ GatedAnswers' /\ Others(k) /\ calls'[k] = Nil
      /\ UnderWay({"me"})' = UnderWay({"me"}) \ {k}
      /\ UnderWay({"groups"})' = UnderWay({"groups"}) \ {k}
      /\ UnderWay({"me", "groups"})' = UnderWay({"me", "groups"}) \ {k}
      /\ UnderWay(LoginOps \cup GatedOps)' \subseteq UnderWay(LoginOps \cup GatedOps)
      /\ \A j \in Calls : j # k => calls'[j] = calls[j]
  BY <1>1, EndSound
<1>4. /\ UnderWay({"me"})' = UnderWay({"me"})
      /\ UnderWay({"groups"})' = UnderWay({"groups"})
      /\ UnderWay({"me", "groups"})' = UnderWay({"me", "groups"})
  BY <1>2, <1>3
<1>5. \A j \in UnderWay({"me", "groups"}) : calls'[j].cookie = calls[j].cookie
  BY <1>2, <1>3 DEF UnderWay
<1>6. now' \in Nat /\ now' >= now
  BY <1>1, PageTypes, CallTypes
<1> QED
  BY <1>1, <1>3, <1>4, <1>5, <1>6, PageKept

\* A login that has succeeded: the jar is the session's, and me() asks with it.
LEMMA SubmitAnsweredSound ==
  ASSUME PageInv, NEW k \in Calls, SubmitAnswered(k) PROVE PageInv'
<1> DEFINE new == [Ask("me") EXCEPT !.cookie = calls[k].token]
<1>1. /\ Mine(k, LoginOps) /\ calls[k].token # Nil /\ jar' = JarAfter(calls[k])
      /\ page' = [page EXCEPT !.route = "groups", !.loading = TRUE, !.history = TRUE]
      /\ calls' = [calls EXCEPT ![k] = new]
      /\ excuses' = (excuses \ {"raced", "lost"})
                      \cup (IF UnderWay({"me"}) = {} THEN {} ELSE {"raced"})
      /\ UNCHANGED <<users, now, enrolled>> /\ cache' = cache
  BY DEF SubmitAnswered
<1>2. /\ calls[k] # Nil /\ calls[k] \in Call /\ calls[k].token \in Token
      /\ calls[k].from = Browser /\ calls[k].op \in LoginOps
  BY <1>1, PageTypes DEF Mine, Call
<1>3. /\ jar' = [jar EXCEPT ![Browser] = calls[k].token]
      /\ jar'[Browser] = calls[k].token /\ jar' \in [Clients -> Token \cup {Nil}]
      /\ \A c \in Clients : jar'[c] \in {jar[c], calls[k].token}
  BY <1>1, <1>2, PageTypes, BrowserAssumption DEF JarAfter, LoginOps
<1>4. \A c \in Clients : Genuine(jar'[c])
  BY <1>2, <1>3, PageTypes DEF AInv, SessionsByCredential
<1>5. /\ calls'[k] = new /\ calls' = [j \in Calls |-> calls'[j]]
      /\ \A j \in Calls \ {k} : calls'[j] = calls[j]
  BY <1>1, PageTypes
<1>6. new = Request("me", Browser, jar'[Browser], Nil, Nil)
  BY <1>3 DEF Ask, Request
<1> HIDE DEF new
<1>7. Asks(k, "me")
  BY <1>3, <1>5, <1>6, RequestIsCall DEF Asks
<1>8. AInv' /\ GatedAnswers' /\ Others(k)
  <2>1. \A j \in Calls : Turns(j)
    BY <1>5, <1>7 DEF Turns
  <2> QED
    BY <1>1, <1>3, <1>4, <1>5, <2>1, PageTypes, TurnsSound DEF Others
<1>9. /\ UnderWay({"me"})' = UnderWay({"me"}) \cup {k}
      /\ UnderWay({"groups"})' = UnderWay({"groups"}) \ {k}
      /\ calls'[k].cookie = jar'[Browser]
  BY <1>3, <1>7, <1>8, AskedUnderWay
<1>10. page' \in Page /\ page'.loading /\ page'.route = "groups" /\ ~Shows(page)'
  BY <1>1, PageTypes DEF Page, Shows
<1>11. PageTypeOK'
  BY <1>1, <1>10, PageTypes DEF PageInv, PageTypeOK, Excuses
<1>12. ClosedQuiet' /\ PageKnowsUser' /\ OwnGroupsShown'
  BY <1>9, <1>10 DEF ClosedQuiet, PageKnowsUser, OwnGroupsShown
<1>13. MeInStep'
  <2> SUFFICES ASSUME "raced" \notin excuses'
               PROVE  UnderWay({"me"})' = {k}
    BY <1>9, <1>10 DEF MeInStep
  <2> QED
    BY <1>1, <1>9
<1>14. FetchInStep'
  BY <1>9, <1>10 DEF PageInv, FetchInStep
<1> QED
  BY <1>8, <1>11, <1>12, <1>13, <1>14 DEF PageInv

LEMMA FocusSound ==
  ASSUME PageInv, NEW k \in Calls, Focus(k) PROVE PageInv'
<1>1. /\ Shows(page) /\ UnderWay({"groups"}) = {} /\ calls[k] = Nil
      /\ calls' = [calls EXCEPT ![k] = Ask("groups")]
      /\ excuses' = excuses \ {"joined", "gaveUp"}
      /\ UNCHANGED <<users, jar, now, enrolled>> /\ page' = page /\ cache' = cache
  BY DEF Focus
<1>2. AInv' /\ GatedAnswers' /\ Others(k) /\ Asks(k, "groups")
  BY <1>1, PageTypes, SlotSound
<1>3. k \notin UnderWay({"me"})
  BY <1>1 DEF UnderWay, Mine
<1>4. /\ UnderWay({"me"})' = UnderWay({"me"})
      /\ UnderWay({"groups"})' = {k} /\ calls'[k].cookie = jar'[Browser]
      /\ k \in UnderWay({"me", "groups"})'
  <2>1. /\ UnderWay({"me"})' = UnderWay({"me"}) \ {k}
        /\ UnderWay({"groups"})' = UnderWay({"groups"}) \cup {k}
        /\ calls'[k].cookie = jar'[Browser] /\ k \in UnderWay({"me", "groups"})'
    BY <1>1, <1>2, PageTypes, AskedUnderWay
  <2> QED
    BY <1>1, <1>3, <2>1
<1>5. \A j \in UnderWay({"me"}) : calls'[j].cookie = calls[j].cookie
  BY <1>2, <1>3 DEF Others, UnderWay
<1>6. PageTypeOK' /\ ClosedQuiet'
  BY <1>1 DEF PageInv, PageTypeOK, ClosedQuiet, Shows
<1>7. MeInStep'
  BY <1>1, <1>4, <1>5 DEF PageInv, MeInStep
<1>8. FetchInStep' /\ OwnGroupsShown'
  BY <1>4 DEF FetchInStep, OwnGroupsShown
<1>9. PageKnowsUser'
  BY <1>1, <1>4 DEF PageInv, PageKnowsUser, Valid
<1> QED
  BY <1>2, <1>6, <1>7, <1>8, <1>9 DEF PageInv

LEMMA GroupsAnsweredSound ==
  ASSUME PageInv, NEW k \in Calls, GroupsAnswered(k) PROVE PageInv'
<1>1. /\ Answered(k) /\ Mine(k, {"groups"}) /\ calls[k].status = 200
      /\ cache' = calls[k].user /\ calls' = [calls EXCEPT ![k] = Nil]
      /\ UNCHANGED <<users, jar, now, enrolled>> /\ page' = page /\ excuses' = excuses
  BY DEF GroupsAnswered
<1>2. /\ k \in UnderWay({"groups"}) /\ k \in UnderWay({"me", "groups"})
      /\ k \notin UnderWay({"me"})
  BY <1>1 DEF UnderWay, Mine
<1>3. /\ calls[k].cookie # Nil /\ calls[k].user = calls[k].cookie.user
      /\ calls[k].user \in UserIds
  BY <1>1, <1>2, AnsweredRight
<1>4. /\ AInv' /\ GatedAnswers'
      /\ UnderWay({"me"})' = UnderWay({"me"})
      /\ UnderWay({"groups"})' = UnderWay({"groups"}) \ {k}
      /\ UnderWay({"me", "groups"})' = UnderWay({"me", "groups"}) \ {k}
      /\ UnderWay(LoginOps \cup GatedOps)' \subseteq UnderWay(LoginOps \cup GatedOps)
      /\ \A j \in Calls : j # k => calls'[j] = calls[j]
  <2>1. /\ AInv' /\ GatedAnswers' /\ Others(k) /\ calls'[k] = Nil
        /\ UnderWay({"me"})' = UnderWay({"me"}) \ {k}
        /\ UnderWay({"groups"})' = UnderWay({"groups"}) \ {k}
        /\ UnderWay({"me", "groups"})' = UnderWay({"me", "groups"}) \ {k}
        /\ UnderWay(LoginOps \cup GatedOps)' \subseteq UnderWay(LoginOps \cup GatedOps)
        /\ \A j \in Calls : j # k => calls'[j] = calls[j]
    BY <1>1, EndSound
  <2> QED
    BY <1>2, <2>1
<1>5. \A j \in UnderWay({"me"}) : calls'[j].cookie = calls[j].cookie
  BY <1>2, <1>4 DEF UnderWay
<1>6. PageTypeOK'
  BY <1>1, <1>3 DEF PageInv, PageTypeOK
<1>7. ClosedQuiet'
  BY <1>1, <1>4 DEF PageInv, ClosedQuiet
<1>8. MeInStep'
  BY <1>1, <1>4, <1>5 DEF PageInv, MeInStep
<1>9. FetchInStep'
  BY <1>1, <1>2, <1>4 DEF PageInv, FetchInStep
<1>10. PageKnowsUser'
  BY <1>1, <1>4 DEF PageInv, PageKnowsUser, Valid
<1>11. OwnGroupsShown'
  <2> SUFFICES ASSUME Shows(page), UnderWay({"me"}) = {}, excuses = {}
               PROVE  calls[k].user = page.userId
    <3>1. UnderWay({"me", "groups"})' = {} => UnderWay({"me"}) = {}
      BY <1>2, <1>4 DEF UnderWay, Mine
    <3> QED
      BY <1>1, <3>1 DEF OwnGroupsShown, Shows
  <2>1. calls[k].cookie = jar[Browser]
    BY <1>2 DEF PageInv, FetchInStep
  <2>2. page.userId = jar[Browser].user
    BY DEF PageInv, PageKnowsUser, Shows
  <2> QED
    BY <1>3, <2>1, <2>2
<1> QED
  BY <1>4, <1>6, <1>7, <1>8, <1>9, <1>10, <1>11 DEF PageInv

LEMMA GroupsFailedSound ==
  ASSUME PageInv, NEW k \in Calls, GroupsFailed(k) PROVE PageInv'
<1>1. /\ Mine(k, {"groups"})
      /\ UNCHANGED <<users, jar, now, enrolled>> /\ page' = page /\ cache' = cache
  BY DEF GroupsFailed
<1>2. k \in UnderWay({"groups"}) /\ k \notin UnderWay({"me"})
  BY <1>1 DEF UnderWay, Mine
<1>3. page.route # "closed"
  BY <1>1, PageOpen
<1>4. CASE calls' = [calls EXCEPT ![k] = Ask("groups")] /\ excuses' = excuses \ {"joined"}
  <2>1. AInv' /\ GatedAnswers' /\ Others(k) /\ Asks(k, "groups")
    BY <1>1, <1>4, PageTypes, SlotSound
  <2>2. /\ UnderWay({"me"})' = UnderWay({"me"})
        /\ UnderWay({"groups"})' = UnderWay({"groups"})
        /\ calls'[k].cookie = jar'[Browser] /\ k \in UnderWay({"me", "groups"})'
    <3>1. /\ UnderWay({"me"})' = UnderWay({"me"}) \ {k}
          /\ UnderWay({"groups"})' = UnderWay({"groups"}) \cup {k}
          /\ calls'[k].cookie = jar'[Browser] /\ k \in UnderWay({"me", "groups"})'
      BY <1>1, <2>1, PageTypes, AskedUnderWay
    <3> QED
      BY <1>2, <3>1
  <2>3. \A j \in UnderWay({"me"}) : calls'[j].cookie = calls[j].cookie
    BY <1>2, <2>1 DEF Others, UnderWay
  <2>4. PageTypeOK' /\ ClosedQuiet'
    BY <1>1, <1>3, <1>4 DEF PageInv, PageTypeOK, ClosedQuiet
  <2>5. MeInStep'
    BY <1>1, <1>4, <2>2, <2>3 DEF PageInv, MeInStep
  <2>6. FetchInStep' /\ OwnGroupsShown'
    BY <1>2, <2>2 DEF PageInv, FetchInStep, OwnGroupsShown
  <2>7. PageKnowsUser'
    BY <1>1, <1>4, <2>2 DEF PageInv, PageKnowsUser, Valid
  <2> QED
    BY <2>1, <2>4, <2>5, <2>6, <2>7 DEF PageInv
<1>5. CASE calls' = [calls EXCEPT ![k] = Nil] /\ excuses' = excuses \cup {"gaveUp"}
  <2>1. /\ AInv' /\ GatedAnswers'
        /\ UnderWay({"me"})' = UnderWay({"me"})
        /\ UnderWay({"groups"})' = UnderWay({"groups"}) \ {k}
        /\ \A j \in Calls : j # k => calls'[j] = calls[j]
    <3>1. /\ AInv' /\ GatedAnswers' /\ Others(k) /\ calls'[k] = Nil
          /\ UnderWay({"me"})' = UnderWay({"me"}) \ {k}
          /\ UnderWay({"groups"})' = UnderWay({"groups"}) \ {k}
          /\ UnderWay({"me", "groups"})' = UnderWay({"me", "groups"}) \ {k}
          /\ UnderWay(LoginOps \cup GatedOps)' \subseteq UnderWay(LoginOps \cup GatedOps)
          /\ \A j \in Calls : j # k => calls'[j] = calls[j]
      BY <1>1, <1>5, EndSound
    <3> QED
      BY <1>2, <3>1
  <2>2. \A j \in UnderWay({"me"}) : calls'[j].cookie = calls[j].cookie
    BY <1>2, <2>1 DEF UnderWay
  <2>3. PageTypeOK' /\ ClosedQuiet'
    BY <1>1, <1>3, <1>5 DEF PageInv, PageTypeOK, ClosedQuiet, Excuses
  <2>4. MeInStep'
    BY <1>1, <1>5, <2>1, <2>2 DEF PageInv, MeInStep
  <2>5. FetchInStep' /\ OwnGroupsShown'
    BY <1>2, <1>5, <2>1 DEF PageInv, FetchInStep, OwnGroupsShown
  <2>6. PageKnowsUser'
    BY <1>1, <1>5, <2>1 DEF PageInv, PageKnowsUser, Valid
  <2> QED
    BY <2>1, <2>3, <2>4, <2>5, <2>6 DEF PageInv
<1> QED
  BY <1>4, <1>5 DEF GroupsFailed

\* A load of the page: of its calls, only the new me() is under way.
LEMMA OpenSound ==
  ASSUME PageInv, NEW k \in Calls, NEW route \in {"login", "groups"}, Open(k, route)
  PROVE  PageInv'
<1>1. /\ page' = [route |-> route, userId |-> Nil, loading |-> TRUE, history |-> FALSE]
      /\ cache' = Nil /\ excuses' = {}
      /\ calls' = [j \in Calls |-> IF j = k THEN Ask("me")
                                   ELSE IF calls[j] # Nil /\ calls[j].from = Browser THEN Nil
                                   ELSE calls[j]]
      /\ UNCHANGED <<users, jar, now, enrolled>>
  BY DEF Open
<1>2. Asks(k, "me")
  BY <1>1, PageTypes, RequestIsCall DEF Asks, Ask
<1>3. \A j \in Calls \ {k} : \/ calls'[j] = Nil
                             \/ calls'[j] = calls[j] /\ ~(calls[j] # Nil /\ calls[j].from = Browser)
  BY <1>1
<1>4. AInv' /\ GatedAnswers'
  <2>1. \A j \in Calls : Turns(j)
    BY <1>2, <1>3 DEF Turns
  <2>2. \A c \in Clients : Genuine(jar'[c])
    BY <1>1, PageTypes DEF AInv, SessionsByCredential
  <2> QED
    BY <1>1, <2>1, <2>2, PageTypes, TurnsSound
<1>5. /\ calls'[k] # Nil /\ calls'[k].op = "me" /\ calls'[k].from = Browser
      /\ calls'[k].cookie = jar'[Browser]
  BY <1>1, <1>2, PageTypes, AsksSound
<1>6. UnderWay({"me"})' = {k} /\ UnderWay({"groups"})' = {}
  BY <1>3, <1>5 DEF UnderWay, Mine
<1>7. page' \in Page /\ page'.loading /\ page'.route # "closed" /\ ~Shows(page)'
  BY <1>1 DEF Page, Shows
<1>8. PageTypeOK'
  BY <1>1, <1>7 DEF PageTypeOK
<1>9. ClosedQuiet' /\ MeInStep' /\ FetchInStep' /\ PageKnowsUser' /\ OwnGroupsShown'
  BY <1>5, <1>6, <1>7 DEF ClosedQuiet, MeInStep, FetchInStep, PageKnowsUser, OwnGroupsShown
<1> QED
  BY <1>4, <1>8, <1>9 DEF PageInv

LEMMA BrowseSound ==
  ASSUME PageInv, NEW k \in Calls, Browse(k) PROVE PageInv'
BY SubmitSound, SubmitAnsweredSound, SubmitFailedSound, MeAnsweredSound, MeFailedSound,
   FocusSound, GroupsAnsweredSound, GroupsFailedSound, NavigateSound DEF Browse

--------------------------------------------------------------------------------
(* The chains of PushToggle *)

PushInv ==
  /\ Push!PushTypeOK
  /\ RowsForPush
  /\ LeftAlone
  /\ AloneUndisturbed
  /\ OffIsSilent
  /\ OnIsReachable

Session == IF Valid(jar[Browser]) THEN jar[Browser].user ELSE Nil

\* A chain at work, and what it is sure of when it runs alone.
LEMMA ChainFacts ==
  ASSUME PushInv, NEW t \in Toggles, toggles[t] # Nil
  PROVE  /\ t \in Push!AtWork /\ toggles[t] \in Push!Chain
         /\ toggles[t].at # "asked" => toggles[t].endpoint \in Endpoints \cap (dead \cup {push})
         /\ ~mixed => Push!AtWork = {t} /\ Undisturbed(t)
         /\ ~Shows(page) => status = "" /\ ~toggles[t].here
BY DEF PushInv, Push!PushTypeOK, Push!AtWork, RowsForPush, AloneUndisturbed, LeftAlone

\* A chain that takes a step stays at work, and the others are where they were.
LEMMA ChainMoved ==
  ASSUME Push!PushTypeOK, NEW t \in Toggles, NEW new \in Push!Chain,
         toggles' = [toggles EXCEPT ![t] = new]
  PROVE  /\ toggles' \in [Toggles -> Push!Chain \cup {Nil}]
         /\ toggles'[t] = new /\ \A s \in Toggles : s # t => toggles'[s] = toggles[s]
         /\ Push!AtWork' = Push!AtWork \cup {t}
<1>1. toggles \in [Toggles -> Push!Chain \cup {Nil}] /\ new # Nil
  BY NoChainAssumption DEF Push!PushTypeOK
<1>2. /\ toggles'[t] = new /\ \A s \in Toggles : s # t => toggles'[s] = toggles[s]
      /\ toggles' \in [Toggles -> Push!Chain \cup {Nil}]
  BY <1>1
<1> QED
  BY <1>1, <1>2 DEF Push!AtWork

\* A chain that has ended: alone, it has said so unless it was left.
LEMMA ChainEnded ==
  ASSUME PushInv, NEW t \in Toggles, toggles[t] # Nil,
         NEW said \in {"on", "off", "failed"}, Push!Finish(t, said)
  PROVE  /\ toggles' \in [Toggles -> Push!Chain \cup {Nil}]
         /\ status' \in {"", "on", "off", "failed"}
         /\ \A s \in Toggles : toggles'[s] # Nil => toggles'[s] = toggles[s] /\ s # t
         /\ Push!AtWork' = Push!AtWork \ {t}
         /\ ~mixed => /\ Push!AtWork' = {}
                      /\ toggles[t].here => status' = said
                      /\ ~toggles[t].here => status' = ""
         /\ ~Shows(page) => status' = ""
<1>1. /\ toggles \in [Toggles -> Push!Chain \cup {Nil}]
      /\ status \in {"", "on", "off", "failed"}
  BY DEF PushInv, Push!PushTypeOK
<1>2. /\ toggles' = [toggles EXCEPT ![t] = Nil]
      /\ status' = IF toggles[t].here THEN said ELSE status
  BY DEF Push!Finish
<1>3. /\ toggles' \in [Toggles -> Push!Chain \cup {Nil}] /\ toggles'[t] = Nil
      /\ \A s \in Toggles : s # t => toggles'[s] = toggles[s]
  BY <1>1, <1>2
<1>4. Push!AtWork' = Push!AtWork \ {t}
  BY <1>3 DEF Push!AtWork
<1>5. ~mixed => Push!AtWork = {t} /\ Undisturbed(t)
  BY ChainFacts
<1>6. ~mixed /\ ~toggles[t].here => status = ""
  BY <1>5 DEF Undisturbed
<1>7. ~Shows(page) => status' = ""
  BY <1>2, ChainFacts
<1> QED
  BY <1>1, <1>2, <1>3, <1>4, <1>5, <1>6, <1>7

\* What the other chains handle still is the browser's or discarded.
LEMMA RowsFollow ==
  ASSUME PushInv, push' \notin dead', dead \subseteq dead',
         push # Nil => push \in dead' \cup {push'},
         DOMAIN rows' \subseteq dead' \cup {push'},
         NEW t \in Toggles,
         \A s \in Toggles : s # t /\ toggles'[s] # Nil => toggles'[s] = toggles[s],
         toggles'[t] # Nil /\ toggles'[t].at # "asked" =>
           toggles'[t].endpoint \in Endpoints \cap (dead' \cup {push'})
  PROVE  RowsForPush'
<1> SUFFICES ASSUME NEW s \in Toggles, s # t, toggles'[s] # Nil, toggles'[s].at # "asked"
             PROVE  toggles'[s].endpoint \in Endpoints \cap (dead' \cup {push'})
  BY DEF RowsForPush, Push!AtWork
<1>1. toggles'[s] = toggles[s] /\ s \in Push!AtWork
  BY DEF Push!AtWork
<1>2. toggles[s].endpoint \in Endpoints \cap (dead \cup {push})
  BY <1>1 DEF PushInv, RowsForPush
<1> QED
  BY <1>1, <1>2, EndpointAssumption

\* The end of a chain: nothing is at work, or nothing is sure.
LEMMA EndedAlone ==
  ASSUME PushInv, NEW t \in Toggles, toggles[t] # Nil,
         NEW said \in {"on", "off", "failed"}, Push!Finish(t, said),
         UNCHANGED <<jar, now, page, mixed>>
  PROVE  LeftAlone' /\ AloneUndisturbed'
<1>1. /\ \A s \in Toggles : toggles'[s] # Nil => toggles'[s] = toggles[s] /\ s # t
      /\ Push!AtWork' = Push!AtWork \ {t} /\ (~mixed => Push!AtWork' = {})
      /\ ~Shows(page) => status' = ""
  BY ChainEnded
<1>2. Shows(page)' = Shows(page)
  BY DEF Shows
<1>3. LeftAlone'
  BY <1>1, <1>2 DEF PushInv, LeftAlone, Push!AtWork
<1>4. AloneUndisturbed'
  BY <1>1 DEF AloneUndisturbed
<1> QED
  BY <1>3, <1>4

LEMMA PushTypes ==
  ASSUME PushInv
  PROVE  /\ push \in Endpoints \cup {Nil} /\ dead \subseteq Endpoints
         /\ push \notin dead /\ Nil \notin Endpoints
         /\ DOMAIN rows \subseteq Endpoints /\ rows \in [DOMAIN rows -> UserIds]
         /\ DOMAIN rows \subseteq dead \cup {push}
         /\ toggles \in [Toggles -> Push!Chain \cup {Nil}]
         /\ status \in {"", "on", "off", "failed"} /\ mixed \in BOOLEAN
BY EndpointAssumption DEF PushInv, Push!PushTypeOK, RowsForPush

LEMMA ClickSound ==
  ASSUME PushInv, UNCHANGED <<jar, now, page>>, NEW t \in Toggles,
         NEW op \in {"enable", "disable"}, Push!Click(t, op)
  PROVE  PushInv'
<1> DEFINE new == [op |-> op, at |-> "asked", endpoint |-> Nil, user |-> Nil, here |-> TRUE]
<1>1. /\ Shows(page) /\ toggles[t] = Nil /\ toggles' = [toggles EXCEPT ![t] = new]
      /\ mixed' = (Push!AtWork # {}) /\ UNCHANGED <<push, dead, rows, status>>
  BY DEF Push!Click
<1>2. new \in Push!Chain /\ new.at = "asked" /\ new.here
  BY DEF Push!Chain
<1> HIDE DEF new
<1>3. /\ toggles' \in [Toggles -> Push!Chain \cup {Nil}]
      /\ toggles'[t] = new /\ \A s \in Toggles : s # t => toggles'[s] = toggles[s]
      /\ Push!AtWork' = Push!AtWork \cup {t}
  BY <1>1, <1>2, ChainMoved DEF PushInv
<1>4. Push!PushTypeOK'
  BY <1>1, <1>3, PushTypes DEF Push!PushTypeOK
<1>5. RowsForPush'
  BY <1>1, <1>2, <1>3, PushTypes, RowsFollow
<1>6. LeftAlone'
  BY <1>1 DEF LeftAlone, Shows
<1>7. AloneUndisturbed'
  <2> SUFFICES ASSUME ~mixed' PROVE Push!AtWork' = {t} /\ Undisturbed(t)'
    BY DEF AloneUndisturbed
  <2>1. Push!AtWork' = {t}
    BY <1>1, <1>3
  <2> QED
    BY <1>2, <1>3, <2>1 DEF Undisturbed
<1>8. OffIsSilent' /\ OnIsReachable'
  BY <1>3 DEF OffIsSilent, OnIsReachable, Push!OffIsSilent, Push!OnIsReachable, Push!Settled
<1> QED
  BY <1>4, <1>5, <1>6, <1>7, <1>8 DEF PushInv

\* The API call of a chain: for the subscription that the browser has now, by the
\* user it has now.
LEMMA CallSound ==
  ASSUME PushInv, UNCHANGED <<jar, now, page>>, Session \in UserIds \cup {Nil},
         NEW t \in Toggles, toggles[t] # Nil,
         NEW e \in Endpoints, Push!Call(t, e), push' = e, push \in {Nil, e}, e \notin dead,
         UNCHANGED <<dead, rows, status, mixed>>
  PROVE  PushInv'
<1> DEFINE chain == toggles[t]
           new == [chain EXCEPT !.at = "sent", !.endpoint = e, !.user = Session]
<1>1. chain \in Push!Chain /\ t \in Push!AtWork
  BY ChainFacts
<1>2. toggles' = [toggles EXCEPT ![t] = new]
  BY PushTypes DEF Push!Call, Session
<1>3. /\ new \in Push!Chain /\ new.at = "sent" /\ new.endpoint = e /\ new.user = Session
      /\ new.here = chain.here /\ new.op = chain.op
  BY <1>1 DEF Push!Chain
<1> HIDE DEF new, chain
<1>4. /\ toggles' \in [Toggles -> Push!Chain \cup {Nil}]
      /\ toggles'[t] = new /\ \A s \in Toggles : s # t => toggles'[s] = toggles[s]
      /\ Push!AtWork' = Push!AtWork
  <2>1. Push!AtWork \cup {t} = Push!AtWork
    BY <1>1
  <2> QED
    BY <1>2, <1>3, <2>1, ChainMoved DEF PushInv
<1>5. Push!PushTypeOK'
  BY <1>4, PushTypes DEF Push!PushTypeOK
<1>6. RowsForPush'
  BY <1>3, <1>4, PushTypes, RowsFollow
<1>7. Shows(page)' = Shows(page) /\ Session' = Session
  BY DEF Shows, Session, Valid
<1>8. LeftAlone'
  <2> SUFFICES ASSUME ~Shows(page), NEW s \in Push!AtWork
               PROVE  status = "" /\ ~toggles'[s].here
    BY <1>4, <1>7 DEF PushInv, LeftAlone
  <2>1. status = "" /\ ~toggles[s].here /\ s \in Toggles
    BY DEF PushInv, LeftAlone, Push!AtWork
  <2> QED
    BY <1>3, <1>4, <2>1 DEF chain
<1>9. AloneUndisturbed'
  <2> SUFFICES ASSUME ~mixed PROVE Push!AtWork' = {t} /\ Undisturbed(t)'
    BY DEF AloneUndisturbed
  <2>1. Push!AtWork = {t} /\ (~chain.here => status = "")
    BY ChainFacts DEF Undisturbed, chain
  <2> QED
    BY <1>3, <1>4, <1>7, <2>1 DEF Undisturbed, Session
<1>10. OffIsSilent' /\ OnIsReachable'
  BY <1>1, <1>4 DEF OffIsSilent, OnIsReachable, Push!OffIsSilent, Push!OnIsReachable,
     Push!Settled
<1> QED
  BY <1>5, <1>6, <1>8, <1>9, <1>10 DEF PushInv

LEMMA SubscribeSound ==
  ASSUME PushInv, UNCHANGED <<jar, now, page>>, Session \in UserIds \cup {Nil},
         NEW t \in Toggles, Push!Subscribe(t)
  PROVE  PushInv'
<1>1. toggles[t] # Nil /\ UNCHANGED <<dead, rows, status, mixed>>
  BY DEF Push!Subscribe, Push!At
<1>2. PICK e \in Endpoints : /\ IF push = Nil THEN e \notin dead \cup DOMAIN rows ELSE e = push
                             /\ push' = e
                             /\ Push!Call(t, e)
  BY DEF Push!Subscribe
<1>3. push \in {Nil, e} /\ e \notin dead
  BY <1>2, PushTypes
<1> QED
  BY <1>1, <1>2, <1>3, CallSound

\* A chain's call has been handled, and has changed the rows.
LEMMA HandledSound ==
  ASSUME PushInv, UNCHANGED <<jar, now, page>>, NEW t \in Toggles, toggles[t] # Nil,
         toggles[t].at = "sent",
         toggles' = [toggles EXCEPT ![t].at = "handled"],
         DOMAIN rows' \subseteq DOMAIN rows \cup {toggles[t].endpoint},
         rows' \in [DOMAIN rows' -> UserIds],
         toggles[t].op = "enable" =>
           toggles[t].endpoint \in DOMAIN rows' /\ rows'[toggles[t].endpoint] = toggles[t].user,
         UNCHANGED <<push, dead, status, mixed>>
  PROVE  PushInv'
<1> DEFINE chain == toggles[t]
           new == [chain EXCEPT !.at = "handled"]
<1>1. chain \in Push!Chain /\ t \in Push!AtWork /\ chain.endpoint \in Endpoints \cap (dead \cup {push})
  BY ChainFacts
<1>2. toggles' = [toggles EXCEPT ![t] = new]
  BY PushTypes
<1>3. /\ new \in Push!Chain /\ new.at = "handled" /\ new.endpoint = chain.endpoint
      /\ new.user = chain.user /\ new.here = chain.here /\ new.op = chain.op
  BY <1>1 DEF Push!Chain
<1> HIDE DEF new
<1>4. /\ toggles' \in [Toggles -> Push!Chain \cup {Nil}]
      /\ toggles'[t] = new /\ \A s \in Toggles : s # t => toggles'[s] = toggles[s]
      /\ Push!AtWork' = Push!AtWork
  <2>1. Push!AtWork \cup {t} = Push!AtWork
    BY <1>1
  <2> QED
    BY <1>2, <1>3, <2>1, ChainMoved DEF PushInv
<1>5. DOMAIN rows' \subseteq Endpoints /\ DOMAIN rows' \subseteq dead \cup {push}
  BY <1>1, PushTypes
<1>6. Push!PushTypeOK'
  BY <1>4, <1>5, PushTypes DEF Push!PushTypeOK
<1>7. RowsForPush'
  BY <1>1, <1>3, <1>4, <1>5, PushTypes, RowsFollow
<1>8. Shows(page)' = Shows(page) /\ Session' = Session
  BY DEF Shows, Session, Valid
<1>9. LeftAlone'
  <2> SUFFICES ASSUME ~Shows(page), NEW s \in Push!AtWork
               PROVE  status = "" /\ ~toggles'[s].here
    BY <1>4, <1>8 DEF PushInv, LeftAlone
  <2>1. status = "" /\ ~toggles[s].here /\ s \in Toggles
    BY DEF PushInv, LeftAlone, Push!AtWork
  <2> QED
    BY <1>3, <1>4, <2>1
<1>10. AloneUndisturbed'
  <2> SUFFICES ASSUME ~mixed PROVE Push!AtWork' = {t} /\ Undisturbed(t)'
    BY DEF AloneUndisturbed
  <2>1. Push!AtWork = {t} /\ Undisturbed(t)
    BY ChainFacts
  <2>2. /\ ~chain.here => status = ""
        /\ push \in {chain.endpoint, Nil}
        /\ chain.here => Session \in {chain.user, Nil}
    BY <2>1 DEF Undisturbed, Session
  <2>3. new.op = "enable" /\ push # Nil => push \in DOMAIN rows' /\ rows'[push] = new.user
    BY <1>3, <2>2
  <2> QED
    BY <1>3, <1>4, <1>8, <2>1, <2>2, <2>3 DEF Undisturbed, Session
<1>11. OffIsSilent' /\ OnIsReachable'
  BY <1>1, <1>4 DEF OffIsSilent, OnIsReachable, Push!OffIsSilent, Push!OnIsReachable,
     Push!Settled
<1> QED
  BY <1>6, <1>7, <1>9, <1>10, <1>11 DEF PushInv

LEMMA SaveSound ==
  ASSUME PushInv, UNCHANGED <<jar, now, page>>, NEW t \in Toggles, Push!Save(t)
  PROVE  PushInv'
<1> DEFINE chain == toggles[t]
<1>1. /\ chain # Nil /\ chain.op = "enable" /\ chain.at = "sent" /\ chain.user # Nil
      /\ rows' = [e \in DOMAIN rows \cup {chain.endpoint} |->
                    IF e = chain.endpoint THEN chain.user ELSE rows[e]]
      /\ toggles' = [toggles EXCEPT ![t].at = "handled"]
      /\ UNCHANGED <<push, dead, status, mixed>>
  BY DEF Push!Save, Push!At
<1>2. chain.user \in UserIds
  BY <1>1, ChainFacts DEF Push!Chain
<1>3. /\ DOMAIN rows' = DOMAIN rows \cup {chain.endpoint}
      /\ rows' \in [DOMAIN rows' -> UserIds]
      /\ rows'[chain.endpoint] = chain.user
  BY <1>1, <1>2, PushTypes
<1> QED
  BY <1>1, <1>3, HandledSound

LEMMA DeleteSound ==
  ASSUME PushInv, UNCHANGED <<jar, now, page>>, NEW t \in Toggles, Push!Delete(t)
  PROVE  PushInv'
<1> DEFINE kept == {e \in DOMAIN rows : e # toggles[t].endpoint \/ rows[e] # toggles[t].user}
<1>1. /\ toggles[t] # Nil /\ toggles[t].op = "disable" /\ toggles[t].at = "sent"
      /\ rows' = [e \in kept |-> rows[e]]
      /\ toggles' = [toggles EXCEPT ![t].at = "handled"]
      /\ UNCHANGED <<push, dead, status, mixed>>
  BY DEF Push!Delete, Push!At, Push!Restrict
<1>2. DOMAIN rows' \subseteq DOMAIN rows /\ rows' \in [DOMAIN rows' -> UserIds]
  BY <1>1, PushTypes
<1> QED
  BY <1>1, <1>2, HandledSound

LEMMA EnabledSound ==
  ASSUME PushInv, UNCHANGED <<jar, now, page>>, NEW t \in Toggles, Push!Enabled(t)
  PROVE  PushInv'
<1>1. /\ toggles[t] # Nil /\ toggles[t].op = "enable" /\ toggles[t].at = "handled"
      /\ Push!Finish(t, "on") /\ UNCHANGED <<push, dead, rows, mixed>>
  BY DEF Push!Enabled, Push!At
<1>2. /\ toggles' \in [Toggles -> Push!Chain \cup {Nil}]
      /\ status' \in {"", "on", "off", "failed"}
      /\ \A s \in Toggles : toggles'[s] # Nil => toggles'[s] = toggles[s] /\ s # t
      /\ ~mixed => /\ toggles[t].here => status' = "on"
                   /\ ~toggles[t].here => status' = ""
  BY <1>1, ChainEnded
<1>3. Push!PushTypeOK'
  BY <1>1, <1>2, PushTypes DEF Push!PushTypeOK
<1>4. RowsForPush'
  BY <1>1, <1>2, PushTypes, RowsFollow
<1>5. LeftAlone' /\ AloneUndisturbed'
  BY <1>1, EndedAlone
<1>6. OffIsSilent'
  BY <1>1, <1>2 DEF OffIsSilent, Push!OffIsSilent, Push!Settled
<1>7. OnIsReachable'
  <2> SUFFICES ASSUME ~mixed, status' = "on", push # Nil, Session # Nil
               PROVE  push \in DOMAIN rows /\ rows[push] = Session
    BY <1>1 DEF OnIsReachable, Push!OnIsReachable, Push!Settled, Session, Valid
  <2>1. Undisturbed(t) /\ toggles[t].here
    BY <1>1, <1>2, ChainFacts
  <2>2. Session = toggles[t].user /\ push \in DOMAIN rows /\ rows[push] = toggles[t].user
    BY <1>1, <2>1 DEF Undisturbed, Session
  <2> QED
    BY <2>2
<1> QED
  BY <1>3, <1>4, <1>5, <1>6, <1>7 DEF PushInv

LEMMA FindSound ==
  ASSUME PushInv, UNCHANGED <<jar, now, page>>, Session \in UserIds \cup {Nil},
         NEW t \in Toggles, Push!Find(t)
  PROVE  PushInv'
<1>1. /\ toggles[t] # Nil /\ UNCHANGED <<push, dead, rows, mixed>>
  BY DEF Push!Find, Push!At
<1>2. CASE push = Nil
  <2>1. Push!Finish(t, "off")
    BY <1>2 DEF Push!Find
  <2>2. /\ toggles' \in [Toggles -> Push!Chain \cup {Nil}]
        /\ status' \in {"", "on", "off", "failed"}
        /\ \A s \in Toggles : toggles'[s] # Nil => toggles'[s] = toggles[s] /\ s # t
        /\ ~mixed => status' \in {"off", ""}
    BY <1>1, <2>1, ChainEnded
  <2>3. Push!PushTypeOK'
    BY <1>1, <2>2, PushTypes DEF Push!PushTypeOK
  <2>4. RowsForPush'
    BY <1>1, <2>2, PushTypes, RowsFollow
  <2>5. LeftAlone' /\ AloneUndisturbed'
    BY <1>1, <2>1, EndedAlone
  <2>6. DOMAIN rows \subseteq dead
    BY <1>2, PushTypes
  <2>7. OffIsSilent' /\ OnIsReachable'
    BY <1>1, <1>2, <2>6 DEF OffIsSilent, OnIsReachable, Push!OffIsSilent,
       Push!OnIsReachable
  <2> QED
    BY <2>3, <2>4, <2>5, <2>7 DEF PushInv
<1>3. CASE push # Nil
  <2>1. Push!Call(t, push) /\ UNCHANGED status
    BY <1>3 DEF Push!Find
  <2>2. PICK e \in Endpoints : e = push
    BY <1>3, PushTypes
  <2>3. push' = e /\ push \in {Nil, e} /\ e \notin dead
    BY <1>1, <2>2, PushTypes
  <2> QED
    BY <1>1, <2>1, <2>2, <2>3, CallSound
<1> QED
  BY <1>2, <1>3

LEMMA DisabledSound ==
  ASSUME PushInv, UNCHANGED <<jar, now, page>>, NEW t \in Toggles, Push!Disabled(t)
  PROVE  PushInv'
<1> DEFINE e == toggles[t].endpoint
<1>1. /\ toggles[t] # Nil /\ toggles[t].at = "handled" /\ Push!Finish(t, "off")
      /\ dead' = dead \cup {e} /\ push' = (IF push = e THEN Nil ELSE push)
      /\ UNCHANGED <<rows, mixed>>
  BY DEF Push!Disabled, Push!At
<1>2. e \in Endpoints \cap (dead \cup {push})
  BY <1>1, ChainFacts
<1> HIDE DEF e
<1>3. /\ toggles' \in [Toggles -> Push!Chain \cup {Nil}]
      /\ status' \in {"", "on", "off", "failed"}
      /\ \A s \in Toggles : toggles'[s] # Nil => toggles'[s] = toggles[s] /\ s # t
      /\ ~mixed => status' \in {"off", ""}
  BY <1>1, ChainEnded
<1>4. /\ push' \notin dead' /\ dead \subseteq dead' /\ dead' \subseteq Endpoints
      /\ push' \in Endpoints \cup {Nil}
      /\ DOMAIN rows \subseteq dead' \cup {push'}
      /\ push # Nil => push \in dead' \cup {push'}
  BY <1>1, <1>2, PushTypes
<1>5. Push!PushTypeOK'
  BY <1>1, <1>3, <1>4, PushTypes DEF Push!PushTypeOK
<1>6. RowsForPush'
  BY <1>1, <1>3, <1>4, RowsFollow
<1>7. LeftAlone' /\ AloneUndisturbed'
  BY <1>1, EndedAlone
<1>8. OffIsSilent'
  <2> SUFFICES ASSUME ~mixed PROVE DOMAIN rows' \subseteq dead'
    BY <1>1 DEF OffIsSilent, Push!OffIsSilent, Push!Settled
  <2>1. push \in {e, Nil}
    BY <1>1, ChainFacts DEF Undisturbed, e
  <2> QED
    BY <1>1, <2>1, PushTypes
<1>9. OnIsReachable'
  BY <1>1, <1>3 DEF OnIsReachable, Push!OnIsReachable, Push!Settled
<1> QED
  BY <1>5, <1>6, <1>7, <1>8, <1>9 DEF PushInv

LEMMA FailSound ==
  ASSUME PushInv, UNCHANGED <<jar, now, page>>, NEW t \in Toggles, Push!Fail(t)
  PROVE  PushInv'
<1>1. /\ toggles[t] # Nil /\ Push!Finish(t, "failed")
      /\ UNCHANGED <<push, dead, rows, mixed>>
  BY DEF Push!Fail
<1>2. /\ toggles' \in [Toggles -> Push!Chain \cup {Nil}]
      /\ status' \in {"", "on", "off", "failed"}
      /\ \A s \in Toggles : toggles'[s] # Nil => toggles'[s] = toggles[s] /\ s # t
      /\ ~mixed => status' \in {"failed", ""}
  BY <1>1, ChainEnded
<1>3. Push!PushTypeOK'
  BY <1>1, <1>2, PushTypes DEF Push!PushTypeOK
<1>4. RowsForPush'
  BY <1>1, <1>2, PushTypes, RowsFollow
<1>5. LeftAlone' /\ AloneUndisturbed'
  BY <1>1, EndedAlone
<1>6. OffIsSilent' /\ OnIsReachable'
  BY <1>1, <1>2 DEF OffIsSilent, OnIsReachable, Push!OffIsSilent, Push!OnIsReachable,
     Push!Settled
<1> QED
  BY <1>3, <1>4, <1>5, <1>6 DEF PushInv

\* Nothing changes for the chains and for what PushToggle says.
LEMMA ChainsKept ==
  ASSUME PushInv, UNCHANGED <<jar, now, page, toggles, status, mixed>>,
         push' \in {push, Nil},
         push \in DOMAIN rows =>
           push \in DOMAIN rows' /\ rows'[push] = rows[push]
  PROVE  LeftAlone' /\ AloneUndisturbed' /\ OnIsReachable'
<1>1. /\ Shows(page)' = Shows(page) /\ Session' = Session
      /\ Push!AtWork' = Push!AtWork
  BY DEF Shows, Session, Valid, Push!AtWork
<1>2. LeftAlone'
  BY <1>1 DEF PushInv, LeftAlone
<1>3. AloneUndisturbed'
  <2> SUFFICES ASSUME ~mixed, NEW t \in Push!AtWork PROVE Undisturbed(t)'
    BY <1>1 DEF PushInv, AloneUndisturbed
  <2>1. Undisturbed(t)
    BY DEF PushInv, AloneUndisturbed
  <2> QED
    BY <1>1, <2>1 DEF Undisturbed, Session
<1>4. OnIsReachable'
  BY <1>1 DEF PushInv, OnIsReachable, Push!OnIsReachable, Push!Settled, Session
<1> QED
  BY <1>2, <1>3, <1>4

LEMMA ExpireSound ==
  ASSUME PushInv, UNCHANGED <<jar, now, page>>, Push!Expire
  PROVE  PushInv'
<1>1. /\ push # Nil /\ dead' = dead \cup {push} /\ push' = Nil
      /\ UNCHANGED <<rows, toggles, status, mixed>>
  BY DEF Push!Expire
<1>2. Push!PushTypeOK'
  BY <1>1, PushTypes DEF Push!PushTypeOK
<1>3. RowsForPush'
  <2>1. push' \notin dead' /\ DOMAIN rows \subseteq dead' \cup {push'}
    BY <1>1, PushTypes
  <2>2. \A t \in Push!AtWork : toggles[t].at # "asked" =>
          toggles[t].endpoint \in Endpoints \cap (dead' \cup {push'})
    BY <1>1 DEF PushInv, RowsForPush
  <2> QED
    BY <1>1, <2>1, <2>2 DEF RowsForPush, Push!AtWork
<1>4. LeftAlone' /\ AloneUndisturbed' /\ OnIsReachable'
  BY <1>1, ChainsKept
<1>5. OffIsSilent'
  BY <1>1 DEF PushInv, OffIsSilent, Push!OffIsSilent, Push!Settled, Push!AtWork
<1> QED
  BY <1>2, <1>3, <1>4, <1>5 DEF PushInv

LEMMA DropDeadSound ==
  ASSUME PushInv, UNCHANGED <<jar, now, page>>, NEW e \in Endpoints, Push!DropDead(e)
  PROVE  PushInv'
<1>1. /\ e \in dead /\ rows' = [x \in DOMAIN rows \ {e} |-> rows[x]]
      /\ UNCHANGED <<push, dead, toggles, status, mixed>>
  BY DEF Push!DropDead, Push!Restrict
<1>2. /\ DOMAIN rows' \subseteq DOMAIN rows /\ rows' \in [DOMAIN rows' -> UserIds]
      /\ push \in DOMAIN rows => push \in DOMAIN rows' /\ rows'[push] = rows[push]
  BY <1>1, PushTypes
<1>3. Push!PushTypeOK'
  BY <1>1, <1>2, PushTypes DEF Push!PushTypeOK
<1>4. RowsForPush'
  BY <1>1, <1>2 DEF PushInv, RowsForPush, Push!AtWork
<1>5. LeftAlone' /\ AloneUndisturbed' /\ OnIsReachable'
  BY <1>1, <1>2, ChainsKept
<1>6. OffIsSilent'
  BY <1>1, <1>2 DEF PushInv, OffIsSilent, Push!OffIsSilent, Push!Settled, Push!AtWork
<1> QED
  BY <1>3, <1>4, <1>5, <1>6 DEF PushInv

LEMMA PushStepSound ==
  ASSUME PushInv, UNCHANGED <<jar, now, page>>, Session \in UserIds \cup {Nil},
         Push!PushNext
  PROVE  PushInv'
<1>1. ASSUME NEW t \in Toggles, NEW op \in {"enable", "disable"}, Push!Click(t, op)
      PROVE  PushInv'
  BY <1>1, ClickSound
<1>2. ASSUME NEW t \in Toggles, \/ Push!Subscribe(t) \/ Push!Save(t) \/ Push!Enabled(t)
                                \/ Push!Find(t) \/ Push!Delete(t) \/ Push!Disabled(t)
                                \/ Push!Fail(t)
      PROVE  PushInv'
  BY <1>2, SubscribeSound, SaveSound, EnabledSound, FindSound, DeleteSound,
     DisabledSound, FailSound
<1>3. ASSUME NEW e \in Endpoints, Push!DropDead(e) PROVE PushInv'
  BY <1>3, DropDeadSound
<1>4. CASE Push!Expire
  BY <1>4, ExpireSound
<1> QED
  BY <1>1, <1>2, <1>3, <1>4 DEF Push!PushNext

--------------------------------------------------------------------------------
(* What the page does to PushToggle *)

\* While the groups are shown, the browser's session is the same or has expired.
LEMMA SessionWhileShown ==
  ASSUME PageInv, PageInv', Elsewhere \/ \E k \in Calls : Browse(k), Shows(page)'
  PROVE  Session' \in {Session, Nil}
<1>1. jar'[Browser] = jar[Browser] /\ now' \in Nat /\ now' >= now
  <2>1. CASE Elsewhere
    BY <2>1, ElsewhereKeeps, PageTypes
  <2>2. ASSUME NEW k \in Calls, Browse(k) PROVE jar' = jar /\ now' = now
    <3>1. ~SubmitAnswered(k)
      BY PageTypes DEF SubmitAnswered, Shows, Page
    <3> QED
      BY <2>2, <3>1 DEF Browse, Submit, Post, SubmitFailed, MeAnswered, MeFailed, Focus,
         GroupsAnswered, GroupsFailed, Navigate
  <2> QED
    BY <2>1, <2>2, PageTypes, CallTypes
<1>2. jar[Browser] \in Token \cup {Nil} /\ now \in Nat
  BY PageTypes, CallTypes
<1>3. ~Valid(jar[Browser]) => ~Valid(jar[Browser])'
  BY <1>1, <1>2, Expired DEF Valid
<1> QED
  BY <1>1, <1>3 DEF Session

\* Chains that were left, and a PushToggle that has said nothing yet, are sure of
\* nothing that the page could change.
LEMMA LeaveSound ==
  ASSUME PushInv, Push!Leave \/ Push!Reload PROVE PushInv'
<1>1. /\ status' = "" /\ UNCHANGED <<push, dead, rows, mixed>>
      /\ toggles' = [t \in Toggles |-> toggles'[t]]
      /\ \A t \in Toggles : toggles'[t] # Nil =>
           toggles[t] # Nil /\ toggles'[t] = [toggles[t] EXCEPT !.here = FALSE]
  BY DEF Push!Leave, Push!Reload
<1>2. \A t \in Toggles : toggles'[t] # Nil =>
        /\ t \in Push!AtWork /\ toggles'[t] \in Push!Chain
        /\ ~toggles'[t].here /\ toggles'[t].at = toggles[t].at
        /\ toggles'[t].endpoint = toggles[t].endpoint /\ toggles'[t].op = toggles[t].op
        /\ toggles'[t].user = toggles[t].user
  <2> SUFFICES ASSUME NEW t \in Toggles, toggles'[t] # Nil
               PROVE  /\ t \in Push!AtWork /\ toggles'[t] \in Push!Chain
                      /\ ~toggles'[t].here /\ toggles'[t].at = toggles[t].at
                      /\ toggles'[t].endpoint = toggles[t].endpoint
                      /\ toggles'[t].op = toggles[t].op
                      /\ toggles'[t].user = toggles[t].user
    OBVIOUS
  <2>1. t \in Push!AtWork /\ toggles'[t] = [toggles[t] EXCEPT !.here = FALSE]
    BY <1>1 DEF Push!AtWork
  <2>2. toggles[t] \in Push!Chain
    BY <2>1, PushTypes DEF Push!AtWork
  <2> QED
    BY <2>1, <2>2 DEF Push!Chain
<1>3. Push!PushTypeOK'
  BY <1>1, <1>2, PushTypes DEF Push!PushTypeOK
<1>4. RowsForPush'
  BY <1>1, <1>2 DEF PushInv, RowsForPush, Push!AtWork
<1>5. LeftAlone'
  BY <1>1, <1>2 DEF LeftAlone, Push!AtWork
<1>6. AloneUndisturbed'
  <2> SUFFICES ASSUME ~mixed
               PROVE  /\ \A s, t \in Push!AtWork' : s = t
                      /\ \A t \in Push!AtWork' : Undisturbed(t)'
    BY <1>1 DEF AloneUndisturbed
  <2>1. \A s, t \in Push!AtWork' : s = t
    BY <1>2 DEF PushInv, AloneUndisturbed, Push!AtWork
  <2>2. ASSUME NEW t \in Push!AtWork' PROVE Undisturbed(t)'
    <3>1. t \in Toggles /\ toggles'[t] # Nil
      BY <2>2 DEF Push!AtWork
    <3>2. t \in Push!AtWork
      BY <1>2, <3>1
    <3>3. Undisturbed(t)
      BY <3>2 DEF PushInv, AloneUndisturbed
    <3> QED
      BY <1>1, <1>2, <3>1, <3>3 DEF Undisturbed
  <2> QED
    BY <2>1, <2>2
<1>7. OffIsSilent' /\ OnIsReachable'
  BY <1>1 DEF OffIsSilent, OnIsReachable, Push!OffIsSilent, Push!OnIsReachable
<1> QED
  BY <1>3, <1>4, <1>5, <1>6, <1>7 DEF PushInv

\* PushToggle stays, or was not there: its chains go on as they were.
LEMMA StaySound ==
  ASSUME PushInv, UNCHANGED pushVars,
         ~Shows(page) \/ Session' \in {Session, Nil},
         ~Shows(page) \/ Shows(page)'
  PROVE  PushInv'
<1>1. UNCHANGED <<push, dead, rows, toggles, status, mixed>>
  BY DEF pushVars
<1>2. Push!AtWork' = Push!AtWork
  BY <1>1 DEF Push!AtWork
<1>3. ~Shows(page) => status = "" /\ \A t \in Push!AtWork : ~toggles[t].here
  BY DEF PushInv, LeftAlone
<1>4. Push!PushTypeOK' /\ RowsForPush'
  BY <1>1, <1>2 DEF PushInv, Push!PushTypeOK, RowsForPush
<1>5. LeftAlone'
  BY <1>1, <1>2, <1>3 DEF LeftAlone
<1>6. AloneUndisturbed'
  <2> SUFFICES ASSUME ~mixed, NEW t \in Push!AtWork PROVE Undisturbed(t)'
    BY <1>1, <1>2 DEF PushInv, AloneUndisturbed
  <2>1. Undisturbed(t)
    BY DEF PushInv, AloneUndisturbed
  <2>2. /\ ~toggles[t].here => status = ""
        /\ toggles[t].at # "asked" => push \in {toggles[t].endpoint, Nil}
        /\ toggles[t].at # "asked" /\ toggles[t].here =>
             Session' \in {toggles[t].user, Nil}
        /\ toggles[t].op = "enable" /\ toggles[t].at = "handled" /\ push # Nil =>
             push \in DOMAIN rows /\ rows[push] = toggles[t].user
    BY <1>3, <2>1 DEF Undisturbed, Session
  <2> QED
    BY <1>1, <2>2 DEF Undisturbed, Session
<1>7. OffIsSilent'
  BY <1>1, <1>2 DEF PushInv, OffIsSilent, Push!OffIsSilent, Push!Settled
<1>8. OnIsReachable'
  <2> SUFFICES ASSUME Push!AtWork = {}, ~mixed, status = "on", push # Nil, Session' # Nil
               PROVE  push \in DOMAIN rows /\ rows[push] = Session'
    BY <1>1, <1>2 DEF OnIsReachable, Push!OnIsReachable, Push!Settled, Session
  <2>1. Session' = Session
    BY <1>3
  <2> QED
    BY <2>1 DEF PushInv, OnIsReachable, Push!OnIsReachable, Push!Settled, Session
<1> QED
  BY <1>4, <1>5, <1>6, <1>7, <1>8 DEF PushInv

--------------------------------------------------------------------------------
(* The theorems *)

LEMMA WebInvIs == WebInv <=> PageInv /\ PushInv
BY DEF WebInv, PushInv

LEMMA WebInitSound == WebInit => WebInv
<1> SUFFICES ASSUME WebInit PROVE WebInv
  OBVIOUS
<1>1. /\ AInv /\ calls = [k \in Calls |-> Nil]
      /\ page = [route |-> "closed", userId |-> Nil, loading |-> TRUE, history |-> FALSE]
      /\ cache = Nil /\ excuses = {}
  BY InitSound DEF WebInit, ClientInit, AccountsInit
<1>2. \A k \in Calls : calls[k] = Nil
  BY <1>1
<1>3. PageTypeOK /\ GatedAnswers
  BY <1>1, <1>2 DEF PageTypeOK, Page, GatedAnswers
<1>4. ClosedQuiet /\ MeInStep /\ FetchInStep /\ PageKnowsUser /\ OwnGroupsShown
  BY <1>1, <1>2 DEF ClosedQuiet, MeInStep, FetchInStep, PageKnowsUser, OwnGroupsShown,
     UnderWay, Mine, Shows
<1>5. PageInv
  BY <1>1, <1>3, <1>4 DEF PageInv
<1>6. /\ push = Nil /\ dead = {} /\ DOMAIN rows = {} /\ status = "" /\ mixed = FALSE
      /\ rows = [e \in {} |-> Nil] /\ toggles = [t \in Toggles |-> Nil]
      /\ Push!AtWork = {}
  BY DEF WebInit, Push!PushInit, Push!AtWork
<1>7. Push!PushTypeOK
  BY <1>6 DEF Push!PushTypeOK
<1>8. RowsForPush /\ LeftAlone /\ AloneUndisturbed
  BY <1>6 DEF RowsForPush, LeftAlone, AloneUndisturbed
<1>9. OffIsSilent /\ OnIsReachable
  BY <1>6 DEF OffIsSilent, OnIsReachable, Push!OffIsSilent, Push!OnIsReachable
<1> QED
  BY <1>5, <1>7, <1>8, <1>9, WebInvIs DEF PushInv

LEMMA PageUnchanged == PageInv /\ UNCHANGED clientVars => PageInv'
<1> SUFFICES ASSUME PageInv, UNCHANGED clientVars PROVE PageInv'
  OBVIOUS
<1>1. UNCHANGED <<users, jar, calls, now, enrolled, page, cache, excuses>>
  BY DEF clientVars
<1>2. AInv'
  BY <1>1, StepSound, PageTypes DEF accountVars
<1>3. GatedAnswers'
  BY <1>1 DEF PageInv, GatedAnswers, Valid
<1>4. \A j \in Calls : SameCall(j)
  BY <1>1 DEF SameCall, Own, Reads
<1>5. UNCHANGED pageVars /\ now' \in Nat /\ now' >= now
  BY <1>1, PageTypes, CallTypes DEF pageVars
<1> QED
  BY <1>1, <1>2, <1>3, <1>4, <1>5, SameUnderWay, PageKept

LEMMA SessionType == PageInv => Session \in UserIds \cup {Nil}
<1> SUFFICES ASSUME PageInv, Valid(jar[Browser]) PROVE jar[Browser].user \in UserIds
  BY DEF Session
<1> QED
  BY PageTypes DEF Valid, Token

LEMMA WebStepSound == WebInv /\ [WebNext]_webVars => WebInv'
<1> SUFFICES ASSUME PageInv, PushInv, [WebNext]_webVars PROVE PageInv' /\ PushInv'
  BY WebInvIs DEF WebInv, PushInv
<1>1. CASE UNCHANGED webVars
  <2>1. UNCHANGED clientVars /\ UNCHANGED pushVars
    BY <1>1 DEF webVars, clientVars, pushVars
  <2>2. Session' = Session /\ Shows(page)' = Shows(page)
    BY <2>1 DEF clientVars, Session, Shows, Valid
  <2> QED
    BY <2>1, <2>2, PageUnchanged, StaySound
<1>2. CASE Push!PushNext /\ UNCHANGED clientVars
  <2>1. UNCHANGED <<jar, now, page>>
    BY <1>2 DEF clientVars
  <2> QED
    BY <1>2, <2>1, PageUnchanged, PushStepSound, SessionType
<1>3. CASE /\ Elsewhere \/ \E k \in Calls : Browse(k)
           /\ IF Shows(page) /\ ~Shows(page)' THEN Push!Leave ELSE UNCHANGED pushVars
  <2>1. PageInv'
    BY <1>3, ElsewhereSound, BrowseSound
  <2>2. CASE Shows(page) /\ ~Shows(page)'
    BY <1>3, <2>1, <2>2, LeaveSound
  <2>3. CASE ~(Shows(page) /\ ~Shows(page)')
    <3>1. UNCHANGED pushVars
      BY <1>3, <2>3
    <3>2. Shows(page)' => Session' \in {Session, Nil}
      BY <1>3, <2>1, SessionWhileShown
    <3> QED
      BY <2>1, <2>3, <3>1, <3>2, StaySound
  <2> QED
    BY <2>1, <2>2, <2>3
<1>4. CASE /\ \E k \in Calls, route \in {"login", "groups"} : Open(k, route)
           /\ Push!Reload
  BY <1>4, OpenSound, LeaveSound
<1> QED
  BY <1>1, <1>2, <1>3, <1>4 DEF WebNext, PageChanges

LEMMA AlwaysWebInv == WebSpec => []WebInv
BY WebInitSound, WebStepSound, PTL DEF WebSpec

\* The page answers no call.
LEMMA PageAnswersNothing ==
  ASSUME PageInv, NEW k \in Calls, Handled(k),
         NEW j \in Calls, Browse(j) \/ \E route \in {"login", "groups"} : Open(j, route)
  PROVE  FALSE
<1>1. calls[k] # Nil /\ calls[k].status = 0 /\ calls'[k] # Nil /\ calls'[k].status # 0
  BY DEF Handled
<1>2. calls \in [Calls -> Call \cup {Nil}]
  BY PageTypes
<1>3. ASSUME NEW new, calls' = [calls EXCEPT ![j] = new], new = Nil \/ new.status = 0
      PROVE  FALSE
  BY <1>1, <1>2, <1>3
<1>4. \A op : Ask(op).status = 0
  BY DEF Ask, Request
<1>5. CASE Submit(j)
  <2>1. \E a \in Attempts : calls' = [calls EXCEPT ![j] =
          Request(a.op, Browser, jar[Browser], a.cred, a.name)]
    BY <1>5 DEF Submit, Post
  <2>2. \A op, cred, name : Request(op, Browser, jar[Browser], cred, name).status = 0
    BY DEF Request
  <2> QED
    BY <1>3, <2>1, <2>2
<1>6. CASE SubmitAnswered(j)
  <2>1. calls' = [calls EXCEPT ![j] = [Ask("me") EXCEPT !.cookie = calls[j].token]]
    BY <1>6 DEF SubmitAnswered
  <2>2. [Ask("me") EXCEPT !.cookie = calls[j].token].status = 0
    BY DEF Ask, Request
  <2> QED
    BY <1>3, <2>1, <2>2
<1>7. CASE SubmitFailed(j) \/ GroupsAnswered(j)
  BY <1>3, <1>7 DEF SubmitFailed, GroupsAnswered
<1>8. CASE Focus(j) \/ GroupsFailed(j)
  BY <1>3, <1>4, <1>8 DEF Focus, GroupsFailed
<1>9. CASE MeAnswered(j) \/ MeFailed(j) \/ Navigate(j)
  <2>1. \E p, why : Render(j, p, why, Nil)
    BY <1>9 DEF MeAnswered, MeFailed, Navigate
  <2>2. calls' = [calls EXCEPT ![j] = Ask("groups")] \/ calls' = [calls EXCEPT ![j] = Nil]
    BY <2>1 DEF Render
  <2> QED
    BY <1>3, <1>4, <2>2
<1>10. CASE \E route \in {"login", "groups"} : Open(j, route)
  <2>1. calls'[k] \in {Ask("me"), Nil, calls[k]}
    BY <1>10 DEF Open
  <2> QED
    BY <1>1, <1>4, <2>1
<1> QED
  BY <1>5, <1>6, <1>7, <1>8, <1>9, <1>10 DEF Browse

\* Only its handler answers a call, whatever the page does.
LEMMA WebAnsweredByHandler ==
  ASSUME WebInv, [WebNext]_webVars, NEW k \in Calls, Handled(k)
  PROVE  Handle(k)
<1>1. PageInv /\ AInv
  BY WebInvIs, PageTypes
<1>2. CASE UNCHANGED webVars \/ (Push!PushNext /\ UNCHANGED clientVars)
  BY <1>2 DEF webVars, clientVars, Handled
<1>3. CASE Elsewhere
  <2>1. AccountsNext
    BY <1>3 DEF Elsewhere, AccountsNext
  <2> QED
    BY <1>1, <2>1, AnsweredByHandler
<1>4. CASE \E j \in Calls : Browse(j) \/ \E route \in {"login", "groups"} : Open(j, route)
  BY <1>1, <1>4, PageAnswersNothing
<1> QED
  BY <1>2, <1>3, <1>4 DEF WebNext, PageChanges

\* What is known of accounts and sessions is so in a browser as well, where the
\* next call carries the session that the last login has left (SubmitAnswered).
THEOREM WebAccounts ==
  WebSpec => [](AccountsTypeOK /\ OneAccountPerEmail /\ SessionsByCredential)
<1>1. WebInv => AccountsTypeOK /\ OneAccountPerEmail /\ SessionsByCredential
  BY UniqueByEmail DEF WebInv, PageInv, AInv
<1> QED
  BY <1>1, AlwaysWebInv, PTL

\* Of the registrations that the page and others send for one e-mail, the first to
\* take effect is answered 201 and all others 409.
THEOREM WebFirstWins == WebSpec => FirstRegistrationWins
<1>1. WebInv /\ [WebNext]_webVars =>
        \A k \in Calls : Handled(k) /\ calls[k].op = "register" /\ ~Malformed(calls[k]) =>
          calls'[k].status = IF \E e \in enrolled : SameEmail(e, calls[k].cred)
                             THEN 409 ELSE 201
  BY WebAnsweredByHandler, RegisterAnswered DEF WebInv, PageInv
<1> QED
  BY <1>1, AlwaysWebInv, PTL DEF WebSpec, FirstRegistrationWins

\* Whoever has registered gets in from the page too, and nobody else does.
THEOREM WebGetIn == WebSpec => RegisteredGetIn
<1>1. WebInv /\ [WebNext]_webVars =>
        \A k \in Calls : Handled(k) /\ calls[k].op = "login" =>
          (calls'[k].status = 200 <=>
             \E e \in enrolled : SameEmail(e, calls[k].cred) /\ e.hash = calls[k].cred.hash)
  BY WebAnsweredByHandler, LoginAnswered DEF WebInv, PageInv
<1> QED
  BY <1>1, AlwaysWebInv, PTL DEF WebSpec, RegisteredGetIn

\* The page, its calls, the subscriptions and the chains have their types.
THEOREM ClientTypes == WebSpec => []ClientTypeOK
<1>1. WebInv => ClientTypeOK
  BY DEF WebInv, PageInv, ClientTypeOK
<1> QED
  BY <1>1, AlwaysWebInv, PTL

\* When every me() has been answered, and in turn, AuthContext's user is the one
\* whose session the browser holds, or there is none that is valid.
THEOREM AlwaysKnowsUser == WebSpec => []PageKnowsUser
<1>1. WebInv => PageKnowsUser
  BY DEF WebInv, PageInv
<1> QED
  BY <1>1, AlwaysWebInv, PTL

\* The list of groups that Groups shows when nothing is under way is its user's,
\* though the query client keeps what earlier users have fetched.
THEOREM AlwaysOwnGroups == WebSpec => []OwnGroupsShown
<1>1. WebInv => OwnGroupsShown
  BY DEF WebInv, PageInv
<1> QED
  BY <1>1, AlwaysWebInv, PTL

\* Once PushToggle has said "off" and its chains did not overlap, no row is left
\* that reaches this browser, whoever used it.
THEOREM AlwaysOffIsSilent == WebSpec => []OffIsSilent
<1>1. WebInv => OffIsSilent
  BY DEF WebInv
<1> QED
  BY <1>1, AlwaysWebInv, PTL

\* Once PushToggle has said "on" and its chains did not overlap, the row of this
\* browser's subscription is its user's, though it was somebody else's before.
THEOREM AlwaysOnIsReachable == WebSpec => []OnIsReachable
<1>1. WebInv => OnIsReachable
  BY DEF WebInv
<1> QED
  BY <1>1, AlwaysWebInv, PTL

================================================================================
