------------------------------ MODULE AuthClient ------------------------------
(***************************************************************************)
(* The page in a browser: auth/AuthContext.tsx, Protected in App.tsx,      *)
(* routes/Login.tsx, and the list of groups that routes/Groups.tsx shows   *)
(* through react-query.  It talks to the handlers of Accounts; everything  *)
(* it awaits may be answered late, out of order or not at all.             *)
(***************************************************************************)
EXTENDS Accounts

CONSTANTS
  Browser,   \* the client the page runs in
  Browsing   \* whether those who use it go back, forth and reload

ASSUME BrowserAssumption == Browser \in Clients
ASSUME BrowsingAssumption == Browsing \in BOOLEAN

VARIABLES
  page,      \* the router, AuthContext and whether /login and /groups are both
             \* in the history
  cache,     \* whose groups the query client holds
  excuses    \* history: what has happened to the page that may leave it wrong

pageVars == <<page, cache, excuses>>
clientVars == <<users, jar, calls, now, enrolled, page, cache, excuses>>

Excuses == {"raced",    \* me() was under way when somebody logged in
            "lost",     \* the last me() was not answered
            "joined",   \* the list was mounted with an earlier fetch under way
            "gaveUp"}   \* the last fetch failed for good

Page == [route : {"closed", "login", "groups"}, userId : UserIds \cup {Nil},
         loading : BOOLEAN, history : BOOLEAN]

--------------------------------------------------------------------------------
(* What is under way and what is shown *)

Mine(k, ops) == calls[k] # Nil /\ calls[k].from = Browser /\ calls[k].op \in ops
UnderWay(ops) == {k \in Calls : Mine(k, ops)}

\* Protected shows its children, here Groups.
Shows(p) == p.route = "groups" /\ ~p.loading /\ p.userId # Nil

\* Protected sends to /login whom it does not know.
Routed(p) == IF p.route = "groups" /\ ~p.loading /\ p.userId = Nil
             THEN [p EXCEPT !.route = "login"] ELSE p

Ask(op) == Request(op, Browser, jar[Browser], Nil, Nil)

\* Fault: what the cache holds counts as fresh (staleTime: Infinity).
RenderFresh(k, p, why, next) ==
  /\ page' = p
  /\ excuses' = why
  /\ calls' = [calls EXCEPT ![k] =
       IF Shows(p) /\ ~Shows(page) /\ cache = Nil /\ UnderWay({"groups"}) = {}
       THEN Ask("groups") ELSE next]

\* The page becomes p; next is what slot k is used for.  When Groups is mounted,
\* it fetches the list, or joins the fetch that is under way.
Render(k, p, why, next) ==
  LET mounts == Shows(p) /\ ~Shows(page)
      fetching == UnderWay({"groups"}) # {}
  IN
  /\ page' = p
  /\ excuses' = IF ~mounts THEN why ELSE IF fetching THEN why \cup {"joined"}
                ELSE why \ {"joined", "gaveUp"}
  /\ calls' = [calls EXCEPT ![k] = IF mounts /\ ~fetching THEN Ask("groups") ELSE next]

--------------------------------------------------------------------------------
(* The page *)

\* A load of the page: what was under way is given up, and AuthProvider's effect
\* calls refresh.
Open(k, route) ==
  /\ page.route = "closed" \/ Browsing
  /\ calls[k] = Nil \/ Mine(k, LoginOps \cup GatedOps)
  /\ page' = [route |-> route, userId |-> Nil, loading |-> TRUE, history |-> FALSE]
  /\ cache' = Nil
  /\ excuses' = {}
  /\ calls' = [j \in Calls |-> IF j = k THEN Ask("me")
                               ELSE IF calls[j] # Nil /\ calls[j].from = Browser THEN Nil
                               ELSE calls[j]]
  /\ UNCHANGED <<users, jar, now, enrolled>>

\* onSubmit, onDev and Google's callback; nothing keeps anybody from doing it
\* twice.  Short passwords are not sent to be registered.
Submit(k) ==
  /\ page.route = "login"
  /\ \E a \in Attempts :
       /\ a.op = "register" => a.cred.hash \notin Weak
       /\ Post(k, a.op, Browser, a.cred, a.name)
  /\ UNCHANGED pageVars

\* Fault: Login navigates without refresh().
SubmitAnsweredNoRefresh(k) ==
  /\ Answered(k) /\ Mine(k, LoginOps) /\ calls[k].token # Nil
  /\ jar' = JarAfter(calls[k])
  /\ page' = Routed([page EXCEPT !.route = "groups", !.history = TRUE])
  /\ calls' = [calls EXCEPT ![k] = Nil]
  /\ excuses' = excuses \ {"raced", "lost"}
  /\ UNCHANGED <<users, now, enrolled, cache>>

\* The login has succeeded: refresh(), then nav("/groups").
SubmitAnswered(k) ==
  /\ Answered(k) /\ Mine(k, LoginOps) /\ calls[k].token # Nil
  /\ jar' = JarAfter(calls[k])
  /\ page' = [page EXCEPT !.route = "groups", !.loading = TRUE, !.history = TRUE]
  /\ calls' = [calls EXCEPT ![k] = [Ask("me") EXCEPT !.cookie = calls[k].token]]
  /\ excuses' = (excuses \ {"raced", "lost"})
                  \cup (IF UnderWay({"me"}) = {} THEN {} ELSE {"raced"})
  /\ UNCHANGED <<users, now, enrolled, cache>>

\* The login is refused or its answer is lost: the error is shown.
SubmitFailed(k) ==
  /\ Mine(k, LoginOps)
  /\ calls' = [calls EXCEPT ![k] = Nil]
  /\ UNCHANGED <<users, jar, now, enrolled, page, cache, excuses>>

\* me() resolves: setUserId(u.id), setLoading(false).
MeAnswered(k) ==
  /\ Answered(k) /\ Mine(k, {"me"}) /\ calls[k].status = 200
  /\ Render(k, [page EXCEPT !.userId = calls[k].user, !.loading = FALSE], excuses, Nil)
  /\ UNCHANGED <<users, jar, now, enrolled, cache>>

\* me() is rejected, by a 401 or by the network: setUserId(null).
MeFailed(k) ==
  /\ Mine(k, {"me"})
  /\ LET refused == Answered(k) /\ calls[k].status # 200 IN
     Render(k, Routed([page EXCEPT !.userId = Nil, !.loading = FALSE]),
            IF refused THEN excuses ELSE excuses \cup {"lost"}, Nil)
  /\ UNCHANGED <<users, jar, now, enrolled, cache>>

\* Fetched by react-query: on a mount, or for a window that gets the focus.
Focus(k) ==
  /\ Shows(page) /\ UnderWay({"groups"}) = {} /\ calls[k] = Nil
  /\ calls' = [calls EXCEPT ![k] = Ask("groups")]
  /\ excuses' = excuses \ {"joined", "gaveUp"}
  /\ UNCHANGED <<users, jar, now, enrolled, page, cache>>

GroupsAnswered(k) ==
  /\ Answered(k) /\ Mine(k, {"groups"}) /\ calls[k].status = 200
  /\ cache' = calls[k].user
  /\ calls' = [calls EXCEPT ![k] = Nil]
  /\ UNCHANGED <<users, jar, now, enrolled, page, excuses>>

\* A fetch that fails is tried again, and given up after three times: what the
\* cache holds stays.
GroupsFailed(k) ==
  /\ Mine(k, {"groups"})
  /\ ~(Answered(k) /\ calls[k].status = 200)
  /\ \/ /\ calls' = [calls EXCEPT ![k] = Ask("groups")]
        /\ excuses' = excuses \ {"joined"}
     \/ /\ calls' = [calls EXCEPT ![k] = Nil]
        /\ excuses' = excuses \cup {"gaveUp"}
  /\ UNCHANGED <<users, jar, now, enrolled, page, cache>>

\* Back and forward: the router follows, nothing is loaded again.
Navigate(k) ==
  /\ Browsing /\ page.history /\ calls[k] = Nil
  /\ Render(k, Routed([page EXCEPT !.route = IF @ = "login" THEN "groups" ELSE "login"]),
            excuses, Nil)
  /\ UNCHANGED <<users, jar, now, enrolled, cache>>

--------------------------------------------------------------------------------
Browse(k) ==
  \/ Submit(k) \/ SubmitAnswered(k) \/ SubmitFailed(k) \/ MeAnswered(k) \/ MeFailed(k)
  \/ Focus(k) \/ GroupsAnswered(k) \/ GroupsFailed(k) \/ Navigate(k)

\* The other clients and the server.
Elsewhere ==
  /\ \/ \E k \in Calls : Handle(k)
     \/ \E k \in Calls : ~Mine(k, LoginOps \cup GatedOps) /\ (Arrive(k) \/ Lose(k))
     \/ \E k \in Calls, c \in Clients \ {Browser} : Send(k, c)
     \/ Tick
  /\ UNCHANGED pageVars

ClientInit ==
  /\ AccountsInit
  /\ page = [route |-> "closed", userId |-> Nil, loading |-> TRUE, history |-> FALSE]
  /\ cache = Nil
  /\ excuses = {}

ClientNext ==
  \/ Elsewhere
  \/ \E k \in Calls : Browse(k) \/ \E route \in {"login", "groups"} : Open(k, route)

ClientSpec == ClientInit /\ [][ClientNext]_clientVars

--------------------------------------------------------------------------------
(* Properties *)

PageTypeOK ==
  /\ page \in Page
  /\ cache \in UserIds \cup {Nil}
  /\ excuses \subseteq Excuses

\* When no me() is under way, the page takes its user for the one whose session
\* the browser holds - unless answers were lost or overtook each other, or the
\* session has expired meanwhile.
PageKnowsUser ==
  UnderWay({"me"}) = {} /\ page.route # "closed" /\ excuses \cap {"raced", "lost"} = {} =>
    \/ page.userId = Nil /\ ~Valid(jar[Browser])
    \/ jar[Browser] # Nil /\ page.userId = jar[Browser].user

\* The groups on the page are its user's: the query client outlives logins and
\* never drops what an earlier user has seen.
OwnGroupsShown ==
  Shows(page) /\ UnderWay({"me", "groups"}) = {} /\ excuses = {} => cache = page.userId

--------------------------------------------------------------------------------
(* What the design says and the code does not do *)

\* "passwordLogin -> refresh() -> navigate /groups": whoever has logged in, and
\* has had every answer, is on the page of groups.
LoginReachesGroups ==
  /\ page.history /\ UnderWay(LoginOps \cup GatedOps) = {}
  /\ Valid(jar[Browser]) /\ "lost" \notin excuses
  => Shows(page)

--------------------------------------------------------------------------------
(* The inductive invariant *)

\* What Gated answers stays true: an expired session never becomes valid again.
GatedAnswers ==
  \A k \in Calls : calls[k] # Nil /\ calls[k].op \in {"me", "groups"} =>
    /\ calls[k].status \in {0, 200, 401}
    /\ calls[k].status = 200 => calls[k].cookie # Nil /\ calls[k].user = calls[k].cookie.user
    /\ calls[k].status = 401 => ~Valid(calls[k].cookie)

\* A browser that has not opened the page makes no calls.
ClosedQuiet ==
  page.route = "closed" => UnderWay(LoginOps \cup GatedOps) = {} /\ ~page.history

\* Unless a login came in between, there is one me() at a time, for the session
\* that the browser holds, and the page says so.
MeInStep ==
  "raced" \notin excuses =>
    /\ \A j, k \in UnderWay({"me"}) : j = k
    /\ \A k \in UnderWay({"me"}) : calls[k].cookie = jar[Browser] /\ page.loading

\* There is one fetch at a time; it is for the session that the browser holds,
\* unless the page that shows the groups has joined it.
FetchInStep ==
  /\ \A j, k \in UnderWay({"groups"}) : j = k
  /\ Shows(page) /\ excuses \cap {"raced", "lost", "joined"} = {} =>
       \A k \in UnderWay({"groups"}) : calls[k].cookie = jar[Browser]

PageInv ==
  /\ AInv
  /\ PageTypeOK
  /\ GatedAnswers
  /\ ClosedQuiet
  /\ MeInStep
  /\ FetchInStep
  /\ PageKnowsUser
  /\ OwnGroupsShown

================================================================================
