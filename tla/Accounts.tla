------------------------------- MODULE Accounts -------------------------------
(***************************************************************************)
(* Accounts and sessions: service/users.go, httpapi/auth_handlers.go,      *)
(* SessionMiddleware, auth/session.go and users.sql.                       *)
(*                                                                         *)
(* A call goes from a client to one of the handlers and back, and calls    *)
(* overtake each other on both ways.  A handler runs one statement, so it  *)
(* is one step.  Sessions are tokens that only clients keep.               *)
(***************************************************************************)
EXTENDS Naturals, FiniteSets

CONSTANTS
  UserIds,        \* uuids of users rows
  Texts,          \* what people type into a field
  Trim, Lower,    \* functions on them: TrimSpace and ToLower
  Blank,          \* the empty text
  Passwords,
  Weak,           \* those shorter than 8 bytes
  Subjects,       \* whom the providers' valid ID tokens speak of
  Attempts,       \* the bodies people send to register or log in
  Clients,        \* cookie jars
  Calls,          \* how many calls may be under way at once
  TTL,            \* 30 days
  MaxTime,        \* bound of the model: where the clock stops
  AllowDevLogin,
  Nil

ASSUME TextAssumption ==
  /\ Trim \in [Texts -> Texts] /\ Lower \in [Texts -> Texts]
  /\ \A t \in Texts : Lower[Trim[Lower[Trim[t]]]] = Lower[Trim[t]]
ASSUME ClockAssumption == TTL \in Nat /\ MaxTime \in Nat
ASSUME AccountNilAssumption ==
  Nil \notin UserIds \cup Passwords \cup Clients \cup Texts \cup Subjects

VARIABLES
  users,     \* the table: a function from the ids of its rows
  jar,       \* the pp_session cookie of each client
  calls,     \* the calls under way
  now,
  enrolled   \* history: the e-mail and password of every registration that
             \* has taken effect, as they were typed

accountVars == <<users, jar, calls, now, enrolled>>

--------------------------------------------------------------------------------
(* Rows, tokens and calls.  Name, e-mail and avatar, which UpsertUser and      *)
(* UpsertDummyUser refresh and no statement looks for, are left out.           *)

User == [provider : {"password", "google", "dummy"}, sub : Texts \cup Subjects,
         hash : Passwords \cup {Nil}]

\* What a person shows to get in; Apple's tokens are handled as Google's.
Credential == User

\* The claims sub and exp.  by is history: what the session was issued for.
Token == [user : UserIds, exp : Nat, by : Credential]

LoginOps == {"register", "login", "oidc", "dev"}
GatedOps == {"me", "groups", "logout"}
Statuses == {0, 200, 201, 204, 400, 401, 404, 409, 500}

PasswordCreds == [provider : {"password"}, sub : Texts, hash : Passwords]
GoogleCreds == [provider : {"google"}, sub : Subjects, hash : {Nil}]
DummyCreds == [provider : {"dummy"}, sub : Texts, hash : {Nil}]

\* Only an ID token that does not verify stands for no credential.
ASSUME AttemptAssumption ==
  Attempts \subseteq [op : {"register", "login"}, cred : PasswordCreds, name : Texts]
                   \cup [op : {"oidc"}, cred : GoogleCreds \cup {Nil}, name : Texts \cup {Nil}]
                   \cup [op : {"dev"}, cred : DummyCreds, name : Texts \cup {Nil}]

Call == [op : LoginOps \cup GatedOps, from : Clients,
         cookie : Token \cup {Nil},    \* the Cookie header
         cred : Credential \cup {Nil}, name : Texts \cup {Nil},     \* the body
         status : Statuses,            \* 0 until a handler has answered
         token : Token \cup {Nil},     \* the Set-Cookie header
         user : UserIds \cup {Nil}]    \* the account the answer is about

ASSUME NoCallAssumption == Nil \notin Call

Request(op, c, cookie, cred, name) ==
  [op |-> op, from |-> c, cookie |-> cookie, cred |-> cred, name |-> name,
   status |-> 0, token |-> Nil, user |-> Nil]

Pending(k, op) == calls[k] # Nil /\ calls[k].op = op /\ calls[k].status = 0
Answered(k) == calls[k] # Nil /\ calls[k].status # 0

Reply(k, status) == calls' = [calls EXCEPT ![k].status = status]

\* issueSession.
ReplySession(k, status, u, cred) ==
  calls' = [calls EXCEPT ![k] = [@ EXCEPT !.status = status, !.user = u,
              !.token = [user |-> u, exp |-> now + TTL, by |-> cred]]]

--------------------------------------------------------------------------------
(* users.sql *)

Rows(provider, sub) ==
  {u \in DOMAIN users : users[u].provider = provider /\ users[u].sub = sub}

GetPasswordUserByEmail(email) == Rows("password", email)

InsertUser(u, row) ==
  /\ u \notin DOMAIN users
  /\ users' = [x \in DOMAIN users \cup {u} |-> IF x = u THEN row ELSE users[x]]

\* ON CONFLICT (provider, provider_sub) DO UPDATE: the row keeps its id.
UpsertUser(u, cred) ==
  LET rows == Rows(cred.provider, cred.sub) IN
  \/ u \in rows /\ UNCHANGED users
  \/ rows = {} /\ InsertUser(u, cred)

\* The same for dummies.
UpsertDummyUser(u, cred) == UpsertUser(u, cred)

--------------------------------------------------------------------------------
(* The handlers *)

\* E-mails are trimmed and in lower case, names only trimmed.
Normal(t) == Lower[Trim[t]]
ByEmail(cred) == [cred EXCEPT !.sub = Normal(cred.sub)]
ByName(cred) == [cred EXCEPT !.sub = Trim[cred.sub]]

Malformed(call) ==
  \/ Normal(call.cred.sub) = Blank \/ Trim[call.name] = Blank
  \/ call.cred.hash \in Weak

\* Fault: the e-mail is stored as it was typed.
RegisterAsTyped(k) ==
  LET cred == calls[k].cred IN
  /\ Pending(k, "register")
  /\ \/ Malformed(calls[k]) /\ Reply(k, 400) /\ UNCHANGED <<users, enrolled>>
     \/ /\ ~Malformed(calls[k])
        /\ \/ /\ GetPasswordUserByEmail(cred.sub) # {}
              /\ Reply(k, 409) /\ UNCHANGED <<users, enrolled>>
           \/ /\ GetPasswordUserByEmail(cred.sub) = {}
              /\ \E u \in UserIds : InsertUser(u, cred) /\ ReplySession(k, 201, u, cred)
              /\ enrolled' = enrolled \cup {cred}
  /\ UNCHANGED <<jar, now>>

\* Fault: ON CONFLICT DO UPDATE SET password_hash, as in the other logins.
RegisterUpserts(k) ==
  LET cred == ByEmail(calls[k].cred) rows == GetPasswordUserByEmail(cred.sub) IN
  /\ Pending(k, "register")
  /\ \/ Malformed(calls[k]) /\ Reply(k, 400) /\ UNCHANGED <<users, enrolled>>
     \/ /\ ~Malformed(calls[k])
        /\ \E u \in UserIds :
             /\ \/ rows = {} /\ InsertUser(u, cred)
                \/ u \in rows /\ users' = [users EXCEPT ![u] = cred]
             /\ ReplySession(k, 201, u, cred)
        /\ enrolled' = enrolled \cup {calls[k].cred}
  /\ UNCHANGED <<jar, now>>

\* Fault: isUniqueViolation does not see through the wrapped error.
RegisterUnmapped(k) ==
  LET cred == ByEmail(calls[k].cred) IN
  /\ Pending(k, "register")
  /\ \/ Malformed(calls[k]) /\ Reply(k, 400) /\ UNCHANGED <<users, enrolled>>
     \/ /\ ~Malformed(calls[k])
        /\ \/ /\ GetPasswordUserByEmail(cred.sub) # {}
              /\ Reply(k, 500) /\ UNCHANGED <<users, enrolled>>
           \/ /\ GetPasswordUserByEmail(cred.sub) = {}
              /\ \E u \in UserIds : InsertUser(u, cred) /\ ReplySession(k, 201, u, cred)
              /\ enrolled' = enrolled \cup {calls[k].cred}
  /\ UNCHANGED <<jar, now>>

\* The INSERT, whose UNIQUE(provider, provider_sub) is the only check.
Register(k) ==
  LET cred == ByEmail(calls[k].cred) IN
  /\ Pending(k, "register")
  /\ \/ Malformed(calls[k]) /\ Reply(k, 400) /\ UNCHANGED <<users, enrolled>>
     \/ /\ ~Malformed(calls[k])
        /\ \/ /\ GetPasswordUserByEmail(cred.sub) # {}
              /\ Reply(k, 409) /\ UNCHANGED <<users, enrolled>>
           \/ /\ GetPasswordUserByEmail(cred.sub) = {}
              /\ \E u \in UserIds : InsertUser(u, cred) /\ ReplySession(k, 201, u, cred)
              /\ enrolled' = enrolled \cup {calls[k].cred}
  /\ UNCHANGED <<jar, now>>

\* Fault: the e-mail is looked up as it was typed.
LoginAsTyped(k) ==
  LET cred == calls[k].cred rows == GetPasswordUserByEmail(cred.sub) IN
  /\ Pending(k, "login")
  /\ \/ /\ \A u \in rows : users[u].hash # cred.hash
        /\ Reply(k, 401)
     \/ \E u \in rows : users[u].hash = cred.hash /\ ReplySession(k, 200, u, cred)
  /\ UNCHANGED <<users, jar, now, enrolled>>

\* Fault: a lookup that finds nothing yields a user without an id.
LoginZeroUser(k) ==
  LET cred == ByEmail(calls[k].cred) rows == GetPasswordUserByEmail(cred.sub) IN
  /\ Pending(k, "login")
  /\ \/ rows = {} /\ ReplySession(k, 200, Nil, cred)
     \/ \E u \in rows : ReplySession(k, 200, u, cred)
  /\ UNCHANGED <<users, jar, now, enrolled>>

\* An unknown e-mail, a row without a password and a wrong one are answered alike.
LoginWithPassword(k) ==
  LET cred == ByEmail(calls[k].cred) rows == GetPasswordUserByEmail(cred.sub) IN
  /\ Pending(k, "login")
  /\ \/ /\ \A u \in rows : users[u].hash # cred.hash
        /\ Reply(k, 401)
     \/ \E u \in rows : users[u].hash = cred.hash /\ ReplySession(k, 200, u, cred)
  /\ UNCHANGED <<users, jar, now, enrolled>>

\* A call without a credential carries a token that does not verify.
LoginWithIDToken(k) ==
  LET cred == calls[k].cred IN
  /\ Pending(k, "oidc")
  /\ \/ cred = Nil /\ Reply(k, 401) /\ UNCHANGED users
     \/ /\ cred # Nil
        /\ \E u \in UserIds : UpsertUser(u, cred) /\ ReplySession(k, 200, u, cred)
  /\ UNCHANGED <<jar, now, enrolled>>

DevLogin(k) ==
  LET cred == ByName(calls[k].cred) IN
  /\ Pending(k, "dev")
  /\ \/ /\ ~AllowDevLogin \/ cred.sub = Blank
        /\ Reply(k, IF AllowDevLogin THEN 400 ELSE 404)
        /\ UNCHANGED users
     \/ /\ AllowDevLogin /\ cred.sub # Blank
        /\ \E u \in UserIds : UpsertDummyUser(u, cred) /\ ReplySession(k, 200, u, cred)
  /\ UNCHANGED <<jar, now, enrolled>>

\* Validate; a call without a cookie is answered alike.
Valid(token) == token # Nil /\ now < token.exp

\* SessionMiddleware in front of Me, of the list of groups and of Logout.  The
\* answers of the first two are about the user of the session.
Gated(k) ==
  LET call == calls[k] IN
  /\ \E op \in GatedOps : Pending(k, op)
  /\ \/ ~Valid(call.cookie) /\ Reply(k, 401)
     \/ /\ Valid(call.cookie)
        /\ calls' = [calls EXCEPT ![k] =
             [@ EXCEPT !.status = IF call.op = "logout" THEN 204 ELSE 200,
                       !.user = call.cookie.user]]
  /\ UNCHANGED <<users, jar, now, enrolled>>

Handle(k) ==
  Register(k) \/ LoginWithPassword(k) \/ LoginWithIDToken(k) \/ DevLogin(k) \/ Gated(k)

--------------------------------------------------------------------------------
(* Clients and the network *)

Post(k, op, c, cred, name) ==
  /\ calls[k] = Nil
  /\ calls' = [calls EXCEPT ![k] = Request(op, c, jar[c], cred, name)]
  /\ UNCHANGED <<users, jar, now, enrolled>>

Send(k, c) ==
  \/ \E a \in Attempts : Post(k, a.op, c, a.cred, a.name)
  \/ \E op \in GatedOps : Post(k, op, c, Nil, Nil)

\* What the client does with Set-Cookie: Logout clears the cookie.
JarAfter(call) ==
  IF call.op = "logout" /\ call.status = 204 THEN [jar EXCEPT ![call.from] = Nil]
  ELSE IF call.token # Nil THEN [jar EXCEPT ![call.from] = call.token]
  ELSE jar

Arrive(k) ==
  /\ Answered(k)
  /\ jar' = JarAfter(calls[k])
  /\ calls' = [calls EXCEPT ![k] = Nil]
  /\ UNCHANGED <<users, now, enrolled>>

\* The connection breaks or the replica dies, before or after the statement.
Lose(k) ==
  /\ calls[k] # Nil
  /\ calls' = [calls EXCEPT ![k] = Nil]
  /\ UNCHANGED <<users, jar, now, enrolled>>

Tick ==
  /\ now < MaxTime
  /\ now' = now + 1
  /\ UNCHANGED <<users, jar, calls, enrolled>>

--------------------------------------------------------------------------------
AccountsInit ==
  /\ users = [u \in {} |-> Nil]
  /\ jar = [c \in Clients |-> Nil]
  /\ calls = [k \in Calls |-> Nil]
  /\ now = 0
  /\ enrolled = {}

AccountsNext ==
  \/ \E k \in Calls : Handle(k) \/ Arrive(k) \/ Lose(k)
  \/ \E k \in Calls, c \in Clients : Send(k, c)
  \/ Tick

AccountsSpec == AccountsInit /\ [][AccountsNext]_accountVars

--------------------------------------------------------------------------------
(* Properties *)

AccountsTypeOK ==
  /\ DOMAIN users \subseteq UserIds
  /\ users \in [DOMAIN users -> User]
  /\ jar \in [Clients -> Token \cup {Nil}]
  /\ calls \in [Calls -> Call \cup {Nil}]
  /\ now \in 0..MaxTime
  /\ enrolled \subseteq Credential

\* However many register, and however they spell it, an e-mail has one account.
OneAccountPerEmail ==
  \A u, v \in DOMAIN users :
    /\ users[u].provider = "password" /\ users[v].provider = "password"
    /\ Normal(users[u].sub) = Normal(users[v].sub)
    => u = v

\* A session opens the account of the credential it was issued for, and that
\* account still is that credential's.
Genuine(t) == t # Nil => t.user \in DOMAIN users /\ users[t.user] = t.by

\* So it is for every session under way or kept by a client: no later
\* registration, login by another provider or lost answer hands an account, or a
\* session, to somebody else.
SessionsByCredential ==
  /\ \A c \in Clients : Genuine(jar[c])
  /\ \A k \in Calls : calls[k] # Nil => Genuine(calls[k].token) /\ Genuine(calls[k].cookie)

Handled(k) == calls[k] # Nil /\ calls[k].status = 0 /\ calls'[k] # Nil /\ calls'[k].status # 0

SameEmail(a, b) == Normal(a.sub) = Normal(b.sub)

\* Of the registrations of one e-mail, the first to take effect is answered 201,
\* even if nobody hears of it, and all others 409.
FirstRegistrationWins == [][
  \A k \in Calls : Handled(k) /\ calls[k].op = "register" /\ ~Malformed(calls[k]) =>
    calls'[k].status = IF \E e \in enrolled : SameEmail(e, calls[k].cred)
                       THEN 409 ELSE 201 ]_accountVars

\* Whoever has registered gets in for ever after, in any spelling, and nobody
\* else does; a registration whose answer was lost counts.
RegisteredGetIn == [][
  \A k \in Calls : Handled(k) /\ calls[k].op = "login" =>
    (calls'[k].status = 200 <=>
       \E e \in enrolled : SameEmail(e, calls[k].cred) /\ e.hash = calls[k].cred.hash)
  ]_accountVars

--------------------------------------------------------------------------------
(* The inductive invariant *)

\* The logins under way are of the kinds that people send.
CallsAttempted ==
  \A k \in Calls : calls[k] # Nil /\ calls[k].op \in LoginOps =>
    [op |-> calls[k].op, cred |-> calls[k].cred, name |-> calls[k].name] \in Attempts

\* UNIQUE(provider, provider_sub); only Register stores a hash.
RowsUnique ==
  /\ \A u, v \in DOMAIN users :
       users[u].provider = users[v].provider /\ users[u].sub = users[v].sub => u = v
  /\ \A u \in DOMAIN users : users[u].provider # "password" => users[u].hash = Nil

\* The accounts with a password are the registrations that have taken effect.
EnrolledAreRows ==
  /\ enrolled \subseteq PasswordCreds
  /\ \A e \in enrolled : \E u \in DOMAIN users : users[u] = ByEmail(e)
  /\ \A u \in DOMAIN users :
       users[u].provider = "password" => \E e \in enrolled : users[u] = ByEmail(e)

AInv ==
  /\ AccountsTypeOK
  /\ CallsAttempted
  /\ RowsUnique
  /\ EnrolledAreRows
  /\ SessionsByCredential

================================================================================
