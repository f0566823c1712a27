---------------------------- MODULE AccountsProofs ----------------------------
(***************************************************************************)
(* Proofs about Accounts for every set of users, texts, passwords, clients *)
(* and calls: the inductive invariant AInv, and what follows from it.      *)
(*                                                                         *)
(* Rows are only ever added (Extended), so a session that was genuine      *)
(* stays so, and the table stays in step with the registrations.           *)
(***************************************************************************)
EXTENDS Accounts, TLAPS

\* What every handler does to the table.
Extended == \A u \in DOMAIN users : u \in DOMAIN users' /\ users'[u] = users[u]

\* A call keeps its request and its cookie, and what it got before.
SameRequest(j) ==
  /\ calls[j] # Nil
  /\ calls'[j].op = calls[j].op /\ calls'[j].cred = calls[j].cred
  /\ calls'[j].name = calls[j].name /\ calls'[j].cookie = calls[j].cookie

--------------------------------------------------------------------------------
(* Lemmas about rows, replies and sessions *)

\* An insert that the unique key permits leaves a table with unique keys.
LEMMA InsertSound ==
  ASSUME AccountsTypeOK, RowsUnique,
         NEW u \in UserIds, NEW row \in User, InsertUser(u, row),
         Rows(row.provider, row.sub) = {},
         row.provider # "password" => row.hash = Nil
  PROVE  /\ Extended /\ RowsUnique'
         /\ u \notin DOMAIN users
         /\ DOMAIN users' = DOMAIN users \cup {u} /\ users'[u] = row
         /\ DOMAIN users' \subseteq UserIds /\ users' \in [DOMAIN users' -> User]
<1>1. /\ u \notin DOMAIN users
      /\ users' = [x \in DOMAIN users \cup {u} |-> IF x = u THEN row ELSE users[x]]
  BY DEF InsertUser
<1>2. /\ DOMAIN users' = DOMAIN users \cup {u} /\ users'[u] = row
      /\ \A x \in DOMAIN users : users'[x] = users[x]
  BY <1>1
<1>3. \A x \in DOMAIN users : ~(users[x].provider = row.provider /\ users[x].sub = row.sub)
  BY DEF Rows
<1>4. RowsUnique'
  BY <1>2, <1>3 DEF RowsUnique
<1>5. DOMAIN users' \subseteq UserIds /\ users' \in [DOMAIN users' -> User]
  BY <1>1, <1>2 DEF AccountsTypeOK
<1> QED
  BY <1>1, <1>2, <1>4, <1>5 DEF Extended

\* A reply without a session.
LEMMA ReplySound ==
  ASSUME AccountsTypeOK, CallsAttempted, NEW k \in Calls, calls[k] # Nil,
         NEW st \in Statuses, Reply(k, st)
  PROVE  /\ calls' \in [Calls -> Call \cup {Nil}]
         /\ CallsAttempted'
         /\ \A j \in Calls : calls'[j] # Nil =>
              SameRequest(j) /\ calls'[j].token = calls[j].token
<1>1. calls \in [Calls -> Call \cup {Nil}] /\ calls[k] \in Call
  BY DEF AccountsTypeOK
<1>2. calls' = [calls EXCEPT ![k] = [calls[k] EXCEPT !.status = st]]
  BY <1>1 DEF Reply
<1>3. [calls[k] EXCEPT !.status = st] \in Call
  BY <1>1 DEF Call
<1>4. calls' \in [Calls -> Call \cup {Nil}]
  BY <1>1, <1>2, <1>3
<1>5. calls'[k] = [calls[k] EXCEPT !.status = st] /\ \A j \in Calls \ {k} : calls'[j] = calls[j]
  BY <1>1, <1>2
<1>6. \A j \in Calls : calls'[j] # Nil => SameRequest(j) /\ calls'[j].token = calls[j].token
  BY <1>1, <1>5 DEF SameRequest, Call
<1>7. CallsAttempted'
  BY <1>6 DEF CallsAttempted, SameRequest
<1> QED
  BY <1>4, <1>6, <1>7

LEMMA CallAnswered ==
  ASSUME NEW c \in Call, NEW st \in Statuses, NEW u \in UserIds, NEW tok \in Token
  PROVE  [c EXCEPT !.status = st, !.user = u, !.token = tok] \in Call
BY DEF Call

\* A reply with a session for u.
LEMMA ReplySessionSound ==
  ASSUME AccountsTypeOK, CallsAttempted, NEW k \in Calls, calls[k] # Nil,
         NEW st \in Statuses, NEW u \in UserIds, NEW cred \in Credential,
         ReplySession(k, st, u, cred)
  PROVE  /\ calls' \in [Calls -> Call \cup {Nil}]
         /\ CallsAttempted'
         /\ \A j \in Calls : calls'[j] # Nil => SameRequest(j)
         /\ \A j \in Calls \ {k} : calls'[j] = calls[j]
         /\ calls'[k].status = st
         /\ calls'[k].token.user = u /\ calls'[k].token.by = cred
<1> DEFINE tok == [user |-> u, exp |-> now + TTL, by |-> cred]
<1> DEFINE new == [calls[k] EXCEPT !.status = st, !.user = u, !.token = tok]
<1>1. calls \in [Calls -> Call \cup {Nil}] /\ calls[k] \in Call
  BY DEF AccountsTypeOK
<1>2. calls' = [calls EXCEPT ![k] = new]
  BY <1>1 DEF ReplySession, Call
<1>3. tok \in Token /\ tok.user = u /\ tok.by = cred
  BY ClockAssumption DEF AccountsTypeOK, Token
<1> HIDE DEF tok
<1>4. new \in Call
  BY <1>1, <1>3, CallAnswered
<1>5. calls' \in [Calls -> Call \cup {Nil}]
  BY <1>1, <1>2, <1>4
<1>6. calls'[k] = new /\ \A j \in Calls \ {k} : calls'[j] = calls[j]
  BY <1>1, <1>2
<1>7. /\ new.status = st /\ new.token = tok
      /\ new.op = calls[k].op /\ new.cred = calls[k].cred
      /\ new.name = calls[k].name /\ new.cookie = calls[k].cookie
  BY <1>1 DEF Call
<1>8. \A j \in Calls : calls'[j] # Nil => SameRequest(j)
  BY <1>6, <1>7 DEF SameRequest
<1>9. CallsAttempted'
  BY <1>8 DEF CallsAttempted, SameRequest
<1> QED
  BY <1>3, <1>5, <1>6, <1>7, <1>8, <1>9

\* A genuine session stays genuine, since no row is changed.
LEMMA StaysGenuine ==
  ASSUME Extended, NEW t, Genuine(t)
  PROVE  t # Nil => t.user \in DOMAIN users' /\ users'[t.user] = t.by
BY DEF Extended, Genuine

\* A handler that issues no session.
LEMMA SessionsKept ==
  ASSUME SessionsByCredential, Extended, jar' = jar,
         \A j \in Calls : calls'[j] # Nil => SameRequest(j) /\ calls'[j].token = calls[j].token
  PROVE  SessionsByCredential'
BY StaysGenuine DEF SessionsByCredential, Genuine, SameRequest, Extended

\* A handler that issues one for the account of the credential.
LEMMA SessionIssued ==
  ASSUME SessionsByCredential, Extended, jar' = jar, NEW k \in Calls,
         \A j \in Calls : calls'[j] # Nil => SameRequest(j),
         \A j \in Calls \ {k} : calls'[j] = calls[j],
         calls'[k].token.user \in DOMAIN users',
         users'[calls'[k].token.user] = calls'[k].token.by
  PROVE  SessionsByCredential'
BY StaysGenuine DEF SessionsByCredential, Genuine, SameRequest, Extended

\* Normal form of an e-mail credential.
LEMMA ByEmailSound ==
  ASSUME NEW cred \in PasswordCreds
  PROVE  /\ ByEmail(cred) \in PasswordCreds /\ ByEmail(cred) \in Credential
         /\ ByEmail(cred).provider = "password"
         /\ ByEmail(cred).sub = Normal(cred.sub) /\ ByEmail(cred).hash = cred.hash
         /\ Normal(cred.sub) \in Texts /\ Normal(Normal(cred.sub)) = Normal(cred.sub)
<1>1. cred.sub \in Texts
  BY DEF PasswordCreds
<1>2. Trim[cred.sub] \in Texts /\ Normal(cred.sub) \in Texts
  BY <1>1, TextAssumption DEF Normal
<1> QED
  BY <1>1, <1>2, TextAssumption DEF PasswordCreds, Credential, User, ByEmail, Normal

\* What calls of each kind carry.
LEMMA AttemptKinds ==
  ASSUME CallsAttempted, NEW k \in Calls, calls[k] # Nil
  PROVE  /\ calls[k].op \in {"register", "login"} => calls[k].cred \in PasswordCreds
         /\ calls[k].op = "oidc" => calls[k].cred \in GoogleCreds \cup {Nil}
         /\ calls[k].op = "dev" => calls[k].cred \in DummyCreds
<1> SUFFICES ASSUME calls[k].op \in LoginOps
    PROVE  /\ calls[k].op \in {"register", "login"} => calls[k].cred \in PasswordCreds
           /\ calls[k].op = "oidc" => calls[k].cred \in GoogleCreds \cup {Nil}
           /\ calls[k].op = "dev" => calls[k].cred \in DummyCreds
  BY DEF LoginOps
<1> DEFINE a == [op |-> calls[k].op, cred |-> calls[k].cred, name |-> calls[k].name]
<1>1. a \in Attempts
  BY DEF CallsAttempted
<1>2. a.op = calls[k].op /\ a.cred = calls[k].cred
  OBVIOUS
<1>3. \/ a \in [op : {"register", "login"}, cred : PasswordCreds, name : Texts]
      \/ a \in [op : {"oidc"}, cred : GoogleCreds \cup {Nil}, name : Texts \cup {Nil}]
      \/ a \in [op : {"dev"}, cred : DummyCreds, name : Texts \cup {Nil}]
  BY <1>1, AttemptAssumption
<1> HIDE DEF a
<1>4. \/ a.op \in {"register", "login"} /\ a.cred \in PasswordCreds
      \/ a.op = "oidc" /\ a.cred \in GoogleCreds \cup {Nil}
      \/ a.op = "dev" /\ a.cred \in DummyCreds
  BY <1>3
<1> QED
  BY <1>2, <1>4

--------------------------------------------------------------------------------
(* One lemma per handler: it preserves AInv *)

LEMMA InitSound == AccountsInit => AInv
<1> SUFFICES ASSUME AccountsInit PROVE AInv
  OBVIOUS
<1>1. DOMAIN users = {}
  BY DEF AccountsInit
<1>2. AccountsTypeOK
  BY <1>1, ClockAssumption DEF AccountsInit, AccountsTypeOK
<1>3. CallsAttempted /\ RowsUnique /\ EnrolledAreRows
  BY <1>1 DEF AccountsInit, CallsAttempted, RowsUnique, EnrolledAreRows
<1>4. SessionsByCredential
  BY DEF AccountsInit, SessionsByCredential, Genuine
<1> QED
  BY <1>2, <1>3, <1>4 DEF AInv

\* A handler that leaves the table alone and issues no session.
LEMMA RefusedSound ==
  ASSUME AInv, NEW k \in Calls, calls[k] # Nil, NEW st \in Statuses, Reply(k, st),
         UNCHANGED <<users, jar, now, enrolled>>
  PROVE  AInv'
<1>1. Extended
  BY DEF Extended
<1>2. /\ calls' \in [Calls -> Call \cup {Nil}] /\ CallsAttempted'
      /\ \A j \in Calls : calls'[j] # Nil =>
           SameRequest(j) /\ calls'[j].token = calls[j].token
  BY ReplySound DEF AInv
<1>3. SessionsByCredential'
  BY <1>1, <1>2, SessionsKept DEF AInv
<1>4. AccountsTypeOK' /\ RowsUnique' /\ EnrolledAreRows'
  BY <1>2 DEF AInv, AccountsTypeOK, RowsUnique, EnrolledAreRows
<1> QED
  BY <1>2, <1>3, <1>4 DEF AInv

LEMMA RegisterSound ==
  ASSUME AInv, NEW k \in Calls, Register(k) PROVE AInv'
<1> DEFINE typed == calls[k].cred
           cred == ByEmail(typed)
<1>1. calls[k] # Nil /\ typed \in PasswordCreds
  BY AttemptKinds DEF AInv, Register, Pending
<1>2. /\ cred \in PasswordCreds /\ cred \in Credential /\ cred.provider = "password"
  BY <1>1, ByEmailSound
<1> HIDE DEF typed, cred
<1>3. CASE Malformed(calls[k])
  BY <1>1, <1>3, RefusedSound DEF Register, Statuses
<1>4. CASE ~Malformed(calls[k]) /\ GetPasswordUserByEmail(cred.sub) # {}
  BY <1>1, <1>4, RefusedSound DEF Register, Statuses, cred, typed
<1>5. CASE ~Malformed(calls[k]) /\ GetPasswordUserByEmail(cred.sub) = {}
  <2>1. PICK u \in UserIds : InsertUser(u, cred) /\ ReplySession(k, 201, u, cred)
    BY <1>5 DEF Register, cred, typed
  <2>2. /\ enrolled' = enrolled \cup {typed} /\ jar' = jar /\ now' = now
    BY <1>5 DEF Register, cred, typed
  <2>3. /\ Extended /\ RowsUnique' /\ u \notin DOMAIN users
        /\ DOMAIN users' = DOMAIN users \cup {u} /\ users'[u] = cred
        /\ DOMAIN users' \subseteq UserIds /\ users' \in [DOMAIN users' -> User]
    BY <1>2, <1>5, <2>1, InsertSound DEF AInv, Credential, GetPasswordUserByEmail
  <2>4. /\ calls' \in [Calls -> Call \cup {Nil}] /\ CallsAttempted'
        /\ \A j \in Calls : calls'[j] # Nil => SameRequest(j)
        /\ \A j \in Calls \ {k} : calls'[j] = calls[j]
        /\ calls'[k].token.user = u /\ calls'[k].token.by = cred
    BY <1>1, <1>2, <2>1, ReplySessionSound DEF AInv, Statuses
  <2>5. SessionsByCredential'
    BY <2>2, <2>3, <2>4, SessionIssued DEF AInv
  <2>6. EnrolledAreRows'
    <3>1. enrolled' \subseteq PasswordCreds
      BY <1>1, <2>2 DEF AInv, EnrolledAreRows
    <3>2. \A e \in enrolled' : \E x \in DOMAIN users' : users'[x] = ByEmail(e)
      BY <2>2, <2>3 DEF AInv, EnrolledAreRows, Extended, cred
    <3>3. \A x \in DOMAIN users' : users'[x].provider = "password" =>
            \E e \in enrolled' : users'[x] = ByEmail(e)
      BY <2>2, <2>3 DEF AInv, EnrolledAreRows, Extended, cred
    <3> QED
      BY <3>1, <3>2, <3>3 DEF EnrolledAreRows
  <2>7. AccountsTypeOK'
    <3>1. enrolled' \subseteq Credential
      BY <1>1, <2>2 DEF AInv, AccountsTypeOK, PasswordCreds, Credential, User
    <3> QED
      BY <2>2, <2>3, <2>4, <3>1 DEF AInv, AccountsTypeOK
  <2> QED
    BY <2>3, <2>4, <2>5, <2>6, <2>7 DEF AInv
<1> QED
  BY <1>3, <1>4, <1>5

LEMMA LoginSound ==
  ASSUME AInv, NEW k \in Calls, LoginWithPassword(k) PROVE AInv'
<1> DEFINE cred == ByEmail(calls[k].cred)
<1>1. calls[k] # Nil /\ calls[k].cred \in PasswordCreds
  BY AttemptKinds DEF AInv, LoginWithPassword, Pending
<1>2. cred \in PasswordCreds /\ cred \in Credential /\ cred.provider = "password"
  BY <1>1, ByEmailSound
<1>3. UNCHANGED <<users, jar, now, enrolled>>
  BY DEF LoginWithPassword
<1>4. CASE Reply(k, 401)
  BY <1>1, <1>3, <1>4, RefusedSound DEF Statuses
<1>5. CASE \E u \in GetPasswordUserByEmail(cred.sub) :
             users[u].hash = cred.hash /\ ReplySession(k, 200, u, cred)
  <2>1. PICK u \in GetPasswordUserByEmail(cred.sub) :
          users[u].hash = cred.hash /\ ReplySession(k, 200, u, cred)
    BY <1>5
  <2> HIDE DEF cred
  <2>2. /\ u \in DOMAIN users /\ u \in UserIds /\ users[u] \in User
        /\ users[u].provider = "password" /\ users[u].sub = cred.sub
    BY <2>1 DEF AInv, AccountsTypeOK, GetPasswordUserByEmail, Rows
  <2>3. users[u] = cred
    BY <1>2, <2>1, <2>2 DEF User, Credential
  <2>4. /\ calls' \in [Calls -> Call \cup {Nil}] /\ CallsAttempted'
        /\ \A j \in Calls : calls'[j] # Nil => SameRequest(j)
        /\ \A j \in Calls \ {k} : calls'[j] = calls[j]
        /\ calls'[k].token.user = u /\ calls'[k].token.by = cred
    BY <1>1, <1>2, <2>1, <2>2, ReplySessionSound DEF AInv, Statuses
  <2>5. SessionsByCredential'
    BY <1>3, <2>2, <2>3, <2>4, SessionIssued DEF AInv, Extended
  <2>6. AccountsTypeOK' /\ RowsUnique' /\ EnrolledAreRows'
    BY <1>3, <2>4 DEF AInv, AccountsTypeOK, RowsUnique, EnrolledAreRows
  <2> QED
    BY <2>4, <2>5, <2>6 DEF AInv
<1> QED
  BY <1>4, <1>5 DEF LoginWithPassword

\* A login that makes an account when there is none.
LEMMA UpsertSound ==
  ASSUME AInv, NEW k \in Calls, calls[k] # Nil,
         NEW cred \in Credential, cred.provider # "password", cred.hash = Nil,
         NEW u \in UserIds, UpsertUser(u, cred), ReplySession(k, 200, u, cred),
         UNCHANGED <<jar, now, enrolled>>
  PROVE  AInv'
<1>1. /\ Extended /\ RowsUnique' /\ u \in DOMAIN users' /\ users'[u] = cred
      /\ DOMAIN users' \subseteq UserIds /\ users' \in [DOMAIN users' -> User]
      /\ \A x \in DOMAIN users' : x \in DOMAIN users \/ x = u
  <2>1. CASE u \in Rows(cred.provider, cred.sub) /\ UNCHANGED users
    <3>1. /\ u \in DOMAIN users /\ users[u] \in User /\ users[u].hash = Nil
          /\ users[u].provider = cred.provider /\ users[u].sub = cred.sub
      BY <2>1 DEF AInv, AccountsTypeOK, Rows, RowsUnique
    <3>2. users[u] = cred
      BY <3>1 DEF User, Credential
    <3> QED
      BY <2>1, <3>1, <3>2 DEF AInv, AccountsTypeOK, Extended, RowsUnique
  <2>2. CASE Rows(cred.provider, cred.sub) = {} /\ InsertUser(u, cred)
    BY <2>2, InsertSound DEF AInv, Credential
  <2> QED
    BY <2>1, <2>2 DEF UpsertUser
<1>2. /\ calls' \in [Calls -> Call \cup {Nil}] /\ CallsAttempted'
      /\ \A j \in Calls : calls'[j] # Nil => SameRequest(j)
      /\ \A j \in Calls \ {k} : calls'[j] = calls[j]
      /\ calls'[k].token.user = u /\ calls'[k].token.by = cred
  BY ReplySessionSound DEF AInv, Statuses
<1>3. SessionsByCredential'
  BY <1>1, <1>2, SessionIssued DEF AInv
<1>4. EnrolledAreRows'
  BY <1>1 DEF AInv, EnrolledAreRows, Extended
<1>5. AccountsTypeOK'
  BY <1>1, <1>2 DEF AInv, AccountsTypeOK
<1> QED
  BY <1>1, <1>2, <1>3, <1>4, <1>5 DEF AInv

LEMMA IDTokenSound ==
  ASSUME AInv, NEW k \in Calls, LoginWithIDToken(k) PROVE AInv'
<1> DEFINE cred == calls[k].cred
<1>1. calls[k] # Nil /\ cred \in GoogleCreds \cup {Nil}
  BY AttemptKinds DEF AInv, LoginWithIDToken, Pending
<1>2. CASE cred = Nil
  BY <1>1, <1>2, RefusedSound DEF LoginWithIDToken, Statuses
<1>3. CASE cred # Nil
  <2>1. cred \in Credential /\ cred.provider # "password" /\ cred.hash = Nil
    BY <1>1, <1>3 DEF GoogleCreds, Credential, User
  <2> QED
    BY <1>1, <1>3, <2>1, UpsertSound DEF LoginWithIDToken
<1> QED
  BY <1>2, <1>3

LEMMA DevLoginSound ==
  ASSUME AInv, NEW k \in Calls, DevLogin(k) PROVE AInv'
<1> DEFINE typed == calls[k].cred
           cred == ByName(typed)
<1>1. calls[k] # Nil /\ typed \in DummyCreds
  BY AttemptKinds DEF AInv, DevLogin, Pending
<1>2. cred \in Credential /\ cred.provider # "password" /\ cred.hash = Nil
  <2>1. typed.sub \in Texts /\ Trim[typed.sub] \in Texts
    BY <1>1, TextAssumption DEF DummyCreds
  <2> QED
    BY <1>1, <2>1 DEF DummyCreds, Credential, User, ByName
<1>3. CASE UNCHANGED users /\ Reply(k, IF AllowDevLogin THEN 400 ELSE 404)
  BY <1>1, <1>3, RefusedSound DEF DevLogin, Statuses
<1>4. CASE \E u \in UserIds : UpsertDummyUser(u, cred) /\ ReplySession(k, 200, u, cred)
  BY <1>1, <1>2, <1>4, UpsertSound DEF DevLogin, UpsertDummyUser
<1> QED
  BY <1>3, <1>4 DEF DevLogin

LEMMA GatedSound ==
  ASSUME AInv, NEW k \in Calls, Gated(k) PROVE AInv'
<1> DEFINE st == IF calls[k].op = "logout" THEN 204 ELSE 200
           new == [calls[k] EXCEPT !.status = st, !.user = calls[k].cookie.user]
<1>1. /\ calls[k] # Nil /\ calls[k] \in Call /\ calls \in [Calls -> Call \cup {Nil}]
      /\ UNCHANGED <<users, jar, now, enrolled>>
  BY DEF Gated, Pending, AInv, AccountsTypeOK
<1>2. CASE ~Valid(calls[k].cookie) /\ Reply(k, 401)
  BY <1>1, <1>2, RefusedSound DEF Statuses
<1>3. CASE Valid(calls[k].cookie) /\ calls' = [calls EXCEPT ![k] = new]
  <2>1. calls[k].cookie.user \in UserIds /\ st \in Statuses
    BY <1>1, <1>3 DEF Valid, Call, Token, Statuses
  <2>2. /\ new \in Call
        /\ new.op = calls[k].op /\ new.cred = calls[k].cred /\ new.name = calls[k].name
        /\ new.cookie = calls[k].cookie /\ new.token = calls[k].token
    <3> HIDE DEF st
    <3> QED
      BY <1>1, <2>1 DEF Call
  <2> HIDE DEF new
  <2>3. /\ calls' \in [Calls -> Call \cup {Nil}]
        /\ \A j \in Calls : calls'[j] # Nil =>
             SameRequest(j) /\ calls'[j].token = calls[j].token
    BY <1>1, <1>3, <2>2 DEF SameRequest
  <2>4. SessionsByCredential'
    BY <1>1, <2>3, SessionsKept DEF AInv, Extended
  <2>5. CallsAttempted'
    BY <2>3 DEF AInv, CallsAttempted, SameRequest
  <2>6. AccountsTypeOK' /\ RowsUnique' /\ EnrolledAreRows'
    BY <1>1, <2>3 DEF AInv, AccountsTypeOK, RowsUnique, EnrolledAreRows
  <2> QED
    BY <2>4, <2>5, <2>6 DEF AInv
<1> QED
  BY <1>2, <1>3 DEF Gated

--------------------------------------------------------------------------------
(* Clients, the network and the clock *)

\* The jar and the calls change, the table does not.
LEMMA TransportSound ==
  ASSUME AInv, UNCHANGED <<users, now, enrolled>>,
         calls' \in [Calls -> Call \cup {Nil}], jar' \in [Clients -> Token \cup {Nil}],
         \A j \in Calls : calls'[j] # Nil /\ calls'[j].op \in LoginOps =>
           [op |-> calls'[j].op, cred |-> calls'[j].cred, name |-> calls'[j].name]
             \in Attempts,
         \A j \in Calls : calls'[j] # Nil =>
           Genuine(calls'[j].token) /\ Genuine(calls'[j].cookie),
         \A c \in Clients : Genuine(jar'[c])
  PROVE  AInv'
<1>1. AccountsTypeOK' /\ RowsUnique' /\ EnrolledAreRows'
  BY DEF AInv, AccountsTypeOK, RowsUnique, EnrolledAreRows
<1>2. CallsAttempted'
  BY DEF CallsAttempted
<1>3. SessionsByCredential'
  BY DEF SessionsByCredential, Genuine
<1> QED
  BY <1>1, <1>2, <1>3 DEF AInv

LEMMA PostSound ==
  ASSUME AInv, NEW k \in Calls, NEW c \in Clients, NEW op \in LoginOps \cup GatedOps,
         NEW cred \in Credential \cup {Nil}, NEW name \in Texts \cup {Nil},
         op \in LoginOps => [op |-> op, cred |-> cred, name |-> name] \in Attempts,
         Post(k, op, c, cred, name)
  PROVE  AInv'
<1> DEFINE new == Request(op, c, jar[c], cred, name)
<1>1. /\ calls \in [Calls -> Call \cup {Nil}] /\ jar \in [Clients -> Token \cup {Nil}]
      /\ calls' = [calls EXCEPT ![k] = new] /\ UNCHANGED <<users, jar, now, enrolled>>
  BY DEF Post, AInv, AccountsTypeOK
<1>2. /\ new \in Call /\ new.cookie = jar[c] /\ new.token = Nil
      /\ new.op = op /\ new.cred = cred /\ new.name = name
  <2>1. 0 \in Statuses
    BY DEF Statuses
  <2> QED
    BY <1>1, <2>1 DEF Request, Call
<1> HIDE DEF new
<1>3. calls' \in [Calls -> Call \cup {Nil}] /\ calls'[k] = new
      /\ \A j \in Calls \ {k} : calls'[j] = calls[j]
  BY <1>1, <1>2
<1>4. \A j \in Calls : calls'[j] # Nil =>
        Genuine(calls'[j].token) /\ Genuine(calls'[j].cookie)
  BY <1>2, <1>3 DEF AInv, SessionsByCredential, Genuine
<1>5. \A j \in Calls : calls'[j] # Nil /\ calls'[j].op \in LoginOps =>
        [op |-> calls'[j].op, cred |-> calls'[j].cred, name |-> calls'[j].name] \in Attempts
  BY <1>2, <1>3 DEF AInv, CallsAttempted
<1> QED
  BY <1>1, <1>3, <1>4, <1>5, TransportSound DEF AInv, SessionsByCredential

LEMMA SendSound ==
  ASSUME AInv, NEW k \in Calls, NEW c \in Clients, Send(k, c) PROVE AInv'
<1>1. CASE \E a \in Attempts : Post(k, a.op, c, a.cred, a.name)
  <2>1. PICK a \in Attempts : Post(k, a.op, c, a.cred, a.name)
    BY <1>1
  <2>2. \/ a \in [op : {"register", "login"}, cred : PasswordCreds, name : Texts]
        \/ a \in [op : {"oidc"}, cred : GoogleCreds \cup {Nil}, name : Texts \cup {Nil}]
        \/ a \in [op : {"dev"}, cred : DummyCreds, name : Texts \cup {Nil}]
    BY AttemptAssumption
  <2>3. /\ a.op \in LoginOps /\ a.name \in Texts \cup {Nil}
        /\ a.cred \in PasswordCreds \cup GoogleCreds \cup DummyCreds \cup {Nil}
        /\ a = [op |-> a.op, cred |-> a.cred, name |-> a.name]
    BY <2>2 DEF LoginOps
  <2>4. a.cred \in Credential \cup {Nil}
    BY <2>3 DEF PasswordCreds, GoogleCreds, DummyCreds, Credential, User
  <2> QED
    BY <2>1, <2>3, <2>4, PostSound
<1>2. CASE \E op \in GatedOps : Post(k, op, c, Nil, Nil)
  BY <1>2, PostSound DEF GatedOps, LoginOps
<1> QED
  BY <1>1, <1>2 DEF Send

\* A call that has ended.
LEMMA EndedSound ==
  ASSUME AInv, NEW k \in Calls, calls' = [calls EXCEPT ![k] = Nil]
  PROVE  /\ calls' \in [Calls -> Call \cup {Nil}]
         /\ \A j \in Calls : calls'[j] # Nil /\ calls'[j].op \in LoginOps =>
              [op |-> calls'[j].op, cred |-> calls'[j].cred, name |-> calls'[j].name]
                \in Attempts
         /\ \A j \in Calls : calls'[j] # Nil =>
              Genuine(calls'[j].token) /\ Genuine(calls'[j].cookie)
<1>1. /\ calls' \in [Calls -> Call \cup {Nil}]
      /\ \A j \in Calls : calls'[j] # Nil => calls'[j] = calls[j]
  BY DEF AInv, AccountsTypeOK
<1> QED
  BY <1>1 DEF AInv, CallsAttempted, SessionsByCredential

LEMMA ArriveSound ==
  ASSUME AInv, NEW k \in Calls, Arrive(k) PROVE AInv'
<1>1. /\ calls[k] # Nil /\ calls[k] \in Call /\ jar \in [Clients -> Token \cup {Nil}]
      /\ jar' = JarAfter(calls[k]) /\ UNCHANGED <<users, now, enrolled>>
  BY DEF Arrive, Answered, AInv, AccountsTypeOK
<1>2. /\ jar' \in [Clients -> Token \cup {Nil}]
      /\ \A c \in Clients : jar'[c] \in {jar[c], Nil, calls[k].token}
  BY <1>1 DEF JarAfter, Call
<1>3. \A c \in Clients : Genuine(jar'[c])
  BY <1>1, <1>2 DEF AInv, SessionsByCredential, Genuine
<1> QED
  BY <1>1, <1>2, <1>3, EndedSound, TransportSound DEF Arrive

LEMMA LoseSound ==
  ASSUME AInv, NEW k \in Calls, Lose(k) PROVE AInv'
<1>1. UNCHANGED <<users, jar, now, enrolled>> /\ calls' = [calls EXCEPT ![k] = Nil]
  BY DEF Lose
<1> QED
  BY <1>1, EndedSound, TransportSound DEF AInv, AccountsTypeOK, SessionsByCredential

LEMMA TickSound ==
  ASSUME AInv, Tick PROVE AInv'
BY ClockAssumption DEF AInv, Tick, AccountsTypeOK, CallsAttempted, RowsUnique,
   EnrolledAreRows, SessionsByCredential, Genuine

--------------------------------------------------------------------------------
(* The theorems *)

LEMMA StepSound == AInv /\ [AccountsNext]_accountVars => AInv'
<1> SUFFICES ASSUME AInv, [AccountsNext]_accountVars PROVE AInv'
  OBVIOUS
<1>1. CASE UNCHANGED accountVars
  BY <1>1 DEF accountVars, AInv, AccountsTypeOK, CallsAttempted, RowsUnique,
     EnrolledAreRows, SessionsByCredential, Genuine
<1>2. CASE \E k \in Calls : Handle(k)
  BY <1>2, RegisterSound, LoginSound, IDTokenSound, DevLoginSound, GatedSound DEF Handle
<1>3. CASE \E k \in Calls : Arrive(k) \/ Lose(k)
  BY <1>3, ArriveSound, LoseSound
<1>4. CASE \E k \in Calls, c \in Clients : Send(k, c)
  BY <1>4, SendSound
<1>5. CASE Tick
  BY <1>5, TickSound
<1> QED
  BY <1>1, <1>2, <1>3, <1>4, <1>5 DEF AccountsNext

LEMMA AlwaysAInv == AccountsSpec => []AInv
BY InitSound, StepSound, PTL DEF AccountsSpec

\* Rows, cookies and calls have their types; in particular no session is for a
\* user that is not there (issueSession after a failed lookup).
THEOREM AccountsTypes == AccountsSpec => []AccountsTypeOK
<1>1. AInv => AccountsTypeOK
  BY DEF AInv
<1> QED
  BY <1>1, AlwaysAInv, PTL

\* Every session, kept or under way, opens the account of the credential that it
\* was issued for.
THEOREM SessionsAreByCredential == AccountsSpec => []SessionsByCredential
<1>1. AInv => SessionsByCredential
  BY DEF AInv
<1> QED
  BY <1>1, AlwaysAInv, PTL

\* Normal forms are unique, and so are rows.
LEMMA UniqueByEmail == AInv => OneAccountPerEmail
<1> SUFFICES ASSUME AInv, NEW u \in DOMAIN users, NEW v \in DOMAIN users,
                    users[u].provider = "password", users[v].provider = "password",
                    Normal(users[u].sub) = Normal(users[v].sub)
             PROVE  u = v
  BY DEF OneAccountPerEmail
<1>1. PICK d \in enrolled : users[u] = ByEmail(d)
  BY DEF AInv, EnrolledAreRows
<1>2. PICK e \in enrolled : users[v] = ByEmail(e)
  BY DEF AInv, EnrolledAreRows
<1>3. d \in PasswordCreds /\ e \in PasswordCreds
  BY DEF AInv, EnrolledAreRows
<1>4. Normal(users[u].sub) = users[u].sub /\ Normal(users[v].sub) = users[v].sub
  BY <1>1, <1>2, <1>3, ByEmailSound
<1> QED
  BY <1>4 DEF AInv, RowsUnique

\* Registrations that race, in whatever spelling, leave one account per e-mail.
THEOREM OneAccount == AccountsSpec => []OneAccountPerEmail
BY UniqueByEmail, AlwaysAInv, PTL

\* Whether an e-mail has an account is whether it has been registered.
LEMMA KnownEmails ==
  ASSUME AInv, NEW cred \in PasswordCreds
  PROVE  /\ (\E e \in enrolled : SameEmail(e, cred)) <=>
              GetPasswordUserByEmail(ByEmail(cred).sub) # {}
         /\ (\E e \in enrolled : SameEmail(e, cred) /\ e.hash = cred.hash) <=>
              \E u \in GetPasswordUserByEmail(ByEmail(cred).sub) :
                users[u].hash = cred.hash
<1>1. enrolled \subseteq PasswordCreds /\ ByEmail(cred).sub = Normal(cred.sub)
  BY ByEmailSound DEF AInv, EnrolledAreRows
<1>2. \A e \in enrolled : /\ ByEmail(e).provider = "password" /\ ByEmail(e).hash = e.hash
                          /\ ByEmail(e).sub = Normal(e.sub)
  BY <1>1, ByEmailSound
<1>3. \A e \in enrolled : SameEmail(e, cred) =>
        \E u \in GetPasswordUserByEmail(ByEmail(cred).sub) : users[u].hash = e.hash
  BY <1>1, <1>2 DEF AInv, EnrolledAreRows, SameEmail, GetPasswordUserByEmail, Rows
<1>4. \A u \in GetPasswordUserByEmail(ByEmail(cred).sub) :
        \E e \in enrolled : SameEmail(e, cred) /\ users[u].hash = e.hash
  BY <1>1, <1>2 DEF AInv, EnrolledAreRows, SameEmail, GetPasswordUserByEmail, Rows
<1> QED
  BY <1>3, <1>4

\* A handler answers its own call only.
LEMMA OwnCallOnly ==
  ASSUME AInv, NEW j \in Calls, Handle(j), NEW k \in Calls \ {j}
  PROVE  calls'[k] = calls[k]
<1>1. calls \in [Calls -> Call \cup {Nil}]
  BY DEF AInv, AccountsTypeOK
<1>2. \E x : calls' = [calls EXCEPT ![j] = x]
  <2>1. (\E st : Reply(j, st)) => \E x : calls' = [calls EXCEPT ![j] = x]
    BY <1>1 DEF Reply
  <2>2. (\E st, u, cred : ReplySession(j, st, u, cred)) =>
          \E x : calls' = [calls EXCEPT ![j] = x]
    BY <1>1 DEF ReplySession
  <2>3. Gated(j) => \E x : calls' = [calls EXCEPT ![j] = x]
    BY <1>1 DEF Gated, Reply
  <2>4. Register(j) \/ LoginWithPassword(j) \/ LoginWithIDToken(j) \/ DevLogin(j) =>
          (\E st : Reply(j, st)) \/ \E st, u, cred : ReplySession(j, st, u, cred)
    BY DEF Register, LoginWithPassword, LoginWithIDToken, DevLogin
  <2> QED
    BY <2>1, <2>2, <2>3, <2>4 DEF Handle
<1> QED
  BY <1>1, <1>2

\* Only its handler answers a call.
LEMMA AnsweredByHandler ==
  ASSUME AInv, [AccountsNext]_accountVars, NEW k \in Calls, Handled(k)
  PROVE  Handle(k)
<1>1. calls \in [Calls -> Call \cup {Nil}]
  BY DEF AInv, AccountsTypeOK
<1>2. calls[k] # Nil /\ calls'[k] # Nil /\ calls'[k] # calls[k]
  BY DEF Handled
<1>3. CASE UNCHANGED accountVars \/ Tick
  BY <1>2, <1>3 DEF accountVars, Tick
<1>4. CASE \E j \in Calls : Arrive(j) \/ Lose(j)
  BY <1>1, <1>2, <1>4 DEF Arrive, Lose
<1>5. CASE \E j \in Calls, c \in Clients : Send(j, c)
  BY <1>1, <1>2, <1>5 DEF Send, Post
<1>6. CASE \E j \in Calls : Handle(j)
  BY <1>2, <1>6, OwnCallOnly
<1> QED
  BY <1>3, <1>4, <1>5, <1>6 DEF AccountsNext

\* The statuses that the two ways of answering leave.
LEMMA StatusOfReply ==
  ASSUME AInv, NEW k \in Calls, calls[k] # Nil
  PROVE  /\ \A st \in Statuses : Reply(k, st) => calls'[k].status = st
         /\ \A st \in Statuses, u \in UserIds, cred \in Credential :
              ReplySession(k, st, u, cred) => calls'[k].status = st
<1>1. calls[k] \in Call /\ calls \in [Calls -> Call \cup {Nil}]
  BY DEF AInv, AccountsTypeOK
<1>2. \A st \in Statuses : Reply(k, st) => calls'[k].status = st
  BY <1>1 DEF Reply, Call
<1>3. \A st \in Statuses, u \in UserIds, cred \in Credential :
        ReplySession(k, st, u, cred) => calls'[k].status = st
  BY ReplySessionSound DEF AInv
<1> QED
  BY <1>2, <1>3

\* What a registration is answered, whoever else registers.
LEMMA RegisterAnswered ==
  ASSUME AInv, NEW k \in Calls, Handle(k), calls[k].op = "register", ~Malformed(calls[k])
  PROVE  calls'[k].status = IF \E e \in enrolled : SameEmail(e, calls[k].cred)
                            THEN 409 ELSE 201
<1> DEFINE typed == calls[k].cred
           cred == ByEmail(typed)
<1>1. Register(k)
  BY DEF Handle, LoginWithPassword, LoginWithIDToken, DevLogin, Gated, Pending, GatedOps
<1>2. calls[k] # Nil /\ typed \in PasswordCreds
  BY <1>1, AttemptKinds DEF AInv, Register, Pending
<1>3. cred \in Credential
  BY <1>2, ByEmailSound
<1>4. (\E e \in enrolled : SameEmail(e, typed)) <=> GetPasswordUserByEmail(cred.sub) # {}
  BY <1>2, KnownEmails
<1>5. \/ GetPasswordUserByEmail(cred.sub) # {} /\ Reply(k, 409)
      \/ GetPasswordUserByEmail(cred.sub) = {}
         /\ \E u \in UserIds : ReplySession(k, 201, u, cred)
  BY <1>1 DEF Register
<1> HIDE DEF cred, typed
<1>6. \/ (\E e \in enrolled : SameEmail(e, typed)) /\ calls'[k].status = 409
      \/ ~(\E e \in enrolled : SameEmail(e, typed)) /\ calls'[k].status = 201
  BY <1>2, <1>3, <1>4, <1>5, StatusOfReply DEF Statuses
<1> QED
  BY <1>6 DEF typed

\* Who gets in.
LEMMA LoginAnswered ==
  ASSUME AInv, NEW k \in Calls, Handle(k), calls[k].op = "login"
  PROVE  calls'[k].status = 200 <=>
           \E e \in enrolled : SameEmail(e, calls[k].cred) /\ e.hash = calls[k].cred.hash
<1> DEFINE typed == calls[k].cred
           cred == ByEmail(typed)
           rows == GetPasswordUserByEmail(cred.sub)
<1>1. LoginWithPassword(k)
  BY DEF Handle, Register, LoginWithIDToken, DevLogin, Gated, Pending, GatedOps
<1>2. calls[k] # Nil /\ typed \in PasswordCreds
  BY <1>1, AttemptKinds DEF AInv, LoginWithPassword, Pending
<1>3. cred \in Credential /\ cred.hash = typed.hash
  BY <1>2, ByEmailSound
<1>4. (\E e \in enrolled : SameEmail(e, typed) /\ e.hash = typed.hash) <=>
        \E u \in rows : users[u].hash = typed.hash
  BY <1>2, KnownEmails
<1>5. \/ (\A u \in rows : users[u].hash # cred.hash) /\ Reply(k, 401)
      \/ \E u \in rows : users[u].hash = cred.hash /\ ReplySession(k, 200, u, cred)
  BY <1>1 DEF LoginWithPassword
<1>6. rows \subseteq UserIds
  BY DEF AInv, AccountsTypeOK, GetPasswordUserByEmail, Rows
<1> HIDE DEF cred, typed, rows
<1>7. \/ (\A u \in rows : users[u].hash # typed.hash) /\ calls'[k].status = 401
      \/ (\E u \in rows : users[u].hash = typed.hash) /\ calls'[k].status = 200
  BY <1>2, <1>3, <1>5, <1>6, StatusOfReply DEF Statuses
<1> QED
  BY <1>4, <1>7 DEF typed

\* However registrations race and whatever is lost, the first of an e-mail to
\* take effect is the one that is answered 201 and all others are answered 409
\* (isUniqueViolation in Register).
THEOREM FirstWins == AccountsSpec => FirstRegistrationWins
<1>1. AInv /\ [AccountsNext]_accountVars =>
        \A k \in Calls : Handled(k) /\ calls[k].op = "register" /\ ~Malformed(calls[k]) =>
          calls'[k].status = IF \E e \in enrolled : SameEmail(e, calls[k].cred)
                             THEN 409 ELSE 201
  BY AnsweredByHandler, RegisterAnswered
<1> QED
  BY <1>1, AlwaysAInv, PTL DEF AccountsSpec, FirstRegistrationWins

\* Whoever has registered gets in with that password, in any spelling of the
\* e-mail, and nobody else does (LoginWithPassword).
THEOREM GetIn == AccountsSpec => RegisteredGetIn
<1>1. AInv /\ [AccountsNext]_accountVars =>
        \A k \in Calls : Handled(k) /\ calls[k].op = "login" =>
          (calls'[k].status = 200 <=>
             \E e \in enrolled : SameEmail(e, calls[k].cred) /\ e.hash = calls[k].cred.hash)
  BY AnsweredByHandler, LoginAnswered
<1> QED
  BY <1>1, AlwaysAInv, PTL DEF AccountsSpec, RegisteredGetIn

================================================================================
