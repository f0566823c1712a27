# Pit Pilot: a TLA+ development of the back end and its web client

Pit Pilot lets a group of friends plan concerts: members join a group by an
invite code, plan concerts, answer yes or no, settle who owes the ticket money,
and are told of what happens by push notification. The back end is a Go program
(`src/backend`) over PostgreSQL, deployed as two replicas; the client is a
React PWA (`src/frontend`). This directory holds TLA+ models of the back end and
of the client's session and push state, TLC configurations that check them on small instances, and proofs that TLAPS
checks for every instance.

## 1. Inventory

| component | source | state | operations | hard behaviour | model |
|---|---|---|---|---|---|
| Payments | `service/payments.go`, `httpapi/payment_handlers.go` | `payment_collections`, `payment_items` | Activate, Get, SetPaymentLink, Deactivate, AddItem, SetAmount, RemoveItem, Report, UnReport, Confirm, UnConfirm | every operation reads, checks, then writes by id; two transactions; UNIQUE constraints decide races | `Payments`, `PaymentLedger` |
| Groups | `service/groups.go` | `groups`, `group_members` | Create, Join, RegenerateInvite | codes drawn at random and UNIQUE; joining again; lookup and insert are two statements | `Coordination` |
| Concerts | `service/concerts.go` | `concerts` | Create, Get | the members listed inside the transaction are those told | `Coordination` |
| Answers | `service/rsvps.go` | `rsvps` | Set, List | READ COMMITTED transactions that do not see each other | `Coordination` |
| Outbox | `notify/notify.go`, `notifications.sql` | `notifications` | Enqueue, claim, mark, prune | commits with the domain change; settled in batches | `Outbox`, `Worker` |
| Worker, delivery | `worker/worker.go`, `push/webpush.go` | a transaction per replica | claim, list, send, delete dead, mark, commit, prune | crash between send and commit, row locks, deadlock, partial failure | `Worker`, `Delivery` |
| Worker, reminders | `worker/worker.go`, `notifications.sql` | advisory lock, `notifications` | scan of deadlines and concerts | several replicas, lost scans, windows of time, deduplication against pruning | `Reminders` |
| Push subscriptions | `service/subscriptions.go`, `push_handlers.go` | `push_subscriptions` | Subscribe, Unsubscribe | a browser changes hands while workers delete its row | `Worker` |
| Users | `service/users.go`, `password/`, `users.sql` | `users` | Register, LoginWithPassword, LoginWithIDToken, DevLogin | racing registrations of one e-mail in several spellings, answers that are lost, several providers in one table | `Accounts` |
| Sessions | `auth_handlers.go`, `middleware.go`, `auth/session.go` | none: a token that only the client keeps | issue, validate, me, logout | tokens outlive logouts and expire while calls are under way | `Accounts` |
| HTTP layer | `httpapi/`, `apperr/` | none | routes, errors | - | requests and answers of the models |
| Process | `cmd/api/main.go`, `config/` | none after start-up | start | - | not modelled |
| Web client, page | `auth/AuthContext.tsx`, `App.tsx`, `routes/Login.tsx`, `routes/Groups.tsx`, `api/client.ts` | user, route, query cache | load, log in, refresh, fetch, navigate | answers of `me()` and of fetches out of order; a cache that outlives logins | `AuthClient`, `Web` |
| Web client, push | `components/PushToggle.tsx`, `service/subscriptions.go` | the browser's subscription, its row | enable, disable | chains of awaits that overlap, are left or fail half way; browsers that change hands | `PushClient`, `Web` |
| Web client, other pages | `routes/`, `components/` | none of their own | one query or one mutation each | - | not modelled |

The parts of the back end interact through the database only. The services call down a
chain (`RSVPService` → `ConcertService.Get` → `GroupService.RequireMembership`,
and `PaymentService` likewise); concerts, answers and payments enqueue rows into
the outbox inside their own transaction; the workers drain it and read the
subscriptions that the API writes. The client and the back end interact through
HTTP calls and the session cookie; the client's two parts through what the page
shows, on which the push toggle is mounted.

What makes each component correct: payments - one collection per concert, items
that belong to it, status and timestamps that agree, and writes only by those
entitled *when the write happens*; groups - a code opens one group, which keeps
its admin; concerts and answers - who is concerned is told, nobody else; outbox
and workers - no notification is dropped, starved, claimed twice, or called
sent when it was not; reminders - once, in time, for everyone concerned;
accounts - one per e-mail, opened by its own credential alone; the page - it
knows who is logged in and shows that person's groups; push - what the toggle
says is what the browser gets.

## 2. How the code is modelled

**Statements are steps.** Between two SQL statements of one request anything
may happen, so an action is one statement with the Go code up to the next one.
What a request has read is kept in a record of its goroutine (`req[p]`) or of
its worker (`w[v]`, `scan[v]`), and may be stale when it is used. Isolation is
READ COMMITTED, the default that the code never changes: a statement sees what
has been committed and what its own transaction has written. Uncommitted writes
live in that record until the action that commits, and locks are guards over the
other records (a UNIQUE slot, a row that is being deleted, the advisory lock).

**Data** is abstract: uuids, codes, links and endpoints are model values, a
nullable timestamp is a Boolean, `created_at` is a time in `Reminders` and an order of the rows in `Worker` (pairs
of ids, the older first). That order is strict and follows the commits; in the
code `created_at` is the time at which the inserting transaction began, so rows
of one transaction tie and a late commit adds a row that is older than rows
already there. The claim's ORDER BY only chooses among pending rows, so the
safety properties do not depend on it. That rows do not starve does, and holds in
the code as well: only transactions that had begun by then can still add older
rows. Texts of notifications are left out.

**Faults.** Next to some actions a module has a variant marked `Fault:`, a
plausible bug in the same code. No specification uses it; each shows that a
property would notice (`mutants` in `PROJECT.json`).

### Payments (with PaymentLedger)

`rsvpYes`, `collections`, `items` are the committed tables; `req` the requests
in flight; `enqueued` the outbox rows of the latest transaction. A handler
starts with an action of its own name (`Activate`, `AddItem`, ...; the shared
beginnings are `CollectionOp` and `ItemOp`), goes through the loads
(`LoadItem`, `AddItemCheck`) and ends in the action that writes
(`ConfirmWrite`, ...). Activate takes its UNIQUE slot and reads the answers of yes in
`ActivateInsert`, and commits the rows and their notifications in
`ActivateCommit`; another INSERT for
the concert waits in between (`HoldsUniqueSlot`), and `Abort` may end it. The
members of a concert's group are a constant: `Coordination` shows that they
only ever grow, and a request by somebody who has just joined is one by a
member. `PaymentLedger` is the abstract specification: a function from the
concerts that have a ledger to its responsible and a status per debtor, every
operation indivisible. A ledger may open with any debtors there: that they are
those who had answered yes is in `ActivateInsert` alone, and the refinement says
that they all appear at once, not who they are.

### Coordination

`groups`, `role` (group_members), `concerts`, `rsvps` are the committed tables.
`RequireMembership` is `Gate`; the middleware's identical check before it reads
the same row, which is never removed. `CreateGroup` draws any code: one in use
fails on UNIQUE, one held by an uncommitted insert is waited for. Concert
creation is `Create` (gate), `CreateConcert`, `ListGroupMembers`,
`CommitConcert`; an answer is `Set` (gate), `UpsertRSVP`,
`ListRSVPsForConcert`, `CommitRSVP`. `Abort` rolls back anything in flight.
`notifications`, `overlapped` and `late` are history: they are written but no
guard reads them.

### Worker, Delivery, Outbox

One record `w[v]` per replica: the claimed rows, the row being sent, the
subscriptions it still has to send to, those deleted and the outcomes so far, all
invisible to others until `Commit`. `Send` has the three outcomes of
`WebPusher.Send`; an endpoint that the push service has discarded (`gone`) never
accepts, one that it has not may fail at any time. `Crash` stands for a kill, a lost
connection or a failing statement; `DeadlockAbort` is what PostgreSQL does to
workers that delete each other's rows. `Delivery` adds two history variables -
what each notification has been `served` to, and the devices it is `owed` to -
and `Outbox` is the abstract specification it implements.

### Reminders

The worker's tick against a clock: `Begin` takes the advisory lock or passes on,
two scans insert under `ON CONFLICT (dedup_key) DO NOTHING`, `Commit` publishes
rows dated by the transaction's `now()`, `SendPending` settles any part of what
is pending (its inside is `Worker`), `PruneOldNotifications` removes what is
settled and old. A scan that is lost (`Crash`) ends the tick, as `Tick` returns
the error.

### Accounts

Every handler here runs one statement, so a handler is one step; what is
interleaved are the calls. `calls` holds those under way, from `Send` (which
reads the cookie) through the handler (`Handle`) to `Arrive` (which stores or
clears it), and `Lose` may end one before or after its handler. `users` is the
table, `jar` the cookie of each client, `now` the clock against which tokens
expire; there is no table of sessions, as in the code. `enrolled` is history:
the registrations that took effect, as typed. `Trim` and `Lower` are any
functions on texts that, one after the other, are idempotent. `Attempts` are the
bodies people send, an ID token that does not verify (`Nil`) among them.
Passwords are compared, not hashed. UPSERTs also refresh name, e-mail and
picture, which no statement reads back to decide anything: left out.

### AuthClient, PushClient and Web

`AuthClient` is the page in one of the clients of `Accounts`: its route, the
`userId` and `loading` of `AuthProvider`, and `cache`, whose groups the query
client holds. A call of the page is awaited, so receiving its answer (`Arrive`)
is part of the action that goes on after the await: `SubmitAnswered` stores the
cookie and asks `me()` in one step, `MeAnswered` renders, mounts `Groups` and
starts its fetch. `Navigate` is back and forward, `Open` a load of the page,
which gives up what was under way (its calls are handled before or never),
`Focus` the refetch of react-query. `excuses` is history: what has happened that
may leave the page wrong (a `me()` under way while somebody logs in, a lost
answer, a fetch joined or given up). The invariants say when the page is right,
and so name each way in which it is not.

`PushClient` is the toggle: `toggles` are the chains of awaits at work, one
action per await, with the API's `Save` and `Delete` in between and `Fail` at any
point. Nothing disables the buttons meanwhile, so chains overlap, and go on after
the component is gone (`Leave`) or not (`Reload`). `push` is what the browser is
subscribed as, `rows` what the server has for it, `dead` what the push service
has discarded. Its `session` and `shown` are variables there and a refinement of
the page's state in `Web`, which composes the two: a step of the page that takes
the toggle off it is `Leave` too, and whoever logs in next finds the subscription
and the row of whoever was there. `Worker` has the same rows from the server's
side, with the workers that delete them.

## 3. What is checked

All runs are in `PROJECT.json`. Deadlock checking is on in all of them.

| run | shows |
|---|---|
| `pay_ledger` | types; status and timestamps agree (`RowsConsistent`); one collection per concert; no orphaned, foreign or doubled item; every write and delete is entitled when it happens; a transaction enqueues one row per debtor it adds and one for the debtor of a Confirm answered 200, nothing else (`NotifiedAtomically`); GET shows a debtor no one else's item although the collection may be replaced between its statements; `Payments` implements `PaymentLedger` |
| `pay_liveness` | every request is answered, the waiting INSERT included |
| `pay_overwrite` (violation) | a Report that has read the item before a Confirm overwrites the confirmation |
| `pay_confirm` (violation) | of two Confirms that have both read an item before either writes the second is answered 200 too, and the debtor is told twice |
| `pay_duplicate` (violation) | of two racing activations the loser is answered 500, not 409 |
| `coordination` | codes are unique, the creator stays the only admin, only an admin replaces a code; answers and notifications stay in the group; no member of the time is left out of an announcement; of two members who are coming one has been told, unless their transactions overlapped |
| `coord_skew` (violation) | two answers of yes at the same moment: neither is told |
| `delivery` | sent means served; no resend without a lost transaction; one user per browser; a worker takes down only discarded subscriptions; `Delivery` implements `Outbox` |
| `worker_liveness` | every notification is settled in the end |
| `reminders` | reminders in their window, for members, once, and for everyone who is coming, or has not answered, while the window is open |
| `web` | one account per e-mail, the first registration wins and gets in whatever was lost since; a session opens the account of its credential; the page knows its user and shows their groups, but for the excuses; the toggle says off only when the browser gets nothing and on only when it gets what its user is sent |
| `web_login` (violation) | a `me()` that was under way when somebody logged in answers 401 after the login and puts them back on the login page for good |

### Bounds

*Payments*: two concurrent requests. Every check-then-write of the code is two
or three statements on one or two rows, so a second request that runs from start
to end between them is the worst case, and as either of the two may be followed
by others the third in a row is covered too. Two users, one concert (a second
one multiplies the states by thirty; that the item named in the path may belong
to another concert, which `loadItem` rules out, is left to the proofs, which hold
for any number of concerts); two collection ids, so that a collection can be
replaced by another member's while a request holds the first, and items likewise.
`Ops` selects the operations a run is about; between them the two runs have all
eleven: SetAmount and SetPaymentLink, which leave status and roster alone, are in
`pay_liveness` (with amounts they would double the states of the other run); that
only the responsible may use SetAmount is the theorem `WritesAlwaysAuthorised`.

*Coordination*: two requests, two members, two groups, as many codes as groups,
so that a fresh code may be in use, and a code that was replaced may open the
other group when a Join that has looked it up inserts its membership; one
concert, whose announcement and answers are the races in question.

*Worker*: two workers, users, browsers, rows and notifications. In `delivery` a
batch may hold both notifications (`Batch = 2`), so a worker may be in the middle
of a batch, and the transaction of one worker may be lost (`MaxCrashes = 1`),
besides those that deadlock. In `worker_liveness` a batch is smaller than the
queue (`Batch = 1`): that is where rows could starve.

*Reminders*: the clock stops at `MaxTime`, after both windows (`Window = 2`,
deadline 2, event 3) and after a first reminder may be pruned
(`Retention = 3`); `WindowAssumption` keeps the one relation between the periods
that the code's 24 hours and 30 days have. Members do not interact here, so one
is enough; two workers do, over the lock and the table.

*Web*: two clients, the page in one and a rival in the other; an e-mail in two
spellings and two passwords, one account by Google, a name for the dev login, and
everything the handlers refuse (a short password, a blank name, a token that does
not verify). Two calls at once, which is what overtaking takes, two accounts, two
push endpoints (a subscription and its successor) and two chains of the toggle.
One tick of the clock takes a session from valid to expired. The constraint
`MCBound` keeps the product of the parts small: the page is used by the two
people only; the rival acts before the page is first opened - it shares nothing
with the page but the accounts, whose invariants do not depend on who sends what
(and are proved for any clients, below); and from the moment push is in use there
are no more excuses, the accounts are the people's and nobody registers, one
subscription at most is discarded, and chains, calls and the tick together are two
at most, so a chain overlaps one other chain, or one login, or one expiry. The
theorems of `WebProofs` have none of these bounds.

Symmetry is used where values are interchangeable and never in a run with a
liveness property.

### Fairness

`web` checks safety alone: people and networks owe nothing.

`Payments!FairSpec`: strong fairness of each goroutine's next statement. A
goroutine that is not blocked runs; for the INSERT that waits PostgreSQL wakes
the waiter whenever the transaction ahead ends. `Worker!FairSpec`: weak fairness
of each worker's step, since its ticker fires for ever and a send gives up after
10 seconds; strong fairness of each blocked DELETE, since a lock that is
released goes to the session that waits for it - without it TLC finds two
workers that abort each other for ever; and browsers do not register a
discarded endpoint for ever. `Reminders!FairSpec`: weak fairness of each
worker's step. The clock is not fair and may run past the scan only when
`EveryoneReminded` allows it: a window of 24 hours is long against a tick of a
minute.

## 4. What is proved

Every safety property that a passing run checks - type invariants, invariants,
action properties and both refinements - is also a theorem, for every value of
the constants that satisfies the named assumptions of its module. Those say how
the constants of the code relate (members are users, the window is shorter than
the retention, normalising a text twice changes nothing) and that the model's
`Nil` is none of the values it stands beside. Each inductive invariant was
checked by TLC before it was proved.

`PaymentsProofs` proves, for every value of the constants that satisfies the
assumptions in `Payments` (members are users, amounts are integers, `Nil` is
none of the other values):

- `TypeCorrect`, `ActivationExclusive`, `ItemsAlwaysBelong`,
  `RowsAlwaysConsistent`: the four invariants that the runs check;
- `WritesAlwaysAuthorised`, `DeletesAlwaysAuthorised`: the action properties;
- `InvariantHolds`: `IInv`, on which they rest.

None of the invariants is inductive alone. When a request writes, it uses rows
it read before, so `IInv` adds what stays true of them (`InFlightSound`): ids are
never used again while a request holds them, a collection never changes its
concert or responsible, an item never its collection or debtor, and a request
that got past a check of the responsible still has it in that the collection
either is the one it saw or is gone. `SlotsExclusive` says the same of the
uncommitted collection of an activation: nobody else has its id or concert,
which is what UNIQUE and the waiting INSERT provide and what
`OneCollectionPerConcert` needs at the commit. The proof has a lemma per
group of actions (`InvItemOp`, `InvActivateInsert`, `InvAddItemWrite`, ...),
lemmas for what a request that moves on or is answered leaves alone, and
`InvNext` puts them together. The two action properties follow from `IInv` and
from lemmas that say which steps change or delete rows at all.

`LedgerProofs` goes on from `IInv`:

- `ViewsAlwaysAuthorised`, `AlwaysNotifiedAtomically`: the other action
  properties of `pay_ledger`;
- `LedgerImplemented`: `Payments` implements `PaymentLedger`.

`NotifiedAtomically` counts what a step answers: `Confirming` is the Confirm that
the step answers 200, and the outbox gets a row for its debtor and one for every
debtor added. Only `ConfirmWrite` answers one (`NoneConfirming`, from `IInv`: what
is in flight at any other statement is another operation), and the debtor it
read is still that of the row. The stronger demand, that such a Confirm finds
the item unconfirmed, is what `pay_confirm` refutes.

GET needs one more invariant, `NothingShownEarly`: a request has nothing to show
before its last statement, so what it shows is what that statement listed, whose
items are of the collection it holds, whatever has become of that one since. For
the refinement, the ledger of a concert is written as a function of the two
tables (`LedgerOf`), which UNIQUE makes well defined: per concert one collection,
per collection and debtor one item (`Keyed`, from `IInv`). The lemmas then say
what inserting, deleting or updating a row does to that function (`OpenLedger`,
`CloseLedger`, `PutLedger`), and each statement is put to one of them; those that
change no row, or only amounts and links, are stutters (`OtherWritesStutter`).

`CoordinationProofs` proves, from no more than that `Nil` is none of the other
values:

- `CoordinationTypeCorrect`, `CodesAlwaysUnique`, `CreatorAlwaysAdmin`,
  `AlwaysStaysInGroup`: invariants of the run `coordination`;
- `AdminAlwaysReplacesCode`: its action property;
- `CoordinationInvariant`: `Coordination!IInv`, on which they rest.

Its `IInv` adds to the invariants what a request has established when it passed
its gate and relies on when it writes, statements later (`Admitted`): it still
holds because groups and concerts are never removed and memberships never end -
and `CreatorIsAdmin` is what makes the check of the role last. `InsertsDistinct`
says that uncommitted rows do not clash, without which a commit could take over
another's code. Most steps only change what a request holds: `StepOfRequest`
does them all, and the five that write rows have a lemma each.

`NoticeProofs` proves of the same specification `AlwaysAnnounced` and
`AlwaysCoAttendeesTold`: nobody who should be told is left out, whatever other
transactions are in flight. `NInv` adds to the two properties what a request has
seen when it commits: `Announcing`, that the members it lists are all there were
when it inserted its concert, and `AnswersSeen`, that an answer of yes is in what
another one lists, is told, or overlaps it. A step either leaves what is
listed alone (`AnnouncementsKept`, `AnswersKept`) or has a lemma of its own.

`AccountsProofs` proves of `AccountsSpec`, for any clients, attempts, texts,
numbers of calls and periods of validity, from the named assumptions in
`Accounts`:

- `AccountsTypes`, `OneAccount`, `SessionsAreByCredential`: three invariants that
  `web` checks;
- `FirstWins`, `GetIn`: its two action properties.

They rest on `AInv`. Rows are only ever added and never change, so a session that
was issued for a row's credential stays `Genuine`, in a cookie, in an answer or
in a request that is still under way; `CallsAttempted` keeps what is under way
to bodies that somebody sent, so that a password login never carries Google's
credential; `RowsUnique` is the UNIQUE constraint, and `EnrolledAreRows` ties the
history to the table, which turns the answers 201, 409 and 200 into statements
about the past. `OneAccount` needs besides that a stored e-mail is in normal form,
that is, that `Lower` after `Trim` is idempotent.

`WebProofs` proves of `WebSpec`, the page and its toggle as one client among any
others, for any endpoints and chains:

- `WebAccounts`, `WebFirstWins`, `WebGetIn`: what the accounts promise holds there
  too, although the page receives an answer and makes its next call in one step;
- `ClientTypes`, `AlwaysKnowsUser`, `AlwaysOwnGroups`: the types and the two
  invariants of the page;
- `AlwaysOffIsSilent`, `AlwaysOnIsReachable`: what the toggle says is so.

The page's part is `AuthClient!PageInv`. That the page knows its user is not
inductive, for it says nothing while a `me()` is under way: `MeInStep` adds that,
unless a login came in between, there is only one, sent with the session that the
browser still holds, and `GatedAnswers` that its answer, however late, is still
true - a 200 names the session's user, and a session that was refused as expired
does not become valid again. `FetchInStep` says the same of the list of groups.
The toggle's part is `Web!WebInv`: a chain of awaits that runs alone finds, after
each of them, the subscription it left behind or none, and its user's session or
none (`Undisturbed`); rows outlive only subscriptions that the push service has
discarded (`RowsForPush`); and a toggle that is not on the page says nothing
(`LeftAlone`). A step of the page reaches the chains only through the session and
through what the page shows, which the page's invariant ties together
(`SessionWhileShown`), so each half has its own lemmas and `WebStepSound` joins them.

`DeliveryProofs` proves of `Worker!Spec` and `DeliverySpec`, for any workers,
users, browsers, rows, batches and crashes:

- `OneUser`, `OnlyDead`: a browser has one user, and only discarded subscriptions
  are deleted (both of `Worker!Spec`);
- `WorkerTypes`: the type invariant of `Worker!Spec`, with the order of the rows:
  those that are left stay totally ordered by age, whichever were pruned;
- `SentIsServed`, `NoResend`: sent means served, and nothing that was served and
  committed is served again;
- `Implements`: every step of `Delivery` is one of `Outbox`, or a stutter.

`Worker!WInv` says that claims and deletions are exclusive - no row is claimed by
two transactions, no subscription row is being deleted by two - and that what a
worker listed stays true of the row of that id: an id that a worker holds is not
drawn again, so a row that was read may be gone, but is never another browser's. `Delivery!DInv` adds the
history: a pending row that nobody has claimed has been served to nobody, except
by transactions that were lost (`Untaken`), and what a transaction has served is
what its record says (`Tracked`). The refinement follows, because what a commit
marks is what `Outbox` may settle in one step.

`RemindersProofs` proves, for any members, periods and windows that satisfy the
assumptions in `Reminders`:

- `RemindersTypes`, `AlwaysTimely`: two invariants of the run `reminders`;
- `AlwaysOnce`: its action property.

Their `RInv` is about deduplication: ON CONFLICT sees a reminder only while its
row is there, and rows are pruned. `StillThere` says that the row of a reminder
that was ever published is there for as long as its window is open or a scan that
found it open is under way; that is what `WindowAssumption` gives, and without it
the proof fails at pruning.

Only model-checked are the three liveness properties: `EveryRequestAnswered`,
`EveryNotificationSettled` and `EveryoneReminded`. They rest on fairness, and so on
ENABLED, which the installed provers do not reason about.

## 5. Where code and documents differ

The violation runs are the disagreements found so far; `findings` in
`PROJECT.json` quotes the documents.

1. A debtor's Report or UnReport may undo a confirmation (`pay_overwrite`).
2. The loser of two racing activations gets 500 instead of 409 (`pay_duplicate`).
3. Two Confirms at the same moment both confirm, are both answered 200 and
   both notify the debtor (`pay_confirm`).
4. Two members who say yes at the same moment are not told of each other
   (`coord_skew`).
5. Whoever logs in while the `me()` of the page load is still under way may be
   put back on the login page, with a valid session (`web_login`).

## 6. What is not modelled

Reads that only return committed rows of one statement (lists of groups,
concerts, members, answers): they keep no state. Parsing, rendering, start-up
and configuration: sequential. Deployment: declarations. Password hashing and the
verification of OIDC tokens: cryptography, modelled by what they decide. The
renewal of sessions: the design has it, the code does not. The other pages of the
client: each shows one query, or sends one mutation and refetches. A second tab of
the same browser, which shares the cookie but not the page. A reminder that is
pending while its recipient answers is sent all the same: the documents ask only
the scan to look. One failed send marks a notification `failed`, and a device that
missed it is not tried again: `Worker` does so too, and the comment at
`worker.go:113` calls it a deliberate cut of the design's retries. A copy of a
session's token outlives the logout: sessions are stateless by design. A browser that changes hands while a message is being sent may
show it to its new user, and one that changes hands without its new user touching
the toggle keeps the earlier user's row: no code takes it away, and `OnIsReachable`
and `OffIsSilent` speak only of a toggle that has been used.

## 7. Plan

Built: `Payments`, `PaymentLedger`, `PaymentsProofs`; `Worker`, `Delivery`,
`Outbox`, `DeliveryProofs`; `Reminders`, `RemindersProofs`; `Coordination`,
`CoordinationProofs`, `NoticeProofs`; `Accounts`, `AccountsProofs`; `AuthClient`,
`PushClient`, `Web`; `LedgerProofs`, `WebProofs`. In this order, because
payments hold money and most check-then-write races, delivery most failure
handling, and the rest leans on them.

Next models:

1. `Notifier`: `Coordination` composed with `Outbox`: what a domain change
   enqueues is settled in the end.
2. A second concert and a third user in the payments' run, if the state space of
   the transitions can be halved.

Next proofs:

1. The safety half of liveness, which needs no fairness: that no request of
   `Payments` and no worker is ever blocked for good, as an invariant that some
   lock holder can go on.
2. With `Notifier`, that the rows `Coordination` and `Payments` enqueue are those
   that `Outbox` starts from.
