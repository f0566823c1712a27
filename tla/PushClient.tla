------------------------------ MODULE PushClient ------------------------------
(***************************************************************************)
(* Switching push on and off: components/PushToggle.tsx and the rows that  *)
(* Save and Delete of service/subscriptions.go keep for this browser.      *)
(*                                                                         *)
(* Both buttons start a chain of awaits.  Nothing keeps one chain from     *)
(* starting while another is at work, or the component from being left     *)
(* while a chain goes on.  session and shown belong to the page and are    *)
(* never assigned here.                                                    *)
(***************************************************************************)
EXTENDS FiniteSets, Functions

CONSTANTS
  Users,
  Endpoints,   \* what the push service may name this browser's subscriptions
  Toggles,     \* how many chains may be at work at once
  NoPush       \* no user, no endpoint, no chain

VARIABLES
  session,   \* the user of the browser's session while it is valid
  shown,     \* whether PushToggle is on the page
  push,      \* the browser's subscription
  dead,      \* endpoints the push service has discarded
  rows,      \* push_subscriptions: the user of each endpoint that has a row
  toggles,   \* the chains at work
  status,    \* what PushToggle says
  mixed      \* history: whether chains have overlapped since none was at work

pushVars == <<push, dead, rows, toggles, status, mixed>>

Chain == [op : {"enable", "disable"},
          at : {"asked", "sent", "handled"},   \* the API's part of the chain
          endpoint : Endpoints \cup {NoPush},
          user : Users \cup {NoPush},          \* whose session the call carries
          here : BOOLEAN]                      \* PushToggle has been there all along

AtWork == {t \in Toggles : toggles[t] # NoPush}
At(t, op, place) == toggles[t] # NoPush /\ toggles[t].op = op /\ toggles[t].at = place

\* setStatus does nothing once the component is gone.
Finish(t, said) ==
  /\ toggles' = [toggles EXCEPT ![t] = NoPush]
  /\ status' = IF toggles[t].here THEN said ELSE status

Call(t, endpoint) ==
  toggles' = [toggles EXCEPT ![t].at = "sent", ![t].endpoint = endpoint, ![t].user = session]

--------------------------------------------------------------------------------
Click(t, op) ==
  /\ shown
  /\ toggles[t] = NoPush
  /\ toggles' = [toggles EXCEPT ![t] = [op |-> op, at |-> "asked", endpoint |-> NoPush,
                                        user |-> NoPush, here |-> TRUE]]
  /\ mixed' = (AtWork # {})
  /\ UNCHANGED <<push, dead, rows, status>>

\* pushManager.subscribe() yields the subscription there is, or a new one.
Subscribe(t) ==
  /\ At(t, "enable", "asked")
  /\ \E e \in Endpoints :
       /\ IF push = NoPush THEN e \notin dead \cup DOMAIN rows ELSE e = push
       /\ push' = e
       /\ Call(t, e)
  /\ UNCHANGED <<dead, rows, status, mixed>>

\* Fault: the route is not behind SessionMiddleware.
SaveForAnybody(t) ==
  /\ At(t, "enable", "sent")
  /\ rows' = [e \in DOMAIN rows \cup {toggles[t].endpoint} |->
                IF e = toggles[t].endpoint THEN toggles[t].user ELSE rows[e]]
  /\ toggles' = [toggles EXCEPT ![t].at = "handled"]
  /\ UNCHANGED <<push, dead, status, mixed>>

\* Fault: ON CONFLICT (endpoint) DO NOTHING.
SaveOnce(t) ==
  /\ At(t, "enable", "sent") /\ toggles[t].user # NoPush
  /\ rows' = [e \in DOMAIN rows \cup {toggles[t].endpoint} |->
                IF e \in DOMAIN rows THEN rows[e] ELSE toggles[t].user]
  /\ toggles' = [toggles EXCEPT ![t].at = "handled"]
  /\ UNCHANGED <<push, dead, status, mixed>>

\* Save: the row of the endpoint becomes the caller's.
Save(t) ==
  /\ At(t, "enable", "sent") /\ toggles[t].user # NoPush
  /\ rows' = [e \in DOMAIN rows \cup {toggles[t].endpoint} |->
                IF e = toggles[t].endpoint THEN toggles[t].user ELSE rows[e]]
  /\ toggles' = [toggles EXCEPT ![t].at = "handled"]
  /\ UNCHANGED <<push, dead, status, mixed>>

Enabled(t) ==
  /\ At(t, "enable", "handled")
  /\ Finish(t, "on")
  /\ UNCHANGED <<push, dead, rows, mixed>>

\* getSubscription()
Find(t) ==
  /\ At(t, "disable", "asked")
  /\ IF push = NoPush THEN Finish(t, "off") ELSE Call(t, push) /\ UNCHANGED status
  /\ UNCHANGED <<push, dead, rows, mixed>>

\* Delete: only a row of the caller's.
Delete(t) ==
  /\ At(t, "disable", "sent") /\ toggles[t].user # NoPush
  /\ rows' = Restrict(rows, {e \in DOMAIN rows : e # toggles[t].endpoint
                                                 \/ rows[e] # toggles[t].user})
  /\ toggles' = [toggles EXCEPT ![t].at = "handled"]
  /\ UNCHANGED <<push, dead, status, mixed>>

\* Fault: the browser's subscription is kept.
DisabledOnServer(t) ==
  /\ At(t, "disable", "handled")
  /\ Finish(t, "off")
  /\ UNCHANGED <<push, dead, rows, mixed>>

\* unsubscribe()
Disabled(t) ==
  /\ At(t, "disable", "handled")
  /\ dead' = dead \cup {toggles[t].endpoint}
  /\ push' = IF push = toggles[t].endpoint THEN NoPush ELSE push
  /\ Finish(t, "off")
  /\ UNCHANGED <<rows, mixed>>

\* Permission is denied, or something awaited is rejected: a call that the
\* session does not cover, and any other as well, handled or not.
Fail(t) ==
  /\ toggles[t] # NoPush
  /\ Finish(t, "failed")
  /\ UNCHANGED <<push, dead, rows, mixed>>

--------------------------------------------------------------------------------
\* The push service discards the subscription.
Expire ==
  /\ push # NoPush
  /\ dead' = dead \cup {push}
  /\ push' = NoPush
  /\ UNCHANGED <<rows, toggles, status, mixed>>

\* The worker deletes the row of an endpoint it gets 404 or 410 for.
DropDead(e) ==
  /\ e \in dead \cap DOMAIN rows
  /\ rows' = Restrict(rows, DOMAIN rows \ {e})
  /\ UNCHANGED <<push, dead, toggles, status, mixed>>

\* PushToggle is taken off the page; its chains go on.
Leave ==
  /\ status' = ""
  /\ toggles' = [t \in Toggles |->
       IF toggles[t] = NoPush THEN NoPush ELSE [toggles[t] EXCEPT !.here = FALSE]]
  /\ UNCHANGED <<push, dead, rows, mixed>>

\* The page is loaded again: nothing goes on.
Reload ==
  /\ status' = ""
  /\ toggles' = [t \in Toggles |-> NoPush]
  /\ UNCHANGED <<push, dead, rows, mixed>>

--------------------------------------------------------------------------------
PushInit ==
  /\ push = NoPush
  /\ dead = {}
  /\ rows = [e \in {} |-> NoPush]
  /\ toggles = [t \in Toggles |-> NoPush]
  /\ status = ""
  /\ mixed = FALSE

PushNext ==
  \/ \E t \in Toggles :
       \/ \E op \in {"enable", "disable"} : Click(t, op)
       \/ Subscribe(t) \/ Save(t) \/ Enabled(t)
       \/ Find(t) \/ Delete(t) \/ Disabled(t) \/ Fail(t)
  \/ Expire
  \/ \E e \in Endpoints : DropDead(e)

PushTypeOK ==
  /\ push \in Endpoints \cup {NoPush}
  /\ dead \subseteq Endpoints
  /\ DOMAIN rows \subseteq Endpoints /\ rows \in [DOMAIN rows -> Users]
  /\ toggles \in [Toggles -> Chain \cup {NoPush}]
  /\ status \in {"", "on", "off", "failed"}
  /\ mixed \in BOOLEAN

Settled == AtWork = {} /\ ~mixed

\* Once the page says that notifications are off, nothing reaches this browser:
\* neither as its user nor as whoever used it before and still has the row.
OffIsSilent == Settled /\ status = "off" => DOMAIN rows \subseteq dead

\* Once the page says that they are on, this browser gets the notifications of
\* its user, also when it was somebody else's, until the push service drops it.
OnIsReachable ==
  Settled /\ status = "on" /\ push # NoPush /\ session # NoPush =>
    push \in DOMAIN rows /\ rows[push] = session

================================================================================
