---------------------------------- MODULE Web ----------------------------------
(***************************************************************************)
(* The web client as a whole: the page of AuthClient, with PushClient on   *)
(* its list of groups (routes/Groups.tsx).  Whoever logs in next in a      *)
(* browser finds the push subscription and the row of whoever was there.   *)
(***************************************************************************)
EXTENDS AuthClient

CONSTANTS Endpoints, Toggles

ASSUME EndpointAssumption == Nil \notin Endpoints

VARIABLES push, dead, rows, toggles, status, mixed

Push == INSTANCE PushClient WITH
  Users <- UserIds, NoPush <- Nil,
  session <- IF Valid(jar[Browser]) THEN jar[Browser].user ELSE Nil,
  shown <- Shows(page)

ASSUME NoChainAssumption == Nil \notin Push!Chain

pushVars == <<push, dead, rows, toggles, status, mixed>>
webVars == <<users, jar, calls, now, enrolled, page, cache, excuses,
             push, dead, rows, toggles, status, mixed>>

\* A step of the page or of the accounts, and what it does to PushToggle.
PageChanges ==
  \/ /\ Elsewhere \/ \E k \in Calls : Browse(k)
     /\ IF Shows(page) /\ ~Shows(page)' THEN Push!Leave ELSE UNCHANGED pushVars
  \/ /\ \E k \in Calls, route \in {"login", "groups"} : Open(k, route)
     /\ Push!Reload

WebInit == ClientInit /\ Push!PushInit

WebNext ==
  \/ PageChanges
  \/ Push!PushNext /\ UNCHANGED clientVars

WebSpec == WebInit /\ [][WebNext]_webVars

ClientTypeOK == PageTypeOK /\ Push!PushTypeOK

OffIsSilent == Push!OffIsSilent

OnIsReachable == Push!OnIsReachable

--------------------------------------------------------------------------------
(* The inductive invariant *)

\* No row outlives the subscription it is for, and no chain handles another one
\* than that the browser has or had; one that has been discarded is not its own.
RowsForPush ==
  /\ push \notin dead
  /\ DOMAIN rows \subseteq dead \cup {push}
  /\ \A t \in Push!AtWork : toggles[t].at # "asked" =>
       toggles[t].endpoint \in Endpoints \cap (dead \cup {push})

\* PushToggle says nothing while it is not on the page, and the chains know that
\* they have been left.
LeftAlone ==
  ~Shows(page) => status = "" /\ \A t \in Push!AtWork : ~toggles[t].here

\* A chain that runs alone finds what it has left behind: its subscription or
\* none, and, as long as PushToggle is there, its user's session or none.
Undisturbed(t) ==
  LET chain == toggles[t]
      session == IF Valid(jar[Browser]) THEN jar[Browser].user ELSE Nil
  IN
  /\ ~chain.here => status = ""
  /\ chain.at # "asked" => push \in {chain.endpoint, Nil}
  /\ chain.at # "asked" /\ chain.here => session \in {chain.user, Nil}
  /\ chain.op = "enable" /\ chain.at = "handled" /\ push # Nil =>
       push \in DOMAIN rows /\ rows[push] = chain.user

AloneUndisturbed ==
  ~mixed => /\ \A s, t \in Push!AtWork : s = t
            /\ \A t \in Push!AtWork : Undisturbed(t)

WebInv ==
  /\ PageInv
  /\ Push!PushTypeOK
  /\ RowsForPush
  /\ LeftAlone
  /\ AloneUndisturbed
  /\ OffIsSilent
  /\ OnIsReachable

================================================================================
