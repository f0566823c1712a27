------------------------------- MODULE MCWeb -------------------------------
EXTENDS Web, TLC

CONSTANTS m, M, blank, g, p, q, short, anna, ben, home, away

MCTrim == [t \in Texts |-> t]
MCLower == [t \in Texts |-> IF t = M THEN m ELSE t]

Try(op, provider, sub, hash) ==
  [op |-> op, cred |-> [provider |-> provider, sub |-> sub, hash |-> hash], name |-> m]

\* One person has an e-mail and spells it in two ways, another one an account
\* with Google.
MCPeople == {Try("register", "password", m, p), Try("login", "password", M, p),
             Try("oidc", "google", g, Nil)}

\* Somebody registers the same e-mail with another password; and what is refused.
MCRivals == {Try("register", "password", M, q), Try("login", "password", m, q),
             Try("register", "password", m, short), Try("dev", "dummy", m, Nil),
             Try("dev", "dummy", blank, Nil), [op |-> "oidc", cred |-> Nil, name |-> Nil]}
MCAttempts == MCPeople \cup MCRivals

Tried(from) == {[op |-> calls[k].op, cred |-> calls[k].cred, name |-> calls[k].name] :
                  k \in {j \in Calls : calls[j] # Nil /\ calls[j].from = from
                                                     /\ calls[j].op \in LoginOps}}

\* The page is for the people; the other client is idle while it is open.  While
\* push is in use, the accounts are theirs, nobody registers, a subscription has one
\* successor, and chains, calls and the tick of the clock together are two at most.
MCBound ==
  /\ Tried(home) \subseteq MCPeople
  /\ page.route # "closed" =>
       jar[away] = Nil /\ \A k \in Calls : calls[k] # Nil => calls[k].from = home
  /\ (push # Nil \/ dead # {} \/ Push!AtWork # {}) =>
       /\ excuses = {} /\ Cardinality(dead) <= 1
       /\ \A k \in Calls : calls[k] # Nil => calls[k].op # "register"
       /\ \A u \in DOMAIN users : users[u].provider # "dummy" /\ users[u].hash # q
       /\ Cardinality({k \in Calls : calls[k] # Nil}) <= 2 - Cardinality(Push!AtWork) - now

MCSymmetry == UNION {Permutations(S) : S \in {UserIds, Calls, Endpoints, Toggles}}

=============================================================================
