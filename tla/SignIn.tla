------------------------------- MODULE SignIn -------------------------------
(***************************************************************************)
(* Signing in through a provider: the two legs of the OAuth flow in        *)
(* api/v1/auth.py and services/auth_service.py, which resolves what the    *)
(* provider says to one person.                                            *)
(*                                                                         *)
(* A callback reads users and oauth_accounts and writes them when it       *)
(* commits, so sign-ins overlap; only the unique constraints on            *)
(* users.email, on users' provider pair and on oauth_accounts keep them    *)
(* apart.                                                                  *)
(***************************************************************************)
EXTENDS Naturals

CONSTANTS
    Identities,  \* accounts at the providers
    Email,       \* Email[i]: the address of identity i
    Vouched,     \* the identities whose provider asserts the address is verified
    Shy,         \* the identities whose provider may withhold the address
    NoEmail,     \* an identity that came without an address
    Nobody,      \* no user row
    UserAgents,  \* browsers
    MaxFlows     \* bound: sign-ins ever started

ASSUME SignInAssumption ==
    /\ Vouched \subseteq Identities /\ Shy \subseteq Identities
    /\ NoEmail \notin {Email[i] : i \in Identities}
    /\ Nobody \notin Identities
    /\ MaxFlows \in Nat

Flows == 1..MaxFlows

\* A user is named by the identity that opened it.
UserIds == Identities

\* An address in users.email: a real one, or the placeholder made up for an identity.
Placeholder(i) == <<"placeholder", i>>
Addresses == {Email[i] : i \in Identities} \cup {Placeholder(i) : i \in Identities}

\* A row of users; `provider` is the identity that last signed in.
Person == [email : Addresses, verified : BOOLEAN, provider : Identities]

\* The domain of a placeholder is reserved: no provider shows such an address.
ASSUME RowsAssumption ==
    /\ \A i, j \in Identities : Email[i] # Placeholder(j)
    /\ Nobody \notin Person

\* A sign-in: at the provider, or back with an identity that is resolved to a user, which
\* is `fresh` when it is about to be created.
Away == [at : {"away"}, began : UserAgents]
LoggingIn == [at : {"login"}, began : UserAgents, browser : UserAgents, id : Identities,
              user : UserIds, fresh : BOOLEAN, email : Addresses \cup {NoEmail}]
Ended == [at |-> "ended"]
NoFlow == [at |-> "none"]

VARIABLES
    users,    \* users[u]: a Person, or Nobody
    account,  \* oauth_accounts: the user identity i is linked to, or Nobody
    cookie,   \* the state cookie of each browser: a flow, or 0
    flow,     \* the sign-ins
    started,  \* sign-ins started so far
    twice,    \* history: identities with two sign-ins between reading and committing
    opened,   \* the sessions opened: for whom, by which identity, where
    badKey    \* TOKEN_ENCRYPTION_KEY is not a Fernet key

signInVars == <<users, account, cookie, flow, started, twice, opened, badKey>>

Session == [user : UserIds, by : Identities, began : UserAgents, browser : UserAgents]

SignInTypeOK ==
    /\ users \in [UserIds -> Person \cup {Nobody}]
    /\ account \in [Identities -> UserIds \cup {Nobody}]
    /\ cookie \in [UserAgents -> Flows \cup {0}]
    /\ flow \in [Flows -> Away \cup LoggingIn \cup {Ended, NoFlow}]
    /\ started \in 0..MaxFlows
    /\ twice \subseteq Identities
    /\ opened \subseteq Session
    /\ badKey \in BOOLEAN

SignInInit ==
    /\ users = [u \in UserIds |-> Nobody]
    /\ account = [i \in Identities |-> Nobody]
    /\ cookie = [b \in UserAgents |-> 0]
    /\ flow = [n \in Flows |-> NoFlow]
    /\ started = 0
    /\ twice = {}
    /\ opened = {}
    /\ badKey \in BOOLEAN

-----------------------------------------------------------------------------
(* The first leg *)

\* oauth_login: a fresh state, remembered in the browser in place of an earlier one.
StartLogin(b) ==
    /\ started < MaxFlows
    /\ started' = started + 1
    /\ cookie' = [cookie EXCEPT ![b] = started + 1]
    /\ flow' = [flow EXCEPT ![started + 1] = [at |-> "away", began |-> b]]
    /\ UNCHANGED <<users, account, twice, opened, badKey>>

-----------------------------------------------------------------------------
(* The second leg: from the callback to a resolved user *)

\* _clear_flow_cookies
CookieCleared(b) == [cookie EXCEPT ![b] = 0]

\* Mutant: an absent cookie is no mismatch.
StateMatchesOrAbsent(b, n) == cookie[b] \in {0, n}
\* The state in the address is the one in the browser's cookie.
StateMatches(b, n) == cookie[b] = n

\* Consent was denied, or the exchange failed.
CallbackFails(b, n) ==
    /\ flow[n].at = "away" /\ StateMatches(b, n)
    /\ cookie' = CookieCleared(b)
    /\ flow' = [flow EXCEPT ![n] = Ended]
    /\ UNCHANGED <<users, account, started, twice, opened, badKey>>

\* invalid_state: the code was not exchanged, and whatever this browser began is forgotten.
CallbackRefused(b, n) ==
    /\ flow[n].at = "away" /\ ~StateMatches(b, n) /\ cookie[b] # 0
    /\ cookie' = CookieCleared(b)
    /\ UNCHANGED <<users, account, flow, started, twice, opened, badKey>>

\* Whose row holds an address.
Owners(e) == {u \in UserIds : users[u] # Nobody /\ users[u].email = e}

\* Mutant: an address counts whether or not the provider vouches for it.
OwnersByAny(i, shown) == IF shown = NoEmail THEN {} ELSE Owners(shown)
\* The people whom an address leads to, when it may: a verified one.
OwnersByVerified(i, shown) == IF shown = NoEmail \/ i \notin Vouched THEN {} ELSE Owners(shown)

\* Mutant: the address is asked before the link.
ResolutionsByAddress(i, shown) ==
    IF OwnersByVerified(i, shown) # {}
    THEN {[user |-> u, fresh |-> FALSE, email |-> shown] : u \in OwnersByVerified(i, shown)}
    ELSE {[user |-> i, fresh |-> TRUE,
           email |-> IF i \notin Vouched /\ Owners(shown) # {} THEN NoEmail ELSE shown]}
\* _resolve_user: linked already, or matched by a verified address, or a new person, who
\* does not get an unverified address that is somebody's.
Resolutions(i, shown) ==
    IF account[i] # Nobody THEN {[user |-> account[i], fresh |-> FALSE, email |-> shown]}
    ELSE IF OwnersByVerified(i, shown) # {}
         THEN {[user |-> u, fresh |-> FALSE, email |-> shown] : u \in OwnersByVerified(i, shown)}
    ELSE {[user |-> i, fresh |-> TRUE,
           email |-> IF i \notin Vouched /\ Owners(shown) # {} THEN NoEmail ELSE shown]}

\* oauth_callback up to _resolve_user; `shown` is the address the provider released.
Callback(b, n, i, shown) ==
    /\ flow[n].at = "away" /\ StateMatches(b, n)
    /\ shown = Email[i] \/ (i \in Shy /\ shown = NoEmail)
    /\ \E q \in Resolutions(i, shown) :
          flow' = [flow EXCEPT ![n] = [at |-> "login", began |-> flow[n].began, browser |-> b,
                                       id |-> i, user |-> q.user, fresh |-> q.fresh,
                                       email |-> q.email]]
    /\ twice' = IF \E k \in Flows : flow[k].at = "login" /\ flow[k].id = i
                THEN twice \cup {i} ELSE twice
    /\ UNCHANGED <<users, account, cookie, started, opened, badKey>>

-----------------------------------------------------------------------------
(* The second leg: writing *)

VouchedFor(q) == q.email # NoEmail /\ q.id \in Vouched

\* The row a brand new user gets.
NewUser(q) == [email |-> IF q.email = NoEmail THEN Placeholder(q.id) ELSE q.email,
               verified |-> VouchedFor(q), provider |-> q.id]

\* _refresh_profile: a placeholder gives way to an address somebody vouches for.
Profile(q) ==
    LET u == users[q.user]
        upgrade == VouchedFor(q) /\ u.email = Placeholder(q.user) /\ Owners(q.email) = {}
    IN  [email |-> IF upgrade THEN q.email ELSE u.email,
         verified |-> u.verified \/ upgrade \/ (VouchedFor(q) /\ u.email = q.email),
         provider |-> q.id]

Resolved(q) == IF q.fresh THEN NewUser(q) ELSE Profile(q)

\* users.email and (auth_provider, provider_account_id) are unique, and so is the user a
\* name stands for.
Clash(q) == \/ q.fresh /\ users[q.user] # Nobody
            \/ \E u \in UserIds \ {q.user} :
                   /\ users[u] # Nobody
                   /\ users[u].provider = q.id \/ users[u].email = Resolved(q).email

Ends(n) == /\ flow' = [flow EXCEPT ![n] = Ended]
           /\ cookie' = CookieCleared(flow[n].browser)

\* The user, the account and the session are written, and the flow is over.
LoginCommit(n) ==
    LET q == flow[n] IN
    /\ q.at = "login" /\ ~Clash(q) /\ ~badKey
    /\ users' = [users EXCEPT ![q.user] = Resolved(q)]
    /\ account' = [account EXCEPT ![q.id] = IF @ = Nobody THEN q.user ELSE @]
    /\ opened' = opened \cup {[user |-> q.user, by |-> q.id, began |-> q.began,
                               browser |-> q.browser]}
    /\ Ends(n)
    /\ UNCHANGED <<started, twice, badKey>>

\* encrypt_token raised after the user was flushed: the route answers server_error, and
\* what was flushed is committed with the request.
LoginHalf(n) ==
    LET q == flow[n] IN
    /\ q.at = "login" /\ ~Clash(q) /\ badKey
    /\ users' = [users EXCEPT ![q.user] = Resolved(q)]
    /\ Ends(n)
    /\ UNCHANGED <<account, started, twice, opened, badKey>>

\* A unique constraint, and server_error; or the process dies.
LoginRolledBack(n) ==
    /\ flow[n].at = "login"
    /\ \/ Clash(flow[n]) /\ Ends(n)
       \/ flow' = [flow EXCEPT ![n] = Ended] /\ UNCHANGED cookie
    /\ UNCHANGED <<users, account, started, twice, opened, badKey>>

\* An operator repairs the key and restarts.
RepairKey == badKey /\ badKey' = FALSE /\ UNCHANGED <<users, account, cookie, flow, started, twice, opened>>

SignInNext ==
    \/ \E b \in UserAgents : StartLogin(b)
    \/ \E b \in UserAgents, n \in Flows :
           \/ CallbackFails(b, n) \/ CallbackRefused(b, n)
           \/ \E i \in Identities, shown \in {Email[j] : j \in Identities} \cup {NoEmail} :
                  Callback(b, n, i, shown)
    \/ \E n \in Flows : LoginCommit(n) \/ LoginHalf(n) \/ LoginRolledBack(n)
    \/ RepairKey

SignInSpec == SignInInit /\ [][SignInNext]_signInVars

-----------------------------------------------------------------------------
(* What must hold *)

\* A session opens in the browser that began the sign-in: a callback carried to another one
\* finds no matching state, whatever either began or finished meanwhile.
SessionWhereItBegan == \A s \in opened : s.browser = s.began

\* Two provider accounts lead to one person only through an address that the provider of
\* the later one vouches for: an unverified address never joins an existing account.
PeopleAreNotMerged ==
    \A i \in Identities : account[i] \notin {Nobody, i} =>
        /\ i \in Vouched
        /\ Email[i] = Email[account[i]]

\* An address counts as verified only when it is that of an identity whose provider vouches
\* for it and that is linked to this person, or is the one that last signed in as them.
VerifiedByOneOfTheirs ==
    \A u \in UserIds : users[u] # Nobody /\ users[u].verified =>
        \E i \in Vouched : /\ users[u].email = Email[i]
                           /\ account[i] = u \/ users[u].provider = i

\* Whoever an identity signs in as is the person it is linked to, then and ever after,
\* unless two of its own sign-ins overlapped: those may resolve to different people, and
\* the one that commits second opens a session for a person its identity is not linked to.
SignedInAsLinked == \A s \in opened : s.by \notin twice => account[s.by] = s.user
=============================================================================
