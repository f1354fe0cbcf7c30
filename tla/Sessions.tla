------------------------------ MODULE Sessions ------------------------------
(***************************************************************************)
(* Staying signed in: services/session_service.py,                         *)
(* repositories/user_session.py and the routes of api/v1/auth.py.          *)
(*                                                                         *)
(* A refresh token is one row of user_sessions; rotating it retires the    *)
(* row and adds its successor to the same family.  A request is a          *)
(* transaction of its own.  get_session commits when the response has been *)
(* sent, so a browser may hold the new pair, or none, before the rows say  *)
(* so.  An UPDATE over many rows first fixes which rows it sees (its       *)
(* snapshot), then visits them, and keeps them locked until it commits.    *)
(***************************************************************************)
EXTENDS Naturals, FiniteSets

CONSTANTS
    Users,
    NoUser,      \* no access cookie
    Browsers,    \* cookie jars
    Requests,    \* requests that may be in progress at once
    MaxTokens,   \* bound: refresh tokens ever minted
    MaxEvents    \* bound: lost answers, expiries, deadlines and deletions

ASSUME ConstantsAssumption ==
    /\ NoUser \notin Users
    /\ MaxTokens \in Nat /\ MaxEvents \in Nat

Tokens == 1..MaxTokens

Reasons == {"logout", "logout_all", "reuse_detected", "absolute_expiry",
            "user_gone", "revoked_by_user"}

\* A row of user_sessions.  A family is named by its first token.
Row == [user : Users, family : Tokens,
        state : Reasons \cup {"live", "rotated"},  \* revoked_at, revoked_reason
        next : Tokens \cup {0},                    \* replaced_by_id
        expired : BOOLEAN]                         \* expires_at has passed
NoRow == [family |-> 0, state |-> "none", expired |-> FALSE]

\* The two cookies: the refresh token, and whom the access token is good for.
Jar == [refresh : Tokens \cup {0}, access : Users \cup {NoUser}]
EmptyJar == [refresh |-> 0, access |-> NoUser]

VARIABLES
    gone,     \* users with deleted_at
    row,      \* user_sessions
    minted,   \* refresh tokens minted so far
    old,      \* families past the absolute deadline
    jar,      \* the cookies of each browser
    req,      \* the requests in progress
    muddled,  \* history: families with overlapping refreshes or a lost answer
    events    \* how many more unlucky events may happen

vars == <<gone, row, minted, old, jar, req, muddled, events>>

Idle == [at |-> "idle"]

\* A refresh that found its token good.
Refresh == [at : {"refresh"}, browser : Browsers, token : Tokens]
\* Answered with a new token, and not yet committed; `from` is what it retires (0: a login).
Issuing == [at : {"issuing"}, token : Tokens, from : Tokens \cup {0},
            user : Users, family : Tokens]
\* An UPDATE that closes a family, or all families of a user, before and after its snapshot.
Close == [at : {"close", "closing"}, browser : Browsers, reason : Reasons, user : Users,
          family : Tokens \cup {0}, hit : SUBSET Tokens, clears : BOOLEAN, alone : BOOLEAN]

TypeOK ==
    /\ gone \subseteq Users
    /\ row \in [Tokens -> Row \cup {NoRow}]
    /\ minted \in 0..MaxTokens
    /\ old \subseteq Tokens
    /\ jar \in [Browsers -> Jar]
    /\ req \in [Requests -> Refresh \cup Issuing \cup Close \cup {Idle}]
    /\ muddled \subseteq Tokens
    /\ events \in 0..MaxEvents

Init ==
    /\ gone = {}
    /\ row = [t \in Tokens |-> NoRow]
    /\ minted = 0
    /\ old = {}
    /\ jar = [b \in Browsers |-> EmptyJar]
    /\ req = [r \in Requests |-> Idle]
    /\ muddled = {}
    /\ events = MaxEvents

-----------------------------------------------------------------------------
(* Readers *)

Live(t) == t # 0 /\ row[t].state = "live"

\* get_current_user: whoever the access token names.  A cached copy of the user answers
\* for a deleted account too, until it times out.
CurrentUser(b) == jar[b].access

\* list_active_for_user
Active(u) == {t \in Tokens : Live(t) /\ row[t].user = u /\ ~row[t].expired}

Begin(r, q) == req[r] = Idle /\ req' = [req EXCEPT ![r] = q]

\* The UPDATE a request is about to make.
Closing(b, why, u, f, clears) ==
    [at |-> "close", browser |-> b, reason |-> why, user |-> u, family |-> f,
     hit |-> {}, clears |-> clears, alone |-> TRUE]

\* _refusal and _clear_session_cookies
Cleared(b) == [jar EXCEPT ![b] = EmptyJar]

\* The rows an UPDATE of revoke_family or revoke_all_for_user is about.
InScope(q, u, f) == IF q.reason = "logout_all" THEN q.user = u ELSE q.family = f
Scope(q) == {t \in Tokens : row[t] # NoRow /\ InScope(q, row[t].user, row[t].family)}

\* Mutant: only the newest session is closed.
VisibleNewest(q) == {t \in Scope(q) : Live(t) /\ \A s \in Scope(q) : s <= t}
\* The rows such an UPDATE closes: revoked_at is null.
Visible(q) == {t \in Scope(q) : Live(t)}

\* The requests in progress that have written row t and hold it locked.
Locked(t) == \E r \in Requests : \/ req[r].at = "issuing" /\ req[r].from = t
                                 \/ req[r].at = "closing" /\ t \in req[r].hit

Unlucky == events > 0 /\ events' = events - 1

-----------------------------------------------------------------------------
(* Issuing a pair *)

\* Mutant: a refresh answers with a new access token, and leaves the old refresh cookie.
IssueNoCookie(r, b, u, f, t) ==
    /\ minted < MaxTokens
    /\ minted' = minted + 1
    /\ req' = [req EXCEPT ![r] = [at |-> "issuing", token |-> minted + 1, from |-> t,
                                  user |-> u, family |-> f]]
    /\ jar' = [jar EXCEPT ![b] = [refresh |-> IF t = 0 THEN minted + 1 ELSE t, access |-> u]]
    /\ UNCHANGED <<muddled, events>>
\* SessionService._issue: the token is minted, the row added and the pair sent; the answer
\* reaches its browser, or the connection has dropped.
Issue(r, b, u, f, t) ==
    /\ minted < MaxTokens
    /\ minted' = minted + 1
    /\ req' = [req EXCEPT ![r] = [at |-> "issuing", token |-> minted + 1, from |-> t,
                                  user |-> u, family |-> f]]
    /\ \/ /\ jar' = [jar EXCEPT ![b] = [refresh |-> minted + 1, access |-> u]]
          /\ UNCHANGED <<muddled, events>>
       \/ /\ muddled' = muddled \cup {f} /\ Unlucky
          /\ UNCHANGED jar

\* The last part of oauth_callback: a session begins, and with it a family.
Login(r, b, u) ==
    /\ req[r] = Idle /\ u \notin gone
    /\ Issue(r, b, u, minted + 1, 0)
    /\ UNCHANGED <<gone, row, old>>

\* Another request is still about to retire t.
Overlapping(t) == \E r \in Requests : \/ req[r].at = "refresh" /\ req[r].token = t
                                      \/ req[r].at = "issuing" /\ req[r].from = t

\* Mutant: revoked_at is not looked at.
GoodUnlessRotated(t) == row[t].state \notin {"none", "rotated"} /\ ~row[t].expired
\* A row that is neither revoked nor expired.
Good(t) == Live(t) /\ ~row[t].expired

\* refresh: the row is looked up by digest and every refusal decided.
RefreshRead(r, b) ==
    LET t == jar[b].refresh
        Shut(why) == Closing(b, why, row[t].user, row[t].family, TRUE)
    IN  /\ t # 0
        /\ \/ /\ ~Good(t) /\ row[t].state # "rotated"
              /\ jar' = Cleared(b) /\ UNCHANGED req
           \/ /\ row[t].state = "rotated"
              /\ Begin(r, Shut("reuse_detected")) /\ UNCHANGED jar
           \/ /\ Good(t) /\ row[t].family \in old
              /\ Begin(r, Shut("absolute_expiry")) /\ UNCHANGED jar
           \/ /\ Good(t) /\ row[t].family \notin old /\ row[t].user \in gone
              /\ Begin(r, Shut("user_gone")) /\ UNCHANGED jar
           \/ /\ Good(t) /\ row[t].family \notin old /\ row[t].user \notin gone
              /\ Begin(r, [at |-> "refresh", browser |-> b, token |-> t]) /\ UNCHANGED jar
        /\ muddled' = IF row[t] # NoRow /\ Overlapping(t)
                      THEN muddled \cup {row[t].family} ELSE muddled
        /\ UNCHANGED <<gone, row, minted, old, events>>

\* The successor is inserted and the row it read is updated, by id: it waits for whoever
\* has that row locked, and fails when the row was pruned.
RefreshIssue(r) ==
    LET t == req[r].token IN
    /\ req[r].at = "refresh" /\ row[t] # NoRow /\ ~Locked(t)
    /\ Issue(r, req[r].browser, row[t].user, row[t].family, t)
    /\ UNCHANGED <<gone, row, old>>

RefreshStale(r) ==
    /\ req[r].at = "refresh" /\ row[req[r].token] = NoRow
    /\ req' = [req EXCEPT ![r] = Idle]
    /\ UNCHANGED <<gone, row, minted, old, jar, muddled, events>>

Issued(q) == [user |-> q.user, family |-> q.family, state |-> "live",
              next |-> 0, expired |-> FALSE]
\* Mutant: the old row is left as it was.
RetiredNot(q) == row[q.from]
\* The old row as rotation leaves it, whatever another transaction wrote meanwhile.
Retired(q) == [row[q.from] EXCEPT !.state = "rotated", !.next = q.token]

\* Both rows become visible together.  A closing UPDATE with an older snapshot has missed
\* the new one.
IssueCommit(r) ==
    LET q == req[r] IN
    /\ q.at = "issuing"
    /\ row' = [t \in Tokens |-> IF t = q.token THEN Issued(q)
                                ELSE IF t = q.from THEN Retired(q) ELSE row[t]]
    /\ req' = [x \in Requests |->
                  IF x = r THEN Idle
                  ELSE IF req[x].at = "closing" /\ InScope(req[x], q.user, q.family)
                       THEN [req[x] EXCEPT !.alone = FALSE]
                  ELSE req[x]]
    /\ muddled' = IF q.from = 0 \/ Live(q.from) THEN muddled ELSE muddled \cup {q.family}
    /\ UNCHANGED <<gone, minted, old, jar, events>>

-----------------------------------------------------------------------------
(* Closing *)

\* logout: silent on a token that is unknown or already dead.
Logout(r, b) ==
    LET t == jar[b].refresh IN
    /\ \/ /\ Live(t)
          /\ Begin(r, Closing(b, "logout", row[t].user, row[t].family, TRUE))
          /\ UNCHANGED jar
       \/ /\ ~Live(t)
          /\ jar' = Cleared(b) /\ UNCHANGED req
    /\ UNCHANGED <<gone, row, minted, old, muddled, events>>

LogoutAll(r, b) ==
    /\ CurrentUser(b) # NoUser
    /\ Begin(r, Closing(b, "logout_all", CurrentUser(b), 0, TRUE))
    /\ UNCHANGED <<gone, row, minted, old, jar, muddled, events>>

\* revoke_session: a row of the caller's own list, by its id.
RevokeOne(r, b, t) ==
    /\ CurrentUser(b) # NoUser /\ t \in Active(CurrentUser(b))
    /\ Begin(r, Closing(b, "revoked_by_user", row[t].user, row[t].family, t = jar[b].refresh))
    /\ UNCHANGED <<gone, row, minted, old, jar, muddled, events>>

\* The UPDATE fixes its rows, and the answer goes out.
CloseSnapshot(r) ==
    LET q == req[r] IN
    /\ q.at = "close"
    /\ req' = [req EXCEPT ![r] = [q EXCEPT !.at = "closing", !.hit = Visible(q)]]
    /\ jar' = IF q.clears THEN Cleared(q.browser) ELSE jar
    /\ UNCHANGED <<gone, row, minted, old, muddled, events>>

\* The rows of the snapshot that are still live once their locks are free are closed.
CloseCommit(r) ==
    LET q == req[r] IN
    /\ q.at = "closing"
    /\ \A x \in Requests : ~(req[x].at = "issuing" /\ req[x].from \in q.hit)
    /\ row' = [t \in Tokens |-> IF t \in q.hit /\ Live(t)
                                THEN [row[t] EXCEPT !.state = q.reason] ELSE row[t]]
    /\ req' = [req EXCEPT ![r] = Idle]
    /\ UNCHANGED <<gone, minted, old, jar, muddled, events>>

-----------------------------------------------------------------------------
(* Failures and time *)

\* A request that dies before its commit is rolled back, answered or not.
Dies(r) ==
    /\ req[r] # Idle
    /\ req' = [req EXCEPT ![r] = Idle]
    /\ UNCHANGED <<gone, row, minted, old, jar, muddled, events>>

\* Every row lives equally long, so rows expire in the order they were issued.
Expire(t) ==
    /\ row[t] # NoRow /\ ~row[t].expired
    /\ \A s \in 1..(t - 1) : row[s] # NoRow => row[s].expired
    /\ row' = [row EXCEPT ![t].expired = TRUE]
    /\ Unlucky
    /\ UNCHANGED <<gone, minted, old, jar, req, muddled>>

\* REFRESH_TOKEN_ABSOLUTE_DAYS after the family began.
Deadline(f) ==
    /\ f \notin old /\ \E t \in Tokens : row[t].family = f
    /\ old' = old \cup {f}
    /\ Unlucky
    /\ UNCHANGED <<gone, row, minted, jar, req, muddled>>

\* purge_expired_sessions: the DELETE waits for the locks on its rows.
Prune ==
    /\ \E t \in Tokens : row[t].expired
    /\ \A t \in Tokens : row[t].expired => ~Locked(t)
    /\ row' = [t \in Tokens |-> IF row[t].expired THEN NoRow ELSE row[t]]
    /\ UNCHANGED <<gone, minted, old, jar, req, muddled, events>>

\* An account is soft-deleted (by an operator: no route does it).
DeleteUser(u) ==
    /\ u \notin gone
    /\ gone' = gone \cup {u}
    /\ Unlucky
    /\ UNCHANGED <<row, minted, old, jar, req, muddled>>

-----------------------------------------------------------------------------

Ask(r) ==
    \E b \in Browsers :
        \/ \E u \in Users : Login(r, b, u)
        \/ RefreshRead(r, b)
        \/ Logout(r, b)
        \/ LogoutAll(r, b)
        \/ \E t \in Tokens : RevokeOne(r, b, t)

Step(r) == \/ RefreshIssue(r) \/ RefreshStale(r) \/ IssueCommit(r)
           \/ CloseSnapshot(r) \/ CloseCommit(r)
           \/ Dies(r)

Time == \/ \E t \in Tokens : Expire(t) \/ Deadline(t)
        \/ Prune
        \/ \E u \in Users : DeleteUser(u)

Next == (\E r \in Requests : Ask(r) \/ Step(r)) \/ Time

Spec == Init /\ [][Next]_vars

-----------------------------------------------------------------------------
(* What must hold *)

Heads(f) == {t \in Tokens : Live(t) /\ row[t].family = f}

\* A chain has one live token, its head, unless two refreshes of it overlapped: each
\* rotation retires the row it read (session_service.py, refresh).
ChainHasOneHead ==
    \A f \in Tokens \ muddled : Cardinality(Heads(f)) <= 1

\* A browser that refreshes once at a time and gets its answers is never taken for two
\* parties: reuse detection fires on muddled chains only.
NoFalseAlarm ==
    \A t \in Tokens : row[t] # NoRow /\ row[t].family \notin muddled
                         => row[t].state # "reuse_detected"

\* A rotated row is kept for as long as its successor: pruning by expires_at takes a chain
\* from its oldest end, so replaced_by_id always names a row of the same person and chain.
RotatedHasSuccessor ==
    \A t \in Tokens : row[t].state = "rotated"
        => LET n == row[t].next IN /\ n \in Tokens /\ row[n] # NoRow
                                   /\ row[n].family = row[t].family
                                   /\ row[n].user = row[t].user

\* A chain without a live token, and without a request that is about to extend it, stays
\* closed: no revoked, expired or rotated token opens it again.
Dead(f) == /\ Heads(f) = {} /\ f <= minted
           /\ \A r \in Requests : /\ req[r].at = "refresh" => row[req[r].token].family # f
                                  /\ req[r].at = "issuing" => req[r].family # f
ClosedStaysClosed == [][\A f \in Tokens : Dead(f) => Dead(f)']_vars

\* Logging out, here or everywhere, and detected reuse leave no live token of what they
\* close, unless a refresh or a login committed behind the UPDATE's snapshot.
CloseIsComplete ==
    [][\A r \in Requests : req[r].at = "closing" /\ req[r].alone /\ CloseCommit(r)
            => \A t \in Scope(req[r]) : row'[t].state # "live"]_vars
=============================================================================
