--------------------------- MODULE Accounts_proofs ---------------------------
(***************************************************************************)
(* Proofs about Sessions, for any users, browsers and requests, and any    *)
(* number of refresh tokens and of unlucky events; and about SignIn, for   *)
(* any provider accounts, browsers and number of sign-ins.                 *)
(***************************************************************************)
EXTENDS Sessions, SignIn, FiniteSetTheorems, TLAPS

USE ConstantsAssumption

-------------------------------------------------------------------------------
(* Sessions: type correctness                                               *)

\* What is in the table was minted, and so was the token its family is named by.
RowsMinted == \A t \in Tokens : row[t] # NoRow => t <= minted /\ row[t].family <= minted

\* A pair that is being issued has a token of its own, which is not in the table yet; it
\* extends the family of a row that is there, or begins one that nothing else is of.
IssuesFresh ==
  /\ \A r \in Requests : req[r].at = "issuing" =>
       /\ req[r].token <= minted /\ req[r].family <= minted /\ row[req[r].token] = NoRow
       /\ req[r].from # 0 => row[req[r].from] # NoRow /\ row[req[r].from].family = req[r].family
       /\ req[r].from = 0 => /\ req[r].family = req[r].token
                             /\ \A t \in Tokens : row[t].family # req[r].token
  /\ \A r, x \in Requests : req[r].at = "issuing" /\ req[x].at = "issuing" /\ r # x =>
       /\ req[r].token # req[x].token
       /\ req[r].from = 0 => req[x].family # req[r].token

TypeInv == TypeOK /\ RowsMinted /\ IssuesFresh

Pending == Refresh \cup Issuing \cup Close

\* A request is what its place says.
LEMMA RequestKinds ==
  ASSUME TypeOK, NEW r \in Requests
  PROVE  /\ req[r] # Idle => req[r] \in Pending
         /\ req[r].at = "refresh" => req[r] \in Refresh
         /\ req[r].at = "issuing" => req[r] \in Issuing
         /\ req[r].at \in {"close", "closing"} => req[r] \in Close
  BY DEF TypeOK, Idle, Pending, Refresh, Issuing, Close

\* What each kind holds.
LEMMA RequestFields ==
  ASSUME TypeOK, NEW r \in Requests
  PROVE  /\ req[r].at = "refresh" => req[r].browser \in Browsers /\ req[r].token \in Tokens
         /\ req[r].at = "issuing" =>
              /\ req[r].token \in Tokens /\ req[r].from \in Tokens \cup {0}
              /\ req[r].user \in Users /\ req[r].family \in Tokens
         /\ req[r].at \in {"close", "closing"} =>
              /\ req[r].browser \in Browsers /\ req[r].reason \in Reasons /\ req[r].user \in Users
              /\ req[r].family \in Tokens \cup {0} /\ req[r].hit \in SUBSET Tokens
              /\ req[r].clears \in BOOLEAN /\ req[r].alone \in BOOLEAN
  BY RequestKinds DEF Refresh, Issuing, Close

\* Tokens are numbers, and 0 is none.
LEMMA TokenFacts == Tokens \subseteq Nat /\ 0 \notin Tokens
  BY DEF Tokens

\* A row that is there has its fields; what is not there is of no family and not live.
LEMMA RowKinds ==
  ASSUME TypeOK, NEW t \in Tokens
  PROVE  /\ row[t] # NoRow => row[t] \in Row /\ row[t].family \in Tokens /\ row[t].user \in Users
                              /\ row[t].expired \in BOOLEAN
         /\ row[t] = NoRow => row[t].family = 0 /\ row[t].state = "none" /\ ~row[t].expired
         /\ row[t].state # "none" => row[t] # NoRow
         /\ \A x \in Row : x # NoRow
  BY DEF TypeOK, Row, NoRow, Reasons

\* What is written into a row leaves its person and family.
LEMMA RowWrites ==
  ASSUME TypeOK, NEW t \in Tokens, row[t] # NoRow
  PROVE  /\ \A s \in Reasons : /\ [row[t] EXCEPT !.state = s] \in Row
                               /\ [row[t] EXCEPT !.state = s].state = s
                               /\ [row[t] EXCEPT !.state = s].family = row[t].family
                               /\ [row[t] EXCEPT !.state = s].user = row[t].user
         /\ \A n \in Tokens :
              /\ [row[t] EXCEPT !.state = "rotated", !.next = n] \in Row
              /\ [row[t] EXCEPT !.state = "rotated", !.next = n].state = "rotated"
              /\ [row[t] EXCEPT !.state = "rotated", !.next = n].family = row[t].family
              /\ [row[t] EXCEPT !.state = "rotated", !.next = n].user = row[t].user
         /\ [row[t] EXCEPT !.expired = TRUE] \in Row
         /\ [row[t] EXCEPT !.expired = TRUE].state = row[t].state
         /\ [row[t] EXCEPT !.expired = TRUE].family = row[t].family
         /\ [row[t] EXCEPT !.expired = TRUE].user = row[t].user
<1>1. row[t] \in Row
  BY RowKinds
<1> QED BY <1>1 DEF Row

\* A request that ends changes no other.
LEMMA Ending ==
  ASSUME TypeOK, NEW r \in Requests, req' = [req EXCEPT ![r] = Idle]
  PROVE  /\ req' \in [Requests -> Refresh \cup Issuing \cup Close \cup {Idle}]
         /\ req'[r] = Idle /\ Idle.at = "idle"
         /\ \A x \in Requests \ {r} : req'[x] = req[x]
  BY DEF TypeOK, Idle

\* What a request may become when it is asked for: a refresh, or an UPDATE to be made.
LEMMA Asking ==
  ASSUME TypeOK, NEW r \in Requests, NEW q \in Refresh \cup Close, Begin(r, q)
  PROVE  /\ req' \in [Requests -> Refresh \cup Issuing \cup Close \cup {Idle}]
         /\ req[r] = Idle /\ req'[r] = q
         /\ \A x \in Requests \ {r} : req'[x] = req[x]
  BY DEF TypeOK, Begin

\* The UPDATE is well formed.
LEMMA ClosingType ==
  ASSUME NEW b \in Browsers, NEW why \in Reasons, NEW u \in Users, NEW f \in Tokens \cup {0},
         NEW c \in BOOLEAN
  PROVE  Closing(b, why, u, f, c) \in Close /\ Closing(b, why, u, f, c).at = "close"
  BY DEF Closing, Close

\* The steps that only ask for something.
Asks(r) == \E b \in Browsers : \/ RefreshRead(r, b) \/ Logout(r, b) \/ LogoutAll(r, b)
                               \/ \E t \in Tokens : RevokeOne(r, b, t)

\* What an asking leaves: no answer was minted, and jars were at most emptied.
LEMMA AskWrites ==
  ASSUME TypeOK, NEW r \in Requests, Asks(r)
  PROVE  /\ TypeOK' /\ UNCHANGED <<gone, row, minted, old, events>> /\ muddled \subseteq muddled'
         /\ \A x \in Requests \ {r} : req'[x] = req[x]
         /\ req'[r] = req[r] \/ (req[r] = Idle /\ req'[r].at \in {"refresh", "close"})
         /\ \A b \in Browsers : jar'[b] = jar[b] \/ jar'[b] = EmptyJar
<1> USE DEF TypeOK
<1>0. EmptyJar \in Jar /\ \A b \in Browsers : jar[b] \in Jar
  BY DEF EmptyJar, Jar
<1>1. ASSUME NEW q \in Refresh \cup Close, q.at \in {"refresh", "close"}, Begin(r, q)
      PROVE  /\ req' \in [Requests -> Refresh \cup Issuing \cup Close \cup {Idle}]
             /\ req[r] = Idle /\ req'[r].at \in {"refresh", "close"}
             /\ \A x \in Requests \ {r} : req'[x] = req[x]
  BY <1>1, Asking
<1>2. ASSUME NEW b \in Browsers, RefreshRead(r, b)
      PROVE  /\ req' \in [Requests -> Refresh \cup Issuing \cup Close \cup {Idle}]
             /\ \A x \in Requests \ {r} : req'[x] = req[x]
             /\ req'[r] = req[r] \/ (req[r] = Idle /\ req'[r].at \in {"refresh", "close"})
             /\ jar' \in {jar, Cleared(b)} /\ muddled' \subseteq Tokens /\ muddled \subseteq muddled'
             /\ UNCHANGED <<gone, row, minted, old, events>>
  <2> DEFINE t == jar[b].refresh
  <2>1. t \in Tokens
    BY <1>0, <1>2 DEF RefreshRead, Jar
  <2>2. muddled' \subseteq Tokens /\ muddled \subseteq muddled'
    BY <1>2, <2>1, RowKinds DEF RefreshRead
  <2>3. CASE req' = req
    BY <1>2, <2>2, <2>3 DEF RefreshRead
  <2>4. ASSUME NEW why \in Reasons, row[t] # NoRow,
               Begin(r, Closing(b, why, row[t].user, row[t].family, TRUE)), UNCHANGED jar
        PROVE  /\ req' \in [Requests -> Refresh \cup Issuing \cup Close \cup {Idle}]
               /\ \A x \in Requests \ {r} : req'[x] = req[x]
               /\ req[r] = Idle /\ req'[r].at \in {"refresh", "close"}
    BY <1>1, <2>1, <2>4, RowKinds, ClosingType
  <2>5. ASSUME Begin(r, [at |-> "refresh", browser |-> b, token |-> t])
        PROVE  /\ req' \in [Requests -> Refresh \cup Issuing \cup Close \cup {Idle}]
               /\ \A x \in Requests \ {r} : req'[x] = req[x]
               /\ req[r] = Idle /\ req'[r].at \in {"refresh", "close"}
    <3>1. [at |-> "refresh", browser |-> b, token |-> t] \in Refresh
      BY <2>1 DEF Refresh
    <3> QED BY <1>1, <2>5, <3>1
  <2>6. \/ jar' = Cleared(b) /\ UNCHANGED req
        \/ /\ UNCHANGED jar /\ row[t] # NoRow
           /\ \E why \in Reasons : Begin(r, Closing(b, why, row[t].user, row[t].family, TRUE))
        \/ UNCHANGED jar /\ Begin(r, [at |-> "refresh", browser |-> b, token |-> t])
    BY <1>2, <2>1, RowKinds DEF RefreshRead, Reasons, Good, Live
  <2> QED BY <1>2, <2>2, <2>4, <2>5, <2>6 DEF RefreshRead
<1>3. ASSUME NEW b \in Browsers, NEW q \in Close, q.at = "close", Begin(r, q), UNCHANGED jar,
             UNCHANGED <<gone, row, minted, old, muddled, events>>
      PROVE  /\ req' \in [Requests -> Refresh \cup Issuing \cup Close \cup {Idle}]
             /\ \A x \in Requests \ {r} : req'[x] = req[x]
             /\ req[r] = Idle /\ req'[r].at \in {"refresh", "close"}
  BY <1>1, <1>3
<1>4. ASSUME NEW b \in Browsers, Logout(r, b)
      PROVE  /\ req' \in [Requests -> Refresh \cup Issuing \cup Close \cup {Idle}]
             /\ \A x \in Requests \ {r} : req'[x] = req[x]
             /\ req'[r] = req[r] \/ (req[r] = Idle /\ req'[r].at \in {"refresh", "close"})
             /\ jar' \in {jar, Cleared(b)}
             /\ UNCHANGED <<gone, row, minted, old, muddled, events>>
  <2> DEFINE t == jar[b].refresh
  <2>1. CASE Live(t) /\ Begin(r, Closing(b, "logout", row[t].user, row[t].family, TRUE)) /\ UNCHANGED jar
    <3>1. t \in Tokens
      BY <1>0, <2>1 DEF Live, Jar
    <3>2. Closing(b, "logout", row[t].user, row[t].family, TRUE) \in Close
      BY <2>1, <3>1, RowKinds, ClosingType DEF Live, Reasons
    <3>3. Closing(b, "logout", row[t].user, row[t].family, TRUE).at = "close"
      BY DEF Closing
    <3> QED BY <1>1, <1>4, <2>1, <3>2, <3>3 DEF Logout
  <2>2. CASE jar' = Cleared(b) /\ UNCHANGED req
    BY <1>4, <2>2 DEF Logout
  <2> QED BY <1>4, <2>1, <2>2 DEF Logout
<1>5. ASSUME NEW b \in Browsers, LogoutAll(r, b)
      PROVE  /\ req' \in [Requests -> Refresh \cup Issuing \cup Close \cup {Idle}]
             /\ \A x \in Requests \ {r} : req'[x] = req[x]
             /\ req[r] = Idle /\ req'[r].at \in {"refresh", "close"}
  <2>1. CurrentUser(b) \in Users
    BY <1>0, <1>5 DEF LogoutAll, CurrentUser, Jar
  <2>2. /\ Closing(b, "logout_all", CurrentUser(b), 0, TRUE) \in Close
        /\ Closing(b, "logout_all", CurrentUser(b), 0, TRUE).at = "close"
    BY <2>1, ClosingType DEF Reasons
  <2> QED BY <1>1, <1>5, <2>2 DEF LogoutAll
<1>6. ASSUME NEW b \in Browsers, NEW t \in Tokens, RevokeOne(r, b, t)
      PROVE  /\ req' \in [Requests -> Refresh \cup Issuing \cup Close \cup {Idle}]
             /\ \A x \in Requests \ {r} : req'[x] = req[x]
             /\ req[r] = Idle /\ req'[r].at \in {"refresh", "close"}
  <2>1. row[t] # NoRow
    BY <1>6, RowKinds DEF RevokeOne, Active, Live
  <2> DEFINE here == t = jar[b].refresh
  <2>2. here \in BOOLEAN
    OBVIOUS
  <2> HIDE DEF here
  <2>3. /\ Closing(b, "revoked_by_user", row[t].user, row[t].family, here) \in Close
        /\ Closing(b, "revoked_by_user", row[t].user, row[t].family, here).at = "close"
    BY <2>1, <2>2, RowKinds, ClosingType DEF Reasons
  <2>4. Begin(r, Closing(b, "revoked_by_user", row[t].user, row[t].family, here))
    BY <1>6 DEF RevokeOne, here
  <2> QED BY <1>1, <2>3, <2>4
<1>7. ASSUME NEW b \in Browsers, jar' \in {jar, Cleared(b)}
      PROVE  jar' \in [Browsers -> Jar] /\ \A c \in Browsers : jar'[c] = jar[c] \/ jar'[c] = EmptyJar
  BY <1>0, <1>7 DEF Cleared
<1>8. PICK b \in Browsers : \/ RefreshRead(r, b) \/ Logout(r, b) \/ LogoutAll(r, b)
                            \/ \E t \in Tokens : RevokeOne(r, b, t)
  BY DEF Asks
<1>9. jar' \in {jar, Cleared(b)} /\ UNCHANGED <<gone, row, minted, old, events>>
  BY <1>2, <1>4, <1>8 DEF LogoutAll, RevokeOne
<1>10. muddled' \subseteq Tokens /\ muddled \subseteq muddled'
  BY <1>2, <1>4, <1>8 DEF LogoutAll, RevokeOne
<1> QED BY <1>2, <1>4, <1>5, <1>6, <1>7, <1>8, <1>9, <1>10

\* Every row is there as it was, of the same person and family.
SameRows == \A t \in Tokens : /\ row'[t] = NoRow <=> row[t] = NoRow
                              /\ row'[t].family = row[t].family
                              /\ row[t] # NoRow => row'[t].user = row[t].user

\* A step that mints nothing and keeps the rows and what is being issued.
LEMMA TypeQuiet ==
  ASSUME TypeInv, TypeOK', SameRows, minted' = minted,
         \A x \in Requests : req'[x].at = "issuing" => req'[x] = req[x]
  PROVE  TypeInv'
<1>1. RowsMinted'
  BY DEF TypeInv, RowsMinted, SameRows
<1>2. \A x \in Requests : req'[x].at = "issuing" =>
        req'[x] = req[x] /\ req[x].token \in Tokens /\ req[x].from \in Tokens \cup {0}
  BY RequestFields DEF TypeInv
<1>3. IssuesFresh'
  BY <1>2 DEF TypeInv, IssuesFresh, SameRows
<1> QED BY <1>1, <1>3 DEF TypeInv

\* The numbers in the table are below what was minted.
LEMMA RowBounds ==
  ASSUME TypeInv, NEW t \in Tokens
  PROVE  /\ minted \in Nat /\ t \in Nat /\ row[t].family \in Nat /\ row[t].family <= minted
         /\ row[t] # NoRow => t <= minted
<1>0. TypeOK /\ minted \in Nat /\ t \in Nat
  BY TokenFacts DEF TypeInv, TypeOK
<1>1. CASE row[t] = NoRow
  BY <1>0, <1>1, RowKinds
<1>2. CASE row[t] # NoRow
  BY <1>0, <1>2, RowKinds, TokenFacts DEF TypeInv, RowsMinted
<1> QED BY <1>1, <1>2

\* What minting a pair does.
LEMMA IssueWrites ==
  ASSUME TypeOK, NEW r \in Requests, NEW b \in Browsers, NEW u \in Users, NEW f \in Tokens,
         NEW t \in Tokens \cup {0}, Issue(r, b, u, f, t)
  PROVE  /\ minted' = minted + 1 /\ minted + 1 \in Tokens /\ minted \in Nat
         /\ req'[r].at = "issuing" /\ req'[r].token = minted + 1 /\ req'[r].from = t
         /\ req'[r].user = u /\ req'[r].family = f
         /\ \A x \in Requests \ {r} : req'[x] = req[x]
         /\ req' \in [Requests -> Refresh \cup Issuing \cup Close \cup {Idle}]
         /\ jar' \in [Browsers -> Jar] /\ muddled' \subseteq Tokens /\ events' \in 0..MaxEvents
         /\ \/ /\ jar'[b].refresh = minted + 1 /\ muddled' = muddled
               /\ \A c \in Browsers \ {b} : jar'[c] = jar[c]
            \/ jar' = jar /\ muddled' = muddled \cup {f}
<1>1. minted' = minted + 1 /\ minted + 1 \in Tokens /\ minted \in Nat
  BY DEF Issue, TypeOK, Tokens
<1>2. [at |-> "issuing", token |-> minted + 1, from |-> t, user |-> u, family |-> f] \in Issuing
  BY <1>1 DEF Issuing
<1>3. /\ req' \in [Requests -> Refresh \cup Issuing \cup Close \cup {Idle}]
      /\ req'[r] = [at |-> "issuing", token |-> minted + 1, from |-> t, user |-> u, family |-> f]
      /\ \A x \in Requests \ {r} : req'[x] = req[x]
  BY <1>2 DEF Issue, TypeOK
<1>4. [refresh |-> minted + 1, access |-> u] \in Jar
  BY <1>1 DEF Jar
<1>5. CASE /\ jar' = [jar EXCEPT ![b] = [refresh |-> minted + 1, access |-> u]]
           /\ UNCHANGED <<muddled, events>>
  BY <1>1, <1>3, <1>4, <1>5 DEF TypeOK
<1>6. CASE muddled' = muddled \cup {f} /\ Unlucky /\ UNCHANGED jar
  BY <1>1, <1>3, <1>6 DEF TypeOK, Unlucky
<1> QED BY <1>5, <1>6 DEF Issue

\* A login begins a family of its own.
LEMMA LoginTypes ==
  ASSUME TypeInv, NEW r \in Requests, NEW b \in Browsers, NEW u \in Users, Login(r, b, u)
  PROVE  TypeInv'
<1>0. TypeOK
  BY DEF TypeInv
<1>1. minted + 1 \in Tokens /\ UNCHANGED <<gone, row, old>> /\ Issue(r, b, u, minted + 1, 0)
  BY <1>0 DEF Login, Issue, TypeOK, Tokens
<1>2. /\ minted' = minted + 1 /\ minted \in Nat
      /\ req'[r].at = "issuing" /\ req'[r].token = minted + 1 /\ req'[r].from = 0
      /\ req'[r].family = minted + 1
      /\ \A x \in Requests \ {r} : req'[x] = req[x]
      /\ req' \in [Requests -> Refresh \cup Issuing \cup Close \cup {Idle}]
      /\ jar' \in [Browsers -> Jar] /\ muddled' \subseteq Tokens /\ events' \in 0..MaxEvents
  BY <1>0, <1>1, IssueWrites
<1>3. TypeOK'
  BY <1>0, <1>1, <1>2 DEF TypeOK, Tokens
<1>4. \A t \in Tokens : t \in Nat /\ row[t].family \in Nat
                        /\ row[t].family <= minted /\ (row[t] # NoRow => t <= minted)
  BY RowBounds
<1>5. RowsMinted'
  BY <1>1, <1>2, <1>4 DEF RowsMinted
<1>6. row[minted + 1] = NoRow /\ \A t \in Tokens : row[t].family # minted + 1
  BY <1>1, <1>2, <1>4
<1>7. \A x \in Requests : req[x].at = "issuing" =>
        /\ req[x].token \in Nat /\ req[x].family \in Nat
        /\ req[x].token <= minted /\ req[x].family <= minted
  BY <1>0, RequestFields, TokenFacts DEF TypeInv, IssuesFresh
<1>8. ASSUME NEW x \in Requests, req'[x].at = "issuing" PROVE
        /\ req'[x].token <= minted' /\ req'[x].family <= minted' /\ row'[req'[x].token] = NoRow
        /\ req'[x].from # 0 => row'[req'[x].from] # NoRow /\ row'[req'[x].from].family = req'[x].family
        /\ req'[x].from = 0 => /\ req'[x].family = req'[x].token
                               /\ \A t \in Tokens : row'[t].family # req'[x].token
  <2>1. CASE x = r
    BY <1>1, <1>2, <1>6, <2>1
  <2>2. CASE x # r
    <3>1. req'[x] = req[x] /\ req[x].token <= minted' /\ req[x].family <= minted'
      BY <1>2, <1>7, <1>8, <2>2
    <3> QED BY <1>1, <1>8, <3>1 DEF TypeInv, IssuesFresh
  <2> QED BY <2>1, <2>2
<1>9. ASSUME NEW x \in Requests, NEW y \in Requests, req'[x].at = "issuing", req'[y].at = "issuing", x # y
      PROVE  req'[x].token # req'[y].token /\ (req'[x].from = 0 => req'[y].family # req'[x].token)
  <2>1. CASE x # r /\ y # r
    BY <1>2, <1>9, <2>1 DEF TypeInv, IssuesFresh
  <2>2. CASE x = r
    BY <1>2, <1>7, <1>9, <2>2
  <2>3. CASE y = r
    BY <1>2, <1>7, <1>9, <2>3
  <2> QED BY <2>1, <2>2, <2>3
<1>10. IssuesFresh'
  BY <1>8, <1>9 DEF IssuesFresh
<1> QED BY <1>3, <1>5, <1>10 DEF TypeInv

\* A rotation extends the family of the row it read.
LEMMA RefreshTypes ==
  ASSUME TypeInv, NEW r \in Requests, RefreshIssue(r)
  PROVE  TypeInv'
<1> DEFINE s == req[r].token
           f == row[s].family
<1>0. TypeOK
  BY DEF TypeInv
<1>1. /\ s \in Tokens /\ row[s] # NoRow /\ req[r].browser \in Browsers /\ f \in Tokens
      /\ row[s].user \in Users /\ s # 0
      /\ UNCHANGED <<gone, row, old>> /\ Issue(r, req[r].browser, row[s].user, f, s)
  BY <1>0, RequestFields, RowKinds, TokenFacts DEF RefreshIssue
<1>2. /\ minted' = minted + 1 /\ minted + 1 \in Tokens /\ minted \in Nat
      /\ req'[r].at = "issuing" /\ req'[r].token = minted + 1 /\ req'[r].from = s
      /\ req'[r].family = f
      /\ \A x \in Requests \ {r} : req'[x] = req[x]
      /\ req' \in [Requests -> Refresh \cup Issuing \cup Close \cup {Idle}]
      /\ jar' \in [Browsers -> Jar] /\ muddled' \subseteq Tokens /\ events' \in 0..MaxEvents
  BY <1>0, <1>1, IssueWrites
<1>3. TypeOK'
  BY <1>0, <1>1, <1>2 DEF TypeOK, Tokens
<1>4. \A t \in Tokens : t \in Nat /\ row[t].family \in Nat
                        /\ row[t].family <= minted /\ (row[t] # NoRow => t <= minted)
  BY RowBounds
<1>5. RowsMinted'
  BY <1>1, <1>2, <1>4 DEF RowsMinted
<1>6. row[minted + 1] = NoRow /\ f <= minted /\ f \in Nat
  BY <1>1, <1>2, <1>4
<1>7. \A x \in Requests : req[x].at = "issuing" =>
        /\ req[x].token \in Nat /\ req[x].family \in Nat
        /\ req[x].token <= minted /\ req[x].family <= minted
        /\ req[x].from = 0 => f # req[x].token
  BY <1>0, <1>1, RequestFields, TokenFacts DEF TypeInv, IssuesFresh
<1> HIDE DEF s, f
<1>8. ASSUME NEW x \in Requests, req'[x].at = "issuing" PROVE
        /\ req'[x].token <= minted' /\ req'[x].family <= minted' /\ row'[req'[x].token] = NoRow
        /\ req'[x].from # 0 => row'[req'[x].from] # NoRow /\ row'[req'[x].from].family = req'[x].family
        /\ req'[x].from = 0 => /\ req'[x].family = req'[x].token
                               /\ \A t \in Tokens : row'[t].family # req'[x].token
  <2>1. CASE x = r
    <3>1. row[s].family = f
      BY DEF f
    <3> QED BY <1>1, <1>2, <1>6, <2>1, <3>1
  <2>2. CASE x # r
    <3>1. req'[x] = req[x] /\ req[x].token <= minted' /\ req[x].family <= minted'
      BY <1>2, <1>7, <1>8, <2>2
    <3> QED BY <1>1, <1>8, <3>1 DEF TypeInv, IssuesFresh
  <2> QED BY <2>1, <2>2
<1>9. ASSUME NEW x \in Requests, NEW y \in Requests, req'[x].at = "issuing", req'[y].at = "issuing", x # y
      PROVE  req'[x].token # req'[y].token /\ (req'[x].from = 0 => req'[y].family # req'[x].token)
  <2>1. CASE x # r /\ y # r
    BY <1>2, <1>9, <2>1 DEF TypeInv, IssuesFresh
  <2>2. CASE x = r
    BY <1>1, <1>2, <1>7, <1>9, <2>2
  <2>3. CASE y = r
    BY <1>2, <1>7, <1>9, <2>3
  <2> QED BY <2>1, <2>2, <2>3
<1>10. IssuesFresh'
  BY <1>8, <1>9 DEF IssuesFresh
<1> QED BY <1>3, <1>5, <1>10 DEF TypeInv

\* What a commit of a pair writes.
LEMMA IssueCommitWrites ==
  ASSUME TypeInv, NEW r \in Requests, IssueCommit(r)
  PROVE  LET q == req[r] IN
         /\ q.at = "issuing" /\ q.token \in Tokens /\ q.from \in Tokens \cup {0} /\ q.token # q.from
         /\ q.user \in Users /\ q.family \in Tokens
         /\ row' \in [Tokens -> Row \cup {NoRow}]
         /\ row[q.token] = NoRow /\ row'[q.token] = Issued(q) /\ row'[q.token] \in Row
         /\ row'[q.token].state = "live" /\ row'[q.token].family = q.family
         /\ row'[q.token].user = q.user
         /\ q.from # 0 => /\ row[q.from] # NoRow /\ row[q.from].family = q.family
                          /\ row'[q.from] = Retired(q) /\ row'[q.from] \in Row
                          /\ row'[q.from].state = "rotated" /\ row'[q.from].family = q.family
                          /\ row'[q.from].user = row[q.from].user
         /\ \A t \in Tokens : t \notin {q.token, q.from} => row'[t] = row[t]
<1>0. TypeOK
  BY DEF TypeInv
<1>1. /\ req[r].at = "issuing" /\ req[r].token \in Tokens /\ req[r].from \in Tokens \cup {0}
      /\ req[r].user \in Users /\ req[r].family \in Tokens
  BY <1>0, RequestFields DEF IssueCommit
<1>2. row[req[r].token] = NoRow /\ (req[r].from # 0 => row[req[r].from] # NoRow
                                                       /\ row[req[r].from].family = req[r].family)
  BY <1>1 DEF TypeInv, IssuesFresh
<1>3. req[r].token # req[r].from
  BY <1>1, <1>2, TokenFacts
<1>4. /\ row'[req[r].token] = Issued(req[r])
      /\ req[r].from # 0 => row'[req[r].from] = Retired(req[r])
      /\ \A t \in Tokens : t \notin {req[r].token, req[r].from} => row'[t] = row[t]
  BY <1>1, <1>3 DEF IssueCommit
<1>5. /\ Issued(req[r]) \in Row /\ Issued(req[r]).state = "live"
      /\ Issued(req[r]).family = req[r].family /\ Issued(req[r]).user = req[r].user
  BY <1>1 DEF Issued, Row
<1>6. ASSUME req[r].from # 0
      PROVE  /\ Retired(req[r]) \in Row /\ Retired(req[r]).state = "rotated"
             /\ Retired(req[r]).family = req[r].family
             /\ Retired(req[r]).user = row[req[r].from].user
  BY <1>0, <1>1, <1>2, <1>6, RowWrites DEF Retired
<1>7. \A t \in Tokens : row'[t] \in Row \cup {NoRow}
  BY <1>0, <1>1, <1>4, <1>5, <1>6, TokenFacts DEF TypeOK
<1>8. row' \in [Tokens -> Row \cup {NoRow}]
  BY <1>7 DEF IssueCommit
<1> QED BY <1>1, <1>2, <1>3, <1>4, <1>5, <1>6, <1>8

\* The requests after it: one is over, and closing UPDATEs may learn that they are not alone.
LEMMA IssueCommitRequests ==
  ASSUME TypeOK, NEW r \in Requests, IssueCommit(r)
  PROVE  /\ req' \in [Requests -> Refresh \cup Issuing \cup Close \cup {Idle}]
         /\ req'[r] = Idle
         /\ \A x \in Requests \ {r} :
              \/ req'[x] = req[x] /\ ~(req[x].at = "closing" /\ InScope(req[x], req[r].user, req[r].family))
              \/ /\ req[x].at = "closing" /\ req[x] \in Close /\ req'[x] \in Close
                 /\ req'[x] = [req[x] EXCEPT !.alone = FALSE] /\ req'[x].at = "closing"
                 /\ req'[x].alone = FALSE /\ req'[x].hit = req[x].hit
                 /\ req'[x].reason = req[x].reason /\ req'[x].family = req[x].family
<1>1. ASSUME NEW x \in Requests, req[x].at = "closing"
      PROVE  /\ req[x] \in Close /\ [req[x] EXCEPT !.alone = FALSE] \in Close
             /\ [req[x] EXCEPT !.alone = FALSE].at = "closing"
             /\ [req[x] EXCEPT !.alone = FALSE].alone = FALSE
             /\ [req[x] EXCEPT !.alone = FALSE].hit = req[x].hit
             /\ [req[x] EXCEPT !.alone = FALSE].reason = req[x].reason
             /\ [req[x] EXCEPT !.alone = FALSE].family = req[x].family
  <2>1. req[x] \in Close
    BY <1>1, RequestKinds
  <2> QED BY <1>1, <2>1 DEF Close
<1>2. /\ req'[r] = Idle
      /\ \A x \in Requests \ {r} :
           req'[x] = IF req[x].at = "closing" /\ InScope(req[x], req[r].user, req[r].family)
                     THEN [req[x] EXCEPT !.alone = FALSE] ELSE req[x]
  BY DEF IssueCommit
<1>3. \A x \in Requests : req'[x] \in Refresh \cup Issuing \cup Close \cup {Idle}
  BY <1>1, <1>2 DEF TypeOK
<1>4. req' \in [Requests -> Refresh \cup Issuing \cup Close \cup {Idle}]
  BY <1>3 DEF IssueCommit
<1> QED BY <1>1, <1>2, <1>4

\* A commit keeps the types.
LEMMA CommitTypes ==
  ASSUME TypeInv, NEW r \in Requests, IssueCommit(r)
  PROVE  TypeInv'
<1> SUFFICES ASSUME NEW CONSTANT tok, tok = req[r].token, NEW CONSTANT frm, frm = req[r].from,
                    NEW CONSTANT fam, fam = req[r].family
             PROVE  TypeInv'
  OBVIOUS
<1>0. TypeOK
  BY DEF TypeInv
<1>1. /\ req[r].at = "issuing" /\ tok \in Tokens /\ frm \in Tokens \cup {0} /\ tok # frm
      /\ fam \in Tokens
      /\ row' \in [Tokens -> Row \cup {NoRow}]
      /\ row[tok] = NoRow /\ row'[tok] \in Row /\ row'[tok].family = fam
      /\ frm # 0 => /\ row[frm] # NoRow /\ row[frm].family = fam
                    /\ row'[frm] \in Row /\ row'[frm].family = fam
      /\ \A t \in Tokens : t \notin {tok, frm} => row'[t] = row[t]
  BY IssueCommitWrites
<1>2. /\ req' \in [Requests -> Refresh \cup Issuing \cup Close \cup {Idle}]
      /\ \A x \in Requests : req'[x].at = "issuing" => x # r /\ req'[x] = req[x]
  <2>1. /\ req' \in [Requests -> Refresh \cup Issuing \cup Close \cup {Idle}]
        /\ req'[r] = Idle
        /\ \A x \in Requests \ {r} : req'[x] = req[x] \/ req'[x].at = "closing"
    BY <1>0, IssueCommitRequests
  <2>2. Idle.at = "idle"
    BY DEF Idle
  <2> QED BY <2>1, <2>2
<1>3. UNCHANGED <<gone, minted, old, jar, events>> /\ muddled' \subseteq Tokens
  BY <1>0, <1>1 DEF IssueCommit, TypeOK
<1>4. TypeOK'
  BY <1>0, <1>1, <1>2, <1>3 DEF TypeOK
<1>5. tok <= minted /\ fam <= minted
  BY <1>1 DEF TypeInv, IssuesFresh
<1>6. \A t \in Tokens : row[t] # NoRow => /\ row'[t] # NoRow /\ row'[t].family = row[t].family
  BY <1>0, <1>1, RowKinds, TokenFacts
<1>7. \A t \in Tokens : row'[t].family \in {row[t].family, fam}
  BY <1>1, TokenFacts
<1>8. RowsMinted'
  BY <1>1, <1>3, <1>5, TokenFacts DEF TypeInv, RowsMinted
<1>9. ASSUME NEW x \in Requests, req'[x].at = "issuing" PROVE
        /\ req'[x].token <= minted' /\ req'[x].family <= minted' /\ row'[req'[x].token] = NoRow
        /\ req'[x].from # 0 => row'[req'[x].from] # NoRow /\ row'[req'[x].from].family = req'[x].family
        /\ req'[x].from = 0 => /\ req'[x].family = req'[x].token
                               /\ \A t \in Tokens : row'[t].family # req'[x].token
  <2>1. /\ req'[x] = req[x] /\ x # r /\ req[x].at = "issuing"
        /\ req[x].token \in Tokens /\ req[x].from \in Tokens \cup {0}
    BY <1>0, <1>2, <1>9, RequestFields
  <2>2. req[x].token # tok /\ (req[x].from = 0 => fam # req[x].token)
    BY <1>1, <2>1 DEF TypeInv, IssuesFresh
  <2>3. row[req[x].token] = NoRow
    BY <2>1 DEF TypeInv, IssuesFresh
  <2>4. row'[req[x].token] = NoRow
    BY <1>1, <2>1, <2>2, <2>3, TokenFacts
  <2>5. req[x].from = 0 => \A t \in Tokens : row'[t].family # req[x].token
    BY <1>7, <2>1, <2>2 DEF TypeInv, IssuesFresh
  <2> QED BY <1>3, <1>6, <2>1, <2>4, <2>5 DEF TypeInv, IssuesFresh
<1>10. IssuesFresh'
  BY <1>2, <1>9 DEF TypeInv, IssuesFresh
<1> QED BY <1>4, <1>8, <1>10 DEF TypeInv

\* What a closing UPDATE writes: live rows of its snapshot get its reason.
LEMMA CloseWrites ==
  ASSUME TypeOK, NEW r \in Requests, CloseCommit(r)
  PROVE  /\ req[r].at = "closing" /\ req[r] \in Close /\ req[r].reason \in Reasons
         /\ row' \in [Tokens -> Row \cup {NoRow}] /\ SameRows
         /\ \A t \in Tokens : IF t \in req[r].hit /\ Live(t)
                              THEN row[t] # NoRow /\ row'[t].state = req[r].reason
                              ELSE row'[t] = row[t]
         /\ req' = [req EXCEPT ![r] = Idle]
         /\ UNCHANGED <<gone, minted, old, jar, muddled, events>>
<1>1. req[r].at = "closing" /\ req[r] \in Close /\ req[r].reason \in Reasons
  BY RequestKinds DEF CloseCommit, Close
<1>2. ASSUME NEW t \in Tokens, Live(t)
      PROVE  /\ row[t] # NoRow /\ [row[t] EXCEPT !.state = req[r].reason] \in Row
             /\ [row[t] EXCEPT !.state = req[r].reason].state = req[r].reason
             /\ [row[t] EXCEPT !.state = req[r].reason].family = row[t].family
             /\ [row[t] EXCEPT !.state = req[r].reason].user = row[t].user
  <2>1. row[t] # NoRow
    BY <1>2, RowKinds DEF Live
  <2> QED BY <1>1, <2>1, RowWrites
<1>3. \A t \in Tokens : row'[t] = IF t \in req[r].hit /\ Live(t)
                                  THEN [row[t] EXCEPT !.state = req[r].reason] ELSE row[t]
  BY DEF CloseCommit
<1>4. \A t \in Tokens : row'[t] \in Row \cup {NoRow}
  BY <1>2, <1>3 DEF TypeOK
<1>5. row' \in [Tokens -> Row \cup {NoRow}]
  BY <1>4 DEF CloseCommit
<1>6. SameRows
  BY <1>2, <1>3, RowKinds DEF SameRows
<1> QED BY <1>1, <1>2, <1>3, <1>5, <1>6 DEF CloseCommit

\* What fixing the rows of a closing UPDATE writes.
LEMMA SnapshotWrites ==
  ASSUME TypeOK, NEW r \in Requests, CloseSnapshot(r)
  PROVE  /\ req[r].at = "close" /\ req[r] \in Close
         /\ req' \in [Requests -> Refresh \cup Issuing \cup Close \cup {Idle}]
         /\ req'[r] \in Close /\ req'[r].at = "closing" /\ req'[r].hit = Visible(req[r])
         /\ req'[r].reason = req[r].reason /\ req'[r].user = req[r].user
         /\ req'[r].family = req[r].family
         /\ \A x \in Requests \ {r} : req'[x] = req[x]
         /\ jar' \in [Browsers -> Jar]
         /\ \A b \in Browsers : jar'[b] = jar[b] \/ jar'[b] = EmptyJar
         /\ UNCHANGED <<gone, row, minted, old, muddled, events>>
<1> DEFINE q == req[r]
           n == [q EXCEPT !.at = "closing", !.hit = Visible(q)]
<1>1. q.at = "close" /\ q \in Close
  BY RequestKinds DEF CloseSnapshot
<1>2. Visible(q) \in SUBSET Tokens
  BY DEF Visible, Scope
<1>3. /\ n \in Close /\ n.at = "closing" /\ n.hit = Visible(q)
      /\ n.reason = q.reason /\ n.user = q.user /\ n.family = q.family
  BY <1>1, <1>2 DEF Close
<1>4. req' = [req EXCEPT ![r] = n]
  BY DEF CloseSnapshot
<1> HIDE DEF n
<1>5. /\ req' \in [Requests -> Refresh \cup Issuing \cup Close \cup {Idle}]
      /\ req'[r] = n /\ \A x \in Requests \ {r} : req'[x] = req[x]
  BY <1>3, <1>4 DEF TypeOK
<1>6. /\ jar' \in [Browsers -> Jar]
      /\ \A b \in Browsers : jar'[b] = jar[b] \/ jar'[b] = EmptyJar
  BY DEF CloseSnapshot, Cleared, TypeOK, EmptyJar, Jar
<1> QED BY <1>1, <1>3, <1>5, <1>6 DEF CloseSnapshot

\* The steps there are.
LEMMA Steps ==
  ASSUME [Next]_vars
  PROVE  \/ \E r \in Requests :
              \/ \E b \in Browsers, u \in Users : Login(r, b, u)
              \/ Asks(r) \/ RefreshIssue(r) \/ RefreshStale(r) \/ IssueCommit(r)
              \/ CloseSnapshot(r) \/ CloseCommit(r) \/ Dies(r)
         \/ \E t \in Tokens : Expire(t) \/ Deadline(t)
         \/ Prune
         \/ \E u \in Users : DeleteUser(u)
         \/ UNCHANGED vars
<1>1. \A r \in Requests : Ask(r) => Asks(r) \/ \E b \in Browsers, u \in Users : Login(r, b, u)
  BY DEF Ask, Asks
<1> QED BY <1>1 DEF Next, Step, Time

\* Nothing is written but a row's expiry.
LEMMA ExpireWrites ==
  ASSUME TypeOK, NEW t \in Tokens, Expire(t)
  PROVE  /\ TypeOK' /\ SameRows /\ \A s \in Tokens : row'[s].state = row[s].state
         /\ UNCHANGED <<gone, minted, old, jar, req, muddled>>
<1>1. row[t] # NoRow /\ row' = [row EXCEPT ![t].expired = TRUE]
  BY DEF Expire
<1>2. row'[t] = [row[t] EXCEPT !.expired = TRUE] /\ \A s \in Tokens \ {t} : row'[s] = row[s]
  BY <1>1 DEF TypeOK
<1>3. /\ row'[t] \in Row /\ row'[t].state = row[t].state
      /\ row'[t].family = row[t].family /\ row'[t].user = row[t].user
  BY <1>1, <1>2, RowWrites
<1>4. row' \in [Tokens -> Row \cup {NoRow}]
  BY <1>1, <1>3 DEF TypeOK
<1>5. SameRows
  BY <1>1, <1>2, <1>3, RowKinds DEF SameRows
<1>6. events' \in 0..MaxEvents /\ UNCHANGED <<gone, minted, old, jar, req, muddled>>
  BY DEF Expire, Unlucky, TypeOK
<1> QED BY <1>2, <1>3, <1>4, <1>5, <1>6 DEF TypeOK

\* Every step keeps the types.
LEMMA TypeNext == TypeInv /\ [Next]_vars => TypeInv'
<1> SUFFICES ASSUME TypeInv, [Next]_vars PROVE TypeInv'
  OBVIOUS
<1>0. TypeOK
  BY DEF TypeInv
<1>1. UNCHANGED row => SameRows
  BY DEF SameRows
<1>2. ASSUME NEW r \in Requests, Asks(r) PROVE TypeInv'
  <2>1. /\ TypeOK' /\ UNCHANGED <<row, minted>>
        /\ \A x \in Requests \ {r} : req'[x] = req[x]
        /\ req'[r] = req[r] \/ req'[r].at \in {"refresh", "close"}
    BY <1>0, <1>2, AskWrites
  <2>2. \A x \in Requests : req'[x].at = "issuing" => req'[x] = req[x]
    BY <2>1
  <2> QED BY <1>1, <2>1, <2>2, TypeQuiet
<1>3. ASSUME NEW r \in Requests, RefreshStale(r) \/ Dies(r) PROVE TypeInv'
  <2>1. req' = [req EXCEPT ![r] = Idle] /\ UNCHANGED <<gone, row, minted, old, jar, muddled, events>>
    BY <1>3 DEF RefreshStale, Dies
  <2>2. TypeOK' /\ \A x \in Requests : req'[x].at = "issuing" => req'[x] = req[x]
    BY <1>0, <2>1, Ending DEF TypeOK
  <2> QED BY <1>1, <2>1, <2>2, TypeQuiet
<1>4. ASSUME NEW r \in Requests, CloseSnapshot(r) PROVE TypeInv'
  <2>1. TypeOK' /\ \A x \in Requests : req'[x].at = "issuing" => req'[x] = req[x]
    BY <1>0, <1>4, SnapshotWrites DEF TypeOK
  <2> QED BY <1>1, <1>4, <2>1, TypeQuiet DEF CloseSnapshot
<1>5. ASSUME NEW r \in Requests, CloseCommit(r) PROVE TypeInv'
  <2>1. TypeOK' /\ SameRows /\ \A x \in Requests : req'[x].at = "issuing" => req'[x] = req[x]
    BY <1>0, <1>5, CloseWrites, Ending DEF TypeOK
  <2> QED BY <1>5, <2>1, TypeQuiet DEF CloseCommit
<1>6. ASSUME NEW t \in Tokens, Expire(t) PROVE TypeInv'
  BY <1>0, <1>6, ExpireWrites, TypeQuiet
<1>7. ASSUME NEW t \in Tokens, Deadline(t) PROVE TypeInv'
  <2>1. TypeOK' /\ UNCHANGED <<row, minted, req>>
    BY <1>0, <1>7 DEF Deadline, Unlucky, TypeOK
  <2> QED BY <1>1, <2>1, TypeQuiet
<1>8. ASSUME NEW u \in Users, DeleteUser(u) PROVE TypeInv'
  <2>1. TypeOK' /\ UNCHANGED <<row, minted, req>>
    BY <1>0, <1>8 DEF DeleteUser, Unlucky, TypeOK
  <2> QED BY <1>1, <2>1, TypeQuiet
<1>9. CASE Prune
  <2>1. /\ \A t \in Tokens : row'[t] \in {row[t], NoRow} /\ (~row[t].expired => row'[t] = row[t])
        /\ row' \in [Tokens -> Row \cup {NoRow}]
        /\ UNCHANGED <<gone, minted, old, jar, req, muddled, events>>
    BY <1>0, <1>9 DEF Prune, TypeOK
  <2>2. TypeOK'
    BY <1>0, <2>1 DEF TypeOK
  <2>3. RowsMinted'
    BY <2>1 DEF TypeInv, RowsMinted
  <2>4. NoRow.family = 0
    BY DEF NoRow
  <2>5. ASSUME NEW r \in Requests, req[r].at = "issuing" PROVE
          /\ row'[req[r].token] = NoRow
          /\ req[r].from # 0 => row'[req[r].from] # NoRow /\ row'[req[r].from].family = req[r].family
          /\ req[r].from = 0 => \A t \in Tokens : row'[t].family # req[r].token
    <3>1. req[r].token \in Tokens /\ req[r].from \in Tokens \cup {0}
      BY <1>0, <2>5, RequestFields
    <3>2. req[r].from # 0 => ~row[req[r].from].expired
      BY <1>9, <2>5, <3>1 DEF Prune, Locked
    <3>3. /\ row[req[r].token] = NoRow
          /\ req[r].from # 0 => row[req[r].from] # NoRow /\ row[req[r].from].family = req[r].family
          /\ req[r].from = 0 => \A t \in Tokens : row[t].family # req[r].token
      BY <2>5 DEF TypeInv, IssuesFresh
    <3>4. row'[req[r].token] = NoRow
      BY <2>1, <3>1, <3>3
    <3>5. req[r].from # 0 => row'[req[r].from] = row[req[r].from]
      BY <2>1, <3>1, <3>2
    <3>6. req[r].from = 0 => \A t \in Tokens : row'[t].family # req[r].token
      BY <2>1, <2>4, <3>1, <3>3, TokenFacts
    <3> QED BY <3>3, <3>4, <3>5, <3>6
  <2>6. IssuesFresh'
    BY <2>1, <2>5 DEF TypeInv, IssuesFresh
  <2> QED BY <2>2, <2>3, <2>6 DEF TypeInv
<1>10. CASE UNCHANGED vars
  <2>1. TypeOK'
    BY <1>0, <1>10 DEF vars, TypeOK
  <2> QED BY <1>1, <1>10, <2>1, TypeQuiet DEF vars
<1> QED BY <1>2, <1>3, <1>4, <1>5, <1>6, <1>7, <1>8, <1>9, <1>10, LoginTypes, RefreshTypes, CommitTypes, Steps

\* The invariant holds from the start.
LEMMA TypeInit == Init => TypeInv
  BY DEF Init, TypeInv, TypeOK, RowsMinted, IssuesFresh, Idle, Jar, EmptyJar

\* Every variable keeps its type, whoever refreshes, logs out or dies when.
THEOREM SessionsTypeCorrect == Spec => []TypeOK
<1>1. TypeInv => TypeOK
  BY DEF TypeInv
<1> QED BY <1>1, TypeInit, TypeNext, PTL DEF Spec

-------------------------------------------------------------------------------
(* A chain has one head                                                    *)

\* What is live, or rotated, or known as reused, was so before, in the same family.
NothingRevives ==
  \A t \in Tokens : row'[t] # NoRow =>
    /\ row[t] # NoRow /\ row'[t].family = row[t].family /\ row'[t].user = row[t].user
    /\ row'[t].state \in {"live", "rotated"} => row'[t].state = row[t].state

\* A row becomes live by the commit of a pair and by nothing else.
LEMMA LiveByCommit ==
  ASSUME TypeInv, [Next]_vars, \A r \in Requests : ~IssueCommit(r)
  PROVE  NothingRevives /\ muddled \subseteq muddled'
<1>0. TypeOK
  BY DEF TypeInv
<1>1. UNCHANGED row => NothingRevives
  BY DEF NothingRevives
<1>2. ASSUME NEW r \in Requests, Asks(r) PROVE NothingRevives /\ muddled \subseteq muddled'
  BY <1>0, <1>1, <1>2, AskWrites
<1>3. ASSUME NEW r \in Requests, NEW b \in Browsers, NEW u \in Users, Login(r, b, u)
      PROVE  NothingRevives /\ muddled \subseteq muddled'
  BY <1>1, <1>3 DEF Login, Issue
<1>4. ASSUME NEW r \in Requests, RefreshIssue(r) PROVE NothingRevives /\ muddled \subseteq muddled'
  BY <1>1, <1>4 DEF RefreshIssue, Issue
<1>5. ASSUME NEW r \in Requests, RefreshStale(r) \/ CloseSnapshot(r) \/ Dies(r)
      PROVE  NothingRevives /\ muddled \subseteq muddled'
  BY <1>1, <1>5 DEF RefreshStale, CloseSnapshot, Dies
<1>6. ASSUME NEW r \in Requests, CloseCommit(r) PROVE NothingRevives /\ muddled \subseteq muddled'
  <2>1. req[r].reason \in Reasons /\ SameRows /\ muddled' = muddled
        /\ \A t \in Tokens : row'[t].state = req[r].reason \/ row'[t] = row[t]
    BY <1>0, <1>6, CloseWrites
  <2> QED BY <2>1 DEF NothingRevives, SameRows, Reasons
<1>7. ASSUME NEW t \in Tokens, Expire(t) PROVE NothingRevives /\ muddled \subseteq muddled'
  BY <1>0, <1>7, ExpireWrites DEF NothingRevives, SameRows
<1>8. ASSUME NEW t \in Tokens, Deadline(t) PROVE NothingRevives /\ muddled \subseteq muddled'
  BY <1>1, <1>8 DEF Deadline
<1>9. ASSUME NEW u \in Users, DeleteUser(u) PROVE NothingRevives /\ muddled \subseteq muddled'
  BY <1>1, <1>9 DEF DeleteUser
<1>10. ASSUME Prune PROVE NothingRevives /\ muddled \subseteq muddled'
  BY <1>10 DEF Prune, NothingRevives
<1>11. ASSUME UNCHANGED vars PROVE NothingRevives /\ muddled \subseteq muddled'
  BY <1>1, <1>11 DEF vars
<1> QED BY <1>2, <1>3, <1>4, <1>5, <1>6, <1>7, <1>8, <1>9, <1>10, <1>11, Steps

\* In a chain where no two refreshes overlapped, two live tokens are one.
OneHead == \A f \in Tokens \ muddled : \A s, t \in Heads(f) : s = t

ChainInv == TypeInv /\ OneHead

\* A head is a row that is there.
LEMMA HeadRows ==
  ASSUME TypeOK, NEW t \in Tokens
  PROVE  \A f : t \in Heads(f) <=> row[t].state = "live" /\ row[t] # NoRow /\ row[t].family = f
  BY RowKinds, TokenFacts DEF Heads, Live

\* Every step keeps it: a rotation replaces the head it read, and where the head was another
\* one by then the chain is muddled.
LEMMA ChainNext == ChainInv /\ [Next]_vars => ChainInv'
<1> SUFFICES ASSUME ChainInv, [Next]_vars PROVE ChainInv'
  OBVIOUS
<1>0. TypeInv /\ TypeOK /\ TypeInv' /\ TypeOK'
  BY TypeNext DEF ChainInv, TypeInv
<1>1. \A t \in Tokens, f \in Tokens :
        t \in Heads(f)' <=> row'[t].state = "live" /\ row'[t] # NoRow /\ row'[t].family = f
  BY <1>0, RowKinds, TokenFacts DEF Heads, Live, TypeOK, Row, NoRow
<1>2. ASSUME NEW r \in Requests, IssueCommit(r),
             NEW CONSTANT tok, tok = req[r].token, NEW CONSTANT frm, frm = req[r].from,
             NEW CONSTANT fam, fam = req[r].family
      PROVE  OneHead'
  <2>1. /\ tok \in Tokens /\ fam \in Tokens /\ frm \in Tokens \cup {0}
        /\ row'[tok].family = fam
        /\ frm # 0 => row[frm].family = fam /\ row'[frm].state = "rotated"
        /\ \A t \in Tokens : t \notin {tok, frm} => row'[t] = row[t]
    BY <1>0, <1>2, IssueCommitWrites
  <2>2. /\ muddled \subseteq muddled'
        /\ fam \notin muddled' => frm = 0 \/ Live(frm)
    BY <1>2, <2>1 DEF IssueCommit
  <2>3. frm = 0 => \A t \in Tokens : row[t].family # fam
    <3>1. req[r].at = "issuing"
      BY <1>2 DEF IssueCommit
    <3>2. req[r].from = 0 => req[r].family = req[r].token /\ \A t \in Tokens : row[t].family # req[r].token
      BY <1>0, <3>1 DEF TypeInv, IssuesFresh
    <3> QED BY <1>2, <3>2
  <2>4. ASSUME NEW t \in Tokens, NEW f \in Tokens \ muddled', t \in Heads(f)'
        PROVE  t # frm /\ (t = tok => f = fam) /\ (t # tok => t \in Heads(f) /\ f # fam)
    <3>1. row'[t].state = "live" /\ row'[t] # NoRow /\ row'[t].family = f
      BY <1>1, <2>4
    <3>2. t # frm
      BY <2>1, <3>1, TokenFacts
    <3>3. t # tok => t \in Heads(f)
      BY <1>0, <2>1, <3>1, <3>2, HeadRows
    <3>4. ASSUME t # tok, f = fam PROVE FALSE
      <4>1. t \in Heads(fam) /\ row[t].family = fam
        BY <1>0, <3>3, <3>4, HeadRows
      <4>2. frm # 0 /\ Live(frm)
        BY <2>2, <2>3, <2>4, <3>4, <4>1
      <4>3. frm \in Heads(fam)
        BY <2>1, <4>2 DEF Heads
      <4> QED BY <2>2, <2>4, <3>2, <3>4, <4>1, <4>3 DEF ChainInv, OneHead
    <3> QED BY <2>1, <3>1, <3>2, <3>3, <3>4
  <2>5. ASSUME NEW f \in Tokens \ muddled', NEW s \in Heads(f)', NEW t \in Heads(f)' PROVE s = t
    <3>1. s \in Tokens /\ t \in Tokens
      BY <2>5 DEF Heads
    <3>2. f \in Tokens \ muddled
      BY <2>2
    <3> QED BY <2>4, <2>5, <3>1, <3>2 DEF ChainInv, OneHead
  <2> QED BY <2>5 DEF OneHead
<1>3. ASSUME \A r \in Requests : ~IssueCommit(r) PROVE OneHead'
  <2>1. NothingRevives /\ muddled \subseteq muddled'
    BY <1>0, <1>3, LiveByCommit
  <2>2. ASSUME NEW f \in Tokens \ muddled', NEW s \in Heads(f)', NEW t \in Heads(f)' PROVE s = t
    <3>1. s \in Tokens /\ t \in Tokens /\ f \in Tokens \ muddled
      BY <2>1, <2>2 DEF Heads
    <3>2. s \in Heads(f) /\ t \in Heads(f)
      BY <1>0, <1>1, <2>1, <2>2, <3>1, HeadRows DEF NothingRevives
    <3> QED BY <3>1, <3>2 DEF ChainInv, OneHead
  <2> QED BY <2>2 DEF OneHead
<1> QED BY <1>0, <1>2, <1>3 DEF ChainInv

\* A chain has one live token, its head, unless two refreshes of it overlapped.
THEOREM SessionsChainHasOneHead == Spec => []ChainHasOneHead
<1>1. Init => ChainInv
  BY TypeInit DEF Init, ChainInv, OneHead, Heads, Live, NoRow
<1>2. ASSUME NEW S, \A s, t \in S : s = t PROVE Cardinality(S) <= 1
  <2>1. CASE S = {}
    BY <2>1, FS_EmptySet
  <2>2. CASE S # {}
    <3>1. PICK s : s \in S
      BY <2>2
    <3>2. S = {s}
      BY <1>2, <3>1
    <3> QED BY <3>2, FS_Singleton
  <2> QED BY <2>1, <2>2
<1>3. ChainInv => ChainHasOneHead
  BY <1>2 DEF ChainInv, OneHead, ChainHasOneHead
<1> QED BY <1>1, <1>3, ChainNext, PTL DEF Spec

-------------------------------------------------------------------------------
(* Reuse is detected on muddled chains only                                *)

\* A token is in one jar, and was minted.
JarsApart ==
  /\ \A b \in Browsers : jar[b].refresh <= minted
  /\ \A b, c \in Browsers : b # c /\ jar[b].refresh = jar[c].refresh => jar[b].refresh = 0

\* What is being refreshed is in no jar but that of the browser that asked.
RefreshersHold ==
  \A r \in Requests : req[r].at = "refresh" =>
    /\ req[r].token <= minted
    /\ \A c \in Browsers : c # req[r].browser => jar[c].refresh # req[r].token

\* Unless its chain is muddled, what is retired, or is about to be, is in no jar any more.
RetiredNotHeld ==
  /\ \A t \in Tokens : row[t].state = "rotated" /\ row[t].family \notin muddled =>
       \A b \in Browsers : jar[b].refresh # t
  /\ \A r \in Requests : req[r].at = "issuing" /\ req[r].from # 0 /\ req[r].family \notin muddled =>
       \A b \in Browsers : jar[b].refresh # req[r].from

\* An UPDATE that answers to reuse is about a muddled chain, and closes no row but its own.
AlarmsMuddled ==
  /\ \A r \in Requests : req[r].at \in {"close", "closing"} /\ req[r].reason = "reuse_detected" =>
       req[r].family \in muddled
  /\ \A r \in Requests : req[r].at = "closing" => \A t \in req[r].hit :
       /\ t <= minted
       /\ \A x \in Requests : req[x].at = "issuing" => req[x].token # t
       /\ req[r].reason # "logout_all" /\ row[t] # NoRow => row[t].family = req[r].family

AlarmInv == TypeInv /\ JarsApart /\ RefreshersHold /\ RetiredNotHeld /\ AlarmsMuddled /\ NoFalseAlarm

\* A step after which everything is as it was, or is gone.
LEMMA AlarmQuiet ==
  ASSUME AlarmInv, TypeInv', minted' = minted, muddled \subseteq muddled',
         \A t \in Tokens : row'[t] # NoRow =>
           row[t] # NoRow /\ row'[t].family = row[t].family /\ row'[t].state = row[t].state,
         \A b \in Browsers : jar'[b] = jar[b] \/ jar'[b] = EmptyJar,
         \A x \in Requests : req'[x] = req[x] \/ req'[x] = Idle
  PROVE  AlarmInv'
<1>0. TypeOK /\ TypeOK'
  BY DEF AlarmInv, TypeInv
<1>1. /\ Idle.at = "idle" /\ EmptyJar.refresh = 0 /\ NoRow.state = "none" /\ 0 \notin Tokens
      /\ minted \in Nat
  BY <1>0, TokenFacts DEF Idle, EmptyJar, NoRow, TypeOK
<1>2. JarsApart'
  BY <1>1 DEF AlarmInv, JarsApart
<1>3. \A x \in Requests : req'[x].at = "refresh" => req'[x] = req[x] /\ req[x].token \in Tokens
  BY <1>0, <1>1, RequestFields
<1>4. RefreshersHold'
  BY <1>1, <1>3 DEF AlarmInv, RefreshersHold
<1>5. \A x \in Requests : req'[x].at = "issuing" => req'[x] = req[x] /\ req[x].from \in Tokens \cup {0}
  BY <1>0, <1>1, RequestFields
<1>6. RetiredNotHeld'
  BY <1>1, <1>5 DEF AlarmInv, RetiredNotHeld
<1>7. \A x \in Requests : req'[x].at \in {"close", "closing"} => req'[x] = req[x] /\ req[x].hit \subseteq Tokens
  BY <1>0, <1>1, RequestFields
<1>8. AlarmsMuddled'
  BY <1>5, <1>7 DEF AlarmInv, AlarmsMuddled
<1>9. NoFalseAlarm'
  BY DEF AlarmInv, NoFalseAlarm
<1> QED BY <1>2, <1>4, <1>6, <1>8, <1>9 DEF AlarmInv

\* A request that is asked for refreshes what its browser holds, or answers to the reuse of
\* a rotated token a browser holds, or answers to no reuse.
LEMMA AskRequests ==
  ASSUME TypeOK, NEW r \in Requests, Asks(r)
  PROVE  \/ req'[r] = req[r]
         \/ /\ req'[r].at = "refresh" /\ jar' = jar /\ req'[r].browser \in Browsers
            /\ req'[r].token = jar[req'[r].browser].refresh /\ req'[r].token # 0
            /\ Good(jar[req'[r].browser].refresh)
         \/ /\ req'[r].at = "close" /\ req'[r].reason = "reuse_detected"
            /\ \E b \in Browsers : /\ jar[b].refresh \in Tokens
                                   /\ row[jar[b].refresh].state = "rotated"
                                   /\ req'[r].family = row[jar[b].refresh].family
         \/ req'[r].at = "close" /\ req'[r].reason # "reuse_detected"
<1>1. ASSUME NEW q, Begin(r, q) PROVE req'[r] = q
  BY <1>1 DEF Begin, TypeOK
<1>2. ASSUME NEW b, NEW why, NEW u, NEW f, NEW c, Begin(r, Closing(b, why, u, f, c))
      PROVE  req'[r].at = "close" /\ req'[r].reason = why /\ req'[r].family = f
  BY <1>1, <1>2 DEF Closing
<1>3. ASSUME NEW b \in Browsers, RefreshRead(r, b)
      PROVE  \/ req'[r] = req[r]
             \/ /\ req'[r].at = "refresh" /\ jar' = jar /\ req'[r].browser \in Browsers
                /\ req'[r].token = jar[req'[r].browser].refresh /\ req'[r].token # 0
                /\ Good(jar[req'[r].browser].refresh)
             \/ /\ req'[r].at = "close" /\ req'[r].reason = "reuse_detected"
                /\ jar[b].refresh \in Tokens
                /\ row[jar[b].refresh].state = "rotated"
                /\ req'[r].family = row[jar[b].refresh].family
             \/ req'[r].at = "close" /\ req'[r].reason # "reuse_detected"
  <2> DEFINE t == jar[b].refresh
             Shut(why) == Closing(b, why, row[t].user, row[t].family, TRUE)
  <2>1. t \in Tokens
    BY <1>3 DEF RefreshRead, TypeOK, Jar
  <2>2. \/ UNCHANGED req
        \/ row[t].state = "rotated" /\ Begin(r, Shut("reuse_detected"))
        \/ Begin(r, Shut("absolute_expiry"))
        \/ Begin(r, Shut("user_gone"))
        \/ Begin(r, [at |-> "refresh", browser |-> b, token |-> t]) /\ UNCHANGED jar /\ t # 0 /\ Good(t)
    BY <1>3 DEF RefreshRead
  <2>3. CASE UNCHANGED req
    BY <2>3
  <2>4. CASE row[t].state = "rotated" /\ Begin(r, Shut("reuse_detected"))
    <3>1. Begin(r, Closing(b, "reuse_detected", row[t].user, row[t].family, TRUE))
      BY <2>4
    <3>2. req'[r].at = "close" /\ req'[r].reason = "reuse_detected" /\ req'[r].family = row[t].family
      BY <1>2, <3>1
    <3> QED BY <2>1, <2>4, <3>2
  <2>5. CASE Begin(r, Shut("absolute_expiry")) \/ Begin(r, Shut("user_gone"))
    <3>1. PICK why \in {"absolute_expiry", "user_gone"} :
            Begin(r, Closing(b, why, row[t].user, row[t].family, TRUE))
      BY <2>5
    <3>2. req'[r].at = "close" /\ req'[r].reason = why
      BY <1>2, <3>1
    <3> QED BY <3>1, <3>2
  <2>6. CASE Begin(r, [at |-> "refresh", browser |-> b, token |-> t]) /\ UNCHANGED jar /\ t # 0 /\ Good(t)
    <3>1. req'[r] = [at |-> "refresh", browser |-> b, token |-> t]
      BY <1>1, <2>6
    <3> QED BY <2>6, <3>1
  <2> QED BY <2>2, <2>3, <2>4, <2>5, <2>6
<1>4. ASSUME NEW b \in Browsers, Logout(r, b) \/ LogoutAll(r, b) \/ \E t \in Tokens : RevokeOne(r, b, t)
      PROVE  req'[r] = req[r] \/ (req'[r].at = "close" /\ req'[r].reason # "reuse_detected")
  <2>1. CASE Logout(r, b)
    <3>1. CASE UNCHANGED req
      BY <3>1
    <3>2. CASE \E u, f : Begin(r, Closing(b, "logout", u, f, TRUE))
      <4>1. req'[r].at = "close" /\ req'[r].reason = "logout"
        BY <1>2, <3>2
      <4> QED BY <4>1
    <3> QED BY <2>1, <3>1, <3>2 DEF Logout
  <2>2. CASE LogoutAll(r, b)
    <3>1. Begin(r, Closing(b, "logout_all", CurrentUser(b), 0, TRUE))
      BY <2>2 DEF LogoutAll
    <3>2. req'[r].at = "close" /\ req'[r].reason = "logout_all"
      BY <1>2, <3>1
    <3> QED BY <3>2
  <2>3. CASE \E t \in Tokens : RevokeOne(r, b, t)
    <3>1. PICK t \in Tokens :
            Begin(r, Closing(b, "revoked_by_user", row[t].user, row[t].family, t = jar[b].refresh))
      BY <2>3 DEF RevokeOne
    <3>2. req'[r].at = "close" /\ req'[r].reason = "revoked_by_user"
      BY <1>2, <3>1
    <3> QED BY <3>2
  <2> QED BY <1>4, <2>1, <2>2, <2>3
<1> QED BY <1>3, <1>4 DEF Asks

\* Asking raises no alarm about a chain that is not muddled: what its browser holds was not
\* rotated.
LEMMA AlarmAsk ==
  ASSUME AlarmInv, TypeInv', NEW r \in Requests, Asks(r)
  PROVE  AlarmInv'
<1>0. TypeOK /\ minted \in Nat /\ 0 \notin Tokens
  BY TokenFacts DEF AlarmInv, TypeInv, TypeOK
<1>1. /\ UNCHANGED <<row, minted>> /\ muddled \subseteq muddled'
      /\ \A x \in Requests \ {r} : req'[x] = req[x]
      /\ req'[r] = req[r] \/ (req[r] = Idle /\ req'[r].at \in {"refresh", "close"})
      /\ \A b \in Browsers : jar'[b] = jar[b] \/ jar'[b] = EmptyJar
  BY <1>0, AskWrites
<1>2. \A b \in Browsers : jar'[b].refresh \in {jar[b].refresh, 0}
  BY <1>1 DEF EmptyJar
<1>3. \/ req'[r] = req[r]
      \/ /\ req'[r].at = "refresh" /\ jar' = jar /\ req'[r].browser \in Browsers
         /\ req'[r].token = jar[req'[r].browser].refresh /\ req'[r].token # 0
      \/ /\ req'[r].at = "close" /\ req'[r].reason = "reuse_detected"
         /\ \E b \in Browsers : /\ jar[b].refresh \in Tokens
                                /\ row[jar[b].refresh].state = "rotated"
                                /\ req'[r].family = row[jar[b].refresh].family
      \/ req'[r].at = "close" /\ req'[r].reason # "reuse_detected"
  BY <1>0, AskRequests
<1>4. JarsApart'
  BY <1>0, <1>1, <1>2 DEF AlarmInv, JarsApart
<1>5. RefreshersHold'
  <2> SUFFICES ASSUME NEW x \in Requests, req'[x].at = "refresh"
               PROVE  /\ req'[x].token <= minted
                      /\ \A c \in Browsers : c # req'[x].browser => jar'[c].refresh # req'[x].token
    BY <1>1 DEF RefreshersHold
  <2>1. CASE req'[x] = req[x]
    <3>1. req[x].token \in Tokens
      BY <1>0, <2>1, RequestFields
    <3> QED BY <1>0, <1>2, <2>1, <3>1 DEF AlarmInv, RefreshersHold
  <2>2. CASE req'[x] # req[x]
    <3>1. /\ x = r /\ jar' = jar /\ req'[r].browser \in Browsers
          /\ req'[r].token = jar[req'[r].browser].refresh /\ req'[r].token # 0
      BY <1>1, <1>3, <2>2
    <3> QED BY <3>1 DEF AlarmInv, JarsApart
  <2> QED BY <2>1, <2>2
<1>6. \A x \in Requests : req'[x].at \in {"issuing", "closing"} => req'[x] = req[x]
  BY <1>1
<1>7. RetiredNotHeld'
  <2>1. \A t \in Tokens : row[t].state = "rotated" /\ row[t].family \notin muddled' =>
          \A b \in Browsers : jar'[b].refresh # t
    BY <1>0, <1>1, <1>2 DEF AlarmInv, RetiredNotHeld
  <2>2. \A x \in Requests : req'[x].at = "issuing" /\ req'[x].from # 0 /\ req'[x].family \notin muddled' =>
          \A b \in Browsers : jar'[b].refresh # req'[x].from
    BY <1>1, <1>2, <1>6 DEF AlarmInv, RetiredNotHeld
  <2> QED BY <1>1, <2>1, <2>2 DEF RetiredNotHeld
<1>8. AlarmsMuddled'
  <2>1. \A x \in Requests : req'[x].at \in {"close", "closing"} /\ req'[x].reason = "reuse_detected" =>
          req'[x].family \in muddled'
    BY <1>1, <1>3 DEF AlarmInv, AlarmsMuddled, RetiredNotHeld
  <2>2. \A x \in Requests : req'[x].at = "closing" => \A t \in req'[x].hit :
          /\ t <= minted
          /\ \A y \in Requests : req'[y].at = "issuing" => req'[y].token # t
          /\ req'[x].reason # "logout_all" /\ row[t] # NoRow => row[t].family = req'[x].family
    BY <1>6 DEF AlarmInv, AlarmsMuddled
  <2> QED BY <1>1, <2>1, <2>2 DEF AlarmsMuddled
<1>9. NoFalseAlarm'
  BY <1>1 DEF AlarmInv, NoFalseAlarm
<1> QED BY <1>4, <1>5, <1>7, <1>8, <1>9 DEF AlarmInv

\* Minting a pair: the answer replaces the only copy of the token that is about to be
\* retired, or it was lost and the chain is muddled.
LEMMA AlarmIssue ==
  ASSUME AlarmInv, TypeInv', NEW r \in Requests, NEW b \in Browsers, NEW u \in Users,
         NEW f \in Tokens, NEW s \in Tokens \cup {0}, Issue(r, b, u, f, s), UNCHANGED row,
         s # 0 => s <= minted /\ row[s].family = f
                  /\ \A c \in Browsers : c # b => jar[c].refresh # s
  PROVE  AlarmInv'
<1>0. TypeOK /\ minted \in Nat /\ 0 \notin Tokens
  BY TokenFacts DEF AlarmInv, TypeInv, TypeOK
<1>1. /\ minted' = minted + 1 /\ minted + 1 \in Tokens
      /\ req'[r].at = "issuing" /\ req'[r].token = minted + 1 /\ req'[r].from = s
      /\ req'[r].family = f
      /\ \A x \in Requests \ {r} : req'[x] = req[x]
      /\ \/ /\ jar'[b].refresh = minted + 1 /\ muddled' = muddled
            /\ \A c \in Browsers \ {b} : jar'[c] = jar[c]
         \/ jar' = jar /\ muddled' = muddled \cup {f}
  BY <1>0, IssueWrites
<1>2. \A c \in Browsers : jar[c].refresh \in Nat /\ jar[c].refresh <= minted
  <2>1. \A c \in Browsers : jar[c].refresh \in Tokens \cup {0}
    BY <1>0 DEF TypeOK, Jar
  <2>2. \A t \in Tokens \cup {0} : t \in Nat
    BY DEF Tokens
  <2> QED BY <2>1, <2>2 DEF AlarmInv, JarsApart
<1>3. /\ muddled \subseteq muddled'
      /\ \A c \in Browsers : jar'[c].refresh \in {jar[c].refresh, minted + 1}
      /\ \A c \in Browsers : jar'[c].refresh = minted + 1 => c = b
  BY <1>0, <1>1, <1>2
<1>4. JarsApart'
  <2>1. \A c \in Browsers : jar'[c].refresh <= minted + 1
    BY <1>0, <1>2, <1>3
  <2>2. \A c, d \in Browsers : c # d /\ jar'[c].refresh = jar'[d].refresh => jar'[c].refresh = 0
    BY <1>1, <1>2, <1>3 DEF AlarmInv, JarsApart
  <2> QED BY <1>1, <2>1, <2>2 DEF JarsApart
<1>5. RefreshersHold'
  <2> SUFFICES ASSUME NEW x \in Requests, req'[x].at = "refresh"
               PROVE  /\ req'[x].token <= minted'
                      /\ \A c \in Browsers : c # req'[x].browser => jar'[c].refresh # req'[x].token
    BY DEF RefreshersHold
  <2>1. req'[x] = req[x]
    BY <1>1
  <2>2. req[x].token \in Nat /\ req[x].token <= minted
        /\ \A c \in Browsers : c # req[x].browser => jar[c].refresh # req[x].token
    BY <1>0, <2>1, RequestFields, TokenFacts DEF AlarmInv, RefreshersHold
  <2> QED BY <1>0, <1>1, <1>3, <2>1, <2>2
<1>6. RetiredNotHeld'
  <2>1. ASSUME NEW t \in Tokens, row[t].state = "rotated", row[t].family \notin muddled',
               NEW c \in Browsers
        PROVE  jar'[c].refresh # t
    <3>1. row[t] # NoRow
      BY <1>0, <2>1, RowKinds
    <3>2. t <= minted /\ t \in Nat
      BY <3>1, RowBounds DEF AlarmInv
    <3> QED BY <1>0, <1>3, <2>1, <3>2 DEF AlarmInv, RetiredNotHeld
  <2>2. ASSUME NEW x \in Requests, req'[x].at = "issuing", req'[x].from # 0,
               req'[x].family \notin muddled', NEW c \in Browsers
        PROVE  jar'[c].refresh # req'[x].from
    <3>1. CASE x = r
      <4>1. s # 0 /\ s \in Nat /\ s <= minted /\ \A d \in Browsers : d # b => jar[d].refresh # s
        BY <1>1, <2>2, <3>1, TokenFacts
      <4>2. jar'[b].refresh = minted + 1
        BY <1>1, <2>2, <3>1
      <4> QED BY <1>0, <1>1, <1>3, <3>1, <4>1, <4>2
    <3>2. CASE x # r
      <4>1. req'[x] = req[x] /\ req[x].at = "issuing" /\ req[x].from \in Tokens
        BY <1>0, <1>1, <2>2, <3>2, RequestFields
      <4>2. row[req[x].from] # NoRow
        BY <2>2, <4>1 DEF AlarmInv, TypeInv, IssuesFresh
      <4>3. req[x].from <= minted /\ req[x].from \in Nat
        BY <4>1, <4>2, RowBounds DEF AlarmInv
      <4> QED BY <1>0, <1>3, <2>2, <4>1, <4>3 DEF AlarmInv, RetiredNotHeld
    <3> QED BY <3>1, <3>2
  <2> QED BY <2>1, <2>2 DEF RetiredNotHeld
<1>7. AlarmsMuddled'
  <2>1. \A x \in Requests : req'[x].at \in {"close", "closing"} => req'[x] = req[x]
    BY <1>1
  <2>2. ASSUME NEW x \in Requests, req'[x].at = "closing", NEW t \in req'[x].hit
        PROVE  /\ t <= minted'
               /\ \A y \in Requests : req'[y].at = "issuing" => req'[y].token # t
               /\ req'[x].reason # "logout_all" /\ row'[t] # NoRow => row'[t].family = req'[x].family
    <3>1. req'[x] = req[x] /\ t \in req[x].hit /\ req[x].at = "closing"
      BY <2>1, <2>2
    <3>2. t \in Nat
      BY <1>0, <3>1, RequestFields, TokenFacts
    <3>3. /\ t <= minted
          /\ \A y \in Requests : req[y].at = "issuing" => req[y].token # t
          /\ req[x].reason # "logout_all" /\ row[t] # NoRow => row[t].family = req[x].family
      BY <3>1 DEF AlarmInv, AlarmsMuddled
    <3> QED BY <1>0, <1>1, <3>1, <3>2, <3>3
  <2>3. \A x \in Requests : req'[x].at \in {"close", "closing"} /\ req'[x].reason = "reuse_detected" =>
          req'[x].family \in muddled'
    BY <1>3, <2>1 DEF AlarmInv, AlarmsMuddled
  <2> QED BY <2>2, <2>3 DEF AlarmsMuddled
<1>8. NoFalseAlarm'
  BY <1>3 DEF AlarmInv, NoFalseAlarm
<1> QED BY <1>4, <1>5, <1>6, <1>7, <1>8 DEF AlarmInv

\* Committing a pair.
LEMMA AlarmCommit ==
  ASSUME AlarmInv, TypeInv', NEW r \in Requests, IssueCommit(r)
  PROVE  AlarmInv'
<1> SUFFICES ASSUME NEW CONSTANT tok, tok = req[r].token, NEW CONSTANT frm, frm = req[r].from,
                    NEW CONSTANT fam, fam = req[r].family
             PROVE  AlarmInv'
  OBVIOUS
<1>0. TypeInv /\ TypeOK /\ minted \in Nat /\ 0 \notin Tokens
  BY TokenFacts DEF AlarmInv, TypeInv, TypeOK
<1>1. /\ req[r].at = "issuing" /\ tok \in Tokens /\ frm \in Tokens \cup {0} /\ tok # frm
      /\ row[tok] = NoRow /\ row'[tok].state = "live" /\ row'[tok].family = fam
      /\ frm # 0 => /\ row[frm] # NoRow /\ row[frm].family = fam
                    /\ row'[frm].state = "rotated" /\ row'[frm].family = fam
      /\ \A t \in Tokens : t \notin {tok, frm} => row'[t] = row[t]
  BY <1>0, IssueCommitWrites
<1>2. muddled \subseteq muddled' /\ UNCHANGED <<minted, jar>>
  BY DEF IssueCommit
<1>3. \A x \in Requests : \/ req'[x] = req[x]
                          \/ req'[x].at = "idle"
                          \/ /\ req[x].at = "closing" /\ req'[x].at = "closing"
                             /\ req'[x].hit = req[x].hit /\ req'[x].reason = req[x].reason
                             /\ req'[x].family = req[x].family
  <2>1. /\ req'[r] = Idle
        /\ \A x \in Requests \ {r} :
             \/ req'[x] = req[x]
             \/ /\ req[x].at = "closing" /\ req'[x].at = "closing"
                /\ req'[x].hit = req[x].hit /\ req'[x].reason = req[x].reason
                /\ req'[x].family = req[x].family
    BY <1>0, IssueCommitRequests
  <2>2. Idle.at = "idle"
    BY DEF Idle
  <2> QED BY <2>1, <2>2
<1>4. JarsApart'
  BY <1>2 DEF AlarmInv, JarsApart
<1>5. RefreshersHold'
  BY <1>2, <1>3 DEF AlarmInv, RefreshersHold
<1>6. RetiredNotHeld'
  <2>1. ASSUME NEW t \in Tokens, row'[t].state = "rotated", row'[t].family \notin muddled',
               NEW b \in Browsers
        PROVE  jar'[b].refresh # t
    <3>1. CASE t = frm
      BY <1>0, <1>1, <1>2, <2>1, <3>1 DEF AlarmInv, RetiredNotHeld
    <3>2. CASE t # frm
      <4>1. row'[t] = row[t]
        BY <1>1, <2>1, <3>2
      <4> QED BY <1>2, <2>1, <4>1 DEF AlarmInv, RetiredNotHeld
    <3> QED BY <3>1, <3>2
  <2>2. \A x \in Requests : req'[x].at = "issuing" => req'[x] = req[x]
    BY <1>3
  <2> QED BY <1>2, <2>1, <2>2 DEF AlarmInv, RetiredNotHeld
<1>7. AlarmsMuddled'
  <2>1. \A x \in Requests : req'[x].at \in {"close", "closing"} =>
          /\ req'[x].at = req[x].at
          /\ req'[x].reason = req[x].reason /\ req'[x].family = req[x].family
    BY <1>3
  <2>2. ASSUME NEW x \in Requests, req'[x].at = "closing", NEW t \in req'[x].hit
        PROVE  /\ t <= minted'
               /\ \A y \in Requests : req'[y].at = "issuing" => req'[y].token # t
               /\ req'[x].reason # "logout_all" /\ row'[t] # NoRow => row'[t].family = req'[x].family
    <3>1. req[x].at = "closing" /\ t \in req[x].hit
          /\ req'[x].reason = req[x].reason /\ req'[x].family = req[x].family
      BY <1>3, <2>2
    <3>2. t \in Tokens
      BY <1>0, <3>1, RequestFields
    <3>3. /\ t <= minted /\ t # tok
          /\ \A y \in Requests : req[y].at = "issuing" => req[y].token # t
          /\ req[x].reason # "logout_all" /\ row[t] # NoRow => row[t].family = req[x].family
      BY <1>1, <3>1 DEF AlarmInv, AlarmsMuddled
    <3>4. /\ row'[t] # NoRow => row[t] # NoRow
          /\ row'[t].family = row[t].family
      BY <1>0, <1>1, <3>2, <3>3
    <3>5. \A y \in Requests : req'[y].at = "issuing" => req'[y] = req[y]
      BY <1>3
    <3> QED BY <1>2, <3>1, <3>3, <3>4, <3>5
  <2>3. \A x \in Requests : req'[x].at \in {"close", "closing"} /\ req'[x].reason = "reuse_detected" =>
          req'[x].family \in muddled'
    BY <1>2, <2>1 DEF AlarmInv, AlarmsMuddled
  <2> QED BY <2>2, <2>3 DEF AlarmsMuddled
<1>8. NoFalseAlarm'
  <2>1. \A t \in Tokens : row'[t].state = "reuse_detected" => row'[t] = row[t]
    BY <1>0, <1>1
  <2> QED BY <1>2, <2>1 DEF AlarmInv, NoFalseAlarm
<1> QED BY <1>4, <1>5, <1>6, <1>7, <1>8 DEF AlarmInv

\* Fixing the rows of an UPDATE, and closing them.
LEMMA AlarmSnapshot ==
  ASSUME AlarmInv, TypeInv', NEW r \in Requests, CloseSnapshot(r)
  PROVE  AlarmInv'
<1>0. TypeInv /\ TypeOK /\ minted \in Nat /\ 0 \notin Tokens
  BY TokenFacts DEF AlarmInv, TypeInv, TypeOK
<1>1. /\ req[r].at = "close" /\ req'[r].at = "closing" /\ req'[r].hit = Visible(req[r])
      /\ req'[r].reason = req[r].reason /\ req'[r].family = req[r].family
      /\ \A x \in Requests \ {r} : req'[x] = req[x]
      /\ \A b \in Browsers : jar'[b] = jar[b] \/ jar'[b] = EmptyJar
      /\ UNCHANGED <<row, minted, muddled>>
  BY <1>0, SnapshotWrites
<1>2. \A b \in Browsers : jar'[b].refresh \in {jar[b].refresh, 0}
  BY <1>1 DEF EmptyJar
<1>3. JarsApart'
  BY <1>0, <1>1, <1>2 DEF AlarmInv, JarsApart
<1>4. RefreshersHold'
  <2>1. \A x \in Requests : req'[x].at = "refresh" => req'[x] = req[x] /\ req[x].token \in Tokens
    BY <1>0, <1>1, RequestFields
  <2> QED BY <1>0, <1>1, <1>2, <2>1 DEF AlarmInv, RefreshersHold
<1>5. \A x \in Requests : req'[x].at = "issuing" => req'[x] = req[x]
  BY <1>1
<1>6. RetiredNotHeld'
  <2>1. \A t \in Tokens : row[t].state = "rotated" /\ row[t].family \notin muddled =>
          \A b \in Browsers : jar'[b].refresh # t
    BY <1>0, <1>2 DEF AlarmInv, RetiredNotHeld
  <2>2. \A x \in Requests : req'[x].at = "issuing" /\ req'[x].from # 0 /\ req'[x].family \notin muddled =>
          \A b \in Browsers : jar'[b].refresh # req'[x].from
    BY <1>2, <1>5 DEF AlarmInv, RetiredNotHeld
  <2> QED BY <1>1, <2>1, <2>2 DEF RetiredNotHeld
<1>7. ASSUME NEW t \in Visible(req[r])
      PROVE  /\ t <= minted
             /\ \A y \in Requests : req[y].at = "issuing" => req[y].token # t
             /\ req[r].reason # "logout_all" => row[t].family = req[r].family
  <2>1. t \in Tokens /\ row[t] # NoRow /\ InScope(req[r], row[t].user, row[t].family)
    BY DEF Visible, Scope
  <2>2. t <= minted
    BY <1>0, <2>1, RowBounds
  <2>3. \A y \in Requests : req[y].at = "issuing" => row[req[y].token] = NoRow
    BY <1>0 DEF TypeInv, IssuesFresh
  <2> QED BY <2>1, <2>2, <2>3 DEF InScope
<1>8. AlarmsMuddled'
  <2>1. ASSUME NEW x \in Requests, req'[x].at = "closing", NEW t \in req'[x].hit
        PROVE  /\ t <= minted
               /\ \A y \in Requests : req[y].at = "issuing" => req[y].token # t
               /\ req'[x].reason # "logout_all" /\ row[t] # NoRow => row[t].family = req'[x].family
    BY <1>1, <1>7, <2>1 DEF AlarmInv, AlarmsMuddled
  <2>2. \A x \in Requests : req'[x].at \in {"close", "closing"} /\ req'[x].reason = "reuse_detected" =>
          req'[x].family \in muddled
    BY <1>1 DEF AlarmInv, AlarmsMuddled
  <2> QED BY <1>1, <1>5, <2>1, <2>2 DEF AlarmsMuddled
<1>9. NoFalseAlarm'
  BY <1>1 DEF AlarmInv, NoFalseAlarm
<1> QED BY <1>3, <1>4, <1>6, <1>8, <1>9 DEF AlarmInv

LEMMA AlarmClose ==
  ASSUME AlarmInv, TypeInv', NEW r \in Requests, CloseCommit(r)
  PROVE  AlarmInv'
<1>0. TypeInv /\ TypeOK
  BY DEF AlarmInv, TypeInv
<1>1. /\ req[r].at = "closing" /\ req[r].reason \in Reasons /\ SameRows
      /\ \A t \in Tokens : IF t \in req[r].hit /\ Live(t)
                           THEN row[t] # NoRow /\ row'[t].state = req[r].reason
                           ELSE row'[t] = row[t]
      /\ req' = [req EXCEPT ![r] = Idle] /\ UNCHANGED <<minted, jar, muddled>>
  BY <1>0, CloseWrites
<1>2. req'[r].at = "idle" /\ \A x \in Requests \ {r} : req'[x] = req[x]
  BY <1>0, <1>1, Ending
<1>3. JarsApart' /\ RefreshersHold'
  BY <1>1, <1>2 DEF AlarmInv, JarsApart, RefreshersHold
<1>4. RetiredNotHeld'
  <2>1. \A t \in Tokens : row'[t].state = "rotated" => row'[t] = row[t]
    BY <1>1 DEF Reasons
  <2> QED BY <1>1, <1>2, <2>1 DEF AlarmInv, RetiredNotHeld
<1>5. AlarmsMuddled'
  <2>1. \A x \in Requests : req'[x].at # "idle" => req'[x] = req[x] /\ x # r
    BY <1>2
  <2>2. ASSUME NEW x \in Requests, req'[x].at = "closing", NEW t \in req'[x].hit
        PROVE  /\ t <= minted'
               /\ \A y \in Requests : req'[y].at = "issuing" => req'[y].token # t
               /\ req'[x].reason # "logout_all" /\ row'[t] # NoRow => row'[t].family = req'[x].family
    <3>1. req'[x] = req[x] /\ t \in Tokens
      BY <1>0, <2>1, <2>2, RequestFields
    <3> QED BY <1>1, <2>1, <2>2, <3>1 DEF AlarmInv, AlarmsMuddled, SameRows
  <2>3. \A x \in Requests : req'[x].at \in {"close", "closing"} /\ req'[x].reason = "reuse_detected" =>
          req'[x].family \in muddled'
    BY <1>1, <2>1 DEF AlarmInv, AlarmsMuddled
  <2> QED BY <2>2, <2>3 DEF AlarmsMuddled
<1>6. NoFalseAlarm'
  <2> SUFFICES ASSUME NEW t \in Tokens, row'[t] # NoRow, row'[t].family \notin muddled
               PROVE  row'[t].state # "reuse_detected"
    BY <1>1 DEF NoFalseAlarm
  <2>1. row[t] # NoRow /\ row[t].family \notin muddled
    BY <1>1 DEF SameRows
  <2>2. CASE t \in req[r].hit /\ Live(t)
    <3>1. req[r].reason # "logout_all" => row[t].family = req[r].family
      BY <1>1, <2>1, <2>2 DEF AlarmInv, AlarmsMuddled
    <3>2. req[r].reason # "reuse_detected"
      BY <1>1, <2>1, <3>1 DEF AlarmInv, AlarmsMuddled
    <3> QED BY <1>1, <2>2, <3>2
  <2>3. CASE ~(t \in req[r].hit /\ Live(t))
    BY <1>1, <2>1, <2>3 DEF AlarmInv, NoFalseAlarm
  <2> QED BY <2>2, <2>3
<1> QED BY <1>3, <1>4, <1>5, <1>6 DEF AlarmInv

\* Every step keeps it.
LEMMA AlarmNext == AlarmInv /\ [Next]_vars => AlarmInv'
<1> SUFFICES ASSUME AlarmInv, [Next]_vars PROVE AlarmInv'
  OBVIOUS
<1>0. TypeInv /\ TypeOK /\ TypeInv' /\ minted \in Nat /\ 0 \notin Tokens
  BY TypeNext, TokenFacts DEF AlarmInv, TypeInv, TypeOK
<1>1. ASSUME NEW r \in Requests, NEW b \in Browsers, NEW u \in Users, Login(r, b, u) PROVE AlarmInv'
  <2>1. minted + 1 \in Tokens /\ UNCHANGED row /\ Issue(r, b, u, minted + 1, 0)
    BY <1>0, <1>1 DEF Login, Issue, TypeOK, Tokens
  <2> QED BY <1>0, <2>1, AlarmIssue
<1>2. ASSUME NEW r \in Requests, RefreshIssue(r) PROVE AlarmInv'
  <2> DEFINE s == req[r].token
             f == row[s].family
  <2>1. /\ req[r].at = "refresh" /\ s \in Tokens /\ row[s] # NoRow /\ req[r].browser \in Browsers
        /\ f \in Tokens /\ row[s].user \in Users /\ UNCHANGED row
        /\ Issue(r, req[r].browser, row[s].user, f, s)
    BY <1>0, <1>2, RequestFields, RowKinds DEF RefreshIssue
  <2>2. s <= minted /\ \A c \in Browsers : c # req[r].browser => jar[c].refresh # s
    BY <2>1 DEF AlarmInv, RefreshersHold
  <2> QED BY <1>0, <2>1, <2>2, AlarmIssue
<1>3. ASSUME NEW r \in Requests, RefreshStale(r) \/ Dies(r) PROVE AlarmInv'
  <2>1. req' = [req EXCEPT ![r] = Idle] /\ UNCHANGED <<row, minted, jar, muddled>>
    BY <1>3 DEF RefreshStale, Dies
  <2>2. \A x \in Requests : req'[x] = req[x] \/ req'[x] = Idle
    BY <1>0, <2>1, Ending
  <2> QED BY <1>0, <2>1, <2>2, AlarmQuiet
<1>4. ASSUME NEW t \in Tokens, Expire(t) PROVE AlarmInv'
  <2>1. SameRows /\ (\A s \in Tokens : row'[s].state = row[s].state) /\ UNCHANGED <<minted, jar, req, muddled>>
    BY <1>0, <1>4, ExpireWrites
  <2> QED BY <1>0, <2>1, AlarmQuiet DEF SameRows
<1>5. ASSUME NEW t \in Tokens, Deadline(t) PROVE AlarmInv'
  BY <1>0, <1>5, AlarmQuiet DEF Deadline
<1>6. ASSUME NEW u \in Users, DeleteUser(u) PROVE AlarmInv'
  BY <1>0, <1>6, AlarmQuiet DEF DeleteUser
<1>7. CASE Prune
  <2>1. /\ \A t \in Tokens : row'[t] = row[t] \/ row'[t] = NoRow
        /\ UNCHANGED <<minted, jar, req, muddled>>
    BY <1>7 DEF Prune
  <2> QED BY <1>0, <2>1, AlarmQuiet
<1>8. CASE UNCHANGED vars
  BY <1>0, <1>8, AlarmQuiet DEF vars
<1> QED BY <1>0, <1>1, <1>2, <1>3, <1>4, <1>5, <1>6, <1>7, <1>8, Steps, AlarmAsk, AlarmCommit, AlarmSnapshot, AlarmClose

\* A browser that refreshes once at a time and gets its answers is never taken for two
\* parties: reuse is detected on muddled chains only.
THEOREM SessionsNoFalseAlarm == Spec => []NoFalseAlarm
<1>1. Init => AlarmInv
  <2> SUFFICES ASSUME Init PROVE AlarmInv
    OBVIOUS
  <2>1. TypeInv
    BY TypeInit
  <2>2. JarsApart /\ RefreshersHold
    BY DEF Init, JarsApart, RefreshersHold, Idle, EmptyJar
  <2>3. RetiredNotHeld /\ AlarmsMuddled /\ NoFalseAlarm
    BY DEF Init, RetiredNotHeld, AlarmsMuddled, NoFalseAlarm, Idle, NoRow
  <2> QED BY <2>1, <2>2, <2>3 DEF AlarmInv
<1>2. AlarmInv => NoFalseAlarm
  BY DEF AlarmInv
<1> QED BY <1>1, <1>2, AlarmNext, PTL DEF Spec

-------------------------------------------------------------------------------
(* What is closed stays closed                                             *)

\* No step extends a chain that has no live token and that nobody is about to extend.
LEMMA DeadStaysDead ==
  ASSUME TypeInv, [Next]_vars, NEW f \in Tokens, Dead(f)
  PROVE  Dead(f)'
<1>0. TypeOK /\ minted \in Nat /\ f \in Nat /\ 0 \notin Tokens
  BY TokenFacts DEF TypeInv, TypeOK
<1>1. /\ Heads(f) = {} /\ f <= minted
      /\ \A r \in Requests : /\ req[r].at = "refresh" => row[req[r].token].family # f
                             /\ req[r].at = "issuing" => req[r].family # f
  BY DEF Dead
<1>2. \A t \in Tokens : row[t].family = f => row[t].state # "live"
  BY <1>0, <1>1 DEF Heads, Live
<1>3. ASSUME minted' \in Nat, minted <= minted',
             \A t \in Tokens : row'[t].family = f => row'[t].state # "live",
             \A r \in Requests : /\ req'[r].at = "refresh" => row'[req'[r].token].family # f
                                 /\ req'[r].at = "issuing" => req'[r].family # f
      PROVE  Dead(f)'
  <2>1. f <= minted'
    BY <1>0, <1>1, <1>3
  <2>2. Heads(f)' = {}
    BY <1>3 DEF Heads, Live
  <2> QED BY <1>3, <2>1, <2>2 DEF Dead
<1>4. ASSUME minted' = minted,
             \A t \in Tokens : row'[t].family = f => row'[t].state # "live" /\ row[t].family = f,
             \A r \in Requests : req'[r] = req[r] \/ req'[r].at \notin {"refresh", "issuing"}
      PROVE  Dead(f)'
  <2>1. \A r \in Requests : req[r].at = "refresh" => req[r].token \in Tokens
    BY <1>0, RequestFields
  <2>2. \A r \in Requests : /\ req'[r].at = "refresh" => row'[req'[r].token].family # f
                            /\ req'[r].at = "issuing" => req'[r].family # f
    BY <1>1, <1>4, <2>1
  <2> QED BY <1>0, <1>3, <1>4, <2>2
<1>5. UNCHANGED row => \A t \in Tokens : row'[t].family = f => row'[t].state # "live" /\ row[t].family = f
  BY <1>2
<1>6. ASSUME NEW r \in Requests, Asks(r) PROVE Dead(f)'
  <2>1. /\ UNCHANGED <<row, minted>> /\ \A x \in Requests \ {r} : req'[x] = req[x]
        /\ req'[r] = req[r] \/ req'[r].at \in {"refresh", "close"}
    BY <1>0, <1>6, AskWrites
  <2>2. CASE req'[r] # req[r] /\ req'[r].at = "refresh"
    <3>1. /\ req'[r].browser \in Browsers /\ Good(jar[req'[r].browser].refresh)
          /\ req'[r].token = jar[req'[r].browser].refresh
      BY <1>0, <1>6, <2>2, AskRequests
    <3>2. req'[r].token \in Tokens /\ row[req'[r].token].state = "live"
      BY <1>0, <3>1 DEF TypeOK, Jar, Good, Live
    <3>3. row[req'[r].token].family # f
      BY <1>2, <3>2
    <3>4. \A x \in Requests : /\ req'[x].at = "refresh" => row'[req'[x].token].family # f
                              /\ req'[x].at = "issuing" => req'[x].family # f
      BY <1>1, <2>1, <2>2, <3>3
    <3> QED BY <1>0, <1>2, <1>3, <2>1, <3>4
  <2>3. CASE req'[r] = req[r] \/ req'[r].at = "close"
    BY <1>4, <1>5, <2>1, <2>3
  <2> QED BY <2>1, <2>2, <2>3
<1>7. ASSUME NEW r \in Requests, NEW b \in Browsers, NEW u \in Users, Login(r, b, u) PROVE Dead(f)'
  <2>1. minted + 1 \in Tokens /\ UNCHANGED row /\ Issue(r, b, u, minted + 1, 0)
    BY <1>0, <1>7 DEF Login, Issue, TypeOK, Tokens
  <2>2. /\ minted' = minted + 1 /\ req'[r].at = "issuing" /\ req'[r].family = minted + 1
        /\ \A x \in Requests \ {r} : req'[x] = req[x]
    BY <1>0, <2>1, IssueWrites
  <2>3. minted + 1 # f /\ minted <= minted' /\ minted' \in Nat
    BY <1>0, <1>1, <2>2
  <2>4. \A x \in Requests : /\ req'[x].at = "refresh" => row'[req'[x].token].family # f
                            /\ req'[x].at = "issuing" => req'[x].family # f
    BY <1>1, <2>1, <2>2, <2>3
  <2> QED BY <1>2, <1>3, <2>1, <2>3, <2>4
<1>8. ASSUME NEW r \in Requests, RefreshIssue(r) PROVE Dead(f)'
  <2> DEFINE s == req[r].token
             g == row[s].family
  <2>1. /\ req[r].at = "refresh" /\ s \in Tokens /\ req[r].browser \in Browsers
        /\ g \in Tokens /\ row[s].user \in Users /\ UNCHANGED row
        /\ Issue(r, req[r].browser, row[s].user, g, s)
    BY <1>0, <1>8, RequestFields, RowKinds DEF RefreshIssue
  <2>2. /\ minted' = minted + 1 /\ req'[r].at = "issuing" /\ req'[r].family = g
        /\ \A x \in Requests \ {r} : req'[x] = req[x]
    <3> HIDE DEF s, g
    <3>1. s \in Tokens \cup {0}
      BY <2>1
    <3> QED BY <1>0, <2>1, <3>1, IssueWrites
  <2>3. g # f /\ minted <= minted' /\ minted' \in Nat
    BY <1>0, <1>1, <2>1, <2>2
  <2>4. \A x \in Requests : /\ req'[x].at = "refresh" => row'[req'[x].token].family # f
                            /\ req'[x].at = "issuing" => req'[x].family # f
    BY <1>1, <2>1, <2>2, <2>3
  <2> QED BY <1>2, <1>3, <2>1, <2>3, <2>4
<1>9. ASSUME NEW r \in Requests, RefreshStale(r) \/ Dies(r) PROVE Dead(f)'
  <2>1. req' = [req EXCEPT ![r] = Idle] /\ UNCHANGED <<row, minted>>
    BY <1>9 DEF RefreshStale, Dies
  <2>2. \A x \in Requests : req'[x] = req[x] \/ req'[x].at = "idle"
    BY <1>0, <2>1, Ending
  <2> QED BY <1>4, <1>5, <2>1, <2>2
<1>10. ASSUME NEW r \in Requests, IssueCommit(r),
              NEW CONSTANT tok, tok = req[r].token, NEW CONSTANT frm, frm = req[r].from,
              NEW CONSTANT fam, fam = req[r].family
       PROVE  Dead(f)'
  <2>1. /\ req[r].at = "issuing" /\ tok \in Tokens /\ frm \in Tokens \cup {0}
        /\ row'[tok].family = fam
        /\ frm # 0 => row'[frm].family = fam
        /\ \A t \in Tokens : t \notin {tok, frm} => row'[t] = row[t]
    BY <1>10, IssueCommitWrites
  <2>2. fam # f
    BY <1>1, <1>10, <2>1
  <2>3. \A t \in Tokens : row'[t].family = f => row'[t] = row[t]
    BY <1>0, <2>1, <2>2
  <2>4. /\ req'[r] = Idle
        /\ \A x \in Requests \ {r} : req'[x] = req[x] \/ req'[x].at = "closing"
    BY <1>0, <1>10, IssueCommitRequests
  <2>5. Idle.at = "idle"
    BY DEF Idle
  <2>6. \A x \in Requests : req'[x] = req[x] \/ req'[x].at \notin {"refresh", "issuing"}
    BY <2>4, <2>5
  <2> QED BY <1>2, <1>4, <1>10, <2>3, <2>6 DEF IssueCommit
<1>11. ASSUME NEW r \in Requests, CloseSnapshot(r) PROVE Dead(f)'
  <2>1. /\ UNCHANGED <<row, minted>> /\ req'[r].at = "closing"
        /\ \A x \in Requests \ {r} : req'[x] = req[x]
    BY <1>0, <1>11, SnapshotWrites
  <2> QED BY <1>4, <1>5, <2>1
<1>12. ASSUME NEW r \in Requests, CloseCommit(r) PROVE Dead(f)'
  <2>1. /\ SameRows /\ req[r].reason \in Reasons /\ minted' = minted
        /\ req' = [req EXCEPT ![r] = Idle]
        /\ \A t \in Tokens : row'[t].state = req[r].reason \/ row'[t] = row[t]
    BY <1>0, <1>12, CloseWrites
  <2>2. \A x \in Requests : req'[x] = req[x] \/ req'[x].at = "idle"
    BY <1>0, <2>1, Ending
  <2>3. \A t \in Tokens : row'[t].family = f => row'[t].state # "live" /\ row[t].family = f
    BY <1>2, <2>1 DEF SameRows, Reasons
  <2> QED BY <1>4, <2>1, <2>2, <2>3
<1>13. ASSUME NEW t \in Tokens, Expire(t) PROVE Dead(f)'
  <2>1. SameRows /\ (\A s \in Tokens : row'[s].state = row[s].state) /\ UNCHANGED <<minted, req>>
    BY <1>0, <1>13, ExpireWrites
  <2> QED BY <1>2, <1>4, <2>1 DEF SameRows
<1>14. ASSUME NEW t \in Tokens, Deadline(t) PROVE Dead(f)'
  BY <1>4, <1>5, <1>14 DEF Deadline
<1>15. ASSUME NEW u \in Users, DeleteUser(u) PROVE Dead(f)'
  BY <1>4, <1>5, <1>15 DEF DeleteUser
<1>16. CASE Prune
  <2>1. (\A t \in Tokens : row'[t] = row[t] \/ row'[t] = NoRow) /\ UNCHANGED <<minted, req>>
    BY <1>16 DEF Prune
  <2>2. NoRow.family # f
    BY <1>0 DEF NoRow
  <2> QED BY <1>2, <1>4, <2>1, <2>2
<1>17. CASE UNCHANGED vars
  BY <1>4, <1>5, <1>17 DEF vars
<1> QED BY <1>6, <1>7, <1>8, <1>9, <1>10, <1>11, <1>12, <1>13, <1>14, <1>15, <1>16, <1>17, Steps

\* The types hold in every state.
LEMMA TypeInvariance == Spec => []TypeInv
  BY TypeInit, TypeNext, PTL DEF Spec

\* A chain without a live token, and without a request that is about to extend it, stays
\* closed: no revoked, expired or rotated token opens it again.
THEOREM SessionsClosedStaysClosed == Spec => ClosedStaysClosed
<1>1. TypeInv /\ [Next]_vars => [\A f \in Tokens : Dead(f) => Dead(f)']_vars
  BY DeadStaysDead
<1> QED BY <1>1, TypeInvariance, PTL DEF Spec, ClosedStaysClosed

-------------------------------------------------------------------------------
(* Closing is complete                                                     *)

\* An UPDATE that nothing committed behind sees every live row that it is about.
SnapshotIsWhole ==
  \A r \in Requests : req[r].at = "closing" /\ req[r].alone =>
    \A t \in Scope(req[r]) : Live(t) => t \in req[r].hit

CloseInv == TypeInv /\ SnapshotIsWhole

\* A step that revives nothing, and fixes no rows.
LEMMA CloseQuiet ==
  ASSUME CloseInv, TypeInv', NothingRevives,
         \A x \in Requests : req'[x].at = "closing" => req'[x] = req[x]
  PROVE  CloseInv'
<1>1. ASSUME NEW x \in Requests, req'[x].at = "closing", req'[x].alone, NEW t \in Tokens,
             row'[t] # NoRow, InScope(req'[x], row'[t].user, row'[t].family), Live(t)'
      PROVE  t \in req'[x].hit
  <2>1. req'[x] = req[x] /\ row[t] # NoRow /\ row'[t].family = row[t].family
        /\ row'[t].user = row[t].user /\ row[t].state = "live" /\ t # 0
    BY <1>1, TokenFacts DEF NothingRevives, Live
  <2>2. t \in Scope(req[x]) /\ Live(t)
    BY <1>1, <2>1 DEF Scope, Live
  <2> QED BY <1>1, <2>1, <2>2 DEF CloseInv, SnapshotIsWhole
<1>2. SnapshotIsWhole'
  BY <1>1 DEF SnapshotIsWhole, Scope
<1> QED BY <1>2 DEF CloseInv

\* Every step keeps it.
LEMMA CloseNext == CloseInv /\ [Next]_vars => CloseInv'
<1> SUFFICES ASSUME CloseInv, [Next]_vars PROVE CloseInv'
  OBVIOUS
<1>0. TypeInv /\ TypeOK /\ TypeInv' /\ 0 \notin Tokens
  BY TypeNext, TokenFacts DEF CloseInv, TypeInv
<1>1. ASSUME NEW r \in Requests, IssueCommit(r),
             NEW CONSTANT tok, tok = req[r].token, NEW CONSTANT frm, frm = req[r].from
      PROVE  CloseInv'
  <2>1. /\ tok \in Tokens /\ frm \in Tokens \cup {0}
        /\ row'[tok].family = req[r].family /\ row'[tok].user = req[r].user
        /\ frm # 0 => row'[frm].state = "rotated"
        /\ \A t \in Tokens : t \notin {tok, frm} => row'[t] = row[t]
    BY <1>0, <1>1, IssueCommitWrites
  <2>2. /\ req'[r] = Idle
        /\ \A x \in Requests \ {r} :
             \/ req'[x] = req[x] /\ ~(req[x].at = "closing" /\ InScope(req[x], req[r].user, req[r].family))
             \/ req'[x].at = "closing" /\ req'[x].alone = FALSE
    BY <1>0, <1>1, IssueCommitRequests
  <2>3. Idle.at = "idle"
    BY DEF Idle
  <2>4. ASSUME NEW x \in Requests, req'[x].at = "closing", req'[x].alone, NEW t \in Tokens,
               row'[t] # NoRow, InScope(req'[x], row'[t].user, row'[t].family), Live(t)'
        PROVE  t \in req'[x].hit
    <3>1. req'[x] = req[x] /\ ~InScope(req[x], req[r].user, req[r].family)
      BY <2>2, <2>3, <2>4
    <3>2. t # tok
      BY <2>1, <2>4, <3>1
    <3>3. row'[t].state = "live"
      BY <2>4 DEF Live
    <3>4. row'[t] = row[t]
      BY <1>0, <2>1, <3>2, <3>3
    <3>5. t \in Scope(req[x]) /\ Live(t)
      BY <1>0, <2>4, <3>1, <3>3, <3>4 DEF Scope, Live
    <3> QED BY <2>4, <3>1, <3>5 DEF CloseInv, SnapshotIsWhole
  <2>5. SnapshotIsWhole'
    BY <2>4 DEF SnapshotIsWhole, Scope
  <2> QED BY <1>0, <2>5 DEF CloseInv
<1>2. ASSUME NEW r \in Requests, CloseSnapshot(r) PROVE CloseInv'
  <2>1. /\ UNCHANGED row /\ req'[r].hit = Visible(req[r])
        /\ req'[r].reason = req[r].reason /\ req'[r].user = req[r].user
        /\ req'[r].family = req[r].family
        /\ \A x \in Requests \ {r} : req'[x] = req[x]
    BY <1>0, <1>2, SnapshotWrites
  <2>2. ASSUME NEW x \in Requests, req'[x].at = "closing", req'[x].alone, NEW t \in Tokens,
               row[t] # NoRow, InScope(req'[x], row[t].user, row[t].family), Live(t)
        PROVE  t \in req'[x].hit
    <3>1. CASE x = r
      <4>1. InScope(req[r], row[t].user, row[t].family)
        BY <2>1, <2>2, <3>1 DEF InScope
      <4> QED BY <2>1, <2>2, <3>1, <4>1 DEF Visible, Scope
    <3>2. CASE x # r
      BY <2>1, <2>2, <3>2 DEF CloseInv, SnapshotIsWhole, Scope
    <3> QED BY <3>1, <3>2
  <2>3. SnapshotIsWhole'
    BY <2>1, <2>2 DEF SnapshotIsWhole, Scope, Live
  <2> QED BY <1>0, <2>3 DEF CloseInv
<1>3. ASSUME \A r \in Requests : ~IssueCommit(r) /\ ~CloseSnapshot(r) PROVE CloseInv'
  <2>1. NothingRevives
    BY <1>0, <1>3, LiveByCommit
  <2>2. \A x \in Requests : req'[x].at = "closing" => req'[x] = req[x]
    <3>1. ASSUME NEW r \in Requests, Asks(r) PROVE \A x \in Requests : req'[x].at = "closing" => req'[x] = req[x]
      BY <1>0, <3>1, AskWrites
    <3>2. ASSUME NEW r \in Requests, NEW b \in Browsers, NEW u \in Users, Login(r, b, u)
          PROVE  \A x \in Requests : req'[x].at = "closing" => req'[x] = req[x]
      BY <1>0, <3>2 DEF Login, Issue, TypeOK
    <3>3. ASSUME NEW r \in Requests, RefreshIssue(r)
          PROVE  \A x \in Requests : req'[x].at = "closing" => req'[x] = req[x]
      BY <1>0, <3>3 DEF RefreshIssue, Issue, TypeOK
    <3>4. ASSUME NEW r \in Requests, RefreshStale(r) \/ CloseCommit(r) \/ Dies(r)
          PROVE  \A x \in Requests : req'[x].at = "closing" => req'[x] = req[x]
      BY <1>0, <3>4, Ending DEF RefreshStale, CloseCommit, Dies
    <3>5. ASSUME UNCHANGED req PROVE \A x \in Requests : req'[x].at = "closing" => req'[x] = req[x]
      BY <3>5
    <3> QED BY <1>3, <3>1, <3>2, <3>3, <3>4, <3>5, Steps DEF Expire, Deadline, Prune, DeleteUser, vars
  <2> QED BY <1>0, <2>1, <2>2, CloseQuiet
<1> QED BY <1>1, <1>2, <1>3

\* Logging out, here or everywhere, and detected reuse leave no live token of what they close,
\* unless a refresh or a login committed behind the UPDATE's snapshot.
THEOREM SessionsCloseIsComplete == Spec => CloseIsComplete
<1>1. Init => CloseInv
  BY TypeInit DEF Init, CloseInv, SnapshotIsWhole, Idle
<1>2. ASSUME CloseInv, NEW r \in Requests, req[r].at = "closing", req[r].alone, CloseCommit(r),
             NEW t \in Scope(req[r])
      PROVE  row'[t].state # "live"
  <2>1. t \in Tokens /\ row[t] # NoRow
    BY DEF Scope
  <2>2. /\ req[r].reason \in Reasons
        /\ IF t \in req[r].hit /\ Live(t)
           THEN row[t] # NoRow /\ row'[t].state = req[r].reason ELSE row'[t] = row[t]
    BY <1>2, <2>1, CloseWrites DEF CloseInv, TypeInv
  <2>3. Live(t) => t \in req[r].hit
    BY <1>2 DEF CloseInv, SnapshotIsWhole
  <2> QED BY <2>1, <2>2, <2>3, TokenFacts DEF Live, Reasons
<1>3. CloseInv /\ [Next]_vars =>
        [\A r \in Requests : req[r].at = "closing" /\ req[r].alone /\ CloseCommit(r)
             => \A t \in Scope(req[r]) : row'[t].state # "live"]_vars
  BY <1>2
<1> QED BY <1>1, <1>3, CloseNext, PTL DEF Spec, CloseIsComplete

-------------------------------------------------------------------------------
(* A rotated row is kept as long as its successor                          *)

\* Row n can be the successor of row t: a later one of the same person and chain, that does
\* not expire first.
Follows(t, n) ==
  /\ n \in Tokens /\ n > t /\ row[n] # NoRow
  /\ row[n].family = row[t].family /\ row[n].user = row[t].user
  /\ row[n].expired => row[t].expired

SuccessorsFollow == \A t \in Tokens : row[t].state = "rotated" => Follows(t, row[t].next)

\* A pair that is being issued will follow the row it retires.
IssuesFollow ==
  \A r \in Requests : req[r].at = "issuing" /\ req[r].from # 0 =>
    req[r].from < req[r].token /\ row[req[r].from].user = req[r].user

SuccessorInv == TypeInv /\ SuccessorsFollow /\ IssuesFollow

\* What is written into a row leaves the rest of it.
LEMMA RowKeeps ==
  ASSUME TypeOK, NEW t \in Tokens, row[t] # NoRow
  PROVE  /\ \A s \in Reasons : [row[t] EXCEPT !.state = s].expired = row[t].expired
         /\ \A n \in Tokens :
              /\ [row[t] EXCEPT !.state = "rotated", !.next = n].next = n
              /\ [row[t] EXCEPT !.state = "rotated", !.next = n].expired = row[t].expired
         /\ [row[t] EXCEPT !.expired = TRUE].expired = TRUE
         /\ [row[t] EXCEPT !.expired = TRUE].next = row[t].next
<1>1. row[t] \in Row
  BY RowKinds
<1> QED BY <1>1 DEF Row

\* A step that leaves the rows and issues nothing.
LEMMA SuccessorQuiet ==
  ASSUME SuccessorInv, TypeInv', row' = row,
         \A x \in Requests : req'[x].at = "issuing" => req'[x] = req[x]
  PROVE  SuccessorInv'
  BY DEF SuccessorInv, SuccessorsFollow, IssuesFollow, Follows

\* A rotation retires the row it read in favour of the one it adds.
LEMMA SuccessorCommit ==
  ASSUME SuccessorInv, TypeInv', NEW r \in Requests, IssueCommit(r),
         NEW tok, tok = req[r].token, NEW frm, frm = req[r].from
  PROVE  SuccessorInv'
<1>0. TypeInv /\ TypeOK
  BY DEF SuccessorInv, TypeInv
<1>1. /\ req[r].at = "issuing" /\ tok \in Tokens /\ frm \in Tokens \cup {0} /\ tok # frm
      /\ row[tok] = NoRow /\ row'[tok] = Issued(req[r]) /\ row'[tok] \in Row
      /\ row'[tok].state = "live" /\ row'[tok].family = req[r].family
      /\ row'[tok].user = req[r].user
      /\ frm # 0 => /\ row[frm] # NoRow /\ row[frm].family = req[r].family
                    /\ row'[frm] = Retired(req[r]) /\ row'[frm] \in Row
                    /\ row'[frm].family = req[r].family /\ row'[frm].user = row[frm].user
      /\ \A t \in Tokens : t \notin {tok, frm} => row'[t] = row[t]
  BY <1>0, IssueCommitWrites
<1>2. \A x \in Row : x # NoRow
  BY <1>0, <1>1, RowKinds
<1>3. ~row'[tok].expired
  BY <1>1 DEF Issued
<1>4. frm # 0 => /\ row'[frm].next = tok /\ row'[frm].expired = row[frm].expired
                 /\ frm < tok /\ row[frm].user = req[r].user
  <2>1. frm # 0 => row'[frm].next = tok /\ row'[frm].expired = row[frm].expired
    <3> SUFFICES ASSUME frm # 0
                 PROVE  row'[frm].next = tok /\ row'[frm].expired = row[frm].expired
      OBVIOUS
    <3>1. frm \in Tokens /\ row[frm] # NoRow
      BY <1>1
    <3>2. row'[frm] = [row[frm] EXCEPT !.state = "rotated", !.next = tok]
      BY <1>1 DEF Retired
    <3>3. row[frm] \in Row
      BY <1>0, <3>1, RowKinds
    <3> QED BY <1>1, <3>2, <3>3 DEF Row
  <2> QED BY <1>1, <2>1 DEF SuccessorInv, IssuesFollow
<1>5. \A t \in Tokens : row[t] # NoRow =>
        /\ row'[t] # NoRow /\ row'[t].family = row[t].family /\ row'[t].user = row[t].user
        /\ row'[t].expired = row[t].expired
  BY <1>1, <1>2, <1>4, TokenFacts
<1>6. ASSUME NEW t \in Tokens, row'[t].state = "rotated" PROVE Follows(t, row[t].next)'
  <2>1. t # tok
    BY <1>1, <1>6
  <2>2. CASE t = frm
    <3>0. frm # 0 /\ tok \in Nat /\ frm \in Nat
      BY <1>1, <2>2, TokenFacts
    <3>1. row'[t].next = tok /\ tok > t /\ row'[tok].user = row'[t].user
      BY <1>1, <1>4, <2>2, <3>0
    <3>2. tok \in Tokens /\ row'[tok] # NoRow /\ row'[tok].family = row'[t].family
      BY <1>1, <1>2, <2>2, <3>0
    <3> QED BY <1>3, <3>1, <3>2 DEF Follows
  <2>3. CASE t # frm
    <3>1. row'[t] = row[t] /\ Follows(t, row[t].next)
      BY <1>1, <1>6, <2>1, <2>3 DEF SuccessorInv, SuccessorsFollow
    <3> QED BY <1>5, <3>1 DEF Follows
  <2> QED BY <2>2, <2>3
<1>7. ASSUME NEW x \in Requests, req'[x].at = "issuing", req'[x].from # 0
      PROVE  req'[x].from < req'[x].token /\ row'[req'[x].from].user = req'[x].user
  <2>1. req'[x] = req[x]
    <3>1. /\ req'[r] = Idle
          /\ \A y \in Requests \ {r} : req'[y] = req[y] \/ req'[y].at = "closing"
      BY <1>0, IssueCommitRequests
    <3> QED BY <1>7, <3>1 DEF Idle
  <2>2. req[x].from \in Tokens /\ row[req[x].from] # NoRow
    BY <1>0, <1>7, <2>1, RequestFields DEF TypeInv, IssuesFresh
  <2> QED BY <1>5, <1>7, <2>1, <2>2 DEF SuccessorInv, IssuesFollow
<1> QED BY <1>6, <1>7 DEF SuccessorInv, SuccessorsFollow, IssuesFollow

\* Rows expire in the order they were issued, and pruning takes no row that is being retired.
LEMMA SuccessorTime ==
  ASSUME SuccessorInv, TypeInv', Prune \/ \E t \in Tokens : Expire(t)
  PROVE  SuccessorInv'
<1>0. TypeInv /\ TypeOK
  BY DEF SuccessorInv, TypeInv
<1>1. \A x \in Requests : req[x].at = "issuing" /\ req[x].from # 0 =>
        req[x].from \in Tokens /\ row[req[x].from] # NoRow
  BY <1>0, RequestFields DEF TypeInv, IssuesFresh
<1>2. CASE Prune
  <2>1. /\ \A t \in Tokens : row'[t] = IF row[t].expired THEN NoRow ELSE row[t]
        /\ req' = req
    BY <1>2 DEF Prune
  <2>2. \A x \in Requests : req[x].at = "issuing" /\ req[x].from # 0 => ~row[req[x].from].expired
    BY <1>1, <1>2 DEF Prune, Locked
  <2>3. IssuesFollow'
    BY <1>1, <2>1, <2>2 DEF SuccessorInv, IssuesFollow
  <2>4. ASSUME NEW t \in Tokens, row'[t].state = "rotated" PROVE Follows(t, row[t].next)'
    <3>1. ~row[t].expired /\ row'[t] = row[t]
      BY <2>1, <2>4 DEF NoRow
    <3>2. Follows(t, row[t].next)
      BY <2>4, <3>1 DEF SuccessorInv, SuccessorsFollow
    <3>3. row'[row[t].next] = row[row[t].next]
      BY <2>1, <3>1, <3>2 DEF Follows
    <3> QED BY <3>1, <3>2, <3>3 DEF Follows
  <2> QED BY <2>3, <2>4 DEF SuccessorInv, SuccessorsFollow
<1>3. ASSUME NEW s \in Tokens, Expire(s) PROVE SuccessorInv'
  <2>1. /\ row[s] # NoRow /\ \A t \in Tokens : t < s /\ row[t] # NoRow => row[t].expired
        /\ row' = [row EXCEPT ![s].expired = TRUE] /\ req' = req
    BY <1>3 DEF Expire, Tokens
  <2>2. SameRows /\ \A t \in Tokens : row'[t].state = row[t].state
    BY <1>0, <1>3, ExpireWrites
  <2>3. \A t \in Tokens : row[t] # NoRow =>
          row'[t].next = row[t].next /\ (row'[t].expired <=> row[t].expired \/ t = s)
    <3>1. row'[s] = [row[s] EXCEPT !.expired = TRUE] /\ \A t \in Tokens \ {s} : row'[t] = row[t]
      BY <1>0, <2>1 DEF TypeOK
    <3>2. row'[s].next = row[s].next /\ row'[s].expired = TRUE
      BY <1>0, <2>1, <3>1, RowKeeps
    <3> QED BY <3>1, <3>2
  <2>4. IssuesFollow'
    BY <1>1, <2>1, <2>2 DEF SuccessorInv, IssuesFollow, SameRows
  <2>5. ASSUME NEW t \in Tokens, row'[t].state = "rotated" PROVE Follows(t, row[t].next)'
    <3>1. row[t] # NoRow /\ Follows(t, row[t].next) /\ row'[t].next = row[t].next
      BY <1>0, <2>2, <2>3, <2>5, RowKinds DEF SuccessorInv, SuccessorsFollow
    <3> DEFINE n == row[t].next
    <3>2. n \in Tokens /\ row[n] # NoRow /\ (n = s => row[t].expired)
      BY <2>1, <3>1, TokenFacts DEF Follows
    <3>3. row'[n].expired => row'[t].expired
      BY <2>3, <3>1, <3>2 DEF Follows
    <3>4. row'[n] # NoRow /\ row'[n].family = row'[t].family /\ row'[n].user = row'[t].user
      BY <2>2, <3>1, <3>2 DEF SameRows, Follows
    <3> QED BY <3>1, <3>2, <3>3, <3>4 DEF Follows
  <2> QED BY <2>4, <2>5 DEF SuccessorInv, SuccessorsFollow
<1> QED BY <1>2, <1>3

\* Every step keeps it.
LEMMA SuccessorNext == SuccessorInv /\ [Next]_vars => SuccessorInv'
<1> SUFFICES ASSUME SuccessorInv, [Next]_vars PROVE SuccessorInv'
  OBVIOUS
<1>0. TypeInv /\ TypeOK /\ TypeInv'
  BY TypeNext DEF SuccessorInv, TypeInv
<1>1. ASSUME NEW r \in Requests, Asks(r) PROVE SuccessorInv'
  <2>1. /\ row' = row /\ \A x \in Requests \ {r} : req'[x] = req[x]
        /\ req'[r] = req[r] \/ req'[r].at \in {"refresh", "close"}
    BY <1>0, <1>1, AskWrites
  <2>2. \A x \in Requests : req'[x].at = "issuing" => req'[x] = req[x]
    BY <2>1
  <2> QED BY <1>0, <2>1, <2>2, SuccessorQuiet
<1>2. ASSUME NEW r \in Requests, NEW b \in Browsers, NEW u \in Users, Login(r, b, u) PROVE SuccessorInv'
  <2>1. minted + 1 \in Tokens /\ row' = row /\ Issue(r, b, u, minted + 1, 0)
    BY <1>0, <1>2 DEF Login, Issue, TypeOK, Tokens
  <2>2. req'[r].from = 0 /\ \A x \in Requests \ {r} : req'[x] = req[x]
    BY <1>0, <2>1, IssueWrites
  <2> QED BY <1>0, <2>1, <2>2 DEF SuccessorInv, SuccessorsFollow, IssuesFollow, Follows
<1>3. ASSUME NEW r \in Requests, RefreshIssue(r), NEW CONSTANT t, t = req[r].token PROVE SuccessorInv'
  <2>1. t \in Tokens /\ req[r].browser \in Browsers /\ row[t] # NoRow /\ row' = row
    BY <1>0, <1>3, RequestFields DEF RefreshIssue
  <2>2. row[t].user \in Users /\ row[t].family \in Tokens
    BY <1>0, <2>1, RowKinds
  <2>3. Issue(r, req[r].browser, row[t].user, row[t].family, t)
    BY <1>3 DEF RefreshIssue
  <2>4. /\ req'[r].from = t /\ req'[r].token = minted + 1 /\ req'[r].user = row[t].user
        /\ \A x \in Requests \ {r} : req'[x] = req[x]
    BY <1>0, <2>1, <2>2, <2>3, IssueWrites
  <2>5. t < minted + 1
    BY <1>0, <2>1, RowBounds
  <2> QED BY <1>0, <2>1, <2>4, <2>5 DEF SuccessorInv, SuccessorsFollow, IssuesFollow, Follows
<1>4. ASSUME NEW r \in Requests, RefreshStale(r) \/ Dies(r) PROVE SuccessorInv'
  <2>1. req' = [req EXCEPT ![r] = Idle] /\ row' = row
    BY <1>4 DEF RefreshStale, Dies
  <2>2. \A x \in Requests : req'[x].at = "issuing" => req'[x] = req[x]
    BY <1>0, <2>1, Ending
  <2> QED BY <1>0, <2>1, <2>2, SuccessorQuiet
<1>5. ASSUME NEW r \in Requests, CloseSnapshot(r) PROVE SuccessorInv'
  <2>1. row' = row /\ \A x \in Requests : req'[x].at = "issuing" => req'[x] = req[x]
    BY <1>0, <1>5, SnapshotWrites
  <2> QED BY <1>0, <2>1, SuccessorQuiet
<1>6. ASSUME NEW r \in Requests, CloseCommit(r) PROVE SuccessorInv'
  <2>1. /\ req[r].reason \in Reasons /\ SameRows /\ req' = [req EXCEPT ![r] = Idle]
        /\ \A t \in Tokens : IF t \in req[r].hit /\ Live(t)
                             THEN row[t] # NoRow /\ row'[t].state = req[r].reason
                             ELSE row'[t] = row[t]
    BY <1>0, <1>6, CloseWrites
  <2>2. ASSUME NEW t \in Tokens PROVE row'[t].expired = row[t].expired
    <3>1. CASE t \in req[r].hit /\ Live(t)
      <4>1. row'[t] = [row[t] EXCEPT !.state = req[r].reason]
        BY <1>6, <3>1 DEF CloseCommit
      <4>2. row[t] # NoRow /\ [row[t] EXCEPT !.state = req[r].reason].expired = row[t].expired
        BY <1>0, <2>1, <3>1, RowKeeps
      <4> QED BY <4>1, <4>2
    <3>2. CASE ~(t \in req[r].hit /\ Live(t))
      BY <2>1, <3>2
    <3> QED BY <3>1, <3>2
  <2>3. ASSUME NEW t \in Tokens, row'[t].state = "rotated" PROVE Follows(t, row[t].next)'
    <3>1. row'[t] = row[t]
      BY <2>1, <2>3 DEF Reasons
    <3>2. Follows(t, row[t].next)
      BY <2>3, <3>1 DEF SuccessorInv, SuccessorsFollow
    <3> QED BY <2>1, <2>2, <3>1, <3>2 DEF Follows, SameRows
  <2>4. \A x \in Requests : req'[x].at = "issuing" =>
          /\ req'[x] = req[x]
          /\ req[x].from # 0 => req[x].from \in Tokens /\ row[req[x].from] # NoRow
    BY <1>0, <2>1, Ending, RequestFields DEF TypeInv, IssuesFresh
  <2>5. IssuesFollow'
    BY <2>1, <2>4 DEF SuccessorInv, IssuesFollow, SameRows
  <2> QED BY <1>0, <2>3, <2>5 DEF SuccessorInv, SuccessorsFollow
<1>7. ASSUME NEW t \in Tokens, Deadline(t) PROVE SuccessorInv'
  BY <1>0, <1>7, SuccessorQuiet DEF Deadline
<1>8. ASSUME NEW u \in Users, DeleteUser(u) PROVE SuccessorInv'
  BY <1>0, <1>8, SuccessorQuiet DEF DeleteUser
<1>9. CASE UNCHANGED vars
  BY <1>0, <1>9, SuccessorQuiet DEF vars
<1> QED BY <1>0, <1>1, <1>2, <1>3, <1>4, <1>5, <1>6, <1>7, <1>8, <1>9, SuccessorCommit, SuccessorTime, Steps

\* A rotated row names a row of the same person and chain for as long as it is kept: what
\* prunes the table takes a chain from its oldest end.
THEOREM SessionsRotatedHasSuccessor == Spec => []RotatedHasSuccessor
<1>1. Init => SuccessorInv
  BY TypeInit DEF Init, SuccessorInv, SuccessorsFollow, IssuesFollow, NoRow, Idle
<1>2. SuccessorInv => RotatedHasSuccessor
  BY DEF SuccessorInv, SuccessorsFollow, Follows, RotatedHasSuccessor
<1> QED BY <1>1, <1>2, SuccessorNext, PTL DEF Spec

-------------------------------------------------------------------------------
USE SignInAssumption

-------------------------------------------------------------------------------
(* Sign-in: type correctness                                                *)

\* A flow is what its place says.
LEMMA FlowKinds ==
  ASSUME SignInTypeOK, NEW n \in Flows
  PROVE  /\ flow[n].at = "away" => flow[n] \in Away
         /\ flow[n].at = "login" => flow[n] \in LoggingIn
         /\ flow[n] = Ended \/ flow[n] = NoFlow => flow[n].at \notin {"away", "login"}
  BY DEF SignInTypeOK, Away, LoggingIn, Ended, NoFlow

\* What a login holds.
LEMMA LoginFields ==
  ASSUME SignInTypeOK, NEW n \in Flows, flow[n].at = "login"
  PROVE  /\ flow[n].began \in UserAgents /\ flow[n].browser \in UserAgents
         /\ flow[n].id \in Identities /\ flow[n].user \in UserIds /\ flow[n].fresh \in BOOLEAN
         /\ flow[n].email \in Addresses \cup {NoEmail}
  BY FlowKinds DEF LoggingIn

\* An address is of some identity, or made up for one.
LEMMA AddressKinds ==
  /\ \A i \in Identities : Email[i] \in Addresses /\ Placeholder(i) \in Addresses
  /\ \A i \in Identities : Email[i] # NoEmail
  BY DEF Addresses

\* What an identity resolves to.
LEMMA ResolutionTypes ==
  ASSUME SignInTypeOK, NEW i \in Identities, NEW shown, shown = Email[i] \/ shown = NoEmail,
         NEW q \in Resolutions(i, shown)
  PROVE  /\ q.user \in UserIds /\ q.fresh \in BOOLEAN /\ q.email \in {Email[i], NoEmail}
         /\ q.fresh => q.user = i /\ account[i] = Nobody
         /\ account[i] # Nobody => q.user = account[i]
         /\ ~q.fresh /\ account[i] = Nobody => q.user \in OwnersByVerified(i, shown)
<1>1. OwnersByVerified(i, shown) \subseteq UserIds
  BY DEF OwnersByVerified, Owners
<1>2. CASE account[i] # Nobody
  <2>1. q = [user |-> account[i], fresh |-> FALSE, email |-> shown]
    BY <1>2 DEF Resolutions
  <2>2. q.user = account[i] /\ q.fresh = FALSE /\ q.email = shown /\ account[i] \in UserIds
    BY <1>2, <2>1 DEF SignInTypeOK
  <2> QED BY <1>2, <2>2
<1>3. CASE account[i] = Nobody /\ OwnersByVerified(i, shown) # {}
  <2>1. PICK u \in OwnersByVerified(i, shown) : q = [user |-> u, fresh |-> FALSE, email |-> shown]
    BY <1>3 DEF Resolutions
  <2> QED BY <1>1, <1>3, <2>1
<1>4. CASE account[i] = Nobody /\ OwnersByVerified(i, shown) = {}
  <2>1. q = [user |-> i, fresh |-> TRUE,
             email |-> IF i \notin Vouched /\ Owners(shown) # {} THEN NoEmail ELSE shown]
    BY <1>4 DEF Resolutions
  <2>2. q.user = i /\ q.fresh = TRUE /\ q.email \in {shown, NoEmail}
    BY <2>1
  <2> QED BY <1>4, <2>2 DEF UserIds
<1> QED BY <1>2, <1>3, <1>4

\* What a callback does.
LEMMA CallbackWrites ==
  ASSUME SignInTypeOK, NEW b \in UserAgents, NEW n \in Flows, NEW i \in Identities, NEW shown,
         Callback(b, n, i, shown)
  PROVE  /\ flow[n].at = "away" /\ flow[n].began \in UserAgents /\ cookie[b] = n
         /\ flow'[n] \in LoggingIn /\ flow'[n].at = "login" /\ flow' = [flow EXCEPT ![n] = flow'[n]]
         /\ flow'[n].began = flow[n].began /\ flow'[n].browser = b /\ flow'[n].id = i
         /\ flow'[n].email \in {Email[i], NoEmail}
         /\ flow'[n].fresh => flow'[n].user = i /\ account[i] = Nobody
         /\ account[i] # Nobody => flow'[n].user = account[i]
         /\ ~flow'[n].fresh /\ account[i] = Nobody =>
              i \in Vouched /\ flow'[n].user \in Owners(Email[i])
         /\ twice \subseteq twice' /\ twice' \subseteq Identities
         /\ (\E k \in Flows : flow[k].at = "login" /\ flow[k].id = i) => i \in twice'
         /\ UNCHANGED <<users, account, cookie, started, opened, badKey>>
<1>1. PICK q \in Resolutions(i, shown) :
        flow' = [flow EXCEPT ![n] = [at |-> "login", began |-> flow[n].began, browser |-> b,
                                     id |-> i, user |-> q.user, fresh |-> q.fresh,
                                     email |-> q.email]]
  BY DEF Callback
<1>2. shown = Email[i] \/ shown = NoEmail
  BY DEF Callback
<1>3. /\ q.user \in UserIds /\ q.fresh \in BOOLEAN /\ q.email \in {Email[i], NoEmail}
      /\ q.fresh => q.user = i /\ account[i] = Nobody
      /\ account[i] # Nobody => q.user = account[i]
      /\ ~q.fresh /\ account[i] = Nobody => q.user \in OwnersByVerified(i, shown)
  BY <1>2, ResolutionTypes
<1>4. flow[n].at = "away" /\ flow[n].began \in UserAgents
  BY FlowKinds DEF Callback, Away
<1>5. q.email \in Addresses \cup {NoEmail}
  BY <1>3, AddressKinds
<1>6. flow'[n] = [at |-> "login", began |-> flow[n].began, browser |-> b, id |-> i,
                  user |-> q.user, fresh |-> q.fresh, email |-> q.email]
  BY <1>1 DEF SignInTypeOK
<1>7. flow'[n] \in LoggingIn
  BY <1>3, <1>4, <1>5, <1>6 DEF LoggingIn
<1>8. q.user \in OwnersByVerified(i, shown) => i \in Vouched /\ q.user \in Owners(Email[i])
  BY <1>2 DEF OwnersByVerified
<1>9. /\ twice \subseteq twice' /\ twice' \subseteq Identities
      /\ (\E k \in Flows : flow[k].at = "login" /\ flow[k].id = i) => i \in twice'
      /\ UNCHANGED <<users, account, cookie, started, opened, badKey>>
      /\ cookie[b] = n
  BY DEF Callback, StateMatches, SignInTypeOK
<1>10. flow' = [flow EXCEPT ![n] = flow'[n]]
  BY <1>1, <1>6
<1> QED BY <1>3, <1>4, <1>6, <1>7, <1>8, <1>9, <1>10

\* The row a login writes.
LEMMA ResolvedType ==
  ASSUME SignInTypeOK, NEW n \in Flows, flow[n].at = "login",
         flow[n].fresh \/ users[flow[n].user] # Nobody
  PROVE  Resolved(flow[n]) \in Person
<1>1. /\ flow[n].id \in Identities /\ flow[n].user \in UserIds /\ flow[n].fresh \in BOOLEAN
      /\ flow[n].email \in Addresses \cup {NoEmail}
  BY LoginFields
<1>2. NewUser(flow[n]) \in Person
  BY <1>1, AddressKinds DEF NewUser, Person, VouchedFor, UserIds
<1>3. ASSUME users[flow[n].user] # Nobody PROVE Profile(flow[n]) \in Person
  <2>1. users[flow[n].user] \in Person
    BY <1>1, <1>3 DEF SignInTypeOK
  <2> QED BY <1>1, <2>1 DEF Profile, Person, VouchedFor
<1> QED BY <1>2, <1>3 DEF Resolved

\* An account is linked to a row that is there, and a login that creates none has found one.
UsersStand ==
  /\ \A i \in Identities : account[i] # Nobody => users[account[i]] # Nobody
  /\ \A n \in Flows : flow[n].at = "login" /\ ~flow[n].fresh => users[flow[n].user] # Nobody

SignInTypeInv == SignInTypeOK /\ UsersStand

\* Nothing becomes a login, or changes as one.
LoginsStay == \A n \in Flows : flow'[n].at = "login" => flow'[n] = flow[n]

\* The steps that only begin and end flows.
Idles ==
  \/ \E b \in UserAgents : StartLogin(b)
  \/ \E b \in UserAgents, n \in Flows : CallbackFails(b, n) \/ CallbackRefused(b, n)
  \/ \E n \in Flows : LoginRolledBack(n)
  \/ RepairKey
  \/ UNCHANGED signInVars

\* They write nothing but flows, cookies and the key.
LEMMA IdleWrites ==
  ASSUME SignInTypeOK, Idles
  PROVE  SignInTypeOK' /\ LoginsStay /\ UNCHANGED <<users, account, twice, opened>>
<1> USE DEF SignInTypeOK
<1>0. Ended.at # "login" /\ NoFlow.at # "login"
  BY DEF Ended, NoFlow
<1>1. ASSUME NEW b \in UserAgents, StartLogin(b) PROVE SignInTypeOK' /\ LoginsStay
  <2>1. [at |-> "away", began |-> b] \in Away
    BY DEF Away
  <2>2. started + 1 \in Flows /\ started + 1 \in 0..MaxFlows
    BY <1>1 DEF StartLogin, Flows
  <2> QED BY <1>1, <2>1, <2>2 DEF StartLogin, LoginsStay
<1>2. ASSUME NEW b \in UserAgents, NEW n \in Flows, CallbackFails(b, n) PROVE SignInTypeOK' /\ LoginsStay
  BY <1>0, <1>2 DEF CallbackFails, CookieCleared, LoginsStay
<1>3. ASSUME NEW b \in UserAgents, NEW n \in Flows, CallbackRefused(b, n) PROVE SignInTypeOK' /\ LoginsStay
  BY <1>3 DEF CallbackRefused, CookieCleared, LoginsStay
<1>4. ASSUME NEW n \in Flows, LoginRolledBack(n) PROVE SignInTypeOK' /\ LoginsStay
  BY <1>0, <1>4 DEF LoginRolledBack, Ends, CookieCleared, LoginsStay
<1>5. ASSUME RepairKey PROVE SignInTypeOK' /\ LoginsStay
  BY <1>5 DEF RepairKey, LoginsStay
<1>6. CASE UNCHANGED signInVars
  BY <1>6 DEF signInVars, LoginsStay
<1>7. UNCHANGED <<users, account, twice, opened>>
  BY DEF Idles, StartLogin, CallbackFails, CallbackRefused, LoginRolledBack, RepairKey, signInVars
<1> QED BY <1>1, <1>2, <1>3, <1>4, <1>5, <1>6, <1>7 DEF Idles

\* What a login writes, whether it gets to its account and its session or not.
LEMMA LoginWrites ==
  ASSUME SignInTypeInv, NEW n \in Flows, LoginCommit(n) \/ LoginHalf(n)
  PROVE  /\ flow[n].at = "login" /\ flow[n] \in LoggingIn /\ ~Clash(flow[n])
         /\ Resolved(flow[n]) \in Person
         /\ users' = [users EXCEPT ![flow[n].user] = Resolved(flow[n])]
         /\ users'[flow[n].user] = Resolved(flow[n]) /\ users'[flow[n].user] # Nobody
         /\ \A u \in UserIds \ {flow[n].user} : users'[u] = users[u]
         /\ account' \in [Identities -> UserIds \cup {Nobody}]
         /\ \A i \in Identities : \/ account'[i] = account[i]
                                  \/ i = flow[n].id /\ account[i] = Nobody /\ account'[i] = flow[n].user
         /\ flow' = [flow EXCEPT ![n] = Ended] /\ cookie' = CookieCleared(flow[n].browser)
         /\ LoginsStay /\ UNCHANGED <<started, twice, badKey>>
<1>1. flow[n].at = "login" /\ flow[n] \in LoggingIn /\ ~Clash(flow[n])
  BY FlowKinds DEF LoginCommit, LoginHalf, SignInTypeInv
<1>2. Resolved(flow[n]) \in Person /\ Resolved(flow[n]) # Nobody
  BY <1>1, ResolvedType, RowsAssumption DEF SignInTypeInv, UsersStand
<1>3. /\ users' = [users EXCEPT ![flow[n].user] = Resolved(flow[n])]
      /\ flow' = [flow EXCEPT ![n] = Ended] /\ cookie' = CookieCleared(flow[n].browser)
      /\ UNCHANGED <<started, twice, badKey>>
  BY DEF LoginCommit, LoginHalf, Ends
<1>4. flow[n].user \in UserIds /\ flow[n].id \in Identities
  BY <1>1 DEF LoggingIn
<1>5. /\ users'[flow[n].user] = Resolved(flow[n])
      /\ \A u \in UserIds \ {flow[n].user} : users'[u] = users[u]
  BY <1>3, <1>4 DEF SignInTypeInv, SignInTypeOK
<1>6. LoginsStay
  BY <1>3 DEF SignInTypeInv, SignInTypeOK, LoginsStay, Ended
<1>7. /\ account' \in [Identities -> UserIds \cup {Nobody}]
      /\ \A i \in Identities : \/ account'[i] = account[i]
                               \/ i = flow[n].id /\ account[i] = Nobody /\ account'[i] = flow[n].user
  BY <1>4 DEF LoginCommit, LoginHalf, SignInTypeInv, SignInTypeOK
<1> QED BY <1>1, <1>2, <1>3, <1>5, <1>6, <1>7

\* The session a login opens, if it opens one.
LEMMA LoginOpens ==
  ASSUME SignInTypeInv, NEW n \in Flows, LoginCommit(n) \/ LoginHalf(n)
  PROVE  \/ UNCHANGED <<account, opened>>
         \/ /\ opened' = opened \cup {[user |-> flow[n].user, by |-> flow[n].id,
                                       began |-> flow[n].began, browser |-> flow[n].browser]}
            /\ [user |-> flow[n].user, by |-> flow[n].id, began |-> flow[n].began,
                browser |-> flow[n].browser] \in Session
            /\ account[flow[n].id] = Nobody => account'[flow[n].id] = flow[n].user
<1>1. flow[n] \in LoggingIn
  BY LoginWrites
<1>2. [user |-> flow[n].user, by |-> flow[n].id, began |-> flow[n].began,
       browser |-> flow[n].browser] \in Session
  BY <1>1 DEF LoggingIn, Session
<1>3. flow[n].id \in Identities
  BY <1>1 DEF LoggingIn
<1> QED BY <1>2, <1>3 DEF LoginCommit, LoginHalf, SignInTypeInv, SignInTypeOK

\* The steps there are.
LEMMA SignInSteps ==
  ASSUME [SignInNext]_signInVars
  PROVE  \/ Idles
         \/ \E b \in UserAgents, n \in Flows, i \in Identities,
              shown \in {Email[j] : j \in Identities} \cup {NoEmail} : Callback(b, n, i, shown)
         \/ \E n \in Flows : LoginCommit(n) \/ LoginHalf(n)
  BY DEF SignInNext, Idles

\* Every step keeps the types.
LEMMA SignInTypeNext == SignInTypeInv /\ [SignInNext]_signInVars => SignInTypeInv'
<1> SUFFICES ASSUME SignInTypeInv, [SignInNext]_signInVars PROVE SignInTypeInv'
  OBVIOUS
<1>0. SignInTypeOK
  BY DEF SignInTypeInv
<1>1. CASE Idles
  <2>1. SignInTypeOK' /\ LoginsStay /\ UNCHANGED <<users, account>>
    BY <1>0, <1>1, IdleWrites
  <2>2. UsersStand'
    BY <2>1 DEF SignInTypeInv, UsersStand, LoginsStay
  <2> QED BY <2>1, <2>2 DEF SignInTypeInv
<1>2. ASSUME NEW b \in UserAgents, NEW n \in Flows, NEW i \in Identities, NEW shown, Callback(b, n, i, shown)
      PROVE  SignInTypeInv'
  <2>1. /\ flow'[n] \in LoggingIn /\ flow' = [flow EXCEPT ![n] = flow'[n]]
        /\ twice' \subseteq Identities
        /\ account[i] # Nobody => flow'[n].user = account[i]
        /\ ~flow'[n].fresh /\ account[i] = Nobody => flow'[n].user \in Owners(Email[i])
        /\ UNCHANGED <<users, account, cookie, started, opened, badKey>>
    BY <1>0, <1>2, CallbackWrites
  <2>2. flow' \in [Flows -> Away \cup LoggingIn \cup {Ended, NoFlow}]
    BY <1>0, <2>1 DEF SignInTypeOK
  <2>3. SignInTypeOK'
    BY <1>0, <2>1, <2>2 DEF SignInTypeOK
  <2>4. ~flow'[n].fresh => users[flow'[n].user] # Nobody
    BY <2>1 DEF SignInTypeInv, UsersStand, Owners
  <2>5. \A m \in Flows \ {n} : flow'[m] = flow[m]
    BY <1>0, <2>1 DEF SignInTypeOK
  <2>6. UsersStand'
    BY <2>1, <2>4, <2>5 DEF SignInTypeInv, UsersStand
  <2> QED BY <2>3, <2>6 DEF SignInTypeInv
<1>3. ASSUME NEW n \in Flows, LoginCommit(n) \/ LoginHalf(n) PROVE SignInTypeInv'
  <2>1. /\ flow[n] \in LoggingIn /\ Resolved(flow[n]) \in Person
        /\ users' = [users EXCEPT ![flow[n].user] = Resolved(flow[n])]
        /\ users'[flow[n].user] # Nobody
        /\ \A u \in UserIds \ {flow[n].user} : users'[u] = users[u]
        /\ account' \in [Identities -> UserIds \cup {Nobody}]
        /\ \A i \in Identities : account'[i] = account[i] \/ account'[i] = flow[n].user
        /\ flow' = [flow EXCEPT ![n] = Ended] /\ cookie' = CookieCleared(flow[n].browser)
        /\ LoginsStay /\ UNCHANGED <<started, twice, badKey>>
    BY <1>3, LoginWrites
  <2>2. opened' \subseteq Session
    BY <1>0, <1>3, LoginOpens DEF SignInTypeOK
  <2>3. users' \in [UserIds -> Person \cup {Nobody}]
    BY <1>0, <2>1 DEF SignInTypeOK
  <2>4. SignInTypeOK'
    BY <1>0, <2>1, <2>2, <2>3 DEF SignInTypeOK, CookieCleared
  <2>5. \A u \in UserIds : users[u] # Nobody => users'[u] # Nobody
    BY <2>1
  <2>6. \A i \in Identities : account'[i] # Nobody => users'[account'[i]] # Nobody
    BY <1>0, <2>1, <2>5 DEF SignInTypeInv, UsersStand, SignInTypeOK
  <2>7. \A m \in Flows : flow'[m].at = "login" /\ ~flow'[m].fresh => users'[flow'[m].user] # Nobody
    BY <1>0, <2>1, <2>5, LoginFields DEF SignInTypeInv, UsersStand, LoginsStay
  <2> QED BY <2>4, <2>6, <2>7 DEF SignInTypeInv, UsersStand
<1> QED BY <1>1, <1>2, <1>3, SignInSteps

\* The invariant holds from the start.
LEMMA SignInTypeInit == SignInInit => SignInTypeInv
  BY DEF SignInInit, SignInTypeInv, SignInTypeOK, UsersStand, NoFlow

\* Every variable keeps its type, whatever sign-ins overlap and wherever they end.
THEOREM SignInTypeCorrect == SignInSpec => []SignInTypeOK
<1>1. SignInTypeInv => SignInTypeOK
  BY DEF SignInTypeInv
<1> QED BY <1>1, SignInTypeInit, SignInTypeNext, PTL DEF SignInSpec

-------------------------------------------------------------------------------
(* A session opens where its sign-in began                                 *)

\* Flows are started in order, a cookie is of one that was started in its browser, and a
\* login is in the browser where it began.
FlowsKeepBrowser ==
  /\ \A n \in Flows : n > started => flow[n] = NoFlow
  /\ \A b \in UserAgents, n \in Flows : cookie[b] = n =>
       n <= started /\ (flow[n].at = "away" => flow[n].began = b)
  /\ \A n \in Flows : flow[n].at = "login" => flow[n].browser = flow[n].began

BrowserInv == SignInTypeInv /\ FlowsKeepBrowser /\ SessionWhereItBegan

\* A step that begins no flow and no login, and sets no cookie.
LEMMA BrowserQuiet ==
  ASSUME BrowserInv, SignInTypeInv', LoginsStay, UNCHANGED <<started, opened>>,
         \A n \in Flows : flow'[n] = flow[n] \/ (flow'[n] = Ended /\ flow[n] # NoFlow),
         \A b \in UserAgents : cookie'[b] \in {cookie[b], 0}
  PROVE  BrowserInv'
<1>1. SessionWhereItBegan'
  BY DEF BrowserInv, SessionWhereItBegan
<1>2. Ended.at \notin {"away", "login"} /\ 0 \notin Flows
  BY DEF Ended, Flows
<1>3. FlowsKeepBrowser'
  BY <1>2 DEF BrowserInv, FlowsKeepBrowser, LoginsStay
<1> QED BY <1>1, <1>3 DEF BrowserInv

\* Every step keeps it.
LEMMA BrowserNext == BrowserInv /\ [SignInNext]_signInVars => BrowserInv'
<1> SUFFICES ASSUME BrowserInv, [SignInNext]_signInVars PROVE BrowserInv'
  OBVIOUS
<1>0. SignInTypeInv /\ SignInTypeOK /\ SignInTypeInv' /\ SignInTypeOK'
  BY SignInTypeNext DEF BrowserInv, SignInTypeInv
<1>1. NoFlow.at = "none"
  BY DEF NoFlow
<1>2. ASSUME NEW b \in UserAgents, StartLogin(b) PROVE BrowserInv'
  <2> DEFINE m == started + 1
  <2>1. /\ m \in Flows /\ started' = m /\ UNCHANGED opened
        /\ flow'[m] = [at |-> "away", began |-> b] /\ \A n \in Flows \ {m} : flow'[n] = flow[n]
        /\ cookie'[b] = m /\ \A c \in UserAgents \ {b} : cookie'[c] = cookie[c]
    BY <1>0, <1>2 DEF StartLogin, Flows, SignInTypeOK
  <2>2. started \in Nat /\ \A n \in Flows : n \in Nat
    BY <1>0 DEF SignInTypeOK, Flows
  <2>3. \A n \in Flows : n > started' => flow'[n] = NoFlow
    BY <2>1, <2>2 DEF BrowserInv, FlowsKeepBrowser
  <2>4. \A c \in UserAgents, n \in Flows : cookie'[c] = n =>
          n <= started' /\ (flow'[n].at = "away" => flow'[n].began = c)
    BY <2>1, <2>2 DEF BrowserInv, FlowsKeepBrowser
  <2>5. \A n \in Flows : flow'[n].at = "login" => flow'[n].browser = flow'[n].began
    BY <2>1 DEF BrowserInv, FlowsKeepBrowser
  <2>6. SessionWhereItBegan'
    BY <2>1 DEF BrowserInv, SessionWhereItBegan
  <2> QED BY <1>0, <2>3, <2>4, <2>5, <2>6 DEF BrowserInv, FlowsKeepBrowser
<1>3. ASSUME NEW b \in UserAgents, NEW n \in Flows, CallbackFails(b, n) \/ CallbackRefused(b, n)
      PROVE  BrowserInv'
  <2>1. LoginsStay /\ UNCHANGED <<started, opened>>
    BY <1>0, <1>3, IdleWrites DEF Idles, CallbackFails, CallbackRefused
  <2>2. \A m \in Flows : flow'[m] = flow[m] \/ (flow'[m] = Ended /\ flow[m] # NoFlow)
    BY <1>0, <1>1, <1>3 DEF CallbackFails, CallbackRefused, SignInTypeOK
  <2>3. \A c \in UserAgents : cookie'[c] \in {cookie[c], 0}
    BY <1>0, <1>3 DEF CallbackFails, CallbackRefused, CookieCleared, SignInTypeOK
  <2> QED BY <1>0, <2>1, <2>2, <2>3, BrowserQuiet
<1>4. ASSUME NEW n \in Flows, LoginRolledBack(n) PROVE BrowserInv'
  <2>1. LoginsStay /\ UNCHANGED <<started, opened>>
    BY <1>0, <1>4, IdleWrites DEF Idles, LoginRolledBack
  <2>2. \A m \in Flows : flow'[m] = flow[m] \/ (flow'[m] = Ended /\ flow[m] # NoFlow)
    BY <1>0, <1>1, <1>4 DEF LoginRolledBack, Ends, SignInTypeOK
  <2>3. \A c \in UserAgents : cookie'[c] \in {cookie[c], 0}
    BY <1>0, <1>4 DEF LoginRolledBack, Ends, CookieCleared, SignInTypeOK
  <2> QED BY <1>0, <2>1, <2>2, <2>3, BrowserQuiet
<1>5. ASSUME RepairKey PROVE BrowserInv'
  BY <1>0, <1>5, IdleWrites, BrowserQuiet DEF Idles, RepairKey
<1>6. CASE UNCHANGED signInVars
  BY <1>0, <1>6, IdleWrites, BrowserQuiet DEF Idles, signInVars
<1>7. ASSUME NEW b \in UserAgents, NEW n \in Flows, NEW i \in Identities, NEW shown, Callback(b, n, i, shown)
      PROVE  BrowserInv'
  <2>1. /\ flow[n].at = "away" /\ cookie[b] = n /\ flow'[n].at = "login"
        /\ flow' = [flow EXCEPT ![n] = flow'[n]]
        /\ flow'[n].began = flow[n].began /\ flow'[n].browser = b
        /\ UNCHANGED <<cookie, started, opened>>
    BY <1>0, <1>7, CallbackWrites
  <2>2. \A m \in Flows \ {n} : flow'[m] = flow[m]
    BY <1>0, <2>1 DEF SignInTypeOK
  <2>3. n <= started /\ flow[n].began = b
    BY <2>1 DEF BrowserInv, FlowsKeepBrowser
  <2>4. FlowsKeepBrowser'
    <3>1. ~(n > started)
      BY <1>0, <2>3 DEF SignInTypeOK, Flows
    <3>2. \A m \in Flows : m > started => flow'[m] = NoFlow
      BY <2>2, <3>1 DEF BrowserInv, FlowsKeepBrowser
    <3>3. \A c \in UserAgents, m \in Flows : cookie[c] = m =>
            m <= started /\ (flow'[m].at = "away" => flow'[m].began = c)
      BY <2>1, <2>2 DEF BrowserInv, FlowsKeepBrowser
    <3>4. \A m \in Flows : flow'[m].at = "login" => flow'[m].browser = flow'[m].began
      BY <2>1, <2>2, <2>3 DEF BrowserInv, FlowsKeepBrowser
    <3> QED BY <2>1, <3>2, <3>3, <3>4 DEF FlowsKeepBrowser
  <2>5. SessionWhereItBegan'
    BY <2>1 DEF BrowserInv, SessionWhereItBegan
  <2> QED BY <1>0, <2>4, <2>5 DEF BrowserInv
<1>8. ASSUME NEW n \in Flows, LoginCommit(n) \/ LoginHalf(n) PROVE BrowserInv'
  <2>1. /\ flow[n].at = "login" /\ flow' = [flow EXCEPT ![n] = Ended]
        /\ cookie' = CookieCleared(flow[n].browser) /\ LoginsStay /\ started' = started
    BY <1>0, <1>8, LoginWrites
  <2>2. /\ \A m \in Flows : flow'[m] = flow[m] \/ (flow'[m] = Ended /\ flow[m] # NoFlow)
        /\ \A c \in UserAgents : cookie'[c] \in {cookie[c], 0}
    BY <1>0, <1>1, <2>1 DEF CookieCleared, SignInTypeOK
  <2>3. flow[n].browser = flow[n].began
    BY <2>1 DEF BrowserInv, FlowsKeepBrowser
  <2>4. SessionWhereItBegan'
    <3>1. CASE UNCHANGED opened
      BY <3>1 DEF BrowserInv, SessionWhereItBegan
    <3>2. CASE opened' = opened \cup {[user |-> flow[n].user, by |-> flow[n].id,
                                       began |-> flow[n].began, browser |-> flow[n].browser]}
      BY <2>3, <3>2 DEF BrowserInv, SessionWhereItBegan
    <3> QED BY <1>0, <1>8, <3>1, <3>2, LoginOpens
  <2>5. Ended.at \notin {"away", "login"} /\ 0 \notin Flows
    BY DEF Ended, Flows
  <2>6. FlowsKeepBrowser'
    BY <2>1, <2>2, <2>5 DEF BrowserInv, FlowsKeepBrowser, LoginsStay
  <2> QED BY <1>0, <2>4, <2>6 DEF BrowserInv
<1> QED BY <1>2, <1>3, <1>4, <1>5, <1>6, <1>7, <1>8, SignInSteps DEF Idles

\* A session opens in the browser that began the sign-in, whatever either browser began or
\* finished meanwhile.
THEOREM SignInSessionWhereItBegan == SignInSpec => []SessionWhereItBegan
<1>1. SignInInit => BrowserInv
  BY SignInTypeInit DEF SignInInit, BrowserInv, FlowsKeepBrowser, SessionWhereItBegan, NoFlow, Flows
<1>2. BrowserInv => SessionWhereItBegan
  BY DEF BrowserInv
<1> QED BY <1>1, <1>2, BrowserNext, PTL DEF SignInSpec

-------------------------------------------------------------------------------
(* An unverified address joins nobody                                      *)

\* Identity i may lead to person u.
MayLead(i, u) == i = u \/ (i \in Vouched /\ Email[i] = Email[u])

\* A login leads where it may, by its own address, and a new person is the identity's own.
LoginsMayLead ==
  \A n \in Flows : flow[n].at = "login" =>
    /\ MayLead(flow[n].id, flow[n].user)
    /\ flow[n].fresh => flow[n].user = flow[n].id
    /\ flow[n].email \in {Email[flow[n].id], NoEmail}

\* A person's address is that of the identity that opened it, or the placeholder it got.
AddressesAreTheirs ==
  \A u \in UserIds : users[u] # Nobody => users[u].email \in {Email[u], Placeholder(u)}

MergeInv == SignInTypeInv /\ LoginsMayLead /\ AddressesAreTheirs /\ PeopleAreNotMerged

\* The address a login writes is the person's own.
LEMMA ResolvedAddress ==
  ASSUME MergeInv, NEW n \in Flows, flow[n].at = "login"
  PROVE  Resolved(flow[n]).email \in {Email[flow[n].user], Placeholder(flow[n].user)}
<1>1. /\ MayLead(flow[n].id, flow[n].user)
      /\ flow[n].fresh => flow[n].user = flow[n].id
      /\ flow[n].email \in {Email[flow[n].id], NoEmail}
  BY DEF MergeInv, LoginsMayLead
<1>2. flow[n].user \in UserIds /\ flow[n].fresh \in BOOLEAN
  BY LoginFields DEF MergeInv, SignInTypeInv
<1>3. CASE flow[n].fresh
  BY <1>1, <1>3 DEF Resolved, NewUser
<1>4. CASE ~flow[n].fresh
  <2>1. users[flow[n].user].email \in {Email[flow[n].user], Placeholder(flow[n].user)}
    BY <1>2, <1>4 DEF MergeInv, SignInTypeInv, UsersStand, AddressesAreTheirs
  <2>2. VouchedFor(flow[n]) => flow[n].email = Email[flow[n].user]
    BY <1>1 DEF VouchedFor, MayLead
  <2> QED BY <1>4, <2>1, <2>2 DEF Resolved, Profile
<1> QED BY <1>3, <1>4

\* Every step keeps it.
LEMMA MergeNext == MergeInv /\ [SignInNext]_signInVars => MergeInv'
<1> SUFFICES ASSUME MergeInv, [SignInNext]_signInVars PROVE MergeInv'
  OBVIOUS
<1>0. SignInTypeInv /\ SignInTypeOK /\ SignInTypeInv' /\ SignInTypeOK'
  BY SignInTypeNext DEF MergeInv, SignInTypeInv
<1>1. CASE Idles
  <2>1. LoginsStay /\ UNCHANGED <<users, account>>
    BY <1>0, <1>1, IdleWrites
  <2> QED BY <1>0, <2>1 DEF MergeInv, LoginsMayLead, LoginsStay, AddressesAreTheirs, PeopleAreNotMerged, MayLead
<1>2. ASSUME NEW b \in UserAgents, NEW n \in Flows, NEW i \in Identities, NEW shown, Callback(b, n, i, shown)
      PROVE  MergeInv'
  <2>1. /\ flow'[n] \in LoggingIn /\ flow' = [flow EXCEPT ![n] = flow'[n]]
        /\ flow'[n].id = i /\ flow'[n].email \in {Email[i], NoEmail}
        /\ flow'[n].fresh => flow'[n].user = i /\ account[i] = Nobody
        /\ account[i] # Nobody => flow'[n].user = account[i]
        /\ ~flow'[n].fresh /\ account[i] = Nobody => i \in Vouched /\ flow'[n].user \in Owners(Email[i])
        /\ UNCHANGED <<users, account>>
    BY <1>0, <1>2, CallbackWrites
  <2>2. \A m \in Flows \ {n} : flow'[m] = flow[m]
    BY <1>0, <2>1 DEF SignInTypeOK
  <2>3. \A u \in Owners(Email[i]) : Email[u] = Email[i]
    BY RowsAssumption DEF MergeInv, AddressesAreTheirs, Owners, UserIds
  <2>4. flow'[n].fresh \in BOOLEAN
    BY <2>1 DEF LoggingIn
  <2>5. MayLead(i, flow'[n].user)
    BY <2>1, <2>3, <2>4 DEF MayLead, MergeInv, PeopleAreNotMerged
  <2>6. LoginsMayLead'
    BY <2>1, <2>2, <2>5 DEF MergeInv, LoginsMayLead, MayLead
  <2> QED BY <1>0, <2>1, <2>6 DEF MergeInv, AddressesAreTheirs, PeopleAreNotMerged
<1>3. ASSUME NEW n \in Flows, LoginCommit(n) \/ LoginHalf(n),
             NEW CONSTANT u, u = flow[n].user, NEW CONSTANT j, j = flow[n].id
      PROVE  MergeInv'
  <2>1. /\ flow[n].at = "login" /\ u \in UserIds
        /\ users'[u] = Resolved(flow[n]) /\ \A v \in UserIds \ {u} : users'[v] = users[v]
        /\ \A i \in Identities : \/ account'[i] = account[i]
                                 \/ i = j /\ account[i] = Nobody /\ account'[i] = u
        /\ LoginsStay
    BY <1>0, <1>3, LoginWrites DEF LoggingIn
  <2>2. MayLead(j, u) /\ Resolved(flow[n]).email \in {Email[u], Placeholder(u)}
    BY <1>3, <2>1, ResolvedAddress DEF MergeInv, LoginsMayLead
  <2>3. LoginsMayLead'
    BY <2>1 DEF MergeInv, LoginsMayLead, LoginsStay, MayLead
  <2>4. AddressesAreTheirs'
    BY <2>1, <2>2 DEF MergeInv, AddressesAreTheirs
  <2>5. PeopleAreNotMerged'
    BY <2>1, <2>2 DEF MergeInv, PeopleAreNotMerged, MayLead
  <2> QED BY <1>0, <2>3, <2>4, <2>5 DEF MergeInv
<1> QED BY <1>1, <1>2, <1>3, SignInSteps

\* Two provider accounts lead to one person only through an address that the provider of the
\* later one vouches for.
THEOREM SignInPeopleAreNotMerged == SignInSpec => []PeopleAreNotMerged
<1>1. SignInInit => MergeInv
  BY SignInTypeInit DEF SignInInit, MergeInv, LoginsMayLead, AddressesAreTheirs, PeopleAreNotMerged, NoFlow
<1>2. MergeInv => PeopleAreNotMerged
  BY DEF MergeInv
<1> QED BY <1>1, <1>2, MergeNext, PTL DEF SignInSpec

-------------------------------------------------------------------------------
(* An identity signs in as the person it is linked to                      *)

\* Of an identity whose sign-ins never overlapped one at most is being resolved, and it leads
\* to the person the identity is linked to, if there is one.
OneAtATime ==
  /\ \A m, n \in Flows : flow[m].at = "login" /\ flow[n].at = "login"
                         /\ flow[m].id = flow[n].id /\ flow[m].id \notin twice => m = n
  /\ \A n \in Flows : flow[n].at = "login" /\ flow[n].id \notin twice =>
       account[flow[n].id] \in {flow[n].user, Nobody}

LinkInv == SignInTypeInv /\ OneAtATime /\ SignedInAsLinked

\* Every step keeps it.
LEMMA LinkNext == LinkInv /\ [SignInNext]_signInVars => LinkInv'
<1> SUFFICES ASSUME LinkInv, [SignInNext]_signInVars PROVE LinkInv'
  OBVIOUS
<1>0. SignInTypeInv /\ SignInTypeOK /\ SignInTypeInv' /\ SignInTypeOK'
  BY SignInTypeNext DEF LinkInv, SignInTypeInv
<1>1. CASE Idles
  <2>1. LoginsStay /\ UNCHANGED <<account, twice, opened>>
    BY <1>0, <1>1, IdleWrites
  <2> QED BY <1>0, <2>1 DEF LinkInv, OneAtATime, LoginsStay, SignedInAsLinked
<1>2. ASSUME NEW b \in UserAgents, NEW n \in Flows, NEW i \in Identities, NEW shown, Callback(b, n, i, shown)
      PROVE  LinkInv'
  <2>1. /\ flow' = [flow EXCEPT ![n] = flow'[n]] /\ flow'[n].id = i
        /\ account[i] # Nobody => flow'[n].user = account[i]
        /\ twice \subseteq twice'
        /\ (\E k \in Flows : flow[k].at = "login" /\ flow[k].id = i) => i \in twice'
        /\ UNCHANGED <<account, opened>>
    BY <1>0, <1>2, CallbackWrites
  <2>2. \A m \in Flows \ {n} : flow'[m] = flow[m]
    BY <1>0, <2>1 DEF SignInTypeOK
  <2>3. OneAtATime'
    BY <2>1, <2>2 DEF LinkInv, OneAtATime
  <2> QED BY <1>0, <2>1, <2>3 DEF LinkInv, SignedInAsLinked
<1>3. ASSUME NEW n \in Flows, LoginCommit(n) \/ LoginHalf(n),
             NEW CONSTANT u, u = flow[n].user, NEW CONSTANT j, j = flow[n].id
      PROVE  LinkInv'
  <2>1. /\ flow[n].at = "login" /\ flow[n] \in LoggingIn
        /\ \A i \in Identities : \/ account'[i] = account[i]
                                 \/ i = j /\ account[i] = Nobody /\ account'[i] = u
        /\ flow' = [flow EXCEPT ![n] = Ended] /\ LoginsStay /\ twice' = twice
    BY <1>0, <1>3, LoginWrites
  <2>2. u \in UserIds /\ j \in Identities /\ u # Nobody
    BY <1>3, <2>1 DEF LoggingIn, UserIds
  <2>3. j \notin twice => \A m \in Flows : flow'[m].at = "login" => flow'[m].id # j
    BY <1>0, <1>3, <2>1 DEF LinkInv, OneAtATime, LoginsStay, SignInTypeOK, Ended
  <2>4. \A m \in Flows : flow'[m].at = "login" => flow'[m] = flow[m] /\ flow[m].id \in Identities
    BY <1>0, <2>1, LoginFields DEF LoginsStay
  <2>5. OneAtATime'
    BY <2>1, <2>3, <2>4 DEF LinkInv, OneAtATime
  <2>6. j \notin twice => account[j] \in {u, Nobody}
    BY <1>3, <2>1 DEF LinkInv, OneAtATime
  <2>7. ASSUME NEW s \in opened, s.by \notin twice PROVE account'[s.by] = s.user
    <3>1. s.by \in Identities /\ s.user \in UserIds
      BY <1>0 DEF SignInTypeOK, Session
    <3>2. account[s.by] = s.user
      BY <2>7 DEF LinkInv, SignedInAsLinked
    <3> QED BY <2>1, <3>1, <3>2 DEF UserIds
  <2>8. CASE UNCHANGED <<account, opened>>
    BY <1>0, <2>1, <2>5, <2>8 DEF LinkInv, SignedInAsLinked
  <2>9. CASE /\ opened' = opened \cup {[user |-> u, by |-> j, began |-> flow[n].began,
                                        browser |-> flow[n].browser]}
             /\ account[j] = Nobody => account'[j] = u
    <3>1. j \notin twice => account'[j] = u
      BY <2>1, <2>2, <2>6, <2>9
    <3>2. SignedInAsLinked'
      BY <2>1, <2>7, <2>9, <3>1 DEF SignedInAsLinked
    <3> QED BY <1>0, <2>5, <3>2 DEF LinkInv
  <2> QED BY <1>0, <1>3, <2>8, <2>9, LoginOpens
<1> QED BY <1>1, <1>2, <1>3, SignInSteps

\* Whoever an identity signs in as is the person it is linked to, then and ever after, unless
\* two of its own sign-ins overlapped.
THEOREM SignInSignedInAsLinked == SignInSpec => []SignedInAsLinked
<1>1. SignInInit => LinkInv
  BY SignInTypeInit DEF SignInInit, LinkInv, OneAtATime, SignedInAsLinked, NoFlow
<1>2. LinkInv => SignedInAsLinked
  BY DEF LinkInv
<1> QED BY <1>1, <1>2, LinkNext, PTL DEF SignInSpec

-------------------------------------------------------------------------------
(* A verified address is vouched for by somebody who is this person's      *)

\* A provider vouches that the address of person u is that of identity i.
Vouches(i, u) == i \in Vouched /\ users[u] # Nobody /\ users[u].email = Email[i]

\* Whatever leads to another person than the identity's own has vouched for the address.
LinksAreVouched ==
  /\ \A i \in Identities : account[i] \notin {Nobody, i} => Vouches(i, account[i])
  /\ \A n \in Flows : flow[n].at = "login" /\ flow[n].user # flow[n].id =>
       Vouches(flow[n].id, flow[n].user)

\* Who signs in again as their own person is linked to it, or has vouched for the address.
OwnRowsFound ==
  \A n \in Flows : flow[n].at = "login" /\ ~flow[n].fresh /\ flow[n].user = flow[n].id =>
    flow[n].id \in Vouched \/ account[flow[n].id] = flow[n].id

\* Two people have two addresses.
AddressesApart ==
  \A u, v \in UserIds : users[u] # Nobody /\ users[v] # Nobody /\ users[u].email = users[v].email => u = v

\* Only its own identity signs in as a person without a real address.
MadeUpIsOwn ==
  \A u \in UserIds : users[u] # Nobody /\ users[u].email = Placeholder(u) => users[u].provider = u

\* With a bad key nothing is linked.
HalfLinksNobody == badKey => \A i \in Identities : account[i] = Nobody

\* Identity i vouches for the address of person u and is linked to it, or signed in as it
\* last; of the second kind only while nobody who cannot vouch is linked to it as its own.
Attests(i, u) ==
  /\ i \in Vouched /\ users[u].email = Email[i]
  /\ account[i] = u \/ (users[u].provider = i /\ (account[u] = u => u \in Vouched))
VerifiedIsAttested ==
  \A u \in UserIds : users[u] # Nobody /\ users[u].verified => \E i \in Identities : Attests(i, u)

VerifiedInv ==
  /\ MergeInv /\ LinksAreVouched /\ OwnRowsFound /\ AddressesApart /\ MadeUpIsOwn
  /\ HalfLinksNobody /\ VerifiedIsAttested

\* What a login makes of the row of the person it resolved to.
LEMMA LoginRow ==
  ASSUME VerifiedInv, NEW n \in Flows, LoginCommit(n) \/ LoginHalf(n),
         NEW u, u = flow[n].user, NEW j, j = flow[n].id
  PROVE  /\ u \in UserIds /\ j \in Identities /\ users'[u] # Nobody
         /\ users'[u].provider = j
         /\ flow[n].fresh <=> users[u] = Nobody
         /\ users[u] # Nobody /\ users[u].email # Placeholder(u) => users'[u].email = users[u].email
         /\ users'[u].verified => \/ j \in Vouched /\ users'[u].email = Email[j]
                                  \/ /\ users[u] # Nobody /\ users[u].verified
                                     /\ users'[u].email = users[u].email
         /\ \A v \in UserIds \ {u} : users[v] # Nobody =>
              users[v].provider # j /\ users[v].email # users'[u].email
<1> DEFINE q == flow[n]
<1>1. /\ q.at = "login" /\ q \in LoggingIn /\ ~Clash(q)
      /\ users'[u] = Resolved(q) /\ users'[u] # Nobody
  BY LoginWrites DEF VerifiedInv, MergeInv
<1>2. /\ u \in UserIds /\ j \in Identities /\ q.fresh \in BOOLEAN
      /\ q.email \in {Email[j], NoEmail}
      /\ ~q.fresh => users[u] # Nobody
  BY <1>1 DEF LoggingIn, VerifiedInv, MergeInv, LoginsMayLead, SignInTypeInv, UsersStand
<1>3. q.fresh <=> users[u] = Nobody
  BY <1>1, <1>2 DEF Clash
<1>4. \A v \in UserIds \ {u} : users[v] # Nobody =>
        users[v].provider # j /\ users[v].email # users'[u].email
  BY <1>1 DEF Clash
<1>5. VouchedFor(q) => j \in Vouched /\ q.email = Email[j]
  BY <1>2 DEF VouchedFor
<1>6. CASE q.fresh
  <2>1. /\ users'[u].provider = j
        /\ users'[u].email = IF q.email = NoEmail THEN Placeholder(j) ELSE q.email
        /\ users'[u].verified = VouchedFor(q)
    BY <1>1, <1>6 DEF Resolved, NewUser
  <2>2. VouchedFor(q) => users'[u].email = q.email
    BY <2>1 DEF VouchedFor
  <2> QED BY <1>1, <1>2, <1>3, <1>4, <1>5, <1>6, <2>1, <2>2
<1>7. CASE ~q.fresh
  <2> DEFINE upgrade == /\ VouchedFor(q) /\ users[u].email = Placeholder(u)
                        /\ Owners(q.email) = {}
  <2>1. /\ users'[u].provider = j
        /\ users'[u].email = IF upgrade THEN q.email ELSE users[u].email
        /\ users'[u].verified = (users[u].verified \/ upgrade
                                 \/ (VouchedFor(q) /\ users[u].email = q.email))
    BY <1>1, <1>7 DEF Resolved, Profile
  <2>2. users'[u].verified => \/ VouchedFor(q) /\ users'[u].email = q.email
                              \/ users[u].verified /\ users'[u].email = users[u].email
    BY <2>1
  <2>3. users[u].email # Placeholder(u) => users'[u].email = users[u].email
    BY <2>1
  <2> QED BY <1>1, <1>2, <1>3, <1>4, <1>5, <1>7, <2>1, <2>2, <2>3
<1> QED BY <1>6, <1>7, <1>2

\* Every step keeps it.
LEMMA VerifiedNext == VerifiedInv /\ [SignInNext]_signInVars => VerifiedInv'
<1> SUFFICES ASSUME VerifiedInv, [SignInNext]_signInVars PROVE VerifiedInv'
  OBVIOUS
<1>0. MergeInv /\ MergeInv' /\ SignInTypeInv /\ SignInTypeOK /\ SignInTypeOK'
  BY MergeNext DEF VerifiedInv, MergeInv, SignInTypeInv
<1>1. CASE Idles
  <2>1. LoginsStay /\ UNCHANGED <<users, account>>
    BY <1>0, <1>1, IdleWrites
  <2>2. badKey' => badKey
    BY <1>1 DEF Idles, StartLogin, CallbackFails, CallbackRefused, LoginRolledBack, RepairKey, signInVars
  <2>3. LinksAreVouched' /\ OwnRowsFound'
    BY <2>1 DEF VerifiedInv, LinksAreVouched, OwnRowsFound, LoginsStay, Vouches
  <2>4. AddressesApart' /\ MadeUpIsOwn' /\ HalfLinksNobody' /\ VerifiedIsAttested'
    BY <2>1, <2>2 DEF VerifiedInv, AddressesApart, MadeUpIsOwn, HalfLinksNobody, VerifiedIsAttested, Attests
  <2> QED BY <1>0, <2>3, <2>4 DEF VerifiedInv
<1>2. ASSUME NEW b \in UserAgents, NEW n \in Flows, NEW i \in Identities, NEW shown, Callback(b, n, i, shown)
      PROVE  VerifiedInv'
  <2>1. /\ flow' = [flow EXCEPT ![n] = flow'[n]] /\ flow'[n].id = i /\ flow'[n] \in LoggingIn
        /\ flow'[n].fresh => flow'[n].user = i /\ account[i] = Nobody
        /\ account[i] # Nobody => flow'[n].user = account[i]
        /\ ~flow'[n].fresh /\ account[i] = Nobody => i \in Vouched /\ flow'[n].user \in Owners(Email[i])
        /\ UNCHANGED <<users, account, badKey>>
    BY <1>0, <1>2, CallbackWrites
  <2>2. \A m \in Flows \ {n} : flow'[m] = flow[m]
    BY <1>0, <2>1 DEF SignInTypeOK
  <2>3. flow'[n].fresh \in BOOLEAN
    BY <2>1 DEF LoggingIn
  <2>4. flow'[n].user # i => Vouches(i, flow'[n].user)
    BY <2>1, <2>3 DEF VerifiedInv, LinksAreVouched, Vouches, Owners
  <2>5. ~flow'[n].fresh /\ flow'[n].user = i => i \in Vouched \/ account[i] = i
    BY <2>1
  <2>6. LinksAreVouched'
    BY <2>1, <2>2, <2>4 DEF VerifiedInv, LinksAreVouched, Vouches
  <2>7. OwnRowsFound'
    BY <2>1, <2>2, <2>5 DEF VerifiedInv, OwnRowsFound
  <2>8. AddressesApart' /\ MadeUpIsOwn' /\ HalfLinksNobody' /\ VerifiedIsAttested'
    BY <2>1 DEF VerifiedInv, AddressesApart, MadeUpIsOwn, HalfLinksNobody, VerifiedIsAttested, Attests
  <2> QED BY <1>0, <2>6, <2>7, <2>8 DEF VerifiedInv
<1>3. ASSUME NEW n \in Flows, LoginCommit(n) \/ LoginHalf(n),
             NEW CONSTANT u, u = flow[n].user, NEW CONSTANT j, j = flow[n].id
      PROVE  VerifiedInv'
  <2>1. /\ flow[n].at = "login"
        /\ \A v \in UserIds \ {u} : users'[v] = users[v]
        /\ \A i \in Identities : \/ account'[i] = account[i]
                                 \/ i = j /\ account[i] = Nobody /\ account'[i] = u
        /\ LoginsStay /\ badKey' = badKey
    BY <1>0, <1>3, LoginWrites
  <2>2. /\ u \in UserIds /\ j \in Identities /\ users'[u] # Nobody
        /\ users'[u].provider = j
        /\ flow[n].fresh <=> users[u] = Nobody
        /\ users[u] # Nobody /\ users[u].email # Placeholder(u) => users'[u].email = users[u].email
        /\ users'[u].verified => \/ j \in Vouched /\ users'[u].email = Email[j]
                                 \/ /\ users[u] # Nobody /\ users[u].verified
                                    /\ users'[u].email = users[u].email
        /\ \A v \in UserIds \ {u} : users[v] # Nobody =>
             users[v].provider # j /\ users[v].email # users'[u].email
    BY <1>3, LoginRow
  <2>3. \A i, v : v \in UserIds /\ Vouches(i, v) =>
          i \in Vouched /\ users'[v] # Nobody /\ users'[v].email = Email[i]
    BY <2>1, <2>2, RowsAssumption DEF Vouches, UserIds
  <2>4. u # j => Vouches(j, u) /\ Vouches(j, u)'
    <3>1. u # j => Vouches(j, u)
      BY <1>3, <2>1 DEF VerifiedInv, LinksAreVouched
    <3> QED BY <2>2, <2>3, <3>1 DEF Vouches
  <2>5. LinksAreVouched'
    <3>1. ASSUME NEW i \in Identities, account'[i] \notin {Nobody, i} PROVE Vouches(i, account[i])'
      <4>1. CASE account'[i] = account[i]
        <5>1. account[i] \in UserIds /\ Vouches(i, account[i])
          BY <1>0, <3>1, <4>1 DEF VerifiedInv, LinksAreVouched, SignInTypeOK
        <5>2. i \in Vouched /\ users'[account[i]] # Nobody /\ users'[account[i]].email = Email[i]
          BY <2>3, <5>1
        <5> QED BY <4>1, <5>2 DEF Vouches
      <4>2. CASE i = j /\ account'[i] = u
        BY <2>4, <3>1, <4>2 DEF Vouches
      <4> QED BY <2>1, <4>1, <4>2
    <3>2. ASSUME NEW m \in Flows, flow'[m].at = "login", flow'[m].user # flow'[m].id
          PROVE  Vouches(flow[m].id, flow[m].user)'
      <4>1. flow'[m] = flow[m]
        BY <2>1, <3>2 DEF LoginsStay
      <4>2. Vouches(flow[m].id, flow[m].user) /\ flow[m].user \in UserIds
        BY <1>0, <3>2, <4>1, LoginFields DEF VerifiedInv, LinksAreVouched
      <4> QED BY <2>3, <4>1, <4>2 DEF Vouches
    <3> QED BY <3>1, <3>2 DEF LinksAreVouched
  <2>6. OwnRowsFound'
    BY <1>0, <2>1, LoginFields, RowsAssumption DEF VerifiedInv, OwnRowsFound, LoginsStay
  <2>7. AddressesApart'
    BY <2>1, <2>2 DEF VerifiedInv, AddressesApart
  <2>8. MadeUpIsOwn'
    <3>1. users'[u].email = Placeholder(u) => u = j
      BY <2>2, <2>4, RowsAssumption DEF Vouches, UserIds
    <3> QED BY <2>1, <2>2, <3>1 DEF VerifiedInv, MadeUpIsOwn
  <2>9. HalfLinksNobody'
    BY <1>3, <2>1 DEF VerifiedInv, HalfLinksNobody, LoginCommit, LoginHalf
  <2>10. VerifiedIsAttested'
    <3>1. ASSUME NEW v \in UserIds, v # u, users'[v] # Nobody, users'[v].verified
          PROVE  \E i \in Identities : Attests(i, v)'
      <4>1. PICK i \in Identities : Attests(i, v)
        BY <2>1, <3>1 DEF VerifiedInv, VerifiedIsAttested
      <4>2. account[i] = v => account'[i] = v
        BY <2>1, <3>1, RowsAssumption, SignInAssumption DEF UserIds
      <4>3. account'[v] = v => account[v] = v
        BY <2>1, <3>1 DEF UserIds
      <4> QED BY <2>1, <3>1, <4>1, <4>2, <4>3 DEF Attests
    <3>2. ASSUME u # j PROVE \E i \in Identities : Attests(i, u)'
      <4>1. ASSUME u \notin Vouched, account'[u] = u, account'[j] # u PROVE FALSE
        <5>1. account[u] = u /\ ~badKey
          BY <2>1, <2>2, <3>2, <4>1, SignInAssumption DEF VerifiedInv, HalfLinksNobody, UserIds
        <5>2. account'[j] = IF account[j] = Nobody THEN u ELSE account[j]
          BY <1>0, <1>3, <2>2, <5>1 DEF LoginCommit, LoginHalf, SignInTypeOK
        <5> DEFINE w == account[j]
        <5>3. w # Nobody /\ w # u /\ w \in UserIds
          BY <1>0, <2>2, <4>1, <5>2 DEF SignInTypeOK
        <5>4. users[w] # Nobody /\ users[u] # Nobody /\ users[u].email = Email[j]
          BY <1>0, <2>2, <2>4, <3>2, <5>3 DEF SignInTypeInv, UsersStand, Vouches
        <5>5. CASE w # j
          <6>1. users[w].email = Email[j]
            BY <2>2, <5>3, <5>5 DEF VerifiedInv, LinksAreVouched, Vouches
          <6> QED BY <2>2, <5>3, <5>4, <6>1 DEF VerifiedInv, AddressesApart
        <5>6. CASE w = j
          <6>1. users[j].email = Email[j] \/ users[j].provider = j
            BY <5>3, <5>4, <5>6 DEF VerifiedInv, MergeInv, AddressesAreTheirs, MadeUpIsOwn
          <6> QED BY <2>2, <5>3, <5>4, <5>6, <6>1 DEF VerifiedInv, AddressesApart
        <5> QED BY <5>5, <5>6
      <4>2. Attests(j, u)'
        BY <2>2, <2>4, <3>2, <4>1 DEF Attests, Vouches
      <4> QED BY <2>2, <4>2 DEF Attests
    <3>3. ASSUME u = j, users'[u].verified PROVE \E i \in Identities : Attests(i, u)'
      <4>1. CASE u \in Vouched /\ users'[u].email = Email[u]
        BY <2>2, <3>3, <4>1 DEF Attests
      <4>2. CASE /\ users[u] # Nobody /\ users[u].verified /\ users'[u].email = users[u].email
                 /\ ~(u \in Vouched /\ users'[u].email = Email[u])
        <5>1. PICK i \in Identities : Attests(i, u)
          BY <2>2, <4>2 DEF VerifiedInv, VerifiedIsAttested
        <5>2. users[u].email = Email[u] /\ u \notin Vouched
          BY <2>2, <4>2, <5>1, RowsAssumption
            DEF Attests, VerifiedInv, MergeInv, AddressesAreTheirs, UserIds
        <5>3. account[u] = u
          <6>1. ~flow[n].fresh
            BY <2>2, <4>2
          <6>2. flow[n].id \in Vouched \/ account[flow[n].id] = flow[n].id
            BY <1>3, <2>1, <3>3, <6>1 DEF VerifiedInv, OwnRowsFound
          <6> QED BY <1>3, <3>3, <5>2, <6>2
        <5>4. account[i] = u /\ account'[i] = u
          BY <2>1, <2>2, <5>1, <5>2, <5>3, SignInAssumption DEF Attests, UserIds
        <5> QED BY <4>2, <5>1, <5>4 DEF Attests
      <4> QED BY <2>2, <3>3, <4>1, <4>2
    <3>4. ASSUME NEW v \in UserIds, users'[v] # Nobody, users'[v].verified
          PROVE  \E i \in Identities : Attests(i, v)'
      <4>1. CASE v # u
        BY <3>1, <3>4, <4>1
      <4>2. CASE v = u
        <5>1. \E i \in Identities : Attests(i, u)'
          BY <3>2, <3>3, <3>4, <4>2 DEF Attests
        <5> QED BY <4>2, <5>1 DEF Attests
      <4> QED BY <4>1, <4>2
    <3> QED BY <3>4 DEF VerifiedIsAttested, Attests
  <2> QED BY <1>0, <2>5, <2>6, <2>7, <2>8, <2>9, <2>10 DEF VerifiedInv
<1> QED BY <1>1, <1>2, <1>3, SignInSteps

\* An address counts as verified only when it is that of an identity whose provider vouches
\* for it and that is linked to this person, or is the one that last signed in as them:
\* whatever sign-ins overlapped, and whatever was half written under a bad key.
THEOREM SignInVerifiedByOneOfTheirs == SignInSpec => []VerifiedByOneOfTheirs
<1>1. SignInInit => VerifiedInv
  <2> SUFFICES ASSUME SignInInit PROVE VerifiedInv
    OBVIOUS
  <2>1. MergeInv
    BY SignInTypeInit DEF SignInInit, MergeInv, LoginsMayLead, AddressesAreTheirs, PeopleAreNotMerged, NoFlow
  <2> QED BY <2>1 DEF SignInInit, VerifiedInv, LinksAreVouched, OwnRowsFound, AddressesApart,
       MadeUpIsOwn, HalfLinksNobody, VerifiedIsAttested, NoFlow
<1>2. VerifiedInv => VerifiedByOneOfTheirs
  BY DEF VerifiedInv, VerifiedIsAttested, Attests, VerifiedByOneOfTheirs
<1> QED BY <1>1, <1>2, VerifiedNext, PTL DEF SignInSpec

==============================================================================
