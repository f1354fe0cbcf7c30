---------------------------- MODULE Spaces_proofs ----------------------------
(***************************************************************************)
(* Proofs about Spaces, for any people, memories, invites and requests.    *)
(***************************************************************************)
EXTENDS Spaces, FiniteSetTheorems, TLAPS

USE ConstantsAssumption

-------------------------------------------------------------------------------
(* Type correctness                                                        *)

\* Invites are minted in order, and what is being accepted was minted.
InvitesKnown ==
  /\ \A n \in Invites : n > minted => invite[n] = NoInvite
  /\ \A r \in Requests : req[r].at = "accept" => invite[req[r].invite] # NoInvite

TypeInv == TypeOK /\ InvitesKnown

\* What a request is about to do, in its own type.
Pending == Adding \cup Dropping \cup Kicking \cup Accepting

\* A request is what its place says.
LEMMA RequestKinds ==
  ASSUME TypeOK, NEW r \in Requests
  PROVE  /\ req[r] # Idle => req[r] \in Pending
         /\ req[r].at = "add" => req[r] \in Adding
         /\ req[r].at = "drop" => req[r] \in Dropping
         /\ req[r].at = "kick" => req[r] \in Kicking
         /\ req[r].at = "accept" => req[r] \in Accepting
  BY DEF TypeOK, Idle, Pending, Adding, Dropping, Kicking, Accepting

\* What is asked is well formed.
LEMMA AskTypes ==
  ASSUME TypeOK, NEW r \in Requests, Ask(r)
  PROVE  /\ req[r] = Idle /\ req' \in [Requests -> Pending \cup {Idle}]
         /\ \A x \in Requests \ {r} : req'[x] = req[x]
         /\ req'[r] \in Adding \cup Dropping \cup Kicking
         /\ req'[r] \in Adding =>
              \E p \in People, items \in SUBSET Items :
                /\ May(p, "editor")
                /\ req'[r] = [at |-> "add", who |-> p, items |-> Attachable(items, p)]
         /\ UNCHANGED <<space, member, shelf, trashed, invite, minted, history>>
<1>0. req \in [Requests -> Pending \cup {Idle}]
  BY DEF TypeOK, Pending
<1>1. ASSUME NEW q, Begin(r, q)
      PROVE  /\ req[r] = Idle /\ req'[r] = q /\ req' = [req EXCEPT ![r] = q]
             /\ \A x \in Requests \ {r} : req'[x] = req[x]
  BY <1>0, <1>1 DEF Begin
<1>2. ASSUME NEW p \in People, NEW items \in SUBSET Items, AskAdd(r, p, items)
      PROVE  [at |-> "add", who |-> p, items |-> Attachable(items, p)] \in Adding
  BY DEF Adding, Attachable
<1>3. ASSUME NEW p \in People, NEW i \in Items, AskDrop(r, p, i)
      PROVE  [at |-> "drop", item |-> i] \in Dropping \ Adding
  BY DEF Dropping, Adding
<1>4. ASSUME NEW p \in People, NEW m \in People, AskKick(r, p, m)
      PROVE  [at |-> "kick", member |-> m] \in Kicking \ Adding
  BY DEF Kicking, Adding
<1>5. CASE \E p \in People : \E items \in SUBSET Items \ {{}} : AskAdd(r, p, items)
  <2>1. PICK p \in People, items \in SUBSET Items : AskAdd(r, p, items)
    BY <1>5
  <2>2. req'[r] = [at |-> "add", who |-> p, items |-> Attachable(items, p)] /\ May(p, "editor")
    BY <1>1, <2>1 DEF AskAdd
  <2> QED BY <1>0, <1>1, <1>2, <2>1, <2>2 DEF Ask, AskAdd, Pending
<1>6. CASE \E p \in People : \E i \in Items : AskDrop(r, p, i)
  BY <1>0, <1>1, <1>3, <1>6 DEF Ask, AskDrop, Pending
<1>7. CASE \E p \in People : \E m \in People : AskKick(r, p, m)
  BY <1>0, <1>1, <1>4, <1>7 DEF Ask, AskKick, Pending
<1> QED BY <1>5, <1>6, <1>7 DEF Ask

\* An invite that there is has a role, and keeps it whatever is written into it.
LEMMA InviteRows ==
  ASSUME TypeOK, NEW n \in Invites, invite[n] # NoInvite
  PROVE  /\ invite[n] \in Invite
         /\ \A p \in People : [invite[n] EXCEPT !.by = p] \in Invite
         /\ [invite[n] EXCEPT !.expired = TRUE] \in Invite
         /\ \A p \in People : [invite[n] EXCEPT !.by = p].role = invite[n].role
         /\ \A p \in People : [invite[n] EXCEPT !.by = p].by = p
         /\ [invite[n] EXCEPT !.expired = TRUE].role = invite[n].role
         /\ [invite[n] EXCEPT !.expired = TRUE].by = invite[n].by
<1>1. invite[n] \in Invite
  BY DEF TypeOK
<1> QED BY <1>1 DEF Invite

\* What there is is no `NoInvite`.
LEMMA InviteIsThere == \A x \in Invite : x # NoInvite
  BY DEF Invite, NoInvite, Grantable

\* What accepting an invite writes.
LEMMA AcceptWrites ==
  ASSUME TypeInv, NEW r \in Requests, AcceptCommit(r)
  PROVE  LET n == req[r].invite
             p == req[r].who
         IN /\ n \in Invites /\ p \in People /\ req[r].at = "accept"
            /\ invite[n] # NoInvite /\ invite[n].role \in Grantable
            /\ member' = IF p = Owner THEN member ELSE [member EXCEPT ![p] = invite[n].role]
            /\ invite' = [invite EXCEPT ![n].by = p] /\ invite'[n].by = p
            /\ invite'[n] \in Invite /\ invite'[n].role = invite[n].role
            /\ admitted' = [admitted EXCEPT ![n] = @ \cup {p}]
            /\ req' = [req EXCEPT ![r] = Idle]
            /\ UNCHANGED <<space, shelf, trashed, minted, contested>>
<1>1. req[r].at = "accept" /\ req[r] \in Accepting /\ invite[req[r].invite] # NoInvite
  BY RequestKinds DEF TypeInv, InvitesKnown, AcceptCommit
<1>2. req[r].invite \in Invites /\ req[r].who \in People
  BY <1>1 DEF Accepting
<1>3. invite[req[r].invite] \in Invite
  BY <1>1, <1>2, InviteRows DEF TypeInv
<1>4. invite'[req[r].invite] = [invite[req[r].invite] EXCEPT !.by = req[r].who]
  BY <1>2 DEF AcceptCommit, Spent, TypeInv, TypeOK
<1> QED BY <1>1, <1>2, <1>3, <1>4, InviteRows DEF AcceptCommit, Granted, Spent, Invite, TypeInv

\* A request that ends changes no other.
LEMMA Ending ==
  ASSUME TypeOK, NEW r \in Requests, req' = [req EXCEPT ![r] = Idle]
  PROVE  /\ req' \in [Requests -> Adding \cup Dropping \cup Kicking \cup Accepting \cup {Idle}]
         /\ req'[r] = Idle /\ Idle.at = "idle"
         /\ \A x \in Requests \ {r} : req'[x] = req[x]
  BY DEF TypeOK, Idle

\* Every step keeps the types.
LEMMA TypeNext == TypeInv /\ [Next]_vars => TypeInv'
<1> SUFFICES ASSUME TypeInv, [Next]_vars PROVE TypeInv'
  OBVIOUS
<1> USE DEF TypeInv, TypeOK
<1>1. ASSUME NEW items \in SUBSET Items, Create(items) PROVE TypeInv'
  BY <1>1 DEF Create, Space, history, InvitesKnown
<1>2. ASSUME NEW r \in Requests, Ask(r) PROVE TypeInv'
  <2>1. req'[r].at # "accept"
    BY <1>2, AskTypes DEF Adding, Dropping, Kicking
  <2> QED BY <1>2, <2>1, AskTypes DEF Pending, history, InvitesKnown
<1>3. ASSUME NEW r \in Requests, NEW p \in People, NEW n \in Invites, AcceptRead(r, p, n) PROVE TypeInv'
  <2>1. [at |-> "accept", who |-> p, invite |-> n] \in Accepting
    BY DEF Accepting
  <2>2. InvitesKnown'
    BY <1>3 DEF AcceptRead, Begin, Spendable, InvitesKnown
  <2> QED BY <1>3, <2>1, <2>2 DEF AcceptRead, Begin
<1>4. ASSUME NEW r \in Requests, AcceptCommit(r) PROVE TypeInv'
  <2> DEFINE n == req[r].invite
             p == req[r].who
  <2>1. /\ n \in Invites /\ p \in People /\ invite[n] # NoInvite /\ invite[n].role \in Grantable
        /\ member' = IF p = Owner THEN member ELSE [member EXCEPT ![p] = invite[n].role]
        /\ invite' = [invite EXCEPT ![n].by = p] /\ invite'[n] \in Invite
        /\ admitted' = [admitted EXCEPT ![n] = @ \cup {p}]
        /\ req' = [req EXCEPT ![r] = Idle]
        /\ UNCHANGED <<space, shelf, trashed, minted, contested>>
    BY <1>4, AcceptWrites
  <2>2. /\ invite' \in [Invites -> Invite \cup {NoInvite}]
        /\ \A m \in Invites \ {n} : invite'[m] = invite[m]
    BY <2>1
  <2>3. invite'[n] # NoInvite
    BY <2>1, InviteIsThere
  <2>4. \A m \in Invites : invite'[m] = NoInvite <=> invite[m] = NoInvite
    BY <2>1, <2>2, <2>3
  <2>5. InvitesKnown'
    <3>1. \A x \in Requests : req'[x].at = "accept" => req'[x] = req[x] /\ req'[x].invite \in Invites
      BY <2>1, Ending, RequestKinds DEF Accepting
    <3> QED BY <2>1, <2>4, <3>1 DEF InvitesKnown
  <2> QED BY <2>1, <2>2, <2>5, Ending
<1>5. ASSUME NEW r \in Requests, AcceptRefused(r) \/ RolledBack(r) PROVE TypeInv'
  BY <1>5, Ending DEF AcceptRefused, RolledBack, history, InvitesKnown
<1>6. ASSUME NEW r \in Requests, AddCommit(r) PROVE TypeInv'
  <2>1. req[r].who \in People
    BY <1>6, RequestKinds DEF AddCommit, Done, Adding
  <2> QED BY <1>6, <2>1, Ending DEF AddCommit, Done, history, InvitesKnown
<1>7. ASSUME NEW r \in Requests, DropCommit(r) PROVE TypeInv'
  BY <1>7, Ending DEF DropCommit, Done, history, InvitesKnown
<1>8. ASSUME NEW r \in Requests, KickCommit(r) PROVE TypeInv'
  BY <1>8, Ending DEF KickCommit, Done, history, InvitesKnown
<1>9. ASSUME NEW p \in People, Delete(p) PROVE TypeInv'
  BY <1>9 DEF Delete, Space, history, InvitesKnown
<1>10. ASSUME NEW p \in People, Mint(p) PROVE TypeInv'
  <2>1. PICK role \in Grantable : Minted(role)
    BY <1>10 DEF Mint
  <2> DEFINE x == [role |-> role, expired |-> FALSE, by |-> NoOne]
  <2>2. x \in Invite /\ x # NoInvite
    BY InviteIsThere DEF Invite
  <2>3. minted + 1 \in Invites /\ minted' = minted + 1 /\ invite' = [invite EXCEPT ![minted + 1] = x]
    BY <2>1 DEF Minted, Invites
  <2> HIDE DEF x
  <2>4. \A r \in Requests : req[r].at = "accept" => req[r].invite \in Invites
    BY RequestKinds DEF Accepting
  <2>5. InvitesKnown'
    BY <2>1, <2>2, <2>3, <2>4 DEF InvitesKnown, Minted, Invites
  <2> QED BY <2>1, <2>2, <2>3, <2>5 DEF Minted, history
<1>11. ASSUME NEW n \in Invites, Expire(n) PROVE TypeInv'
  <2>1. invite[n] # NoInvite /\ invite' = [invite EXCEPT ![n].expired = TRUE]
    BY <1>11 DEF Expire, Spendable
  <2>2. [invite[n] EXCEPT !.expired = TRUE] \in Invite
    BY <2>1, InviteRows
  <2>3. invite'[n] \in Invite /\ \A m \in Invites \ {n} : invite'[m] = invite[m]
    BY <2>1, <2>2
  <2>4. \A m \in Invites : invite'[m] = NoInvite <=> invite[m] = NoInvite
    BY <2>1, <2>3, InviteIsThere
  <2>5. \A r \in Requests : req[r].at = "accept" => req[r].invite \in Invites
    BY RequestKinds DEF Accepting
  <2>6. InvitesKnown'
    BY <1>11, <2>4, <2>5 DEF Expire, InvitesKnown
  <2> QED BY <1>11, <2>1, <2>3, <2>6 DEF Expire, history
<1>12. ASSUME NEW i \in Items, Trash(i) PROVE TypeInv'
  BY <1>12 DEF Trash, history, InvitesKnown
<1>13. CASE UNCHANGED vars
  BY <1>13 DEF vars, InvitesKnown
<1> QED BY <1>1, <1>2, <1>3, <1>4, <1>5, <1>6, <1>7, <1>8, <1>9, <1>10, <1>11, <1>12, <1>13 DEF Next

\* The invariant holds in every state.
LEMMA TypeInvariance == Spec => []TypeInv
<1>1. Init => TypeInv
  BY DEF Init, TypeInv, TypeOK, InvitesKnown, Space, Idle
<1> QED BY <1>1, TypeNext, PTL DEF Spec

\* Every variable keeps its type, whoever asks for what and in whatever order it commits.
THEOREM SpacesTypeCorrect == Spec => []TypeOK
  BY TypeInvariance, PTL DEF TypeInv

-------------------------------------------------------------------------------
(* An invite lets one person in                                            *)

AcceptsInvite(r, n) == req[r].at = "accept" /\ req[r].invite = n

\* An invite that let somebody in is spent.
SpentOnAdmission == \A n \in Invites : admitted[n] # {} => invite[n].by # NoOne

\* Unless two requests met at an invite, one request at most is accepting it, it has let
\* nobody in by then, and it never lets in two.
OneAccepts ==
  \A n \in Invites \ contested :
    /\ \A q, r \in Requests : AcceptsInvite(q, n) /\ AcceptsInvite(r, n) => q = r
    /\ \A r \in Requests : AcceptsInvite(r, n) => admitted[n] = {}
    /\ \A p, q \in admitted[n] : p = q

SpentInv == TypeInv /\ SpentOnAdmission /\ OneAccepts

\* A step that neither accepts nor lets in, and does not take an invite back.
LEMMA SpentQuiet ==
  ASSUME SpentInv, TypeInv', UNCHANGED <<admitted, contested>>,
         \A x \in Requests : req'[x].at = "accept" => req'[x] = req[x],
         \A n \in Invites : invite[n].by # NoOne => invite'[n].by # NoOne
  PROVE  SpentInv'
<1>1. SpentOnAdmission'
  BY DEF SpentInv, SpentOnAdmission
<1>2. \A x \in Requests, n \in Invites : AcceptsInvite(x, n)' => AcceptsInvite(x, n)
  BY DEF AcceptsInvite
<1>3. OneAccepts'
  BY <1>2 DEF SpentInv, OneAccepts
<1> QED BY <1>1, <1>3 DEF SpentInv

\* Who is let in by an invite two requests did not meet at is the first.
LEMMA FirstIn ==
  ASSUME SpentInv, NEW r \in Requests, AcceptCommit(r)
  PROVE  req[r].invite \in contested \/ admitted[req[r].invite] = {}
<1>1. req[r].invite \in Invites /\ AcceptsInvite(r, req[r].invite)
  BY AcceptWrites DEF SpentInv, AcceptsInvite
<1> QED BY <1>1 DEF SpentInv, OneAccepts

\* Every step keeps it.
LEMMA SpentNext == SpentInv /\ [Next]_vars => SpentInv'
<1> SUFFICES ASSUME SpentInv, [Next]_vars PROVE SpentInv'
  OBVIOUS
<1>0. TypeInv /\ TypeOK /\ TypeInv' /\ TypeOK'
  BY TypeNext DEF SpentInv, TypeInv
<1>1. ASSUME NEW r \in Requests, req' = [req EXCEPT ![r] = Idle]
      PROVE  \A x \in Requests : req'[x].at = "accept" => req'[x] = req[x]
  BY <1>0, <1>1, Ending
<1>2. ASSUME NEW items \in SUBSET Items, Create(items) PROVE SpentInv'
  BY <1>0, <1>2, SpentQuiet DEF Create, history
<1>3. ASSUME NEW r \in Requests, Ask(r) PROVE SpentInv'
  <2>1. req'[r].at # "accept" /\ \A x \in Requests \ {r} : req'[x] = req[x]
    BY <1>0, <1>3, AskTypes DEF Adding, Dropping, Kicking
  <2> QED BY <1>0, <1>3, <2>1, SpentQuiet DEF Ask, history
<1>4. ASSUME NEW r \in Requests, NEW p \in People, NEW n \in Invites, AcceptRead(r, p, n) PROVE SpentInv'
  <2>1. /\ invite[n].by = NoOne /\ UNCHANGED <<invite, admitted>> /\ contested \subseteq contested'
        /\ req' = [req EXCEPT ![r] = [at |-> "accept", who |-> p, invite |-> n]]
    BY <1>4 DEF AcceptRead, Begin, Spendable
  <2>2. admitted[n] = {}
    BY <2>1 DEF SpentInv, SpentOnAdmission
  <2>3. /\ \A x \in Requests \ {r} : req'[x] = req[x]
        /\ req'[r].invite = n
    BY <1>0, <2>1 DEF TypeOK
  <2>4. SpentOnAdmission'
    BY <2>1 DEF SpentInv, SpentOnAdmission
  <2>5. ASSUME NEW m \in Invites \ contested' PROVE
          /\ \A q, x \in Requests : AcceptsInvite(q, m)' /\ AcceptsInvite(x, m)' => q = x
          /\ \A x \in Requests : AcceptsInvite(x, m)' => admitted[m] = {}
          /\ \A p1, p2 \in admitted[m] : p1 = p2
    <3>1. m \in Invites \ contested
      BY <2>1, <2>5
    <3>2. \A x \in Requests \ {r} : AcceptsInvite(x, m)' <=> AcceptsInvite(x, m)
      BY <2>3 DEF AcceptsInvite
    <3>3. AcceptsInvite(r, m)' => m = n /\ \A x \in Requests : ~AcceptsInvite(x, m)
      BY <1>4, <2>3, <2>5 DEF AcceptsInvite, AcceptRead
    <3> QED BY <2>2, <3>1, <3>2, <3>3 DEF SpentInv, OneAccepts
  <2>6. OneAccepts'
    BY <2>1, <2>5 DEF OneAccepts
  <2> QED BY <1>0, <2>4, <2>6 DEF SpentInv
<1>5. ASSUME NEW r \in Requests, AcceptCommit(r),
             NEW CONSTANT n, n = req[r].invite, NEW CONSTANT p, p = req[r].who
      PROVE  SpentInv'
  <2>1. /\ n \in Invites /\ p \in People /\ req[r].at = "accept"
        /\ invite' = [invite EXCEPT ![n].by = p] /\ invite'[n].by = p
        /\ admitted' = [admitted EXCEPT ![n] = @ \cup {p}]
        /\ req' = [req EXCEPT ![r] = Idle] /\ contested' = contested
    BY <1>0, <1>5, AcceptWrites
  <2>2. /\ \A m \in Invites \ {n} : invite'[m] = invite[m] /\ admitted'[m] = admitted[m]
        /\ admitted'[n] = admitted[n] \cup {p}
    BY <1>0, <2>1 DEF TypeOK
  <2>3. SpentOnAdmission'
    BY <1>0, <2>1, <2>2 DEF SpentInv, SpentOnAdmission
  <2>4. /\ \A x \in Requests, m \in Invites : AcceptsInvite(x, m)' => x # r /\ AcceptsInvite(x, m)
    BY <1>0, <2>1, Ending DEF AcceptsInvite
  <2>5. n \in contested \/ admitted[n] = {}
    BY <1>5, FirstIn
  <2>6. AcceptsInvite(r, n)
    BY <1>5, <2>1 DEF AcceptsInvite
  <2>7. n \in contested \/ \A x \in Requests : ~AcceptsInvite(x, n)'
    BY <2>1, <2>4, <2>6 DEF SpentInv, OneAccepts
  <2>8. OneAccepts'
    BY <1>0, <2>1, <2>2, <2>4, <2>5, <2>7 DEF SpentInv, OneAccepts
  <2> QED BY <1>0, <2>3, <2>8 DEF SpentInv
<1>6. ASSUME NEW r \in Requests, AcceptRefused(r) \/ RolledBack(r) PROVE SpentInv'
  BY <1>0, <1>1, <1>6, SpentQuiet DEF AcceptRefused, RolledBack, history
<1>7. ASSUME NEW r \in Requests, AddCommit(r) \/ DropCommit(r) \/ KickCommit(r) PROVE SpentInv'
  BY <1>0, <1>1, <1>7, SpentQuiet DEF AddCommit, DropCommit, KickCommit, Done, history
<1>8. ASSUME NEW p \in People, Delete(p) PROVE SpentInv'
  BY <1>0, <1>8, SpentQuiet DEF Delete, history
<1>9. ASSUME NEW p \in People, Mint(p) PROVE SpentInv'
  <2>1. PICK role \in Grantable : Minted(role)
    BY <1>9 DEF Mint
  <2>2. minted + 1 \in Invites /\ invite[minted + 1] = NoInvite
    BY <1>0, <2>1 DEF Minted, Invites, TypeInv, InvitesKnown, TypeOK
  <2>3. \A m \in Invites : invite[m].by # NoOne => invite'[m] = invite[m]
    BY <1>0, <2>1, <2>2 DEF Minted, NoInvite, TypeOK
  <2> QED BY <1>0, <2>1, <2>3, SpentQuiet DEF Minted, history
<1>10. ASSUME NEW n \in Invites, Expire(n) PROVE SpentInv'
  <2>1. invite[n] # NoInvite /\ invite' = [invite EXCEPT ![n].expired = TRUE]
    BY <1>10 DEF Expire, Spendable
  <2>2. \A m \in Invites : invite'[m].by = invite[m].by
    BY <1>0, <2>1, InviteRows DEF TypeOK
  <2> QED BY <1>0, <1>10, <2>2, SpentQuiet DEF Expire, history
<1>11. ASSUME NEW i \in Items, Trash(i) PROVE SpentInv'
  BY <1>0, <1>11, SpentQuiet DEF Trash, history
<1>12. CASE UNCHANGED vars
  BY <1>0, <1>12, SpentQuiet DEF vars
<1> QED BY <1>2, <1>3, <1>4, <1>5, <1>6, <1>7, <1>8, <1>9, <1>10, <1>11, <1>12 DEF Next, SpentInv

\* It holds in every state.
LEMMA SpentInvariance == Spec => []SpentInv
<1>1. Init => SpentInv
  <2> SUFFICES ASSUME Init PROVE SpentInv
    OBVIOUS
  <2>1. TypeInv
    BY DEF Init, TypeInv, TypeOK, InvitesKnown, Space, Idle
  <2> QED BY <2>1 DEF Init, SpentInv, SpentOnAdmission, OneAccepts, AcceptsInvite, Idle
<1> QED BY <1>1, SpentNext, PTL DEF Spec

\* An invite lets one person in, unless two requests were accepting it at once.
THEOREM SpacesInviteAdmitsOne == Spec => []InviteAdmitsOne
<1>1. ASSUME NEW S, \A p, q \in S : p = q PROVE Cardinality(S) <= 1
  <2>1. CASE S = {}
    BY <2>1, FS_EmptySet
  <2>2. CASE S # {}
    <3>1. PICK p : p \in S
      BY <2>2
    <3>2. S = {p}
      BY <1>1, <3>1
    <3> QED BY <3>2, FS_Singleton
  <2> QED BY <2>1, <2>2
<1>2. SpentInv => InviteAdmitsOne
  BY <1>1 DEF SpentInv, OneAccepts, InviteAdmitsOne
<1> QED BY <1>2, SpentInvariance, PTL

\* Whoever comes in spends an invite by it, and one that nobody had used unless two requests
\* met at it: accepting is the only step that gives a role to a person who has none.
THEOREM SpacesAdmissionSpendsAnInvite == Spec => AdmissionSpendsAnInvite
<1> DEFINE Comes(p) == member[p] = "none" /\ member'[p] # "none"
           Paid(p) == \E n \in Invites : /\ p \in admitted'[n] /\ invite'[n].by = p
                                         /\ n \in contested \/ admitted[n] = {}
<1>1. ASSUME SpentInv, [Next]_vars PROVE [\A p \in People : Comes(p) => Paid(p)]_vars
  <2>0. TypeInv /\ TypeOK
    BY <1>1 DEF SpentInv, TypeInv
  <2>1. ASSUME NEW p \in People, Comes(p), NEW r \in Requests, AcceptCommit(r) PROVE Paid(p)
    <3> DEFINE n == req[r].invite
    <3>1. /\ n \in Invites /\ req[r].who \in People
          /\ member' = IF req[r].who = Owner THEN member
                       ELSE [member EXCEPT ![req[r].who] = invite[n].role]
          /\ invite'[n].by = req[r].who
          /\ admitted' = [admitted EXCEPT ![n] = @ \cup {req[r].who}]
      BY <2>0, <2>1, AcceptWrites
    <3>2. p = req[r].who
      BY <2>0, <2>1, <3>1 DEF TypeOK
    <3>3. p \in admitted'[n] /\ invite'[n].by = p
      BY <2>0, <3>1, <3>2 DEF TypeOK
    <3> QED BY <1>1, <2>1, <3>1, <3>3, FirstIn
  <2>2. ASSUME NEW p \in People, Comes(p), NEW r \in Requests, KickCommit(r) PROVE FALSE
    BY <2>0, <2>2 DEF KickCommit, TypeOK
  <2>3. ASSUME NEW p \in People, Comes(p) PROVE Paid(p) \/ UNCHANGED vars
    <3>1. member' # member
      BY <2>3
    <3>2. \E r \in Requests : AcceptCommit(r) \/ KickCommit(r)
      BY <1>1, <3>1 DEF Next, vars, history, Create, Ask, AcceptRead, AcceptRefused, AddCommit, DropCommit,
           RolledBack, Delete, Mint, Minted, Expire, Trash
    <3> QED BY <2>1, <2>2, <2>3, <3>2
  <2> QED BY <2>3
<1> QED BY <1>1, SpentInvariance, PTL DEF Spec, AdmissionSpendsAnInvite

-------------------------------------------------------------------------------
(* What is on the shelf was contributed                                     *)

\* p owns the Space, or some invite let p in as an editor.
LetInToEdit(p) == p = Owner \/ \E n \in Invites : p \in admitted[n] /\ invite[n].role = "editor"

\* An editor was let in as one.
EditorsWereLetIn == \A p \in People : member[p] = "editor" => LetInToEdit(p)

\* A request that is filing memories files the asker's own, and the asker was let in to edit.
AddsAreTheAskers ==
  \A r \in Requests : req[r].at = "add" =>
    /\ \A i \in req[r].items : OwnerOf[i] = req[r].who
    /\ LetInToEdit(req[r].who)

ShelfInv == TypeInv /\ EditorsWereLetIn /\ AddsAreTheAskers /\ ShelfIsContributed

\* No step takes back that somebody was let in, or as what.
AdmissionsStay ==
  \A n \in Invites : /\ admitted[n] \subseteq admitted'[n]
                     /\ invite[n].role = "editor" => invite'[n].role = "editor"

\* So who was let in to edit stays let in.
LEMMA LetInStays ==
  ASSUME AdmissionsStay
  PROVE  \A p : LetInToEdit(p) => LetInToEdit(p)'
  BY DEF AdmissionsStay, LetInToEdit

\* No step takes an admission back.
LEMMA StepKeepsAdmissions == TypeInv /\ [Next]_vars => AdmissionsStay
<1> SUFFICES ASSUME TypeInv, [Next]_vars PROVE AdmissionsStay
  OBVIOUS
<1>0. TypeOK
  BY DEF TypeInv
<1>1. CASE UNCHANGED <<invite, admitted>>
  BY <1>1 DEF AdmissionsStay
<1>2. ASSUME NEW r \in Requests, AcceptCommit(r) PROVE AdmissionsStay
  <2> DEFINE n == req[r].invite
  <2>1. /\ n \in Invites /\ invite' = [invite EXCEPT ![n].by = req[r].who]
        /\ invite'[n].role = invite[n].role
        /\ admitted' = [admitted EXCEPT ![n] = @ \cup {req[r].who}]
    BY <1>2, AcceptWrites
  <2>2. \A m \in Invites \ {n} : invite'[m] = invite[m] /\ admitted'[m] = admitted[m]
    BY <1>0, <2>1 DEF TypeOK
  <2> QED BY <1>0, <2>1, <2>2 DEF AdmissionsStay, TypeOK
<1>3. ASSUME NEW p \in People, Mint(p) PROVE AdmissionsStay
  <2>1. PICK role \in Grantable : Minted(role)
    BY <1>3 DEF Mint
  <2>2. minted + 1 \in Invites /\ invite[minted + 1] = NoInvite
    BY <1>0, <2>1 DEF Minted, Invites, TypeInv, InvitesKnown, TypeOK
  <2>3. \A m \in Invites : invite[m].role = "editor" => invite'[m] = invite[m]
    BY <1>0, <2>1, <2>2 DEF Minted, NoInvite, TypeOK
  <2> QED BY <2>1, <2>3 DEF Minted, history, AdmissionsStay
<1>4. ASSUME NEW n \in Invites, Expire(n) PROVE AdmissionsStay
  <2>1. invite[n] # NoInvite /\ invite' = [invite EXCEPT ![n].expired = TRUE]
    BY <1>4 DEF Expire, Spendable
  <2>2. \A m \in Invites : invite'[m].role = invite[m].role
    BY <1>0, <2>1, InviteRows DEF TypeOK
  <2> QED BY <1>4, <2>2 DEF Expire, history, AdmissionsStay
<1>5. \/ UNCHANGED <<invite, admitted>>
      \/ \E r \in Requests : AcceptCommit(r)
      \/ \E p \in People : Mint(p)
      \/ \E n \in Invites : Expire(n)
  BY DEF Next, vars, history, Create, Ask, AcceptRead, AcceptRefused, AddCommit, DropCommit, KickCommit,
     RolledBack, Delete, Trash
<1> QED BY <1>1, <1>2, <1>3, <1>4, <1>5

\* A step that makes no editor, starts no filing and files nothing.
LEMMA ShelfQuiet ==
  ASSUME ShelfInv, TypeInv', AdmissionsStay,
         \A p \in People : member'[p] = "editor" => member[p] = "editor",
         \A r \in Requests : req'[r].at = "add" => req'[r] = req[r],
         \A i \in Items : shelf'[i] # NoOne => shelf'[i] = shelf[i]
  PROVE  ShelfInv'
<1>1. \A p : LetInToEdit(p) => LetInToEdit(p)'
  BY LetInStays
<1>2. EditorsWereLetIn'
  BY <1>1 DEF ShelfInv, EditorsWereLetIn
<1>3. AddsAreTheAskers'
  <2> SUFFICES ASSUME NEW r \in Requests, req'[r].at = "add"
               PROVE  /\ \A i \in req'[r].items : OwnerOf[i] = req'[r].who
                      /\ LetInToEdit(req[r].who)'
    BY DEF AddsAreTheAskers
  <2>1. req'[r] = req[r] /\ LetInToEdit(req[r].who) /\ \A i \in req[r].items : OwnerOf[i] = req[r].who
    BY DEF ShelfInv, AddsAreTheAskers
  <2> QED BY <2>1 DEF AdmissionsStay, LetInToEdit
<1>4. ShelfIsContributed'
  <2> SUFFICES ASSUME NEW i \in Items, shelf'[i] # NoOne
               PROVE  shelf'[i] = OwnerOf[i] /\ LetInToEdit(shelf[i])'
    BY DEF ShelfIsContributed, LetInToEdit
  <2>1. shelf'[i] = shelf[i] /\ shelf[i] = OwnerOf[i] /\ LetInToEdit(shelf[i])
    BY DEF ShelfInv, ShelfIsContributed, LetInToEdit
  <2> QED BY <2>1 DEF AdmissionsStay, LetInToEdit
<1> QED BY <1>2, <1>3, <1>4 DEF ShelfInv

\* Who may edit owns the Space or is its editor.
LEMMA MayEdit ==
  ASSUME TypeOK, NEW p \in People, May(p, "editor")
  PROVE  p = Owner \/ member[p] = "editor"
<1>1. member[p] \in {"viewer", "editor", "none"}
  BY DEF TypeOK, Grantable
<1> QED BY <1>1 DEF May, CanView, RoleOf, Rank

\* Every step keeps it.
LEMMA ShelfNext == ShelfInv /\ [Next]_vars => ShelfInv'
<1> SUFFICES ASSUME ShelfInv, [Next]_vars PROVE ShelfInv'
  OBVIOUS
<1>0. TypeInv /\ TypeOK /\ TypeInv' /\ TypeOK' /\ AdmissionsStay
  BY TypeNext, StepKeepsAdmissions DEF ShelfInv, TypeInv
<1>1. ASSUME NEW r \in Requests, req' = [req EXCEPT ![r] = Idle]
      PROVE  \A x \in Requests : req'[x].at = "add" => req'[x] = req[x]
  BY <1>0, <1>1, Ending
<1>2. ASSUME NEW items \in SUBSET Items, Create(items) PROVE ShelfInv'
  <2>1. \A i \in Items : shelf'[i] # NoOne => shelf'[i] = Owner /\ OwnerOf[i] = Owner
    BY <1>2 DEF Create, Attachable, Readable
  <2>2. ShelfIsContributed'
    BY <2>1 DEF ShelfIsContributed
  <2>3. \A p : LetInToEdit(p)' <=> LetInToEdit(p)
    BY <1>2 DEF Create, history, LetInToEdit
  <2>4. UNCHANGED <<member, req, admitted, invite>>
    BY <1>2 DEF Create, history
  <2>5. EditorsWereLetIn' /\ AddsAreTheAskers'
    BY <2>4 DEF ShelfInv, EditorsWereLetIn, AddsAreTheAskers, LetInToEdit
  <2> QED BY <1>0, <2>2, <2>5 DEF ShelfInv
<1>3. ASSUME NEW r \in Requests, Ask(r) PROVE ShelfInv'
  <2>1. /\ UNCHANGED <<member, shelf, admitted, invite>>
        /\ \A x \in Requests \ {r} : req'[x] = req[x]
        /\ req'[r] \in Adding \cup Dropping \cup Kicking
        /\ req'[r] \in Adding =>
             \E p \in People, items \in SUBSET Items :
               /\ May(p, "editor")
               /\ req'[r] = [at |-> "add", who |-> p, items |-> Attachable(items, p)]
    BY <1>0, <1>3, AskTypes DEF history
  <2>2. CASE req'[r] \in Adding
    <3>1. PICK p \in People, items \in SUBSET Items :
            /\ May(p, "editor")
            /\ req'[r] = [at |-> "add", who |-> p, items |-> Attachable(items, p)]
      BY <2>1, <2>2
    <3>2. LetInToEdit(p)
      BY <1>0, <3>1, MayEdit DEF ShelfInv, EditorsWereLetIn, LetInToEdit
    <3>3. \A i \in Attachable(items, p) : OwnerOf[i] = p
      BY DEF Attachable, Readable
    <3>4. ASSUME NEW x \in Requests, req'[x].at = "add"
          PROVE  /\ \A i \in req'[x].items : OwnerOf[i] = req'[x].who
                 /\ LetInToEdit(req'[x].who)
      <4>1. CASE x = r
        BY <3>1, <3>2, <3>3, <4>1
      <4>2. CASE x # r
        BY <2>1, <3>4, <4>2 DEF ShelfInv, AddsAreTheAskers
      <4> QED BY <4>1, <4>2
    <3>5. AddsAreTheAskers'
      BY <2>1, <3>4 DEF AddsAreTheAskers, LetInToEdit
    <3>6. EditorsWereLetIn' /\ ShelfIsContributed'
      BY <2>1 DEF ShelfInv, EditorsWereLetIn, ShelfIsContributed, LetInToEdit
    <3> QED BY <1>0, <3>5, <3>6 DEF ShelfInv
  <2>3. CASE req'[r] \notin Adding
    <3>1. req'[r].at # "add"
      BY <2>1, <2>3 DEF Dropping, Kicking
    <3> QED BY <1>0, <2>1, <3>1, ShelfQuiet
  <2> QED BY <2>2, <2>3
<1>4. ASSUME NEW r \in Requests, NEW p \in People, NEW n \in Invites, AcceptRead(r, p, n) PROVE ShelfInv'
  <2>1. \A x \in Requests : req'[x].at = "add" => req'[x] = req[x]
    BY <1>0, <1>4 DEF AcceptRead, Begin, TypeOK
  <2> QED BY <1>0, <1>4, <2>1, ShelfQuiet DEF AcceptRead
<1>5. ASSUME NEW r \in Requests, AcceptCommit(r),
             NEW CONSTANT n, n = req[r].invite, NEW CONSTANT p, p = req[r].who
      PROVE  ShelfInv'
  <2>1. /\ n \in Invites /\ p \in People
        /\ member' = IF p = Owner THEN member ELSE [member EXCEPT ![p] = invite[n].role]
        /\ invite'[n].role = invite[n].role
        /\ admitted' = [admitted EXCEPT ![n] = @ \cup {p}]
        /\ req' = [req EXCEPT ![r] = Idle] /\ UNCHANGED shelf
    BY <1>0, <1>5, AcceptWrites
  <2>2. p \in admitted'[n]
    BY <1>0, <2>1 DEF TypeOK
  <2>3. invite[n].role = "editor" => LetInToEdit(p)'
    BY <2>1, <2>2 DEF LetInToEdit
  <2>4. \A q : LetInToEdit(q) => LetInToEdit(q)'
    BY <1>0, LetInStays
  <2>5. EditorsWereLetIn'
    BY <1>0, <2>1, <2>3, <2>4 DEF ShelfInv, EditorsWereLetIn, TypeOK
  <2>6. AddsAreTheAskers'
    <3> SUFFICES ASSUME NEW x \in Requests, req'[x].at = "add"
                 PROVE  /\ \A i \in req'[x].items : OwnerOf[i] = req'[x].who
                        /\ LetInToEdit(req[x].who)'
      BY DEF AddsAreTheAskers
    <3>1. req'[x] = req[x]
      BY <1>1, <2>1
    <3>2. LetInToEdit(req[x].who) /\ \A i \in req[x].items : OwnerOf[i] = req[x].who
      BY <3>1 DEF ShelfInv, AddsAreTheAskers
    <3> QED BY <1>0, <3>1, <3>2 DEF AdmissionsStay, LetInToEdit
  <2>7. ShelfIsContributed'
    BY <1>0, <2>1 DEF ShelfInv, ShelfIsContributed, AdmissionsStay
  <2> QED BY <1>0, <2>5, <2>6, <2>7 DEF ShelfInv
<1>6. ASSUME NEW r \in Requests, AcceptRefused(r) \/ RolledBack(r) PROVE ShelfInv'
  BY <1>0, <1>1, <1>6, ShelfQuiet DEF AcceptRefused, RolledBack
<1>7. ASSUME NEW r \in Requests, AddCommit(r) PROVE ShelfInv'
  <2>1. /\ req[r].at = "add" /\ req' = [req EXCEPT ![r] = Idle]
        /\ UNCHANGED <<member, invite, admitted>>
    BY <1>7 DEF AddCommit, Done, history
  <2>2. /\ LetInToEdit(req[r].who)
        /\ \A i \in req[r].items : OwnerOf[i] = req[r].who
    BY <2>1 DEF ShelfInv, AddsAreTheAskers
  <2>3. \A i \in Items : \/ shelf'[i] = shelf[i]
                         \/ i \in req[r].items /\ shelf'[i] = req[r].who
    BY <1>7 DEF AddCommit
  <2>4. \A i \in Items : shelf'[i] # NoOne => shelf'[i] = OwnerOf[i] /\ LetInToEdit(shelf'[i])
    BY <2>2, <2>3 DEF ShelfInv, ShelfIsContributed, LetInToEdit
  <2>5. ShelfIsContributed'
    BY <2>1, <2>4 DEF ShelfIsContributed, LetInToEdit
  <2>6. EditorsWereLetIn'
    BY <2>1 DEF ShelfInv, EditorsWereLetIn, LetInToEdit
  <2>7. \A x \in Requests : req'[x].at = "add" => req'[x] = req[x]
    BY <1>1, <2>1
  <2>8. AddsAreTheAskers'
    BY <2>1, <2>7 DEF ShelfInv, AddsAreTheAskers, LetInToEdit
  <2> QED BY <1>0, <2>5, <2>6, <2>8 DEF ShelfInv
<1>8. ASSUME NEW r \in Requests, DropCommit(r) PROVE ShelfInv'
  <2>1. \A i \in Items : shelf'[i] # NoOne => shelf'[i] = shelf[i]
    BY <1>0, <1>8 DEF DropCommit, TypeOK
  <2> QED BY <1>0, <1>1, <1>8, <2>1, ShelfQuiet DEF DropCommit, Done
<1>9. ASSUME NEW r \in Requests, KickCommit(r) PROVE ShelfInv'
  <2>1. \A p \in People : member'[p] = "editor" => member[p] = "editor"
    BY <1>0, <1>9 DEF KickCommit, TypeOK
  <2> QED BY <1>0, <1>1, <1>9, <2>1, ShelfQuiet DEF KickCommit, Done
<1>10. ASSUME NEW p \in People, Delete(p) \/ Mint(p) PROVE ShelfInv'
  BY <1>0, <1>10, ShelfQuiet DEF Delete, Mint, Minted
<1>11. ASSUME NEW n \in Invites, Expire(n) PROVE ShelfInv'
  BY <1>0, <1>11, ShelfQuiet DEF Expire
<1>12. ASSUME NEW i \in Items, Trash(i) PROVE ShelfInv'
  BY <1>0, <1>12, ShelfQuiet DEF Trash
<1>13. CASE UNCHANGED vars
  BY <1>0, <1>13, ShelfQuiet DEF vars
<1> QED BY <1>2, <1>3, <1>4, <1>5, <1>6, <1>7, <1>8, <1>9, <1>10, <1>11, <1>12, <1>13 DEF Next

\* Everything on the shelf was filed by its own owner, who owns the Space or was let in as
\* an editor, however old the role was that the request read.
THEOREM SpacesShelfIsContributed == Spec => []ShelfIsContributed
<1>1. Init => ShelfInv
  <2> SUFFICES ASSUME Init PROVE ShelfInv
    OBVIOUS
  <2>1. TypeInv
    BY DEF Init, TypeInv, TypeOK, InvitesKnown, Space, Idle
  <2> QED BY <2>1 DEF Init, ShelfInv, EditorsWereLetIn, AddsAreTheAskers, ShelfIsContributed, Idle
<1>2. ShelfInv => ShelfIsContributed
  BY DEF ShelfInv
<1> QED BY <1>1, <1>2, ShelfNext, PTL DEF Spec

-------------------------------------------------------------------------------
(* The owner is counted apart                                              *)

\* Whoever has a membership row.
Members == {p \in People : member[p] # "none"}

\* The owner has none, and they are finitely many.
MemberInv == TypeInv /\ member[Owner] = "none" /\ IsFiniteSet(Members)

\* Every step keeps it: accepting an invite adds a row, unless it is the owner who accepts,
\* and removing a member takes one away.
LEMMA MemberNext == MemberInv /\ [Next]_vars => MemberInv'
<1> SUFFICES ASSUME MemberInv, [Next]_vars PROVE MemberInv'
  OBVIOUS
<1>0. TypeInv /\ TypeOK /\ TypeInv'
  BY TypeNext DEF MemberInv, TypeInv
<1>1. CASE UNCHANGED member
  BY <1>0, <1>1 DEF MemberInv, Members
<1>2. ASSUME NEW r \in Requests, AcceptCommit(r) PROVE MemberInv'
  <2>1. PICK p \in People, role \in Grantable :
          member' = IF p = Owner THEN member ELSE [member EXCEPT ![p] = role]
    BY <1>0, <1>2, AcceptWrites
  <2>2. member'[Owner] = "none"
    BY <1>0, <2>1 DEF MemberInv, TypeOK
  <2>3. Members' \subseteq Members \cup {p}
    BY <1>0, <2>1 DEF Members, TypeOK
  <2>4. IsFiniteSet(Members \cup {p})
    BY FS_AddElement DEF MemberInv
  <2> QED BY <1>0, <2>2, <2>3, <2>4, FS_Subset DEF MemberInv
<1>3. ASSUME NEW r \in Requests, KickCommit(r) PROVE MemberInv'
  <2>1. member'[Owner] = "none" /\ Members' \subseteq Members
    BY <1>0, <1>3 DEF KickCommit, MemberInv, Members, TypeOK
  <2> QED BY <1>0, <2>1, FS_Subset DEF MemberInv
<1>4. UNCHANGED member \/ \E r \in Requests : AcceptCommit(r) \/ KickCommit(r)
  BY DEF Next, vars, history, Create, Ask, AcceptRead, AcceptRefused, AddCommit, DropCommit,
     RolledBack, Delete, Mint, Minted, Expire, Trash
<1> QED BY <1>1, <1>2, <1>3, <1>4

\* The listing, the page and the counts agree on who is in the Space: no accepted invite
\* gives its owner a membership row, so that the owner, who is counted apart, is counted once.
THEOREM SpacesMembersAreCounted == Spec => []MembersAreCounted
<1>1. Init => MemberInv
  <2> SUFFICES ASSUME Init PROVE MemberInv
    OBVIOUS
  <2>1. TypeInv
    BY DEF Init, TypeInv, TypeOK, InvitesKnown, Space, Idle
  <2>2. member[Owner] = "none" /\ Members = {}
    BY DEF Init, Members
  <2> QED BY <2>1, <2>2, FS_EmptySet DEF MemberInv
<1>2. ASSUME MemberInv PROVE MembersAreCounted
  <2>0. \A p \in People : member[p] \in {"viewer", "editor", "none"}
    BY <1>2 DEF MemberInv, TypeInv, TypeOK, Grantable
  <2>1. \A p \in People : /\ Lists(p) <=> CanView(p)
                          /\ CanView(p) => ListedRole(p) = RoleOf(p)
    BY <2>0 DEF Lists, CanView, ListedRole, RoleOf
  <2>2. ASSUME Live PROVE MemberCount = Cardinality({p \in People : CanView(p)})
    <3>1. {p \in People : CanView(p)} = Members \cup {Owner}
      BY <2>0, <2>2 DEF CanView, RoleOf, Members
    <3>2. Owner \notin Members
      BY <1>2 DEF MemberInv, Members
    <3>3. Cardinality(Members \cup {Owner}) = Cardinality(Members) + 1
      BY <1>2, <3>2, FS_AddElement DEF MemberInv
    <3> QED BY <3>1, <3>3 DEF MemberCount, Members
  <2> QED BY <2>1, <2>2 DEF MembersAreCounted
<1> QED BY <1>1, <1>2, MemberNext, PTL DEF Spec

==============================================================================
