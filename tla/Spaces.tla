------------------------------- MODULE Spaces -------------------------------
(***************************************************************************)
(* A shared Space: services/space_service.py, repositories/space.py and    *)
(* the routes of api/v1/spaces.py and api/v1/public.py.                    *)
(*                                                                         *)
(* One Space, the people who may share it, and the memories they file in   *)
(* it.  Every request reads the caller's role once, and acts on it when it *)
(* commits: in between, others may be removed, memories trashed, invites   *)
(* spent and the Space deleted.                                            *)
(***************************************************************************)
EXTENDS Naturals, FiniteSets

CONSTANTS
    People,
    Owner,       \* spaces.user_id
    Items,       \* memories
    OwnerOf,     \* OwnerOf[i]: whose memory i is
    NoOne,
    Requests,    \* requests that may be in progress at once
    MaxInvites   \* bound: invites ever minted

ASSUME ConstantsAssumption ==
    /\ Owner \in People /\ NoOne \notin People
    /\ OwnerOf \in [Items -> People]
    /\ MaxInvites \in Nat

Invites == 1..MaxInvites

\* SpaceRole, and the order of privilege.
Rank == [viewer |-> 1, editor |-> 2, owner |-> 3]
Grantable == {"viewer", "editor"}

\* A row of space_invites; `by` is accepted_by.
Invite == [role : Grantable, expired : BOOLEAN, by : People \cup {NoOne}]
NoInvite == [by |-> NoOne, role |-> "none", expired |-> TRUE]

VARIABLES
    space,      \* the row of spaces: does it exist, deleted_at
    member,     \* space_members: the role of each person, or "none"
    shelf,      \* space_items: who added a memory, or NoOne
    trashed,    \* memories with deleted_at
    invite,     \* space_invites
    minted,     \* invites minted so far
    req,        \* the requests in progress
    admitted,   \* history: whom each invite has let in
    contested   \* history: invites that two requests were accepting at once

vars == <<space, member, shelf, trashed, invite, minted, req, admitted, contested>>
history == <<admitted, contested>>

Space == [there : BOOLEAN, deleted : BOOLEAN]

\* What a request has been allowed to do and has not committed yet.
Idle == [at |-> "idle"]
Adding == [at : {"add"}, who : People, items : SUBSET Items]
Dropping == [at : {"drop"}, item : Items]
Kicking == [at : {"kick"}, member : People]
Accepting == [at : {"accept"}, who : People, invite : Invites]

TypeOK ==
    /\ space \in Space
    /\ member \in [People -> Grantable \cup {"none"}]
    /\ shelf \in [Items -> People \cup {NoOne}]
    /\ trashed \subseteq Items
    /\ invite \in [Invites -> Invite \cup {NoInvite}]
    /\ minted \in 0..MaxInvites
    /\ req \in [Requests -> Adding \cup Dropping \cup Kicking \cup Accepting \cup {Idle}]
    /\ admitted \in [Invites -> SUBSET People]
    /\ contested \subseteq Invites

Init ==
    /\ space = [there |-> FALSE, deleted |-> FALSE]
    /\ member = [p \in People |-> "none"]
    /\ shelf = [i \in Items |-> NoOne]
    /\ trashed = {}
    /\ invite = [n \in Invites |-> NoInvite]
    /\ minted = 0
    /\ req = [r \in Requests |-> Idle]
    /\ admitted = [n \in Invites |-> {}]
    /\ contested = {}

-----------------------------------------------------------------------------
(* Readers *)

Live == space.there /\ ~space.deleted

\* get_for_viewer: the owner, then the membership row.
RoleOf(p) == IF ~Live THEN "none" ELSE IF p = Owner THEN "owner" ELSE member[p]
CanView(p) == RoleOf(p) # "none"

\* list_for_user: who sees the Space in a listing, and as what (roles_for_user).
Lists(p) == Live /\ (p = Owner \/ member[p] # "none")
ListedRole(p) == IF p = Owner THEN "owner" ELSE IF member[p] = "none" THEN "viewer" ELSE member[p]

\* count_members_bulk, and one for the owner.
MemberCount == Cardinality({p \in People : member[p] # "none"}) + 1

\* VaultRepository.get
Readable(i, p) == OwnerOf[i] = p /\ i \notin trashed

\* Mutant: whatever the caller names is filed.
AttachableAny(items, p) == items \ trashed
\* _attach: the caller's own memories among those they named.
Attachable(items, p) == {i \in items : Readable(i, p)}

-----------------------------------------------------------------------------
(* Asking: the role is read, and the request refused or allowed *)

\* Mutant: a viewer may do what an editor may.
MayAsViewer(p, role) == CanView(p) /\ (role = "owner" => p = Owner)
\* _viewable, then _require
May(p, role) == CanView(p) /\ Rank[RoleOf(p)] >= Rank[role]

Begin(r, q) ==
    /\ req[r] = Idle
    /\ req' = [req EXCEPT ![r] = q]

\* create, and the memories filed with it.
Create(items) ==
    /\ ~space.there
    /\ space' = [there |-> TRUE, deleted |-> FALSE]
    /\ shelf' = [i \in Items |-> IF i \in Attachable(items, Owner) THEN Owner ELSE NoOne]
    /\ UNCHANGED <<member, trashed, invite, minted, req, history>>

\* add_items, remove_item, remove_member (others, or oneself).
AskAdd(r, p, items) == May(p, "editor")
    /\ Begin(r, [at |-> "add", who |-> p, items |-> Attachable(items, p)])
AskDrop(r, p, i) == May(p, "editor") /\ shelf[i] # NoOne
    /\ Begin(r, [at |-> "drop", item |-> i])
AskKick(r, p, m) == May(p, IF m = p THEN "viewer" ELSE "owner") /\ m # Owner /\ member[m] # "none"
    /\ Begin(r, [at |-> "kick", member |-> m])

Ask(r) ==
    /\ \E p \in People :
          \/ \E items \in SUBSET Items \ {{}} : AskAdd(r, p, items)
          \/ \E i \in Items : AskDrop(r, p, i)
          \/ \E m \in People : AskKick(r, p, m)
    /\ UNCHANGED <<space, member, shelf, trashed, invite, minted, history>>

-----------------------------------------------------------------------------
(* What only the owner may do.  Nobody else can change the owner's role, so reading it and
   committing is one step. *)

\* delete: the rows stay, deleted_at is set.
Delete(p) ==
    /\ May(p, "owner")
    /\ space' = [space EXCEPT !.deleted = TRUE]
    /\ UNCHANGED <<member, shelf, trashed, invite, minted, req, history>>

\* create_invite
Minted(role) ==
    /\ minted < MaxInvites
    /\ minted' = minted + 1
    /\ invite' = [invite EXCEPT ![minted + 1] =
                    [role |-> role, expired |-> FALSE, by |-> NoOne]]
    /\ UNCHANGED <<space, member, shelf, trashed, req, history>>
Mint(p) == May(p, "owner") /\ \E role \in Grantable : Minted(role)

-----------------------------------------------------------------------------
(* Accepting an invite *)

\* Mutant: accepted_at is not looked at.
SpendableAgain(n) == invite[n] # NoInvite /\ ~invite[n].expired
\* Neither spent nor expired.
Spendable(n) == invite[n] # NoInvite /\ invite[n].by = NoOne /\ ~invite[n].expired

\* accept_invite: the row is read, without a lock, and found good.
AcceptRead(r, p, n) ==
    /\ Spendable(n)
    /\ Begin(r, [at |-> "accept", who |-> p, invite |-> n])
    /\ contested' = IF \E x \in Requests : req[x].at = "accept" /\ req[x].invite = n
                    THEN contested \cup {n} ELSE contested
    /\ UNCHANGED <<space, member, shelf, trashed, invite, minted, admitted>>

\* The Space was deleted: the row is marked as spent, and the exception that answers 404
\* rolls the request back.
AcceptRefused(r) ==
    /\ req[r].at = "accept" /\ ~Live
    /\ req' = [req EXCEPT ![r] = Idle]
    /\ UNCHANGED <<space, member, shelf, trashed, invite, minted, history>>

\* add_member: an upsert, skipped for the owner.
Granted(p, role) == IF p = Owner THEN member ELSE [member EXCEPT ![p] = role]

\* Mutant: only a person who was not yet a member spends the invite.
SpentByNewcomer(n, p) == IF member[p] = "none" THEN p ELSE invite[n].by
\* accepted_at and accepted_by.
Spent(n, p) == p

\* The invite is spent and the role granted; get_live and the summary of the answer found
\* the Space.
AcceptCommit(r) ==
    LET n == req[r].invite
        p == req[r].who
    IN  /\ req[r].at = "accept" /\ Live
        /\ member' = Granted(p, invite[n].role)
        /\ invite' = [invite EXCEPT ![n].by = Spent(n, p)]
        /\ admitted' = [admitted EXCEPT ![n] = @ \cup {p}]
        /\ req' = [req EXCEPT ![r] = Idle]
        /\ UNCHANGED <<space, shelf, trashed, minted, contested>>

-----------------------------------------------------------------------------
(* Committing the other requests *)

Done(r, at) == req[r].at = at /\ req' = [req EXCEPT ![r] = Idle]

\* ON CONFLICT DO NOTHING: a memory that is filed already keeps who added it.
AddCommit(r) ==
    /\ Done(r, "add")
    /\ shelf' = [i \in Items |-> IF i \in req[r].items /\ shelf[i] = NoOne
                                 THEN req[r].who ELSE shelf[i]]
    /\ UNCHANGED <<space, member, trashed, invite, minted, history>>

DropCommit(r) ==
    /\ Done(r, "drop")
    /\ shelf' = [shelf EXCEPT ![req[r].item] = NoOne]
    /\ UNCHANGED <<space, member, trashed, invite, minted, history>>

KickCommit(r) ==
    /\ Done(r, "kick")
    /\ member' = [member EXCEPT ![req[r].member] = "none"]
    /\ UNCHANGED <<space, shelf, trashed, invite, minted, history>>

\* The request fails, or its process dies.
RolledBack(r) ==
    /\ req[r] # Idle
    /\ req' = [req EXCEPT ![r] = Idle]
    /\ UNCHANGED <<space, member, shelf, trashed, invite, minted, history>>

-----------------------------------------------------------------------------
(* The rest of the world *)

\* SPACE_INVITE_EXPIRE_DAYS; it makes no difference to an invite that is spent.
Expire(n) ==
    /\ Spendable(n)
    /\ invite' = [invite EXCEPT ![n].expired = TRUE]
    /\ UNCHANGED <<space, member, shelf, trashed, minted, req, history>>

\* A memory goes to the trash.
Trash(i) ==
    /\ i \notin trashed
    /\ trashed' = trashed \cup {i}
    /\ UNCHANGED <<space, member, shelf, invite, minted, req, history>>

Next ==
    \/ \E items \in SUBSET Items : Create(items)
    \/ \E r \in Requests :
           \/ Ask(r)
           \/ \E p \in People, n \in Invites : AcceptRead(r, p, n)
           \/ AcceptCommit(r) \/ AcceptRefused(r) \/ AddCommit(r) \/ DropCommit(r) \/ KickCommit(r)
           \/ RolledBack(r)
    \/ \E p \in People : Delete(p) \/ Mint(p)
    \/ \E n \in Invites : Expire(n)
    \/ \E i \in Items : Trash(i)

Spec == Init /\ [][Next]_vars

-----------------------------------------------------------------------------
(* What must hold *)

\* "Single-use": an invite lets one person in, unless two requests were accepting it at
\* once, which nothing in accept_invite prevents: the row is read without a lock.
InviteAdmitsOne == \A n \in Invites \ contested : Cardinality(admitted[n]) <= 1

\* Whoever comes in, or comes back after being removed, spends an invite by it: no request
\* that was allowed earlier lets a removed person in again.
AdmissionSpendsAnInvite ==
    [][\A p \in People : member[p] = "none" /\ member'[p] # "none" =>
          \E n \in Invites : /\ p \in admitted'[n] /\ invite'[n].by = p
                             /\ n \in contested \/ admitted[n] = {}]_vars

\* Everything on the shelf was filed by the person whose memory it is, and that person owns
\* the Space or was let in as an editor, however old the role was that the request read.
ShelfIsContributed ==
    \A i \in Items : shelf[i] # NoOne =>
        /\ shelf[i] = OwnerOf[i]
        /\ \/ shelf[i] = Owner
           \/ \E n \in Invites : shelf[i] \in admitted[n] /\ invite[n].role = "editor"

\* The listing, the page and the counts agree on who is in the Space: the owner is counted
\* apart and must never have a membership row as well.
MembersAreCounted ==
    /\ \A p \in People : Lists(p) <=> CanView(p)
    /\ \A p \in People : CanView(p) => ListedRole(p) = RoleOf(p)
    /\ Live => MemberCount = Cardinality({p \in People : CanView(p)})

\* "The Space was deleted after the link was sent.  Spend the token anyway."
RefusedIsSpent ==
    [][\A r \in Requests : AcceptRefused(r) => invite'[req[r].invite].by # NoOne]_vars
=============================================================================
