----------------------------- MODULE Connections -----------------------------
(***************************************************************************)
(* Connections between the memories of a vault: edges a person draws, and  *)
(* edges a scan of each new capture suggests.  An edge is one row per      *)
(* unordered pair; a decision about it is a column of that row.            *)
(*                                                                         *)
(* Requests that are one UPDATE are one step.  Drawing an edge, asking a   *)
(* model to label one, and the scan all read first, await, and write       *)
(* later: each is two steps, and anything may happen in between.           *)
(***************************************************************************)
EXTENDS Naturals, FiniteSets

CONSTANTS
  Items,           \* memories; a number, because ids are compared
  Users,
  Owner,           \* whose memory it is
  Relations,       \* the vocabulary of labels
  Symmetric,       \* the labels that read the same from both ends
  Callers,         \* concurrent requests that await in their middle
  Workers,         \* concurrent connection scans
  MaxPerItem,      \* settings.CONNECTION_MAX_PER_ITEM
  MaxCandidates,   \* settings.CONNECTION_MAX_CANDIDATES
  MaxRows          \* bound: rows ever inserted for one pair

ASSUME ConstantsAssumption ==
  /\ Items \subseteq Nat /\ IsFiniteSet(Items)
  /\ Owner \in [Items -> Users]
  /\ Symmetric \subseteq Relations
  /\ MaxPerItem \in Nat /\ MaxCandidates \in Nat /\ MaxRows \in Nat

VARIABLES
  life,    \* live, in the trash, or purged
  edge,    \* the memory_connections row of each pair, or NoEdge
  made,    \* rows ever inserted for each pair: the last one's identity
  call,    \* the request each caller is in the middle of
  scan     \* the scan each worker is in the middle of

vars == <<life, edge, made, call, scan>>
-------------------------------------------------------------------------------
Life   == {"live", "trashed", "purged"}
Status == {"suggested", "confirmed", "dismissed"}
Origin == {"user", "ai"}

\* pair_low and pair_high, as Postgres computes them.
Pair == {p \in Items \X Items : p[1] < p[2]}
PairOf(i, j) == IF i < j THEN <<i, j>> ELSE <<j, i>>

\* fromLow: the stored source is the pair's lower id.  confirmedAt and
\* dismissedAt: whether the column is set; scored: whether a similarity is.
Row == [id : 1..MaxRows, user : Users, fromLow : BOOLEAN, relation : Relations,
        origin : Origin, status : Status, scored : BOOLEAN,
        confirmedAt : BOOLEAN, dismissedAt : BOOLEAN]
NoEdge == [id |-> 0]

Source(p, fromLow) == IF fromLow THEN p[1] ELSE p[2]
Target(p, fromLow) == IF fromLow THEN p[2] ELSE p[1]

Idle == [pc |-> "idle"]
Drawing == [pc : {"draw"}, user : Users, source : Items, target : Items,
            relation : Relations]
Typing  == [pc : {"type"}, pair : Pair, seen : Row]
Scan    == [pc : {"judge"}, item : Items, found : SUBSET Items]

\* The type invariant.
TypeOK ==
  /\ life \in [Items -> Life]
  /\ edge \in [Pair -> Row \cup {NoEdge}]
  /\ made \in [Pair -> 0..MaxRows]
  /\ call \in [Callers -> Drawing \cup Typing \cup {Idle}]
  /\ scan \in [Workers -> Scan \cup {Idle}]

Init ==
  /\ life = [i \in Items |-> "live"]
  /\ edge = [p \in Pair |-> NoEdge]
  /\ made = [p \in Pair |-> 0]
  /\ call = [c \in Callers |-> Idle]
  /\ scan = [w \in Workers |-> Idle]
-------------------------------------------------------------------------------
(* Reads: what a person and the agent are shown.                           *)

Edges(u) == {p \in Pair : edge[p] # NoEdge /\ edge[p].user = u}
Shown(u, i) == life[i] = "live" /\ Owner[i] = u

\* Mutant: only the edges drawn from the memory.
NeighbourhoodOutgoing(u, i, statuses) ==
  {n \in {[pair |-> p, way |-> "outgoing", other |-> Target(p, edge[p].fromLow)] :
            p \in {q \in Edges(u) : /\ edge[q].status \in statuses
                                    /\ Source(q, edge[q].fromLow) = i}} :
     Shown(u, n.other)}

\* A memory's page: its outgoing half and its incoming half, the neighbour
\* still there and the caller's.
Neighbourhood(u, i, statuses) ==
  LET asked    == {p \in Edges(u) : edge[p].status \in statuses}
      source(p) == Source(p, edge[p].fromLow)
      target(p) == Target(p, edge[p].fromLow)
      outgoing == {[pair |-> p, way |-> "outgoing", other |-> target(p)] :
                     p \in {q \in asked : source(q) = i}}
      incoming == {[pair |-> p, way |-> "incoming", other |-> source(p)] :
                     p \in {q \in asked : target(q) = i}}
  IN {n \in outgoing \cup incoming : Shown(u, n.other)}

\* The badge beside a memory, and the hubs: every edge once per end, the far
\* end still there.
ConnectionCount(u, i) ==
  Cardinality({p \in Edges(u) :
    /\ edge[p].status = "confirmed"
    /\ \/ p[1] = i /\ Shown(u, p[2])
       \/ p[2] = i /\ Shown(u, p[1])})

\* The canvas, and the inbox of suggestions that is a part of it.
Graph(u, statuses) ==
  {p \in Edges(u) : edge[p].status \in statuses /\ Shown(u, p[1]) /\ Shown(u, p[2])}
Suggestions(u) == Graph(u, {"suggested"})
-------------------------------------------------------------------------------
(* Drawing an edge by hand.                                                *)

\* A symmetric edge is stored from its lower id, any other as it was drawn.
Orient(source, target, relation) ==
  relation \in Symmetric \/ source < target

\* Mutant: it is enough to own one of the two.
DrawReadOwnsOne(c, u, s, t, relation) ==
  /\ call[c] = Idle /\ s # t
  /\ Shown(u, s) \/ Shown(u, t)
  /\ call' = [call EXCEPT ![c] = [pc |-> "draw", user |-> u, source |-> s,
                                  target |-> t, relation |-> relation]]
  /\ UNCHANGED <<life, edge, made, scan>>

\* Both ends are read, scoped to the caller, and both must come back.
DrawRead(c, u, s, t, relation) ==
  /\ call[c] = Idle /\ s # t
  /\ Shown(u, s) /\ Shown(u, t)
  /\ call' = [call EXCEPT ![c] = [pc |-> "draw", user |-> u, source |-> s,
                                  target |-> t, relation |-> relation]]
  /\ UNCHANGED <<life, edge, made, scan>>

\* What ON CONFLICT DO UPDATE sets: the label and the decision, not the ends.
Revived(r, relation) ==
  [r EXCEPT !.relation = relation, !.origin = "user", !.status = "confirmed",
            !.scored = FALSE, !.confirmedAt = TRUE, !.dismissedAt = FALSE]

Drawn(id, c) ==
  [id |-> id, user |-> call[c].user,
   fromLow |-> Orient(call[c].source, call[c].target, call[c].relation),
   relation |-> call[c].relation, origin |-> "user", status |-> "confirmed",
   scored |-> FALSE, confirmedAt |-> TRUE, dismissedAt |-> FALSE]

\* The upsert, and the commit at the end of the request.
DrawWrite(c) ==
  /\ call[c] # Idle /\ call[c].pc = "draw"
  /\ LET p == PairOf(call[c].source, call[c].target) IN
     \/ /\ edge[p] # NoEdge
        /\ edge' = [edge EXCEPT ![p] = Revived(@, call[c].relation)]
        /\ UNCHANGED made
     \/ /\ edge[p] = NoEdge /\ made[p] < MaxRows
        /\ made' = [made EXCEPT ![p] = @ + 1]
        /\ edge' = [edge EXCEPT ![p] = Drawn(made[p] + 1, c)]
  /\ call' = [call EXCEPT ![c] = Idle]
  /\ UNCHANGED <<life, scan>>
-------------------------------------------------------------------------------
(* Asking a model how the two ends of an edge relate.                      *)

TypeRead(c, p) ==
  /\ call[c] = Idle
  /\ edge[p] # NoEdge
  /\ Shown(edge[p].user, p[1]) /\ Shown(edge[p].user, p[2])
  /\ call' = [call EXCEPT ![c] = [pc |-> "type", pair |-> p, seen |-> edge[p]]]
  /\ UNCHANGED <<life, edge, made, scan>>

\* Mutant: the whole loaded row is written back.
RetypedWhole(seen, now, relation, fromLow) ==
  [seen EXCEPT !.relation = relation, !.fromLow = fromLow]

\* The ORM writes the columns that differ from the row it loaded before the
\* model was asked.
Assign(was, new, now) == IF was = new THEN now ELSE new

Retyped(seen, now, relation, fromLow) ==
  [now EXCEPT !.relation = Assign(seen.relation, relation, @),
              !.fromLow = Assign(seen.fromLow, fromLow, @)]

\* The answer may ask for the ends to be swapped.  The row must still be the
\* one that was loaded, and the far end still there, or all is rolled back.
TypeWrite(c, relation, swap) ==
  /\ call[c] # Idle /\ call[c].pc = "type"
  /\ LET p == call[c].pair
         seen == call[c].seen
         fromLow == relation \in Symmetric \/ seen.fromLow # swap
     IN /\ edge[p].id = seen.id
        /\ Shown(seen.user, Target(p, fromLow))
        /\ edge' = [edge EXCEPT ![p] = Retyped(seen, @, relation, fromLow)]
  /\ call' = [call EXCEPT ![c] = Idle]
  /\ UNCHANGED <<life, made, scan>>

\* The model, the database or the client failed: nothing was written.
CallFails(c) ==
  /\ call[c] # Idle
  /\ call' = [call EXCEPT ![c] = Idle]
  /\ UNCHANGED <<life, edge, made, scan>>
-------------------------------------------------------------------------------
(* One-statement decisions.  A request that finds the far end gone answers  *)
(* "not found" and is rolled back.                                          *)

Decide(p, row) ==
  /\ edge[p] # NoEdge
  /\ edge' = [edge EXCEPT ![p] = row]
  /\ UNCHANGED <<life, made, call, scan>>

Update(p, relation) ==
  /\ edge[p] # NoEdge
  /\ LET fromLow == relation \in Symmetric \/ edge[p].fromLow IN
     /\ Shown(edge[p].user, Target(p, fromLow))
     /\ Decide(p, [edge[p] EXCEPT !.relation = relation, !.fromLow = fromLow])

Confirm(p) ==
  /\ edge[p] # NoEdge /\ edge[p].status = "suggested"
  /\ Shown(edge[p].user, Target(p, edge[p].fromLow))
  /\ Decide(p, [edge[p] EXCEPT !.status = "confirmed", !.confirmedAt = TRUE,
                               !.dismissedAt = FALSE])

Dismiss(p) ==
  /\ edge[p] # NoEdge /\ edge[p].status # "dismissed"
  /\ Decide(p, [edge[p] EXCEPT !.status = "dismissed", !.dismissedAt = TRUE,
                               !.confirmedAt = FALSE])

Delete(p) == edge[p] # NoEdge /\ Decide(p, NoEdge)
-------------------------------------------------------------------------------
(* derive_connections: the scan of a new capture.                          *)

\* How many edges the memory holds, in any state.
Held(i) == Cardinality({p \in Pair : edge[p] # NoEdge /\ i \in {p[1], p[2]}})
Candidates(i) == {j \in Items : j # i /\ Shown(Owner[i], j)}

\* The item, its vector, its room and the candidates are read before the judge
\* is asked.
ScanRead(w, i) ==
  /\ scan[w] = Idle
  /\ life[i] = "live"
  /\ \E found \in SUBSET Candidates(i) :
       /\ found # {} /\ Held(i) + Cardinality(found) <= MaxPerItem
       /\ scan' = [scan EXCEPT ![w] = [pc |-> "judge", item |-> i, found |-> found]]
  /\ UNCHANGED <<life, edge, made, call>>

\* An edge as the judge labelled it; without a judge, related_to.
Proposed(i, j, id, relation, swap, scored) ==
  [id |-> id, user |-> Owner[i],
   fromLow |-> Orient(IF swap THEN j ELSE i, IF swap THEN i ELSE j, relation),
   relation |-> relation, origin |-> "ai", status |-> "suggested",
   scored |-> scored, confirmedAt |-> FALSE, dismissedAt |-> FALSE]

\* Mutant: ON CONFLICT DO UPDATE.
InsertOver(now, new) == new
\* ON CONFLICT DO NOTHING: a row that is there, whatever was decided, stays.
Insert(now, new) == IF now = NoEdge THEN new ELSE now

\* What was kept is inserted in one statement and committed.
ScanWrite(w) ==
  /\ scan[w] # Idle
  /\ LET i == scan[w].item IN
     \E kept \in SUBSET scan[w].found :
       LET hits == {PairOf(i, j) : j \in kept}
           fresh == {p \in hits : edge[p] = NoEdge}
           far(p) == IF p[1] = i THEN p[2] ELSE p[1]
       IN /\ Cardinality(kept) <= MaxCandidates
          /\ \A p \in fresh : made[p] < MaxRows
          /\ \E relation \in [hits -> Relations], swap, scored \in [hits -> BOOLEAN] :
               edge' = [p \in Pair |->
                          IF p \in hits
                          THEN Insert(edge[p], Proposed(i, far(p), made[p] + 1,
                                        relation[p], swap[p], scored[p]))
                          ELSE edge[p]]
          /\ made' = [p \in Pair |-> IF p \in fresh THEN made[p] + 1 ELSE made[p]]
  /\ scan' = [scan EXCEPT ![w] = Idle]
  /\ UNCHANGED <<life, call>>

\* The task failed or its worker was killed: rolled back, and the next attempt
\* is a new scan.
ScanFails(w) ==
  /\ scan[w] # Idle
  /\ scan' = [scan EXCEPT ![w] = Idle]
  /\ UNCHANGED <<life, edge, made, call>>
-------------------------------------------------------------------------------
(* The life of the memories.                                               *)

Trash(i) ==
  /\ life[i] = "live"
  /\ life' = [life EXCEPT ![i] = "trashed"]
  /\ UNCHANGED <<edge, made, call, scan>>

Restore(i) ==
  /\ life[i] = "trashed"
  /\ life' = [life EXCEPT ![i] = "live"]
  /\ UNCHANGED <<edge, made, call, scan>>

\* A purge takes the memory's edges with it.
Purge(i) ==
  /\ life[i] = "trashed"
  /\ life' = [life EXCEPT ![i] = "purged"]
  /\ edge' = [p \in Pair |-> IF i \in {p[1], p[2]} THEN NoEdge ELSE edge[p]]
  /\ UNCHANGED <<made, call, scan>>
-------------------------------------------------------------------------------
CallStep(c) ==
  \/ \E u \in Users, s, t \in Items, r \in Relations : DrawRead(c, u, s, t, r)
  \/ DrawWrite(c)
  \/ \E p \in Pair : TypeRead(c, p)
  \/ \E r \in Relations, swap \in BOOLEAN : TypeWrite(c, r, swap)
  \/ CallFails(c)

DecisionStep(p) ==
  Confirm(p) \/ Dismiss(p) \/ Delete(p) \/ \E r \in Relations : Update(p, r)

ScanStep(w) == ScanWrite(w) \/ ScanFails(w) \/ \E i \in Items : ScanRead(w, i)

Next ==
  \/ \E c \in Callers : CallStep(c)
  \/ \E p \in Pair : DecisionStep(p)
  \/ \E w \in Workers : ScanStep(w)
  \/ \E i \in Items : Trash(i) \/ Restore(i) \/ Purge(i)

Spec == Init /\ [][Next]_vars
-------------------------------------------------------------------------------
(* Properties.                                                             *)

\* Both ends of an edge belong to the user whose edge it is: the check is per
\* memory (services/connection_service.py, _assert_owns_both), and neither a
\* relabelling nor a scan can move an edge into another vault.
EdgeIsOwned ==
  \A p \in Pair : edge[p] # NoEdge =>
    Owner[p[1]] = edge[p].user /\ Owner[p[2]] = edge[p].user

\* The times of a decision agree with the decision, through any order of
\* suggesting, confirming, declining, reviving and relabelling.
StampsFollowStatus ==
  \A p \in Pair : edge[p] # NoEdge =>
    /\ edge[p].confirmedAt <=> edge[p].status = "confirmed"
    /\ edge[p].dismissedAt <=> edge[p].status = "dismissed"

\* "NULL for a hand-made one -- a number invented for an edge a person drew
\* would be a measurement nobody took" (models/connection.py, score).
HandMadeIsNotMeasured ==
  \A p \in Pair : edge[p] # NoEdge /\ edge[p].origin = "user" => ~edge[p].scored

\* The number beside a memory is the number of neighbours its page delivers,
\* whichever of them are in the trash (repositories/connection.py,
\* counts_for_items against list_for_item).
CountIsDelivered ==
  \A i \in Items : life[i] = "live" =>
    ConnectionCount(Owner[i], i)
      = Cardinality(Neighbourhood(Owner[i], i, {"confirmed"}))

\* What the canvas and the inbox show is what the pages of both memories show:
\* a suggestion found from one side is offered on both.
CanvasMatchesPages ==
  \A u \in Users : \A p \in Suggestions(u) \cup Graph(u, {"confirmed"}) :
    \A i \in {p[1], p[2]} :
      \E n \in Neighbourhood(u, i, {edge[p].status}) : n.pair = p

\* A declined pair is never offered again while its row is kept: no scan, no
\* relabelling in flight and no confirmation makes it `suggested`; only a
\* person who draws the edge brings it back.
DismissalSticks ==
  [][\A p \in Pair :
       edge[p] # NoEdge /\ edge[p].status = "dismissed" /\ edge'[p] # NoEdge =>
         \/ edge'[p].status = "dismissed"
         \/ edge'[p].status = "confirmed" /\ edge'[p].origin = "user"]_vars

\* A scan only ever adds suggestions of its own, on pairs that have no row: two
\* scans, or a second scan of one memory, change nothing that is there.
ScanOnlySuggests ==
  [][scan' # scan => \A p \in Pair : edge'[p] # edge[p] =>
       edge[p] = NoEdge /\ edge'[p].status = "suggested" /\ edge'[p].origin = "ai"]_vars

\* "A symmetric relation is pointed from the lower id" (repositories/
\* connection.py, _stored_ends; services/connection_service.py).
SymmetricFromLower ==
  \A p \in Pair : edge[p] # NoEdge /\ edge[p].relation \in Symmetric => edge[p].fromLow
===============================================================================
