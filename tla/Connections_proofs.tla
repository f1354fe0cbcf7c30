-------------------------- MODULE Connections_proofs --------------------------
(***************************************************************************)
(* Proofs about Connections, for any vaults, vocabulary, bounds and number *)
(* of concurrent requests and scans.                                       *)
(***************************************************************************)
EXTENDS Connections, FiniteSetTheorems, TLAPS

USE ConstantsAssumption

\* A pair is its two ends, the lower first.
LEMMA PairEnds ==
  ASSUME NEW p \in Pair
  PROVE  p[1] \in Items /\ p[2] \in Items /\ p[1] # p[2]
<1>1. p \in Items \X Items /\ p[1] < p[2]
  BY DEF Pair
<1>2. p[1] \in Items /\ p[2] \in Items
  BY <1>1
<1>3. p[1] \in Nat /\ p[2] \in Nat
  BY <1>2
<1> QED BY <1>1, <1>2, <1>3

\* Two different memories have a pair, and it is theirs.
LEMMA PairOfEnds ==
  ASSUME NEW i \in Items, NEW j \in Items, i # j
  PROVE  /\ PairOf(i, j) \in Pair
         /\ {PairOf(i, j)[1], PairOf(i, j)[2]} = {i, j}
  BY DEF PairOf, Pair

\* A row is never mistaken for the absence of one.
LEMMA RowIsNoNoEdge ==
  ASSUME NEW r \in Row PROVE r # NoEdge /\ r.id \in Nat
  BY DEF Row, NoEdge

\* What a request or a scan in progress remembers is of one vault.
CallsOwned ==
  \A c \in Callers : call[c] # Idle /\ call[c].pc = "draw" =>
    /\ call[c].source # call[c].target
    /\ Owner[call[c].source] = call[c].user /\ Owner[call[c].target] = call[c].user
ScansOwned ==
  \A w \in Workers : scan[w] # Idle =>
    \A j \in scan[w].found : j # scan[w].item /\ Owner[j] = Owner[scan[w].item]

\* The inductive invariant.
ConnectionInv ==
  TypeOK /\ EdgeIsOwned /\ StampsFollowStatus /\ HandMadeIsNotMeasured
    /\ CallsOwned /\ ScansOwned

\* A vault without connections satisfies the invariant.
LEMMA InitInv == Init => ConnectionInv
  BY DEF Init, ConnectionInv, TypeOK, EdgeIsOwned, StampsFollowStatus,
         HandMadeIsNotMeasured, CallsOwned, ScansOwned, Life
-------------------------------------------------------------------------------
(* What a step may do to one row.                                          *)

\* The part of the invariant that is about a single row.
Sound(p, r) ==
  /\ r \in Row \cup {NoEdge}
  /\ r # NoEdge =>
       /\ Owner[p[1]] = r.user /\ Owner[p[2]] = r.user
       /\ r.confirmedAt <=> r.status = "confirmed"
       /\ r.dismissedAt <=> r.status = "dismissed"
       /\ r.origin = "user" => ~r.scored

\* The invariants about rows are that part, of every row.
LEMMA SoundRows ==
  TypeOK => ((EdgeIsOwned /\ StampsFollowStatus /\ HandMadeIsNotMeasured)
               <=> \A p \in Pair : Sound(p, edge[p]))
  BY DEF TypeOK, EdgeIsOwned, StampsFollowStatus, HandMadeIsNotMeasured, Sound

\* An upsert leaves a sound row.
LEMMA DrawSound ==
  ASSUME ConnectionInv, NEW c \in Callers, DrawWrite(c), NEW p \in Pair
  PROVE  Sound(p, edge'[p]) /\ made'[p] \in 0..MaxRows
<1> DEFINE q == PairOf(call[c].source, call[c].target)
<1>1. /\ call[c] \in Drawing /\ call[c].source # call[c].target
      /\ Owner[call[c].source] = call[c].user /\ Owner[call[c].target] = call[c].user
  BY DEF ConnectionInv, TypeOK, CallsOwned, DrawWrite, Typing, Drawing, Idle
<1>2. /\ q \in Pair /\ {q[1], q[2]} = {call[c].source, call[c].target}
      /\ call[c].user \in Users /\ call[c].relation \in Relations
  BY <1>1, PairOfEnds DEF Drawing
<1>3. Owner[q[1]] = call[c].user /\ Owner[q[2]] = call[c].user
  BY <1>1, <1>2
<1>4. Sound(p, edge[p]) /\ Sound(q, edge[q]) /\ made[p] \in 0..MaxRows
      /\ edge \in [Pair -> Row \cup {NoEdge}] /\ made \in [Pair -> 0..MaxRows]
  BY <1>2, SoundRows DEF ConnectionInv, TypeOK
<1> HIDE DEF q
<1>5. CASE /\ edge[q] # NoEdge
           /\ edge' = [edge EXCEPT ![q] = Revived(@, call[c].relation)]
           /\ made' = made
  <2>1. Sound(q, Revived(edge[q], call[c].relation))
    BY <1>2, <1>4, <1>5, RowIsNoNoEdge DEF Sound, Revived, Row, Origin, Status
  <2> QED BY <1>4, <1>5, <2>1
<1>6. CASE /\ edge[q] = NoEdge /\ made[q] < MaxRows
           /\ made' = [made EXCEPT ![q] = @ + 1]
           /\ edge' = [edge EXCEPT ![q] = Drawn(made[q] + 1, c)]
  <2>1. made[q] + 1 \in 1..MaxRows
    BY <1>2, <1>4, <1>6
  <2>2. Orient(call[c].source, call[c].target, call[c].relation) \in BOOLEAN
    BY DEF Orient
  <2>3. Sound(q, Drawn(made[q] + 1, c))
    BY <1>2, <1>3, <2>1, <2>2 DEF Sound, Drawn, Row, Origin, Status
  <2> QED BY <1>4, <1>6, <2>1, <2>3
<1> QED BY <1>5, <1>6 DEF DrawWrite, q

\* A relabelling changes the label and the direction only.
LEMMA TypeSound ==
  ASSUME ConnectionInv, NEW c \in Callers, NEW relation \in Relations,
         NEW swap \in BOOLEAN, TypeWrite(c, relation, swap), NEW p \in Pair
  PROVE  Sound(p, edge'[p])
<1> DEFINE q == call[c].pair
           seen == call[c].seen
           fromLow == relation \in Symmetric \/ seen.fromLow # swap
<1>1. q \in Pair /\ seen \in Row
  BY DEF ConnectionInv, TypeOK, TypeWrite, Typing, Drawing, Idle
<1>2. edge \in [Pair -> Row \cup {NoEdge}] /\ Sound(p, edge[p]) /\ Sound(q, edge[q])
  BY <1>1, SoundRows DEF ConnectionInv, TypeOK
<1>3. edge[q] \in Row
  <2>1. edge[q].id = seen.id /\ seen.id \in 1..MaxRows
    BY <1>1 DEF TypeWrite, Row
  <2> QED BY <1>1, <1>2, <2>1 DEF NoEdge
<1>4. fromLow \in BOOLEAN
  OBVIOUS
<1>5. edge' = [edge EXCEPT ![q] = Retyped(seen, @, relation, fromLow)]
  BY DEF TypeWrite
<1> HIDE DEF q, seen, fromLow
<1>6. Sound(q, Retyped(seen, edge[q], relation, fromLow))
  <2>1. /\ Assign(seen.relation, relation, edge[q].relation) \in Relations
        /\ Assign(seen.fromLow, fromLow, edge[q].fromLow) \in BOOLEAN
    BY <1>3, <1>4 DEF Assign, Row
  <2> QED BY <1>2, <1>3, <2>1, RowIsNoNoEdge DEF Sound, Retyped, Row
<1> QED BY <1>2, <1>5, <1>6

\* A decision leaves a sound row, or none.
LEMMA DecisionSound ==
  ASSUME ConnectionInv, NEW q \in Pair, DecisionStep(q), NEW p \in Pair
  PROVE  Sound(p, edge'[p]) /\ UNCHANGED <<life, made, call, scan>>
<1>1. edge \in [Pair -> Row \cup {NoEdge}] /\ Sound(p, edge[p]) /\ Sound(q, edge[q])
  BY SoundRows DEF ConnectionInv, TypeOK
<1>2. ASSUME NEW r, Decide(q, r), edge[q] \in Row => Sound(q, r)
      PROVE  Sound(p, edge'[p]) /\ UNCHANGED <<life, made, call, scan>>
  BY <1>1, <1>2 DEF Decide
<1>3. CASE Confirm(q)
  BY <1>1, <1>2, <1>3, RowIsNoNoEdge DEF Confirm, Sound, Row, Status
<1>4. CASE Dismiss(q)
  BY <1>1, <1>2, <1>4, RowIsNoNoEdge DEF Dismiss, Sound, Row, Status
<1>5. CASE Delete(q)
  BY <1>2, <1>5 DEF Delete, Sound
<1>6. ASSUME NEW relation \in Relations, Update(q, relation)
      PROVE  Sound(p, edge'[p]) /\ UNCHANGED <<life, made, call, scan>>
  <2> DEFINE fromLow == relation \in Symmetric \/ edge[q].fromLow
  <2>1. fromLow \in BOOLEAN
    OBVIOUS
  <2>2. Decide(q, [edge[q] EXCEPT !.relation = relation, !.fromLow = fromLow])
    BY <1>6 DEF Update
  <2> HIDE DEF fromLow
  <2>3. edge[q] \in Row =>
          Sound(q, [edge[q] EXCEPT !.relation = relation, !.fromLow = fromLow])
    BY <1>1, <1>6, <2>1, RowIsNoNoEdge DEF Sound, Row
  <2> QED BY <1>2, <2>2, <2>3
<1> QED BY <1>3, <1>4, <1>5, <1>6 DEF DecisionStep

\* A scan adds sound suggestions and leaves every other row alone.
LEMMA ScanAdds ==
  ASSUME ConnectionInv, NEW w \in Workers, ScanWrite(w), NEW p \in Pair
  PROVE  /\ Sound(p, edge'[p]) /\ made'[p] \in 0..MaxRows
         /\ edge'[p] # edge[p] => /\ edge[p] = NoEdge
                                  /\ edge'[p].status = "suggested"
                                  /\ edge'[p].origin = "ai"
<1> DEFINE i == scan[w].item
           far(q) == IF q[1] = i THEN q[2] ELSE q[1]
<1>1. scan[w] \in Scan
  BY DEF ConnectionInv, TypeOK, ScanWrite
<1>2. i \in Items /\ scan[w].found \subseteq Items
      /\ \A j \in scan[w].found : j # i /\ Owner[j] = Owner[i]
  BY <1>1 DEF ConnectionInv, ScansOwned, Scan, ScanWrite
<1>3. Sound(p, edge[p]) /\ made[p] \in 0..MaxRows
  BY SoundRows DEF ConnectionInv, TypeOK
<1> HIDE DEF i
<1>4. PICK kept \in SUBSET scan[w].found :
        LET hits == {PairOf(i, j) : j \in kept}
            fresh == {q \in hits : edge[q] = NoEdge}
        IN /\ \A q \in fresh : made[q] < MaxRows
           /\ \E relation \in [hits -> Relations], swap, scored \in [hits -> BOOLEAN] :
                edge' = [q \in Pair |->
                           IF q \in hits
                           THEN Insert(edge[q], Proposed(i, far(q), made[q] + 1,
                                         relation[q], swap[q], scored[q]))
                           ELSE edge[q]]
           /\ made' = [q \in Pair |-> IF q \in fresh THEN made[q] + 1 ELSE made[q]]
  BY DEF ScanWrite, i
<1> DEFINE hits == {PairOf(i, j) : j \in kept}
<1>5. PICK relation \in [hits -> Relations], swap \in [hits -> BOOLEAN],
           scored \in [hits -> BOOLEAN] :
        edge' = [q \in Pair |->
                   IF q \in hits
                   THEN Insert(edge[q], Proposed(i, far(q), made[q] + 1,
                                 relation[q], swap[q], scored[q]))
                   ELSE edge[q]]
  BY <1>4
<1>6. made'[p] = IF p \in hits /\ edge[p] = NoEdge THEN made[p] + 1 ELSE made[p]
  BY <1>4
<1>7. p \in hits /\ edge[p] = NoEdge => made[p] < MaxRows
  BY <1>4
<1>8. CASE p \notin hits \/ edge[p] # NoEdge
  <2>1. edge'[p] = edge[p]
    BY <1>5, <1>8 DEF Insert
  <2> QED BY <1>3, <1>6, <1>8, <2>1
<1>9. CASE p \in hits /\ edge[p] = NoEdge
  <2> DEFINE new == Proposed(i, far(p), made[p] + 1, relation[p], swap[p], scored[p])
  <2>1. edge'[p] = new
    BY <1>5, <1>9 DEF Insert
  <2>2. PICK j \in kept : p = PairOf(i, j)
    BY <1>9
  <2>3. Owner[p[1]] = Owner[i] /\ Owner[p[2]] = Owner[i]
    <3>1. j \in Items /\ j # i /\ Owner[j] = Owner[i]
      BY <1>2, <2>2
    <3>2. p[1] \in {i, j} /\ p[2] \in {i, j}
      BY <1>2, <2>2, <3>1, PairOfEnds
    <3> QED BY <3>1, <3>2
  <2>4. made[p] + 1 \in 1..MaxRows
    BY <1>3, <1>7, <1>9
  <2>5. relation[p] \in Relations /\ scored[p] \in BOOLEAN /\ Owner[i] \in Users
    BY <1>2, <1>5, <1>9
  <2>6. Orient(IF swap[p] THEN far(p) ELSE i, IF swap[p] THEN i ELSE far(p), relation[p])
          \in BOOLEAN
    BY DEF Orient
  <2>7. new \in Row /\ new.status = "suggested" /\ new.origin = "ai"
        /\ new.user = Owner[i] /\ ~new.confirmedAt /\ ~new.dismissedAt
    BY <2>4, <2>5, <2>6 DEF Proposed, Row, Origin, Status
  <2>8. Sound(p, new)
    BY <2>3, <2>7 DEF Sound
  <2> QED BY <1>3, <1>6, <1>9, <2>1, <2>4, <2>7, <2>8
<1> QED BY <1>8, <1>9
-------------------------------------------------------------------------------
(* What each step leaves of what is remembered, and of the rows.           *)

\* Drawing: both ends were read, scoped to the caller.
LEMMA DrawReadKeeps ==
  ASSUME ConnectionInv, NEW c \in Callers, NEW u \in Users, NEW s \in Items,
         NEW t \in Items, NEW relation \in Relations, DrawRead(c, u, s, t, relation)
  PROVE  ConnectionInv'
<1> DEFINE new == [pc |-> "draw", user |-> u, source |-> s, target |-> t,
                   relation |-> relation]
<1>1. new \in Drawing /\ s # t /\ Owner[s] = u /\ Owner[t] = u
  BY DEF Drawing, DrawRead, Shown
<1>2. call' = [call EXCEPT ![c] = new] /\ UNCHANGED <<life, edge, made, scan>>
  BY DEF DrawRead
<1>3. TypeOK'
  BY <1>1, <1>2 DEF ConnectionInv, TypeOK
<1>4. CallsOwned'
  BY <1>1, <1>2 DEF ConnectionInv, TypeOK, CallsOwned
<1> QED
  BY <1>2, <1>3, <1>4
  DEF ConnectionInv, EdgeIsOwned, StampsFollowStatus, HandMadeIsNotMeasured, ScansOwned

\* A request that asks a model remembers a row, which is of one vault.
LEMMA TypeReadKeeps ==
  ASSUME ConnectionInv, NEW c \in Callers, NEW p \in Pair, TypeRead(c, p)
  PROVE  ConnectionInv'
<1> DEFINE new == [pc |-> "type", pair |-> p, seen |-> edge[p]]
<1>1. new \in Typing
  BY DEF Typing, TypeRead, ConnectionInv, TypeOK
<1>2. call' = [call EXCEPT ![c] = new] /\ UNCHANGED <<life, edge, made, scan>>
  BY DEF TypeRead
<1>3. TypeOK'
  BY <1>1, <1>2 DEF ConnectionInv, TypeOK
<1>4. CallsOwned'
  BY <1>2 DEF ConnectionInv, TypeOK, CallsOwned
<1> QED
  BY <1>2, <1>3, <1>4
  DEF ConnectionInv, EdgeIsOwned, StampsFollowStatus, HandMadeIsNotMeasured, ScansOwned

\* A request that ends remembers nothing.
LEMMA CallEnds ==
  ASSUME ConnectionInv, NEW c \in Callers, call' = [call EXCEPT ![c] = Idle]
  PROVE  call' \in [Callers -> Drawing \cup Typing \cup {Idle}] /\ CallsOwned'
<1>1. call \in [Callers -> Drawing \cup Typing \cup {Idle}]
  BY DEF ConnectionInv, TypeOK
<1>2. call' \in [Callers -> Drawing \cup Typing \cup {Idle}]
  BY <1>1
<1>3. CallsOwned'
  BY <1>1 DEF ConnectionInv, CallsOwned
<1> QED BY <1>2, <1>3

\* Sound rows and a sound memory of them are the invariant.
LEMMA SoundIsInv ==
  ASSUME (/\ life \in [Items -> Life]
          /\ edge = [p \in Pair |-> edge[p]]
          /\ \A p \in Pair : Sound(p, edge[p])
          /\ made \in [Pair -> 0..MaxRows]
          /\ call \in [Callers -> Drawing \cup Typing \cup {Idle}]
          /\ scan \in [Workers -> Scan \cup {Idle}]
          /\ CallsOwned /\ ScansOwned)'
  PROVE  ConnectionInv'
<1>1. (edge \in [Pair -> Row \cup {NoEdge}])'
  BY DEF Sound
<1>2. TypeOK'
  BY <1>1 DEF TypeOK
<1>3. (EdgeIsOwned /\ StampsFollowStatus /\ HandMadeIsNotMeasured)'
  BY DEF Sound, EdgeIsOwned, StampsFollowStatus, HandMadeIsNotMeasured
<1> QED BY <1>2, <1>3 DEF ConnectionInv

\* The upsert.
LEMMA DrawWriteKeeps ==
  ASSUME ConnectionInv, NEW c \in Callers, DrawWrite(c)
  PROVE  ConnectionInv'
<1>1. call' \in [Callers -> Drawing \cup Typing \cup {Idle}] /\ CallsOwned'
  BY CallEnds DEF DrawWrite
<1>2. life' \in [Items -> Life] /\ scan' \in [Workers -> Scan \cup {Idle}] /\ ScansOwned'
  BY DEF DrawWrite, ConnectionInv, TypeOK, ScansOwned
<1>3. edge' = [p \in Pair |-> edge'[p]] /\ made' = [p \in Pair |-> made'[p]]
  BY DEF DrawWrite, ConnectionInv, TypeOK
<1>4. \A p \in Pair : Sound(p, edge'[p]) /\ made'[p] \in 0..MaxRows
  BY DrawSound
<1>5. made' \in [Pair -> 0..MaxRows]
  BY <1>3, <1>4
<1>6. (\A p \in Pair : Sound(p, edge[p]))'
  BY <1>4 DEF Sound
<1> QED BY <1>1, <1>2, <1>3, <1>5, <1>6, SoundIsInv

\* The answer of the model.
LEMMA TypeWriteKeeps ==
  ASSUME ConnectionInv, NEW c \in Callers, NEW relation \in Relations,
         NEW swap \in BOOLEAN, TypeWrite(c, relation, swap)
  PROVE  ConnectionInv'
<1>1. call' \in [Callers -> Drawing \cup Typing \cup {Idle}] /\ CallsOwned'
  BY CallEnds DEF TypeWrite
<1>2. /\ life' \in [Items -> Life] /\ made' \in [Pair -> 0..MaxRows]
      /\ scan' \in [Workers -> Scan \cup {Idle}] /\ ScansOwned'
  BY DEF TypeWrite, ConnectionInv, TypeOK, ScansOwned
<1>3. edge' = [p \in Pair |-> edge'[p]]
  BY DEF TypeWrite, ConnectionInv, TypeOK
<1>4. (\A p \in Pair : Sound(p, edge[p]))'
  BY TypeSound DEF Sound
<1> QED BY <1>1, <1>2, <1>3, <1>4, SoundIsInv

\* A request that fails.
LEMMA CallFailsKeeps ==
  ASSUME ConnectionInv, NEW c \in Callers, CallFails(c)
  PROVE  ConnectionInv'
<1>1. call' \in [Callers -> Drawing \cup Typing \cup {Idle}] /\ CallsOwned'
  BY CallEnds DEF CallFails
<1> QED
  BY <1>1
  DEF CallFails, ConnectionInv, TypeOK, EdgeIsOwned, StampsFollowStatus,
      HandMadeIsNotMeasured, ScansOwned

\* A decision.
LEMMA DecisionKeeps ==
  ASSUME ConnectionInv, NEW q \in Pair, DecisionStep(q)
  PROVE  ConnectionInv'
<1>1. UNCHANGED <<life, made, call, scan>>
  BY DecisionSound
<1>2. (\A p \in Pair : Sound(p, edge[p]))'
  BY DecisionSound DEF Sound
<1>3. edge' = [p \in Pair |-> edge'[p]]
  <2>1. PICK r : Decide(q, r)
    BY DEF DecisionStep, Confirm, Dismiss, Delete, Update
  <2> QED BY <2>1 DEF Decide, ConnectionInv, TypeOK
<1>4. CallsOwned' /\ ScansOwned'
  BY <1>1 DEF ConnectionInv, CallsOwned, ScansOwned
<1> QED BY <1>1, <1>2, <1>3, <1>4, SoundIsInv DEF ConnectionInv, TypeOK

\* A scan begins with candidates of the memory's own vault.
LEMMA ScanReadKeeps ==
  ASSUME ConnectionInv, NEW w \in Workers, NEW i \in Items, ScanRead(w, i)
  PROVE  ConnectionInv'
<1>1. PICK found \in SUBSET Candidates(i) :
        scan' = [scan EXCEPT ![w] = [pc |-> "judge", item |-> i, found |-> found]]
  BY DEF ScanRead
<1>2. /\ [pc |-> "judge", item |-> i, found |-> found] \in Scan
      /\ \A j \in found : j # i /\ Owner[j] = Owner[i]
  BY <1>1 DEF Scan, Candidates, Shown
<1>3. UNCHANGED <<life, edge, made, call>>
  BY DEF ScanRead
<1>4. TypeOK' /\ ScansOwned'
  BY <1>1, <1>2, <1>3 DEF ConnectionInv, TypeOK, ScansOwned
<1> QED
  BY <1>3, <1>4
  DEF ConnectionInv, EdgeIsOwned, StampsFollowStatus, HandMadeIsNotMeasured, CallsOwned

\* A scan that ends remembers nothing.
LEMMA ScanEnds ==
  ASSUME ConnectionInv, NEW w \in Workers, scan' = [scan EXCEPT ![w] = Idle]
  PROVE  scan' \in [Workers -> Scan \cup {Idle}] /\ ScansOwned'
<1>1. scan \in [Workers -> Scan \cup {Idle}]
  BY DEF ConnectionInv, TypeOK
<1> QED BY <1>1 DEF ConnectionInv, ScansOwned

\* The insert of a scan.
LEMMA ScanWriteKeeps ==
  ASSUME ConnectionInv, NEW w \in Workers, ScanWrite(w)
  PROVE  ConnectionInv'
<1>1. scan' \in [Workers -> Scan \cup {Idle}] /\ ScansOwned'
  BY ScanEnds DEF ScanWrite
<1>2. UNCHANGED <<life, call>>
  BY DEF ScanWrite
<1>3. \A p \in Pair : Sound(p, edge'[p]) /\ made'[p] \in 0..MaxRows
  BY ScanAdds
<1>4. edge' = [p \in Pair |-> edge'[p]] /\ made' = [p \in Pair |-> made'[p]]
  BY DEF ScanWrite
<1>5. made' \in [Pair -> 0..MaxRows]
  BY <1>3, <1>4
<1>6. (\A p \in Pair : Sound(p, edge[p]))'
  BY <1>3 DEF Sound
<1>7. CallsOwned'
  BY <1>2 DEF ConnectionInv, CallsOwned
<1> QED BY <1>1, <1>2, <1>4, <1>5, <1>6, <1>7, SoundIsInv DEF ConnectionInv, TypeOK

\* A scan that fails.
LEMMA ScanFailsKeeps ==
  ASSUME ConnectionInv, NEW w \in Workers, ScanFails(w)
  PROVE  ConnectionInv'
<1>1. scan' \in [Workers -> Scan \cup {Idle}] /\ ScansOwned'
  BY ScanEnds DEF ScanFails
<1> QED
  BY <1>1
  DEF ScanFails, ConnectionInv, TypeOK, EdgeIsOwned, StampsFollowStatus,
      HandMadeIsNotMeasured, CallsOwned

\* A memory trashed, restored or purged with its edges.
LEMMA LifeKeeps ==
  ASSUME ConnectionInv, NEW i \in Items, Trash(i) \/ Restore(i) \/ Purge(i)
  PROVE  ConnectionInv'
<1>1. UNCHANGED <<made, call, scan>>
  BY DEF Trash, Restore, Purge
<1>2. life' \in [Items -> Life]
  BY DEF Trash, Restore, Purge, Life, ConnectionInv, TypeOK
<1>3. CallsOwned' /\ ScansOwned'
  BY <1>1 DEF ConnectionInv, CallsOwned, ScansOwned
<1>4. edge' = [p \in Pair |-> edge'[p]] /\ \A p \in Pair : edge'[p] \in {edge[p], NoEdge}
  BY DEF Trash, Restore, Purge, ConnectionInv, TypeOK
<1>5. (\A p \in Pair : Sound(p, edge[p]))'
  BY <1>4, SoundRows DEF ConnectionInv, Sound
<1> QED BY <1>1, <1>2, <1>3, <1>4, <1>5, SoundIsInv DEF ConnectionInv, TypeOK

\* No step breaks the invariant.
LEMMA NextInv == ConnectionInv /\ [Next]_vars => ConnectionInv'
<1> SUFFICES ASSUME ConnectionInv, [Next]_vars PROVE ConnectionInv'
  OBVIOUS
<1>1. ASSUME NEW c \in Callers, CallStep(c) PROVE ConnectionInv'
  BY <1>1, DrawReadKeeps, DrawWriteKeeps, TypeReadKeeps, TypeWriteKeeps, CallFailsKeeps
  DEF CallStep
<1>2. ASSUME NEW p \in Pair, DecisionStep(p) PROVE ConnectionInv'
  BY <1>2, DecisionKeeps
<1>3. ASSUME NEW w \in Workers, ScanStep(w) PROVE ConnectionInv'
  BY <1>3, ScanReadKeeps, ScanWriteKeeps, ScanFailsKeeps DEF ScanStep
<1>4. ASSUME NEW i \in Items, Trash(i) \/ Restore(i) \/ Purge(i) PROVE ConnectionInv'
  BY <1>4, LifeKeeps
<1>5. CASE UNCHANGED vars
  BY <1>5
  DEF vars, ConnectionInv, TypeOK, EdgeIsOwned, StampsFollowStatus,
      HandMadeIsNotMeasured, CallsOwned, ScansOwned
<1> QED BY <1>1, <1>2, <1>3, <1>4, <1>5 DEF Next

\* The invariant holds in every state.
LEMMA Invariance == Spec => []ConnectionInv
  BY InitInv, NextInv, PTL DEF Spec
-------------------------------------------------------------------------------
(* The theorems.                                                           *)

\* Every variable keeps its type, whatever requests and scans interleave.
THEOREM ConnectionsTypeCorrect == Spec => []TypeOK
  BY Invariance, PTL DEF ConnectionInv

\* An edge never joins two vaults (connection_service.py, _assert_owns_both;
\* the candidates of a scan are the memory's owner's).
THEOREM EdgesStayInTheirVault == Spec => []EdgeIsOwned
  BY Invariance, PTL DEF ConnectionInv

\* The times of a decision agree with it (repositories/connection.py: the
\* upsert, confirm, dismiss).
THEOREM StampsAgree == Spec => []StampsFollowStatus
  BY Invariance, PTL DEF ConnectionInv

\* An edge a person drew has no similarity, even where a suggestion that had
\* one was revived (repositories/connection.py, upsert_manual).
THEOREM HandMadeEdges == Spec => []HandMadeIsNotMeasured
  BY Invariance, PTL DEF ConnectionInv

\* A declined pair stays declined until a person draws it
\* (repositories/connection.py, suggest_many, confirm, upsert_manual).
THEOREM DismissalsStick == Spec => DismissalSticks
<1> DEFINE Kept(p) ==
      edge[p] # NoEdge /\ edge[p].status = "dismissed" /\ edge'[p] # NoEdge =>
        \/ edge'[p].status = "dismissed"
        \/ edge'[p].status = "confirmed" /\ edge'[p].origin = "user"
<1>1. ConnectionInv /\ [Next]_vars => [\A p \in Pair : Kept(p)]_vars
  <2> SUFFICES ASSUME ConnectionInv, Next, NEW p \in Pair PROVE Kept(p)
    OBVIOUS
  <2>1. edge \in [Pair -> Row \cup {NoEdge}]
    BY DEF ConnectionInv, TypeOK
  <2>2. CASE edge'[p] = edge[p]
    BY <2>2
  <2>3. ASSUME NEW c \in Callers, CallStep(c) PROVE Kept(p)
    <3>1. CASE DrawWrite(c)
      <4> DEFINE q == PairOf(call[c].source, call[c].target)
      <4>1. \/ edge[q] # NoEdge /\ edge' = [edge EXCEPT ![q] = Revived(@, call[c].relation)]
            \/ edge[q] = NoEdge /\ edge' = [edge EXCEPT ![q] = Drawn(made[q] + 1, c)]
        BY <3>1 DEF DrawWrite
      <4> HIDE DEF q
      <4>2. CASE p # q
        BY <2>1, <4>1, <4>2
      <4>3. CASE p = q /\ edge[p] \in Row
        <5>1. edge'[p] = Revived(edge[p], call[c].relation)
          BY <2>1, <4>1, <4>3, RowIsNoNoEdge
        <5> QED BY <4>3, <5>1 DEF Revived, Row
      <4> QED BY <2>1, <4>2, <4>3
    <3>2. ASSUME NEW relation \in Relations, NEW swap \in BOOLEAN,
                 TypeWrite(c, relation, swap)
          PROVE  Kept(p)
      <4>1. PICK fromLow : edge' = [edge EXCEPT ![call[c].pair] =
                                      Retyped(call[c].seen, @, relation, fromLow)]
        BY <3>2 DEF TypeWrite
      <4>2. CASE p # call[c].pair
        BY <2>1, <4>1, <4>2
      <4>3. CASE p = call[c].pair /\ edge[p] \in Row
        <5>1. edge'[p] = Retyped(call[c].seen, edge[p], relation, fromLow)
          BY <2>1, <4>1, <4>3
        <5> QED BY <4>3, <5>1 DEF Retyped, Row
      <4> QED BY <2>1, <4>2, <4>3
    <3> QED
      BY <2>2, <2>3, <3>1, <3>2 DEF CallStep, DrawRead, TypeRead, CallFails
  <2>4. ASSUME NEW q \in Pair, DecisionStep(q) PROVE Kept(p)
    <3>1. CASE Delete(q)
      BY <2>1, <3>1 DEF Delete, Decide
    <3>2. CASE Confirm(q)
      BY <2>1, <3>2 DEF Confirm, Decide
    <3>3. CASE Dismiss(q)
      BY <2>1, <3>3, RowIsNoNoEdge DEF Dismiss, Decide, Row
    <3>4. ASSUME NEW relation \in Relations, Update(q, relation) PROVE Kept(p)
      BY <2>1, <3>4, RowIsNoNoEdge DEF Update, Decide, Row
    <3> QED BY <2>4, <3>1, <3>2, <3>3, <3>4 DEF DecisionStep
  <2>5. ASSUME NEW w \in Workers, ScanStep(w) PROVE Kept(p)
    <3>1. CASE ScanWrite(w)
      BY <2>2, <3>1, ScanAdds
    <3> QED BY <2>2, <2>5, <3>1 DEF ScanStep, ScanRead, ScanFails
  <2>6. ASSUME NEW i \in Items, Trash(i) \/ Restore(i) \/ Purge(i) PROVE Kept(p)
    BY <2>2, <2>6 DEF Trash, Restore, Purge
  <2> QED BY <2>3, <2>4, <2>5, <2>6 DEF Next
<1> QED BY <1>1, Invariance, PTL DEF Spec, DismissalSticks

\* A scan writes only on pairs without a row, and only suggestions of its own
\* (repositories/connection.py, suggest_many: ON CONFLICT DO NOTHING).
THEOREM ScansOnlySuggest == Spec => ScanOnlySuggests
<1> DEFINE Added(p) ==
      edge'[p] # edge[p] =>
        edge[p] = NoEdge /\ edge'[p].status = "suggested" /\ edge'[p].origin = "ai"
<1>1. ConnectionInv /\ [Next]_vars => [scan' # scan => \A p \in Pair : Added(p)]_vars
  <2> SUFFICES ASSUME ConnectionInv, Next, scan' # scan, NEW p \in Pair PROVE Added(p)
    OBVIOUS
  <2>1. ASSUME NEW w \in Workers, ScanStep(w) PROVE Added(p)
    <3>1. CASE ScanWrite(w)
      BY <3>1, ScanAdds
    <3> QED BY <2>1, <3>1 DEF ScanStep, ScanRead, ScanFails
  <2>2. ASSUME NEW c \in Callers, CallStep(c) PROVE FALSE
    BY <2>2 DEF CallStep, DrawRead, DrawWrite, TypeRead, TypeWrite, CallFails
  <2>3. ASSUME NEW q \in Pair, DecisionStep(q) PROVE FALSE
    BY <2>3 DEF DecisionStep, Confirm, Dismiss, Delete, Update, Decide
  <2>4. ASSUME NEW i \in Items, Trash(i) \/ Restore(i) \/ Purge(i) PROVE FALSE
    BY <2>4 DEF Trash, Restore, Purge
  <2> QED BY <2>1, <2>2, <2>3, <2>4 DEF Next
<1> QED BY <1>1, Invariance, PTL DEF Spec, ScanOnlySuggests

\* A relation is shown on the pages of both its ends whenever the canvas or the
\* inbox shows it (repositories/connection.py, graph and list_for_item).
THEOREM CanvasAgreesWithPages == Spec => []CanvasMatchesPages
<1>1. CanvasMatchesPages
  <2> SUFFICES ASSUME NEW u \in Users,
                      NEW p \in Suggestions(u) \cup Graph(u, {"confirmed"}),
                      NEW i \in {p[1], p[2]}
               PROVE  \E n \in Neighbourhood(u, i, {edge[p].status}) : n.pair = p
    BY DEF CanvasMatchesPages
  <2>1. p \in Pair /\ p \in Edges(u) /\ Shown(u, p[1]) /\ Shown(u, p[2])
    BY DEF Suggestions, Graph, Edges
  <2> DEFINE out == [pair |-> p, way |-> "outgoing", other |-> Target(p, edge[p].fromLow)]
             inc == [pair |-> p, way |-> "incoming", other |-> Source(p, edge[p].fromLow)]
  <2>2. Shown(u, out.other) /\ Shown(u, inc.other)
    BY <2>1 DEF Source, Target
  <2>3. CASE Source(p, edge[p].fromLow) = i
    <3>1. out \in Neighbourhood(u, i, {edge[p].status})
      BY <2>1, <2>2, <2>3 DEF Neighbourhood
    <3> QED BY <3>1
  <2>4. CASE Target(p, edge[p].fromLow) = i
    <3>1. inc \in Neighbourhood(u, i, {edge[p].status})
      BY <2>1, <2>2, <2>4 DEF Neighbourhood
    <3> QED BY <3>1
  <2> QED BY <2>3, <2>4 DEF Source, Target
<1> QED BY <1>1, PTL

\* What the badge counts, one by one.
Counted(u, i) ==
  {p \in Edges(u) : /\ edge[p].status = "confirmed"
                    /\ \/ p[1] = i /\ Shown(u, p[2])
                       \/ p[2] = i /\ Shown(u, p[1])}

\* The one entry of a memory's page that an edge of it gives.
Entry(i, p) ==
  [pair |-> p,
   way |-> IF Source(p, edge[p].fromLow) = i THEN "outgoing" ELSE "incoming",
   other |-> IF Source(p, edge[p].fromLow) = i
             THEN Target(p, edge[p].fromLow) ELSE Source(p, edge[p].fromLow)]

\* A memory's page is the entries of what is counted.
LEMMA PageIsEntries ==
  ASSUME NEW u, NEW i
  PROVE  Neighbourhood(u, i, {"confirmed"}) = {Entry(i, p) : p \in Counted(u, i)}
<1>1. ASSUME NEW n \in Neighbourhood(u, i, {"confirmed"})
      PROVE  n \in {Entry(i, p) : p \in Counted(u, i)}
  <2>1. PICK p \in Edges(u) :
          /\ edge[p].status = "confirmed"
          /\ \/ /\ Source(p, edge[p].fromLow) = i
                /\ n = [pair |-> p, way |-> "outgoing", other |-> Target(p, edge[p].fromLow)]
             \/ /\ Target(p, edge[p].fromLow) = i
                /\ n = [pair |-> p, way |-> "incoming", other |-> Source(p, edge[p].fromLow)]
          /\ Shown(u, n.other)
    BY DEF Neighbourhood
  <2>2. p[1] # p[2]
    BY <2>1, PairEnds DEF Edges
  <2>3. n = Entry(i, p)
    BY <2>1, <2>2 DEF Entry, Source, Target
  <2>4. p \in Counted(u, i)
    BY <2>1 DEF Counted, Source, Target
  <2> QED BY <2>3, <2>4
<1>2. ASSUME NEW p \in Counted(u, i)
      PROVE  Entry(i, p) \in Neighbourhood(u, i, {"confirmed"})
  <2>1. p \in Edges(u) /\ edge[p].status = "confirmed" /\ p[1] # p[2]
    BY PairEnds DEF Counted, Edges
  <2>2. \/ Source(p, edge[p].fromLow) = i
        \/ Target(p, edge[p].fromLow) = i /\ Source(p, edge[p].fromLow) # i
    BY <2>1 DEF Counted, Source, Target
  <2>3. Shown(u, Entry(i, p).other)
    BY <2>1, <2>2 DEF Counted, Entry, Source, Target
  <2>4. CASE Source(p, edge[p].fromLow) = i
    <3>1. Entry(i, p) = [pair |-> p, way |-> "outgoing",
                         other |-> Target(p, edge[p].fromLow)]
      BY <2>4 DEF Entry
    <3> QED BY <2>1, <2>3, <2>4, <3>1 DEF Neighbourhood
  <2>5. CASE Target(p, edge[p].fromLow) = i /\ Source(p, edge[p].fromLow) # i
    <3>1. Entry(i, p) = [pair |-> p, way |-> "incoming",
                         other |-> Source(p, edge[p].fromLow)]
      BY <2>5 DEF Entry
    <3> QED BY <2>1, <2>3, <2>5, <3>1 DEF Neighbourhood
  <2> QED BY <2>2, <2>4, <2>5
<1> QED BY <1>1, <1>2

\* The badge beside a memory is the length of its page, whichever neighbours
\* are in the trash (repositories/connection.py, counts_for_items).
THEOREM BadgeIsPageLength == Spec => []CountIsDelivered
<1>1. ASSUME NEW u, NEW i
      PROVE  ConnectionCount(u, i) = Cardinality(Neighbourhood(u, i, {"confirmed"}))
  <2> DEFINE C == Counted(u, i)
             N == {Entry(i, p) : p \in C}
             f == [p \in C |-> Entry(i, p)]
  <2>1. IsFiniteSet(C)
    <3>1. IsFiniteSet(Items \X Items)
      BY FS_Product
    <3>2. C \subseteq Items \X Items
      BY DEF Counted, Edges, Pair
    <3> QED BY <3>1, <3>2, FS_Subset
  <2>2. f \in Bijection(C, N)
    <3>1. \A p \in C, q \in C : Entry(i, p) = Entry(i, q) => p = q
      BY DEF Entry
    <3> HIDE DEF C
    <3>2. f \in [C -> N] /\ \A y \in N : \E p \in C : f[p] = y
      OBVIOUS
    <3>3. \A p \in C, q \in C : f[p] = f[q] => p = q
      BY <3>1
    <3> QED BY <3>2, <3>3 DEF Bijection, Injection, Surjection, IsInjective
  <2>3. Cardinality(N) = Cardinality(C)
    BY <2>1, <2>2, FS_Bijection DEF ExistsBijection
  <2>4. ConnectionCount(u, i) = Cardinality(C)
    BY DEF ConnectionCount, Counted
  <2> QED BY <2>3, <2>4, PageIsEntries
<1>2. CountIsDelivered
  BY <1>1 DEF CountIsDelivered
<1> QED BY <1>2, PTL
===============================================================================
