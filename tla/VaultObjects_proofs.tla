------------------------- MODULE VaultObjects_proofs -------------------------
(***************************************************************************)
(* Proofs about VaultObjects, for any memories, bounds and number of       *)
(* concurrent requests and enrichments.                                    *)
(***************************************************************************)
EXTENDS VaultObjects, TLAPS

USE ConstantsAssumption

\* The program counter of a request tells what it remembers.
LEMMA RequestKinds ==
  ASSUME TypeOK, NEW s \in Sessions
  PROVE  /\ request[s] # Idle /\ request[s].pc = "save" => request[s] \in Saving
         /\ request[s] # Idle /\ request[s].pc \in {"trash", "restore"}
              => request[s] \in Moving
         /\ InPurge(s) => request[s] \in Purging
  BY DEF TypeOK, Saving, Moving, Purging, Idle, InPurge

\* An enrichment that is not idle remembers a row.
LEMMA TaskKind ==
  ASSUME TypeOK, NEW w \in Workers, task[w] # Idle
  PROVE  task[w] \in Task
  BY DEF TypeOK

\* A memory that was never saved has a row, of NULLs.
LEMMA NoRowIsRow == NoRow \in Row
  BY DEF NoRow, Row

\* A key column that is set names an object.
LEMMA KeyTypes ==
  ASSUME NEW r \in Row, NEW i \in Items, NEW k \in Kind, r.keys[k] # 0
  PROVE  KeyOf(i, k, r.keys[k]) \in Key
<1>1. r.keys[k] \in 1..MaxMints
  BY DEF Row
<1> QED BY <1>1 DEF KeyOf, Key

\* Storing an object keeps its types.
LEMMA MintTypes ==
  ASSUME TypeOK, NEW i \in Items, NEW k \in Kind, Mint(i, k)
  PROVE  /\ minted' \in 1..MaxMints /\ minted' \in 0..MaxMints
         /\ bucket' \subseteq Key
<1>1. minted' \in 1..MaxMints
  BY DEF TypeOK, Mint
<1>2. KeyOf(i, k, minted') \in Key
  BY <1>1 DEF KeyOf, Key
<1> QED BY <1>1, <1>2 DEF TypeOK, Mint

\* Deleting one keeps its types.
LEMMA RemoveTypes ==
  ASSUME TypeOK, NEW key \in Key, Remove(key)
  PROVE  bucket' \subseteq Key /\ leaked' \subseteq Items /\ faults' \in 0..MaxFaults
<1>1. key.item \in Items
  BY DEF Key
<1>2. CASE bucket' = bucket \ {key} /\ UNCHANGED <<leaked, faults>>
  BY <1>2 DEF TypeOK
<1>3. CASE /\ faults < MaxFaults /\ faults' = faults + 1
           /\ leaked' = leaked \cup {key.item}
           /\ UNCHANGED bucket
  <2>1. faults + 1 \in 0..MaxFaults
    BY <1>3 DEF TypeOK
  <2> QED BY <1>1, <1>3, <2>1 DEF TypeOK
<1> QED BY <1>2, <1>3 DEF Remove

\* The end of a transaction only frees locks.
LEMMA ReleaseTypes ==
  ASSUME TypeOK, NEW p, Release(p)
  PROVE  lock' \in [Items -> Sessions \cup Workers \cup {"free"}]
  BY DEF TypeOK, Release

\* What a purge writes on a row is a row.
LEMMA ScrubbedTypes ==
  ASSUME NEW seen \in Row, NEW now \in Row, NEW metadata \in BOOLEAN
  PROVE  Scrubbed(seen, now, metadata) \in Row
<1>1. \A k \in Kind : seen.keys[k] \in 0..MaxMints /\ now.keys[k] \in 0..MaxMints
  BY DEF Row
<1>2. [k \in Kind |-> IF k = "slides" /\ metadata THEN 0
                     ELSE Assign(seen.keys[k], 0, now.keys[k])] \in [Kind -> 0..MaxMints]
  BY <1>1 DEF Assign
<1> QED BY <1>2 DEF Scrubbed, Row

\* What an enrichment writes on a row is a row.
LEMMA EnrichedTypes ==
  ASSUME NEW t \in Task, NEW now \in Row, NEW metadata \in BOOLEAN
  PROVE  Enriched(t, now, metadata) \in Row
<1>1. /\ t.fresh["thumb"] \in 0..MaxMints /\ t.fresh["slides"] \in 0..MaxMints
      /\ t.seen.keys["slides"] \in 0..MaxMints
  BY DEF Task, Row, Kind, Mirrored
<1> QED BY <1>1 DEF Enriched, Row, Kind
-------------------------------------------------------------------------------
(* Type correctness.                                                       *)

\* A purge knows the rows it works on: the ones it has left, the ones of the
\* objects it deletes, which it has flushed already, and those it has deleted.
PurgesKnow ==
  \A s \in Sessions : InPurge(s) =>
    /\ request[s].left \cup request[s].gone \subseteq DOMAIN request[s].seen
    /\ \A key \in request[s].doomed :
         key.item \in DOMAIN request[s].seen /\ key.item \notin request[s].left

\* Saving and moving a memory keep the types.
LEMMA OwnerTypes ==
  ASSUME TypeOK, NEW c \in Sessions, NEW i \in Items,
         \/ SaveLink(i) \/ SaveWords(i) \/ Expire(i) \/ SaveUpload(c, i)
         \/ SaveInsert(c) \/ TrashRead(c, i) \/ RestoreRead(c, i) \/ Move(c)
  PROVE  TypeOK'
<1>1. CASE SaveLink(i) \/ SaveWords(i) \/ Expire(i)
  <2>1. /\ [NoRow EXCEPT !.saved = TRUE, !.link = TRUE] \in Row
        /\ [NoRow EXCEPT !.saved = TRUE] \in Row
        /\ [row[i] EXCEPT !.deletedAt = "expired"] \in Row
    BY NoRowIsRow DEF TypeOK, Row
  <2>2. row' \in [Items -> Row]
    BY <1>1, <2>1 DEF TypeOK, SaveLink, SaveWords, Expire
  <2> QED BY <1>1, <2>2 DEF TypeOK, SaveLink, SaveWords, Expire
<1>2. CASE SaveUpload(c, i)
  <2>1. Mint(i, "file") /\ minted' \in 1..MaxMints /\ minted' \in 0..MaxMints
        /\ bucket' \subseteq Key
    BY <1>2, MintTypes DEF SaveUpload, Kind
  <2>2. [pc |-> "save", item |-> i, fresh |-> minted'] \in Saving
    BY <2>1 DEF Saving
  <2> QED BY <1>2, <2>1, <2>2 DEF TypeOK, SaveUpload
<1>3. CASE SaveInsert(c)
  <2>1. request[c] \in Saving
    BY <1>3, RequestKinds DEF SaveInsert
  <2>2. request[c].item \in Items /\ request[c].fresh \in 0..MaxMints
    BY <2>1 DEF Saving
  <2>3. [NoRow.keys EXCEPT !["file"] = request[c].fresh] \in [Kind -> 0..MaxMints]
    BY <2>2, NoRowIsRow DEF Row
  <2>4. [NoRow EXCEPT !.saved = TRUE, !.keys["file"] = request[c].fresh] \in Row
    BY <2>3, NoRowIsRow DEF Row
  <2> QED BY <1>3, <2>2, <2>4 DEF TypeOK, SaveInsert
<1>4. CASE TrashRead(c, i) \/ RestoreRead(c, i)
  <2>1. [pc |-> "trash", item |-> i] \in Moving /\ [pc |-> "restore", item |-> i] \in Moving
    BY DEF Moving
  <2>2. \E m \in Moving : /\ request' = [request EXCEPT ![c] = m]
                         /\ UNCHANGED <<row, bucket, minted, lock, task, torn, leaked, faults>>
    BY <1>4, <2>1 DEF TrashRead, RestoreRead
  <2> QED BY <2>2 DEF TypeOK
<1>5. CASE Move(c)
  <2>1. request[c] \in Moving
    BY <1>5, RequestKinds DEF Move
  <2>2. request[c].item \in Items
    BY <2>1 DEF Moving
  <2>3. /\ [row[request[c].item] EXCEPT !.deletedAt = "recent"] \in Row
        /\ [row[request[c].item] EXCEPT !.deletedAt = "null"] \in Row
    BY <2>2 DEF TypeOK, Row
  <2>4. row' \in [Items -> Row]
    BY <1>5, <2>2, <2>3 DEF TypeOK, Move
  <2> QED BY <1>5, <2>4 DEF TypeOK, Move
<1> QED BY <1>1, <1>2, <1>3, <1>4, <1>5

\* So does beginning a purge of any batch,
LEMMA PurgeReadTypes ==
  ASSUME TypeOK, NEW s \in Sessions, NEW S \in SUBSET Items, PurgeRead(s, S)
  PROVE  TypeOK'
<1> DEFINE purge == [pc |-> "purge", seen |-> [i \in S |-> row[i]], left |-> S,
                     doomed |-> {}, gone |-> {}]
<1>1. [i \in S |-> row[i]] \in [S -> Row]
  BY DEF TypeOK
<1>2. purge \in Purging
  BY <1>1 DEF Purging
<1> QED BY <1>2 DEF TypeOK, PurgeRead

\* and each step of one.
LEMMA PurgeTypes ==
  ASSUME TypeOK, PurgesKnow, NEW s \in Sessions,
         PurgeRow(s) \/ PurgeCommit(s) \/ \E key \in Key : PurgeObject(s, key)
  PROVE  TypeOK'
<1> DEFINE r == request[s]
<1>1. /\ r \in Purging /\ r.left \subseteq Items /\ r.doomed \subseteq Key
      /\ r.gone \subseteq Items
      /\ \E S \in SUBSET Items : r.seen \in [S -> Row]
  <2>1. r \in Purging
    BY RequestKinds DEF PurgeRow, PurgeCommit, PurgeObject
  <2> QED BY <2>1 DEF Purging
<1>2. CASE PurgeRow(s)
  <2>1. PICK i \in r.left :
          /\ lock' = [lock EXCEPT ![i] = s]
          /\ request' = [request EXCEPT ![s].left = @ \ {i},
                                         ![s].doomed = Doomed(i, r.seen[i])]
    BY <1>2 DEF PurgeRow
  <2>2. i \in Items /\ r.seen[i] \in Row
    BY <1>1, <1>2 DEF PurgesKnow, PurgeRow
  <2>3. Doomed(i, r.seen[i]) \subseteq Key
    BY <2>2, KeyTypes DEF Doomed, Kind
  <2>4. [r EXCEPT !.left = @ \ {i}, !.doomed = Doomed(i, r.seen[i])] \in Purging
    BY <1>1, <2>3 DEF Purging
  <2>5. request' \in [Sessions -> Saving \cup Moving \cup Purging \cup {Idle}]
    BY <2>1, <2>4 DEF TypeOK
  <2>6. lock' \in [Items -> Sessions \cup Workers \cup {"free"}]
    BY <2>1, <2>2 DEF TypeOK
  <2> QED BY <1>2, <2>5, <2>6 DEF TypeOK, PurgeRow
<1>3. CASE PurgeCommit(s)
  <2>1. PICK metadata \in [DOMAIN r.seen -> BOOLEAN] :
          row' = [i \in Items |-> IF i \in DOMAIN r.seen
                                  THEN Scrubbed(r.seen[i], row[i], metadata[i])
                                  ELSE row[i]]
    BY <1>3 DEF PurgeCommit
  <2>2. ASSUME NEW i \in Items PROVE row'[i] \in Row
    <3>1. row[i] \in Row
      BY DEF TypeOK
    <3>2. CASE i \in DOMAIN r.seen
      <4>1. r.seen[i] \in Row /\ metadata[i] \in BOOLEAN
        BY <1>1, <2>1, <3>2
      <4> QED BY <2>1, <3>1, <3>2, <4>1, ScrubbedTypes
    <3> QED BY <2>1, <3>1, <3>2
  <2>3. row' \in [Items -> Row]
    BY <2>1, <2>2
  <2> QED BY <1>3, <2>3, ReleaseTypes DEF TypeOK, PurgeCommit
<1>4. CASE \E key \in Key : PurgeObject(s, key)
  <2>1. PICK key \in Key : PurgeObject(s, key)
    BY <1>4
  <2>2. key.item \in Items
    BY DEF Key
  <2>3. [r EXCEPT !.doomed = @ \ {key}, !.gone = @ \cup {key.item}] \in Purging
    BY <1>1, <2>2 DEF Purging
  <2>4. request' \in [Sessions -> Saving \cup Moving \cup Purging \cup {Idle}]
    BY <2>1, <2>3 DEF TypeOK, PurgeObject
  <2> QED BY <2>1, <2>4, RemoveTypes DEF TypeOK, PurgeObject
<1> QED BY <1>2, <1>3, <1>4
\* A request that dies leaves the types, and
LEMMA RequestDiesTypes ==
  ASSUME TypeOK, NEW s \in Sessions, RequestDies(s)
  PROVE  TypeOK'
<1>1. request[s].pc = "purge" => request[s].gone \subseteq Items
  BY RequestKinds DEF RequestDies, InPurge, Purging
<1>2. request[s].pc = "save" => request[s].item \in Items
  BY RequestKinds DEF RequestDies, Saving
<1>3. faults' \in 0..MaxFaults
  BY DEF RequestDies, TypeOK
<1> QED BY <1>1, <1>2, <1>3, ReleaseTypes DEF TypeOK, RequestDies

\* so does everything an enrichment does.
LEMMA TaskTypes ==
  ASSUME TypeOK, NEW w \in Workers,
         \/ TaskStep(w) \/ TaskDies(w) \/ \E i \in Items : TaskRead(w, i)
  PROVE  TypeOK'
<1> DEFINE t == task[w]
<1>0. t # Idle => /\ t \in Task /\ t.item \in Items /\ t.seen \in Row
                   /\ t.fresh \in [Mirrored -> 0..MaxMints]
  BY TaskKind DEF Task
<1>1. ASSUME NEW i \in Items, TaskRead(w, i) PROVE TypeOK'
  <2>1. PICK pc \in {"claim", "thumb"} :
          Become(w, [pc |-> pc, item |-> i, seen |-> row[i],
                     fresh |-> [k \in Mirrored |-> 0], gone |-> FALSE])
    BY <1>1 DEF TaskRead
  <2>2. [pc |-> pc, item |-> i, seen |-> row[i],
         fresh |-> [k \in Mirrored |-> 0], gone |-> FALSE] \in Task
    <3>1. row[i] \in Row /\ [k \in Mirrored |-> 0] \in [Mirrored -> 0..MaxMints]
      BY DEF TypeOK
    <3> HIDE DEF t
    <3> QED BY <3>1 DEF Task
  <2>3. task' \in [Workers -> Task \cup {Idle}]
    BY <2>1, <2>2 DEF Become, TypeOK
  <2>4. torn' \subseteq Items /\ leaked' \subseteq Items
    BY <1>1 DEF TaskRead, TypeOK
  <2> QED BY <1>1, <2>3, <2>4 DEF TypeOK, TaskRead
<1>2. CASE TaskClaim(w)
  <2>1. [t EXCEPT !.pc = "thumb"] \in Task
    BY <1>0, <1>2 DEF Task, TaskClaim, At
  <2>2. t.item \in Items
    BY <1>0, <1>2 DEF TaskClaim, At
  <2> QED BY <1>2, <2>1, <2>2 DEF TypeOK, TaskClaim, Become
<1>3. ASSUME NEW k \in Mirrored, NoMirror(w, k) PROVE TypeOK'
  <2>1. [t EXCEPT !.pc = After(k)] \in Task
    BY <1>0, <1>3 DEF Task, NoMirror, At, After
  <2> QED BY <1>3, <2>1 DEF TypeOK, NoMirror, Become
<1>4. ASSUME NEW k \in Mirrored, Mirror(w, k) PROVE TypeOK'
  <2>1. /\ t.item \in Items /\ minted' \in 0..MaxMints /\ bucket' \subseteq Key
    BY <1>0, <1>4, MintTypes DEF Mirror, At, Mirrored, Kind
  <2>2. t \in Task
    BY <1>0, <1>4 DEF Mirror, At
  <2>3. [t EXCEPT !.pc = IF @ = "thumb" THEN "drop thumb" ELSE "drop slides",
                  !.fresh[k] = minted'] \in Task
    <3>1. [t.fresh EXCEPT ![k] = minted'] \in [Mirrored -> 0..MaxMints]
      BY <2>1, <2>2 DEF Task
    <3>2. (IF t.pc = "thumb" THEN "drop thumb" ELSE "drop slides")
            \in {"drop thumb", "drop slides"}
      OBVIOUS
    <3> QED BY <2>2, <3>1, <3>2 DEF Task
  <2> QED BY <1>4, <2>1, <2>3 DEF TypeOK, Mirror, Become
<1>5. ASSUME NEW k \in Mirrored, DropPrevious(w, k) PROVE TypeOK'
  <2>1. t \in Task
    BY <1>0, <1>5 DEF DropPrevious, At
  <2>2. CASE t.seen.keys[k] = 0
    <3>1. [t EXCEPT !.pc = After(k)] \in Task
      BY <2>1 DEF Task, After
    <3> QED BY <1>5, <2>2, <3>1 DEF TypeOK, DropPrevious, Become
  <2>3. CASE t.seen.keys[k] # 0
    <3>1. KeyOf(t.item, k, t.seen.keys[k]) \in Key
      BY <1>0, <2>1, <2>3, KeyTypes DEF Idle, Task, Mirrored, Kind
    <3>2. [t EXCEPT !.pc = After(k), !.gone = TRUE] \in Task
      BY <2>1 DEF Task, After
    <3> QED BY <1>5, <2>3, <3>1, <3>2, RemoveTypes DEF TypeOK, DropPrevious, Become
  <2> QED BY <2>2, <2>3
<1>6. CASE TaskCommit(w)
  <2>1. t \in Task /\ t.item \in Items
    BY <1>0, <1>6 DEF TaskCommit, At
  <2>2. PICK metadata \in BOOLEAN :
          row' = [row EXCEPT ![t.item] = Enriched(t, @, metadata)]
    BY <1>6 DEF TaskCommit
  <2>3. Enriched(t, row[t.item], metadata) \in Row
    BY <2>1, EnrichedTypes DEF TypeOK
  <2>4. row' \in [Items -> Row]
    BY <2>1, <2>2, <2>3 DEF TypeOK
  <2> QED BY <1>6, <2>4, ReleaseTypes DEF TypeOK, TaskCommit, Become
<1>7. CASE TaskDies(w)
  <2>1. t.item \in Items
    BY <1>0, <1>7 DEF TaskDies
  <2>2. faults' \in 0..MaxFaults
    BY <1>7 DEF TaskDies, TypeOK
  <2> QED BY <1>7, <2>1, <2>2, ReleaseTypes DEF TypeOK, TaskDies, Become
<1> QED BY <1>1, <1>2, <1>3, <1>4, <1>5, <1>6, <1>7 DEF TaskStep
-------------------------------------------------------------------------------
(* The inductive invariant.                                                *)

FileKey(i, n) == KeyOf(i, "file", n)
Uploading(s, i) ==
  request[s] # Idle /\ request[s].pc = "save" /\ request[s].item = i

\* Only a row that was saved is in the trash or moves; a purged one names no file.
RowsWhole ==
  /\ \A i \in Items : (row[i].deletedAt # "null" \/ row[i].purged) => row[i].saved
  /\ \A i \in Items : row[i].purged => row[i].keys["file"] = 0
  /\ \A s \in Sessions :
       request[s] # Idle /\ request[s].pc \in {"trash", "restore"}
         => row[request[s].item].saved

\* A memory being uploaded has no row yet, but an object, and one request.
UploadsStored ==
  \A s \in Sessions, i \in Items : Uploading(s, i) =>
    /\ ~row[i].saved
    /\ FileKey(i, request[s].fresh) \in bucket
    /\ \A c \in Sessions : Uploading(c, i) => c = s

\* A stored file is named by its memory's row, or about to be.
FilesKnown ==
  \A i \in Items, n \in 1..MaxMints :
    FileKey(i, n) \in bucket /\ i \notin leaked =>
      \/ (row[i].saved /\ row[i].keys["file"] = n)
      \/ \E s \in Sessions : Uploading(s, i) /\ request[s].fresh = n

\* The file of a row that a purge has read is the one it read or, when another
\* purge was faster, gone; and gone it is once the purge has been there.
PurgesSound ==
  \A s \in Sessions : InPurge(s) =>
    \A i \in DOMAIN request[s].seen :
      LET n == request[s].seen[i].keys["file"]
          gone == n # 0 => FileKey(i, n) \notin bucket \/ i \in leaked
      IN /\ row[i].saved
         /\ row[i].keys["file"] = n \/ (row[i].keys["file"] = 0 /\ gone)
         /\ i \notin request[s].left => gone \/ FileKey(i, n) \in request[s].doomed

\* A file that is named is stored, or a purge is taking it or died over it.
FilesStored ==
  \A i \in Items : row[i].keys["file"] # 0 /\ ~row[i].purged =>
    \/ FileKey(i, row[i].keys["file"]) \in bucket
    \/ i \in torn
    \/ \E s \in Sessions : InPurge(s) /\ i \in request[s].gone

FileInv ==
  PurgesKnow /\ RowsWhole /\ UploadsStored /\ FilesKnown /\ PurgesSound /\ FilesStored
ObjectInv == TypeOK /\ FileInv
\* Keys tell objects apart.
LEMMA KeysDiffer ==
  \A i, j, n, m :
    /\ FileKey(i, n) = FileKey(j, m) <=> i = j /\ n = m
    /\ FileKey(i, n).item = i
    /\ \A k \in Mirrored : FileKey(i, n) # KeyOf(j, k, m)
  BY DEF FileKey, KeyOf, Mirrored

\* What a purge has read is rows of memories.
LEMMA SeenTypes ==
  ASSUME TypeOK, NEW s \in Sessions, InPurge(s)
  PROVE  /\ DOMAIN request[s].seen \subseteq Items
         /\ \A i \in DOMAIN request[s].seen :
              request[s].seen[i] \in Row /\ request[s].seen[i].keys["file"] \in 0..MaxMints
         /\ request[s].doomed \subseteq Key
<1>1. request[s] \in Purging
  BY RequestKinds
<1>2. PICK S \in SUBSET Items : request[s].seen \in [S -> Row]
  BY <1>1 DEF Purging
<1>3. request[s].doomed \subseteq Key
  BY <1>1 DEF Purging
<1>4. \A i \in S : request[s].seen[i] \in Row
  BY <1>2
<1>5. \A r \in Row : r.keys["file"] \in 0..MaxMints
  BY DEF Row, Kind
<1>6. DOMAIN request[s].seen = S
  BY <1>2
<1> QED BY <1>3, <1>4, <1>5, <1>6

\* A row's file is a number.
LEMMA FileTypes ==
  ASSUME TypeOK, NEW i \in Items
  PROVE  row[i] \in Row /\ row[i].keys["file"] \in 0..MaxMints
  BY DEF TypeOK, Row, Kind

\* An empty vault satisfies the invariant.
LEMMA InitInv == Init => ObjectInv
<1> SUFFICES ASSUME Init PROVE ObjectInv
  OBVIOUS
<1>1. TypeOK
  BY NoRowIsRow DEF Init, TypeOK
<1>2. \A s \in Sessions : request[s] = Idle
  BY DEF Init
<1>3. \A i \in Items : row[i] = NoRow
  BY DEF Init
<1>4. bucket = {}
  BY DEF Init
<1>5. NoRow.deletedAt = "null" /\ ~NoRow.purged /\ NoRow.keys["file"] = 0
  BY DEF NoRow, Kind
<1>6. PurgesKnow /\ UploadsStored /\ PurgesSound
  BY <1>2 DEF PurgesKnow, UploadsStored, PurgesSound, InPurge, Uploading
<1>7. RowsWhole /\ FilesKnown /\ FilesStored
  BY <1>2, <1>3, <1>4, <1>5 DEF RowsWhole, FilesKnown, FilesStored
<1> QED BY <1>1, <1>6, <1>7 DEF ObjectInv, FileInv
-------------------------------------------------------------------------------
(* Steps that leave the files alone.                                       *)

SameFiles ==
  /\ \A i \in Items : /\ row'[i].saved = row[i].saved /\ row'[i].purged = row[i].purged
                      /\ row'[i].keys["file"] = row[i].keys["file"]
                      /\ row'[i].deletedAt # "null" => row[i].deletedAt # "null"
  /\ \A i \in Items, n \in 1..MaxMints : FileKey(i, n) \in bucket' <=> FileKey(i, n) \in bucket
  /\ leaked \subseteq leaked' /\ torn \subseteq torn'

\* They keep the invariant, whatever they do to pictures.
LEMMA SameFilesInv ==
  ASSUME ObjectInv, SameFiles, UNCHANGED request
  PROVE  FileInv'
<1> USE DEF ObjectInv, FileInv
<1>1. \A s : (InPurge(s)' <=> InPurge(s)) /\ \A i : (Uploading(s, i)' <=> Uploading(s, i))
  BY DEF InPurge, Uploading
<1>2. PurgesKnow'
  BY <1>1 DEF PurgesKnow
<1>3. RowsWhole'
  <2>1. \A s \in Sessions :
          request[s] # Idle /\ request[s].pc \in {"trash", "restore"}
            => request[s].item \in Items
    BY RequestKinds DEF Moving
  <2> QED BY <2>1 DEF RowsWhole, SameFiles
<1>4. UploadsStored'
  <2>1. \A s \in Sessions, i \in Items : Uploading(s, i) => request[s].fresh \in 1..MaxMints
    BY RequestKinds DEF Saving, Uploading
  <2> QED BY <1>1, <2>1 DEF UploadsStored, SameFiles
<1>5. FilesKnown'
  <2> SUFFICES ASSUME NEW i \in Items, NEW n \in 1..MaxMints,
                      FileKey(i, n) \in bucket', i \notin leaked'
               PROVE  \/ row'[i].saved /\ row'[i].keys["file"] = n
                      \/ \E s \in Sessions : Uploading(s, i) /\ request[s].fresh = n
    BY <1>1 DEF FilesKnown
  <2>1. FileKey(i, n) \in bucket /\ i \notin leaked
    BY DEF SameFiles
  <2> QED BY <2>1 DEF FilesKnown, SameFiles
<1>6. PurgesSound'
  <2> SUFFICES ASSUME NEW s \in Sessions, InPurge(s), NEW i \in DOMAIN request[s].seen
               PROVE  LET n == request[s].seen[i].keys["file"]
                          gone == n # 0 => FileKey(i, n) \notin bucket' \/ i \in leaked'
                      IN /\ row'[i].saved
                         /\ row'[i].keys["file"] = n \/ (row'[i].keys["file"] = 0 /\ gone)
                         /\ i \notin request[s].left
                              => gone \/ FileKey(i, n) \in request[s].doomed
    BY <1>1 DEF PurgesSound
  <2>1. i \in Items /\ request[s].seen[i].keys["file"] \in 0..MaxMints
    BY SeenTypes
  <2> QED BY <2>1 DEF PurgesSound, SameFiles
<1>7. FilesStored'
  <2>1. \A i \in Items : row[i].keys["file"] \in 0..MaxMints
    BY FileTypes
  <2> QED BY <1>1, <2>1 DEF FilesStored, SameFiles
<1> QED BY <1>2, <1>3, <1>4, <1>5, <1>6, <1>7
\* No enrichment touches a file, a row's place in the trash, or a request.
LEMMA TaskSameFiles ==
  ASSUME ObjectInv, NEW w \in Workers,
         \/ TaskStep(w) \/ TaskDies(w) \/ \E i \in Items : TaskRead(w, i)
  PROVE  SameFiles /\ UNCHANGED request
<1> DEFINE t == task[w]
<1>0. TypeOK
  BY DEF ObjectInv
<1>1. ASSUME NEW i \in Items, TaskRead(w, i) PROVE SameFiles /\ UNCHANGED request
  BY <1>1 DEF TaskRead, SameFiles
<1>2. CASE TaskClaim(w)
  BY <1>2 DEF TaskClaim, SameFiles
<1>3. ASSUME NEW k \in Mirrored, NoMirror(w, k) PROVE SameFiles /\ UNCHANGED request
  BY <1>3 DEF NoMirror, SameFiles
<1>4. ASSUME NEW k \in Mirrored, Mirror(w, k) PROVE SameFiles /\ UNCHANGED request
  <2>1. bucket' = bucket \cup {KeyOf(t.item, k, minted')}
    BY <1>4 DEF Mirror, Mint
  <2>2. \A i, n : FileKey(i, n) \in bucket' <=> FileKey(i, n) \in bucket
    BY <2>1, KeysDiffer
  <2> QED BY <1>4, <2>2 DEF Mirror, SameFiles
<1>5. ASSUME NEW k \in Mirrored, DropPrevious(w, k) PROVE SameFiles /\ UNCHANGED request
  <2>1. CASE t.seen.keys[k] = 0
    BY <1>5, <2>1 DEF DropPrevious, SameFiles
  <2>2. CASE t.seen.keys[k] # 0
    <3> DEFINE key == KeyOf(t.item, k, t.seen.keys[k])
    <3>1. bucket' \in {bucket \ {key}, bucket} /\ leaked \subseteq leaked'
      BY <1>5, <2>2 DEF DropPrevious, Remove
    <3>2. \A i, n : FileKey(i, n) \in bucket' <=> FileKey(i, n) \in bucket
      BY <3>1, KeysDiffer
    <3> QED BY <1>5, <3>1, <3>2 DEF DropPrevious, SameFiles
  <2> QED BY <2>1, <2>2
<1>6. CASE TaskCommit(w)
  <2>1. t \in Task /\ t.item \in Items
    BY <1>0, <1>6, TaskKind DEF TaskCommit, At, Task
  <2>2. PICK metadata \in BOOLEAN :
          row' = [row EXCEPT ![t.item] = Enriched(t, @, metadata)]
    BY <1>6 DEF TaskCommit
  <2>3. LET now == row[t.item]
            new == Enriched(t, now, metadata)
        IN /\ new.saved = now.saved /\ new.purged = now.purged
           /\ new.deletedAt = now.deletedAt /\ new.keys["file"] = now.keys["file"]
    BY <1>0, <2>1, FileTypes DEF Enriched, Row, Kind
  <2> HIDE DEF t
  <2>4. \A i \in Items : /\ row'[i].saved = row[i].saved /\ row'[i].purged = row[i].purged
                         /\ row'[i].deletedAt = row[i].deletedAt
                         /\ row'[i].keys["file"] = row[i].keys["file"]
    BY <1>0, <2>1, <2>2, <2>3 DEF TypeOK
  <2> QED BY <1>6, <2>4 DEF TaskCommit, SameFiles
<1>7. CASE TaskDies(w)
  BY <1>7 DEF TaskDies, SameFiles
<1> QED BY <1>1, <1>2, <1>3, <1>4, <1>5, <1>6, <1>7 DEF TaskStep

\* Nor does the clock.
LEMMA ExpireSameFiles ==
  ASSUME ObjectInv, NEW i \in Items, Expire(i)
  PROVE  SameFiles /\ UNCHANGED request
<1>1. \A j \in Items : /\ row'[j].saved = row[j].saved /\ row'[j].purged = row[j].purged
                       /\ row'[j].keys["file"] = row[j].keys["file"]
                       /\ row'[j].deletedAt # "null" => row[j].deletedAt # "null"
  BY FileTypes DEF ObjectInv, Expire, TypeOK, Row
<1> QED BY <1>1 DEF Expire, SameFiles
-------------------------------------------------------------------------------
(* Saving and moving.                                                      *)

\* Only the session that steps changes what it remembers.
LEMMA Others ==
  ASSUME NEW c \in Sessions, \A s \in Sessions \ {c} : request'[s] = request[s]
  PROVE  \A s \in Sessions \ {c} :
           (InPurge(s)' <=> InPurge(s)) /\ \A i : (Uploading(s, i)' <=> Uploading(s, i))
  BY DEF InPurge, Uploading

\* A memory whose id is unused is not being uploaded, and no purge has read it.
LEMMA UnusedAlone ==
  ASSUME ObjectInv, NEW i \in Items, Unused(i), NEW s \in Sessions
  PROVE  /\ ~Uploading(s, i)
         /\ InPurge(s) => i \notin DOMAIN request[s].seen
         /\ \A n \in 1..MaxMints : FileKey(i, n) \notin bucket
<1>1. ~row[i].saved /\ \A n : FileKey(i, n) \notin bucket
  BY KeysDiffer DEF Unused
<1> QED BY <1>1 DEF ObjectInv, FileInv, UploadsStored, PurgesSound

\* A link or words alone: a row without a file.
LEMMA SaveInv ==
  ASSUME ObjectInv, NEW i \in Items, SaveLink(i) \/ SaveWords(i)
  PROVE  FileInv'
<1> USE DEF ObjectInv, FileInv
<1>1. Unused(i) /\ UNCHANGED <<bucket, request, torn, leaked>>
  BY DEF SaveLink, SaveWords
<1>2. \A j \in Items \ {i} : row'[j] = row[j]
  BY DEF SaveLink, SaveWords, TypeOK
<1>3. /\ row'[i].saved /\ ~row'[i].purged /\ row'[i].keys["file"] = 0
      /\ row'[i].deletedAt = "null"
  <2>1. \/ row'[i] = [NoRow EXCEPT !.saved = TRUE, !.link = TRUE]
        \/ row'[i] = [NoRow EXCEPT !.saved = TRUE]
    BY DEF SaveLink, SaveWords, TypeOK
  <2>2. ~NoRow.purged /\ NoRow.keys["file"] = 0 /\ NoRow.deletedAt = "null"
    BY DEF NoRow, Kind
  <2> QED BY <2>1, <2>2, NoRowIsRow DEF Row
<1>4. /\ \A s : (InPurge(s)' <=> InPurge(s)) /\ \A j : (Uploading(s, j)' <=> Uploading(s, j))
      /\ \A s \in Sessions : InPurge(s) => DOMAIN request[s].seen \subseteq Items \ {i}
      /\ \A s \in Sessions : ~Uploading(s, i)
      /\ \A n \in 1..MaxMints : FileKey(i, n) \notin bucket
  <2>1. \A s : (InPurge(s)' <=> InPurge(s)) /\ \A j : (Uploading(s, j)' <=> Uploading(s, j))
    BY <1>1 DEF InPurge, Uploading
  <2>2. ASSUME NEW s \in Sessions
        PROVE  /\ ~Uploading(s, i)
               /\ InPurge(s) => DOMAIN request[s].seen \subseteq Items \ {i}
    BY <1>1, UnusedAlone, SeenTypes
  <2>3. \A n \in 1..MaxMints : FileKey(i, n) \notin bucket
    BY <1>1, KeysDiffer DEF Unused
  <2> QED BY <2>1, <2>2, <2>3
<1>5. PurgesKnow'
  BY <1>1, <1>4 DEF PurgesKnow
<1>6. RowsWhole'
  <2>1. \A s \in Sessions :
          request[s] # Idle /\ request[s].pc \in {"trash", "restore"}
            => request[s].item \in Items
    BY RequestKinds DEF Moving
  <2> QED BY <1>1, <1>2, <1>3, <2>1 DEF RowsWhole
<1>7. UploadsStored'
  BY <1>1, <1>2, <1>4 DEF UploadsStored
<1>8. FilesKnown'
  <2> SUFFICES ASSUME NEW j \in Items, NEW n \in 1..MaxMints,
                      FileKey(j, n) \in bucket, j \notin leaked
               PROVE  \/ row'[j].saved /\ row'[j].keys["file"] = n
                      \/ \E s \in Sessions : Uploading(s, j) /\ request[s].fresh = n
    BY <1>1, <1>4 DEF FilesKnown
  <2> QED BY <1>2, <1>4 DEF FilesKnown
<1>9. PurgesSound'
  <2> SUFFICES ASSUME NEW s \in Sessions, InPurge(s), NEW j \in DOMAIN request[s].seen
               PROVE  LET n == request[s].seen[j].keys["file"]
                          gone == n # 0 => FileKey(j, n) \notin bucket \/ j \in leaked
                      IN /\ row'[j].saved
                         /\ row'[j].keys["file"] = n \/ (row'[j].keys["file"] = 0 /\ gone)
                         /\ j \notin request[s].left
                              => gone \/ FileKey(j, n) \in request[s].doomed
    BY <1>1, <1>4 DEF PurgesSound
  <2> QED BY <1>2, <1>4 DEF PurgesSound
<1>10. FilesStored'
  <2> SUFFICES ASSUME NEW j \in Items, row'[j].keys["file"] # 0, ~row'[j].purged
               PROVE  \/ FileKey(j, row'[j].keys["file"]) \in bucket
                      \/ j \in torn
                      \/ \E s \in Sessions : InPurge(s) /\ j \in request[s].gone
    BY <1>1, <1>4 DEF FilesStored
  <2> QED BY <1>2, <1>3 DEF FilesStored
<1> QED BY <1>5, <1>6, <1>7, <1>8, <1>9, <1>10
\* The file is stored, the row is not yet.
LEMMA SaveUploadInv ==
  ASSUME ObjectInv, NEW c \in Sessions, NEW i \in Items, SaveUpload(c, i)
  PROVE  FileInv'
<1> USE DEF ObjectInv, FileInv, InPurge, Uploading
<1> DEFINE r == [pc |-> "save", item |-> i, fresh |-> minted']
<1>1. /\ Unused(i) /\ request[c] = Idle /\ request' = [request EXCEPT ![c] = r]
      /\ UNCHANGED <<row, torn, leaked>>
  BY DEF SaveUpload
<1>2. minted' \in 1..MaxMints /\ bucket' = bucket \cup {FileKey(i, minted')}
  BY MintTypes DEF SaveUpload, Kind, Mint, FileKey
<1>3. /\ request'[c] # Idle /\ request'[c].pc = "save"
      /\ request'[c].item = i /\ request'[c].fresh = minted'
  <2>1. request'[c] = r
    BY <1>1 DEF TypeOK
  <2> QED BY <2>1 DEF Idle
<1>4. \A s \in Sessions \ {c} : request'[s] = request[s]
  BY <1>1 DEF TypeOK
<1>5. \A s \in Sessions :
         ~Uploading(s, i) /\ (InPurge(s) => DOMAIN request[s].seen \subseteq Items \ {i})
  BY <1>1, UnusedAlone, SeenTypes
<1>6. \A j, n : FileKey(j, n) \in bucket' <=>
                   (FileKey(j, n) \in bucket \/ (j = i /\ n = minted'))
  BY <1>2, KeysDiffer
<1>7. ~row[i].saved /\ \A n : FileKey(i, n) \notin bucket
  BY <1>1, KeysDiffer DEF Unused
<1> HIDE DEF r
<1>8. PurgesKnow'
  <2> SUFFICES ASSUME NEW s \in Sessions \ {c}, InPurge(s)
               PROVE  /\ request[s].left \cup request[s].gone \subseteq DOMAIN request[s].seen
                      /\ \A key \in request[s].doomed : /\ key.item \in DOMAIN request[s].seen
                                                       /\ key.item \notin request[s].left
    BY <1>3, <1>4 DEF PurgesKnow
  <2> QED BY DEF PurgesKnow
<1>9. RowsWhole'
  BY <1>1, <1>3, <1>4 DEF RowsWhole
<1>10. UploadsStored'
  <2> SUFFICES ASSUME NEW s \in Sessions, NEW j \in Items, Uploading(s, j)'
               PROVE  /\ ~row[j].saved
                      /\ FileKey(j, request'[s].fresh) \in bucket'
                      /\ \A d \in Sessions : Uploading(d, j)' => d = s
    BY <1>1 DEF UploadsStored
  <2>1. CASE s = c
    BY <1>3, <1>4, <1>5, <1>6, <1>7, <2>1
  <2>2. CASE s # c
    <3>1. Uploading(s, j) /\ j # i /\ request'[s].fresh = request[s].fresh
      BY <1>4, <1>5, <2>2
    <3>2. \A d \in Sessions : Uploading(d, j)' => d # c /\ Uploading(d, j)
      BY <1>3, <1>4, <3>1
    <3> QED BY <1>6, <3>1, <3>2 DEF UploadsStored
  <2> QED BY <2>1, <2>2
<1>11. FilesKnown'
  <2> SUFFICES ASSUME NEW j \in Items, NEW n \in 1..MaxMints,
                      FileKey(j, n) \in bucket', j \notin leaked
               PROVE  \/ row[j].saved /\ row[j].keys["file"] = n
                      \/ \E s \in Sessions : Uploading(s, j)' /\ request'[s].fresh = n
    BY <1>1 DEF FilesKnown
  <2>1. CASE FileKey(j, n) \in bucket
    <3>1. CASE row[j].saved /\ row[j].keys["file"] = n
      BY <3>1
    <3>2. ASSUME NEW s \in Sessions, Uploading(s, j), request[s].fresh = n
          PROVE  request'[s] = request[s]
      BY <1>1, <1>4, <3>2
    <3> QED BY <2>1, <3>1, <3>2 DEF FilesKnown
  <2>2. CASE j = i /\ n = minted'
    BY <1>3, <2>2
  <2> QED BY <1>6, <2>1, <2>2
<1>12. PurgesSound'
  <2> SUFFICES ASSUME NEW s \in Sessions \ {c}, InPurge(s), NEW j \in DOMAIN request[s].seen
               PROVE  LET n == request[s].seen[j].keys["file"]
                          gone == n # 0 => FileKey(j, n) \notin bucket' \/ j \in leaked
                      IN /\ row[j].saved
                         /\ row[j].keys["file"] = n \/ (row[j].keys["file"] = 0 /\ gone)
                         /\ j \notin request[s].left
                              => gone \/ FileKey(j, n) \in request[s].doomed
    BY <1>1, <1>3, <1>4 DEF PurgesSound
  <2>1. j # i
    BY <1>5
  <2> QED BY <1>6, <2>1 DEF PurgesSound
<1>13. FilesStored'
  <2> SUFFICES ASSUME NEW j \in Items, row[j].keys["file"] # 0, ~row[j].purged
               PROVE  \/ FileKey(j, row[j].keys["file"]) \in bucket'
                      \/ j \in torn
                      \/ \E s \in Sessions : InPurge(s)' /\ j \in request'[s].gone
    BY <1>1 DEF FilesStored
  <2> QED BY <1>1, <1>4, <1>6 DEF FilesStored
<1> QED BY <1>8, <1>9, <1>10, <1>11, <1>12, <1>13

\* The row is inserted, with the key of what was stored.
LEMMA SaveInsertInv ==
  ASSUME ObjectInv, NEW c \in Sessions, SaveInsert(c)
  PROVE  FileInv'
<1> USE DEF ObjectInv, FileInv, InPurge, Uploading
<1> DEFINE i == request[c].item
           m == request[c].fresh
<1>1. /\ request' = [request EXCEPT ![c] = Idle]
      /\ UNCHANGED <<bucket, torn, leaked>>
  BY DEF SaveInsert
<1>2. i \in Items /\ m \in 1..MaxMints /\ Uploading(c, i)
  BY RequestKinds DEF SaveInsert, Saving, Uploading
<1>3. request'[c] = Idle /\ request[c] # Idle /\ request[c].pc = "save"
  BY <1>1 DEF TypeOK, SaveInsert
<1>4. \A s \in Sessions \ {c} : request'[s] = request[s]
  BY <1>1 DEF TypeOK
<1>5. \A j \in Items \ {i} : row'[j] = row[j]
  BY DEF SaveInsert, TypeOK
<1>6. /\ row'[i].saved /\ ~row'[i].purged /\ row'[i].keys["file"] = m
      /\ row'[i].deletedAt = "null"
  <2>1. row'[i] = [NoRow EXCEPT !.saved = TRUE, !.keys["file"] = m]
    BY <1>2 DEF SaveInsert, TypeOK
  <2>2. NoRow.deletedAt = "null" /\ ~NoRow.purged
    BY DEF NoRow
  <2>3. "file" \in DOMAIN NoRow.keys
    BY DEF NoRow, Kind
  <2> QED BY <2>1, <2>2, <2>3, NoRowIsRow DEF Row
<1> HIDE DEF i, m
<1>7. /\ ~row[i].saved /\ FileKey(i, m) \in bucket
      /\ \A s \in Sessions \ {c} : ~Uploading(s, i)
  BY <1>2 DEF UploadsStored, m
<1>8. \A s \in Sessions : InPurge(s) => DOMAIN request[s].seen \subseteq Items \ {i}
  BY <1>7, SeenTypes DEF PurgesSound
<1>20. \A s \in Sessions \ {c} :
         (InPurge(s)' <=> InPurge(s)) /\ \A j : (Uploading(s, j)' <=> Uploading(s, j))
  BY <1>4, Others
<1>21. ~InPurge(c)' /\ (\A j : ~Uploading(c, j)') /\ \A j : Uploading(c, j) => j = i
  BY <1>3 DEF i
<1>9. PurgesKnow'
  BY <1>3, <1>4 DEF PurgesKnow
<1>10. RowsWhole'
  <2>1. \A s \in Sessions :
          request[s] # Idle /\ request[s].pc \in {"trash", "restore"}
            => request[s].item \in Items
    BY RequestKinds DEF Moving
  <2>2. /\ \A j \in Items : (row'[j].deletedAt # "null" \/ row'[j].purged) => row'[j].saved
        /\ \A j \in Items : row'[j].purged => row'[j].keys["file"] = 0
    BY <1>5, <1>6 DEF RowsWhole
  <2>3. \A s \in Sessions \ {c} :
          request[s] # Idle /\ request[s].pc \in {"trash", "restore"}
            => row'[request[s].item].saved
    BY <1>5, <1>6, <2>1 DEF RowsWhole
  <2> QED BY <1>3, <1>4, <2>2, <2>3 DEF RowsWhole
<1>11. UploadsStored'
  <2> HIDE DEF InPurge, Uploading
  <2> SUFFICES ASSUME NEW s \in Sessions \ {c}, NEW j \in Items, Uploading(s, j)
               PROVE  /\ ~row'[j].saved
                      /\ FileKey(j, request[s].fresh) \in bucket
                      /\ \A d \in Sessions : Uploading(d, j)' => d = s
    BY <1>1, <1>4, <1>20, <1>21 DEF UploadsStored
  <2>1. row'[j] = row[j]
    BY <1>5, <1>7
  <2>2. /\ ~row[j].saved /\ FileKey(j, request[s].fresh) \in bucket
        /\ \A d \in Sessions : Uploading(d, j) => d = s
    BY DEF UploadsStored
  <2> QED BY <1>20, <1>21, <2>1, <2>2
<1>12. FilesKnown'
  <2> HIDE DEF InPurge, Uploading
  <2> SUFFICES ASSUME NEW j \in Items, NEW n \in 1..MaxMints,
                      FileKey(j, n) \in bucket, j \notin leaked
               PROVE  \/ row'[j].saved /\ row'[j].keys["file"] = n
                      \/ \E s \in Sessions : Uploading(s, j)' /\ request'[s].fresh = n
    BY <1>1 DEF FilesKnown
  <2>1. \/ row[j].saved /\ row[j].keys["file"] = n
        \/ \E s \in Sessions : Uploading(s, j) /\ request[s].fresh = n
    BY DEF FilesKnown
  <2>2. CASE j # i
    <3>1. ASSUME NEW s \in Sessions, Uploading(s, j), request[s].fresh = n
          PROVE  Uploading(s, j)' /\ request'[s].fresh = n
      BY <1>4, <1>20, <1>21, <2>2, <3>1
    <3> QED BY <1>5, <2>1, <2>2, <3>1
  <2>3. CASE j = i
    <3>1. ASSUME NEW s \in Sessions, Uploading(s, i), request[s].fresh = n
          PROVE  m = n
      BY <1>7, <3>1 DEF m
    <3> QED BY <1>6, <1>7, <2>1, <2>3, <3>1
  <2> QED BY <2>2, <2>3
<1>13. PurgesSound'
  <2> SUFFICES ASSUME NEW s \in Sessions \ {c}, InPurge(s), NEW j \in DOMAIN request[s].seen
               PROVE  LET n == request[s].seen[j].keys["file"]
                          gone == n # 0 => FileKey(j, n) \notin bucket \/ j \in leaked
                      IN /\ row'[j].saved
                         /\ row'[j].keys["file"] = n \/ (row'[j].keys["file"] = 0 /\ gone)
                         /\ j \notin request[s].left
                              => gone \/ FileKey(j, n) \in request[s].doomed
    BY <1>1, <1>3, <1>4 DEF PurgesSound
  <2>1. row'[j] = row[j]
    BY <1>5, <1>8
  <2> QED BY <2>1 DEF PurgesSound
<1>14. FilesStored'
  <2> SUFFICES ASSUME NEW j \in Items, row'[j].keys["file"] # 0, ~row'[j].purged
               PROVE  \/ FileKey(j, row'[j].keys["file"]) \in bucket
                      \/ j \in torn
                      \/ \E s \in Sessions : InPurge(s)' /\ j \in request'[s].gone
    BY <1>1 DEF FilesStored
  <2>1. CASE j = i
    BY <1>6, <1>7, <2>1
  <2>2. CASE j # i
    BY <1>3, <1>4, <1>5, <2>2 DEF FilesStored
  <2> QED BY <2>1, <2>2
<1> QED BY <1>9, <1>10, <1>11, <1>12, <1>13, <1>14

\* Trashing and restoring move rows only, and only rows that were saved.
LEMMA MoveInv ==
  ASSUME ObjectInv, NEW c \in Sessions,
         Move(c) \/ \E i \in Items : TrashRead(c, i) \/ RestoreRead(c, i)
  PROVE  FileInv'
<1> USE DEF ObjectInv, FileInv
<1>1. /\ UNCHANGED <<bucket, torn, leaked>>
      /\ \A s \in Sessions \ {c} : request'[s] = request[s]
  BY DEF Move, TrashRead, RestoreRead, TypeOK
<1>2. /\ request[c] # Idle => request[c].pc \in {"trash", "restore"}
      /\ request'[c] # Idle =>
           /\ request'[c].pc \in {"trash", "restore"}
           /\ row[request'[c].item].saved /\ request'[c].item \in Items
  <2>1. CASE Move(c)
    BY <2>1 DEF Move, TypeOK
  <2>2. ASSUME NEW i \in Items, TrashRead(c, i) \/ RestoreRead(c, i)
        PROVE  /\ request[c] = Idle /\ row[i].saved
               /\ request'[c] \in {[pc |-> "trash", item |-> i], [pc |-> "restore", item |-> i]}
    BY <2>2 DEF TrashRead, RestoreRead, TypeOK, Visible, Trashed, RowsWhole
  <2> QED BY <2>1, <2>2
<1>3. \A i \in Items : /\ row'[i].saved <=> row[i].saved
                       /\ row'[i].purged <=> row[i].purged
                       /\ row'[i].keys["file"] = row[i].keys["file"]
                       /\ row'[i].deletedAt # "null" => row[i].saved
  <2>1. CASE UNCHANGED row
    BY <2>1 DEF RowsWhole
  <2>2. CASE Move(c)
    <3> DEFINE i == request[c].item
    <3>1. i \in Items /\ row[i].saved
      BY <2>2, RequestKinds DEF Move, Moving, RowsWhole
    <3>2. PICK d \in {"recent", "null"} : row' = [row EXCEPT ![i].deletedAt = d]
      BY <2>2 DEF Move
    <3> HIDE DEF i
    <3>3. row'[i] = [row[i] EXCEPT !.deletedAt = d] /\ \A j \in Items \ {i} : row'[j] = row[j]
      BY <3>1, <3>2 DEF TypeOK
    <3>4. row[i] \in Row
      BY <3>1 DEF TypeOK
    <3> QED BY <3>1, <3>3, <3>4 DEF Row, RowsWhole
  <2> QED BY <2>1, <2>2 DEF TrashRead, RestoreRead
<1>10. /\ \A s \in Sessions \ {c} :
            (InPurge(s)' <=> InPurge(s)) /\ \A i : (Uploading(s, i)' <=> Uploading(s, i))
       /\ ~InPurge(c) /\ ~InPurge(c)' /\ \A i : ~Uploading(c, i) /\ ~Uploading(c, i)'
  BY <1>1, <1>2, Others DEF InPurge, Uploading
<1>4. PurgesKnow'
  BY <1>1, <1>10 DEF PurgesKnow
<1>5. RowsWhole'
  <2>1. \A s \in Sessions :
          request[s] # Idle /\ request[s].pc \in {"trash", "restore"}
            => request[s].item \in Items
    BY RequestKinds DEF Moving
  <2>2. /\ \A j \in Items : (row'[j].deletedAt # "null" \/ row'[j].purged) => row'[j].saved
        /\ \A j \in Items : row'[j].purged => row'[j].keys["file"] = 0
    BY <1>3 DEF RowsWhole
  <2>3. \A s \in Sessions \ {c} :
          request[s] # Idle /\ request[s].pc \in {"trash", "restore"}
            => row'[request[s].item].saved
    BY <1>3, <2>1 DEF RowsWhole
  <2>4. request'[c] # Idle => row'[request'[c].item].saved
    BY <1>2, <1>3
  <2> QED BY <1>1, <2>2, <2>3, <2>4 DEF RowsWhole
<1>6. UploadsStored'
  <2> SUFFICES ASSUME NEW s \in Sessions \ {c}, NEW j \in Items, Uploading(s, j)
               PROVE  /\ ~row'[j].saved
                      /\ FileKey(j, request[s].fresh) \in bucket
                      /\ \A d \in Sessions : Uploading(d, j)' => d = s
    BY <1>1, <1>10 DEF UploadsStored
  <2>1. row'[j].saved <=> row[j].saved
    BY <1>3
  <2> QED BY <1>10, <2>1 DEF UploadsStored
<1>7. FilesKnown'
  <2> SUFFICES ASSUME NEW j \in Items, NEW n \in 1..MaxMints,
                      FileKey(j, n) \in bucket, j \notin leaked
               PROVE  \/ row'[j].saved /\ row'[j].keys["file"] = n
                      \/ \E s \in Sessions : Uploading(s, j)' /\ request'[s].fresh = n
    BY <1>1 DEF FilesKnown
  <2>1. (row'[j].saved <=> row[j].saved) /\ row'[j].keys["file"] = row[j].keys["file"]
    BY <1>3
  <2> QED BY <1>1, <1>10, <2>1 DEF FilesKnown
<1>8. PurgesSound'
  <2> SUFFICES ASSUME NEW s \in Sessions \ {c}, InPurge(s), NEW j \in DOMAIN request[s].seen
               PROVE  LET n == request[s].seen[j].keys["file"]
                          gone == n # 0 => FileKey(j, n) \notin bucket \/ j \in leaked
                      IN /\ row'[j].saved
                         /\ row'[j].keys["file"] = n \/ (row'[j].keys["file"] = 0 /\ gone)
                         /\ j \notin request[s].left
                              => gone \/ FileKey(j, n) \in request[s].doomed
    BY <1>1, <1>10 DEF PurgesSound
  <2>1. (row'[j].saved <=> row[j].saved) /\ row'[j].keys["file"] = row[j].keys["file"]
    BY <1>3, SeenTypes
  <2> QED BY <2>1 DEF PurgesSound
<1>9. FilesStored'
  <2> SUFFICES ASSUME NEW j \in Items, row'[j].keys["file"] # 0, ~row'[j].purged
               PROVE  \/ FileKey(j, row'[j].keys["file"]) \in bucket
                      \/ j \in torn
                      \/ \E s \in Sessions : InPurge(s)' /\ j \in request'[s].gone
    BY <1>1 DEF FilesStored
  <2>1. (row'[j].purged <=> row[j].purged) /\ row'[j].keys["file"] = row[j].keys["file"]
    BY <1>3
  <2> QED BY <1>1, <1>10, <2>1 DEF FilesStored
<1> QED BY <1>4, <1>5, <1>6, <1>7, <1>8, <1>9
-------------------------------------------------------------------------------
(* Purging.                                                                *)

\* A purge begins with rows of the trash, as they are.
LEMMA PurgeReadInv ==
  ASSUME ObjectInv, NEW c \in Sessions, NEW S \in SUBSET Items,
         \A i \in S : Trashed(i), PurgeRead(c, S)
  PROVE  FileInv'
<1> USE DEF ObjectInv, FileInv
<1> DEFINE r == [pc |-> "purge", seen |-> [i \in S |-> row[i]], left |-> S,
                 doomed |-> {}, gone |-> {}]
<1>1. /\ UNCHANGED <<row, bucket, torn, leaked>> /\ request[c] = Idle
      /\ \A s \in Sessions \ {c} : request'[s] = request[s]
      /\ request'[c] = r
  BY DEF PurgeRead, TypeOK
<1>2. /\ request'[c] # Idle /\ request'[c].pc = "purge"
      /\ DOMAIN request'[c].seen = S /\ \A i \in S : request'[c].seen[i] = row[i]
      /\ request'[c].left = S /\ request'[c].doomed = {} /\ request'[c].gone = {}
  BY <1>1 DEF Idle
<1> HIDE DEF r
<1>3. \A i \in S : row[i].saved
  BY DEF Trashed, RowsWhole
<1>10. /\ \A s \in Sessions \ {c} :
            (InPurge(s)' <=> InPurge(s)) /\ \A i : (Uploading(s, i)' <=> Uploading(s, i))
       /\ ~InPurge(c) /\ InPurge(c)' /\ \A i : ~Uploading(c, i) /\ ~Uploading(c, i)'
  BY <1>1, <1>2, Others DEF InPurge, Uploading
<1>4. PurgesKnow'
  BY <1>1, <1>2, <1>10 DEF PurgesKnow
<1>5. RowsWhole'
  BY <1>1, <1>2 DEF RowsWhole
<1>6. UploadsStored'
  BY <1>1, <1>10 DEF UploadsStored
<1>7. FilesKnown'
  <2> SUFFICES ASSUME NEW j \in Items, NEW n \in 1..MaxMints,
                      FileKey(j, n) \in bucket, j \notin leaked
               PROVE  \/ row[j].saved /\ row[j].keys["file"] = n
                      \/ \E s \in Sessions : Uploading(s, j)' /\ request'[s].fresh = n
    BY <1>1 DEF FilesKnown
  <2> QED BY <1>1, <1>10 DEF FilesKnown
<1>8. PurgesSound'
  <2> SUFFICES ASSUME NEW s \in Sessions, InPurge(s)', NEW j \in DOMAIN request'[s].seen
               PROVE  LET n == request'[s].seen[j].keys["file"]
                          gone == n # 0 => FileKey(j, n) \notin bucket \/ j \in leaked
                      IN /\ row[j].saved
                         /\ row[j].keys["file"] = n \/ (row[j].keys["file"] = 0 /\ gone)
                         /\ j \notin request'[s].left
                              => gone \/ FileKey(j, n) \in request'[s].doomed
    BY <1>1 DEF PurgesSound
  <2>1. CASE s = c
    BY <1>2, <1>3, <2>1
  <2>2. CASE s # c
    BY <1>1, <1>10, <2>2 DEF PurgesSound
  <2> QED BY <2>1, <2>2
<1>9. FilesStored'
  BY <1>1, <1>2, <1>10 DEF FilesStored
<1> QED BY <1>4, <1>5, <1>6, <1>7, <1>8, <1>9

\* Row by row, it first decides which objects go: the row's file is one.
LEMMA PurgeRowInv ==
  ASSUME ObjectInv, NEW c \in Sessions, PurgeRow(c)
  PROVE  FileInv'
<1> USE DEF ObjectInv, FileInv
<1> DEFINE r == request[c]
<1>1. InPurge(c) /\ r.doomed = {} /\ UNCHANGED <<row, bucket, torn, leaked>>
  BY DEF PurgeRow
<1>2. PICK i \in r.left :
        request' = [request EXCEPT ![c].left = @ \ {i},
                                   ![c].doomed = Doomed(i, r.seen[i])]
  BY DEF PurgeRow
<1>3. \A s \in Sessions \ {c} : request'[s] = request[s]
  BY <1>2 DEF TypeOK
<1>4. /\ request'[c] # Idle /\ request'[c].pc = "purge" /\ request'[c].seen = r.seen
      /\ request'[c].gone = r.gone /\ request'[c].left = r.left \ {i}
      /\ request'[c].doomed = Doomed(i, r.seen[i])
  <2>1. r \in Purging
    BY <1>1, RequestKinds
  <2>2. request'[c] = [r EXCEPT !.left = @ \ {i}, !.doomed = Doomed(i, r.seen[i])]
    BY <1>2 DEF TypeOK
  <2> HIDE DEF r
  <2> QED BY <2>1, <2>2 DEF Purging, Idle
<1> HIDE DEF r
<1>10. /\ \A s \in Sessions \ {c} :
            (InPurge(s)' <=> InPurge(s)) /\ \A j : (Uploading(s, j)' <=> Uploading(s, j))
       /\ InPurge(c)' /\ \A j : ~Uploading(c, j) /\ ~Uploading(c, j)'
  BY <1>1, <1>3, <1>4, Others DEF InPurge, Uploading, r
<1>5. /\ i \in DOMAIN r.seen /\ r.left \cup r.gone \subseteq DOMAIN r.seen
      /\ \A key \in Doomed(i, r.seen[i]) : key.item = i
      /\ LET n == r.seen[i].keys["file"] IN n # 0 => FileKey(i, n) \in Doomed(i, r.seen[i])
  <2>1. r.left \cup r.gone \subseteq DOMAIN r.seen
    BY <1>1 DEF PurgesKnow, r
  <2> QED BY <2>1 DEF Doomed, KeyOf, FileKey
<1>6. PurgesKnow'
  BY <1>3, <1>4, <1>5, <1>10 DEF PurgesKnow
<1>7. RowsWhole'
  BY <1>1, <1>3, <1>4 DEF RowsWhole
<1>8. UploadsStored'
  BY <1>1, <1>3, <1>10 DEF UploadsStored
<1>9. FilesKnown'
  <2> SUFFICES ASSUME NEW j \in Items, NEW n \in 1..MaxMints,
                      FileKey(j, n) \in bucket, j \notin leaked
               PROVE  \/ row[j].saved /\ row[j].keys["file"] = n
                      \/ \E s \in Sessions : Uploading(s, j)' /\ request'[s].fresh = n
    BY <1>1 DEF FilesKnown
  <2>1. \/ row[j].saved /\ row[j].keys["file"] = n
        \/ \E s \in Sessions : Uploading(s, j) /\ request[s].fresh = n
    BY DEF FilesKnown
  <2>2. ASSUME NEW s \in Sessions, Uploading(s, j), request[s].fresh = n
        PROVE  Uploading(s, j)' /\ request'[s].fresh = n
    BY <1>3, <1>10, <2>2
  <2> QED BY <2>1, <2>2
<1>11. PurgesSound'
  <2> SUFFICES ASSUME NEW s \in Sessions, InPurge(s)', NEW j \in DOMAIN request'[s].seen
               PROVE  LET n == request'[s].seen[j].keys["file"]
                          gone == n # 0 => FileKey(j, n) \notin bucket \/ j \in leaked
                      IN /\ row[j].saved
                         /\ row[j].keys["file"] = n \/ (row[j].keys["file"] = 0 /\ gone)
                         /\ j \notin request'[s].left
                              => gone \/ FileKey(j, n) \in request'[s].doomed
    BY <1>1 DEF PurgesSound
  <2>1. CASE s = c
    <3>1. LET n == r.seen[j].keys["file"]
              gone == n # 0 => FileKey(j, n) \notin bucket \/ j \in leaked
          IN /\ row[j].saved
             /\ row[j].keys["file"] = n \/ (row[j].keys["file"] = 0 /\ gone)
             /\ j \notin r.left => gone
      BY <1>1, <1>4, <2>1 DEF PurgesSound, r
    <3> QED BY <1>4, <1>5, <2>1, <3>1
  <2>2. CASE s # c
    BY <1>3, <1>10, <2>2 DEF PurgesSound
  <2> QED BY <2>1, <2>2
<1>12. FilesStored'
  BY <1>1, <1>3, <1>4, <1>10 DEF FilesStored, r
<1> QED BY <1>6, <1>7, <1>8, <1>9, <1>11, <1>12

\* Then they go, unless the bucket refuses.
LEMMA PurgeObjectInv ==
  ASSUME ObjectInv, NEW c \in Sessions, NEW key \in Key, PurgeObject(c, key)
  PROVE  FileInv'
<1> USE DEF ObjectInv, FileInv
<1> DEFINE r == request[c]
<1>1. InPurge(c) /\ key \in r.doomed /\ UNCHANGED <<row, torn>>
  BY DEF PurgeObject
<1>2. /\ \/ bucket' = bucket \ {key} /\ leaked' = leaked
         \/ bucket' = bucket /\ leaked' = leaked \cup {key.item}
      /\ request' = [request EXCEPT ![c].doomed = @ \ {key}, ![c].gone = @ \cup {key.item}]
  BY DEF PurgeObject, Remove
<1>3. \A s \in Sessions \ {c} : request'[s] = request[s]
  BY <1>2 DEF TypeOK
<1>4. /\ request'[c] # Idle /\ request'[c].pc = "purge" /\ request'[c].seen = r.seen
      /\ request'[c].gone = r.gone \cup {key.item} /\ request'[c].left = r.left
      /\ request'[c].doomed = r.doomed \ {key}
  <2>1. r \in Purging
    BY <1>1, RequestKinds
  <2>2. request'[c] = [r EXCEPT !.doomed = @ \ {key}, !.gone = @ \cup {key.item}]
    BY <1>2 DEF TypeOK
  <2> HIDE DEF r
  <2> QED BY <2>1, <2>2 DEF Purging, Idle
<1> HIDE DEF r
<1>10. /\ \A s \in Sessions \ {c} :
            (InPurge(s)' <=> InPurge(s)) /\ \A j : (Uploading(s, j)' <=> Uploading(s, j))
       /\ InPurge(c)' /\ \A j : ~Uploading(c, j) /\ ~Uploading(c, j)'
  BY <1>1, <1>3, <1>4, Others DEF InPurge, Uploading, r
<1>5. /\ key.item \in DOMAIN r.seen /\ r.left \cup r.gone \subseteq DOMAIN r.seen
      /\ \A k \in r.doomed : k.item \in DOMAIN r.seen /\ k.item \notin r.left
      /\ key.item \in Items /\ row[key.item].saved
  <2>1. /\ key.item \in DOMAIN r.seen /\ r.left \cup r.gone \subseteq DOMAIN r.seen
        /\ \A k \in r.doomed : k.item \in DOMAIN r.seen /\ k.item \notin r.left
    BY <1>1 DEF PurgesKnow, r
  <2> QED BY <1>1, <2>1, SeenTypes DEF PurgesSound, r
<1>6. /\ \A j, n : FileKey(j, n) \in bucket' => FileKey(j, n) \in bucket
      /\ \A j, n : FileKey(j, n) \in bucket =>
                     FileKey(j, n) \in bucket' \/ (FileKey(j, n) = key /\ j = key.item)
      /\ leaked \subseteq leaked'
      /\ key \in bucket' => key.item \in leaked'
  BY <1>2, KeysDiffer
<1>7. PurgesKnow'
  BY <1>3, <1>4, <1>5, <1>10 DEF PurgesKnow
<1>8. RowsWhole'
  BY <1>1, <1>3, <1>4 DEF RowsWhole
<1>9. UploadsStored'
  <2> SUFFICES ASSUME NEW s \in Sessions \ {c}, NEW j \in Items, Uploading(s, j)
               PROVE  /\ ~row[j].saved
                      /\ FileKey(j, request[s].fresh) \in bucket'
                      /\ \A d \in Sessions : Uploading(d, j)' => d = s
    BY <1>1, <1>3, <1>10 DEF UploadsStored
  <2>1. ~row[j].saved /\ FileKey(j, request[s].fresh) \in bucket
    BY DEF UploadsStored
  <2> QED BY <1>5, <1>6, <1>10, <2>1 DEF UploadsStored
<1>11. FilesKnown'
  <2> SUFFICES ASSUME NEW j \in Items, NEW n \in 1..MaxMints,
                      FileKey(j, n) \in bucket', j \notin leaked'
               PROVE  \/ row[j].saved /\ row[j].keys["file"] = n
                      \/ \E s \in Sessions : Uploading(s, j)' /\ request'[s].fresh = n
    BY <1>1 DEF FilesKnown
  <2>1. FileKey(j, n) \in bucket /\ j \notin leaked
    BY <1>6
  <2>2. \/ row[j].saved /\ row[j].keys["file"] = n
        \/ \E s \in Sessions : Uploading(s, j) /\ request[s].fresh = n
    BY <2>1 DEF FilesKnown
  <2>3. ASSUME NEW s \in Sessions, Uploading(s, j), request[s].fresh = n
        PROVE  Uploading(s, j)' /\ request'[s].fresh = n
    BY <1>3, <1>10, <2>3
  <2> QED BY <2>2, <2>3
<1>12. PurgesSound'
  <2> SUFFICES ASSUME NEW s \in Sessions, InPurge(s)', NEW j \in DOMAIN request'[s].seen
               PROVE  LET n == request'[s].seen[j].keys["file"]
                          gone == n # 0 => FileKey(j, n) \notin bucket' \/ j \in leaked'
                      IN /\ row[j].saved
                         /\ row[j].keys["file"] = n \/ (row[j].keys["file"] = 0 /\ gone)
                         /\ j \notin request'[s].left
                              => gone \/ FileKey(j, n) \in request'[s].doomed
    BY <1>1 DEF PurgesSound
  <2>1. /\ InPurge(s) /\ request'[s].seen = request[s].seen
        /\ request'[s].left = request[s].left
        /\ request'[s].doomed \in {request[s].doomed, request[s].doomed \ {key}}
    BY <1>1, <1>3, <1>4, <1>10 DEF r
  <2> DEFINE n == request[s].seen[j].keys["file"]
  <2>2. LET gone == n # 0 => FileKey(j, n) \notin bucket \/ j \in leaked
        IN /\ row[j].saved
           /\ row[j].keys["file"] = n \/ (row[j].keys["file"] = 0 /\ gone)
           /\ j \notin request[s].left => gone \/ FileKey(j, n) \in request[s].doomed
    BY <2>1 DEF PurgesSound
  <2>3. FileKey(j, n).item = j
    BY KeysDiffer
  <2> HIDE DEF n
  <2>4. LET gone == n # 0 => FileKey(j, n) \notin bucket' \/ j \in leaked'
        IN /\ row[j].saved
           /\ row[j].keys["file"] = n \/ (row[j].keys["file"] = 0 /\ gone)
           /\ j \notin request[s].left => gone \/ FileKey(j, n) \in request'[s].doomed
    <3>1. CASE FileKey(j, n) = key
      BY <1>6, <2>2, <2>3, <3>1
    <3>2. CASE FileKey(j, n) # key
      BY <1>6, <2>1, <2>2, <3>2
    <3> QED BY <3>1, <3>2
  <2> QED BY <2>1, <2>4 DEF n
<1>13. FilesStored'
  <2> SUFFICES ASSUME NEW j \in Items, row[j].keys["file"] # 0, ~row[j].purged
               PROVE  \/ FileKey(j, row[j].keys["file"]) \in bucket'
                      \/ j \in torn
                      \/ \E s \in Sessions : InPurge(s)' /\ j \in request'[s].gone
    BY <1>1 DEF FilesStored
  <2>1. CASE j = key.item
    BY <1>4, <1>10, <2>1
  <2>2. CASE j # key.item
    <3>1. CASE FileKey(j, row[j].keys["file"]) \in bucket
      BY <1>6, <2>2, <3>1
    <3>2. ASSUME NEW s \in Sessions, InPurge(s), j \in request[s].gone
          PROVE  InPurge(s)' /\ j \in request'[s].gone
      BY <1>3, <1>4, <1>10, <3>2 DEF r
    <3> QED BY <3>1, <3>2 DEF FilesStored
  <2> QED BY <2>1, <2>2
<1> QED BY <1>7, <1>8, <1>9, <1>11, <1>12, <1>13

\* Only then are the rows scrubbed, and a purge that lost a race finds their
\* files gone.
LEMMA PurgeCommitInv ==
  ASSUME ObjectInv, NEW c \in Sessions, PurgeCommit(c)
  PROVE  FileInv'
<1> USE DEF ObjectInv, FileInv
<1> DEFINE r == request[c]
           D == DOMAIN r.seen
<1>1. /\ InPurge(c) /\ r.left = {} /\ r.doomed = {}
      /\ UNCHANGED <<bucket, torn, leaked>>
      /\ request' = [request EXCEPT ![c] = Idle]
  BY DEF PurgeCommit
<1>2. request'[c] = Idle /\ \A s \in Sessions \ {c} : request'[s] = request[s]
  BY <1>1 DEF TypeOK
<1>10. /\ \A s \in Sessions \ {c} :
            (InPurge(s)' <=> InPurge(s)) /\ \A j : (Uploading(s, j)' <=> Uploading(s, j))
       /\ ~InPurge(c)' /\ \A j : ~Uploading(c, j) /\ ~Uploading(c, j)'
  BY <1>1, <1>2, Others DEF InPurge, Uploading
<1>3. /\ D \subseteq Items /\ r.gone \subseteq D
      /\ \A j \in D : r.seen[j] \in Row /\ row[j] \in Row /\ row[j].saved
      /\ \A j \in D : LET n == r.seen[j].keys["file"] IN
           /\ row[j].keys["file"] \in {n, 0}
           /\ n # 0 => FileKey(j, n) \notin bucket \/ j \in leaked
  <2>1. D \subseteq Items /\ \A j \in D : r.seen[j] \in Row /\ row[j] \in Row
    BY <1>1, SeenTypes, FileTypes
  <2>2. r.gone \subseteq D
    BY <1>1 DEF PurgesKnow
  <2> QED BY <1>1, <2>1, <2>2 DEF PurgesSound
<1>4. ASSUME NEW j \in D
      PROVE  /\ row'[j].saved /\ row'[j].purged /\ row'[j].keys["file"] = 0
             /\ row'[j].deletedAt = row[j].deletedAt
  <2>1. PICK metadata \in [DOMAIN r.seen -> BOOLEAN] :
          row' = [i \in Items |-> IF i \in DOMAIN r.seen
                                  THEN Scrubbed(r.seen[i], row[i], metadata[i])
                                  ELSE row[i]]
    BY DEF PurgeCommit
  <2>2. row'[j] = Scrubbed(r.seen[j], row[j], metadata[j])
    BY <1>3, <2>1
  <2> DEFINE was == r.seen[j]
             now == row[j]
  <2>3. was \in Row /\ now \in Row /\ now.saved
        /\ now.keys["file"] \in {was.keys["file"], 0}
    BY <1>3
  <2> HIDE DEF was, now
  <2>4. LET new == Scrubbed(was, now, metadata[j])
        IN /\ new.saved = now.saved /\ new.purged /\ new.deletedAt = now.deletedAt
           /\ new.keys["file"] = Assign(was.keys["file"], 0, now.keys["file"])
    BY <2>3 DEF Scrubbed, Row, Kind
  <2> QED BY <2>2, <2>3, <2>4 DEF Assign, was, now
<1>5. \A j \in Items \ D : row'[j] = row[j]
  BY DEF PurgeCommit
<1>6. \A j \in Items : row[j].saved => row'[j].saved
  BY <1>4, <1>5
<1> HIDE DEF r, D
<1>7. PurgesKnow'
  BY <1>2, <1>10 DEF PurgesKnow
<1>8. RowsWhole'
  <2>1. \A s \in Sessions :
          request[s] # Idle /\ request[s].pc \in {"trash", "restore"}
            => request[s].item \in Items
    BY RequestKinds DEF Moving
  <2>2. /\ \A j \in Items : (row'[j].deletedAt # "null" \/ row'[j].purged) => row'[j].saved
        /\ \A j \in Items : row'[j].purged => row'[j].keys["file"] = 0
    BY <1>4, <1>5 DEF RowsWhole
  <2> QED BY <1>2, <1>6, <2>1, <2>2 DEF RowsWhole
<1>9. UploadsStored'
  <2> SUFFICES ASSUME NEW s \in Sessions \ {c}, NEW j \in Items, Uploading(s, j)
               PROVE  /\ ~row'[j].saved
                      /\ FileKey(j, request[s].fresh) \in bucket
                      /\ \A d \in Sessions : Uploading(d, j)' => d = s
    BY <1>1, <1>2, <1>10 DEF UploadsStored
  <2>1. j \notin D
    BY <1>3 DEF UploadsStored
  <2> QED BY <1>5, <1>10, <2>1 DEF UploadsStored
<1>11. FilesKnown'
  <2> SUFFICES ASSUME NEW j \in Items, NEW n \in 1..MaxMints,
                      FileKey(j, n) \in bucket, j \notin leaked
               PROVE  \/ row'[j].saved /\ row'[j].keys["file"] = n
                      \/ \E s \in Sessions : Uploading(s, j)' /\ request'[s].fresh = n
    BY <1>1 DEF FilesKnown
  <2>1. \/ row[j].saved /\ row[j].keys["file"] = n
        \/ \E s \in Sessions : Uploading(s, j) /\ request[s].fresh = n
    BY DEF FilesKnown
  <2>2. ASSUME NEW s \in Sessions, Uploading(s, j), request[s].fresh = n
        PROVE  Uploading(s, j)' /\ request'[s].fresh = n
    BY <1>2, <1>10, <2>2
  <2>3. CASE row[j].saved /\ row[j].keys["file"] = n
    <3>1. j \notin D
      BY <1>3, <2>3
    <3> QED BY <1>5, <2>3, <3>1
  <2> QED BY <2>1, <2>2, <2>3
<1>12. PurgesSound'
  <2> SUFFICES ASSUME NEW s \in Sessions \ {c}, InPurge(s), NEW j \in DOMAIN request[s].seen
               PROVE  LET n == request[s].seen[j].keys["file"]
                          gone == n # 0 => FileKey(j, n) \notin bucket \/ j \in leaked
                      IN /\ row'[j].saved
                         /\ row'[j].keys["file"] = n \/ (row'[j].keys["file"] = 0 /\ gone)
                         /\ j \notin request[s].left
                              => gone \/ FileKey(j, n) \in request[s].doomed
    BY <1>1, <1>2, <1>10 DEF PurgesSound
  <2> DEFINE n == request[s].seen[j].keys["file"]
             gone == n # 0 => FileKey(j, n) \notin bucket \/ j \in leaked
  <2>1. /\ row[j].saved
        /\ row[j].keys["file"] = n \/ (row[j].keys["file"] = 0 /\ gone)
        /\ j \notin request[s].left => gone \/ FileKey(j, n) \in request[s].doomed
    BY DEF PurgesSound
  <2>2. j \in Items
    BY SeenTypes
  <2> HIDE DEF n
  <2>3. /\ row'[j].saved
        /\ row'[j].keys["file"] = n \/ (row'[j].keys["file"] = 0 /\ gone)
    <3>1. CASE j \in D
      BY <1>3, <1>4, <2>1, <3>1
    <3>2. CASE j \notin D
      BY <1>5, <2>1, <2>2, <3>2
    <3> QED BY <3>1, <3>2
  <2> QED BY <2>1, <2>3 DEF n
<1>13. FilesStored'
  <2> SUFFICES ASSUME NEW j \in Items, row'[j].keys["file"] # 0, ~row'[j].purged
               PROVE  \/ FileKey(j, row'[j].keys["file"]) \in bucket
                      \/ j \in torn
                      \/ \E s \in Sessions : InPurge(s)' /\ j \in request'[s].gone
    BY <1>1 DEF FilesStored
  <2>1. j \notin D /\ row'[j] = row[j]
    BY <1>4, <1>5
  <2>2. ASSUME NEW s \in Sessions, InPurge(s), j \in request[s].gone
        PROVE  InPurge(s)' /\ j \in request'[s].gone
    BY <1>2, <1>3, <1>10, <2>1, <2>2 DEF r
  <2> QED BY <2>1, <2>2 DEF FilesStored
<1> QED BY <1>7, <1>8, <1>9, <1>11, <1>12, <1>13

\* A process that dies leaves its mark: files without a row, or the reverse.
LEMMA RequestDiesInv ==
  ASSUME ObjectInv, NEW c \in Sessions, RequestDies(c)
  PROVE  FileInv'
<1> USE DEF ObjectInv, FileInv
<1>1. /\ UNCHANGED <<row, bucket>> /\ leaked \subseteq leaked' /\ torn \subseteq torn'
      /\ request' = [request EXCEPT ![c] = Idle]
  BY DEF RequestDies
<1>2. request'[c] = Idle /\ \A s \in Sessions \ {c} : request'[s] = request[s]
  BY <1>1 DEF TypeOK
<1>3. /\ InPurge(c) => request[c].gone \subseteq torn'
      /\ \A j : Uploading(c, j) => j \in leaked'
  BY DEF RequestDies, InPurge, Uploading
<1>10. /\ \A s \in Sessions \ {c} :
            (InPurge(s)' <=> InPurge(s)) /\ \A j : (Uploading(s, j)' <=> Uploading(s, j))
       /\ ~InPurge(c)' /\ \A j : ~Uploading(c, j)'
  BY <1>2, Others DEF InPurge, Uploading
<1>4. PurgesKnow'
  BY <1>2, <1>10 DEF PurgesKnow
<1>5. RowsWhole'
  BY <1>1, <1>2 DEF RowsWhole
<1>6. UploadsStored'
  BY <1>1, <1>2, <1>10 DEF UploadsStored
<1>7. FilesKnown'
  <2> SUFFICES ASSUME NEW j \in Items, NEW n \in 1..MaxMints,
                      FileKey(j, n) \in bucket, j \notin leaked'
               PROVE  \/ row[j].saved /\ row[j].keys["file"] = n
                      \/ \E s \in Sessions : Uploading(s, j)' /\ request'[s].fresh = n
    BY <1>1 DEF FilesKnown
  <2>1. \/ row[j].saved /\ row[j].keys["file"] = n
        \/ \E s \in Sessions : Uploading(s, j) /\ request[s].fresh = n
    BY <1>1 DEF FilesKnown
  <2>2. ASSUME NEW s \in Sessions, Uploading(s, j), request[s].fresh = n
        PROVE  Uploading(s, j)' /\ request'[s].fresh = n
    BY <1>2, <1>3, <1>10, <2>2
  <2> QED BY <2>1, <2>2
<1>8. PurgesSound'
  <2> SUFFICES ASSUME NEW s \in Sessions \ {c}, InPurge(s), NEW j \in DOMAIN request[s].seen
               PROVE  LET n == request[s].seen[j].keys["file"]
                          gone == n # 0 => FileKey(j, n) \notin bucket \/ j \in leaked'
                      IN /\ row[j].saved
                         /\ row[j].keys["file"] = n \/ (row[j].keys["file"] = 0 /\ gone)
                         /\ j \notin request[s].left
                              => gone \/ FileKey(j, n) \in request[s].doomed
    BY <1>1, <1>2, <1>10 DEF PurgesSound
  <2> QED BY <1>1 DEF PurgesSound
<1>9. FilesStored'
  <2> SUFFICES ASSUME NEW j \in Items, row[j].keys["file"] # 0, ~row[j].purged
               PROVE  \/ FileKey(j, row[j].keys["file"]) \in bucket
                      \/ j \in torn'
                      \/ \E s \in Sessions : InPurge(s)' /\ j \in request'[s].gone
    BY <1>1 DEF FilesStored
  <2>1. ASSUME NEW s \in Sessions, InPurge(s), j \in request[s].gone
        PROVE  j \in torn' \/ (InPurge(s)' /\ j \in request'[s].gone)
    BY <1>2, <1>3, <1>10, <2>1
  <2> QED BY <1>1, <2>1 DEF FilesStored
<1> QED BY <1>4, <1>5, <1>6, <1>7, <1>8, <1>9
-------------------------------------------------------------------------------
(* The theorems.                                                           *)

\* Every step keeps the invariant.
LEMMA StepInv == ObjectInv /\ [Next]_vars => ObjectInv'
<1> SUFFICES ASSUME ObjectInv, [Next]_vars PROVE ObjectInv'
  OBVIOUS
<1>0. TypeOK /\ PurgesKnow
  BY DEF ObjectInv, FileInv
<1>1. ASSUME NEW i \in Items, SaveLink(i) \/ SaveWords(i) PROVE ObjectInv'
  <2>1. TypeOK'
    BY <1>0, <1>1, OwnerTypes DEF Sessions
  <2>2. FileInv'
    BY <1>1, SaveInv
  <2> QED BY <2>1, <2>2 DEF ObjectInv
<1>2. ASSUME NEW i \in Items, Expire(i) PROVE ObjectInv'
  <2>1. TypeOK'
    BY <1>0, <1>2, OwnerTypes DEF Sessions
  <2>2. FileInv'
    BY <1>2, ExpireSameFiles, SameFilesInv
  <2> QED BY <2>1, <2>2 DEF ObjectInv
<1>3. ASSUME NEW c \in Requests, OwnerStep(c) PROVE ObjectInv'
  <2>1. c \in Sessions
    BY DEF Sessions
  <2>2. ASSUME NEW i \in Items, SaveUpload(c, i) PROVE ObjectInv'
    <3>1. TypeOK'
      BY <1>0, <2>1, <2>2, OwnerTypes
    <3> QED BY <2>1, <2>2, <3>1, SaveUploadInv DEF ObjectInv
  <2>3. ASSUME NEW i \in Items, TrashRead(c, i) \/ RestoreRead(c, i) PROVE ObjectInv'
    <3>1. TypeOK'
      BY <1>0, <2>1, <2>3, OwnerTypes
    <3> QED BY <2>1, <2>3, <3>1, MoveInv DEF ObjectInv
  <2>4. ASSUME NEW S \in SUBSET Items, \A i \in S : Trashed(i), PurgeRead(c, S)
        PROVE  ObjectInv'
    BY <1>0, <2>1, <2>4, PurgeReadTypes, PurgeReadInv DEF ObjectInv
  <2>5. ASSUME NEW i \in Items, PurgeOne(c, i) PROVE ObjectInv'
    BY <2>4, <2>5 DEF PurgeOne
  <2>6. CASE EmptyTrash(c)
    BY <2>4, <2>6 DEF EmptyTrash
  <2> QED BY <1>3, <2>2, <2>3, <2>5, <2>6 DEF OwnerStep
<1>4. ASSUME NEW s \in Sessions, SessionStep(s) PROVE ObjectInv'
  <2>1. CASE SaveInsert(s)
    <3>1. \E i \in Items : TRUE
      BY <1>0, <2>1, RequestKinds DEF SaveInsert, Saving
    <3>2. TypeOK'
      BY <1>0, <2>1, <3>1, OwnerTypes
    <3> QED BY <2>1, <3>2, SaveInsertInv DEF ObjectInv
  <2>2. CASE Move(s)
    <3>1. \E i \in Items : TRUE
      BY <1>0, <2>2, RequestKinds DEF Move, Moving
    <3>2. TypeOK'
      BY <1>0, <2>2, <3>1, OwnerTypes
    <3> QED BY <2>2, <3>2, MoveInv DEF ObjectInv
  <2>3. CASE PurgeRow(s)
    BY <1>0, <2>3, PurgeTypes, PurgeRowInv DEF ObjectInv
  <2>4. CASE PurgeCommit(s)
    BY <1>0, <2>4, PurgeTypes, PurgeCommitInv DEF ObjectInv
  <2>5. ASSUME NEW key \in Key, PurgeObject(s, key) PROVE ObjectInv'
    BY <1>0, <2>5, PurgeTypes, PurgeObjectInv DEF ObjectInv
  <2> QED BY <1>4, <2>1, <2>2, <2>3, <2>4, <2>5 DEF SessionStep
<1>5. ASSUME NEW s \in Sessions, RequestDies(s) PROVE ObjectInv'
  BY <1>0, <1>5, RequestDiesTypes, RequestDiesInv DEF ObjectInv
<1>6. CASE PurgeExpired
  <2> DEFINE S == {i \in Items : Trashed(i) /\ row[i].deletedAt = "expired"}
  <2>1. "beat" \in Sessions /\ S \in SUBSET Items /\ \A i \in S : Trashed(i)
    BY DEF Sessions
  <2>2. PurgeRead("beat", S)
    BY <1>6 DEF PurgeExpired
  <2> HIDE DEF S
  <2> QED BY <1>0, <2>1, <2>2, PurgeReadTypes, PurgeReadInv DEF ObjectInv
<1>7. ASSUME NEW w \in Workers,
             \/ TaskStep(w) \/ TaskDies(w) \/ \E i \in Items : TaskRead(w, i)
      PROVE  ObjectInv'
  <2>1. TypeOK'
    BY <1>0, <1>7, TaskTypes
  <2>2. FileInv'
    BY <1>7, TaskSameFiles, SameFilesInv
  <2> QED BY <2>1, <2>2 DEF ObjectInv
<1>8. CASE UNCHANGED vars
  <2>1. TypeOK'
    BY <1>0, <1>8 DEF vars, TypeOK
  <2>2. SameFiles /\ UNCHANGED request
    BY <1>8 DEF vars, SameFiles
  <2> QED BY <2>1, <2>2, SameFilesInv DEF ObjectInv
<1> QED BY <1>1, <1>2, <1>3, <1>4, <1>5, <1>6, <1>7, <1>8 DEF Next

\* The invariant holds of every reachable state.
LEMMA ObjectInvariant == Spec => []ObjectInv
  BY InitInv, StepInv, PTL DEF Spec

\* Type correctness.
THEOREM VaultObjectsTypeCorrect == Spec => []TypeOK
<1>1. ObjectInv => TypeOK
  BY DEF ObjectInv
<1> QED BY <1>1, ObjectInvariant, PTL

\* What the owner uploaded outlives the trash, whatever requests overlap and
\* whichever processes die.
THEOREM UploadsOutliveTrash == Spec => []FileOutlivesTrash
<1>1. ObjectInv => FileOutlivesTrash
  <2> SUFFICES ASSUME ObjectInv, NEW i \in Items,
                      row[i].keys["file"] # 0, ~row[i].purged, ~BeingPurged(i), i \notin torn
               PROVE  KeyOf(i, "file", row[i].keys["file"]) \in bucket
    BY DEF FileOutlivesTrash
  <2>1. \A s \in Sessions : InPurge(s) => i \notin request[s].gone
    BY DEF ObjectInv, FileInv, PurgesKnow, BeingPurged
  <2> QED BY <2>1 DEF ObjectInv, FileInv, FilesStored, FileKey
<1> QED BY <1>1, ObjectInvariant, PTL

\* A purge leaves no upload behind, unless the bucket refused to delete one or
\* the process that saved it died.
THEOREM PurgesTakeFiles == Spec => []PurgeTakesTheFile
<1>1. ObjectInv => PurgeTakesTheFile
  <2> SUFFICES ASSUME ObjectInv, NEW i \in Items, row[i].purged, i \notin leaked,
                      NEW o \in Stored(i), o.kind = "file"
               PROVE  FALSE
    BY DEF PurgeTakesTheFile
  <2> USE DEF ObjectInv, FileInv
  <2>1. o \in bucket /\ o.n \in 1..MaxMints /\ o = FileKey(i, o.n)
    BY DEF Stored, TypeOK, Key, FileKey, KeyOf
  <2>2. row[i].saved /\ row[i].keys["file"] = 0
    BY DEF RowsWhole
  <2>3. \A s \in Sessions : ~Uploading(s, i)
    BY <2>2 DEF UploadsStored
  <2> QED BY <2>1, <2>2, <2>3 DEF FilesKnown
<1> QED BY <1>1, ObjectInvariant, PTL
-------------------------------------------------------------------------------
(* Pictures: the inductive invariant.                                      *)

\* Something may be missing from the bucket: a purge that completed or died
\* over the memory, a death between a deletion and its commit, two enrichments.
Damaged(i) ==
  \/ i \in torn \/ row[i].purged
  \/ \E s \in Sessions : InPurge(s) /\ i \in request[s].gone

On(w, i) == task[w] # Idle /\ task[w].item = i

\* Numbers are handed out once.
NumbersKnown ==
  /\ \A i \in Items, k \in Mirrored, n \in 1..MaxMints :
       KeyOf(i, k, n) \in bucket => n <= minted
  /\ \A i \in Items, k \in Mirrored : row[i].keys[k] <= minted
  /\ \A w \in Workers, k \in Mirrored : task[w] # Idle =>
       /\ task[w].fresh[k] <= minted /\ task[w].seen.keys[k] <= minted
       /\ task[w].fresh[k] # 0 => task[w].seen.keys[k] < task[w].fresh[k]

\* An enrichment copies the picture and then the slides, of a saved memory.
CopiesInOrder ==
  \A w \in Workers : task[w] # Idle =>
    /\ row[task[w].item].saved
    /\ task[w].pc \in {"claim", "thumb"} => task[w].fresh["thumb"] = 0
    /\ task[w].pc \in {"claim", "thumb", "drop thumb", "slides"}
         => task[w].fresh["slides"] = 0
    /\ task[w].pc = "drop thumb" => task[w].fresh["thumb"] # 0
    /\ task[w].pc = "drop slides" => task[w].fresh["slides"] # 0

\* A second enrichment of a memory muddles it for good.
OverlapsMarked ==
  \A v, w \in Workers, i \in Items :
    On(v, i) /\ On(w, i) /\ v # w => i \in torn /\ i \in leaked

\* Until then, and until a purge, the row is the one an enrichment has read.
RowsAsRead ==
  \A w \in Workers, i \in Items, k \in Mirrored :
    On(w, i) /\ ~row[i].purged /\ ~(i \in torn /\ i \in leaked)
      => task[w].seen.keys[k] = row[i].keys[k]

\* A picture that is named is stored, or an enrichment has replaced it; what an
\* enrichment has copied is stored.
PicturesStored ==
  \A i \in Items, k \in Mirrored : ~Damaged(i) =>
    /\ row[i].keys[k] # 0 =>
         \/ KeyOf(i, k, row[i].keys[k]) \in bucket
         \/ \E w \in Workers : On(w, i) /\ task[w].gone /\ task[w].fresh[k] # 0
    /\ \A w \in Workers : On(w, i) /\ task[w].fresh[k] # 0
         => KeyOf(i, k, task[w].fresh[k]) \in bucket

\* A stored picture is named by its row, or an enrichment has just copied it;
\* the one it replaces is gone before it copies the next.
PicturesNamed ==
  \A i \in Items, k \in Mirrored : i \notin leaked /\ ~row[i].purged =>
    /\ \A n \in 1..MaxMints : KeyOf(i, k, n) \in bucket =>
         \/ row[i].saved /\ row[i].keys[k] = n
         \/ \E w \in Workers : On(w, i) /\ task[w].fresh[k] = n
    /\ \A w \in Workers :
         On(w, i) /\ task[w].fresh[k] # 0 /\ task[w].pc # Drop(k)
           => KeyOf(i, k, task[w].seen.keys[k]) \notin bucket

PictureInv ==
  /\ NumbersKnown /\ CopiesInOrder /\ OverlapsMarked /\ RowsAsRead
  /\ PicturesStored /\ PicturesNamed
\* What the pictures' arguments rest on: the types, and that files are in order.
LEMMA PictureTypes ==
  ASSUME TypeOK
  PROVE  /\ minted \in 0..MaxMints
         /\ \A i \in Items, k \in Mirrored : row[i].keys[k] \in 0..MaxMints
         /\ \A w \in Workers : task[w] # Idle =>
              /\ task[w] \in Task /\ task[w].item \in Items
              /\ \A k \in Mirrored : /\ task[w].fresh[k] \in 0..MaxMints
                                     /\ task[w].seen.keys[k] \in 0..MaxMints
<1>1. \A r \in Row, k \in Mirrored : r.keys[k] \in 0..MaxMints
  BY DEF Row, Mirrored, Kind
<1>2. \A t \in Task : /\ t.item \in Items /\ t.seen \in Row
                      /\ t.fresh \in [Mirrored -> 0..MaxMints]
  BY DEF Task
<1> QED BY <1>1, <1>2, TaskKind DEF TypeOK

\* An empty vault has no pictures.
LEMMA InitPictures == Init => PictureInv
<1> SUFFICES ASSUME Init PROVE PictureInv
  OBVIOUS
<1>1. \A i \in Items, k \in Mirrored : row[i].keys[k] = 0
  BY DEF Init, NoRow, Mirrored, Kind
<1>2. bucket = {} /\ minted = 0 /\ \A w \in Workers : task[w] = Idle
  BY DEF Init
<1>3. NumbersKnown
  BY <1>1, <1>2 DEF NumbersKnown
<1>4. CopiesInOrder /\ OverlapsMarked /\ RowsAsRead
  BY <1>2 DEF CopiesInOrder, OverlapsMarked, RowsAsRead, On
<1>5. PicturesStored /\ PicturesNamed
  BY <1>1, <1>2 DEF PicturesStored, PicturesNamed, On
<1> QED BY <1>3, <1>4, <1>5 DEF PictureInv
-------------------------------------------------------------------------------
(* Pictures: saves, moves and purges.                                      *)

\* A step that copies nothing: a row it touches is purged or new, and what it
\* takes from the bucket it takes from a memory that it damages.
Aside ==
  /\ UNCHANGED task
  /\ minted' \in Nat /\ minted <= minted'
  /\ torn \subseteq torn' /\ leaked \subseteq leaked'
  /\ \A i \in Items, k \in Mirrored, n \in 0..MaxMints :
       /\ KeyOf(i, k, n) \in bucket' => KeyOf(i, k, n) \in bucket
       /\ KeyOf(i, k, n) \in bucket => KeyOf(i, k, n) \in bucket' \/ Damaged(i)'
  /\ \A i \in Items :
       /\ Damaged(i) => Damaged(i)'
       /\ row[i].purged => row'[i].purged
       /\ row[i].saved => row'[i].saved
       /\ \/ \A k \in Mirrored : row'[i].keys[k] = row[i].keys[k]
          \/ /\ row'[i].purged \/ ~row[i].saved
             /\ \A k \in Mirrored : row'[i].keys[k] \in {0, row[i].keys[k]}

LEMMA AsidePictures ==
  ASSUME ObjectInv, PictureInv, Aside
  PROVE  PictureInv'
<1> USE DEF PictureInv
<1>0. TypeOK /\ RowsWhole
  BY DEF ObjectInv, FileInv
<1>1. \A w \in Workers, i \in Items : On(w, i)' <=> On(w, i)
  BY DEF Aside, On
<1>2. NumbersKnown'
  <2>1. minted \in Nat /\ minted' \in Nat /\ minted <= minted' /\ UNCHANGED task
    BY <1>0, PictureTypes DEF Aside
  <2>2. ASSUME NEW i \in Items, NEW k \in Mirrored
        PROVE  row'[i].keys[k] <= minted'
    <3>1. row[i].keys[k] \in Nat /\ row[i].keys[k] <= minted
      BY <1>0, PictureTypes DEF NumbersKnown
    <3>2. row'[i].keys[k] \in {0, row[i].keys[k]}
      BY DEF Aside
    <3> QED BY <2>1, <3>1, <3>2
  <2>3. ASSUME NEW i \in Items, NEW k \in Mirrored, NEW n \in 1..MaxMints,
               KeyOf(i, k, n) \in bucket'
        PROVE  n <= minted'
    <3>1. n <= minted
      BY <2>3 DEF Aside, NumbersKnown
    <3> QED BY <2>1, <3>1
  <2>4. ASSUME NEW w \in Workers, NEW k \in Mirrored, task[w] # Idle
        PROVE  /\ task[w].fresh[k] <= minted' /\ task[w].seen.keys[k] <= minted'
               /\ task[w].fresh[k] # 0 => task[w].seen.keys[k] < task[w].fresh[k]
    <3>1. task[w].fresh[k] \in Nat /\ task[w].seen.keys[k] \in Nat
      BY <1>0, <2>4, PictureTypes
    <3> QED BY <2>1, <2>4, <3>1 DEF NumbersKnown
  <2> QED BY <2>1, <2>2, <2>3, <2>4 DEF NumbersKnown
<1>3. CopiesInOrder'
  <2>1. \A w \in Workers : task[w] # Idle => task[w].item \in Items
    BY <1>0, PictureTypes
  <2> QED BY <2>1 DEF CopiesInOrder, Aside
<1>4. OverlapsMarked'
  BY <1>1 DEF OverlapsMarked, Aside
<1>5. RowsAsRead'
  <2> SUFFICES ASSUME NEW w \in Workers, NEW i \in Items, NEW k \in Mirrored,
                      On(w, i), ~row'[i].purged, ~(i \in torn' /\ i \in leaked')
               PROVE  task[w].seen.keys[k] = row'[i].keys[k]
    BY <1>1 DEF RowsAsRead, Aside
  <2>1. ~row[i].purged /\ ~(i \in torn /\ i \in leaked) /\ row[i].saved
    BY DEF Aside, CopiesInOrder, On
  <2>2. row'[i].keys[k] = row[i].keys[k]
    BY <2>1 DEF Aside
  <2> QED BY <2>1, <2>2 DEF RowsAsRead
<1>6. PicturesStored'
  <2> SUFFICES ASSUME NEW i \in Items, NEW k \in Mirrored, ~Damaged(i)'
               PROVE  /\ row'[i].keys[k] # 0 =>
                           \/ KeyOf(i, k, row'[i].keys[k]) \in bucket'
                           \/ \E w \in Workers : /\ On(w, i) /\ task[w].gone
                                                 /\ task[w].fresh[k] # 0
                      /\ \A w \in Workers : On(w, i) /\ task[w].fresh[k] # 0
                           => KeyOf(i, k, task[w].fresh[k]) \in bucket'
    BY <1>1 DEF PicturesStored, Aside
  <2>1. ~Damaged(i) /\ ~row'[i].purged
    BY DEF Aside, Damaged
  <2>2. \A n \in 1..MaxMints : KeyOf(i, k, n) \in bucket => KeyOf(i, k, n) \in bucket'
    BY DEF Aside
  <2>3. row[i].keys[k] \in 0..MaxMints /\ row'[i].keys[k] \in {0, row[i].keys[k]}
    BY <1>0, PictureTypes DEF Aside
  <2>4. \A w \in Workers : On(w, i) => task[w].fresh[k] \in 0..MaxMints
    BY <1>0, PictureTypes DEF On
  <2>5. /\ row[i].keys[k] # 0 =>
             \/ KeyOf(i, k, row[i].keys[k]) \in bucket
             \/ \E w \in Workers : On(w, i) /\ task[w].gone /\ task[w].fresh[k] # 0
        /\ \A w \in Workers : On(w, i) /\ task[w].fresh[k] # 0
             => KeyOf(i, k, task[w].fresh[k]) \in bucket
    BY <2>1 DEF PicturesStored
  <2>6. \A n \in 0..MaxMints : n # 0 => n \in 1..MaxMints
    OBVIOUS
  <2>7. ASSUME NEW w \in Workers, On(w, i), task[w].fresh[k] # 0
        PROVE  KeyOf(i, k, task[w].fresh[k]) \in bucket'
    BY <2>2, <2>4, <2>5, <2>6, <2>7
  <2>8. row'[i].keys[k] # 0 => row'[i].keys[k] = row[i].keys[k]
    BY <2>3
  <2>9. ASSUME row'[i].keys[k] # 0
        PROVE  \/ KeyOf(i, k, row'[i].keys[k]) \in bucket'
               \/ \E w \in Workers : On(w, i) /\ task[w].gone /\ task[w].fresh[k] # 0
    BY <2>2, <2>3, <2>5, <2>6, <2>8, <2>9
  <2> QED BY <2>7, <2>9
<1>7. PicturesNamed'
  <2> SUFFICES ASSUME NEW i \in Items, NEW k \in Mirrored, i \notin leaked', ~row'[i].purged
               PROVE  /\ \A n \in 1..MaxMints : KeyOf(i, k, n) \in bucket' =>
                           \/ row'[i].saved /\ row'[i].keys[k] = n
                           \/ \E w \in Workers : On(w, i) /\ task[w].fresh[k] = n
                      /\ \A w \in Workers :
                           On(w, i) /\ task[w].fresh[k] # 0 /\ task[w].pc # Drop(k)
                             => KeyOf(i, k, task[w].seen.keys[k]) \notin bucket'
    BY <1>1 DEF PicturesNamed, Aside
  <2>1. /\ i \notin leaked /\ ~row[i].purged
        /\ row[i].saved => row'[i].saved
        /\ row[i].saved => row'[i].keys[k] = row[i].keys[k]
    BY DEF Aside
  <2>2. ASSUME NEW n \in 1..MaxMints, KeyOf(i, k, n) \in bucket'
        PROVE  \/ row'[i].saved /\ row'[i].keys[k] = n
               \/ \E w \in Workers : On(w, i) /\ task[w].fresh[k] = n
    <3>1. KeyOf(i, k, n) \in bucket
      BY <2>2 DEF Aside
    <3> QED BY <2>1, <3>1 DEF PicturesNamed
  <2>3. ASSUME NEW w \in Workers, On(w, i), task[w].fresh[k] # 0, task[w].pc # Drop(k),
               KeyOf(i, k, task[w].seen.keys[k]) \in bucket'
        PROVE  FALSE
    <3>1. task[w].seen.keys[k] \in 0..MaxMints
      BY <1>0, <2>3, PictureTypes DEF On
    <3>2. KeyOf(i, k, task[w].seen.keys[k]) \in bucket
      BY <2>3, <3>1 DEF Aside
    <3> QED BY <2>1, <2>3, <3>2 DEF PicturesNamed
  <2> QED BY <2>2, <2>3
<1> QED BY <1>2, <1>3, <1>4, <1>5, <1>6, <1>7

\* Damage is kept by a session that was not purging, or keeps what it has taken.
LEMMA DamageKept ==
  ASSUME NEW c \in Sessions, \A s \in Sessions \ {c} : request'[s] = request[s],
         InPurge(c) => InPurge(c)' /\ request[c].gone \subseteq request'[c].gone,
         torn \subseteq torn',
         NEW i \in Items, row[i].purged => row'[i].purged, Damaged(i)
  PROVE  Damaged(i)'
<1>1. ASSUME NEW s \in Sessions, InPurge(s), i \in request[s].gone
      PROVE  InPurge(s)' /\ i \in request'[s].gone
  BY <1>1 DEF InPurge
<1> QED BY <1>1 DEF Damaged

\* Saves, and every move to the trash and back, are aside.
LEMMA OwnerAside ==
  ASSUME ObjectInv, NEW c \in Sessions, NEW i \in Items,
         \/ SaveLink(i) \/ SaveWords(i) \/ Expire(i) \/ SaveUpload(c, i)
         \/ SaveInsert(c) \/ TrashRead(c, i) \/ RestoreRead(c, i) \/ Move(c)
  PROVE  Aside
<1>0. TypeOK /\ RowsWhole /\ UploadsStored
  BY DEF ObjectInv, FileInv
<1>1. /\ UNCHANGED task /\ minted' \in Nat /\ minted <= minted'
      /\ torn \subseteq torn' /\ leaked \subseteq leaked'
  BY <1>0, MintTypes DEF TypeOK, SaveLink, SaveWords, Expire, SaveUpload, Mint,
     SaveInsert, TrashRead, RestoreRead, Move
<1>2. \A j \in Items, k \in Mirrored, n \in 0..MaxMints :
        KeyOf(j, k, n) \in bucket' <=> KeyOf(j, k, n) \in bucket
  <2>1. CASE SaveUpload(c, i)
    <3>1. bucket' = bucket \cup {FileKey(i, minted')}
      BY <2>1 DEF SaveUpload, Mint, FileKey
    <3> QED BY <3>1, KeysDiffer
  <2>2. CASE UNCHANGED bucket
    BY <2>2
  <2> QED BY <2>1, <2>2 DEF SaveLink, SaveWords, Expire, SaveInsert, TrashRead,
             RestoreRead, Move
<1>3. ASSUME NEW j \in Items
      PROVE  /\ row[j].purged => row'[j].purged
             /\ row[j].saved => row'[j].saved
             /\ \/ \A k \in Mirrored : row'[j].keys[k] = row[j].keys[k]
                \/ ~row[j].saved /\ \A k \in Mirrored : row'[j].keys[k] = 0
  <2>0. row[j] \in Row /\ (row[j].purged => row[j].saved)
    BY <1>0 DEF TypeOK, RowsWhole
  <2>1. CASE SaveLink(i) \/ SaveWords(i)
    <3>1. /\ \A k \in Mirrored : row'[i].keys[k] = 0
          /\ row'[i].saved
      <4>1. \/ row'[i] = [NoRow EXCEPT !.saved = TRUE, !.link = TRUE]
            \/ row'[i] = [NoRow EXCEPT !.saved = TRUE]
        BY <1>0, <2>1 DEF SaveLink, SaveWords, TypeOK
      <4>2. \A k \in Mirrored : NoRow.keys[k] = 0
        BY DEF NoRow, Mirrored, Kind
      <4> QED BY <4>1, <4>2, NoRowIsRow DEF Row
    <3>2. ~row[i].saved
      BY <2>1 DEF SaveLink, SaveWords, Unused
    <3>3. j # i => row'[j] = row[j]
      BY <1>0, <2>1 DEF SaveLink, SaveWords, TypeOK
    <3> QED BY <2>0, <3>1, <3>2, <3>3
  <2>2. CASE SaveInsert(c)
    <3>1. Uploading(c, request[c].item) /\ request[c].item \in Items
      BY <1>0, <2>2, RequestKinds DEF SaveInsert, Uploading, Saving
    <3>2. ~row[request[c].item].saved
      BY <1>0, <3>1 DEF UploadsStored
    <3>3. row'[request[c].item] =
            [NoRow EXCEPT !.saved = TRUE, !.keys["file"] = request[c].fresh]
      BY <1>0, <2>2, <3>1 DEF SaveInsert, TypeOK
    <3>4. /\ \A k \in Mirrored : row'[request[c].item].keys[k] = 0
          /\ row'[request[c].item].saved
      BY <3>3 DEF NoRow, Mirrored, Kind
    <3>5. j # request[c].item => row'[j] = row[j]
      BY <1>0, <2>2 DEF SaveInsert, TypeOK
    <3> QED BY <2>0, <3>2, <3>4, <3>5
  <2>3. CASE Expire(i) \/ Move(c)
    <3>1. row'[j].keys = row[j].keys /\ row'[j].saved = row[j].saved
          /\ row'[j].purged = row[j].purged
      <4>1. CASE Expire(i)
        BY <1>0, <2>0, <4>1 DEF Expire, TypeOK, Row
      <4>2. CASE Move(c)
        <5>1. PICK new \in {"recent", "null"} :
                row' = [row EXCEPT ![request[c].item].deletedAt = new]
          BY <4>2 DEF Move
        <5> QED BY <1>0, <2>0, <5>1 DEF TypeOK, Row
      <4> QED BY <2>3, <4>1, <4>2
    <3> QED BY <3>1
  <2>4. CASE UNCHANGED row
    BY <2>4
  <2> QED BY <2>1, <2>2, <2>3, <2>4 DEF SaveUpload, TrashRead, RestoreRead
<1>4. \A j \in Items : Damaged(j) => Damaged(j)'
  <2>1. \A s \in Sessions \ {c} : request'[s] = request[s]
    BY <1>0 DEF TypeOK, SaveLink, SaveWords, Expire, SaveUpload, SaveInsert,
       TrashRead, RestoreRead, Move
  <2>2. InPurge(c) => InPurge(c)' /\ request[c].gone \subseteq request'[c].gone
    BY DEF InPurge, SaveLink, SaveWords, Expire, SaveUpload, SaveInsert,
       TrashRead, RestoreRead, Move
  <2> QED BY <1>1, <1>3, <2>1, <2>2, DamageKept
<1> QED BY <1>1, <1>2, <1>3, <1>4 DEF Aside

\* Reading the trash, and flushing a row, are too:
LEMMA PurgeReadAside ==
  ASSUME ObjectInv, NEW s \in Sessions, \/ \E S \in SUBSET Items : PurgeRead(s, S)
                                        \/ PurgeRow(s)
  PROVE  Aside
<1>0. TypeOK
  BY DEF ObjectInv
<1>1. UNCHANGED <<row, bucket, minted, task, torn, leaked>> /\ minted \in Nat
  BY <1>0 DEF PurgeRead, PurgeRow, TypeOK
<1>2. \A r \in Sessions \ {s} : request'[r] = request[r]
  BY <1>0 DEF TypeOK, PurgeRead, PurgeRow
<1>3. InPurge(s) => InPurge(s)' /\ request[s].gone \subseteq request'[s].gone
  <2>1. CASE \E S \in SUBSET Items : PurgeRead(s, S)
    BY <2>1 DEF PurgeRead, InPurge
  <2>2. CASE PurgeRow(s)
    <3>1. request[s] \in Purging
      BY <1>0, <2>2, RequestKinds DEF PurgeRow
    <3>2. PICK i \in request[s].left :
            request' = [request EXCEPT ![s].left = @ \ {i},
                                       ![s].doomed = Doomed(i, request[s].seen[i])]
      BY <2>2 DEF PurgeRow
    <3>3. request'[s].pc = "purge" /\ request'[s].gone = request[s].gone
      BY <1>0, <2>2, <3>1, <3>2 DEF TypeOK, PurgeRow, InPurge, Purging
    <3>4. request'[s] # Idle
      BY <3>3 DEF Idle
    <3> QED BY <3>3, <3>4 DEF InPurge
  <2> QED BY <2>1, <2>2
<1>4. \A i \in Items : Damaged(i) => Damaged(i)'
  BY <1>1, <1>2, <1>3, DamageKept
<1>5. minted' \in Nat /\ minted <= minted'
  BY <1>1
<1>6. /\ \A i \in Items, k \in Mirrored, n \in 0..MaxMints :
           KeyOf(i, k, n) \in bucket' <=> KeyOf(i, k, n) \in bucket
      /\ \A i \in Items : row'[i] = row[i]
  BY <1>1
<1> QED BY <1>1, <1>4, <1>5, <1>6 DEF Aside

\* deleting an object damages its memory;
LEMMA PurgeObjectAside ==
  ASSUME ObjectInv, NEW s \in Sessions, NEW key \in Key, PurgeObject(s, key)
  PROVE  Aside
<1>0. TypeOK
  BY DEF ObjectInv
<1>1. UNCHANGED <<row, minted, task, torn>> /\ minted \in Nat
  BY <1>0 DEF PurgeObject, TypeOK
<1>2. \A r \in Sessions \ {s} : request'[r] = request[r]
  BY <1>0 DEF TypeOK, PurgeObject
<1>3. InPurge(s)' /\ request'[s].gone = request[s].gone \cup {key.item}
  <2>1. request[s] \in Purging
    BY <1>0, RequestKinds DEF PurgeObject
  <2>2. request'[s].pc = "purge" /\ request'[s].gone = request[s].gone \cup {key.item}
    BY <1>0, <2>1 DEF TypeOK, PurgeObject, InPurge, Purging
  <2>3. request'[s] # Idle
    BY <2>2 DEF Idle
  <2> QED BY <2>2, <2>3 DEF InPurge
<1>4. \A i \in Items : Damaged(i) => Damaged(i)'
  BY <1>1, <1>2, <1>3, DamageKept
<1>5. bucket' \in {bucket \ {key}, bucket} /\ leaked \subseteq leaked'
  BY DEF PurgeObject, Remove
<1>6. Damaged(key.item)'
  BY <1>3 DEF Damaged
<1>7. \A i, k, n : key = KeyOf(i, k, n) => key.item = i
  BY DEF KeyOf
<1>8. ASSUME NEW i \in Items, NEW k \in Mirrored, NEW n \in 0..MaxMints
      PROVE  /\ KeyOf(i, k, n) \in bucket' => KeyOf(i, k, n) \in bucket
             /\ KeyOf(i, k, n) \in bucket => KeyOf(i, k, n) \in bucket' \/ Damaged(i)'
  BY <1>5, <1>6, <1>7
<1> QED BY <1>1, <1>4, <1>5, <1>8 DEF Aside

\* and so does completing the purge, or dying over it.
LEMMA PurgeEndsAside ==
  ASSUME ObjectInv, NEW s \in Sessions, PurgeCommit(s) \/ RequestDies(s)
  PROVE  Aside
<1>0. TypeOK /\ PurgesKnow
  BY DEF ObjectInv, FileInv
<1>1. /\ UNCHANGED <<bucket, minted, task>> /\ minted \in Nat
      /\ torn \subseteq torn' /\ leaked \subseteq leaked'
  BY <1>0 DEF PurgeCommit, RequestDies, TypeOK
<1>2. \A r \in Sessions \ {s} : request'[r] = request[r]
  BY <1>0 DEF TypeOK, PurgeCommit, RequestDies
<1>3. ASSUME NEW i \in Items
      PROVE  /\ row'[i].saved = row[i].saved
             /\ row[i].purged => row'[i].purged
             /\ \/ \A k \in Mirrored : row'[i].keys[k] = row[i].keys[k]
                \/ /\ row'[i].purged
                   /\ \A k \in Mirrored : row'[i].keys[k] \in {0, row[i].keys[k]}
             /\ InPurge(s) /\ i \in request[s].gone => row'[i].purged \/ i \in torn'
  <2>1. CASE RequestDies(s)
    BY <2>1 DEF RequestDies, InPurge
  <2>2. CASE PurgeCommit(s)
    <3> DEFINE seen == request[s].seen
    <3>1. PICK metadata \in [DOMAIN seen -> BOOLEAN] :
            row' = [j \in Items |-> IF j \in DOMAIN seen
                                    THEN Scrubbed(seen[j], row[j], metadata[j]) ELSE row[j]]
      BY <2>2 DEF PurgeCommit
    <3>2. i \in request[s].gone => i \in DOMAIN seen
      BY <1>0, <2>2 DEF PurgesKnow, PurgeCommit
    <3>3. row[i] \in Row
      BY <1>0 DEF TypeOK
    <3>4. CASE i \in DOMAIN seen
      <4>1. row'[i] = Scrubbed(seen[i], row[i], metadata[i])
        BY <3>1, <3>4
      <4>2. /\ row'[i].purged /\ row'[i].saved = row[i].saved
            /\ \A k \in Mirrored : row'[i].keys[k] \in {0, row[i].keys[k]}
        BY <3>3, <4>1 DEF Scrubbed, Row, Assign, Mirrored, Kind
      <4> QED BY <4>2
    <3>5. CASE i \notin DOMAIN seen
      <4>1. row'[i] = row[i]
        BY <3>1, <3>5
      <4> QED BY <3>2, <3>5, <4>1
    <3> QED BY <3>4, <3>5
  <2> QED BY <2>1, <2>2
<1>4. ASSUME NEW i \in Items, Damaged(i) PROVE Damaged(i)'
  <2>1. CASE InPurge(s) /\ i \in request[s].gone
    BY <1>3, <2>1 DEF Damaged
  <2>2. CASE i \in torn \/ row[i].purged
    BY <1>1, <1>3, <2>2 DEF Damaged
  <2>3. ASSUME NEW r \in Sessions \ {s}, InPurge(r), i \in request[r].gone
        PROVE  Damaged(i)'
    BY <1>2, <2>3 DEF Damaged, InPurge
  <2> QED BY <1>4, <2>1, <2>2, <2>3 DEF Damaged
<1> QED BY <1>1, <1>3, <1>4 DEF Aside
-------------------------------------------------------------------------------
(* Pictures: the steps of an enrichment.                                   *)

\* Enrichments leave requests alone, and what is saved, purged or torn stays so.
TaskFrame ==
  /\ UNCHANGED request
  /\ torn \subseteq torn' /\ leaked \subseteq leaked'
  /\ \A i \in Items : row'[i].saved = row[i].saved /\ row'[i].purged = row[i].purged

LEMMA TaskFrames ==
  ASSUME ObjectInv, NEW w \in Workers,
         \/ TaskStep(w) \/ TaskDies(w) \/ \E i \in Items : TaskRead(w, i)
  PROVE  /\ TaskFrame
         /\ \A i \in Items : ~Damaged(i)' => ~Damaged(i) /\ i \notin torn'
<1>1. SameFiles /\ UNCHANGED request
  BY TaskSameFiles
<1>2. TaskFrame
  BY <1>1 DEF TaskFrame, SameFiles
<1>3. \A s : InPurge(s)' <=> InPurge(s)
  BY <1>1 DEF InPurge
<1>4. ASSUME NEW i \in Items, ~Damaged(i)' PROVE ~Damaged(i) /\ i \notin torn'
  BY <1>1, <1>2, <1>3, <1>4 DEF Damaged, TaskFrame
<1> QED BY <1>2, <1>4

\* An enrichment that has its copies goes on to its next step: what it deletes
\* is the picture that it has replaced, and it remembers that.
Passes(w, new) ==
  LET t == task[w] IN
  /\ t # Idle /\ new # Idle
  /\ task' = [task EXCEPT ![w] = new]
  /\ UNCHANGED <<row, minted, torn>>
  /\ new.item = t.item /\ new.seen = t.seen /\ new.fresh = t.fresh
  /\ t.gone => new.gone
  /\ new.pc \in {"claim", "thumb"} => new.fresh["thumb"] = 0
  /\ new.pc \in {"claim", "thumb", "drop thumb", "slides"} => new.fresh["slides"] = 0
  /\ new.pc \notin {"drop thumb", "drop slides"}
  /\ \A i \in Items, k \in Mirrored, n \in 0..MaxMints :
       /\ KeyOf(i, k, n) \in bucket' => KeyOf(i, k, n) \in bucket
       /\ KeyOf(i, k, n) \in bucket /\ KeyOf(i, k, n) \notin bucket' =>
            i = t.item /\ new.gone /\ t.fresh[k] # 0 /\ n = t.seen.keys[k]
  /\ \A k \in Mirrored : t.fresh[k] # 0 /\ t.pc = Drop(k) =>
       KeyOf(t.item, k, t.seen.keys[k]) \notin bucket' \/ t.item \in leaked'

LEMMA PassesPictures ==
  ASSUME ObjectInv, PictureInv, NEW w \in Workers, NEW new, Passes(w, new), TaskFrame,
         \A i \in Items : ~Damaged(i)' => ~Damaged(i) /\ i \notin torn'
  PROVE  PictureInv'
<1> DEFINE t == task[w]
<1>0. TypeOK
  BY DEF ObjectInv
<1>1. /\ t # Idle /\ new # Idle /\ task'[w] = new
      /\ UNCHANGED <<row, minted, torn>>
      /\ new.item = t.item /\ new.seen = t.seen /\ new.fresh = t.fresh
      /\ t.gone => new.gone
      /\ leaked \subseteq leaked'
  BY <1>0 DEF Passes, TaskFrame, TypeOK
<1>2. \A v \in Workers \ {w} : task'[v] = task[v]
  BY <1>0 DEF Passes, TypeOK
<1>3. \A v \in Workers :
        /\ task'[v] # Idle <=> task[v] # Idle
        /\ task[v] # Idle => /\ task'[v].item = task[v].item
                             /\ task'[v].seen = task[v].seen
                             /\ task'[v].fresh = task[v].fresh
                             /\ task[v].gone => task'[v].gone
        /\ \A i \in Items : On(v, i)' <=> On(v, i)
  BY <1>1, <1>2 DEF On
<1>4. \A i \in Items, k \in Mirrored, n \in 0..MaxMints :
       /\ KeyOf(i, k, n) \in bucket' => KeyOf(i, k, n) \in bucket
       /\ KeyOf(i, k, n) \in bucket /\ KeyOf(i, k, n) \notin bucket' =>
            i = t.item /\ new.gone /\ t.fresh[k] # 0 /\ n = t.seen.keys[k]
  BY DEF Passes
<1>5. \A v \in Workers, k \in Mirrored : task[v] # Idle =>
        /\ task[v].item \in Items
        /\ task[v].fresh[k] \in 0..MaxMints /\ task[v].seen.keys[k] \in 0..MaxMints
  BY <1>0, PictureTypes
<1>6. NumbersKnown'
  BY <1>1, <1>3, <1>4 DEF NumbersKnown, PictureInv
<1>7. CopiesInOrder'
  <2>1. CopiesInOrder
    BY DEF PictureInv
  <2>2. /\ new.pc \in {"claim", "thumb"} => new.fresh["thumb"] = 0
        /\ new.pc \in {"claim", "thumb", "drop thumb", "slides"} => new.fresh["slides"] = 0
        /\ new.pc \notin {"drop thumb", "drop slides"}
    BY DEF Passes
  <2>3. row[new.item].saved
    BY <1>1, <2>1 DEF CopiesInOrder
  <2> SUFFICES ASSUME NEW v \in Workers, task'[v] # Idle
               PROVE  /\ row[task'[v].item].saved
                      /\ task'[v].pc \in {"claim", "thumb"} => task'[v].fresh["thumb"] = 0
                      /\ task'[v].pc \in {"claim", "thumb", "drop thumb", "slides"}
                           => task'[v].fresh["slides"] = 0
                      /\ task'[v].pc = "drop thumb" => task'[v].fresh["thumb"] # 0
                      /\ task'[v].pc = "drop slides" => task'[v].fresh["slides"] # 0
    BY <1>1 DEF CopiesInOrder
  <2>4. CASE v = w
    BY <1>1, <2>2, <2>3, <2>4
  <2>5. CASE v # w
    <3>1. task'[v] = task[v] /\ task[v] # Idle
      BY <1>2, <2>5
    <3>2. /\ row[task[v].item].saved
          /\ task[v].pc \in {"claim", "thumb"} => task[v].fresh["thumb"] = 0
          /\ task[v].pc \in {"claim", "thumb", "drop thumb", "slides"}
               => task[v].fresh["slides"] = 0
          /\ task[v].pc = "drop thumb" => task[v].fresh["thumb"] # 0
          /\ task[v].pc = "drop slides" => task[v].fresh["slides"] # 0
      BY <3>1 DEF CopiesInOrder, PictureInv
    <3> QED BY <3>1, <3>2
  <2> QED BY <2>4, <2>5
<1>8. OverlapsMarked'
  BY <1>1, <1>3 DEF OverlapsMarked, PictureInv
<1>9. RowsAsRead'
  <2> SUFFICES ASSUME NEW v \in Workers, NEW i \in Items, NEW k \in Mirrored,
                      On(v, i), ~row[i].purged, ~(i \in torn /\ i \in leaked')
               PROVE  task'[v].seen.keys[k] = row[i].keys[k]
    BY <1>1, <1>3 DEF RowsAsRead
  <2>1. task'[v].seen = task[v].seen
    BY <1>3 DEF On
  <2> QED BY <1>1, <2>1 DEF RowsAsRead, PictureInv
<1> HIDE DEF t
<1>10. PicturesStored'
  <2> SUFFICES ASSUME NEW i \in Items, NEW k \in Mirrored, ~Damaged(i)'
               PROVE  /\ row[i].keys[k] # 0 =>
                           \/ KeyOf(i, k, row[i].keys[k]) \in bucket'
                           \/ \E v \in Workers : /\ On(v, i) /\ task'[v].gone
                                                 /\ task'[v].fresh[k] # 0
                      /\ \A v \in Workers : On(v, i) /\ task'[v].fresh[k] # 0
                           => KeyOf(i, k, task'[v].fresh[k]) \in bucket'
    BY <1>1, <1>3 DEF PicturesStored
  <2>1. ~Damaged(i) /\ i \notin torn
    BY <1>1
  <2>2. ASSUME NEW v \in Workers, On(v, i), task'[v].fresh[k] # 0
        PROVE  KeyOf(i, k, task'[v].fresh[k]) \in bucket'
    <3>1. task'[v].fresh = task[v].fresh /\ task[v] # Idle
      BY <1>3, <2>2 DEF On
    <3>2. KeyOf(i, k, task[v].fresh[k]) \in bucket
      BY <2>1, <2>2, <3>1 DEF PicturesStored, PictureInv
    <3>3. i = t.item => v = w
      BY <1>1, <2>1, <2>2 DEF OverlapsMarked, PictureInv, On, t
    <3>4. task[v].fresh[k] # task[v].seen.keys[k]
      BY <1>5, <2>2, <3>1 DEF NumbersKnown, PictureInv
    <3> QED BY <1>4, <1>5, <3>1, <3>2, <3>3, <3>4 DEF t
  <2>3. ASSUME row[i].keys[k] # 0
        PROVE  \/ KeyOf(i, k, row[i].keys[k]) \in bucket'
               \/ \E v \in Workers : /\ On(v, i) /\ task'[v].gone
                                     /\ task'[v].fresh[k] # 0
    <3>1. CASE \E v \in Workers : On(v, i) /\ task[v].gone /\ task[v].fresh[k] # 0
      <4>1. PICK v \in Workers : On(v, i) /\ task[v].gone /\ task[v].fresh[k] # 0
        BY <3>1
      <4>2. task'[v].gone /\ task'[v].fresh[k] # 0
        BY <1>3, <4>1 DEF On
      <4> QED BY <4>1, <4>2
    <3>2. CASE KeyOf(i, k, row[i].keys[k]) \in bucket \ bucket'
      <4>1. row[i].keys[k] \in 0..MaxMints
        BY <1>0, PictureTypes
      <4>2. i = t.item /\ new.gone /\ t.fresh[k] # 0
        BY <1>4, <3>2, <4>1
      <4>3. On(w, i) /\ task'[w].gone /\ task'[w].fresh[k] # 0
        BY <1>1, <4>2 DEF On, t
      <4> QED BY <4>3
    <3> QED BY <2>1, <2>3, <3>1, <3>2 DEF PicturesStored, PictureInv
  <2> QED BY <2>2, <2>3
<1>11. PicturesNamed'
  <2> SUFFICES ASSUME NEW i \in Items, NEW k \in Mirrored, i \notin leaked', ~row[i].purged
               PROVE  /\ \A n \in 1..MaxMints : KeyOf(i, k, n) \in bucket' =>
                           \/ row[i].saved /\ row[i].keys[k] = n
                           \/ \E v \in Workers : On(v, i) /\ task'[v].fresh[k] = n
                      /\ \A v \in Workers :
                           On(v, i) /\ task'[v].fresh[k] # 0 /\ task'[v].pc # Drop(k)
                             => KeyOf(i, k, task'[v].seen.keys[k]) \notin bucket'
    BY <1>1, <1>3 DEF PicturesNamed
  <2>1. i \notin leaked
    BY <1>1
  <2>2. ASSUME NEW n \in 1..MaxMints, KeyOf(i, k, n) \in bucket'
        PROVE  \/ row[i].saved /\ row[i].keys[k] = n
               \/ \E v \in Workers : On(v, i) /\ task'[v].fresh[k] = n
    <3>1. KeyOf(i, k, n) \in bucket
      BY <1>4, <2>2
    <3>2. \/ row[i].saved /\ row[i].keys[k] = n
          \/ \E v \in Workers : On(v, i) /\ task[v].fresh[k] = n
      BY <2>1, <3>1 DEF PicturesNamed, PictureInv
    <3> QED BY <1>3, <3>2 DEF On
  <2>3. ASSUME NEW v \in Workers, On(v, i), task'[v].fresh[k] # 0, task'[v].pc # Drop(k)
        PROVE  KeyOf(i, k, task'[v].seen.keys[k]) \notin bucket'
    <3>1. /\ task'[v].fresh = task[v].fresh /\ task'[v].seen = task[v].seen
          /\ task[v] # Idle /\ task[v].seen.keys[k] \in 0..MaxMints
      BY <1>3, <1>5, <2>3 DEF On
    <3>2. CASE task[v].pc # Drop(k)
      <4>1. KeyOf(i, k, task[v].seen.keys[k]) \notin bucket
        BY <2>1, <2>3, <3>1, <3>2 DEF PicturesNamed, PictureInv
      <4> QED BY <1>4, <3>1, <4>1
    <3>3. CASE task[v].pc = Drop(k)
      <4>1. v = w
        BY <1>2, <2>3, <3>3
      <4>2. i = task[w].item /\ task[w].fresh[k] # 0
        BY <2>3, <3>1, <4>1 DEF On
      <4> QED BY <2>1, <3>1, <3>3, <4>1, <4>2 DEF Passes
    <3> QED BY <3>2, <3>3
  <2> QED BY <2>2, <2>3
<1> QED BY <1>6, <1>7, <1>8, <1>9, <1>10, <1>11 DEF PictureInv

\* The claim, a picture that is not copied, and the removal of the one replaced.
LEMMA TaskPasses ==
  ASSUME ObjectInv, PictureInv, NEW w \in Workers,
         \/ TaskClaim(w)
         \/ \E k \in Mirrored : NoMirror(w, k) \/ DropPrevious(w, k)
  PROVE  \E new : Passes(w, new)
<1> DEFINE t == task[w]
<1>0. /\ TypeOK /\ t # Idle /\ t \in Task
      /\ \A k \in Mirrored : t.fresh[k] \in 0..MaxMints /\ t.seen.keys[k] \in 0..MaxMints
  <2>1. TypeOK /\ t # Idle
    BY DEF ObjectInv, TaskClaim, NoMirror, DropPrevious, At
  <2> QED BY <2>1, PictureTypes
<1>1. /\ t.pc \in {"claim", "thumb"} => t.fresh["thumb"] = 0
      /\ t.pc \in {"claim", "thumb", "drop thumb", "slides"} => t.fresh["slides"] = 0
      /\ t.pc = "drop thumb" => t.fresh["thumb"] # 0
      /\ t.pc = "drop slides" => t.fresh["slides"] # 0
  BY <1>0 DEF PictureInv, CopiesInOrder
<1>2. CASE TaskClaim(w)
  <2> DEFINE new == [t EXCEPT !.pc = "thumb"]
  <2>1. /\ new # Idle /\ new.item = t.item /\ new.seen = t.seen /\ new.fresh = t.fresh
        /\ new.gone = t.gone /\ new.pc = "thumb"
    BY <1>0 DEF Task, Idle
  <2>2. t.pc = "claim" /\ UNCHANGED <<row, minted, torn, bucket, leaked>>
        /\ task' = [task EXCEPT ![w] = new]
    BY <1>2 DEF TaskClaim, At, Become
  <2> HIDE DEF new
  <2>3. Passes(w, new)
    BY <1>0, <1>1, <2>1, <2>2 DEF Passes, Drop
  <2> QED BY <2>3
<1>3. ASSUME NEW k \in Mirrored, NoMirror(w, k) PROVE \E new : Passes(w, new)
  <2> DEFINE new == [t EXCEPT !.pc = After(k)]
  <2>1. /\ new # Idle /\ new.item = t.item /\ new.seen = t.seen /\ new.fresh = t.fresh
        /\ new.gone = t.gone /\ new.pc = After(k)
    BY <1>0 DEF Task, Idle
  <2>2. t.pc = k /\ UNCHANGED <<row, minted, torn, bucket, leaked>>
        /\ task' = [task EXCEPT ![w] = new]
    BY <1>3 DEF NoMirror, At, Become
  <2> HIDE DEF new
  <2>3. Passes(w, new)
    BY <1>0, <1>1, <2>1, <2>2 DEF Passes, Drop, After, Mirrored
  <2> QED BY <2>3
<1>4. ASSUME NEW k \in Mirrored, DropPrevious(w, k) PROVE \E new : Passes(w, new)
  <2> DEFINE key == KeyOf(t.item, k, t.seen.keys[k])
  <2>1. t.pc = Drop(k) /\ t.fresh[k] # 0 /\ UNCHANGED <<row, minted, torn>>
    BY <1>1, <1>4 DEF DropPrevious, At, Drop, Mirrored
  <2>2. \A i \in Items, j \in Mirrored, n \in 0..MaxMints :
          key = KeyOf(i, j, n) <=> i = t.item /\ j = k /\ n = t.seen.keys[k]
    BY DEF KeyOf
  <2>3. CASE t.seen.keys[k] = 0
    <3> DEFINE new == [t EXCEPT !.pc = After(k)]
    <3>1. /\ new # Idle /\ new.item = t.item /\ new.seen = t.seen /\ new.fresh = t.fresh
          /\ new.gone = t.gone /\ new.pc = After(k)
      BY <1>0 DEF Task, Idle
    <3>2. task' = [task EXCEPT ![w] = new] /\ UNCHANGED <<bucket, leaked>>
      BY <1>4, <2>3 DEF DropPrevious, Become
    <3>3. key \notin bucket
      BY <1>0, <2>3 DEF TypeOK, Key, KeyOf
    <3> HIDE DEF new
    <3>4. \A j \in Mirrored : t.pc = Drop(j) => j = k
      BY <2>1 DEF Drop, Mirrored
    <3>5. Passes(w, new)
      BY <1>0, <1>1, <2>1, <3>1, <3>2, <3>3, <3>4 DEF Passes, Drop, After, Mirrored
    <3> QED BY <3>5
  <2>4. CASE t.seen.keys[k] # 0
    <3> DEFINE new == [t EXCEPT !.pc = After(k), !.gone = TRUE]
    <3>1. /\ new # Idle /\ new.item = t.item /\ new.seen = t.seen /\ new.fresh = t.fresh
          /\ new.gone /\ new.pc = After(k)
      BY <1>0 DEF Task, Idle
    <3>2. task' = [task EXCEPT ![w] = new] /\ Remove(key)
      BY <1>4, <2>4 DEF DropPrevious, Become
    <3>3. \/ bucket' = bucket \ {key}
          \/ bucket' = bucket /\ t.item \in leaked'
      <4>1. key.item = t.item
        BY DEF KeyOf
      <4> QED BY <3>2, <4>1 DEF Remove
    <3>4. \A j \in Mirrored : t.pc = Drop(j) => j = k
      BY <2>1 DEF Drop, Mirrored
    <3>5. key \notin bucket' \/ t.item \in leaked'
      BY <3>3
    <3>6. ASSUME NEW i \in Items, NEW j \in Mirrored, NEW n \in 0..MaxMints
          PROVE  /\ KeyOf(i, j, n) \in bucket' => KeyOf(i, j, n) \in bucket
                 /\ KeyOf(i, j, n) \in bucket /\ KeyOf(i, j, n) \notin bucket' =>
                      i = t.item /\ j = k /\ n = t.seen.keys[k]
      BY <2>2, <3>3
    <3>7. /\ new.pc \in {"claim", "thumb"} => new.fresh["thumb"] = 0
          /\ new.pc \in {"claim", "thumb", "drop thumb", "slides"} => new.fresh["slides"] = 0
          /\ new.pc \notin {"drop thumb", "drop slides"}
      <4> HIDE DEF new
      <4> QED BY <1>1, <2>1, <3>1 DEF Drop, After, Mirrored
    <3> HIDE DEF new, key
    <3>8. Passes(w, new)
      BY <1>0, <2>1, <3>1, <3>2, <3>4, <3>5, <3>6, <3>7 DEF Passes, key
    <3> QED BY <3>8
  <2> QED BY <2>3, <2>4
<1> QED BY <1>2, <1>3, <1>4

\* An enrichment copies a picture: its key is new.
LEMMA MirrorPictures ==
  ASSUME ObjectInv, PictureInv, NEW w \in Workers, NEW k \in Mirrored, Mirror(w, k),
         TaskFrame, \A i \in Items : ~Damaged(i)' => ~Damaged(i) /\ i \notin torn'
  PROVE  PictureInv'
<1> DEFINE t == task[w]
           p == IF t.pc = "thumb" THEN "drop thumb" ELSE "drop slides"
           new == [t EXCEPT !.pc = p, !.fresh[k] = minted']
<1>0. TypeOK
  BY DEF ObjectInv
<1>1. /\ t # Idle /\ t.pc = k /\ t \in Task /\ t.item \in Items
      /\ task' = [task EXCEPT ![w] = new]
      /\ UNCHANGED <<row, torn, leaked>>
      /\ bucket' = bucket \cup {KeyOf(t.item, k, minted')}
      /\ minted' = minted + 1 /\ minted' \in 1..MaxMints /\ minted \in Nat
  BY <1>0, PictureTypes, MintTypes DEF Mirror, At, Become, Mint, TypeOK, Mirrored, Kind
<1>2. \A v \in Workers \ {w} : task'[v] = task[v]
  BY <1>0, <1>1 DEF TypeOK
<1>3. /\ new # Idle /\ new.item = t.item /\ new.seen = t.seen /\ new.gone = t.gone
      /\ new.fresh[k] = minted' /\ new.pc = Drop(k)
      /\ \A j \in Mirrored \ {k} : new.fresh[j] = t.fresh[j]
  BY <1>1 DEF Task, Idle, Drop, Mirrored
<1>4. task'[w] = new
  BY <1>0, <1>1 DEF TypeOK
<1> HIDE DEF new, p, t
<1>5. \A v \in Workers, i \in Items : On(v, i)' <=> On(v, i)
  BY <1>1, <1>2, <1>3, <1>4 DEF On, t
<1>6. \A v \in Workers, j \in Mirrored : task[v] # Idle =>
        /\ task[v].item \in Items
        /\ task[v].fresh[j] \in 0..MaxMints /\ task[v].seen.keys[j] \in 0..MaxMints
        /\ task[v].fresh[j] <= minted /\ task[v].seen.keys[j] <= minted
  BY <1>0, PictureTypes DEF NumbersKnown, PictureInv
<1>7. ASSUME NEW i \in Items, NEW j \in Mirrored, NEW n \in 0..MaxMints
      PROVE  KeyOf(i, j, n) \in bucket' <=>
               KeyOf(i, j, n) \in bucket \/ (i = t.item /\ j = k /\ n = minted')
  BY <1>1 DEF KeyOf
<1>8. \A i \in Items, j \in Mirrored :
        row[i].keys[j] \in 0..MaxMints /\ row[i].keys[j] <= minted
  BY <1>0, PictureTypes DEF NumbersKnown, PictureInv
<1>9. NumbersKnown'
  <2>1. ASSUME NEW i \in Items, NEW j \in Mirrored, NEW n \in 1..MaxMints,
               KeyOf(i, j, n) \in bucket'
        PROVE  n <= minted'
    BY <1>1, <1>7, <2>1 DEF NumbersKnown, PictureInv
  <2>2. \A i \in Items, j \in Mirrored : row'[i].keys[j] <= minted'
    BY <1>1, <1>8
  <2>3. ASSUME NEW v \in Workers, NEW j \in Mirrored, task'[v] # Idle
        PROVE  /\ task'[v].fresh[j] <= minted' /\ task'[v].seen.keys[j] <= minted'
               /\ task'[v].fresh[j] # 0 => task'[v].seen.keys[j] < task'[v].fresh[j]
    <3>1. CASE v # w \/ j # k
      <4>1. /\ task[v] # Idle
            /\ task'[v].fresh[j] = task[v].fresh[j]
            /\ task'[v].seen.keys[j] = task[v].seen.keys[j]
        BY <1>1, <1>2, <1>3, <1>4, <2>3, <3>1 DEF t
      <4> QED BY <1>1, <1>6, <4>1 DEF NumbersKnown, PictureInv
    <3>2. CASE v = w /\ j = k
      <4>1. task'[v].fresh[j] = minted' /\ task'[v].seen.keys[j] = task[v].seen.keys[j]
        BY <1>3, <1>4, <3>2 DEF t
      <4>2. task[v] # Idle
        BY <1>1, <3>2 DEF t
      <4> QED BY <1>1, <1>6, <4>1, <4>2
    <3> QED BY <3>1, <3>2
  <2> QED BY <2>1, <2>2, <2>3 DEF NumbersKnown
<1>10. CopiesInOrder'
  <2> SUFFICES ASSUME NEW v \in Workers, task'[v] # Idle
               PROVE  /\ row[task'[v].item].saved
                      /\ task'[v].pc \in {"claim", "thumb"} => task'[v].fresh["thumb"] = 0
                      /\ task'[v].pc \in {"claim", "thumb", "drop thumb", "slides"}
                           => task'[v].fresh["slides"] = 0
                      /\ task'[v].pc = "drop thumb" => task'[v].fresh["thumb"] # 0
                      /\ task'[v].pc = "drop slides" => task'[v].fresh["slides"] # 0
    BY <1>1 DEF CopiesInOrder
  <2>1. CASE v # w
    <3>1. task'[v] = task[v] /\ task[v] # Idle
      BY <1>2, <2>1
    <3>2. /\ row[task[v].item].saved
          /\ task[v].pc \in {"claim", "thumb"} => task[v].fresh["thumb"] = 0
          /\ task[v].pc \in {"claim", "thumb", "drop thumb", "slides"}
               => task[v].fresh["slides"] = 0
          /\ task[v].pc = "drop thumb" => task[v].fresh["thumb"] # 0
          /\ task[v].pc = "drop slides" => task[v].fresh["slides"] # 0
      BY <3>1 DEF CopiesInOrder, PictureInv
    <3> QED BY <3>1, <3>2
  <2>2. CASE v = w
    <3>1. /\ row[t.item].saved
          /\ t.pc = "thumb" => t.fresh["slides"] = 0
      BY <1>1 DEF CopiesInOrder, PictureInv, t
    <3>2. minted' # 0
      BY <1>1
    <3>3. /\ new.pc \notin {"claim", "thumb", "slides"} /\ new.pc = Drop(k) /\ t.pc = k
      BY <1>1, <1>3 DEF Drop
    <3> QED BY <1>3, <1>4, <2>2, <3>1, <3>2, <3>3 DEF Drop, Mirrored
  <2> QED BY <2>1, <2>2
<1>11. OverlapsMarked'
  BY <1>1, <1>5 DEF OverlapsMarked, PictureInv
<1>12. \A v \in Workers, i \in Items : On(v, i) =>
         task'[v].seen = task[v].seen /\ task'[v].gone = task[v].gone
  BY <1>2, <1>3, <1>4 DEF t
<1>13. RowsAsRead'
  BY <1>1, <1>5, <1>12 DEF RowsAsRead, PictureInv
<1>14. t.fresh[k] = 0 /\ On(w, t.item)
  BY <1>1 DEF CopiesInOrder, PictureInv, Mirrored, On, t
<1>15. \A v \in Workers, j \in Mirrored : On(v, task[v].item) =>
         /\ task[v].fresh[j] # 0 => task'[v].fresh[j] = task[v].fresh[j]
         /\ task'[v].fresh[j] \in {task[v].fresh[j], minted'}
         /\ task'[v].fresh[j] # task[v].fresh[j] => v = w /\ j = k
  BY <1>2, <1>3, <1>4, <1>14 DEF t
<1>16. PicturesStored'
  <2> SUFFICES ASSUME NEW i \in Items, NEW j \in Mirrored, ~Damaged(i)'
               PROVE  /\ row[i].keys[j] # 0 =>
                           \/ KeyOf(i, j, row[i].keys[j]) \in bucket'
                           \/ \E v \in Workers : /\ On(v, i) /\ task'[v].gone
                                                 /\ task'[v].fresh[j] # 0
                      /\ \A v \in Workers : On(v, i) /\ task'[v].fresh[j] # 0
                           => KeyOf(i, j, task'[v].fresh[j]) \in bucket'
    BY <1>1, <1>5 DEF PicturesStored
  <2>1. ~Damaged(i)
    OBVIOUS
  <2>2. ASSUME NEW v \in Workers, On(v, i), task'[v].fresh[j] # 0
        PROVE  KeyOf(i, j, task'[v].fresh[j]) \in bucket'
    <3>1. CASE task'[v].fresh[j] = task[v].fresh[j]
      <4>1. KeyOf(i, j, task[v].fresh[j]) \in bucket
        BY <2>1, <2>2, <3>1 DEF PicturesStored, PictureInv
      <4> QED BY <1>1, <3>1, <4>1
    <3>2. CASE task'[v].fresh[j] # task[v].fresh[j]
      <4>1. On(v, task[v].item) /\ i = task[v].item
        BY <2>2 DEF On
      <4>2. v = w /\ j = k /\ task'[v].fresh[j] = minted'
        BY <1>15, <3>2, <4>1
      <4> QED BY <1>1, <4>1, <4>2 DEF t
    <3> QED BY <3>1, <3>2
  <2>3. ASSUME row[i].keys[j] # 0
        PROVE  \/ KeyOf(i, j, row[i].keys[j]) \in bucket'
               \/ \E v \in Workers : /\ On(v, i) /\ task'[v].gone
                                     /\ task'[v].fresh[j] # 0
    <3>1. CASE \E v \in Workers : On(v, i) /\ task[v].gone /\ task[v].fresh[j] # 0
      <4>1. PICK v \in Workers : On(v, i) /\ task[v].gone /\ task[v].fresh[j] # 0
        BY <3>1
      <4>2. On(v, task[v].item)
        BY <4>1 DEF On
      <4> QED BY <1>12, <1>15, <4>1, <4>2
    <3>2. CASE KeyOf(i, j, row[i].keys[j]) \in bucket
      BY <1>1, <3>2
    <3> QED BY <2>1, <2>3, <3>1, <3>2 DEF PicturesStored, PictureInv
  <2> QED BY <2>2, <2>3
<1>17. PicturesNamed'
  <2> SUFFICES ASSUME NEW i \in Items, NEW j \in Mirrored, i \notin leaked, ~row[i].purged
               PROVE  /\ \A n \in 1..MaxMints : KeyOf(i, j, n) \in bucket' =>
                           \/ row[i].saved /\ row[i].keys[j] = n
                           \/ \E v \in Workers : On(v, i) /\ task'[v].fresh[j] = n
                      /\ \A v \in Workers :
                           On(v, i) /\ task'[v].fresh[j] # 0 /\ task'[v].pc # Drop(j)
                             => KeyOf(i, j, task'[v].seen.keys[j]) \notin bucket'
    BY <1>1, <1>5 DEF PicturesNamed
  <2>2. ASSUME NEW n \in 1..MaxMints, KeyOf(i, j, n) \in bucket'
        PROVE  \/ row[i].saved /\ row[i].keys[j] = n
               \/ \E v \in Workers : On(v, i) /\ task'[v].fresh[j] = n
    <3>1. CASE KeyOf(i, j, n) \in bucket
      <4>1. \/ row[i].saved /\ row[i].keys[j] = n
            \/ \E v \in Workers : On(v, i) /\ task[v].fresh[j] = n
        BY <3>1 DEF PicturesNamed, PictureInv
      <4>2. ASSUME NEW v \in Workers, On(v, i), task[v].fresh[j] = n
            PROVE  task'[v].fresh[j] = n
        <5>1. On(v, task[v].item) /\ task[v].fresh[j] # 0
          BY <4>2 DEF On
        <5> QED BY <1>15, <4>2, <5>1
      <4> QED BY <4>1, <4>2
    <3>2. CASE i = t.item /\ j = k /\ n = minted'
      BY <1>3, <1>4, <1>14, <3>2
    <3> QED BY <1>7, <2>2, <3>1, <3>2
  <2>3. ASSUME NEW v \in Workers, On(v, i), task'[v].fresh[j] # 0, task'[v].pc # Drop(j)
        PROVE  KeyOf(i, j, task'[v].seen.keys[j]) \notin bucket'
    <3>1. /\ On(v, task[v].item) /\ i = task[v].item /\ task'[v].seen = task[v].seen
          /\ task[v].seen.keys[j] \in 0..MaxMints /\ task[v].seen.keys[j] <= minted
      BY <1>6, <1>12, <2>3 DEF On
    <3>2. ~(v = w /\ j = k)
      BY <1>3, <1>4, <2>3
    <3>3. task[v].fresh[j] # 0
      BY <1>15, <2>3, <3>1, <3>2
    <3>4. task[v].pc # Drop(j)
      <4>1. CASE v = w
        BY <1>1, <4>1 DEF Drop, Mirrored, t
      <4>2. CASE v # w
        BY <1>2, <2>3, <4>2
      <4> QED BY <4>1, <4>2
    <3>5. KeyOf(i, j, task[v].seen.keys[j]) \notin bucket
      BY <2>3, <3>3, <3>4 DEF PicturesNamed, PictureInv
    <3> QED BY <1>1, <1>7, <3>1, <3>5
  <2> QED BY <2>2, <2>3
<1> QED BY <1>9, <1>10, <1>11, <1>13, <1>16, <1>17 DEF PictureInv

\* An enrichment reads the row; an overlap is noted for both.
LEMMA TaskReadPictures ==
  ASSUME ObjectInv, PictureInv, NEW w \in Workers, NEW i \in Items, TaskRead(w, i),
         TaskFrame, \A j \in Items : ~Damaged(j)' => ~Damaged(j) /\ j \notin torn'
  PROVE  PictureInv'
<1>0. TypeOK
  BY DEF ObjectInv
<1>1. PICK pc \in {"claim", "thumb"} :
        task' = [task EXCEPT ![w] = [pc |-> pc, item |-> i, seen |-> row[i],
                   fresh |-> [k \in Mirrored |-> 0], gone |-> FALSE]]
  BY DEF TaskRead, Become
<1>2. /\ task'[w] # Idle /\ task'[w].pc = pc /\ task'[w].item = i /\ task'[w].seen = row[i]
      /\ \A k \in Mirrored : task'[w].fresh[k] = 0
  BY <1>0, <1>1 DEF TypeOK, Idle
<1>3. /\ task[w] = Idle /\ row[i].saved
      /\ UNCHANGED <<row, bucket, minted>>
      /\ torn \subseteq torn' /\ leaked \subseteq leaked'
      /\ \A v \in Workers : On(v, i) => i \in torn' /\ i \in leaked'
  BY DEF TaskRead, Visible, On
<1>4. \A v \in Workers \ {w} : task'[v] = task[v]
  BY <1>0, <1>1 DEF TypeOK
<1>5. \A v \in Workers, j \in Items : On(v, j)' <=> On(v, j) \/ (v = w /\ j = i)
  BY <1>2, <1>3, <1>4 DEF On
<1>6. \A v \in Workers, j \in Items : On(v, j) => v # w /\ task'[v] = task[v]
  BY <1>3, <1>4 DEF On
<1>7. \A j \in Items, k \in Mirrored : row[j].keys[k] <= minted
  BY DEF NumbersKnown, PictureInv
<1>8. 0 <= minted
  BY <1>0 DEF TypeOK
<1>9. NumbersKnown'
  <2>1. ASSUME NEW v \in Workers, NEW k \in Mirrored, task'[v] # Idle
        PROVE  /\ task'[v].fresh[k] <= minted /\ task'[v].seen.keys[k] <= minted
               /\ task'[v].fresh[k] # 0 => task'[v].seen.keys[k] < task'[v].fresh[k]
    <3>1. CASE v = w
      <4>1. task'[v].fresh[k] = 0 /\ task'[v].seen.keys[k] = row[i].keys[k]
        BY <1>2, <3>1
      <4>2. row[i].keys[k] <= minted /\ 0 <= minted
        BY <1>7, <1>8
      <4> QED BY <4>1, <4>2
    <3>2. CASE v # w
      <4>1. task'[v] = task[v]
        BY <1>4, <3>2
      <4> QED BY <2>1, <4>1 DEF NumbersKnown, PictureInv
    <3> QED BY <3>1, <3>2
  <2> QED BY <1>3, <2>1 DEF NumbersKnown, PictureInv
<1>10. CopiesInOrder'
  <2>1. ASSUME NEW v \in Workers \ {w}, task'[v] # Idle
        PROVE  /\ row[task'[v].item].saved
               /\ task'[v].pc \in {"claim", "thumb"} => task'[v].fresh["thumb"] = 0
               /\ task'[v].pc \in {"claim", "thumb", "drop thumb", "slides"}
                    => task'[v].fresh["slides"] = 0
               /\ task'[v].pc = "drop thumb" => task'[v].fresh["thumb"] # 0
               /\ task'[v].pc = "drop slides" => task'[v].fresh["slides"] # 0
    <3>1. task'[v] = task[v] /\ task[v] # Idle
      BY <1>4, <2>1
    <3>2. /\ row[task[v].item].saved
          /\ task[v].pc \in {"claim", "thumb"} => task[v].fresh["thumb"] = 0
          /\ task[v].pc \in {"claim", "thumb", "drop thumb", "slides"}
               => task[v].fresh["slides"] = 0
          /\ task[v].pc = "drop thumb" => task[v].fresh["thumb"] # 0
          /\ task[v].pc = "drop slides" => task[v].fresh["slides"] # 0
      BY <3>1 DEF CopiesInOrder, PictureInv
    <3> QED BY <3>1, <3>2
  <2>2. /\ row[task'[w].item].saved
        /\ task'[w].fresh["thumb"] = 0 /\ task'[w].fresh["slides"] = 0
        /\ task'[w].pc # "drop thumb" /\ task'[w].pc # "drop slides"
    BY <1>2, <1>3 DEF Mirrored
  <2> QED BY <1>3, <2>1, <2>2 DEF CopiesInOrder
<1>11. OverlapsMarked'
  <2> SUFFICES ASSUME NEW u \in Workers, NEW v \in Workers, NEW j \in Items,
                      On(u, j)', On(v, j)', u # v
               PROVE  j \in torn' /\ j \in leaked'
    BY DEF OverlapsMarked
  <2>1. CASE j = i /\ (u = w \/ v = w)
    BY <1>3, <1>5, <2>1
  <2>2. CASE ~(j = i /\ (u = w \/ v = w))
    BY <1>3, <1>5, <2>2 DEF OverlapsMarked, PictureInv
  <2> QED BY <2>1, <2>2
<1>12. RowsAsRead'
  <2> SUFFICES ASSUME NEW v \in Workers, NEW j \in Items, NEW k \in Mirrored,
                      On(v, j)', ~row[j].purged, ~(j \in torn' /\ j \in leaked')
               PROVE  task'[v].seen.keys[k] = row[j].keys[k]
    BY <1>3 DEF RowsAsRead
  <2>1. CASE v = w /\ j = i
    BY <1>2, <2>1
  <2>2. CASE On(v, j)
    BY <1>3, <1>6, <2>2 DEF RowsAsRead, PictureInv
  <2> QED BY <1>5, <2>1, <2>2
<1>13. PicturesStored'
  <2> SUFFICES ASSUME NEW j \in Items, NEW k \in Mirrored, ~Damaged(j)'
               PROVE  /\ row[j].keys[k] # 0 =>
                           \/ KeyOf(j, k, row[j].keys[k]) \in bucket
                           \/ \E v \in Workers : /\ On(v, j)' /\ task'[v].gone
                                                 /\ task'[v].fresh[k] # 0
                      /\ \A v \in Workers : On(v, j)' /\ task'[v].fresh[k] # 0
                           => KeyOf(j, k, task'[v].fresh[k]) \in bucket
    BY <1>3 DEF PicturesStored
  <2>1. ~Damaged(j)
    OBVIOUS
  <2>2. ASSUME NEW v \in Workers, On(v, j)', task'[v].fresh[k] # 0
        PROVE  KeyOf(j, k, task'[v].fresh[k]) \in bucket
    <3>1. On(v, j) /\ task'[v] = task[v]
      BY <1>2, <1>5, <1>6, <2>2
    <3> QED BY <2>1, <2>2, <3>1 DEF PicturesStored, PictureInv
  <2>3. ASSUME row[j].keys[k] # 0
        PROVE  \/ KeyOf(j, k, row[j].keys[k]) \in bucket
               \/ \E v \in Workers : On(v, j)' /\ task'[v].gone /\ task'[v].fresh[k] # 0
    <3>1. \/ KeyOf(j, k, row[j].keys[k]) \in bucket
          \/ \E v \in Workers : On(v, j) /\ task[v].gone /\ task[v].fresh[k] # 0
      BY <2>1, <2>3 DEF PicturesStored, PictureInv
    <3> QED BY <1>5, <1>6, <3>1
  <2> QED BY <2>2, <2>3
<1>14. PicturesNamed'
  <2> SUFFICES ASSUME NEW j \in Items, NEW k \in Mirrored, j \notin leaked', ~row[j].purged
               PROVE  /\ \A n \in 1..MaxMints : KeyOf(j, k, n) \in bucket =>
                           \/ row[j].saved /\ row[j].keys[k] = n
                           \/ \E v \in Workers : On(v, j)' /\ task'[v].fresh[k] = n
                      /\ \A v \in Workers :
                           On(v, j)' /\ task'[v].fresh[k] # 0 /\ task'[v].pc # Drop(k)
                             => KeyOf(j, k, task'[v].seen.keys[k]) \notin bucket
    BY <1>3 DEF PicturesNamed
  <2>0. j \notin leaked
    BY <1>3
  <2>1. /\ \A n \in 1..MaxMints : KeyOf(j, k, n) \in bucket =>
             \/ row[j].saved /\ row[j].keys[k] = n
             \/ \E v \in Workers : On(v, j) /\ task[v].fresh[k] = n
        /\ \A v \in Workers :
             On(v, j) /\ task[v].fresh[k] # 0 /\ task[v].pc # Drop(k)
               => KeyOf(j, k, task[v].seen.keys[k]) \notin bucket
    BY <2>0 DEF PicturesNamed, PictureInv
  <2>2. ASSUME NEW n \in 1..MaxMints, KeyOf(j, k, n) \in bucket
        PROVE  \/ row[j].saved /\ row[j].keys[k] = n
               \/ \E v \in Workers : On(v, j)' /\ task'[v].fresh[k] = n
    <3>1. \/ row[j].saved /\ row[j].keys[k] = n
          \/ \E v \in Workers : On(v, j) /\ task[v].fresh[k] = n
      BY <2>1, <2>2
    <3> QED BY <1>5, <1>6, <3>1
  <2>3. ASSUME NEW v \in Workers, On(v, j)', task'[v].fresh[k] # 0, task'[v].pc # Drop(k)
        PROVE  KeyOf(j, k, task'[v].seen.keys[k]) \notin bucket
    <3>1. On(v, j) /\ task'[v] = task[v]
      BY <1>2, <1>5, <1>6, <2>3
    <3> QED BY <2>1, <2>3, <3>1
  <2> QED BY <2>2, <2>3
<1> QED BY <1>9, <1>10, <1>11, <1>12, <1>13, <1>14 DEF PictureInv

\* An enrichment that dies takes what it copied or removed with it, and says so.
LEMMA TaskDiesPictures ==
  ASSUME ObjectInv, PictureInv, NEW w \in Workers, TaskDies(w),
         TaskFrame, \A j \in Items : ~Damaged(j)' => ~Damaged(j) /\ j \notin torn'
  PROVE  PictureInv'
<1> DEFINE t == task[w]
<1>0. TypeOK
  BY DEF ObjectInv
<1>1. /\ task'[w] = Idle /\ UNCHANGED <<row, bucket, minted>>
      /\ torn \subseteq torn' /\ leaked \subseteq leaked'
      /\ t.gone => t.item \in torn'
      /\ (\E k \in Mirrored : t.fresh[k] # 0) => t.item \in leaked'
  BY <1>0 DEF TaskDies, Become, TypeOK
<1>2. \A v \in Workers \ {w} : task'[v] = task[v]
  BY <1>0 DEF TaskDies, Become, TypeOK
<1>3. \A v \in Workers, j \in Items : On(v, j)' <=> On(v, j) /\ v # w
  BY <1>1, <1>2 DEF On
<1> HIDE DEF t
<1>4. NumbersKnown'
  BY <1>1, <1>2 DEF NumbersKnown, PictureInv
<1>5. CopiesInOrder'
  <2>1. ASSUME NEW v \in Workers \ {w}, task'[v] # Idle
        PROVE  /\ row[task'[v].item].saved
               /\ task'[v].pc \in {"claim", "thumb"} => task'[v].fresh["thumb"] = 0
               /\ task'[v].pc \in {"claim", "thumb", "drop thumb", "slides"}
                    => task'[v].fresh["slides"] = 0
               /\ task'[v].pc = "drop thumb" => task'[v].fresh["thumb"] # 0
               /\ task'[v].pc = "drop slides" => task'[v].fresh["slides"] # 0
    <3>1. task'[v] = task[v] /\ task[v] # Idle
      BY <1>2, <2>1
    <3>2. /\ row[task[v].item].saved
          /\ task[v].pc \in {"claim", "thumb"} => task[v].fresh["thumb"] = 0
          /\ task[v].pc \in {"claim", "thumb", "drop thumb", "slides"}
               => task[v].fresh["slides"] = 0
          /\ task[v].pc = "drop thumb" => task[v].fresh["thumb"] # 0
          /\ task[v].pc = "drop slides" => task[v].fresh["slides"] # 0
      BY <3>1 DEF CopiesInOrder, PictureInv
    <3> QED BY <3>1, <3>2
  <2> QED BY <1>1, <2>1 DEF CopiesInOrder
<1>6. OverlapsMarked'
  BY <1>1, <1>3 DEF OverlapsMarked, PictureInv
<1>7. RowsAsRead'
  BY <1>1, <1>2, <1>3 DEF RowsAsRead, PictureInv
<1>8. PicturesStored'
  <2> SUFFICES ASSUME NEW j \in Items, NEW k \in Mirrored, ~Damaged(j)'
               PROVE  /\ row[j].keys[k] # 0 =>
                           \/ KeyOf(j, k, row[j].keys[k]) \in bucket
                           \/ \E v \in Workers : /\ On(v, j)' /\ task'[v].gone
                                                 /\ task'[v].fresh[k] # 0
                      /\ \A v \in Workers : On(v, j)' /\ task'[v].fresh[k] # 0
                           => KeyOf(j, k, task'[v].fresh[k]) \in bucket
    BY <1>1 DEF PicturesStored
  <2>1. ~Damaged(j) /\ j \notin torn'
    OBVIOUS
  <2>2. \A v \in Workers : On(v, j)' /\ task'[v].fresh[k] # 0
           => KeyOf(j, k, task'[v].fresh[k]) \in bucket
    BY <1>2, <1>3, <2>1 DEF PicturesStored, PictureInv
  <2>3. ASSUME row[j].keys[k] # 0
        PROVE  \/ KeyOf(j, k, row[j].keys[k]) \in bucket
               \/ \E v \in Workers : On(v, j)' /\ task'[v].gone /\ task'[v].fresh[k] # 0
    <3>1. \/ KeyOf(j, k, row[j].keys[k]) \in bucket
          \/ \E v \in Workers : On(v, j) /\ task[v].gone /\ task[v].fresh[k] # 0
      BY <2>1, <2>3 DEF PicturesStored, PictureInv
    <3>2. ASSUME NEW v \in Workers, On(v, j), task[v].gone PROVE v # w
      BY <1>1, <2>1, <3>2 DEF On, t
    <3> QED BY <1>2, <1>3, <3>1, <3>2
  <2> QED BY <2>2, <2>3
<1>9. PicturesNamed'
  <2> SUFFICES ASSUME NEW j \in Items, NEW k \in Mirrored, j \notin leaked', ~row[j].purged
               PROVE  /\ \A n \in 1..MaxMints : KeyOf(j, k, n) \in bucket =>
                           \/ row[j].saved /\ row[j].keys[k] = n
                           \/ \E v \in Workers : On(v, j)' /\ task'[v].fresh[k] = n
                      /\ \A v \in Workers :
                           On(v, j)' /\ task'[v].fresh[k] # 0 /\ task'[v].pc # Drop(k)
                             => KeyOf(j, k, task'[v].seen.keys[k]) \notin bucket
    BY <1>1 DEF PicturesNamed
  <2>0. j \notin leaked
    BY <1>1
  <2>1. /\ \A n \in 1..MaxMints : KeyOf(j, k, n) \in bucket =>
             \/ row[j].saved /\ row[j].keys[k] = n
             \/ \E v \in Workers : On(v, j) /\ task[v].fresh[k] = n
        /\ \A v \in Workers :
             On(v, j) /\ task[v].fresh[k] # 0 /\ task[v].pc # Drop(k)
               => KeyOf(j, k, task[v].seen.keys[k]) \notin bucket
    BY <2>0 DEF PicturesNamed, PictureInv
  <2>2. ASSUME NEW n \in 1..MaxMints, KeyOf(j, k, n) \in bucket
        PROVE  \/ row[j].saved /\ row[j].keys[k] = n
               \/ \E v \in Workers : On(v, j)' /\ task'[v].fresh[k] = n
    <3>1. \/ row[j].saved /\ row[j].keys[k] = n
          \/ \E v \in Workers : On(v, j) /\ task[v].fresh[k] = n
      BY <2>1, <2>2
    <3>2. ASSUME NEW v \in Workers, On(v, j), task[v].fresh[k] = n PROVE v # w
      BY <1>1, <3>2 DEF On, t
    <3> QED BY <1>2, <1>3, <3>1, <3>2
  <2>3. ASSUME NEW v \in Workers, On(v, j)', task'[v].fresh[k] # 0, task'[v].pc # Drop(k)
        PROVE  KeyOf(j, k, task'[v].seen.keys[k]) \notin bucket
    BY <1>2, <1>3, <2>1, <2>3 DEF PicturesNamed, PictureInv
  <2> QED BY <2>2, <2>3
<1> QED BY <1>4, <1>5, <1>6, <1>7, <1>8, <1>9 DEF PictureInv

\* An enrichment commits the keys of what it has copied, over the row it read.
LEMMA TaskCommitPictures ==
  ASSUME ObjectInv, PictureInv, NEW w \in Workers, TaskCommit(w),
         TaskFrame, \A j \in Items : ~Damaged(j)' => ~Damaged(j) /\ j \notin torn'
  PROVE  PictureInv'
<1> DEFINE t == task[w]
           i == t.item
<1>0. TypeOK
  BY DEF ObjectInv
<1>1. /\ t # Idle /\ t.pc = "commit" /\ t \in Task /\ i \in Items
      /\ task'[w] = Idle /\ UNCHANGED <<bucket, minted, torn, leaked>>
  BY <1>0, PictureTypes DEF TaskCommit, At, Become, TypeOK
<1>2. \A v \in Workers \ {w} : task'[v] = task[v]
  BY <1>0 DEF TaskCommit, Become, TypeOK
<1>3. \A v \in Workers, j \in Items : On(v, j)' <=> On(v, j) /\ v # w
  BY <1>1, <1>2 DEF On
<1>4. /\ \A j \in Items \ {i} : row'[j] = row[j]
      /\ \A j \in Items : row'[j].saved = row[j].saved /\ row'[j].purged = row[j].purged
  BY <1>0 DEF TaskCommit, TypeOK, TaskFrame
<1>6. \A k \in Mirrored :
        \/ t.fresh[k] # 0 /\ row'[i].keys[k] = t.fresh[k]
        \/ t.fresh[k] = 0 /\ row'[i].keys[k] \in {row[i].keys[k], t.seen.keys[k]}
  <2>1. PICK metadata \in BOOLEAN :
          row' = [row EXCEPT ![i] = Enriched(t, @, metadata)]
    BY DEF TaskCommit
  <2>2. row'[i] = Enriched(t, row[i], metadata) /\ row[i] \in Row
    BY <1>0, <1>1, <2>1 DEF TypeOK
  <2> HIDE DEF t, i
  <2> QED BY <2>2 DEF Enriched, Row, Mirrored, Kind
<1> HIDE DEF t, i
<1>7. \A k \in Mirrored : /\ t.fresh[k] \in 0..MaxMints /\ t.fresh[k] <= minted
                          /\ t.seen.keys[k] \in 0..MaxMints /\ t.seen.keys[k] <= minted
  BY <1>0, <1>1, PictureTypes DEF NumbersKnown, PictureInv, t
<1>8. On(w, i)
  BY <1>1 DEF On, i, t
<1>9. \A k \in Mirrored : ~row[i].purged /\ ~(i \in torn /\ i \in leaked)
        => t.seen.keys[k] = row[i].keys[k]
  BY <1>1, <1>8 DEF RowsAsRead, PictureInv, t
<1>10. \A v \in Workers : ~(i \in torn /\ i \in leaked) /\ On(v, i) => v = w
  BY <1>1, <1>8 DEF OverlapsMarked, PictureInv
<1>11. NumbersKnown'
  <2>1. ASSUME NEW j \in Items, NEW k \in Mirrored PROVE row'[j].keys[k] <= minted
    <3>1. row[j].keys[k] <= minted
      BY DEF NumbersKnown, PictureInv
    <3>2. CASE j = i
      BY <1>6, <1>7, <3>1, <3>2
    <3> QED BY <1>4, <3>1, <3>2
  <2>2. \A v \in Workers, k \in Mirrored : task'[v] # Idle =>
          /\ task'[v].fresh[k] <= minted /\ task'[v].seen.keys[k] <= minted
          /\ task'[v].fresh[k] # 0 => task'[v].seen.keys[k] < task'[v].fresh[k]
    BY <1>1, <1>2 DEF NumbersKnown, PictureInv
  <2> QED BY <1>1, <2>1, <2>2 DEF NumbersKnown, PictureInv
<1>12. CopiesInOrder'
  <2>1. ASSUME NEW v \in Workers \ {w}, task'[v] # Idle
        PROVE  /\ row'[task'[v].item].saved
               /\ task'[v].pc \in {"claim", "thumb"} => task'[v].fresh["thumb"] = 0
               /\ task'[v].pc \in {"claim", "thumb", "drop thumb", "slides"}
                    => task'[v].fresh["slides"] = 0
               /\ task'[v].pc = "drop thumb" => task'[v].fresh["thumb"] # 0
               /\ task'[v].pc = "drop slides" => task'[v].fresh["slides"] # 0
    <3>1. task'[v] = task[v] /\ task[v] # Idle
      BY <1>2, <2>1
    <3>2. /\ row[task[v].item].saved
          /\ task[v].pc \in {"claim", "thumb"} => task[v].fresh["thumb"] = 0
          /\ task[v].pc \in {"claim", "thumb", "drop thumb", "slides"}
               => task[v].fresh["slides"] = 0
          /\ task[v].pc = "drop thumb" => task[v].fresh["thumb"] # 0
          /\ task[v].pc = "drop slides" => task[v].fresh["slides"] # 0
      BY <3>1 DEF CopiesInOrder, PictureInv
    <3>3. task[v].item \in Items
      BY <1>0, <3>1, PictureTypes
    <3> QED BY <1>4, <3>1, <3>2, <3>3
  <2> QED BY <1>1, <2>1 DEF CopiesInOrder
<1>13. OverlapsMarked'
  BY <1>1, <1>3 DEF OverlapsMarked, PictureInv
<1>14. RowsAsRead'
  <2> SUFFICES ASSUME NEW v \in Workers, NEW j \in Items, NEW k \in Mirrored,
                      On(v, j), v # w, ~row[j].purged, ~(j \in torn /\ j \in leaked)
               PROVE  task'[v].seen.keys[k] = row'[j].keys[k]
    BY <1>1, <1>3, <1>4 DEF RowsAsRead
  <2>1. j # i
    BY <1>10
  <2> QED BY <1>2, <1>4, <2>1 DEF RowsAsRead, PictureInv
<1>15. PicturesStored'
  <2> SUFFICES ASSUME NEW j \in Items, NEW k \in Mirrored, ~Damaged(j)'
               PROVE  /\ row'[j].keys[k] # 0 =>
                           \/ KeyOf(j, k, row'[j].keys[k]) \in bucket
                           \/ \E v \in Workers : /\ On(v, j)' /\ task'[v].gone
                                                 /\ task'[v].fresh[k] # 0
                      /\ \A v \in Workers : On(v, j)' /\ task'[v].fresh[k] # 0
                           => KeyOf(j, k, task'[v].fresh[k]) \in bucket
    BY <1>1 DEF PicturesStored
  <2>1. ~Damaged(j) /\ j \notin torn /\ ~row[j].purged
    BY <1>1 DEF Damaged
  <2>2. \A v \in Workers : On(v, j)' /\ task'[v].fresh[k] # 0
           => KeyOf(j, k, task'[v].fresh[k]) \in bucket
    BY <1>2, <1>3, <2>1 DEF PicturesStored, PictureInv
  <2>3. /\ row[j].keys[k] # 0 =>
             \/ KeyOf(j, k, row[j].keys[k]) \in bucket
             \/ \E v \in Workers : On(v, j) /\ task[v].gone /\ task[v].fresh[k] # 0
        /\ \A v \in Workers : On(v, j) /\ task[v].fresh[k] # 0
             => KeyOf(j, k, task[v].fresh[k]) \in bucket
    BY <2>1 DEF PicturesStored, PictureInv
  <2>4. ASSUME row'[j].keys[k] # 0
        PROVE  \/ KeyOf(j, k, row'[j].keys[k]) \in bucket
               \/ \E v \in Workers : On(v, j)' /\ task'[v].gone /\ task'[v].fresh[k] # 0
    <3>1. CASE j = i
      <4>1. CASE t.fresh[k] # 0
        <5>1. row'[j].keys[k] = t.fresh[k]
          BY <1>6, <3>1, <4>1
        <5>2. KeyOf(j, k, t.fresh[k]) \in bucket
          BY <1>8, <2>3, <3>1, <4>1 DEF t
        <5> QED BY <5>1, <5>2
      <4>2. CASE t.fresh[k] = 0
        <5>1. row'[j].keys[k] = row[j].keys[k]
          BY <1>6, <1>9, <2>1, <3>1, <4>2
        <5>2. \A v \in Workers : On(v, j) => task[v].fresh[k] = 0
          BY <1>10, <2>1, <3>1, <4>2 DEF t
        <5> QED BY <2>3, <2>4, <5>1, <5>2
      <4> QED BY <4>1, <4>2
    <3>2. CASE j # i
      <4>1. row'[j] = row[j] /\ \A v \in Workers : On(v, j) => v # w
        BY <1>4, <3>2 DEF On, i, t
      <4> QED BY <1>2, <1>3, <2>3, <2>4, <4>1
    <3> QED BY <3>1, <3>2
  <2> QED BY <2>2, <2>4
<1>16. PicturesNamed'
  <2> SUFFICES ASSUME NEW j \in Items, NEW k \in Mirrored, j \notin leaked, ~row[j].purged
               PROVE  /\ \A n \in 1..MaxMints : KeyOf(j, k, n) \in bucket =>
                           \/ row[j].saved /\ row'[j].keys[k] = n
                           \/ \E v \in Workers : On(v, j)' /\ task'[v].fresh[k] = n
                      /\ \A v \in Workers :
                           On(v, j)' /\ task'[v].fresh[k] # 0 /\ task'[v].pc # Drop(k)
                             => KeyOf(j, k, task'[v].seen.keys[k]) \notin bucket
    BY <1>1, <1>4 DEF PicturesNamed
  <2>1. ASSUME NEW n \in 1..MaxMints, KeyOf(j, k, n) \in bucket
        PROVE  \/ row[j].saved /\ row'[j].keys[k] = n
               \/ \E v \in Workers : On(v, j)' /\ task'[v].fresh[k] = n
    <3>1. \/ row[j].saved /\ row[j].keys[k] = n
          \/ \E v \in Workers : On(v, j) /\ task[v].fresh[k] = n
      BY <2>1 DEF PicturesNamed, PictureInv
    <3>2. CASE j # i
      <4>1. row'[j] = row[j] /\ \A v \in Workers : On(v, j) => v # w
        BY <1>4, <3>2 DEF On, i, t
      <4> QED BY <1>2, <1>3, <3>1, <4>1
    <3>3. CASE j = i
      <4>1. row[i].saved
        BY <1>1 DEF CopiesInOrder, PictureInv, i, t
      <4>2. row[i].keys[k] = n \/ t.fresh[k] = n
        BY <1>10, <3>1, <3>3 DEF t
      <4>3. CASE t.fresh[k] = n
        BY <1>6, <3>3, <4>1, <4>3
      <4>4. CASE row[i].keys[k] = n /\ t.fresh[k] = 0
        BY <1>6, <1>9, <3>3, <4>1, <4>4
      <4>5. CASE row[i].keys[k] = n /\ t.fresh[k] # 0
        <5>1. t.seen.keys[k] = n
          BY <1>9, <3>3, <4>5
        <5>2. t.pc # Drop(k)
          BY <1>1 DEF Drop
        <5> QED BY <1>8, <2>1, <3>3, <4>5, <5>1, <5>2 DEF PicturesNamed, PictureInv, t
      <4> QED BY <4>2, <4>3, <4>4, <4>5
    <3> QED BY <3>2, <3>3
  <2>2. ASSUME NEW v \in Workers, On(v, j)', task'[v].fresh[k] # 0, task'[v].pc # Drop(k)
        PROVE  KeyOf(j, k, task'[v].seen.keys[k]) \notin bucket
    BY <1>2, <1>3, <2>2 DEF PicturesNamed, PictureInv
  <2> QED BY <2>1, <2>2
<1> QED BY <1>11, <1>12, <1>13, <1>14, <1>15, <1>16 DEF PictureInv

\* Every step keeps the pictures in order.
LEMMA StepPictures == ObjectInv /\ PictureInv /\ [Next]_vars => PictureInv'
<1> SUFFICES ASSUME ObjectInv, PictureInv, [Next]_vars PROVE PictureInv'
  OBVIOUS
<1>1. ASSUME NEW i \in Items, SaveLink(i) \/ SaveWords(i) \/ Expire(i) PROVE PictureInv'
  BY <1>1, OwnerAside, AsidePictures DEF Sessions
<1>2. ASSUME NEW c \in Sessions, NEW i \in Items,
             SaveUpload(c, i) \/ TrashRead(c, i) \/ RestoreRead(c, i)
      PROVE  PictureInv'
  BY <1>2, OwnerAside, AsidePictures
<1>3. ASSUME NEW c \in Sessions, NEW S \in SUBSET Items, PurgeRead(c, S) PROVE PictureInv'
  BY <1>3, PurgeReadAside, AsidePictures
<1>4. ASSUME NEW c \in Requests, OwnerStep(c) PROVE PictureInv'
  <2>1. c \in Sessions
    BY DEF Sessions
  <2>2. ASSUME NEW i \in Items, PurgeOne(c, i) PROVE PictureInv'
    BY <1>3, <2>1, <2>2 DEF PurgeOne
  <2>3. CASE EmptyTrash(c)
    BY <1>3, <2>1, <2>3 DEF EmptyTrash
  <2> QED BY <1>2, <1>4, <2>1, <2>2, <2>3 DEF OwnerStep
<1>5. ASSUME NEW s \in Sessions, SessionStep(s) PROVE PictureInv'
  <2>1. CASE SaveInsert(s) \/ Move(s)
    <3>1. PICK i \in Items : TRUE
      BY <2>1, RequestKinds DEF ObjectInv, SaveInsert, Move, Saving, Moving
    <3> QED BY <2>1, <3>1, OwnerAside, AsidePictures
  <2>2. CASE PurgeRow(s)
    BY <2>2, PurgeReadAside, AsidePictures
  <2>3. CASE PurgeCommit(s)
    BY <2>3, PurgeEndsAside, AsidePictures
  <2>4. ASSUME NEW key \in Key, PurgeObject(s, key) PROVE PictureInv'
    BY <2>4, PurgeObjectAside, AsidePictures
  <2> QED BY <1>5, <2>1, <2>2, <2>3, <2>4 DEF SessionStep
<1>6. ASSUME NEW s \in Sessions, RequestDies(s) PROVE PictureInv'
  BY <1>6, PurgeEndsAside, AsidePictures
<1>7. CASE PurgeExpired
  <2>1. PICK S \in SUBSET Items : PurgeRead("beat", S)
    BY <1>7 DEF PurgeExpired
  <2> QED BY <1>3, <2>1 DEF Sessions
<1>8. ASSUME NEW w \in Workers,
             \/ TaskStep(w) \/ TaskDies(w) \/ \E i \in Items : TaskRead(w, i)
      PROVE  PictureInv'
  <2>1. TaskFrame /\ \A i \in Items : ~Damaged(i)' => ~Damaged(i) /\ i \notin torn'
    BY <1>8, TaskFrames
  <2>2. CASE TaskClaim(w) \/ \E k \in Mirrored : NoMirror(w, k) \/ DropPrevious(w, k)
    <3>1. PICK new : Passes(w, new)
      BY <2>2, TaskPasses
    <3> QED BY <2>1, <3>1, PassesPictures
  <2>3. ASSUME NEW k \in Mirrored, Mirror(w, k) PROVE PictureInv'
    BY <2>1, <2>3, MirrorPictures
  <2>4. CASE TaskCommit(w)
    BY <2>1, <2>4, TaskCommitPictures
  <2>5. CASE TaskDies(w)
    BY <2>1, <2>5, TaskDiesPictures
  <2>6. ASSUME NEW i \in Items, TaskRead(w, i) PROVE PictureInv'
    BY <2>1, <2>6, TaskReadPictures
  <2> QED BY <1>8, <2>2, <2>3, <2>4, <2>5, <2>6 DEF TaskStep
<1>9. CASE UNCHANGED vars
  <2>1. minted \in Nat /\ UNCHANGED vars
    BY <1>9 DEF ObjectInv, TypeOK
  <2>2. \A i \in Items : Damaged(i)' <=> Damaged(i)
    BY <2>1 DEF vars, Damaged, InPurge
  <2>3. Aside
    BY <2>1, <2>2 DEF Aside, vars
  <2> QED BY <2>3, AsidePictures
<1> QED BY <1>1, <1>4, <1>5, <1>6, <1>7, <1>8, <1>9 DEF Next

\* Pictures are in order in every reachable state.
LEMMA PictureInvariant == Spec => [](ObjectInv /\ PictureInv)
<1>1. Init => ObjectInv /\ PictureInv
  BY InitInv, InitPictures
<1>2. (ObjectInv /\ PictureInv) /\ [Next]_vars => (ObjectInv /\ PictureInv)'
  BY StepInv, StepPictures
<1> QED BY <1>1, <1>2, PTL DEF Spec

\* Between transactions every picture that a memory names is stored, whatever
\* was replaced, retried or restored, unless a process died between the two
\* halves of a replacement or two enrichments of the memory overlapped.
THEOREM PicturesStayStored == Spec => []PicturesAreStored
<1>1. ObjectInv /\ PictureInv => PicturesAreStored
  <2> SUFFICES ASSUME ObjectInv, PictureInv, NEW i \in Items,
                      ~row[i].purged, ~InHand(i), i \notin torn, NEW o \in Named(i)
               PROVE  o \in bucket
    BY DEF PicturesAreStored
  <2>1. PICK k \in Kind : row[i].keys[k] # 0 /\ o = KeyOf(i, k, row[i].keys[k])
    BY DEF Named
  <2>2. \A s \in Sessions : InPurge(s) => i \notin request[s].gone
    BY DEF ObjectInv, FileInv, PurgesKnow, InHand, BeingPurged
  <2>3. CASE k = "file"
    BY <2>1, <2>2, <2>3 DEF ObjectInv, FileInv, FilesStored, FileKey
  <2>4. CASE k \in Mirrored
    <3>1. ~Damaged(i) /\ \A w \in Workers : ~On(w, i)
      BY <2>2 DEF Damaged, InHand, On
    <3> QED BY <2>1, <2>4, <3>1 DEF PictureInv, PicturesStored
  <2> QED BY <2>3, <2>4 DEF Kind, Mirrored
<1> QED BY <1>1, PictureInvariant, PTL

\* Between transactions nothing is stored that its memory does not name, unless
\* a process died, the bucket refused a deletion or two enrichments overlapped.
THEOREM BucketHasNoOrphans == Spec => []NothingIsOrphaned
<1>1. ObjectInv /\ PictureInv => NothingIsOrphaned
  <2> SUFFICES ASSUME ObjectInv, PictureInv, NEW i \in Items,
                      ~row[i].purged, ~InHand(i), i \notin leaked, NEW o \in Stored(i)
               PROVE  o \in Named(i)
    BY DEF NothingIsOrphaned
  <2>1. o \in bucket /\ o \in Key /\ o.item = i
    BY DEF Stored, ObjectInv, TypeOK
  <2>2. o.kind \in Kind /\ o.n \in 1..MaxMints /\ o = KeyOf(i, o.kind, o.n)
    BY <2>1 DEF Key, KeyOf
  <2>3. row[i].keys[o.kind] = o.n
    <3>1. CASE o.kind = "file"
      <4>1. \A s \in Sessions : ~Uploading(s, i)
        BY DEF InHand, Uploading
      <4>2. \A n \in 1..MaxMints : FileKey(i, n) \in bucket => row[i].keys["file"] = n
        BY <4>1 DEF ObjectInv, FileInv, FilesKnown
      <4> QED BY <2>1, <2>2, <3>1, <4>2 DEF FileKey
    <3>2. CASE o.kind \in Mirrored
      <4>1. \A w \in Workers : ~On(w, i)
        BY DEF InHand, On
      <4>2. KeyOf(i, o.kind, o.n) \in bucket
        BY <2>1, <2>2
      <4>3. \A k \in Mirrored, n \in 1..MaxMints :
              KeyOf(i, k, n) \in bucket => row[i].keys[k] = n
        BY <4>1 DEF PictureInv, PicturesNamed
      <4> QED BY <2>2, <3>2, <4>2, <4>3
    <3> QED BY <2>2, <3>1, <3>2 DEF Kind, Mirrored
  <2>4. o.n # 0
    BY <2>2
  <2> QED BY <2>2, <2>3, <2>4 DEF Named
<1> QED BY <1>1, PictureInvariant, PTL
=============================================================================
