---------------------------- MODULE VaultObjects ----------------------------
(***************************************************************************)
(* The objects of a vault in the bucket, and the rows that name them: an   *)
(* upload's file, a link's mirrored picture, a carousel's mirrored slides. *)
(*                                                                         *)
(* The bucket has no transactions.  Saving, trashing, restoring, purging   *)
(* and enriching each read a row, touch the bucket, and commit later; a    *)
(* commit writes the columns that differ from the row that was read.  A    *)
(* process may die anywhere in between, which undoes the row's half only.  *)
(***************************************************************************)
EXTENDS Naturals

CONSTANTS
  Items,      \* numbered: a batch of the trash is purged in one order
  Requests,   \* concurrent requests of the vault's owner
  Workers,    \* concurrent enrichments
  MaxMints,   \* bound: objects ever stored
  MaxFaults   \* bound: processes that die and deletions the bucket refuses

ASSUME ConstantsAssumption ==
  /\ Items \subseteq Nat
  /\ MaxMints \in Nat \ {0} /\ MaxFaults \in Nat
  /\ (Requests \cup Workers) \cap {"free", "beat"} = {}
  /\ Requests \cap Workers = {}

VARIABLES
  row,      \* committed vault_items rows
  bucket,   \* the stored objects, whatever names them
  minted,   \* objects ever stored: every key is new
  lock,     \* the holder of each row's lock
  request,  \* the requests, and beat's purge of expired trash, in progress
  task,     \* the enrichments in progress
  torn,     \* items that may name an object that is gone: the process that
            \* deleted it died, or two enrichments overlapped
  leaked,   \* items that may have an object they do not name, as above
  faults    \* processes that died, deletions refused

vars == <<row, bucket, minted, lock, request, task, torn, leaked, faults>>
-------------------------------------------------------------------------------
Kind == {"file", "thumb", "slides"}
Mirrored == {"thumb", "slides"}
Key == [item : Items, kind : Kind, n : 1..MaxMints]
KeyOf(i, k, n) == [item |-> i, kind |-> k, n |-> n]

\* deletedAt is NULL, within the trash window, or past it; keys: which object
\* each key column names, 0 for NULL.
Row == [saved : BOOLEAN, link : BOOLEAN, deletedAt : {"null", "recent", "expired"},
        purged : BOOLEAN, keys : [Kind -> 0..MaxMints]]
NoRow == [saved |-> FALSE, link |-> FALSE, deletedAt |-> "null",
          purged |-> FALSE, keys |-> [k \in Kind |-> 0]]

Sessions == Requests \cup {"beat"}

Idle == [pc |-> "idle"]
Saving  == [pc : {"save"}, item : Items, fresh : 1..MaxMints]
Moving  == [pc : {"trash", "restore"}, item : Items]
Purging == [pc : {"purge"}, seen : UNION {[S -> Row] : S \in SUBSET Items},
            left : SUBSET Items, doomed : SUBSET Key, gone : SUBSET Items]
Task    == [pc : {"claim", "thumb", "drop thumb", "slides", "drop slides", "commit"},
            item : Items, seen : Row, fresh : [Mirrored -> 0..MaxMints],
            gone : BOOLEAN]

\* The type invariant.
TypeOK ==
  /\ row \in [Items -> Row]
  /\ bucket \subseteq Key
  /\ minted \in 0..MaxMints
  /\ lock \in [Items -> Sessions \cup Workers \cup {"free"}]
  /\ request \in [Sessions -> Saving \cup Moving \cup Purging \cup {Idle}]
  /\ task \in [Workers -> Task \cup {Idle}]
  /\ torn \subseteq Items /\ leaked \subseteq Items
  /\ faults \in 0..MaxFaults

Init ==
  /\ row = [i \in Items |-> NoRow]
  /\ bucket = {}
  /\ minted = 0
  /\ lock = [i \in Items |-> "free"]
  /\ request = [s \in Sessions |-> Idle]
  /\ task = [w \in Workers |-> Idle]
  /\ torn = {} /\ leaked = {} /\ faults = 0
-------------------------------------------------------------------------------
Visible(i) == row[i].saved /\ row[i].deletedAt = "null"
Trashed(i) == row[i].deletedAt # "null" /\ ~row[i].purged

\* The ORM writes the columns that differ from the row it loaded.
Assign(was, new, now) == IF was = new THEN now ELSE new

\* An upload stores one object under a new random key.
Mint(i, k) ==
  /\ minted < MaxMints
  /\ minted' = minted + 1
  /\ bucket' = bucket \cup {KeyOf(i, k, minted')}

\* A deletion is best-effort: an error of the bucket is swallowed.
Remove(key) ==
  \/ bucket' = bucket \ {key} /\ UNCHANGED <<leaked, faults>>
  \/ /\ faults < MaxFaults /\ faults' = faults + 1
     /\ leaked' = leaked \cup {key.item}
     /\ UNCHANGED bucket

Release(p) == lock' = [i \in Items |-> IF lock[i] = p THEN "free" ELSE lock[i]]
-------------------------------------------------------------------------------
(* Saving.                                                                 *)

\* The id of a memory is drawn when it is saved, and never used again.
Unused(i) == ~row[i].saved /\ \A o \in bucket : o.item # i

\* A link's row is its URL; the pictures come later.
SaveLink(i) ==
  /\ Unused(i)
  /\ row' = [row EXCEPT ![i] = [NoRow EXCEPT !.saved = TRUE, !.link = TRUE]]
  /\ UNCHANGED <<bucket, minted, lock, request, task, torn, leaked, faults>>

\* An uploaded file is stored before its row exists.
SaveUpload(c, i) ==
  /\ request[c] = Idle
  /\ Unused(i)
  /\ Mint(i, "file")
  /\ request' = [request EXCEPT ![c] = [pc |-> "save", item |-> i, fresh |-> minted']]
  /\ UNCHANGED <<row, lock, task, torn, leaked, faults>>

\* Mutant: the row forgets where its file is.
SaveInsertUnnamed(c) ==
  /\ request[c] # Idle /\ request[c].pc = "save"
  /\ row' = [row EXCEPT ![request[c].item] = [NoRow EXCEPT !.saved = TRUE]]
  /\ request' = [request EXCEPT ![c] = Idle]
  /\ UNCHANGED <<bucket, minted, lock, task, torn, leaked, faults>>

SaveInsert(c) ==
  /\ request[c] # Idle /\ request[c].pc = "save"
  /\ row' = [row EXCEPT ![request[c].item] =
                [NoRow EXCEPT !.saved = TRUE, !.keys["file"] = request[c].fresh]]
  /\ request' = [request EXCEPT ![c] = Idle]
  /\ UNCHANGED <<bucket, minted, lock, task, torn, leaked, faults>>

\* A voice note whose recording could not be filed, a document whose text is
\* kept without a bucket, or a note: words only.
SaveWords(i) ==
  /\ Unused(i)
  /\ row' = [row EXCEPT ![i] = [NoRow EXCEPT !.saved = TRUE]]
  /\ UNCHANGED <<bucket, minted, lock, request, task, torn, leaked, faults>>
-------------------------------------------------------------------------------
(* Trash and restore: read, then write one column of the row as it is then. *)

TrashRead(c, i) ==
  /\ request[c] = Idle
  /\ Visible(i)
  /\ request' = [request EXCEPT ![c] = [pc |-> "trash", item |-> i]]
  /\ UNCHANGED <<row, bucket, minted, lock, task, torn, leaked, faults>>

RestoreRead(c, i) ==
  /\ request[c] = Idle
  /\ Trashed(i)
  /\ request' = [request EXCEPT ![c] = [pc |-> "restore", item |-> i]]
  /\ UNCHANGED <<row, bucket, minted, lock, task, torn, leaked, faults>>

\* Mutant: the file is removed with the row's deletion.
MoveRemoves(c) ==
  /\ request[c] # Idle /\ request[c].pc \in {"trash", "restore"}
  /\ LET i == request[c].item IN
     /\ lock[i] = "free"
     /\ row' = [row EXCEPT ![i].deletedAt =
                  IF request[c].pc = "trash" THEN "recent" ELSE "null"]
     /\ bucket' = {o \in bucket : o.item # i}
  /\ request' = [request EXCEPT ![c] = Idle]
  /\ UNCHANGED <<minted, lock, task, torn, leaked, faults>>

\* The UPDATE waits for the row's lock and does not read the row again.
Move(c) ==
  /\ request[c] # Idle /\ request[c].pc \in {"trash", "restore"}
  /\ LET i == request[c].item IN
     /\ lock[i] = "free"
     /\ row' = [row EXCEPT ![i].deletedAt =
                  IF request[c].pc = "trash" THEN "recent" ELSE "null"]
  /\ request' = [request EXCEPT ![c] = Idle]
  /\ UNCHANGED <<bucket, minted, lock, task, torn, leaked, faults>>

\* The trash window runs out.
Expire(i) ==
  /\ row[i].deletedAt = "recent"
  /\ row' = [row EXCEPT ![i].deletedAt = "expired"]
  /\ UNCHANGED <<bucket, minted, lock, request, task, torn, leaked, faults>>
-------------------------------------------------------------------------------
(* Purge: one memory, the owner's whole trash, or what has expired.         *)

PurgeRead(s, S) ==
  /\ request[s] = Idle
  /\ request' = [request EXCEPT ![s] =
       [pc |-> "purge", seen |-> [i \in S |-> row[i]], left |-> S,
        doomed |-> {}, gone |-> {}]]
  /\ UNCHANGED <<row, bucket, minted, lock, task, torn, leaked, faults>>

PurgeOne(c, i) == Trashed(i) /\ PurgeRead(c, {i})
EmptyTrash(c) ==
  LET S == {i \in Items : Trashed(i)} IN S # {} /\ PurgeRead(c, S)
PurgeExpired ==
  LET S == {i \in Items : Trashed(i) /\ row[i].deletedAt = "expired"} IN
  S # {} /\ PurgeRead("beat", S)

\* Mutant: the keys are read after the scrub has cleared them.
DoomedAfterScrub(i, seen) == {}
\* "Both objects": the keys of the row as it was read.
Doomed(i, seen) ==
  {KeyOf(i, k, seen.keys[k]) : k \in {f \in {"file", "thumb"} : seen.keys[f] # 0}}

InPurge(s) == request[s] # Idle /\ request[s].pc = "purge"

\* The scrub is flushed, which takes the row's lock; then its objects go, one
\* request of the bucket each, before the next row.
PurgeRow(s) ==
  /\ InPurge(s) /\ request[s].doomed = {}
  /\ \E i \in request[s].left :
       /\ \A j \in request[s].left : i <= j
       /\ lock[i] = "free"
       /\ lock' = [lock EXCEPT ![i] = s]
       /\ request' = [request EXCEPT ![s].left = @ \ {i},
                                     ![s].doomed = Doomed(i, request[s].seen[i])]
  /\ UNCHANGED <<row, bucket, minted, task, torn, leaked, faults>>

PurgeObject(s, key) ==
  /\ InPurge(s) /\ key \in request[s].doomed
  /\ Remove(key)
  /\ request' = [request EXCEPT ![s].doomed = @ \ {key},
                                ![s].gone = @ \cup {key.item}]
  /\ UNCHANGED <<row, minted, lock, task, torn>>

\* What the scrub writes on the row as it is: slide_keys lives in
\* item_metadata, which is written whole if it held anything when read.
Scrubbed(seen, now, metadata) ==
  [now EXCEPT
    !.purged = TRUE,
    !.keys = [k \in Kind |-> IF k = "slides" /\ metadata THEN 0
                             ELSE Assign(seen.keys[k], 0, @[k])]]

PurgeCommit(s) ==
  /\ InPurge(s) /\ request[s].left = {} /\ request[s].doomed = {}
  /\ LET seen == request[s].seen IN
     \E metadata \in [DOMAIN seen -> BOOLEAN] :
       row' = [i \in Items |-> IF i \in DOMAIN seen
                               THEN Scrubbed(seen[i], row[i], metadata[i]) ELSE row[i]]
  /\ Release(s)
  /\ request' = [request EXCEPT ![s] = Idle]
  /\ UNCHANGED <<bucket, minted, task, torn, leaked, faults>>

\* Killed, or the commit failed: the rows are rolled back, the bucket is not.
RequestDies(s) ==
  /\ request[s] # Idle /\ faults < MaxFaults
  /\ faults' = faults + 1
  /\ torn' = IF request[s].pc = "purge" THEN torn \cup request[s].gone ELSE torn
  /\ leaked' = IF request[s].pc = "save" THEN leaked \cup {request[s].item} ELSE leaked
  /\ Release(s)
  /\ request' = [request EXCEPT ![s] = Idle]
  /\ UNCHANGED <<row, bucket, minted, task>>
-------------------------------------------------------------------------------
(* Enriching a link: its picture and its slides are copied on the way.      *)

Become(w, t) == task' = [task EXCEPT ![w] = t]
At(w, pc) == task[w] # Idle /\ task[w].pc = pc

\* process_item claims the row before it mirrors; finalize_run holds no lock.
TaskRead(w, i) ==
  /\ task[w] = Idle
  /\ row[i].link /\ Visible(i)
  /\ \E pc \in {"claim", "thumb"} :
       Become(w, [pc |-> pc, item |-> i, seen |-> row[i],
                  fresh |-> [k \in Mirrored |-> 0], gone |-> FALSE])
  /\ LET overlapped == IF \E v \in Workers : task[v] # Idle /\ task[v].item = i
                       THEN {i} ELSE {}
     IN torn' = torn \cup overlapped /\ leaked' = leaked \cup overlapped
  /\ UNCHANGED <<row, bucket, minted, lock, request, faults>>

\* The flush of `processing`: an inline task holds the row from here on.
TaskClaim(w) ==
  /\ At(w, "claim") /\ lock[task[w].item] = "free"
  /\ lock' = [lock EXCEPT ![task[w].item] = w]
  /\ Become(w, [task[w] EXCEPT !.pc = "thumb"])
  /\ UNCHANGED <<row, bucket, minted, request, torn, leaked, faults>>

After(k) == IF k = "thumb" THEN "slides" ELSE "commit"
Drop(k)  == IF k = "thumb" THEN "drop thumb" ELSE "drop slides"

\* Nothing to copy, the same source again, or a fetch that failed.
NoMirror(w, k) ==
  /\ At(w, k)
  /\ Become(w, [task[w] EXCEPT !.pc = After(k)])
  /\ UNCHANGED <<row, bucket, minted, lock, request, torn, leaked, faults>>

Mirror(w, k) ==
  /\ At(w, k)
  /\ Mint(task[w].item, k)
  /\ Become(w, [task[w] EXCEPT !.pc = IF @ = "thumb" THEN "drop thumb" ELSE "drop slides",
                               !.fresh[k] = minted'])
  /\ UNCHANGED <<row, lock, request, torn, leaked, faults>>

\* Mutant: the picture that was replaced is left behind.
DropPreviousNot(w, k) ==
  /\ At(w, Drop(k))
  /\ Become(w, [task[w] EXCEPT !.pc = After(k)])
  /\ UNCHANGED <<row, bucket, minted, lock, request, torn, leaked, faults>>

\* The object that the new one replaces goes at once, before the commit.
DropPrevious(w, k) ==
  /\ At(w, Drop(k))
  /\ LET i == task[w].item
         n == task[w].seen.keys[k]
     IN IF n = 0
        THEN /\ Become(w, [task[w] EXCEPT !.pc = After(k)])
             /\ UNCHANGED <<bucket, leaked, faults>>
        ELSE /\ Remove(KeyOf(i, k, n))
             /\ Become(w, [task[w] EXCEPT !.pc = After(k), !.gone = TRUE])
  /\ UNCHANGED <<row, minted, lock, request, torn>>

\* Mutant: a row that already names a picture keeps its key.
EnrichedOnce(t, now, metadata) ==
  [now EXCEPT !.keys["thumb"] = IF t.seen.keys["thumb"] = 0 THEN t.fresh["thumb"] ELSE @,
              !.keys["slides"] = IF t.fresh["slides"] # 0 THEN t.fresh["slides"]
                                 ELSE IF metadata THEN t.seen.keys["slides"] ELSE @]

\* What the task writes: the new key of a picture if it was copied; item_metadata
\* whole, with the slides as they were read unless they were copied too.
Enriched(t, now, metadata) ==
  [now EXCEPT !.keys["thumb"] = IF t.fresh["thumb"] # 0 THEN t.fresh["thumb"] ELSE @,
              !.keys["slides"] = IF t.fresh["slides"] # 0 THEN t.fresh["slides"]
                                 ELSE IF metadata THEN t.seen.keys["slides"] ELSE @]

\* Completed, skipped or failed: what was copied is kept in each case.
TaskCommit(w) ==
  /\ At(w, "commit")
  /\ LET i == task[w].item IN
     /\ lock[i] \in {"free", w}
     /\ \E metadata \in BOOLEAN :
          row' = [row EXCEPT ![i] = Enriched(task[w], @, metadata)]
  /\ Release(w)
  /\ Become(w, Idle)
  /\ UNCHANGED <<bucket, minted, request, torn, leaked, faults>>

\* Killed, or its transaction failed.
TaskDies(w) ==
  /\ task[w] # Idle /\ faults < MaxFaults
  /\ faults' = faults + 1
  /\ torn' = IF task[w].gone THEN torn \cup {task[w].item} ELSE torn
  /\ leaked' = IF \E k \in Mirrored : task[w].fresh[k] # 0
               THEN leaked \cup {task[w].item} ELSE leaked
  /\ Release(w)
  /\ Become(w, Idle)
  /\ UNCHANGED <<row, bucket, minted, request>>
-------------------------------------------------------------------------------
OwnerStep(c) ==
  \/ \E i \in Items : SaveUpload(c, i) \/ TrashRead(c, i) \/ RestoreRead(c, i)
                        \/ PurgeOne(c, i)
  \/ EmptyTrash(c)

SessionStep(s) ==
  \/ SaveInsert(s) \/ Move(s)
  \/ PurgeRow(s) \/ PurgeCommit(s) \/ \E key \in Key : PurgeObject(s, key)

TaskStep(w) ==
  \/ TaskClaim(w) \/ TaskCommit(w)
  \/ \E k \in Mirrored : NoMirror(w, k) \/ Mirror(w, k) \/ DropPrevious(w, k)

Next ==
  \/ \E i \in Items : SaveLink(i) \/ SaveWords(i) \/ Expire(i)
  \/ \E c \in Requests : OwnerStep(c)
  \/ \E s \in Sessions : SessionStep(s) \/ RequestDies(s)
  \/ PurgeExpired
  \/ \E w \in Workers : TaskStep(w) \/ TaskDies(w) \/ \E i \in Items : TaskRead(w, i)

Spec == Init /\ [][Next]_vars
-------------------------------------------------------------------------------
(* Properties.                                                             *)

Named(i) == {KeyOf(i, k, row[i].keys[k]) : k \in {f \in Kind : row[i].keys[f] # 0}}
Stored(i) == {o \in bucket : o.item = i}

BeingPurged(i) == \E s \in Sessions : InPurge(s) /\ i \in DOMAIN request[s].seen
InHand(i) ==
  \/ BeingPurged(i)
  \/ \E w \in Workers : task[w] # Idle /\ task[w].item = i
  \/ \E s \in Sessions : request[s] # Idle /\ request[s].pc = "save"
                           /\ request[s].item = i

\* What the owner uploaded is there for as long as the memory is theirs, in the
\* vault and in the trash: only a purge takes it, and only one that dies over it
\* may leave a row without its file (vault_service.py, _purge and delete: "the
\* bucket keeps its objects").
FileOutlivesTrash ==
  \A i \in Items :
    row[i].keys["file"] # 0 /\ ~row[i].purged /\ ~BeingPurged(i) /\ i \notin torn
      => KeyOf(i, "file", row[i].keys["file"]) \in bucket

\* A purge takes the upload with it: "a key not read here is a key nothing can
\* ever find again" (vault_service.py, _purge).
PurgeTakesTheFile ==
  \A i \in Items :
    row[i].purged /\ i \notin leaked => \A o \in Stored(i) : o.kind # "file"

\* Between transactions every picture a row names is there, whatever was
\* replaced, retried or restored meanwhile, unless a process died between
\* removing the old picture and committing the new, or two enrichments of the
\* memory overlapped, each with the metadata it had read (thumbnails.py).
PicturesAreStored ==
  \A i \in Items :
    ~row[i].purged /\ ~InHand(i) /\ i \notin torn => Named(i) \subseteq bucket

\* "An orphan in the bucket is a bill with nothing pointing at it"
\* (thumbnails.py, mirror): nothing is stored that its memory does not name,
\* unless a process died, the bucket refused a deletion, or two enrichments of
\* the memory overlapped, each replacing the picture it had read.
NothingIsOrphaned ==
  \A i \in Items :
    ~row[i].purged /\ ~InHand(i) /\ i \notin leaked => Stored(i) \subseteq Named(i)

\* "This cannot resurrect a tombstone into an empty memory" (repositories/
\* vault.py, restore).
TombstoneStaysDown == \A i \in Items : row[i].purged => row[i].deletedAt # "null"

\* "A key not read here is a key nothing can ever find again" (vault_service.py,
\* _purge): a purge about to commit has removed every object the row it read
\* named, the slides of a carousel too.
PurgeTakesWhatItRead ==
  \A s \in Sessions :
    InPurge(s) /\ request[s].left = {} /\ request[s].doomed = {} =>
      \A i \in DOMAIN request[s].seen, k \in Kind :
        LET n == request[s].seen[i].keys[k]
        IN n # 0 /\ i \notin leaked => KeyOf(i, k, n) \notin bucket
===============================================================================
