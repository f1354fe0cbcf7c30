--------------------------- MODULE CapturePipeline ---------------------------
(***************************************************************************)
(* The capture pipeline: a vault item from the request that saves it to    *)
(* the worker that enriches it, through Celery (at-least-once delivery,    *)
(* retries), the deferred extraction runs a provider executes for us, and  *)
(* the two beat tasks that rescue what the queue or the provider dropped.  *)
(*                                                                         *)
(* A step of this module is what one process does between two awaits that  *)
(* let another process in: a read, a flush (which takes the Postgres row   *)
(* lock), a commit (which publishes the writes and frees the lock).  Reads *)
(* see committed rows only (READ COMMITTED), and never wait for a lock.    *)
(***************************************************************************)
EXTENDS Naturals, FiniteSets

CONSTANTS
  Items,              \* vault items that may be captured
  Deferred,           \* items whose extractor hands the work to the provider
  Telegram,           \* items captured from the chat surface
  Authored,           \* items saved with their words: notes, documents, voice
  Redrivable,         \* finished items `reprocess` accepts: voice notes, reels
  Voice,              \* the redrivable items whose words `reprocess` clears
  Runs,               \* provider run ids
  Workers,            \* Celery worker processes
  None,               \* "no run"
  MaxRetries,         \* Celery's max_retries of process_item and finalize_run
  MaxSweepRequeues,   \* settings.MAX_SWEEP_REQUEUES
  MaxCopies,          \* bound: identical queued messages told apart
  Allowance           \* bound: how often each kind of optional event happens

Faults == {"crash", "timeout", "outage", "webhook", "lookup", "reprocess", "trash"}

ASSUME ConstantsAssumption ==
  /\ Deferred \subseteq Items /\ Telegram \subseteq Items
  /\ Authored \subseteq Items
  /\ Voice \subseteq Redrivable /\ Redrivable \subseteq Items
  /\ None \notin Runs
  /\ Workers \cap {"free", "api", "sweep"} = {}
  /\ MaxRetries \in Nat /\ MaxSweepRequeues \in Nat /\ MaxCopies \in Nat \ {0}
  /\ Allowance \in [Faults -> Nat]

VARIABLES
  row,       \* committed vault_items rows
  indexed,   \* items with a committed vault_chunks row
  age,       \* 0: just updated, 1: past the cooldown, 2: past the stuck cutoff
  lock,      \* who holds each row's lock
  run,       \* committed extraction_runs rows
  provider,  \* what the provider would answer about a run
  queued,    \* copies of each message in the broker
  wk,        \* what each worker is doing
  api,       \* the reprocess request being served
  sweep,     \* the tick of sweep_stranded_items being executed
  rescue,    \* the tick of sweep_stale_runs being executed
  told,      \* items whose outcome was handed to the telegram delivery task
  scanned,   \* items whose connection scan was enqueued
  budget     \* optional events still allowed

vars == <<row, indexed, age, lock, run, provider, queued, wk, api, sweep,
          rescue, told, scanned, budget>>
-------------------------------------------------------------------------------
Status == {"absent", "pending", "processing", "completed", "failed", "skipped"}
Life   == {"live", "trashed", "purged"}
Row    == [status : Status, retry : Nat, body : BOOLEAN, life : Life]

NoRow  == [status |-> "absent", retry |-> 0, body |-> FALSE, life |-> "live"]

RunStatus == {"running", "succeeded", "failed", "timed_out"}
RunRow    == [status : RunStatus, item : Items, stale : BOOLEAN]
NoRunRow  == [status |-> "absent"]

ProviderStatus == {"unstarted", "RUNNING", "SUCCEEDED", "FAILED"}

ProcessMsg(i, n)  == [task |-> "process", item |-> i, tries |-> n]
FinalizeMsg(r, n) == [task |-> "finalize", run |-> r, tries |-> n]
Message ==
  [task : {"process"}, item : Items, tries : 0..MaxRetries]
    \cup [task : {"finalize"}, run : Runs, tries : 0..MaxRetries]

Idle == [pc |-> "idle"]

\* What a busy worker remembers: its message, the item and run it loaded, the
\* row as it was when it was last read, and whether it had a chunk then.
Stage == {"read", "work", "handoff", "handed", "raise", "after",
          "fetch", "open", "enrich", "mark", "verdict", "answer"}
Task == [pc : Stage, msg : Message, item : Items, run : Runs \cup {None}, seen : Row,
         chunk : BOOLEAN]

\* A reprocess being served, and a sweep tick: the rows they loaded, with the
\* retry_count these held.
Request == [pc : {"checked", "flushed"}, item : Items, retry : Nat]
Tick    == [pc : {"listed"}, pending : SUBSET Items, stuck : SUBSET Items,
            retry : [Items -> Nat]]

\* A rescue tick: the runs it has still to visit, the verdicts it has flushed
\* on runs and the rows it has flushed, all of it uncommitted.
Rescue == [pc : {"scan", "enrich"}, todo : SUBSET Runs, run : Runs \cup {None},
           seen : Row, chunk : BOOLEAN, verdict : [Runs -> RunStatus],
           written : SUBSET Items, rows : [Items -> Row]]

\* The type invariant.
TypeOK ==
  /\ row \in [Items -> Row]
  /\ indexed \subseteq Items
  /\ age \in [Items -> 0..2]
  /\ lock \in [Items -> Workers \cup {"free", "api", "sweep"}]
  /\ run \in [Runs -> RunRow \cup {NoRunRow}]
  /\ provider \in [Runs -> ProviderStatus]
  /\ queued \in [Message -> 0..MaxCopies]
  /\ wk \in [Workers -> Task \cup {Idle}]
  /\ api \in Request \cup {Idle}
  /\ sweep \in Tick \cup {Idle}
  /\ rescue \in Rescue \cup {Idle}
  /\ told \subseteq Items
  /\ scanned \subseteq Items
  /\ budget \in [Faults -> Nat]

Init ==
  /\ row = [i \in Items |-> NoRow]
  /\ indexed = {}
  /\ age = [i \in Items |-> 0]
  /\ lock = [i \in Items |-> "free"]
  /\ run = [r \in Runs |-> NoRunRow]
  /\ provider = [r \in Runs |-> "unstarted"]
  /\ queued = [m \in Message |-> 0]
  /\ wk = [w \in Workers |-> Idle]
  /\ api = Idle
  /\ sweep = Idle
  /\ rescue = Idle
  /\ told = {}
  /\ scanned = {}
  /\ budget = Allowance
-------------------------------------------------------------------------------
(* The broker, the rows and their locks.                                   *)

More(q, m) == [q EXCEPT ![m] = IF @ < MaxCopies THEN @ + 1 ELSE @]

Less(q, m) == [q EXCEPT ![m] = @ - 1]

\* An enqueue is fail-soft everywhere: an unreachable broker is logged and the
\* message is simply not there.
Enqueue(m) ==
  \/ queued' = More(queued, m) /\ UNCHANGED budget
  \/ /\ budget["outage"] > 0
     /\ budget' = [budget EXCEPT !["outage"] = @ - 1]
     /\ UNCHANGED queued

Spend(f) == budget[f] > 0 /\ budget' = [budget EXCEPT ![f] = @ - 1]

Visible(i)  == row[i].status # "absent" /\ row[i].life = "live"
FreeFor(i, p) == lock[i] \in {"free", p}
Release(p)  == lock' = [i \in Items |-> IF lock[i] = p THEN "free" ELSE lock[i]]

\* The ORM writes a column only when its value differs from the one it loaded:
\* what the column holds after a task that loaded `was` assigns `new` to it.
Assign(was, new, now) == IF was = new THEN now ELSE new

Settle(r, seen, status, retry) ==
  [r EXCEPT !.status = Assign(seen.status, status, @),
            !.retry  = Assign(seen.retry, retry, @)]

\* Mutant: the extracted words are not written with the status.
CompletedRowNoBody(r, seen) == Settle(r, seen, "completed", 0)
CompletedRow(r, seen) == [Settle(r, seen, "completed", 0) EXCEPT !.body = TRUE]
SkippedRow(r, seen)   == Settle(r, seen, "skipped", 0)
FailedRow(r, seen)    == Settle(r, seen, "failed", seen.retry + 1)

Write(i, r) == row' = [row EXCEPT ![i] = r] /\ age' = [age EXCEPT ![i] = 0]
Become(w, task) == wk' = [wk EXCEPT ![w] = task]
Done(w, pc)     == Become(w, [wk[w] EXCEPT !.pc = pc, !.seen = NoRow,
                                              !.chunk = FALSE])
Ack(w)          == Become(w, Idle)

\* Celery's self.retry: a fresh message with the next attempt number, or
\* nothing once the attempts are used up.
Retry(m) ==
  IF m.tries < MaxRetries
  THEN queued' = More(queued, [m EXCEPT !.tries = @ + 1])
  ELSE UNCHANGED queued
-------------------------------------------------------------------------------
(* Requests.                                                               *)

\* Saving commits the row and only then enqueues it.
Save(i) ==
  /\ row[i].status = "absent"
  /\ row' = [row EXCEPT ![i] = [@ EXCEPT !.status = "pending",
                                         !.body = (i \in Authored)]]
  /\ Enqueue(ProcessMsg(i, 0))
  /\ UNCHANGED <<indexed, age, lock, run, provider, wk, api, sweep, rescue,
                 told, scanned>>

MayReprocess(i) ==
  /\ Visible(i)
  /\ \/ row[i].status \in {"failed", "skipped"}
     \/ row[i].status = "completed" /\ i \in Redrivable
  /\ age[i] > 0

\* `reprocess` loads the row and decides; the flush that follows may have to
\* wait for a worker that holds the row.
ReprocessCheck(i) ==
  /\ api = Idle
  /\ MayReprocess(i)
  /\ Spend("reprocess")
  /\ api' = [pc |-> "checked", item |-> i, retry |-> row[i].retry]
  /\ UNCHANGED <<row, indexed, age, lock, run, provider, queued, wk, sweep,
                 rescue, told, scanned>>

\* The flush takes the row lock; the message goes out before the commit.
ReprocessFlush ==
  /\ api # Idle /\ api.pc = "checked"
  /\ lock[api.item] = "free"
  /\ lock' = [lock EXCEPT ![api.item] = "api"]
  /\ Enqueue(ProcessMsg(api.item, 0))
  /\ api' = [api EXCEPT !.pc = "flushed"]
  /\ UNCHANGED <<row, indexed, age, run, provider, wk, sweep, rescue, told,
                 scanned>>

ReprocessCommit ==
  /\ api # Idle /\ api.pc = "flushed"
  /\ LET i == api.item IN
     Write(i, [row[i] EXCEPT !.status = "pending",
                             !.retry = Assign(api.retry, 0, @),
                             !.body = @ /\ i \notin Voice])
  /\ Release("api")
  /\ api' = Idle
  /\ UNCHANGED <<indexed, run, provider, queued, wk, sweep, rescue, told,
                 scanned, budget>>

\* Trash, restore and purge: one short transaction each.
Bury(i, from, to) ==
  /\ row[i].status # "absent" /\ row[i].life = from
  /\ lock[i] = "free"
  /\ Spend("trash")
  /\ Write(i, [row[i] EXCEPT !.life = to, !.body = @ /\ to # "purged"])
  /\ indexed' = IF to = "purged" THEN indexed \ {i} ELSE indexed
  /\ UNCHANGED <<lock, run, provider, queued, wk, api, sweep, rescue, told,
                 scanned>>

Trash(i)   == Bury(i, "live", "trashed")
Restore(i) == Bury(i, "trashed", "live")
Purge(i)   == Bury(i, "trashed", "purged")
-------------------------------------------------------------------------------
(* process_item.                                                           *)

\* The item was deleted while it was queued: nothing to do.
ProcMissing(w, i, n) ==
  /\ wk[w] = Idle /\ queued[ProcessMsg(i, n)] > 0
  /\ ~Visible(i)
  /\ queued' = Less(queued, ProcessMsg(i, n))
  /\ UNCHANGED <<row, indexed, age, lock, run, provider, wk, api, sweep,
                 rescue, told, scanned, budget>>

ProcRead(w, i, n) ==
  /\ wk[w] = Idle /\ queued[ProcessMsg(i, n)] > 0
  /\ Visible(i)
  /\ queued' = Less(queued, ProcessMsg(i, n))
  /\ Become(w, [pc |-> "read", msg |-> ProcessMsg(i, n), item |-> i,
                run |-> None, seen |-> row[i], chunk |-> FALSE])
  /\ UNCHANGED <<row, indexed, age, lock, run, provider, api, sweep, rescue,
                 told, scanned, budget>>

\* Mutant: the claim is committed.
ProcClaimCommits(w) ==
  /\ wk[w].pc = "read" /\ lock[wk[w].item] = "free"
  /\ LET claimed == [row[wk[w].item] EXCEPT !.status = "processing"] IN
     /\ Write(wk[w].item, claimed)
     /\ Become(w, [wk[w] EXCEPT !.pc = "work", !.seen = claimed])
  /\ UNCHANGED <<indexed, lock, run, provider, queued, api, sweep, rescue, told,
                 scanned, budget>>

\* The first flush sets `processing`: it takes the row lock unless the row
\* already said so, and is not committed.  The refresh re-reads the row.
ProcClaim(w) ==
  /\ wk[w].pc = "read"
  /\ LET i == wk[w].item IN
     \/ /\ wk[w].seen.status = "processing"
        /\ Become(w, [wk[w] EXCEPT !.pc = "work", !.seen = row[i]])
        /\ UNCHANGED lock
     \/ /\ wk[w].seen.status # "processing"
        /\ lock[i] = "free"
        /\ lock' = [lock EXCEPT ![i] = w]
        /\ Become(w, [wk[w] EXCEPT !.pc = "work",
                        !.seen = [row[i] EXCEPT !.status = "processing"]])
  /\ UNCHANGED <<row, indexed, age, run, provider, queued, api, sweep, rescue,
                 told, scanned, budget>>

\* A deferred extractor triggers a run at the provider ...
ProcHandoff(w, r) ==
  /\ wk[w].pc = "work" /\ wk[w].item \in Deferred
  /\ wk[w].seen.life # "purged"
  /\ provider[r] = "unstarted"
  /\ provider' = [provider EXCEPT ![r] = "RUNNING"]
  /\ Become(w, [wk[w] EXCEPT !.pc = "handoff", !.run = r])
  /\ UNCHANGED <<row, indexed, age, lock, run, queued, api, sweep, rescue,
                 told, scanned, budget>>

\* ... and its row, with the item's `processing`, becomes visible on commit.
ProcHandoffCommit(w) ==
  /\ wk[w].pc = "handoff"
  /\ LET i == wk[w].item IN
     /\ IF lock[i] = w
        THEN Write(i, [row[i] EXCEPT !.status = "processing"])
        ELSE UNCHANGED <<row, age>>
     /\ run' = [run EXCEPT ![wk[w].run] =
                  [status |-> "running", item |-> i, stale |-> FALSE]]
  /\ Release(w)
  /\ Done(w, "handed")
  /\ UNCHANGED <<indexed, provider, queued, api, sweep, rescue, told, scanned,
                 budget>>

\* Enriched inline: the card, the chunk and `completed` commit together.
ProcComplete(w) ==
  /\ wk[w].pc = "work"
  /\ wk[w].item \notin Deferred /\ wk[w].seen.life # "purged"
  /\ LET i == wk[w].item IN
     /\ FreeFor(i, w)
     /\ Write(i, CompletedRow(row[i], wk[w].seen))
     /\ indexed' = indexed \cup {i}
  /\ Release(w)
  /\ Done(w, "after")
  /\ UNCHANGED <<run, provider, queued, api, sweep, rescue, told, scanned,
                 budget>>

\* Nothing to read: an answer, not a fault.
ProcSkip(w) ==
  /\ wk[w].pc = "work"
  /\ wk[w].item \notin Deferred /\ wk[w].seen.life # "purged"
  /\ LET i == wk[w].item IN
     /\ FreeFor(i, w)
     /\ Write(i, SkippedRow(row[i], wk[w].seen))
  /\ Release(w)
  /\ Done(w, "after")
  /\ UNCHANGED <<indexed, run, provider, queued, api, sweep, rescue, told,
                 scanned, budget>>

\* The failure is recorded and committed; a permanent one is not raised.
ProcFail(w) ==
  /\ wk[w].pc = "work"
  /\ LET i == wk[w].item IN
     FreeFor(i, w) /\ Write(i, FailedRow(row[i], wk[w].seen))
  /\ Release(w)
  /\ \E pc \in {"after", "raise"} : Done(w, pc)
  /\ UNCHANGED <<indexed, run, provider, queued, api, sweep, rescue, told,
                 scanned, budget>>

\* _notify_surface: a deleted item is not announced.
Heard(i)    == IF Visible(i) /\ i \in Telegram THEN told \cup {i} ELSE told
Compared(i) == IF Visible(i) /\ row[i].status = "completed"
               THEN scanned \cup {i} ELSE scanned

\* Both enqueues are fail-soft.
Notify(i) ==
  \/ told' = Heard(i) /\ UNCHANGED budget
  \/ Heard(i) # told /\ Spend("outage") /\ UNCHANGED told

\* The tail of a task that finished: tell the surface, queue the connection
\* scan of a completed item, acknowledge.
After(w) ==
  /\ wk[w].pc = "after"
  /\ LET i == wk[w].item IN
     \/ told' = Heard(i) /\ scanned' = Compared(i) /\ UNCHANGED budget
     \/ /\ Spend("outage")
        /\ told' \in {told, Heard(i)} /\ scanned' \in {scanned, Compared(i)}
  /\ Ack(w)
  /\ UNCHANGED <<row, indexed, age, lock, run, provider, queued, api, sweep,
                 rescue>>

Handed(w) ==
  /\ wk[w].pc = "handed"
  /\ Ack(w)
  /\ UNCHANGED <<row, indexed, age, lock, run, provider, queued, api, sweep,
                 rescue, told, scanned, budget>>

\* Mutant: nobody is told of the last attempt's failure.
RaiseSilently(w) ==
  /\ wk[w].pc = "raise"
  /\ Retry(wk[w].msg)
  /\ Ack(w)
  /\ UNCHANGED <<row, indexed, age, lock, run, provider, api, sweep, rescue,
                 told, scanned, budget>>

\* The exception reaches the task shell: retry, and on process_item's last
\* attempt tell the surface.
Raise(w) ==
  /\ wk[w].pc = "raise"
  /\ Retry(wk[w].msg)
  /\ IF wk[w].msg.task = "process" /\ wk[w].msg.tries = MaxRetries
     THEN Notify(wk[w].item)
     ELSE UNCHANGED <<told, budget>>
  /\ Ack(w)
  /\ UNCHANGED <<row, indexed, age, lock, run, provider, api, sweep, rescue,
                 scanned>>
-------------------------------------------------------------------------------
(* finalize_run.                                                           *)

\* A callback for a run that has no row, or a terminal one, is dropped.
FinIgnore(w, r, n) ==
  /\ wk[w] = Idle /\ queued[FinalizeMsg(r, n)] > 0
  /\ run[r].status # "running"
  /\ queued' = Less(queued, FinalizeMsg(r, n))
  /\ UNCHANGED <<row, indexed, age, lock, run, provider, wk, api, sweep,
                 rescue, told, scanned, budget>>

FinRead(w, r, n) ==
  /\ wk[w] = Idle /\ queued[FinalizeMsg(r, n)] > 0
  /\ run[r].status = "running"
  /\ queued' = Less(queued, FinalizeMsg(r, n))
  /\ Become(w, [pc |-> "fetch", msg |-> FinalizeMsg(r, n),
                item |-> run[r].item, run |-> r, seen |-> row[run[r].item],
                chunk |-> FALSE])
  /\ UNCHANGED <<row, indexed, age, lock, run, provider, api, sweep, rescue,
                 told, scanned, budget>>

\* The provider is asked; a run with no dataset leads to a failure verdict,
\* a deleted item (or an unreachable provider) to an exception.
FinFetch(w) ==
  /\ wk[w].pc = "fetch"
  /\ LET i == wk[w].item
         to == IF provider[wk[w].run] # "SUCCEEDED" THEN "verdict"
               ELSE IF Visible(i) THEN "open" ELSE "raise"
     IN \/ Become(w, [wk[w] EXCEPT !.pc = to, !.seen = row[i]]) /\ UNCHANGED budget
        \/ Spend("lookup") /\ Done(w, "raise")
  /\ UNCHANGED <<row, indexed, age, lock, run, provider, queued, api, sweep,
                 rescue, told, scanned>>

\* `finalize` re-reads the item: deleted or already completed, it does nothing
\* and the run is only marked.  No lock is taken, so what follows works on
\* this reading of the row.
FinOpen(w) ==
  /\ wk[w].pc = "open"
  /\ LET i == wk[w].item IN
     Become(w, [wk[w] EXCEPT
       !.pc = IF Visible(i) /\ row[i].status # "completed"
              THEN "enrich" ELSE "mark",
       !.seen = row[i], !.chunk = i \in indexed])
  /\ UNCHANGED <<row, indexed, age, lock, run, provider, queued, api, sweep,
                 rescue, told, scanned, budget>>

MarkRun(r, to) == run' = [run EXCEPT ![r] = [@ EXCEPT !.status = to]]

FinComplete(w) ==
  /\ wk[w].pc = "enrich"
  /\ LET i == wk[w].item IN
     /\ lock[i] = "free"
     /\ Write(i, CompletedRow(row[i], wk[w].seen))
     /\ indexed' = indexed \cup {i}
  /\ MarkRun(wk[w].run, "succeeded")
  /\ Done(w, "after")
  /\ UNCHANGED <<lock, provider, queued, api, sweep, rescue, told, scanned,
                 budget>>

\* Another task committed the item's first chunk after this one looked for it:
\* the unique constraint refuses the insert and the attempt rolls back.
FinClash(w) ==
  /\ wk[w].pc = "enrich"
  /\ ~wk[w].chunk /\ wk[w].item \in indexed
  /\ Done(w, "raise")
  /\ UNCHANGED <<row, indexed, age, lock, run, provider, queued, api, sweep,
                 rescue, told, scanned, budget>>

\* The run is marked terminal even when the item fails (the `finally`).
FinFail(w) ==
  /\ wk[w].pc = "enrich"
  /\ LET i == wk[w].item IN
     lock[i] = "free" /\ Write(i, FailedRow(row[i], wk[w].seen))
  /\ MarkRun(wk[w].run, "succeeded")
  /\ \E pc \in {"after", "raise"} : Done(w, pc)
  /\ UNCHANGED <<indexed, lock, provider, queued, api, sweep, rescue, told,
                 scanned, budget>>

FinMark(w) ==
  /\ wk[w].pc = "mark"
  /\ MarkRun(wk[w].run, "succeeded")
  /\ Done(w, "after")
  /\ UNCHANGED <<row, indexed, age, lock, provider, queued, api, sweep, rescue,
                 told, scanned, budget>>

\* fail_item spares an item that is gone or already completed.
FailItemSpares(seen) == seen.life # "live" \/ seen.status = "completed"

FinVerdict(w) ==
  /\ wk[w].pc = "verdict"
  /\ \/ FailItemSpares(wk[w].seen) /\ UNCHANGED <<row, age>>
     \/ /\ ~FailItemSpares(wk[w].seen)
        /\ LET i == wk[w].item IN
           lock[i] = "free" /\ Write(i, FailedRow(row[i], wk[w].seen))
  /\ MarkRun(wk[w].run, "failed")
  /\ Done(w, "answer")
  /\ UNCHANGED <<indexed, lock, provider, queued, api, sweep, rescue, told,
                 scanned, budget>>

Answer(w) ==
  /\ wk[w].pc = "answer"
  /\ Notify(wk[w].item)
  /\ Ack(w)
  /\ UNCHANGED <<row, indexed, age, lock, run, provider, queued, api, sweep,
                 rescue, scanned>>
-------------------------------------------------------------------------------
(* A worker lost or stopped mid-task: its transaction rolls back.          *)

\* Mutant: the message is acknowledged when it is received.
CrashLosesMessage(w) ==
  /\ wk[w] # Idle
  /\ Spend("crash")
  /\ Release(w)
  /\ Ack(w)
  /\ UNCHANGED <<row, indexed, age, run, provider, queued, api, sweep, rescue,
                 told, scanned>>

\* Killed: acks_late and reject_on_worker_lost put the message back as it was.
Crash(w) ==
  /\ wk[w] # Idle
  /\ Spend("crash")
  /\ queued' = More(queued, wk[w].msg)
  /\ Release(w)
  /\ Ack(w)
  /\ UNCHANGED <<row, indexed, age, run, provider, api, sweep, rescue, told,
                 scanned>>

\* The soft time limit cancels the coroutine: no `except` of the pipeline runs
\* and the transaction rolls back; the task shell then retries like any other
\* failure.
SoftTimeLimit(w) ==
  /\ wk[w] # Idle /\ wk[w].pc # "raise"
  /\ Spend("timeout")
  /\ Release(w)
  /\ Done(w, "raise")
  /\ UNCHANGED <<row, indexed, age, run, provider, queued, api, sweep, rescue,
                 told, scanned>>

\* Inside finalize_run's `try`, though, the `finally` still runs: it marks the
\* run and commits, with whatever the session holds of the new body.
SoftTimeLimitInFinalize(w) ==
  /\ wk[w].pc \in {"open", "enrich", "mark"}
  /\ Spend("timeout")
  /\ LET i == wk[w].item IN
     \/ UNCHANGED <<row, age>>
     \/ /\ wk[w].pc = "enrich" /\ lock[i] = "free"
        /\ Write(i, [row[i] EXCEPT !.body = TRUE])
  /\ MarkRun(wk[w].run, "succeeded")
  /\ Done(w, "raise")
  /\ UNCHANGED <<indexed, lock, provider, queued, api, sweep, rescue, told,
                 scanned>>

\* Killed between the request's enqueue and its commit, or between the sweep's.
RequestLost ==
  /\ api # Idle
  /\ Spend("crash")
  /\ Release("api")
  /\ api' = Idle
  /\ UNCHANGED <<row, indexed, age, run, provider, queued, wk, sweep, rescue,
                 told, scanned>>

SweepLost ==
  /\ sweep # Idle
  /\ Spend("crash")
  /\ sweep' = Idle
  /\ UNCHANGED <<row, indexed, age, lock, run, provider, queued, wk, api, rescue,
                 told, scanned>>
-------------------------------------------------------------------------------
(* sweep_stranded_items.                                                   *)

HasRunningRun(i) == \E r \in Runs : run[r].status = "running" /\ run[r].item = i

\* Mutant: only rows left in `processing` are swept.
StrandedProcessing(s) == {i \in Items : /\ s = "processing" /\ row[i].status = s
                                        /\ row[i].life = "live" /\ age[i] = 2
                                        /\ ~HasRunningRun(i)}
Stranded(s) == {i \in Items : /\ row[i].status = s /\ row[i].life = "live"
                              /\ age[i] = 2 /\ ~HasRunningRun(i)}

\* The listed pending items are re-queued until their ceiling, before the
\* commit; what the tick decided is written from the rows as listed.
SweepList ==
  /\ sweep = Idle
  /\ Stranded("pending") \cup Stranded("processing") # {}
  /\ sweep' = [pc |-> "listed", pending |-> Stranded("pending"),
               stuck |-> Stranded("processing"),
               retry |-> [i \in Items |-> IF i \in Stranded("pending") \cup Stranded("processing")
                                         THEN row[i].retry ELSE 0]]
  /\ LET again == {i \in Stranded("pending") : row[i].retry < MaxSweepRequeues}
     IN \/ /\ queued' = [m \in Message |->
                           IF m.task = "process" /\ m.tries = 0 /\ m.item \in again
                           THEN More(queued, m)[m] ELSE queued[m]]
           /\ UNCHANGED budget
        \/ again # {} /\ Spend("outage") /\ UNCHANGED queued
  /\ UNCHANGED <<row, indexed, age, lock, run, provider, wk, api, rescue, told,
                 scanned>>

\* Mutant: the whole row is written back, its status with it.
SweptRowRequeued(i) ==
  IF i \in sweep.stuck
  THEN [row[i] EXCEPT !.status = "failed", !.retry = sweep.retry[i] + 1]
  ELSE IF sweep.retry[i] >= MaxSweepRequeues
       THEN [row[i] EXCEPT !.status = "failed"]
       ELSE [row[i] EXCEPT !.status = "pending", !.retry = sweep.retry[i] + 1]

SweptRow(i) ==
  IF i \in sweep.stuck
  THEN [row[i] EXCEPT !.status = "failed", !.retry = sweep.retry[i] + 1]
  ELSE IF sweep.retry[i] >= MaxSweepRequeues
       THEN [row[i] EXCEPT !.status = "failed"]
       ELSE [row[i] EXCEPT !.retry = sweep.retry[i] + 1]

SweepCommit ==
  /\ sweep # Idle
  /\ LET listed == sweep.pending \cup sweep.stuck IN
     /\ \A i \in listed : lock[i] = "free"
     /\ row' = [i \in Items |-> IF i \in listed THEN SweptRow(i) ELSE row[i]]
     /\ age' = [i \in Items |-> IF i \in listed THEN 0 ELSE age[i]]
  /\ sweep' = Idle
  /\ UNCHANGED <<indexed, lock, run, provider, queued, wk, api, rescue, told,
                 scanned, budget>>
-------------------------------------------------------------------------------
(* sweep_stale_runs: one transaction over every stale run.                 *)

Stale == {r \in Runs : run[r].status = "running" /\ run[r].stale}

RescueList ==
  /\ rescue = Idle /\ Stale # {}
  /\ rescue' = [pc |-> "scan", todo |-> Stale, run |-> None, seen |-> NoRow,
                chunk |-> FALSE, verdict |-> [r \in Runs |-> "running"], written |-> {},
                rows |-> [i \in Items |-> NoRow]]
  /\ UNCHANGED <<row, indexed, age, lock, run, provider, queued, wk, api, sweep,
                 told, scanned, budget>>

\* The tick reads its own uncommitted writes.
RescueSees(i) == IF i \in rescue.written THEN rescue.rows[i] ELSE row[i]
Scanning(r)   == rescue # Idle /\ rescue.pc = "scan" /\ r \in rescue.todo

\* Still working, or the provider could not be asked: left for the next tick.
RescueSkip(r) ==
  /\ Scanning(r)
  /\ \/ provider[r] = "RUNNING" /\ UNCHANGED budget
     \/ Spend("lookup")
  /\ rescue' = [rescue EXCEPT !.todo = @ \ {r}]
  /\ UNCHANGED <<row, indexed, age, lock, run, provider, queued, wk, api, sweep,
                 told, scanned>>

\* A verdict that leaves the item alone, and one whose flush writes it and
\* takes its lock.
Keep(r, to) ==
  /\ rescue' = [rescue EXCEPT !.pc = "scan", !.todo = @ \ {r}, !.run = None,
                              !.seen = NoRow, !.chunk = FALSE, !.verdict[r] = to]
  /\ UNCHANGED lock
Flush(r, to, i, new) ==
  /\ FreeFor(i, "sweep")
  /\ lock' = [lock EXCEPT ![i] = "sweep"]
  /\ rescue' = [rescue EXCEPT !.pc = "scan", !.todo = @ \ {r}, !.run = None,
                              !.seen = NoRow, !.chunk = FALSE, !.verdict[r] = to,
                              !.written = @ \cup {i}, !.rows[i] = new]

\* The payload is there: `finalize` opens the item, or finds it completed.
RescueOpen(r) ==
  /\ Scanning(r)
  /\ provider[r] = "SUCCEEDED" /\ Visible(run[r].item)
  /\ LET seen == RescueSees(run[r].item) IN
     \/ seen.status = "completed" /\ Keep(r, "succeeded")
     \/ /\ seen.status # "completed"
        /\ rescue' = [rescue EXCEPT !.pc = "enrich", !.run = r, !.seen = seen,
                                  !.chunk = run[r].item \in indexed]
        /\ UNCHANGED lock
  /\ UNCHANGED <<row, indexed, age, run, provider, queued, wk, api, sweep,
                 told, scanned, budget>>

\* Enriched, or failed for good.
RescueFinish ==
  /\ rescue # Idle /\ rescue.pc = "enrich"
  /\ LET i   == run[rescue.run].item
         now == RescueSees(i)
     IN \/ Flush(rescue.run, "succeeded", i, CompletedRow(now, rescue.seen))
        \/ Flush(rescue.run, "succeeded", i, FailedRow(now, rescue.seen))
  /\ UNCHANGED <<row, indexed, age, run, provider, queued, wk, api, sweep, told,
                 scanned, budget>>

\* The run ended without data.
RescueTimeout(r) ==
  /\ Scanning(r)
  /\ provider[r] = "FAILED"
  /\ LET i    == run[r].item
         seen == RescueSees(i)
     IN \/ FailItemSpares(seen) /\ Keep(r, "timed_out")
        \/ /\ ~FailItemSpares(seen)
           /\ Flush(r, "timed_out", i, FailedRow(seen, seen))
  /\ UNCHANGED <<row, indexed, age, run, provider, queued, wk, api, sweep, told,
                 scanned, budget>>

\* An exception of one run (its item deleted, its chunk inserted by another
\* task, its dataset or the model unreachable) or a kill ends the tick:
\* everything flushed so far is rolled back.
RescueAbort ==
  /\ rescue # Idle
  /\ \/ /\ \E r \in Runs : /\ Scanning(r)
                           /\ provider[r] = "SUCCEEDED" /\ ~Visible(run[r].item)
        /\ UNCHANGED budget
     \/ /\ rescue.pc = "enrich"
        /\ ~rescue.chunk /\ run[rescue.run].item \in indexed \ rescue.written
        /\ UNCHANGED budget
     \/ \E f \in {"lookup", "timeout", "crash"} : Spend(f)
  /\ Release("sweep")
  /\ rescue' = Idle
  /\ UNCHANGED <<row, indexed, age, run, provider, queued, wk, api, sweep, told,
                 scanned>>

\* Mutant: the runs are not marked.
RescueCommitRowsOnly ==
  /\ rescue # Idle /\ rescue.pc = "scan" /\ rescue.todo = {}
  /\ row' = [i \in Items |-> RescueSees(i)]
  /\ indexed' = indexed \cup {i \in rescue.written : rescue.rows[i].status = "completed"}
  /\ age' = [i \in Items |-> IF i \in rescue.written THEN 0 ELSE age[i]]
  /\ Release("sweep")
  /\ rescue' = Idle
  /\ UNCHANGED <<run, provider, queued, wk, api, sweep, told, scanned, budget>>

RescueCommit ==
  /\ rescue # Idle /\ rescue.pc = "scan" /\ rescue.todo = {}
  /\ row' = [i \in Items |-> RescueSees(i)]
  /\ indexed' = indexed \cup {i \in rescue.written : rescue.rows[i].status = "completed"}
  /\ age' = [i \in Items |-> IF i \in rescue.written THEN 0 ELSE age[i]]
  /\ run' = [r \in Runs |-> IF rescue.verdict[r] = "running" THEN run[r]
                            ELSE [run[r] EXCEPT !.status = rescue.verdict[r]]]
  /\ Release("sweep")
  /\ rescue' = Idle
  /\ UNCHANGED <<provider, queued, wk, api, sweep, told, scanned, budget>>
-------------------------------------------------------------------------------
(* The provider, its webhook, and time.                                    *)

\* A run ends and its webhook enqueues finalize_run, or is lost.
ProviderEnds(r) ==
  /\ provider[r] = "RUNNING"
  /\ \E s \in {"SUCCEEDED", "FAILED"} : provider' = [provider EXCEPT ![r] = s]
  /\ \/ queued' = More(queued, FinalizeMsg(r, 0)) /\ UNCHANGED budget
     \/ Spend("webhook") /\ UNCHANGED queued
  /\ UNCHANGED <<row, indexed, age, lock, run, wk, api, sweep, rescue, told,
                 scanned>>

\* The webhook is at-least-once.
WebhookAgain(r) ==
  /\ provider[r] \in {"SUCCEEDED", "FAILED"}
  /\ Spend("webhook")
  /\ queued' = More(queued, FinalizeMsg(r, 0))
  /\ UNCHANGED <<row, indexed, age, lock, run, provider, wk, api, sweep, rescue,
                 told, scanned>>

Ages(i) ==
  /\ row[i].status # "absent" /\ age[i] < 2
  /\ age' = [age EXCEPT ![i] = @ + 1]
  /\ UNCHANGED <<row, indexed, lock, run, provider, queued, wk, api, sweep,
                 rescue, told, scanned, budget>>

RunAges(r) ==
  /\ run[r].status = "running" /\ ~run[r].stale
  /\ run' = [run EXCEPT ![r] = [@ EXCEPT !.stale = TRUE]]
  /\ UNCHANGED <<row, indexed, age, lock, provider, queued, wk, api, sweep,
                 rescue, told, scanned, budget>>
-------------------------------------------------------------------------------
Receive(w) ==
  \E n \in 0..MaxRetries :
    \/ \E i \in Items : ProcMissing(w, i, n) \/ ProcRead(w, i, n)
    \/ \E r \in Runs : FinIgnore(w, r, n) \/ FinRead(w, r, n)

Process(w) ==
  \/ ProcClaim(w) \/ \E r \in Runs : ProcHandoff(w, r)
  \/ ProcHandoffCommit(w) \/ Handed(w)
  \/ ProcComplete(w) \/ ProcSkip(w) \/ ProcFail(w)

Finalize(w) ==
  \/ FinFetch(w) \/ FinOpen(w) \/ FinComplete(w) \/ FinClash(w) \/ FinFail(w)
  \/ FinMark(w) \/ FinVerdict(w)

WorkerStep(w) ==
  Receive(w) \/ Process(w) \/ Finalize(w) \/ After(w) \/ Answer(w) \/ Raise(w)

SweepStep == SweepList \/ SweepCommit

RescueStep ==
  \/ RescueList \/ RescueFinish \/ RescueAbort \/ RescueCommit
  \/ \E r \in Runs : RescueSkip(r) \/ RescueOpen(r) \/ RescueTimeout(r)

RequestStep == ReprocessFlush \/ ReprocessCommit

UserStep ==
  \E i \in Items : Save(i) \/ ReprocessCheck(i) \/ Trash(i) \/ Restore(i) \/ Purge(i)

Next ==
  \/ UserStep \/ RequestStep
  \/ \E w \in Workers :
       WorkerStep(w) \/ Crash(w) \/ SoftTimeLimit(w) \/ SoftTimeLimitInFinalize(w)
  \/ SweepStep \/ RescueStep \/ RequestLost \/ SweepLost
  \/ \E r \in Runs : ProviderEnds(r) \/ WebhookAgain(r) \/ RunAges(r)
  \/ \E i \in Items : Ages(i)

\* Workers, beat and the provider keep going; time passes; nobody is obliged
\* to save, retry, delete, crash or repeat a webhook.
Fairness ==
  /\ \A w \in Workers : WF_vars(WorkerStep(w))
  /\ WF_vars(RequestStep) /\ WF_vars(SweepStep) /\ WF_vars(RescueStep)
  /\ \A r \in Runs : WF_vars(ProviderEnds(r)) /\ WF_vars(RunAges(r))
  /\ \A i \in Items : WF_vars(Ages(i))

Spec     == Init /\ [][Next]_vars
FairSpec == Spec /\ Fairness
-------------------------------------------------------------------------------
(* Safety.                                                                 *)

\* A row other transactions see as `processing` has been handed to the
\* provider: the claim of an inline task is never visible, so a worker that
\* dies cannot leave one behind.
ProcessingIsHandedOff ==
  \A i \in Items : row[i].status = "processing" =>
    \E r \in Runs : run[r].status # "absent" /\ run[r].item = i

\* Whatever retries, redeliveries, sweeps and re-runs overlap, a finished
\* memory has its words and the chunk search finds it by.
CompletedIsIndexed ==
  \A i \in Items : row[i].status = "completed" /\ row[i].life # "purged" =>
    row[i].body /\ i \in indexed

\* The scrub is final: no task that had the item in hand writes its words or
\* its chunk back (repositories/vault.py purge).
PurgedStaysScrubbed ==
  \A i \in Items : row[i].life = "purged" => ~row[i].body /\ i \notin indexed

\* So far no enqueue has failed, no task has met its soft time limit and nothing
\* was deleted.
Undisturbed == \A f \in {"outage", "timeout", "trash"} : budget[f] = Allowance[f]

\* Then every pending row has a message, a worker or an open run that will
\* come back to it: a killed worker's message returns, a retry replaces the one
\* it follows, and a reprocess, whose message overtakes its commit, only ever
\* publishes `pending` over a row something still speaks for (a task that found
\* the row `processing` claims nothing: what it leaves is its run).
Carried(i) ==
  \/ \E n \in 0..MaxRetries : queued[ProcessMsg(i, n)] > 0
  \/ \E w \in Workers : wk[w] # Idle /\ wk[w].msg.task = "process" /\ wk[w].item = i
  \/ HasRunningRun(i)
PendingIsCarried ==
  Undisturbed => \A i \in Items : row[i].status = "pending" => Carried(i)

\* "One bad run must not stop the sweep" (queue/tasks.py, _sweep_stale_runs): a
\* rescue tick that ends publishes the verdicts it reached.
RescueKeepsVerdicts ==
  [][rescue # Idle /\ rescue' = Idle =>
       \A r \in Runs : rescue.verdict[r] # "running" => run'[r].status # "running"]_vars

\* Only its owner's reprocess sends a settled item back to the queue.
OnlyReprocessRequeues ==
  [][\A i \in Items :
       row[i].status \in {"completed", "failed", "skipped"}
         /\ row'[i].status = "pending" => api # Idle /\ api.item = i]_vars
-------------------------------------------------------------------------------
(* Liveness, under FairSpec.                                               *)

Waiting(i) == Visible(i) /\ row[i].status \in {"pending", "processing"}

\* Nothing captured sits in limbo: a visible item that waits is settled (or
\* deleted) in the end, whatever was lost on the way.
NothingSitsInLimbo == \A i \in Items : Waiting(i) ~> ~Waiting(i)

\* Unless an enqueue failed, a task was cut short or something was deleted, a
\* capture that completed is announced on its surface and scanned for
\* connections.
CompletedIsFollowedUp ==
  \A i \in Telegram :
    row[i].status = "completed" ~>
      \/ i \in told /\ i \in scanned
      \/ row[i].status # "completed" \/ ~Undisturbed

\* Under the same premise, a capture that failed is answered on its surface:
\* the last attempt says so (queue/tasks.py, _notify_final_failure).
FailedIsAnswered ==
  \A i \in Telegram :
    row[i].status = "failed" ~> (i \in told \/ row[i].status # "failed" \/ ~Undisturbed)

\* A run whose webhook never came is rescued once the provider has its data,
\* whatever becomes of the other runs.
StaleRunIsRescued ==
  \A r \in Runs :
    (r \in Stale /\ provider[r] = "SUCCEEDED" /\ Visible(run[r].item)) ~>
       (r \notin Stale \/ ~Visible(run[r].item))
===============================================================================
