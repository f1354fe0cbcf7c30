------------------------ MODULE CapturePipeline_proofs ------------------------
(***************************************************************************)
(* Proofs about CapturePipeline, for every set of items, runs and workers  *)
(* and every allowance of faults: the type invariant, that a visible       *)
(* `processing` row has been handed to the provider, that a finished       *)
(* memory has its words and its chunk, that only its owner makes a memory  *)
(* `pending` again, and that a pending memory always has a carrier.        *)
(***************************************************************************)
EXTENDS CapturePipeline, TLAPS
-------------------------------------------------------------------------------
(* The helpers keep the types.                                             *)

\* How many copies of each message are at the broker.
Queues == [Message -> 0..MaxCopies]

\* Sending a message leaves queues of bounded counts.
LEMMA MoreType ==
  ASSUME NEW q \in Queues, NEW m PROVE More(q, m) \in Queues
<1>1. ASSUME NEW n \in 0..MaxCopies
      PROVE  (IF n < MaxCopies THEN n + 1 ELSE n) \in 0..MaxCopies
  BY ConstantsAssumption
<1>2. CASE m \in Message
  BY <1>1, <1>2 DEF More, Queues
<1>3. CASE m \notin Message
  BY <1>3 DEF More, Queues
<1> QED BY <1>2, <1>3

\* So does delivering one that is there.
LEMMA LessType ==
  ASSUME NEW q \in Queues, NEW m \in Message, q[m] > 0
  PROVE  Less(q, m) \in Queues
  BY ConstantsAssumption DEF Less, Queues

\* Using up an allowance leaves natural numbers.
LEMMA SpendType ==
  ASSUME budget \in [Faults -> Nat], NEW f \in Faults, Spend(f)
  PROVE  budget' \in [Faults -> Nat]
  BY DEF Spend

\* An enqueue, whether it reaches the broker or fails softly, keeps both types.
LEMMA EnqueueType ==
  ASSUME queued \in Queues, budget \in [Faults -> Nat], NEW m, Enqueue(m)
  PROVE  queued' \in Queues /\ budget' \in [Faults -> Nat]
  BY MoreType DEF Enqueue, Faults

\* Every attempt of process_item is a message.
LEMMA ProcessMsgType ==
  ASSUME NEW i \in Items, NEW n \in 0..MaxRetries
  PROVE  ProcessMsg(i, n) \in Message
  BY DEF ProcessMsg, Message

\* Every attempt of finalize_run is a message.
LEMMA FinalizeMsgType ==
  ASSUME NEW r \in Runs, NEW n \in 0..MaxRetries
  PROVE  FinalizeMsg(r, n) \in Message
  BY DEF FinalizeMsg, Message

\* A Celery retry is a message sent.
LEMMA RetryType ==
  ASSUME queued \in Queues, NEW m, Retry(m) PROVE queued' \in Queues
  BY MoreType DEF Retry

\* Writing a status and a retry count back to a row leaves a row.
LEMMA SettleType ==
  ASSUME NEW r \in Row, NEW seen \in Row, NEW status \in Status, NEW n \in Nat
  PROVE  Settle(r, seen, status, n) \in Row
<1>1. Assign(seen.status, status, r.status) \in Status
  BY DEF Assign, Row
<1>2. Assign(seen.retry, n, r.retry) \in Nat
  BY DEF Assign, Row
<1> QED BY <1>1, <1>2 DEF Settle, Row

\* The three ways enrichment settles a row leave a row.
LEMMA RowTypes ==
  ASSUME NEW r \in Row, NEW seen \in Row
  PROVE  /\ CompletedRow(r, seen) \in Row
         /\ SkippedRow(r, seen) \in Row
         /\ FailedRow(r, seen) \in Row
<1>1. seen.retry + 1 \in Nat
  BY DEF Row
<1>2. Settle(r, seen, "completed", 0) \in Row
  BY SettleType DEF Status
<1>3. CompletedRow(r, seen) \in Row
  BY <1>2 DEF CompletedRow, Row
<1> QED BY <1>1, <1>3, SettleType DEF SkippedRow, FailedRow, Status

\* A committed write of a row keeps the table's type.
LEMMA WriteType ==
  ASSUME row \in [Items -> Row], age \in [Items -> 0..2],
         NEW i \in Items, NEW r \in Row, Write(i, r)
  PROVE  row' \in [Items -> Row] /\ age' \in [Items -> 0..2]
  BY DEF Write

\* Releasing locks leaves every lock free or held by somebody.
LEMMA ReleaseType ==
  ASSUME lock \in [Items -> Workers \cup {"free", "api", "sweep"}],
         NEW p, Release(p)
  PROVE  lock' \in [Items -> Workers \cup {"free", "api", "sweep"}]
  BY DEF Release

\* A worker that moves on is idle or has a task.
LEMMA BecomeType ==
  ASSUME wk \in [Workers -> Task \cup {Idle}], NEW w \in Workers,
         NEW t \in Task \cup {Idle}, Become(w, t)
  PROVE  wk' \in [Workers -> Task \cup {Idle}]
  BY DEF Become

\* A worker whose program counter is not "idle" has a task.
LEMMA Busy ==
  ASSUME wk \in [Workers -> Task \cup {Idle}], NEW w \in Workers,
         wk[w].pc # "idle"
  PROVE  wk[w] \in Task
  BY DEF Idle

\* The record that stands for no row yet has the shape of one.
LEMMA NoRowType == NoRow \in Row
  BY DEF NoRow, Row, Status, Life

\* A worker past its commit still has its task.
LEMMA DoneType ==
  ASSUME wk \in [Workers -> Task \cup {Idle}], NEW w \in Workers,
         wk[w] \in Task, NEW pc \in Stage, Done(w, pc)
  PROVE  wk' \in [Workers -> Task \cup {Idle}]
<1>1. [wk[w] EXCEPT !.pc = pc, !.seen = NoRow, !.chunk = FALSE] \in Task
  BY NoRowType DEF Task
<1> QED BY <1>1, BecomeType DEF Done

\* A worker that acknowledges its message is idle.
LEMMA AckType ==
  ASSUME wk \in [Workers -> Task \cup {Idle}], NEW w \in Workers, Ack(w)
  PROVE  wk' \in [Workers -> Task \cup {Idle}]
  BY BecomeType DEF Ack
-------------------------------------------------------------------------------
(* Type correctness needs to know that a run somebody is about to mark has a *)
(* row.                                                                      *)

\* A run that has a row.
Known(r) == r \in Runs /\ run[r].status # "absent"

\* Where a worker holds a run it did not start.
Finalizing == {"fetch", "open", "enrich", "mark", "verdict"}

\* Whoever is about to mark a run remembers one that has a row.
RunsKnown ==
  /\ \A w \in Workers : wk[w].pc = "handoff" => wk[w].run \in Runs
  /\ \A w \in Workers : wk[w].pc \in Finalizing => Known(wk[w].run)
  /\ rescue # Idle =>
       /\ \A r \in rescue.todo : Known(r)
       /\ \A r \in Runs : rescue.verdict[r] # "running" => Known(r)
       /\ rescue.pc = "enrich" => Known(rescue.run)

\* Marking a run that has a row leaves a row.
LEMMA MarkRunType ==
  ASSUME run \in [Runs -> RunRow \cup {NoRunRow}], NEW r, Known(r),
         NEW to \in RunStatus, MarkRun(r, to)
  PROVE  run' \in [Runs -> RunRow \cup {NoRunRow}]
  BY DEF Known, MarkRun, RunRow, NoRunRow

\* A known run has a row, and the row an item.
LEMMA RowOf ==
  ASSUME TypeOK, NEW r, Known(r)
  PROVE  run[r] \in RunRow /\ run[r].item \in Items
  BY DEF TypeOK, Known, RunRow, NoRunRow

\* Before anything is saved the types hold and no run is needed.
LEMMA InitType == Init => TypeOK /\ RunsKnown
<1> SUFFICES ASSUME Init PROVE TypeOK /\ RunsKnown
  OBVIOUS
<1>1. TypeOK
  BY ConstantsAssumption, NoRowType DEF Init, TypeOK, ProviderStatus
<1>2. RunsKnown
  BY DEF Init, RunsKnown, Idle, Finalizing
<1> QED BY <1>1, <1>2

\* A saved or re-queued row is a row.
LEMMA SavedRow ==
  ASSUME NEW r \in Row, NEW b \in BOOLEAN
  PROVE  [r EXCEPT !.status = "pending", !.body = b] \in Row
  BY DEF Row, Status

\* The requests.
LEMMA UserType ==
  ASSUME TypeOK, NEW i \in Items, Save(i) \/ ReprocessCheck(i)
  PROVE  TypeOK'
<1> USE DEF TypeOK, Queues
<1>1. CASE Save(i)
  <2>1. [row[i] EXCEPT !.status = "pending", !.body = (i \in Authored)] \in Row
    <3>1. (i \in Authored) \in BOOLEAN
      OBVIOUS
    <3> QED BY <3>1, SavedRow
  <2>2. row' \in [Items -> Row]
    BY <1>1, <2>1 DEF Save
  <2> QED BY <1>1, <2>2, EnqueueType DEF Save
<1>2. CASE ReprocessCheck(i)
  <2>1. budget' \in [Faults -> Nat]
    BY <1>2, SpendType DEF ReprocessCheck, Faults
  <2>2. api' \in Request
    BY <1>2 DEF ReprocessCheck, Request, Row
  <2> QED BY <1>2, <2>1, <2>2 DEF ReprocessCheck
<1> QED BY <1>1, <1>2

\* The reprocess request: its flush and its commit.
LEMMA RequestType ==
  ASSUME TypeOK, ReprocessFlush \/ ReprocessCommit PROVE TypeOK'
<1> USE DEF TypeOK, Queues
<1>1. CASE ReprocessFlush
  <2>1. api' \in Request
    BY <1>1 DEF ReprocessFlush, Request, Idle
  <2>2. queued' \in Queues /\ budget' \in [Faults -> Nat]
    BY <1>1, EnqueueType DEF ReprocessFlush
  <2>3. lock' \in [Items -> Workers \cup {"free", "api", "sweep"}]
    BY <1>1 DEF ReprocessFlush
  <2> QED BY <1>1, <2>1, <2>2, <2>3 DEF ReprocessFlush
<1>2. CASE ReprocessCommit
  <2> DEFINE j == api.item
             r == [row[j] EXCEPT !.status = "pending",
                                 !.retry = Assign(api.retry, 0, @),
                                 !.body = @ /\ j \notin Voice]
  <2>1. api \in Request
    BY <1>2 DEF ReprocessCommit
  <2>2. j \in Items /\ row[j] \in Row
    BY <2>1 DEF Request
  <2>3. r \in Row
    BY <2>2 DEF Row, Status, Assign
  <2>4. row' \in [Items -> Row] /\ age' \in [Items -> 0..2]
    BY <1>2, <2>2, <2>3, WriteType DEF ReprocessCommit
  <2>5. lock' \in [Items -> Workers \cup {"free", "api", "sweep"}]
    BY <1>2, ReleaseType DEF ReprocessCommit
  <2> QED BY <1>2, <2>4, <2>5 DEF ReprocessCommit
<1> QED BY <1>1, <1>2

\* Trash, restore and purge.
LEMMA BuryType ==
  ASSUME TypeOK, NEW i \in Items, NEW from \in Life, NEW to \in Life,
         Bury(i, from, to)
  PROVE  TypeOK'
<1>1. [row[i] EXCEPT !.life = to, !.body = @ /\ to # "purged"] \in Row
  BY DEF TypeOK, Row
<1>2. row' \in [Items -> Row] /\ age' \in [Items -> 0..2]
  BY <1>1, WriteType DEF Bury, TypeOK
<1>3. budget' \in [Faults -> Nat]
  BY SpendType DEF Bury, Faults, TypeOK
<1> QED BY <1>2, <1>3 DEF Bury, TypeOK

\* process_item.
LEMMA ReceiveProcessType ==
  ASSUME TypeOK, NEW w \in Workers, NEW i \in Items, NEW n \in 0..MaxRetries,
         ProcMissing(w, i, n) \/ ProcRead(w, i, n)
  PROVE  TypeOK'
<1>1. queued' \in Queues
  BY ProcessMsgType, LessType DEF ProcMissing, ProcRead, TypeOK, Queues
<1>2. [pc |-> "read", msg |-> ProcessMsg(i, n), item |-> i, run |-> None,
       seen |-> row[i], chunk |-> FALSE] \in Task
  BY ProcessMsgType DEF Task, Stage, TypeOK
<1>3. wk' \in [Workers -> Task \cup {Idle}]
  BY <1>2, BecomeType DEF ProcMissing, ProcRead, TypeOK
<1> QED BY <1>1, <1>3 DEF ProcMissing, ProcRead, TypeOK, Queues

\* The claim of a task: flushing `processing` under the row lock.
LEMMA ClaimType ==
  ASSUME TypeOK, NEW w \in Workers, ProcClaim(w)
  PROVE  TypeOK'
<1> DEFINE i == wk[w].item
           held == [wk[w] EXCEPT !.pc = "work", !.seen = row[i]]
           claimed == [wk[w] EXCEPT !.pc = "work",
                         !.seen = [row[i] EXCEPT !.status = "processing"]]
<1>1. wk[w] \in Task
  BY Busy DEF ProcClaim, TypeOK
<1>2. row[i] \in Row /\ i \in Items
  BY <1>1 DEF Task, TypeOK
<1>3. held \in Task
  BY <1>1, <1>2 DEF Task, Stage
<1>4. [row[i] EXCEPT !.status = "processing"] \in Row
  BY <1>2 DEF Row, Status
<1>5. claimed \in Task
  BY <1>1, <1>4 DEF Task, Stage
<1>6. wk' \in [Workers -> Task \cup {Idle}]
  BY <1>3, <1>5, BecomeType DEF ProcClaim, TypeOK
<1>7. lock' \in [Items -> Workers \cup {"free", "api", "sweep"}]
  BY DEF ProcClaim, TypeOK
<1> QED BY <1>6, <1>7 DEF ProcClaim, TypeOK

\* Starting a run with the provider.
LEMMA HandoffType ==
  ASSUME TypeOK, NEW w \in Workers, NEW r \in Runs, ProcHandoff(w, r)
  PROVE  TypeOK'
<1>1. wk[w] \in Task
  BY Busy DEF ProcHandoff, TypeOK
<1>2. [wk[w] EXCEPT !.pc = "handoff", !.run = r] \in Task
  BY <1>1 DEF Task, Stage
<1>3. wk' \in [Workers -> Task \cup {Idle}]
  BY <1>2, BecomeType DEF ProcHandoff, TypeOK
<1>4. provider' \in [Runs -> ProviderStatus]
  BY DEF ProcHandoff, TypeOK, ProviderStatus
<1> QED BY <1>3, <1>4 DEF ProcHandoff, TypeOK

\* Committing the hand-off, the run and the row together.
LEMMA HandoffCommitType ==
  ASSUME TypeOK, RunsKnown, NEW w \in Workers, ProcHandoffCommit(w)
  PROVE  TypeOK'
<1> DEFINE i == wk[w].item
<1>1. wk[w] \in Task /\ wk[w].run \in Runs
  BY Busy DEF ProcHandoffCommit, TypeOK, RunsKnown
<1>2. row[i] \in Row /\ i \in Items
  BY <1>1 DEF Task, TypeOK
<1>3. [row[i] EXCEPT !.status = "processing"] \in Row
  BY <1>2 DEF Row, Status
<1>4. row' \in [Items -> Row] /\ age' \in [Items -> 0..2]
  BY <1>2, <1>3, WriteType DEF ProcHandoffCommit, TypeOK
<1>5. [status |-> "running", item |-> i, stale |-> FALSE] \in RunRow
  BY <1>2 DEF RunRow, RunStatus
<1>6. run' \in [Runs -> RunRow \cup {NoRunRow}]
  BY <1>1, <1>5 DEF ProcHandoffCommit, TypeOK
<1>7. wk' \in [Workers -> Task \cup {Idle}]
  BY <1>1, DoneType DEF ProcHandoffCommit, TypeOK, Stage
<1>8. lock' \in [Items -> Workers \cup {"free", "api", "sweep"}]
  BY ReleaseType DEF ProcHandoffCommit, TypeOK
<1> QED BY <1>4, <1>6, <1>7, <1>8 DEF ProcHandoffCommit, TypeOK

\* The three outcomes of an inline process_item.
LEMMA OutcomeType ==
  ASSUME TypeOK, NEW w \in Workers,
         ProcComplete(w) \/ ProcSkip(w) \/ ProcFail(w)
  PROVE  TypeOK'
<1> DEFINE i == wk[w].item
<1>1. wk[w] \in Task
  BY Busy DEF ProcComplete, ProcSkip, ProcFail, TypeOK
<1>2. row[i] \in Row /\ i \in Items /\ wk[w].seen \in Row
  BY <1>1 DEF Task, TypeOK
<1>3. row' \in [Items -> Row] /\ age' \in [Items -> 0..2]
  BY <1>2, RowTypes, WriteType DEF ProcComplete, ProcSkip, ProcFail, TypeOK
<1>4. wk' \in [Workers -> Task \cup {Idle}]
  BY <1>1, DoneType DEF ProcComplete, ProcSkip, ProcFail, TypeOK, Stage
<1>5. lock' \in [Items -> Workers \cup {"free", "api", "sweep"}]
  BY ReleaseType DEF ProcComplete, ProcSkip, ProcFail, TypeOK
<1> QED BY <1>2, <1>3, <1>4, <1>5 DEF ProcComplete, ProcSkip, ProcFail, TypeOK

\* The tails of the tasks.
LEMMA NotifyType ==
  ASSUME told \subseteq Items, budget \in [Faults -> Nat], NEW i \in Items,
         Notify(i)
  PROVE  told' \subseteq Items /\ budget' \in [Faults -> Nat]
  BY SpendType DEF Notify, Heard, Faults

\* What follows a commit: the scan, the answer, the retry.
LEMMA TailType ==
  ASSUME TypeOK, NEW w \in Workers,
         After(w) \/ Answer(w) \/ Handed(w) \/ Raise(w)
  PROVE  TypeOK'
<1> DEFINE i == wk[w].item
<1>1. wk[w] \in Task
  BY Busy DEF After, Answer, Handed, Raise, TypeOK
<1>2. i \in Items
  BY <1>1 DEF Task
<1>3. wk' \in [Workers -> Task \cup {Idle}]
  BY AckType DEF After, Answer, Handed, Raise, TypeOK
<1>4. CASE After(w)
  <2>1. budget' \in [Faults -> Nat]
    BY <1>4, SpendType DEF After, TypeOK, Faults
  <2>2. told' \subseteq Items /\ scanned' \subseteq Items
    BY <1>2, <1>4 DEF After, Heard, Compared, TypeOK
  <2> QED BY <1>3, <1>4, <2>1, <2>2 DEF After, TypeOK
<1>5. CASE Answer(w)
  <2>1. told' \subseteq Items /\ budget' \in [Faults -> Nat]
    BY <1>2, <1>5, NotifyType DEF Answer, TypeOK
  <2> QED BY <1>3, <1>5, <2>1 DEF Answer, TypeOK
<1>6. CASE Handed(w)
  BY <1>3, <1>6 DEF Handed, TypeOK
<1>7. CASE Raise(w)
  <2>1. told' \subseteq Items /\ budget' \in [Faults -> Nat]
    BY <1>2, <1>7, NotifyType DEF Raise, TypeOK
  <2>2. queued' \in Queues
    BY <1>7, RetryType DEF Raise, TypeOK, Queues
  <2> QED BY <1>3, <1>7, <2>1, <2>2 DEF Raise, TypeOK, Queues
<1> QED BY <1>4, <1>5, <1>6, <1>7

\* finalize_run.
LEMMA ReceiveFinalizeType ==
  ASSUME TypeOK, NEW w \in Workers, NEW r \in Runs, NEW n \in 0..MaxRetries,
         FinIgnore(w, r, n) \/ FinRead(w, r, n)
  PROVE  TypeOK'
<1>1. queued' \in Queues
  BY FinalizeMsgType, LessType DEF FinIgnore, FinRead, TypeOK, Queues
<1>2. CASE FinIgnore(w, r, n)
  BY <1>1, <1>2 DEF FinIgnore, TypeOK, Queues
<1>3. CASE FinRead(w, r, n)
  <2>1. run[r].item \in Items
    BY <1>3, RowOf DEF FinRead, Known
  <2>2. [pc |-> "fetch", msg |-> FinalizeMsg(r, n), item |-> run[r].item,
         run |-> r, seen |-> row[run[r].item], chunk |-> FALSE] \in Task
    BY <2>1, FinalizeMsgType DEF Task, Stage, TypeOK
  <2>3. wk' \in [Workers -> Task \cup {Idle}]
    BY <1>3, <2>2, BecomeType DEF FinRead, TypeOK
  <2> QED BY <1>1, <1>3, <2>3 DEF FinRead, TypeOK, Queues
<1> QED BY <1>2, <1>3

\* finalize_run asks the provider about its run.
LEMMA FetchType ==
  ASSUME TypeOK, NEW w \in Workers, FinFetch(w)
  PROVE  TypeOK'
<1> DEFINE i == wk[w].item
           to == IF provider[wk[w].run] # "SUCCEEDED" THEN "verdict"
                 ELSE IF Visible(i) THEN "open" ELSE "raise"
<1>1. wk[w] \in Task
  BY Busy DEF FinFetch, TypeOK
<1>2. row[i] \in Row
  BY <1>1 DEF Task, TypeOK
<1>3. [wk[w] EXCEPT !.pc = to, !.seen = row[i]] \in Task
  BY <1>1, <1>2 DEF Task, Stage
<1>4. wk' \in [Workers -> Task \cup {Idle}]
  BY <1>1, <1>3, BecomeType, DoneType DEF FinFetch, TypeOK, Stage
<1>5. budget' \in [Faults -> Nat]
  BY SpendType DEF FinFetch, TypeOK, Faults
<1> QED BY <1>4, <1>5 DEF FinFetch, TypeOK

\* finalize_run opens the item.
LEMMA OpenType ==
  ASSUME TypeOK, NEW w \in Workers, FinOpen(w)
  PROVE  TypeOK'
<1> DEFINE i == wk[w].item
           to == IF Visible(i) /\ row[i].status # "completed" THEN "enrich" ELSE "mark"
<1>1. wk[w] \in Task
  BY Busy DEF FinOpen, TypeOK
<1>2. row[i] \in Row
  BY <1>1 DEF Task, TypeOK
<1>3. (i \in indexed) \in BOOLEAN /\ to \in Stage
  BY DEF Stage
<1>4. ASSUME NEW b \in BOOLEAN, NEW pc \in Stage
      PROVE  [wk[w] EXCEPT !.pc = pc, !.seen = row[i], !.chunk = b] \in Task
  BY <1>1, <1>2 DEF Task
<1>5. [wk[w] EXCEPT !.pc = to, !.seen = row[i], !.chunk = (i \in indexed)] \in Task
  BY <1>3, <1>4
<1>6. wk' \in [Workers -> Task \cup {Idle}]
  BY <1>5, BecomeType DEF FinOpen, TypeOK
<1> QED BY <1>6 DEF FinOpen, TypeOK

\* finalize_run ends.
LEMMA FinishType ==
  ASSUME TypeOK, RunsKnown, NEW w \in Workers,
         FinComplete(w) \/ FinClash(w) \/ FinFail(w) \/ FinMark(w) \/ FinVerdict(w)
  PROVE  TypeOK'
<1> DEFINE i == wk[w].item
<1> USE DEF FinComplete, FinClash, FinFail, FinMark, FinVerdict
<1>1. wk[w] \in Task /\ Known(wk[w].run)
  BY Busy DEF TypeOK, RunsKnown, Finalizing
<1>2. row[i] \in Row /\ i \in Items /\ wk[w].seen \in Row
  BY <1>1 DEF Task, TypeOK
<1>3. row' \in [Items -> Row] /\ age' \in [Items -> 0..2]
  BY <1>2, RowTypes, WriteType DEF TypeOK
<1>4. wk' \in [Workers -> Task \cup {Idle}]
  BY <1>1, DoneType DEF TypeOK, Stage
<1>5. run' \in [Runs -> RunRow \cup {NoRunRow}]
  BY <1>1, MarkRunType DEF TypeOK, RunStatus
<1>6. indexed' \subseteq Items
  BY <1>2 DEF TypeOK
<1> QED BY <1>3, <1>4, <1>5, <1>6 DEF TypeOK

\* Workers, requests and ticks lost on the way.
LEMMA LostType ==
  ASSUME TypeOK, RunsKnown, NEW w \in Workers,
         Crash(w) \/ SoftTimeLimit(w) \/ SoftTimeLimitInFinalize(w)
  PROVE  TypeOK'
<1>1. budget' \in [Faults -> Nat]
  BY SpendType DEF Crash, SoftTimeLimit, SoftTimeLimitInFinalize, Faults, TypeOK
<1>2. CASE Crash(w)
  <2>1. queued' \in Queues
    BY <1>2, MoreType DEF Crash, TypeOK, Queues
  <2>2. wk' \in [Workers -> Task \cup {Idle}]
    BY <1>2, AckType DEF Crash, TypeOK
  <2>3. lock' \in [Items -> Workers \cup {"free", "api", "sweep"}]
    BY <1>2, ReleaseType DEF Crash, TypeOK
  <2> QED BY <1>1, <1>2, <2>1, <2>2, <2>3 DEF Crash, TypeOK, Queues
<1>3. CASE SoftTimeLimit(w)
  <2>1. wk[w] \in Task
    BY <1>3 DEF SoftTimeLimit, TypeOK
  <2>2. wk' \in [Workers -> Task \cup {Idle}]
    BY <1>3, <2>1, DoneType DEF SoftTimeLimit, TypeOK, Stage
  <2>3. lock' \in [Items -> Workers \cup {"free", "api", "sweep"}]
    BY <1>3, ReleaseType DEF SoftTimeLimit, TypeOK
  <2> QED BY <1>1, <1>3, <2>2, <2>3 DEF SoftTimeLimit, TypeOK
<1>4. CASE SoftTimeLimitInFinalize(w)
  <2> DEFINE i == wk[w].item
  <2>1. wk[w] \in Task /\ Known(wk[w].run)
    BY <1>4, Busy DEF SoftTimeLimitInFinalize, TypeOK, RunsKnown, Finalizing
  <2>2. i \in Items /\ [row[i] EXCEPT !.body = TRUE] \in Row
    BY <2>1 DEF Task, TypeOK, Row
  <2>3. row' \in [Items -> Row] /\ age' \in [Items -> 0..2]
    BY <1>4, <2>2, WriteType DEF SoftTimeLimitInFinalize, TypeOK
  <2>4. wk' \in [Workers -> Task \cup {Idle}]
    BY <1>4, <2>1, DoneType DEF SoftTimeLimitInFinalize, TypeOK, Stage
  <2>5. run' \in [Runs -> RunRow \cup {NoRunRow}]
    BY <1>4, <2>1, MarkRunType DEF SoftTimeLimitInFinalize, TypeOK, RunStatus
  <2> QED BY <1>1, <1>4, <2>3, <2>4, <2>5 DEF SoftTimeLimitInFinalize, TypeOK
<1> QED BY <1>2, <1>3, <1>4

\* A request or a tick whose process died.
LEMMA AbandonedType ==
  ASSUME TypeOK, RequestLost \/ SweepLost PROVE TypeOK'
<1>1. budget' \in [Faults -> Nat]
  BY SpendType DEF RequestLost, SweepLost, Faults, TypeOK
<1>2. lock' \in [Items -> Workers \cup {"free", "api", "sweep"}]
  BY ReleaseType DEF RequestLost, SweepLost, TypeOK
<1> QED BY <1>1, <1>2 DEF RequestLost, SweepLost, TypeOK

\* The two sweeps.
LEMMA SweepType ==
  ASSUME TypeOK, SweepList \/ SweepCommit
  PROVE  TypeOK'
<1>1. CASE SweepList
  <2>1. Stranded("pending") \subseteq Items /\ Stranded("processing") \subseteq Items
    BY DEF Stranded
  <2>2. \A i \in Items : row[i].retry \in Nat
    BY DEF TypeOK, Row
  <2>3. sweep' \in Tick
    BY <1>1, <2>1, <2>2 DEF SweepList, Tick
  <2>4. \A m \in Message : More(queued, m) \in Queues /\ queued[m] \in 0..MaxCopies
    BY MoreType DEF TypeOK, Queues
  <2>5. queued' \in Queues
    BY <1>1, <2>4 DEF SweepList, TypeOK, Queues
  <2>6. budget' \in [Faults -> Nat]
    BY <1>1, SpendType DEF SweepList, TypeOK, Faults
  <2> QED BY <1>1, <2>3, <2>5, <2>6 DEF SweepList, TypeOK, Queues
<1>2. CASE SweepCommit
  <2>1. sweep \in Tick
    BY <1>2 DEF SweepCommit, TypeOK
  <2>2. ASSUME NEW i \in Items PROVE SweptRow(i) \in Row
    <3>1. row[i] \in Row /\ sweep.retry[i] + 1 \in Nat
      BY <2>1 DEF TypeOK, Tick
    <3>2. /\ [row[i] EXCEPT !.status = "failed", !.retry = sweep.retry[i] + 1] \in Row
          /\ [row[i] EXCEPT !.status = "failed"] \in Row
          /\ [row[i] EXCEPT !.retry = sweep.retry[i] + 1] \in Row
      BY <3>1 DEF Row, Status
    <3> QED BY <3>2 DEF SweptRow
  <2>3. row' \in [Items -> Row] /\ age' \in [Items -> 0..2]
    BY <1>2, <2>2 DEF SweepCommit, TypeOK
  <2> QED BY <1>2, <2>3 DEF SweepCommit, TypeOK
<1> QED BY <1>1, <1>2

\* The provider and its webhook.
LEMMA ProviderType ==
  ASSUME TypeOK, NEW r \in Runs, ProviderEnds(r) \/ WebhookAgain(r) \/ RunAges(r)
  PROVE  TypeOK'
<1>1. CASE ProviderEnds(r) \/ WebhookAgain(r)
  <2>1. queued' \in Queues
    BY <1>1, MoreType DEF ProviderEnds, WebhookAgain, TypeOK, Queues
  <2>2. budget' \in [Faults -> Nat]
    BY <1>1, SpendType DEF ProviderEnds, WebhookAgain, TypeOK, Faults
  <2>3. provider' \in [Runs -> ProviderStatus]
    BY <1>1 DEF ProviderEnds, WebhookAgain, TypeOK, ProviderStatus
  <2> QED BY <1>1, <2>1, <2>2, <2>3 DEF ProviderEnds, WebhookAgain, TypeOK, Queues
<1>2. CASE RunAges(r)
  <2>1. run[r] \in RunRow
    BY <1>2, RowOf DEF RunAges, Known
  <2>2. run' \in [Runs -> RunRow \cup {NoRunRow}]
    BY <1>2, <2>1 DEF RunAges, TypeOK, RunRow
  <2> QED BY <1>2, <2>2 DEF RunAges, TypeOK
<1> QED BY <1>1, <1>2

\* The clock.
LEMMA AgesType ==
  ASSUME TypeOK, NEW i \in Items, Ages(i) PROVE TypeOK'
  BY DEF Ages, TypeOK

\* The rescue tick's own steps.
LEMMA RescueType ==
  ASSUME TypeOK, RunsKnown,
         RescueList \/ RescueFinish \/ RescueAbort \/ RescueCommit
  PROVE  TypeOK'
<1>1. CASE RescueList
  <2>1. rescue' \in Rescue
    BY <1>1, NoRowType DEF RescueList, Rescue, Stale, RunStatus
  <2> QED BY <1>1, <2>1 DEF RescueList, TypeOK
<1>2. CASE RescueFinish
  <2> DEFINE i == run[rescue.run].item
             now == RescueSees(i)
  <2>1. rescue \in Rescue /\ rescue.seen \in Row
    BY <1>2 DEF RescueFinish, TypeOK, Rescue
  <2>2. i \in Items
    BY <1>2, RowOf DEF RescueFinish, RunsKnown
  <2>3. now \in Row
    BY <2>1, <2>2 DEF RescueSees, TypeOK, Rescue
  <2>4. PICK new \in Row : Flush(rescue.run, "succeeded", i, new)
    BY <1>2, <2>1, <2>3, RowTypes DEF RescueFinish
  <2>5. rescue' \in Rescue /\ lock' \in [Items -> Workers \cup {"free", "api", "sweep"}]
    BY ZenonT(40), <2>1, <2>2, <2>4, NoRowType DEF Flush, Rescue, RunStatus, TypeOK
  <2> QED BY <1>2, <2>5 DEF RescueFinish, TypeOK
<1>3. CASE RescueAbort
  <2>1. budget' \in [Faults -> Nat]
    BY <1>3, SpendType DEF RescueAbort, Faults, TypeOK
  <2>2. lock' \in [Items -> Workers \cup {"free", "api", "sweep"}]
    BY <1>3, ReleaseType DEF RescueAbort, TypeOK
  <2> QED BY <1>3, <2>1, <2>2 DEF RescueAbort, TypeOK
<1>4. CASE RescueCommit
  <2>1. rescue \in Rescue
    BY <1>4 DEF RescueCommit, TypeOK
  <2>2. row' \in [Items -> Row] /\ age' \in [Items -> 0..2]
    BY <1>4, <2>1 DEF RescueCommit, RescueSees, Rescue, TypeOK
  <2>3. ASSUME NEW r \in Runs, rescue.verdict[r] # "running"
        PROVE  [run[r] EXCEPT !.status = rescue.verdict[r]] \in RunRow
    <3>1. run[r] \in RunRow
      BY <1>4, <2>3, RowOf DEF RescueCommit, RunsKnown
    <3>2. rescue.verdict[r] \in RunStatus
      BY <2>1 DEF Rescue
    <3> QED BY <3>1, <3>2 DEF RunRow
  <2>4. run' \in [Runs -> RunRow \cup {NoRunRow}]
    BY <1>4, <2>3 DEF RescueCommit, TypeOK
  <2>5. lock' \in [Items -> Workers \cup {"free", "api", "sweep"}]
    BY <1>4, ReleaseType DEF RescueCommit, TypeOK
  <2>6. indexed' \subseteq Items
    BY <1>4, <2>1 DEF RescueCommit, Rescue, TypeOK
  <2> QED BY <1>4, <2>2, <2>4, <2>5, <2>6 DEF RescueCommit, TypeOK
<1> QED BY <1>1, <1>2, <1>3, <1>4

\* The rescue tick's steps about one run.
LEMMA RescueRunType ==
  ASSUME TypeOK, RunsKnown, NEW r \in Runs,
         RescueSkip(r) \/ RescueOpen(r) \/ RescueTimeout(r)
  PROVE  TypeOK'
<1>1. rescue \in Rescue /\ Known(r)
  BY DEF RescueSkip, RescueOpen, RescueTimeout, Scanning, TypeOK, RunsKnown
<1>2. run[r].item \in Items
  BY <1>1, RowOf
<1>3. RescueSees(run[r].item) \in Row
  BY <1>1, <1>2 DEF RescueSees, Rescue, TypeOK
<1>4. CASE RescueSkip(r)
  <2>1. rescue' \in Rescue
    BY <1>1, <1>4 DEF RescueSkip, Rescue
  <2>2. budget' \in [Faults -> Nat]
    BY <1>4, SpendType DEF RescueSkip, Faults, TypeOK
  <2> QED BY <1>4, <2>1, <2>2 DEF RescueSkip, TypeOK
<1>5. ASSUME NEW to \in RunStatus, Keep(r, to)
      PROVE  rescue' \in Rescue /\ lock' = lock
  BY <1>1, <1>5, NoRowType DEF Keep, Rescue
<1>6. CASE RescueOpen(r)
  <2> DEFINE seen == RescueSees(run[r].item)
  <2>1. CASE seen.status = "completed"
    BY <1>5, <1>6, <2>1 DEF RescueOpen, TypeOK, RunStatus
  <2>2. CASE seen.status # "completed"
    <3>1. (run[r].item \in indexed) \in BOOLEAN
      OBVIOUS
    <3>2. ASSUME NEW b \in BOOLEAN
          PROVE  [rescue EXCEPT !.pc = "enrich", !.run = r, !.seen = seen,
                                !.chunk = b] \in Rescue
      BY <1>1, <1>3 DEF Rescue
    <3>3. [rescue EXCEPT !.pc = "enrich", !.run = r, !.seen = seen,
             !.chunk = (run[r].item \in indexed)] \in Rescue
      BY <3>1, <3>2
    <3>4. rescue' \in Rescue /\ lock' = lock
      BY <1>6, <2>2, <3>3 DEF RescueOpen
    <3> QED BY <1>6, <3>4 DEF RescueOpen, TypeOK
  <2> QED BY <2>1, <2>2
<1>7. CASE RescueTimeout(r)
  <2> DEFINE i == run[r].item
             seen == RescueSees(i)
  <2>1. CASE Keep(r, "timed_out")
    BY <1>5, <1>7, <2>1 DEF RescueTimeout, TypeOK, RunStatus
  <2>2. CASE Flush(r, "timed_out", i, FailedRow(seen, seen))
    <3>1. FailedRow(seen, seen) \in Row
      BY <1>3, RowTypes
    <3>2. rescue' \in Rescue /\ lock' \in [Items -> Workers \cup {"free", "api", "sweep"}]
      BY ZenonT(40), <1>1, <1>2, <2>2, <3>1, NoRowType DEF Flush, Rescue, RunStatus, TypeOK
    <3> QED BY <1>7, <3>2 DEF RescueTimeout, TypeOK
  <2> QED BY <1>7, <2>1, <2>2 DEF RescueTimeout
<1> QED BY <1>4, <1>6, <1>7

\* No step breaks the types.
LEMMA TypeStep == TypeOK /\ RunsKnown /\ [Next]_vars => TypeOK'
<1> SUFFICES ASSUME TypeOK, RunsKnown, [Next]_vars PROVE TypeOK'
  OBVIOUS
<1>1. CASE UserStep
  BY <1>1, UserType, BuryType DEF UserStep, Trash, Restore, Purge, Life
<1>2. CASE RequestStep
  BY <1>2, RequestType DEF RequestStep
<1>3. ASSUME NEW w \in Workers, WorkerStep(w) PROVE TypeOK'
  <2>1. CASE Receive(w)
    BY <2>1, ReceiveProcessType, ReceiveFinalizeType DEF Receive
  <2>2. CASE Process(w)
    BY <2>2, ClaimType, HandoffType, HandoffCommitType, TailType, OutcomeType
    DEF Process
  <2>3. CASE Finalize(w)
    BY <2>3, FetchType, OpenType, FinishType DEF Finalize
  <2> QED BY <1>3, <2>1, <2>2, <2>3, TailType DEF WorkerStep
<1>4. ASSUME NEW w \in Workers,
             Crash(w) \/ SoftTimeLimit(w) \/ SoftTimeLimitInFinalize(w)
      PROVE  TypeOK'
  BY <1>4, LostType
<1>5. CASE SweepStep
  BY <1>5, SweepType DEF SweepStep
<1>6. CASE RescueStep
  BY <1>6, RescueType, RescueRunType DEF RescueStep
<1>7. CASE RequestLost \/ SweepLost
  BY <1>7, AbandonedType
<1>8. ASSUME NEW r \in Runs, ProviderEnds(r) \/ WebhookAgain(r) \/ RunAges(r)
      PROVE  TypeOK'
  BY <1>8, ProviderType
<1>9. ASSUME NEW i \in Items, Ages(i) PROVE TypeOK'
  BY <1>9, AgesType
<1>10. CASE UNCHANGED vars
  BY <1>10 DEF vars, TypeOK
<1> QED BY <1>1, <1>2, <1>3, <1>4, <1>5, <1>6, <1>7, <1>8, <1>9, <1>10 DEF Next
-------------------------------------------------------------------------------
(* A run that has a row keeps it.                                           *)

\* The commits of a worker that may write a run.
Committing(w) ==
  \/ ProcHandoffCommit(w) \/ SoftTimeLimitInFinalize(w)
  \/ FinComplete(w) \/ FinFail(w) \/ FinMark(w) \/ FinVerdict(w)

\* The steps that write a run, or leave all of them alone.
LEMMA RunWriters ==
  ASSUME [Next]_vars
  PROVE  \/ UNCHANGED run
         \/ \E w \in Workers : Committing(w)
         \/ \E r \in Runs : RunAges(r)
         \/ RescueCommit
<1>1. CASE UserStep \/ RequestStep \/ SweepStep \/ RequestLost \/ SweepLost
  BY <1>1 DEF UserStep, Save, ReprocessCheck, Trash, Restore, Purge, Bury,
              RequestStep, ReprocessFlush, ReprocessCommit, SweepStep, SweepList,
              SweepCommit, RequestLost, SweepLost
<1>2. ASSUME NEW w \in Workers, WorkerStep(w)
      PROVE  UNCHANGED run \/ Committing(w)
  <2>1. CASE Receive(w)
    BY <2>1 DEF Receive, ProcMissing, ProcRead, FinIgnore, FinRead
  <2>2. CASE Process(w)
    BY <2>2 DEF Process, ProcClaim, ProcHandoff, Handed, ProcComplete, ProcSkip,
                ProcFail, Committing
  <2>3. CASE Finalize(w)
    BY <2>3 DEF Finalize, FinFetch, FinOpen, FinClash, Committing
  <2>4. CASE After(w) \/ Answer(w) \/ Raise(w)
    BY <2>4 DEF After, Answer, Raise
  <2> QED BY <1>2, <2>1, <2>2, <2>3, <2>4 DEF WorkerStep
<1>3. ASSUME NEW w \in Workers,
             Crash(w) \/ SoftTimeLimit(w) \/ SoftTimeLimitInFinalize(w)
      PROVE  UNCHANGED run \/ Committing(w)
  BY <1>3 DEF Crash, SoftTimeLimit, Committing
<1>4. CASE RescueStep
  BY <1>4 DEF RescueStep, RescueList, RescueFinish, RescueAbort, RescueSkip,
              RescueOpen, RescueTimeout
<1>5. ASSUME NEW r \in Runs, ProviderEnds(r) \/ WebhookAgain(r)
      PROVE  UNCHANGED run
  BY <1>5 DEF ProviderEnds, WebhookAgain
<1>6. ASSUME NEW i \in Items, Ages(i) PROVE UNCHANGED run
  BY <1>6 DEF Ages
<1>7. CASE UNCHANGED vars
  BY <1>7 DEF vars
<1> QED BY <1>1, <1>2, <1>3, <1>4, <1>5, <1>6, <1>7 DEF Next

\* A run that has a row keeps one.
LEMMA KnownStays ==
  ASSUME TypeOK, RunsKnown, [Next]_vars, NEW r, Known(r)
  PROVE  Known(r)'
<1>1. run[r] \in RunRow
  BY RowOf
<1>2. CASE UNCHANGED run
  BY <1>2 DEF Known
<1>3. ASSUME NEW w \in Workers, Committing(w) PROVE Known(r)'
  <2>1. CASE ProcHandoffCommit(w)
    BY <1>1, <2>1 DEF ProcHandoffCommit, Known, TypeOK
  <2>2. ASSUME NEW q, NEW to \in RunStatus, MarkRun(q, to)
        PROVE  Known(r)'
    BY <1>1, <2>2 DEF MarkRun, Known, TypeOK, RunRow, RunStatus
  <2>3. CASE ~ProcHandoffCommit(w)
    <3>1. MarkRun(wk[w].run, "succeeded") \/ MarkRun(wk[w].run, "failed")
      BY <1>3, <2>3 DEF Committing, SoftTimeLimitInFinalize, FinComplete, FinFail,
                        FinMark, FinVerdict
    <3> QED BY <2>2, <3>1 DEF RunStatus
  <2> QED BY <2>1, <2>3
<1>4. ASSUME NEW q \in Runs, RunAges(q) PROVE Known(r)'
  BY <1>1, <1>4 DEF RunAges, Known, TypeOK, RunRow
<1>5. CASE RescueCommit
  <2>1. rescue \in Rescue
    BY <1>5 DEF RescueCommit, TypeOK
  <2>2. rescue.verdict[r] \in RunStatus
    BY <2>1 DEF Rescue, Known
  <2>3. run'[r].status \in RunStatus
    BY <1>1, <1>5, <2>2 DEF RescueCommit, Known, RunRow
  <2> QED BY <2>3 DEF Known, RunStatus
<1> QED BY <1>2, <1>3, <1>4, <1>5, RunWriters

\* What a step can make of a worker: leave it alone, or move it to a stage where
\* it has a run only if it had one, or has just read one.
LEMMA WorkerMoves ==
  ASSUME TypeOK, [Next]_vars, NEW w \in Workers, wk'[w] # wk[w]
  PROVE  \/ wk'[w].pc \notin Finalizing \cup {"handoff"}
         \/ \E r \in Runs : ProcHandoff(w, r)
         \/ \E r \in Runs, n \in 0..MaxRetries : FinRead(w, r, n)
         \/ FinFetch(w) \/ FinOpen(w)
<1>1. CASE UserStep \/ RequestStep \/ SweepStep \/ RequestLost \/ SweepLost
  BY <1>1 DEF UserStep, Save, ReprocessCheck, Trash, Restore, Purge, Bury,
              RequestStep, ReprocessFlush, ReprocessCommit, SweepStep, SweepList,
              SweepCommit, RequestLost, SweepLost
<1>2. CASE RescueStep
  BY <1>2 DEF RescueStep, RescueList, RescueFinish, RescueAbort, RescueSkip,
              RescueOpen, RescueTimeout, RescueCommit
<1>3. CASE \E r \in Runs : ProviderEnds(r) \/ WebhookAgain(r) \/ RunAges(r)
  BY <1>3 DEF ProviderEnds, WebhookAgain, RunAges
<1>4. CASE \E i \in Items : Ages(i)
  BY <1>4 DEF Ages
<1>5. ASSUME NEW v \in Workers, NEW t, Become(v, t)
      PROVE  v = w /\ wk'[w] = t
  BY <1>5 DEF Become, TypeOK
<1>6. ASSUME NEW v \in Workers, Ack(v)
      PROVE  wk'[w].pc = "idle"
  BY <1>5, <1>6 DEF Ack, Idle
<1>7. ASSUME NEW v \in Workers, NEW pc \in Stage, wk[v] \in Task, Done(v, pc)
      PROVE  v = w /\ wk'[w].pc = pc
  <2> DEFINE t == [wk[v] EXCEPT !.pc = pc, !.seen = NoRow, !.chunk = FALSE]
  <2>1. v = w /\ wk'[w] = t
    BY <1>5, <1>7 DEF Done
  <2>2. t.pc = pc
    BY <1>7 DEF Task
  <2> QED BY <2>1, <2>2
<1>8. ASSUME NEW v \in Workers, WorkerStep(v)
      PROVE  \/ wk'[w].pc \notin Finalizing \cup {"handoff"}
             \/ \E r \in Runs : ProcHandoff(w, r)
             \/ \E r \in Runs, n \in 0..MaxRetries : FinRead(w, r, n)
             \/ FinFetch(w) \/ FinOpen(w)
  <2> USE DEF Finalizing
  <2>1. CASE Receive(v)
    <3>1. PICK n \in 0..MaxRetries :
            \/ \E i \in Items : ProcMissing(v, i, n) \/ ProcRead(v, i, n)
            \/ \E r \in Runs : FinIgnore(v, r, n) \/ FinRead(v, r, n)
      BY <2>1 DEF Receive
    <3>2. ASSUME NEW i \in Items, ProcMissing(v, i, n) \/ ProcRead(v, i, n)
          PROVE  wk'[w].pc = "read"
      BY <1>5, <3>2 DEF ProcMissing, ProcRead
    <3>3. ASSUME NEW r \in Runs, FinIgnore(v, r, n) \/ FinRead(v, r, n)
          PROVE  FinRead(w, r, n)
      BY <1>5, <3>3 DEF FinIgnore, FinRead
    <3> QED BY <3>1, <3>2, <3>3
  <2>2. CASE ProcClaim(v)
    <3>1. wk[v] \in Task
      BY <2>2, Busy DEF ProcClaim, TypeOK
    <3>2. PICK x : Become(v, [wk[v] EXCEPT !.pc = "work", !.seen = x])
      BY <2>2 DEF ProcClaim
    <3>3. wk'[w] = [wk[v] EXCEPT !.pc = "work", !.seen = x]
      BY <1>5, <3>2
    <3>4. wk'[w].pc = "work"
      BY <3>1, <3>3 DEF Task
    <3> QED BY <3>4
  <2>3. CASE \E r \in Runs : ProcHandoff(v, r)
    BY <1>5, <2>3 DEF ProcHandoff
  <2>4. CASE FinFetch(v)
    BY <1>5, <1>7, <2>4, Busy DEF FinFetch, TypeOK, Stage
  <2>5. CASE FinOpen(v)
    BY <1>5, <2>5 DEF FinOpen
  <2>6. CASE \/ ProcHandoffCommit(v) \/ ProcComplete(v) \/ ProcSkip(v) \/ ProcFail(v)
             \/ FinComplete(v) \/ FinClash(v) \/ FinFail(v) \/ FinMark(v) \/ FinVerdict(v)
    <3>1. wk[v] \in Task
      BY <2>6, Busy DEF ProcHandoffCommit, ProcComplete, ProcSkip, ProcFail,
           FinComplete, FinClash, FinFail, FinMark, FinVerdict, TypeOK
    <3>2. \E pc \in {"handed", "after", "raise", "answer"} : Done(v, pc)
      BY <2>6 DEF ProcHandoffCommit, ProcComplete, ProcSkip, ProcFail,
           FinComplete, FinClash, FinFail, FinMark, FinVerdict
    <3> QED BY <1>7, <3>1, <3>2 DEF Stage
  <2>7. CASE Handed(v) \/ After(v) \/ Answer(v) \/ Raise(v)
    BY <1>6, <2>7 DEF Handed, After, Answer, Raise
  <2> QED BY <1>8, <2>1, <2>2, <2>3, <2>4, <2>5, <2>6, <2>7
      DEF WorkerStep, Process, Finalize
<1>9. ASSUME NEW v \in Workers,
             Crash(v) \/ SoftTimeLimit(v) \/ SoftTimeLimitInFinalize(v)
      PROVE  wk'[w].pc \notin Finalizing \cup {"handoff"}
  <2>1. CASE Crash(v)
    BY <1>6, <2>1 DEF Crash, Finalizing
  <2>2. CASE SoftTimeLimit(v) \/ SoftTimeLimitInFinalize(v)
    <3>1. wk[v] \in Task /\ Done(v, "raise")
      BY <2>2, Busy DEF SoftTimeLimit, SoftTimeLimitInFinalize, TypeOK
    <3> QED BY <1>7, <3>1 DEF Stage, Finalizing
  <2> QED BY <1>9, <2>1, <2>2
<1>10. CASE UNCHANGED vars
  BY <1>10 DEF vars
<1> QED BY <1>1, <1>2, <1>3, <1>4, <1>8, <1>9, <1>10 DEF Next

\* Only its own steps move a rescue tick.
LEMMA RescueMoves ==
  ASSUME [Next]_vars PROVE rescue' = rescue \/ RescueStep
<1>1. CASE UserStep \/ RequestStep \/ SweepStep \/ RequestLost \/ SweepLost
  BY <1>1 DEF UserStep, Save, ReprocessCheck, Trash, Restore, Purge, Bury,
              RequestStep, ReprocessFlush, ReprocessCommit, SweepStep, SweepList,
              SweepCommit, RequestLost, SweepLost
<1>2. ASSUME NEW w \in Workers, WorkerStep(w) PROVE rescue' = rescue
  <2>1. CASE Receive(w)
    BY <2>1 DEF Receive, ProcMissing, ProcRead, FinIgnore, FinRead
  <2>2. CASE Process(w)
    BY <2>2 DEF Process, ProcClaim, ProcHandoff, Handed, ProcComplete, ProcSkip,
                ProcFail, ProcHandoffCommit
  <2>3. CASE Finalize(w)
    BY <2>3 DEF Finalize, FinFetch, FinOpen, FinClash, FinComplete, FinFail,
                FinMark, FinVerdict
  <2>4. CASE After(w) \/ Answer(w) \/ Raise(w)
    BY <2>4 DEF After, Answer, Raise
  <2> QED BY <1>2, <2>1, <2>2, <2>3, <2>4 DEF WorkerStep
<1>3. ASSUME NEW w \in Workers,
             Crash(w) \/ SoftTimeLimit(w) \/ SoftTimeLimitInFinalize(w)
      PROVE  rescue' = rescue
  BY <1>3 DEF Crash, SoftTimeLimit, SoftTimeLimitInFinalize
<1>4. ASSUME NEW r \in Runs, ProviderEnds(r) \/ WebhookAgain(r) \/ RunAges(r)
      PROVE  rescue' = rescue
  BY <1>4 DEF ProviderEnds, WebhookAgain, RunAges
<1>5. ASSUME NEW i \in Items, Ages(i) PROVE rescue' = rescue
  BY <1>5 DEF Ages
<1>6. CASE UNCHANGED vars
  BY <1>6 DEF vars
<1> QED BY <1>1, <1>2, <1>3, <1>4, <1>5, <1>6 DEF Next

\* The part of RunsKnown that is about the rescue tick.
RescueKnows ==
  rescue # Idle =>
    /\ \A r \in rescue.todo : Known(r)
    /\ \A r \in Runs : rescue.verdict[r] # "running" => Known(r)
    /\ rescue.pc = "enrich" => Known(rescue.run)

\* The rescue tick only ever handles runs that have a row.
LEMMA RescueKnowsStep ==
  ASSUME TypeOK, RunsKnown, [Next]_vars PROVE RescueKnows'
<1>1. RescueKnows
  BY DEF RunsKnown, RescueKnows
<1>2. ASSUME NEW r, Known(r) PROVE Known(r)'
  BY <1>2, KnownStays
<1>3. CASE rescue' = rescue
  BY <1>1, <1>2, <1>3 DEF RescueKnows
<1>4. CASE RescueList
  BY <1>2, <1>4 DEF RescueList, RescueKnows, Stale, Known
<1>5. CASE RescueAbort \/ RescueCommit
  BY <1>5 DEF RescueAbort, RescueCommit, RescueKnows
<1>6. ASSUME rescue # Idle, NEW r, Known(r), NEW to \in RunStatus,
             Keep(r, to) \/ \E i \in Items, new \in Row : Flush(r, to, i, new)
      PROVE  RescueKnows'
  <2>1. rescue \in Rescue
    BY <1>6 DEF TypeOK
  <2>2. /\ rescue'.pc = "scan" /\ rescue'.todo \subseteq rescue.todo
        /\ \A q \in Runs : rescue'.verdict[q] = IF q = r THEN to ELSE rescue.verdict[q]
    <3>1. CASE Keep(r, to)
      BY <2>1, <3>1 DEF Keep, Rescue
    <3>2. CASE \E i \in Items, new \in Row : Flush(r, to, i, new)
      BY <2>1, <3>2 DEF Flush, Rescue
    <3> QED BY <1>6, <3>1, <3>2
  <2> QED BY <1>1, <1>2, <1>6, <2>2 DEF RescueKnows
<1>7. CASE RescueFinish
  <2>1. rescue # Idle /\ Known(rescue.run)
    BY <1>1, <1>7 DEF RescueFinish, RescueKnows
  <2>2. run[rescue.run].item \in Items
    BY <2>1, RowOf
  <2>3. RescueSees(run[rescue.run].item) \in Row /\ rescue.seen \in Row
    BY <2>1, <2>2 DEF RescueSees, Rescue, TypeOK
  <2> QED BY <1>6, <1>7, <2>1, <2>2, <2>3, RowTypes DEF RescueFinish, RunStatus
<1>8. ASSUME NEW r \in Runs, RescueSkip(r) \/ RescueOpen(r) \/ RescueTimeout(r)
      PROVE  RescueKnows'
  <2>1. rescue \in Rescue /\ rescue # Idle /\ Known(r)
    BY <1>1, <1>8 DEF RescueSkip, RescueOpen, RescueTimeout, Scanning, TypeOK,
                      RescueKnows
  <2>2. run[r].item \in Items /\ RescueSees(run[r].item) \in Row
    BY <2>1, RowOf DEF RescueSees, Rescue, TypeOK
  <2>3. CASE RescueSkip(r)
    <3>1. /\ rescue'.pc = rescue.pc /\ rescue'.todo \subseteq rescue.todo
          /\ rescue'.verdict = rescue.verdict /\ rescue'.run = rescue.run
      BY <2>1, <2>3 DEF RescueSkip, Rescue
    <3> QED BY <1>1, <1>2, <2>1, <3>1 DEF RescueKnows
  <2>4. CASE RescueTimeout(r)
    BY <1>6, <2>1, <2>2, <2>4, RowTypes DEF RescueTimeout, RunStatus
  <2>5. CASE RescueOpen(r)
    <3> DEFINE seen == RescueSees(run[r].item)
    <3>1. CASE seen.status = "completed"
      BY <1>6, <2>1, <2>5, <3>1 DEF RescueOpen, RunStatus
    <3>2. CASE seen.status # "completed"
      <4>1. /\ rescue'.todo = rescue.todo /\ rescue'.run = r
            /\ rescue'.verdict = rescue.verdict
        BY <2>1, <2>5, <3>2 DEF RescueOpen, Rescue
      <4> QED BY <1>1, <1>2, <2>1, <4>1 DEF RescueKnows
    <3> QED BY <3>1, <3>2
  <2> QED BY <1>8, <2>3, <2>4, <2>5
<1> QED BY <1>3, <1>4, <1>5, <1>7, <1>8, RescueMoves DEF RescueStep

\* Asking the provider and opening the item keep the run a worker has.
LEMMA FetchOpenMoves ==
  ASSUME TypeOK, NEW w \in Workers, FinFetch(w) \/ FinOpen(w)
  PROVE  wk'[w].run = wk[w].run /\ wk'[w].pc # "handoff"
<1>1. wk[w] \in Task
  BY Busy DEF FinFetch, FinOpen, TypeOK
<1>2. ASSUME NEW pc, NEW seen, NEW chunk,
             Become(w, [wk[w] EXCEPT !.pc = pc, !.seen = seen, !.chunk = chunk])
      PROVE  wk'[w].run = wk[w].run /\ wk'[w].pc = pc
  BY <1>1, <1>2 DEF Become, Task, TypeOK
<1>3. ASSUME NEW pc, NEW seen, Become(w, [wk[w] EXCEPT !.pc = pc, !.seen = seen])
      PROVE  wk'[w].run = wk[w].run /\ wk'[w].pc = pc
  BY <1>1, <1>3 DEF Become, Task, TypeOK
<1>4. CASE FinOpen(w)
  <2>1. PICK pc \in {"enrich", "mark"} : \E seen, chunk :
          Become(w, [wk[w] EXCEPT !.pc = pc, !.seen = seen, !.chunk = chunk])
    BY <1>4 DEF FinOpen
  <2> QED BY <1>2, <2>1
<1>5. CASE FinFetch(w)
  <2>1. \/ \E pc \in {"verdict", "open", "raise"} : \E seen :
              Become(w, [wk[w] EXCEPT !.pc = pc, !.seen = seen])
        \/ Done(w, "raise")
    BY <1>5 DEF FinFetch
  <2>2. CASE Done(w, "raise")
    BY <1>1, <2>2 DEF Done, Become, Task, TypeOK
  <2>3. CASE \E pc \in {"verdict", "open", "raise"} : \E seen :
               Become(w, [wk[w] EXCEPT !.pc = pc, !.seen = seen])
    BY <1>3, <2>3
  <2> QED BY <2>1, <2>2, <2>3
<1> QED BY <1>4, <1>5

\* No step makes anybody remember a run without a row.
LEMMA RunsKnownStep == TypeOK /\ RunsKnown /\ [Next]_vars => RunsKnown'
<1> SUFFICES ASSUME TypeOK, RunsKnown, [Next]_vars PROVE RunsKnown'
  OBVIOUS
<1>0. ASSUME NEW r, Known(r) PROVE r \in Runs /\ run'[r].status # "absent"
  BY <1>0, KnownStays DEF Known
<1>1. ASSUME NEW w \in Workers
      PROVE  /\ wk'[w].pc = "handoff" => wk'[w].run \in Runs
             /\ wk'[w].pc \in Finalizing =>
                  wk'[w].run \in Runs /\ run'[wk'[w].run].status # "absent"
  <2>1. CASE wk'[w] = wk[w]
    BY <1>0, <2>1 DEF RunsKnown
  <2>2. ASSUME NEW r \in Runs, ProcHandoff(w, r)
        PROVE  wk'[w].run = r /\ wk'[w].pc = "handoff"
    <3>1. wk[w] \in Task
      BY <2>2, Busy DEF ProcHandoff, TypeOK
    <3> QED BY <2>2, <3>1 DEF ProcHandoff, Become, Task, TypeOK
  <2>3. ASSUME NEW r \in Runs, NEW n \in 0..MaxRetries, FinRead(w, r, n)
        PROVE  wk'[w].run = r /\ wk'[w].pc = "fetch" /\ Known(r)
    BY <2>3 DEF FinRead, Become, TypeOK, Known
  <2>4. CASE FinFetch(w) \/ FinOpen(w)
    <3>1. wk[w] \in Task /\ Known(wk[w].run)
      BY <2>4, Busy DEF FinFetch, FinOpen, TypeOK, RunsKnown, Finalizing
    <3>2. wk'[w].run = wk[w].run /\ wk'[w].pc # "handoff"
      BY <2>4, FetchOpenMoves
    <3> QED BY <1>0, <3>1, <3>2
  <2> QED BY <1>0, <2>1, <2>2, <2>3, <2>4, WorkerMoves DEF Finalizing
<1> QED BY <1>1, RescueKnowsStep DEF RunsKnown, RescueKnows, Known

\* Every value a variable of the pipeline takes has its type.
THEOREM TypeCorrect == Spec => []TypeOK
<1>1. Init => TypeOK /\ RunsKnown
  BY InitType
<1>2. TypeOK /\ RunsKnown /\ [Next]_vars => (TypeOK /\ RunsKnown)'
  BY TypeStep, RunsKnownStep
<1> QED BY <1>1, <1>2, PTL DEF Spec
-------------------------------------------------------------------------------
(* A run that is being handed off is new, so no run's row changes its item.  *)

\* The run a worker is handing off is started, has no row, and is no other's.
HandoffIsFresh ==
  /\ \A r \in Runs : provider[r] = "unstarted" => run[r].status = "absent"
  /\ \A w \in Workers : wk[w].pc = "handoff" =>
       provider[wk[w].run] # "unstarted" /\ run[wk[w].run].status = "absent"
  /\ \A v, w \in Workers :
       v # w /\ wk[v].pc = "handoff" /\ wk[w].pc = "handoff" => wk[v].run # wk[w].run

\* Before anything is saved no run is being handed off.
LEMMA InitFresh == Init => HandoffIsFresh
  BY DEF Init, HandoffIsFresh, Idle, NoRunRow

\* A worker arrives at the hand-off by starting a run, in no other way.
LEMMA HandoffMoves ==
  ASSUME TypeOK, [Next]_vars, NEW w \in Workers, wk'[w].pc = "handoff"
  PROVE  wk'[w] = wk[w] \/ \E r \in Runs : ProcHandoff(w, r)
<1>1. ASSUME NEW r \in Runs, NEW n \in 0..MaxRetries, FinRead(w, r, n)
      PROVE  FALSE
  BY <1>1 DEF FinRead, Become, TypeOK
<1> QED BY <1>1, WorkerMoves, FetchOpenMoves DEF Finalizing

\* A started run is never unstarted.
LEMMA ProviderMoves ==
  ASSUME TypeOK, [Next]_vars, NEW r \in Runs, provider[r] # "unstarted"
  PROVE  provider'[r] # "unstarted"
<1>1. \/ UNCHANGED provider
      \/ \E w \in Workers, q \in Runs : ProcHandoff(w, q)
      \/ \E q \in Runs : ProviderEnds(q)
  <2>1. CASE UserStep \/ RequestStep \/ SweepStep \/ RequestLost \/ SweepLost
    BY <2>1 DEF UserStep, Save, ReprocessCheck, Trash, Restore, Purge, Bury,
                RequestStep, ReprocessFlush, ReprocessCommit, SweepStep, SweepList,
                SweepCommit, RequestLost, SweepLost
  <2>2. ASSUME NEW w \in Workers, WorkerStep(w)
        PROVE  UNCHANGED provider \/ \E q \in Runs : ProcHandoff(w, q)
    <3>1. CASE Receive(w)
      BY <3>1 DEF Receive, ProcMissing, ProcRead, FinIgnore, FinRead
    <3>2. CASE Process(w)
      BY <3>2 DEF Process, ProcClaim, Handed, ProcComplete, ProcSkip, ProcFail,
                  ProcHandoffCommit
    <3>3. CASE Finalize(w)
      BY <3>3 DEF Finalize, FinFetch, FinOpen, FinClash, FinComplete, FinFail,
                  FinMark, FinVerdict
    <3>4. CASE After(w) \/ Answer(w) \/ Raise(w)
      BY <3>4 DEF After, Answer, Raise
    <3> QED BY <2>2, <3>1, <3>2, <3>3, <3>4 DEF WorkerStep
  <2>3. ASSUME NEW w \in Workers,
               Crash(w) \/ SoftTimeLimit(w) \/ SoftTimeLimitInFinalize(w)
        PROVE  UNCHANGED provider
    BY <2>3 DEF Crash, SoftTimeLimit, SoftTimeLimitInFinalize
  <2>4. CASE RescueStep
    BY <2>4 DEF RescueStep, RescueList, RescueFinish, RescueAbort, RescueSkip,
                RescueOpen, RescueTimeout, RescueCommit
  <2>5. ASSUME NEW q \in Runs, WebhookAgain(q) \/ RunAges(q) PROVE UNCHANGED provider
    BY <2>5 DEF WebhookAgain, RunAges
  <2>6. ASSUME NEW i \in Items, Ages(i) PROVE UNCHANGED provider
    BY <2>6 DEF Ages
  <2>7. CASE UNCHANGED vars
    BY <2>7 DEF vars
  <2> QED BY <2>1, <2>2, <2>3, <2>4, <2>5, <2>6, <2>7 DEF Next
<1>2. ASSUME NEW w \in Workers, NEW q \in Runs, ProcHandoff(w, q)
      PROVE  provider'[r] # "unstarted"
  BY <1>2 DEF ProcHandoff, TypeOK
<1>3. ASSUME NEW q \in Runs, ProviderEnds(q) PROVE provider'[r] # "unstarted"
  BY <1>3 DEF ProviderEnds, TypeOK
<1> QED BY <1>1, <1>2, <1>3

\* Only the commit of a hand-off gives a run its row, and no step changes the
\* item of a run that has one.
LEMMA RunsAppear ==
  ASSUME TypeOK, RunsKnown, [Next]_vars, NEW r \in Runs
  PROVE  \/ run[r].status = "absent" /\ run'[r].status = "absent"
         \/ run[r].status # "absent" /\ run'[r].item = run[r].item
         \/ \E w \in Workers : ProcHandoffCommit(w) /\ wk[w].run = r
<1>1. run[r] \in RunRow \/ run[r] = NoRunRow
  BY DEF TypeOK
<1>2. CASE UNCHANGED run
  BY <1>2
<1>3. ASSUME NEW w \in Workers, Committing(w)
      PROVE  \/ run[r].status = "absent" /\ run'[r].status = "absent"
             \/ run[r].status # "absent" /\ run'[r].item = run[r].item
             \/ ProcHandoffCommit(w) /\ wk[w].run = r
  <2>1. CASE ProcHandoffCommit(w)
    BY <1>1, <2>1 DEF ProcHandoffCommit, TypeOK
  <2>2. CASE ~ProcHandoffCommit(w)
    <3>1. PICK to \in RunStatus : MarkRun(wk[w].run, to)
      BY <1>3, <2>2 DEF Committing, SoftTimeLimitInFinalize, FinComplete, FinFail,
                        FinMark, FinVerdict, RunStatus
    <3>2. Known(wk[w].run)
      BY <1>3, <2>2 DEF Committing, SoftTimeLimitInFinalize, FinComplete, FinFail,
                        FinMark, FinVerdict, RunsKnown, Finalizing
    <3> QED BY <1>1, <3>1, <3>2 DEF MarkRun, Known, TypeOK, RunRow
  <2> QED BY <2>1, <2>2
<1>4. ASSUME NEW q \in Runs, RunAges(q)
      PROVE  \/ run[r].status = "absent" /\ run'[r].status = "absent"
             \/ run[r].status # "absent" /\ run'[r].item = run[r].item
  BY <1>1, <1>4 DEF RunAges, TypeOK, RunRow
<1>5. CASE RescueCommit
  <2>1. rescue.verdict[r] # "running" => Known(r)
    BY <1>5 DEF RescueCommit, RunsKnown
  <2> QED BY <1>1, <1>5, <2>1 DEF RescueCommit, Known, RunRow
<1> QED BY <1>2, <1>3, <1>4, <1>5, RunWriters

\* No step makes the run of a hand-off a used one.
LEMMA FreshStep ==
  TypeOK /\ RunsKnown /\ HandoffIsFresh /\ [Next]_vars => HandoffIsFresh'
<1> SUFFICES ASSUME TypeOK, RunsKnown, HandoffIsFresh, [Next]_vars
             PROVE  HandoffIsFresh'
  OBVIOUS
<1>1. ASSUME NEW w \in Workers, ProcHandoffCommit(w)
      PROVE  /\ wk[w].pc = "handoff" /\ wk'[w].pc # "handoff"
             /\ \A v \in Workers : v # w => wk'[v] = wk[v]
  <2>1. wk[w] \in Task
    BY <1>1, Busy DEF ProcHandoffCommit, TypeOK
  <2> QED BY <1>1, <2>1 DEF ProcHandoffCommit, Done, Become, Task, TypeOK
<1>2. ASSUME NEW w \in Workers, NEW r \in Runs, ProcHandoff(w, r)
      PROVE  /\ provider[r] = "unstarted" /\ provider'[r] # "unstarted"
             /\ wk'[w].run = r /\ run' = run
             /\ \A v \in Workers : v # w => wk'[v] = wk[v]
  <2>1. wk[w] \in Task
    BY <1>2, Busy DEF ProcHandoff, TypeOK
  <2> QED BY <1>2, <2>1 DEF ProcHandoff, Become, Task, TypeOK
<1>3. ASSUME NEW r \in Runs, provider'[r] = "unstarted"
      PROVE  run'[r].status = "absent"
  BY <1>1, <1>3, ProviderMoves, RunsAppear DEF HandoffIsFresh
<1>4. ASSUME NEW w \in Workers, wk'[w].pc = "handoff"
      PROVE  provider'[wk'[w].run] # "unstarted" /\ run'[wk'[w].run].status = "absent"
  <2>1. CASE wk'[w] = wk[w]
    <3>1. wk[w].run \in Runs
      BY <1>4, <2>1 DEF RunsKnown
    <3> QED BY <1>1, <1>4, <2>1, <3>1, ProviderMoves, RunsAppear DEF HandoffIsFresh
  <2>2. ASSUME NEW r \in Runs, ProcHandoff(w, r)
        PROVE  provider'[wk'[w].run] # "unstarted" /\ run'[wk'[w].run].status = "absent"
    BY <1>2, <2>2 DEF HandoffIsFresh
  <2> QED BY <1>4, <2>1, <2>2, HandoffMoves
<1>5. ASSUME NEW v \in Workers, NEW w \in Workers, v # w,
             wk'[v].pc = "handoff", wk'[w].pc = "handoff"
      PROVE  wk'[v].run # wk'[w].run
  <2>1. CASE wk'[v] = wk[v] /\ wk'[w] = wk[w]
    BY <1>5, <2>1 DEF HandoffIsFresh
  <2>2. ASSUME NEW r \in Runs, ProcHandoff(w, r) PROVE wk'[v].run # wk'[w].run
    BY <1>2, <1>5, <2>2 DEF HandoffIsFresh
  <2>3. ASSUME NEW r \in Runs, ProcHandoff(v, r) PROVE wk'[v].run # wk'[w].run
    BY <1>2, <1>5, <2>3 DEF HandoffIsFresh
  <2> QED BY <1>5, <2>1, <2>2, <2>3, HandoffMoves
<1> QED BY <1>3, <1>4, <1>5 DEF HandoffIsFresh
-------------------------------------------------------------------------------
(* What a step can make of a row.                                           *)

\* An outcome keeps the item's life and never takes its words away; the status
\* it leaves is its own or the one it found.
LEMMA Outcomes ==
  ASSUME NEW r \in Row, NEW seen \in Row
  PROVE  /\ CompletedRow(r, seen).life = r.life /\ CompletedRow(r, seen).body = TRUE
         /\ CompletedRow(r, seen).status \in {"completed", r.status}
         /\ SkippedRow(r, seen).life = r.life /\ SkippedRow(r, seen).body = r.body
         /\ SkippedRow(r, seen).status \in {"skipped", r.status}
         /\ FailedRow(r, seen).life = r.life /\ FailedRow(r, seen).body = r.body
         /\ FailedRow(r, seen).status \in {"failed", r.status}
<1>1. ASSUME NEW s \in Status, NEW n \in Nat
      PROVE  /\ Settle(r, seen, s, n).life = r.life
             /\ Settle(r, seen, s, n).body = r.body
             /\ Settle(r, seen, s, n).status \in {s, r.status}
  BY <1>1 DEF Settle, Assign, Row
<1>2. seen.retry + 1 \in Nat
  BY DEF Row
<1>3. Settle(r, seen, "completed", 0) \in Row
  BY SettleType DEF Status
<1>4. /\ CompletedRow(r, seen).life = Settle(r, seen, "completed", 0).life
      /\ CompletedRow(r, seen).status = Settle(r, seen, "completed", 0).status
      /\ CompletedRow(r, seen).body = TRUE
  BY <1>3 DEF CompletedRow, Row
<1> QED BY <1>1, <1>2, <1>4 DEF SkippedRow, FailedRow, Status

\* The row keeps its status and, unless it is scrubbed, what it had.
Kept(i) ==
  /\ row'[i].status = row[i].status
  /\ row'[i].life # "purged" =>
       /\ row[i].life # "purged"
       /\ row[i].body = TRUE => row'[i].body = TRUE
       /\ i \in indexed => i \in indexed'

\* What a step may do to a row: nothing; hand it off; settle it without words;
\* complete it with them; or commit what a rescue tick held back.
RowMove(i) ==
  \/ Kept(i)
  \/ \E w \in Workers : ProcHandoffCommit(w) /\ wk[w].item = i
                        /\ row'[i].status = "processing"
  \/ row'[i].status \in {"pending", "failed", "skipped"}
  \/ row'[i].status = "completed" /\ row'[i].body = TRUE /\ i \in indexed'
  \/ RescueCommit /\ i \in rescue.written /\ row'[i] = rescue.rows[i]

\* A write changes the one row it names.
LEMMA Written ==
  ASSUME row \in [Items -> Row], NEW j \in Items, NEW r, Write(j, r),
         NEW i \in Items
  PROVE  row'[i] = IF i = j THEN r ELSE row[i]
  BY DEF Write

\* What the requests do to one row.
LEMMA UserRow ==
  ASSUME TypeOK, NEW i \in Items,
         \/ ReprocessCommit
         \/ \E j \in Items : Save(j) \/ Trash(j) \/ Restore(j) \/ Purge(j)
  PROVE  RowMove(i)
<1>1. ASSUME NEW j \in Items, Save(j) PROVE RowMove(i)
  <2> DEFINE r == [row[j] EXCEPT !.status = "pending", !.body = (j \in Authored)]
  <2>1. r.status = "pending"
    <3>1. ASSUME NEW b \in BOOLEAN
          PROVE  [row[j] EXCEPT !.status = "pending", !.body = b].status = "pending"
      BY DEF TypeOK, Row
    <3>2. (j \in Authored) \in BOOLEAN
      OBVIOUS
    <3> QED BY <3>1, <3>2
  <2>2. row' = [row EXCEPT ![j] = r] /\ indexed' = indexed
    BY <1>1, Zenon DEF Save
  <2> HIDE DEF r
  <2>3. row'[i] = IF i = j THEN r ELSE row[i]
    BY <2>2 DEF TypeOK
  <2> QED BY <2>1, <2>2, <2>3 DEF RowMove, Kept
<1>2. CASE ReprocessCommit
  <2>1. api.item \in Items
    BY <1>2 DEF ReprocessCommit, TypeOK, Request
  <2> DEFINE j == api.item
             r == [row[j] EXCEPT !.status = "pending",
                                 !.retry = Assign(api.retry, 0, @),
                                 !.body = @ /\ j \notin Voice]
  <2>2. r.status = "pending"
    BY <2>1 DEF TypeOK, Row
  <2>3. Write(j, r) /\ indexed' = indexed
    BY <1>2 DEF ReprocessCommit
  <2> HIDE DEF r
  <2>4. row'[i] = IF i = j THEN r ELSE row[i]
    BY <2>1, <2>3, Written DEF TypeOK
  <2> QED BY <2>2, <2>3, <2>4 DEF RowMove, Kept
<1>3. ASSUME NEW j \in Items, NEW from \in {"live", "trashed"}, NEW to \in Life,
             Bury(j, from, to)
      PROVE  RowMove(i)
  <2> DEFINE r == [row[j] EXCEPT !.life = to, !.body = @ /\ to # "purged"]
  <2>1. /\ r.status = row[j].status /\ r.life = to
        /\ to # "purged" => r.body = row[j].body
    <3>1. row[j] \in Row
      BY DEF TypeOK
    <3>2. r.body = (row[j].body /\ to # "purged")
      BY <3>1 DEF Row
    <3>3. ASSUME NEW b \in BOOLEAN, to # "purged" PROVE (b /\ to # "purged") = b
      BY <3>3
    <3>4. row[j].body \in BOOLEAN
      BY <3>1 DEF Row
    <3> QED BY <3>1, <3>2, <3>3, <3>4 DEF Row
  <2>2. row'[i] = IF i = j THEN r ELSE row[i]
    BY <1>3, Written DEF Bury, TypeOK
  <2>3. row[j].life = from /\ (i # j /\ i \in indexed => i \in indexed')
        /\ (to # "purged" => indexed' = indexed)
    BY <1>3 DEF Bury
  <2>4. Kept(i)
    BY <2>1, <2>2, <2>3 DEF Kept
  <2> QED BY <2>4 DEF RowMove
<1> QED BY <1>1, <1>2, <1>3 DEF Trash, Restore, Purge, Life

\* What a worker's commit does to one row.
LEMMA WorkerRow ==
  ASSUME TypeOK, NEW i \in Items, NEW w \in Workers,
         \/ ProcHandoffCommit(w) \/ ProcComplete(w) \/ ProcSkip(w) \/ ProcFail(w)
         \/ FinComplete(w) \/ FinFail(w) \/ FinVerdict(w)
         \/ SoftTimeLimitInFinalize(w)
  PROVE  RowMove(i)
<1> DEFINE j == wk[w].item
<1>1. wk[w] \in Task
  BY Busy DEF ProcHandoffCommit, ProcComplete, ProcSkip, ProcFail, FinComplete,
              FinFail, FinVerdict, SoftTimeLimitInFinalize, TypeOK
<1>2. j \in Items /\ row[j] \in Row /\ wk[w].seen \in Row
  BY <1>1 DEF Task, TypeOK
<1>3. ASSUME row'[i] = row[i], i \in indexed => i \in indexed' PROVE RowMove(i)
  BY <1>3 DEF RowMove, Kept
<1>4. ASSUME NEW r, Write(j, r), indexed \subseteq indexed', r.life = row[j].life,
             r.body = row[j].body \/ r.body = TRUE,
             \/ r.status \in {"failed", "skipped", row[j].status}
             \/ r.status = "completed" /\ r.body = TRUE /\ j \in indexed'
      PROVE  RowMove(i)
  BY <1>2, <1>4, Written DEF RowMove, Kept, TypeOK
<1>5. CASE ProcComplete(w) \/ FinComplete(w)
  BY <1>2, <1>4, <1>5, Outcomes DEF ProcComplete, FinComplete
<1>6. CASE ProcSkip(w)
  BY ZenonT(40), <1>2, <1>4, <1>6, Outcomes DEF ProcSkip
<1>7. CASE ProcFail(w) \/ FinFail(w)
  BY <1>2, <1>4, <1>7, Outcomes DEF ProcFail, FinFail
<1>8. CASE FinVerdict(w)
  BY <1>2, <1>3, <1>4, <1>8, Outcomes DEF FinVerdict
<1>9. CASE SoftTimeLimitInFinalize(w)
  <2>1. ASSUME Write(j, [row[j] EXCEPT !.body = TRUE]) PROVE RowMove(i)
    BY <1>2, <1>4, <1>9, <2>1 DEF SoftTimeLimitInFinalize, Row
  <2> QED BY <1>3, <1>9, <2>1 DEF SoftTimeLimitInFinalize
<1>10. CASE ProcHandoffCommit(w)
  <2>1. CASE lock[j] = w
    <3>1. Write(j, [row[j] EXCEPT !.status = "processing"])
      BY <1>10, <2>1 DEF ProcHandoffCommit
    <3>2. [row[j] EXCEPT !.status = "processing"].status = "processing"
      BY <1>2 DEF Row
    <3>3. row'[i] = IF i = j THEN [row[j] EXCEPT !.status = "processing"] ELSE row[i]
      BY <1>2, <3>1, Written DEF TypeOK
    <3>4. CASE i = j
      BY <1>10, <3>2, <3>3, <3>4 DEF RowMove
    <3>5. CASE i # j
      BY <1>3, <1>10, <3>3, <3>5 DEF ProcHandoffCommit
    <3> QED BY <3>4, <3>5
  <2> QED BY <1>3, <1>10, <2>1 DEF ProcHandoffCommit
<1> QED BY <1>5, <1>6, <1>7, <1>8, <1>9, <1>10

\* What the sweep of stranded items does to one row.
LEMMA SweepRow ==
  ASSUME TypeOK, NEW i \in Items, SweepCommit
  PROVE  RowMove(i)
<1>1. row[i] \in Row
  BY DEF TypeOK
<1>2. SweptRow(i).status \in {"failed", row[i].status}
      /\ SweptRow(i).life = row[i].life /\ SweptRow(i).body = row[i].body
  BY <1>1 DEF SweptRow, Row
<1> QED BY <1>2 DEF SweepCommit, RowMove, Kept

\* Every step leaves one row as it was or moves it in one of five ways.
LEMMA RowMoves ==
  ASSUME TypeOK, [Next]_vars, NEW i \in Items
  PROVE  RowMove(i)
<1>1. ASSUME row' = row, indexed' = indexed PROVE RowMove(i)
  BY <1>1 DEF RowMove, Kept
<1>2. CASE UserStep \/ RequestStep \/ SweepStep \/ RequestLost \/ SweepLost
  BY <1>1, <1>2, UserRow, SweepRow
  DEF UserStep, ReprocessCheck, RequestStep, ReprocessFlush, SweepStep, SweepList,
      RequestLost, SweepLost
<1>3. ASSUME NEW w \in Workers, WorkerStep(w) PROVE RowMove(i)
  <2>1. CASE Receive(w)
    BY <1>1, <2>1 DEF Receive, ProcMissing, ProcRead, FinIgnore, FinRead
  <2>2. CASE Process(w)
    <3>1. CASE ProcClaim(w)
      BY <1>1, <3>1 DEF ProcClaim
    <3>2. CASE Handed(w)
      BY <1>1, <3>2 DEF Handed
    <3>3. ASSUME NEW r \in Runs, ProcHandoff(w, r) PROVE RowMove(i)
      BY <1>1, <3>3 DEF ProcHandoff
    <3> QED BY <2>2, <3>1, <3>2, <3>3, WorkerRow DEF Process
  <2>3. CASE Finalize(w)
    BY <1>1, <2>3, WorkerRow DEF Finalize, FinFetch, FinOpen, FinClash, FinMark
  <2>4. CASE After(w) \/ Answer(w) \/ Raise(w)
    BY <1>1, <2>4 DEF After, Answer, Raise
  <2> QED BY <1>3, <2>1, <2>2, <2>3, <2>4 DEF WorkerStep
<1>4. ASSUME NEW w \in Workers,
             Crash(w) \/ SoftTimeLimit(w) \/ SoftTimeLimitInFinalize(w)
      PROVE  RowMove(i)
  BY <1>1, <1>4, WorkerRow DEF Crash, SoftTimeLimit
<1>5. CASE RescueStep
  <2>1. CASE RescueCommit
    <3>1. CASE i \in rescue.written
      BY <2>1, <3>1 DEF RescueCommit, RescueSees, RowMove
    <3>2. CASE i \notin rescue.written
      BY <2>1, <3>2 DEF RescueCommit, RescueSees, RowMove, Kept
    <3> QED BY <3>1, <3>2
  <2>2. CASE ~RescueCommit
    <3>1. row' = row /\ indexed' = indexed
      <4>1. CASE RescueList \/ RescueAbort \/ RescueFinish
        BY <4>1 DEF RescueList, RescueAbort, RescueFinish
      <4>2. ASSUME NEW r \in Runs, RescueSkip(r) \/ RescueOpen(r) \/ RescueTimeout(r)
            PROVE  row' = row /\ indexed' = indexed
        BY <4>2 DEF RescueSkip, RescueOpen, RescueTimeout
      <4> QED BY <1>5, <2>2, <4>1, <4>2 DEF RescueStep
    <3> QED BY <1>1, <3>1
  <2> QED BY <2>1, <2>2
<1>6. ASSUME NEW r \in Runs, ProviderEnds(r) \/ WebhookAgain(r) \/ RunAges(r)
      PROVE  RowMove(i)
  BY <1>1, <1>6 DEF ProviderEnds, WebhookAgain, RunAges
<1>7. ASSUME NEW j \in Items, Ages(j) PROVE RowMove(i)
  BY <1>1, <1>7 DEF Ages
<1>8. CASE UNCHANGED vars
  BY <1>1, <1>8 DEF vars
<1> QED BY <1>2, <1>3, <1>4, <1>5, <1>6, <1>7, <1>8 DEF Next
-------------------------------------------------------------------------------
(* The rows a rescue tick holds back are as sound as the committed ones.    *)

\* The item has a run with a row.
HandedOff(i) == \E r \in Runs : run[r].status # "absent" /\ run[r].item = i

\* A row with what the two safety properties ask of it.
Sound(i, r) ==
  /\ r.status = "processing" => HandedOff(i)
  /\ r.status = "completed" /\ r.life # "purged" => r.body = TRUE

\* The rows a rescue tick holds back, uncommitted, are sound.
RescueSound ==
  rescue # Idle => \A i \in rescue.written : Sound(i, rescue.rows[i])

\* The inductive invariant.
CaptureInv ==
  /\ TypeOK /\ RunsKnown /\ HandoffIsFresh
  /\ ProcessingIsHandedOff /\ CompletedIsIndexed /\ RescueSound

\* A hand-off is never taken back.
LEMMA HandedOffStays ==
  ASSUME CaptureInv, [Next]_vars, NEW i, HandedOff(i)
  PROVE  \E r \in Runs : run'[r].status # "absent" /\ run'[r].item = i
<1>1. PICK r \in Runs : run[r].status # "absent" /\ run[r].item = i
  BY DEF HandedOff
<1>2. Known(r)
  BY <1>1 DEF Known
<1>3. run'[r].status # "absent"
  BY <1>2, KnownStays DEF CaptureInv, Known
<1>4. ASSUME NEW w \in Workers, ProcHandoffCommit(w), wk[w].run = r PROVE FALSE
  BY <1>1, <1>4 DEF CaptureInv, HandoffIsFresh, ProcHandoffCommit
<1> QED BY <1>1, <1>3, <1>4, RunsAppear DEF CaptureInv

\* What a tick flushes for an item is an outcome of the row it sees.
LEMMA RescueWrites ==
  ASSUME TypeOK, RunsKnown, [Next]_vars, rescue' # Idle, NEW i \in rescue'.written
  PROVE  /\ rescue # Idle /\ rescue \in Rescue /\ i \in Items
         /\ \/ i \in rescue.written /\ rescue'.rows[i] = rescue.rows[i]
            \/ \E seen \in Row :
                 \/ rescue'.rows[i] = CompletedRow(RescueSees(i), seen)
                 \/ rescue'.rows[i] = FailedRow(RescueSees(i), seen)
<1> DEFINE Goal ==
      /\ rescue # Idle /\ rescue \in Rescue /\ i \in Items
      /\ \/ i \in rescue.written /\ rescue'.rows[i] = rescue.rows[i]
         \/ \E seen \in Row :
              \/ rescue'.rows[i] = CompletedRow(RescueSees(i), seen)
              \/ rescue'.rows[i] = FailedRow(RescueSees(i), seen)
<1>1. ASSUME rescue # Idle, rescue'.written = rescue.written,
             rescue'.rows = rescue.rows
      PROVE  Goal
  BY <1>1 DEF TypeOK, Rescue
<1>2. ASSUME rescue # Idle, NEW r, NEW to, NEW j \in Items, NEW new,
             Flush(r, to, j, new), NEW seen \in Row,
             new \in {CompletedRow(RescueSees(j), seen), FailedRow(RescueSees(j), seen)}
      PROVE  Goal
  <2>1. rescue \in Rescue
    BY <1>2 DEF TypeOK
  <2>2. /\ rescue'.written = rescue.written \cup {j}
        /\ rescue'.rows = [rescue.rows EXCEPT ![j] = new]
    BY <1>2, <2>1 DEF Flush, Rescue
  <2>3. rescue.rows \in [Items -> Row] /\ i \in Items
    BY <1>2, <2>1, <2>2 DEF Rescue
  <2>4. CASE i = j
    BY <1>2, <2>1, <2>2, <2>3, <2>4
  <2>5. CASE i # j
    BY <1>2, <2>1, <2>2, <2>3, <2>5
  <2> QED BY <2>4, <2>5
<1>3. ASSUME rescue # Idle, NEW r, NEW to, Keep(r, to) PROVE Goal
  <2>1. rescue \in Rescue
    BY <1>3 DEF TypeOK
  <2>2. rescue'.written = rescue.written /\ rescue'.rows = rescue.rows
    BY <1>3, <2>1 DEF Keep, Rescue
  <2> QED BY <1>1, <1>3, <2>2
<1>4. CASE rescue' = rescue
  BY <1>1, <1>4
<1>5. CASE RescueList
  BY <1>5 DEF RescueList
<1>6. CASE RescueAbort \/ RescueCommit
  BY <1>6 DEF RescueAbort, RescueCommit
<1>7. CASE RescueFinish
  <2>1. rescue # Idle /\ rescue \in Rescue /\ Known(rescue.run)
    BY <1>7 DEF RescueFinish, TypeOK, RunsKnown
  <2>2. run[rescue.run].item \in Items /\ rescue.seen \in Row
    BY <2>1, RowOf DEF Rescue
  <2> QED BY <1>2, <1>7, <2>1, <2>2 DEF RescueFinish
<1>8. ASSUME NEW r \in Runs, RescueSkip(r) \/ RescueOpen(r) \/ RescueTimeout(r)
      PROVE  Goal
  <2>1. rescue # Idle /\ rescue \in Rescue /\ Known(r)
    BY <1>8 DEF RescueSkip, RescueOpen, RescueTimeout, Scanning, TypeOK, RunsKnown
  <2>2. run[r].item \in Items /\ RescueSees(run[r].item) \in Row
    BY <2>1, RowOf DEF RescueSees, Rescue, TypeOK
  <2>3. CASE RescueSkip(r)
    <3>1. rescue'.written = rescue.written /\ rescue'.rows = rescue.rows
      BY <2>1, <2>3 DEF RescueSkip, Rescue
    <3> QED BY <1>1, <2>1, <3>1
  <2>4. CASE RescueTimeout(r)
    BY <1>2, <1>3, <2>1, <2>2, <2>4 DEF RescueTimeout
  <2>5. CASE RescueOpen(r)
    <3>1. CASE Keep(r, "succeeded")
      BY <1>3, <2>1, <3>1
    <3>2. CASE ~Keep(r, "succeeded")
      <4>1. rescue'.written = rescue.written /\ rescue'.rows = rescue.rows
        BY <2>1, <2>5, <3>2 DEF RescueOpen, Rescue
      <4> QED BY <1>1, <2>1, <4>1
    <3> QED BY <3>1, <3>2
  <2> QED BY <1>8, <2>3, <2>4, <2>5
<1> QED BY <1>4, <1>5, <1>6, <1>7, <1>8, RescueMoves DEF RescueStep

\* The rows a rescue tick holds back stay sound.
LEMMA RescueSoundStep ==
  ASSUME CaptureInv, [Next]_vars PROVE RescueSound'
<1> SUFFICES ASSUME rescue' # Idle, NEW i \in rescue'.written
             PROVE  /\ rescue'.rows[i].status = "processing" =>
                         \E r \in Runs : run'[r].status # "absent" /\ run'[r].item = i
                    /\ rescue'.rows[i].status = "completed"
                         /\ rescue'.rows[i].life # "purged" => rescue'.rows[i].body = TRUE
  BY DEF RescueSound, Sound, HandedOff
<1>1. /\ rescue # Idle /\ rescue \in Rescue /\ i \in Items
      /\ \/ i \in rescue.written /\ rescue'.rows[i] = rescue.rows[i]
         \/ \E seen \in Row :
              \/ rescue'.rows[i] = CompletedRow(RescueSees(i), seen)
              \/ rescue'.rows[i] = FailedRow(RescueSees(i), seen)
  BY RescueWrites DEF CaptureInv
<1>2. Sound(i, row[i])
  BY <1>1 DEF CaptureInv, ProcessingIsHandedOff, CompletedIsIndexed, Sound, HandedOff,
              TypeOK, Row
<1>3. Sound(i, RescueSees(i)) /\ (i \in rescue.written => Sound(i, rescue.rows[i]))
  BY <1>1, <1>2 DEF CaptureInv, RescueSound, RescueSees
<1>4. RescueSees(i) \in Row
  BY <1>1 DEF CaptureInv, TypeOK, RescueSees, Rescue
<1>5. Sound(i, rescue'.rows[i])
  <2>1. CASE i \in rescue.written /\ rescue'.rows[i] = rescue.rows[i]
    BY <1>3, <2>1
  <2>2. ASSUME NEW seen \in Row,
               \/ rescue'.rows[i] = CompletedRow(RescueSees(i), seen)
               \/ rescue'.rows[i] = FailedRow(RescueSees(i), seen)
        PROVE  Sound(i, rescue'.rows[i])
    <3> DEFINE now == RescueSees(i)
    <3>1. /\ CompletedRow(now, seen).body = TRUE
          /\ CompletedRow(now, seen).status \in {"completed", now.status}
      BY <1>4, <2>2, Outcomes
    <3>2. /\ FailedRow(now, seen).life = now.life /\ FailedRow(now, seen).body = now.body
          /\ FailedRow(now, seen).status \in {"failed", now.status}
      BY <1>4, <2>2, Outcomes
    <3>3. CASE rescue'.rows[i] = CompletedRow(now, seen)
      BY <1>3, <3>1, <3>3 DEF Sound
    <3>4. CASE rescue'.rows[i] = FailedRow(now, seen)
      BY <1>3, <3>2, <3>4 DEF Sound
    <3> QED BY <2>2, <3>3, <3>4
  <2> QED BY <1>1, <2>1, <2>2
<1> QED BY <1>5, HandedOffStays DEF Sound

\* No step makes an item `processing` without a run.
LEMMA HandedOffStep ==
  ASSUME CaptureInv, [Next]_vars PROVE ProcessingIsHandedOff'
<1> SUFFICES ASSUME NEW i \in Items, row'[i].status = "processing"
             PROVE  \E r \in Runs : run'[r].status # "absent" /\ run'[r].item = i
  BY DEF ProcessingIsHandedOff
<1>1. RowMove(i)
  BY RowMoves DEF CaptureInv
<1>2. CASE Kept(i)
  BY <1>2, HandedOffStays DEF CaptureInv, ProcessingIsHandedOff, HandedOff, Kept
<1>3. ASSUME NEW w \in Workers, ProcHandoffCommit(w), wk[w].item = i
      PROVE  \E r \in Runs : run'[r].status # "absent" /\ run'[r].item = i
  <2>1. wk[w].run \in Runs
    BY <1>3 DEF ProcHandoffCommit, CaptureInv, RunsKnown
  <2> QED BY <1>3, <2>1 DEF ProcHandoffCommit, CaptureInv, TypeOK
<1>4. CASE RescueCommit /\ i \in rescue.written /\ row'[i] = rescue.rows[i]
  BY <1>4, HandedOffStays DEF CaptureInv, RescueSound, Sound, RescueCommit
<1> QED BY <1>1, <1>2, <1>3, <1>4 DEF RowMove

\* No step makes an item `completed` without its words and its chunk.
LEMMA IndexedStep ==
  ASSUME CaptureInv, [Next]_vars PROVE CompletedIsIndexed'
<1> SUFFICES ASSUME NEW i \in Items, row'[i].status = "completed",
                    row'[i].life # "purged"
             PROVE  row'[i].body = TRUE /\ i \in indexed'
  BY DEF CompletedIsIndexed
<1>1. RowMove(i)
  BY RowMoves DEF CaptureInv
<1>2. CASE Kept(i)
  <2>1. row[i].body \in BOOLEAN
    BY DEF CaptureInv, TypeOK, Row
  <2> QED BY <1>2, <2>1 DEF CaptureInv, CompletedIsIndexed, Kept
<1>3. CASE RescueCommit /\ i \in rescue.written /\ row'[i] = rescue.rows[i]
  BY <1>3 DEF CaptureInv, RescueSound, Sound, RescueCommit
<1> QED BY <1>1, <1>2, <1>3 DEF RowMove

\* The invariant holds before anything is saved.
LEMMA InitInv == Init => CaptureInv
<1> SUFFICES ASSUME Init PROVE CaptureInv
  OBVIOUS
<1>1. ProcessingIsHandedOff /\ CompletedIsIndexed /\ RescueSound
  BY DEF Init, NoRow, ProcessingIsHandedOff, CompletedIsIndexed, RescueSound
<1> QED BY <1>1, InitType, InitFresh DEF CaptureInv

\* No step breaks the invariant.
LEMMA CaptureInvStep == CaptureInv /\ [Next]_vars => CaptureInv'
<1> SUFFICES ASSUME CaptureInv, [Next]_vars PROVE CaptureInv'
  OBVIOUS
<1>1. TypeOK' /\ RunsKnown' /\ HandoffIsFresh'
  BY TypeStep, RunsKnownStep, FreshStep DEF CaptureInv
<1> QED BY <1>1, HandedOffStep, IndexedStep, RescueSoundStep DEF CaptureInv

\* The uncommitted claim of an inline task is never visible: whatever is lost or
\* delivered twice, a row others see as `processing` has an extraction run.
THEOREM ProcessingHasRun == Spec => []ProcessingIsHandedOff
<1>1. CaptureInv => ProcessingIsHandedOff
  BY DEF CaptureInv
<1> QED BY <1>1, InitInv, CaptureInvStep, PTL DEF Spec

\* Retries, redeliveries, sweeps, re-runs and deletions in any order leave every
\* finished memory that is not scrubbed with its words and its chunk.
THEOREM CompletedHasChunk == Spec => []CompletedIsIndexed
<1>1. CaptureInv => CompletedIsIndexed
  BY DEF CaptureInv
<1> QED BY <1>1, InitInv, CaptureInvStep, PTL DEF Spec
-------------------------------------------------------------------------------
(* A step by what it leaves alone.                                          *)

\* A step of nobody's: time, the provider, the listing of a sweep.
Still ==
  /\ UNCHANGED <<row, lock, run, wk, api, rescue>>
  /\ \A m \in Message : queued[m] > 0 => queued'[m] > 0
  /\ UNCHANGED budget \/ Spend("outage") \/ Spend("webhook") \/ Spend("crash")

\* A worker's step, and what every such step leaves alone.
WorkerMove(w) ==
  /\ \/ WorkerStep(w) \/ Crash(w) \/ SoftTimeLimit(w) \/ SoftTimeLimitInFinalize(w)
  /\ UNCHANGED <<api, rescue>>
  /\ \A v \in Workers \ {w} : wk'[v] = wk[v]

\* A message sent is there, and none that was there is gone.
LEMMA MoreIsThere ==
  ASSUME NEW q \in Queues, NEW m \in Message
  PROVE  /\ More(q, m)[m] > 0
         /\ \A n \in Message : q[n] > 0 => More(q, m)[n] > 0
<1>1. ASSUME NEW k \in 0..MaxCopies
      PROVE  (IF k < MaxCopies THEN k + 1 ELSE k) > 0
  BY <1>1, ConstantsAssumption
<1>2. q[m] \in 0..MaxCopies
  BY DEF Queues
<1> DEFINE k == IF q[m] < MaxCopies THEN q[m] + 1 ELSE q[m]
<1>3. More(q, m) = [q EXCEPT ![m] = k]
  BY DEF More
<1>4. k > 0
  BY <1>1, <1>2
<1> HIDE DEF k
<1> QED BY <1>3, <1>4 DEF Queues

\* A sweep's listing takes no message away.
LEMMA ListSends ==
  ASSUME TypeOK, SweepList
  PROVE  \A m \in Message : queued[m] > 0 => queued'[m] > 0
<1> DEFINE again == {i \in Stranded("pending") : row[i].retry < MaxSweepRequeues}
<1>1. queued \in Queues
  BY DEF TypeOK, Queues
<1>2. CASE UNCHANGED queued
  BY <1>2
<1>3. CASE queued' = [m \in Message |->
                        IF m.task = "process" /\ m.tries = 0 /\ m.item \in again
                        THEN More(queued, m)[m] ELSE queued[m]]
  BY <1>1, <1>3, MoreIsThere
<1> QED BY <1>2, <1>3 DEF SweepList

\* Every step is one of these.
LEMMA Kinds ==
  ASSUME TypeOK, [Next]_vars
  PROVE  \/ Still
         \/ \E r \in Runs : RunAges(r)
         \/ UserStep \/ RequestStep \/ RequestLost \/ SweepCommit \/ RescueStep
         \/ \E w \in Workers : WorkerMove(w)
<1>1. queued \in Queues
  BY DEF TypeOK, Queues
<1>2. CASE SweepList
  BY <1>2, ListSends DEF SweepList, Still
<1>3. CASE SweepLost \/ UNCHANGED vars \/ \E i \in Items : Ages(i)
  BY <1>3 DEF SweepLost, Ages, Still, vars
<1>4. ASSUME NEW r \in Runs, ProviderEnds(r) \/ WebhookAgain(r) PROVE Still
  <2>1. FinalizeMsg(r, 0) \in Message
    BY <1>4, ConstantsAssumption, FinalizeMsgType
  <2>2. queued' = queued \/ queued' = More(queued, FinalizeMsg(r, 0))
    BY <1>4 DEF ProviderEnds, WebhookAgain
  <2>3. \A m \in Message : queued[m] > 0 => queued'[m] > 0
    BY <1>1, <2>1, <2>2, MoreIsThere
  <2>4. UNCHANGED <<row, lock, run, wk, api, rescue>>
    BY <1>4 DEF ProviderEnds, WebhookAgain
  <2>5. UNCHANGED budget \/ Spend("webhook")
    BY <1>4 DEF ProviderEnds, WebhookAgain
  <2> QED BY <2>3, <2>4, <2>5 DEF Still
<1>5. ASSUME NEW w \in Workers,
             WorkerStep(w) \/ Crash(w) \/ SoftTimeLimit(w) \/ SoftTimeLimitInFinalize(w)
      PROVE  WorkerMove(w)
  <2>1. ASSUME NEW t, wk' = [wk EXCEPT ![w] = t]
        PROVE  \A v \in Workers \ {w} : wk'[v] = wk[v]
    BY <2>1 DEF TypeOK
  <2>2. UNCHANGED <<api, rescue>> /\ (wk' = wk \/ \E t : wk' = [wk EXCEPT ![w] = t])
    <3>1. CASE Receive(w)
      BY <3>1 DEF Receive, ProcMissing, ProcRead, FinIgnore, FinRead, Become
    <3>2. CASE Process(w)
      <4>1. CASE ProcClaim(w)
        BY <4>1 DEF ProcClaim, Become
      <4>2. CASE \E r \in Runs : ProcHandoff(w, r)
        BY <4>2 DEF ProcHandoff, Become
      <4>3. CASE \/ ProcHandoffCommit(w) \/ Handed(w) \/ ProcComplete(w)
                 \/ ProcSkip(w) \/ ProcFail(w)
        BY <4>3 DEF Handed, ProcComplete, ProcSkip, ProcFail, ProcHandoffCommit,
                    Done, Ack, Become
      <4> QED BY <3>2, <4>1, <4>2, <4>3 DEF Process
    <3>3. CASE Finalize(w)
      <4>1. CASE FinFetch(w) \/ FinOpen(w)
        BY <4>1 DEF FinFetch, FinOpen, Done, Become
      <4>2. CASE FinClash(w) \/ FinComplete(w) \/ FinFail(w) \/ FinMark(w) \/ FinVerdict(w)
        BY <4>2 DEF FinClash, FinComplete, FinFail, FinMark, FinVerdict, Done, Become
      <4> QED BY <3>3, <4>1, <4>2 DEF Finalize
    <3>4. CASE After(w) \/ Answer(w) \/ Raise(w)
      BY <3>4 DEF After, Answer, Raise, Ack, Become
    <3>5. CASE Crash(w) \/ SoftTimeLimit(w) \/ SoftTimeLimitInFinalize(w)
      BY <3>5 DEF Crash, SoftTimeLimit, SoftTimeLimitInFinalize, Done, Ack, Become
    <3> QED BY <1>5, <3>1, <3>2, <3>3, <3>4, <3>5 DEF WorkerStep
  <2> QED BY <1>5, <2>1, <2>2 DEF WorkerMove
<1>6. CASE SweepStep
  BY <1>2, <1>6 DEF SweepStep
<1> QED BY <1>2, <1>3, <1>4, <1>5, <1>6 DEF Next
-------------------------------------------------------------------------------
(* Optional events are only ever used up.                                   *)

\* No more of an allowance is left than there was.
Allowed == \A f \in Faults : budget[f] <= Allowance[f]

\* A step uses up at most one optional event.
LEMMA BudgetMoves ==
  ASSUME TypeOK, [Next]_vars
  PROVE  UNCHANGED budget \/ \E f \in Faults : Spend(f)
<1> DEFINE Goal == UNCHANGED budget \/ \E f \in Faults : Spend(f)
<1>1. CASE Still
  BY <1>1 DEF Still, Faults
<1>2. CASE UserStep
  BY <1>2 DEF UserStep, Save, Enqueue, ReprocessCheck, Trash, Restore, Purge, Bury,
              Spend, Faults
<1>3. CASE RequestStep \/ RequestLost \/ SweepCommit
  BY <1>3 DEF RequestStep, ReprocessFlush, ReprocessCommit, Enqueue, RequestLost,
              SweepCommit, Spend, Faults
<1>4. CASE RescueStep
  BY <1>4 DEF RescueStep, RescueList, RescueFinish, RescueAbort, RescueSkip,
              RescueOpen, RescueTimeout, RescueCommit, Faults
<1>5. ASSUME NEW w \in Workers, WorkerMove(w) PROVE Goal
  <2>1. CASE Receive(w)
    BY <2>1 DEF Receive, ProcMissing, ProcRead, FinIgnore, FinRead
  <2>2. CASE Process(w)
    BY <2>2 DEF Process, ProcClaim, ProcHandoff, ProcHandoffCommit, Handed,
                ProcComplete, ProcSkip, ProcFail
  <2>3. CASE Finalize(w)
    BY <2>3 DEF Finalize, FinFetch, FinOpen, FinClash, FinComplete, FinFail, FinMark,
                FinVerdict, Faults
  <2>4. CASE After(w) \/ Answer(w) \/ Raise(w)
    BY <2>4 DEF After, Answer, Raise, Notify, Faults
  <2>5. CASE Crash(w) \/ SoftTimeLimit(w) \/ SoftTimeLimitInFinalize(w)
    BY <2>5 DEF Crash, SoftTimeLimit, SoftTimeLimitInFinalize, Faults
  <2> QED BY <1>5, <2>1, <2>2, <2>3, <2>4, <2>5 DEF WorkerMove, WorkerStep
<1>6. ASSUME NEW r \in Runs, RunAges(r) PROVE Goal
  BY <1>6 DEF RunAges
<1> QED BY <1>1, <1>2, <1>3, <1>4, <1>5, <1>6, Kinds

\* What was undisturbed after a step was so before it, and the step was no
\* disturbance.
LEMMA Calm ==
  ASSUME TypeOK, Allowed, [Next]_vars
  PROVE  /\ Allowed'
         /\ Undisturbed' => /\ Undisturbed
                            /\ \A f \in {"outage", "timeout", "trash"} : ~Spend(f)
<1>1. budget \in [Faults -> Nat] /\ Allowance \in [Faults -> Nat]
  BY ConstantsAssumption DEF TypeOK
<1>2. ASSUME NEW f \in Faults, NEW g \in Faults, Spend(f)
      PROVE  budget'[g] = IF g = f THEN budget[g] - 1 ELSE budget[g]
  BY <1>1, <1>2 DEF Spend
<1>3. ASSUME NEW g \in Faults PROVE budget'[g] <= budget[g]
  <2>1. budget[g] \in Nat
    BY <1>1
  <2>2. CASE UNCHANGED budget
    BY <2>1, <2>2
  <2>3. ASSUME NEW f \in Faults, Spend(f) PROVE budget'[g] <= budget[g]
    BY <1>2, <2>1, <2>3
  <2> QED BY <2>2, <2>3, BudgetMoves
<1>4. ASSUME NEW g \in Faults
      PROVE  budget[g] \in Nat /\ budget'[g] \in Nat /\ Allowance[g] \in Nat
  <2>1. budget[g] \in Nat /\ Allowance[g] \in Nat
    BY <1>1
  <2>2. CASE UNCHANGED budget
    BY <2>1, <2>2
  <2>3. ASSUME NEW f \in Faults, Spend(f) PROVE budget'[g] \in Nat
    BY <1>1, <2>3, SpendType
  <2> QED BY <2>1, <2>2, <2>3, BudgetMoves
<1>5. ASSUME NEW g \in Faults
      PROVE  /\ budget'[g] <= Allowance[g]
             /\ budget'[g] = Allowance[g] => budget[g] = Allowance[g] /\ ~Spend(g)
  <2>1. budget[g] <= Allowance[g]
    BY DEF Allowed
  <2>2. Spend(g) => budget'[g] = budget[g] - 1
    BY <1>2
  <2> QED BY <1>3, <1>4, <2>1, <2>2
<1> QED BY <1>5 DEF Allowed, Undisturbed, Faults
-------------------------------------------------------------------------------
(* Who may write a row, and what status it leaves.                          *)

\* The row is left alone; saved; sent back by its owner; buried or dug up;
\* settled or handed off while no request and no tick holds its lock; or it is
\* what a rescue tick held back.
StatusMove(i) ==
  \/ row'[i] = row[i]
  \/ Save(i)
  \/ ReprocessCommit /\ api.item = i
  \/ Spend("trash") /\ lock[i] = "free" /\ row'[i].status = row[i].status
  \/ /\ lock[i] \in Workers \cup {"free"} /\ row'[i].life = row[i].life
     /\ row'[i].status \in {row[i].status, "processing", "completed", "failed", "skipped"}
  \/ RescueCommit /\ i \in rescue.written /\ row'[i] = rescue.rows[i]

\* A worker's write finds the row unlocked, or locked by itself.
LEMMA WorkerStatus ==
  ASSUME TypeOK, NEW i \in Items, NEW w \in Workers,
         \/ ProcHandoffCommit(w) \/ ProcComplete(w) \/ ProcSkip(w) \/ ProcFail(w)
         \/ FinComplete(w) \/ FinFail(w) \/ FinVerdict(w)
         \/ SoftTimeLimitInFinalize(w)
  PROVE  StatusMove(i)
<1> DEFINE j == wk[w].item
<1>1. wk[w] \in Task
  BY Busy DEF ProcHandoffCommit, ProcComplete, ProcSkip, ProcFail, FinComplete,
              FinFail, FinVerdict, SoftTimeLimitInFinalize, TypeOK
<1>2. j \in Items /\ row[j] \in Row /\ wk[w].seen \in Row
  BY <1>1 DEF Task, TypeOK
<1>3. ASSUME NEW r, Write(j, r), lock[j] \in Workers \cup {"free"}, r.life = row[j].life,
             r.status \in {row[j].status, "processing", "completed", "failed", "skipped"}
      PROVE  StatusMove(i)
  BY <1>2, <1>3, Written DEF StatusMove, TypeOK
<1>4. CASE ProcComplete(w) \/ FinComplete(w)
  <2>1. Write(j, CompletedRow(row[j], wk[w].seen)) /\ lock[j] \in Workers \cup {"free"}
    BY <1>4 DEF ProcComplete, FinComplete, FreeFor
  <2> QED BY <1>2, <1>3, <2>1, Outcomes
<1>5. CASE ProcSkip(w)
  <2>1. Write(j, SkippedRow(row[j], wk[w].seen)) /\ lock[j] \in Workers \cup {"free"}
    BY <1>5 DEF ProcSkip, FreeFor
  <2> QED BY <1>2, <1>3, <2>1, Outcomes
<1>6. CASE ProcFail(w) \/ FinFail(w)
  <2>1. Write(j, FailedRow(row[j], wk[w].seen)) /\ lock[j] \in Workers \cup {"free"}
    BY <1>6 DEF ProcFail, FinFail, FreeFor
  <2> QED BY <1>2, <1>3, <2>1, Outcomes
<1>7. CASE FinVerdict(w)
  <2>1. CASE UNCHANGED row
    BY <2>1 DEF StatusMove
  <2>2. CASE lock[j] = "free" /\ Write(j, FailedRow(row[j], wk[w].seen))
    BY <1>2, <1>3, <2>2, Outcomes
  <2> QED BY <1>7, <2>1, <2>2 DEF FinVerdict
<1>8. CASE SoftTimeLimitInFinalize(w)
  <2>1. CASE UNCHANGED row
    BY <2>1 DEF StatusMove
  <2>2. CASE lock[j] = "free" /\ Write(j, [row[j] EXCEPT !.body = TRUE])
    <3>1. /\ [row[j] EXCEPT !.body = TRUE].life = row[j].life
          /\ [row[j] EXCEPT !.body = TRUE].status = row[j].status
      BY <1>2 DEF Row
    <3> QED BY <1>3, <2>2, <3>1
  <2> QED BY <1>8, <2>1, <2>2 DEF SoftTimeLimitInFinalize
<1>9. CASE ProcHandoffCommit(w)
  <2>1. CASE lock[j] = w
    <3>1. Write(j, [row[j] EXCEPT !.status = "processing"])
      BY <1>9, <2>1 DEF ProcHandoffCommit
    <3>2. /\ [row[j] EXCEPT !.status = "processing"].life = row[j].life
          /\ [row[j] EXCEPT !.status = "processing"].status = "processing"
      BY <1>2 DEF Row
    <3> QED BY <1>3, <2>1, <3>1, <3>2
  <2>2. CASE lock[j] # w
    BY <1>9, <2>2 DEF ProcHandoffCommit, StatusMove
  <2> QED BY <2>1, <2>2
<1> QED BY <1>4, <1>5, <1>6, <1>7, <1>8, <1>9

\* Every step moves a row in one of these ways.
LEMMA StatusMoves ==
  ASSUME TypeOK, [Next]_vars, NEW i \in Items
  PROVE  StatusMove(i)
<1>1. ASSUME row' = row PROVE StatusMove(i)
  BY <1>1 DEF StatusMove
<1>2. CASE Still \/ \E r \in Runs : RunAges(r)
  BY <1>1, <1>2 DEF Still, RunAges
<1>3. CASE RequestStep \/ RequestLost
  <2>1. CASE ReprocessCommit
    <3>1. api.item \in Items
      BY <2>1 DEF ReprocessCommit, TypeOK, Request
    <3>2. PICK r : Write(api.item, r)
      BY <2>1 DEF ReprocessCommit
    <3> QED BY <2>1, <3>1, <3>2, Written DEF TypeOK, StatusMove
  <2> QED BY <1>1, <1>3, <2>1 DEF RequestStep, ReprocessFlush, RequestLost
<1>4. CASE SweepCommit
  <2>1. SweptRow(i).status \in {"failed", row[i].status} /\ SweptRow(i).life = row[i].life
    BY DEF SweptRow, Row, TypeOK
  <2>2. CASE i \in sweep.pending \cup sweep.stuck
    BY <1>4, <2>1, <2>2 DEF SweepCommit, StatusMove
  <2>3. CASE i \notin sweep.pending \cup sweep.stuck
    BY <1>4, <2>3 DEF SweepCommit, StatusMove
  <2> QED BY <2>2, <2>3
<1>5. CASE UserStep
  <2>1. ASSUME NEW j \in Items, Save(j) PROVE StatusMove(i)
    BY <2>1 DEF Save, StatusMove, TypeOK
  <2>2. ASSUME NEW j \in Items, ReprocessCheck(j) PROVE StatusMove(i)
    BY <1>1, <2>2 DEF ReprocessCheck
  <2>3. ASSUME NEW j \in Items, NEW from, NEW to, Bury(j, from, to) PROVE StatusMove(i)
    <3> DEFINE r == [row[j] EXCEPT !.life = to, !.body = @ /\ to # "purged"]
    <3>1. r.status = row[j].status
      BY DEF TypeOK, Row
    <3>2. Write(j, r) /\ Spend("trash") /\ lock[j] = "free"
      BY <2>3 DEF Bury
    <3> HIDE DEF r
    <3>3. row'[i] = IF i = j THEN r ELSE row[i]
      BY <3>2, Written DEF TypeOK
    <3> QED BY <3>1, <3>2, <3>3 DEF StatusMove
  <2> QED BY <1>5, <2>1, <2>2, <2>3 DEF UserStep, Trash, Restore, Purge
<1>6. CASE RescueStep
  <2>1. CASE RescueCommit
    BY <1>1, <2>1 DEF RescueCommit, RescueSees, StatusMove
  <2>2. CASE RescueList \/ RescueAbort \/ RescueFinish
    BY <1>1, <2>2 DEF RescueList, RescueAbort, RescueFinish
  <2>3. ASSUME NEW r \in Runs, RescueSkip(r) \/ RescueOpen(r) \/ RescueTimeout(r)
        PROVE  StatusMove(i)
    BY <1>1, <2>3 DEF RescueSkip, RescueOpen, RescueTimeout
  <2> QED BY <1>6, <2>1, <2>2, <2>3 DEF RescueStep
<1>7. ASSUME NEW w \in Workers, WorkerMove(w) PROVE StatusMove(i)
  <2>1. CASE Receive(w) \/ ProcClaim(w) \/ (\E r \in Runs : ProcHandoff(w, r)) \/ Handed(w)
    BY <1>1, <2>1 DEF Receive, ProcMissing, ProcRead, FinIgnore, FinRead, ProcClaim,
                      ProcHandoff, Handed
  <2>2. CASE FinFetch(w) \/ FinOpen(w) \/ FinClash(w) \/ FinMark(w)
    BY <1>1, <2>2 DEF FinFetch, FinOpen, FinClash, FinMark
  <2>3. CASE After(w) \/ Answer(w) \/ Raise(w) \/ Crash(w) \/ SoftTimeLimit(w)
    BY <1>1, <2>3 DEF After, Answer, Raise, Crash, SoftTimeLimit
  <2> QED BY <1>7, <2>1, <2>2, <2>3, WorkerStatus
      DEF WorkerMove, WorkerStep, Process, Finalize
<1> QED BY <1>2, <1>3, <1>4, <1>5, <1>6, <1>7, Kinds
-------------------------------------------------------------------------------
(* Whoever works on an item works on one that was saved.                     *)

\* The item was saved.
Saved(i) == row[i].status # "absent"

\* Where a worker has a capture in hand.
Capturing == {"read", "work", "handoff"}

\* Captures in hand, runs, the request and what a tick flushed are of saved items.
WorkIsOnSaved ==
  /\ \A w \in Workers : wk[w].pc \in Capturing => Saved(wk[w].item)
  /\ \A r \in Runs : Known(r) => Saved(run[r].item)
  /\ api # Idle => Saved(api.item)
  /\ rescue # Idle => \A i \in rescue.written : Saved(i) /\ rescue.rows[i].status # "absent"

\* A worker has a capture in hand by reading it, claiming it or starting its run.
LEMMA CapturingMoves ==
  ASSUME TypeOK, NEW w \in Workers, WorkerMove(w), wk'[w].pc \in Capturing
  PROVE  \/ wk'[w] = wk[w]
         \/ \E i \in Items, n \in 0..MaxRetries : ProcRead(w, i, n)
         \/ ProcClaim(w) \/ \E r \in Runs : ProcHandoff(w, r)
<1>1. ASSUME Ack(w) PROVE FALSE
  BY <1>1 DEF Ack, Become, Idle, Capturing, TypeOK
<1>2. ASSUME NEW pc \in Stage, wk[w] \in Task, Done(w, pc) PROVE wk'[w].pc = pc
  BY <1>2 DEF Done, Become, Task, TypeOK
<1>3. CASE Receive(w)
  <2>1. ASSUME NEW r \in Runs, NEW n \in 0..MaxRetries, FinRead(w, r, n) PROVE FALSE
    BY <2>1 DEF FinRead, Become, TypeOK, Capturing
  <2> QED BY <1>3, <2>1 DEF Receive, ProcMissing, FinIgnore
<1>4. CASE \/ ProcHandoffCommit(w) \/ ProcComplete(w) \/ ProcSkip(w) \/ ProcFail(w)
           \/ FinComplete(w) \/ FinClash(w) \/ FinFail(w) \/ FinMark(w) \/ FinVerdict(w)
           \/ SoftTimeLimit(w) \/ SoftTimeLimitInFinalize(w)
  <2>1. wk[w] \in Task
    BY <1>4, Busy DEF ProcHandoffCommit, ProcComplete, ProcSkip, ProcFail, TypeOK,
         FinComplete, FinClash, FinFail, FinMark, FinVerdict, SoftTimeLimit,
         SoftTimeLimitInFinalize
  <2>2. \E pc \in {"handed", "after", "raise", "answer"} : Done(w, pc)
    BY <1>4 DEF ProcHandoffCommit, ProcComplete, ProcSkip, ProcFail,
         FinComplete, FinClash, FinFail, FinMark, FinVerdict, SoftTimeLimit,
         SoftTimeLimitInFinalize
  <2> QED BY <1>2, <2>1, <2>2 DEF Stage, Capturing
<1>5. CASE Handed(w) \/ After(w) \/ Answer(w) \/ Raise(w) \/ Crash(w)
  BY <1>1, <1>5 DEF Handed, After, Answer, Raise, Crash
<1>6. CASE FinFetch(w) \/ FinOpen(w)
  <2>1. wk[w] \in Task
    BY <1>6, Busy DEF FinFetch, FinOpen, TypeOK
  <2>2. ASSUME NEW pc, NEW seen, NEW chunk,
               Become(w, [wk[w] EXCEPT !.pc = pc, !.seen = seen, !.chunk = chunk])
        PROVE  wk'[w].pc = pc
    BY <2>1, <2>2 DEF Become, Task, TypeOK
  <2>3. ASSUME NEW pc, NEW seen, Become(w, [wk[w] EXCEPT !.pc = pc, !.seen = seen])
        PROVE  wk'[w].pc = pc
    BY <2>1, <2>3 DEF Become, Task, TypeOK
  <2>4. CASE FinOpen(w)
    <3>1. PICK pc \in {"enrich", "mark"} : \E seen, chunk :
            Become(w, [wk[w] EXCEPT !.pc = pc, !.seen = seen, !.chunk = chunk])
      BY <2>4 DEF FinOpen
    <3> QED BY <2>2, <3>1 DEF Capturing
  <2>5. CASE FinFetch(w)
    <3>1. \/ \E pc \in {"verdict", "open", "raise"} : \E seen :
                Become(w, [wk[w] EXCEPT !.pc = pc, !.seen = seen])
          \/ Done(w, "raise")
      BY <2>5 DEF FinFetch
    <3> QED BY <1>2, <2>1, <2>3, <3>1 DEF Capturing, Stage
  <2> QED BY <1>6, <2>4, <2>5
<1> QED BY <1>3, <1>4, <1>5, <1>6 DEF WorkerMove, WorkerStep, Process, Finalize

\* What those steps put in a worker's hands.
LEMMA CapturingTask ==
  ASSUME TypeOK, NEW w \in Workers
  PROVE  /\ \A i \in Items, n \in 0..MaxRetries : ProcRead(w, i, n) =>
              /\ wk'[w].pc = "read" /\ wk'[w].msg = ProcessMsg(i, n)
              /\ wk'[w].item = i /\ wk'[w].seen = row[i] /\ wk'[w].run = None
         /\ ProcClaim(w) =>
              /\ wk[w] \in Task /\ wk'[w].pc = "work" /\ wk'[w].msg = wk[w].msg
              /\ wk'[w].item = wk[w].item /\ wk'[w].run = wk[w].run
              /\ IF wk[w].seen.status = "processing" THEN wk'[w].seen = row[wk[w].item]
                 ELSE wk'[w].seen.status = "processing"
         /\ \A r \in Runs : ProcHandoff(w, r) =>
              /\ wk[w] \in Task /\ wk'[w].pc = "handoff" /\ wk'[w].msg = wk[w].msg
              /\ wk'[w].item = wk[w].item /\ wk'[w].run = r
<1>1. ASSUME NEW i \in Items, NEW n \in 0..MaxRetries, ProcRead(w, i, n)
      PROVE  /\ wk'[w].pc = "read" /\ wk'[w].msg = ProcessMsg(i, n)
             /\ wk'[w].item = i /\ wk'[w].seen = row[i] /\ wk'[w].run = None
  BY <1>1 DEF ProcRead, Become, TypeOK
<1>2. ASSUME ProcClaim(w)
      PROVE  /\ wk[w] \in Task /\ wk'[w].pc = "work" /\ wk'[w].msg = wk[w].msg
             /\ wk'[w].item = wk[w].item /\ wk'[w].run = wk[w].run
             /\ IF wk[w].seen.status = "processing" THEN wk'[w].seen = row[wk[w].item]
                ELSE wk'[w].seen.status = "processing"
  <2>1. wk[w] \in Task /\ wk[w].pc = "read"
    BY <1>2, Busy DEF ProcClaim, TypeOK
  <2>2. ASSUME NEW x, Become(w, [wk[w] EXCEPT !.pc = "work", !.seen = x])
        PROVE  /\ wk'[w].pc = "work" /\ wk'[w].msg = wk[w].msg
               /\ wk'[w].item = wk[w].item /\ wk'[w].seen = x /\ wk'[w].run = wk[w].run
    BY <2>1, <2>2 DEF Become, Task, TypeOK
  <2>3. CASE wk[w].seen.status = "processing"
    BY <1>2, <2>1, <2>2, <2>3 DEF ProcClaim
  <2>4. CASE wk[w].seen.status # "processing"
    <3>1. Become(w, [wk[w] EXCEPT !.pc = "work",
                       !.seen = [row[wk[w].item] EXCEPT !.status = "processing"]])
      BY <1>2, <2>4 DEF ProcClaim
    <3>2. [row[wk[w].item] EXCEPT !.status = "processing"].status = "processing"
      BY <2>1 DEF Task, Row, TypeOK
    <3> QED BY <2>1, <2>2, <2>4, <3>1, <3>2
  <2> QED BY <2>3, <2>4
<1>3. ASSUME NEW r \in Runs, ProcHandoff(w, r)
      PROVE  /\ wk[w] \in Task /\ wk'[w].pc = "handoff" /\ wk'[w].msg = wk[w].msg
             /\ wk'[w].item = wk[w].item /\ wk'[w].run = r
  <2>1. wk[w] \in Task
    BY <1>3, Busy DEF ProcHandoff, TypeOK
  <2> QED BY <1>3, <2>1 DEF ProcHandoff, Become, Task, TypeOK
<1> QED BY <1>1, <1>2, <1>3
\* Saving and sending back make a row pending.
LEMMA MadePending ==
  ASSUME TypeOK, NEW i \in Items, Save(i) \/ (ReprocessCommit /\ api.item = i)
  PROVE  /\ row'[i].status = "pending" /\ row'[i].life = row[i].life
         /\ Save(i) => row[i].status = "absent"
<1>1. row[i] \in Row
  BY DEF TypeOK
<1>2. ASSUME NEW s \in Nat, NEW b \in BOOLEAN
      PROVE  LET r == [row[i] EXCEPT !.status = "pending", !.retry = s, !.body = b]
             IN  r.status = "pending" /\ r.life = row[i].life
  BY <1>1 DEF Row
<1>3. CASE Save(i)
  <2> DEFINE r == [row[i] EXCEPT !.status = "pending", !.body = (i \in Authored)]
  <2>1. ASSUME NEW b \in BOOLEAN
        PROVE  LET x == [row[i] EXCEPT !.status = "pending", !.body = b]
               IN  x.status = "pending" /\ x.life = row[i].life
    BY <1>1 DEF Row
  <2>2. (i \in Authored) \in BOOLEAN
    OBVIOUS
  <2>3. r.status = "pending" /\ r.life = row[i].life
    BY <2>1, <2>2
  <2>4. row' = [row EXCEPT ![i] = r] /\ row[i].status = "absent"
    BY <1>3, Zenon DEF Save
  <2> HIDE DEF r
  <2> QED BY <2>3, <2>4 DEF TypeOK
<1>4. CASE ReprocessCommit /\ api.item = i
  <2> DEFINE s == Assign(api.retry, 0, row[i].retry)
             b == row[i].body /\ i \notin Voice
             r == [row[i] EXCEPT !.status = "pending", !.retry = s, !.body = b]
  <2>1. s \in Nat /\ b \in BOOLEAN
    BY <1>1 DEF Assign, Row
  <2>2. Write(i, [row[i] EXCEPT !.status = "pending",
                                !.retry = Assign(api.retry, 0, @),
                                !.body = @ /\ i \notin Voice])
    BY <1>4 DEF ReprocessCommit
  <2>3. [row[i] EXCEPT !.status = "pending", !.retry = Assign(api.retry, 0, @),
                       !.body = @ /\ i \notin Voice] = r
    BY <1>1 DEF Row
  <2>4. r.status = "pending" /\ r.life = row[i].life
    BY <1>2, <2>1
  <2>5. Write(i, r)
    BY <2>2, <2>3
  <2> HIDE DEF r
  <2>6. row'[i] = r
    BY <2>5 DEF Write, TypeOK
  <2>7. api # Idle /\ api.pc = "flushed"
    BY <1>4 DEF ReprocessCommit
  <2>8. ~Save(i)
    BY <1>4 DEF Save, ReprocessCommit, Idle
  <2> QED BY <2>4, <2>6, <2>8
<1> QED BY <1>3, <1>4

\* A saved item stays one.
LEMMA SavedStays ==
  ASSUME TypeOK, WorkIsOnSaved, [Next]_vars, NEW i \in Items, Saved(i)
  PROVE  Saved(i)'
<1>1. CASE RescueCommit /\ i \in rescue.written /\ row'[i] = rescue.rows[i]
  BY <1>1 DEF WorkIsOnSaved, Saved, RescueCommit
<1>2. CASE Save(i) \/ (ReprocessCommit /\ api.item = i)
  BY <1>2, MadePending DEF Saved
<1>3. CASE row'[i].status \in {row[i].status, "processing", "completed", "failed", "skipped"}
  BY <1>3 DEF Saved
<1>4. \/ RescueCommit /\ i \in rescue.written /\ row'[i] = rescue.rows[i]
      \/ Save(i) \/ (ReprocessCommit /\ api.item = i)
      \/ row'[i].status \in {row[i].status, "processing", "completed", "failed", "skipped"}
  BY StatusMoves DEF StatusMove
<1> QED BY <1>1, <1>2, <1>3, <1>4

\* What a tick has flushed it had flushed before, or flushes now for a run of the
\* item; and it holds the lock.
LEMMA Flushed ==
  ASSUME TypeOK, RunsKnown, RescueStep, rescue' # Idle, NEW i \in rescue'.written
  PROVE  /\ rescue # Idle /\ rescue \in Rescue /\ i \in Items
         /\ \/ i \in rescue.written /\ lock'[i] = lock[i]
            \/ lock'[i] = "sweep" /\ \E r \in Runs : Known(r) /\ run[r].item = i
<1> DEFINE Goal ==
      /\ rescue # Idle /\ rescue \in Rescue /\ i \in Items
      /\ \/ i \in rescue.written /\ lock'[i] = lock[i]
         \/ lock'[i] = "sweep" /\ \E r \in Runs : Known(r) /\ run[r].item = i
<1>1. ASSUME rescue # Idle, rescue'.written = rescue.written, UNCHANGED lock
      PROVE  Goal
  BY <1>1 DEF TypeOK, Rescue
<1>2. ASSUME rescue # Idle, NEW r, NEW to, NEW j \in Items, NEW new,
             Flush(r, to, j, new), \E q \in Runs : Known(q) /\ run[q].item = j
      PROVE  Goal
  <2>1. rescue \in Rescue
    BY <1>2 DEF TypeOK
  <2>2. rescue'.written = rescue.written \cup {j}
    BY <1>2, <2>1 DEF Flush, Rescue
  <2>3. lock' = [lock EXCEPT ![j] = "sweep"] /\ rescue.written \subseteq Items
    BY <1>2, <2>1 DEF Flush, Rescue
  <2>4. lock \in [Items -> Workers \cup {"free", "api", "sweep"}]
    BY DEF TypeOK
  <2> QED BY <1>2, <2>1, <2>2, <2>3, <2>4
<1>3. ASSUME rescue # Idle, NEW r, NEW to, Keep(r, to) PROVE Goal
  <2>1. rescue'.written = rescue.written
    BY <1>3 DEF Keep, Rescue, TypeOK
  <2> QED BY <1>1, <1>3, <2>1 DEF Keep
<1>4. CASE RescueList
  BY <1>4 DEF RescueList
<1>5. CASE RescueAbort \/ RescueCommit
  BY <1>5 DEF RescueAbort, RescueCommit
<1>6. CASE RescueFinish
  <2>1. rescue # Idle /\ Known(rescue.run)
    BY <1>6 DEF RescueFinish, RunsKnown
  <2>2. run[rescue.run].item \in Items
    BY <2>1, RowOf
  <2> QED BY <1>2, <1>6, <2>1, <2>2 DEF RescueFinish, Known
<1>7. ASSUME NEW r \in Runs, RescueSkip(r) \/ RescueOpen(r) \/ RescueTimeout(r)
      PROVE  Goal
  <2>1. rescue # Idle /\ rescue \in Rescue /\ Known(r)
    BY <1>7 DEF RescueSkip, RescueOpen, RescueTimeout, Scanning, TypeOK, RunsKnown
  <2>2. run[r].item \in Items
    BY <2>1, RowOf
  <2>3. CASE RescueSkip(r)
    <3>1. rescue'.written = rescue.written
      BY <2>1, <2>3 DEF RescueSkip, Rescue
    <3> QED BY <1>1, <2>1, <2>3, <3>1 DEF RescueSkip
  <2>4. CASE RescueTimeout(r)
    BY <1>2, <1>3, <2>1, <2>2, <2>4 DEF RescueTimeout
  <2>5. CASE RescueOpen(r)
    <3>1. CASE Keep(r, "succeeded")
      BY <1>3, <2>1, <3>1
    <3>2. CASE ~Keep(r, "succeeded")
      <4>1. rescue'.written = rescue.written
        BY <2>1, <2>5, <3>2 DEF RescueOpen, Rescue
      <4> QED BY <1>1, <2>1, <2>5, <3>2, <4>1 DEF RescueOpen
    <3> QED BY <3>1, <3>2
  <2> QED BY <1>7, <2>3, <2>4, <2>5
<1> QED BY <1>4, <1>5, <1>6, <1>7 DEF RescueStep
\* What a worker holds when it commits a hand-off was saved, and only that
\* commit gives a run its row.
LEMMA WorkIsOnSavedStep ==
  ASSUME TypeOK, RunsKnown, WorkIsOnSaved, [Next]_vars
  PROVE  WorkIsOnSaved'
<1>0. ASSUME NEW i \in Items, Saved(i) PROVE row'[i].status # "absent"
  BY <1>0, SavedStays DEF Saved
<1>1. ASSUME NEW w \in Workers, wk'[w].pc \in Capturing
      PROVE  row'[wk'[w].item].status # "absent"
  <2>1. CASE wk'[w] = wk[w]
    <3>1. wk[w] \in Task
      BY <1>1, <2>1, Busy DEF TypeOK, Capturing
    <3>2. wk[w].item \in Items /\ Saved(wk[w].item)
      BY <1>1, <2>1, <3>1 DEF WorkIsOnSaved, Task
    <3> QED BY <1>0, <2>1, <3>2
  <2>2. CASE wk'[w] # wk[w]
    <3>1. WorkerMove(w)
      <4>1. ASSUME NEW v \in Workers, WorkerMove(v) PROVE v = w
        BY <2>2, <4>1 DEF WorkerMove
      <4>2. wk' # wk
        BY <2>2
      <4>3. CASE UserStep \/ RequestStep \/ RequestLost \/ SweepCommit \/ RescueStep
        BY <4>2, <4>3
        DEF UserStep, Save, ReprocessCheck, Trash, Restore, Purge, Bury, RequestStep,
            ReprocessFlush, ReprocessCommit, RequestLost, SweepCommit, RescueStep,
            RescueList, RescueFinish, RescueAbort, RescueSkip, RescueOpen,
            RescueTimeout, RescueCommit
      <4>4. CASE Still \/ \E r \in Runs : RunAges(r)
        BY <4>2, <4>4 DEF Still, RunAges
      <4> QED BY <4>1, <4>3, <4>4, Kinds
    <3>2. CASE \E i \in Items, n \in 0..MaxRetries : ProcRead(w, i, n)
      <4>1. PICK i \in Items, n \in 0..MaxRetries : ProcRead(w, i, n)
        BY <3>2
      <4>2. wk'[w].item = i /\ Saved(i)
        BY <4>1, CapturingTask DEF ProcRead, Visible, Saved
      <4> QED BY <1>0, <4>2
    <3>3. CASE ProcClaim(w) \/ \E r \in Runs : ProcHandoff(w, r)
      <4>1. wk[w].pc \in Capturing
        BY <3>3 DEF ProcClaim, ProcHandoff, Capturing
      <4>2. wk'[w].item = wk[w].item /\ wk[w].item \in Items
        BY <3>3, CapturingTask DEF Task
      <4> QED BY <1>0, <4>1, <4>2 DEF WorkIsOnSaved
    <3> QED BY <1>1, <2>2, <3>1, <3>2, <3>3, CapturingMoves
  <2> QED BY <2>1, <2>2
<1>2. ASSUME NEW r \in Runs, Known(r)' PROVE row'[run'[r].item].status # "absent"
  <2>1. CASE run[r].status # "absent" /\ run'[r].item = run[r].item
    <3>1. Known(r) /\ run[r].item \in Items
      BY <2>1, RowOf DEF Known
    <3> QED BY <1>0, <2>1, <3>1 DEF WorkIsOnSaved
  <2>2. ASSUME NEW w \in Workers, ProcHandoffCommit(w), wk[w].run = r
        PROVE  row'[run'[r].item].status # "absent"
    <3>1. wk[w] \in Task /\ wk[w].pc \in Capturing
      BY <2>2, Busy DEF ProcHandoffCommit, TypeOK, Capturing
    <3>2. run'[r].item = wk[w].item
      BY <2>2 DEF ProcHandoffCommit, TypeOK
    <3> QED BY <1>0, <3>1, <3>2 DEF WorkIsOnSaved, Task
  <2> QED BY <1>2, <2>1, <2>2, RunsAppear DEF Known
<1>3. ASSUME api' # Idle PROVE row'[api'.item].status # "absent"
  <2>1. CASE api # Idle /\ api'.item = api.item
    <3>1. api.item \in Items
      BY <2>1 DEF TypeOK, Request
    <3> QED BY <1>0, <2>1, <3>1 DEF WorkIsOnSaved
  <2>2. ASSUME NEW i \in Items, ReprocessCheck(i) PROVE row'[api'.item].status # "absent"
    <3>1. api'.item = i /\ Saved(i)
      BY <2>2 DEF ReprocessCheck, MayReprocess, Visible, Saved
    <3> QED BY <1>0, <3>1
  <2>3. CASE ReprocessFlush
    BY <2>1, <2>3 DEF ReprocessFlush, TypeOK, Request
  <2>4. CASE ReprocessCommit \/ RequestLost
    BY <1>3, <2>4 DEF ReprocessCommit, RequestLost
  <2>5. CASE UNCHANGED api
    BY <1>3, <2>1, <2>5
  <2>6. CASE UserStep
    BY <2>2, <2>5, <2>6 DEF UserStep, Save, Trash, Restore, Purge, Bury
  <2>7. CASE SweepCommit \/ RescueStep
    BY <2>5, <2>7
    DEF SweepCommit, RescueStep, RescueList, RescueFinish, RescueAbort, RescueSkip,
        RescueOpen, RescueTimeout, RescueCommit
  <2>8. CASE Still \/ (\E r \in Runs : RunAges(r)) \/ \E w \in Workers : WorkerMove(w)
    BY <2>5, <2>8 DEF Still, RunAges, WorkerMove
  <2> QED BY <2>3, <2>4, <2>6, <2>7, <2>8, Kinds DEF RequestStep
<1>4. ASSUME rescue' # Idle, NEW i \in rescue'.written
      PROVE  row'[i].status # "absent" /\ rescue'.rows[i].status # "absent"
  <2>1. /\ rescue # Idle /\ rescue \in Rescue /\ i \in Items
        /\ \/ i \in rescue.written /\ rescue'.rows[i] = rescue.rows[i]
           \/ \E seen \in Row :
                \/ rescue'.rows[i] = CompletedRow(RescueSees(i), seen)
                \/ rescue'.rows[i] = FailedRow(RescueSees(i), seen)
    BY <1>4, RescueWrites
  <2>2. Saved(i)
    <3>1. CASE rescue' = rescue
      BY <1>4, <3>1 DEF WorkIsOnSaved
    <3>2. CASE RescueStep
      BY <1>4, <3>2, Flushed DEF WorkIsOnSaved
    <3> QED BY <3>1, <3>2, RescueMoves
  <2>3. RescueSees(i) \in Row /\ RescueSees(i).status # "absent"
    BY <2>1, <2>2 DEF RescueSees, Rescue, WorkIsOnSaved, Saved, TypeOK
  <2>4. rescue'.rows[i].status # "absent"
    <3>1. CASE i \in rescue.written /\ rescue'.rows[i] = rescue.rows[i]
      BY <2>1, <3>1 DEF WorkIsOnSaved
    <3>2. ASSUME NEW seen \in Row,
                 \/ rescue'.rows[i] = CompletedRow(RescueSees(i), seen)
                 \/ rescue'.rows[i] = FailedRow(RescueSees(i), seen)
          PROVE  rescue'.rows[i].status # "absent"
      <4>1. /\ CompletedRow(RescueSees(i), seen).status \in {"completed", RescueSees(i).status}
            /\ FailedRow(RescueSees(i), seen).status \in {"failed", RescueSees(i).status}
        BY <2>3, Outcomes
      <4> QED BY <2>3, <3>2, <4>1
    <3> QED BY <2>1, <3>1, <3>2
  <2> QED BY <1>0, <2>1, <2>2, <2>4
<1> QED BY <1>1, <1>2, <1>3, <1>4 DEF WorkIsOnSaved, Known, Saved
-------------------------------------------------------------------------------
(* The request and the rescue tick hold the rows they are about to write.    *)

\* A request past its flush holds its item; a tick holds what it has flushed,
\* and what it holds back is an outcome or the status the row has.
HoldsLocks ==
  /\ api # Idle /\ api.pc = "flushed" => lock[api.item] = "api"
  /\ rescue # Idle => \A i \in rescue.written :
       /\ lock[i] = "sweep"
       /\ rescue.rows[i].status \in {"completed", "failed", row[i].status}
       /\ rescue.rows[i].life = row[i].life

\* Nobody takes a lock that is held: it is only released.
LEMMA LockMoves ==
  ASSUME TypeOK, [Next]_vars, NEW i \in Items, lock[i] \in {"api", "sweep"}
  PROVE  \/ lock'[i] = lock[i]
         \/ lock[i] = "api" /\ (ReprocessCommit \/ RequestLost)
         \/ lock[i] = "sweep" /\ (RescueAbort \/ RescueCommit)
<1> DEFINE Goal ==
      \/ lock'[i] = lock[i]
      \/ lock[i] = "api" /\ (ReprocessCommit \/ RequestLost)
      \/ lock[i] = "sweep" /\ (RescueAbort \/ RescueCommit)
<1>1. lock \in [Items -> Workers \cup {"free", "api", "sweep"}]
      /\ lock[i] \notin Workers \cup {"free"}
  BY ConstantsAssumption DEF TypeOK
<1>2. ASSUME NEW p \in Workers, Release(p) PROVE lock'[i] = lock[i]
  BY <1>1, <1>2 DEF Release
<1>3. ASSUME UNCHANGED lock PROVE Goal
  BY <1>3
<1>4. CASE Still \/ (\E r \in Runs : RunAges(r)) \/ UserStep \/ SweepCommit
  BY <1>3, <1>4 DEF Still, RunAges, UserStep, Save, ReprocessCheck, Trash, Restore,
                    Purge, Bury, SweepCommit
<1>5. CASE RequestStep \/ RequestLost
  <2>1. CASE ReprocessFlush
    BY <1>1, <2>1 DEF ReprocessFlush
  <2>2. CASE ReprocessCommit \/ RequestLost
    BY <1>1, <2>2 DEF ReprocessCommit, RequestLost, Release
  <2> QED BY <1>5, <2>1, <2>2 DEF RequestStep
<1>6. CASE RescueStep
  <2>1. CASE RescueAbort \/ RescueCommit
    BY <1>1, <2>1 DEF RescueAbort, RescueCommit, Release
  <2>2. ASSUME NEW r, NEW to, NEW j, NEW new, Flush(r, to, j, new)
        PROVE  lock'[i] = lock[i]
    BY <1>1, <2>2 DEF Flush, FreeFor
  <2>3. CASE RescueFinish
    BY <1>3, <2>2, <2>3 DEF RescueFinish
  <2>4. ASSUME NEW r \in Runs, RescueSkip(r) \/ RescueOpen(r) \/ RescueTimeout(r)
        PROVE  Goal
    BY <1>3, <2>2, <2>4 DEF RescueSkip, RescueOpen, RescueTimeout, Keep
  <2>5. CASE RescueList
    BY <1>3, <2>5 DEF RescueList
  <2> QED BY <1>6, <2>1, <2>3, <2>4, <2>5 DEF RescueStep
<1>7. ASSUME NEW w \in Workers, WorkerMove(w) PROVE Goal
  <2>1. CASE ProcClaim(w)
    BY <1>1, <2>1 DEF ProcClaim
  <2>2. CASE \/ ProcHandoffCommit(w) \/ ProcComplete(w) \/ ProcSkip(w) \/ ProcFail(w)
             \/ Crash(w) \/ SoftTimeLimit(w)
    BY <1>2, <2>2 DEF ProcHandoffCommit, ProcComplete, ProcSkip, ProcFail, Crash,
                      SoftTimeLimit
  <2>3. CASE Receive(w) \/ (\E r \in Runs : ProcHandoff(w, r)) \/ Handed(w)
    BY <1>3, <2>3 DEF Receive, ProcMissing, ProcRead, FinIgnore, FinRead, ProcHandoff,
                      Handed
  <2>4. CASE Finalize(w)
    BY <1>3, <2>4 DEF Finalize, FinFetch, FinOpen, FinClash, FinComplete, FinFail,
                      FinMark, FinVerdict
  <2>5. CASE After(w) \/ Answer(w) \/ Raise(w) \/ SoftTimeLimitInFinalize(w)
    BY <1>3, <2>5 DEF After, Answer, Raise, SoftTimeLimitInFinalize
  <2> QED BY <1>7, <2>1, <2>2, <2>3, <2>4, <2>5 DEF WorkerMove, WorkerStep, Process
<1> QED BY <1>4, <1>5, <1>6, <1>7, Kinds

\* Nobody else writes a row that is held.
LEMMA HeldRow ==
  ASSUME TypeOK, WorkIsOnSaved, HoldsLocks, [Next]_vars, NEW i \in Items, Saved(i)
  PROVE  /\ lock[i] = "sweep" => row'[i] = row[i] \/ RescueCommit
         /\ lock[i] = "api" => row'[i] = row[i] \/ ReprocessCommit
<1>1. ~Save(i)
  BY DEF Save, Saved
<1>2. lock[i] \in {"api", "sweep"} => lock[i] \notin Workers \cup {"free"}
  BY ConstantsAssumption
<1>3. RescueCommit /\ i \in rescue.written => lock[i] = "sweep"
  BY DEF HoldsLocks, RescueCommit
<1>4. ReprocessCommit /\ api.item = i => lock[i] = "api"
  BY DEF HoldsLocks, ReprocessCommit
<1>5. StatusMove(i)
  BY StatusMoves
<1>6. /\ lock[i] = "sweep" => row'[i] = row[i] \/ RescueCommit
      /\ lock[i] = "api" => row'[i] = row[i] \/ ReprocessCommit
  BY <1>1, <1>2, <1>3, <1>4, <1>5 DEF StatusMove
<1> QED BY <1>6

\* How a request moves on.
LEMMA RequestMoves ==
  ASSUME TypeOK, [Next]_vars
  PROVE  \/ UNCHANGED api
         \/ \E i \in Items : ReprocessCheck(i) /\ api'.pc = "checked"
         \/ ReprocessFlush /\ api'.item = api.item
         \/ (ReprocessCommit \/ RequestLost) /\ api' = Idle
<1>1. CASE RequestStep \/ RequestLost
  BY <1>1 DEF RequestStep, ReprocessFlush, ReprocessCommit, RequestLost, TypeOK, Request
<1>2. CASE UserStep
  BY <1>2 DEF UserStep, Save, ReprocessCheck, Trash, Restore, Purge, Bury
<1>3. CASE SweepCommit \/ RescueStep
  BY <1>3
  DEF SweepCommit, RescueStep, RescueList, RescueFinish, RescueAbort, RescueSkip,
      RescueOpen, RescueTimeout, RescueCommit
<1>4. CASE Still \/ (\E r \in Runs : RunAges(r)) \/ \E w \in Workers : WorkerMove(w)
  BY <1>4 DEF Still, RunAges, WorkerMove
<1> QED BY <1>1, <1>2, <1>3, <1>4, Kinds

\* The locks are held as long as they are needed.
LEMMA HoldsLocksStep ==
  ASSUME TypeOK, RunsKnown, WorkIsOnSaved, HoldsLocks, [Next]_vars
  PROVE  HoldsLocks'
<1>1. ASSUME api' # Idle, api'.pc = "flushed" PROVE lock'[api'.item] = "api"
  <2>1. CASE ReprocessFlush
    BY <1>1, <2>1 DEF ReprocessFlush, TypeOK, Request
  <2>2. CASE UNCHANGED api
    <3>1. api.item \in Items /\ lock[api.item] = "api"
      BY <1>1, <2>2 DEF HoldsLocks, TypeOK, Request
    <3>2. ~ReprocessCommit /\ ~RequestLost
      BY <1>1, <2>2 DEF ReprocessCommit, RequestLost
    <3> QED BY <2>2, <3>1, <3>2, LockMoves
  <2> QED BY <1>1, <2>1, <2>2, RequestMoves
<1>2. ASSUME rescue' # Idle, NEW i \in rescue'.written
      PROVE  /\ lock'[i] = "sweep"
             /\ rescue'.rows[i].status \in {"completed", "failed", row'[i].status}
             /\ rescue'.rows[i].life = row'[i].life
  <2>1. /\ rescue # Idle /\ rescue \in Rescue /\ i \in Items
        /\ \/ i \in rescue.written /\ rescue'.rows[i] = rescue.rows[i]
           \/ \E seen \in Row :
                \/ rescue'.rows[i] = CompletedRow(RescueSees(i), seen)
                \/ rescue'.rows[i] = FailedRow(RescueSees(i), seen)
    BY <1>2, RescueWrites
  <2>2. ~RescueAbort /\ ~RescueCommit
    BY <1>2 DEF RescueAbort, RescueCommit
  <2>3. lock'[i] = "sweep" /\ Saved(i) /\ (lock[i] = "sweep" \/ RescueStep)
    <3>1. CASE rescue' = rescue
      <4>1. lock[i] = "sweep" /\ Saved(i)
        BY <1>2, <3>1 DEF HoldsLocks, WorkIsOnSaved
      <4> QED BY <2>1, <2>2, <4>1, LockMoves
    <3>2. CASE RescueStep
      BY <1>2, <3>2, Flushed DEF HoldsLocks, WorkIsOnSaved
    <3> QED BY <3>1, <3>2, RescueMoves
  <2>4. row'[i] = row[i]
    <3>1. CASE lock[i] = "sweep"
      BY <2>1, <2>2, <2>3, <3>1, HeldRow
    <3>2. CASE RescueStep
      BY <2>2, <3>2
      DEF RescueStep, RescueList, RescueFinish, RescueSkip, RescueOpen, RescueTimeout
    <3> QED BY <2>3, <3>1, <3>2
  <2>5. /\ RescueSees(i) \in Row /\ RescueSees(i).life = row[i].life
        /\ RescueSees(i).status \in {"completed", "failed", row[i].status}
    BY <2>1 DEF RescueSees, Rescue, HoldsLocks, TypeOK
  <2>6. /\ rescue'.rows[i].status \in {"completed", "failed", row[i].status}
        /\ rescue'.rows[i].life = row[i].life
    <3>1. CASE i \in rescue.written /\ rescue'.rows[i] = rescue.rows[i]
      BY <2>1, <3>1 DEF HoldsLocks
    <3>2. ASSUME NEW seen \in Row,
                 \/ rescue'.rows[i] = CompletedRow(RescueSees(i), seen)
                 \/ rescue'.rows[i] = FailedRow(RescueSees(i), seen)
          PROVE  /\ rescue'.rows[i].status \in {"completed", "failed", row[i].status}
                 /\ rescue'.rows[i].life = row[i].life
      <4> DEFINE now == RescueSees(i)
      <4>1. /\ CompletedRow(now, seen).status \in {"completed", now.status}
            /\ FailedRow(now, seen).status \in {"failed", now.status}
            /\ CompletedRow(now, seen).life = now.life
            /\ FailedRow(now, seen).life = now.life
        BY <2>5, Outcomes
      <4> QED BY <2>5, <3>2, <4>1
    <3> QED BY <2>1, <3>1, <3>2
  <2> QED BY <2>3, <2>4, <2>6
<1> QED BY <1>1, <1>2 DEF HoldsLocks

\* A row becomes pending by being saved or sent back, in no other way.
LEMMA PendingMoves ==
  ASSUME TypeOK, HoldsLocks, [Next]_vars, NEW i \in Items,
         row'[i].status = "pending"
  PROVE  row[i].status = "pending" \/ Save(i) \/ (ReprocessCommit /\ api.item = i)
<1>1. RescueCommit /\ i \in rescue.written =>
        rescue.rows[i].status \in {"completed", "failed", row[i].status}
  BY DEF HoldsLocks, RescueCommit
<1>2. StatusMove(i)
  BY StatusMoves
<1> QED BY <1>1, <1>2 DEF StatusMove

\* What the requeue theorem rests on.
LockInv == TypeOK /\ RunsKnown /\ HandoffIsFresh /\ WorkIsOnSaved /\ HoldsLocks

\* Before anything is saved nothing is held.
LEMMA InitLock == Init => LockInv
<1> SUFFICES ASSUME Init PROVE LockInv
  OBVIOUS
<1>1. WorkIsOnSaved /\ HoldsLocks
  BY DEF Init, WorkIsOnSaved, HoldsLocks, Idle, Capturing, Known, NoRunRow
<1> QED BY <1>1, InitType, InitFresh DEF LockInv

\* No step breaks it.
LEMMA LockStep == LockInv /\ [Next]_vars => LockInv'
  BY TypeStep, RunsKnownStep, FreshStep, WorkIsOnSavedStep, HoldsLocksStep DEF LockInv

\* A worker's outcome, a sweep's or a rescue tick's write never sends a settled
\* item back to the queue: only a reprocess of that item does.
THEOREM OnlyItsOwnerRequeues == Spec => OnlyReprocessRequeues
<1>1. ASSUME LockInv, [Next]_vars
      PROVE  \A i \in Items :
               row[i].status \in {"completed", "failed", "skipped"}
                 /\ row'[i].status = "pending" => api # Idle /\ api.item = i
  <2> SUFFICES ASSUME NEW i \in Items,
                      row[i].status \in {"completed", "failed", "skipped"},
                      row'[i].status = "pending"
               PROVE  api # Idle /\ api.item = i
    OBVIOUS
  <2>1. Save(i) \/ (ReprocessCommit /\ api.item = i)
    BY <1>1, PendingMoves DEF LockInv
  <2>2. ~Save(i)
    BY DEF Save
  <2> QED BY <2>1, <2>2 DEF ReprocessCommit
<1> QED BY <1>1, InitLock, LockStep, PTL DEF Spec, OnlyReprocessRequeues
-------------------------------------------------------------------------------
(* What finalize_run's stages hold.                                         *)

\* A worker that reads, fetches and opens a run keeps the run and its item; from
\* the fetch of a run without data, and from the opening, it works on the row as
\* it is then.
LEMMA FinalizingTask ==
  ASSUME TypeOK, NEW w \in Workers
  PROVE  /\ \A r \in Runs, n \in 0..MaxRetries : FinRead(w, r, n) =>
              /\ wk'[w].pc = "fetch" /\ wk'[w].run = r /\ wk'[w].item = run[r].item
         /\ FinFetch(w) =>
              /\ wk[w] \in Task /\ wk'[w].run = wk[w].run /\ wk'[w].item = wk[w].item
              /\ wk'[w].pc \in {"verdict", "open", "raise"}
              /\ wk'[w].pc = "verdict" => wk'[w].seen = row[wk[w].item]
         /\ FinOpen(w) =>
              /\ wk[w] \in Task /\ wk'[w].run = wk[w].run /\ wk'[w].item = wk[w].item
              /\ wk'[w].pc = IF Visible(wk[w].item) /\ row[wk[w].item].status # "completed"
                             THEN "enrich" ELSE "mark"
              /\ wk'[w].seen = row[wk[w].item]
<1>1. ASSUME NEW r \in Runs, NEW n \in 0..MaxRetries, FinRead(w, r, n)
      PROVE  wk'[w].pc = "fetch" /\ wk'[w].run = r /\ wk'[w].item = run[r].item
  BY <1>1 DEF FinRead, Become, TypeOK
<1>2. ASSUME FinFetch(w)
      PROVE  /\ wk[w] \in Task /\ wk'[w].run = wk[w].run /\ wk'[w].item = wk[w].item
             /\ wk'[w].pc \in {"verdict", "open", "raise"}
             /\ wk'[w].pc = "verdict" => wk'[w].seen = row[wk[w].item]
  <2>1. wk[w] \in Task
    BY <1>2, Busy DEF FinFetch, TypeOK
  <2>2. ASSUME NEW pc, NEW seen, Become(w, [wk[w] EXCEPT !.pc = pc, !.seen = seen])
        PROVE  /\ wk'[w].run = wk[w].run /\ wk'[w].item = wk[w].item
               /\ wk'[w].pc = pc /\ wk'[w].seen = seen
    BY <2>1, <2>2 DEF Become, Task, TypeOK
  <2>3. ASSUME Done(w, "raise")
        PROVE  wk'[w].run = wk[w].run /\ wk'[w].item = wk[w].item /\ wk'[w].pc = "raise"
    BY <2>1, <2>3 DEF Done, Become, Task, TypeOK
  <2>4. \/ \E pc \in {"verdict", "open", "raise"} :
             Become(w, [wk[w] EXCEPT !.pc = pc, !.seen = row[wk[w].item]])
        \/ Done(w, "raise")
    BY <1>2 DEF FinFetch
  <2> QED BY <2>1, <2>2, <2>3, <2>4
<1>3. ASSUME FinOpen(w)
      PROVE  /\ wk[w] \in Task /\ wk'[w].run = wk[w].run /\ wk'[w].item = wk[w].item
             /\ wk'[w].pc = IF Visible(wk[w].item) /\ row[wk[w].item].status # "completed"
                            THEN "enrich" ELSE "mark"
             /\ wk'[w].seen = row[wk[w].item]
  <2>1. wk[w] \in Task
    BY <1>3, Busy DEF FinOpen, TypeOK
  <2>2. ASSUME NEW pc, NEW seen, NEW chunk,
               Become(w, [wk[w] EXCEPT !.pc = pc, !.seen = seen, !.chunk = chunk])
        PROVE  /\ wk'[w].run = wk[w].run /\ wk'[w].item = wk[w].item
               /\ wk'[w].pc = pc /\ wk'[w].seen = seen
    BY <2>1, <2>2 DEF Become, Task, TypeOK
  <2> QED BY <1>3, <2>1, <2>2 DEF FinOpen
<1> QED BY <1>1, <1>2, <1>3

\* A row that still waits for its outcome.
Waits(r) == r.status \in {"pending", "processing"}

\* An outcome settles the row unless what was read was settled and what is there
\* now is not.
LEMMA OutcomeSettles ==
  ASSUME NEW now \in Row, NEW seen \in Row, Waits(seen) \/ ~Waits(now)
  PROVE  /\ ~Waits(CompletedRow(now, seen)) /\ CompletedRow(now, seen).status # "pending"
         /\ ~Waits(FailedRow(now, seen)) /\ ~Waits(SkippedRow(now, seen))
<1>1. ASSUME NEW s \in {"completed", "failed", "skipped"}, NEW n \in Nat
      PROVE  ~Waits(Settle(now, seen, s, n))
  <2>1. Settle(now, seen, s, n).status = Assign(seen.status, s, now.status)
    BY DEF Settle, Row
  <2> QED BY <2>1 DEF Assign, Waits
<1>2. seen.retry + 1 \in Nat
  BY DEF Row
<1>3. Settle(now, seen, "completed", 0) \in Row
  BY SettleType DEF Status
<1>4. CompletedRow(now, seen).status = Settle(now, seen, "completed", 0).status
  BY <1>3 DEF CompletedRow, Row
<1> QED BY <1>1, <1>2, <1>4 DEF SkippedRow, FailedRow, Waits
-------------------------------------------------------------------------------
(* While nothing is deleted every row is live.                              *)

\* Every row is live, and so is the reading a failure verdict rests on.
AllLive ==
  /\ \A i \in Items : row[i].life = "live"
  /\ \A w \in Workers : wk[w].pc = "verdict" => wk[w].seen.life = "live"

\* Only a deletion ends that.
LEMMA AllLiveStep ==
  ASSUME LockInv, AllLive, [Next]_vars, ~Spend("trash") PROVE AllLive'
<1> USE DEF LockInv
<1>1. ASSUME NEW i \in Items PROVE row'[i].life = "live"
  <2>1. RescueCommit /\ i \in rescue.written => rescue.rows[i].life = row[i].life
    BY DEF HoldsLocks, RescueCommit
  <2>2. StatusMove(i)
    BY StatusMoves
  <2>3. row[i].life = "live"
    BY DEF AllLive
  <2> QED BY <2>1, <2>2, <2>3, MadePending DEF StatusMove
<1>2. ASSUME NEW w \in Workers, wk'[w].pc = "verdict" PROVE wk'[w].seen.life = "live"
  <2>1. CASE wk'[w] = wk[w]
    BY <1>2, <2>1 DEF AllLive
  <2>2. CASE FinFetch(w)
    <3>1. wk'[w].seen = row[wk[w].item] /\ wk[w].item \in Items
      BY <1>2, <2>2, FinalizingTask DEF Task
    <3> QED BY <3>1 DEF AllLive
  <2>3. ASSUME FinOpen(w) \/ (\E r \in Runs : ProcHandoff(w, r))
                 \/ \E r \in Runs, n \in 0..MaxRetries : FinRead(w, r, n)
        PROVE  FALSE
    BY <1>2, <2>3, FinalizingTask, CapturingTask
  <2> QED BY <1>2, <2>1, <2>2, <2>3, WorkerMoves DEF Finalizing
<1> QED BY <1>1, <1>2 DEF AllLive
-------------------------------------------------------------------------------
(* Who speaks for a pending row.                                            *)

\* The worker has a delivery of process_item for the item.
Has(w, i) ==
  wk[w].item = i /\ \E n \in 0..MaxRetries : wk[w].msg = ProcessMsg(i, n)

\* A message.
ByMessage(i) == \E n \in 0..MaxRetries : queued[ProcessMsg(i, n)] > 0

\* A worker that is to claim the row with its lock.
ByClaimant(i) ==
  \E w \in Workers : /\ wk[w].pc = "read" /\ Has(w, i)
                     /\ wk[w].seen.status # "processing"

\* A worker that found the row `processing`, or has claimed it, and has not read
\* an outcome since.
ByWorker(i) ==
  \E w \in Workers : /\ \/ wk[w].pc \in {"read", "handoff"}
                        \/ wk[w].pc = "work" /\ Waits(wk[w].seen)
                     /\ Has(w, i)

\* Nobody who finalizes the run has read an outcome of the item, so whoever ends
\* the run settles the row.
TaskSettles(w, r, i) ==
  wk[w].pc \in Finalizing /\ wk[w].run = r =>
    /\ wk[w].item = i /\ wk[w].pc # "mark"
    /\ wk[w].pc \in {"enrich", "verdict"} => Waits(wk[w].seen)

\* The row the tick holds back is settled.
Withheld(i) == i \in rescue.written /\ ~Waits(rescue.rows[i])

\* The tick settles the row before it ends the run.
TickSettles(r, i) ==
  rescue # Idle =>
    /\ rescue.verdict[r] # "running" => Withheld(i)
    /\ rescue.pc = "enrich" /\ rescue.run = r => Waits(rescue.seen) \/ Withheld(i)

\* The run is the item's and still open, and whoever ends it settles the row.
RunSettles(r, i) ==
  /\ run[r].status = "running" /\ run[r].item = i
  /\ \A w \in Workers : TaskSettles(w, r, i)
  /\ TickSettles(r, i)

\* An item somebody has to come back to: a pending row, or one a request is about
\* to make pending.
Owed(i) ==
  \/ row[i].status = "pending"
  \/ api # Idle /\ api.pc = "flushed" /\ api.item = i

\* Somebody will. What is not a message, or a worker that is to take the lock,
\* speaks only for a row that still waits.
Spoken(i) ==
  \/ ByMessage(i) \/ ByClaimant(i)
  \/ Waits(row[i]) /\ (ByWorker(i) \/ \E r \in Runs : RunSettles(r, i))

\* The inductive invariant.
CarryInv ==
  /\ LockInv /\ Allowed
  /\ Undisturbed => AllLive /\ \A i \in Items : Owed(i) => Spoken(i)

\* What the step from one such state to the next may assume of an item that is
\* owed after it.
Owing(i) ==
  /\ LockInv /\ AllLive /\ [Next]_vars
  /\ \A f \in {"outage", "timeout", "trash"} : ~Spend(f)
  /\ Owed(i)' /\ ~Save(i) /\ ~(ReprocessFlush /\ api.item = i)

\* It was owed before, waits if it did, and is still pending unless its owner's
\* request holds it.
LEMMA OwedBefore ==
  ASSUME NEW i \in Items, Owing(i)
  PROVE  /\ Owed(i) /\ Saved(i)
         /\ Waits(row[i]) => Waits(row'[i])
         /\ lock[i] # "api" => row'[i].status = "pending"
<1> USE DEF Owing, LockInv
<1>1. CASE row'[i].status = "pending"
  <2>1. row[i].status = "pending" \/ (ReprocessCommit /\ api.item = i)
    BY <1>1, PendingMoves
  <2>2. Owed(i)
    BY <2>1 DEF Owed, ReprocessCommit
  <2>3. Saved(i)
    BY <2>2 DEF Owed, Saved, WorkIsOnSaved
  <2> QED BY <1>1, <2>2, <2>3 DEF Waits
<1>2. CASE api' # Idle /\ api'.pc = "flushed" /\ api'.item = i
  <2>1. UNCHANGED api
    BY <1>2, RequestMoves
  <2>2. Owed(i) /\ Saved(i) /\ lock[i] = "api"
    BY <1>2, <2>1 DEF Owed, WorkIsOnSaved, HoldsLocks
  <2>3. ~ReprocessCommit
    BY <1>2, <2>1 DEF ReprocessCommit
  <2>4. row'[i] = row[i]
    BY <2>2, <2>3, HeldRow
  <2> QED BY <2>2, <2>4
<1> QED BY <1>1, <1>2 DEF Owed

\* A message stays until a worker takes it.
LEMMA MessageMoves ==
  ASSUME TypeOK, [Next]_vars, NEW i \in Items, NEW n \in 0..MaxRetries,
         queued[ProcessMsg(i, n)] > 0
  PROVE  \/ queued'[ProcessMsg(i, n)] > 0
         \/ \E w \in Workers : ProcMissing(w, i, n) \/ ProcRead(w, i, n)
<1> DEFINE m == ProcessMsg(i, n)
<1>1. queued \in Queues /\ m \in Message
  BY ProcessMsgType DEF TypeOK, Queues
<1>2. ASSUME NEW k \in Message, queued' = More(queued, k) \/ UNCHANGED queued
      PROVE  queued'[m] > 0
  BY <1>1, <1>2, MoreIsThere
<1>3. ASSUME NEW k \in Message, k # m, queued' = Less(queued, k) PROVE queued'[m] > 0
  BY <1>1, <1>3 DEF Less, Queues
<1>4. CASE Still
  BY <1>1, <1>4 DEF Still
<1>5. CASE UNCHANGED queued
  BY <1>5
<1>6. 0 \in 0..MaxRetries
  BY ConstantsAssumption
<1>7. CASE UserStep
  <2>1. ASSUME NEW j \in Items, Save(j) PROVE queued'[m] > 0
    BY <1>2, <1>6, <2>1, ProcessMsgType DEF Save, Enqueue
  <2> QED BY <1>5, <1>7, <2>1 DEF UserStep, ReprocessCheck, Trash, Restore, Purge, Bury
<1>8. CASE RequestStep \/ RequestLost \/ SweepCommit
  <2>1. CASE ReprocessFlush
    <3>1. api.item \in Items
      BY <2>1 DEF ReprocessFlush, TypeOK, Request
    <3> QED BY <1>2, <1>6, <2>1, <3>1, ProcessMsgType DEF ReprocessFlush, Enqueue
  <2> QED BY <1>5, <1>8, <2>1 DEF RequestStep, ReprocessCommit, RequestLost, SweepCommit
<1>9. CASE RescueStep \/ \E r \in Runs : RunAges(r)
  BY <1>5, <1>9 DEF RescueStep, RescueList, RescueFinish, RescueAbort, RescueSkip,
                    RescueOpen, RescueTimeout, RescueCommit, RunAges
<1>10. ASSUME NEW w \in Workers, WorkerMove(w)
       PROVE  queued'[m] > 0 \/ ProcMissing(w, i, n) \/ ProcRead(w, i, n)
  <2>1. CASE Receive(w)
    <3>1. PICK k \in 0..MaxRetries :
            \/ \E j \in Items : ProcMissing(w, j, k) \/ ProcRead(w, j, k)
            \/ \E r \in Runs : FinIgnore(w, r, k) \/ FinRead(w, r, k)
      BY <2>1 DEF Receive
    <3>2. ASSUME NEW j \in Items, ProcMissing(w, j, k) \/ ProcRead(w, j, k)
          PROVE  queued'[m] > 0 \/ ProcMissing(w, i, n) \/ ProcRead(w, i, n)
      <4>1. CASE j = i /\ k = n
        BY <3>2, <4>1
      <4>2. CASE ~(j = i /\ k = n)
        <5>1. ProcessMsg(j, k) # m
          BY <4>2 DEF ProcessMsg
        <5> QED BY <1>3, <3>2, <5>1, ProcessMsgType DEF ProcMissing, ProcRead
      <4> QED BY <4>1, <4>2
    <3>3. ASSUME NEW r \in Runs, FinIgnore(w, r, k) \/ FinRead(w, r, k)
          PROVE  queued'[m] > 0
      <4>1. FinalizeMsg(r, k) # m
        BY DEF ProcessMsg, FinalizeMsg
      <4> QED BY <1>3, <3>3, <4>1, FinalizeMsgType DEF FinIgnore, FinRead
    <3> QED BY <3>1, <3>2, <3>3
  <2>2. CASE Process(w)
    BY <1>5, <2>2 DEF Process, ProcClaim, ProcHandoff, ProcHandoffCommit, Handed,
                ProcComplete, ProcSkip, ProcFail
  <2>3. CASE Finalize(w)
    BY <1>5, <2>3 DEF Finalize, FinFetch, FinOpen, FinClash, FinComplete, FinFail,
                FinMark, FinVerdict
  <2>4. CASE After(w) \/ Answer(w) \/ SoftTimeLimit(w) \/ SoftTimeLimitInFinalize(w)
    BY <1>5, <2>4 DEF After, Answer, SoftTimeLimit, SoftTimeLimitInFinalize
  <2>5. CASE Raise(w) \/ Crash(w)
    <3>1. wk[w] \in Task
      BY <2>5, Busy DEF Raise, Crash, TypeOK
    <3>2. wk[w].msg \in Message
      BY <3>1 DEF Task
    <3>3. CASE Crash(w)
      BY <1>2, <3>2, <3>3 DEF Crash
    <3>4. CASE Raise(w) /\ ~UNCHANGED queued
      <4> DEFINE k == [wk[w].msg EXCEPT !.tries = @ + 1]
      <4>1. wk[w].msg.tries < MaxRetries /\ queued' = More(queued, k)
        BY <3>4 DEF Raise, Retry
      <4>2. k \in Message
        BY <3>2, <4>1, ConstantsAssumption DEF Message
      <4> QED BY <1>2, <4>1, <4>2
    <3> QED BY <1>5, <2>5, <3>3, <3>4
  <2> QED BY <1>10, <2>1, <2>2, <2>3, <2>4, <2>5 DEF WorkerMove, WorkerStep
<1> QED BY <1>4, <1>7, <1>8, <1>9, <1>10, Kinds

\* What a worker does with a capture in hand.
LEMMA CapturingEnds ==
  ASSUME TypeOK, [Next]_vars, NEW w \in Workers, wk[w].pc \in Capturing,
         wk'[w] # wk[w]
  PROVE  /\ WorkerMove(w)
         /\ \/ ProcClaim(w) \/ (\E r \in Runs : ProcHandoff(w, r))
            \/ ProcHandoffCommit(w) \/ ProcComplete(w) \/ ProcSkip(w) \/ ProcFail(w)
            \/ Crash(w) \/ SoftTimeLimit(w)
<1>1. WorkerMove(w)
  <2>1. ASSUME NEW v \in Workers, WorkerMove(v) PROVE v = w
    BY <2>1 DEF WorkerMove
  <2>2. wk' # wk
    OBVIOUS
  <2>3. CASE UserStep \/ RequestStep \/ RequestLost \/ SweepCommit \/ RescueStep
    BY <2>2, <2>3
    DEF UserStep, Save, ReprocessCheck, Trash, Restore, Purge, Bury, RequestStep,
        ReprocessFlush, ReprocessCommit, RequestLost, SweepCommit, RescueStep,
        RescueList, RescueFinish, RescueAbort, RescueSkip, RescueOpen,
        RescueTimeout, RescueCommit
  <2>4. CASE Still \/ \E r \in Runs : RunAges(r)
    BY <2>2, <2>4 DEF Still, RunAges
  <2> QED BY <2>1, <2>3, <2>4, Kinds
<1>2. ~Receive(w)
  <2>1. wk[w] # Idle
    BY DEF Idle, Capturing
  <2> QED BY <2>1 DEF Receive, ProcMissing, ProcRead, FinIgnore, FinRead
<1>3. CASE Finalize(w) \/ After(w) \/ Answer(w) \/ Raise(w) \/ Handed(w)
           \/ SoftTimeLimitInFinalize(w)
  BY <1>3 DEF Finalize, FinFetch, FinOpen, FinClash, FinComplete, FinFail, FinMark,
              FinVerdict, After, Answer, Raise, Handed, SoftTimeLimitInFinalize, Capturing
<1> QED BY <1>1, <1>2, <1>3 DEF WorkerMove, WorkerStep, Process

\* Read by a worker, the message is in its hands.
LEMMA ReadSpeaks ==
  ASSUME TypeOK, NEW i \in Items, NEW w \in Workers, NEW n \in 0..MaxRetries,
         ProcRead(w, i, n)
  PROVE  Spoken(i)'
<1>1. /\ wk'[w].pc = "read" /\ wk'[w].msg = ProcessMsg(i, n) /\ wk'[w].item = i
      /\ wk'[w].seen = row[i]
  BY CapturingTask
<1>2. row' = row
  BY DEF ProcRead
<1>3. Has(w, i)'
  BY <1>1 DEF Has
<1>4. CASE row[i].status # "processing"
  <2>1. ByClaimant(i)'
    BY <1>1, <1>3, <1>4 DEF ByClaimant
  <2> QED BY <2>1 DEF Spoken
<1>5. CASE row[i].status = "processing"
  <2>1. ByWorker(i)'
    BY <1>1, <1>3 DEF ByWorker
  <2>2. Waits(row[i])'
    BY <1>2, <1>5 DEF Waits
  <2> QED BY <2>1, <2>2 DEF Spoken
<1> QED BY <1>4, <1>5

\* A worker that is killed gives its message back.
LEMMA CrashSpeaks ==
  ASSUME TypeOK, NEW i \in Items, NEW w \in Workers, Has(w, i), Crash(w)
  PROVE  Spoken(i)'
<1>1. PICK n \in 0..MaxRetries : wk[w].msg = ProcessMsg(i, n)
  BY DEF Has
<1>2. queued' = More(queued, ProcessMsg(i, n)) /\ queued \in Queues
  BY <1>1 DEF Crash, TypeOK, Queues
<1>3. queued'[ProcessMsg(i, n)] > 0
  BY <1>2, MoreIsThere, ProcessMsgType
<1>4. ByMessage(i)'
  BY <1>3 DEF ByMessage
<1> QED BY <1>4 DEF Spoken

\* A message speaks for the item until a worker takes it, and then the worker does:
\* the item is visible, so it is not dropped.
LEMMA MessageSpeaks ==
  ASSUME NEW i \in Items, Owing(i), ByMessage(i) PROVE Spoken(i)'
<1>1. TypeOK /\ [Next]_vars
  BY DEF Owing, LockInv
<1>2. PICK n \in 0..MaxRetries : queued[ProcessMsg(i, n)] > 0
  BY DEF ByMessage
<1>3. Visible(i)
  BY OwedBefore DEF Owing, AllLive, Visible, Saved
<1>4. CASE queued'[ProcessMsg(i, n)] > 0
  <2>1. ByMessage(i)'
    BY <1>4 DEF ByMessage
  <2> QED BY <2>1 DEF Spoken
<1>5. ASSUME NEW w \in Workers, ProcMissing(w, i, n) PROVE FALSE
  BY <1>3, <1>5 DEF ProcMissing
<1>6. ASSUME NEW w \in Workers, ProcRead(w, i, n) PROVE Spoken(i)'
  BY <1>1, <1>6, ReadSpeaks
<1> QED BY <1>1, <1>2, <1>4, <1>5, <1>6, MessageMoves

\* A worker about to claim a row with its lock claims it, or is killed.
LEMMA ClaimantSpeaks ==
  ASSUME NEW i \in Items, Owing(i), ByClaimant(i) PROVE Spoken(i)'
<1>1. TypeOK /\ [Next]_vars /\ ~Spend("timeout")
  BY DEF Owing, LockInv
<1>2. PICK w \in Workers : /\ wk[w].pc = "read" /\ Has(w, i)
                           /\ wk[w].seen.status # "processing"
  BY DEF ByClaimant
<1>3. CASE wk'[w] = wk[w]
  <2>1. ByClaimant(i)'
    BY <1>2, <1>3 DEF ByClaimant, Has
  <2> QED BY <2>1 DEF Spoken
<1>4. CASE ProcClaim(w)
  <2>1. /\ wk'[w].pc = "work" /\ wk'[w].seen.status = "processing"
        /\ wk'[w].msg = wk[w].msg /\ wk'[w].item = wk[w].item
    BY <1>1, <1>2, <1>4, CapturingTask
  <2>2. ByWorker(i)'
    BY <1>2, <2>1 DEF ByWorker, Has, Waits
  <2>3. lock[i] = "free"
    BY <1>2, <1>4 DEF ProcClaim, Has
  <2>4. Waits(row[i])'
    BY <2>3, OwedBefore DEF Waits
  <2> QED BY <2>2, <2>4 DEF Spoken
<1>5. CASE Crash(w)
  BY <1>1, <1>2, <1>5, CrashSpeaks
<1>6. CASE \/ (\E r \in Runs : ProcHandoff(w, r)) \/ ProcHandoffCommit(w)
           \/ ProcComplete(w) \/ ProcSkip(w) \/ ProcFail(w) \/ SoftTimeLimit(w)
  BY <1>1, <1>2, <1>6 DEF ProcHandoff, ProcHandoffCommit, ProcComplete, ProcSkip,
                          ProcFail, SoftTimeLimit
<1> QED BY <1>1, <1>2, <1>3, <1>4, <1>5, <1>6, CapturingEnds DEF Capturing

\* The run a hand-off commits is new to everybody, so whoever ends it settles the
\* row.
LEMMA NewRunSettles ==
  ASSUME LockInv, [Next]_vars, NEW w \in Workers, NEW i \in Items, NEW r \in Runs,
         ProcHandoffCommit(w), wk[w].item = i, wk[w].run = r
  PROVE  RunSettles(r, i)'
<1> USE DEF LockInv
<1>1. wk[w].pc = "handoff" /\ ~Known(r)
  BY DEF ProcHandoffCommit, HandoffIsFresh, Known
<1>2. wk[w] \in Task
  BY Busy DEF ProcHandoffCommit, TypeOK
<1>3. run'[r].status = "running" /\ run'[r].item = i
  BY DEF ProcHandoffCommit, TypeOK
<1>4. wk'[w].pc = "handed" /\ \A v \in Workers \ {w} : wk'[v] = wk[v]
  BY <1>2 DEF ProcHandoffCommit, Done, Become, TypeOK, Task
<1>5. rescue' = rescue
  BY DEF ProcHandoffCommit
<1>6. ASSUME NEW v \in Workers, wk'[v].pc \in Finalizing, wk'[v].run = r PROVE FALSE
  BY <1>1, <1>4, <1>6 DEF RunsKnown, Finalizing
<1>7. TickSettles(r, i)'
  BY <1>1, <1>5 DEF TickSettles, RunsKnown
<1>8. \A v \in Workers : TaskSettles(v, r, i)'
  BY <1>6 DEF TaskSettles
<1> QED BY <1>3, <1>7, <1>8 DEF RunSettles

\* A worker that has not read an outcome goes on to settle the row or to leave a
\* run, or is killed.
LEMMA WorkerSpeaks ==
  ASSUME NEW i \in Items, Owing(i), Waits(row[i]), ByWorker(i) PROVE Spoken(i)'
<1>1. LockInv /\ TypeOK /\ [Next]_vars /\ ~Spend("timeout")
  BY DEF Owing, LockInv
<1>2. PICK w \in Workers : /\ Has(w, i)
                           /\ \/ wk[w].pc \in {"read", "handoff"}
                              \/ wk[w].pc = "work" /\ Waits(wk[w].seen)
  BY DEF ByWorker
<1>3. wk[w].item = i /\ Waits(row[i])'
  BY <1>2, OwedBefore DEF Has
<1>4. CASE wk'[w] = wk[w]
  <2>1. ByWorker(i)'
    BY <1>2, <1>4 DEF ByWorker, Has
  <2> QED BY <1>3, <2>1 DEF Spoken
<1>5. CASE ProcClaim(w)
  <2>1. /\ wk'[w].pc = "work" /\ wk'[w].msg = wk[w].msg /\ wk'[w].item = wk[w].item
        /\ IF wk[w].seen.status = "processing" THEN wk'[w].seen = row[i]
           ELSE wk'[w].seen.status = "processing"
    BY <1>1, <1>3, <1>5, CapturingTask
  <2>2. Waits(wk'[w].seen)
    BY <2>1 DEF Waits
  <2>3. ByWorker(i)'
    BY <1>2, <2>1, <2>2 DEF ByWorker, Has
  <2> QED BY <1>3, <2>3 DEF Spoken
<1>6. ASSUME NEW r \in Runs, ProcHandoff(w, r) PROVE Spoken(i)'
  <2>1. wk'[w].pc = "handoff" /\ wk'[w].msg = wk[w].msg /\ wk'[w].item = wk[w].item
    BY <1>1, <1>6, CapturingTask
  <2>2. ByWorker(i)'
    BY <1>2, <2>1 DEF ByWorker, Has
  <2> QED BY <1>3, <2>2 DEF Spoken
<1>7. CASE ProcHandoffCommit(w)
  <2>1. wk[w].run \in Runs
    BY <1>1, <1>7 DEF LockInv, RunsKnown, ProcHandoffCommit
  <2>2. PICK r \in Runs : wk[w].run = r
    BY <2>1
  <2>3. RunSettles(r, i)'
    BY <1>1, <1>3, <1>7, <2>2, NewRunSettles
  <2> QED BY <1>3, <2>3 DEF Spoken
<1>8. CASE ProcComplete(w) \/ ProcSkip(w) \/ ProcFail(w)
  <2>1. wk[w] \in Task /\ wk[w].pc = "work"
    BY <1>1, <1>8, Busy DEF ProcComplete, ProcSkip, ProcFail, TypeOK
  <2>2. row[i] \in Row /\ wk[w].seen \in Row /\ Waits(wk[w].seen)
    BY <1>1, <1>2, <2>1 DEF Task, TypeOK
  <2>3. lock[i] # "api"
    BY <1>3, <1>8, ConstantsAssumption DEF ProcComplete, ProcSkip, ProcFail, FreeFor
  <2>4. \/ Write(i, CompletedRow(row[i], wk[w].seen))
        \/ Write(i, SkippedRow(row[i], wk[w].seen))
        \/ Write(i, FailedRow(row[i], wk[w].seen))
    BY <1>3, <1>8 DEF ProcComplete, ProcSkip, ProcFail
  <2>5. ~Waits(row'[i])
    BY <1>1, <2>2, <2>4, OutcomeSettles, Written DEF TypeOK
  <2> QED BY <1>3, <2>5
<1>9. CASE Crash(w)
  BY <1>1, <1>2, <1>9, CrashSpeaks
<1>10. CASE SoftTimeLimit(w)
  BY <1>1, <1>10 DEF SoftTimeLimit
<1> QED BY <1>1, <1>2, <1>4, <1>5, <1>6, <1>7, <1>8, <1>9, <1>10, CapturingEnds
    DEF Capturing

\* A flush withholds what it settles and leaves the rest as it was.
LEMMA FlushWithholds ==
  ASSUME rescue \in Rescue, NEW q \in Runs, NEW to, NEW j \in Items, NEW new,
         Flush(q, to, j, new)
  PROVE  /\ rescue'.pc = "scan"
         /\ \A r \in Runs : r # q => rescue'.verdict[r] = rescue.verdict[r]
         /\ ~Waits(new) => Withheld(j)'
         /\ \A i \in Items : i # j /\ Withheld(i) => Withheld(i)'
<1>1. /\ rescue'.pc = "scan" /\ rescue'.written = rescue.written \cup {j}
      /\ rescue'.rows = [rescue.rows EXCEPT ![j] = new]
      /\ rescue'.verdict = [rescue.verdict EXCEPT ![q] = to]
  BY DEF Flush, Rescue
<1>2. rescue.rows \in [Items -> Row] /\ rescue.verdict \in [Runs -> RunStatus]
  BY DEF Rescue
<1> QED BY <1>1, <1>2 DEF Withheld

\* So does a verdict without a write.
LEMMA KeepWithholds ==
  ASSUME rescue \in Rescue, NEW q \in Runs, NEW to, Keep(q, to)
  PROVE  /\ rescue'.pc = "scan"
         /\ \A r \in Runs : r # q => rescue'.verdict[r] = rescue.verdict[r]
         /\ \A i \in Items : Withheld(i) => Withheld(i)'
<1>1. /\ rescue'.pc = "scan" /\ rescue'.written = rescue.written
      /\ rescue'.rows = rescue.rows
      /\ rescue'.verdict = [rescue.verdict EXCEPT ![q] = to]
  BY DEF Keep, Rescue
<1>2. rescue.verdict \in [Runs -> RunStatus]
  BY DEF Rescue
<1> QED BY <1>1, <1>2 DEF Withheld

\* A tick that decides on a run has settled its item, in what it holds back if not
\* yet in the row.
LEMMA TickStep ==
  ASSUME LockInv, AllLive, RescueStep, NEW i \in Items, NEW r \in Runs,
         Waits(row[i]), run[r].item = i, TickSettles(r, i)
  PROVE  TickSettles(r, i)'
<1> USE DEF LockInv
<1>1. CASE RescueAbort \/ RescueCommit
  BY <1>1 DEF RescueAbort, RescueCommit, TickSettles
<1>2. CASE RescueList
  BY <1>2 DEF RescueList, TickSettles
<1>3. ASSUME rescue # Idle, RescueSees(i).life # "live" \/ ~Waits(RescueSees(i))
      PROVE  Withheld(i)
  BY <1>3 DEF RescueSees, Withheld, HoldsLocks, AllLive
<1>4. CASE RescueFinish
  <2>1. rescue \in Rescue /\ rescue # Idle /\ rescue.pc = "enrich" /\ Known(rescue.run)
    BY <1>4 DEF RescueFinish, RunsKnown, TypeOK
  <2>2. PICK q \in Runs, j \in Items : q = rescue.run /\ j = run[q].item
    BY <2>1, RowOf DEF Known
  <2>3. RescueSees(j) \in Row /\ rescue.seen \in Row
    BY <2>1, <2>2 DEF RescueSees, Rescue, TypeOK
  <2>4. PICK new : /\ Flush(q, "succeeded", j, new)
                   /\ new \in {CompletedRow(RescueSees(j), rescue.seen),
                               FailedRow(RescueSees(j), rescue.seen)}
    BY <1>4, <2>2 DEF RescueFinish
  <2>5. Waits(rescue.seen) \/ ~Waits(RescueSees(j)) => ~Waits(new)
    BY <2>3, <2>4, OutcomeSettles
  <2>6. Withheld(i) => ~Waits(RescueSees(i))
    BY DEF Withheld, RescueSees
  <2>7. /\ rescue'.pc = "scan" /\ (r # q => rescue'.verdict[r] = rescue.verdict[r])
        /\ ~Waits(new) => Withheld(j)'
        /\ i # j /\ Withheld(i) => Withheld(i)'
    BY <2>1, <2>4, FlushWithholds
  <2>8. CASE r = q
    <3>1. i = j /\ (Waits(rescue.seen) \/ Withheld(i))
      BY <2>1, <2>2, <2>8 DEF TickSettles
    <3>2. Withheld(i)'
      BY <2>5, <2>6, <2>7, <3>1
    <3> QED BY <2>7, <3>2 DEF TickSettles
  <2>9. CASE r # q
    <3>1. Withheld(i) => Withheld(i)'
      BY <2>5, <2>6, <2>7
    <3>2. rescue'.verdict[r] # "running" => Withheld(i)
      BY <2>1, <2>7, <2>9 DEF TickSettles
    <3> QED BY <2>7, <3>1, <3>2 DEF TickSettles
  <2> QED BY <2>8, <2>9
<1>5. ASSUME NEW q \in Runs, RescueSkip(q) \/ RescueOpen(q) \/ RescueTimeout(q)
      PROVE  TickSettles(r, i)'
  <2>1. rescue \in Rescue /\ rescue # Idle /\ rescue.pc = "scan" /\ Known(q)
    BY <1>5 DEF RescueSkip, RescueOpen, RescueTimeout, Scanning, TypeOK, RunsKnown
  <2>2. PICK j \in Items : j = run[q].item
    BY <2>1, RowOf
  <2>3. RescueSees(j) \in Row /\ (r = q => i = j)
    BY <2>1, <2>2 DEF RescueSees, Rescue, TypeOK
  <2>4. ASSUME NEW to, Keep(q, to),
               RescueSees(j).life # "live" \/ RescueSees(j).status = "completed"
        PROVE  TickSettles(r, i)'
    <3>1. /\ rescue'.pc = "scan" /\ (r # q => rescue'.verdict[r] = rescue.verdict[r])
          /\ Withheld(i) => Withheld(i)'
      BY <2>1, <2>4, KeepWithholds
    <3>2. r = q => Withheld(i)
      BY <1>3, <2>1, <2>3, <2>4 DEF Waits
    <3> QED BY <2>1, <3>1, <3>2 DEF TickSettles
  <2>5. CASE RescueSkip(q)
    <3>1. /\ rescue'.pc = "scan" /\ rescue'.verdict = rescue.verdict
          /\ rescue'.written = rescue.written /\ rescue'.rows = rescue.rows
      BY <2>1, <2>5 DEF RescueSkip, Rescue
    <3> QED BY <2>1, <3>1 DEF TickSettles, Withheld
  <2>6. CASE RescueOpen(q)
    <3>1. CASE RescueSees(j).status = "completed"
      BY <2>2, <2>4, <2>6, <3>1 DEF RescueOpen
    <3>2. CASE RescueSees(j).status # "completed"
      <4>1. /\ rescue'.run = q /\ rescue'.seen = RescueSees(j)
            /\ rescue'.verdict = rescue.verdict
            /\ rescue'.written = rescue.written /\ rescue'.rows = rescue.rows
        BY <2>1, <2>2, <2>6, <3>2 DEF RescueOpen, Rescue
      <4>2. r = q => Waits(rescue'.seen) \/ Withheld(i)
        BY <1>3, <2>1, <2>3, <4>1
      <4>3. (Withheld(i) => Withheld(i)') /\ (rescue.verdict[r] # "running" => Withheld(i))
        BY <2>1, <4>1 DEF Withheld, TickSettles
      <4> QED BY <4>1, <4>2, <4>3 DEF TickSettles
    <3> QED BY <3>1, <3>2
  <2>7. CASE RescueTimeout(q)
    <3>1. CASE Keep(q, "timed_out") /\ FailItemSpares(RescueSees(j))
      BY <2>4, <3>1 DEF FailItemSpares
    <3>2. CASE Flush(q, "timed_out", j, FailedRow(RescueSees(j), RescueSees(j)))
      <4>1. ~Waits(FailedRow(RescueSees(j), RescueSees(j)))
        BY <2>3, OutcomeSettles
      <4>2. /\ rescue'.pc = "scan" /\ (r # q => rescue'.verdict[r] = rescue.verdict[r])
            /\ Withheld(j)' /\ (i # j /\ Withheld(i) => Withheld(i)')
        BY <2>1, <3>2, <4>1, FlushWithholds
      <4> QED BY <2>1, <2>3, <4>2 DEF TickSettles
    <3> QED BY <2>2, <2>7, <3>1, <3>2 DEF RescueTimeout
  <2> QED BY <1>5, <2>5, <2>6, <2>7
<1> QED BY <1>1, <1>2, <1>4, <1>5 DEF RescueStep

\* Whoever takes up the run reads the row while it waits.
LEMMA TasksSettle ==
  ASSUME LockInv, AllLive, [Next]_vars, NEW i \in Items, NEW r \in Runs,
         Waits(row[i]), run[r].item = i, NEW w \in Workers, TaskSettles(w, r, i)
  PROVE  TaskSettles(w, r, i)'
<1> USE DEF LockInv
<1> SUFFICES ASSUME wk'[w].pc \in Finalizing, wk'[w].run = r
             PROVE  /\ wk'[w].item = i /\ wk'[w].pc # "mark"
                    /\ wk'[w].pc \in {"enrich", "verdict"} => Waits(wk'[w].seen)
  BY DEF TaskSettles
<1>1. CASE wk'[w] = wk[w]
  BY <1>1 DEF TaskSettles
<1>2. ASSUME NEW q \in Runs, ProcHandoff(w, q) PROVE FALSE
  BY <1>2, CapturingTask DEF Finalizing
<1>3. ASSUME NEW q \in Runs, NEW n \in 0..MaxRetries, FinRead(w, q, n)
      PROVE  wk'[w].item = i /\ wk'[w].pc = "fetch"
  BY <1>3, FinalizingTask
<1>4. CASE FinFetch(w)
  <2>1. /\ wk[w].pc = "fetch" /\ wk[w].run = r /\ wk'[w].item = wk[w].item
        /\ wk'[w].pc \in {"verdict", "open", "raise"}
        /\ wk'[w].pc = "verdict" => wk'[w].seen = row[wk[w].item]
    BY <1>4, FinalizingTask DEF FinFetch
  <2>2. wk[w].item = i
    BY <2>1 DEF TaskSettles, Finalizing
  <2> QED BY <2>1, <2>2
<1>5. CASE FinOpen(w)
  <2>1. /\ wk[w].pc = "open" /\ wk[w].run = r /\ wk'[w].item = wk[w].item
        /\ wk'[w].pc = IF Visible(wk[w].item) /\ row[wk[w].item].status # "completed"
                       THEN "enrich" ELSE "mark"
        /\ wk'[w].seen = row[wk[w].item]
    BY <1>5, FinalizingTask DEF FinOpen
  <2>2. wk[w].item = i
    BY <2>1 DEF TaskSettles, Finalizing
  <2>3. Visible(i) /\ row[i].status # "completed"
    BY DEF AllLive, Visible, Waits
  <2> QED BY <2>1, <2>2, <2>3
<1> QED BY <1>1, <1>2, <1>3, <1>4, <1>5, WorkerMoves

\* A worker that ends such a run settles the row.
LEMMA EndSettles ==
  ASSUME LockInv, AllLive, NEW i \in Items, NEW w \in Workers, NEW r \in Runs,
         TaskSettles(w, r, i), wk[w].run = r,
         FinComplete(w) \/ FinFail(w) \/ FinMark(w) \/ FinVerdict(w)
  PROVE  lock[i] = "free" /\ ~Waits(row'[i])
<1> USE DEF LockInv
<1>1. wk[w].pc \in {"enrich", "mark", "verdict"}
  BY DEF FinComplete, FinFail, FinMark, FinVerdict
<1>2. /\ wk[w].item = i /\ wk[w].pc # "mark" /\ Waits(wk[w].seen)
  BY <1>1 DEF TaskSettles, Finalizing
<1>3. wk[w] \in Task
  BY <1>1, Busy DEF TypeOK
<1>4. row[i] \in Row /\ wk[w].seen \in Row
  BY <1>3 DEF Task, TypeOK
<1>5. ~FinMark(w)
  BY <1>2 DEF FinMark
<1>6. CASE FinVerdict(w)
  <2>1. ~FailItemSpares(wk[w].seen)
    BY <1>2, <1>6 DEF FinVerdict, FailItemSpares, AllLive, Waits
  <2>2. lock[i] = "free" /\ Write(i, FailedRow(row[i], wk[w].seen))
    BY <1>2, <1>6, <2>1 DEF FinVerdict
  <2> QED BY <1>2, <1>4, <2>2, OutcomeSettles, Written DEF TypeOK
<1>7. CASE FinComplete(w) \/ FinFail(w)
  <2>1. /\ lock[i] = "free"
        /\ \/ Write(i, CompletedRow(row[i], wk[w].seen))
           \/ Write(i, FailedRow(row[i], wk[w].seen))
    BY <1>2, <1>7 DEF FinComplete, FinFail
  <2> QED BY <1>2, <1>4, <2>1, OutcomeSettles, Written DEF TypeOK
<1> QED BY <1>5, <1>6, <1>7

\* A run speaks for an item that waits until it is over, and then the item no
\* longer waits.
LEMMA RunSpeaks ==
  ASSUME NEW i \in Items, Owing(i), Waits(row[i]), NEW r \in Runs, RunSettles(r, i)
  PROVE  Spoken(i)'
<1> USE DEF LockInv
<1>1. LockInv /\ AllLive /\ [Next]_vars /\ ~Spend("timeout")
  BY DEF Owing
<1>2. Waits(row'[i]) /\ Waits(row[i])'
  BY OwedBefore
<1>3. Known(r) /\ run[r] \in RunRow /\ run[r].status = "running" /\ run[r].item = i
  BY <1>1, RowOf DEF RunSettles, Known
<1>4. ASSUME NEW w \in Workers PROVE TaskSettles(w, r, i)'
  BY <1>1, <1>3, TasksSettle DEF RunSettles
<1>5. TickSettles(r, i)'
  <2>1. CASE rescue' = rescue
    BY <2>1 DEF RunSettles, TickSettles, Withheld
  <2>2. CASE RescueStep
    BY <1>1, <1>3, <2>2, TickStep DEF RunSettles
  <2> QED BY <1>1, <2>1, <2>2, RescueMoves
<1>6. run'[r].status = "running" /\ run'[r].item = i
  <2>1. CASE UNCHANGED run
    BY <1>3, <2>1
  <2>2. ASSUME NEW q \in Runs, RunAges(q) PROVE run'[r].status = "running" /\ run'[r].item = i
    BY <1>1, <1>3, <2>2 DEF RunAges, RunRow, TypeOK
  <2>3. CASE RescueCommit
    <3>1. rescue.verdict[r] = "running"
      <4>1. ASSUME rescue.verdict[r] # "running" PROVE FALSE
        <5>1. Withheld(i)
          BY <2>3, <4>1 DEF RunSettles, TickSettles, RescueCommit
        <5>2. row'[i] = rescue.rows[i]
          BY <2>3, <5>1 DEF RescueCommit, RescueSees, Withheld
        <5> QED BY <1>2, <5>1, <5>2 DEF Withheld
      <4> QED BY <4>1
    <3> QED BY <1>3, <2>3, <3>1 DEF RescueCommit
  <2>4. ASSUME NEW w \in Workers, Committing(w)
        PROVE  run'[r].status = "running" /\ run'[r].item = i
    <3>1. CASE SoftTimeLimitInFinalize(w)
      BY <1>1, <3>1 DEF SoftTimeLimitInFinalize
    <3>2. CASE ProcHandoffCommit(w)
      <4>1. wk[w].run # r
        BY <1>1, <1>3, <3>2 DEF ProcHandoffCommit, HandoffIsFresh, Known
      <4> QED BY <1>1, <1>3, <3>2, <4>1 DEF ProcHandoffCommit, TypeOK
    <3>3. CASE FinComplete(w) \/ FinFail(w) \/ FinMark(w) \/ FinVerdict(w)
      <4>1. wk[w].run # r
        BY <1>1, <1>2, <3>3, EndSettles DEF RunSettles
      <4>2. \E to : MarkRun(wk[w].run, to)
        BY <3>3 DEF FinComplete, FinFail, FinMark, FinVerdict
      <4> QED BY <1>1, <1>3, <4>1, <4>2 DEF MarkRun, TypeOK
    <3> QED BY <2>4, <3>1, <3>2, <3>3 DEF Committing
  <2> QED BY <1>1, <2>1, <2>2, <2>3, <2>4, RunWriters
<1>7. RunSettles(r, i)'
  BY <1>4, <1>5, <1>6 DEF RunSettles
<1> QED BY <1>2, <1>7 DEF Spoken

\* Before anything is saved nothing is owed.
LEMMA InitCarry == Init => CarryInv
<1> SUFFICES ASSUME Init PROVE CarryInv
  OBVIOUS
<1>1. Allowed
  <2>1. budget \in [Faults -> Nat] /\ budget = Allowance
    BY ConstantsAssumption DEF Init
  <2> QED BY <2>1 DEF Allowed
<1>2. AllLive
  BY DEF Init, AllLive, NoRow, Idle
<1>3. \A i \in Items : ~Owed(i)
  BY DEF Init, Owed, NoRow
<1> QED BY <1>1, <1>2, <1>3, InitLock DEF CarryInv

\* No step leaves an item without somebody who comes back to it.
LEMMA CarryStep == CarryInv /\ [Next]_vars => CarryInv'
<1> SUFFICES ASSUME CarryInv, [Next]_vars PROVE CarryInv'
  OBVIOUS
<1>1. LockInv /\ LockInv' /\ TypeOK /\ Allowed
  BY LockStep DEF CarryInv, LockInv
<1>2. /\ Allowed'
      /\ Undisturbed' => /\ Undisturbed
                         /\ \A f \in {"outage", "timeout", "trash"} : ~Spend(f)
  BY <1>1, Calm
<1> SUFFICES ASSUME Undisturbed' PROVE AllLive' /\ \A i \in Items : Owed(i)' => Spoken(i)'
  BY <1>1, <1>2 DEF CarryInv
<1>3. /\ AllLive /\ \A f \in {"outage", "timeout", "trash"} : ~Spend(f)
      /\ \A i \in Items : Owed(i) => Spoken(i)
  BY <1>2 DEF CarryInv
<1>4. AllLive'
  BY <1>1, <1>3, AllLiveStep
<1>5. ASSUME NEW i \in Items, queued' = More(queued, ProcessMsg(i, 0)) PROVE Spoken(i)'
  <2>1. queued \in Queues /\ 0 \in 0..MaxRetries
    BY <1>1, ConstantsAssumption DEF TypeOK, Queues
  <2>2. queued'[ProcessMsg(i, 0)] > 0
    BY <1>5, <2>1, MoreIsThere, ProcessMsgType
  <2>3. ByMessage(i)'
    BY <2>1, <2>2 DEF ByMessage
  <2> QED BY <2>3 DEF Spoken
<1>6. ASSUME NEW m, Enqueue(m) PROVE queued' = More(queued, m)
  BY <1>3, <1>6 DEF Enqueue, Spend
<1>7. ASSUME NEW i \in Items, Owed(i)' PROVE Spoken(i)'
  <2>1. CASE Save(i)
    BY <1>5, <1>6, <2>1 DEF Save
  <2>2. CASE ReprocessFlush /\ api.item = i
    BY <1>5, <1>6, <2>2 DEF ReprocessFlush
  <2>3. CASE ~Save(i) /\ ~(ReprocessFlush /\ api.item = i)
    <3>1. Owing(i)
      BY <1>1, <1>3, <1>7, <2>3 DEF Owing
    <3>2. Spoken(i)
      BY <1>3, <3>1, OwedBefore
    <3> QED BY <3>1, <3>2, MessageSpeaks, ClaimantSpeaks, WorkerSpeaks, RunSpeaks
            DEF Spoken
  <2> QED BY <2>1, <2>2, <2>3
<1> QED BY <1>4, <1>7

\* While no enqueue fails, nothing is cut short and nothing is deleted, whatever is
\* killed, repeated, swept or rescued, every pending row has a message, a worker or
\* an open run.
THEOREM PendingHasACarrier == Spec => []PendingIsCarried
<1>1. CarryInv => PendingIsCarried
  <2> SUFFICES ASSUME CarryInv, Undisturbed, NEW i \in Items, row[i].status = "pending"
               PROVE  Carried(i)
    BY DEF PendingIsCarried
  <2>1. Spoken(i)
    BY DEF CarryInv, Owed
  <2>2. ASSUME NEW w \in Workers, Has(w, i), wk[w].pc \in Capturing PROVE Carried(i)
    BY <2>2 DEF Has, Carried, ProcessMsg, Idle, Capturing
  <2>3. ByClaimant(i) \/ ByWorker(i) => Carried(i)
    BY <2>2 DEF ByClaimant, ByWorker, Capturing
  <2> QED BY <2>1, <2>3 DEF Spoken, ByMessage, RunSettles, Carried, HasRunningRun
<1> QED BY <1>1, InitCarry, CarryStep, PTL DEF Spec
===============================================================================
