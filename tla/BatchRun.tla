------------------------------- MODULE BatchRun -------------------------------
(***************************************************************************)
(* One execution of a data-generation task by the synchronous engine       *)
(* (engine/executor.py): the main thread submits batches to a thread pool  *)
(* in waves, the pool's threads insert every table of a batch in           *)
(* dependency order, and the main thread logs the finished batches, stops  *)
(* on a high failure rate and declares the verdict of the task.            *)
(*                                                                         *)
(* Tables are numbered in insert order (dep_analyzer.build_insert_order);  *)
(* entries NT+1 .. NT+NS of a batch result are its Redis synchronisations, *)
(* logged as pseudo tables.  A batch is a pair <<round, i>>; normal mode   *)
(* has one round, iterate mode has NR of them, run one after the other.    *)
(***************************************************************************)
EXTENDS Integers, FiniteSets

CONSTANTS
  NT,              \* number of tables of the case
  Main,            \* position of the main table in the insert order
  Source,          \* Source[t]: tables whose generated values t copies
  NS,              \* number of Redis synchronisations of the case
  NR,              \* number of driving values (rounds) in iterate mode
  NB,              \* number of batches of a round
  RowCount,        \* rows per table and round
  BatchSize,       \* rows per batch
  ShardBatches,    \* batches per shard (AUTO_SPLIT_THRESHOLD)
  MaxWorkers,      \* threads of the pool (MAX_WORKERS)
  MaxInflight,     \* futures in flight (4 * MAX_WORKERS in the code)
  MaxRetry,        \* in-place retries of an insert (BATCH_MAX_RETRY)
  FailPct,         \* failure rate, in percent, above which a round stops
  MaxLost          \* bound on INSERTs that commit but are reported as failed

Tables  == 1..NT
Entries == 1..(NT + NS)
Syncs   == Entries \ Tables
Batches == (1..NR) \X (1..NB)

ASSUME SizesAssumption ==
  /\ NT \in Nat \ {0} /\ NS \in Nat /\ NR \in Nat \ {0} /\ NB \in Nat \ {0}
  /\ RowCount \in Nat \ {0} /\ BatchSize \in Nat \ {0}
  /\ (NB - 1) * BatchSize < RowCount /\ RowCount <= NB * BatchSize
  /\ ShardBatches \in Nat \ {0}

ASSUME LimitsAssumption ==
  /\ MaxWorkers \in Nat \ {0} /\ MaxInflight \in Nat \ {0}
  /\ MaxRetry \in Nat /\ FailPct \in 0..100 /\ MaxLost \in Nat

ASSUME TablesAssumption ==
  /\ Main \in Tables
  /\ Source \in [Tables -> SUBSET Tables]
  /\ \A t \in Tables : \A s \in Source[t] : s < t

VARIABLES
  iterate,   \* does the case have an ITERATE_LIST driver?
  pc,        \* main thread
  round,     \* round being run
  index,     \* next batch of the round to submit
  shardEnd,  \* last batch of the current shard
  fut,       \* state of the future of every batch
  at,        \* entry the thread of a batch works on
  out,       \* entries of the batch result so far
  rows,      \* times a batch of a table was committed to the target database
  lost,      \* commits whose answer was lost so far
  doneSet,   \* finished futures returned by wait() and not yet looked at
  succ,      \* stats["success_rows"] of every round
  fail,      \* stats["fail_rows"] of every round
  stopped,   \* stats["stopped"] of every round
  status,    \* df_exec_task.status
  progress   \* status field of the Redis progress hash

vars == <<iterate, pc, round, index, shardEnd, fut, at, out, rows, lost,
          doneSet, succ, fail, stopped, status, progress>>
mainVars   == <<pc, round, index, shardEnd, doneSet>>
statsVars  == <<succ, fail, stopped>>
workerVars == <<at, out, rows, lost>>

(* "left": an exception left the engine while the verdict was written.     *)
MainState   == {"submit", "record", "final", "publish", "unwind", "done", "left"}
FutureState == {"new", "queued", "running", "done", "raised", "cancelled",
                "notified", "logged", "dropped"}
(* "fail": rows were generated but not inserted; "nogen": no rows exist.   *)
Outcome     == {"none", "ok", "fail", "nogen"}
Verdicts    == {"running", "success", "partial", "failed"}

Lesser(a, b) == IF a <= b THEN a ELSE b
Rounds       == IF iterate THEN NR ELSE 1
SizeOf(b)    == Lesser(BatchSize, RowCount - (b[2] - 1) * BatchSize)
InFlight     == {b \in Batches : fut[b] \in {"queued", "running", "done",
                                              "raised", "cancelled", "notified"}}
Pending      == InFlight \ doneSet
Running      == {b \in Batches : fut[b] = "running"}
Unfinished   == {b \in Batches : fut[b] \in {"queued", "running"}}
Succeeded(b) == {e \in Entries : out[b][e] = "ok"}
FailedM(b)   == Tables \ Succeeded(b)  \* mutant: synchronisations do not count
Failed(b)    == Entries \ Succeeded(b)

TypeOK ==
  /\ iterate \in BOOLEAN
  /\ pc \in MainState
  /\ round \in 1..NR
  /\ index \in 1..(NB + 1)
  /\ shardEnd \in 1..NB
  /\ fut \in [Batches -> FutureState]
  /\ at \in [Batches -> 1..(NT + 1)]
  /\ out \in [Batches -> [Entries -> Outcome]]
  /\ rows \in [Batches -> [Tables -> Nat]]
  /\ lost \in 0..MaxLost
  /\ doneSet \in SUBSET Batches
  /\ succ \in [1..NR -> Nat]
  /\ fail \in [1..NR -> Nat]
  /\ stopped \in [1..NR -> BOOLEAN]
  /\ status \in Verdicts
  /\ progress \in Verdicts

Init ==
  /\ iterate \in BOOLEAN
  /\ pc = "submit"
  /\ round = 1
  /\ index = 1
  /\ shardEnd = Lesser(ShardBatches, NB)
  /\ fut = [b \in Batches |-> "new"]
  /\ at = [b \in Batches |-> 1]
  /\ out = [b \in Batches |-> [e \in Entries |-> "none"]]
  /\ rows = [b \in Batches |-> [t \in Tables |-> 0]]
  /\ lost = 0
  /\ doneSet = {}
  /\ succ = [r \in 1..NR |-> 0]
  /\ fail = [r \in 1..NR |-> 0]
  /\ stopped = [r \in 1..NR |-> FALSE]
  /\ status = "running"
  /\ progress = "running"

-------------------------------------------------------------------------------
(* Pool threads: _execute_batch. *)

(* A free thread takes a batch.  The queue is FIFO, but cancelled batches  *)
(* are skipped while cancel() walks over the others, so any queued batch   *)
(* may be the next one.                                                    *)
StartBatch(b) ==
  /\ fut[b] = "queued"
  /\ Cardinality(Running) < MaxWorkers
  /\ fut' = [fut EXCEPT ![b] = "running"]
  /\ UNCHANGED <<iterate, mainVars, statsVars, workerVars, status, progress>>

(* A free thread takes a cancelled future from the queue: it does not run  *)
(* it and only tells those who wait for it (CANCELLED_AND_NOTIFIED).       *)
NotifyCancelled(b) ==
  /\ fut[b] = "cancelled"
  /\ Cardinality(Running) < MaxWorkers
  /\ fut' = [fut EXCEPT ![b] = "notified"]
  /\ UNCHANGED <<iterate, mainVars, statsVars, workerVars, status, progress>>

(* Mutant: a failed main table does not end the batch. *)
EnterM(b, t, o) ==
  /\ out' = [out EXCEPT ![b][t] = o]
  /\ at' = [at EXCEPT ![b] = t + 1]

(* Result entry of table t; when the main table fails the tables after it  *)
(* are skipped with failed entries, any other failure moves on.            *)
Enter(b, t, o) ==
  LET skip == t = Main /\ o # "ok"
  IN /\ out' = [out EXCEPT ![b] = [e \in Entries |->
                  IF e = t THEN o
                  ELSE IF skip /\ e \in Tables /\ e > t THEN "nogen" ELSE @[e]]]
     /\ at' = [at EXCEPT ![b] = IF skip THEN NT + 1 ELSE t + 1]

(* generate_rows refuses the parameters (ValueError): no rows, no insert. *)
GenerateRefused(b) ==
  /\ fut[b] = "running" /\ at[b] \in Tables
  /\ Enter(b, at[b], "nogen")
  /\ UNCHANGED <<iterate, mainVars, statsVars, fut, rows, lost, status,
                 progress>>

(* _insert_with_retry: at most MaxRetry + 1 transactions, each rolled back *)
(* or committed.  When the answer of a commit is lost its rows stay and    *)
(* the insert is tried again; k of the attempts before the last, or of     *)
(* all of them when the last one fails too, end that way.                  *)
InsertSucceeds(b) ==
  /\ fut[b] = "running" /\ at[b] \in Tables
  /\ \E k \in 0..Lesser(MaxRetry, MaxLost - lost) :
        /\ rows' = [rows EXCEPT ![b][at[b]] = k + 1]
        /\ lost' = lost + k
  /\ Enter(b, at[b], "ok")
  /\ UNCHANGED <<iterate, mainVars, statsVars, fut, status, progress>>

InsertFails(b) ==
  /\ fut[b] = "running" /\ at[b] \in Tables
  /\ \E k \in 0..Lesser(MaxRetry + 1, MaxLost - lost) :
        /\ rows' = [rows EXCEPT ![b][at[b]] = k]
        /\ lost' = lost + k
  /\ Enter(b, at[b], "fail")
  /\ UNCHANGED <<iterate, mainVars, statsVars, fut, status, progress>>

(* Redis synchronisation: attempted only when every table succeeded; one   *)
(* synchronisation failing does not stop the others.                       *)
SyncAndFinish(b) ==
  /\ fut[b] = "running" /\ at[b] = NT + 1
  /\ \E ok \in SUBSET Syncs :
        /\ Tables \subseteq Succeeded(b) \/ ok = {}
        /\ out' = [out EXCEPT ![b] = [e \in Entries |->
                     IF e \in Tables THEN @[e]
                     ELSE IF e \in ok THEN "ok" ELSE "fail"]]
  /\ fut' = [fut EXCEPT ![b] = "done"]
  /\ UNCHANGED <<iterate, mainVars, statsVars, at, rows, lost, status,
                 progress>>

(* Any exception that is not a ValueError of generate_rows escapes the     *)
(* batch: sampling a source table whose rows were not generated, or Redis  *)
(* failing while a range of counter values is reserved.                    *)
BatchRaises(b) ==
  /\ fut[b] = "running" /\ at[b] \in Tables
  /\ fut' = [fut EXCEPT ![b] = "raised"]
  /\ UNCHANGED <<iterate, mainVars, statsVars, workerVars, status, progress>>

-------------------------------------------------------------------------------
(* Main thread: _run_offsets, _run_all, the two modes, _finalize_task. *)

CanSubmit == ~stopped[round] /\ index <= shardEnd
             /\ Cardinality(Pending) < MaxInflight

Submit ==
  /\ pc = "submit" /\ CanSubmit
  /\ fut' = [fut EXCEPT ![<<round, index>>] = "queued"]
  /\ index' = index + 1
  /\ UNCHANGED <<iterate, pc, round, shardEnd, doneSet, statsVars, workerVars,
                 status, progress>>

(* Mutant: a cancelled future does not count as finished. *)
FinishedM == {b \in Pending : fut[b] \in {"done", "raised"}}

(* wait(pending, FIRST_COMPLETED): every future finished by now; cancel()  *)
(* alone does not finish one, a thread has to come across it.              *)
Finished == {b \in Pending : fut[b] \in {"done", "raised", "notified"}}

Wait ==
  /\ pc = "submit" /\ ~CanSubmit /\ Finished # {}
  /\ doneSet' = Finished
  /\ pc' = "record"
  /\ UNCHANGED <<iterate, round, index, shardEnd, statsVars, fut, workerVars,
                 status, progress>>

(* A cancelled future leaves no log. *)
SkipCancelled(b) ==
  /\ pc = "record" /\ b \in doneSet /\ fut[b] = "notified"
  /\ fut' = [fut EXCEPT ![b] = "dropped"]
  /\ doneSet' = doneSet \ {b}
  /\ UNCHANGED <<iterate, pc, round, index, shardEnd, statsVars, workerVars,
                 status, progress>>

(* _record_batch_result: one log per entry, rollback logs for the entries  *)
(* that succeeded, statistics; committed together.                         *)
Record(b) ==
  /\ pc = "record" /\ b \in doneSet /\ fut[b] = "done"
  /\ fut' = [fut EXCEPT ![b] = "logged"]
  /\ doneSet' = doneSet \ {b}
  /\ succ' = [succ EXCEPT ![round] = @ + SizeOf(b) * Cardinality(Succeeded(b))]
  /\ fail' = [fail EXCEPT ![round] = @ + SizeOf(b) * Cardinality(Failed(b))]
  /\ UNCHANGED <<iterate, pc, round, index, shardEnd, stopped, workerVars,
                 status, progress>>

(* future.result() re-raises, or Redis or the system database fails while  *)
(* a batch is recorded, a round is announced or the verdict is written:    *)
(* uncommitted logs are rolled back and the pool, if any, is left.         *)
MainRaises ==
  /\ \/ pc = "submit" /\ index = 1 /\ Pending = {}
     \/ pc = "record" /\ \E b \in doneSet : fut[b] \in {"done", "raised"}
     \/ pc = "final"
     \/ pc = "publish"
  /\ pc' = "unwind"
  /\ UNCHANGED <<iterate, round, index, shardEnd, doneSet, statsVars, fut,
                 workerVars, status, progress>>

RateExceeded(r) == fail[r] * 100 > FailPct * (succ[r] + fail[r])

(* After the finished futures were looked at: stop on a high failure rate, *)
(* cancelling the futures no thread has taken.                             *)
CheckRate ==
  /\ pc = "record" /\ doneSet = {}
  /\ pc' = "submit"
  /\ IF ~stopped[round] /\ RateExceeded(round)
     THEN /\ stopped' = [stopped EXCEPT ![round] = TRUE]
          /\ fut' = [b \in Batches |->
                       IF fut[b] = "queued" THEN "cancelled" ELSE fut[b]]
     ELSE UNCHANGED <<stopped, fut>>
  /\ UNCHANGED <<iterate, round, index, shardEnd, doneSet, succ, fail,
                 workerVars, status, progress>>

NextShard ==
  /\ pc = "submit" /\ Pending = {}
  /\ ~stopped[round] /\ index > shardEnd /\ shardEnd < NB
  /\ shardEnd' = Lesser(shardEnd + ShardBatches, NB)
  /\ UNCHANGED <<iterate, pc, round, index, doneSet, statsVars, fut,
                 workerVars, status, progress>>

(* End of _run_all.  The rows a stopped round never ran count as failed.   *)
Remaining(r) ==
  LET left == RowCount * NT - (succ[r] + fail[r])
  IN IF stopped[r] /\ left > 0 THEN left ELSE 0

RoundEnd ==
  /\ pc = "submit" /\ Pending = {}
  /\ stopped[round] \/ index > NB
  /\ fail' = [fail EXCEPT ![round] = @ + Remaining(round)]
  /\ IF round < Rounds
     THEN /\ round' = round + 1
          /\ index' = 1
          /\ shardEnd' = Lesser(ShardBatches, NB)
          /\ pc' = "submit"
     ELSE /\ pc' = "final"
          /\ UNCHANGED <<round, index, shardEnd>>
  /\ UNCHANGED <<iterate, doneSet, succ, stopped, fut, workerVars, status,
                 progress>>

(* Mutant: iterate mode has no total failure. *)
VerdictM ==
  IF \A r \in 1..Rounds : fail[r] = 0 THEN "success"
  ELSE IF ~iterate /\ (stopped[1] \/ RateExceeded(1)) THEN "failed" ELSE "partial"

(* By rounds in iterate mode, by rows in normal mode. *)
Verdict ==
  LET bad == {r \in 1..Rounds : fail[r] > 0}
  IN IF bad = {} THEN "success"
     ELSE IF (iterate /\ bad = 1..Rounds)
             \/ (~iterate /\ (stopped[1] \/ RateExceeded(1)))
          THEN "failed" ELSE "partial"

Finalize ==
  /\ pc = "final"
  /\ status' = Verdict
  /\ pc' = "publish"
  /\ UNCHANGED <<iterate, round, index, shardEnd, doneSet, statsVars, fut,
                 workerVars, progress>>

Publish ==
  /\ pc = "publish"
  /\ progress' = status
  /\ pc' = "done"
  /\ UNCHANGED <<iterate, round, index, shardEnd, doneSet, statsVars, fut,
                 workerVars, status>>

(* Mutant: the pool is left without waiting for its threads. *)
UnwindM ==
  /\ pc = "unwind"
  /\ status' = "failed"
  /\ progress' \in {progress, "failed"}
  /\ pc' = "done"
  /\ UNCHANGED <<iterate, round, index, shardEnd, doneSet, statsVars, fut,
                 workerVars>>

(* Leaving the pool waits for every submitted batch, queued ones included; *)
(* nothing of them is logged.  _mark_task_failed then sets the verdict and *)
(* updates Redis on a best-effort basis; when its own commit raises,       *)
(* executed or not, nothing catches that and the engine is left.           *)
Unwind ==
  /\ pc = "unwind" /\ Unfinished = {}
  /\ \/ /\ status' = "failed"
        /\ progress' \in {progress, "failed"}
        /\ pc' = "done"
     \/ /\ status' \in {status, "failed"}
        /\ progress' = progress
        /\ pc' = "left"
  /\ UNCHANGED <<iterate, round, index, shardEnd, doneSet, statsVars, fut,
                 workerVars>>

WorkerStep(b) ==
  \/ StartBatch(b)
  \/ NotifyCancelled(b)
  \/ GenerateRefused(b)
  \/ InsertSucceeds(b)
  \/ InsertFails(b)
  \/ SyncAndFinish(b)
  \/ BatchRaises(b)

MainStep ==
  \/ Submit
  \/ Wait
  \/ \E b \in Batches : SkipCancelled(b) \/ Record(b)
  \/ MainRaises
  \/ CheckRate
  \/ NextShard
  \/ RoundEnd
  \/ Finalize
  \/ Publish
  \/ Unwind

Terminating == pc \in {"done", "left"} /\ UNCHANGED vars

Next ==
  \/ \E b \in Batches : WorkerStep(b)
  \/ MainStep
  \/ Terminating

(* Threads of the process keep running; nothing is assumed of the target   *)
(* database, whose calls return or fail after bounded retries.             *)
Fairness ==
  /\ WF_vars(MainStep)
  /\ \A b \in Batches : WF_vars(WorkerStep(b))

Spec == Init /\ [][Next]_vars /\ Fairness

-------------------------------------------------------------------------------
(* Properties. *)

RoundBatches == {b \in Batches : b[1] \in 1..Rounds}

(* A task is declared successful only when every table of every batch of   *)
(* every round is in the target database and every synchronisation went    *)
(* through (_finalize_task decides it from the statistics alone).          *)
SuccessMeansComplete ==
  status = "success" =>
    \A b \in RoundBatches :
      /\ \A e \in Entries : out[b][e] = "ok"
      /\ \A t \in Tables : rows[b][t] > 0

(* A task declared partially successful has inserted something and misses  *)
(* something: neither a silent success nor a total failure (_finalize_task)*)
PartialMeansMixed ==
  status = "partial" =>
    /\ \E b \in RoundBatches, e \in Entries : out[b][e] = "ok"
    /\ \E b \in RoundBatches, e \in Entries : out[b][e] # "ok"

(* The log of a batch tells what is in the target database: a success log  *)
(* stands for exactly one copy of the rows, a failure log for none, as the *)
(* rollback data relies on (_execute_batch, step 5); a lost commit answer  *)
(* can only add copies.                                                    *)
LogsMatchRows ==
  \A b \in Batches, t \in Tables :
    fut[b] = "logged" =>
      /\ out[b][t] = "ok" => rows[b][t] > 0
      /\ lost = 0 => rows[b][t] = IF out[b][t] = "ok" THEN 1 ELSE 0

(* No row of a table whose values were copied from the main table exists   *)
(* without the main table's rows of the same batch (_execute_batch skips   *)
(* the tables that follow a failed main table).                            *)
NoOrphanOfMain ==
  \A b \in Batches, t \in Tables :
    Main \in Source[t] /\ rows[b][t] > 0 => rows[b][Main] > 0

(* When the verdict is computed every row of every round was counted as a  *)
(* success or as a failure, the rows of cancelled batches included         *)
(* (_run_all adds the remaining rows of a stopped round).                  *)
EveryRowCounted ==
  pc \in {"final", "publish"} =>
    \A r \in 1..Rounds :
      /\ succ[r] + fail[r] >= RowCount * NT
      /\ NS = 0 => succ[r] + fail[r] = RowCount * NT

(* Once the task has a verdict no thread of the pool is inserting or will  *)
(* insert, even if the main thread left the pool by an exception: a later  *)
(* retry or rollback does not race with this execution.                    *)
NoWorkAfterVerdict == status # "running" => Unfinished = {}

(* A batch cancelled by the failure-rate stop has written nothing: it has  *)
(* no log and no rollback data, so its rows could never be found again.    *)
CancelledLeavesNothing ==
  \A b \in Batches : fut[b] \in {"cancelled", "notified", "dropped"} =>
    \A t \in Tables : rows[b][t] = 0

(* The rows in the target database are what the logs and the statistics    *)
(* tell of them, whatever failed, was cancelled or lost its answer         *)
(* (_execute_batch, _record_batch_result).                                 *)
RowsTrue == LogsMatchRows /\ NoOrphanOfMain /\ CancelledLeavesNothing

(* The statistics account for every row, and a partial success for what is *)
(* there and what is not (_run_all, _finalize_task).                       *)
StatisticsTrue == EveryRowCounted /\ PartialMeansMixed

(* A success is complete, and a verdict is the end of all work             *)
(* (_finalize_task, _mark_task_failed).                                    *)
VerdictHolds == SuccessMeansComplete /\ NoWorkAfterVerdict

(* What the contract of an execution speaks of. *)
Answered == lost = 0
Logs     == [b \in {c \in Batches : fut[c] = "logged"} |-> Succeeded(b)]
Contract == INSTANCE TaskContract WITH
  due <- RoundBatches, copies <- rows, sure <- Answered, log <- Logs, verdict <- status

(* What stops, retries and rollbacks rely on: rows appear only while the   *)
(* task is running and are left alone once their batch is logged, logs are *)
(* written once and agree with them, and the verdict agrees with the logs. *)
KeepsContract == Contract!Spec

(* Whatever fails, the execution ends, its pool idle, and with a verdict - *)
(* unless the commit of _mark_task_failed raises (executor.py:994), the    *)
(* one failure that may leave the task RUNNING.                            *)
Termination ==
  <>(/\ pc \in {"done", "left"}
     /\ pc = "done" => status # "running"
     /\ Unfinished = {})
=============================================================================
