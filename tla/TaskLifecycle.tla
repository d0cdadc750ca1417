----------------------------- MODULE TaskLifecycle -----------------------------
(***************************************************************************)
(* The life of one data-generation task (df_exec_task) between the API     *)
(* process and the Celery workers: submission (case_service.execute_case), *)
(* execution by a delivered message (tasks/execute_task.py with the engine *)
(* of BatchRun in outline), forced stop, retry of the failed batches by a  *)
(* thread of the API process, and rollback (tasks/rollback_task.py).       *)
(*                                                                         *)
(* All of them meet in the row of the task, whose status is read in one    *)
(* transaction and overwritten in a later one.  A batch is one table's.    *)
(***************************************************************************)
EXTENDS Integers, FiniteSets

CONSTANTS
  Batches,       \* batches of the task
  Exec,          \* the Celery process that handles the message
  Retriers,      \* threads of the API process that run retries
  MaxEvents      \* bound on requests of users and crashes, taken together

Procs == {Exec} \cup Retriers

ASSUME ProcessesAssumption ==
  Exec \notin Retriers /\ IsFiniteSet(Retriers) /\ IsFiniteSet(Batches)
ASSUME BoundsAssumption == MaxEvents \in Nat

VARIABLES
  committed,  \* has the transaction that inserts the task committed?
  status,     \* df_exec_task.status
  celeryId,   \* is df_exec_task.celery_task_id set?
  msg,        \* the message of the task in the broker
  pc,         \* program counter of every process
  todo,       \* batches a process has still to run
  res,        \* results of a process by batch
  unlogged,   \* batches run by a process and not recorded yet
  stopped,    \* did the failure rate stop the execution?
  ever,       \* batches with a failed log
  latest,     \* newest log of every batch
  copies,     \* copies of the rows of a batch in the target database
  rblog,      \* rollback logs with rolled_back = 0
  ghost,      \* those of them whose rows are already deleted
  unkept,     \* copies logged without a rollback log (history)
  aborting,   \* forced stop: "idle", or "seen" after its status check
  revoked,    \* was the message revoked with terminate = True?
  rbStatus,   \* df_exec_task.rollback_status
  rbReq,      \* rollback request in the API process
  rbPc,       \* rollback worker
  rbTodo,     \* rollback logs it has still to visit, by batch
  rbFailed,   \* did one of them fail?
  rbLost,     \* was a rollback marked as running left to nobody? (history)
  count,      \* requests and crashes so far, for the bound
  lost        \* has a process died, or a run been left by an exception?

execVars == <<pc, todo, res, unlogged, stopped>>
dataVars == <<ever, latest, copies, rblog, ghost, unkept>>
reqVars  == <<aborting, revoked>>
rbVars   == <<rbStatus, rbReq, rbPc, rbTodo, rbFailed, rbLost>>
vars == <<committed, status, celeryId, msg, execVars, dataVars, reqVars, rbVars,
          count, lost>>

Statuses   == {"pending", "running", "success", "failed", "retrying", "partial",
               "aborted"}
Abortable  == {"pending", "running", "retrying"}
Retryable  == {"failed", "partial"}
Rollable   == {"success", "failed", "partial"}
Results    == {"none", "ok", "fail"}
ProcState  == {"idle", "start", "check", "begin", "run", "unwind", "recount", "publish",
               "ack"}
RbStatuses == {"none", "running", "done", "failed"}

TypeOK ==
  /\ committed \in BOOLEAN
  /\ status \in Statuses
  /\ celeryId \in BOOLEAN
  /\ msg \in {"none", "queued", "unacked", "acked"}
  /\ pc \in [Procs -> ProcState]
  /\ todo \in [Procs -> SUBSET Batches]
  /\ res \in [Procs -> [Batches -> Results]]
  /\ unlogged \in [Procs -> SUBSET Batches]
  /\ stopped \in BOOLEAN
  /\ ever \in SUBSET Batches
  /\ latest \in [Batches -> Results]
  /\ copies \in [Batches -> Nat]
  /\ rblog \in [Batches -> Nat]
  /\ ghost \in [Batches -> Nat]
  /\ unkept \in [Batches -> Nat]
  /\ aborting \in {"idle", "seen"}
  /\ revoked \in BOOLEAN
  /\ rbStatus \in RbStatuses
  /\ rbReq \in {"idle", "seen", "marked"}
  /\ rbPc \in {"idle", "queued", "run"}
  /\ rbTodo \in [Batches -> Nat]
  /\ rbFailed \in BOOLEAN
  /\ rbLost \in BOOLEAN
  /\ count \in [{"retry", "abort", "rollback", "crash"} -> Nat]
  /\ lost \in BOOLEAN

NoResults == [b \in Batches |-> "none"]
NoLogs    == [b \in Batches |-> 0]

Init ==
  /\ committed = FALSE
  /\ status = "pending"
  /\ celeryId = FALSE
  /\ msg = "none"
  /\ pc = [p \in Procs |-> "idle"]
  /\ todo = [p \in Procs |-> {}]
  /\ res = [p \in Procs |-> NoResults]
  /\ unlogged = [p \in Procs |-> {}]
  /\ stopped = FALSE
  /\ ever = {}
  /\ latest = NoResults
  /\ copies = NoLogs
  /\ rblog = NoLogs
  /\ ghost = NoLogs
  /\ unkept = NoLogs
  /\ aborting = "idle"
  /\ revoked = FALSE
  /\ rbStatus = "none"
  /\ rbReq = "idle"
  /\ rbPc = "idle"
  /\ rbTodo = NoLogs
  /\ rbFailed = FALSE
  /\ rbLost = FALSE
  /\ count = [k \in {"retry", "abort", "rollback", "crash"} |-> 0]
  /\ lost = FALSE

-------------------------------------------------------------------------------
(* Submission: the message is sent before the transaction commits. *)

Send ==
  /\ msg = "none"
  /\ msg' = "queued"
  /\ UNCHANGED <<committed, status, celeryId, execVars, dataVars, reqVars,
                 rbVars, count, lost>>

Commit ==
  /\ msg # "none" /\ ~committed
  /\ committed' = TRUE
  /\ UNCHANGED <<status, celeryId, msg, execVars, dataVars, reqVars, rbVars,
                 count, lost>>

-------------------------------------------------------------------------------
(* The Celery process and the retry threads. *)

Goto(p, l) == pc' = [pc EXCEPT ![p] = l]

(* The message reaches a worker (task_acks_late: not acknowledged yet); a  *)
(* worker that has heard of its revocation discards it.                    *)
Deliver ==
  /\ msg = "queued" /\ pc[Exec] = "idle"
  /\ \/ msg' = "unacked" /\ Goto(Exec, "start")
     \/ revoked /\ msg' = "acked" /\ pc' = pc
  /\ revoked' = FALSE
  /\ UNCHANGED <<committed, status, celeryId, todo, res, unlogged, stopped,
                 dataVars, aborting, rbVars, count, lost>>

(* execute_data_gen writes celery_task_id back; a task that is not         *)
(* committed yet is not found, now or later in execute_case_task.  When    *)
(* the system database fails here the message counts as handled.           *)
WriteBackId ==
  /\ pc[Exec] = "start"
  /\ \/ celeryId' = (celeryId \/ committed) /\ Goto(Exec, "check")
     \/ celeryId' \in {celeryId, celeryId \/ committed} /\ Goto(Exec, "ack")
  /\ UNCHANGED <<committed, status, msg, todo, res, unlogged, stopped, dataVars,
                 reqVars, rbVars, count, lost>>

(* Mutant: no idempotence guard. *)
CheckExecM ==
  /\ pc[Exec] = "check"
  /\ Goto(Exec, IF committed THEN "begin" ELSE "ack")
  /\ UNCHANGED <<committed, status, celeryId, msg, todo, res, unlogged, stopped,
                 dataVars, reqVars, rbVars, count, lost>>

(* Idempotence guard of execute_case_task. *)
CheckExec ==
  /\ pc[Exec] = "check"
  /\ Goto(Exec, IF committed /\ status \in {"pending", "retrying"}
                THEN "begin" ELSE "ack")
  /\ UNCHANGED <<committed, status, celeryId, msg, todo, res, unlogged, stopped,
                 dataVars, reqVars, rbVars, count, lost>>

(* _prepare_context refuses the configuration, or the task is marked as    *)
(* running whatever its status is by now; the commit of either may raise,  *)
(* executed or not, outside of every handler.                              *)
BeginExec ==
  /\ pc[Exec] = "begin"
  /\ \/ /\ status' = "failed"
        /\ Goto(Exec, "ack")
        /\ UNCHANGED <<todo, res, stopped, lost>>
     \/ /\ status' = "running"
        /\ Goto(Exec, "run")
        /\ todo' = [todo EXCEPT ![Exec] = Batches]
        /\ res' = [res EXCEPT ![Exec] = NoResults]
        /\ stopped' = FALSE
        /\ lost' = lost
     \/ /\ status' \in {status, "failed", "running"}
        /\ Goto(Exec, "ack")
        /\ lost' = TRUE
        /\ UNCHANGED <<todo, res, stopped>>
  /\ UNCHANGED <<committed, celeryId, msg, unlogged, dataVars, reqVars, rbVars,
                 count>>

(* executor.retry_failed_batches: the status and the failed logs are read  *)
(* in one snapshot; todo holds every batch that ever failed.  The retry    *)
(* ends when the status does not allow it or the database fails.           *)
CheckRetry(r) ==
  /\ pc[r] = "check"
  /\ \/ /\ status \in Retryable
        /\ Goto(r, "begin")
        /\ todo' = [todo EXCEPT ![r] = ever]
        /\ res' = [res EXCEPT ![r] = NoResults]
     \/ Goto(r, "idle") /\ UNCHANGED <<todo, res>>
  /\ UNCHANGED <<committed, status, celeryId, msg, unlogged, stopped, dataVars,
                 reqVars, rbVars, count, lost>>

(* Mutant: nothing to retry leaves the task as it was marked. *)
BeginRetryM(r) ==
  /\ pc[r] = "begin"
  /\ status' = IF todo[r] = {} THEN "running" ELSE "retrying"
  /\ Goto(r, IF todo[r] = {} THEN "idle" ELSE "run")
  /\ UNCHANGED <<committed, celeryId, msg, todo, res, unlogged, stopped, dataVars,
                 reqVars, rbVars, count, lost>>

(* _prepare_context fails, or the retry starts; without a failed log the   *)
(* verdict is computed at once.  Nothing catches a commit that raises.     *)
BeginRetry(r) ==
  LET marked == IF todo[r] = {} THEN "running" ELSE "retrying"
  IN /\ pc[r] = "begin"
     /\ \/ /\ status' = "failed"
           /\ Goto(r, "idle")
           /\ todo' = [todo EXCEPT ![r] = {}]
           /\ lost' = lost
        \/ /\ status' = marked
           /\ Goto(r, IF todo[r] = {} THEN "recount" ELSE "run")
           /\ UNCHANGED <<todo, lost>>
        \/ /\ status' \in {status, "failed", marked}
           /\ Goto(r, "idle")
           /\ todo' = [todo EXCEPT ![r] = {}]
           /\ lost' = TRUE
     /\ UNCHANGED <<committed, celeryId, msg, res, unlogged, stopped, dataVars,
                    reqVars, rbVars, count>>

(* _execute_batch in a thread of the pool; after an exception of the main  *)
(* thread the pool still runs what was submitted.                          *)
RunBatch(p, b) ==
  /\ pc[p] \in {"run", "unwind"} /\ b \in todo[p]
  /\ todo' = [todo EXCEPT ![p] = @ \ {b}]
  /\ \E r \in {"ok", "fail"} :
        /\ res' = [res EXCEPT ![p][b] = r]
        /\ copies' = IF r = "ok" THEN [copies EXCEPT ![b] = @ + 1] ELSE copies
  /\ unlogged' = [unlogged EXCEPT ![p] = @ \cup {b}]
  /\ UNCHANGED <<committed, status, celeryId, msg, pc, stopped, ever, latest,
                 rblog, ghost, unkept, reqVars, rbVars, count, lost>>

Logged(p)       == {b \in Batches : res[p][b] # "none"} \ unlogged[p]
Above(f, s)     == 2 * Cardinality(f) > Cardinality(s)
TooManyFailed(p, b) ==
  LET seen == Logged(p) \cup {b}
  IN p = Exec /\ Above({x \in seen : res[p][x] = "fail"}, seen)

(* Mutant: the rollback data of the batch is not written. *)
RecordM(p, b) ==
  /\ pc[p] = "run" /\ b \in unlogged[p]
  /\ unlogged' = [unlogged EXCEPT ![p] = @ \ {b}]
  /\ latest' = [latest EXCEPT ![b] = res[p][b]]
  /\ ever' = IF res[p][b] = "fail" THEN ever \cup {b} ELSE ever
  /\ IF TooManyFailed(p, b)
     THEN stopped' = TRUE /\ todo' = [todo EXCEPT ![p] = {}]
     ELSE UNCHANGED <<stopped, todo>>
  /\ UNCHANGED <<committed, status, celeryId, msg, pc, res, copies, rblog, ghost,
                 unkept, reqVars, rbVars, count, lost>>

(* _record_batch_result: the log and, for a success, the rollback log - if *)
(* the batch kept where its rows are (not for a task above                 *)
(* ROLLBACK_CAPTURE_MAX_ROWS, nor when the keys the server gave out are    *)
(* unknown).  The execution (not a retry) stops above the failure rate of  *)
(* one half.                                                               *)
Record(p, b) ==
  /\ pc[p] = "run" /\ b \in unlogged[p]
  /\ unlogged' = [unlogged EXCEPT ![p] = @ \ {b}]
  /\ latest' = [latest EXCEPT ![b] = res[p][b]]
  /\ \/ /\ res[p][b] = "ok" /\ ever' = ever
        /\ \/ rblog' = [rblog EXCEPT ![b] = @ + 1] /\ unkept' = unkept
           \/ unkept' = [unkept EXCEPT ![b] = @ + 1] /\ rblog' = rblog
     \/ res[p][b] # "ok" /\ ever' = ever \cup {b} /\ UNCHANGED <<rblog, unkept>>
  /\ IF TooManyFailed(p, b)
     THEN stopped' = TRUE /\ todo' = [todo EXCEPT ![p] = {}]
     ELSE UNCHANGED <<stopped, todo>>
  /\ UNCHANGED <<committed, status, celeryId, msg, pc, res, copies, ghost,
                 reqVars, rbVars, count, lost>>

(* _finalize_task: by the statistics of this run. *)
FinishExec ==
  LET failed == {b \in Batches : res[Exec][b] = "fail"}
  IN /\ pc[Exec] = "run" /\ todo[Exec] = {} /\ unlogged[Exec] = {}
     /\ status' = IF failed = {} THEN "success"
                  ELSE IF stopped \/ Above(failed, Batches) THEN "failed"
                  ELSE "partial"
     /\ Goto(Exec, "publish")
     /\ res' = [res EXCEPT ![Exec] = NoResults]
     /\ stopped' = FALSE
     /\ UNCHANGED <<committed, celeryId, msg, todo, unlogged, dataVars, reqVars,
                    rbVars, count, lost>>

(* The case and the progress in Redis follow the committed verdict; an     *)
(* exception there marks the task as failed, whatever happened meanwhile.  *)
Publish ==
  /\ pc[Exec] = "publish"
  /\ status' \in {status, "failed"}
  /\ Goto(Exec, "ack")
  /\ UNCHANGED <<committed, celeryId, msg, todo, res, unlogged, stopped, dataVars,
                 reqVars, rbVars, count, lost>>

(* _recount_finalize: by the newest log of every batch that has one. *)
FinishRetry(r) ==
  LET good == {b \in Batches : latest[b] = "ok"}
      bad  == {b \in Batches : latest[b] = "fail"}
  IN /\ \/ pc[r] = "recount"
        \/ pc[r] = "run" /\ todo[r] = {} /\ unlogged[r] = {}
     /\ status' = IF good = {} THEN "failed"
                  ELSE IF bad = {} THEN "success"
                  ELSE IF Above(bad, good \cup bad) THEN "failed"
                  ELSE "partial"
     /\ Goto(r, "idle")
     /\ res' = [res EXCEPT ![r] = NoResults]
     /\ UNCHANGED <<committed, celeryId, msg, todo, unlogged, stopped, dataVars,
                    reqVars, rbVars, count, lost>>

(* Mutant: the task is marked as failed before its pool is left. *)
RaiseM(p) ==
  /\ pc[p] \in {"run", "recount"}
  /\ Goto(p, "unwind")
  /\ status' = "failed"
  /\ lost' = TRUE
  /\ UNCHANGED <<committed, celeryId, msg, todo, res, unlogged, stopped, dataVars,
                 reqVars, rbVars, count>>

(* An exception in the main thread of a run (Redis or the system database, *)
(* or one a batch raised): what was submitted to the pool still runs, the  *)
(* results are not logged.                                                 *)
Raise(p) ==
  /\ pc[p] \in {"run", "recount"}
  /\ Goto(p, "unwind")
  /\ \E submitted \in SUBSET todo[p] :
        /\ \/ p = Exec \/ submitted = todo[p]
           \/ submitted = {} /\ res[p] = NoResults
        /\ todo' = [todo EXCEPT ![p] = submitted]
  /\ lost' = TRUE
  /\ UNCHANGED <<committed, status, celeryId, msg, res, unlogged, stopped,
                 dataVars, reqVars, rbVars, count>>

(* execute_case_task then marks the task as failed, if it can; a retry has *)
(* no handler and leaves the status as it is.                              *)
Unwound(p) ==
  /\ pc[p] = "unwind" /\ todo[p] = {}
  /\ unlogged' = [unlogged EXCEPT ![p] = {}]
  /\ res' = [res EXCEPT ![p] = NoResults]
  /\ IF p = Exec
     THEN status' \in {status, "failed"} /\ stopped' = FALSE /\ Goto(p, "ack")
     ELSE UNCHANGED <<status, stopped>> /\ Goto(p, "idle")
  /\ UNCHANGED <<committed, celeryId, msg, todo, dataVars, reqVars, rbVars, count,
                 lost>>

Ack ==
  /\ pc[Exec] = "ack"
  /\ msg' = "acked"
  /\ revoked' = FALSE
  /\ Goto(Exec, "idle")
  /\ UNCHANGED <<committed, status, celeryId, todo, res, unlogged, stopped,
                 dataVars, aborting, rbVars, count, lost>>

-------------------------------------------------------------------------------
(* Requests of users: task_service. *)

Event(k) == /\ count.retry + count.abort + count.rollback + count.crash < MaxEvents
            /\ count' = [count EXCEPT ![k] = @ + 1]

(* retry_failed_batches: a thread is started and checks the status again.  *)
RequestRetry(r) ==
  /\ committed /\ status \in Retryable /\ pc[r] = "idle"
  /\ Event("retry")
  /\ Goto(r, "check")
  /\ UNCHANGED <<committed, status, celeryId, msg, todo, res, unlogged, stopped,
                 dataVars, reqVars, rbVars, lost>>

(* abort_task: the revocation is sent (or fails) before the status is      *)
(* overwritten; only a task a worker has seen has a Celery id.  Retries    *)
(* run in the API process: no message of theirs could be revoked.          *)
AbortCheck ==
  /\ committed /\ status \in Abortable /\ aborting = "idle"
  /\ Event("abort")
  /\ aborting' = "seen"
  /\ revoked' \in {revoked, revoked \/ (celeryId /\ msg # "acked")}
  /\ UNCHANGED <<committed, status, celeryId, msg, execVars, dataVars, rbVars,
                 lost>>

AbortCommit ==
  /\ aborting = "seen"
  /\ aborting' = "idle"
  /\ status' = "aborted"
  /\ UNCHANGED <<committed, celeryId, msg, execVars, dataVars, revoked, rbVars,
                 count, lost>>

(* What a process forgets when it dies. *)
Forget(p) ==
  /\ Goto(p, "idle")
  /\ todo' = [todo EXCEPT ![p] = {}]
  /\ res' = [res EXCEPT ![p] = NoResults]
  /\ unlogged' = [unlogged EXCEPT ![p] = {}]
  /\ stopped' = FALSE
  /\ lost' = TRUE

(* The pool process of a revoked message is killed; the message counts as  *)
(* handled (task_reject_on_worker_lost is not set).                        *)
Kill ==
  /\ revoked /\ pc[Exec] # "idle"
  /\ msg' = "acked"
  /\ revoked' = FALSE
  /\ Forget(Exec)
  /\ UNCHANGED <<committed, status, celeryId, dataVars, aborting, rbVars, count>>

(* rollback_task: checked, marked as running, handed to the broker. *)
RollbackCheck ==
  /\ committed /\ status \in Rollable /\ rbReq = "idle"
  /\ rbStatus \in {"none", "failed"}
  /\ \E b \in Batches : rblog[b] > 0
  /\ Event("rollback")
  /\ rbReq' = "seen"
  /\ UNCHANGED <<committed, status, celeryId, msg, execVars, dataVars, reqVars,
                 rbStatus, rbPc, rbTodo, rbFailed, rbLost, lost>>

(* The commit of the mark may raise, executed or not. *)
RollbackMark ==
  /\ rbReq = "seen"
  /\ \/ rbReq' = "marked" /\ rbStatus' = "running" /\ rbLost' = rbLost
     \/ rbReq' = "idle" /\ UNCHANGED <<rbStatus, rbLost>>
     \/ rbReq' = "idle" /\ rbStatus' = "running" /\ rbLost' = TRUE
  /\ UNCHANGED <<committed, status, celeryId, msg, execVars, dataVars, reqVars,
                 rbPc, rbTodo, rbFailed, count, lost>>

(* A message that cannot be sent takes the mark back, if that commits. *)
RollbackSend ==
  /\ rbReq = "marked"
  /\ rbReq' = "idle"
  /\ \/ rbPc' = "queued" /\ UNCHANGED <<rbStatus, rbLost>>
     \/ rbStatus' = "none" /\ UNCHANGED <<rbPc, rbLost>>
     \/ rbLost' = TRUE /\ UNCHANGED <<rbStatus, rbPc>>
  /\ UNCHANGED <<committed, status, celeryId, msg, execVars, dataVars, reqVars,
                 rbTodo, rbFailed, count, lost>>

-------------------------------------------------------------------------------
(* The rollback worker: tasks/rollback_task.py. *)

RollbackStart ==
  /\ rbPc = "queued"
  /\ rbPc' = "run"
  /\ rbTodo' = rblog
  /\ UNCHANGED <<committed, status, celeryId, msg, execVars, dataVars, reqVars,
                 rbStatus, rbReq, rbFailed, rbLost, count, lost>>

(* Mutant: the rows are deleted again although an earlier visit did. *)
DeleteRowsM(b) == copies' = [copies EXCEPT ![b] = @ - 1] /\ ghost' = ghost

(* One log is visited: its rows deleted (unless an earlier visit did) and, *)
(* in the system database, the log marked.                                 *)
DeleteRows(b) ==
  \/ ghost[b] < rblog[b] /\ copies' = [copies EXCEPT ![b] = @ - 1] /\ ghost' = ghost
  \/ ghost[b] > 0 /\ copies' = copies /\ ghost' = [ghost EXCEPT ![b] = @ - 1]

RollbackLog(b) ==
  /\ rbPc = "run" /\ rbTodo[b] > 0
  /\ rbTodo' = [rbTodo EXCEPT ![b] = @ - 1]
  /\ rblog' = [rblog EXCEPT ![b] = @ - 1]
  /\ DeleteRows(b)
  /\ UNCHANGED <<committed, status, celeryId, msg, execVars, ever, latest, unkept,
                 reqVars, rbStatus, rbReq, rbPc, rbFailed, rbLost, count, lost>>

(* The deletion fails, or the mark does after the rows are gone. *)
RollbackLogFails(b) ==
  /\ rbPc = "run" /\ rbTodo[b] > 0
  /\ rbTodo' = [rbTodo EXCEPT ![b] = @ - 1]
  /\ rbFailed' = TRUE
  /\ \/ UNCHANGED <<copies, ghost>>
     \/ /\ ghost[b] < rblog[b]
        /\ copies' = [copies EXCEPT ![b] = @ - 1]
        /\ ghost' = [ghost EXCEPT ![b] = @ + 1]
  /\ UNCHANGED <<committed, status, celeryId, msg, execVars, ever, latest, rblog,
                 unkept, reqVars, rbStatus, rbReq, rbPc, rbLost, count, lost>>

RollbackEnd ==
  /\ rbPc = "run" /\ rbTodo = NoLogs
  /\ rbPc' = "idle"
  /\ rbStatus' = IF rbFailed THEN "failed" ELSE "done"
  /\ rbFailed' = FALSE
  /\ UNCHANGED <<committed, status, celeryId, msg, execVars, dataVars, reqVars,
                 rbReq, rbTodo, rbLost, count, lost>>

(* An exception outside of the visit of a log, or the commit of the final  *)
(* status raises: the outer handler marks the rollback as failed, if its   *)
(* own commit does not raise as well.                                      *)
RollbackError ==
  /\ rbPc = "run"
  /\ rbPc' = "idle"
  /\ \/ rbStatus' = "failed" /\ rbLost' = rbLost
     \/ rbStatus' = rbStatus /\ rbLost' = TRUE
  /\ rbTodo' = NoLogs
  /\ rbFailed' = FALSE
  /\ UNCHANGED <<committed, status, celeryId, msg, execVars, dataVars, reqVars,
                 rbReq, count, lost>>

-------------------------------------------------------------------------------
(* Crashes. *)

(* A worker dies and its unacknowledged message is delivered again, or     *)
(* only the pool process dies and the message counts as handled.           *)
WorkerCrash ==
  /\ pc[Exec] # "idle"
  /\ Event("crash")
  /\ msg' \in {"queued", "acked"}
  /\ Forget(Exec)
  /\ UNCHANGED <<committed, status, celeryId, dataVars, reqVars, rbVars>>

(* The API process dies with its retry threads and pending requests. *)
ApiCrash ==
  /\ committed /\ Event("crash")
  /\ pc' = [p \in Procs |-> IF p = Exec THEN pc[p] ELSE "idle"]
  /\ todo' = [p \in Procs |-> IF p = Exec THEN todo[p] ELSE {}]
  /\ unlogged' = [p \in Procs |-> IF p = Exec THEN unlogged[p] ELSE {}]
  /\ res' = [p \in Procs |-> IF p = Exec THEN res[p] ELSE NoResults]
  /\ aborting' = "idle"
  /\ rbReq' = "idle"
  /\ rbLost' = (rbLost \/ rbReq = "marked")
  /\ lost' = TRUE
  /\ UNCHANGED <<committed, status, celeryId, msg, stopped, dataVars, revoked,
                 rbStatus, rbPc, rbTodo, rbFailed>>

(* The rollback worker dies, possibly after deleting the rows of a log it  *)
(* has not marked; its message is delivered again, or counts as handled    *)
(* when only the pool process died.                                        *)
RollbackCrash ==
  /\ rbPc = "run" /\ Event("crash")
  /\ \/ rbPc' = "queued" /\ rbLost' = rbLost
     \/ rbPc' = "idle" /\ rbLost' = TRUE
  /\ \/ UNCHANGED <<copies, ghost>>
     \/ \E b \in Batches :
          /\ rbTodo[b] > 0 /\ ghost[b] < rblog[b]
          /\ copies' = [copies EXCEPT ![b] = @ - 1]
          /\ ghost' = [ghost EXCEPT ![b] = @ + 1]
  /\ rbTodo' = NoLogs
  /\ rbFailed' = FALSE
  /\ UNCHANGED <<committed, status, celeryId, msg, execVars, ever, latest, rblog,
                 unkept, reqVars, rbStatus, rbReq, lost>>

-------------------------------------------------------------------------------
ExecStep == \/ Deliver \/ WriteBackId \/ CheckExec \/ BeginExec
            \/ FinishExec \/ Publish \/ Ack
RunStep(p) == \/ \E b \in Batches : RunBatch(p, b) \/ Record(p, b)
              \/ Raise(p)
              \/ Unwound(p)
RetryStep(r) == CheckRetry(r) \/ BeginRetry(r) \/ FinishRetry(r)
RollbackStep == \/ RollbackStart
                \/ \E b \in Batches : RollbackLog(b) \/ RollbackLogFails(b)
                \/ RollbackEnd \/ RollbackError
ApiStep      == Commit \/ AbortCommit \/ RollbackMark \/ RollbackSend
UserStep     == \/ Send \/ AbortCheck \/ RollbackCheck
                \/ \E r \in Retriers : RequestRetry(r)
Fault        == Kill \/ WorkerCrash \/ ApiCrash \/ RollbackCrash

Next ==
  \/ ExecStep
  \/ \E p \in Procs : RunStep(p)
  \/ \E r \in Retriers : RetryStep(r)
  \/ RollbackStep
  \/ ApiStep
  \/ UserStep
  \/ Fault

(* Workers are running and API handlers run to their end; nothing obliges  *)
(* users to ask for anything or the faults to happen.                      *)
Fairness ==
  /\ WF_vars(ExecStep)
  /\ \A p \in Procs : WF_vars(RunStep(p))
  /\ \A r \in Retriers : WF_vars(RetryStep(r))
  /\ WF_vars(RollbackStep)
  /\ WF_vars(ApiStep)

Spec == Init /\ [][Next]_vars /\ Fairness

-------------------------------------------------------------------------------
(* Properties. *)

Writing(p)   == pc[p] \in {"run", "unwind"}
HeldRows(b)  == {p \in Procs : b \in unlogged[p] /\ res[p][b] = "ok"}

(* Every copy of the rows in the target database can be found again: it is *)
(* held by a run that has yet to log it or named by one rollback log, as   *)
(* long as no process died and no run was left by an exception, except the *)
(* copies of batches that did not keep where their rows are (large tasks   *)
(* and unknown keys, task_service.py:313-315); and no rollback log ever    *)
(* names rows that were not there.                                         *)
RowsAccounted ==
  \A b \in Batches :
    /\ copies[b] + ghost[b] >= rblog[b]
    /\ ~lost => copies[b] + ghost[b]
                  = rblog[b] + unkept[b] + Cardinality(HeldRows(b))

(* The status of the row works as a lock between the execution and the     *)
(* retries: the execution never writes together with a retry (two retries  *)
(* may).  A worker crash breaks it, for a redelivered message is let in    *)
(* while a retry is under way.                                             *)
SoleWriter ==
  count.crash = 0 => \A r \in Retriers : ~(Writing(Exec) /\ Writing(r))

(* The task is stopped and no process has passed its status check.         *)
StoppedInTime == status = "aborted" /\ \A p \in Procs :
                   pc[p] \in {"idle", "start", "check", "ack"}

(* A task stopped before any process had passed its status check stays     *)
(* stopped: neither the message that arrives later nor a retry thread      *)
(* revives it.                                                             *)
AbortHolds == StoppedInTime => StoppedInTime'

(* A rollback reported as done leaves no rollback log of the task behind,  *)
(* unless a retry wrote rows after the rollback had started.               *)
RollbackComplete ==
  rbStatus' = "done" /\ rbStatus # "done" /\ count.retry = 0 =>
    \A b \in Batches : rblog'[b] = 0 /\ ghost'[b] = 0

(* What operators asked for is not undone behind their backs. *)
RequestsHonoured == [][AbortHolds /\ RollbackComplete]_vars

(* A run ends with a verdict, unless a process was lost on the way or an   *)
(* exception left it (executor.py:994, 1098, 1220, 1226).                  *)
RunEnds ==
  status \in {"running", "retrying"} ~> (status \notin {"running", "retrying"} \/ lost)

(* A rollback marked as running gets another status, although logs fail,   *)
(* the worker may crash and its message come again - unless nobody is left *)
(* to write it: the API process dies before it sends the message           *)
(* (task_service.py:346), the pool process dies with its message counted   *)
(* as handled, or a commit raises (task_service.py:344 and 349,            *)
(* rollback_task.py:157).                                                  *)
RollbackEnds == rbStatus = "running" ~> (rbStatus # "running" \/ rbLost)

(* What was handed to a worker ends. *)
WorkEnds == RunEnds /\ RollbackEnds

(* README: a retry resumes where the task broke off; the task is           *)
(* successful when its rows are there, once (a retry runs only the failed  *)
(* batches), unless they were rolled back or a process was lost.           *)
SuccessIsWhole ==
  status = "success" /\ rbStatus = "none" /\ count.crash = 0 =>
    \A b \in Batches : copies[b] = 1
===============================================================================
