-------------------------- MODULE TaskLifecycleProofs --------------------------
(***************************************************************************)
(* Proofs about TaskLifecycle, for any batches, retry threads and number   *)
(* of requests and crashes.                                                *)
(***************************************************************************)
EXTENDS TaskLifecycle, FiniteSetTheorems, TLAPS

(* The types, by the groups of variables that steps leave alone together.  *)
ExecTypes ==
  /\ pc \in [Procs -> ProcState]
  /\ todo \in [Procs -> SUBSET Batches]
  /\ res \in [Procs -> [Batches -> Results]]
  /\ unlogged \in [Procs -> SUBSET Batches]
  /\ stopped \in BOOLEAN
DataTypes ==
  /\ ever \in SUBSET Batches
  /\ latest \in [Batches -> Results]
  /\ copies \in [Batches -> Nat]
  /\ rblog \in [Batches -> Nat]
  /\ ghost \in [Batches -> Nat]
  /\ unkept \in [Batches -> Nat]
TaskTypes ==
  /\ committed \in BOOLEAN
  /\ status \in Statuses
  /\ celeryId \in BOOLEAN
  /\ msg \in {"none", "queued", "unacked", "acked"}
  /\ aborting \in {"idle", "seen"}
  /\ revoked \in BOOLEAN
  /\ lost \in BOOLEAN
RbTypes ==
  /\ rbStatus \in RbStatuses
  /\ rbReq \in {"idle", "seen", "marked"}
  /\ rbPc \in {"idle", "queued", "run"}
  /\ rbTodo \in [Batches -> Nat]
  /\ rbFailed \in BOOLEAN
  /\ rbLost \in BOOLEAN
CountTypes == count \in [{"retry", "abort", "rollback", "crash"} -> Nat]

LEMMA TypeParts ==
  /\ TypeOK => ExecTypes /\ DataTypes /\ TaskTypes /\ RbTypes /\ CountTypes
  /\ ExecTypes' /\ DataTypes' /\ TaskTypes' /\ RbTypes' /\ CountTypes' => TypeOK'
<1>1. TypeOK => ExecTypes /\ DataTypes /\ TaskTypes /\ RbTypes /\ CountTypes
  BY Zenon DEF TypeOK, ExecTypes, DataTypes, TaskTypes, RbTypes, CountTypes
<1>2. ExecTypes' /\ DataTypes' /\ TaskTypes' /\ RbTypes' /\ CountTypes' => TypeOK'
  BY Zenon DEF TypeOK, ExecTypes, DataTypes, TaskTypes, RbTypes, CountTypes
<1> QED BY <1>1, <1>2

(* A batch is run or waits to be logged, not both, and only a run that is   *)
(* under way has something to log.                                          *)
Apart ==
  \A p \in Procs : /\ todo[p] \cap unlogged[p] = {}
                   /\ pc[p] \notin {"run", "unwind"} => unlogged[p] = {}

(* An exception was counted. *)
UnwindIsLost == \A p \in Procs : pc[p] = "unwind" => lost

(* A visit of the rollback worker finds a log, and a ghost is a log. *)
LogsBound == \A b \in Batches : ghost[b] <= rblog[b] /\ rbTodo[b] <= rblog[b]

(* RowsAccounted, with the rows held by runs in both parts. *)
Books ==
  \A b \in Batches :
    /\ copies[b] + ghost[b] >= rblog[b] + unkept[b] + Cardinality(HeldRows(b))
    /\ ~lost => copies[b] + ghost[b]
                  = rblog[b] + unkept[b] + Cardinality(HeldRows(b))

(* A worker that handles the message has not acknowledged it; it does not   *)
(* recount.                                                                 *)
MessageOut == (pc[Exec] # "idle" => msg = "unacked") /\ pc[Exec] # "recount"

(* Without crashes the message is handled once: until the execution has     *)
(* begun nobody else writes the status, and until its verdict nobody runs.  *)
Locked ==
  count.crash = 0 =>
    /\ msg \in {"none", "queued"} \/ pc[Exec] \in {"start", "check", "begin"}
         => status \in {"pending", "aborted"} /\ \A r \in Retriers : pc[r] = "idle"
    /\ pc[Exec] \in {"run", "unwind"}
         => status \in {"running", "aborted"} /\ \A r \in Retriers : pc[r] = "idle"

(* Without retries a task with a verdict has no more runs, nor has one that *)
(* is rolled back.                                                          *)
Settled ==
  count.retry = 0 =>
    /\ \A r \in Retriers : pc[r] = "idle"
    /\ status # "retrying"
    /\ status \in Rollable \/ rbReq # "idle" \/ rbPc # "idle" =>
         /\ status \notin {"pending", "running"}
         /\ pc[Exec] \notin {"begin", "run", "unwind"}

(* Without retries the rollback worker visits every log there is. *)
Snapshot ==
  count.retry = 0 /\ rbPc = "run" /\ ~rbFailed =>
    \A b \in Batches : rbTodo[b] = rblog[b]

IInv ==
  /\ TypeOK
  /\ Apart
  /\ UnwindIsLost
  /\ LogsBound
  /\ Books
  /\ MessageOut
  /\ Locked
  /\ Settled
  /\ Snapshot

-------------------------------------------------------------------------------
(* The names of the processes. *)
LEMMA Processes ==
  /\ Exec \in Procs
  /\ \A r \in Retriers : r \in Procs /\ r # Exec
BY ProcessesAssumption DEF Procs

(* Goto moves one process. *)
LEMMA GotoFacts ==
  ASSUME TypeOK, NEW p \in Procs, NEW l, Goto(p, l)
  PROVE  /\ pc'[p] = l
         /\ \A q \in Procs \ {p} : pc'[q] = pc[q]
         /\ l \in ProcState => pc' \in [Procs -> ProcState]
BY DEF TypeOK, Goto

(* Types of what a step leaves alone. *)
LEMMA SameTypes ==
  ASSUME TypeOK
  PROVE  /\ UNCHANGED execVars => ExecTypes'
         /\ UNCHANGED dataVars => DataTypes'
         /\ UNCHANGED rbVars => RbTypes'
         /\ UNCHANGED count => CountTypes'
<1> USE TypeParts
<1>1. UNCHANGED execVars => ExecTypes' BY DEF ExecTypes, execVars
<1>2. UNCHANGED dataVars => DataTypes' BY DEF DataTypes, dataVars
<1>3. UNCHANGED rbVars => RbTypes' BY DEF RbTypes, rbVars
<1>4. UNCHANGED count => CountTypes' BY DEF CountTypes
<1> QED BY <1>1, <1>2, <1>3, <1>4

LEMMA TypeInit == Init => TypeOK
<1> SUFFICES ASSUME Init PROVE TypeOK OBVIOUS
<1> QED BY DEF Init, TypeOK, Statuses, ProcState, Results, RbStatuses, NoResults, NoLogs

(* Steps of the Celery process keep the types. *)
LEMMA TypeExec == ASSUME TypeOK, ExecStep PROVE TypeOK'
<1> USE Processes, TypeParts, SameTypes
<1>1. CASE Deliver
  <2>1. ExecTypes'
    BY <1>1 DEF Deliver, ExecTypes, Goto, ProcState
  <2> QED BY <1>1, <2>1 DEF Deliver, TaskTypes, reqVars
<1>2. CASE WriteBackId
  <2>1. ExecTypes' BY <1>2 DEF WriteBackId, ExecTypes, Goto, ProcState
  <2> QED BY <1>2, <2>1 DEF WriteBackId, TaskTypes, reqVars
<1>3. CASE CheckExec
  <2>1. ExecTypes' BY <1>3 DEF CheckExec, ExecTypes, Goto, ProcState
  <2> QED BY <1>3, <2>1 DEF CheckExec, TaskTypes, reqVars
<1>4. CASE BeginExec
  <2>1. ExecTypes'
    <3>1. NoResults \in [Batches -> Results] BY DEF NoResults, Results
    <3>2. pc' \in [Procs -> ProcState] BY <1>4, GotoFacts DEF BeginExec, ProcState
    <3>3. todo' \in [Procs -> SUBSET Batches] BY <1>4 DEF BeginExec, ExecTypes
    <3>4. res' \in [Procs -> [Batches -> Results]] BY <1>4, <3>1 DEF BeginExec, ExecTypes
    <3> QED BY <1>4, <3>2, <3>3, <3>4 DEF BeginExec, ExecTypes
  <2> QED BY <1>4, <2>1 DEF BeginExec, TaskTypes, reqVars, Statuses
<1>5. CASE FinishExec
  <2>1. ExecTypes' BY <1>5 DEF FinishExec, ExecTypes, Goto, ProcState, NoResults, Results
  <2> QED BY <1>5, <2>1 DEF FinishExec, TaskTypes, reqVars, Statuses
<1>6. CASE Publish
  <2>1. ExecTypes' BY <1>6 DEF Publish, ExecTypes, Goto, ProcState
  <2> QED BY <1>6, <2>1 DEF Publish, TaskTypes, reqVars, Statuses
<1>7. CASE Ack
  <2>1. ExecTypes' BY <1>7 DEF Ack, ExecTypes, Goto, ProcState
  <2> QED BY <1>7, <2>1 DEF Ack, TaskTypes, reqVars
<1> QED BY <1>1, <1>2, <1>3, <1>4, <1>5, <1>6, <1>7 DEF ExecStep

(* Steps of runs and retries keep the types. *)
LEMMA TypeRun == ASSUME TypeOK, NEW p \in Procs, RunStep(p) PROVE TypeOK'
<1> USE TypeParts, SameTypes
<1>1. ASSUME NEW b \in Batches, RunBatch(p, b) PROVE TypeOK'
  <2>1. ExecTypes'
    <3>1. todo' \in [Procs -> SUBSET Batches] BY <1>1 DEF RunBatch, ExecTypes
    <3>2. res' \in [Procs -> [Batches -> Results]]
      BY <1>1 DEF RunBatch, ExecTypes, Results
    <3>3. unlogged' \in [Procs -> SUBSET Batches] BY <1>1 DEF RunBatch, ExecTypes
    <3> QED BY <1>1, <3>1, <3>2, <3>3 DEF RunBatch, ExecTypes
  <2>2. DataTypes' BY <1>1 DEF RunBatch, DataTypes
  <2> QED BY <1>1, <2>1, <2>2 DEF RunBatch, TaskTypes, reqVars
<1>2. ASSUME NEW b \in Batches, Record(p, b) PROVE TypeOK'
  <2>1. ExecTypes'
    <3>1. todo' \in [Procs -> SUBSET Batches] BY <1>2 DEF Record, ExecTypes
    <3>2. unlogged' \in [Procs -> SUBSET Batches] BY <1>2 DEF Record, ExecTypes
    <3> QED BY <1>2, <3>1, <3>2 DEF Record, ExecTypes
  <2>2. DataTypes'
    <3>1. res[p][b] \in Results BY DEF ExecTypes
    <3>2. latest' \in [Batches -> Results] BY <1>2, <3>1 DEF Record, DataTypes
    <3>3. ever' \in SUBSET Batches BY <1>2 DEF Record, DataTypes
    <3>4. rblog' \in [Batches -> Nat] /\ unkept' \in [Batches -> Nat]
      BY <1>2 DEF Record, DataTypes
    <3> QED BY <1>2, <3>2, <3>3, <3>4 DEF Record, DataTypes
  <2> QED BY <1>2, <2>1, <2>2 DEF Record, TaskTypes, reqVars
<1>3. CASE Raise(p)
  <2>1. ExecTypes'
    <3>1. pc' \in [Procs -> ProcState] BY <1>3, GotoFacts DEF Raise, ProcState
    <3>2. todo' \in [Procs -> SUBSET Batches] BY <1>3 DEF Raise, ExecTypes
    <3> QED BY <1>3, <3>1, <3>2 DEF Raise, ExecTypes
  <2> QED BY <1>3, <2>1 DEF Raise, TaskTypes, reqVars
<1>4. CASE Unwound(p)
  <2>1. ExecTypes'
    <3>1. NoResults \in [Batches -> Results] BY DEF NoResults, Results
    <3>2. pc' \in [Procs -> ProcState] BY <1>4, GotoFacts DEF Unwound, ProcState
    <3>3. unlogged' \in [Procs -> SUBSET Batches] BY <1>4 DEF Unwound, ExecTypes
    <3>4. res' \in [Procs -> [Batches -> Results]] BY <1>4, <3>1 DEF Unwound, ExecTypes
    <3> QED BY <1>4, <3>2, <3>3, <3>4 DEF Unwound, ExecTypes
  <2> QED BY <1>4, <2>1 DEF Unwound, TaskTypes, reqVars, Statuses
<1> QED BY <1>1, <1>2, <1>3, <1>4 DEF RunStep

LEMMA TypeRetry == ASSUME TypeOK, NEW r \in Retriers, RetryStep(r) PROVE TypeOK'
<1> USE Processes, TypeParts, SameTypes
<1>0. NoResults \in [Batches -> Results] BY DEF NoResults, Results
<1>1. CASE CheckRetry(r)
  <2>1. ExecTypes'
    <3>1. pc' \in [Procs -> ProcState] BY <1>1, GotoFacts DEF CheckRetry, ProcState
    <3>2. todo' \in [Procs -> SUBSET Batches]
      BY <1>1 DEF CheckRetry, ExecTypes, DataTypes
    <3>3. res' \in [Procs -> [Batches -> Results]]
      BY <1>0, <1>1 DEF CheckRetry, ExecTypes
    <3> QED BY <1>1, <3>1, <3>2, <3>3 DEF CheckRetry, ExecTypes
  <2> QED BY <1>1, <2>1 DEF CheckRetry, TaskTypes, reqVars
<1>2. CASE BeginRetry(r)
  <2>1. ExecTypes'
    <3>1. pc' \in [Procs -> ProcState] BY <1>2, GotoFacts DEF BeginRetry, ProcState
    <3>2. todo' \in [Procs -> SUBSET Batches] BY <1>2 DEF BeginRetry, ExecTypes
    <3> QED BY <1>2, <3>1, <3>2 DEF BeginRetry, ExecTypes
  <2> QED BY <1>2, <2>1 DEF BeginRetry, TaskTypes, reqVars, Statuses
<1>3. CASE FinishRetry(r)
  <2>1. ExecTypes'
    <3>1. pc' \in [Procs -> ProcState] BY <1>3, GotoFacts DEF FinishRetry, ProcState
    <3>2. res' \in [Procs -> [Batches -> Results]]
      BY <1>0, <1>3 DEF FinishRetry, ExecTypes
    <3> QED BY <1>3, <3>1, <3>2 DEF FinishRetry, ExecTypes
  <2> QED BY <1>3, <2>1 DEF FinishRetry, TaskTypes, reqVars, Statuses
<1> QED BY <1>1, <1>2, <1>3 DEF RetryStep

(* The runs that hold rows of a batch are finitely many. *)
LEMMA HeldFinite ==
  ASSUME NEW b \in Batches
  PROVE  IsFiniteSet(HeldRows(b)) /\ Cardinality(HeldRows(b)) \in Nat
<1>1. IsFiniteSet(Procs)
  BY ProcessesAssumption, FS_Singleton, FS_Union DEF Procs
<1>2. HeldRows(b) \in SUBSET Procs BY DEF HeldRows
<1>3. IsFiniteSet(HeldRows(b)) BY <1>1, <1>2, FS_Subset
<1> QED BY <1>3, FS_CardinalityType

(* A log whose rows are not known to be deleted has rows. *)
LEMMA RowsThere ==
  ASSUME TypeOK, Books, NEW b \in Batches, ghost[b] < rblog[b]
  PROVE  copies[b] - 1 \in Nat
<1>1. copies[b] \in Nat /\ ghost[b] \in Nat /\ rblog[b] \in Nat BY DEF TypeOK
<1>2. copies[b] + ghost[b] >= rblog[b] + unkept[b] + Cardinality(HeldRows(b))
  BY DEF Books
<1>3. unkept[b] \in Nat BY DEF TypeOK
<1> QED BY <1>1, <1>2, <1>3, HeldFinite

(* Steps of the rollback worker keep the types: it deletes rows that are    *)
(* there and marks logs that are not marked.                                *)
LEMMA TypeRollback == ASSUME TypeOK, LogsBound, Books, RollbackStep PROVE TypeOK'
<1> USE TypeParts, SameTypes
<1>1. CASE RollbackStart
  <2>1. RbTypes' BY <1>1 DEF RollbackStart, RbTypes, DataTypes
  <2> QED BY <1>1, <2>1 DEF RollbackStart, TaskTypes, reqVars
<1>2. ASSUME NEW b \in Batches, RollbackLog(b) PROVE TypeOK'
  <2>1. rblog[b] - 1 \in Nat /\ rbTodo[b] - 1 \in Nat
    BY <1>2 DEF RollbackLog, LogsBound, RbTypes, DataTypes
  <2>2. RbTypes' BY <1>2, <2>1 DEF RollbackLog, RbTypes
  <2>3. DataTypes'
    <3>1. CASE ghost[b] < rblog[b] /\ copies' = [copies EXCEPT ![b] = @ - 1]
                 /\ ghost' = ghost
      <4>1. copies[b] - 1 \in Nat BY <3>1, RowsThere
      <4> QED BY <1>2, <2>1, <3>1, <4>1 DEF RollbackLog, DataTypes
    <3>2. CASE ghost[b] > 0 /\ copies' = copies
                 /\ ghost' = [ghost EXCEPT ![b] = @ - 1]
      BY <1>2, <2>1, <3>2 DEF RollbackLog, DataTypes
    <3> QED BY <1>2, <3>1, <3>2 DEF RollbackLog, DeleteRows
  <2> QED BY <1>2, <2>2, <2>3 DEF RollbackLog, TaskTypes, reqVars
<1>3. ASSUME NEW b \in Batches, RollbackLogFails(b) PROVE TypeOK'
  <2>1. RbTypes' BY <1>3 DEF RollbackLogFails, RbTypes
  <2>2. DataTypes'
    <3>1. CASE UNCHANGED <<copies, ghost>>
      BY <1>3, <3>1 DEF RollbackLogFails, DataTypes
    <3>2. CASE /\ ghost[b] < rblog[b]
               /\ copies' = [copies EXCEPT ![b] = @ - 1]
               /\ ghost' = [ghost EXCEPT ![b] = @ + 1]
      <4>1. copies[b] - 1 \in Nat BY <3>2, RowsThere
      <4> QED BY <1>3, <3>2, <4>1 DEF RollbackLogFails, DataTypes
    <3> QED BY <1>3, <3>1, <3>2 DEF RollbackLogFails
  <2> QED BY <1>3, <2>1, <2>2 DEF RollbackLogFails, TaskTypes, reqVars
<1>4. CASE RollbackEnd
  <2>1. RbTypes' BY <1>4 DEF RollbackEnd, RbTypes, RbStatuses
  <2> QED BY <1>4, <2>1 DEF RollbackEnd, TaskTypes, reqVars
<1>5. CASE RollbackError
  <2>1. NoLogs \in [Batches -> Nat] BY DEF NoLogs
  <2>2. RbTypes' BY <1>5, <2>1 DEF RollbackError, RbTypes, RbStatuses
  <2> QED BY <1>5, <2>2 DEF RollbackError, TaskTypes, reqVars
<1> QED BY <1>1, <1>2, <1>3, <1>4, <1>5 DEF RollbackStep

(* Requests keep the types. *)
LEMMA TypeRequest == ASSUME TypeOK, ApiStep \/ UserStep PROVE TypeOK'
<1> USE Processes, TypeParts, SameTypes
<1>0. ASSUME NEW k \in {"retry", "abort", "rollback", "crash"}, Event(k)
      PROVE  CountTypes'
  BY <1>0 DEF Event, CountTypes
<1>1. CASE Commit BY <1>1 DEF Commit, TaskTypes, reqVars
<1>2. CASE AbortCommit BY <1>2 DEF AbortCommit, TaskTypes, Statuses
<1>3. CASE RollbackMark
  <2>1. RbTypes' BY <1>3 DEF RollbackMark, RbTypes, RbStatuses
  <2> QED BY <1>3, <2>1 DEF RollbackMark, TaskTypes, reqVars
<1>4. CASE RollbackSend
  <2>1. RbTypes' BY <1>4 DEF RollbackSend, RbTypes, RbStatuses
  <2> QED BY <1>4, <2>1 DEF RollbackSend, TaskTypes, reqVars
<1>5. CASE Send BY <1>5 DEF Send, TaskTypes, reqVars
<1>6. CASE AbortCheck BY <1>0, <1>6 DEF AbortCheck, TaskTypes
<1>7. CASE RollbackCheck
  <2>1. RbTypes' BY <1>7 DEF RollbackCheck, RbTypes
  <2> QED BY <1>0, <1>7, <2>1 DEF RollbackCheck, TaskTypes, reqVars
<1>8. ASSUME NEW r \in Retriers, RequestRetry(r) PROVE TypeOK'
  <2>1. ExecTypes'
    <3>1. pc' \in [Procs -> ProcState] BY <1>8, GotoFacts DEF RequestRetry, ProcState
    <3> QED BY <1>8, <3>1 DEF RequestRetry, ExecTypes
  <2> QED BY <1>0, <1>8, <2>1 DEF RequestRetry, TaskTypes, reqVars
<1> QED BY <1>1, <1>2, <1>3, <1>4, <1>5, <1>6, <1>7, <1>8 DEF ApiStep, UserStep

(* Crashes keep the types. *)
LEMMA TypeFault == ASSUME TypeOK, LogsBound, Books, Fault PROVE TypeOK'
<1> USE Processes, TypeParts, SameTypes
<1>0. /\ NoResults \in [Batches -> Results]
      /\ NoLogs \in [Batches -> Nat]
  BY DEF NoResults, NoLogs, Results
<1>a. Forget(Exec) => ExecTypes' /\ lost' \in BOOLEAN
  <2> SUFFICES ASSUME Forget(Exec) PROVE ExecTypes' /\ lost' \in BOOLEAN OBVIOUS
  <2>1. pc' \in [Procs -> ProcState] BY GotoFacts DEF Forget, ProcState
  <2>2. todo' \in [Procs -> SUBSET Batches] BY DEF Forget, ExecTypes
  <2>3. res' \in [Procs -> [Batches -> Results]] BY <1>0 DEF Forget, ExecTypes
  <2>4. unlogged' \in [Procs -> SUBSET Batches] BY DEF Forget, ExecTypes
  <2> QED BY <2>1, <2>2, <2>3, <2>4 DEF Forget, ExecTypes
<1>b. Event("crash") => CountTypes' BY DEF Event, CountTypes
<1>1. CASE Kill BY <1>1, <1>a DEF Kill, TaskTypes
<1>2. CASE WorkerCrash BY <1>2, <1>a, <1>b DEF WorkerCrash, TaskTypes, reqVars
<1>3. CASE ApiCrash
  <2>1. ExecTypes'
    <3>1. pc' \in [Procs -> ProcState] BY <1>3 DEF ApiCrash, ExecTypes, ProcState
    <3>2. todo' \in [Procs -> SUBSET Batches] BY <1>3 DEF ApiCrash, ExecTypes
    <3>3. res' \in [Procs -> [Batches -> Results]] BY <1>0, <1>3 DEF ApiCrash, ExecTypes
    <3>4. unlogged' \in [Procs -> SUBSET Batches] BY <1>3 DEF ApiCrash, ExecTypes
    <3> QED BY <1>3, <3>1, <3>2, <3>3, <3>4 DEF ApiCrash, ExecTypes
  <2>2. RbTypes' BY <1>3 DEF ApiCrash, RbTypes
  <2> QED BY <1>3, <1>b, <2>1, <2>2 DEF ApiCrash, TaskTypes
<1>4. CASE RollbackCrash
  <2>1. RbTypes' BY <1>0, <1>4 DEF RollbackCrash, RbTypes
  <2>2. DataTypes'
    <3>1. CASE UNCHANGED <<copies, ghost>>
      BY <1>4, <3>1 DEF RollbackCrash, DataTypes
    <3>2. ASSUME NEW b \in Batches, ghost[b] < rblog[b],
                 copies' = [copies EXCEPT ![b] = @ - 1],
                 ghost' = [ghost EXCEPT ![b] = @ + 1]
          PROVE  DataTypes'
      <4>1. copies[b] - 1 \in Nat BY <3>2, RowsThere
      <4> QED BY <1>4, <3>2, <4>1 DEF RollbackCrash, DataTypes
    <3> QED BY <1>4, <3>1, <3>2 DEF RollbackCrash
  <2> QED BY <1>4, <1>b, <2>1, <2>2 DEF RollbackCrash, TaskTypes, reqVars
<1> QED BY <1>1, <1>2, <1>3, <1>4 DEF Fault

-------------------------------------------------------------------------------
(* What groups of steps leave alone. *)
LEMMA Quiet ==
  /\ RollbackStep => UNCHANGED <<committed, status, celeryId, msg, execVars, ever,
                                latest, unkept, reqVars, rbReq, count, lost>>
  /\ ApiStep => UNCHANGED <<celeryId, msg, execVars, dataVars, count, lost>>
  /\ UserStep => UNCHANGED <<committed, status, dataVars, lost>>
  /\ \A p \in Procs : RunStep(p) => UNCHANGED <<msg, ghost, rbVars, count>>
  /\ \A r \in Retriers : RetryStep(r) => UNCHANGED <<msg, dataVars, rbVars, count>>
  /\ ExecStep => UNCHANGED <<dataVars, rbVars, count>>
<1>1. RollbackStep => UNCHANGED <<committed, status, celeryId, msg, execVars, ever,
                                latest, unkept, reqVars, rbReq, count, lost>>
  BY DEF RollbackStep, RollbackStart, RollbackLog, RollbackLogFails, RollbackEnd,
         RollbackError, dataVars
<1>2. ApiStep => UNCHANGED <<celeryId, msg, execVars, dataVars, count, lost>>
  BY DEF ApiStep, Commit, AbortCommit, RollbackMark, RollbackSend
<1>3. UserStep => UNCHANGED <<committed, status, dataVars, lost>>
  BY DEF UserStep, Send, AbortCheck, RollbackCheck, RequestRetry
<1>4. \A p \in Procs : RunStep(p) => UNCHANGED <<msg, ghost, rbVars, count>>
  BY DEF RunStep, RunBatch, Record, Raise, Unwound, dataVars
<1>5. \A r \in Retriers : RetryStep(r) => UNCHANGED <<msg, dataVars, rbVars, count>>
  BY DEF RetryStep, CheckRetry, BeginRetry, FinishRetry
<1>6. ExecStep => UNCHANGED <<dataVars, rbVars, count>>
  BY DEF ExecStep, Deliver, WriteBackId, CheckExec, BeginExec, FinishExec, Publish, Ack
<1> QED BY <1>1, <1>2, <1>3, <1>4, <1>5, <1>6

(* The message follows the worker. *)
LEMMA MessageStep == ASSUME IInv, Next PROVE MessageOut'
<1> USE Processes, GotoFacts DEF IInv, MessageOut
<1>1. CASE ExecStep
  BY <1>1 DEF ExecStep, Deliver, WriteBackId, CheckExec, BeginExec, FinishExec,
     Publish, Ack
<1>2. ASSUME NEW p \in Procs, RunStep(p) PROVE MessageOut'
  BY <1>2 DEF RunStep, RunBatch, Record, Raise, Unwound
<1>3. ASSUME NEW r \in Retriers, RetryStep(r) PROVE MessageOut'
  BY <1>3 DEF RetryStep, CheckRetry, BeginRetry, FinishRetry
<1>4. CASE RollbackStep \/ ApiStep BY <1>4, Quiet DEF execVars
<1>5. CASE UserStep
  BY <1>5 DEF UserStep, Send, AbortCheck, RollbackCheck, RequestRetry, execVars
<1>6. CASE Fault
  BY <1>6 DEF Fault, Kill, WorkerCrash, ApiCrash, RollbackCrash, Forget, TypeOK, execVars
<1> QED BY <1>1, <1>2, <1>3, <1>4, <1>5, <1>6 DEF Next

(* What waits to be logged was run by a run that is under way. *)
LEMMA ApartStep == ASSUME IInv, Next PROVE Apart'
<1> USE Processes, GotoFacts DEF IInv, Apart
<1>1. CASE ExecStep
  <2>1. CASE BeginExec BY <2>1 DEF BeginExec, TypeOK
  <2>2. CASE ~BeginExec
    BY <1>1, <2>2 DEF ExecStep, Deliver, WriteBackId, CheckExec, FinishExec,
       Publish, Ack, TypeOK
  <2> QED BY <2>1, <2>2
<1>2. ASSUME NEW p \in Procs, RunStep(p) PROVE Apart'
  <2>1. ASSUME NEW b \in Batches, RunBatch(p, b) PROVE Apart'
    BY <2>1 DEF RunBatch, TypeOK
  <2>2. ASSUME NEW b \in Batches, Record(p, b) PROVE Apart'
    BY <2>2 DEF Record, TypeOK
  <2>3. CASE Raise(p) BY <2>3 DEF Raise, TypeOK
  <2>4. CASE Unwound(p) BY <2>4 DEF Unwound, TypeOK
  <2> QED BY <1>2, <2>1, <2>2, <2>3, <2>4 DEF RunStep
<1>3. ASSUME NEW r \in Retriers, RetryStep(r) PROVE Apart'
  <2>1. CASE BeginRetry(r)
    <3>1. UNCHANGED unlogged /\ unlogged[r] = {} BY <2>1 DEF BeginRetry
    <3>2. \A q \in Procs \ {r} : pc'[q] = pc[q] /\ todo'[q] = todo[q]
      BY <2>1 DEF BeginRetry, TypeOK
    <3> QED BY <3>1, <3>2
  <2>2. CASE CheckRetry(r)
    <3>1. UNCHANGED unlogged /\ unlogged[r] = {} BY <2>2 DEF CheckRetry
    <3>2. \A q \in Procs \ {r} : pc'[q] = pc[q] /\ todo'[q] = todo[q]
      BY <2>2 DEF CheckRetry, TypeOK
    <3> QED BY <3>1, <3>2
  <2>3. CASE FinishRetry(r)
    <3>1. UNCHANGED <<todo, unlogged>> /\ unlogged[r] = {} BY <2>3 DEF FinishRetry
    <3>2. \A q \in Procs \ {r} : pc'[q] = pc[q] BY <2>3 DEF FinishRetry, TypeOK
    <3> QED BY <3>1, <3>2
  <2> QED BY <1>3, <2>1, <2>2, <2>3 DEF RetryStep
<1>4. CASE RollbackStep \/ ApiStep BY <1>4, Quiet DEF execVars
<1>5. CASE UserStep
  BY <1>5 DEF UserStep, Send, AbortCheck, RollbackCheck, RequestRetry, execVars
<1>6. CASE Fault
  <2>1. CASE Kill \/ WorkerCrash
    <3>1. Forget(Exec) BY <2>1 DEF Kill, WorkerCrash
    <3>2. /\ unlogged' = [unlogged EXCEPT ![Exec] = {}]
          /\ todo' = [todo EXCEPT ![Exec] = {}]
          /\ \A q \in Procs \ {Exec} : pc'[q] = pc[q]
      BY <3>1 DEF Forget
    <3> QED BY <3>2 DEF TypeOK
  <2>2. CASE ApiCrash
    <3>1. /\ \A q \in Procs \ {Exec} : unlogged'[q] = {}
          /\ unlogged'[Exec] = unlogged[Exec] /\ todo'[Exec] = todo[Exec]
          /\ pc'[Exec] = pc[Exec]
      BY <2>2 DEF ApiCrash
    <3> QED BY <3>1
  <2>3. CASE RollbackCrash BY <2>3 DEF RollbackCrash, execVars
  <2> QED BY <1>6, <2>1, <2>2, <2>3 DEF Fault
<1> QED BY <1>1, <1>2, <1>3, <1>4, <1>5, <1>6 DEF Next

(* A run is left only by Raise. *)
LEMMA UnwindStep == ASSUME IInv, Next PROVE UnwindIsLost'
<1> USE Processes, GotoFacts DEF IInv, UnwindIsLost
<1>1. CASE ExecStep
  BY <1>1 DEF ExecStep, Deliver, WriteBackId, CheckExec, BeginExec, FinishExec,
     Publish, Ack
<1>2. ASSUME NEW p \in Procs, RunStep(p) PROVE UnwindIsLost'
  BY <1>2 DEF RunStep, RunBatch, Record, Raise, Unwound
<1>3. ASSUME NEW r \in Retriers, RetryStep(r) PROVE UnwindIsLost'
  BY <1>3 DEF RetryStep, CheckRetry, BeginRetry, FinishRetry
<1>4. CASE RollbackStep \/ ApiStep BY <1>4, Quiet DEF execVars
<1>5. CASE UserStep
  BY <1>5 DEF UserStep, Send, AbortCheck, RollbackCheck, RequestRetry, execVars
<1>6. CASE Fault
  BY <1>6 DEF Fault, Kill, WorkerCrash, ApiCrash, RollbackCrash, Forget, TypeOK, execVars
<1> QED BY <1>1, <1>2, <1>3, <1>4, <1>5, <1>6 DEF Next

(* Marking a log takes its visit, its ghost or its rows with it. *)
LEMMA LogsStep == ASSUME IInv, Next PROVE LogsBound'
<1> USE DEF IInv, LogsBound
<1>1. CASE ExecStep BY <1>1, Quiet DEF dataVars, rbVars
<1>2. ASSUME NEW p \in Procs, RunStep(p) PROVE LogsBound'
  <2>1. ASSUME NEW b \in Batches, Record(p, b) PROVE LogsBound'
    BY <2>1 DEF Record, TypeOK, rbVars
  <2>2. ASSUME NEW b \in Batches, RunBatch(p, b) PROVE LogsBound'
    BY <2>2 DEF RunBatch, rbVars
  <2>3. CASE Raise(p) \/ Unwound(p) BY <2>3 DEF Raise, Unwound, dataVars, rbVars
  <2> QED BY <1>2, <2>1, <2>2, <2>3 DEF RunStep
<1>3. ASSUME NEW r \in Retriers, RetryStep(r) PROVE LogsBound'
  BY <1>3, Quiet DEF dataVars, rbVars
<1>4. CASE RollbackStep
  <2>1. CASE RollbackStart BY <2>1 DEF RollbackStart, TypeOK, dataVars
  <2>2. ASSUME NEW b \in Batches, RollbackLog(b) PROVE LogsBound'
    BY <2>2 DEF RollbackLog, DeleteRows, TypeOK
  <2>3. ASSUME NEW b \in Batches, RollbackLogFails(b) PROVE LogsBound'
    BY <2>3 DEF RollbackLogFails, TypeOK
  <2>4. CASE RollbackEnd BY <2>4 DEF RollbackEnd, dataVars
  <2>5. CASE RollbackError
    <3>1. UNCHANGED <<rblog, ghost>> /\ rbTodo' = NoLogs
      BY <2>5 DEF RollbackError, dataVars
    <3> QED BY <3>1 DEF NoLogs, TypeOK
  <2> QED BY <1>4, <2>1, <2>2, <2>3, <2>4, <2>5 DEF RollbackStep
<1>5. CASE ApiStep
  BY <1>5 DEF ApiStep, Commit, AbortCommit, RollbackMark, RollbackSend, dataVars, rbVars
<1>6. CASE UserStep
  BY <1>6 DEF UserStep, Send, AbortCheck, RollbackCheck, RequestRetry, dataVars, rbVars
<1>7. CASE Fault
  <2>1. CASE RollbackCrash
    <3>1. UNCHANGED rblog /\ rbTodo' = NoLogs BY <2>1 DEF RollbackCrash
    <3>2. \A b \in Batches : ghost'[b] <= rblog[b]
      BY <2>1 DEF RollbackCrash, TypeOK
    <3> QED BY <3>1, <3>2 DEF NoLogs, TypeOK
  <2>2. CASE Kill \/ WorkerCrash \/ ApiCrash
    BY <2>2 DEF Kill, WorkerCrash, ApiCrash, dataVars, rbVars
  <2> QED BY <1>7, <2>1, <2>2 DEF Fault
<1> QED BY <1>1, <1>2, <1>3, <1>4, <1>5, <1>6, <1>7 DEF Next

(* Without crashes the message is not delivered again, so the execution     *)
(* passes its check before there is a verdict a retry could ask for.        *)
LEMMA LockedStep == ASSUME IInv, Next PROVE Locked'
<1> USE Processes, GotoFacts DEF IInv, Locked, MessageOut
<1>1. CASE ExecStep
  <2>1. CASE Deliver BY <2>1 DEF Deliver
  <2>2. CASE WriteBackId BY <2>2 DEF WriteBackId
  <2>3. CASE CheckExec BY <2>3 DEF CheckExec
  <2>4. CASE BeginExec BY <2>4 DEF BeginExec
  <2>5. CASE FinishExec BY <2>5 DEF FinishExec
  <2>6. CASE Publish BY <2>6 DEF Publish
  <2>7. CASE Ack BY <2>7 DEF Ack
  <2> QED BY <1>1, <2>1, <2>2, <2>3, <2>4, <2>5, <2>6, <2>7 DEF ExecStep
<1>2. ASSUME NEW p \in Procs, RunStep(p) PROVE Locked'
  <2>1. ASSUME NEW b \in Batches, RunBatch(p, b) \/ Record(p, b) PROVE Locked'
    BY <2>1 DEF RunBatch, Record
  <2>2. CASE Raise(p) BY <2>2 DEF Raise, Procs
  <2>3. CASE Unwound(p) BY <2>3 DEF Unwound, Procs
  <2> QED BY <1>2, <2>1, <2>2, <2>3 DEF RunStep
<1>3. ASSUME NEW r \in Retriers, RetryStep(r) PROVE Locked'
  BY <1>3 DEF RetryStep, CheckRetry, BeginRetry, FinishRetry
<1>4. CASE RollbackStep BY <1>4, Quiet DEF execVars
<1>5. CASE ApiStep
  BY <1>5 DEF ApiStep, Commit, AbortCommit, RollbackMark, RollbackSend, execVars
<1>6. CASE UserStep
  <2>1. CASE Send BY <2>1 DEF Send, execVars
  <2>2. CASE AbortCheck \/ RollbackCheck
    BY <2>2 DEF AbortCheck, RollbackCheck, Event, TypeOK, execVars
  <2>3. ASSUME NEW r \in Retriers, RequestRetry(r) PROVE Locked'
    BY <2>3 DEF RequestRetry, Event, TypeOK, Retryable
  <2> QED BY <1>6, <2>1, <2>2, <2>3 DEF UserStep
<1>7. CASE Fault
  <2>1. CASE Kill BY <2>1 DEF Kill, Forget
  <2>2. CASE WorkerCrash \/ ApiCrash \/ RollbackCrash
    <3>1. count'["crash"] = count["crash"] + 1
      BY <2>2 DEF WorkerCrash, ApiCrash, RollbackCrash, Event, TypeOK
    <3> QED BY <3>1 DEF TypeOK
  <2> QED BY <1>7, <2>1, <2>2 DEF Fault
<1> QED BY <1>1, <1>2, <1>3, <1>4, <1>5, <1>6, <1>7 DEF Next

(* A task with a verdict is not begun again, for the check refuses it and   *)
(* nobody but a retry takes the verdict back.                               *)
LEMMA SettledStep == ASSUME IInv, Next PROVE Settled'
<1> USE Processes, GotoFacts DEF IInv, Settled, Rollable, MessageOut
<1>1. CASE ExecStep
  <2>0. UNCHANGED <<rbReq, rbPc, count>> BY <1>1, Quiet DEF rbVars
  <2>1. CASE Deliver BY <2>0, <2>1 DEF Deliver
  <2>2. CASE WriteBackId BY <2>0, <2>2 DEF WriteBackId
  <2>3. CASE CheckExec BY <2>0, <2>3 DEF CheckExec
  <2>4. CASE BeginExec BY <2>0, <2>4 DEF BeginExec
  <2>5. CASE FinishExec BY <2>0, <2>5 DEF FinishExec
  <2>6. CASE Publish BY <2>0, <2>6 DEF Publish
  <2>7. CASE Ack BY <2>0, <2>7 DEF Ack
  <2> QED BY <1>1, <2>1, <2>2, <2>3, <2>4, <2>5, <2>6, <2>7 DEF ExecStep
<1>2. ASSUME NEW p \in Procs, RunStep(p) PROVE Settled'
  <2>0. UNCHANGED <<rbReq, rbPc, count>> BY <1>2, Quiet DEF rbVars
  <2>1. ASSUME NEW b \in Batches, RunBatch(p, b) \/ Record(p, b) PROVE Settled'
    BY <2>0, <2>1 DEF RunBatch, Record
  <2>2. CASE Raise(p) BY <2>0, <2>2 DEF Raise, Procs
  <2>3. CASE Unwound(p) BY <2>0, <2>3 DEF Unwound, Procs
  <2> QED BY <1>2, <2>1, <2>2, <2>3 DEF RunStep
<1>3. ASSUME NEW r \in Retriers, RetryStep(r) PROVE Settled'
  <2>0. UNCHANGED count BY <1>3, Quiet
  <2> QED BY <1>3, <2>0 DEF RetryStep, CheckRetry, BeginRetry, FinishRetry
<1>4. CASE RollbackStep
  <2>0. UNCHANGED <<status, pc, rbReq, count>> BY <1>4, Quiet DEF execVars
  <2> QED BY <1>4, <2>0 DEF RollbackStep, RollbackStart, RollbackLog,
     RollbackLogFails, RollbackEnd, RollbackError
<1>5. CASE ApiStep
  BY <1>5 DEF ApiStep, Commit, AbortCommit, RollbackMark, RollbackSend, execVars, rbVars
<1>6. CASE UserStep
  <2>1. CASE Send BY <2>1 DEF Send, execVars, rbVars
  <2>2. CASE AbortCheck BY <2>2 DEF AbortCheck, Event, TypeOK, execVars, rbVars
  <2>3. CASE RollbackCheck BY <2>3 DEF RollbackCheck, Event, TypeOK, execVars
  <2>4. ASSUME NEW r \in Retriers, RequestRetry(r) PROVE Settled'
    <3>1. count'["retry"] = count["retry"] + 1
      BY <2>4 DEF RequestRetry, Event, TypeOK
    <3> QED BY <3>1 DEF TypeOK
  <2> QED BY <1>6, <2>1, <2>2, <2>3, <2>4 DEF UserStep
<1>7. CASE Fault
  <2>1. CASE Kill BY <2>1 DEF Kill, Forget, rbVars
  <2>2. CASE WorkerCrash BY <2>2 DEF WorkerCrash, Forget, Event, TypeOK, rbVars
  <2>3. CASE ApiCrash BY <2>3 DEF ApiCrash, Event, TypeOK
  <2>4. CASE RollbackCrash BY <2>4 DEF RollbackCrash, Event, TypeOK, execVars
  <2> QED BY <1>7, <2>1, <2>2, <2>3, <2>4 DEF Fault
<1> QED BY <1>1, <1>2, <1>3, <1>4, <1>5, <1>6, <1>7 DEF Next

(* While the logs of a settled task are visited no log is added. *)
LEMMA SnapshotStep == ASSUME IInv, Next PROVE Snapshot'
<1> USE DEF IInv, Snapshot
<1>1. CASE ExecStep BY <1>1, Quiet DEF dataVars, rbVars
<1>2. ASSUME NEW p \in Procs, RunStep(p) PROVE Snapshot'
  <2>0. UNCHANGED <<rbPc, rbTodo, rbFailed, count>> BY <1>2, Quiet DEF rbVars
  <2>1. ASSUME NEW b \in Batches, Record(p, b) PROVE Snapshot'
    BY <2>0, <2>1 DEF Record, Settled, Procs
  <2>2. ASSUME NEW b \in Batches, RunBatch(p, b) PROVE Snapshot'
    BY <2>0, <2>2 DEF RunBatch
  <2>3. CASE Raise(p) \/ Unwound(p) BY <2>0, <2>3 DEF Raise, Unwound, dataVars
  <2> QED BY <1>2, <2>1, <2>2, <2>3 DEF RunStep
<1>3. ASSUME NEW r \in Retriers, RetryStep(r) PROVE Snapshot'
  BY <1>3, Quiet DEF dataVars, rbVars
<1>4. CASE RollbackStep
  <2>0. UNCHANGED count BY <1>4, Quiet
  <2>1. CASE RollbackStart BY <2>1 DEF RollbackStart, dataVars
  <2>2. ASSUME NEW b \in Batches, RollbackLog(b) PROVE Snapshot'
    BY <2>0, <2>2 DEF RollbackLog, TypeOK
  <2>3. ASSUME NEW b \in Batches, RollbackLogFails(b) PROVE Snapshot'
    BY <2>3 DEF RollbackLogFails
  <2>4. CASE RollbackEnd \/ RollbackError BY <2>4 DEF RollbackEnd, RollbackError
  <2> QED BY <1>4, <2>1, <2>2, <2>3, <2>4 DEF RollbackStep
<1>5. CASE ApiStep
  BY <1>5 DEF ApiStep, Commit, AbortCommit, RollbackMark, RollbackSend, dataVars, rbVars
<1>6. CASE UserStep
  BY <1>6 DEF UserStep, Send, AbortCheck, RollbackCheck, RequestRetry, Event, TypeOK,
     dataVars, rbVars
<1>7. CASE Fault
  BY <1>7 DEF Fault, Kill, WorkerCrash, ApiCrash, RollbackCrash, Event, TypeOK,
     dataVars, rbVars
<1> QED BY <1>1, <1>2, <1>3, <1>4, <1>5, <1>6, <1>7 DEF Next

(* A run that starts to hold the rows of a batch, or ends to. *)
LEMMA HeldChanges ==
  ASSUME NEW b \in Batches, NEW p
  PROVE  /\ HeldRows(b)' = HeldRows(b) \cup {p} /\ p \notin HeldRows(b)
              => Cardinality(HeldRows(b)') = Cardinality(HeldRows(b)) + 1
         /\ HeldRows(b)' = HeldRows(b) \ {p} /\ p \in HeldRows(b)
              => Cardinality(HeldRows(b)') = Cardinality(HeldRows(b)) - 1
         /\ HeldRows(b)' \subseteq HeldRows(b)
              => /\ Cardinality(HeldRows(b)') \in Nat
                 /\ Cardinality(HeldRows(b)') <= Cardinality(HeldRows(b))
<1>1. IsFiniteSet(HeldRows(b)) BY HeldFinite
<1>2. HeldRows(b)' \subseteq HeldRows(b)
        => /\ Cardinality(HeldRows(b)') \in Nat
           /\ Cardinality(HeldRows(b)') <= Cardinality(HeldRows(b))
  BY <1>1, FS_Subset, FS_CardinalityType
<1>3. HeldRows(b)' = HeldRows(b) \cup {p} /\ p \notin HeldRows(b)
        => Cardinality(HeldRows(b)') = Cardinality(HeldRows(b)) + 1
  BY <1>1, FS_AddElement
<1>4. HeldRows(b)' = HeldRows(b) \ {p} /\ p \in HeldRows(b)
        => Cardinality(HeldRows(b)') = Cardinality(HeldRows(b)) - 1
  BY <1>1, FS_RemoveElement
<1> QED BY <1>2, <1>3, <1>4

(* The books of one batch, and the numbers in them. *)
Book(b) ==
  /\ copies[b] + ghost[b] >= rblog[b] + unkept[b] + Cardinality(HeldRows(b))
  /\ ~lost => copies[b] + ghost[b]
                = rblog[b] + unkept[b] + Cardinality(HeldRows(b))

LEMMA BookOf ==
  ASSUME TypeOK, Books, NEW b \in Batches
  PROVE  /\ Book(b)
         /\ copies[b] \in Nat /\ ghost[b] \in Nat /\ rblog[b] \in Nat
         /\ unkept[b] \in Nat
         /\ Cardinality(HeldRows(b)) \in Nat
BY HeldFinite DEF TypeOK, Books, Book

(* A step that forgets rows only after it has been counted as a loss. *)
LEMMA BookKept ==
  ASSUME TypeOK, Books, NEW b \in Batches,
         UNCHANGED <<copies, ghost, rblog, unkept>>, lost => lost',
         HeldRows(b)' \subseteq HeldRows(b),
         lost' \/ HeldRows(b)' = HeldRows(b)
  PROVE  Book(b)'
<1>1. CASE HeldRows(b)' = HeldRows(b)
  BY <1>1, BookOf DEF Book
<1>2. CASE lost'
  <2>1. /\ Cardinality(HeldRows(b)') \in Nat
        /\ Cardinality(HeldRows(b)') <= Cardinality(HeldRows(b))
    BY HeldChanges
  <2> QED BY <1>2, <2>1, BookOf DEF Book
<1> QED BY <1>1, <1>2

(* A deletion of rows that turns a log into a ghost, or of a log. *)
LEMMA BookRolled ==
  ASSUME TypeOK, Books, NEW c \in Batches, NEW b \in Batches,
         UNCHANGED <<res, unlogged, unkept, lost>>,
         \/ UNCHANGED <<copies, ghost, rblog>>
         \/ copies' = [copies EXCEPT ![c] = @ - 1] /\ rblog' = [rblog EXCEPT ![c] = @ - 1]
              /\ ghost' = ghost
         \/ ghost' = [ghost EXCEPT ![c] = @ - 1] /\ rblog' = [rblog EXCEPT ![c] = @ - 1]
              /\ copies' = copies
         \/ copies' = [copies EXCEPT ![c] = @ - 1] /\ ghost' = [ghost EXCEPT ![c] = @ + 1]
              /\ rblog' = rblog
  PROVE  Book(b)'
<1>1. HeldRows(b)' = HeldRows(b) BY DEF HeldRows
<1>2. /\ copies \in [Batches -> Nat] /\ ghost \in [Batches -> Nat]
      /\ rblog \in [Batches -> Nat]
  BY DEF TypeOK
<1>3. /\ copies'[b] \in Int /\ ghost'[b] \in Int /\ rblog'[b] \in Int
      /\ copies'[b] + ghost'[b] - rblog'[b] = copies[b] + ghost[b] - rblog[b]
  <2>1. CASE UNCHANGED <<copies, ghost, rblog>> BY <1>2, <2>1
  <2>2. CASE copies' = [copies EXCEPT ![c] = @ - 1]
               /\ rblog' = [rblog EXCEPT ![c] = @ - 1] /\ ghost' = ghost
    BY <1>2, <2>2
  <2>3. CASE ghost' = [ghost EXCEPT ![c] = @ - 1]
               /\ rblog' = [rblog EXCEPT ![c] = @ - 1] /\ copies' = copies
    BY <1>2, <2>3
  <2>4. CASE copies' = [copies EXCEPT ![c] = @ - 1]
               /\ ghost' = [ghost EXCEPT ![c] = @ + 1] /\ rblog' = rblog
    BY <1>2, <2>4
  <2> QED BY <2>1, <2>2, <2>3, <2>4
<1>4. lost' = lost /\ unkept'[b] = unkept[b] OBVIOUS
<1>5. Cardinality(HeldRows(b)') = Cardinality(HeldRows(b)) BY <1>1
<1>6. copies'[b] + ghost'[b] >= rblog'[b] + unkept[b] + Cardinality(HeldRows(b))
  <2>1. copies[b] + ghost[b] >= rblog[b] + unkept[b] + Cardinality(HeldRows(b))
    BY BookOf DEF Book
  <2> QED BY <1>3, <2>1, BookOf
<1>7. ASSUME ~lost
      PROVE  copies'[b] + ghost'[b] = rblog'[b] + unkept[b] + Cardinality(HeldRows(b))
  <2>1. copies[b] + ghost[b] = rblog[b] + unkept[b] + Cardinality(HeldRows(b))
    BY <1>7, BookOf DEF Book
  <2> QED BY <1>3, <2>1, BookOf
<1> QED BY <1>4, <1>5, <1>6, <1>7 DEF Book

LEMMA BooksStep == ASSUME IInv, Next PROVE Books'
<1> SUFFICES ASSUME NEW b \in Batches PROVE Book(b)' BY DEF Books, Book
<1> USE Processes, GotoFacts DEF IInv
<1>1. CASE ExecStep
  <2>1. UNCHANGED <<copies, ghost, rblog, unkept>> BY <1>1, Quiet DEF dataVars
  <2>2. HeldRows(b)' = HeldRows(b)
    BY <1>1 DEF ExecStep, Deliver, WriteBackId, CheckExec, BeginExec, FinishExec,
       Publish, Ack, HeldRows, Apart, TypeOK
  <2>3. lost => lost'
    BY <1>1 DEF ExecStep, Deliver, WriteBackId, CheckExec, BeginExec, FinishExec,
       Publish, Ack
  <2> QED BY <2>1, <2>2, <2>3, BookKept
<1>2. ASSUME NEW p \in Procs, RunStep(p) PROVE Book(b)'
  <2>1. ASSUME NEW c \in Batches, RunBatch(p, c) PROVE Book(b)'
    <3>1. UNCHANGED <<ghost, rblog, unkept, lost>> BY <2>1 DEF RunBatch
    <3>2. PICK r \in {"ok", "fail"} :
            /\ res' = [res EXCEPT ![p][c] = r]
            /\ copies' = IF r = "ok" THEN [copies EXCEPT ![c] = @ + 1] ELSE copies
      BY <2>1 DEF RunBatch
    <3>3. unlogged' = [unlogged EXCEPT ![p] = @ \cup {c}] /\ c \notin unlogged[p]
      BY <2>1 DEF RunBatch, Apart
    <3>4. CASE r = "ok" /\ b = c
      <4>1. HeldRows(b)' = HeldRows(b) \cup {p} /\ p \notin HeldRows(b)
        BY <3>2, <3>3, <3>4 DEF HeldRows, TypeOK
      <4>2. Cardinality(HeldRows(b)') = Cardinality(HeldRows(b)) + 1
        BY <4>1, HeldChanges
      <4>3. copies'[b] = copies[b] + 1 BY <3>2, <3>4 DEF TypeOK
      <4> QED BY <3>1, <4>2, <4>3, BookOf DEF Book
    <3>5. CASE ~(r = "ok" /\ b = c)
      <4>1. HeldRows(b)' = HeldRows(b)
        BY <3>2, <3>3, <3>5 DEF HeldRows, TypeOK
      <4>2. copies'[b] = copies[b] BY <3>2, <3>5 DEF TypeOK
      <4> QED BY <3>1, <4>1, <4>2, BookOf DEF Book
    <3> QED BY <3>4, <3>5
  <2>2. ASSUME NEW c \in Batches, Record(p, c) PROVE Book(b)'
    <3>1. UNCHANGED <<copies, ghost, lost, res>> BY <2>2 DEF Record
    <3>2. unlogged' = [unlogged EXCEPT ![p] = @ \ {c}] /\ c \in unlogged[p]
      BY <2>2 DEF Record
    <3>3. CASE res[p][c] # "ok" \/ b # c
      <4>1. HeldRows(b)' = HeldRows(b)
        BY <3>1, <3>2, <3>3 DEF HeldRows, TypeOK
      <4>2. rblog'[b] = rblog[b] /\ unkept'[b] = unkept[b]
        BY <2>2, <3>3 DEF Record, TypeOK
      <4> QED BY <3>1, <4>1, <4>2, BookOf DEF Book
    <3>4. CASE res[p][c] = "ok" /\ b = c
      <4>1. HeldRows(b)' = HeldRows(b) \ {p} /\ p \in HeldRows(b)
        BY <3>1, <3>2, <3>4 DEF HeldRows, TypeOK
      <4>2. Cardinality(HeldRows(b)') = Cardinality(HeldRows(b)) - 1
        BY <4>1, HeldChanges
      <4>3. rblog'[b] + unkept'[b] = rblog[b] + unkept[b] + 1
        <5>1. CASE rblog' = [rblog EXCEPT ![c] = @ + 1] /\ unkept' = unkept
          BY <3>4, <5>1 DEF TypeOK
        <5>2. CASE unkept' = [unkept EXCEPT ![c] = @ + 1] /\ rblog' = rblog
          BY <3>4, <5>2 DEF TypeOK
        <5> QED BY <2>2, <3>4, <5>1, <5>2 DEF Record
      <4>4. rblog'[b] \in Nat /\ unkept'[b] \in Nat
        BY <2>2 DEF Record, TypeOK
      <4> QED BY <3>1, <4>2, <4>3, <4>4, BookOf DEF Book
    <3> QED BY <3>3, <3>4
  <2>3. CASE Raise(p)
    <3>1. HeldRows(b)' = HeldRows(b) BY <2>3 DEF Raise, HeldRows
    <3> QED BY <2>3, <3>1, BookKept DEF Raise, dataVars
  <2>4. CASE Unwound(p)
    <3>1. lost /\ lost' BY <2>4 DEF Unwound, UnwindIsLost
    <3>2. HeldRows(b)' \subseteq HeldRows(b) BY <2>4 DEF Unwound, HeldRows, TypeOK
    <3> QED BY <2>4, <3>1, <3>2, BookKept DEF Unwound, dataVars
  <2> QED BY <1>2, <2>1, <2>2, <2>3, <2>4 DEF RunStep
<1>3. ASSUME NEW r \in Retriers, RetryStep(r) PROVE Book(b)'
  <2>1. UNCHANGED <<copies, ghost, rblog, unkept>> BY <1>3, Quiet DEF dataVars
  <2>2. HeldRows(b)' = HeldRows(b)
    BY <1>3 DEF RetryStep, CheckRetry, BeginRetry, FinishRetry, HeldRows, Apart, TypeOK
  <2>3. lost => lost' BY <1>3 DEF RetryStep, CheckRetry, BeginRetry, FinishRetry
  <2> QED BY <2>1, <2>2, <2>3, BookKept
<1>4. CASE RollbackStep
  <2>1. UNCHANGED <<res, unlogged, unkept, lost>> BY <1>4, Quiet DEF execVars
  <2>2. CASE RollbackStart \/ RollbackEnd \/ RollbackError
    BY <2>1, <2>2, BookRolled DEF RollbackStart, RollbackEnd, RollbackError, dataVars
  <2>3. ASSUME NEW c \in Batches, RollbackLog(c) PROVE Book(b)'
    BY <2>1, <2>3, BookRolled DEF RollbackLog, DeleteRows
  <2>4. ASSUME NEW c \in Batches, RollbackLogFails(c) PROVE Book(b)'
    BY <2>1, <2>4, BookRolled DEF RollbackLogFails
  <2> QED BY <1>4, <2>2, <2>3, <2>4 DEF RollbackStep
<1>5. CASE ApiStep \/ UserStep
  <2>1. UNCHANGED <<copies, ghost, rblog, unkept, lost, res, unlogged>>
    BY <1>5, Quiet DEF dataVars, execVars, UserStep, Send, AbortCheck, RollbackCheck,
       RequestRetry
  <2> QED BY <2>1, BookRolled
<1>6. CASE Fault
  <2>1. CASE Kill \/ WorkerCrash
    <3>1. HeldRows(b)' \subseteq HeldRows(b)
      BY <2>1 DEF Kill, WorkerCrash, Forget, HeldRows, TypeOK, NoResults
    <3> QED BY <2>1, <3>1, BookKept DEF Kill, WorkerCrash, Forget, dataVars
  <2>2. CASE ApiCrash
    <3>1. HeldRows(b)' \subseteq HeldRows(b)
      BY <2>2 DEF ApiCrash, HeldRows, TypeOK, NoResults
    <3> QED BY <2>2, <3>1, BookKept DEF ApiCrash, dataVars
  <2>3. CASE RollbackCrash
    BY <2>3, BookRolled DEF RollbackCrash, execVars
  <2> QED BY <1>6, <2>1, <2>2, <2>3 DEF Fault
<1> QED BY <1>1, <1>2, <1>3, <1>4, <1>5, <1>6 DEF Next

-------------------------------------------------------------------------------
LEMMA IInit == Init => IInv
<1> SUFFICES ASSUME Init PROVE IInv OBVIOUS
<1>1. TypeOK BY TypeInit
<1>2. \A b \in Batches : HeldRows(b) = {} BY DEF Init, HeldRows
<1>3. Books
  <2>1. \A b \in Batches : Cardinality(HeldRows(b)) = 0 BY <1>2, FS_EmptySet
  <2>2. \A b \in Batches : copies[b] = 0 /\ ghost[b] = 0 /\ rblog[b] = 0 /\ unkept[b] = 0
    BY DEF Init, NoLogs
  <2> QED BY <2>1, <2>2 DEF Books
<1>4. /\ Apart /\ UnwindIsLost /\ MessageOut /\ Locked /\ Settled /\ Snapshot
  BY Processes DEF Init, Apart, UnwindIsLost, MessageOut, Locked, Settled, Snapshot,
     Rollable
<1>5. LogsBound BY DEF Init, LogsBound, NoLogs
<1> QED BY <1>1, <1>3, <1>4, <1>5 DEF IInv

LEMMA IInvNext == IInv /\ [Next]_vars => IInv'
<1>1. ASSUME IInv, Next PROVE IInv'
  <2>1. TypeOK'
    BY <1>1, TypeExec, TypeRun, TypeRetry, TypeRollback, TypeRequest, TypeFault
    DEF Next, IInv
  <2> QED BY <1>1, <2>1, ApartStep, UnwindStep, LogsStep, BooksStep, MessageStep,
          LockedStep, SettledStep, SnapshotStep DEF IInv
<1>2. ASSUME IInv, UNCHANGED vars PROVE IInv'
  BY <1>2 DEF vars, execVars, dataVars, reqVars, rbVars, IInv, TypeOK, Apart,
     UnwindIsLost, LogsBound, Books, HeldRows, MessageOut, Locked, Settled, Snapshot
<1> QED BY <1>1, <1>2

LEMMA Invariance == Spec => []IInv
BY IInit, IInvNext, PTL DEF Spec

-------------------------------------------------------------------------------
(* The state has its types. *)
THEOREM TaskTypesHold == Spec => []TypeOK
<1>1. IInv => TypeOK BY DEF IInv
<1> QED BY <1>1, Invariance, PTL

(* Rows in the target database can be found again: each copy is held by a   *)
(* run, named by one rollback log or recorded without one until a process   *)
(* is lost, and no log names rows that were not there                       *)
(* (_record_batch_result, rollback_task).                                   *)
THEOREM RowsAreAccounted == Spec => []RowsAccounted
<1>1. IInv => RowsAccounted
  <2> SUFFICES ASSUME IInv, NEW b \in Batches
               PROVE  /\ copies[b] + ghost[b] >= rblog[b]
                      /\ ~lost => copies[b] + ghost[b]
                                    = rblog[b] + unkept[b] + Cardinality(HeldRows(b))
    BY DEF RowsAccounted
  <2> QED BY BookOf DEF IInv, Book
<1> QED BY <1>1, Invariance, PTL

(* The status of the row keeps the execution and the retries apart as long  *)
(* as nothing crashes (execute_case_task, retry_failed_batches).            *)
THEOREM WritersExclude == Spec => []SoleWriter
<1>1. IInv => SoleWriter
  BY Processes DEF IInv, Locked, SoleWriter, Writing
<1> QED BY <1>1, Invariance, PTL

(* A stop that comes before any process has passed its status check holds,  *)
(* and a rollback reported as done left no log behind, whatever crashed     *)
(* (abort_task, rollback_exec_task).                                        *)
THEOREM RequestsAreHonoured == Spec => RequestsHonoured
<1>1. ASSUME IInv, [Next]_vars PROVE [AbortHolds /\ RollbackComplete]_vars
  <2> SUFFICES ASSUME Next PROVE AbortHolds /\ RollbackComplete BY <1>1
  <2>1. AbortHolds
    <3> SUFFICES ASSUME StoppedInTime PROVE StoppedInTime' BY DEF AbortHolds
    <3> USE <1>1, Processes, GotoFacts DEF StoppedInTime, IInv
    <3>1. CASE ExecStep
      BY <3>1 DEF ExecStep, Deliver, WriteBackId, CheckExec, BeginExec, FinishExec,
         Publish, Ack
    <3>2. ASSUME NEW p \in Procs, RunStep(p) PROVE StoppedInTime'
      BY <3>2 DEF RunStep, RunBatch, Record, Raise, Unwound
    <3>3. ASSUME NEW r \in Retriers, RetryStep(r) PROVE StoppedInTime'
      BY <3>3 DEF RetryStep, CheckRetry, BeginRetry, FinishRetry, Retryable
    <3>4. CASE RollbackStep BY <3>4, Quiet DEF execVars
    <3>5. CASE ApiStep
      BY <3>5 DEF ApiStep, Commit, AbortCommit, RollbackMark, RollbackSend, execVars
    <3>6. CASE UserStep
      BY <3>6 DEF UserStep, Send, AbortCheck, RollbackCheck, RequestRetry, Retryable,
         execVars
    <3>7. CASE Fault
      BY <3>7 DEF Fault, Kill, WorkerCrash, ApiCrash, RollbackCrash, Forget, TypeOK,
         execVars
    <3> QED BY <3>1, <3>2, <3>3, <3>4, <3>5, <3>6, <3>7 DEF Next
  <2>2. RollbackComplete
    <3> SUFFICES ASSUME rbStatus' = "done", rbStatus # "done", count.retry = 0
                 PROVE  \A b \in Batches : rblog'[b] = 0 /\ ghost'[b] = 0
      BY DEF RollbackComplete
    <3>1. RollbackEnd
      <4>1. ~ExecStep BY Quiet DEF rbVars
      <4>2. \A p \in Procs : ~RunStep(p) BY Quiet DEF rbVars
      <4>3. \A r \in Retriers : ~RetryStep(r) BY Quiet DEF rbVars
      <4>4. ~ApiStep
        BY DEF ApiStep, Commit, AbortCommit, RollbackMark, RollbackSend, rbVars
      <4>5. ~UserStep
        BY DEF UserStep, Send, AbortCheck, RollbackCheck, RequestRetry, rbVars
      <4>6. ~Fault BY DEF Fault, Kill, WorkerCrash, ApiCrash, RollbackCrash, rbVars
      <4>7. RollbackStep BY <4>1, <4>2, <4>3, <4>4, <4>5, <4>6 DEF Next
      <4> QED BY <4>7 DEF RollbackStep, RollbackStart, RollbackLog, RollbackLogFails,
              RollbackError
    <3>2. rbPc = "run" /\ rbTodo = NoLogs /\ ~rbFailed /\ UNCHANGED dataVars
      BY <3>1 DEF RollbackEnd
    <3>3. \A b \in Batches : rblog[b] = 0
      BY <1>1, <3>2 DEF IInv, Snapshot, NoLogs
    <3>4. \A b \in Batches : ghost[b] = 0
      BY <1>1, <3>3 DEF IInv, LogsBound, TypeOK
    <3> QED BY <3>2, <3>3, <3>4 DEF dataVars
  <2> QED BY <2>1, <2>2
<1> QED BY <1>1, Invariance, PTL DEF Spec, RequestsHonoured
===============================================================================
