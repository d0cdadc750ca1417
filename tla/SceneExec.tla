------------------------------- MODULE SceneExec -------------------------------
(***************************************************************************)
(* One execution of a scene: a DAG of cases run layer by layer             *)
(* (engine/scene_executor.py), every node as a task of its own whose       *)
(* Celery worker reports back (tasks/execute_task.py), with forced stop    *)
(* and retry of nodes (services/scene_service.py).                         *)
(*                                                                         *)
(* Process 0 is the scheduler (tasks.execute_scene), process p > 0 the     *)
(* p-th delivery of tasks.retry_scene_nodes.  A task is a pair of a node   *)
(* and the process that created it.  The life of a task is TaskLifecycle's *)
(* in outline.                                                             *)
(***************************************************************************)
EXTENDS Integers, FiniteSets

CONSTANTS
  Nodes,        \* nodes of the scene
  NL,           \* number of layers (build_layers)
  Layer,        \* Layer[n]: layer of node n
  AbortOnFail,  \* nodes whose fail_strategy is "abort"
  MaxRetries,   \* bound on deliveries of retry messages
  MaxEvents     \* bound on requests of users and crashes, taken together

ASSUME LayersAssumption ==
  /\ NL \in Nat \ {0}
  /\ Layer \in [Nodes -> 1..NL]
  /\ AbortOnFail \subseteq Nodes

ASSUME BoundsAssumption == MaxRetries \in Nat /\ MaxEvents \in Nat

Procs     == 0..MaxRetries
Scheduler == 0
Retries   == Procs \ {Scheduler}
Tasks     == Nodes \X Procs

VARIABLES
  visible,  \* has the transaction that inserts the scene execution committed?
  scene,    \* df_scene_exec.status
  row,      \* df_scene_node_exec.status of every node
  current,  \* df_scene_node_exec.exec_task_id: creator of the node's task
  prog,     \* df:scene:node_progress in Redis
  pc,       \* scheduler and retries
  layer,    \* layer the scheduler works on
  asked,    \* nodes named in a retry message
  todo,     \* nodes still to submit, then nodes still waited for
  verdict,  \* scene status a process is about to commit
  tpc,      \* worker of every task
  tstat,    \* df_exec_task.status of every task
  res,      \* result execute_case_task returned
  revoked,  \* tasks revoked with terminate = True
  stop,     \* forced stop: where it stands and what it has read
  count,    \* requests and crashes so far, for the bound
  lost      \* was a process left by a crash or by an unhandled exception?

sceneVars == <<visible, scene, row, current, prog>>
procVars  == <<pc, layer, asked, todo, verdict>>
taskVars  == <<tpc, tstat, res, revoked>>
vars      == <<sceneVars, procVars, taskVars, stop, count, lost>>

SceneStatuses == {"pending", "running", "success", "failed", "partial", "aborted"}
NodeStatuses  == {"absent", "running", "success", "failed", "cancelled"}
TaskStatuses  == {"absent", "pending", "running", "ended", "aborted"}
(* Every final state of a node's progress is "final": nothing tells them    *)
(* apart.                                                                   *)
Progress      == {"none", "pending", "running", "final"}
Retryable     == {"failed", "cancelled"}

TypeOK ==
  /\ visible \in BOOLEAN
  /\ scene \in SceneStatuses
  /\ row \in [Nodes -> NodeStatuses]
  /\ current \in [Nodes -> Procs]
  /\ prog \in [Nodes -> Progress]
  /\ pc \in [Procs -> {"idle", "queued", "begin", "init", "submit", "wait",
                       "collect", "cancel", "final", "publish", "raised", "done"}]
  /\ layer \in 1..NL
  /\ asked \in [Procs -> SUBSET Nodes]
  /\ todo \in [Procs -> SUBSET Nodes]
  /\ verdict \in [Procs -> SceneStatuses]
  /\ tpc \in [Tasks -> {"none", "queued", "run", "row", "progress", "over"}]
  /\ tstat \in [Tasks -> TaskStatuses]
  /\ res \in [Tasks -> {"none", "success", "failed", "skipped", "missed", "nocase"}]
  /\ revoked \in SUBSET Tasks
  /\ stop \in [at : {"idle", "seen", "committed"}, nodes : SUBSET Nodes,
               tasks : SUBSET Tasks]
  /\ count \in [{"stop", "retry", "crash"} -> Nat]
  /\ lost \in BOOLEAN

NoStop == [at |-> "idle", nodes |-> {}, tasks |-> {}]

Init ==
  /\ visible = FALSE
  /\ scene = "pending"
  /\ row = [n \in Nodes |-> "absent"]
  /\ current = [n \in Nodes |-> Scheduler]
  /\ prog = [n \in Nodes |-> "none"]
  /\ pc = [p \in Procs |-> "idle"]
  /\ layer = 1
  /\ asked = [p \in Procs |-> {}]
  /\ todo = [p \in Procs |-> {}]
  /\ verdict = [p \in Procs |-> "pending"]
  /\ tpc = [t \in Tasks |-> "none"]
  /\ tstat = [t \in Tasks |-> "absent"]
  /\ res = [t \in Tasks |-> "none"]
  /\ revoked = {}
  /\ stop = NoStop
  /\ count = [k \in {"stop", "retry", "crash"} |-> 0]
  /\ lost = FALSE

Goto(p, l)   == pc' = [pc EXCEPT ![p] = l]
LayerOf(l)   == {n \in Nodes : Layer[n] = l}
Later(l)     == {n \in Nodes : Layer[n] > l}
Event(k)     == /\ count.stop + count.retry + count.crash < MaxEvents
                /\ count' = [count EXCEPT ![k] = @ + 1]

-------------------------------------------------------------------------------
(* Starting: execute_scene of the service and of the worker. *)

(* The message is sent before the transaction commits. *)
SendScene ==
  /\ pc[Scheduler] = "idle" /\ ~visible
  /\ Goto(Scheduler, "queued")
  /\ UNCHANGED <<sceneVars, layer, asked, todo, verdict, taskVars, stop, count,
                 lost>>

CommitScene ==
  /\ pc[Scheduler] # "idle" /\ ~visible
  /\ visible' = TRUE
  /\ UNCHANGED <<scene, row, current, prog, procVars, taskVars, stop, count, lost>>

CheckScene ==
  /\ pc[Scheduler] = "queued"
  /\ Goto(Scheduler, IF visible /\ scene = "pending" THEN "begin" ELSE "done")
  /\ UNCHANGED <<sceneVars, layer, asked, todo, verdict, taskVars, stop, count,
                 lost>>

(* A commit outside every try block that raises: it is undone, or only its *)
(* answer is lost.                                                         *)
CommitRaises(p, status) ==
  /\ scene' \in {scene, status}
  /\ Goto(p, "done") /\ lost' = TRUE

(* The snapshot is refused (no nodes, a cycle), or the scene is marked as  *)
(* running whatever its status is by now.                                  *)
BeginScene ==
  /\ pc[Scheduler] = "begin"
  /\ \/ scene' = "failed" /\ Goto(Scheduler, "done") /\ lost' = lost
     \/ scene' = "running" /\ Goto(Scheduler, "init") /\ lost' = lost
     \/ CommitRaises(Scheduler, "running")
  /\ UNCHANGED <<visible, row, current, prog, layer, asked, todo, verdict,
                 taskVars, stop, count>>

(* _init_scene_progress, outside the try block: an exception of Redis      *)
(* leaves the scene as it is.                                              *)
InitProgress ==
  /\ pc[Scheduler] = "init"
  /\ \/ /\ prog' = [n \in Nodes |-> "pending"]
        /\ Goto(Scheduler, "submit")
        /\ todo' = [todo EXCEPT ![Scheduler] = LayerOf(1)]
        /\ lost' = lost
     \/ Goto(Scheduler, "done") /\ lost' = TRUE /\ UNCHANGED <<prog, todo>>
  /\ UNCHANGED <<visible, scene, row, current, layer, asked, verdict, taskVars,
                 stop, count>>

(* retry_failed_nodes: the status of the scene is not looked at again.     *)
BeginRetry(p) ==
  LET chosen == {n \in asked[p] : row[n] \in Retryable}
  IN /\ p \in Retries /\ pc[p] = "queued"
     /\ \/ /\ chosen = {} /\ Goto(p, "done")
           /\ UNCHANGED <<scene, todo, lost>>
        \/ /\ chosen # {} /\ Goto(p, "submit")
           /\ scene' = "running"
           /\ todo' = [todo EXCEPT ![p] = chosen]
           /\ lost' = lost
        \/ /\ chosen # {} /\ CommitRaises(p, "running")
           /\ todo' = todo
     /\ UNCHANGED <<visible, row, current, prog, layer, asked, verdict, taskVars,
                    stop, count>>

-------------------------------------------------------------------------------
(* Submitting and awaiting nodes: the scheduler a layer, a retry its nodes. *)

(* The nodes are taken in a fixed order. *)
NextNode(p, n) == pc[p] = "submit" /\ n \in todo[p] /\ n = CHOOSE m \in todo[p] : TRUE

(* The message of a node is sent; its task and its row are not committed.  *)
SendNode(p, n) ==
  /\ NextNode(p, n) /\ tpc[<<n, p>>] = "none"
  /\ tpc' = [tpc EXCEPT ![<<n, p>>] = "queued"]
  /\ UNCHANGED <<sceneVars, procVars, tstat, res, revoked, stop, count, lost>>

(* _set_node_progress after the message was sent. *)
MarkRunning(p, n) ==
  /\ NextNode(p, n) /\ tpc[<<n, p>>] # "none"
  /\ prog' = [prog EXCEPT ![n] = "running"]
  /\ todo' = [todo EXCEPT ![p] = @ \ {n}]
  /\ UNCHANGED <<visible, scene, row, current, pc, layer, asked, verdict,
                 taskVars, stop, count, lost>>

(* The case of the node was deleted: the scheduler fails the node, a retry *)
(* passes it over.                                                         *)
CaseMissing(p, n) ==
  /\ NextNode(p, n) /\ tpc[<<n, p>>] = "none"
  /\ res' = [res EXCEPT ![<<n, p>>] = "nocase"]
  /\ prog' = IF p = Scheduler THEN [prog EXCEPT ![n] = "final"] ELSE prog
  /\ todo' = [todo EXCEPT ![p] = @ \ {n}]
  /\ UNCHANGED <<visible, scene, row, current, pc, layer, asked, verdict, tpc,
                 tstat, revoked, stop, count, lost>>

(* The commit that makes the tasks and rows of the nodes visible. *)
CommitNodes(p) ==
  LET batch == IF p = Scheduler THEN LayerOf(layer) ELSE asked[p]
      sent  == {n \in batch : tpc[<<n, p>>] # "none"}
  IN /\ pc[p] = "submit" /\ todo[p] = {}
     /\ row' = [n \in Nodes |->
                  IF n \in sent THEN "running"
                  ELSE IF n \in batch /\ p = Scheduler THEN "failed" ELSE row[n]]
     /\ current' = [n \in Nodes |-> IF n \in sent THEN p ELSE current[n]]
     /\ tstat' = [t \in Tasks |-> IF t \in sent \X {p} THEN "pending" ELSE tstat[t]]
     /\ todo' = [todo EXCEPT ![p] = IF p = Scheduler THEN batch ELSE sent]
     /\ Goto(p, "wait")
     /\ UNCHANGED <<visible, scene, prog, layer, asked, verdict, tpc, res, revoked,
                    stop, count, lost>>

(* Mutant: one node in a final state ends the wait. *)
PollM(p) ==
  LET open == {n \in todo[p] : prog[n] # "final"}
  IN /\ pc[p] = "wait" /\ (open # todo[p] \/ open = {})
     /\ todo' = [todo EXCEPT ![p] = {}]
     /\ Goto(p, "collect")
     /\ UNCHANGED <<sceneVars, layer, asked, verdict, taskVars, stop, count, lost>>

(* _wait_for_layer_completion reads Redis only. *)
Poll(p) ==
  LET open == {n \in todo[p] : prog[n] # "final"}
  IN /\ pc[p] = "wait" /\ (open # todo[p] \/ open = {})
     /\ todo' = [todo EXCEPT ![p] = open]
     /\ Goto(p, IF open = {} THEN "collect" ELSE "wait")
     /\ UNCHANGED <<sceneVars, layer, asked, verdict, taskVars, stop, count, lost>>

-------------------------------------------------------------------------------
(* After a layer: failure strategy, next layer, verdict. *)

(* A retry keeps the rows it submitted in its session as it wrote them:    *)
(* they are not read again.                                                *)
Seen(p, n) == IF p \in Retries /\ tpc[<<n, p>>] # "none" THEN "running" ELSE row[n]

(* Mutant: only cancelled nodes spoil a success. *)
VerdictM(p) == IF \A n \in Nodes : Seen(p, n) # "cancelled" THEN "success"
               ELSE "partial"

(* _finalize_scene. *)
Verdict(p) ==
  LET good == {n \in Nodes : Seen(p, n) = "success"}
      bad  == {n \in Nodes : Seen(p, n) \in Retryable}
  IN IF bad = {} THEN "success" ELSE IF good = {} THEN "failed" ELSE "partial"

(* Mutant: the failure strategy is not looked at. *)
AbortNodesM == {}

(* _collect_abort_nodes. *)
AbortNodes == {n \in LayerOf(layer) : row[n] = "failed"} \cap AbortOnFail

(* Mutant: off by one at the last layer. *)
MoreLayersM == layer <= NL

MoreLayers == layer < NL

(* The rows are read once, in one transaction, after the wait. *)
Collect(p) ==
  /\ pc[p] = "collect"
  /\ \/ /\ p = Scheduler /\ AbortNodes # {}
        /\ Goto(p, "cancel")
        /\ UNCHANGED <<layer, todo, verdict>>
     \/ /\ p = Scheduler /\ AbortNodes = {} /\ MoreLayers
        /\ layer' = layer + 1
        /\ todo' = [todo EXCEPT ![p] = LayerOf(layer + 1)]
        /\ Goto(p, "submit")
        /\ UNCHANGED verdict
     \/ /\ p = Scheduler => AbortNodes = {} /\ ~MoreLayers
        /\ verdict' = [verdict EXCEPT ![p] = Verdict(p)]
        /\ Goto(p, "final")
        /\ UNCHANGED <<layer, todo>>
  /\ UNCHANGED <<sceneVars, asked, taskVars, stop, count, lost>>

(* _cancel_remaining_nodes. *)
CancelRemaining ==
  /\ pc[Scheduler] = "cancel"
  /\ row' = [n \in Nodes |-> IF n \in Later(layer) THEN "cancelled" ELSE row[n]]
  /\ prog' = [n \in Nodes |-> IF n \in Later(layer) THEN "final" ELSE prog[n]]
  /\ verdict' = [verdict EXCEPT ![Scheduler] = "failed"]
  /\ Goto(Scheduler, "final")
  /\ UNCHANGED <<visible, scene, current, layer, asked, todo, taskVars, stop,
                 count, lost>>

(* The verdict overwrites the status of the scene, a forced stop included. *)
Finalize(p) ==
  /\ pc[p] = "final"
  /\ scene' = verdict[p]
  /\ verdict' = [verdict EXCEPT ![p] = "pending"]
  /\ Goto(p, IF p = Scheduler THEN "publish" ELSE "done")
  /\ UNCHANGED <<visible, row, current, prog, layer, asked, todo, taskVars, stop,
                 count, lost>>

(* The progress of the scene in Redis follows, or raises. *)
Publish ==
  /\ pc[Scheduler] = "publish"
  /\ \E l \in {"done", "raised"} : Goto(Scheduler, l)
  /\ UNCHANGED <<sceneVars, layer, asked, todo, verdict, taskVars, stop, count,
                 lost>>

(* An exception (the time limit of the wait, Redis, a database): what was  *)
(* not committed is rolled back.  Nobody handles it in a retry.            *)
Raise(p) ==
  /\ pc[p] \in {"submit", "wait", "collect", "final"}
  /\ todo' = [todo EXCEPT ![p] = {}]
  /\ Goto(p, IF p = Scheduler THEN "raised" ELSE "done")
  /\ lost' = (lost \/ p \in Retries)
  /\ UNCHANGED <<sceneVars, layer, asked, verdict, taskVars, stop, count>>

(* Mutant: the scene keeps its status. *)
MarkFailedM ==
  /\ pc[Scheduler] = "raised"
  /\ Goto(Scheduler, "done")
  /\ UNCHANGED <<sceneVars, layer, asked, todo, verdict, taskVars, stop, count,
                 lost>>

(* _mark_scene_failed.  Nobody handles what it raises itself: the database *)
(* may still be away.                                                      *)
MarkFailed ==
  /\ pc[Scheduler] = "raised"
  /\ \/ scene' = "failed" /\ Goto(Scheduler, "done") /\ lost' = lost
     \/ CommitRaises(Scheduler, "failed")
  /\ UNCHANGED <<visible, row, current, prog, layer, asked, todo, verdict,
                 taskVars, stop, count>>

-------------------------------------------------------------------------------
(* Workers of the nodes: execute_data_gen and _writeback_scene_node. *)

TaskGoto(t, l) == tpc' = [tpc EXCEPT ![t] = l]

(* A task that is not committed yet is missed for good; one that was       *)
(* stopped or is already running is skipped.                               *)
StartTask(t) ==
  /\ tpc[t] = "queued"
  /\ IF tstat[t] = "pending"
     THEN TaskGoto(t, "run") /\ tstat' = [tstat EXCEPT ![t] = "running"]
          /\ res' = res
     ELSE TaskGoto(t, "row") /\ tstat' = tstat
          /\ res' = [res EXCEPT ![t] = IF tstat[t] = "absent" THEN "missed"
                                       ELSE "skipped"]
  /\ UNCHANGED <<sceneVars, procVars, revoked, stop, count, lost>>

(* Anything but a full success, a partial one too, is a failure of the     *)
(* node.                                                                   *)
RunTask(t) ==
  /\ tpc[t] = "run"
  /\ \E r \in {"success", "failed"} : res' = [res EXCEPT ![t] = r]
  /\ tstat' = [tstat EXCEPT ![t] = "ended"]
  /\ TaskGoto(t, "row")
  /\ UNCHANGED <<sceneVars, procVars, revoked, stop, count, lost>>

(* MySQL first: the row, if it is visible, whatever its status is by now.  *)
WriteRow(t) ==
  /\ tpc[t] = "row"
  /\ row' = IF row[t[1]] = "absent" THEN row
            ELSE [row EXCEPT ![t[1]] = IF res[t] = "success" THEN "success"
                                       ELSE "failed"]
  /\ TaskGoto(t, "progress")
  /\ UNCHANGED <<visible, scene, current, prog, procVars, tstat, res, revoked,
                 stop, count, lost>>

(* Then Redis: the scheduler finds the row written when it sees this.      *)
WriteProgress(t) ==
  /\ tpc[t] = "progress"
  /\ prog' = [prog EXCEPT ![t[1]] = "final"]
  /\ TaskGoto(t, "over")
  /\ UNCHANGED <<visible, scene, row, current, procVars, tstat, res, revoked,
                 stop, count, lost>>

(* A revoked message is discarded, a process that works on it is killed.   *)
Kill(t) ==
  /\ t \in revoked /\ tpc[t] \notin {"none", "over"}
  /\ TaskGoto(t, "over")
  /\ revoked' = revoked \ {t}
  /\ UNCHANGED <<sceneVars, procVars, tstat, res, stop, count, lost>>

-------------------------------------------------------------------------------
(* Requests of users: scene_service. *)

(* abort_scene: the nodes and tasks to cancel are read, the tasks revoked  *)
(* one by one, as far as the broker is there; a database error on the way  *)
(* ends the request.                                                       *)
StopCheck ==
  /\ visible /\ scene \in {"pending", "running"} /\ stop = NoStop
  /\ Event("stop")
  /\ LET active == {n \in Nodes : row[n] = "running"}
         tasks  == {<<n, current[n]>> : n \in active}
     IN /\ \E some \in SUBSET {t \in tasks : tpc[t] # "over"} :
             revoked' = revoked \cup some
        /\ stop' \in {NoStop,
             [at |-> "seen", nodes |-> active,
              tasks |-> {t \in tasks : tstat[t] \in {"pending", "running"}}]}
  /\ UNCHANGED <<sceneVars, procVars, tpc, tstat, res, lost>>

StopCommit ==
  /\ stop.at = "seen"
  /\ row' = [n \in Nodes |-> IF n \in stop.nodes THEN "cancelled" ELSE row[n]]
  /\ tstat' = [t \in Tasks |-> IF t \in stop.tasks THEN "aborted" ELSE tstat[t]]
  /\ scene' = "aborted"
  /\ stop' = [stop EXCEPT !.at = "committed"]
  /\ UNCHANGED <<visible, current, prog, procVars, tpc, res, revoked, count, lost>>

(* The progress of the nodes in Redis, on a best-effort basis. *)
StopPublish ==
  /\ stop.at = "committed"
  /\ prog' \in {prog, [n \in Nodes |-> IF prog[n] \in {"pending", "running"}
                                       THEN "final" ELSE prog[n]]}
  /\ stop' = NoStop
  /\ UNCHANGED <<visible, scene, row, current, procVars, taskVars, count, lost>>

(* retry_scene_nodes. *)
RequestRetry(p) ==
  /\ p \in Retries /\ pc[p] = "idle" /\ Event("retry")
  /\ visible /\ scene \notin {"pending", "running"}
  /\ \E chosen \in SUBSET {n \in Nodes : row[n] \in Retryable} \ {{}} :
        asked' = [asked EXCEPT ![p] = chosen]
  /\ Goto(p, "queued")
  /\ UNCHANGED <<sceneVars, layer, todo, verdict, taskVars, stop, lost>>

-------------------------------------------------------------------------------
(* Crashes. *)

(* The worker of a scheduler or of a retry dies; its message is delivered  *)
(* again (to a fresh process for a retry), or counts as handled.           *)
Crash(p) ==
  /\ pc[p] \notin {"idle", "queued", "done"} /\ Event("crash")
  /\ \/ /\ pc' = [pc EXCEPT ![p] = IF p = Scheduler THEN "queued" ELSE "done"]
        /\ UNCHANGED asked
     \/ \E q \in Retries :
          /\ p \in Retries /\ pc[q] = "idle"
          /\ pc' = [pc EXCEPT ![p] = "done", ![q] = "queued"]
          /\ asked' = [asked EXCEPT ![q] = asked[p]]
  /\ todo' = [todo EXCEPT ![p] = {}]
  /\ lost' = TRUE
  /\ UNCHANGED <<sceneVars, layer, verdict, taskVars, stop>>

TaskCrash(t) ==
  /\ tpc[t] \in {"run", "row", "progress"} /\ Event("crash")
  /\ \E l \in {"queued", "over"} : TaskGoto(t, l)
  /\ UNCHANGED <<sceneVars, procVars, tstat, res, revoked, stop, lost>>

-------------------------------------------------------------------------------
SchedulerStep == \/ CheckScene \/ BeginScene \/ InitProgress
                 \/ CancelRemaining \/ Publish \/ MarkFailed
ProcStep(p) ==
  \/ BeginRetry(p)
  \/ \E n \in Nodes : SendNode(p, n) \/ MarkRunning(p, n) \/ CaseMissing(p, n)
  \/ CommitNodes(p)
  \/ Poll(p)
  \/ Collect(p)
  \/ Finalize(p)
  \/ Raise(p)
TaskStep(t) == StartTask(t) \/ RunTask(t) \/ WriteRow(t) \/ WriteProgress(t) \/ Kill(t)
ApiStep     == CommitScene \/ StopCommit \/ StopPublish
UserStep    == SendScene \/ StopCheck \/ \E p \in Retries : RequestRetry(p)
Fault       == (\E p \in Procs : Crash(p)) \/ (\E t \in Tasks : TaskCrash(t))

Next ==
  \/ SchedulerStep
  \/ \E p \in Procs : ProcStep(p)
  \/ \E t \in Tasks : TaskStep(t)
  \/ ApiStep
  \/ UserStep
  \/ Fault

(* Workers are running and the wait for a layer has a deadline.  A process *)
(* takes finitely many steps, so that nothing more is needed of each.      *)
Fairness ==
  /\ WF_vars(SchedulerStep \/ \E p \in Procs : ProcStep(p))
  /\ WF_vars(\E t \in Tasks : TaskStep(t))

Spec == Init /\ [][Next]_vars /\ Fairness

-------------------------------------------------------------------------------
(* Properties. *)

NotStopped  == count.stop = 0
First(n)    == <<n, Scheduler>>
NotRetried  == count.retry = 0

(* A node's data is generated only after every node of the layers before   *)
(* has finished and reported, unless somebody stops the scene: the wait    *)
(* relies on Redis alone.                                                  *)
LayerBarrier ==
  NotStopped => \A m, n \in Nodes :
    Layer[m] < Layer[n] /\ tpc[First(n)] # "none" => tpc[First(m)] \in {"none", "over"}

(* When a node with the strategy "abort" did not succeed, no node of a     *)
(* later layer is ever started: the worker writes the row before the       *)
(* progress the scheduler waits for.  A message that outran the commit of  *)
(* its row escapes the strategy.                                           *)
StrategyHonoured ==
  \A m \in AbortOnFail, n \in Nodes :
    /\ NotStopped /\ Layer[m] < Layer[n]
    /\ res[First(m)] \in {"failed", "skipped", "nocase"}
    => tpc[First(n)] = "none"

(* A scene is successful when all of its nodes are, and partially so when  *)
(* some are and some are not (_finalize_scene), unless a message outran    *)
(* the commit of its task; and then no node is still at work.              *)
VerdictEarned ==
  NotStopped /\ NotRetried /\ scene \in {"success", "partial"} =>
    /\ \A n \in Nodes : tpc[First(n)] \in {"none", "over"}
    /\ (\A n \in Nodes : res[First(n)] # "missed") =>
         /\ scene = "success" => \A n \in Nodes : res[First(n)] = "success"
         /\ scene = "partial" => \E n, m \in Nodes : /\ res[First(n)] = "success"
                                                     /\ res[First(m)] # "success"

(* Once a verdict was committed every node has a row, cancelled ones too:  *)
(* the details of an execution are complete.                               *)
EveryNodeListed ==
  pc[Scheduler] = "publish" => \A n \in Nodes : row[n] # "absent"

(* The verdict and the rows published with it tell the whole truth. *)
VerdictTrue == VerdictEarned /\ EveryNodeListed

(* A running scene has somebody to give it a verdict, unless a process     *)
(* died on it or was left by an exception nobody handles.                  *)
RunningIsServed ==
  scene = "running" => lost \/ \E p \in Procs : pc[p] \notin {"idle", "done"}

(* A scene that is stopped once its scheduler is under way stays stopped   *)
(* (abort_scene) until somebody retries it.                                *)
StoppedStays ==
  [][scene = "aborted" /\ pc[Scheduler] # "begin" /\ NotRetried
     => scene' = "aborted"]_vars
================================================================================
