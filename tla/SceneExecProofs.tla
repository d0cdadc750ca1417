---------------------------- MODULE SceneExecProofs ----------------------------
(***************************************************************************)
(* Proofs about SceneExec, for any scene, layers, retries, requests and    *)
(* crashes.                                                                *)
(***************************************************************************)
EXTENDS SceneExec, TLAPS

(* The types, by the groups of variables that steps leave alone together.  *)
PcState == {"idle", "queued", "begin", "init", "submit", "wait",
            "collect", "cancel", "final", "publish", "raised", "done"}
Results == {"none", "success", "failed", "skipped", "missed", "nocase"}
SceneTypes ==
  /\ visible \in BOOLEAN
  /\ scene \in SceneStatuses
  /\ row \in [Nodes -> NodeStatuses]
  /\ current \in [Nodes -> Procs]
  /\ prog \in [Nodes -> Progress]
ProcTypes ==
  /\ pc \in [Procs -> PcState]
  /\ layer \in 1..NL
  /\ asked \in [Procs -> SUBSET Nodes]
  /\ todo \in [Procs -> SUBSET Nodes]
  /\ verdict \in [Procs -> SceneStatuses]
TaskTypes ==
  /\ tpc \in [Tasks -> {"none", "queued", "run", "row", "progress", "over"}]
  /\ tstat \in [Tasks -> TaskStatuses]
  /\ res \in [Tasks -> Results]
  /\ revoked \in SUBSET Tasks
StopTypes == stop \in [at : {"idle", "seen", "committed"}, nodes : SUBSET Nodes,
                       tasks : SUBSET Tasks]
CountTypes == count \in [{"stop", "retry", "crash"} -> Nat]

LEMMA TypeParts ==
  /\ TypeOK => SceneTypes /\ ProcTypes /\ TaskTypes /\ StopTypes /\ CountTypes
               /\ lost \in BOOLEAN
  /\ SceneTypes' /\ ProcTypes' /\ TaskTypes' /\ StopTypes' /\ CountTypes'
     /\ lost' \in BOOLEAN => TypeOK'
<1>1. TypeOK => SceneTypes /\ ProcTypes /\ TaskTypes /\ StopTypes /\ CountTypes
                /\ lost \in BOOLEAN
  BY Zenon DEF TypeOK, SceneTypes, ProcTypes, TaskTypes, StopTypes, CountTypes,
               PcState, Results
<1>2. SceneTypes' /\ ProcTypes' /\ TaskTypes' /\ StopTypes' /\ CountTypes'
      /\ lost' \in BOOLEAN => TypeOK'
  BY Zenon DEF TypeOK, SceneTypes, ProcTypes, TaskTypes, StopTypes, CountTypes,
               PcState, Results
<1> QED BY <1>1, <1>2

(* A verdict is never "running", and there is one when it is committed.     *)
VerdictsReady ==
  \A p \in Procs : /\ verdict[p] \in {"pending", "success", "failed", "partial"}
                   /\ pc[p] = "final" => verdict[p] # "pending"

(* The processes that are going to change the status of a running scene. *)
Responsible == {"init", "submit", "wait", "collect", "cancel", "final", "raised"}
Served == scene = "running" => lost \/ \E p \in Procs : pc[p] \in Responsible

(* Rows are there from the commit of their layer on. *)
Listed ==
  /\ \A n \in Nodes : Layer[n] < layer => row[n] # "absent"
  /\ pc[Scheduler] \in {"wait", "collect", "cancel"} =>
       \A n \in LayerOf(layer) : row[n] # "absent"
  /\ pc[Scheduler] \in {"final", "publish"} => \A n \in Nodes : row[n] # "absent"

(* As long as nobody stops the scene nobody revokes tasks, and as long as   *)
(* nobody asks for a retry there is none; retries skip what is the          *)
(* scheduler's; an idle one has no tasks.                                   *)
Idle == \A p \in Retries : pc[p] = "idle"
Unstopped == NotStopped => stop = NoStop /\ revoked = {}
Unretried == NotRetried => Idle
RetryPhases == \A p \in Retries : pc[p] \notin {"begin", "init", "cancel", "publish", "raised"}
RetryTasks == \A p \in Retries, n \in Nodes : pc[p] = "idle" => tpc[<<n, p>>] = "none"

(* Without a stop the scheduler is alone with its nodes until its verdict.  *)
AtWork    == {"init", "submit", "wait", "collect", "cancel", "final"}
Untouched == \A n \in Nodes : /\ tpc[First(n)] = "none" /\ res[First(n)] = "none"
                              /\ tstat[First(n)] = "absent"
Starting  == pc[Scheduler] = "begin" => scene = "pending"
Fresh     == scene = "pending" \/ pc[Scheduler] = "init" => layer = 1 /\ Idle /\ Untouched
Working   == pc[Scheduler] \in AtWork => scene = "running" /\ Idle
OwnNodes  == /\ pc[Scheduler] \in {"submit", "wait"} => todo[Scheduler] \subseteq LayerOf(layer)
             /\ pc[Scheduler] = "collect" => todo[Scheduler] = {}
Phases == NotStopped => Starting /\ Fresh /\ Working /\ OwnNodes

(* Tasks of the scheduler: no layer is begun before its turn, and those     *)
(* before it are over and did not call for an abort.                        *)
Spoiled == {"failed", "skipped", "nocase"}
Begun(n) ==
  tpc[First(n)] # "none" \/ res[First(n)] # "none" => Layer[n] <= layer
Closed(n) ==
  Layer[n] < layer =>
    /\ tpc[First(n)] \in {"none", "over"}
    /\ n \in AbortOnFail => res[First(n)] \notin Spoiled
Layers == NotStopped => \A n \in Nodes : Begun(n) /\ Closed(n)

(* What progress, row and task of a node say of each other. *)
Told == {"success", "failed", "skipped", "missed"}
Reported(n) ==
  LET t == First(n)
  IN /\ prog[n] = "final" => tpc[t] \in {"none", "over"}
     /\ tstat[t] = "absent" => res[t] \in {"none", "missed", "nocase"}
     /\ tstat[t] # "absent" => row[n] # "absent"
     /\ res[t] = "nocase" => tpc[t] = "none"
     /\ tpc[t] = "run" => tstat[t] # "absent"
     /\ tpc[t] = "row" => res[t] \in Told
     /\ tpc[t] = "progress" \/ (tpc[t] = "over" /\ prog[n] = "final") =>
          /\ res[t] \in Told
          /\ res[t] = "success" => row[n] = "success"
          /\ res[t] \in {"failed", "skipped"} => row[n] = "failed"

(* A node that was passed over has failed. *)
PassedOver(n) == tpc[First(n)] = "none" => res[First(n)] = "nocase" /\ row[n] = "failed"

(* Nodes of layers to come, of the layer that is submitted, of the one that *)
(* is waited for, and of those before.                                      *)
Ahead(n) ==
  pc[Scheduler] \in {"submit", "wait", "collect", "cancel"} /\ Layer[n] > layer =>
    prog[n] = "pending" /\ tstat[First(n)] = "absent"
Submitted(n) ==
  pc[Scheduler] = "submit" /\ Layer[n] = layer =>
    /\ tstat[First(n)] = "absent"
    /\ n \in todo[Scheduler] /\ tpc[First(n)] = "none" =>
         prog[n] = "pending" /\ res[First(n)] = "none"
    /\ n \notin todo[Scheduler] =>
         tpc[First(n)] # "none" \/ (res[First(n)] = "nocase" /\ prog[n] = "final")
Awaited(n) ==
  pc[Scheduler] \in {"wait", "collect"} /\ Layer[n] = layer =>
    /\ n \notin todo[Scheduler] => prog[n] = "final"
    /\ PassedOver(n)
Behind(n) == Layer[n] < layer => prog[n] = "final" /\ PassedOver(n)
Good(n)   == Reported(n) /\ Ahead(n) /\ Submitted(n) /\ Awaited(n) /\ Behind(n)
NodesGood == NotStopped /\ Idle => \A n \in Nodes : Good(n)

(* What a verdict says of the scheduler's tasks. *)
Earned(v) ==
  v \in {"success", "partial"} =>
    /\ \A n \in Nodes : tpc[First(n)] \in {"none", "over"}
    /\ (\A n \in Nodes : res[First(n)] # "missed") =>
         /\ v = "success" => \A n \in Nodes : res[First(n)] = "success"
         /\ v = "partial" => \E n, m \in Nodes : /\ res[First(n)] = "success"
                                                 /\ res[First(m)] # "success"
VerdictsEarned ==
  NotStopped /\ NotRetried =>
    /\ Earned(scene)
    /\ pc[Scheduler] = "final" => Earned(verdict[Scheduler])

IInv ==
  /\ TypeOK
  /\ VerdictsReady
  /\ Served
  /\ Listed
  /\ Unstopped
  /\ Unretried
  /\ RetryPhases
  /\ RetryTasks
  /\ Phases
  /\ Layers
  /\ NodesGood
  /\ VerdictsEarned

-------------------------------------------------------------------------------
(* The names of processes and tasks. *)
LEMMA Names ==
  /\ Scheduler \in Procs /\ Scheduler \notin Retries
  /\ \A p \in Retries : p \in Procs /\ p # Scheduler
  /\ \A p \in Procs : p = Scheduler \/ p \in Retries
BY BoundsAssumption DEF Procs, Scheduler, Retries

LEMMA TaskNames ==
  /\ \A n \in Nodes, p \in Procs : <<n, p>> \in Tasks /\ <<n, p>>[1] = n /\ <<n, p>>[2] = p
  /\ \A t \in Tasks : t[1] \in Nodes /\ t[2] \in Procs /\ t = <<t[1], t[2]>>
  /\ \A n \in Nodes : First(n) \in Tasks /\ First(n)[1] = n /\ First(n)[2] = Scheduler
BY Names DEF Tasks, First

(* Goto moves one process. *)
LEMMA GotoFacts ==
  ASSUME TypeOK, NEW p \in Procs, NEW l, Goto(p, l)
  PROVE  /\ pc'[p] = l
         /\ \A q \in Procs \ {p} : pc'[q] = pc[q]
         /\ l \in PcState => pc' \in [Procs -> PcState]
BY DEF TypeOK, Goto, PcState

(* A request or a crash counts. *)
LEMMA EventFacts ==
  ASSUME TypeOK, NEW k \in {"stop", "retry", "crash"}, Event(k)
  PROVE  /\ CountTypes'
         /\ count'[k] # 0
         /\ \A j \in {"stop", "retry", "crash"} : count'[j] = 0 => count[j] = 0
<1>1. count \in [{"stop", "retry", "crash"} -> Nat] BY DEF TypeOK
<1>2. count' = [count EXCEPT ![k] = count[k] + 1] BY DEF Event
<1> QED BY <1>1, <1>2 DEF CountTypes

(* Types of what a step leaves alone. *)
LEMMA SameTypes ==
  ASSUME TypeOK
  PROVE  /\ UNCHANGED sceneVars => SceneTypes'
         /\ UNCHANGED procVars => ProcTypes'
         /\ UNCHANGED taskVars => TaskTypes'
         /\ UNCHANGED stop => StopTypes'
         /\ UNCHANGED count => CountTypes'
         /\ UNCHANGED lost => lost' \in BOOLEAN
<1> USE TypeParts
<1>1. UNCHANGED sceneVars => SceneTypes' BY DEF SceneTypes, sceneVars
<1>2. UNCHANGED procVars => ProcTypes' BY DEF ProcTypes, procVars
<1>3. UNCHANGED taskVars => TaskTypes' BY DEF TaskTypes, taskVars
<1>4. UNCHANGED stop => StopTypes' BY DEF StopTypes
<1>5. UNCHANGED count => CountTypes' BY DEF CountTypes
<1>6. UNCHANGED lost => lost' \in BOOLEAN OBVIOUS
<1> QED BY <1>1, <1>2, <1>3, <1>4, <1>5, <1>6

LEMMA TypeInit == Init => TypeOK
<1> SUFFICES ASSUME Init PROVE TypeOK OBVIOUS
<1>1. Scheduler \in Procs /\ 1 \in 1..NL BY Names, LayersAssumption
<1>2. SceneTypes BY <1>1 DEF Init, SceneTypes, SceneStatuses, NodeStatuses, Progress
<1>3. ProcTypes BY <1>1 DEF Init, ProcTypes, PcState, SceneStatuses
<1>4. TaskTypes BY DEF Init, TaskTypes, TaskStatuses, Results
<1>5. StopTypes /\ CountTypes /\ lost \in BOOLEAN BY DEF Init, StopTypes, CountTypes, NoStop
<1> QED BY <1>2, <1>3, <1>4, <1>5
    DEF TypeOK, SceneTypes, ProcTypes, TaskTypes, StopTypes, CountTypes, PcState, Results

(* Steps of the scheduler keep the types. *)
LEMMA TypeScheduler == ASSUME TypeOK, SchedulerStep PROVE TypeOK'
<1> USE Names, TypeParts, SameTypes
<1>1. CASE CheckScene
  <2>1. pc' \in [Procs -> PcState] BY <1>1, GotoFacts DEF CheckScene, PcState
  <2>2. ProcTypes' BY <1>1, <2>1 DEF CheckScene, ProcTypes
  <2> QED BY <1>1, <2>2 DEF CheckScene
<1>2. CASE BeginScene
  <2>1. pc' \in [Procs -> PcState] BY <1>2, GotoFacts DEF BeginScene, CommitRaises, PcState
  <2>2. ProcTypes' BY <1>2, <2>1 DEF BeginScene, CommitRaises, ProcTypes
  <2>3. SceneTypes' BY <1>2 DEF BeginScene, CommitRaises, SceneTypes, SceneStatuses
  <2> QED BY <1>2, <2>2, <2>3 DEF BeginScene, CommitRaises
<1>3. CASE InitProgress
  <2>1. pc' \in [Procs -> PcState] BY <1>3, GotoFacts DEF InitProgress, PcState
  <2>2. todo' \in [Procs -> SUBSET Nodes] BY <1>3 DEF InitProgress, ProcTypes, LayerOf
  <2>3. ProcTypes' BY <1>3, <2>1, <2>2 DEF InitProgress, ProcTypes
  <2>4. SceneTypes' BY <1>3 DEF InitProgress, SceneTypes, Progress
  <2>5. lost' \in BOOLEAN BY <1>3 DEF InitProgress
  <2> QED BY <1>3, <2>3, <2>4, <2>5 DEF InitProgress
<1>4. CASE CancelRemaining
  <2>1. pc' \in [Procs -> PcState] BY <1>4, GotoFacts DEF CancelRemaining, PcState
  <2>2. verdict' \in [Procs -> SceneStatuses]
    BY <1>4 DEF CancelRemaining, ProcTypes, SceneStatuses
  <2>3. ProcTypes' BY <1>4, <2>1, <2>2 DEF CancelRemaining, ProcTypes
  <2>4. row' \in [Nodes -> NodeStatuses]
    BY <1>4 DEF CancelRemaining, SceneTypes, NodeStatuses
  <2>5. prog' \in [Nodes -> Progress] BY <1>4 DEF CancelRemaining, SceneTypes, Progress
  <2>6. SceneTypes' BY <1>4, <2>4, <2>5 DEF CancelRemaining, SceneTypes
  <2> QED BY <1>4, <2>3, <2>6 DEF CancelRemaining
<1>5. CASE Publish
  <2>1. pc' \in [Procs -> PcState] BY <1>5, GotoFacts DEF Publish, PcState
  <2>2. ProcTypes' BY <1>5, <2>1 DEF Publish, ProcTypes
  <2> QED BY <1>5, <2>2 DEF Publish
<1>6. CASE MarkFailed
  <2>1. pc' \in [Procs -> PcState] BY <1>6, GotoFacts DEF MarkFailed, CommitRaises, PcState
  <2>2. ProcTypes' BY <1>6, <2>1 DEF MarkFailed, CommitRaises, ProcTypes
  <2>3. SceneTypes' BY <1>6 DEF MarkFailed, CommitRaises, SceneTypes, SceneStatuses
  <2> QED BY <1>6, <2>2, <2>3 DEF MarkFailed, CommitRaises
<1> QED BY <1>1, <1>2, <1>3, <1>4, <1>5, <1>6 DEF SchedulerStep

LEMMA VerdictTypes ==
  ASSUME NEW p PROVE Verdict(p) \in {"success", "failed", "partial"}
BY DEF Verdict

(* Steps of the scheduler and of the retries keep the types. *)
LEMMA TypeProc == ASSUME TypeOK, NEW p \in Procs, ProcStep(p) PROVE TypeOK'
<1> USE Names, TypeParts, SameTypes
<1>1. CASE BeginRetry(p)
  <2>1. pc' \in [Procs -> PcState] BY <1>1, GotoFacts DEF BeginRetry, CommitRaises, PcState
  <2>2. todo' \in [Procs -> SUBSET Nodes] BY <1>1 DEF BeginRetry, CommitRaises, ProcTypes
  <2>3. ProcTypes' BY <1>1, <2>1, <2>2 DEF BeginRetry, CommitRaises, ProcTypes
  <2>4. SceneTypes' BY <1>1 DEF BeginRetry, CommitRaises, SceneTypes, SceneStatuses
  <2> QED BY <1>1, <2>3, <2>4 DEF BeginRetry, CommitRaises
<1>2. ASSUME NEW n \in Nodes, SendNode(p, n) PROVE TypeOK'
  <2>1. TaskTypes' BY <1>2, TaskNames DEF SendNode, TaskTypes
  <2> QED BY <1>2, <2>1 DEF SendNode
<1>3. ASSUME NEW n \in Nodes, MarkRunning(p, n) PROVE TypeOK'
  <2>1. todo' \in [Procs -> SUBSET Nodes] BY <1>3 DEF MarkRunning, ProcTypes
  <2>2. ProcTypes' BY <1>3, <2>1 DEF MarkRunning, ProcTypes
  <2>3. prog' \in [Nodes -> Progress] BY <1>3 DEF MarkRunning, SceneTypes, Progress
  <2>4. SceneTypes' BY <1>3, <2>3 DEF MarkRunning, SceneTypes
  <2> QED BY <1>3, <2>2, <2>4 DEF MarkRunning
<1>4. ASSUME NEW n \in Nodes, CaseMissing(p, n) PROVE TypeOK'
  <2>1. todo' \in [Procs -> SUBSET Nodes] BY <1>4 DEF CaseMissing, ProcTypes
  <2>2. ProcTypes' BY <1>4, <2>1 DEF CaseMissing, ProcTypes
  <2>3. prog' \in [Nodes -> Progress] BY <1>4 DEF CaseMissing, SceneTypes, Progress
  <2>4. SceneTypes' BY <1>4, <2>3 DEF CaseMissing, SceneTypes
  <2>5. res' \in [Tasks -> Results]
    BY <1>4, TaskNames DEF CaseMissing, TaskTypes, Results
  <2>6. TaskTypes' BY <1>4, <2>5 DEF CaseMissing, TaskTypes
  <2> QED BY <1>4, <2>2, <2>4, <2>6 DEF CaseMissing
<1>5. CASE CommitNodes(p)
  <2>1. pc' \in [Procs -> PcState] BY <1>5, GotoFacts DEF CommitNodes, PcState
  <2>2. todo' \in [Procs -> SUBSET Nodes] BY <1>5 DEF CommitNodes, ProcTypes, LayerOf
  <2>3. ProcTypes' BY <1>5, <2>1, <2>2 DEF CommitNodes, ProcTypes
  <2>4. row' \in [Nodes -> NodeStatuses] BY <1>5 DEF CommitNodes, SceneTypes, NodeStatuses
  <2>5. current' \in [Nodes -> Procs] BY <1>5 DEF CommitNodes, SceneTypes
  <2>6. SceneTypes' BY <1>5, <2>4, <2>5 DEF CommitNodes, SceneTypes
  <2>7. tstat' \in [Tasks -> TaskStatuses] BY <1>5 DEF CommitNodes, TaskTypes, TaskStatuses
  <2>8. TaskTypes' BY <1>5, <2>7 DEF CommitNodes, TaskTypes
  <2> QED BY <1>5, <2>3, <2>6, <2>8 DEF CommitNodes
<1>6. CASE Poll(p)
  <2>1. pc' \in [Procs -> PcState] BY <1>6, GotoFacts DEF Poll, PcState
  <2>2. todo' \in [Procs -> SUBSET Nodes] BY <1>6 DEF Poll, ProcTypes
  <2>3. ProcTypes' BY <1>6, <2>1, <2>2 DEF Poll, ProcTypes
  <2> QED BY <1>6, <2>3 DEF Poll
<1>7. CASE Collect(p)
  <2>1. pc' \in [Procs -> PcState] BY <1>7, GotoFacts DEF Collect, PcState
  <2>2. todo' \in [Procs -> SUBSET Nodes] BY <1>7 DEF Collect, ProcTypes, LayerOf
  <2>3. layer' \in 1..NL BY <1>7, LayersAssumption DEF Collect, ProcTypes, MoreLayers
  <2>4. verdict' \in [Procs -> SceneStatuses]
    BY <1>7, VerdictTypes DEF Collect, ProcTypes, SceneStatuses
  <2>5. ProcTypes' BY <1>7, <2>1, <2>2, <2>3, <2>4 DEF Collect, ProcTypes
  <2> QED BY <1>7, <2>5 DEF Collect
<1>8. CASE Finalize(p)
  <2>1. pc' \in [Procs -> PcState] BY <1>8, GotoFacts DEF Finalize, PcState
  <2>2. verdict' \in [Procs -> SceneStatuses]
    BY <1>8 DEF Finalize, ProcTypes, SceneStatuses
  <2>3. ProcTypes' BY <1>8, <2>1, <2>2 DEF Finalize, ProcTypes
  <2>4. SceneTypes' BY <1>8 DEF Finalize, SceneTypes, ProcTypes
  <2> QED BY <1>8, <2>3, <2>4 DEF Finalize
<1>9. CASE Raise(p)
  <2>1. pc' \in [Procs -> PcState] BY <1>9, GotoFacts DEF Raise, PcState
  <2>2. todo' \in [Procs -> SUBSET Nodes] BY <1>9 DEF Raise, ProcTypes
  <2>3. ProcTypes' BY <1>9, <2>1, <2>2 DEF Raise, ProcTypes
  <2>4. lost' \in BOOLEAN BY <1>9 DEF Raise
  <2> QED BY <1>9, <2>3, <2>4 DEF Raise
<1> QED BY <1>1, <1>2, <1>3, <1>4, <1>5, <1>6, <1>7, <1>8, <1>9 DEF ProcStep

(* Steps of the workers keep the types. *)
LEMMA TypeTask == ASSUME TypeOK, NEW t \in Tasks, TaskStep(t) PROVE TypeOK'
<1> USE TypeParts, SameTypes
<1>1. CASE StartTask(t)
  <2>1. tpc' \in [Tasks -> {"none", "queued", "run", "row", "progress", "over"}]
    BY <1>1 DEF StartTask, TaskTypes, TaskGoto
  <2>2. tstat' \in [Tasks -> TaskStatuses] BY <1>1 DEF StartTask, TaskTypes, TaskStatuses
  <2>3. res' \in [Tasks -> Results] BY <1>1 DEF StartTask, TaskTypes, Results
  <2>4. TaskTypes' BY <1>1, <2>1, <2>2, <2>3 DEF StartTask, TaskTypes
  <2> QED BY <1>1, <2>4 DEF StartTask
<1>2. CASE RunTask(t)
  <2>1. tpc' \in [Tasks -> {"none", "queued", "run", "row", "progress", "over"}]
    BY <1>2 DEF RunTask, TaskTypes, TaskGoto
  <2>2. tstat' \in [Tasks -> TaskStatuses] BY <1>2 DEF RunTask, TaskTypes, TaskStatuses
  <2>3. res' \in [Tasks -> Results] BY <1>2 DEF RunTask, TaskTypes, Results
  <2>4. TaskTypes' BY <1>2, <2>1, <2>2, <2>3 DEF RunTask, TaskTypes
  <2> QED BY <1>2, <2>4 DEF RunTask
<1>3. CASE WriteRow(t)
  <2>1. TaskTypes' BY <1>3 DEF WriteRow, TaskTypes, TaskGoto
  <2>2. row' \in [Nodes -> NodeStatuses]
    BY <1>3, TaskNames DEF WriteRow, SceneTypes, NodeStatuses
  <2>3. SceneTypes' BY <1>3, <2>2 DEF WriteRow, SceneTypes
  <2> QED BY <1>3, <2>1, <2>3 DEF WriteRow
<1>4. CASE WriteProgress(t)
  <2>1. TaskTypes' BY <1>4 DEF WriteProgress, TaskTypes, TaskGoto
  <2>2. prog' \in [Nodes -> Progress]
    BY <1>4, TaskNames DEF WriteProgress, SceneTypes, Progress
  <2>3. SceneTypes' BY <1>4, <2>2 DEF WriteProgress, SceneTypes
  <2> QED BY <1>4, <2>1, <2>3 DEF WriteProgress
<1>5. CASE Kill(t)
  <2>1. TaskTypes' BY <1>5 DEF Kill, TaskTypes, TaskGoto
  <2> QED BY <1>5, <2>1 DEF Kill
<1> QED BY <1>1, <1>2, <1>3, <1>4, <1>5 DEF TaskStep

(* Requests keep the types. *)
LEMMA TypeRequest == ASSUME TypeOK, ApiStep \/ UserStep PROVE TypeOK'
<1> USE Names, TypeParts, SameTypes
<1>1. CASE CommitScene
  <2>1. SceneTypes' BY <1>1 DEF CommitScene, SceneTypes
  <2> QED BY <1>1, <2>1 DEF CommitScene
<1>2. CASE StopCommit
  <2>1. row' \in [Nodes -> NodeStatuses] BY <1>2 DEF StopCommit, SceneTypes, NodeStatuses
  <2>2. SceneTypes' BY <1>2, <2>1 DEF StopCommit, SceneTypes, SceneStatuses
  <2>3. tstat' \in [Tasks -> TaskStatuses] BY <1>2 DEF StopCommit, TaskTypes, TaskStatuses
  <2>4. TaskTypes' BY <1>2, <2>3 DEF StopCommit, TaskTypes
  <2>5. StopTypes' BY <1>2 DEF StopCommit, StopTypes
  <2> QED BY <1>2, <2>2, <2>4, <2>5 DEF StopCommit
<1>3. CASE StopPublish
  <2>1. prog' \in [Nodes -> Progress] BY <1>3 DEF StopPublish, SceneTypes, Progress
  <2>2. SceneTypes' BY <1>3, <2>1 DEF StopPublish, SceneTypes
  <2>3. StopTypes' BY <1>3 DEF StopPublish, StopTypes, NoStop
  <2> QED BY <1>3, <2>2, <2>3 DEF StopPublish
<1>4. CASE SendScene
  <2>1. pc' \in [Procs -> PcState] BY <1>4, GotoFacts DEF SendScene, PcState
  <2>2. ProcTypes' BY <1>4, <2>1 DEF SendScene, ProcTypes
  <2> QED BY <1>4, <2>2 DEF SendScene
<1>5. CASE StopCheck
  <2> DEFINE active == {n \in Nodes : row[n] = "running"}
             tasks  == {<<n, current[n]>> : n \in active}
  <2>1. tasks \in SUBSET Tasks BY DEF SceneTypes, Tasks
  <2>2. revoked' \in SUBSET Tasks
    <3>1. \E some \in SUBSET {t \in tasks : tpc[t] # "over"} : revoked' = revoked \cup some
      BY <1>5 DEF StopCheck
    <3> QED BY <2>1, <3>1 DEF TaskTypes
  <2>3. TaskTypes' BY <1>5, <2>2 DEF StopCheck, TaskTypes
  <2>4. StopTypes'
    <3>1. stop' \in {NoStop, [at |-> "seen", nodes |-> active,
                   tasks |-> {t \in tasks : tstat[t] \in {"pending", "running"}}]}
      BY <1>5 DEF StopCheck
    <3> QED BY <2>1, <3>1 DEF StopTypes, NoStop
  <2>5. CountTypes' BY <1>5, EventFacts DEF StopCheck
  <2> QED BY <1>5, <2>3, <2>4, <2>5 DEF StopCheck
<1>6. ASSUME NEW p \in Retries, RequestRetry(p) PROVE TypeOK'
  <2>1. pc' \in [Procs -> PcState] BY <1>6, GotoFacts DEF RequestRetry, PcState
  <2>2. asked' \in [Procs -> SUBSET Nodes] BY <1>6 DEF RequestRetry, ProcTypes
  <2>3. ProcTypes' BY <1>6, <2>1, <2>2 DEF RequestRetry, ProcTypes
  <2>4. CountTypes' BY <1>6, EventFacts DEF RequestRetry
  <2> QED BY <1>6, <2>3, <2>4 DEF RequestRetry
<1> QED BY <1>1, <1>2, <1>3, <1>4, <1>5, <1>6 DEF ApiStep, UserStep

(* Crashes keep the types. *)
LEMMA TypeFault == ASSUME TypeOK, Fault PROVE TypeOK'
<1> USE Names, TypeParts, SameTypes
<1>1. ASSUME NEW p \in Procs, Crash(p) PROVE TypeOK'
  <2>1. pc' \in [Procs -> PcState] BY <1>1 DEF Crash, ProcTypes, PcState
  <2>2. asked' \in [Procs -> SUBSET Nodes] BY <1>1 DEF Crash, ProcTypes
  <2>3. todo' \in [Procs -> SUBSET Nodes] BY <1>1 DEF Crash, ProcTypes
  <2>4. ProcTypes' BY <1>1, <2>1, <2>2, <2>3 DEF Crash, ProcTypes
  <2>5. CountTypes' BY <1>1, EventFacts DEF Crash
  <2> QED BY <1>1, <2>4, <2>5 DEF Crash
<1>2. ASSUME NEW t \in Tasks, TaskCrash(t) PROVE TypeOK'
  <2>1. TaskTypes' BY <1>2 DEF TaskCrash, TaskTypes, TaskGoto
  <2>2. CountTypes' BY <1>2, EventFacts DEF TaskCrash
  <2> QED BY <1>2, <2>1, <2>2 DEF TaskCrash
<1> QED BY <1>1, <1>2 DEF Fault

LEMMA TypeNext == ASSUME TypeOK, [Next]_vars PROVE TypeOK'
<1>1. CASE UNCHANGED vars
  BY <1>1, TypeParts, SameTypes DEF vars
<1> QED BY <1>1, TypeScheduler, TypeProc, TypeTask, TypeRequest, TypeFault DEF Next

-------------------------------------------------------------------------------
(* Requests and crashes are counted for good. *)
LEMMA CountStep ==
  ASSUME TypeOK, Next
  PROVE  /\ NotStopped' => NotStopped /\ ~StopCheck
         /\ NotRetried' => NotRetried /\ \A p \in Retries : ~RequestRetry(p)
<1> USE EventFacts DEF NotStopped, NotRetried
<1>1. StopCheck => count'.stop # 0 BY DEF StopCheck
<1>2. \A p \in Retries : RequestRetry(p) => count'.retry # 0 BY DEF RequestRetry
<1>3. (count'.stop = 0 => count.stop = 0) /\ (count'.retry = 0 => count.retry = 0)
  <2>1. CASE SchedulerStep \/ ApiStep
    BY <2>1 DEF SchedulerStep, CheckScene, BeginScene, CommitRaises, InitProgress,
       CancelRemaining,
       Publish, MarkFailed, ApiStep, CommitScene, StopCommit, StopPublish
  <2>2. ASSUME NEW p \in Procs, ProcStep(p) PROVE UNCHANGED count
    BY <2>2 DEF ProcStep, BeginRetry, CommitRaises, SendNode, MarkRunning, CaseMissing,
       CommitNodes,
       Poll, Collect, Finalize, Raise
  <2>3. ASSUME NEW t \in Tasks, TaskStep(t) PROVE UNCHANGED count
    BY <2>3 DEF TaskStep, StartTask, RunTask, WriteRow, WriteProgress, Kill
  <2>4. CASE UserStep BY <2>4 DEF UserStep, SendScene, StopCheck, RequestRetry
  <2>5. CASE Fault BY <2>5 DEF Fault, Crash, TaskCrash
  <2> QED BY <2>1, <2>2, <2>3, <2>4, <2>5 DEF Next
<1> QED BY <1>1, <1>2, <1>3

(* A verdict is computed before it is committed, and then it is forgotten. *)
LEMMA ReadyStep == ASSUME TypeOK, VerdictsReady, Next PROVE VerdictsReady'
<1> USE Names, GotoFacts DEF VerdictsReady
<1>1. CASE SchedulerStep
  BY <1>1 DEF SchedulerStep, CheckScene, BeginScene, CommitRaises, InitProgress, CancelRemaining,
     Publish, MarkFailed, TypeOK
<1>2. ASSUME NEW p \in Procs, ProcStep(p) PROVE VerdictsReady'
  <2>1. CASE BeginRetry(p) BY <2>1 DEF BeginRetry, CommitRaises
  <2>2. ASSUME NEW n \in Nodes, SendNode(p, n) \/ MarkRunning(p, n) \/ CaseMissing(p, n)
        PROVE  VerdictsReady'
    BY <2>2 DEF SendNode, MarkRunning, CaseMissing, procVars
  <2>3. CASE CommitNodes(p) BY <2>3 DEF CommitNodes
  <2>4. CASE Poll(p) BY <2>4 DEF Poll
  <2>5. CASE Collect(p) BY <2>5, VerdictTypes DEF Collect, TypeOK
  <2>6. CASE Finalize(p) BY <2>6 DEF Finalize, TypeOK
  <2>7. CASE Raise(p) BY <2>7 DEF Raise
  <2> QED BY <1>2, <2>1, <2>2, <2>3, <2>4, <2>5, <2>6, <2>7 DEF ProcStep
<1>3. ASSUME NEW t \in Tasks, TaskStep(t) PROVE VerdictsReady'
  BY <1>3 DEF TaskStep, StartTask, RunTask, WriteRow, WriteProgress, Kill, procVars
<1>4. CASE ApiStep
  BY <1>4 DEF ApiStep, CommitScene, StopCommit, StopPublish, procVars
<1>5. CASE UserStep
  BY <1>5 DEF UserStep, SendScene, StopCheck, RequestRetry, procVars
<1>6. CASE Fault
  BY <1>6 DEF Fault, Crash, TaskCrash, procVars, TypeOK
<1> QED BY <1>1, <1>2, <1>3, <1>4, <1>5, <1>6 DEF Next

(* Who leaves a running scene has given it a verdict, or it was lost. *)
LEMMA ServedStep == ASSUME TypeOK, VerdictsReady, Served, Next PROVE Served'
<1> USE Names, GotoFacts DEF Served, Responsible, CommitRaises
<1>1. CASE SchedulerStep
  <2>1. CASE CheckScene BY <2>1 DEF CheckScene, sceneVars
  <2>2. CASE BeginScene BY <2>2 DEF BeginScene, CommitRaises
  <2>3. CASE InitProgress BY <2>3 DEF InitProgress
  <2>4. CASE CancelRemaining BY <2>4 DEF CancelRemaining
  <2>5. CASE Publish BY <2>5 DEF Publish, sceneVars
  <2>6. CASE MarkFailed BY <2>6 DEF MarkFailed, CommitRaises
  <2> QED BY <1>1, <2>1, <2>2, <2>3, <2>4, <2>5, <2>6 DEF SchedulerStep
<1>2. ASSUME NEW p \in Procs, ProcStep(p) PROVE Served'
  <2>1. CASE BeginRetry(p) BY <2>1 DEF BeginRetry, CommitRaises
  <2>2. ASSUME NEW n \in Nodes, SendNode(p, n) \/ MarkRunning(p, n) \/ CaseMissing(p, n)
        PROVE  Served'
    BY <2>2 DEF SendNode, MarkRunning, CaseMissing, procVars, sceneVars
  <2>3. CASE CommitNodes(p) BY <2>3 DEF CommitNodes
  <2>4. CASE Poll(p) BY <2>4 DEF Poll, sceneVars
  <2>5. CASE Collect(p) BY <2>5 DEF Collect, sceneVars
  <2>6. CASE Finalize(p) BY <2>6 DEF Finalize, VerdictsReady
  <2>7. CASE Raise(p) BY <2>7 DEF Raise, sceneVars
  <2> QED BY <1>2, <2>1, <2>2, <2>3, <2>4, <2>5, <2>6, <2>7 DEF ProcStep
<1>3. ASSUME NEW t \in Tasks, TaskStep(t) PROVE Served'
  BY <1>3 DEF TaskStep, StartTask, RunTask, WriteRow, WriteProgress, Kill, procVars,
     sceneVars
<1>4. CASE ApiStep
  BY <1>4 DEF ApiStep, CommitScene, StopCommit, StopPublish, procVars
<1>5. CASE UserStep
  BY <1>5 DEF UserStep, SendScene, StopCheck, RequestRetry, procVars, sceneVars
<1>6. CASE Fault
  BY <1>6 DEF Fault, Crash, TaskCrash, procVars, sceneVars
<1> QED BY <1>1, <1>2, <1>3, <1>4, <1>5, <1>6 DEF Next

(* The rows a step leaves alone, and the scheduler's way through a layer. *)
LEMMA ListedFrame ==
  ASSUME Listed, UNCHANGED layer,
         \A n \in Nodes : row[n] # "absent" => row'[n] # "absent",
         \/ pc'[Scheduler] = pc[Scheduler]
         \/ pc'[Scheduler] \notin {"wait", "collect", "cancel", "final", "publish"}
         \/ pc[Scheduler] = "wait" /\ pc'[Scheduler] = "collect"
         \/ pc[Scheduler] = "collect" /\ pc'[Scheduler] = "cancel"
         \/ pc[Scheduler] = "final" /\ pc'[Scheduler] = "publish"
  PROVE  Listed'
BY DEF Listed, LayerOf

(* A layer's rows are committed together, and cancelled nodes have rows. *)
LEMMA ListedStep == ASSUME TypeOK, Listed, Next PROVE Listed'
<1> USE Names, GotoFacts, ListedFrame
<1>1. CASE SchedulerStep
  <2>1. CASE CancelRemaining
    <3>1. ASSUME NEW n \in Nodes PROVE row'[n] # "absent"
      <4>1. row'[n] = IF Layer[n] > layer THEN "cancelled" ELSE row[n]
        BY <2>1 DEF CancelRemaining, Later
      <4>2. Layer[n] \in Int /\ layer \in Int BY LayersAssumption DEF TypeOK
      <4>3. Layer[n] > layer \/ Layer[n] = layer \/ Layer[n] < layer BY <4>2
      <4> QED BY <2>1, <4>1, <4>2, <4>3 DEF CancelRemaining, Listed, LayerOf
    <3> QED BY <2>1, <3>1 DEF CancelRemaining, Listed, LayerOf
  <2>2. CASE CheckScene \/ BeginScene \/ InitProgress \/ Publish \/ MarkFailed
    BY <2>2 DEF CheckScene, BeginScene, CommitRaises, InitProgress, Publish, MarkFailed, sceneVars
  <2> QED BY <1>1, <2>1, <2>2 DEF SchedulerStep
<1>2. ASSUME NEW p \in Procs, ProcStep(p) PROVE Listed'
  <2>1. CASE BeginRetry(p) BY <2>1 DEF BeginRetry, CommitRaises
  <2>2. ASSUME NEW n \in Nodes, SendNode(p, n) \/ MarkRunning(p, n) \/ CaseMissing(p, n)
        PROVE  Listed'
    BY <2>2 DEF SendNode, MarkRunning, CaseMissing, procVars, sceneVars
  <2>3. CASE CommitNodes(p)
    <3>1. \A n \in Nodes : row[n] # "absent" => row'[n] # "absent"
      BY <2>3 DEF CommitNodes
    <3>2. p = Scheduler => \A n \in LayerOf(layer) : row'[n] # "absent"
      BY <2>3 DEF CommitNodes, LayerOf
    <3> QED BY <2>3, <3>1, <3>2 DEF CommitNodes, Listed, LayerOf
  <2>4. CASE Poll(p) BY <2>4 DEF Poll, sceneVars
  <2>5. CASE Collect(p)
    <3>1. row' = row BY <2>5 DEF Collect, sceneVars
    <3>2. CASE UNCHANGED layer /\ (p = Scheduler => pc'[Scheduler] = "cancel")
      BY <2>5, <3>1, <3>2 DEF Collect
    <3>3. CASE p = Scheduler /\ layer' = layer + 1 /\ pc'[Scheduler] = "submit"
      <4>1. ASSUME NEW n \in Nodes, Layer[n] < layer + 1 PROVE row[n] # "absent"
        <5>1. Layer[n] \in Int /\ layer \in Int BY LayersAssumption DEF TypeOK
        <5>2. Layer[n] < layer \/ Layer[n] = layer BY <4>1, <5>1
        <5> QED BY <2>5, <3>3, <5>2 DEF Collect, Listed, LayerOf
      <4> QED BY <3>1, <3>3, <4>1 DEF Listed
    <3>4. CASE p = Scheduler /\ UNCHANGED layer /\ ~MoreLayers /\ pc'[Scheduler] = "final"
      <4>1. ASSUME NEW n \in Nodes PROVE row[n] # "absent"
        <5>1. Layer[n] \in 1..NL /\ layer \in 1..NL BY LayersAssumption DEF TypeOK
        <5>2. Layer[n] < layer \/ Layer[n] = layer
          BY <3>4, <5>1, LayersAssumption DEF MoreLayers
        <5> QED BY <2>5, <3>4, <5>2 DEF Collect, Listed, LayerOf
      <4> QED BY <3>1, <3>4, <4>1 DEF Listed
    <3> QED BY <2>5, <3>2, <3>3, <3>4 DEF Collect
  <2>6. CASE Finalize(p) BY <2>6 DEF Finalize
  <2>7. CASE Raise(p) BY <2>7 DEF Raise, sceneVars
  <2> QED BY <1>2, <2>1, <2>2, <2>3, <2>4, <2>5, <2>6, <2>7 DEF ProcStep
<1>3. ASSUME NEW t \in Tasks, TaskStep(t) PROVE Listed'
  <2>1. CASE WriteRow(t) BY <2>1 DEF WriteRow, procVars, TypeOK
  <2>2. CASE StartTask(t) \/ RunTask(t) \/ WriteProgress(t) \/ Kill(t)
    BY <2>2 DEF StartTask, RunTask, WriteProgress, Kill, procVars, sceneVars
  <2> QED BY <1>3, <2>1, <2>2 DEF TaskStep
<1>4. CASE ApiStep
  BY <1>4 DEF ApiStep, CommitScene, StopCommit, StopPublish, procVars
<1>5. CASE UserStep
  BY <1>5 DEF UserStep, SendScene, StopCheck, RequestRetry, procVars, sceneVars
<1>6. CASE Fault
  <2>1. ASSUME NEW p \in Procs, Crash(p) PROVE Listed'
    BY <2>1 DEF Crash, sceneVars, TypeOK
  <2>2. ASSUME NEW t \in Tasks, TaskCrash(t) PROVE Listed'
    BY <2>2 DEF TaskCrash, procVars, sceneVars
  <2> QED BY <1>6, <2>1, <2>2 DEF Fault
<1> QED BY <1>1, <1>2, <1>3, <1>4, <1>5, <1>6 DEF Next

(* Only a stop revokes tasks. *)
LEMMA UnstoppedStep == ASSUME TypeOK, Unstopped, Next PROVE Unstopped'
<1> SUFFICES ASSUME NotStopped' PROVE (stop = NoStop /\ revoked = {})' BY DEF Unstopped
<1>0. NotStopped /\ ~StopCheck /\ stop = NoStop /\ revoked = {}
  BY CountStep DEF Unstopped
<1>1. CASE SchedulerStep
  BY <1>0, <1>1 DEF SchedulerStep, CheckScene, BeginScene, CommitRaises, InitProgress,
     CancelRemaining, Publish, MarkFailed, taskVars
<1>2. ASSUME NEW p \in Procs, ProcStep(p) PROVE UNCHANGED <<stop, revoked>>
  BY <1>2 DEF ProcStep, BeginRetry, CommitRaises, SendNode, MarkRunning, CaseMissing, CommitNodes,
     Poll, Collect, Finalize, Raise, taskVars
<1>3. ASSUME NEW t \in Tasks, TaskStep(t) PROVE UNCHANGED <<stop, revoked>>
  BY <1>0, <1>3 DEF TaskStep, StartTask, RunTask, WriteRow, WriteProgress, Kill
<1>4. CASE ApiStep
  BY <1>0, <1>4 DEF ApiStep, CommitScene, StopCommit, StopPublish, taskVars, NoStop
<1>5. CASE UserStep
  BY <1>0, <1>5 DEF UserStep, SendScene, RequestRetry, taskVars
<1>6. CASE Fault
  BY <1>0, <1>6 DEF Fault, Crash, TaskCrash, taskVars
<1> QED BY <1>0, <1>1, <1>2, <1>3, <1>4, <1>5, <1>6 DEF Next

(* A retry is begun by a request, or by the crash of another. *)
LEMMA IdleStep ==
  ASSUME TypeOK, Idle, Next
  PROVE  Idle' \/ (scene \notin {"pending", "running"} /\ \E p \in Retries : RequestRetry(p))
<1> USE Names, GotoFacts DEF Idle
<1>1. CASE SchedulerStep
  BY <1>1 DEF SchedulerStep, CheckScene, BeginScene, CommitRaises, InitProgress, CancelRemaining,
     Publish, MarkFailed
<1>2. ASSUME NEW p \in Procs, ProcStep(p) PROVE Idle'
  <2>1. pc[p] # "idle"
    BY <1>2 DEF ProcStep, BeginRetry, CommitRaises, SendNode, MarkRunning, CaseMissing, NextNode,
       CommitNodes, Poll, Collect, Finalize, Raise
  <2>2. p = Scheduler BY <2>1
  <2> QED
    BY <1>2, <2>2 DEF ProcStep, BeginRetry, CommitRaises, SendNode, MarkRunning, CaseMissing,
       CommitNodes, Poll, Collect, Finalize, Raise, procVars
<1>3. ASSUME NEW t \in Tasks, TaskStep(t) PROVE Idle'
  BY <1>3 DEF TaskStep, StartTask, RunTask, WriteRow, WriteProgress, Kill, procVars
<1>4. CASE ApiStep
  BY <1>4 DEF ApiStep, CommitScene, StopCommit, StopPublish, procVars
<1>5. CASE SendScene \/ StopCheck BY <1>5 DEF SendScene, StopCheck, procVars
<1>6. CASE \E p \in Retries : RequestRetry(p) BY <1>6 DEF RequestRetry
<1>7. CASE Fault
  BY <1>7 DEF Fault, Crash, TaskCrash, procVars, TypeOK
<1> QED BY <1>1, <1>2, <1>3, <1>4, <1>5, <1>6, <1>7 DEF Next, UserStep

LEMMA UnretriedStep == ASSUME TypeOK, Unretried, Next PROVE Unretried'
BY CountStep, IdleStep DEF Unretried

(* The steps of the scheduler that retries do not have. *)
LEMMA RetryPhasesStep == ASSUME TypeOK, RetryPhases, Next PROVE RetryPhases'
<1> USE Names, GotoFacts DEF RetryPhases
<1>1. CASE SchedulerStep
  BY <1>1 DEF SchedulerStep, CheckScene, BeginScene, CommitRaises, InitProgress, CancelRemaining,
     Publish, MarkFailed
<1>2. ASSUME NEW p \in Procs, ProcStep(p) PROVE RetryPhases'
  BY <1>2 DEF ProcStep, BeginRetry, CommitRaises, SendNode, MarkRunning, CaseMissing,
     CommitNodes, Poll, Collect, Finalize, Raise, procVars
<1>3. ASSUME NEW t \in Tasks, TaskStep(t) PROVE RetryPhases'
  BY <1>3 DEF TaskStep, StartTask, RunTask, WriteRow, WriteProgress, Kill, procVars
<1>4. CASE ApiStep
  BY <1>4 DEF ApiStep, CommitScene, StopCommit, StopPublish, procVars
<1>5. CASE UserStep
  BY <1>5 DEF UserStep, SendScene, StopCheck, RequestRetry, procVars
<1>6. CASE Fault
  BY <1>6 DEF Fault, Crash, TaskCrash, procVars, TypeOK
<1> QED BY <1>1, <1>2, <1>3, <1>4, <1>5, <1>6 DEF Next

(* No process becomes idle again. *)
LEMMA NeverIdleAgain ==
  ASSUME TypeOK, Next, NEW q \in Procs, pc'[q] = "idle"
  PROVE  pc[q] = "idle"
<1> USE Names, GotoFacts
<1>1. CASE SchedulerStep
  BY <1>1 DEF SchedulerStep, CheckScene, BeginScene, CommitRaises, InitProgress, CancelRemaining,
     Publish, MarkFailed
<1>2. ASSUME NEW p \in Procs, ProcStep(p) PROVE pc[q] = "idle"
  BY <1>2 DEF ProcStep, BeginRetry, CommitRaises, SendNode, MarkRunning, CaseMissing,
     CommitNodes, Poll, Collect, Finalize, Raise, procVars
<1>3. ASSUME NEW t \in Tasks, TaskStep(t) PROVE pc[q] = "idle"
  BY <1>3 DEF TaskStep, StartTask, RunTask, WriteRow, WriteProgress, Kill, procVars
<1>4. CASE ApiStep
  BY <1>4 DEF ApiStep, CommitScene, StopCommit, StopPublish, procVars
<1>5. CASE UserStep
  BY <1>5 DEF UserStep, SendScene, StopCheck, RequestRetry, procVars
<1>6. CASE Fault
  BY <1>6 DEF Fault, Crash, TaskCrash, procVars, TypeOK
<1> QED BY <1>1, <1>2, <1>3, <1>4, <1>5, <1>6 DEF Next

(* A task is created by the process it is named after. *)
LEMMA RetryTasksStep == ASSUME TypeOK, RetryTasks, Next PROVE RetryTasks'
<1> SUFFICES ASSUME NEW q \in Retries, NEW m \in Nodes, pc'[q] = "idle"
             PROVE  tpc'[<<m, q>>] = "none"
  BY DEF RetryTasks
<1>0. pc[q] = "idle" /\ tpc[<<m, q>>] = "none"
  BY NeverIdleAgain, Names DEF RetryTasks
<1>1. CASE SchedulerStep
  BY <1>0, <1>1 DEF SchedulerStep, CheckScene, BeginScene, CommitRaises, InitProgress,
     CancelRemaining, Publish, MarkFailed, taskVars
<1>2. ASSUME NEW p \in Procs, ProcStep(p) PROVE tpc'[<<m, q>>] = "none"
  <2>1. ASSUME NEW n \in Nodes, SendNode(p, n) PROVE tpc'[<<m, q>>] = "none"
    <3>1. <<n, p>> # <<m, q>> BY <1>0, <2>1 DEF SendNode, NextNode
    <3> QED BY <1>0, <2>1, <3>1, TaskNames, Names DEF SendNode, TypeOK
  <2>2. ASSUME NEW n \in Nodes, MarkRunning(p, n) \/ CaseMissing(p, n)
        PROVE  tpc'[<<m, q>>] = "none"
    BY <1>0, <2>2 DEF MarkRunning, CaseMissing, taskVars
  <2>3. CASE BeginRetry(p) \/ CommitNodes(p) \/ Poll(p) \/ Collect(p) \/ Finalize(p)
             \/ Raise(p)
    BY <1>0, <2>3 DEF BeginRetry, CommitRaises, CommitNodes, Poll, Collect, Finalize, Raise,
       taskVars
  <2> QED BY <1>2, <2>1, <2>2, <2>3 DEF ProcStep
<1>3. ASSUME NEW t \in Tasks, TaskStep(t) \/ TaskCrash(t) PROVE tpc'[<<m, q>>] = "none"
  <2>1. tpc[t] # "none"
    BY <1>3 DEF TaskStep, StartTask, RunTask, WriteRow, WriteProgress, Kill, TaskCrash
  <2>2. t # <<m, q>> BY <1>0, <2>1
  <2>3. PICK l : tpc' = [tpc EXCEPT ![t] = l]
    BY <1>3 DEF TaskStep, StartTask, RunTask, WriteRow, WriteProgress, Kill, TaskCrash,
       TaskGoto
  <2>4. <<m, q>> \in Tasks BY TaskNames, Names
  <2> QED BY <1>0, <2>2, <2>3, <2>4 DEF TypeOK
<1>4. CASE ApiStep
  BY <1>0, <1>4 DEF ApiStep, CommitScene, StopCommit, StopPublish, taskVars
<1>5. CASE UserStep
  BY <1>0, <1>5 DEF UserStep, SendScene, StopCheck, RequestRetry, taskVars
<1>6. ASSUME NEW p \in Procs, Crash(p) PROVE tpc'[<<m, q>>] = "none"
  BY <1>0, <1>6 DEF Crash, taskVars
<1> QED BY <1>1, <1>2, <1>3, <1>4, <1>5, <1>6 DEF Next, Fault

-------------------------------------------------------------------------------
(* What is needed to say that a scene is still before its verdict. *)
Early == scene = "pending" \/ pc[Scheduler] \in AtWork \cup {"begin"}

(* A scheduler that starts finds a pending scene. *)
LEMMA EarlyStays == ASSUME TypeOK, VerdictsReady, Next, Early' PROVE Early
<1> USE Names, GotoFacts DEF Early, AtWork
<1>1. CASE SchedulerStep
  BY <1>1 DEF SchedulerStep, CheckScene, BeginScene, CommitRaises, InitProgress, CancelRemaining,
     Publish, MarkFailed, sceneVars
<1>2. ASSUME NEW p \in Procs, ProcStep(p) PROVE Early
  <2>1. CASE BeginRetry(p) BY <2>1 DEF BeginRetry, CommitRaises
  <2>2. ASSUME NEW n \in Nodes, SendNode(p, n) \/ MarkRunning(p, n) \/ CaseMissing(p, n)
        PROVE  Early
    BY <2>2 DEF SendNode, MarkRunning, CaseMissing, procVars, sceneVars
  <2>3. CASE CommitNodes(p) BY <2>3 DEF CommitNodes
  <2>4. CASE Poll(p) BY <2>4 DEF Poll, sceneVars
  <2>5. CASE Collect(p) BY <2>5 DEF Collect, sceneVars
  <2>6. CASE Finalize(p) BY <2>6 DEF Finalize, VerdictsReady
  <2>7. CASE Raise(p) BY <2>7 DEF Raise, sceneVars
  <2> QED BY <1>2, <2>1, <2>2, <2>3, <2>4, <2>5, <2>6, <2>7 DEF ProcStep
<1>3. ASSUME NEW t \in Tasks, TaskStep(t) PROVE Early
  BY <1>3 DEF TaskStep, StartTask, RunTask, WriteRow, WriteProgress, Kill, procVars,
     sceneVars
<1>4. CASE ApiStep
  BY <1>4 DEF ApiStep, CommitScene, StopCommit, StopPublish, procVars
<1>5. CASE UserStep
  BY <1>5 DEF UserStep, SendScene, StopCheck, RequestRetry, procVars, sceneVars
<1>6. ASSUME NEW p \in Procs, Crash(p) PROVE Early
  BY <1>6 DEF Crash, sceneVars, TypeOK
<1>7. ASSUME NEW t \in Tasks, TaskCrash(t) PROVE Early
  BY <1>7 DEF TaskCrash, procVars, sceneVars
<1> QED BY <1>1, <1>2, <1>3, <1>4, <1>5, <1>6, <1>7 DEF Next, Fault

(* Without stops and retries, what can happen is the scheduler's or its     *)
(* tasks'.                                                                  *)
NodeTask(t) == StartTask(t) \/ RunTask(t) \/ WriteRow(t) \/ WriteProgress(t) \/ TaskCrash(t)
LEMMA SceneSteps ==
  ASSUME TypeOK, Unstopped, RetryTasks, Idle, Next, NotStopped'
  PROVE  \/ SchedulerStep
         \/ ProcStep(Scheduler)
         \/ \E n \in Nodes : NodeTask(First(n))
         \/ CommitScene
         \/ SendScene
         \/ \E p \in Retries : RequestRetry(p)
         \/ Crash(Scheduler)
<1>0. ~StopCheck /\ stop = NoStop /\ revoked = {} BY CountStep DEF Unstopped
<1>1. ASSUME NEW p \in Procs, ProcStep(p) \/ Crash(p) PROVE p = Scheduler
  <2>1. pc[p] # "idle"
    BY <1>1 DEF ProcStep, BeginRetry, CommitRaises, SendNode, MarkRunning, CaseMissing, NextNode,
       CommitNodes, Poll, Collect, Finalize, Raise, Crash
  <2> QED BY <2>1, Names DEF Idle
<1>2. ASSUME NEW t \in Tasks, TaskStep(t) \/ TaskCrash(t)
      PROVE  \E n \in Nodes : NodeTask(First(n))
  <2>1. NodeTask(t) BY <1>0, <1>2 DEF TaskStep, NodeTask, Kill
  <2>2. tpc[t] # "none"
    BY <2>1 DEF NodeTask, StartTask, RunTask, WriteRow, WriteProgress, TaskCrash
  <2>3. t[1] \in Nodes /\ t = <<t[1], t[2]>> /\ (t[2] = Scheduler \/ t[2] \in Retries)
    BY TaskNames, Names
  <2>4. t = First(t[1]) BY <2>2, <2>3 DEF RetryTasks, Idle, First
  <2> QED BY <2>1, <2>3, <2>4
<1>3. ~StopCommit /\ ~StopPublish BY <1>0 DEF StopCommit, StopPublish, NoStop
<1> QED BY <1>0, <1>1, <1>2, <1>3 DEF Next, ApiStep, UserStep, Fault

(* Before the verdict the scheduler has the scene to itself, and it begins  *)
(* with the first layer.                                                    *)
LEMMA PhasesStep ==
  ASSUME TypeOK, VerdictsReady, Unstopped, RetryTasks, Phases, Next
  PROVE  Phases'
<1> SUFFICES ASSUME NotStopped', Early' PROVE (Starting /\ Fresh /\ Working /\ OwnNodes)'
  BY DEF Phases, Early, Starting, Fresh, Working, OwnNodes, AtWork
<1>0. Starting /\ Fresh /\ Working /\ OwnNodes BY CountStep DEF Phases
<1>a. Early BY EarlyStays
<1>b. Idle /\ scene \in {"pending", "running"}
  BY <1>0, <1>a DEF Early, Starting, Fresh, Working
<1>c. Idle' BY <1>b, IdleStep
<1> USE Names, GotoFacts DEF Starting, Fresh, Working, OwnNodes, Untouched, AtWork
<1>1. CASE SchedulerStep
  <2>1. CASE CheckScene BY <1>0, <1>c, <2>1 DEF CheckScene, sceneVars, taskVars
  <2>2. CASE BeginScene BY <1>0, <1>c, <2>2 DEF BeginScene, CommitRaises, taskVars
  <2>3. CASE InitProgress
    BY <1>0, <1>c, <2>3 DEF InitProgress, taskVars, LayerOf, TypeOK
  <2>4. CASE CancelRemaining BY <1>0, <1>c, <2>4 DEF CancelRemaining, taskVars
  <2>5. CASE Publish BY <1>0, <1>c, <2>5 DEF Publish, sceneVars, taskVars
  <2>6. CASE MarkFailed BY <1>0, <1>c, <2>6 DEF MarkFailed, CommitRaises, taskVars
  <2> QED BY <1>1, <2>1, <2>2, <2>3, <2>4, <2>5, <2>6 DEF SchedulerStep
<1>2. CASE ProcStep(Scheduler)
  <2>1. ASSUME NEW n \in Nodes, SendNode(Scheduler, n)
        PROVE  (Starting /\ Fresh /\ Working /\ OwnNodes)'
    BY <1>0, <1>c, <2>1 DEF SendNode, NextNode, sceneVars, procVars
  <2>2. ASSUME NEW n \in Nodes, MarkRunning(Scheduler, n) \/ CaseMissing(Scheduler, n)
        PROVE  (Starting /\ Fresh /\ Working /\ OwnNodes)'
    BY <1>0, <1>c, <2>2 DEF MarkRunning, CaseMissing, NextNode, taskVars, LayerOf, TypeOK
  <2>3. CASE CommitNodes(Scheduler)
    BY <1>0, <1>c, <2>3 DEF CommitNodes, LayerOf, TypeOK
  <2>4. CASE Poll(Scheduler)
    BY <1>0, <1>c, <2>4 DEF Poll, LayerOf, TypeOK, sceneVars, taskVars
  <2>5. CASE Collect(Scheduler)
    BY <1>0, <1>c, <2>5 DEF Collect, LayerOf, TypeOK, sceneVars, taskVars
  <2>6. CASE Finalize(Scheduler)
    BY <1>0, <1>c, <2>6 DEF Finalize, VerdictsReady, taskVars
  <2>7. CASE Raise(Scheduler)
    BY <1>0, <1>c, <2>7 DEF Raise, sceneVars, taskVars
  <2> QED
    BY <1>2, <2>1, <2>2, <2>3, <2>4, <2>5, <2>6, <2>7 DEF ProcStep, BeginRetry, CommitRaises
<1>3. ASSUME NEW n \in Nodes, NodeTask(First(n))
      PROVE  (Starting /\ Fresh /\ Working /\ OwnNodes)'
  <2>1. UNCHANGED <<scene, pc, layer, todo>>
    BY <1>3 DEF NodeTask, StartTask, RunTask, WriteRow, WriteProgress, TaskCrash,
       sceneVars, procVars
  <2>2. tpc[First(n)] # "none"
    BY <1>3 DEF NodeTask, StartTask, RunTask, WriteRow, WriteProgress, TaskCrash
  <2> QED BY <1>0, <1>c, <2>1, <2>2 DEF LayerOf
<1>4. CASE CommitScene BY <1>0, <1>c, <1>4 DEF CommitScene, procVars, taskVars, LayerOf
<1>5. CASE SendScene BY <1>0, <1>c, <1>5 DEF SendScene, sceneVars, taskVars, LayerOf
<1>6. ASSUME NEW p \in Retries, RequestRetry(p) PROVE FALSE
  BY <1>b, <1>6 DEF RequestRetry
<1>7. CASE Crash(Scheduler)
  BY <1>0, <1>c, <1>7 DEF Crash, sceneVars, taskVars, TypeOK
<1> QED BY <1>b, <1>1, <1>2, <1>3, <1>4, <1>5, <1>6, <1>7, SceneSteps

-------------------------------------------------------------------------------
(* What a node of a layer that was waited for has come to. *)
LEMMA LayerDone ==
  ASSUME TypeOK, Phases, NodesGood, NotStopped, pc[Scheduler] = "collect",
         NEW n \in Nodes, Layer[n] <= layer
  PROVE  /\ prog[n] = "final"
         /\ PassedOver(n)
         /\ Reported(n)
         /\ tpc[First(n)] \in {"none", "over"}
<1>1. Idle /\ todo[Scheduler] = {} BY DEF Phases, Working, OwnNodes, AtWork
<1>2. Good(n) BY <1>1 DEF NodesGood
<1>3. Layer[n] < layer \/ Layer[n] = layer BY LayersAssumption DEF TypeOK
<1>4. prog[n] = "final" /\ PassedOver(n) BY <1>1, <1>2, <1>3 DEF Good, Awaited, Behind
<1> QED BY <1>2, <1>4 DEF Good, Reported

LEMMA LayersFrame ==
  ASSUME NEW n \in Nodes, Begun(n) /\ Closed(n), UNCHANGED layer,
         tpc'[First(n)] = tpc[First(n)], res'[First(n)] = res[First(n)]
  PROVE  (Begun(n) /\ Closed(n))'
BY DEF Begun, Closed

(* A layer is closed when all of its nodes have reported, and only if none  *)
(* of them calls for an abort is there a next one.                          *)
LEMMA LayersStep ==
  ASSUME TypeOK, Unstopped, Phases, Layers, NodesGood, Next
  PROVE  Layers'
<1> SUFFICES ASSUME NotStopped', NEW n \in Nodes PROVE (Begun(n) /\ Closed(n))'
  BY DEF Layers
<1>0. NotStopped /\ revoked = {} /\ Begun(n) /\ Closed(n) /\ ~StopCheck
  BY CountStep DEF Layers, Unstopped
<1>a. /\ First(n) \in Tasks
      /\ \A m \in Nodes, p \in Procs : First(n) = <<m, p>> => m = n /\ p = Scheduler
  BY TaskNames DEF First
<1> USE Names, GotoFacts, LayersFrame, TaskNames
<1>1. CASE SchedulerStep
  BY <1>0, <1>1 DEF SchedulerStep, CheckScene, BeginScene, CommitRaises, InitProgress,
     CancelRemaining, Publish, MarkFailed, taskVars
<1>2. ASSUME NEW p \in Procs, ProcStep(p) PROVE (Begun(n) /\ Closed(n))'
  <2>1. ASSUME NEW m \in Nodes, SendNode(p, m) \/ CaseMissing(p, m)
        PROVE  (Begun(n) /\ Closed(n))'
    <3>1. UNCHANGED layer BY <2>1 DEF SendNode, CaseMissing, procVars
    <3>2. CASE m = n /\ p = Scheduler
      <4>1. Layer[n] = layer
        BY <1>0, <2>1, <3>2 DEF SendNode, CaseMissing, NextNode, Phases, OwnNodes, LayerOf
      <4>2. Layer[n] \in Int BY LayersAssumption
      <4> QED BY <3>1, <4>1, <4>2 DEF Begun, Closed
    <3>3. CASE <<m, p>> # First(n)
      <4>1. tpc'[First(n)] = tpc[First(n)] /\ res'[First(n)] = res[First(n)]
        BY <1>a, <2>1, <3>3 DEF SendNode, CaseMissing, TypeOK
      <4> QED BY <1>0, <3>1, <4>1
    <3> QED BY <3>2, <3>3 DEF First
  <2>2. ASSUME NEW m \in Nodes, MarkRunning(p, m) PROVE (Begun(n) /\ Closed(n))'
    BY <1>0, <2>2 DEF MarkRunning, taskVars
  <2>3. CASE BeginRetry(p) \/ CommitNodes(p) \/ Poll(p) \/ Finalize(p) \/ Raise(p)
    BY <1>0, <2>3 DEF BeginRetry, CommitRaises, CommitNodes, Poll, Finalize, Raise, taskVars
  <2>4. CASE Collect(p)
    <3>1. CASE UNCHANGED layer BY <1>0, <2>4, <3>1 DEF Collect, taskVars
    <3>2. CASE p = Scheduler /\ AbortNodes = {} /\ layer' = layer + 1
      <4>1. UNCHANGED <<tpc, res>> BY <2>4 DEF Collect, taskVars
      <4>2. Layer[n] \in Int /\ layer \in Int BY LayersAssumption DEF TypeOK
      <4>3. CASE Layer[n] > layer BY <1>0, <3>2, <4>1, <4>2, <4>3 DEF Begun, Closed
      <4>4. CASE Layer[n] < layer BY <1>0, <3>2, <4>1, <4>2, <4>4 DEF Begun, Closed
      <4>5. CASE Layer[n] = layer
        <5>1. /\ prog[n] = "final" /\ PassedOver(n) /\ Reported(n)
              /\ tpc[First(n)] \in {"none", "over"}
          BY <1>0, <2>4, <3>2, <4>2, <4>5, LayerDone DEF Collect
        <5>2. n \in AbortOnFail => row[n] # "failed"
          BY <3>2, <4>5 DEF AbortNodes, LayerOf
        <5>3. n \in AbortOnFail => res[First(n)] \notin Spoiled
          BY <5>1, <5>2 DEF PassedOver, Reported, Spoiled
        <5> QED BY <3>2, <4>1, <4>2, <4>5, <5>1, <5>3 DEF Begun, Closed
      <4> QED BY <4>2, <4>3, <4>4, <4>5
    <3> QED BY <2>4, <3>1, <3>2 DEF Collect
  <2> QED BY <1>2, <2>1, <2>2, <2>3, <2>4 DEF ProcStep
<1>3. ASSUME NEW t \in Tasks, TaskStep(t) \/ TaskCrash(t) PROVE (Begun(n) /\ Closed(n))'
  <2>1. UNCHANGED layer
    BY <1>3 DEF TaskStep, StartTask, RunTask, WriteRow, WriteProgress, Kill, TaskCrash,
       procVars
  <2>2. tpc[t] \notin {"none", "over"}
    BY <1>0, <1>3 DEF TaskStep, StartTask, RunTask, WriteRow, WriteProgress, Kill, TaskCrash
  <2>3. CASE t = First(n)
    <3>1. Layer[n] <= layer /\ ~(Layer[n] < layer) BY <1>0, <2>2, <2>3 DEF Begun, Closed
    <3> QED BY <2>1, <3>1 DEF Begun, Closed
  <2>4. CASE t # First(n)
    <3>1. tpc'[First(n)] = tpc[First(n)] /\ res'[First(n)] = res[First(n)]
      BY <1>a, <1>3, <2>4 DEF TaskStep, StartTask, RunTask, WriteRow, WriteProgress, Kill,
         TaskCrash, TaskGoto, TypeOK
    <3> QED BY <1>0, <2>1, <3>1
  <2> QED BY <2>3, <2>4
<1>4. CASE ApiStep
  BY <1>0, <1>4 DEF ApiStep, CommitScene, StopCommit, StopPublish, procVars, taskVars
<1>5. CASE UserStep
  BY <1>0, <1>5 DEF UserStep, SendScene, RequestRetry, procVars, taskVars
<1>6. ASSUME NEW p \in Procs, Crash(p) PROVE (Begun(n) /\ Closed(n))'
  BY <1>0, <1>6 DEF Crash, taskVars
<1> QED BY <1>1, <1>2, <1>3, <1>4, <1>5, <1>6 DEF Next, Fault

-------------------------------------------------------------------------------
(* A node nothing of which changes, while the scheduler stays where it is   *)
(* or is done with the node.                                                *)
LEMMA NodeFrame ==
  ASSUME NEW n \in Nodes, Good(n), UNCHANGED layer,
         prog'[n] = prog[n], row'[n] = row[n], tpc'[First(n)] = tpc[First(n)],
         tstat'[First(n)] = tstat[First(n)], res'[First(n)] = res[First(n)],
         \/ pc'[Scheduler] = pc[Scheduler]
            /\ (n \in todo'[Scheduler] <=> n \in todo[Scheduler])
         \/ pc'[Scheduler] \notin {"submit", "wait", "collect", "cancel"}
  PROVE  Good(n)'
<1>1. Reported(n)' BY DEF Good, Reported
<1>2. Ahead(n)' BY DEF Good, Ahead
<1>3. Submitted(n)' BY DEF Good, Submitted
<1>4. Awaited(n)' BY DEF Good, Awaited, PassedOver
<1>5. Behind(n)' BY DEF Good, Behind, PassedOver
<1> QED BY <1>1, <1>2, <1>3, <1>4, <1>5 DEF Good

(* The worker of a node changes what the node reports, not where it stands. *)
LEMMA WorkerFrame ==
  ASSUME TypeOK, NEW n \in Nodes, Good(n), Begun(n), Reported(n)', UNCHANGED <<layer, pc, todo>>,
         tpc[First(n)] # "none", tpc'[First(n)] # "none",
         tstat'[First(n)] = "absent" <=> tstat[First(n)] = "absent",
         prog'[n] \in {prog[n], "final"}
  PROVE  Good(n)'
<1>0. ~(Layer[n] > layer)
  <2>1. Layer[n] <= layer BY DEF Begun
  <2> QED BY <2>1, LayersAssumption DEF TypeOK
<1>2. Ahead(n)' BY <1>0 DEF Ahead
<1>3. Submitted(n)' BY DEF Good, Submitted
<1>4. Awaited(n)' BY DEF Good, Awaited, PassedOver
<1>5. Behind(n)' BY DEF Good, Behind, PassedOver
<1> QED BY <1>2, <1>3, <1>4, <1>5 DEF Good

(* A step of a node's worker. *)
LEMMA NodesWorker ==
  ASSUME TypeOK, NEW n \in Nodes, Good(n), Begun(n), NEW m \in Nodes, NodeTask(First(m))
  PROVE  Good(n)'
<1> DEFINE t == First(m)
<1>0. t \in Tasks /\ First(n) \in Tasks /\ t[1] = m BY TaskNames
<1>1. UNCHANGED <<pc, layer, todo>>
  BY DEF NodeTask, StartTask, RunTask, WriteRow, WriteProgress, TaskCrash, procVars
<1>2. CASE m # n
  <2>1. First(n) # t BY <1>2 DEF First
  <2>2. /\ tpc'[First(n)] = tpc[First(n)] /\ tstat'[First(n)] = tstat[First(n)]
        /\ res'[First(n)] = res[First(n)]
    BY <1>0, <2>1 DEF NodeTask, StartTask, RunTask, WriteRow, WriteProgress, TaskCrash,
       TaskGoto, TypeOK
  <2>3. prog'[n] = prog[n] /\ row'[n] = row[n]
    BY <1>0, <1>2 DEF NodeTask, StartTask, RunTask, WriteRow, WriteProgress, TaskCrash,
       sceneVars, TypeOK
  <2> QED BY <1>1, <2>2, <2>3, NodeFrame
<1>3. CASE m = n
  <2> USE <1>0, <1>1, <1>3, WorkerFrame
  <2>0. Reported(n) BY DEF Good
  <2>1. CASE StartTask(t)
    <3>1. Reported(n)'
      BY <2>0, <2>1 DEF StartTask, TaskGoto, Reported, sceneVars, TypeOK, Told
    <3> QED BY <2>1, <3>1 DEF StartTask, TaskGoto, sceneVars, TypeOK
  <2>2. CASE RunTask(t)
    <3>1. Reported(n)'
      BY <2>0, <2>2 DEF RunTask, TaskGoto, Reported, sceneVars, TypeOK, Told
    <3> QED BY <2>0, <2>2, <3>1 DEF RunTask, TaskGoto, sceneVars, TypeOK, Reported
  <2>3. CASE WriteRow(t)
    <3>1. Reported(n)'
      BY <2>0, <2>3 DEF WriteRow, TaskGoto, Reported, TypeOK, Told
    <3> QED BY <2>3, <3>1 DEF WriteRow, TaskGoto, TypeOK
  <2>4. CASE WriteProgress(t)
    <3>1. Reported(n)'
      BY <2>0, <2>4 DEF WriteProgress, TaskGoto, Reported, TypeOK, Told
    <3> QED BY <2>4, <3>1 DEF WriteProgress, TaskGoto, TypeOK
  <2>5. CASE TaskCrash(t)
    <3>1. Reported(n)'
      BY <2>0, <2>5 DEF TaskCrash, TaskGoto, Reported, sceneVars, TypeOK, Told
    <3> QED BY <2>5, <3>1 DEF TaskCrash, TaskGoto, sceneVars, TypeOK
  <2> QED BY <2>1, <2>2, <2>3, <2>4, <2>5 DEF NodeTask
<1> QED BY <1>2, <1>3

(* A step of the scheduler alone. *)
LEMMA NodesScheduler ==
  ASSUME TypeOK, Phases, Layers, NotStopped, NEW n \in Nodes, Good(n), SchedulerStep
  PROVE  Good(n)'
<1>0. /\ Layer[n] \in 1..NL /\ layer \in 1..NL /\ layer \in Int /\ Layer[n] \in Int
      /\ First(n) \in Tasks
  BY LayersAssumption, TaskNames DEF TypeOK
<1> USE <1>0, Names, GotoFacts
<1>1. CASE CheckScene \/ BeginScene \/ Publish \/ MarkFailed
  BY <1>1, NodeFrame DEF CheckScene, BeginScene, CommitRaises, Publish, MarkFailed, sceneVars,
     taskVars
<1>2. CASE InitProgress
  <2>1. CASE pc'[Scheduler] = "done"
    BY <1>2, <2>1, NodeFrame DEF InitProgress, taskVars
  <2>2. CASE /\ pc'[Scheduler] = "submit" /\ prog'[n] = "pending"
             /\ todo'[Scheduler] = LayerOf(1)
    <3>1. /\ layer' = 1 /\ tpc'[First(n)] = "none" /\ res'[First(n)] = "none"
          /\ tstat'[First(n)] = "absent"
      BY <1>2 DEF InitProgress, Phases, Fresh, Untouched, taskVars
    <3>2. Reported(n)' BY <2>2, <3>1 DEF Reported
    <3>3. Ahead(n)' BY <2>2, <3>1 DEF Ahead
    <3>4. Submitted(n)' BY <2>2, <3>1 DEF Submitted, LayerOf
    <3>5. Awaited(n)' BY <2>2 DEF Awaited
    <3>6. Behind(n)' BY <3>1 DEF Behind
    <3> QED BY <3>2, <3>3, <3>4, <3>5, <3>6 DEF Good
  <2> QED BY <1>2, <2>1, <2>2 DEF InitProgress, TypeOK
<1>3. CASE CancelRemaining
  <2>1. UNCHANGED <<layer, tpc, tstat, res>> /\ pc'[Scheduler] = "final"
    BY <1>3 DEF CancelRemaining, taskVars
  <2>2. CASE Layer[n] > layer
    <3>1. prog'[n] = "final" /\ row'[n] = "cancelled"
      BY <1>3, <2>2 DEF CancelRemaining, Later
    <3>2. tpc[First(n)] = "none" /\ res[First(n)] = "none"
      <4>1. ~(Layer[n] <= layer) BY <2>2
      <4> QED BY <4>1 DEF Layers, Begun
    <3>3. tstat[First(n)] = "absent" BY <1>3, <2>2 DEF CancelRemaining, Good, Ahead
    <3>4. Reported(n)' BY <2>1, <3>1, <3>2, <3>3 DEF Reported
    <3>5. ~(Layer[n] < layer) BY <2>2
    <3> QED BY <2>1, <3>4, <3>5 DEF Good, Ahead, Submitted, Awaited, Behind
  <2>3. CASE ~(Layer[n] > layer)
    <3>1. prog'[n] = prog[n] /\ row'[n] = row[n] BY <1>3, <2>3 DEF CancelRemaining, Later
    <3> QED BY <2>1, <3>1, NodeFrame
  <2> QED BY <2>2, <2>3
<1> QED BY <1>1, <1>2, <1>3 DEF SchedulerStep

(* The scheduler submits, awaits and collects a layer. *)
LEMMA NodesProc ==
  ASSUME TypeOK, Phases, Layers, NodesGood, NotStopped, Idle, NEW n \in Nodes,
         ProcStep(Scheduler)
  PROVE  Good(n)'
<1>0. /\ Layer[n] \in 1..NL /\ layer \in 1..NL /\ layer \in Int /\ Layer[n] \in Int
      /\ First(n) \in Tasks /\ Good(n)
  BY LayersAssumption, TaskNames DEF TypeOK, NodesGood
<1> USE <1>0, Names, GotoFacts
<1>1. ASSUME NEW m \in Nodes, m # n,
             SendNode(Scheduler, m) \/ MarkRunning(Scheduler, m) \/ CaseMissing(Scheduler, m)
      PROVE  Good(n)'
  <2>1. First(m) # First(n) BY <1>1 DEF First
  <2>2. /\ tpc'[First(n)] = tpc[First(n)] /\ tstat'[First(n)] = tstat[First(n)]
        /\ res'[First(n)] = res[First(n)]
    BY <1>1, <2>1 DEF SendNode, MarkRunning, CaseMissing, First, taskVars, TypeOK
  <2>3. prog'[n] = prog[n] /\ row'[n] = row[n]
    BY <1>1 DEF SendNode, MarkRunning, CaseMissing, sceneVars, TypeOK
  <2>4. UNCHANGED <<layer, pc>> /\ (n \in todo'[Scheduler] <=> n \in todo[Scheduler])
    BY <1>1 DEF SendNode, MarkRunning, CaseMissing, procVars, TypeOK
  <2> QED BY <2>2, <2>3, <2>4, NodeFrame
<1>2. ASSUME SendNode(Scheduler, n) \/ MarkRunning(Scheduler, n) \/ CaseMissing(Scheduler, n)
      PROVE  Good(n)'
  <2>1. pc[Scheduler] = "submit" /\ n \in todo[Scheduler] /\ UNCHANGED <<layer, pc>>
    BY <1>2 DEF SendNode, MarkRunning, CaseMissing, NextNode, procVars
  <2>2. Layer[n] = layer BY <2>1 DEF Phases, OwnNodes, LayerOf
  <2>3. Ahead(n)' /\ Awaited(n)' /\ Behind(n)'
    BY <2>1, <2>2 DEF Ahead, Awaited, Behind
  <2>4. Submitted(n) /\ Reported(n) BY DEF Good
  <2>5. Submitted(n)'
    BY <1>2, <2>1, <2>2, <2>4 DEF SendNode, MarkRunning, CaseMissing, Submitted, First,
       sceneVars, procVars, taskVars, TypeOK
  <2>6. Reported(n)'
    <3>1. CASE SendNode(Scheduler, n)
      BY <2>1, <2>2, <2>4, <3>1 DEF SendNode, Submitted, Reported, First, sceneVars, TypeOK
    <3>2. CASE MarkRunning(Scheduler, n)
      BY <2>4, <3>2 DEF MarkRunning, Reported, taskVars, TypeOK
    <3>3. CASE CaseMissing(Scheduler, n)
      BY <2>1, <2>2, <2>4, <3>3 DEF CaseMissing, Submitted, Reported, First, TypeOK
    <3> QED BY <1>2, <3>1, <3>2, <3>3
  <2> QED BY <2>3, <2>5, <2>6 DEF Good
<1>3. CASE CommitNodes(Scheduler)
  <2> DEFINE sent == {m \in LayerOf(layer) : tpc[<<m, Scheduler>>] # "none"}
  <2>1. /\ pc[Scheduler] = "submit" /\ todo[Scheduler] = {} /\ pc'[Scheduler] = "wait"
        /\ UNCHANGED <<layer, prog, tpc, res>> /\ todo'[Scheduler] = LayerOf(layer)
    BY <1>3 DEF CommitNodes, TypeOK
  <2>2. /\ row'[n] = IF n \in sent THEN "running"
                     ELSE IF n \in LayerOf(layer) THEN "failed" ELSE row[n]
        /\ tstat'[First(n)] = IF n \in sent THEN "pending" ELSE tstat[First(n)]
    BY <1>3, TaskNames DEF CommitNodes, First
  <2>3. CASE Layer[n] = layer
    <3>1. n \in LayerOf(layer) /\ (n \in sent <=> tpc[First(n)] # "none")
      BY <2>3 DEF LayerOf, First
    <3>2. Submitted(n) /\ Reported(n) BY DEF Good
    <3>3. Reported(n)' BY <2>1, <2>2, <2>3, <3>1, <3>2 DEF Submitted, Reported
    <3>4. Awaited(n)' BY <2>1, <2>2, <2>3, <3>1, <3>2 DEF Submitted, Awaited, PassedOver
    <3>5. Ahead(n)' /\ Submitted(n)' /\ Behind(n)'
      BY <2>1, <2>3 DEF Ahead, Submitted, Behind
    <3> QED BY <3>3, <3>4, <3>5 DEF Good
  <2>4. CASE Layer[n] # layer
    <3>1. row'[n] = row[n] /\ tstat'[First(n)] = tstat[First(n)]
      BY <2>2, <2>4 DEF LayerOf
    <3> QED BY <2>1, <2>4, <3>1
        DEF Good, Reported, Ahead, Submitted, Awaited, Behind, PassedOver
  <2> QED BY <2>3, <2>4
<1>4. CASE Poll(Scheduler)
  <2>1. /\ UNCHANGED <<layer, prog, row, tpc, tstat, res>>
        /\ pc[Scheduler] = "wait" /\ pc'[Scheduler] \in {"wait", "collect"}
        /\ n \in todo[Scheduler] /\ n \notin todo'[Scheduler] => prog[n] = "final"
    BY <1>4 DEF Poll, sceneVars, taskVars, TypeOK
  <2> QED BY <2>1 DEF Good, Reported, Ahead, Submitted, Awaited, Behind, PassedOver
<1>5. CASE Collect(Scheduler)
  <2>1. UNCHANGED <<prog, row, tpc, tstat, res>> /\ pc[Scheduler] = "collect"
    BY <1>5 DEF Collect, sceneVars, taskVars
  <2>2. CASE UNCHANGED layer /\ pc'[Scheduler] \in {"cancel", "final"}
    BY <2>1, <2>2 DEF Good, Reported, Ahead, Submitted, Awaited, Behind, PassedOver
  <2>3. CASE /\ layer' = layer + 1 /\ pc'[Scheduler] = "submit"
             /\ todo'[Scheduler] = LayerOf(layer + 1)
    <3>1. Reported(n)' BY <2>1 DEF Good, Reported
    <3>2. Ahead(n)' BY <2>1, <2>3 DEF Good, Ahead
    <3>3. Submitted(n)'
      <4> SUFFICES ASSUME Layer[n] = layer + 1 PROVE Submitted(n)' BY <2>3 DEF Submitted
      <4>1. Layer[n] > layer /\ ~(Layer[n] <= layer) OBVIOUS
      <4>2. tpc[First(n)] = "none" /\ res[First(n)] = "none" BY <4>1 DEF Layers, Begun
      <4>3. prog[n] = "pending" /\ tstat[First(n)] = "absent"
        BY <2>1, <4>1 DEF Good, Ahead
      <4>4. n \in LayerOf(layer + 1) BY DEF LayerOf
      <4> QED BY <2>1, <2>3, <4>2, <4>3, <4>4 DEF Submitted
    <3>4. Awaited(n)' BY <2>3 DEF Awaited
    <3>5. Behind(n)'
      <4> SUFFICES ASSUME Layer[n] < layer + 1 PROVE (prog[n] = "final" /\ PassedOver(n))'
        BY <2>3 DEF Behind
      <4>1. Layer[n] <= layer OBVIOUS
      <4> QED BY <2>1, <4>1, LayerDone DEF PassedOver
    <3> QED BY <3>1, <3>2, <3>3, <3>4, <3>5 DEF Good
  <2> QED BY <1>5, <2>2, <2>3 DEF Collect, TypeOK
<1>6. CASE Finalize(Scheduler) \/ Raise(Scheduler)
  BY <1>6, NodeFrame DEF Finalize, Raise, sceneVars, taskVars
<1> QED BY <1>1, <1>2, <1>3, <1>4, <1>5, <1>6 DEF ProcStep, BeginRetry, CommitRaises

LEMMA NodesStep ==
  ASSUME TypeOK, Unstopped, RetryTasks, Phases, Layers, NodesGood, Next
  PROVE  NodesGood'
<1> SUFFICES ASSUME NotStopped', Idle', NEW n \in Nodes PROVE Good(n)' BY DEF NodesGood
<1>0. NotStopped /\ Idle BY CountStep, NeverIdleAgain, Names DEF Idle
<1>1. Good(n) /\ Begun(n) BY <1>0 DEF NodesGood, Layers
<1> USE Names, GotoFacts
<1>2. CASE CommitScene
  BY <1>1, <1>2, NodeFrame DEF CommitScene, procVars, taskVars
<1>3. CASE SendScene BY <1>1, <1>3, NodeFrame DEF SendScene, sceneVars, taskVars
<1>4. ASSUME NEW p \in Retries, RequestRetry(p) PROVE FALSE
  BY <1>4 DEF RequestRetry, Idle
<1>5. CASE Crash(Scheduler)
  BY <1>1, <1>5, NodeFrame DEF Crash, sceneVars, taskVars, TypeOK
<1> QED BY <1>0, <1>1, <1>2, <1>3, <1>4, <1>5, SceneSteps, NodesScheduler, NodesProc,
           NodesWorker

-------------------------------------------------------------------------------
(* As long as the scheduler's tasks stay as they are, so does what a        *)
(* verdict says of them.                                                    *)
LEMMA EarnedFrame ==
  ASSUME NEW v, Earned(v),
         \A n \in Nodes : tpc'[First(n)] = tpc[First(n)] /\ res'[First(n)] = res[First(n)]
  PROVE  Earned(v)'
BY DEF Earned

(* The verdict that is computed from the rows. *)
LEMMA VerdictEarnedAt ==
  ASSUME TypeOK, Phases, NodesGood, NotStopped, pc[Scheduler] = "collect", ~MoreLayers
  PROVE  Earned(Verdict(Scheduler))
<1>1. ASSUME NEW n \in Nodes
      PROVE  /\ tpc[First(n)] \in {"none", "over"}
             /\ Seen(Scheduler, n) = row[n]
             /\ res[First(n)] # "missed" =>
                  /\ row[n] \in {"success", "failed"}
                  /\ row[n] = "success" <=> res[First(n)] = "success"
  <2>1. Layer[n] <= layer
    <3>1. Layer[n] \in 1..NL /\ layer \in 1..NL BY LayersAssumption DEF TypeOK
    <3> QED BY <3>1, LayersAssumption DEF MoreLayers
  <2>2. /\ prog[n] = "final" /\ PassedOver(n) /\ Reported(n)
        /\ tpc[First(n)] \in {"none", "over"}
    BY <2>1, LayerDone
  <2> QED BY <2>2, Names DEF PassedOver, Reported, Told, Seen
<1> DEFINE v == Verdict(Scheduler)
<1>2. ASSUME \A n \in Nodes : res[First(n)] # "missed"
      PROVE  /\ v = "success" => \A n \in Nodes : res[First(n)] = "success"
             /\ v = "partial" => \E n, m \in Nodes : /\ res[First(n)] = "success"
                                                     /\ res[First(m)] # "success"
  BY <1>1, <1>2 DEF Verdict, Retryable
<1> QED BY <1>1, <1>2 DEF Earned

(* A scene with a verdict has no more tasks of its scheduler. *)
LEMMA VerdictsStep ==
  ASSUME TypeOK, VerdictsReady, Unstopped, Unretried, RetryTasks, Phases, NodesGood,
         VerdictsEarned, Next
  PROVE  VerdictsEarned'
<1> SUFFICES ASSUME NotStopped', NotRetried'
             PROVE  /\ Earned(scene)'
                    /\ pc'[Scheduler] = "final" => Earned(verdict[Scheduler])'
  BY DEF VerdictsEarned
<1>0. /\ NotStopped /\ NotRetried /\ Idle /\ Earned(scene)
      /\ pc[Scheduler] = "final" => Earned(verdict[Scheduler])
      /\ \A p \in Retries : ~RequestRetry(p)
  BY CountStep DEF VerdictsEarned, Unretried
<1>a. \A v : v \notin {"success", "partial"} => Earned(v)' BY DEF Earned
<1> USE Names, GotoFacts
<1>1. CASE SchedulerStep
  <2>1. UNCHANGED <<tpc, res>>
    BY <1>1 DEF SchedulerStep, CheckScene, BeginScene, CommitRaises, InitProgress,
       CancelRemaining,
       Publish, MarkFailed, taskVars
  <2>2. CASE CheckScene \/ InitProgress \/ Publish
    BY <1>0, <2>1, <2>2, EarnedFrame DEF CheckScene, InitProgress, Publish, sceneVars
  <2>3. CASE BeginScene \/ MarkFailed
    <3>1. pc'[Scheduler] # "final" BY <2>3 DEF BeginScene, CommitRaises, MarkFailed
    <3>2. CASE scene' = scene BY <1>0, <2>1, <3>1, <3>2, EarnedFrame
    <3>3. CASE scene' # scene
      <4>1. scene' \in {"running", "failed"}
        BY <2>3, <3>3 DEF BeginScene, CommitRaises, MarkFailed
      <4> QED BY <1>a, <3>1, <4>1
    <3> QED BY <3>2, <3>3
  <2>4. CASE CancelRemaining
    <3>1. scene' = scene /\ verdict'[Scheduler] = "failed"
      BY <2>4 DEF CancelRemaining, TypeOK
    <3> QED BY <1>0, <1>a, <2>1, <3>1, EarnedFrame
  <2> QED BY <1>1, <2>2, <2>3, <2>4 DEF SchedulerStep
<1>2. CASE ProcStep(Scheduler)
  <2>1. ASSUME NEW n \in Nodes,
               SendNode(Scheduler, n) \/ MarkRunning(Scheduler, n) \/ CaseMissing(Scheduler, n)
        PROVE  scene' = "running" /\ pc'[Scheduler] = "submit"
    BY <1>0, <2>1 DEF SendNode, MarkRunning, CaseMissing, NextNode, Phases, Working,
       AtWork, sceneVars, procVars
  <2>2. CASE CommitNodes(Scheduler) \/ Poll(Scheduler) \/ Raise(Scheduler)
    BY <1>0, <2>2, EarnedFrame DEF CommitNodes, Poll, Raise, sceneVars, taskVars
  <2>3. CASE Collect(Scheduler)
    <3>1. UNCHANGED <<scene, tpc, res>> /\ pc[Scheduler] = "collect"
      BY <2>3 DEF Collect, sceneVars, taskVars
    <3>2. ASSUME pc'[Scheduler] = "final" PROVE Earned(verdict[Scheduler])'
      <4>1. ~MoreLayers /\ verdict' = [verdict EXCEPT ![Scheduler] = Verdict(Scheduler)]
        BY <2>3, <3>2 DEF Collect
      <4>2. verdict'[Scheduler] = Verdict(Scheduler) BY <4>1 DEF TypeOK
      <4>3. Earned(Verdict(Scheduler)) BY <1>0, <3>1, <4>1, VerdictEarnedAt
      <4>4. PICK v : v = Verdict(Scheduler) OBVIOUS
      <4>5. Earned(v)' BY <3>1, <4>3, <4>4, EarnedFrame
      <4> QED BY <4>2, <4>4, <4>5 DEF Earned
    <3> QED BY <1>0, <3>1, <3>2, EarnedFrame
  <2>4. CASE Finalize(Scheduler)
    <3>1. UNCHANGED <<tpc, res>> /\ scene' = verdict[Scheduler]
          /\ pc[Scheduler] = "final" /\ pc'[Scheduler] = "publish"
      BY <2>4 DEF Finalize, taskVars
    <3> QED BY <1>0, <3>1 DEF Earned
  <2> QED BY <1>2, <1>a, <2>1, <2>2, <2>3, <2>4 DEF ProcStep, BeginRetry, CommitRaises
<1>3. ASSUME NEW n \in Nodes, NodeTask(First(n))
      PROVE  /\ Earned(scene)'
             /\ pc'[Scheduler] = "final" => Earned(verdict[Scheduler])'
  <2>1. UNCHANGED <<scene, pc, verdict>>
    BY <1>3 DEF NodeTask, StartTask, RunTask, WriteRow, WriteProgress, TaskCrash,
       sceneVars, procVars
  <2>2. tpc[First(n)] \notin {"none", "over"}
    BY <1>3 DEF NodeTask, StartTask, RunTask, WriteRow, WriteProgress, TaskCrash
  <2>3. \A v : Earned(v) => v \notin {"success", "partial"} BY <2>2 DEF Earned
  <2> QED BY <1>0, <1>a, <2>1, <2>3
<1>4. CASE CommitScene
  BY <1>0, <1>4, EarnedFrame DEF CommitScene, procVars, taskVars
<1>5. CASE SendScene
  BY <1>0, <1>5, EarnedFrame DEF SendScene, sceneVars, taskVars
<1>6. CASE Crash(Scheduler)
  BY <1>0, <1>6, EarnedFrame DEF Crash, sceneVars, taskVars, TypeOK
<1> QED BY <1>0, <1>1, <1>2, <1>3, <1>4, <1>5, <1>6, SceneSteps

-------------------------------------------------------------------------------
LEMMA InitHolds == Init => IInv
<1> SUFFICES ASSUME Init PROVE IInv OBVIOUS
<1>0. TypeOK BY TypeInit
<1>1. /\ VerdictsReady /\ Served /\ Listed /\ RetryPhases /\ RetryTasks
      /\ Unstopped /\ Unretried
  <2>1. \A p \in Procs : pc[p] = "idle" /\ verdict[p] = "pending"
    BY DEF Init
  <2>2. VerdictsReady /\ Served /\ RetryPhases /\ Unretried /\ Unstopped
    BY <2>1, Names DEF Init, VerdictsReady, Served, RetryPhases, Unretried, Unstopped, Idle
  <2>3. RetryTasks BY TaskNames, Names DEF Init, RetryTasks
  <2>4. Listed BY <2>1, Names, LayersAssumption DEF Init, Listed
  <2> QED BY <2>2, <2>3, <2>4
<1>2. Untouched /\ Idle /\ pc[Scheduler] = "idle"
  BY TaskNames, Names DEF Init, Untouched, Idle
<1>3. Phases
  BY <1>2 DEF Init, Phases, Starting, Fresh, Working, OwnNodes, AtWork
<1>4. ASSUME NEW n \in Nodes PROVE Begun(n) /\ Closed(n) /\ Good(n)
  <2>1. ~(Layer[n] < layer) BY LayersAssumption DEF Init
  <2>2. Begun(n) /\ Closed(n) BY <1>2, <2>1 DEF Begun, Closed, Untouched
  <2>3. prog[n] = "none" BY DEF Init
  <2>4. Reported(n) BY <1>2, <2>3 DEF Reported, Untouched
  <2> QED BY <1>2, <2>1, <2>2, <2>4 DEF Good, Ahead, Submitted, Awaited, Behind
<1>5. Layers /\ NodesGood BY <1>4 DEF Layers, NodesGood
<1>6. VerdictsEarned BY <1>2 DEF Init, VerdictsEarned, Earned
<1> QED BY <1>0, <1>1, <1>3, <1>5, <1>6 DEF IInv

LEMMA StutterHolds == ASSUME IInv, UNCHANGED vars PROVE IInv'
<1>1. TypeOK' BY TypeNext DEF IInv
<1>2. UNCHANGED <<visible, scene, row, current, prog, pc, layer, asked, todo, verdict,
                  tpc, tstat, res, revoked, stop, count, lost>>
  BY DEF vars, sceneVars, procVars, taskVars
<1>3. VerdictsReady' /\ Served' /\ Listed'
  BY <1>2 DEF IInv, VerdictsReady, Served, Listed, LayerOf
<1>4. Unstopped' /\ Unretried' /\ RetryPhases' /\ RetryTasks'
  BY <1>2 DEF IInv, Unstopped, Unretried, RetryPhases, RetryTasks, Idle, NotStopped,
     NotRetried
<1>5. Phases'
  BY <1>2 DEF IInv, Phases, Starting, Fresh, Working, OwnNodes, Idle, Untouched,
     NotStopped, LayerOf
<1>6. Layers' BY <1>2 DEF IInv, Layers, Begun, Closed, NotStopped
<1>7. NodesGood'
  BY <1>2 DEF IInv, NodesGood, Idle, NotStopped, Good, Reported, Ahead, Submitted, Awaited,
     Behind, PassedOver
<1>8. VerdictsEarned' BY <1>2 DEF IInv, VerdictsEarned, Earned, NotStopped, NotRetried
<1> QED BY <1>1, <1>3, <1>4, <1>5, <1>6, <1>7, <1>8 DEF IInv

LEMMA StepHolds == IInv /\ [Next]_vars => IInv'
<1> SUFFICES ASSUME IInv, Next PROVE IInv' BY StutterHolds
<1> USE DEF IInv
<1>1. TypeOK' BY TypeNext
<1>2. VerdictsReady' /\ Served' /\ Listed' BY ReadyStep, ServedStep, ListedStep
<1>3. Unstopped' /\ Unretried' /\ RetryPhases' /\ RetryTasks'
  BY UnstoppedStep, UnretriedStep, RetryPhasesStep, RetryTasksStep
<1>4. Phases' /\ Layers' /\ NodesGood' BY PhasesStep, LayersStep, NodesStep
<1>5. VerdictsEarned' BY VerdictsStep
<1> QED BY <1>1, <1>2, <1>3, <1>4, <1>5

(* The scene, its nodes and their tasks keep what is said of them above:    *)
(* the strengthening every theorem below rests on.                          *)
THEOREM Invariant == Spec => []IInv
BY InitHolds, StepHolds, PTL DEF Spec

(* The state keeps its shape, whatever is requested and crashes: layers are *)
(* those of the scene, and verdicts statuses of it.                         *)
THEOREM SceneTypesHold == Spec => []TypeOK
<1>1. IInv => TypeOK BY DEF IInv
<1> QED BY <1>1, Invariant, PTL

(* The wait of scene_executor for a layer (_wait_for_layer_completion) is a *)
(* barrier: no node is started before the layers before it are over, unless *)
(* somebody stops the scene.                                                *)
THEOREM LayersAreBarriers == Spec => []LayerBarrier
<1>1. IInv => LayerBarrier
  <2> SUFFICES ASSUME IInv, NotStopped, NEW m \in Nodes, NEW n \in Nodes,
                      Layer[m] < Layer[n], tpc[First(n)] # "none"
               PROVE  tpc[First(m)] \in {"none", "over"}
    BY DEF LayerBarrier
  <2>1. Layer[n] <= layer BY DEF IInv, Layers, Begun
  <2>2. Layer[m] < layer BY <2>1, LayersAssumption DEF IInv, TypeOK
  <2> QED BY <2>2 DEF IInv, Layers, Closed
<1> QED BY <1>1, Invariant, PTL

(* A node with the strategy "abort" that did not succeed keeps every node   *)
(* of the later layers from starting (_collect_abort_nodes).                *)
THEOREM StrategyIsHonoured == Spec => []StrategyHonoured
<1>1. IInv => StrategyHonoured
  <2> SUFFICES ASSUME IInv, NEW m \in AbortOnFail, NEW n \in Nodes, NotStopped,
                      Layer[m] < Layer[n], res[First(m)] \in Spoiled
               PROVE  tpc[First(n)] = "none"
    BY DEF StrategyHonoured, Spoiled
  <2> SUFFICES ASSUME tpc[First(n)] # "none" PROVE FALSE OBVIOUS
  <2>1. m \in Nodes BY LayersAssumption
  <2>2. Layer[n] <= layer BY DEF IInv, Layers, Begun
  <2>3. Layer[m] < layer BY <2>1, <2>2, LayersAssumption DEF IInv, TypeOK
  <2> QED BY <2>1, <2>3 DEF IInv, Layers, Closed
<1> QED BY <1>1, Invariant, PTL

(* A verdict the scheduler commits (_finalize_scene) is what its nodes came *)
(* to, none of them is at work, and all of them have a row.                 *)
THEOREM VerdictsAreTrue == Spec => []VerdictTrue
<1>1. IInv => VerdictTrue
  <2>1. IInv => VerdictEarned BY DEF IInv, VerdictsEarned, Earned, VerdictEarned
  <2>2. IInv => EveryNodeListed BY DEF IInv, Listed, EveryNodeListed
  <2> QED BY <2>1, <2>2 DEF VerdictTrue
<1> QED BY <1>1, Invariant, PTL

(* A running scene has a scheduler or a retry that will give it a verdict,  *)
(* unless one died or was left by an exception.                             *)
THEOREM RunningScenesAreServed == Spec => []RunningIsServed
<1>1. IInv => RunningIsServed BY DEF IInv, Served, Responsible, RunningIsServed
<1> QED BY <1>1, Invariant, PTL
================================================================================
