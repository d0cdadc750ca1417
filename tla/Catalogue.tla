------------------------------ MODULE Catalogue ------------------------------
(***************************************************************************)
(* Catalogue: what users keep - cases, folders, scenes, data sources - and *)
(* the requests that create, rename, copy, move, delete and execute them   *)
(* (services/case_service.py, scene_service.py, engine_service.py,         *)
(* datasource_service.py).                                                 *)
(*                                                                         *)
(* Every request has one database session.  Its reads see the snapshot of  *)
(* its first read, taken while the caller is authenticated, so reading and *)
(* checking is one step; its writes and its commit are another, on the     *)
(* database as it is by then, and change only the columns assigned.  Only  *)
(* an execution does something in between: it sends its messages.          *)
(*                                                                         *)
(* A request is overtaken (stale) when another one commits between its two *)
(* steps.  A row remembers in "late" which of its columns were last        *)
(* written by an overtaken request: the database itself holds none of      *)
(* these rules except the unique (group, name) of a folder.                *)
(*                                                                         *)
(* A case or scene with is_deleted = 1 is no row here: its id is never used *)
(* again, and nothing but the history of its executions reads it.          *)
(***************************************************************************)
EXTENDS Integers, Sequences, FiniteSets

CONSTANTS Clients,    \* requests that may be under way at a time
          Users, Groups, AdminGroup, GroupOf,
          Names,
          Cases, Folders, Scenes, Sources, Jobs,  \* ids of rows
          Pools,      \* who acts, which ids may be handed out, which sources deleted
          MaxBatch,   \* bound on the items of a batch execution
          MaxFaults,  \* bound on executions rolled back after a message was sent
          None        \* NULL: no row, no folder, no request

ASSUME GroupsAssumption ==
  /\ AdminGroup \in Groups
  /\ GroupOf \in [Users -> Groups]

ASSUME IdsAssumption ==
  /\ \A p \in Pools :
       /\ p.users \subseteq Users
       /\ p.ids \subseteq Cases \cup Folders \cup Scenes \cup Jobs
       /\ p.sources \subseteq Sources
  /\ None \notin Cases \cup Folders \cup Scenes \cup Sources \cup Jobs
  /\ MaxBatch \in Nat /\ MaxFaults \in Nat

VARIABLES
  db,      \* the committed rows of each table, None where there is no row
  pool,     \* the users whose requests are considered; never changes
  free,    \* ids not handed out yet
  req,     \* what a request that passed its checks is about to write, or None
  stale,   \* a request committed since this one took its snapshot
  queue,   \* the broker: ids of jobs (task or scene execution) to be run
  outrun,  \* jobs whose message a worker took before their row was committed
  hurried, \* data sources deleted by an overtaken request
  faults

vars == <<db, pool, free, req, stale, queue, outrun, hurried, faults>>

Tables == {"cases", "folders", "scenes", "sources", "jobs"}

Ids == [cases |-> Cases, folders |-> Folders, scenes |-> Scenes,
        sources |-> Sources, jobs |-> Jobs]

Aspects == {"name", "folder", "source"}

CaseRows ==
  [name : Names, ds : Sources, group : Groups, folder : Folders \cup {None},
   late : SUBSET Aspects]

SceneRows ==
  [name : Names, group : Groups, nodes : SUBSET Cases, late : SUBSET Aspects]

FolderRows == [name : Names, group : Groups]

SourceRows == [group : Groups]

JobRows ==
  [ds : Sources \cup {None}, mates : SUBSET Jobs, want : Nat,
   status : {"pending", "running", "done"}, late : BOOLEAN]

ASSUME RowsAssumption ==
  /\ None \notin CaseRows \cup SceneRows \cup FolderRows \cup SourceRows \cup JobRows
  /\ IsFiniteSet(Cases)

Init ==
  /\ db = [cases   |-> [k \in Cases |-> None],
           folders |-> [f \in Folders |-> None],
           scenes  |-> [s \in Scenes |-> None],
           sources |-> [s \in Sources |-> [group |-> AdminGroup]],
           jobs    |-> [j \in Jobs |-> None]]
  /\ \E p \in Pools : pool = p /\ free = p.ids
  /\ req = [c \in Clients |-> None]
  /\ stale = [c \in Clients |-> FALSE]
  /\ queue = {} /\ outrun = {} /\ hurried = {} /\ faults = 0

-----------------------------------------------------------------------------
(* The checks, on the snapshot.                                            *)

Exists(table, id) == db[table][id] # None

Visible(u, group) == GroupOf[u] \in {AdminGroup, group} \/ group = AdminGroup

\* get_case_checked, get_scene_checked, _get_folder_checked,
\* get_datasource_checked: a row of another group is as good as none.
Found(u, table, id) == Exists(table, id) /\ Visible(u, db[table][id].group)

CaseNameFree(ds, name, except) ==
  \A k \in Cases \ except :
    Exists("cases", k) => db.cases[k].ds # ds \/ db.cases[k].name # name

FolderNameFree(group, name, except) ==
  \A f \in Folders \ except :
    Exists("folders", f) =>
      db.folders[f].group # group \/ db.folders[f].name # name

\* The group is that of the caller, whatever the group of an edited scene.
SceneNameFree(u, name, except) ==
  \A s \in Scenes \ except :
    Exists("scenes", s) =>
      db.scenes[s].group # GroupOf[u] \/ db.scenes[s].name # name

NodesValid(u, nodes) == \A k \in nodes : Found(u, "cases", k)

\* What the checks of a new case or scene were about.
AspectsOf(row) ==
  {"name"} \cup (IF "ds" \in DOMAIN row THEN {"source"} ELSE {})
    \cup (IF "folder" \in DOMAIN row /\ row.folder # None THEN {"folder"} ELSE {})

Overtaken(c, what) == IF stale[c] THEN what ELSE {}

-----------------------------------------------------------------------------
(* Requests that read and check.                                           *)

\* The request holds what it is going to write; other requests may commit.
Ask(c, r) ==
  /\ req[c] = None
  /\ req' = [req EXCEPT ![c] = r]
  /\ stale' = [stale EXCEPT ![c] = FALSE]
  /\ UNCHANGED <<pool, db, free, queue, outrun, hurried, faults>>

Insert(table, row) == [op |-> "insert", table |-> table, row |-> row]

\* The bound on rows: no insert is asked for without an id left for it.
Room(table) == free \cap Ids[table] # {}

\* "set": the columns assigned; "renews": the rules they were checked for.
Update(table, id, set, renews, late) ==
  [op |-> "update", table |-> table, id |-> id, set |-> set,
   renews |-> renews, late |-> late]

NewCase(name, ds, group) ==
  [name |-> name, ds |-> ds, group |-> group, folder |-> None,
   late |-> {}]

SaveCase(c, u) == \E s \in Sources, n \in Names :
  /\ Room("cases")
  /\ Found(u, "sources", s) /\ CaseNameFree(s, n, {})
  /\ Ask(c, Insert("cases", NewCase(n, s, GroupOf[u])))

UpdateCaseM(c, u) == \E k \in Cases, n \in Names :
  /\ Found(u, "cases", k)
  /\ Ask(c, Update("cases", k, [name |-> n], {"name"}, {}))

UpdateCase(c, u) == \E k \in Cases, n \in Names :
  /\ Found(u, "cases", k) /\ CaseNameFree(db.cases[k].ds, n, {k})
  /\ Ask(c, Update("cases", k, [name |-> n], {"name"}, {}))

DeleteCase(c, u) == \E k \in Cases :
  /\ Found(u, "cases", k)
  /\ Ask(c, [op |-> "delete", table |-> "cases", id |-> k])

\* The copy stays in the folder and the group of its original.  Its name is the
\* one given, if free, or the first of a list of default names that is free.
CopyCase(c, u) == \E k \in Cases, n \in Names :
  LET old == db.cases[k]
  IN  /\ Room("cases")
      /\ Found(u, "cases", k) /\ CaseNameFree(old.ds, n, {})
      /\ Ask(c, Insert("cases", [old EXCEPT !.name = n, !.late = @ \ {"name"}]))

CreateFolder(c, u) == \E n \in Names :
  /\ Room("folders")
  /\ FolderNameFree(GroupOf[u], n, {})
  /\ Ask(c, Insert("folders", [name |-> n, group |-> GroupOf[u]]))

RenameFolder(c, u) == \E f \in Folders, n \in Names :
  /\ Found(u, "folders", f) /\ FolderNameFree(db.folders[f].group, n, {f})
  /\ Ask(c, Update("folders", f, [name |-> n], {}, {}))

DeleteFolder(c, u) == \E f \in Folders :
  /\ Found(u, "folders", f)
  /\ Ask(c, [op |-> "delete folder", id |-> f])

\* Considered only while there is some folder to move to or from.
MoveCases(c, u) == \E f \in Folders \cup {None}, ids \in SUBSET Cases :
  /\ ids # {} /\ \A k \in ids : Found(u, "cases", k)
  /\ \E g \in Folders : Exists("folders", g)
  /\ f # None => Found(u, "folders", f)
  /\ Ask(c, [op |-> "move", ids |-> ids, folder |-> f])

CreateScene(c, u) == \E n \in Names, nodes \in SUBSET Cases \ {{}} :
  /\ Room("scenes")
  /\ SceneNameFree(u, n, {}) /\ NodesValid(u, nodes)
  /\ Ask(c, Insert("scenes", [name |-> n, group |-> GroupOf[u], nodes |-> nodes,
                              late |-> {}]))

\* "late" also marks a name that was checked against another group's scenes.
UpdateScene(c, u) ==
  \E s \in Scenes, n \in Names, nodes \in SUBSET Cases \ {{}} :
    /\ Found(u, "scenes", s)
    /\ SceneNameFree(u, n, {s}) /\ NodesValid(u, nodes)
    /\ Ask(c, Update("scenes", s, [name |-> n, nodes |-> nodes], {"name"},
                     IF db.scenes[s].group = GroupOf[u] THEN {} ELSE {"name"}))

DeleteScene(c, u) == \E s \in Scenes :
  /\ Found(u, "scenes", s)
  /\ Ask(c, [op |-> "delete", table |-> "scenes", id |-> s])

\* The name is looked for in the caller's group, the copy stays in the original's.
CopyScene(c, u) == \E s \in Scenes, n \in Names :
  LET old == db.scenes[s]
  IN  /\ Room("scenes")
      /\ Found(u, "scenes", s) /\ SceneNameFree(u, n, {})
      /\ Ask(c, Insert("scenes",
              [old EXCEPT !.name = n,
                          !.late = IF old.group = GroupOf[u] THEN {}
                                                             ELSE {"name"}]))

DeleteSourceM(c, u) == \E s \in Sources :
  /\ s \in pool.sources /\ Found(u, "sources", s)
  /\ \A k \in Cases : Exists("cases", k) => db.cases[k].ds # s
  /\ \A j \in Jobs : Exists("jobs", j) =>
       ~(db.jobs[j].ds = s /\ db.jobs[j].status = "running")
  /\ Ask(c, [op |-> "delete source", id |-> s])

DeleteSource(c, u) == \E s \in Sources :
  /\ s \in pool.sources /\ Found(u, "sources", s)
  /\ \A k \in Cases : Exists("cases", k) => db.cases[k].ds # s
  /\ \A j \in Jobs : Exists("jobs", j) =>
       ~(db.jobs[j].ds = s /\ db.jobs[j].status \in {"pending", "running"})
  /\ Ask(c, [op |-> "delete source", id |-> s])

-----------------------------------------------------------------------------
(* Executions: insert a job, send its message, and only then commit.       *)

NewJob(ds, late) ==
  [ds |-> ds, mates |-> {}, want |-> 0, status |-> "pending", late |-> late]

Execution(case, todo) ==
  [op |-> "execute", case |-> case, todo |-> todo, sent |-> <<>>,
   want |-> Len(todo)]

JobOf(k) == NewJob(db.cases[k].ds, "source" \in db.cases[k].late)

\* One case, or a batch: all items are checked before the first is submitted.
ExecuteCases(c, u) == \E n \in 1..MaxBatch : \E items \in [1..n -> Cases] :
  /\ n <= Cardinality(free \cap Jobs)
  /\ \A i \in 1..n : Found(u, "cases", items[i])
  /\ Ask(c, Execution(None, [i \in 1..n |-> JobOf(items[i])]))

ExecuteConfig(c, u) == \E s \in Sources, n \in Names :
  /\ Room("cases") /\ Room("jobs")
  /\ Found(u, "sources", s) /\ CaseNameFree(s, n, {})
  /\ Ask(c, Execution(NewCase(n, s, GroupOf[u]), <<NewJob(s, FALSE)>>))

\* Called with an API key, for no user; the case is kept only if asked for.
AiExecute(c) == \E s \in Sources, n \in Names, save \in BOOLEAN :
  /\ Exists("sources", s) /\ Room("jobs")
  /\ save => Room("cases") /\ CaseNameFree(s, n, {})
  /\ Ask(c, Execution(IF save THEN NewCase(n, s, db.sources[s].group) ELSE None,
                      <<NewJob(s, FALSE)>>))

ExecuteScene(c, u) == \E s \in Scenes :
  /\ Room("jobs") /\ Found(u, "scenes", s)
  /\ Ask(c, Execution(None, <<NewJob(None, FALSE)>>))

-----------------------------------------------------------------------------
(* Requests that write.                                                    *)

\* A request ends, and every other one under way has been overtaken.
Done(c) ==
  /\ req' = [req EXCEPT ![c] = None]
  /\ stale' = [d \in Clients |-> req[d] # None /\ d # c]

Doing(c, op) == req[c] # None /\ req[c].op = op

\* uk_group_name
FolderClash(f, row) ==
  \E g \in Folders \ {f} : Exists("folders", g) /\ db.folders[g] = row

InsertRowM(c) == \E id \in free :
  LET r == req[c]
      row == IF r.table = "folders" THEN r.row
             ELSE [r.row EXCEPT !.late = @ \cup Overtaken(c, AspectsOf(r.row))]
  IN  /\ Doing(c, "insert") /\ id \in Ids[r.table]
      /\ r.table = "folders" => ~FolderClash(id, row)
      /\ db' = [db EXCEPT ![r.table][id] = row]
      /\ free' = free
      /\ Done(c) /\ UNCHANGED <<pool, queue, outrun, hurried, faults>>

InsertRow(c) == \E id \in free :
  LET r == req[c]
      row == IF r.table = "folders" THEN r.row
             ELSE [r.row EXCEPT !.late = @ \cup Overtaken(c, AspectsOf(r.row))]
  IN  /\ Doing(c, "insert") /\ id \in Ids[r.table]
      /\ r.table = "folders" => ~FolderClash(id, row)
      /\ db' = [db EXCEPT ![r.table][id] = row]
      /\ free' = free \ {id}
      /\ Done(c) /\ UNCHANGED <<pool, queue, outrun, hurried, faults>>

\* The row as it is now with the columns assigned.
Assigned(row, set) ==
  IF "nodes" \in DOMAIN set THEN [row EXCEPT !.name = set.name, !.nodes = set.nodes]
                            ELSE [row EXCEPT !.name = set.name]

\* A case or a scene deleted meanwhile is changed and stays deleted.
UpdateRow(c) ==
  LET r == req[c]
      old == db[r.table][r.id]
      row == IF r.table = "folders" THEN Assigned(old, r.set)
             ELSE [Assigned(old, r.set) EXCEPT
                     !.late = (@ \ r.renews) \cup r.late \cup Overtaken(c, r.renews)]
  IN  /\ Doing(c, "update")
      /\ r.table = "folders" => old # None /\ ~FolderClash(r.id, row)
      /\ db' = IF old = None THEN db ELSE [db EXCEPT ![r.table][r.id] = row]
      /\ Done(c) /\ UNCHANGED <<pool, free, queue, outrun, hurried, faults>>

DeleteRow(c) ==
  LET r == req[c]
  IN  /\ Doing(c, "delete")
      /\ db' = [db EXCEPT ![r.table][r.id] = None]
      /\ Done(c) /\ UNCHANGED <<pool, free, queue, outrun, hurried, faults>>

\* UPDATE ... WHERE id IN (...): some of the rows may have been deleted meanwhile.
Move(c) ==
  LET r == req[c]
      Moved(row) == [row EXCEPT !.folder = r.folder,
                                !.late = (@ \ {"folder"})
                                           \cup Overtaken(c, {"folder"})]
  IN  /\ Doing(c, "move")
      /\ db' = [db EXCEPT !.cases = [k \in Cases |->
                  IF k \in r.ids /\ Exists("cases", k) THEN Moved(@[k])
                                                      ELSE @[k]]]
      /\ Done(c) /\ UNCHANGED <<pool, free, queue, outrun, hurried, faults>>

RemoveFolderM(c) ==
  LET f == req[c].id
  IN  /\ Doing(c, "delete folder")
      /\ db' = [db EXCEPT !.folders[f] = None]
      /\ Done(c) /\ UNCHANGED <<pool, free, queue, outrun, hurried, faults>>

\* Both statements act on the present rows, not on the snapshot.
RemoveFolder(c) ==
  LET f == req[c].id
  IN  /\ Doing(c, "delete folder")
      /\ db' = [db EXCEPT
                  !.cases = [k \in Cases |->
                    IF Exists("cases", k) /\ @[k].folder = f
                    THEN [@[k] EXCEPT !.folder = None] ELSE @[k]],
                  !.folders[f] = None]
      /\ Done(c) /\ UNCHANGED <<pool, free, queue, outrun, hurried, faults>>

RemoveSource(c) ==
  LET s == req[c].id
  IN  /\ Doing(c, "delete source")
      /\ db' = [db EXCEPT !.sources[s] = None]
      /\ hurried' = hurried \cup Overtaken(c, {s})
      /\ Done(c) /\ UNCHANGED <<pool, free, queue, outrun, faults>>

\* flush, then send_task: a worker may see the message at once.
SendNext(c) == \E j \in free \cap Jobs :
  /\ Doing(c, "execute") /\ req[c].todo # <<>>
  /\ req' = [req EXCEPT ![c].sent = Append(@, <<j, Head(req[c].todo)>>),
                        ![c].todo = Tail(@)]
  /\ queue' = queue \cup {j}
  /\ free' = free \ {j}
  /\ UNCHANGED <<pool, db, stale, outrun, hurried, faults>>

CommitJobsM(c) ==
  LET r == req[c]
      mates == {r.sent[i][1] : i \in DOMAIN r.sent}
      Row(j) == LET i == CHOOSE i \in DOMAIN r.sent : r.sent[i][1] = j
                IN  [r.sent[i][2] EXCEPT !.mates = mates, !.want = r.want,
                                            !.late = @ \/ stale[c]]
      jobs == [j \in Jobs |-> IF j \in mates THEN Row(j) ELSE db.jobs[j]]
  IN  /\ Doing(c, "execute") /\ r.sent # <<>>
      /\ \/ /\ r.case = None
            /\ db' = [db EXCEPT !.jobs = jobs]
            /\ UNCHANGED free
         \/ \E k \in free \cap Cases :
              /\ r.case # None
              /\ db' = [db EXCEPT
                   !.jobs = jobs,
                   !.cases[k] =
                     [r.case EXCEPT !.late = Overtaken(c, AspectsOf(r.case))]]
              /\ free' = free \ {k}
      /\ Done(c) /\ UNCHANGED <<pool, queue, outrun, hurried, faults>>

CommitJobs(c) ==
  LET r == req[c]
      mates == {r.sent[i][1] : i \in DOMAIN r.sent}
      Row(j) == LET i == CHOOSE i \in DOMAIN r.sent : r.sent[i][1] = j
                IN  [r.sent[i][2] EXCEPT !.mates = mates, !.want = r.want,
                                            !.late = @ \/ stale[c]]
      jobs == [j \in Jobs |-> IF j \in mates THEN Row(j) ELSE db.jobs[j]]
  IN  /\ Doing(c, "execute") /\ r.todo = <<>>
      /\ \/ /\ r.case = None
            /\ db' = [db EXCEPT !.jobs = jobs]
            /\ UNCHANGED free
         \/ \E k \in free \cap Cases :
              /\ r.case # None
              /\ db' = [db EXCEPT
                   !.jobs = jobs,
                   !.cases[k] =
                     [r.case EXCEPT !.late = Overtaken(c, AspectsOf(r.case))]]
              /\ free' = free \ {k}
      /\ Done(c) /\ UNCHANGED <<pool, queue, outrun, hurried, faults>>

\* A constraint or the loss of the updated row makes the flush fail, or the broker
\* refuses a message, or the connection breaks: the transaction is rolled back.
\* (The last two only after a message was sent: else there is nothing to see.)
Abort(c) ==
  /\ \/ /\ Doing(c, "execute") /\ req[c].sent # <<>>
        /\ faults < MaxFaults /\ faults' = faults + 1
     \/ /\ Doing(c, "insert") /\ req[c].table = "folders"
        /\ \E g \in Folders : Exists("folders", g) /\ db.folders[g] = req[c].row
        /\ UNCHANGED faults
     \/ /\ Doing(c, "update") /\ req[c].table = "folders"
        /\ \/ ~Exists("folders", req[c].id)
           \/ FolderClash(req[c].id, Assigned(db.folders[req[c].id], req[c].set))
        /\ UNCHANGED faults
  /\ req' = [req EXCEPT ![c] = None]
  /\ stale' = [stale EXCEPT ![c] = FALSE]
  /\ UNCHANGED <<pool, db, free, queue, outrun, hurried>>

-----------------------------------------------------------------------------
(* Workers.                                                                *)

\* The row is not there (yet): the message is spent.
TakeTooEarly(j) ==
  /\ j \in queue /\ ~Exists("jobs", j)
  /\ queue' = queue \ {j} /\ outrun' = outrun \cup {j}
  /\ UNCHANGED <<pool, db, free, req, stale, hurried, faults>>

\* A job whose data source is gone fails while it is being prepared.
Take(j) ==
  /\ j \in queue /\ Exists("jobs", j)
  /\ LET ds == db.jobs[j].ds IN
     db' = [db EXCEPT !.jobs[j].status =
              IF ds # None /\ ~Exists("sources", ds) THEN "done" ELSE "running"]
  /\ queue' = queue \ {j}
  /\ UNCHANGED <<pool, free, req, stale, outrun, hurried, faults>>

Finish(j) ==
  /\ Exists("jobs", j) /\ db.jobs[j].status = "running"
  /\ db' = [db EXCEPT !.jobs[j].status = "done"]
  /\ UNCHANGED <<pool, free, req, stale, queue, outrun, hurried, faults>>

UserRequest(c, u) ==
  \/ SaveCase(c, u) \/ UpdateCase(c, u) \/ DeleteCase(c, u) \/ CopyCase(c, u)
  \/ CreateFolder(c, u) \/ RenameFolder(c, u) \/ DeleteFolder(c, u)
  \/ MoveCases(c, u) \/ DeleteSource(c, u)
  \/ CreateScene(c, u) \/ UpdateScene(c, u) \/ DeleteScene(c, u)
  \/ CopyScene(c, u)
  \/ ExecuteCases(c, u) \/ ExecuteConfig(c, u) \/ ExecuteScene(c, u)

Write(c) ==
  \/ InsertRow(c) \/ UpdateRow(c) \/ DeleteRow(c) \/ Move(c) \/ RemoveFolder(c)
  \/ RemoveSource(c) \/ SendNext(c) \/ CommitJobs(c) \/ Abort(c)

Next ==
  \/ \E c \in Clients :
       (\E u \in pool.users : UserRequest(c, u)) \/ AiExecute(c) \/ Write(c)
  \/ \E j \in Jobs : TakeTooEarly(j) \/ Take(j) \/ Finish(j)

Spec == Init /\ [][Next]_vars

-----------------------------------------------------------------------------
(* What users see.                                                         *)

\* list_cases without a filter.
ListCases(u) == {k \in Cases : Found(u, "cases", k)}

\* list_folders: the folders, and the cases under each.
ListFolders(u) == {f \in Folders : Found(u, "folders", f)}

CasesIn(u, f) == {k \in ListCases(u) : db.cases[k].folder = f}

-----------------------------------------------------------------------------
(* Properties.                                                             *)

\* An id that was not handed out is the id of no row, nor in the broker.
TypeOK ==
  /\ db \in [cases   : [Cases -> CaseRows \cup {None}],
            folders : [Folders -> FolderRows \cup {None}],
            scenes  : [Scenes -> SceneRows \cup {None}],
            sources : [Sources -> SourceRows \cup {None}],
            jobs    : [Jobs -> JobRows \cup {None}]]
  /\ \A id \in free : \A t \in Tables \ {"sources"} :
       id \in Ids[t] => ~Exists(t, id)
  /\ queue \cup outrun \subseteq Jobs \ free

\* One name is one case of a data source, one scene of a group: rows whose
\* names were checked by requests nobody overtook never share one, over any
\* sequence of saves, renames, copies and deletions.  (For a scene the request
\* must also have come from the scene's own group: UpdateScene and CopyScene
\* check the name in the group of the caller.)
CaseNamesUnique ==
  \A k, l \in Cases :
    k # l /\ Exists("cases", k) /\ Exists("cases", l)
      /\ db.cases[k].ds = db.cases[l].ds /\ db.cases[k].name = db.cases[l].name
    => "name" \in db.cases[k].late \cup db.cases[l].late

SceneNamesUnique ==
  \A s, t \in Scenes :
    s # t /\ Exists("scenes", s) /\ Exists("scenes", t)
      /\ db.scenes[s].group = db.scenes[t].group
      /\ db.scenes[s].name = db.scenes[t].name
    => "name" \in db.scenes[s].late \cup db.scenes[t].late

NamesUnique == CaseNamesUnique /\ SceneNamesUnique

\* delete_datasource, 1206: a data source is not deleted under a live case or
\* under a task that waits or runs.  It can be only if the deletion and the
\* request that added the case or the task overlapped.
SourceOutlivesUsers ==
  /\ \A k \in Cases : Exists("cases", k) =>
       \/ Exists("sources", db.cases[k].ds) \/ db.cases[k].ds \in hurried
       \/ "source" \in db.cases[k].late
  /\ \A j \in Jobs : Exists("jobs", j) /\ db.jobs[j].ds # None =>
       \/ db.jobs[j].status = "done" \/ db.jobs[j].late
       \/ Exists("sources", db.jobs[j].ds) \/ db.jobs[j].ds \in hurried

\* delete_folder moves the cases of a folder out of it, list_folders counts the
\* cases per folder and the unfiled ones: to an administrator the counts add up
\* to all cases listed, however renames, moves, copies and deletions of folders
\* interleave - short of cases put into a folder by an overtaken request.  (A
\* case has one folder_id: the sum of the counts is the size of the union.)
FolderCountsAddUp ==
  \A u \in Users : GroupOf[u] = AdminGroup =>
    \/ Cardinality(ListCases(u)) =
         Cardinality(CasesIn(u, None))
           + Cardinality(UNION {CasesIn(u, f) : f \in ListFolders(u)})
    \/ \E k \in ListCases(u) : "folder" \in db.cases[k].late

\* batch_execute_cases: no partial execution.  All tasks of a request are
\* committed or none is, also when the broker refuses a message after others
\* were taken, so a task that runs never is a part of a refused batch.
BatchIsWhole ==
  \A j \in Jobs : Exists("jobs", j) =>
    /\ Cardinality(db.jobs[j].mates) = db.jobs[j].want
    /\ \A m \in db.jobs[j].mates :
         Exists("jobs", m) /\ db.jobs[m].mates = db.jobs[j].mates

\* A committed task that waits with no message in the broker waits for ever.  That
\* happens only to one whose message was taken before the commit.
OnlyOutrunIsStranded ==
  \A j \in Jobs :
    Exists("jobs", j) /\ db.jobs[j].status = "pending" /\ j \notin queue
      => j \in outrun

\* execute_cases, batch_execute_cases, execute_config: the messages leave before
\* the commit, yet a batch is submitted whole or not at all, and its tasks are
\* delivered but for those a worker looked for before the commit.
SubmittedWhole == BatchIsWhole /\ OnlyOutrunIsStranded
=============================================================================
