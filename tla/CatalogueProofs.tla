---------------------------- MODULE CatalogueProofs ----------------------------
(***************************************************************************)
(* Proofs about Catalogue, for any clients, users, groups, rows and bounds.*)
(*                                                                         *)
(* A request writes what it checked on a snapshot.  The argument is that   *)
(* what it checked still holds of the database as long as nobody overtook  *)
(* it (Checked): a request that commits makes all others stale, and a step *)
(* that makes nobody stale changes nothing they have checked.              *)
(***************************************************************************)
EXTENDS Catalogue, SequenceTheorems, FiniteSetTheorems, TLAPS

(* The row of a job before it is committed. *)
NewJobs ==
  [ds : Sources \cup {None}, mates : {{}}, want : {0}, status : {"pending"},
   late : BOOLEAN]

(* A case that is kept on its execution. *)
FreshCases == {row \in CaseRows : row.late = {}}

(* What a request may be about to write. *)
Requests ==
  [op : {"insert"}, table : {"cases"}, row : CaseRows]
  \cup [op : {"insert"}, table : {"folders"}, row : FolderRows]
  \cup [op : {"insert"}, table : {"scenes"}, row : SceneRows]
  \cup [op : {"update"}, table : {"cases"}, id : Cases, set : [name : Names],
        renews : {{"name"}}, late : {{}}]
  \cup [op : {"update"}, table : {"folders"}, id : Folders, set : [name : Names],
        renews : {{}}, late : {{}}]
  \cup [op : {"update"}, table : {"scenes"}, id : Scenes,
        set : [name : Names, nodes : SUBSET Cases],
        renews : {{"name"}}, late : {{}, {"name"}}]
  \cup [op : {"delete"}, table : {"cases"}, id : Cases]
  \cup [op : {"delete"}, table : {"scenes"}, id : Scenes]
  \cup [op : {"delete folder"}, id : Folders]
  \cup [op : {"delete source"}, id : Sources]
  \cup [op : {"move"}, ids : SUBSET Cases, folder : Folders \cup {None}]
  \cup [op : {"execute"}, case : FreshCases \cup {None}, todo : Seq(NewJobs),
        sent : Seq(Jobs \X NewJobs), want : Nat]

TypeInv ==
  /\ TypeOK
  /\ req \in [Clients -> Requests \cup {None}]
  /\ stale \in [Clients -> BOOLEAN]
  /\ pool \in Pools
  /\ free \subseteq Cases \cup Folders \cup Scenes \cup Jobs

(* A row refers to a source and a folder that are there, but for those that *)
(* were overtaken.                                                         *)
SourceThere(s) == Exists("sources", s) \/ s \in hurried

Referred(row) ==
  /\ SourceThere(row.ds) \/ "source" \in row.late
  /\ row.folder = None \/ Exists("folders", row.folder) \/ "folder" \in row.late

JobKnown(row) ==
  row.ds = None \/ row.status = "done" \/ row.late \/ SourceThere(row.ds)

CasesRefer == \A k \in Cases : Exists("cases", k) => Referred(db.cases[k])

JobsRefer == \A j \in Jobs : Exists("jobs", j) => JobKnown(db.jobs[j])

RowsRefer == CasesRefer /\ JobsRefer

SceneNameFreeIn(group, name, except) ==
  \A s \in Scenes \ except :
    Exists("scenes", s) => db.scenes[s].group # group \/ db.scenes[s].name # name

(* What the checks of a request established. *)
CaseFits(row) == CaseNameFree(row.ds, row.name, {}) /\ Referred(row)

SourceUnused(s) ==
  /\ \A k \in Cases : Exists("cases", k) => db.cases[k].ds # s
  /\ \A j \in Jobs : Exists("jobs", j) =>
       db.jobs[j].ds # s \/ db.jobs[j].status = "done"

JobsKnown(r) ==
  /\ \A i \in DOMAIN r.todo : JobKnown(r.todo[i])
  /\ \A i \in DOMAIN r.sent : JobKnown(r.sent[i][2])

Holds(r) ==
  /\ r.op = "insert" /\ r.table = "cases" => CaseFits(r.row)
  /\ r.op = "insert" /\ r.table = "scenes" =>
       SceneNameFreeIn(r.row.group, r.row.name, {}) \/ "name" \in r.row.late
  /\ r.op = "update" /\ r.table = "cases" =>
       CaseNameFree(db.cases[r.id].ds, r.set.name, {r.id})
  /\ r.op = "update" /\ r.table = "scenes" =>
       SceneNameFreeIn(db.scenes[r.id].group, r.set.name, {r.id})
         \/ "name" \in r.late
  /\ r.op = "move" => r.folder = None \/ Exists("folders", r.folder)
  /\ r.op = "delete source" => SourceUnused(r.id)
  /\ r.op = "execute" => (r.case # None => CaseFits(r.case)) /\ JobsKnown(r)

Checked ==
  \A c \in Clients, r \in Requests :
    r # None /\ req[c] = r /\ ~stale[c] => Holds(r)

(* The ids of the jobs whose messages a request has sent: its own, and not *)
(* yet those of rows.                                                      *)
IdsOf(sent) == {sent[i][1] : i \in DOMAIN sent}

SentIds(c) == IdsOf(req[c].sent)

SentApart ==
  \A c \in Clients : Doing(c, "execute") =>
    /\ req[c].want = Len(req[c].sent) + Len(req[c].todo)
    /\ IsFiniteSet(SentIds(c)) /\ Cardinality(SentIds(c)) = Len(req[c].sent)
    /\ \A j \in SentIds(c) : j \in (queue \cup outrun) \ free /\ ~Exists("jobs", j)
    /\ \A d \in Clients \ {c} :
         Doing(d, "execute") => SentIds(c) \cap SentIds(d) = {}

QueuedPending ==
  \A j \in queue : Exists("jobs", j) => db.jobs[j].status = "pending"

IInv ==
  /\ TypeInv /\ Checked /\ NamesUnique /\ RowsRefer
  /\ SentApart /\ QueuedPending /\ SubmittedWhole

-----------------------------------------------------------------------------
(* What a request may be, by what it does. *)

(* A request to insert, update or delete names its table and has a row, an *)
(* id, or the columns it assigns.                                          *)
LEMMA WriteShape ==
  ASSUME NEW r \in Requests
  PROVE  /\ r.op = "insert" =>
              \/ r.table = "cases" /\ r.row \in CaseRows
              \/ r.table = "folders" /\ r.row \in FolderRows
              \/ r.table = "scenes" /\ r.row \in SceneRows
         /\ r.op = "update" =>
              \/ r.table = "cases" /\ r.id \in Cases /\ r.set \in [name : Names]
                 /\ r.renews = {"name"} /\ r.late = {}
              \/ r.table = "folders" /\ r.id \in Folders /\ r.set \in [name : Names]
              \/ r.table = "scenes" /\ r.id \in Scenes
                 /\ r.set \in [name : Names, nodes : SUBSET Cases]
                 /\ r.renews = {"name"} /\ r.late \in {{}, {"name"}}
         /\ r.op = "delete" => \/ r.table = "cases" /\ r.id \in Cases
                               \/ r.table = "scenes" /\ r.id \in Scenes
  BY DEF Requests

(* The other requests. *)
LEMMA OtherShape ==
  ASSUME NEW r \in Requests
  PROVE  /\ r.op = "delete folder" => r.id \in Folders
         /\ r.op = "delete source" => r.id \in Sources
         /\ r.op = "move" => r.ids \subseteq Cases /\ r.folder \in Folders \cup {None}
         /\ r.op = "execute" =>
              /\ r \in [op : {"execute"}, case : FreshCases \cup {None},
                        todo : Seq(NewJobs), sent : Seq(Jobs \X NewJobs), want : Nat]
              /\ r.case \in FreshCases \cup {None} /\ r.want \in Nat
              /\ r.todo \in Seq(NewJobs) /\ r.sent \in Seq(Jobs \X NewJobs)
  BY DEF Requests

(* A write into one table leaves the others. *)
LEMMA Written ==
  ASSUME TypeInv, NEW t \in Tables, NEW id, NEW row,
         db' = [db EXCEPT ![t][id] = row]
  PROVE  /\ db'[t] = [db[t] EXCEPT ![id] = row]
         /\ \A u \in Tables \ {t} : db'[u] = db[u]
  BY DEF TypeInv, TypeOK, Tables

(* Rows that exist are rows. *)
LEMMA RowTypes ==
  ASSUME TypeInv
  PROVE  /\ \A k \in Cases : Exists("cases", k) => db.cases[k] \in CaseRows
         /\ \A f \in Folders : Exists("folders", f) => db.folders[f] \in FolderRows
         /\ \A s \in Scenes : Exists("scenes", s) => db.scenes[s] \in SceneRows
         /\ \A s \in Sources : Exists("sources", s) => db.sources[s] \in SourceRows
         /\ \A j \in Jobs : Exists("jobs", j) => db.jobs[j] \in JobRows
  BY DEF TypeInv, TypeOK, Exists

(* Who asks is a user of a group. *)
LEMMA UserGroup ==
  ASSUME TypeInv, NEW u \in pool.users
  PROVE  u \in Users /\ GroupOf[u] \in Groups
  BY IdsAssumption, GroupsAssumption DEF TypeInv

-----------------------------------------------------------------------------
(* Requests that read and check: what they checked holds of the database.  *)

Unsent(r) == r.op = "execute" => r.sent = <<>> /\ r.want = Len(r.todo)

Granted(c) == \E r \in Requests : Ask(c, r) /\ Holds(r) /\ Unsent(r)

(* A new row for a case. *)
LEMMA InsertCase ==
  ASSUME NEW c, NEW row \in CaseRows, CaseFits(row), Ask(c, Insert("cases", row))
  PROVE  Granted(c)
<1> DEFINE r == Insert("cases", row)
<1>1. r \in Requests BY DEF Requests, Insert
<1>2. Holds(r) BY DEF Holds, Insert
<1>3. Unsent(r) BY DEF Unsent, Insert
<1> QED BY <1>1, <1>2, <1>3 DEF Granted

(* save_case, and the case of execute_config and of ai_execute: the source *)
(* is there, the name is free and the case is in no folder.                *)
LEMMA NewCaseFits ==
  ASSUME NEW n \in Names, NEW s \in Sources, NEW g \in Groups,
         Exists("sources", s), CaseNameFree(s, n, {})
  PROVE  NewCase(n, s, g) \in FreshCases /\ CaseFits(NewCase(n, s, g))
<1>1. NewCase(n, s, g) \in FreshCases BY DEF NewCase, CaseRows, FreshCases
<1>2. NewCase(n, s, g).ds = s /\ NewCase(n, s, g).name = n
        /\ NewCase(n, s, g).folder = None
  BY DEF NewCase
<1> QED BY <1>1, <1>2 DEF CaseFits, Referred, SourceThere

(* save_case. *)
LEMMA SaveCaseGranted ==
  ASSUME TypeInv, NEW c, NEW u \in pool.users, SaveCase(c, u) PROVE Granted(c)
<1>1. PICK s \in Sources, n \in Names :
        /\ Found(u, "sources", s) /\ CaseNameFree(s, n, {})
        /\ Ask(c, Insert("cases", NewCase(n, s, GroupOf[u])))
  BY DEF SaveCase
<1>2. Exists("sources", s) BY <1>1 DEF Found
<1> QED BY <1>1, <1>2, UserGroup, NewCaseFits, InsertCase DEF FreshCases

(* copy_case: the copy has the source and the folder of its original. *)
LEMMA CopyCaseGranted ==
  ASSUME TypeInv, RowsRefer, NEW c, NEW u \in pool.users, CopyCase(c, u)
  PROVE  Granted(c)
<1>1. PICK k \in Cases, n \in Names :
        /\ Found(u, "cases", k) /\ CaseNameFree(db.cases[k].ds, n, {})
        /\ Ask(c, Insert("cases", [db.cases[k] EXCEPT !.name = n, !.late = @ \ {"name"}]))
  BY DEF CopyCase
<1> DEFINE old == db.cases[k]
           row == [old EXCEPT !.name = n, !.late = @ \ {"name"}]
<1>2. old \in CaseRows /\ Referred(old) BY <1>1, RowTypes DEF Found, RowsRefer, CasesRefer
<1>3. /\ row \in CaseRows /\ row.ds = old.ds /\ row.name = n
      /\ row.folder = old.folder /\ row.late = old.late \ {"name"}
  BY <1>2 DEF CaseRows
<1>4. Referred(row) BY <1>2, <1>3 DEF Referred
<1> HIDE DEF row
<1>5. CaseFits(row) BY <1>1, <1>3, <1>4 DEF CaseFits
<1> QED BY <1>1, <1>3, <1>5, InsertCase DEF row

(* update_case, create_folder, rename_folder and the deletions. *)
LEMMA UpdateCaseGranted ==
  ASSUME TypeInv, NEW c, NEW u \in pool.users, UpdateCase(c, u) PROVE Granted(c)
<1>1. PICK k \in Cases, n \in Names :
        /\ CaseNameFree(db.cases[k].ds, n, {k})
        /\ Ask(c, Update("cases", k, [name |-> n], {"name"}, {}))
  BY DEF UpdateCase
<1> DEFINE r == Update("cases", k, [name |-> n], {"name"}, {})
<1>2. r \in Requests BY DEF Requests, Update
<1>3. Holds(r) BY <1>1 DEF Holds, Update
<1>4. Unsent(r) BY DEF Unsent, Update
<1> QED BY <1>1, <1>2, <1>3, <1>4 DEF Granted

(* The folders: nothing that was checked matters for the properties. *)
LEMMA FolderGranted ==
  ASSUME TypeInv, NEW c, NEW u \in pool.users,
         CreateFolder(c, u) \/ RenameFolder(c, u) \/ DeleteFolder(c, u)
  PROVE  Granted(c)
<1>1. CASE CreateFolder(c, u)
  <2>1. PICK n \in Names :
          Ask(c, Insert("folders", [name |-> n, group |-> GroupOf[u]]))
    BY <1>1 DEF CreateFolder
  <2> DEFINE r == Insert("folders", [name |-> n, group |-> GroupOf[u]])
  <2>2. r \in Requests BY UserGroup DEF Requests, Insert, FolderRows
  <2>3. Holds(r) /\ Unsent(r) BY DEF Holds, Unsent, Insert
  <2> QED BY <2>1, <2>2, <2>3 DEF Granted
<1>2. CASE RenameFolder(c, u)
  <2>1. PICK f \in Folders, n \in Names :
          Ask(c, Update("folders", f, [name |-> n], {}, {}))
    BY <1>2 DEF RenameFolder
  <2> DEFINE r == Update("folders", f, [name |-> n], {}, {})
  <2>2. r \in Requests BY DEF Requests, Update
  <2>3. Holds(r) /\ Unsent(r) BY DEF Holds, Unsent, Update
  <2> QED BY <2>1, <2>2, <2>3 DEF Granted
<1>3. CASE DeleteFolder(c, u)
  <2>1. PICK f \in Folders : Ask(c, [op |-> "delete folder", id |-> f])
    BY <1>3 DEF DeleteFolder
  <2> DEFINE r == [op |-> "delete folder", id |-> f]
  <2>2. r \in Requests BY DEF Requests
  <2>3. Holds(r) /\ Unsent(r) BY DEF Holds, Unsent
  <2> QED BY <2>1, <2>2, <2>3 DEF Granted
<1> QED BY <1>1, <1>2, <1>3

(* delete_case, delete_scene. *)
LEMMA DeleteGranted ==
  ASSUME TypeInv, NEW c, NEW u \in pool.users, DeleteCase(c, u) \/ DeleteScene(c, u)
  PROVE  Granted(c)
<1>1. CASE DeleteCase(c, u)
  <2>1. PICK k \in Cases : Ask(c, [op |-> "delete", table |-> "cases", id |-> k])
    BY <1>1 DEF DeleteCase
  <2> DEFINE r == [op |-> "delete", table |-> "cases", id |-> k]
  <2>2. r \in Requests BY DEF Requests
  <2>3. Holds(r) /\ Unsent(r) BY DEF Holds, Unsent
  <2> QED BY <2>1, <2>2, <2>3 DEF Granted
<1>2. CASE DeleteScene(c, u)
  <2>1. PICK s \in Scenes : Ask(c, [op |-> "delete", table |-> "scenes", id |-> s])
    BY <1>2 DEF DeleteScene
  <2> DEFINE r == [op |-> "delete", table |-> "scenes", id |-> s]
  <2>2. r \in Requests BY DEF Requests
  <2>3. Holds(r) /\ Unsent(r) BY DEF Holds, Unsent
  <2> QED BY <2>1, <2>2, <2>3 DEF Granted
<1> QED BY <1>1, <1>2

(* move_cases: to no folder, or to one that is there. *)
LEMMA MoveGranted ==
  ASSUME TypeInv, NEW c, NEW u \in pool.users, MoveCases(c, u) PROVE Granted(c)
<1>1. PICK f \in Folders \cup {None}, ids \in SUBSET Cases :
        /\ f # None => Found(u, "folders", f)
        /\ Ask(c, [op |-> "move", ids |-> ids, folder |-> f])
  BY DEF MoveCases
<1> DEFINE r == [op |-> "move", ids |-> ids, folder |-> f]
<1>2. r \in Requests BY DEF Requests
<1>3. Holds(r) BY <1>1 DEF Holds, Found
<1>4. Unsent(r) BY DEF Unsent
<1> QED BY <1>1, <1>2, <1>3, <1>4 DEF Granted

(* A new scene: the name is free in the group of the new row, *)
(* or the row says that it was looked for in another group.                *)
LEMMA InsertScene ==
  ASSUME NEW c, NEW row \in SceneRows,
         SceneNameFreeIn(row.group, row.name, {}) \/ "name" \in row.late,
         Ask(c, Insert("scenes", row))
  PROVE  Granted(c)
<1> DEFINE r == Insert("scenes", row)
<1>1. r \in Requests BY DEF Requests, Insert
<1>2. Holds(r) BY DEF Holds, Insert
<1>3. Unsent(r) BY DEF Unsent, Insert
<1> QED BY <1>1, <1>2, <1>3 DEF Granted

(* create_scene, update_scene, copy_scene. *)
LEMMA SceneGranted ==
  ASSUME TypeInv, NEW c, NEW u \in pool.users,
         CreateScene(c, u) \/ UpdateScene(c, u) \/ CopyScene(c, u)
  PROVE  Granted(c)
<1>0. \A n \in Names, x \in SUBSET Scenes :
        SceneNameFree(u, n, x) => SceneNameFreeIn(GroupOf[u], n, x)
  BY DEF SceneNameFree, SceneNameFreeIn
<1>1. CASE CreateScene(c, u)
  <2>1. PICK n \in Names, nodes \in SUBSET Cases :
          /\ SceneNameFree(u, n, {})
          /\ Ask(c, Insert("scenes", [name |-> n, group |-> GroupOf[u],
                                      nodes |-> nodes, late |-> {}]))
    BY <1>1 DEF CreateScene
  <2> DEFINE row == [name |-> n, group |-> GroupOf[u], nodes |-> nodes, late |-> {}]
  <2>2. row \in SceneRows BY UserGroup DEF SceneRows
  <2>3. SceneNameFreeIn(row.group, row.name, {}) BY <1>0, <2>1
  <2> QED BY <2>1, <2>2, <2>3, InsertScene
<1>2. CASE UpdateScene(c, u)
  <2>1. PICK s \in Scenes, n \in Names, nodes \in SUBSET Cases :
          /\ SceneNameFree(u, n, {s})
          /\ Ask(c, Update("scenes", s, [name |-> n, nodes |-> nodes], {"name"},
                           IF db.scenes[s].group = GroupOf[u] THEN {} ELSE {"name"}))
    BY <1>2 DEF UpdateScene
  <2> DEFINE late == IF db.scenes[s].group = GroupOf[u] THEN {} ELSE {"name"}
             r == Update("scenes", s, [name |-> n, nodes |-> nodes], {"name"}, late)
  <2>2. r \in Requests BY DEF Requests, Update
  <2>3. SceneNameFreeIn(db.scenes[s].group, n, {s}) \/ "name" \in late BY <1>0, <2>1
  <2>4. Holds(r) BY <2>3 DEF Holds, Update
  <2>5. Unsent(r) BY DEF Unsent, Update
  <2> QED BY <2>1, <2>2, <2>4, <2>5 DEF Granted
<1>3. CASE CopyScene(c, u)
  <2>1. PICK s \in Scenes, n \in Names :
          /\ Found(u, "scenes", s) /\ SceneNameFree(u, n, {})
          /\ Ask(c, Insert("scenes",
               [db.scenes[s] EXCEPT
                  !.name = n,
                  !.late = IF db.scenes[s].group = GroupOf[u] THEN {} ELSE {"name"}]))
    BY <1>3 DEF CopyScene
  <2> DEFINE old == db.scenes[s]
             late == IF old.group = GroupOf[u] THEN {} ELSE {"name"}
             row == [old EXCEPT !.name = n, !.late = late]
  <2>2. old \in SceneRows BY <2>1, RowTypes DEF Found
  <2>3. late \subseteq Aspects BY DEF Aspects
  <2>4. row \in SceneRows /\ row.group = old.group /\ row.name = n /\ row.late = late
    BY <2>2, <2>3 DEF SceneRows
  <2>5. SceneNameFreeIn(row.group, row.name, {}) \/ "name" \in row.late
    BY <1>0, <2>1, <2>4
  <2> QED BY <2>1, <2>4, <2>5, InsertScene
<1> QED BY <1>1, <1>2, <1>3

(* delete_datasource: no case uses the source, no job that is not done. *)
LEMMA DeleteSourceGranted ==
  ASSUME TypeInv, NEW c, NEW u \in pool.users, DeleteSource(c, u) PROVE Granted(c)
<1>1. PICK s \in Sources :
        /\ \A k \in Cases : Exists("cases", k) => db.cases[k].ds # s
        /\ \A j \in Jobs : Exists("jobs", j) =>
             ~(db.jobs[j].ds = s /\ db.jobs[j].status \in {"pending", "running"})
        /\ Ask(c, [op |-> "delete source", id |-> s])
  BY DEF DeleteSource
<1> DEFINE r == [op |-> "delete source", id |-> s]
<1>2. r \in Requests BY DEF Requests
<1>3. \A j \in Jobs : Exists("jobs", j) =>
        db.jobs[j].status \in {"pending", "running", "done"}
  BY RowTypes DEF JobRows
<1>4. SourceUnused(s) BY <1>1, <1>3 DEF SourceUnused
<1>5. Holds(r) BY <1>4 DEF Holds
<1>6. Unsent(r) BY DEF Unsent
<1> QED BY <1>1, <1>2, <1>5, <1>6 DEF Granted

(* An execution: its case fits, and the sources of its jobs are known. *)
LEMMA ExecutionGranted ==
  ASSUME NEW c, NEW case \in FreshCases \cup {None}, NEW todo \in Seq(NewJobs),
         case # None => CaseFits(case), \A i \in DOMAIN todo : JobKnown(todo[i]),
         Ask(c, Execution(case, todo))
  PROVE  Granted(c)
<1> DEFINE r == Execution(case, todo)
<1>1. /\ r.op = "execute" /\ r.case = case /\ r.todo = todo /\ r.sent = <<>>
      /\ r.want = Len(todo)
  BY DEF Execution
<1>2. r \in Requests
  <2>1. <<>> \in Seq(Jobs \X NewJobs) /\ Len(todo) \in Nat OBVIOUS
  <2> QED BY <2>1 DEF Requests, Execution
<1>3. JobsKnown(r)
  <2>1. DOMAIN r.sent = {} BY <1>1
  <2> QED BY <1>1, <2>1 DEF JobsKnown
<1>4. Holds(r) BY <1>1, <1>3 DEF Holds
<1>5. Unsent(r) BY <1>1 DEF Unsent
<1> QED BY <1>2, <1>4, <1>5 DEF Granted

(* A new job is known by its source. *)
LEMMA NewJobKnown ==
  ASSUME NEW s \in Sources \cup {None}, NEW late \in BOOLEAN,
         s = None \/ late \/ SourceThere(s)
  PROVE  /\ NewJob(s, late) \in NewJobs /\ JobKnown(NewJob(s, late))
         /\ <<NewJob(s, late)>> \in Seq(NewJobs)
         /\ \A i \in DOMAIN <<NewJob(s, late)>> : JobKnown(<<NewJob(s, late)>>[i])
<1>1. NewJob(s, late) \in NewJobs BY DEF NewJob, NewJobs
<1>2. NewJob(s, late).ds = s /\ NewJob(s, late).late = late BY DEF NewJob
<1>3. JobKnown(NewJob(s, late)) BY <1>2 DEF JobKnown
<1> QED BY <1>1, <1>3

(* The job of a case. *)
LEMMA JobOfKnown ==
  ASSUME TypeInv, RowsRefer, NEW k \in Cases, Exists("cases", k)
  PROVE  JobOf(k) \in NewJobs /\ JobKnown(JobOf(k))
<1>1. db.cases[k] \in CaseRows /\ Referred(db.cases[k]) BY RowTypes DEF RowsRefer, CasesRefer
<1>2. db.cases[k].ds \in Sources BY <1>1 DEF CaseRows
<1> DEFINE late == "source" \in db.cases[k].late
<1>3. late \/ SourceThere(db.cases[k].ds) BY <1>1 DEF Referred
<1>4. late \in BOOLEAN OBVIOUS
<1>5. JobOf(k) = NewJob(db.cases[k].ds, late) BY DEF JobOf
<1> HIDE DEF late
<1>6. NewJob(db.cases[k].ds, late) \in NewJobs /\ JobKnown(NewJob(db.cases[k].ds, late))
  BY <1>2, <1>3, <1>4, NewJobKnown
<1> QED BY <1>5, <1>6

(* execute_case, batch_execute_cases. *)
LEMMA ExecuteCasesGranted ==
  ASSUME TypeInv, RowsRefer, NEW c, NEW u \in pool.users, ExecuteCases(c, u)
  PROVE  Granted(c)
<1>1. PICK n \in 1..MaxBatch : \E items \in [1..n -> Cases] :
        /\ \A i \in 1..n : Found(u, "cases", items[i])
        /\ Ask(c, Execution(None, [i \in 1..n |-> JobOf(items[i])]))
  BY DEF ExecuteCases
<1>2. PICK items \in [1..n -> Cases] :
        /\ \A i \in 1..n : Found(u, "cases", items[i])
        /\ Ask(c, Execution(None, [i \in 1..n |-> JobOf(items[i])]))
  BY <1>1
<1> DEFINE todo == [i \in 1..n |-> JobOf(items[i])]
<1>3. \A i \in 1..n : JobOf(items[i]) \in NewJobs /\ JobKnown(JobOf(items[i]))
  BY <1>2, JobOfKnown DEF Found
<1>4. n \in Nat BY IdsAssumption
<1>5. todo \in Seq(NewJobs) BY <1>3, <1>4
<1>6. \A i \in DOMAIN todo : JobKnown(todo[i]) BY <1>3
<1> QED BY <1>2, <1>5, <1>6, ExecutionGranted

(* execute_config. *)
LEMMA ExecuteConfigGranted ==
  ASSUME TypeInv, NEW c, NEW u \in pool.users, ExecuteConfig(c, u) PROVE Granted(c)
<1>1. PICK s \in Sources, n \in Names :
        /\ Found(u, "sources", s) /\ CaseNameFree(s, n, {})
        /\ Ask(c, Execution(NewCase(n, s, GroupOf[u]), <<NewJob(s, FALSE)>>))
  BY DEF ExecuteConfig
<1>2. Exists("sources", s) BY <1>1 DEF Found
<1>3. NewCase(n, s, GroupOf[u]) \in FreshCases /\ CaseFits(NewCase(n, s, GroupOf[u]))
  BY <1>1, <1>2, UserGroup, NewCaseFits
<1>4. /\ <<NewJob(s, FALSE)>> \in Seq(NewJobs)
      /\ \A i \in DOMAIN <<NewJob(s, FALSE)>> : JobKnown(<<NewJob(s, FALSE)>>[i])
  BY <1>2, NewJobKnown DEF SourceThere
<1> QED BY <1>1, <1>3, <1>4, ExecutionGranted

(* ai_execute: the case, if it is kept, is of the group of its source. *)
LEMMA AiExecuteGranted ==
  ASSUME TypeInv, NEW c, AiExecute(c) PROVE Granted(c)
<1>1. PICK s \in Sources, n \in Names, save \in BOOLEAN :
        /\ Exists("sources", s)
        /\ save => CaseNameFree(s, n, {})
        /\ Ask(c, Execution(IF save THEN NewCase(n, s, db.sources[s].group) ELSE None,
                            <<NewJob(s, FALSE)>>))
  BY DEF AiExecute
<1> DEFINE case == IF save THEN NewCase(n, s, db.sources[s].group) ELSE None
<1>2. db.sources[s].group \in Groups BY <1>1, RowTypes DEF SourceRows
<1>3. case \in FreshCases \cup {None} /\ (case # None => CaseFits(case))
  BY <1>1, <1>2, NewCaseFits
<1>4. /\ <<NewJob(s, FALSE)>> \in Seq(NewJobs)
      /\ \A i \in DOMAIN <<NewJob(s, FALSE)>> : JobKnown(<<NewJob(s, FALSE)>>[i])
  BY <1>1, NewJobKnown DEF SourceThere
<1> HIDE DEF case
<1>5. Ask(c, Execution(case, <<NewJob(s, FALSE)>>)) BY <1>1 DEF case
<1> QED BY <1>3, <1>4, <1>5, ExecutionGranted

(* execute_scene: its job has no data source. *)
LEMMA ExecuteSceneGranted ==
  ASSUME TypeInv, NEW c, NEW u \in pool.users, ExecuteScene(c, u) PROVE Granted(c)
<1>1. Ask(c, Execution(None, <<NewJob(None, FALSE)>>)) BY DEF ExecuteScene
<1>2. /\ <<NewJob(None, FALSE)>> \in Seq(NewJobs)
      /\ \A i \in DOMAIN <<NewJob(None, FALSE)>> : JobKnown(<<NewJob(None, FALSE)>>[i])
  BY NewJobKnown
<1> QED BY <1>1, <1>2, ExecutionGranted

(* Every request that passed its checks asks for what they established. *)
LEMMA Asked ==
  ASSUME IInv, NEW c \in Clients,
         (\E u \in pool.users : UserRequest(c, u)) \/ AiExecute(c)
  PROVE  Granted(c)
<1> USE DEF IInv
<1>1. CASE AiExecute(c) BY <1>1, AiExecuteGranted
<1>2. ASSUME NEW u \in pool.users, UserRequest(c, u) PROVE Granted(c)
  <2>1. CASE SaveCase(c, u) BY <2>1, SaveCaseGranted
  <2>2. CASE UpdateCase(c, u) BY <2>2, UpdateCaseGranted
  <2>3. CASE CopyCase(c, u) BY <2>3, CopyCaseGranted
  <2>4. CASE CreateFolder(c, u) \/ RenameFolder(c, u) \/ DeleteFolder(c, u)
    BY <2>4, FolderGranted
  <2>5. CASE DeleteCase(c, u) \/ DeleteScene(c, u) BY <2>5, DeleteGranted
  <2>6. CASE MoveCases(c, u) BY <2>6, MoveGranted
  <2>7. CASE CreateScene(c, u) \/ UpdateScene(c, u) \/ CopyScene(c, u)
    BY <2>7, SceneGranted
  <2>8. CASE DeleteSource(c, u) BY <2>8, DeleteSourceGranted
  <2>9. CASE ExecuteCases(c, u) BY <2>9, ExecuteCasesGranted
  <2>10. CASE ExecuteConfig(c, u) BY <2>10, ExecuteConfigGranted
  <2>11. CASE ExecuteScene(c, u) BY <2>11, ExecuteSceneGranted
  <2> QED BY <1>2, <2>1, <2>2, <2>3, <2>4, <2>5, <2>6, <2>7, <2>8, <2>9, <2>10, <2>11
          DEF UserRequest
<1> QED BY <1>1, <1>2

-----------------------------------------------------------------------------
(* Frames: what a step that leaves some tables alone keeps.                *)

(* What a request has checked depends on the rows only. *)
LEMMA HoldsSame ==
  ASSUME NEW r, UNCHANGED <<db, hurried>>
  PROVE  Holds(r)' <=> Holds(r)
  BY DEF Holds, CaseFits, CaseNameFree, SceneNameFreeIn, SourceUnused, JobsKnown,
         JobKnown, Referred, SourceThere, Exists

(* A job stays known while no source changes. *)
LEMMA JobKnownSame ==
  ASSUME NEW row, UNCHANGED hurried, db'.sources = db.sources
  PROVE  JobKnown(row)' <=> JobKnown(row)
  BY DEF JobKnown, SourceThere, Exists

(* What a row refers to depends on the sources and the folders. *)
LEMMA ReferredSame ==
  ASSUME NEW row, UNCHANGED hurried, db'.sources = db.sources,
         db'.folders = db.folders
  PROVE  Referred(row)' <=> Referred(row)
  BY DEF Referred, SourceThere, Exists

(* While no row changes, neither do names and references. *)
LEMMA RowsSame ==
  ASSUME IInv, UNCHANGED <<db, hurried>>
  PROVE  NamesUnique' /\ RowsRefer'
  BY DEF IInv, NamesUnique, CaseNamesUnique, SceneNamesUnique, RowsRefer, CasesRefer,
         JobsRefer, JobKnown, Referred, SourceThere, Exists

(* While neither jobs nor messages change, batches stay whole. *)
LEMMA JobsSame ==
  ASSUME IInv, db'.jobs = db.jobs, UNCHANGED <<queue, outrun>>
  PROVE  QueuedPending' /\ SubmittedWhole'
  BY DEF IInv, QueuedPending, SubmittedWhole, BatchIsWhole, OnlyOutrunIsStranded,
         Exists

(* Requests that go on, or that end, stay apart. *)
LEMMA SentSame ==
  ASSUME IInv, free' \subseteq free,
         \A j \in queue \cup outrun : j \in queue' \cup outrun' \/ Exists("jobs", j),
         \A d \in Clients : Doing(d, "execute")' => req'[d] = req[d],
         \A d \in Clients : Doing(d, "execute")' =>
           \A j \in SentIds(d) : ~Exists("jobs", j)'
  PROVE  SentApart'
<1>1. ASSUME NEW d \in Clients, Doing(d, "execute")'
      PROVE  Doing(d, "execute") /\ req'[d] = req[d] /\ SentIds(d)' = SentIds(d)
  BY <1>1 DEF Doing, SentIds
<1> SUFFICES ASSUME NEW c \in Clients, Doing(c, "execute")'
             PROVE  /\ req'[c].want = Len(req'[c].sent) + Len(req'[c].todo)
                    /\ IsFiniteSet(SentIds(c)') /\ Cardinality(SentIds(c)') = Len(req'[c].sent)
                    /\ \A j \in SentIds(c)' : j \in (queue' \cup outrun') \ free'
                                                /\ ~Exists("jobs", j)'
                    /\ \A d \in Clients \ {c} :
                         Doing(d, "execute")' => SentIds(c)' \cap SentIds(d)' = {}
  BY DEF SentApart
<1>2. /\ req[c].want = Len(req[c].sent) + Len(req[c].todo)
      /\ IsFiniteSet(SentIds(c)) /\ Cardinality(SentIds(c)) = Len(req[c].sent)
      /\ \A j \in SentIds(c) : j \in (queue \cup outrun) \ free /\ ~Exists("jobs", j)
      /\ \A d \in Clients \ {c} :
           Doing(d, "execute") => SentIds(c) \cap SentIds(d) = {}
  BY <1>1 DEF IInv, SentApart
<1> QED BY <1>1, <1>2

(* A request ends: all others under way are stale from now on. *)
LEMMA DoneChecked ==
  ASSUME TypeInv, NEW c \in Clients, Done(c)
  PROVE  /\ Checked'
         /\ req' \in [Clients -> Requests \cup {None}]
         /\ stale' \in [Clients -> BOOLEAN]
         /\ \A d \in Clients : Doing(d, "execute")' => d # c /\ req'[d] = req[d]
<1>1. req' \in [Clients -> Requests \cup {None}] BY DEF TypeInv, Done
<1>2. stale' \in [Clients -> BOOLEAN] BY DEF Done
<1>3. \A d \in Clients : req'[d] # None => d # c /\ req'[d] = req[d] /\ stale'[d]
  BY DEF TypeInv, Done
<1>4. Checked' BY <1>3 DEF Checked
<1> QED BY <1>1, <1>2, <1>3, <1>4 DEF Doing

(* The end of a request that leaves the jobs alone. *)
LEMMA DoneKeeps ==
  ASSUME IInv, NEW c \in Clients, Done(c), db'.jobs = db.jobs, free' \subseteq free,
         UNCHANGED <<queue, outrun>>
  PROVE  Checked' /\ SentApart' /\ QueuedPending' /\ SubmittedWhole'
<1>1. TypeInv BY DEF IInv
<1>2. \A d \in Clients : Doing(d, "execute")' =>
        /\ req'[d] = req[d] /\ Doing(d, "execute")
  BY <1>1, DoneChecked DEF Doing
<1>3. \A d \in Clients : Doing(d, "execute") =>
        \A j \in SentIds(d) : ~Exists("jobs", j)'
  BY DEF IInv, SentApart, Exists
<1>4. SentApart' BY <1>2, <1>3, SentSame
<1> QED BY <1>1, <1>4, DoneChecked, JobsSame

(* The types after a request that leaves the jobs alone. *)
LEMMA DoneTyped ==
  ASSUME IInv, NEW c \in Clients, Done(c), UNCHANGED <<pool, queue, outrun>>,
         free' \subseteq free,
         db' \in [cases   : [Cases -> CaseRows \cup {None}],
                  folders : [Folders -> FolderRows \cup {None}],
                  scenes  : [Scenes -> SceneRows \cup {None}],
                  sources : [Sources -> SourceRows \cup {None}],
                  jobs    : [Jobs -> JobRows \cup {None}]],
         \A id \in free' : \A t \in Tables \ {"sources"} :
           id \in Ids[t] /\ ~Exists(t, id) => ~Exists(t, id)'
  PROVE  TypeInv'
<1>1. TypeInv BY DEF IInv
<1>2. /\ req' \in [Clients -> Requests \cup {None}]
      /\ stale' \in [Clients -> BOOLEAN]
  BY <1>1, DoneChecked
<1>3. \A id \in free' : \A t \in Tables \ {"sources"} :
           id \in Ids[t] => ~Exists(t, id)'
  BY <1>1 DEF TypeInv, TypeOK
<1>4. (queue \cup outrun)' \subseteq Jobs \ free' BY <1>1 DEF TypeInv, TypeOK
<1>5. TypeOK' BY <1>3, <1>4 DEF TypeOK
<1> QED BY <1>1, <1>2, <1>5 DEF TypeInv

(* A request is asked for. *)
LEMMA AskKeeps == ASSUME IInv, NEW c \in Clients, Granted(c) PROVE IInv'
<1>1. PICK r \in Requests : Ask(c, r) /\ Holds(r) /\ Unsent(r) BY DEF Granted
<1>2. /\ TypeInv /\ UNCHANGED <<pool, db, free, queue, outrun, hurried>>
      /\ req[c] = None /\ req' = [req EXCEPT ![c] = r]
      /\ stale' = [stale EXCEPT ![c] = FALSE]
  BY <1>1 DEF IInv, Ask
<1>3. req'[c] = r /\ \A d \in Clients \ {c} : req'[d] = req[d] /\ stale'[d] = stale[d]
  BY <1>2 DEF TypeInv
<1>4. TypeInv'
  <2>1. TypeOK' BY <1>2 DEF TypeInv, TypeOK, Exists
  <2>2. req' \in [Clients -> Requests \cup {None}] BY <1>2 DEF TypeInv
  <2>3. stale' \in [Clients -> BOOLEAN] BY <1>2 DEF TypeInv
  <2> QED BY <1>2, <2>1, <2>2, <2>3 DEF TypeInv
<1>5. Checked'
  <2> SUFFICES ASSUME NEW d \in Clients, NEW q \in Requests, q # None,
                      req'[d] = q, ~stale'[d]
               PROVE  Holds(q)'
    BY DEF Checked
  <2>1. CASE d = c
    <3>1. q = r BY <1>3, <2>1
    <3> QED BY <1>1, <1>2, <3>1, HoldsSame
  <2>2. CASE d # c
    <3>1. Holds(q) BY <1>3, <2>2 DEF IInv, Checked
    <3> QED BY <1>2, <3>1, HoldsSame
  <2> QED BY <2>1, <2>2
<1>6. SentApart'
  <2> SUFFICES ASSUME NEW d \in Clients, Doing(d, "execute")'
               PROVE  /\ req'[d].want = Len(req'[d].sent) + Len(req'[d].todo)
                      /\ IsFiniteSet(SentIds(d)')
                      /\ Cardinality(SentIds(d)') = Len(req'[d].sent)
                      /\ \A j \in SentIds(d)' : j \in (queue' \cup outrun') \ free'
                                                  /\ ~Exists("jobs", j)'
                      /\ \A e \in Clients \ {d} :
                           Doing(e, "execute")' => SentIds(d)' \cap SentIds(e)' = {}
    BY DEF SentApart
  <2>1. \A e \in Clients \ {c} :
          SentIds(e)' = SentIds(e) /\ (Doing(e, "execute")' => Doing(e, "execute"))
    BY <1>3 DEF SentIds, Doing
  <2>2. Doing(c, "execute")' =>
          /\ SentIds(c)' = {} /\ r.sent = <<>> /\ r.want = Len(r.todo)
          /\ r.todo \in Seq(NewJobs)
    <3> SUFFICES ASSUME Doing(c, "execute")'
                 PROVE  /\ SentIds(c)' = {} /\ r.sent = <<>> /\ r.want = Len(r.todo)
                        /\ r.todo \in Seq(NewJobs)
      OBVIOUS
    <3>1. r.op = "execute" BY <1>3 DEF Doing
    <3>2. r.sent = <<>> /\ r.want = Len(r.todo) BY <1>1, <3>1 DEF Unsent
    <3>3. r.todo \in Seq(NewJobs) BY <3>1, OtherShape
    <3>4. SentIds(c)' = {} BY <1>3, <3>2 DEF SentIds, IdsOf
    <3> QED BY <3>2, <3>3, <3>4
  <2>3. CASE d = c
    <3>1. /\ SentIds(d)' = {} /\ req'[d].sent = <<>> /\ Len(req'[d].todo) \in Nat
          /\ req'[d].want = Len(req'[d].todo)
      BY <1>3, <2>2, <2>3
    <3>2. req'[d].want = Len(req'[d].sent) + Len(req'[d].todo) BY <3>1
    <3> QED BY <3>1, <3>2, FS_EmptySet
  <2>4. CASE d # c
    <3>1. /\ req[d].want = Len(req[d].sent) + Len(req[d].todo)
          /\ IsFiniteSet(SentIds(d)) /\ Cardinality(SentIds(d)) = Len(req[d].sent)
          /\ \A j \in SentIds(d) : j \in (queue \cup outrun) \ free
                                     /\ ~Exists("jobs", j)
          /\ \A e \in Clients \ {d} :
               Doing(e, "execute") => SentIds(d) \cap SentIds(e) = {}
      BY <2>1, <2>4 DEF IInv, SentApart
    <3>2. \A j : Exists("jobs", j)' <=> Exists("jobs", j) BY <1>2 DEF Exists
    <3> QED BY <1>2, <1>3, <2>1, <2>2, <2>4, <3>1, <3>2
  <2> QED BY <2>3, <2>4
<1> QED BY <1>2, <1>4, <1>5, <1>6, RowsSame, JobsSame DEF IInv

-----------------------------------------------------------------------------
(* What the writes into each table keep.                                   *)

(* Cases and their references while some cases go and folders stay. *)
LEMMA CasesSame ==
  ASSUME IInv, \A k \in Cases : db'.cases[k] \in {db.cases[k], None},
         db'.sources = db.sources, UNCHANGED hurried,
         \A f \in Folders : Exists("folders", f) => Exists("folders", f)'
  PROVE  CaseNamesUnique' /\ CasesRefer'
<1>1. CaseNamesUnique'
  BY DEF IInv, NamesUnique, CaseNamesUnique, Exists
<1>2. ASSUME NEW k \in Cases, Exists("cases", k)' PROVE Referred(db.cases[k])'
  <2>1. PICK row : row = db.cases[k] OBVIOUS
  <2>2. row \in CaseRows /\ Referred(row) /\ row = db'.cases[k]
    BY <1>2, <2>1, RowTypes DEF IInv, RowsRefer, CasesRefer, Exists
  <2>3. Referred(row)'
    BY <2>2 DEF Referred, SourceThere, Exists, CaseRows
  <2> QED BY <2>2, <2>3 DEF Referred, SourceThere, Exists
<1> QED BY <1>1, <1>2 DEF CasesRefer

(* A case is written whose name is free, or marked, and whose references   *)
(* are there, or marked.                                                   *)
LEMMA CaseWritten ==
  ASSUME IInv, NEW k \in Cases, NEW row \in CaseRows,
         db'.cases = [db.cases EXCEPT ![k] = row],
         db'.folders = db.folders, db'.sources = db.sources, UNCHANGED hurried,
         CaseNameFree(row.ds, row.name, {k}) \/ "name" \in row.late,
         Referred(row)
  PROVE  CaseNamesUnique' /\ CasesRefer'
<1>1. db'.cases[k] = row /\ \A l \in Cases \ {k} : db'.cases[l] = db.cases[l]
  BY DEF IInv, TypeInv, TypeOK
<1>2. CaseNamesUnique'
  <2> SUFFICES ASSUME NEW l \in Cases, NEW m \in Cases, l # m,
                      db'.cases[l] # None, db'.cases[m] # None,
                      db'.cases[l].ds = db'.cases[m].ds,
                      db'.cases[l].name = db'.cases[m].name
               PROVE  "name" \in db'.cases[l].late \cup db'.cases[m].late
    BY DEF CaseNamesUnique, Exists
  <2>1. CASE l = k BY <1>1, <2>1 DEF CaseNameFree, Exists
  <2>2. CASE m = k BY <1>1, <2>2 DEF CaseNameFree, Exists
  <2>3. CASE l # k /\ m # k
    BY <1>1, <2>3 DEF IInv, NamesUnique, CaseNamesUnique, Exists
  <2> QED BY <2>1, <2>2, <2>3
<1>3. ASSUME NEW l \in Cases, Exists("cases", l)' PROVE Referred(db.cases[l])'
  <2>1. PICK r : r = db'.cases[l] OBVIOUS
  <2>2. Referred(r)
    BY <1>1, <1>3, <2>1 DEF IInv, RowsRefer, CasesRefer, Exists
  <2>3. Referred(r)' BY <2>2, ReferredSame
  <2> QED BY <2>1, <2>3 DEF Referred, SourceThere, Exists
<1> QED BY <1>2, <1>3 DEF CasesRefer

(* The same for a scene. *)
LEMMA SceneWritten ==
  ASSUME IInv, NEW s \in Scenes, NEW row \in SceneRows,
         db'.scenes = [db.scenes EXCEPT ![s] = row],
         SceneNameFreeIn(row.group, row.name, {s}) \/ "name" \in row.late
  PROVE  SceneNamesUnique'
<1>1. db'.scenes[s] = row /\ \A l \in Scenes \ {s} : db'.scenes[l] = db.scenes[l]
  BY DEF IInv, TypeInv, TypeOK
<1> SUFFICES ASSUME NEW l \in Scenes, NEW m \in Scenes, l # m,
                    db'.scenes[l] # None, db'.scenes[m] # None,
                    db'.scenes[l].group = db'.scenes[m].group,
                    db'.scenes[l].name = db'.scenes[m].name
             PROVE  "name" \in db'.scenes[l].late \cup db'.scenes[m].late
  BY DEF SceneNamesUnique, Exists
<1>2. CASE l = s BY <1>1, <1>2 DEF SceneNameFreeIn, Exists
<1>3. CASE m = s BY <1>1, <1>3 DEF SceneNameFreeIn, Exists
<1>4. CASE l # s /\ m # s
  BY <1>1, <1>4 DEF IInv, NamesUnique, SceneNamesUnique, Exists
<1> QED BY <1>2, <1>3, <1>4

(* Scenes of which some may go. *)
LEMMA ScenesSame ==
  ASSUME IInv, \A s \in Scenes : db'.scenes[s] \in {db.scenes[s], None}
  PROVE  SceneNamesUnique'
  BY DEF IInv, NamesUnique, SceneNamesUnique, Exists

(* Jobs that are left alone. *)
LEMMA JobsReferSame ==
  ASSUME IInv, db'.jobs = db.jobs, db'.sources = db.sources, UNCHANGED hurried
  PROVE  JobsRefer'
  BY DEF IInv, RowsRefer, JobsRefer, JobKnown, SourceThere, Exists

-----------------------------------------------------------------------------
(* The writes. *)

(* What the checks of a new case were about. *)
LEMMA CaseAspects ==
  ASSUME NEW row \in CaseRows
  PROVE  /\ AspectsOf(row) \subseteq Aspects
         /\ "name" \in AspectsOf(row) /\ "source" \in AspectsOf(row)
         /\ row.folder # None => "folder" \in AspectsOf(row)
  BY DEF AspectsOf, Aspects, CaseRows

(* And of a new scene. *)
LEMMA SceneAspects ==
  ASSUME NEW row \in SceneRows
  PROVE  AspectsOf(row) = {"name"}
  BY DEF AspectsOf, SceneRows

(* The row of a case as it is committed, late if it was overtaken: its name *)
(* is free or marked, and so are its references.                           *)
LEMMA CaseLands ==
  ASSUME NEW c, NEW r \in CaseRows, NEW row,
         row = [r EXCEPT !.late = r.late \cup Overtaken(c, AspectsOf(r))],
         ~stale[c] => CaseFits(r)
  PROVE  /\ row \in CaseRows /\ Referred(row)
         /\ CaseNameFree(row.ds, row.name, {}) \/ "name" \in row.late
<1>1. /\ row \in CaseRows /\ row.ds = r.ds /\ row.name = r.name
      /\ row.folder = r.folder /\ row.late = r.late \cup Overtaken(c, AspectsOf(r))
  BY CaseAspects DEF CaseRows, Overtaken
<1>2. CASE stale[c]
  <2>1. Overtaken(c, AspectsOf(r)) = AspectsOf(r) BY <1>2 DEF Overtaken
  <2> QED BY <1>1, <2>1, CaseAspects DEF Referred
<1>3. CASE ~stale[c] BY <1>1, <1>3 DEF CaseFits, Referred
<1> QED BY <1>2, <1>3

(* The request of a client that is doing something. *)
LEMMA DoingFacts ==
  ASSUME IInv, NEW c \in Clients, NEW op, Doing(c, op)
  PROVE  /\ req[c] \in Requests /\ req[c].op = op /\ stale[c] \in BOOLEAN
         /\ ~stale[c] => Holds(req[c])
  BY DEF IInv, TypeInv, Checked, Doing

(* A new row is committed. *)
LEMMA InsertRowKeeps == ASSUME IInv, NEW c \in Clients, InsertRow(c) PROVE IInv'
<1> DEFINE r == req[c]
           late == [r.row EXCEPT !.late = @ \cup Overtaken(c, AspectsOf(r.row))]
           row == IF r.table = "folders" THEN r.row ELSE late
<1>1. PICK id \in free :
        /\ Doing(c, "insert") /\ id \in Ids[r.table]
        /\ db' = [db EXCEPT ![r.table][id] = row]
        /\ free' = free \ {id}
        /\ Done(c) /\ UNCHANGED <<pool, queue, outrun, hurried, faults>>
  BY DEF InsertRow
<1>2. /\ r \in Requests /\ r.op = "insert" /\ stale[c] \in BOOLEAN
      /\ ~stale[c] => Holds(r)
  BY <1>1, DoingFacts
<1>3. TypeInv BY DEF IInv
<1>4. /\ db'[r.table] = [db[r.table] EXCEPT ![id] = row]
      /\ \A t \in Tables \ {r.table} : db'[t] = db[t]
  <2>1. r.table \in Tables BY <1>2, WriteShape DEF Tables
  <2> HIDE DEF row
  <2> QED BY <1>1, <1>3, <2>1, Written
<1>5. CASE r.table = "cases"
  <2>1. /\ r.row \in CaseRows /\ id \in Cases
        /\ row = [r.row EXCEPT !.late = r.row.late \cup Overtaken(c, AspectsOf(r.row))]
    BY <1>1, <1>2, <1>5, WriteShape DEF Ids
  <2>2. ~stale[c] => CaseFits(r.row) BY <1>2, <1>5 DEF Holds
  <2> HIDE DEF row
  <2>3. /\ row \in CaseRows /\ Referred(row)
        /\ CaseNameFree(row.ds, row.name, {}) \/ "name" \in row.late
    BY <1>2, <2>1, <2>2, CaseLands
  <2>4. /\ db'.cases = [db.cases EXCEPT ![id] = row] /\ db'.folders = db.folders
        /\ db'.scenes = db.scenes /\ db'.sources = db.sources /\ db'.jobs = db.jobs
    BY <1>4, <1>5 DEF Tables
  <2>5. CaseNamesUnique' /\ CasesRefer'
    BY <1>1, <2>1, <2>3, <2>4, CaseWritten DEF CaseNameFree
  <2>6. SceneNamesUnique' /\ JobsRefer' BY <1>1, <2>4, ScenesSame, JobsReferSame
  <2>7. TypeInv'
    <3>1. db' \in [cases   : [Cases -> CaseRows \cup {None}],
                   folders : [Folders -> FolderRows \cup {None}],
                   scenes  : [Scenes -> SceneRows \cup {None}],
                   sources : [Sources -> SourceRows \cup {None}],
                   jobs    : [Jobs -> JobRows \cup {None}]]
      BY <1>1, <1>3, <1>5, <2>1, <2>3 DEF TypeInv, TypeOK
    <3>2. \A x \in free' : \A t \in Tables \ {"sources"} :
            x \in Ids[t] /\ ~Exists(t, x) => ~Exists(t, x)'
      BY <1>1, <1>3, <1>5, <2>4 DEF Exists, Tables, TypeInv, TypeOK
    <3> QED BY <1>1, <3>1, <3>2, DoneTyped
  <2>8. Checked' /\ SentApart' /\ QueuedPending' /\ SubmittedWhole'
    BY <1>1, <2>4, DoneKeeps
  <2> QED BY <2>5, <2>6, <2>7, <2>8 DEF IInv, NamesUnique, RowsRefer
<1>6. CASE r.table = "scenes"
  <2>1. /\ r.row \in SceneRows /\ id \in Scenes /\ row = late
    BY <1>1, <1>2, <1>6, WriteShape DEF Ids
  <2>2. /\ row \in SceneRows /\ row.group = r.row.group /\ row.name = r.row.name
        /\ row.late = r.row.late \cup Overtaken(c, {"name"})
    BY <2>1, SceneAspects DEF SceneRows, Overtaken, Aspects
  <2>3. SceneNameFreeIn(row.group, row.name, {id}) \/ "name" \in row.late
    BY <1>2, <1>6, <2>2 DEF Holds, SceneNameFreeIn, Overtaken
  <2> HIDE DEF row
  <2>4. /\ db'.scenes = [db.scenes EXCEPT ![id] = row] /\ db'.folders = db.folders
        /\ db'.cases = db.cases /\ db'.sources = db.sources /\ db'.jobs = db.jobs
    BY <1>4, <1>6 DEF Tables
  <2>5. SceneNamesUnique' BY <2>1, <2>2, <2>3, <2>4, SceneWritten
  <2>6. CaseNamesUnique' /\ CasesRefer' /\ JobsRefer'
    BY <1>1, <2>4, CasesSame, JobsReferSame DEF Exists
  <2>7. TypeInv'
    <3>1. db' \in [cases   : [Cases -> CaseRows \cup {None}],
                   folders : [Folders -> FolderRows \cup {None}],
                   scenes  : [Scenes -> SceneRows \cup {None}],
                   sources : [Sources -> SourceRows \cup {None}],
                   jobs    : [Jobs -> JobRows \cup {None}]]
      BY <1>1, <1>3, <1>6, <2>1, <2>2 DEF TypeInv, TypeOK
    <3>2. \A x \in free' : \A t \in Tables \ {"sources"} :
            x \in Ids[t] /\ ~Exists(t, x) => ~Exists(t, x)'
      BY <1>1, <1>3, <1>6, <2>4 DEF Exists, Tables, TypeInv, TypeOK
    <3> QED BY <1>1, <3>1, <3>2, DoneTyped
  <2>8. Checked' /\ SentApart' /\ QueuedPending' /\ SubmittedWhole'
    BY <1>1, <2>4, DoneKeeps
  <2> QED BY <2>5, <2>6, <2>7, <2>8 DEF IInv, NamesUnique, RowsRefer
<1>7. CASE r.table = "folders"
  <2>1. /\ r.row \in FolderRows /\ id \in Folders /\ row = r.row
    BY <1>1, <1>2, <1>7, WriteShape DEF Ids
  <2> HIDE DEF row
  <2>4. /\ db'.folders = [db.folders EXCEPT ![id] = row] /\ db'.cases = db.cases
        /\ db'.scenes = db.scenes /\ db'.sources = db.sources /\ db'.jobs = db.jobs
    BY <1>4, <1>7 DEF Tables
  <2>5. row # None BY <2>1, RowsAssumption
  <2>6. \A f \in Folders : Exists("folders", f) => Exists("folders", f)'
    BY <1>3, <2>4, <2>5 DEF Exists, TypeInv, TypeOK
  <2>7. NamesUnique' /\ RowsRefer'
    BY <1>1, <2>4, <2>6, CasesSame, ScenesSame, JobsReferSame DEF NamesUnique, RowsRefer
  <2>8. TypeInv'
    <3>1. db' \in [cases   : [Cases -> CaseRows \cup {None}],
                   folders : [Folders -> FolderRows \cup {None}],
                   scenes  : [Scenes -> SceneRows \cup {None}],
                   sources : [Sources -> SourceRows \cup {None}],
                   jobs    : [Jobs -> JobRows \cup {None}]]
      BY <1>1, <1>3, <1>7, <2>1 DEF TypeInv, TypeOK
    <3>2. \A x \in free' : \A t \in Tables \ {"sources"} :
            x \in Ids[t] /\ ~Exists(t, x) => ~Exists(t, x)'
      BY <1>1, <1>3, <1>7, <2>4 DEF Exists, Tables, TypeInv, TypeOK
    <3> QED BY <1>1, <3>1, <3>2, DoneTyped
  <2>9. Checked' /\ SentApart' /\ QueuedPending' /\ SubmittedWhole'
    BY <1>1, <2>4, DoneKeeps
  <2> QED BY <2>7, <2>8, <2>9 DEF IInv
<1> QED BY <1>2, <1>5, <1>6, <1>7, WriteShape

(* The tables keep their types. *)
DbTyped(d) ==
  d \in [cases   : [Cases -> CaseRows \cup {None}],
         folders : [Folders -> FolderRows \cup {None}],
         scenes  : [Scenes -> SceneRows \cup {None}],
         sources : [Sources -> SourceRows \cup {None}],
         jobs    : [Jobs -> JobRows \cup {None}]]

(* A request that ends and has changed nothing. *)
LEMMA IdleDone ==
  ASSUME IInv, NEW c \in Clients, Done(c),
         UNCHANGED <<pool, db, free, queue, outrun, hurried>>
  PROVE  IInv'
<1>1. TypeInv'
  <2>1. TypeInv BY DEF IInv
  <2> QED BY <2>1, DoneTyped DEF TypeInv, TypeOK, Exists
<1> QED BY <1>1, DoneKeeps, RowsSame DEF IInv

(* update_case: the name is free or marked, the references are as before. *)
LEMMA UpdateCaseRowKeeps ==
  ASSUME IInv, NEW c \in Clients, UpdateRow(c), req[c].table = "cases",
         db.cases[req[c].id] # None
  PROVE  IInv'
<1> DEFINE r == req[c]
           old == db.cases[r.id]
           row == [Assigned(old, r.set) EXCEPT
                     !.late = (@ \ r.renews) \cup r.late \cup Overtaken(c, r.renews)]
<1>1. /\ Doing(c, "update") /\ db' = [db EXCEPT !.cases[r.id] = row]
      /\ Done(c) /\ UNCHANGED <<pool, free, queue, outrun, hurried, faults>>
  BY DEF UpdateRow
<1>2. /\ r \in Requests /\ r.op = "update" /\ (~stale[c] => Holds(r))
  BY <1>1, DoingFacts
<1>3. TypeInv BY DEF IInv
<1>4. /\ r.id \in Cases /\ r.set \in [name : Names]
      /\ r.renews = {"name"} /\ r.late = {}
  BY <1>2, WriteShape
<1>5. old \in CaseRows /\ Referred(old)
  BY <1>3, <1>4, RowTypes DEF Exists, IInv, RowsRefer, CasesRefer
<1>6. Assigned(old, r.set) = [old EXCEPT !.name = r.set.name]
  <2>1. "nodes" \notin DOMAIN r.set BY <1>4
  <2> QED BY <2>1 DEF Assigned
<1>7. row = [[old EXCEPT !.name = r.set.name] EXCEPT
               !.late = (old.late \ {"name"}) \cup Overtaken(c, {"name"})]
  BY <1>4, <1>5, <1>6 DEF CaseRows
<1> HIDE DEF row
<1>8. /\ row \in CaseRows /\ row.ds = old.ds /\ row.name = r.set.name
      /\ row.folder = old.folder
      /\ row.late = (old.late \ {"name"}) \cup Overtaken(c, {"name"})
  BY <1>4, <1>5, <1>7 DEF CaseRows, Overtaken, Aspects
<1>9. Referred(row) BY <1>5, <1>8 DEF Referred
<1>10. CaseNameFree(row.ds, row.name, {r.id}) \/ "name" \in row.late
  <2>1. CASE stale[c] BY <1>8, <2>1 DEF Overtaken
  <2>2. CASE ~stale[c] BY <1>2, <1>8, <2>2 DEF Holds
  <2> QED BY <2>1, <2>2
<1>11. /\ db'.cases = [db.cases EXCEPT ![r.id] = row] /\ db'.folders = db.folders
       /\ db'.scenes = db.scenes /\ db'.sources = db.sources /\ db'.jobs = db.jobs
  BY <1>1, <1>3 DEF TypeInv, TypeOK
<1>12. CaseNamesUnique' /\ CasesRefer'
  BY <1>1, <1>4, <1>8, <1>9, <1>10, <1>11, CaseWritten
<1>13. SceneNamesUnique' /\ JobsRefer' BY <1>1, <1>11, ScenesSame, JobsReferSame
<1>14. TypeInv'
  <2>1. DbTyped(db') BY <1>1, <1>3, <1>4, <1>8 DEF DbTyped, TypeInv, TypeOK
  <2>2. \A x \in free' : \A t \in Tables \ {"sources"} :
          x \in Ids[t] /\ ~Exists(t, x) => ~Exists(t, x)'
    BY <1>3, <1>4, <1>11 DEF Exists, Tables, Ids, TypeInv, TypeOK
  <2> QED BY <1>1, <2>1, <2>2, DoneTyped DEF DbTyped
<1> QED BY <1>1, <1>11, <1>12, <1>13, <1>14, DoneKeeps DEF IInv, NamesUnique, RowsRefer

(* update_scene: its group stays. *)
LEMMA UpdateSceneRowKeeps ==
  ASSUME IInv, NEW c \in Clients, UpdateRow(c), req[c].table = "scenes",
         db.scenes[req[c].id] # None
  PROVE  IInv'
<1> DEFINE r == req[c]
           old == db.scenes[r.id]
           row == [Assigned(old, r.set) EXCEPT
                     !.late = (@ \ r.renews) \cup r.late \cup Overtaken(c, r.renews)]
<1>1. /\ Doing(c, "update") /\ db' = [db EXCEPT !.scenes[r.id] = row]
      /\ Done(c) /\ UNCHANGED <<pool, free, queue, outrun, hurried, faults>>
  BY DEF UpdateRow
<1>2. /\ r \in Requests /\ r.op = "update" /\ (~stale[c] => Holds(r))
  BY <1>1, DoingFacts
<1>3. TypeInv BY DEF IInv
<1>4. /\ r.id \in Scenes /\ r.set \in [name : Names, nodes : SUBSET Cases]
      /\ r.renews = {"name"} /\ r.late \in {{}, {"name"}}
  BY <1>2, WriteShape
<1>5. old \in SceneRows BY <1>3, <1>4, RowTypes DEF Exists
<1>6. Assigned(old, r.set) = [old EXCEPT !.name = r.set.name, !.nodes = r.set.nodes]
  <2>1. "nodes" \in DOMAIN r.set BY <1>4
  <2> QED BY <2>1 DEF Assigned
<1>7. row = [[old EXCEPT !.name = r.set.name, !.nodes = r.set.nodes] EXCEPT
               !.late = (old.late \ {"name"}) \cup r.late \cup Overtaken(c, {"name"})]
  BY <1>4, <1>5, <1>6 DEF SceneRows
<1> HIDE DEF row
<1>8. /\ row \in SceneRows /\ row.group = old.group /\ row.name = r.set.name
      /\ row.late = (old.late \ {"name"}) \cup r.late \cup Overtaken(c, {"name"})
  BY <1>4, <1>5, <1>7 DEF SceneRows, Overtaken, Aspects
<1>10. SceneNameFreeIn(row.group, row.name, {r.id}) \/ "name" \in row.late
  <2>1. CASE stale[c] BY <1>8, <2>1 DEF Overtaken
  <2>2. CASE ~stale[c] BY <1>2, <1>8, <2>2 DEF Holds
  <2> QED BY <2>1, <2>2
<1>11. /\ db'.scenes = [db.scenes EXCEPT ![r.id] = row] /\ db'.folders = db.folders
       /\ db'.cases = db.cases /\ db'.sources = db.sources /\ db'.jobs = db.jobs
  BY <1>1, <1>3 DEF TypeInv, TypeOK
<1>12. SceneNamesUnique' BY <1>4, <1>8, <1>10, <1>11, SceneWritten
<1>13. CaseNamesUnique' /\ CasesRefer' /\ JobsRefer'
  BY <1>1, <1>11, CasesSame, JobsReferSame DEF Exists
<1>14. TypeInv'
  <2>1. DbTyped(db') BY <1>1, <1>3, <1>4, <1>8 DEF DbTyped, TypeInv, TypeOK
  <2>2. \A x \in free' : \A t \in Tables \ {"sources"} :
          x \in Ids[t] /\ ~Exists(t, x) => ~Exists(t, x)'
    BY <1>3, <1>4, <1>11 DEF Exists, Tables, Ids, TypeInv, TypeOK
  <2> QED BY <1>1, <2>1, <2>2, DoneTyped DEF DbTyped
<1> QED BY <1>1, <1>11, <1>12, <1>13, <1>14, DoneKeeps DEF IInv, NamesUnique, RowsRefer

(* rename_folder: it stays where it is. *)
LEMMA UpdateFolderRowKeeps ==
  ASSUME IInv, NEW c \in Clients, UpdateRow(c), req[c].table = "folders"
  PROVE  IInv'
<1> DEFINE r == req[c]
           old == db.folders[r.id]
           row == Assigned(old, r.set)
<1>1. /\ Doing(c, "update") /\ old # None
      /\ db' = [db EXCEPT !.folders[r.id] = row]
      /\ Done(c) /\ UNCHANGED <<pool, free, queue, outrun, hurried, faults>>
  BY DEF UpdateRow
<1>2. r \in Requests /\ r.op = "update" BY <1>1, DoingFacts
<1>3. TypeInv BY DEF IInv
<1>4. r.id \in Folders /\ r.set \in [name : Names] BY <1>2, WriteShape
<1>5. old \in FolderRows BY <1>1, <1>3, <1>4, RowTypes DEF Exists
<1>6. row \in FolderRows
  <2>1. "nodes" \notin DOMAIN r.set BY <1>4
  <2> QED BY <1>4, <1>5, <2>1 DEF Assigned, FolderRows
<1>7. row # None BY <1>6, RowsAssumption
<1> HIDE DEF row
<1>8. /\ db'.folders = [db.folders EXCEPT ![r.id] = row] /\ db'.cases = db.cases
      /\ db'.scenes = db.scenes /\ db'.sources = db.sources /\ db'.jobs = db.jobs
  BY <1>1, <1>3 DEF TypeInv, TypeOK
<1>9. \A f \in Folders : Exists("folders", f)' <=> Exists("folders", f)
  BY <1>1, <1>3, <1>7, <1>8 DEF Exists, TypeInv, TypeOK
<1>10. NamesUnique' /\ RowsRefer'
  BY <1>1, <1>8, <1>9, CasesSame, ScenesSame, JobsReferSame DEF NamesUnique, RowsRefer
<1>11. TypeInv'
  <2>1. DbTyped(db') BY <1>1, <1>3, <1>4, <1>6 DEF DbTyped, TypeInv, TypeOK
  <2>2. \A x \in free' : \A t \in Tables \ {"sources"} :
          x \in Ids[t] /\ ~Exists(t, x) => ~Exists(t, x)'
    BY <1>8, <1>9 DEF Exists, Tables, Ids
  <2> QED BY <1>1, <2>1, <2>2, DoneTyped DEF DbTyped
<1> QED BY <1>1, <1>8, <1>10, <1>11, DoneKeeps DEF IInv

(* The columns of a row are assigned. *)
LEMMA UpdateRowKeeps == ASSUME IInv, NEW c \in Clients, UpdateRow(c) PROVE IInv'
<1> DEFINE r == req[c]
<1>1. r \in Requests /\ r.op = "update" BY DoingFacts DEF UpdateRow
<1>2. CASE r.table = "folders" BY <1>2, UpdateFolderRowKeeps
<1>3. CASE r.table # "folders" /\ db[r.table][r.id] = None
  <2>1. Done(c) /\ UNCHANGED <<pool, db, free, queue, outrun, hurried>>
    BY <1>3 DEF UpdateRow
  <2> QED BY <2>1, IdleDone
<1>4. CASE r.table = "cases" /\ db[r.table][r.id] # None
  BY <1>4, UpdateCaseRowKeeps
<1>5. CASE r.table = "scenes" /\ db[r.table][r.id] # None
  BY <1>5, UpdateSceneRowKeeps
<1> QED BY <1>1, <1>2, <1>3, <1>4, <1>5, WriteShape

(* delete_case, delete_scene. *)
LEMMA DeleteRowKeeps == ASSUME IInv, NEW c \in Clients, DeleteRow(c) PROVE IInv'
<1> DEFINE r == req[c]
<1>1. /\ Doing(c, "delete") /\ db' = [db EXCEPT ![r.table][r.id] = None]
      /\ Done(c) /\ UNCHANGED <<pool, free, queue, outrun, hurried, faults>>
  BY DEF DeleteRow
<1>2. r \in Requests /\ r.op = "delete" BY <1>1, DoingFacts
<1>3. TypeInv BY DEF IInv
<1>4. \/ r.table = "cases" /\ r.id \in Cases
      \/ r.table = "scenes" /\ r.id \in Scenes
  BY <1>2, WriteShape
<1>5. /\ db'[r.table] = [db[r.table] EXCEPT ![r.id] = None]
      /\ \A t \in Tables \ {r.table} : db'[t] = db[t]
  <2>1. r.table \in Tables BY <1>4 DEF Tables
  <2>2. db' = [db EXCEPT ![r.table][r.id] = None] BY <1>1
  <2> HIDE DEF r
  <2> QED BY <1>3, <2>1, <2>2, Written
<1>6. /\ db'.folders = db.folders /\ db'.sources = db.sources /\ db'.jobs = db.jobs
      /\ \A k \in Cases : db'.cases[k] \in {db.cases[k], None}
      /\ \A s \in Scenes : db'.scenes[s] \in {db.scenes[s], None}
  BY <1>3, <1>4, <1>5 DEF Tables, TypeInv, TypeOK
<1>7. NamesUnique' /\ RowsRefer'
  BY <1>1, <1>6, CasesSame, ScenesSame, JobsReferSame DEF NamesUnique, RowsRefer, Exists
<1>8. TypeInv'
  <2>1. DbTyped(db') BY <1>1, <1>3, <1>4 DEF DbTyped, TypeInv, TypeOK
  <2>2. \A x \in free' : \A t \in Tables \ {"sources"} :
          x \in Ids[t] /\ ~Exists(t, x) => ~Exists(t, x)'
    BY <1>6 DEF Exists, Tables, Ids
  <2> QED BY <1>1, <2>1, <2>2, DoneTyped DEF DbTyped
<1> QED BY <1>1, <1>6, <1>7, <1>8, DoneKeeps DEF IInv

(* Cases that are filed elsewhere keep their names. *)
LEMMA CasesRefiled ==
  ASSUME IInv,
         \A k \in Cases : db'.cases[k] # None =>
           /\ db.cases[k] # None
           /\ db'.cases[k].ds = db.cases[k].ds /\ db'.cases[k].name = db.cases[k].name
           /\ "name" \in db.cases[k].late => "name" \in db'.cases[k].late
  PROVE  CaseNamesUnique'
  BY DEF IInv, NamesUnique, CaseNamesUnique, Exists

(* move_cases: the cases there are now go to the folder, which is there,   *)
(* or are marked.                                                          *)
LEMMA MoveKeeps == ASSUME IInv, NEW c \in Clients, Move(c) PROVE IInv'
<1> DEFINE r == req[c]
           Moved(row) == [row EXCEPT !.folder = r.folder,
                                     !.late = (@ \ {"folder"})
                                                \cup Overtaken(c, {"folder"})]
           cases == [k \in Cases |-> IF k \in r.ids /\ Exists("cases", k)
                                     THEN Moved(db.cases[k]) ELSE db.cases[k]]
<1>1. /\ Doing(c, "move") /\ db' = [db EXCEPT !.cases = cases]
      /\ Done(c) /\ UNCHANGED <<pool, free, queue, outrun, hurried, faults>>
  BY DEF Move
<1>2. /\ r \in Requests /\ r.op = "move" /\ (~stale[c] => Holds(r))
  BY <1>1, DoingFacts
<1>3. TypeInv BY DEF IInv
<1>4. r.ids \subseteq Cases /\ r.folder \in Folders \cup {None} BY <1>2, OtherShape
<1>5. ASSUME NEW k \in Cases, Exists("cases", k)
      PROVE  /\ db.cases[k] \in CaseRows /\ Moved(db.cases[k]) \in CaseRows
             /\ Moved(db.cases[k]).ds = db.cases[k].ds
             /\ Moved(db.cases[k]).name = db.cases[k].name
             /\ Moved(db.cases[k]).folder = r.folder
             /\ Moved(db.cases[k]).late = (db.cases[k].late \ {"folder"})
                                             \cup Overtaken(c, {"folder"})
  <2>1. db.cases[k] \in CaseRows BY <1>3, <1>5, RowTypes
  <2> QED BY <1>4, <2>1 DEF CaseRows, Overtaken, Aspects
<1> HIDE DEF Moved
<1>6. \A k \in Cases : cases[k] = IF k \in r.ids /\ Exists("cases", k)
                                  THEN Moved(db.cases[k]) ELSE db.cases[k]
  OBVIOUS
<1>7. cases \in [Cases -> CaseRows \cup {None}]
  BY <1>3, <1>5 DEF TypeInv, TypeOK
<1> HIDE DEF cases
<1>8. /\ db'.cases = cases /\ db'.folders = db.folders /\ db'.scenes = db.scenes
      /\ db'.sources = db.sources /\ db'.jobs = db.jobs
  BY <1>1, <1>3 DEF TypeInv, TypeOK
<1>9. CaseNamesUnique'
  <2> SUFFICES ASSUME NEW k \in Cases, db'.cases[k] # None
               PROVE  /\ db.cases[k] # None
                      /\ db'.cases[k].ds = db.cases[k].ds
                      /\ db'.cases[k].name = db.cases[k].name
                      /\ "name" \in db.cases[k].late => "name" \in db'.cases[k].late
    BY CasesRefiled
  <2>1. CASE k \in r.ids /\ Exists("cases", k)
    BY <1>5, <1>6, <1>8, <2>1 DEF Exists
  <2>2. CASE ~(k \in r.ids /\ Exists("cases", k)) BY <1>6, <1>8, <2>2 DEF Exists
  <2> QED BY <2>1, <2>2
<1>10. CasesRefer'
  <2> SUFFICES ASSUME NEW k \in Cases, NEW row, row = db'.cases[k], row # None
               PROVE  Referred(row)'
    BY DEF CasesRefer, Exists, Referred, SourceThere
  <2>1. Exists("cases", k) BY <1>6, <1>8 DEF Exists
  <2>2. Referred(db.cases[k]) BY <2>1 DEF IInv, RowsRefer, CasesRefer
  <2>3. CASE k \in r.ids
    <3>1. row = Moved(db.cases[k]) BY <1>6, <1>8, <2>1, <2>3
    <3>2. /\ row.ds = db.cases[k].ds /\ row.folder = r.folder
          /\ row.late = (db.cases[k].late \ {"folder"}) \cup Overtaken(c, {"folder"})
      BY <1>5, <2>1, <3>1
    <3>3. SourceThere(row.ds) \/ "source" \in row.late BY <2>2, <3>2 DEF Referred
    <3>4. row.folder = None \/ Exists("folders", row.folder) \/ "folder" \in row.late
      <4>1. CASE stale[c] BY <3>2, <4>1 DEF Overtaken
      <4>2. CASE ~stale[c] BY <1>2, <3>2, <4>2 DEF Holds
      <4> QED BY <4>1, <4>2
    <3> QED BY <1>1, <1>8, <3>3, <3>4, ReferredSame DEF Referred
  <2>4. CASE k \notin r.ids
    <3>1. row = db.cases[k] BY <1>6, <1>8, <2>4
    <3> QED BY <1>1, <1>8, <2>2, <3>1, ReferredSame
  <2> QED BY <2>3, <2>4
<1>11. SceneNamesUnique' /\ JobsRefer' BY <1>1, <1>8, ScenesSame, JobsReferSame
<1>12. TypeInv'
  <2>1. DbTyped(db') BY <1>1, <1>3, <1>7 DEF DbTyped, TypeInv, TypeOK
  <2>2. \A x \in free' : \A t \in Tables \ {"sources"} :
          x \in Ids[t] /\ ~Exists(t, x) => ~Exists(t, x)'
    BY <1>6, <1>8 DEF Exists, Tables, Ids
  <2> QED BY <1>1, <2>1, <2>2, DoneTyped DEF DbTyped
<1> QED BY <1>1, <1>8, <1>9, <1>10, <1>11, <1>12, DoneKeeps DEF IInv, NamesUnique, RowsRefer

(* delete_folder: the cases it holds by then are in no folder any more. *)
LEMMA RemoveFolderKeeps == ASSUME IInv, NEW c \in Clients, RemoveFolder(c) PROVE IInv'
<1> DEFINE f == req[c].id
           cases == [k \in Cases |->
                       IF Exists("cases", k) /\ db.cases[k].folder = f
                       THEN [db.cases[k] EXCEPT !.folder = None] ELSE db.cases[k]]
<1>1. /\ Doing(c, "delete folder")
      /\ db' = [db EXCEPT !.cases = cases, !.folders[f] = None]
      /\ Done(c) /\ UNCHANGED <<pool, free, queue, outrun, hurried, faults>>
  BY DEF RemoveFolder
<1>2. f \in Folders BY <1>1, DoingFacts, OtherShape
<1>3. TypeInv BY DEF IInv
<1> DEFINE Unfiled(row) == [row EXCEPT !.folder = None]
<1>4. ASSUME NEW k \in Cases, Exists("cases", k)
      PROVE  /\ db.cases[k] \in CaseRows /\ Unfiled(db.cases[k]) \in CaseRows
             /\ Unfiled(db.cases[k]).ds = db.cases[k].ds
             /\ Unfiled(db.cases[k]).name = db.cases[k].name
             /\ Unfiled(db.cases[k]).folder = None
             /\ Unfiled(db.cases[k]).late = db.cases[k].late
  <2>1. db.cases[k] \in CaseRows BY <1>3, <1>4, RowTypes
  <2> QED BY <2>1 DEF CaseRows
<1>5. \A k \in Cases : cases[k] = IF Exists("cases", k) /\ db.cases[k].folder = f
                                  THEN Unfiled(db.cases[k]) ELSE db.cases[k]
  OBVIOUS
<1> HIDE DEF Unfiled
<1>6. cases \in [Cases -> CaseRows \cup {None}]
  <2>1. \A k \in Cases : cases[k] \in CaseRows \cup {None}
    BY <1>3, <1>4, <1>5 DEF TypeInv, TypeOK
  <2> QED BY <2>1
<1> HIDE DEF cases, f
<1>7. /\ db'.cases = cases /\ db'.folders = [db.folders EXCEPT ![f] = None]
      /\ db'.scenes = db.scenes /\ db'.sources = db.sources /\ db'.jobs = db.jobs
  BY <1>1, <1>3 DEF TypeInv, TypeOK
<1>8. CaseNamesUnique'
  <2> SUFFICES ASSUME NEW k \in Cases, db'.cases[k] # None
               PROVE  /\ db.cases[k] # None
                      /\ db'.cases[k].ds = db.cases[k].ds
                      /\ db'.cases[k].name = db.cases[k].name
                      /\ "name" \in db.cases[k].late => "name" \in db'.cases[k].late
    BY CasesRefiled
  <2>1. CASE Exists("cases", k) /\ db.cases[k].folder = f
    BY <1>4, <1>5, <1>7, <2>1 DEF Exists
  <2>2. CASE ~(Exists("cases", k) /\ db.cases[k].folder = f)
    BY <1>5, <1>7, <2>2 DEF Exists
  <2> QED BY <2>1, <2>2
<1>9. CasesRefer'
  <2> SUFFICES ASSUME NEW k \in Cases, NEW row, row = db'.cases[k], row # None
               PROVE  Referred(row)'
    BY DEF CasesRefer, Exists, Referred, SourceThere
  <2>1. Exists("cases", k) BY <1>5, <1>7 DEF Exists
  <2>2. Referred(db.cases[k]) /\ db.cases[k] \in CaseRows
    BY <1>4, <2>1 DEF IInv, RowsRefer, CasesRefer
  <2>3. \A s : SourceThere(s)' <=> SourceThere(s)
    BY <1>1, <1>7 DEF SourceThere, Exists
  <2>4. CASE db.cases[k].folder = f
    <3>1. row = Unfiled(db.cases[k]) BY <1>5, <1>7, <2>1, <2>4
    <3>2. row.ds = db.cases[k].ds /\ row.folder = None /\ row.late = db.cases[k].late
      BY <1>4, <2>1, <3>1
    <3> QED BY <2>2, <2>3, <3>2 DEF Referred
  <2>5. CASE db.cases[k].folder # f
    <3>1. row = db.cases[k] BY <1>5, <1>7, <2>5
    <3>2. row.folder = None \/ row.folder \in Folders \ {f}
      BY <2>2, <2>5, <3>1 DEF CaseRows
    <3>3. \A g \in Folders \ {f} : Exists("folders", g) => Exists("folders", g)'
      BY <1>3, <1>7 DEF Exists, TypeInv, TypeOK
    <3> QED BY <2>2, <2>3, <3>1, <3>2, <3>3 DEF Referred
  <2> QED BY <2>4, <2>5
<1>10. SceneNamesUnique' /\ JobsRefer' BY <1>1, <1>7, ScenesSame, JobsReferSame
<1>11. TypeInv'
  <2>1. DbTyped(db') BY <1>1, <1>2, <1>3, <1>6 DEF DbTyped, TypeInv, TypeOK
  <2>2. \A x \in free' : \A t \in Tables \ {"sources"} :
          x \in Ids[t] /\ ~Exists(t, x) => ~Exists(t, x)'
    BY <1>3, <1>5, <1>7 DEF Exists, Tables, Ids, TypeInv, TypeOK
  <2> QED BY <1>1, <2>1, <2>2, DoneTyped DEF DbTyped
<1> QED BY <1>1, <1>7, <1>8, <1>9, <1>10, <1>11, DoneKeeps DEF IInv, NamesUnique, RowsRefer

(* delete_datasource: nobody uses the source, or its deletion was hurried. *)
LEMMA RemoveSourceKeeps == ASSUME IInv, NEW c \in Clients, RemoveSource(c) PROVE IInv'
<1> DEFINE s == req[c].id
<1>1. /\ Doing(c, "delete source") /\ db' = [db EXCEPT !.sources[s] = None]
      /\ hurried' = hurried \cup Overtaken(c, {s})
      /\ Done(c) /\ UNCHANGED <<pool, free, queue, outrun, faults>>
  BY DEF RemoveSource
<1>2. s \in Sources /\ (~stale[c] => SourceUnused(s))
  BY <1>1, DoingFacts, OtherShape DEF Holds
<1>3. TypeInv BY DEF IInv
<1> HIDE DEF s
<1>4. /\ db'.cases = db.cases /\ db'.folders = db.folders /\ db'.scenes = db.scenes
      /\ db'.sources = [db.sources EXCEPT ![s] = None] /\ db'.jobs = db.jobs
  BY <1>1, <1>3 DEF TypeInv, TypeOK
<1>5. ASSUME NEW x \in Sources, SourceThere(x), stale[c] \/ x # s
      PROVE  SourceThere(x)'
  <2>1. CASE x = s BY <1>1, <1>5, <2>1 DEF SourceThere, Overtaken
  <2>2. CASE x # s
    BY <1>1, <1>3, <1>4, <1>5, <2>2 DEF SourceThere, Exists, TypeInv, TypeOK
  <2> QED BY <2>1, <2>2
<1>6. CasesRefer'
  <2> SUFFICES ASSUME NEW k \in Cases, NEW row, row = db.cases[k], row # None
               PROVE  Referred(row)'
    BY <1>4 DEF CasesRefer, Exists, Referred, SourceThere
  <2>1. Referred(row) /\ row \in CaseRows /\ (~stale[c] => row.ds # s)
    BY <1>2, <1>3, RowTypes DEF IInv, RowsRefer, CasesRefer, SourceUnused, Exists
  <2>2. row.ds \in Sources BY <2>1 DEF CaseRows
  <2>3. SourceThere(row.ds)' \/ "source" \in row.late
    BY <1>5, <2>1, <2>2 DEF Referred
  <2>4. Exists("folders", row.folder)' <=> Exists("folders", row.folder)
    BY <1>4 DEF Exists
  <2> QED BY <2>1, <2>3, <2>4 DEF Referred
<1>7. JobsRefer'
  <2> SUFFICES ASSUME NEW j \in Jobs, NEW row, row = db.jobs[j], row # None
               PROVE  JobKnown(row)'
    BY <1>4 DEF JobsRefer, Exists, JobKnown, SourceThere
  <2>1. /\ JobKnown(row) /\ row \in JobRows
        /\ ~stale[c] => row.ds # s \/ row.status = "done"
    BY <1>2, <1>3, RowTypes DEF IInv, RowsRefer, JobsRefer, SourceUnused, Exists
  <2>2. row.ds \in Sources \cup {None} BY <2>1 DEF JobRows
  <2> QED BY <1>5, <2>1, <2>2 DEF JobKnown
<1>8. NamesUnique'
  BY <1>4, ScenesSame DEF NamesUnique, CaseNamesUnique, IInv, Exists
<1>9. TypeInv'
  <2>1. DbTyped(db') BY <1>1, <1>2, <1>3 DEF DbTyped, TypeInv, TypeOK
  <2>2. \A x \in free' : \A t \in Tables \ {"sources"} :
          x \in Ids[t] /\ ~Exists(t, x) => ~Exists(t, x)'
    BY <1>4 DEF Exists, Tables, Ids
  <2> QED BY <1>1, <2>1, <2>2, DoneTyped DEF DbTyped
<1> QED BY <1>1, <1>4, <1>6, <1>7, <1>8, <1>9, DoneKeeps DEF IInv, RowsRefer

-----------------------------------------------------------------------------
(* Messages, commits of jobs, and workers. *)

(* What an execution holds. *)
LEMMA ExecutionFacts ==
  ASSUME IInv, NEW c \in Clients, Doing(c, "execute")
  PROVE  /\ req[c] \in [op : {"execute"}, case : FreshCases \cup {None},
                        todo : Seq(NewJobs), sent : Seq(Jobs \X NewJobs), want : Nat]
         /\ req[c].todo \in Seq(NewJobs) /\ req[c].sent \in Seq(Jobs \X NewJobs)
         /\ req[c].case \in FreshCases \cup {None}
         /\ ~stale[c] => (req[c].case # None => CaseFits(req[c].case))
                            /\ JobsKnown(req[c])
  BY DoingFacts, OtherShape DEF Holds

(* The ids of one more message. *)
LEMMA OneMoreSent ==
  ASSUME NEW s \in Seq(Jobs \X NewJobs), NEW j \in Jobs, NEW row \in NewJobs,
         NEW t, t = Append(s, <<j, row>>)
  PROVE  /\ t \in Seq(Jobs \X NewJobs) /\ Len(t) = Len(s) + 1
         /\ IdsOf(t) = IdsOf(s) \cup {j}
         /\ \A i \in DOMAIN t :
              t[i] = <<j, row>> \/ (i \in DOMAIN s /\ t[i] = s[i])
<1>1. <<j, row>> \in Jobs \X NewJobs /\ <<j, row>>[1] = j OBVIOUS
<1>2. t \in Seq(Jobs \X NewJobs) /\ Len(t) = Len(s) + 1 /\ DOMAIN t = 1..Len(s) + 1
  BY <1>1
<1>3. /\ \A i \in 1..Len(s) : t[i] = s[i]
      /\ t[Len(s) + 1] = <<j, row>>
  BY <1>1
<1>4. Len(s) \in Nat /\ DOMAIN s = 1..Len(s) OBVIOUS
<1>5. \A i \in DOMAIN t : i \in 1..Len(s) \/ i = Len(s) + 1 BY <1>2, <1>4
<1>6. Len(s) + 1 \in DOMAIN t /\ \A i \in 1..Len(s) : i \in DOMAIN t BY <1>2, <1>4
<1>7. IdsOf(t) = IdsOf(s) \cup {j}
  <2>1. PICK n : n = Len(s) + 1 OBVIOUS
  <2>2. /\ \A i \in DOMAIN t : i \in DOMAIN s \/ i = n
        /\ n \in DOMAIN t /\ \A i \in DOMAIN s : i \in DOMAIN t
    BY <1>4, <1>5, <1>6, <2>1
  <2>3. t[n][1] = j /\ \A i \in DOMAIN s : t[i] = s[i] BY <1>1, <1>3, <1>4, <2>1
  <2> QED BY ONLY <2>2, <2>3 DEF IdsOf
<1>8. \A i \in DOMAIN t : t[i] = <<j, row>> \/ (i \in DOMAIN s /\ t[i] = s[i])
  BY <1>3, <1>4, <1>5
<1> QED BY <1>2, <1>7, <1>8

(* A message is sent: its id was not handed out to anybody else. *)
LEMMA SendNextKeeps == ASSUME IInv, NEW c \in Clients, SendNext(c) PROVE IInv'
<1> DEFINE r == req[c]
<1>1. PICK j \in free \cap Jobs :
        /\ Doing(c, "execute") /\ r.todo # <<>>
        /\ req' = [req EXCEPT ![c].sent = Append(@, <<j, Head(r.todo)>>),
                              ![c].todo = Tail(@)]
        /\ queue' = queue \cup {j} /\ free' = free \ {j}
        /\ UNCHANGED <<pool, db, stale, outrun, hurried, faults>>
  BY DEF SendNext
<1>2. TypeInv BY DEF IInv
<1>3. /\ r \in [op : {"execute"}, case : FreshCases \cup {None}, todo : Seq(NewJobs),
                sent : Seq(Jobs \X NewJobs), want : Nat]
      /\ r.todo \in Seq(NewJobs) /\ r.sent \in Seq(Jobs \X NewJobs)
  BY <1>1, ExecutionFacts
<1> DEFINE row == Head(r.todo)
           sent == Append(r.sent, <<j, row>>)
           q == [r EXCEPT !.sent = sent, !.todo = Tail(r.todo)]
<1>4. row \in NewJobs /\ Tail(r.todo) \in Seq(NewJobs) /\ row = r.todo[1]
      /\ Len(Tail(r.todo)) = Len(r.todo) - 1 /\ Len(r.todo) \in Nat \ {0}
      /\ 1 \in DOMAIN r.todo
      /\ \A i \in DOMAIN Tail(r.todo) : i + 1 \in DOMAIN r.todo
                                          /\ Tail(r.todo)[i] = r.todo[i + 1]
  BY <1>1, <1>3
<1>5. /\ sent \in Seq(Jobs \X NewJobs) /\ Len(sent) = Len(r.sent) + 1
      /\ IdsOf(sent) = IdsOf(r.sent) \cup {j}
      /\ \A i \in DOMAIN sent :
           sent[i] = <<j, row>> \/ (i \in DOMAIN r.sent /\ sent[i] = r.sent[i])
  <2>1. PICK s \in Seq(Jobs \X NewJobs) : s = r.sent BY <1>3
  <2>2. PICK x \in NewJobs : x = row BY <1>4
  <2>3. PICK t : t = Append(s, <<j, x>>) OBVIOUS
  <2>4. /\ t \in Seq(Jobs \X NewJobs) /\ Len(t) = Len(s) + 1
        /\ IdsOf(t) = IdsOf(s) \cup {j}
        /\ \A i \in DOMAIN t : t[i] = <<j, x>> \/ (i \in DOMAIN s /\ t[i] = s[i])
    <3>1. j \in Jobs OBVIOUS
    <3> HIDE DEF sent, row, r
    <3>2. \A z : z = Append(s, <<j, x>>) =>
            /\ z \in Seq(Jobs \X NewJobs) /\ Len(z) = Len(s) + 1
            /\ IdsOf(z) = IdsOf(s) \cup {j}
            /\ \A i \in DOMAIN z :
                 z[i] = <<j, x>> \/ (i \in DOMAIN s /\ z[i] = s[i])
      BY ONLY <3>1, OneMoreSent
    <3> QED BY <2>3, <3>2
  <2>5. sent = t BY <2>1, <2>2, <2>3
  <2> HIDE DEF sent, row, r
  <2> QED BY <2>1, <2>2, <2>4, <2>5
<1>6. req'[c] = q /\ \A d \in Clients \ {c} : req'[d] = req[d]
  BY <1>1, <1>2, <1>3 DEF TypeInv
<1> HIDE DEF sent, row
<1>7. /\ q \in [op : {"execute"}, case : FreshCases \cup {None}, todo : Seq(NewJobs),
                sent : Seq(Jobs \X NewJobs), want : Nat]
      /\ q.op = "execute" /\ q.sent = sent /\ q.todo = Tail(r.todo)
      /\ q.case = r.case /\ q.want = r.want
  BY <1>3, <1>4, <1>5
<1> HIDE DEF q
<1>8. TypeInv'
  <2>1. q \in Requests BY <1>7 DEF Requests
  <2>2. req' \in [Clients -> Requests \cup {None}]
    <3>1. req' = [req EXCEPT ![c] = q] BY <1>1, <1>2, <1>3, <1>4 DEF TypeInv, q, sent, row
    <3> QED BY <1>2, <2>1, <3>1 DEF TypeInv
  <2>3. TypeOK' BY <1>1, <1>2 DEF TypeInv, TypeOK, Exists
  <2> QED BY <1>1, <1>2, <2>2, <2>3 DEF TypeInv
<1>9. Checked'
  <2> SUFFICES ASSUME NEW d \in Clients, NEW x \in Requests, x # None, req'[d] = x,
                      ~stale'[d]
               PROVE  Holds(x)'
    BY DEF Checked
  <2>1. CASE d = c
    <3>1. x = q BY <1>6, <2>1
    <3>2. JobsKnown(r) /\ (r.case # None => CaseFits(r.case))
      BY <1>1, <2>1, ExecutionFacts
    <3>3. JobsKnown(q)
      <4>1. JobKnown(row) BY <1>4, <3>2 DEF JobsKnown
      <4>2. \A i \in DOMAIN q.todo : JobKnown(q.todo[i])
        BY <1>4, <1>7, <3>2 DEF JobsKnown
      <4>3. \A i \in DOMAIN q.sent : JobKnown(q.sent[i][2])
        BY <1>5, <1>7, <3>2, <4>1 DEF JobsKnown
      <4> QED BY <4>2, <4>3 DEF JobsKnown
    <3>4. Holds(q) BY <1>7, <3>2, <3>3 DEF Holds
    <3> QED BY <1>1, <3>1, <3>4, HoldsSame
  <2>2. CASE d # c
    <3>1. Holds(x) BY <1>1, <1>6, <2>2 DEF IInv, Checked
    <3> QED BY <1>1, <3>1, HoldsSame
  <2> QED BY <2>1, <2>2
<1>10. SentIds(c)' = SentIds(c) \cup {j} /\ j \notin SentIds(c)
  <2>1. SentIds(c)' = IdsOf(sent) BY <1>6, <1>7 DEF SentIds
  <2>2. j \notin SentIds(c) BY <1>1 DEF IInv, SentApart
  <2> QED BY <1>5, <2>1, <2>2 DEF SentIds
<1>11. \A d \in Clients \ {c} :
         SentIds(d)' = SentIds(d) /\ (Doing(d, "execute")' <=> Doing(d, "execute"))
  BY <1>6 DEF SentIds, Doing
<1>12. \A x : Exists("jobs", x)' <=> Exists("jobs", x) BY <1>1 DEF Exists
<1>13. ~Exists("jobs", j)
  BY <1>1, <1>2 DEF TypeInv, TypeOK, Tables, Ids
<1>14. SentApart'
  <2> SUFFICES ASSUME NEW d \in Clients, Doing(d, "execute")'
               PROVE  /\ req'[d].want = Len(req'[d].sent) + Len(req'[d].todo)
                      /\ IsFiniteSet(SentIds(d)')
                      /\ Cardinality(SentIds(d)') = Len(req'[d].sent)
                      /\ \A x \in SentIds(d)' : x \in (queue' \cup outrun') \ free'
                                                  /\ ~Exists("jobs", x)'
                      /\ \A e \in Clients \ {d} :
                           Doing(e, "execute")' => SentIds(d)' \cap SentIds(e)' = {}
    BY DEF SentApart
  <2>1. \A e \in Clients : Doing(e, "execute") => j \notin SentIds(e)
    BY <1>1 DEF IInv, SentApart
  <2>2. CASE d = c
    <3>1. /\ r.want = Len(r.sent) + Len(r.todo)
          /\ IsFiniteSet(SentIds(c)) /\ Cardinality(SentIds(c)) = Len(r.sent)
          /\ \A x \in SentIds(c) : x \in (queue \cup outrun) \ free
                                     /\ ~Exists("jobs", x)
          /\ \A e \in Clients \ {c} :
               Doing(e, "execute") => SentIds(c) \cap SentIds(e) = {}
      BY <1>1 DEF IInv, SentApart
    <3>2. /\ IsFiniteSet(SentIds(c)')
          /\ Cardinality(SentIds(c)') = Cardinality(SentIds(c)) + 1
      BY <1>10, <3>1, FS_AddElement
    <3>3. req'[c].want = Len(req'[c].sent) + Len(req'[c].todo)
      <4>1. Len(r.sent) \in Nat /\ Len(r.todo) \in Nat BY <1>3
      <4>2. /\ req'[c].want = r.want /\ Len(req'[c].sent) = Len(r.sent) + 1
            /\ Len(req'[c].todo) = Len(r.todo) - 1
        BY <1>4, <1>5, <1>6, <1>7
      <4>3. \A a, b \in Nat : a + b = (a + 1) + (b - 1) OBVIOUS
      <4> QED BY <3>1, <4>1, <4>2, <4>3
    <3>4. Cardinality(SentIds(c)') = Len(req'[c].sent)
      BY <1>5, <1>6, <1>7, <3>1, <3>2
    <3>5. \A x \in SentIds(d)' : x \in (queue' \cup outrun') \ free'
                                    /\ ~Exists("jobs", x)'
      BY <1>1, <1>10, <1>12, <1>13, <2>2, <3>1
    <3>6. \A e \in Clients \ {d} :
            Doing(e, "execute")' => SentIds(d)' \cap SentIds(e)' = {}
      BY <1>10, <1>11, <2>1, <2>2, <3>1
    <3> QED BY <2>2, <3>2, <3>3, <3>4, <3>5, <3>6
  <2>3. CASE d # c
    <3>1. /\ req[d].want = Len(req[d].sent) + Len(req[d].todo)
          /\ IsFiniteSet(SentIds(d)) /\ Cardinality(SentIds(d)) = Len(req[d].sent)
          /\ \A x \in SentIds(d) : x \in (queue \cup outrun) \ free
                                     /\ ~Exists("jobs", x)
          /\ \A e \in Clients \ {d} :
               Doing(e, "execute") => SentIds(d) \cap SentIds(e) = {}
      BY <1>11, <2>3 DEF IInv, SentApart
    <3>2. req'[d] = req[d] /\ SentIds(d)' = SentIds(d) /\ j \notin SentIds(d)
      BY <1>6, <1>11, <2>1, <2>3
    <3>3. \A x \in SentIds(d)' : x \in (queue' \cup outrun') \ free'
                                    /\ ~Exists("jobs", x)'
      BY <1>1, <1>12, <3>1, <3>2
    <3>4. ASSUME NEW e \in Clients \ {d}, Doing(e, "execute")'
          PROVE  SentIds(d)' \cap SentIds(e)' = {}
      <4>1. CASE e = c BY <1>1, <1>10, <3>1, <3>2, <4>1
      <4>2. CASE e # c BY <1>11, <3>1, <3>2, <3>4, <4>2
      <4> QED BY <4>1, <4>2
    <3> QED BY <3>1, <3>2, <3>3, <3>4
  <2> QED BY <2>2, <2>3
<1>15. QueuedPending' BY <1>1, <1>12, <1>13 DEF IInv, QueuedPending
<1>16. SubmittedWhole'
  BY <1>1, <1>12 DEF IInv, SubmittedWhole, BatchIsWhole, OnlyOutrunIsStranded
<1> QED BY <1>1, <1>8, <1>9, <1>14, <1>15, <1>16, RowsSame DEF IInv

-----------------------------------------------------------------------------
(* Jobs are committed. *)

(* The rows of the jobs of one execution, as they are committed. *)
JobRow(s, j, want, late) ==
  LET i == CHOOSE i \in DOMAIN s : s[i][1] = j
  IN  [s[i][2] EXCEPT !.mates = IdsOf(s), !.want = want, !.late = @ \/ late]

(* Such a row refers to all jobs of the execution. *)
LEMMA JobRowFacts ==
  ASSUME NEW s \in Seq(Jobs \X NewJobs), NEW j \in IdsOf(s), NEW want \in Nat,
         NEW late \in BOOLEAN,
         late \/ \A i \in DOMAIN s : JobKnown(s[i][2])
  PROVE  /\ JobRow(s, j, want, late) \in JobRows
         /\ JobRow(s, j, want, late).mates = IdsOf(s)
         /\ JobRow(s, j, want, late).want = want
         /\ JobRow(s, j, want, late).status = "pending"
         /\ JobKnown(JobRow(s, j, want, late))
<1> DEFINE i == CHOOSE i \in DOMAIN s : s[i][1] = j
           n == s[i][2]
           row == [n EXCEPT !.mates = IdsOf(s), !.want = want, !.late = n.late \/ late]
<1>1. i \in DOMAIN s /\ s[i][1] = j BY DEF IdsOf
<1>2. n \in NewJobs
  <2>1. s[i] \in Jobs \X NewJobs BY <1>1
  <2> QED BY <2>1
<1>3. IdsOf(s) \subseteq Jobs
  <2>1. \A k \in DOMAIN s : s[k] \in Jobs \X NewJobs OBVIOUS
  <2> QED BY <2>1 DEF IdsOf
<1>4. JobRow(s, j, want, late) = row BY DEF JobRow
<1>5. late \/ JobKnown(n) BY <1>1
<1> HIDE DEF n
<1>6. /\ row \in JobRows /\ row.mates = IdsOf(s) /\ row.want = want
      /\ row.status = "pending" /\ row.ds = n.ds /\ row.late = (n.late \/ late)
      /\ n.late \in BOOLEAN /\ n.status = "pending"
  BY <1>2, <1>3 DEF NewJobs, JobRows
<1>7. JobKnown(row)
  BY <1>5, <1>6 DEF JobKnown
<1> QED BY <1>4, <1>6, <1>7

(* What the commit of an execution does to the jobs. *)
LEMMA JobsCommitted ==
  ASSUME IInv, NEW c \in Clients, Doing(c, "execute"), req[c].todo = <<>>, Done(c),
         db'.sources = db.sources, free' \subseteq free,
         UNCHANGED <<queue, outrun, hurried>>,
         db'.jobs = [j \in Jobs |->
           IF j \in SentIds(c) THEN JobRow(req[c].sent, j, req[c].want, stale[c])
                               ELSE db.jobs[j]]
  PROVE  /\ db'.jobs \in [Jobs -> JobRows \cup {None}]
         /\ \A j \in free' \cap Jobs : db'.jobs[j] = db.jobs[j]
         /\ JobsRefer' /\ Checked' /\ SentApart' /\ QueuedPending' /\ SubmittedWhole'
<1> DEFINE r == req[c]
           mates == SentIds(c)
           Row(j) == JobRow(r.sent, j, r.want, stale[c])
<1>1. TypeInv BY DEF IInv
<1>2. /\ r.sent \in Seq(Jobs \X NewJobs) /\ r.want \in Nat /\ stale[c] \in BOOLEAN
      /\ ~stale[c] => JobsKnown(r)
  BY ExecutionFacts, DoingFacts, OtherShape
<1>3. /\ r.want = Len(r.sent) + Len(r.todo)
      /\ IsFiniteSet(mates) /\ Cardinality(mates) = Len(r.sent)
      /\ \A j \in mates : j \in (queue \cup outrun) \ free /\ ~Exists("jobs", j)
      /\ \A d \in Clients \ {c} :
           Doing(d, "execute") => mates \cap SentIds(d) = {}
  BY DEF IInv, SentApart
<1>4. Cardinality(mates) = r.want BY <1>2, <1>3
<1>5. mates = IdsOf(r.sent) /\ mates \subseteq Jobs
  <2>1. \A i \in DOMAIN r.sent : r.sent[i] \in Jobs \X NewJobs BY <1>2
  <2> QED BY <2>1 DEF SentIds, IdsOf
<1>6. \A j \in mates :
        /\ Row(j) \in JobRows /\ Row(j).mates = mates /\ Row(j).want = r.want
        /\ Row(j).status = "pending" /\ JobKnown(Row(j))
  <2>1. stale[c] \/ \A i \in DOMAIN r.sent : JobKnown(r.sent[i][2])
    BY <1>2 DEF JobsKnown
  <2> QED BY <1>2, <1>5, <2>1, JobRowFacts
<1> HIDE DEF Row, mates
<1>7. /\ \A j \in mates : db'.jobs[j] = Row(j)
      /\ \A j \in Jobs \ mates : db'.jobs[j] = db.jobs[j]
  BY <1>5 DEF Row, mates
<1>8. db.jobs \in [Jobs -> JobRows \cup {None}] BY <1>1 DEF TypeInv, TypeOK
<1>9. db'.jobs \in [Jobs -> JobRows \cup {None}]
  <2>1. \A j \in Jobs : db'.jobs[j] \in JobRows \cup {None} BY <1>6, <1>7, <1>8
  <2>2. db'.jobs = [j \in Jobs |-> db'.jobs[j]] BY DEF mates, Row
  <2> QED BY <2>1, <2>2
<1>10. \A j \in mates : Exists("jobs", j)'
  BY <1>6, <1>7, RowsAssumption DEF Exists
<1>11. \A j \in Jobs \ mates : Exists("jobs", j)' <=> Exists("jobs", j)
  BY <1>7 DEF Exists
<1>12. JobsRefer'
  <2> SUFFICES ASSUME NEW j \in Jobs, Exists("jobs", j)' PROVE JobKnown(db.jobs[j])'
    BY DEF JobsRefer
  <2>1. PICK x : x = db'.jobs[j] OBVIOUS
  <2>2. JobKnown(x)
    <3>1. CASE j \in mates BY <1>6, <1>7, <2>1, <3>1
    <3>2. CASE j \notin mates
      BY <1>7, <1>11, <2>1, <3>2 DEF IInv, RowsRefer, JobsRefer
    <3> QED BY <3>1, <3>2
  <2>3. JobKnown(x)' BY <2>2, JobKnownSame
  <2> QED BY <2>1, <2>3 DEF JobKnown, SourceThere, Exists
<1>13. /\ Checked'
       /\ \A d \in Clients : Doing(d, "execute")' =>
            d # c /\ req'[d] = req[d] /\ Doing(d, "execute")
  BY <1>1, DoneChecked DEF Doing
<1>14. SentApart'
  <2>1. ASSUME NEW d \in Clients, Doing(d, "execute")', NEW j \in SentIds(d)
        PROVE  ~Exists("jobs", j)'
    <3>1. d # c /\ Doing(d, "execute") BY <1>13, <2>1
    <3>2. j \notin mates BY <1>3, <2>1, <3>1
    <3>3. j \in Jobs /\ ~Exists("jobs", j)
      BY <1>1, <2>1, <3>1 DEF IInv, SentApart, TypeInv, TypeOK
    <3> QED BY <1>11, <3>2, <3>3
  <2> QED BY <1>13, <2>1, SentSame
<1>15. QueuedPending'
  <2> SUFFICES ASSUME NEW j \in queue, Exists("jobs", j)'
               PROVE  db'.jobs[j].status = "pending"
    BY DEF QueuedPending
  <2>1. j \in Jobs BY <1>1 DEF TypeInv, TypeOK
  <2>2. CASE j \in mates BY <1>6, <1>7, <2>2
  <2>3. CASE j \notin mates
    BY <1>7, <1>11, <2>1, <2>3 DEF IInv, QueuedPending
  <2> QED BY <2>2, <2>3
<1>16. BatchIsWhole'
  <2> SUFFICES ASSUME NEW j \in Jobs, Exists("jobs", j)'
               PROVE  /\ Cardinality(db'.jobs[j].mates) = db'.jobs[j].want
                      /\ \A m \in db'.jobs[j].mates :
                           Exists("jobs", m)' /\ db'.jobs[m].mates = db'.jobs[j].mates
    BY DEF BatchIsWhole
  <2>1. CASE j \in mates
    <3>1. db'.jobs[j].mates = mates /\ db'.jobs[j].want = r.want BY <1>6, <1>7, <2>1
    <3>2. \A m \in mates : db'.jobs[m].mates = mates BY <1>6, <1>7
    <3> QED BY <1>4, <1>10, <3>1, <3>2
  <2>2. CASE j \notin mates
    <3>1. Exists("jobs", j) /\ db'.jobs[j] = db.jobs[j] BY <1>7, <1>11, <2>2
    <3>2. /\ Cardinality(db.jobs[j].mates) = db.jobs[j].want
          /\ \A m \in db.jobs[j].mates :
               Exists("jobs", m) /\ db.jobs[m].mates = db.jobs[j].mates
      BY <3>1 DEF IInv, SubmittedWhole, BatchIsWhole
    <3>3. db.jobs[j].mates \subseteq Jobs
      BY <1>8, <3>1 DEF Exists, JobRows
    <3>4. \A m \in db.jobs[j].mates : m \in Jobs \ mates BY <1>3, <3>2, <3>3
    <3> QED BY <1>7, <1>11, <3>1, <3>2, <3>4
  <2> QED BY <2>1, <2>2
<1>17. OnlyOutrunIsStranded'
  <2> SUFFICES ASSUME NEW j \in Jobs, Exists("jobs", j)',
                      db'.jobs[j].status = "pending", j \notin queue
               PROVE  j \in outrun
    BY DEF OnlyOutrunIsStranded
  <2>1. CASE j \in mates BY <1>3, <2>1
  <2>2. CASE j \notin mates
    BY <1>7, <1>11, <2>2 DEF IInv, SubmittedWhole, OnlyOutrunIsStranded
  <2> QED BY <2>1, <2>2
<1>18. \A j \in free' \cap Jobs : db'.jobs[j] = db.jobs[j] BY <1>3, <1>7
<1> QED BY <1>9, <1>12, <1>13, <1>14, <1>15, <1>16, <1>17, <1>18 DEF SubmittedWhole

(* Together with the case, if it is kept. *)
LEMMA CommitJobsKeeps == ASSUME IInv, NEW c \in Clients, CommitJobs(c) PROVE IInv'
<1> DEFINE r == req[c]
           jobs == [j \in Jobs |-> IF j \in SentIds(c)
                      THEN JobRow(r.sent, j, r.want, stale[c]) ELSE db.jobs[j]]
           row == [r.case EXCEPT !.late = Overtaken(c, AspectsOf(r.case))]
<1>1. /\ Doing(c, "execute") /\ r.todo = <<>> /\ Done(c)
      /\ UNCHANGED <<pool, queue, outrun, hurried, faults>>
      /\ \/ r.case = None /\ db' = [db EXCEPT !.jobs = jobs] /\ UNCHANGED free
         \/ \E k \in free \cap Cases :
              /\ r.case # None /\ free' = free \ {k}
              /\ db' = [db EXCEPT !.jobs = jobs, !.cases[k] = row]
  BY DEF CommitJobs, SentIds, IdsOf, JobRow
<1>2. TypeInv BY DEF IInv
<1>3. r.case \in FreshCases \cup {None}
      /\ (~stale[c] => (r.case # None => CaseFits(r.case)))
  BY <1>1, ExecutionFacts
<1> HIDE DEF jobs, row
<1>4. /\ db'.jobs = jobs /\ db'.sources = db.sources /\ db'.folders = db.folders
      /\ db'.scenes = db.scenes /\ free' \subseteq free
      /\ db' \in [cases : {db'.cases}, folders : {db.folders}, scenes : {db.scenes},
                  sources : {db.sources}, jobs : {jobs}]
  BY <1>1, <1>2 DEF TypeInv, TypeOK
<1>5. /\ jobs \in [Jobs -> JobRows \cup {None}]
      /\ \A j \in free' \cap Jobs : db'.jobs[j] = db.jobs[j]
      /\ JobsRefer' /\ Checked' /\ SentApart' /\ QueuedPending' /\ SubmittedWhole'
  BY <1>1, <1>4, JobsCommitted DEF jobs
<1>6. /\ CaseNamesUnique' /\ CasesRefer'
      /\ db'.cases \in [Cases -> CaseRows \cup {None}]
      /\ \A k \in free' \cap Cases : db'.cases[k] = db.cases[k]
  <2>1. CASE r.case = None /\ db' = [db EXCEPT !.jobs = jobs]
    <3>1. db'.cases = db.cases BY <1>2, <2>1 DEF TypeInv, TypeOK
    <3> QED BY <1>1, <1>2, <1>4, <3>1, CasesSame DEF Exists, TypeInv, TypeOK
  <2>2. ASSUME NEW k \in free \cap Cases, r.case # None, free' = free \ {k},
               db' = [db EXCEPT !.jobs = jobs, !.cases[k] = row]
        PROVE  /\ CaseNamesUnique' /\ CasesRefer'
               /\ db'.cases \in [Cases -> CaseRows \cup {None}]
               /\ \A l \in free' \cap Cases : db'.cases[l] = db.cases[l]
    <3>1. PICK new : new = r.case OBVIOUS
    <3>2. new \in CaseRows /\ new.late = {} /\ (~stale[c] => CaseFits(new))
      BY <1>3, <2>2, <3>1 DEF FreshCases
    <3>3. row = [new EXCEPT !.late = new.late \cup Overtaken(c, AspectsOf(new))]
      <4>1. \A a : {} \cup a = a OBVIOUS
      <4> QED BY <3>1, <3>2, <4>1 DEF row
    <3>4. /\ row \in CaseRows /\ Referred(row)
          /\ CaseNameFree(row.ds, row.name, {}) \/ "name" \in row.late
      BY <3>2, <3>3, CaseLands
    <3>5. db'.cases = [db.cases EXCEPT ![k] = row]
      BY <1>2, <2>2 DEF TypeInv, TypeOK
    <3>6. CaseNamesUnique' /\ CasesRefer'
      BY <1>1, <1>4, <3>4, <3>5, CaseWritten DEF CaseNameFree
    <3> QED BY <1>2, <2>2, <3>4, <3>5, <3>6 DEF TypeInv, TypeOK
  <2> QED BY <1>1, <2>1, <2>2
<1>7. SceneNamesUnique' BY <1>4, ScenesSame
<1>8. TypeInv'
  <2>1. db' \in [cases   : [Cases -> CaseRows \cup {None}],
                 folders : [Folders -> FolderRows \cup {None}],
                 scenes  : [Scenes -> SceneRows \cup {None}],
                 sources : [Sources -> SourceRows \cup {None}],
                 jobs    : [Jobs -> JobRows \cup {None}]]
    BY <1>2, <1>4, <1>5, <1>6 DEF TypeInv, TypeOK
  <2>2. \A x \in free' : \A t \in Tables \ {"sources"} :
          x \in Ids[t] /\ ~Exists(t, x) => ~Exists(t, x)'
    BY <1>4, <1>5, <1>6 DEF Exists, Tables, Ids
  <2> QED BY <1>1, <1>4, <2>1, <2>2, DoneTyped
<1> QED BY <1>5, <1>6, <1>7, <1>8 DEF IInv, NamesUnique, RowsRefer

(* A request is rolled back: nothing is written. *)
LEMMA AbortKeeps == ASSUME IInv, NEW c \in Clients, Abort(c) PROVE IInv'
<1>1. /\ UNCHANGED <<pool, db, free, queue, outrun, hurried>>
      /\ req' = [req EXCEPT ![c] = None] /\ stale' = [stale EXCEPT ![c] = FALSE]
  BY DEF Abort
<1>2. TypeInv BY DEF IInv
<1>3. \A d \in Clients : req'[d] # None =>
        d # c /\ req'[d] = req[d] /\ stale'[d] = stale[d]
  BY <1>1, <1>2 DEF TypeInv
<1>4. TypeInv'
  <2>1. TypeOK' BY <1>1, <1>2 DEF TypeInv, TypeOK, Exists
  <2> QED BY <1>1, <1>2, <2>1 DEF TypeInv
<1>5. Checked'
  <2> SUFFICES ASSUME NEW d \in Clients, NEW q \in Requests, q # None,
                      req'[d] = q, ~stale'[d]
               PROVE  Holds(q)'
    BY DEF Checked
  <2>1. Holds(q) BY <1>3 DEF IInv, Checked
  <2> QED BY <1>1, <2>1, HoldsSame
<1>6. SentApart'
  <2>1. \A d \in Clients : Doing(d, "execute")' =>
          req'[d] = req[d] /\ Doing(d, "execute")
    BY <1>3 DEF Doing
  <2>2. \A d \in Clients : Doing(d, "execute") =>
          \A j \in SentIds(d) : ~Exists("jobs", j)'
    BY <1>1 DEF IInv, SentApart, Exists
  <2> QED BY <1>1, <2>1, <2>2, SentSame
<1> QED BY <1>1, <1>4, <1>5, <1>6, RowsSame, JobsSame DEF IInv

(* A message is spent. *)
LEMMA TakeTooEarlyKeeps == ASSUME IInv, NEW j \in Jobs, TakeTooEarly(j) PROVE IInv'
<1>1. /\ j \in queue /\ ~Exists("jobs", j)
      /\ queue' = queue \ {j} /\ outrun' = outrun \cup {j}
      /\ UNCHANGED <<pool, db, free, req, stale, hurried, faults>>
  BY DEF TakeTooEarly
<1>2. TypeInv'
  <2>1. TypeOK' BY <1>1 DEF IInv, TypeInv, TypeOK, Exists
  <2> QED BY <1>1, <2>1 DEF IInv, TypeInv
<1>3. Checked'
  <2> SUFFICES ASSUME NEW d \in Clients, NEW q \in Requests, q # None,
                      req'[d] = q, ~stale'[d]
               PROVE  Holds(q)'
    BY DEF Checked
  <2>1. Holds(q) BY <1>1 DEF IInv, Checked
  <2> QED BY <1>1, <2>1, HoldsSame
<1>4. SentApart'
  <2>1. \A d \in Clients : Doing(d, "execute")' =>
          req'[d] = req[d] /\ Doing(d, "execute")
    BY <1>1 DEF Doing
  <2>2. \A d \in Clients : Doing(d, "execute") =>
          \A x \in SentIds(d) : ~Exists("jobs", x)'
    BY <1>1 DEF IInv, SentApart, Exists
  <2> QED BY <1>1, <2>1, <2>2, SentSame
<1>5. QueuedPending' BY <1>1 DEF IInv, QueuedPending, Exists
<1>6. SubmittedWhole'
  BY <1>1 DEF IInv, SubmittedWhole, BatchIsWhole, OnlyOutrunIsStranded, Exists
<1> QED BY <1>1, <1>2, <1>3, <1>4, <1>5, <1>6, RowsSame DEF IInv

(* A job that has a row goes on: what was checked of sources and names stays. *)
LEMMA StatusKeeps ==
  ASSUME IInv, NEW j \in Jobs, NEW status \in {"running", "done"}, Exists("jobs", j),
         db.jobs[j].status # "done", db' = [db EXCEPT !.jobs[j].status = status],
         queue' = queue \ {j}, UNCHANGED <<pool, free, req, stale, outrun, hurried>>,
         JobKnown([db.jobs[j] EXCEPT !.status = status])
  PROVE  IInv'
<1> DEFINE old == db.jobs[j]
           row == [old EXCEPT !.status = status]
<1>1. TypeInv BY DEF IInv
<1>2. /\ db.jobs \in [Jobs -> JobRows \cup {None}] /\ old \in JobRows
  BY <1>1 DEF TypeInv, TypeOK, Exists
<1>3. /\ row \in JobRows /\ row.ds = old.ds /\ row.mates = old.mates
      /\ row.want = old.want /\ row.status = status /\ row # None
  BY <1>2, RowsAssumption DEF JobRows
<1>4. /\ db'.jobs = [db.jobs EXCEPT ![j] = row] /\ db'.cases = db.cases
      /\ db'.folders = db.folders /\ db'.scenes = db.scenes /\ db'.sources = db.sources
  BY <1>1, <1>2 DEF TypeInv, TypeOK
<1>5. db'.jobs[j] = row /\ \A m \in Jobs \ {j} : db'.jobs[m] = db.jobs[m]
  BY <1>2, <1>4
<1>6. JobKnown(row) OBVIOUS
<1> HIDE DEF row, old
<1>7. \A m \in Jobs : Exists("jobs", m)' <=> Exists("jobs", m)
  BY <1>3, <1>5 DEF Exists
<1>8. TypeInv'
  <2>1. db' \in [cases   : [Cases -> CaseRows \cup {None}],
                 folders : [Folders -> FolderRows \cup {None}],
                 scenes  : [Scenes -> SceneRows \cup {None}],
                 sources : [Sources -> SourceRows \cup {None}],
                 jobs    : [Jobs -> JobRows \cup {None}]]
    <3>1. db'.jobs \in [Jobs -> JobRows \cup {None}] BY <1>2, <1>3, <1>4
    <3>2. db' = [db EXCEPT !.jobs = db'.jobs] BY <1>1, <1>4 DEF TypeInv, TypeOK
    <3> QED BY <1>1, <3>1, <3>2 DEF TypeInv, TypeOK
  <2>2. \A id \in free' : \A t \in Tables \ {"sources"} :
          id \in Ids[t] => ~Exists(t, id)'
    BY <1>1, <1>4, <1>7 DEF TypeInv, TypeOK, Exists, Tables, Ids
  <2>3. (queue \cup outrun)' \subseteq Jobs \ free' BY <1>1 DEF TypeInv, TypeOK
  <2>4. TypeOK' BY <2>1, <2>2, <2>3 DEF TypeOK
  <2> QED BY <1>1, <2>4 DEF TypeInv
<1>9. Checked'
  <2> SUFFICES ASSUME NEW d \in Clients, NEW q \in Requests, q # None,
                      req[d] = q, ~stale[d]
               PROVE  Holds(q)'
    BY DEF Checked
  <2>1. Holds(q) BY DEF IInv, Checked
  <2>2. q.op = "delete source" => SourceUnused(q.id)'
    <3> SUFFICES ASSUME SourceUnused(q.id) PROVE SourceUnused(q.id)'
      BY <2>1 DEF Holds
    <3>1. \A k \in Cases : Exists("cases", k)' => db'.cases[k].ds # q.id
      BY <1>4 DEF SourceUnused, Exists
    <3>2. ASSUME NEW m \in Jobs, Exists("jobs", m)'
          PROVE  db'.jobs[m].ds # q.id \/ db'.jobs[m].status = "done"
      <4>1. db.jobs[m].ds # q.id \/ db.jobs[m].status = "done"
        BY <1>7, <3>2 DEF SourceUnused
      <4>2. CASE m = j BY <1>3, <1>5, <4>1, <4>2 DEF old
      <4>3. CASE m # j BY <1>5, <4>1, <4>3
      <4> QED BY <4>2, <4>3
    <3> QED BY <3>1, <3>2 DEF SourceUnused
  <2>3. q.op = "execute" => JobsKnown(q)'
    BY <1>4, <2>1 DEF Holds, JobsKnown, JobKnown, SourceThere, Exists
  <2>4. \A x : CaseFits(x) => CaseFits(x)'
    BY <1>4 DEF CaseFits, CaseNameFree, Referred, SourceThere, Exists
  <2>5. q.op = "insert" /\ q.table = "cases" => CaseFits(q.row)'
    BY <2>1, <2>4 DEF Holds
  <2>6. q.op = "insert" /\ q.table = "scenes" =>
          SceneNameFreeIn(q.row.group, q.row.name, {})' \/ "name" \in q.row.late
    BY <1>4, <2>1 DEF Holds, SceneNameFreeIn, Exists
  <2>7. q.op = "update" /\ q.table = "cases" =>
          CaseNameFree(db.cases[q.id].ds, q.set.name, {q.id})'
    BY <1>4, <2>1 DEF Holds, CaseNameFree, Exists
  <2>8. q.op = "update" /\ q.table = "scenes" =>
          SceneNameFreeIn(db.scenes[q.id].group, q.set.name, {q.id})'
            \/ "name" \in q.late
    BY <1>4, <2>1 DEF Holds, SceneNameFreeIn, Exists
  <2>9. q.op = "move" => q.folder = None \/ Exists("folders", q.folder)'
    BY <1>4, <2>1 DEF Holds, Exists
  <2>10. q.op = "execute" => (q.case # None => CaseFits(q.case)')
    BY <2>1, <2>4 DEF Holds
  <2> QED BY <2>2, <2>3, <2>5, <2>6, <2>7, <2>8, <2>9, <2>10 DEF Holds
<1>10. NamesUnique' /\ CasesRefer'
  <2>1. CaseNamesUnique' /\ CasesRefer' BY <1>4, CasesSame DEF Exists
  <2>2. SceneNamesUnique' BY <1>4, ScenesSame
  <2> QED BY <2>1, <2>2 DEF NamesUnique
<1>11. JobsRefer'
  <2> SUFFICES ASSUME NEW m \in Jobs, Exists("jobs", m)' PROVE JobKnown(db.jobs[m])'
    BY DEF JobsRefer
  <2>1. PICK x : x = db'.jobs[m] OBVIOUS
  <2>2. JobKnown(x)
    <3>1. CASE m = j BY <1>5, <1>6, <2>1, <3>1
    <3>2. CASE m # j BY <1>5, <1>7, <2>1, <3>2 DEF IInv, RowsRefer, JobsRefer
    <3> QED BY <3>1, <3>2
  <2>3. JobKnown(x)' BY <1>4, <2>2, JobKnownSame
  <2> QED BY <2>1, <2>3 DEF JobKnown, SourceThere, Exists
<1>12. SentApart'
  <2>1. \A d \in Clients : Doing(d, "execute")' =>
          req'[d] = req[d] /\ Doing(d, "execute")
    BY DEF Doing
  <2>2. ASSUME NEW d \in Clients, Doing(d, "execute"), NEW x \in SentIds(d)
        PROVE  ~Exists("jobs", x)'
    <3>1. x \in Jobs /\ ~Exists("jobs", x)
      BY <1>1, <2>2 DEF IInv, SentApart, TypeInv, TypeOK
    <3> QED BY <1>7, <3>1
  <2>3. \A x \in queue \cup outrun : x \in queue' \cup outrun' \/ Exists("jobs", x)
    OBVIOUS
  <2> QED BY <2>1, <2>2, <2>3, SentSame
<1>13. QueuedPending'
  BY <1>1, <1>5, <1>7 DEF IInv, QueuedPending, TypeInv, TypeOK
<1>14. BatchIsWhole'
  <2>1. \A m \in Jobs : Exists("jobs", m) =>
          db'.jobs[m].mates = db.jobs[m].mates /\ db'.jobs[m].want = db.jobs[m].want
    BY <1>3, <1>5 DEF old
  <2>2. \A m \in Jobs : Exists("jobs", m) => db.jobs[m].mates \subseteq Jobs
    BY <1>2 DEF Exists, JobRows
  <2> SUFFICES ASSUME NEW m \in Jobs, Exists("jobs", m)
               PROVE  /\ Cardinality(db'.jobs[m].mates) = db'.jobs[m].want
                      /\ \A n \in db'.jobs[m].mates :
                           Exists("jobs", n)' /\ db'.jobs[n].mates = db'.jobs[m].mates
    BY <1>7 DEF BatchIsWhole
  <2>3. /\ Cardinality(db.jobs[m].mates) = db.jobs[m].want
        /\ \A n \in db.jobs[m].mates :
             Exists("jobs", n) /\ db.jobs[n].mates = db.jobs[m].mates
    BY DEF IInv, SubmittedWhole, BatchIsWhole
  <2>4. \A n \in db.jobs[m].mates : n \in Jobs BY <2>2
  <2> QED BY <1>7, <2>1, <2>3, <2>4
<1>15. OnlyOutrunIsStranded'
  <2> SUFFICES ASSUME NEW m \in Jobs, Exists("jobs", m)',
                      db'.jobs[m].status = "pending", m \notin queue'
               PROVE  m \in outrun
    BY DEF OnlyOutrunIsStranded
  <2>1. m # j BY <1>3, <1>5
  <2> QED BY <1>5, <1>7, <2>1 DEF IInv, SubmittedWhole, OnlyOutrunIsStranded
<1> QED BY <1>8, <1>9, <1>10, <1>11, <1>12, <1>13, <1>14, <1>15
        DEF IInv, RowsRefer, SubmittedWhole

(* A worker takes a job: without its source it fails. *)
LEMMA TakeKeeps == ASSUME IInv, NEW j \in Jobs, Take(j) PROVE IInv'
<1> DEFINE ds == db.jobs[j].ds
<1>1. PICK status \in {"running", "done"} :
        /\ j \in queue /\ Exists("jobs", j)
        /\ status = "running" => ds = None \/ Exists("sources", ds)
        /\ db' = [db EXCEPT !.jobs[j].status = status] /\ queue' = queue \ {j}
        /\ UNCHANGED <<pool, free, req, stale, outrun, hurried>>
  BY DEF Take
<1>2. db.jobs[j].status = "pending" BY <1>1 DEF IInv, QueuedPending
<1>3. db.jobs[j] \in JobRows BY <1>1 DEF IInv, TypeInv, TypeOK, Exists
<1>4. JobKnown([db.jobs[j] EXCEPT !.status = status])
  BY <1>1, <1>3 DEF JobKnown, JobRows, SourceThere
<1> QED BY <1>1, <1>2, <1>4, StatusKeeps

(* A job ends. *)
LEMMA FinishKeeps == ASSUME IInv, NEW j \in Jobs, Finish(j) PROVE IInv'
<1>1. /\ Exists("jobs", j) /\ db.jobs[j].status = "running"
      /\ db' = [db EXCEPT !.jobs[j].status = "done"]
      /\ UNCHANGED <<pool, free, req, stale, queue, outrun, hurried>>
  BY DEF Finish
<1>2. queue' = queue \ {j} BY <1>1 DEF IInv, QueuedPending
<1>3. db.jobs[j] \in JobRows BY <1>1 DEF IInv, TypeInv, TypeOK, Exists
<1>4. JobKnown([db.jobs[j] EXCEPT !.status = "done"])
  BY <1>3 DEF JobKnown, JobRows
<1> QED BY <1>1, <1>2, <1>4, StatusKeeps

-----------------------------------------------------------------------------
(* The invariant. *)

(* Nothing is asked for, sent or stored at first but the data sources. *)
LEMMA IInvInit == ASSUME Init PROVE IInv
<1>1. PICK p \in Pools : pool = p /\ free = p.ids BY DEF Init
<1>2. /\ \A k \in Cases : db.cases[k] = None
      /\ \A f \in Folders : db.folders[f] = None
      /\ \A s \in Scenes : db.scenes[s] = None
      /\ \A s \in Sources : db.sources[s] = [group |-> AdminGroup]
      /\ \A j \in Jobs : db.jobs[j] = None
  BY DEF Init
<1>3. \A c \in Clients : req[c] = None BY DEF Init
<1>4. TypeOK
  <2>1. [group |-> AdminGroup] \in SourceRows BY GroupsAssumption DEF SourceRows
  <2>2. db \in [cases   : [Cases -> CaseRows \cup {None}],
                folders : [Folders -> FolderRows \cup {None}],
                scenes  : [Scenes -> SceneRows \cup {None}],
                sources : [Sources -> SourceRows \cup {None}],
                jobs    : [Jobs -> JobRows \cup {None}]]
    BY <2>1 DEF Init
  <2>3. \A id \in free : \A t \in Tables \ {"sources"} : id \in Ids[t] => ~Exists(t, id)
    BY <1>2 DEF Tables, Ids, Exists
  <2>4. queue \cup outrun \subseteq Jobs \ free BY DEF Init
  <2> QED BY <2>2, <2>3, <2>4 DEF TypeOK
<1>5. TypeInv
  <2>1. free \subseteq Cases \cup Folders \cup Scenes \cup Jobs BY <1>1, IdsAssumption
  <2>2. req \in [Clients -> Requests \cup {None}] /\ stale \in [Clients -> BOOLEAN]
    BY DEF Init
  <2> QED BY <1>1, <1>4, <2>1, <2>2 DEF TypeInv
<1>6. Checked /\ SentApart BY <1>3 DEF Checked, SentApart, Doing
<1>7. NamesUnique
  BY <1>2 DEF NamesUnique, CaseNamesUnique, SceneNamesUnique, Exists
<1>8. RowsRefer BY <1>2 DEF RowsRefer, CasesRefer, JobsRefer, Exists
<1>9. QueuedPending BY DEF Init, QueuedPending
<1>10. SubmittedWhole
  BY <1>2 DEF SubmittedWhole, BatchIsWhole, OnlyOutrunIsStranded, Exists
<1> QED BY <1>5, <1>6, <1>7, <1>8, <1>9, <1>10 DEF IInv

(* A step in which nothing happens. *)
LEMMA IdleKeeps == ASSUME IInv, UNCHANGED vars PROVE IInv'
<1> USE DEF vars
<1>1. TypeInv'
  <2>1. TypeOK' BY DEF IInv, TypeInv, TypeOK, Exists
  <2> QED BY <2>1 DEF IInv, TypeInv
<1>2. Checked'
  <2> SUFFICES ASSUME NEW d \in Clients, NEW q \in Requests, q # None,
                      req'[d] = q, ~stale'[d]
               PROVE  Holds(q)'
    BY DEF Checked
  <2>1. Holds(q) BY DEF IInv, Checked
  <2> QED BY <2>1, HoldsSame
<1>3. SentApart'
  <2>1. \A d \in Clients : Doing(d, "execute") =>
          \A x \in SentIds(d) : ~Exists("jobs", x)'
    BY DEF IInv, SentApart, Exists
  <2> QED BY <2>1, SentSame DEF Doing
<1> QED BY <1>1, <1>2, <1>3, RowsSame, JobsSame DEF IInv

(* Every step keeps the invariant. *)
LEMMA IInvStep == ASSUME IInv, [Next]_vars PROVE IInv'
<1>1. CASE UNCHANGED vars BY <1>1, IdleKeeps
<1>2. ASSUME NEW c \in Clients, (\E u \in pool.users : UserRequest(c, u)) \/ AiExecute(c)
      PROVE  IInv'
  BY <1>2, Asked, AskKeeps
<1>3. ASSUME NEW c \in Clients, Write(c) PROVE IInv'
  <2>1. CASE InsertRow(c) BY <2>1, InsertRowKeeps
  <2>2. CASE UpdateRow(c) BY <2>2, UpdateRowKeeps
  <2>3. CASE DeleteRow(c) BY <2>3, DeleteRowKeeps
  <2>4. CASE Move(c) BY <2>4, MoveKeeps
  <2>5. CASE RemoveFolder(c) BY <2>5, RemoveFolderKeeps
  <2>6. CASE RemoveSource(c) BY <2>6, RemoveSourceKeeps
  <2>7. CASE SendNext(c) BY <2>7, SendNextKeeps
  <2>8. CASE CommitJobs(c) BY <2>8, CommitJobsKeeps
  <2>9. CASE Abort(c) BY <2>9, AbortKeeps
  <2> QED BY <1>3, <2>1, <2>2, <2>3, <2>4, <2>5, <2>6, <2>7, <2>8, <2>9 DEF Write
<1>4. ASSUME NEW j \in Jobs, TakeTooEarly(j) \/ Take(j) \/ Finish(j) PROVE IInv'
  BY <1>4, TakeTooEarlyKeeps, TakeKeeps, FinishKeeps
<1> QED BY <1>1, <1>2, <1>3, <1>4 DEF Next

(* The invariant holds throughout. *)
THEOREM Invariant == Spec => []IInv
<1>1. Init => IInv BY IInvInit
<1>2. IInv /\ [Next]_vars => IInv' BY IInvStep
<1> QED BY <1>1, <1>2, PTL DEF Spec

-----------------------------------------------------------------------------
(* The theorems. *)

(* Every row has its type, and an id that was not handed out is the id of  *)
(* no row and of no message.                                               *)
THEOREM TypeCorrect == Spec => []TypeOK
<1>1. IInv => TypeOK BY DEF IInv, TypeInv
<1> QED BY <1>1, Invariant, PTL

(* save_case, update_case, copy_case, create_scene, update_scene, copy_scene: *)
(* two cases of a data source or two scenes of a group share a name only if *)
(* one of them was named by a request that another one overtook.           *)
THEOREM NamesApart == Spec => []NamesUnique
<1>1. IInv => NamesUnique BY DEF IInv
<1> QED BY <1>1, Invariant, PTL

(* delete_datasource: a case, and a job that waits or runs, has its data   *)
(* source, unless the deletion or the request that added it was overtaken. *)
THEOREM SourcesStay == Spec => []SourceOutlivesUsers
<1>1. RowsRefer => SourceOutlivesUsers
  BY DEF RowsRefer, CasesRefer, JobsRefer, Referred, JobKnown, SourceThere,
         SourceOutlivesUsers
<1>2. IInv => SourceOutlivesUsers BY <1>1 DEF IInv
<1> QED BY <1>2, Invariant, PTL

(* The cases an administrator sees, by folder. *)
LEMMA CountsAdd == ASSUME IInv PROVE FolderCountsAddUp
<1> SUFFICES ASSUME NEW u \in Users, GroupOf[u] = AdminGroup,
                    \A k \in ListCases(u) : "folder" \notin db.cases[k].late
             PROVE  Cardinality(ListCases(u)) =
                      Cardinality(CasesIn(u, None))
                        + Cardinality(UNION {CasesIn(u, f) : f \in ListFolders(u)})
  BY DEF FolderCountsAddUp
<1> DEFINE unfiled == CasesIn(u, None)
           filed == UNION {CasesIn(u, f) : f \in ListFolders(u)}
<1>1. \A t, id : Found(u, t, id) <=> Exists(t, id) BY DEF Found, Visible
<1>2. unfiled \subseteq ListCases(u) /\ filed \subseteq ListCases(u) BY DEF CasesIn
<1>3. ListCases(u) \subseteq unfiled \cup filed
  <2> SUFFICES ASSUME NEW k \in ListCases(u) PROVE k \in unfiled \cup filed
    OBVIOUS
  <2>1. k \in Cases /\ Exists("cases", k) BY <1>1 DEF ListCases
  <2>2. Referred(db.cases[k]) /\ db.cases[k] \in CaseRows
    BY <2>1, RowTypes DEF IInv, RowsRefer, CasesRefer
  <2>3. CASE db.cases[k].folder = None BY <2>3 DEF CasesIn
  <2>4. CASE db.cases[k].folder # None
    <3>1. db.cases[k].folder \in Folders BY <2>2, <2>4 DEF CaseRows
    <3>2. db.cases[k].folder \in ListFolders(u)
      BY <1>1, <2>2, <2>4, <3>1 DEF ListFolders, Referred
    <3> QED BY <3>2 DEF CasesIn
  <2> QED BY <2>3, <2>4
<1>4. unfiled \cap filed = {}
  BY IdsAssumption DEF CasesIn, ListFolders
<1>5. IsFiniteSet(ListCases(u))
  BY RowsAssumption, FS_Subset DEF ListCases
<1> HIDE DEF unfiled, filed
<1>6. ListCases(u) = unfiled \cup filed BY <1>2, <1>3
<1>7. IsFiniteSet(unfiled) /\ IsFiniteSet(filed) BY <1>2, <1>5, FS_Subset
<1>8. Cardinality(unfiled) \in Nat /\ Cardinality(filed) \in Nat
  BY <1>7, FS_CardinalityType
<1>9. Cardinality(unfiled \cup filed) =
        Cardinality(unfiled) + Cardinality(filed) - Cardinality(unfiled \cap filed)
  BY <1>7, FS_Union
<1>10. Cardinality(unfiled \cap filed) = 0 BY <1>4, FS_EmptySet
<1>11. Cardinality(ListCases(u)) = Cardinality(unfiled) + Cardinality(filed)
  BY <1>6, <1>8, <1>9, <1>10
<1> QED BY <1>11 DEF unfiled, filed

(* delete_folder, move_cases, list_folders: an administrator's counts of   *)
(* the folders and of the unfiled cases add up to all cases, unless a case *)
(* was put into its folder by an overtaken request.                        *)
THEOREM FoldersCount == Spec => []FolderCountsAddUp
<1>1. IInv => FolderCountsAddUp BY CountsAdd
<1> QED BY <1>1, Invariant, PTL

(* batch_execute_cases: the jobs of one request are committed together or  *)
(* not at all, and one that waits has its message in the broker unless a   *)
(* worker took it before the commit.                                       *)
THEOREM BatchesWhole == Spec => []SubmittedWhole
<1>1. IInv => SubmittedWhole BY DEF IInv
<1> QED BY <1>1, Invariant, PTL
=============================================================================
