--------------------------- MODULE MetadataSyncProofs ---------------------------
(***************************************************************************)
(* Proofs about MetadataSync, for any tables, workers, servers and events. *)
(***************************************************************************)
EXTENDS MetadataSync, TLAPS

(* A worker that collects or stores has an engine. *)
PoolThere ==
  \A w \in Workers :
    pc[w] \in {"tables", "columns", "indexes", "diff", "commit"} => pool[w] # None

(* As long as no lock expired under its holder, the worker that synchronises *)
(* is alone and the lock is set.                                             *)
LockGood == ~overrun => OneSync /\ (Syncing # {} => lock)

(* A worker that is alone compares with what is cached, and what it has just *)
(* stored is still there.                                                    *)
OldIsCached ==
  ds.exists => \A w \in Workers : pc[w] = "commit" /\ alone[w] => old[w] = cache.tab
Stored(w) ==
  /\ cache.tab = got[w].tab
  /\ \A t \in Tables : /\ got[w].col[t] # "none" => cache.col[t] = got[w].col[t]
                       /\ got[w].idx[t] # "none" => cache.idx[t] = got[w].idx[t]
StoredIsCached ==
  ds.exists => \A w \in Workers :
    pc[w] = "refresh" /\ alone[w] /\ Consistent(got[w]) => Stored(w)

IInv ==
  /\ TypeOK
  /\ PoolThere
  /\ LockGood
  /\ SyncingIsServed
  /\ DeletedIsGone
  /\ OldIsCached
  /\ StoredIsCached
  /\ CachesDescribe
  /\ NoOrphanRows
  /\ RedisFollows

(* Goto moves one worker. *)
LEMMA GotoFacts ==
  ASSUME TypeOK, NEW w \in Workers, NEW l, Goto(w, l)
  PROVE  pc'[w] = l /\ \A v \in Workers \ {w} : pc'[v] = pc[v]
BY DEF TypeOK, TaskTypes, Goto

(* What Replace yields. *)
LEMMA ReplaceType ==
  ASSUME NEW rows \in [Tables -> Shapes], NEW new \in [Tables -> Shapes], NEW removed
  PROVE  Replace(rows, new, removed) \in [Tables -> Shapes]
BY DEF Replace, Shapes

(* Types of what an action leaves alone. *)
LEMMA SameTypes ==
  ASSUME TypeOK
  PROVE  /\ UNCHANGED rowVars => RowTypes'
         /\ UNCHANGED taskVars => TaskTypes'
         /\ UNCHANGED apiVars => ApiTypes'
         /\ UNCHANGED history => HistoryTypes'
<1>1. UNCHANGED rowVars => RowTypes' BY DEF TypeOK, RowTypes, rowVars
<1>2. UNCHANGED taskVars => TaskTypes' BY DEF TypeOK, TaskTypes, taskVars
<1>3. UNCHANGED apiVars => ApiTypes' BY DEF TypeOK, ApiTypes, apiVars
<1>4. UNCHANGED history => HistoryTypes' BY DEF TypeOK, HistoryTypes, history
<1> QED BY <1>1, <1>2, <1>3, <1>4

(* What an action may make of the row of the data source. *)
LEMMA RowOfDs ==
  ASSUME RowTypes
  PROVE  /\ \A n \in 0..3 :
              [ds EXCEPT !.status = n] \in Row
         /\ \A s \in Servers :
              [ds EXCEPT !.server = s] \in Row
         /\ [ds EXCEPT !.exists = FALSE] \in Row
<1>1. ds \in Row BY DEF RowTypes
<1> QED BY <1>1 DEF Row

(* The codes of a status. *)
LEMMA Codes == InSync \in 0..3 /\ Normal \in 0..3 /\ Error \in 0..3
BY DEF InSync, Normal, Error

(* The shapes of nothing. *)
LEMMA NothingType == Nothing \in Content /\ Nothing.tab = {}
BY DEF Nothing, Content, NoRows, Shapes

(* The state has its types at first. *)
LEMMA TypeInit == Init => TypeOK
<1> SUFFICES ASSUME Init PROVE TypeOK OBVIOUS
<1>1. RowTypes
  <2>1. cache \in Content BY NothingType DEF Init
  <2>2. redis \in Keys
    BY DEF Init, NoKeys, NoRows, Shapes, Keys
  <2>3. schema \in [Servers -> [Tables -> Shapes]] BY DEF Init, Shapes
  <2>4. ds \in Row BY DEF Init, Row
  <2> QED BY <2>1, <2>2, <2>3, <2>4 DEF RowTypes
<1>2. TaskTypes
  <2>1. queue \in Nat BY DEF Init
  <2>6. lock \in BOOLEAN BY DEF Init
  <2>2. pc \in [Workers -> Locked \cup {"idle", "lock"}] BY DEF Init
  <2>3. pool \in [Workers -> Servers \cup {None}] BY DEF Init
  <2>4. got \in [Workers -> Content] BY NothingType DEF Init
  <2>5. old \in [Workers -> SUBSET Tables] BY DEF Init
  <2> QED BY <2>1, <2>2, <2>3, <2>4, <2>5, <2>6 DEF TaskTypes
<1>3. ApiTypes BY BoundAssumption DEF Init, ApiTypes
<1>4. HistoryTypes BY DEF Init, HistoryTypes
<1> QED BY <1>1, <1>2, <1>3, <1>4 DEF TypeOK

(* Moving a worker and counting an event. *)
LEMMA MoveTypes ==
  ASSUME TypeOK
  PROVE  /\ \A w \in Workers, l \in Locked \cup {"idle", "lock"} :
              Goto(w, l) => pc' \in [Workers -> Locked \cup {"idle", "lock"}]
         /\ Event => events' \in 0..MaxEvents
BY BoundAssumption DEF TypeOK, TaskTypes, ApiTypes, Goto, Event

(* A step of a synchronisation keeps the types. *)
LEMMA TypeSync ==
  ASSUME TypeOK, PoolThere, NEW w \in Workers, Sync(w) PROVE TypeOK'
<1> USE DEF At, Locked, Marked, rowVars, taskVars, apiVars, history
<1>1. CASE Deliver(w)
  <2>1. queue' \in Nat BY <1>1 DEF Deliver, TypeOK, TaskTypes
  <2>2. TaskTypes' BY <1>1, <2>1, MoveTypes DEF Deliver, TypeOK, TaskTypes
  <2> QED BY <1>1, <2>2, SameTypes DEF TypeOK, Deliver
<1>2. CASE TakeLock(w)
  <2>1. TaskTypes' BY <1>2, MoveTypes DEF TakeLock, TypeOK, TaskTypes
  <2> QED BY <1>2, <2>1, SameTypes DEF TypeOK, TakeLock
<1>3. CASE Mark(w)
  <2>1. TaskTypes' BY <1>3, MoveTypes DEF Mark, TypeOK, TaskTypes
  <2>2. RowTypes' BY <1>3, RowOfDs, Codes DEF Mark, TypeOK, RowTypes
  <2>3. HistoryTypes' BY <1>3 DEF Mark, TypeOK, HistoryTypes
  <2> QED BY <1>3, <2>1, <2>2, <2>3, SameTypes DEF TypeOK, Mark
<1>4. CASE Connect(w)
  <2>1. ds.server \in Servers BY DEF TypeOK, RowTypes, Row
  <2>2. TaskTypes' BY <1>4, <2>1, MoveTypes DEF Connect, TypeOK, TaskTypes
  <2> QED BY <1>4, <2>2, SameTypes DEF TypeOK, Connect
<1>5. CASE Collect(w)
  <2> DEFINE here == schema[pool[w]]
  <2>1. pc[w] \in {"tables", "columns", "indexes"} BY <1>5 DEF Collect
  <2>2. here \in [Tables -> Shapes]
    BY <2>1 DEF PoolThere, TypeOK, RowTypes, TaskTypes
  <2>3. [t \in Tables |-> Index(here[t])] \in [Tables -> Shapes]
    BY DEF Index, Shapes
  <2>4. got[w] \in Content BY DEF TypeOK, TaskTypes
  <2> HIDE DEF here
  <2>5. got' \in [Workers -> Content]
    <3>1. /\ [got[w] EXCEPT !.tab = {t \in Tables : here[t] # "none"}] \in Content
          /\ [got[w] EXCEPT !.col = here] \in Content
          /\ [got[w] EXCEPT !.idx = [t \in Tables |-> Index(here[t])]] \in Content
      BY <2>2, <2>3, <2>4 DEF Content
    <3>2. \E g \in Content : got' = [got EXCEPT ![w] = g]
      BY <1>5, <3>1 DEF Collect, here
    <3> QED BY <3>2 DEF TypeOK, TaskTypes
  <2>6. TaskTypes' BY <1>5, <2>5, MoveTypes DEF Collect, TypeOK, TaskTypes
  <2> QED BY <1>5, <2>6, SameTypes DEF TypeOK, Collect
<1>6. CASE Diff(w)
  <2>1. cache.tab \in SUBSET Tables BY DEF TypeOK, RowTypes, Content
  <2>2. TaskTypes' BY <1>6, <2>1, MoveTypes DEF Diff, TypeOK, TaskTypes
  <2>3. HistoryTypes' BY <1>6 DEF Diff, TypeOK, HistoryTypes
  <2> QED BY <1>6, <2>2, <2>3, SameTypes DEF TypeOK, Diff
<1>7. CASE Commit(w)
  <2>1. got[w] \in Content /\ cache \in Content
    BY DEF TypeOK, TaskTypes, RowTypes
  <2>2. cache' \in Content
    BY <1>7, <2>1, ReplaceType DEF Commit, Persist, Content
  <2>3. RowTypes' BY <1>7, <2>2, RowOfDs, Codes DEF Commit, Persist, TypeOK, RowTypes
  <2>4. TaskTypes' BY <1>7, MoveTypes DEF Commit, Persist, TypeOK, TaskTypes
  <2>5. HistoryTypes'
    BY <1>7 DEF Commit, Persist, TypeOK, HistoryTypes, TaskTypes
  <2> QED BY <1>7, <2>3, <2>4, <2>5, SameTypes DEF TypeOK, Commit, Persist
<1>8. CASE Raise(w)
  <2>1. TaskTypes' BY <1>8, MoveTypes DEF Raise, TypeOK, TaskTypes
  <2> QED BY <1>8, <2>1, SameTypes DEF TypeOK, Raise
<1>9. CASE Refresh(w)
  <2>1. got[w] \in Content BY DEF TypeOK, TaskTypes
  <2>2. /\ {got[w].tab} \in {{}} \cup {{s} : s \in SUBSET Tables}
        /\ Replace(redis.col, got[w].col, Removed(w)) \in [Tables -> Shapes]
        /\ Replace(redis.idx, got[w].idx, Removed(w)) \in [Tables -> Shapes]
    BY <2>1, ReplaceType DEF TypeOK, RowTypes, Content, Keys
  <2>6. redis' \in Keys
    <3>1. CASE redis' = Refreshed(w) BY <3>1, <2>2 DEF Refreshed, Keys
    <3>2. CASE UNCHANGED redis BY <3>2 DEF TypeOK, RowTypes
    <3> QED BY <3>1, <3>2, <1>9 DEF Refresh
  <2>3. RowTypes' BY <1>9, <2>6 DEF Refresh, TypeOK, RowTypes
  <2>4. TaskTypes' BY <1>9, MoveTypes DEF Refresh, TypeOK, TaskTypes
  <2>5. HistoryTypes' BY <1>9 DEF Refresh, TypeOK, HistoryTypes, Consistent
  <2> QED BY <1>9, <2>3, <2>4, <2>5, SameTypes DEF TypeOK, Refresh
<1>10. CASE Notify(w)
  <2>1. TaskTypes' BY <1>10, MoveTypes DEF Notify, TypeOK, TaskTypes
  <2> QED BY <1>10, <2>1, SameTypes DEF TypeOK, Notify
<1>11. CASE Fail(w)
  <2>1. RowTypes' BY <1>11, RowOfDs, Codes DEF Fail, TypeOK, RowTypes
  <2>2. TaskTypes' BY <1>11, MoveTypes DEF Fail, TypeOK, TaskTypes
  <2>3. HistoryTypes' BY <1>11 DEF Fail, TypeOK, HistoryTypes
  <2> QED BY <1>11, <2>1, <2>2, <2>3, SameTypes DEF TypeOK, Fail
<1>12. CASE Release(w)
  <2>1. TaskTypes' BY <1>12, MoveTypes, NothingType DEF Release, TypeOK, TaskTypes
  <2>2. ApiTypes' BY <1>12, MoveTypes DEF Release, TypeOK, ApiTypes
  <2>3. HistoryTypes' BY <1>12 DEF Release, TypeOK, HistoryTypes
  <2> QED BY <1>12, <2>1, <2>2, <2>3, SameTypes DEF TypeOK, Release
<1> QED BY <1>1, <1>2, <1>3, <1>4, <1>5, <1>6, <1>7, <1>8, <1>9, <1>10, <1>11, <1>12
  DEF Sync

(* A step of anything else keeps the types. *)
LEMMA TypeOther ==
  ASSUME TypeOK, [Next]_vars, ~\E w \in Workers : Sync(w) PROVE TypeOK'
<1> USE DEF At, rowVars, taskVars, apiVars, history
<1>1. ASSUME NEW w \in Workers, Heartbeat(w) PROVE TypeOK'
  <2>1. ds.server \in Servers BY DEF TypeOK, RowTypes, Row
  <2>2. TaskTypes' BY <1>1, <2>1 DEF Heartbeat, TypeOK, TaskTypes
  <2>3. ApiTypes' BY <1>1, MoveTypes DEF Heartbeat, TypeOK, ApiTypes
  <2> QED BY <1>1, <2>2, <2>3, SameTypes DEF TypeOK, Heartbeat
<1>2. ASSUME NEW w \in Workers, Crash(w) PROVE TypeOK'
  <2>1. queue' \in Nat BY <1>2 DEF Crash, TypeOK, TaskTypes
  <2>2. TaskTypes'
    BY <1>2, <2>1, MoveTypes, NothingType DEF Crash, TypeOK, TaskTypes
  <2>3. ApiTypes' BY <1>2, MoveTypes DEF Crash, TypeOK, ApiTypes
  <2>4. HistoryTypes' BY <1>2 DEF Crash, TypeOK, HistoryTypes
  <2> QED BY <1>2, <2>2, <2>3, <2>4, SameTypes DEF TypeOK, Crash
<1>3. ASSUME Request PROVE TypeOK'
  <2>1. queue' \in Nat BY <1>3 DEF Request, TypeOK, TaskTypes
  <2>2. TaskTypes' BY <1>3, <2>1 DEF Request, TypeOK, TaskTypes
  <2>3. ApiTypes' BY <1>3, MoveTypes DEF Request, TypeOK, ApiTypes
  <2> QED BY <1>3, <2>2, <2>3, SameTypes DEF TypeOK, Request
<1>4. ASSUME NEW s \in Servers, Edit(s) PROVE TypeOK'
  <2>1. queue' \in Nat BY <1>4 DEF Edit, TypeOK, TaskTypes
  <2>2. TaskTypes' BY <1>4, <2>1 DEF Edit, TypeOK, TaskTypes
  <2>3. ApiTypes' BY <1>4, MoveTypes DEF Edit, TypeOK, ApiTypes
  <2>4. RowTypes' BY <1>4, RowOfDs DEF Edit, TypeOK, RowTypes
  <2> QED BY <1>4, <2>2, <2>3, <2>4, SameTypes DEF TypeOK, Edit
<1>5. ASSUME Delete PROVE TypeOK'
  <2>1. NoKeys \in Keys
    BY DEF NoKeys, NoRows, Shapes, Keys
  <2>2. RowTypes' BY <1>5, <2>1, RowOfDs, NothingType DEF Delete, TypeOK, RowTypes
  <2>3. ApiTypes' BY <1>5, MoveTypes DEF Delete, TypeOK, ApiTypes
  <2>4. HistoryTypes' BY <1>5 DEF Delete, TypeOK, HistoryTypes
  <2> QED BY <1>5, <2>2, <2>3, <2>4, SameTypes DEF TypeOK, Delete
<1>6. ASSUME NEW s \in Servers, NEW t \in Tables, NEW shape \in Shapes,
             Ddl(s, t, shape)
      PROVE  TypeOK'
  <2>1. schema' \in [Servers -> [Tables -> Shapes]] BY <1>6 DEF Ddl, TypeOK, RowTypes
  <2>2. RowTypes' BY <1>6, <2>1 DEF Ddl, TypeOK, RowTypes
  <2>3. ApiTypes' BY <1>6, MoveTypes DEF Ddl, TypeOK, ApiTypes
  <2>4. HistoryTypes' BY <1>6 DEF Ddl, TypeOK, HistoryTypes
  <2> QED BY <1>6, <2>2, <2>3, <2>4, SameTypes DEF TypeOK, Ddl
<1>7. ASSUME LockExpires PROVE TypeOK'
  <2>1. TaskTypes' BY <1>7 DEF LockExpires, TypeOK, TaskTypes
  <2>2. ApiTypes' BY <1>7, MoveTypes DEF LockExpires, TypeOK, ApiTypes
  <2>3. HistoryTypes' BY <1>7 DEF LockExpires, TypeOK, HistoryTypes
  <2> QED BY <1>7, <2>1, <2>2, <2>3, SameTypes DEF TypeOK, LockExpires
<1>8. ASSUME Read PROVE TypeOK'
  <2>1. cache \in Content BY DEF TypeOK, RowTypes
  <2>2. held' \in {{p} : p \in Payload} BY <1>8, <2>1 DEF Read, Payload, Content
  <2>3. ApiTypes' BY <1>8, <2>2, MoveTypes DEF Read, TypeOK, ApiTypes
  <2> QED BY <1>8, <2>3, SameTypes DEF TypeOK, Read
<1>9. ASSUME NEW p \in held, WriteBack(p) PROVE TypeOK'
  <2>1. p \in Payload BY DEF TypeOK, ApiTypes
  <2>2. redis' \in Keys
    <3>1. redis \in Keys BY DEF TypeOK, RowTypes
    <3>2. CASE p.kind = "tab"
      <4>1. p.val \in SUBSET Tables BY <3>2, <2>1 DEF Payload
      <4>2. [redis EXCEPT !.tab = {p.val}] \in Keys BY <3>1, <4>1 DEF Keys
      <4> QED BY <1>9, <3>1, <3>2, <4>2 DEF WriteBack
    <3>3. CASE p.kind = "col"
      <4>1. p.val \in Shapes BY <3>3, <2>1 DEF Payload
      <4>2. [redis EXCEPT !.col[p.table] = p.val] \in Keys BY <3>1, <4>1 DEF Keys
      <4> QED BY <1>9, <3>1, <3>3, <4>2 DEF WriteBack
    <3>4. CASE p.kind = "idx"
      <4>1. p.val \in Shapes BY <3>4, <2>1 DEF Payload
      <4>2. [redis EXCEPT !.idx[p.table] = p.val] \in Keys BY <3>1, <4>1 DEF Keys
      <4> QED BY <1>9, <3>1, <3>4, <4>2 DEF WriteBack
    <3> QED BY <3>2, <3>3, <3>4, <2>1 DEF Payload
  <2>3. RowTypes' BY <1>9, <2>2 DEF WriteBack, TypeOK, RowTypes
  <2>4. ApiTypes' BY <1>9 DEF WriteBack, TypeOK, ApiTypes
  <2>5. HistoryTypes' BY <1>9 DEF WriteBack, TypeOK, HistoryTypes
  <2> QED BY <1>9, <2>3, <2>4, <2>5, SameTypes DEF TypeOK, WriteBack
<1>10. ASSUME RedisExpires PROVE TypeOK'
  <2>1. redis' \in Keys
    <3>1. redis \in Keys /\ NoRows \in [Tables -> Shapes]
      BY DEF TypeOK, RowTypes, NoRows, Shapes
    <3>2. /\ [redis EXCEPT !.tab = {}] \in Keys
          /\ [redis EXCEPT !.col = NoRows] \in Keys
          /\ [redis EXCEPT !.idx = NoRows] \in Keys
      BY <3>1 DEF Keys
    <3> QED BY <1>10, <3>2 DEF RedisExpires
  <2>2. RowTypes' BY <1>10, <2>1 DEF RedisExpires, TypeOK, RowTypes
  <2>3. ApiTypes' BY <1>10, MoveTypes DEF RedisExpires, TypeOK, ApiTypes
  <2> QED BY <1>10, <2>2, <2>3, SameTypes DEF TypeOK, RedisExpires
<1>11. CASE UNCHANGED vars BY <1>11, SameTypes DEF vars, TypeOK
<1> QED BY <1>1, <1>2, <1>3, <1>4, <1>5, <1>6, <1>7, <1>8, <1>9, <1>10, <1>11 DEF Next

(* An engine is there when it is needed. *)
LEMMA PoolStep == ASSUME IInv, [Next]_vars PROVE PoolThere'
<1> USE DEF At, Goto, Marked, taskVars
<1>0. /\ PoolThere /\ TypeOK /\ ds.server \in Servers /\ ds.server # None
      /\ pc \in [Workers -> Locked \cup {"idle", "lock"}]
      /\ pool \in [Workers -> Servers \cup {None}]
  BY ServersAssumption DEF IInv, TypeOK, RowTypes, TaskTypes, Row
<1>1. ASSUME NEW w \in Workers, Sync(w) PROVE PoolThere'
  <2>1. CASE UNCHANGED pool /\ ~Connect(w)
    <3>1. \E l \in Locked \cup {"idle", "lock"} :
            /\ pc' = [pc EXCEPT ![w] = l]
            /\ l \in {"tables", "columns", "indexes", "diff", "commit"} =>
                 pc[w] \in {"tables", "columns", "indexes", "diff", "commit"}
      BY <1>1, <2>1 DEF Sync, Deliver, TakeLock, Mark, Collect, Diff, Commit, Persist,
                        Raise, Refresh, Notify, Fail, Release, Locked
    <3> QED BY <3>1, <2>1, <1>0 DEF PoolThere
  <2>2. CASE Connect(w) BY <2>2, <1>0 DEF Connect, PoolThere
  <2>3. CASE Fail(w) BY <2>3, <1>0 DEF Fail, PoolThere
  <2> QED BY <1>1, <2>1, <2>2, <2>3
    DEF Sync, Deliver, TakeLock, Mark, Collect, Diff, Commit, Persist, Raise, Refresh,
        Notify, Release
<1>2. ASSUME NEW w \in Workers, Heartbeat(w) \/ Crash(w) PROVE PoolThere'
  BY <1>2, <1>0 DEF Heartbeat, Crash, PoolThere
<1>3. CASE UNCHANGED <<pc, pool>> BY <1>3, <1>0 DEF PoolThere
<1> QED BY <1>1, <1>2, <1>3
  DEF Next, Request, Edit, Delete, Ddl, LockExpires, Read, WriteBack, RedisExpires, vars

(* One worker at a time, with the lock set. *)
LEMMA LockStep == ASSUME IInv, [Next]_vars PROVE LockGood'
<1> USE DEF At, Marked, Locked, taskVars, history
<1>0. LockGood /\ TypeOK /\ lock \in BOOLEAN /\ overrun \in BOOLEAN
  BY DEF IInv, TypeOK, TaskTypes, HistoryTypes
<1>1. ASSUME NEW w \in Workers, Sync(w) PROVE LockGood'
  <2>1. CASE TakeLock(w)
    <3>1. CASE lock
      <4>1. Syncing' = Syncing BY <2>1, <3>1, <1>0, GotoFacts DEF TakeLock, Syncing
      <4> QED BY <4>1, <2>1, <3>1, <1>0 DEF TakeLock, LockGood, OneSync
    <3>2. CASE ~lock
      <4>1. Syncing' = Syncing \cup {w} BY <2>1, <3>2, <1>0, GotoFacts DEF TakeLock, Syncing
      <4> QED BY <4>1, <2>1, <3>2, <1>0 DEF TakeLock, LockGood, OneSync
    <3> QED BY <3>1, <3>2
  <2>2. CASE Release(w)
    <3>1. Syncing' = Syncing \ {w} /\ w \in Syncing
      BY <2>2, <1>0, GotoFacts DEF Release, Syncing
    <3> QED BY <3>1, <2>2, <1>0 DEF Release, LockGood, OneSync
  <2>3. CASE ~TakeLock(w) /\ ~Release(w)
    <3>1. /\ \E l : Goto(w, l) /\ (l \in Locked <=> pc[w] \in Locked)
          /\ UNCHANGED <<lock, overrun>>
      BY <1>1, <2>3 DEF Sync, Deliver, Mark, Connect, Collect, Diff, Commit, Persist, Raise,
                        Refresh, Notify, Fail
    <3>2. Syncing' = Syncing BY <3>1, <1>0, GotoFacts DEF Syncing
    <3> QED BY <3>1, <3>2, <1>0 DEF LockGood, OneSync
  <2> QED BY <2>1, <2>2, <2>3
<1>2. ASSUME NEW w \in Workers, Crash(w) PROVE LockGood'
  <2>1. Syncing' = Syncing \ {w} BY <1>2, <1>0, GotoFacts DEF Crash, Syncing
  <2> QED BY <2>1, <1>2, <1>0 DEF Crash, LockGood, OneSync, rowVars
<1>3. CASE LockExpires
  <2>1. Syncing' = Syncing BY <1>3 DEF LockExpires, Syncing
  <2> QED BY <2>1, <1>3, <1>0 DEF LockExpires, LockGood, OneSync
<1>4. CASE UNCHANGED <<pc, lock, overrun>>
  <2>1. Syncing' = Syncing BY <1>4 DEF Syncing
  <2> QED BY <2>1, <1>4, <1>0 DEF LockGood, OneSync
<1> QED BY <1>1, <1>2, <1>3, <1>4
  DEF Next, Request, Edit, Delete, Ddl, Heartbeat, Read, WriteBack, RedisExpires, vars

(* What only some actions may change. *)
LEMMA Untouched ==
  ASSUME TypeOK, [Next]_vars
  PROVE  /\ ds'.exists => ds.exists
         /\ ~(\E w \in Workers : Commit(w)) /\ ~Delete => UNCHANGED cache
<1> USE DEF rowVars
<1>0. ds \in Row BY DEF TypeOK, RowTypes
<1>1. ASSUME NEW w \in Workers, Sync(w)
      PROVE  (ds'.exists => ds.exists) /\ (~Commit(w) => UNCHANGED cache)
  <2>1. CASE Commit(w) BY <2>1, <1>0 DEF Commit, Persist, Row
  <2>2. CASE Mark(w) \/ Fail(w) BY <2>2, <1>0 DEF Mark, Fail, Row
  <2>3. CASE UNCHANGED <<ds, cache>> BY <2>3
  <2> QED BY <1>1, <2>1, <2>2, <2>3
    DEF Sync, Deliver, TakeLock, Connect, Collect, Diff, Raise, Refresh, Notify, Release
<1>2. ASSUME NEW s \in Servers, Edit(s)
      PROVE  (ds'.exists => ds.exists) /\ UNCHANGED cache
  BY <1>2, <1>0 DEF Edit, Row
<1>3. CASE Delete BY <1>3, <1>0 DEF Delete, Row
<1> QED BY <1>1, <1>2, <1>3
  DEF Next, Request, Ddl, Heartbeat, Crash, LockExpires, Read, WriteBack, RedisExpires, vars

(* A deleted data source has no rows. *)
LEMMA DeletedStep == ASSUME IInv, [Next]_vars PROVE DeletedIsGone'
<1>0. DeletedIsGone /\ TypeOK /\ ds \in Row BY DEF IInv, TypeOK, RowTypes
<1>1. ASSUME NEW w \in Workers, Commit(w) PROVE DeletedIsGone'
  BY <1>1, <1>0 DEF Commit, Persist, DeletedIsGone, Row
<1>2. CASE Delete BY <1>2 DEF Delete, DeletedIsGone
<1>3. CASE ~(\E w \in Workers : Commit(w)) /\ ~Delete
  <2>1. UNCHANGED cache BY <1>3, <1>0, Untouched
  <2>2. ds'.exists = ds.exists
    <3>1. ASSUME NEW w \in Workers, Sync(w), ~Commit(w) PROVE ds'.exists = ds.exists
      <4>1. CASE Mark(w) \/ Fail(w) BY <4>1, <1>0 DEF Mark, Fail, Row
      <4>2. CASE UNCHANGED ds BY <4>2
      <4> QED BY <3>1, <4>1, <4>2
        DEF Sync, Deliver, TakeLock, Connect, Collect, Diff, Raise, Refresh, Notify,
            Release, rowVars
    <3>2. ASSUME NEW s \in Servers, Edit(s) PROVE ds'.exists = ds.exists
      BY <3>2, <1>0 DEF Edit, Row
    <3> QED BY <1>3, <3>1, <3>2
      DEF Next, Request, Ddl, Heartbeat, Crash, LockExpires, Read, WriteBack,
          RedisExpires, vars, rowVars
  <2> QED BY <2>1, <2>2, <1>0 DEF DeletedIsGone
<1> QED BY <1>1, <1>2, <1>3

(* A data source is marked only while a worker serves it, or was left so.   *)
LEMMA ServedStep == ASSUME IInv, [Next]_vars PROVE SyncingIsServed'
<1> USE DEF At, rowVars, taskVars, history
<1>0. SyncingIsServed /\ TypeOK /\ ds \in Row BY DEF IInv, TypeOK, RowTypes
<1>1. ASSUME NEW w \in Workers, Sync(w) PROVE SyncingIsServed'
  <2>1. CASE Mark(w)
    <3>1. CASE Goto(w, "connect")
      <4>1. pc'[w] \in Marked BY <3>1, <1>0, GotoFacts DEF Marked
      <4> QED BY <4>1 DEF SyncingIsServed
    <3>2. CASE abandoned' BY <3>2 DEF SyncingIsServed
    <3>3. CASE Goto(w, "release") /\ UNCHANGED <<ds, abandoned>>
      <4>1. \A v \in Workers : pc[v] \in Marked => pc'[v] = pc[v]
        BY <2>1, <3>3, <1>0, GotoFacts DEF Mark, Marked
      <4> QED BY <4>1, <3>3, <1>0 DEF SyncingIsServed
    <3> QED BY <2>1, <3>1, <3>2, <3>3 DEF Mark
  <2>2. CASE Commit(w)
    BY <2>2, <1>0 DEF Commit, Persist, SyncingIsServed, Row, Normal, InSync
  <2>3. CASE Fail(w)
    <3>1. CASE ds' = [ds EXCEPT !.status = Error]
      BY <3>1, <1>0 DEF SyncingIsServed, Row, Error, InSync
    <3>2. CASE ~ds.exists /\ UNCHANGED ds BY <3>2 DEF SyncingIsServed
    <3>3. CASE abandoned' BY <3>3 DEF SyncingIsServed
    <3> QED BY <2>3, <3>1, <3>2, <3>3 DEF Fail
  <2>4. CASE ~Mark(w) /\ ~Commit(w) /\ ~Fail(w)
    <3>1. /\ \E l : Goto(w, l) /\ (pc[w] \in Marked => l \in Marked)
          /\ UNCHANGED <<ds, abandoned>>
      BY <1>1, <2>4 DEF Sync, Deliver, TakeLock, Connect, Collect, Diff, Raise, Refresh,
                        Notify, Release, Marked
    <3>2. \A v \in Workers : pc[v] \in Marked => pc'[v] \in Marked
      BY <3>1, <1>0, GotoFacts
    <3> QED BY <3>1, <3>2, <1>0 DEF SyncingIsServed
  <2> QED BY <2>1, <2>2, <2>3, <2>4
<1>2. ASSUME NEW w \in Workers, Crash(w) PROVE SyncingIsServed'
  <2>1. \A v \in Workers \ {w} : pc'[v] = pc[v] BY <1>2, <1>0, GotoFacts DEF Crash
  <2> QED BY <2>1, <1>2, <1>0 DEF Crash, SyncingIsServed
<1>3. CASE Delete BY <1>3, <1>0 DEF Delete, SyncingIsServed, Row
<1>4. ASSUME NEW s \in Servers, Edit(s) PROVE SyncingIsServed'
  BY <1>4, <1>0 DEF Edit, SyncingIsServed, Row
<1>5. CASE UNCHANGED <<ds, pc, abandoned>> BY <1>5, <1>0 DEF SyncingIsServed
<1> QED BY <1>1, <1>2, <1>3, <1>4, <1>5
  DEF Next, Request, Ddl, Heartbeat, LockExpires, Read, WriteBack, RedisExpires, vars

(* What a worker that is alone stores. *)
LEMMA CommitFacts ==
  ASSUME IInv, NEW w \in Workers, Commit(w), alone[w], Consistent(got[w])
  PROVE  /\ cache'.tab = got[w].tab
         /\ cache'.col \in [Tables -> Shapes] /\ cache'.idx \in [Tables -> Shapes]
         /\ \A t \in got[w].tab : cache'.col[t] = got[w].col[t]
         /\ \A t \in Tables : got[w].idx[t] # "none" => cache'.idx[t] = got[w].idx[t]
         /\ \A t \in cache.tab \ got[w].tab : cache'.col[t] = "none" /\ cache'.idx[t] = "none"
         /\ \A t \in Tables \ (cache.tab \cup got[w].tab) :
              cache'.col[t] = cache.col[t] /\ cache'.idx[t] = cache.idx[t]
<1>1. old[w] = cache.tab BY DEF IInv, OldIsCached, Commit, Persist, At
<1>2. got[w] \in Content /\ cache \in Content BY DEF IInv, TypeOK, RowTypes, TaskTypes
<1>3. Removed(w) = cache.tab \ got[w].tab BY <1>1 DEF Removed
<1>4. /\ cache'.tab = (cache.tab \cup got[w].tab) \ Removed(w)
      /\ cache'.col = Replace(cache.col, got[w].col, Removed(w))
      /\ cache'.idx = Replace(cache.idx, got[w].idx, Removed(w))
  BY DEF Commit, Persist
<1>5. \A t \in Tables :
        /\ t \in got[w].tab <=> got[w].col[t] # "none"
        /\ got[w].idx[t] # "none" => t \in got[w].tab
  BY <1>2 DEF Consistent, Content, Index
<1>6. cache'.col \in [Tables -> Shapes] /\ cache'.idx \in [Tables -> Shapes]
  BY <1>2, <1>4, ReplaceType DEF Content
<1>7. /\ got[w].tab \subseteq Tables /\ cache.tab \subseteq Tables
      /\ got[w].col \in [Tables -> Shapes] /\ got[w].idx \in [Tables -> Shapes]
  BY <1>2 DEF Content
<1>8. \A t \in Tables :
        /\ cache'.col[t] = IF t \in Removed(w) THEN "none"
                           ELSE IF got[w].col[t] # "none" THEN got[w].col[t] ELSE cache.col[t]
        /\ cache'.idx[t] = IF t \in Removed(w) THEN "none"
                           ELSE IF got[w].idx[t] # "none" THEN got[w].idx[t] ELSE cache.idx[t]
  BY <1>4 DEF Replace
<1> QED BY <1>3, <1>4, <1>5, <1>6, <1>7, <1>8

(* What a worker that is alone compares with is what is cached. *)
LEMMA OldStep == ASSUME IInv, [Next]_vars PROVE OldIsCached'
<1> USE DEF At, taskVars, history
<1>0. OldIsCached /\ TypeOK /\ (ds'.exists => ds.exists)
  BY Untouched DEF IInv
<1> SUFFICES ASSUME ds'.exists, NEW v \in Workers, pc'[v] = "commit", alone'[v]
             PROVE  old'[v] = cache'.tab
  BY DEF OldIsCached
<1>1. /\ pc \in [Workers -> Locked \cup {"idle", "lock"}]
      /\ old \in [Workers -> SUBSET Tables] /\ alone \in [Workers -> BOOLEAN]
      /\ (pc[v] = "commit" /\ alone[v] => old[v] = cache.tab)
  BY <1>0 DEF TypeOK, TaskTypes, HistoryTypes, OldIsCached
<1>2. ASSUME NEW w \in Workers, Sync(w) PROVE old'[v] = cache'.tab
  <2>1. CASE Commit(w)
    <3>1. alone' = [u \in Workers |-> u = w /\ alone[w]] BY <2>1 DEF Commit, Persist
    <3>2. v = w BY <3>1
    <3> QED BY <2>1, <3>2, <1>0, GotoFacts DEF Commit, Persist
  <2>2. CASE Diff(w) BY <2>2, <1>0, <1>1, GotoFacts DEF Diff, rowVars
  <2>3. CASE Release(w) BY <2>3, <1>0, <1>1, GotoFacts DEF Release, rowVars
  <2>4. CASE UNCHANGED <<cache, old, alone>> /\ ~Diff(w) /\ ~Commit(w)
    <3>1. \E l : Goto(w, l) /\ l # "commit"
      BY <1>2, <2>4 DEF Sync, Deliver, TakeLock, Mark, Connect, Collect, Raise, Refresh,
                        Notify, Fail, Release
    <3>2. pc[v] = "commit" BY <3>1, <1>0, GotoFacts
    <3> QED BY <3>2, <2>4, <1>1
  <2> QED BY <1>2, <2>1, <2>2, <2>3, <2>4
    DEF Sync, Deliver, TakeLock, Mark, Connect, Collect, Raise, Refresh, Notify, Fail, rowVars
<1>3. ASSUME NEW w \in Workers, Crash(w) PROVE old'[v] = cache'.tab
  BY <1>3, <1>0, <1>1, GotoFacts DEF Crash, rowVars
<1>4. CASE Delete BY <1>4, <1>0 DEF Delete, TypeOK, RowTypes, Row
<1>5. CASE UNCHANGED <<pc, cache, old, alone>> BY <1>5, <1>1
<1> QED BY <1>2, <1>3, <1>4, <1>5
  DEF Next, Request, Edit, Ddl, Heartbeat, LockExpires, Read, WriteBack, RedisExpires,
      vars, rowVars

(* What a worker that is alone has stored is cached until Redis has it. *)
LEMMA StoredStep == ASSUME IInv, [Next]_vars PROVE StoredIsCached'
<1> USE DEF At, taskVars, history
<1>0. StoredIsCached /\ TypeOK /\ (ds'.exists => ds.exists)
  BY Untouched DEF IInv
<1> SUFFICES ASSUME ds'.exists, NEW v \in Workers, pc'[v] = "refresh", alone'[v],
                    Consistent(got[v])'
             PROVE  Stored(v)'
  BY DEF StoredIsCached
<1>1. /\ pc \in [Workers -> Locked \cup {"idle", "lock"}]
      /\ got \in [Workers -> Content] /\ alone \in [Workers -> BOOLEAN]
      /\ (pc[v] = "refresh" /\ alone[v] /\ Consistent(got[v]) => Stored(v))
  BY <1>0 DEF TypeOK, TaskTypes, HistoryTypes, StoredIsCached
<1>2. ASSUME UNCHANGED <<cache, got[v], alone[v]>>, pc[v] = "refresh" PROVE Stored(v)'
  BY <1>0, <1>1, <1>2 DEF Stored, Consistent
<1>3. ASSUME NEW w \in Workers, Sync(w) PROVE Stored(v)'
  <2>1. CASE Commit(w)
    <3>1. alone' = [u \in Workers |-> u = w /\ alone[w]] /\ UNCHANGED got
      BY <2>1 DEF Commit, Persist
    <3>2. v = w /\ alone[w] /\ Consistent(got[w]) BY <3>1 DEF Consistent
    <3>3. /\ got[w].tab \subseteq Tables
          /\ \A t \in Tables : got[w].col[t] # "none" => t \in got[w].tab
      BY <3>2, <1>1 DEF Content, Consistent
    <3> QED BY <2>1, <3>1, <3>2, <3>3, CommitFacts DEF Stored
  <2>2. CASE ~Commit(w)
    <3>1. /\ \E l : Goto(w, l) /\ l # "refresh"
          /\ UNCHANGED cache
          /\ \A u \in Workers \ {w} : got'[u] = got[u] /\ alone'[u] = alone[u]
      BY <1>3, <2>2, <1>1
      DEF Sync, Deliver, TakeLock, Mark, Connect, Collect, Diff, Raise, Refresh,
          Notify, Fail, Release, rowVars
    <3>2. v # w /\ pc[v] = "refresh" BY <3>1, <1>0, GotoFacts
    <3> QED BY <3>1, <3>2, <1>2
  <2> QED BY <2>1, <2>2
<1>4. ASSUME NEW w \in Workers, Crash(w) PROVE Stored(v)'
  <2>1. /\ v # w /\ pc[v] = "refresh" BY <1>4, <1>0, GotoFacts DEF Crash
  <2>2. UNCHANGED <<cache, got[v], alone[v]>> BY <1>4, <2>1, <1>1 DEF Crash, rowVars
  <2> QED BY <2>1, <2>2, <1>2
<1>5. CASE Delete BY <1>5, <1>0 DEF Delete, TypeOK, RowTypes, Row
<1>6. CASE UNCHANGED <<pc, cache, got, alone>> BY <1>6, <1>2
<1> QED BY <1>3, <1>4, <1>5, <1>6
  DEF Next, Request, Edit, Ddl, Heartbeat, LockExpires, Read, WriteBack, RedisExpires,
      vars, rowVars

(* The caches describe the server they were last read from in one moment. *)
LEMMA DescribeStep == ASSUME IInv, [Next]_vars PROVE CachesDescribe'
<1> USE DEF history
<1>0. CachesDescribe /\ TypeOK /\ faithful \in Servers \cup {None}
  BY DEF IInv, TypeOK, HistoryTypes
<1>1. ASSUME NEW w \in Workers, Commit(w) PROVE CachesDescribe'
  <2>1. CASE alone[w] /\ got[w] = Image(pool[w])
    <3>1. faithful' = pool[w] /\ UNCHANGED schema BY <1>1, <2>1 DEF Commit, Persist
    <3>2. pool[w] \in Servers
      BY <1>1, <1>0 DEF IInv, PoolThere, Commit, Persist, At, TypeOK, TaskTypes
    <3>3. /\ got[w].tab = {t \in Tables : schema[pool[w]][t] # "none"}
          /\ got[w].col = schema[pool[w]]
          /\ got[w].idx = [t \in Tables |-> Index(schema[pool[w]][t])]
      BY <2>1 DEF Image
    <3>4. Consistent(got[w]) BY <3>3 DEF Consistent
    <3> QED BY <1>1, <2>1, <3>1, <3>2, <3>3, <3>4, CommitFacts DEF CachesDescribe, Index
  <2>2. CASE ~(alone[w] /\ got[w] = Image(pool[w]))
    BY <1>1, <2>2 DEF Commit, Persist, CachesDescribe
  <2> QED BY <2>1, <2>2
<1>2. CASE Delete BY <1>2 DEF Delete, CachesDescribe
<1>3. ASSUME NEW s \in Servers, NEW t \in Tables, NEW shape \in Shapes, Ddl(s, t, shape)
      PROVE  CachesDescribe'
  BY <1>3, <1>0 DEF Ddl, CachesDescribe, TypeOK, RowTypes
<1>4. CASE UNCHANGED <<schema, cache, faithful>> BY <1>4, <1>0 DEF CachesDescribe
<1> QED BY <1>1, <1>2, <1>3, <1>4
  DEF Next, Sync, Deliver, TakeLock, Mark, Connect, Collect, Diff, Raise, Refresh, Notify,
      Fail, Release, Request, Edit, Heartbeat, Crash, LockExpires, Read, WriteBack,
      RedisExpires, vars, rowVars

(* Rows of columns and indexes belong to cached tables. *)
LEMMA OrphanStep == ASSUME IInv, [Next]_vars PROVE NoOrphanRows'
<1> USE DEF history
<1>0. NoOrphanRows /\ TypeOK /\ torn \in BOOLEAN BY DEF IInv, TypeOK, HistoryTypes
<1>1. ASSUME NEW w \in Workers, Commit(w) PROVE NoOrphanRows'
  <2> SUFFICES ASSUME ~torn' PROVE NoOrphanRows' BY DEF NoOrphanRows
  <2>1. ~torn /\ alone[w] /\ Consistent(got[w]) BY <1>1, <1>0 DEF Commit, Persist
  <2>2. got[w].tab \subseteq Tables /\ cache.tab \subseteq Tables
    BY <1>0 DEF TypeOK, RowTypes, TaskTypes, Content
  <2>3. \A t \in Tables \ cache.tab : cache.col[t] = "none" /\ cache.idx[t] = "none"
    BY <2>1, <1>0 DEF NoOrphanRows
  <2> QED BY <1>1, <2>1, <2>2, <2>3, CommitFacts DEF NoOrphanRows
<1>2. CASE Delete BY <1>2 DEF Delete, NoOrphanRows, Nothing, NoRows
<1>3. CASE UNCHANGED <<cache, torn>> BY <1>3, <1>0 DEF NoOrphanRows
<1> QED BY <1>1, <1>2, <1>3
  DEF Next, Sync, Deliver, TakeLock, Mark, Connect, Collect, Diff, Raise, Refresh, Notify,
      Fail, Release, Request, Edit, Ddl, Heartbeat, Crash, LockExpires, Read, WriteBack,
      RedisExpires, vars, rowVars

(* What Redis has of the cached tables is what is cached. *)
LEMMA RedisStep == ASSUME IInv, [Next]_vars PROVE RedisFollows'
<1> USE DEF rowVars, history
<1>0. RedisFollows /\ TypeOK /\ (ds'.exists => ds.exists) /\ settled \in BOOLEAN
  BY Untouched DEF IInv, TypeOK, HistoryTypes
<1> SUFFICES ASSUME settled', ds'.exists
             PROVE  /\ redis'.tab \subseteq {cache'.tab}
                    /\ \A t \in cache'.tab :
                         /\ redis'.col[t] \in {"none", cache'.col[t]}
                         /\ cache'.col[t] = "keyed" => redis'.idx[t] \in {"none", cache'.idx[t]}
  BY DEF RedisFollows
<1> DEFINE Follows == /\ redis'.tab \subseteq {cache'.tab}
                      /\ \A t \in cache'.tab :
                           /\ redis'.col[t] \in {"none", cache'.col[t]}
                           /\ cache'.col[t] = "keyed" =>
                                redis'.idx[t] \in {"none", cache'.idx[t]}
<1>1. /\ cache \in Content /\ redis \in Keys /\ cache.tab \subseteq Tables
      /\ redis.col \in [Tables -> Shapes] /\ redis.idx \in [Tables -> Shapes]
  BY <1>0 DEF TypeOK, RowTypes, Content, Keys
<1>2. ASSUME settled
      PROVE  /\ redis.tab \subseteq {cache.tab}
             /\ \A t \in cache.tab :
                  /\ redis.col[t] \in {"none", cache.col[t]}
                  /\ cache.col[t] = "keyed" => redis.idx[t] \in {"none", cache.idx[t]}
  BY <1>0, <1>2 DEF RedisFollows
<1>3. ASSUME NEW w \in Workers, Refresh(w) PROVE Follows
  <2>1. CASE redis' = Refreshed(w) /\ settled' = (alone[w] /\ Consistent(got[w]))
    <3>1. alone[w] /\ Consistent(got[w]) /\ Stored(w) /\ UNCHANGED cache
      BY <2>1, <1>3, <1>0 DEF Refresh, At, IInv, StoredIsCached
    <3>2. got[w] \in Content BY <1>0 DEF TypeOK, TaskTypes
    <3>3. /\ cache.tab = got[w].tab
          /\ \A t \in cache.tab :
               /\ t \notin Removed(w) /\ got[w].col[t] # "none"
               /\ cache.col[t] = got[w].col[t]
               /\ cache.col[t] = "keyed" => got[w].idx[t] = "keyed" /\ cache.idx[t] = "keyed"
      BY <3>1, <3>2, <1>1 DEF Stored, Removed, Consistent, Content, Index
    <3>4. /\ redis'.tab = {got[w].tab}
          /\ redis'.col = Replace(redis.col, got[w].col, Removed(w))
          /\ redis'.idx = Replace(redis.idx, got[w].idx, Removed(w))
      BY <2>1 DEF Refreshed
    <3>5. \A t \in cache.tab :
            /\ redis'.col[t] = got[w].col[t]
            /\ cache.col[t] = "keyed" => redis'.idx[t] = got[w].idx[t]
      BY <3>3, <3>4, <1>1 DEF Replace
    <3> QED BY <3>1, <3>3, <3>4, <3>5
  <2>2. CASE UNCHANGED <<redis, settled>> BY <2>2, <1>2, <1>3 DEF Refresh
  <2> QED BY <1>3, <2>1, <2>2 DEF Refresh
<1>4. ASSUME NEW w \in Workers, Commit(w) PROVE Follows
  BY <1>4 DEF Commit, Persist
<1>5. CASE Delete BY <1>5 DEF Delete
<1>6. ASSUME NEW p \in held, WriteBack(p) PROVE Follows
  <2>1. settled /\ Current(p) /\ UNCHANGED cache BY <1>6 DEF WriteBack
  <2>2. CASE UNCHANGED redis BY <2>1, <2>2, <1>2
  <2>3. CASE ~UNCHANGED redis
    <3>1. p \in Payload BY <1>0 DEF TypeOK, ApiTypes
    <3>2. CASE p.kind = "tab"
      <4>1. p.val = cache.tab /\ redis' = [redis EXCEPT !.tab = {p.val}]
        BY <1>6, <2>1, <2>3, <3>2 DEF WriteBack, Current
      <4> QED BY <4>1, <2>1, <1>1, <1>2 DEF Keys
    <3>3. CASE p.kind = "col"
      <4>1. p.val = cache.col[p.table] /\ redis' = [redis EXCEPT !.col[p.table] = p.val]
        BY <1>6, <2>1, <2>3, <3>3 DEF WriteBack, Current
      <4> QED BY <4>1, <2>1, <1>1, <1>2 DEF Keys
    <3>4. CASE p.kind = "idx"
      <4>1. p.val = cache.idx[p.table] /\ redis' = [redis EXCEPT !.idx[p.table] = p.val]
        BY <1>6, <2>1, <2>3, <3>4 DEF WriteBack, Current
      <4> QED BY <4>1, <2>1, <1>1, <1>2 DEF Keys
    <3> QED BY <3>1, <3>2, <3>3, <3>4 DEF Payload
  <2> QED BY <2>2, <2>3
<1>7. CASE RedisExpires
  <2>1. settled /\ UNCHANGED cache BY <1>7 DEF RedisExpires
  <2>2. \/ redis' = [redis EXCEPT !.tab = {}]
        \/ redis' = [redis EXCEPT !.col = NoRows]
        \/ redis' = [redis EXCEPT !.idx = NoRows]
    BY <1>7 DEF RedisExpires
  <2> QED BY <2>1, <2>2, <1>1, <1>2 DEF Keys, NoRows
<1>8. CASE UNCHANGED <<cache, redis, settled>> BY <1>8, <1>2
<1> QED BY <1>3, <1>4, <1>5, <1>6, <1>7, <1>8
  DEF Next, Sync, Deliver, TakeLock, Mark, Connect, Collect, Diff, Raise, Notify,
      Fail, Release, Request, Edit, Ddl, Heartbeat, Crash, LockExpires, Read, vars

-------------------------------------------------------------------------------
LEMMA IInit == Init => IInv
<1> SUFFICES ASSUME Init PROVE IInv OBVIOUS
<1>1. TypeOK BY TypeInit
<1>2. Syncing = {} BY DEF Init, Syncing, Locked, Marked
<1>3. PoolThere BY DEF Init, PoolThere
<1>4. LockGood BY <1>2 DEF LockGood, OneSync
<1>5. SyncingIsServed /\ DeletedIsGone
  BY DEF Init, SyncingIsServed, DeletedIsGone, InSync, Row
<1>6. OldIsCached /\ StoredIsCached BY DEF Init, OldIsCached, StoredIsCached
<1>7. CachesDescribe BY DEF Init, CachesDescribe
<1>8. NoOrphanRows BY DEF Init, NoOrphanRows, Nothing, NoRows
<1>9. RedisFollows BY DEF Init, RedisFollows, NoKeys, NoRows, Nothing
<1> QED BY <1>1, <1>3, <1>4, <1>5, <1>6, <1>7, <1>8, <1>9 DEF IInv

LEMMA IInvNext == IInv /\ [Next]_vars => IInv'
<1> SUFFICES ASSUME IInv, [Next]_vars PROVE IInv' OBVIOUS
<1>1. TypeOK'
  <2>1. CASE \E w \in Workers : Sync(w) BY <2>1, TypeSync DEF IInv
  <2>2. CASE ~\E w \in Workers : Sync(w) BY <2>2, TypeOther DEF IInv
  <2> QED BY <2>1, <2>2
<1> QED BY <1>1, PoolStep, LockStep, DeletedStep, ServedStep, OldStep, StoredStep,
           DescribeStep, OrphanStep, RedisStep
  DEF IInv

LEMMA Invariance == Spec => []IInv
BY IInit, IInvNext, PTL DEF Spec

-------------------------------------------------------------------------------
(* The state has its types. *)
THEOREM SyncTypes == Spec => []TypeOK
<1>1. IInv => TypeOK BY DEF IInv
<1> QED BY <1>1, Invariance, PTL

(* df:lock:sync keeps synchronisations apart for as long as it lives under  *)
(* its holder (_do_sync).                                                   *)
THEOREM SyncsExclude == Spec => []OneSync
<1>1. IInv => OneSync BY DEF IInv, LockGood, OneSync
<1> QED BY <1>1, Invariance, PTL

(* Of everything that may raise in a synchronisation, only the commit of the *)
(* mark and the database calls of the handler leave a data source marked as  *)
(* synchronising when no worker serves it, besides the death of a worker;    *)
(* the next sync that ends takes the mark away (_do_sync).                   *)
THEOREM MarkedIsServed == Spec => []SyncingIsServed
<1>1. IInv => SyncingIsServed BY DEF IInv
<1> QED BY <1>1, Invariance, PTL

(* Replacing the rows of collected tables and deleting those of removed ones *)
(* makes the caches describe the server, whatever they held                  *)
(* (_persist_metadata).                                                      *)
THEOREM CachesAreFaithful == Spec => []CachesDescribe
<1>1. IInv => CachesDescribe BY DEF IInv
<1> QED BY <1>1, Invariance, PTL

(* Images of one moment leave no row of a table that is not cached           *)
(* (_persist_metadata).                                                      *)
THEOREM NoRowsAreOrphaned == Spec => []NoOrphanRows
<1>1. IInv => NoOrphanRows BY DEF IInv
<1> QED BY <1>1, Invariance, PTL

(* A synchronisation under way cannot bring back rows of a data source that  *)
(* was deleted (delete_datasource).                                          *)
THEOREM DeletionIsComplete == Spec => []DeletedIsGone
<1>1. IInv => DeletedIsGone BY DEF IInv
<1> QED BY <1>1, Invariance, PTL

(* A refresh leaves Redis with nothing but what is cached                    *)
(* (_refresh_redis_cache).                                                   *)
THEOREM RedisAgrees == Spec => []RedisFollows
<1>1. IInv => RedisFollows BY DEF IInv
<1> QED BY <1>1, Invariance, PTL

(* Whatever syncs, edits and crashes do, an image of one moment makes caches *)
(* and Redis describe the server, until the next change.                     *)
THEOREM ReadsAreTrue == Spec => []ReadsTrue
  BY CachesAreFaithful, RedisAgrees, PTL DEF ReadsTrue

(* No row in the caches outlives its table or its data source.               *)
THEOREM RowsAreOwned == Spec => []RowsOwned
  BY NoRowsAreOrphaned, DeletionIsComplete, PTL DEF RowsOwned
================================================================================
