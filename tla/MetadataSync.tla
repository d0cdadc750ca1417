------------------------------ MODULE MetadataSync ------------------------------
(***************************************************************************)
(* The table structures of one MySQL data source, cached in the system     *)
(* database and again in Redis: Celery workers that synchronise them       *)
(* (tasks/sync_task.py), requests that ask for it, edit or delete the data *)
(* source (services/datasource_service.py), and readers that fill Redis    *)
(* from the system database (services/engine_service.py).                  *)
(***************************************************************************)
EXTENDS Integers

CONSTANTS
  Tables,    \* names of tables
  Workers,   \* processes of the Celery worker, one task at a time each
  Servers,   \* MySQL servers the data source may point to
  None,      \* no server
  MaxEvents  \* bound on DDL, requests, faults and expiries, taken together

ASSUME ServersAssumption == Servers # {} /\ None \notin Servers
ASSUME BoundAssumption   == MaxEvents \in Nat

VARIABLES
  schema,    \* schema[s][t]: table t on server s
  ds,        \* the row in df_datasource
  cache,     \* rows in df_table_cache, df_column_cache, df_index_cache
  redis,     \* the same in Redis; tab is {} or {a set of tables}
  lock,      \* df:lock:sync
  queue,     \* messages tasks.sync_datasource
  pc,        \* every worker
  pool,      \* server of the engine a worker keeps for the data source
  got,       \* what a worker has collected
  old,       \* names in df_table_cache a worker compares with
  held,      \* at most one payload a reader has yet to write to Redis
  events,    \* for the bound
  overrun,   \* did the lock expire under a sync that still goes on?
  abandoned, \* did the worker of a sync die, or leave without its last commit?
  alone,     \* has no other sync changed the caches since the worker's diff?
  faithful,  \* server whose schema the caches describe, or None
  torn,      \* did a sync ever store a torn image, or one over another's?
  settled    \* has Redis been refreshed after the last change of the caches?

rowVars  == <<schema, ds, cache, redis>>
taskVars == <<lock, queue, pc, pool, got, old>>
apiVars  == <<held, events>>
history  == <<overrun, abandoned, alone, faithful, torn, settled>>
vars     == <<rowVars, taskVars, apiVars, history>>

(* Status of a data source; 0 before its first synchronisation. *)
Normal  == 1
Error   == 2
InSync  == 3

(* A table with columns only, one with an index, no table: what is cached   *)
(* of columns tells the first two apart (COLUMN_KEY).                       *)
Shapes == {"none", "plain", "keyed"}
Index(shape) == IF shape = "keyed" THEN "keyed" ELSE "none"

NoRows  == [t \in Tables |-> "none"]
NoKeys  == [tab |-> {}, col |-> NoRows, idx |-> NoRows]
Nothing == [tab |-> {}, col |-> NoRows, idx |-> NoRows]
Content == [tab : SUBSET Tables, col : [Tables -> Shapes], idx : [Tables -> Shapes]]
Keys    == [tab : {{}} \cup {{s} : s \in SUBSET Tables},
            col : [Tables -> Shapes], idx : [Tables -> Shapes]]
Row     == [exists : BOOLEAN, status : 0..3, server : Servers]
Payload == [kind : {"tab"}, val : SUBSET Tables]
             \cup [kind : {"col", "idx"}, table : Tables, val : Shapes]

(* What a collection of everything at once yields, and whether a collected *)
(* content may be that of one moment.                                       *)
Image(s) == [tab |-> {t \in Tables : schema[s][t] # "none"}, col |-> schema[s],
             idx |-> [t \in Tables |-> Index(schema[s][t])]]
Consistent(g) == /\ g.tab = {t \in Tables : g.col[t] # "none"}
                 /\ g.idx = [t \in Tables |-> Index(g.col[t])]

Marked  == {"connect", "tables", "columns", "indexes", "diff", "commit", "failed"}
Locked  == Marked \cup {"mark", "refresh", "notify", "release"}
Syncing == {w \in Workers : pc[w] \in Locked}

RowTypes ==
  /\ schema \in [Servers -> [Tables -> Shapes]]
  /\ ds \in Row
  /\ cache \in Content
  /\ redis \in Keys
TaskTypes ==
  /\ lock \in BOOLEAN
  /\ queue \in Nat
  /\ pc \in [Workers -> Locked \cup {"idle", "lock"}]
  /\ pool \in [Workers -> Servers \cup {None}]
  /\ got \in [Workers -> Content]
  /\ old \in [Workers -> SUBSET Tables]
ApiTypes ==
  /\ held \in {{}} \cup {{p} : p \in Payload}
  /\ events \in 0..MaxEvents
HistoryTypes ==
  /\ overrun \in BOOLEAN /\ abandoned \in BOOLEAN /\ torn \in BOOLEAN
  /\ settled \in BOOLEAN
  /\ alone \in [Workers -> BOOLEAN]
  /\ faithful \in Servers \cup {None}
TypeOK == RowTypes /\ TaskTypes /\ ApiTypes /\ HistoryTypes

(* create_datasource has committed and has sent its message, or failed to. *)
Init ==
  /\ schema \in [Servers -> [Tables -> {"none", "keyed"}]]
  /\ \E s \in Servers : ds = [exists |-> TRUE, status |-> 0, server |-> s]
  /\ cache = Nothing
  /\ redis = NoKeys
  /\ lock = FALSE
  /\ queue \in {0, 1}
  /\ pc = [w \in Workers |-> "idle"]
  /\ pool = [w \in Workers |-> None]
  /\ got = [w \in Workers |-> Nothing]
  /\ old = [w \in Workers |-> {}]
  /\ held = {}
  /\ events = 0
  /\ overrun = FALSE /\ abandoned = FALSE /\ torn = FALSE /\ settled = TRUE
  /\ alone = [w \in Workers |-> FALSE]
  /\ faithful = None

At(w, l)   == pc[w] = l
Goto(w, l) == pc' = [pc EXCEPT ![w] = l]
Event      == events < MaxEvents /\ events' = events + 1

-------------------------------------------------------------------------------
(* A synchronisation (_do_sync). *)

Deliver(w) ==
  /\ At(w, "idle") /\ queue > 0
  /\ queue' = queue - 1
  /\ Goto(w, "lock")
  /\ UNCHANGED <<rowVars, lock, pool, got, old, apiVars, history>>

(* Mutant: a worker that does not get the lock releases it all the same. *)
TakeLockM(w) ==
  /\ At(w, "lock")
  /\ lock' = TRUE
  /\ Goto(w, IF lock THEN "release" ELSE "mark")
  /\ UNCHANGED <<rowVars, queue, pool, got, old, apiVars, history>>

(* SET NX; a worker that does not get the lock drops the message. *)
TakeLock(w) ==
  /\ At(w, "lock")
  /\ lock' = TRUE
  /\ Goto(w, IF lock THEN "idle" ELSE "mark")
  /\ UNCHANGED <<rowVars, queue, pool, got, old, apiVars, history>>

(* The row is read and marked as synchronising in a commit of its own.      *)
(* What the database raises here is caught by nobody: the worker leaves,    *)
(* and if only the answer to the commit was lost, or the row could not be   *)
(* read again after it, the mark stays.                                     *)
Mark(w) ==
  /\ At(w, "mark")
  /\ \/ Goto(w, "release") /\ UNCHANGED <<ds, abandoned>>
     \/ /\ ds.exists
        /\ ds' = [ds EXCEPT !.status = InSync]
        /\ \/ Goto(w, "connect") /\ abandoned' = FALSE
           \/ Goto(w, "release") /\ abandoned' = TRUE
  /\ UNCHANGED <<schema, cache, redis, lock, queue, pool, got, old, apiVars,
                 overrun, alone, faithful, torn, settled>>

(* get_sync_engine: an engine this process has is used as it is. *)
Connect(w) ==
  /\ At(w, "connect")
  /\ IF pool[w] = None /\ ~ds.exists
       THEN Goto(w, "failed") /\ UNCHANGED pool
       ELSE /\ pool' = [pool EXCEPT ![w] = IF @ = None THEN ds.server ELSE @]
            /\ Goto(w, "tables")
  /\ UNCHANGED <<rowVars, lock, queue, got, old, apiVars, history>>

(* _collect_metadata: three queries that do not share a snapshot. *)
Collect(w) ==
  LET here == schema[pool[w]] IN
  /\ \/ /\ At(w, "tables") /\ Goto(w, "columns")
        /\ got' = [got EXCEPT ![w].tab = {t \in Tables : here[t] # "none"}]
     \/ /\ At(w, "columns") /\ Goto(w, "indexes")
        /\ got' = [got EXCEPT ![w].col = here]
     \/ /\ At(w, "indexes") /\ Goto(w, "diff")
        /\ got' = [got EXCEPT ![w].idx = [t \in Tables |-> Index(here[t])]]
  /\ UNCHANGED <<rowVars, lock, queue, pool, old, apiVars, history>>

(* _persist_metadata begins with the names that are cached. *)
Diff(w) ==
  /\ At(w, "diff")
  /\ old' = [old EXCEPT ![w] = cache.tab]
  /\ alone' = [alone EXCEPT ![w] = TRUE]
  /\ Goto(w, "commit")
  /\ UNCHANGED <<rowVars, lock, queue, pool, got, apiVars, overrun, abandoned,
                 faithful, torn, settled>>

(* What the rows of a cache become: those of collected tables are replaced, *)
(* those of removed tables deleted.                                         *)
Replace(rows, new, removed) ==
  [t \in Tables |-> IF t \in removed THEN "none"
                    ELSE IF new[t] # "none" THEN new[t] ELSE rows[t]]

Persist(w, removed) ==
  /\ At(w, "commit")
  /\ cache' = [tab |-> (cache.tab \cup got[w].tab) \ removed,
               col |-> Replace(cache.col, got[w].col, removed),
               idx |-> Replace(cache.idx, got[w].idx, removed)]
  /\ ds' = [ds EXCEPT !.status = Normal]
  /\ abandoned' = FALSE
  /\ Goto(w, "refresh") \/ Goto(w, "failed")
  /\ faithful' = IF alone[w] /\ got[w] = Image(pool[w]) THEN pool[w] ELSE None
  /\ torn' = (torn \/ ~alone[w] \/ ~Consistent(got[w]))
  /\ alone' = [v \in Workers |-> v = w /\ alone[w]]
  /\ settled' = FALSE
  /\ UNCHANGED <<schema, redis, lock, queue, pool, got, old, apiVars, overrun>>

Removed(w) == old[w] \ got[w].tab

(* Mutant: the UPDATE of a row that was deleted goes unnoticed. *)
CommitM(w) == Persist(w, Removed(w))

(* The caches and the status NORMAL are committed together; the UPDATE of   *)
(* a row that was deleted raises, and rolls the caches back.  A lost answer *)
(* to the commit is an exception like any other.                            *)
Commit(w)  == ds.exists /\ Persist(w, Removed(w))

(* Mutant: the engine is made before the try block. *)
RaiseM(w) ==
  /\ pc[w] \in Marked \ {"failed"}
  /\ Goto(w, IF At(w, "connect") THEN "release" ELSE "failed")
  /\ UNCHANGED <<rowVars, lock, queue, pool, got, old, apiVars, history>>

(* An exception anywhere between the mark and the commit. *)
Raise(w) ==
  /\ pc[w] \in Marked \ {"failed"}
  /\ Goto(w, "failed")
  /\ UNCHANGED <<rowVars, lock, queue, pool, got, old, apiVars, history>>

(* Mutant: of the tables only their list is refreshed. *)
RefreshedM(w) == [redis EXCEPT !.tab = {got[w].tab}]

Refreshed(w) == [tab |-> {got[w].tab},
                 col |-> Replace(redis.col, got[w].col, Removed(w)),
                 idx |-> Replace(redis.idx, got[w].idx, Removed(w))]

(* _refresh_redis_cache, one transaction of Redis, whose failure is only    *)
(* logged.                                                                  *)
Refresh(w) ==
  /\ At(w, "refresh")
  /\ \/ /\ redis' = Refreshed(w)
        /\ settled' = (alone[w] /\ Consistent(got[w]))
     \/ UNCHANGED <<redis, settled>>
  /\ Goto(w, "notify")
  /\ UNCHANGED <<schema, ds, cache, lock, queue, pool, got, old, apiVars, overrun,
                 abandoned, alone, faithful, torn>>

(* Notifications; an exception counts as a failed synchronisation. *)
Notify(w) ==
  /\ At(w, "notify")
  /\ Goto(w, "release") \/ Goto(w, "failed")
  /\ UNCHANGED <<rowVars, lock, queue, pool, got, old, apiVars, history>>

(* The handler of the exception: status ERROR, then notifications, then     *)
(* the engine is dropped unless the notifications raise.  Its rollback, its *)
(* SELECT and its commit go to the system database, whose failure may be    *)
(* what brought the worker here: when one of them raises, the worker leaves *)
(* with the status as it is.                                                *)
Fail(w) ==
  /\ At(w, "failed")
  /\ \/ /\ ds.exists
        /\ ds' = [ds EXCEPT !.status = Error] /\ abandoned' = FALSE
        /\ pool' \in {pool, [pool EXCEPT ![w] = None]}
     \/ /\ ~ds.exists
        /\ pool' = [pool EXCEPT ![w] = None] /\ UNCHANGED <<ds, abandoned>>
     \/ abandoned' = TRUE /\ UNCHANGED <<ds, pool>>
  /\ Goto(w, "release")
  /\ UNCHANGED <<schema, cache, redis, lock, queue, got, old, apiVars, overrun,
                 alone, faithful, torn, settled>>

(* The finally block deletes the lock, whoever has set it, or fails to. *)
Release(w) ==
  /\ At(w, "release")
  /\ \/ lock' = FALSE /\ UNCHANGED events
     \/ lock /\ Event /\ UNCHANGED lock
  /\ Goto(w, "idle")
  /\ got' = [got EXCEPT ![w] = Nothing]
  /\ old' = [old EXCEPT ![w] = {}]
  /\ overrun' = (overrun /\ Syncing # {w})
  /\ alone' = [alone EXCEPT ![w] = FALSE]
  /\ UNCHANGED <<rowVars, queue, pool, held, abandoned, faithful, torn, settled>>

-------------------------------------------------------------------------------
(* Requests, faults and time. *)

(* trigger_sync, whose look at the lock may be out of date when it sends,   *)
(* the daily scheduled_sync_all, and edits of anything but the connection.  *)
Request ==
  /\ ds.exists /\ Event
  /\ queue' = queue + 1
  /\ UNCHANGED <<rowVars, lock, pc, pool, got, old, held, history>>

(* update_datasource: the engines of the API process are dropped, those of  *)
(* the workers are not; the message may be lost.                            *)
Edit(s) ==
  /\ ds.exists /\ s # ds.server /\ Event
  /\ ds' = [ds EXCEPT !.server = s]
  /\ queue' \in {queue, queue + 1}
  /\ UNCHANGED <<schema, cache, redis, lock, pc, pool, got, old, held, history>>

(* delete_datasource: its transaction, then, if Redis answers, the keys but  *)
(* the lock.  Readers are refused as soon as the row is gone, so that nobody *)
(* sees the state in between.                                                *)
Delete ==
  /\ ds.exists /\ Event
  /\ ds' = [ds EXCEPT !.exists = FALSE]
  /\ cache' = Nothing
  /\ redis' \in {redis, NoKeys}
  /\ faithful' = None /\ settled' = FALSE
  /\ UNCHANGED <<schema, taskVars, held, overrun, abandoned, alone, torn>>

(* Somebody changes a table of a server. *)
Ddl(s, t, shape) ==
  /\ schema[s][t] # shape /\ Event
  /\ schema' = [schema EXCEPT ![s][t] = shape]
  /\ faithful' = IF faithful = s THEN None ELSE faithful
  /\ UNCHANGED <<ds, cache, redis, taskVars, held, overrun, abandoned,
                 alone, torn, settled>>

(* The heartbeat in an idle worker makes an engine, or drops the engine of a *)
(* server that has not answered three times (heartbeat_check).               *)
Heartbeat(w) ==
  /\ At(w, "idle")
  /\ \/ /\ pool[w] = None /\ ds.exists /\ UNCHANGED events
        /\ pool' = [pool EXCEPT ![w] = ds.server]
     \/ /\ pool[w] # None /\ Event
        /\ pool' = [pool EXCEPT ![w] = None]
  /\ UNCHANGED <<rowVars, lock, queue, pc, got, old, held, history>>

(* A worker dies: its message is delivered again, or counts as handled. *)
Crash(w) ==
  /\ ~At(w, "idle") /\ Event
  /\ queue' \in {queue, queue + 1}
  /\ Goto(w, "idle")
  /\ pool' = [pool EXCEPT ![w] = None]
  /\ got' = [got EXCEPT ![w] = Nothing]
  /\ old' = [old EXCEPT ![w] = {}]
  /\ abandoned' = (abandoned \/ pc[w] \in Marked)
  /\ alone' = [alone EXCEPT ![w] = FALSE]
  /\ overrun' = (overrun /\ Syncing # {w})
  /\ UNCHANGED <<rowVars, lock, held, faithful, torn, settled>>

(* The life time of the lock ends, after its holder or before. *)
LockExpires ==
  /\ lock
  /\ lock' = FALSE
  /\ IF Syncing = {} THEN UNCHANGED <<events, overrun>> ELSE Event /\ overrun' = TRUE
  /\ UNCHANGED <<rowVars, queue, pc, pool, got, old, held, abandoned,
                 alone, faithful, torn, settled>>

-------------------------------------------------------------------------------
(* Readers (list_tables, get_table_columns, get_table_indexes): what is     *)
(* missing in Redis, or what Redis fails to answer, is read from the system *)
(* database, if it is there, and written back.                              *)

Read ==
  /\ held = {} /\ ds.exists /\ Event
  /\ \/ cache.tab # {} /\ held' = {[kind |-> "tab", val |-> cache.tab]}
     \/ \E t \in Tables :
          \/ /\ cache.col[t] # "none"
             /\ held' = {[kind |-> "col", table |-> t, val |-> cache.col[t]]}
          \/ /\ cache.idx[t] # "none"
             /\ held' = {[kind |-> "idx", table |-> t, val |-> cache.idx[t]]}
  /\ UNCHANGED <<rowVars, taskVars, history>>

(* Is a payload what the caches hold now? *)
Current(p) ==
  p.val = CASE p.kind = "tab" -> cache.tab
            [] p.kind = "col" -> cache.col[p.table]
            [] p.kind = "idx" -> cache.idx[p.table]

WriteBack(p) ==
  /\ p \in held /\ held' = {}
  /\ \/ redis' = CASE p.kind = "tab" -> [redis EXCEPT !.tab = {p.val}]
                    [] p.kind = "col" -> [redis EXCEPT !.col[p.table] = p.val]
                    [] p.kind = "idx" -> [redis EXCEPT !.idx[p.table] = p.val]
     \/ UNCHANGED redis
  /\ settled' = (settled /\ Current(p))
  /\ UNCHANGED <<schema, ds, cache, taskVars, events, overrun, abandoned,
                 alone, faithful, torn>>

(* The life time of the keys in Redis ends. *)
RedisExpires ==
  /\ Event
  /\ redis' \in {[redis EXCEPT !.tab = {}], [redis EXCEPT !.col = NoRows],
                 [redis EXCEPT !.idx = NoRows]} \ {redis}
  /\ UNCHANGED <<schema, ds, cache, taskVars, held, history>>

Sync(w) ==
  \/ Deliver(w) \/ TakeLock(w) \/ Mark(w) \/ Connect(w) \/ Collect(w) \/ Diff(w)
  \/ Commit(w) \/ Raise(w) \/ Refresh(w) \/ Notify(w) \/ Fail(w) \/ Release(w)

Next ==
  \/ \E w \in Workers : Sync(w) \/ Heartbeat(w) \/ Crash(w)
  \/ Request \/ Delete \/ LockExpires \/ RedisExpires \/ Read
  \/ \E s \in Servers : Edit(s)
  \/ \E s \in Servers, t \in Tables, shape \in Shapes : Ddl(s, t, shape)
  \/ \E p \in held : WriteBack(p)

Spec == Init /\ [][Next]_vars

-------------------------------------------------------------------------------
(* Properties. *)

(* One synchronisation of a data source at a time, unless its lock expired  *)
(* under one that still goes on; when all of these have ended, the lock is  *)
(* good again (_do_sync).                                                   *)
OneSync == ~overrun => \A v, w \in Syncing : v = w

(* A data source that reads "synchronising" is being synchronised, or else  *)
(* a worker that synchronised it died, or the system database failed one    *)
(* where nothing catches it, at the commit of the mark or in the handler of *)
(* the exceptions: no other exception leaves the mark behind                *)
(* (the commits of _do_sync).                                               *)
SyncingIsServed ==
  ds.exists /\ ds.status = InSync => abandoned \/ \E w \in Workers : pc[w] \in Marked

(* After a synchronisation that stored what its server holds, whatever the  *)
(* caches held before, and until the next DDL: every table is cached with   *)
(* its columns and indexes, and no other table is (_persist_metadata).  The *)
(* index rows of a table that lost all its indexes are not covered.         *)
CachesDescribe ==
  faithful # None =>
    \A t \in Tables : LET shape == schema[faithful][t] IN
      /\ t \in cache.tab <=> shape # "none"
      /\ shape # "none" => cache.col[t] = shape
      /\ shape = "keyed" => cache.idx[t] = "keyed"

(* As long as every stored image was that of one moment, there are no rows  *)
(* of columns or indexes for tables that are not cached                     *)
(* (_persist_metadata).                                                     *)
NoOrphanRows ==
  ~torn => \A t \in Tables \ cache.tab : cache.col[t] = "none" /\ cache.idx[t] = "none"

(* Nothing of a deleted data source stays in the system database, although  *)
(* syncs of it may be under way (delete_datasource).                        *)
DeletedIsGone == ~ds.exists => cache = Nothing

(* After Redis has been refreshed with an image of one moment and until the *)
(* next change, what it holds of the cached tables, their columns and the   *)
(* indexes of those that have some is what the system database holds,       *)
(* provided no reader has written back what it read before                  *)
(* (_refresh_redis_cache).                                                  *)
RedisFollows ==
  settled /\ ds.exists =>
    /\ redis.tab \subseteq {cache.tab}
    /\ \A t \in cache.tab :
         /\ redis.col[t] \in {"none", cache.col[t]}
         /\ cache.col[t] = "keyed" => redis.idx[t] \in {"none", cache.idx[t]}

(* What is read, from the caches or from Redis, is what the server holds.   *)
ReadsTrue == CachesDescribe /\ RedisFollows

(* Every row in the caches belongs to a table that is cached and to a data  *)
(* source that exists.                                                      *)
RowsOwned == NoOrphanRows /\ DeletedIsGone
================================================================================
