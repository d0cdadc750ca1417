------------------------------- MODULE RedisGen -------------------------------
(***************************************************************************)
(* Keys generated in a Redis data source (engine/redis_gen.py): the batches *)
(* of a pure Redis case, one after the other, or the synchronisation that  *)
(* follows the tables of a MySQL case, in several threads; the numbers of  *)
(* an {incr} placeholder or of an INCR_FROM strategy; what a batch leaves  *)
(* behind; and the rollback of the keys (tasks/rollback_task.py).          *)
(*                                                                         *)
(* A template is the one placeholder that tells its keys apart; a row is   *)
(* <<batch, index>>, and a key holds the rows written to it.               *)
(***************************************************************************)
EXTENDS Integers, FiniteSets

CONSTANTS NB,         \* batches of the task
          Size,       \* rows of a batch
          First,      \* first number configured
          MaxWorkers, \* threads that write synchronisations
          FailPct,    \* failure rate, in percent, above which a case stops
          MaxFaults   \* bound on failing calls

ASSUME SizesAssumption ==
  /\ NB \in Nat \ {0} /\ Size \in Nat \ {0} /\ First \in Nat \ {0}
  /\ MaxWorkers \in Nat \ {0} /\ FailPct \in 0..100 /\ MaxFaults \in Nat

VARIABLES
  conf,    \* the configuration
  stage,
  ctr,     \* counter of the numbers in the system's Redis; -1 = no such key
  expired, \* did its life time of 24 h run out during the task?
  pc,      \* where the thread of a batch is
  base,    \* first number reserved by a batch, or -1
  end,     \* how the write of a batch ended
  store,   \* the keys of the data source
  rec,     \* batch log: "none", "ok" or "fail"
  logs,    \* batches with a rollback log that is not rolled back
  queue,   \* logs a rollback has yet to look at
  deleted, \* keys it has looked at (deleted_keys)
  timed,   \* keys with a life time, as long as they exist
  lapsed,  \* rows whose key has expired since they were written
  faults

rollVars == <<logs, queue, deleted>>
lifeVars == <<timed, lapsed>>
vars == <<conf, stage, ctr, expired, pc, base, end, store, rec, rollVars, lifeVars,
          faults>>

Batches == 1..NB
Indexes == 0..(Size - 1)
Rows == Batches \X Indexes
Foreign == <<0, 0>>  \* what a key held before the task

Stages == {"draft", "rejected", "running", "failed", "ended", "rolling", "rolled"}
Steps == {"new", "seed", "incrby", "write", "written", "recorded"}

(* "incr": {incr:First}.  "alias": an INCR_FROM strategy of a key field or *)
(* of a field mapping.  "own": {uuid}, or a field with values of its own.  *)
(* "null": a column the database fills in; its value is not known here.    *)
(* "badarg": {rand:N}, {uuid:N} or {incr:N} with an N that is refused only *)
(* when rendered; "outside": a column of the case the synchronisation does *)
(* not collect; "unknown": none of these.                                  *)
Tokens == {"fixed", "i", "incr", "alias", "own", "null", "badarg", "outside",
           "unknown"}

(* member: the values of two rows are equal never, if the rows have the    *)
(* same index in their batches, or always; it matters in a set only.       *)
(* type "set" is that of sorted sets too; ttl: ttl_seconds is positive.    *)
Confs == {c \in [mode : {"case", "sync"}, write : {"per_row", "single_key"},
                 type : {"string", "hash", "list", "set"}, token : Tokens,
                 member : {"own", "index", "same"}, ttl : BOOLEAN,
                 capture : BOOLEAN] : c.type = "set" \/ c.member = "own"}

Keys == {<<"fixed", 0>>} \cup ({"i"} \X Indexes) \cup ({"own"} \X (0..NB * Size))
          \cup ({"num"} \X (0..(First + NB * Size)))

(* kind: absent, of the type this task writes, or of another type. *)
Absent == [kind |-> "none", rows |-> {}]
Values == [kind : {"none", "same", "other"}, rows : SUBSET (Rows \cup {Foreign})]

-------------------------------------------------------------------------------
(* _validate_redis_case, _validate_redis_syncs, validate_template,         *)
(* validate_single_key_template; the writer repeats the last checks.       *)
Valid ==
  /\ conf.token # "unknown"
  /\ conf.token = "outside" => conf.mode = "sync"
  /\ conf.token = "null" => conf.mode = "sync"
  /\ conf.write = "per_row" => conf.type \notin {"list", "set"}
  /\ conf.write = "single_key" => conf.token = "fixed"

Save ==
  /\ stage = "draft"
  /\ stage' = IF Valid THEN "running" ELSE "rejected"
  /\ UNCHANGED <<conf, ctr, expired, pc, base, end, store, rec, rollVars, lifeVars, faults>>

-------------------------------------------------------------------------------
Active == {b \in Batches : pc[b] \in {"seed", "incrby", "write"}}
Recorded(r) == {b \in Batches : rec[b] = r}

RateExceeded ==
  Cardinality(Recorded("fail")) * 100
    > FailPct * Cardinality(Recorded("ok") \cup Recorded("fail"))

(* The batches of a case follow one another until too many have failed;    *)
(* those of a MySQL case are handed to threads in their order, and those   *)
(* that wait for a thread are run even when the main thread has raised.    *)
StartBatch(b) ==
  /\ stage = "running" \/ (stage = "failed" /\ conf.mode = "sync")
  /\ pc[b] = "new"
  /\ \A a \in 1..(b - 1) : pc[a] # "new"
  /\ IF conf.mode = "case"
     THEN (\A a \in 1..(b - 1) : pc[a] = "recorded") /\ ~RateExceeded
     ELSE Cardinality(Active) < MaxWorkers
  /\ pc' = [pc EXCEPT ![b] = CASE conf.token = "incr" -> "seed"
                               [] conf.token = "alias" -> "incrby"
                               [] OTHER -> "write"]
  /\ UNCHANGED <<conf, stage, ctr, expired, base, end, store, rec, rollVars, lifeVars, faults>>

(* Mutant: SET without NX. *)
SeedCounterM(b) ==
  /\ pc[b] = "seed"
  /\ ctr' = First - 1
  /\ pc' = [pc EXCEPT ![b] = "incrby"]
  /\ UNCHANGED <<conf, stage, expired, base, end, store, rec, rollVars, lifeVars, faults>>

(* _reserve_incr_base: SET NX with a life time of 24 h ... *)
SeedCounter(b) ==
  /\ pc[b] = "seed"
  /\ ctr' = IF ctr = -1 THEN First - 1 ELSE ctr
  /\ pc' = [pc EXCEPT ![b] = "incrby"]
  /\ UNCHANGED <<conf, stage, expired, base, end, store, rec, rollVars, lifeVars, faults>>

(* ... then INCRBY.  Nothing seeds the counters of the key fields and of   *)
(* the field mappings (prefetch_incr_range): their numbers start at 0.     *)
Reserve(b) ==
  LET old == IF ctr = -1 THEN 0 ELSE ctr
  IN /\ pc[b] = "incrby"
     /\ ctr' = old + Size
     /\ base' = [base EXCEPT ![b] = IF conf.token = "incr" THEN old + 1 ELSE old]
     /\ pc' = [pc EXCEPT ![b] = "write"]
     /\ UNCHANGED <<conf, stage, expired, end, store, rec, rollVars, lifeVars, faults>>

ExpireCounter ==
  /\ ctr # -1 /\ Active # {} /\ faults < MaxFaults
  /\ ctr' = -1
  /\ expired' = TRUE
  /\ faults' = faults + 1
  /\ UNCHANGED <<conf, stage, pc, base, end, store, rec, rollVars, lifeVars>>

KeyOf(b, i) ==
  CASE conf.token = "i" -> <<"i", i>>
    [] conf.token \in {"incr", "alias"} -> <<"num", base[b] + i>>
    [] conf.token = "own" -> <<"own", (b - 1) * Size + i>>
    [] OTHER -> <<"fixed", 0>>

KeysOf(b) == {KeyOf(b, i) : i \in Indexes}

(* SET replaces a key; HSET, RPUSH, SADD and ZADD refuse a key of another  *)
(* type, and so does the script that appends to a JSON array.              *)
Replaces == conf.write = "per_row" /\ conf.type = "string"

Clashes(b) == ~Replaces /\ \E q \in KeysOf(b) : store[q].kind = "other"

(* Mutant: the script forgets what the key held. *)
AfterM(b, q) ==
  IF ~Replaces /\ store[q].kind = "other" THEN store[q]
  ELSE [kind |-> "same", rows |-> {<<b, i>> : i \in {j \in Indexes : KeyOf(b, j) = q}}]

(* Are two elements of a set the same?  What it held before the task is    *)
(* taken to be of its own.                                                 *)
Equal(r, s) ==
  \/ r = s
  \/ /\ Foreign \notin {r, s}
     /\ conf.member = "same" \/ (conf.member = "index" /\ r[2] = s[2])

(* SADD, ZADD: elements that are there, or there are twice, add nothing.   *)
Added(b, old) ==
  {<<b, CHOOSE j \in Indexes : Equal(<<b, j>>, <<b, i>>)>> :
     i \in {j \in Indexes : \A r \in old : ~Equal(r, <<b, j>>)}}

(* The commands on key q.  Rows with one key replace each other, but for   *)
(* the fields of a hash that only the old value has; a single key grows,   *)
(* except that a string that is no JSON array is replaced.                 *)
After(b, q) ==
  LET is == {i \in Indexes : KeyOf(b, i) = q}
      old == store[q].rows
      last == CHOOSE i \in is : \A j \in is : j <= i
  IN IF ~Replaces /\ store[q].kind = "other" THEN store[q]
     ELSE [kind |-> "same",
           rows |-> IF conf.write = "single_key"
                    THEN CASE conf.type = "set" -> old \cup Added(b, old)
                           [] conf.type = "list" -> old \cup {<<b, i>> : i \in is}
                           [] OTHER -> (old \ {Foreign}) \cup {<<b, i>> : i \in is}
                    ELSE {<<b, last>>} \cup (IF conf.type = "hash" THEN old \cap {Foreign}
                                             ELSE {})]

(* MULTI ... EXEC: nobody sees half of the commands, but one that fails    *)
(* undoes none of the others.                                              *)
Commands(b) == [q \in Keys |-> IF q \in KeysOf(b) THEN After(b, q) ELSE store[q]]

(* EXPIRE, or EX of a SET, for every key, one of another type included; a  *)
(* SET without it, the script's too, ends the life time a key had.         *)
Timed(b) ==
  IF conf.ttl THEN timed \cup KeysOf(b)
  ELSE IF conf.type = "string"
       THEN timed \ {q \in KeysOf(b) : Replaces \/ store[q].kind # "other"}
       ELSE timed

Execute(b) == store' = Commands(b) /\ timed' = Timed(b) /\ lapsed' = lapsed

Written(b, e) ==
  /\ end' = [end EXCEPT ![b] = e]
  /\ pc' = [pc EXCEPT ![b] = "written"]

RenderFails(b) ==
  /\ pc[b] = "write" /\ conf.token \in {"badarg", "outside"}
  /\ Written(b, "render")
  /\ UNCHANGED <<conf, stage, ctr, expired, base, store, rec, rollVars, lifeVars, faults>>

Write(b) ==
  /\ pc[b] = "write" /\ conf.token \notin {"badarg", "outside"}
  /\ Execute(b)
  /\ Written(b, IF Clashes(b) THEN "clash" ELSE "ok")
  /\ UNCHANGED <<conf, stage, ctr, expired, base, rec, rollVars, faults>>

(* Redis is out of reach; or it executes the pipeline and the answer is    *)
(* lost, the same for the writer, which does not try again; or a table of  *)
(* the batch failed and its synchronisations are left out.                 *)
WriteFails(b) ==
  /\ pc[b] \in {"seed", "incrby", "write"} /\ faults < MaxFaults
  /\ conf.token \notin {"badarg", "outside"}
  /\ faults' = faults + 1
  /\ \/ Written(b, "refused") /\ UNCHANGED <<store, lifeVars>>
     \/ pc[b] = "write" /\ Written(b, "lost") /\ Execute(b)
  /\ UNCHANGED <<conf, stage, ctr, expired, base, rec, rollVars>>

(* The life time of a key ends (ttl_seconds, or the one it had before).    *)
ExpireKey(q) ==
  /\ store[q].kind # "none" /\ faults < MaxFaults
  /\ store' = [store EXCEPT ![q] = Absent]
  /\ lapsed' = lapsed \cup {r \in Rows : end[r[1]] = "ok" /\ KeyOf(r[1], r[2]) = q}
  /\ faults' = faults + 1
  /\ UNCHANGED <<conf, stage, ctr, expired, pc, base, end, rec, rollVars, timed>>

(* _record_batch_result: the batch log and the rollback log, committed     *)
(* together by the main thread.                                            *)
Record(b) ==
  /\ stage = "running" /\ pc[b] = "written"
  /\ rec' = [rec EXCEPT ![b] = IF end[b] = "ok" THEN "ok" ELSE "fail"]
  /\ logs' = IF end[b] = "ok" /\ conf.capture THEN logs \cup {b} ELSE logs
  /\ pc' = [pc EXCEPT ![b] = "recorded"]
  /\ UNCHANGED <<conf, stage, ctr, expired, base, end, store, queue, deleted, lifeVars, faults>>

(* The database or the progress hash fails: the task fails, batches that   *)
(* threads have or wait for are run, and no more is recorded.              *)
RecordFails(b) ==
  /\ stage = "running" /\ pc[b] = "written" /\ faults < MaxFaults
  /\ stage' = "failed"
  /\ faults' = faults + 1
  /\ UNCHANGED <<conf, ctr, expired, pc, base, end, store, rec, rollVars, lifeVars>>

(* In a MySQL case the failure rate counts the rows of its tables too, and *)
(* may be exceeded as soon as anything has failed; batches that wait for a *)
(* thread are cancelled then.                                              *)
Finish ==
  /\ stage = "running"
  /\ \A b \in Batches : pc[b] \in {"new", "recorded"}
  /\ \/ \A b \in Batches : pc[b] = "recorded"
     \/ conf.mode = "case" /\ RateExceeded
     \/ conf.mode = "sync" /\ Recorded("fail") # {}
  /\ stage' = "ended"
  /\ UNCHANGED <<conf, ctr, expired, pc, base, end, store, rec, rollVars, lifeVars, faults>>

-------------------------------------------------------------------------------
(* rollback_exec_task, once the task is over; newest logs first. *)

StartRollback ==
  /\ stage \in {"ended", "failed"} /\ Active = {}
  /\ stage' = "rolling"
  /\ queue' = logs
  /\ deleted' = {}
  /\ UNCHANGED <<conf, ctr, expired, pc, base, end, store, rec, logs, lifeVars, faults>>

Newest(b) == stage = "rolling" /\ b \in queue /\ \A a \in queue : a <= b

(* Keys an earlier log named are not deleted again (_rollback_redis_log). *)
RollBack(b) ==
  /\ Newest(b)
  /\ store' = [q \in Keys |-> IF q \in KeysOf(b) \ deleted THEN Absent ELSE store[q]]
  /\ deleted' = deleted \cup KeysOf(b)
  /\ logs' = logs \ {b} /\ queue' = queue \ {b}
  /\ UNCHANGED <<conf, stage, ctr, expired, pc, base, end, rec, lifeVars, faults>>

(* Mutant: a log whose DEL failed is marked as rolled back. *)
RollBackFailsM(b) ==
  /\ Newest(b) /\ faults < MaxFaults
  /\ faults' = faults + 1
  /\ deleted' = deleted \cup KeysOf(b)
  /\ logs' = logs \ {b} /\ queue' = queue \ {b}
  /\ UNCHANGED <<conf, stage, ctr, expired, pc, base, end, store, rec, lifeVars>>

(* DEL fails: the keys count as looked at, the log waits for another try. *)
RollBackFails(b) ==
  /\ Newest(b) /\ faults < MaxFaults
  /\ faults' = faults + 1
  /\ deleted' = deleted \cup KeysOf(b)
  /\ queue' = queue \ {b}
  /\ UNCHANGED <<conf, stage, ctr, expired, pc, base, end, store, rec, logs, lifeVars>>

EndRollback ==
  /\ stage = "rolling" /\ queue = {}
  /\ stage' = IF logs = {} THEN "rolled" ELSE "ended"
  /\ UNCHANGED <<conf, ctr, expired, pc, base, end, store, rec, rollVars, lifeVars, faults>>

-------------------------------------------------------------------------------
(* One key of another type or with other data may exist before the task,   *)
(* with a life time or without.                                            *)
Init ==
  /\ conf \in Confs
  /\ stage = "draft"
  /\ ctr = -1 /\ expired = FALSE
  /\ pc = [b \in Batches |-> "new"]
  /\ base = [b \in Batches |-> -1]
  /\ end = [b \in Batches |-> "none"]
  /\ \E q \in {<<"fixed", 0>>, <<"i", 0>>, <<"num", First>>}, kind \in {"none", "same", "other"} :
       /\ store = [p \in Keys |-> IF p = q /\ kind # "none"
                                  THEN [kind |-> kind, rows |-> {Foreign}] ELSE Absent]
       /\ timed \in {{}, IF kind # "none" THEN {q} ELSE {}}
  /\ rec = [b \in Batches |-> "none"]
  /\ logs = {} /\ queue = {} /\ deleted = {}
  /\ lapsed = {}
  /\ faults = 0

Next ==
  \/ Save \/ ExpireCounter \/ Finish \/ StartRollback \/ EndRollback
  \/ \E b \in Batches : \/ StartBatch(b) \/ SeedCounter(b) \/ Reserve(b)
                        \/ RenderFails(b) \/ Write(b) \/ WriteFails(b)
                        \/ Record(b) \/ RecordFails(b)
                        \/ RollBack(b) \/ RollBackFails(b)
  \/ \E q \in timed : ExpireKey(q)

Spec == Init /\ [][Next]_vars

-------------------------------------------------------------------------------
(* A key that exists holds something, and only keys that the task or its   *)
(* owner wrote exist; a rollback log belongs to a recorded success.        *)
TypeOK ==
  /\ conf \in Confs /\ stage \in Stages /\ expired \in BOOLEAN
  /\ ctr \in -1..(First + NB * Size) /\ faults \in 0..MaxFaults
  /\ pc \in [Batches -> Steps]
  /\ base \in [Batches -> -1..(First + NB * Size)]
  /\ end \in [Batches -> {"none", "ok", "render", "refused", "lost", "clash"}]
  /\ \A q \in Keys : store[q] \in Values /\ (store[q].kind = "none" <=> store[q].rows = {})
  /\ rec \in [Batches -> {"none", "ok", "fail"}]
  /\ queue \subseteq logs /\ logs \subseteq Recorded("ok") /\ deleted \subseteq Keys
  /\ timed \subseteq Keys /\ lapsed \subseteq Rows

Numbers(b) == base[b]..(base[b] + Size - 1)
Reserved == {b \in Batches : base[b] # -1}

(* The numbers of all batches, whatever the interleaving of the threads,   *)
(* are disjoint and without gaps from the first one on: First for {incr},  *)
(* 0 where nothing seeds the counter.  The life time of the counter, 24 h  *)
(* from its first use, must outlast the task.                              *)
NumbersFollowOn ==
  ~expired /\ Reserved # {} =>
    LET first == IF conf.token = "incr" THEN First ELSE 0
    IN UNION {Numbers(b) : b \in Reserved}
         = first..(first + Size * Cardinality(Reserved) - 1)

(* Is a row in its key, as an element of its own or one that it equals?    *)
Held(b, i) == \E r \in store[KeyOf(b, i)].rows : Equal(r, <<b, i>>)

(* Each row that was counted as written is in the data source until a      *)
(* rollback or the end of the life time of its key: no batch overwrites    *)
(* another, with a key that holds a number, a value of its own, or grows.  *)
(* In a set, what is kept is an element equal to it: the rows counted are  *)
(* those handed to SADD and ZADD, and may be more than the elements.       *)
RowsKept ==
  /\ stage \in {"running", "failed", "ended"} /\ deleted = {} /\ ~expired
  /\ conf.write = "single_key" \/ conf.token \in {"incr", "alias", "own"}
  => \A b \in Recorded("ok"), i \in Indexes : <<b, i>> \in lapsed \/ Held(b, i)

(* Once a rollback has succeeded, the only rows left of the task are those *)
(* of batches that failed with their commands executed - the answer lost,  *)
(* or a key of another type - or were never recorded, unless the task was  *)
(* too large to capture its keys.                                          *)
LeftoversExplained ==
  stage = "rolled" =>
    \A q \in Keys : \A r \in store[q].rows \ {Foreign} :
      ~conf.capture \/ end[r[1]] \in {"lost", "clash"} \/ rec[r[1]] = "none"
=============================================================================
