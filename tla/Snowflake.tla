------------------------------ MODULE Snowflake ------------------------------
(***************************************************************************)
(* The snowflake generator of a process, shared by its threads, in all the *)
(* processes of the system (engine/strategies/pk_strategies.py).  Its      *)
(* numbers are primary keys of generated rows, task_no of tasks and        *)
(* scene_exec_no of scene executions.                                      *)
(***************************************************************************)
EXTENDS Integers

CONSTANTS
  Threads,      \* all threads
  Process,      \* Process[t]: the process of a thread
  Pids,         \* the machine number a process derives from its pid and host
  Machines,     \* 2^(DATACENTER_BITS + MACHINE_BITS)
  Sequences,    \* 2^SEQUENCE_BITS
  NoThread,     \* no thread
  MaxTime,      \* bound on the clock
  MaxBack,      \* bound on the times the clock is set back
  MaxRestarts   \* bound on the restarts of processes

Procs == {Process[t] : t \in Threads}

ASSUME BitsAssumption ==
  /\ Machines \in Nat \ {0} /\ Sequences \in Nat \ {0} /\ Pids \subseteq Nat
  /\ MaxTime \in Nat /\ MaxBack \in Nat /\ MaxRestarts \in Nat
  /\ NoThread \notin Threads
  /\ Process \in [Threads -> Procs]

VARIABLES
  now,        \* milliseconds since EPOCH, the same for all processes
  back,       \* times the clock was set back
  restarts,   \* restarts so far
  machine,    \* machine bits of a process
  last,       \* _last_timestamp of the generator of a process
  seq,        \* its _sequence
  lock,       \* thread that holds its _lock
  pc,         \* where a thread is in next_id
  stamp,      \* the thread's timestamp
  newest,     \* newest number of a process since it started, or -1
  used        \* all numbers a process has issued

idVars == <<now, back, restarts, machine, last, seq, lock, pc, stamp, newest, used>>
genVars == <<last, seq, lock, pc, stamp>>

Times == 0..MaxTime

IdInit ==
  /\ now = 0 /\ back = 0 /\ restarts = 0
  /\ machine \in [Procs -> {n % Machines : n \in Pids}]
  /\ last = [p \in Procs |-> -1]
  /\ seq = [p \in Procs |-> 0]
  /\ lock = [p \in Procs |-> NoThread]
  /\ pc = [t \in Threads |-> "idle"]
  /\ stamp = [t \in Threads |-> 0]
  /\ newest = [p \in Procs |-> -1]
  /\ used = [p \in Procs |-> {}]

\* The fields side by side: timestamp, datacenter and machine, sequence.
Compose(time, m, s) == (time * Machines + m) * Sequences + s

GoTo(t, s) == pc' = [pc EXCEPT ![t] = s]

EnterM(t) == \* mutant: no lock
  /\ pc[t] = "idle"
  /\ GoTo(t, "locked")
  /\ UNCHANGED <<now, back, restarts, machine, last, seq, stamp, lock, newest, used>>

Enter(t) ==
  /\ pc[t] = "idle" /\ lock[Process[t]] = NoThread
  /\ lock' = [lock EXCEPT ![Process[t]] = t]
  /\ GoTo(t, "locked")
  /\ UNCHANGED <<now, back, restarts, machine, last, seq, stamp, newest, used>>

\* A clock behind the last timestamp is waited for; the same millisecond takes
\* the next number of the sequence, and waits when there is none left.
ReadClock(t) ==
  LET p == Process[t]
      next == IF now = last[p] THEN (seq[p] + 1) % Sequences ELSE 0
  IN  /\ pc[t] = "locked"
      /\ stamp' = [stamp EXCEPT ![t] = now]
      /\ IF now < last[p]
         THEN GoTo(t, "behind") /\ UNCHANGED seq
         ELSE /\ seq' = [seq EXCEPT ![p] = next]
              /\ GoTo(t, IF now = last[p] /\ next = 0 THEN "exhausted" ELSE "issue")
      /\ UNCHANGED <<now, back, restarts, machine, last, lock, newest, used>>

WaitNextMsM(t) == \* mutant: waits only until the clock has caught up
  LET p == Process[t] IN
  /\ pc[t] \in {"behind", "exhausted"}
  /\ now >= last[p]
  /\ stamp' = [stamp EXCEPT ![t] = now]
  /\ seq' = [seq EXCEPT ![p] = 0]
  /\ GoTo(t, "issue")
  /\ UNCHANGED <<now, back, restarts, machine, last, lock, newest, used>>

\* _wait_next_ms: until the clock is past the last timestamp; either way the
\* sequence of the new millisecond starts at 0.
WaitNextMs(t) ==
  LET p == Process[t] IN
  /\ pc[t] \in {"behind", "exhausted"}
  /\ now > last[p]
  /\ stamp' = [stamp EXCEPT ![t] = now]
  /\ seq' = [seq EXCEPT ![p] = 0]
  /\ GoTo(t, "issue")
  /\ UNCHANGED <<now, back, restarts, machine, last, lock, newest, used>>

\* The timestamp is kept, the number returned and the lock released.
Issue(t) ==
  LET p == Process[t]
      id == Compose(stamp[t], machine[p], seq[p])
  IN  /\ pc[t] = "issue"
      /\ last' = [last EXCEPT ![p] = stamp[t]]
      /\ newest' = [newest EXCEPT ![p] = id]
      /\ used' = [used EXCEPT ![p] = @ \cup {id}]
      /\ lock' = [lock EXCEPT ![p] = NoThread]
      /\ GoTo(t, "idle")
      /\ stamp' = [stamp EXCEPT ![t] = 0]
      /\ UNCHANGED <<now, back, restarts, machine, seq>>

Tick ==
  /\ now < MaxTime
  /\ now' = now + 1
  /\ UNCHANGED <<back, restarts, machine, genVars, newest, used>>

\* The clock of the host is set back.
SetBack ==
  /\ back < MaxBack
  /\ back' = back + 1
  /\ now' \in {n \in Times : n < now}
  /\ UNCHANGED <<restarts, machine, genVars, newest, used>>

\* A process starts again, with a new generator and perhaps another pid; that
\* takes more than a millisecond.
Restart(p) ==
  /\ restarts < MaxRestarts /\ now < MaxTime
  /\ restarts' = restarts + 1
  /\ now' = now + 1
  /\ \E n \in Pids : machine' = [machine EXCEPT ![p] = n % Machines]
  /\ last' = [last EXCEPT ![p] = -1]
  /\ seq' = [seq EXCEPT ![p] = 0]
  /\ lock' = [lock EXCEPT ![p] = NoThread]
  /\ pc' = [t \in Threads |-> IF Process[t] = p THEN "idle" ELSE pc[t]]
  /\ stamp' = [t \in Threads |-> IF Process[t] = p THEN 0 ELSE stamp[t]]
  /\ newest' = [newest EXCEPT ![p] = -1]
  /\ UNCHANGED <<back, used>>

IdNext ==
  \/ \E t \in Threads : Enter(t) \/ ReadClock(t) \/ WaitNextMs(t) \/ Issue(t)
  \/ Tick
  \/ SetBack
  \/ \E p \in Procs : Restart(p)

IdSpec == IdInit /\ [][IdNext]_idVars

-----------------------------------------------------------------------------
(* Properties.                                                             *)

\* Every variable keeps its shape (SnowflakeIdGenerator.__init__, next_id).
IdTypeOK ==
  /\ now \in Times /\ back \in 0..MaxBack /\ restarts \in 0..MaxRestarts
  /\ machine \in [Procs -> 0..(Machines - 1)]
  /\ last \in [Procs -> -1..MaxTime]
  /\ seq \in [Procs -> 0..(Sequences - 1)]
  /\ lock \in [Procs -> Threads \cup {NoThread}]
  /\ pc \in [Threads -> {"idle", "locked", "behind", "exhausted", "issue"}]
  /\ stamp \in [Threads -> Times]
  /\ newest \in [Procs -> Nat \cup {-1}]
  /\ used \in [Procs -> SUBSET Nat]

\* From its start to its end a process issues ever larger numbers, whatever its
\* threads and the clock do (pk_strategies.py:6 promises it).
IdsIncrease ==
  [][\A p \in Procs :
       newest'[p] \in {newest[p], -1} \/ newest'[p] > newest[p]]_idVars

\* Unless the clock was set back, a number that is issued again comes from
\* another process with the same machine bits: never from the threads or the
\* earlier lives of one process (pk_strategies.py:7-8, 103, 108).
IdsUnique ==
  [][\A p, q \in Procs :
       newest'[p] \notin {newest[p], -1} /\ newest'[p] \in used[q] =>
         \/ back > 0
         \/ q # p /\ (machine[q] = machine[p] \/ restarts > 0)]_idVars
=============================================================================
