---------------------------- MODULE TaskContract ----------------------------
(***************************************************************************)
(* What an execution of a task promises to those who come after it, the    *)
(* stop, the retry and the rollback (engine/executor.py): rows appear only *)
(* while the task is running; a batch is logged at most once, its log says *)
(* which of its tables have rows, and from then on its rows do not change; *)
(* the verdict is what the logs add up to.                                 *)
(***************************************************************************)
EXTENDS Naturals

CONSTANTS
  Batches,
  Tables,   \* numbers, in the order of insertion
  Syncs,    \* synchronisations to Redis, logged like tables
  Main      \* the main table

VARIABLES
  due,      \* batches of the task
  copies,   \* copies of the rows of a batch of a table in the database
  sure,     \* has every commit been answered?
  log,      \* log[b]: what succeeded of a batch, once it is logged
  verdict

contractVars == <<due, copies, sure, log, verdict>>

Entries == Tables \cup Syncs
Logged  == DOMAIN log

Init ==
  /\ due \subseteq Batches
  /\ copies = [b \in Batches |-> [t \in Tables |-> 0]]
  /\ sure = TRUE
  /\ log = [b \in {} |-> {}]
  /\ verdict = "running"

(* The rows of a table of a batch appear, after those of the main table;   *)
(* more than once only when a commit was not answered.                     *)
Insert(b, t) ==
  /\ verdict = "running" /\ b \in due /\ b \notin Logged
  /\ copies[b][t] = 0 /\ copies'[b][t] \in Nat \ {0}
  /\ t > Main => copies[b][Main] > 0
  /\ copies' = [copies EXCEPT ![b][t] = copies'[b][t]]
  /\ sure' \in {sure, FALSE} /\ (sure' => copies'[b][t] = 1)
  /\ UNCHANGED <<due, log, verdict>>

(* A batch is logged: no success without rows, no rows without a success   *)
(* unless a commit was not answered, no synchronisation of less than all.  *)
Write(b, good) ==
  /\ verdict = "running" /\ b \in due /\ b \notin Logged
  /\ good \subseteq Entries
  /\ \A t \in Tables : t \in good => copies[b][t] > 0
  /\ sure => \A t \in Tables : copies[b][t] > 0 => t \in good
  /\ good \cap Syncs # {} => Tables \subseteq good
  /\ log' = [c \in Logged \cup {b} |-> IF c = b THEN good ELSE log[c]]
  /\ UNCHANGED <<due, copies, sure, verdict>>

(* Success means everything, partial success something but not everything. *)
Decide ==
  /\ verdict = "running" /\ verdict' \in {"success", "partial", "failed"}
  /\ verdict' = "success" => due \subseteq Logged /\ \A b \in due : log[b] = Entries
  /\ verdict' = "partial" => /\ \E b \in Logged : log[b] # {}
                             /\ ~(due \subseteq Logged) \/ \E b \in due : log[b] # Entries
  /\ UNCHANGED <<due, copies, sure, log>>

(* A verdict that cannot be announced becomes a failure. *)
Withdraw ==
  /\ verdict \in {"success", "partial"} /\ verdict' = "failed"
  /\ UNCHANGED <<due, copies, sure, log>>

Next ==
  \/ \E b \in Batches, t \in Tables : Insert(b, t)
  \/ \E b \in Logged' \ Logged : Write(b, log'[b])
  \/ Decide
  \/ Withdraw

Spec == Init /\ [][Next]_contractVars
=============================================================================
