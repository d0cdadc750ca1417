------------------------------ MODULE IncrCounter ------------------------------
(***************************************************************************)
(* The counter in Redis behind one INCR_FROM column of one task: every run *)
(* of the task (its execution, then its retries) sets it if it is absent,  *)
(* the threads of the run reserve a range of it for every batch, and a run *)
(* that reaches its verdict gives it a life time of 24 hours, which may    *)
(* end while a later run is under way.                                     *)
(***************************************************************************)
EXTENDS Integers

CONSTANTS
  Runs,     \* runs of the task
  Exec,     \* the execution; the other runs are retries
  Batches,  \* batches of the table
  Size,     \* Size[b]: rows of batch b
  Start     \* parameter "start" of the strategy

ASSUME RunsAssumption == Exec \in Runs
ASSUME SizeAssumption == Size \in [Batches -> Nat \ {0}] /\ Start \in Nat \ {0}

VARIABLES
  counter,  \* value of the key, or NoKey
  mortal,   \* does the key have a life time?
  phase,    \* state of every run
  base,     \* first number reserved by a run for a batch
  era,      \* how often the key had expired when that happened
  stored,   \* reservations whose rows are in the target database
  expiries  \* how often the key has expired

incrVars == <<counter, mortal, phase, base, era, stored, expiries>>

NoKey    == -1
Pairs    == Runs \X Batches
Reserved == {q \in Pairs : base[q] # NoKey}
Numbers(q) == base[q]..(base[q] + Size[q[2]] - 1)

IncrTypeOK ==
  /\ counter \in Nat \cup {NoKey}
  /\ mortal \in BOOLEAN
  /\ phase \in [Runs -> {"idle", "run", "ended"}]
  /\ base \in [Pairs -> Nat \cup {NoKey}]
  /\ era \in [Pairs -> Nat]
  /\ stored \in SUBSET Pairs
  /\ expiries \in Nat

IncrInit ==
  /\ counter = NoKey
  /\ mortal = FALSE
  /\ phase = [r \in Runs |-> "idle"]
  /\ base = [q \in Pairs |-> NoKey]
  /\ era = [q \in Pairs |-> 0]
  /\ stored = {}
  /\ expiries = 0

-------------------------------------------------------------------------------
(* _init_incr_counters: SET NX.  Retries may overlap one another, never    *)
(* the execution.                                                          *)
Begin(r) ==
  /\ phase[r] = "idle" /\ (r = Exec \/ phase[Exec] = "ended")
  /\ counter' = IF counter = NoKey THEN Start ELSE counter
  /\ phase' = [phase EXCEPT ![r] = "run"]
  /\ UNCHANGED <<mortal, base, era, stored, expiries>>

(* INCRBY of n, which takes an absent key for 0; the numbers of the batch  *)
(* are taken to begin at the new value minus lead.                         *)
Value == IF counter = NoKey THEN 0 ELSE counter
Incrby(r, b, n, lead) ==
  /\ phase[r] = "run" /\ base[<<r, b>>] = NoKey
  /\ counter' = Value + n
  /\ base' = [base EXCEPT ![<<r, b>>] = Value + n - lead]
  /\ era' = [era EXCEPT ![<<r, b>>] = expiries]
  /\ UNCHANGED <<mortal, phase, stored, expiries>>

(* Mutants: the counter moves by one less than the rows of the batch; the  *)
(* range starts one late.                                                  *)
ReserveM(r, b)     == Incrby(r, b, Size[b] - 1, Size[b] - 1)
ReserveLate(r, b)  == Incrby(r, b, Size[b], Size[b] - 1)

(* prefetch_incr_range. *)
Reserve(r, b) == Incrby(r, b, Size[b], Size[b])

(* The insert of the batch commits; one that fails wastes its numbers. *)
Store(q) ==
  /\ phase[q[1]] = "run" /\ q \in Reserved \ stored
  /\ stored' = stored \cup {q}
  /\ UNCHANGED <<counter, mortal, phase, base, era, expiries>>

(* _expire_incr_counters at the verdict, on a best-effort basis; a run     *)
(* left by an exception does not come to it.                               *)
Finish(r) ==
  /\ phase[r] = "run"
  /\ phase' = [phase EXCEPT ![r] = "ended"]
  /\ mortal' \in {mortal, counter # NoKey}
  /\ UNCHANGED <<counter, base, era, stored, expiries>>

(* The life time ends. *)
Expire ==
  /\ mortal
  /\ counter' = NoKey
  /\ mortal' = FALSE
  /\ expiries' = expiries + 1
  /\ UNCHANGED <<phase, base, era, stored>>

IncrNext ==
  \/ \E r \in Runs : Begin(r) \/ Finish(r) \/ \E b \in Batches : Reserve(r, b)
  \/ \E q \in Pairs : Store(q)
  \/ Expire

IncrSpec == IncrInit /\ [][IncrNext]_incrVars

-------------------------------------------------------------------------------
(* Properties. *)

(* As long as the key has not expired, the rows in the target database     *)
(* carry distinct numbers, none below the start value, whichever runs and  *)
(* threads inserted them (prefetch_incr_range).                            *)
StoredDistinct ==
  expiries = 0 => \A q \in stored :
    /\ Numbers(q) \subseteq Start..(counter - 1)
    /\ \A p \in stored \ {q} : Numbers(p) \cap Numbers(q) = {}

(* No number is skipped: what the runs reserved before the key expired is  *)
(* the whole interval between the start value and the counter, so that a   *)
(* gap in the table always stands for a failed batch.                      *)
NoneSkipped ==
  expiries = 0 /\ counter # NoKey =>
    Start..(counter - 1) = UNION {Numbers(q) : q \in Reserved}

(* The numbers in the table are distinct, and no number was left out. *)
NumbersWhole == StoredDistinct /\ NoneSkipped

(* The reservations of the life of a key are grants of distinct numbers;   *)
(* the end of that life forgets them.                                      *)
Live(q) == q \in Reserved /\ era[q] = expiries
Granted == [q \in Pairs |-> IF Live(q) THEN Numbers(q) ELSE {}]
Grants  == INSTANCE NumberGrants WITH Clients <- Pairs, grant <- Granted
GrantsDistinct == Grants!Spec
================================================================================
