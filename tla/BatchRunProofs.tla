---------------------------- MODULE BatchRunProofs ----------------------------
(***************************************************************************)
(* Proofs about BatchRun, for every number of tables, batches, rounds,     *)
(* threads, retries and lost commits.  IInv strengthens the properties to  *)
(* an inductive invariant; its parts are named for what they add.          *)
(***************************************************************************)
EXTENDS BatchRun, FiniteSetTheorems, TLAPS

(* The thread of a batch works strictly forward: nothing was written for   *)
(* the entries it has not reached, and batches not started wrote nothing.  *)
ForwardOnly ==
  \A b \in Batches :
    /\ \A t \in Tables : t >= at[b] => rows[b][t] = 0
    /\ fut[b] \in {"new", "queued", "cancelled", "notified", "dropped"} => at[b] = 1

(* What a result entry says about the rows of its table. *)
EntriesMatchRows ==
  \A b \in Batches, t \in Tables :
    /\ out[b][t] = "ok" => rows[b][t] > 0
    /\ lost = 0 => rows[b][t] = IF out[b][t] = "ok" THEN 1 ELSE 0

(* A batch goes past the main table only when the main table succeeded. *)
MainFirst ==
  \A b \in Batches :
    /\ at[b] \in Tables /\ at[b] > Main => out[b][Main] = "ok"
    /\ \A t \in Tables : t > Main /\ rows[b][t] > 0 => out[b][Main] = "ok"

(* Every failure counted: a logged failure, and a stop, leave a trace.     *)
FailuresCounted ==
  /\ \A b \in Batches, e \in Entries :
       fut[b] = "logged" /\ out[b][e] # "ok" => fail[b[1]] > 0
  /\ \A r \in 1..NR : stopped[r] => fail[r] > 0

(* Only the current round has futures in flight or batches left to submit; *)
(* only a stopped round loses batches.                                     *)
RoundDiscipline ==
  /\ round <= Rounds
  /\ \A b \in Batches :
       /\ b \in InFlight => b[1] = round
       /\ fut[b] \in {"cancelled", "notified", "dropped"} => stopped[b[1]]
       /\ b[1] < round => stopped[b[1]] \/ fut[b] = "logged"
       /\ b[1] = round /\ b[2] < index => fut[b] # "new"
       /\ b[1] > round \/ (b[1] = round /\ b[2] >= index) => fut[b] = "new"
  /\ pc = "submit" => doneSet = {}

Closed == \A b \in RoundBatches : stopped[b[1]] \/ fut[b] = "logged"

(* What has been established when the verdict is computed, and after.      *)
VerdictEarned ==
  /\ pc \in {"final", "publish"} => Closed /\ InFlight = {}
  /\ status # "running" => pc \in {"publish", "unwind", "done", "left"} /\ Unfinished = {}
  /\ status = "success" =>
       /\ \A r \in 1..Rounds : fail[r] = 0
       /\ \A b \in RoundBatches : fut[b] = "logged"

IInv == /\ TypeOK
        /\ ForwardOnly
        /\ EntriesMatchRows
        /\ MainFirst
        /\ FailuresCounted
        /\ RoundDiscipline
        /\ VerdictEarned

-------------------------------------------------------------------------------
(* Arithmetic and cardinalities. *)

(* A batch has at least one row: SizeOf follows the offsets of _run_all.    *)
LEMMA SizePositive == \A b \in Batches : SizeOf(b) \in Nat \ {0}
<1> SUFFICES ASSUME NEW b \in Batches PROVE SizeOf(b) \in Nat \ {0}
  OBVIOUS
<1>1. b[2] \in 1..NB /\ NB \in Nat \ {0} /\ BatchSize \in Nat \ {0} /\ RowCount \in Nat
  BY SizesAssumption DEF Batches
<1>2. (b[2] - 1) * BatchSize <= (NB - 1) * BatchSize
  BY <1>1
<1>3. (b[2] - 1) * BatchSize \in Int /\ (NB - 1) * BatchSize \in Int
  BY <1>1
<1>4. RowCount - (b[2] - 1) * BatchSize > 0
  BY <1>1, <1>2, <1>3, SizesAssumption
<1> HIDE DEF Batches
<1> QED
  BY <1>1, <1>3, <1>4 DEF SizeOf, Lesser

(* The entries of a batch result are finitely many, so are its successes   *)
(* and failures, and a failure counts at least one row.                    *)
LEMMA EntryCounts ==
  ASSUME NEW b \in Batches
  PROVE  /\ SizeOf(b) * Cardinality(Succeeded(b)) \in Nat
         /\ SizeOf(b) * Cardinality(Failed(b)) \in Nat
         /\ Failed(b) # {} => SizeOf(b) * Cardinality(Failed(b)) > 0
<1>1. NT + NS \in Nat /\ 1 \in Int
  BY SizesAssumption
<1>2. IsFiniteSet(Entries)
  BY <1>1, FS_Interval DEF Entries
<1>3. IsFiniteSet(Succeeded(b)) /\ IsFiniteSet(Failed(b))
  BY <1>2, FS_Subset DEF Succeeded, Failed
<1>4. Cardinality(Succeeded(b)) \in Nat /\ Cardinality(Failed(b)) \in Nat
  BY <1>3, FS_CardinalityType
<1>5. Failed(b) # {} => Cardinality(Failed(b)) # 0
  BY <1>3, FS_EmptySet
<1> QED
  BY <1>4, <1>5, SizePositive

-------------------------------------------------------------------------------
(* Type correctness. *)

(* The initial values have their types. *)
LEMMA TypeInit == Init => TypeOK
  BY SizesAssumption, LimitsAssumption, TablesAssumption
     DEF Init, TypeOK, Lesser, MainState, FutureState, Outcome, Verdicts, Entries,
         Tables

(* Entering an outcome for a table of a running batch keeps the types. *)
LEMMA EnterType ==
  ASSUME TypeOK, NEW b \in Batches, NEW t \in Tables, NEW o \in Outcome, Enter(b, t, o)
  PROVE  /\ out' \in [Batches -> [Entries -> Outcome]]
         /\ at' \in [Batches -> 1..(NT + 1)]
  BY SizesAssumption DEF TypeOK, Enter, Outcome, Tables, Entries

(* Counting into one round leaves a vector of naturals. *)
LEMMA CountInto ==
  ASSUME NEW f \in [1..NR -> Nat], NEW r \in 1..NR, NEW n \in Nat
  PROVE  [f EXCEPT ![r] = @ + n] \in [1..NR -> Nat]
  OBVIOUS

(* Every step keeps the types. *)
LEMMA TypeStep ==
  ASSUME TypeOK, [Next]_vars
  PROVE  TypeOK'
<1> USE SizesAssumption, LimitsAssumption, TablesAssumption
<1> USE DEF MainState, FutureState, Verdicts, mainVars, statsVars, workerVars
<1>1. ASSUME NEW b \in Batches, StartBatch(b) PROVE TypeOK'
  BY <1>1 DEF TypeOK, StartBatch
<1>a. ASSUME NEW b \in Batches, NotifyCancelled(b) PROVE TypeOK'
  BY <1>a DEF TypeOK, NotifyCancelled
<1>2. ASSUME NEW b \in Batches, GenerateRefused(b) PROVE TypeOK'
  <2>1. "nogen" \in Outcome
    BY DEF Outcome
  <2>2. /\ out' \in [Batches -> [Entries -> Outcome]]
        /\ at' \in [Batches -> 1..(NT + 1)]
    BY <1>2, <2>1, EnterType DEF GenerateRefused
  <2> QED
    BY <1>2, <2>2 DEF TypeOK, GenerateRefused
<1>3. ASSUME NEW b \in Batches, InsertSucceeds(b) PROVE TypeOK'
  <2>1. "ok" \in Outcome
    BY DEF Outcome
  <2>2. /\ out' \in [Batches -> [Entries -> Outcome]]
        /\ at' \in [Batches -> 1..(NT + 1)]
    BY <1>3, <2>1, EnterType DEF InsertSucceeds
  <2>3. rows' \in [Batches -> [Tables -> Nat]] /\ lost' \in 0..MaxLost
    BY <1>3 DEF TypeOK, InsertSucceeds, Lesser
  <2> QED
    BY <1>3, <2>2, <2>3 DEF TypeOK, InsertSucceeds
<1>4. ASSUME NEW b \in Batches, InsertFails(b) PROVE TypeOK'
  <2>1. "fail" \in Outcome
    BY DEF Outcome
  <2>2. /\ out' \in [Batches -> [Entries -> Outcome]]
        /\ at' \in [Batches -> 1..(NT + 1)]
    BY <1>4, <2>1, EnterType DEF InsertFails
  <2>3. rows' \in [Batches -> [Tables -> Nat]] /\ lost' \in 0..MaxLost
    BY <1>4 DEF TypeOK, InsertFails, Lesser
  <2> QED
    BY <1>4, <2>2, <2>3 DEF TypeOK, InsertFails
<1>5. ASSUME NEW b \in Batches, SyncAndFinish(b) PROVE TypeOK'
  BY <1>5 DEF TypeOK, SyncAndFinish, Outcome
<1>6. ASSUME NEW b \in Batches, BatchRaises(b) PROVE TypeOK'
  BY <1>6 DEF TypeOK, BatchRaises
<1>7. ASSUME Submit PROVE TypeOK'
  <2>1. index' \in 1..(NB + 1)
    BY <1>7 DEF TypeOK, Submit, CanSubmit
  <2>2. fut' \in [Batches -> FutureState]
    BY <1>7 DEF TypeOK, Submit
  <2> QED
    BY <1>7, <2>1, <2>2 DEF TypeOK, Submit
<1>8. ASSUME Wait PROVE TypeOK'
  BY <1>8 DEF TypeOK, Wait, Finished, Pending, InFlight
<1>9. ASSUME NEW b \in Batches, SkipCancelled(b) PROVE TypeOK'
  BY <1>9 DEF TypeOK, SkipCancelled
<1>10. ASSUME NEW b \in Batches, Record(b) PROVE TypeOK'
  <2> DEFINE good == SizeOf(b) * Cardinality(Succeeded(b))
             bad  == SizeOf(b) * Cardinality(Failed(b))
  <2>1. good \in Nat /\ bad \in Nat
    BY EntryCounts
  <2>2. succ' = [succ EXCEPT ![round] = @ + good] /\ fail' = [fail EXCEPT ![round] = @ + bad]
    BY <1>10 DEF Record
  <2> HIDE DEF good, bad
  <2>3. succ' \in [1..NR -> Nat] /\ fail' \in [1..NR -> Nat]
    BY <2>1, <2>2, CountInto DEF TypeOK
  <2> QED
    BY <1>10, <2>3 DEF TypeOK, Record
<1>11. ASSUME MainRaises PROVE TypeOK'
  BY <1>11 DEF TypeOK, MainRaises
<1>12. ASSUME CheckRate PROVE TypeOK'
  BY <1>12 DEF TypeOK, CheckRate
<1>13. ASSUME NextShard PROVE TypeOK'
  BY <1>13 DEF TypeOK, NextShard, Lesser
<1>14. ASSUME RoundEnd PROVE TypeOK'
  <2>1. RowCount * NT \in Int
    OBVIOUS
  <2>2. Remaining(round) \in Nat
    BY <2>1 DEF TypeOK, Remaining
  <2>3. fail' \in [1..NR -> Nat]
    BY <1>14, <2>2 DEF TypeOK, RoundEnd
  <2>4. /\ round' \in 1..NR
        /\ index' \in 1..(NB + 1)
        /\ shardEnd' \in 1..NB
        /\ pc' \in MainState
    <3>1. /\ round \in 1..NR /\ index \in 1..(NB + 1) /\ shardEnd \in 1..NB
          /\ pc \in MainState
      BY DEF TypeOK
    <3>2. CASE round < Rounds
      BY <1>14, <3>1, <3>2 DEF RoundEnd, Rounds, Lesser, MainState
    <3>3. CASE ~(round < Rounds)
      BY <1>14, <3>1, <3>3 DEF RoundEnd, MainState
    <3> QED BY <3>2, <3>3
  <2> QED
    BY <1>14, <2>3, <2>4 DEF TypeOK, RoundEnd
<1>15. ASSUME Finalize PROVE TypeOK'
  BY <1>15 DEF TypeOK, Finalize, Verdict
<1>16. ASSUME Publish PROVE TypeOK'
  BY <1>16 DEF TypeOK, Publish
<1>17. ASSUME Unwind PROVE TypeOK'
  BY <1>17 DEF TypeOK, Unwind
<1>18. ASSUME UNCHANGED vars PROVE TypeOK'
  BY <1>18 DEF TypeOK, vars
<1> QED
  BY <1>1, <1>a, <1>2, <1>3, <1>4, <1>5, <1>6, <1>7, <1>8, <1>9, <1>10, <1>11, <1>12,
     <1>13, <1>14, <1>15, <1>16, <1>17, <1>18
     DEF Next, WorkerStep, MainStep, Terminating

(* Every variable keeps its type in every execution of a task.              *)
THEOREM TypeCorrect == Spec => []TypeOK
  BY TypeInit, TypeStep, PTL DEF Spec

-------------------------------------------------------------------------------
(* Rounds: which batches are in flight, submitted, lost or logged. *)

(* Nothing is in flight when a task starts. *)
LEMMA RoundInit == Init => RoundDiscipline
  BY SizesAssumption DEF Init, RoundDiscipline, Rounds, InFlight, Batches

(* Only batches of the current round and below the index are in flight. *)
LEMMA RoundStep ==
  ASSUME TypeOK, RoundDiscipline, [Next]_vars
  PROVE  RoundDiscipline'
<1> USE DEF mainVars, statsVars, workerVars, RoundDiscipline, InFlight, Rounds
<1>0. \A b \in Batches : b[1] \in 1..NR /\ b[2] \in 1..NB /\ b = <<b[1], b[2]>>
  BY DEF Batches
<1>1. ASSUME NEW b \in Batches, StartBatch(b) PROVE RoundDiscipline'
  BY <1>1 DEF TypeOK, StartBatch
<1>a. ASSUME NEW b \in Batches, NotifyCancelled(b) PROVE RoundDiscipline'
  BY <1>a DEF TypeOK, NotifyCancelled
<1>2. ASSUME NEW b \in Batches, GenerateRefused(b) PROVE RoundDiscipline'
  BY <1>2 DEF GenerateRefused
<1>3. ASSUME NEW b \in Batches, InsertSucceeds(b) PROVE RoundDiscipline'
  BY <1>3 DEF InsertSucceeds
<1>4. ASSUME NEW b \in Batches, InsertFails(b) PROVE RoundDiscipline'
  BY <1>4 DEF InsertFails
<1>5. ASSUME NEW b \in Batches, SyncAndFinish(b) PROVE RoundDiscipline'
  BY <1>5 DEF TypeOK, SyncAndFinish
<1>6. ASSUME NEW b \in Batches, BatchRaises(b) PROVE RoundDiscipline'
  BY <1>6 DEF TypeOK, BatchRaises
<1>7. ASSUME Submit PROVE RoundDiscipline'
  <2>1. \A b \in Batches :
          fut'[b] = IF b[1] = round /\ b[2] = index THEN "queued" ELSE fut[b]
    BY <1>0, <1>7 DEF TypeOK, Submit
  <2>2. index' = index + 1 /\ index \in Int
    BY <1>7 DEF TypeOK, Submit
  <2> QED
    BY <1>0, <1>7, <2>1, <2>2 DEF TypeOK, Submit
<1>8. ASSUME Wait PROVE RoundDiscipline'
  BY <1>8 DEF Wait
<1>9. ASSUME NEW b \in Batches, SkipCancelled(b) PROVE RoundDiscipline'
  BY <1>9 DEF TypeOK, SkipCancelled
<1>10. ASSUME NEW b \in Batches, Record(b) PROVE RoundDiscipline'
  BY <1>10 DEF TypeOK, Record
<1>11. ASSUME MainRaises PROVE RoundDiscipline'
  BY <1>11 DEF MainRaises
<1>12. ASSUME CheckRate PROVE RoundDiscipline'
  <2>1. CASE ~stopped[round] /\ RateExceeded(round)
    <3>1. \A b \in Batches :
            fut'[b] = IF fut[b] = "queued" THEN "cancelled" ELSE fut[b]
      BY <1>12, <2>1 DEF CheckRate
    <3>2. stopped' = [stopped EXCEPT ![round] = TRUE]
      BY <1>12, <2>1 DEF CheckRate
    <3>3. \A r \in 1..NR : stopped'[r] <=> (r = round \/ stopped[r])
      BY <3>2 DEF TypeOK
    <3>4. UNCHANGED <<round, index, doneSet, iterate>> /\ pc' = "submit" /\ doneSet = {}
      BY <1>12 DEF CheckRate
    <3> QED
      BY <1>0, <3>1, <3>3, <3>4 DEF TypeOK
  <2>2. CASE ~(~stopped[round] /\ RateExceeded(round))
    BY <1>12, <2>2 DEF CheckRate
  <2> QED
    BY <2>1, <2>2
<1>13. ASSUME NextShard PROVE RoundDiscipline'
  BY <1>13 DEF NextShard
<1>14. ASSUME RoundEnd PROVE RoundDiscipline'
  <2>1. \A b \in Batches : b \notin InFlight
    BY <1>14 DEF RoundEnd, Pending
  <2>2. \A b \in Batches : b[1] = round => stopped[round] \/ fut[b] = "logged"
    <3> SUFFICES ASSUME NEW b \in Batches, b[1] = round, ~stopped[round]
                 PROVE  fut[b] = "logged"
      OBVIOUS
    <3>1. index > NB
      BY <1>14 DEF RoundEnd
    <3>2. b[2] < index
      <4>1. b[2] \in Int /\ b[2] <= NB /\ NB \in Int /\ index \in Int
        BY <1>0, SizesAssumption DEF TypeOK
      <4> QED
        BY <3>1, <4>1
    <3>3. fut[b] # "new" /\ fut[b] # "dropped" /\ fut[b] \in FutureState
      BY <3>2 DEF TypeOK
    <3> QED
      BY <2>1, <3>3 DEF FutureState
  <2>3. CASE round < Rounds
    <3>1. round' = round + 1 /\ index' = 1 /\ pc' = "submit" /\ pc = "submit"
      BY <1>14, <2>3 DEF RoundEnd
    <3>2. doneSet' = {} /\ UNCHANGED <<fut, stopped, iterate>>
      BY <1>14 DEF RoundEnd
    <3>3. ASSUME NEW b \in Batches
          PROVE  /\ b[1] < round' => stopped[b[1]] \/ fut[b] = "logged"
                 /\ ~(b[1] = round' /\ b[2] < index')
                 /\ b[1] > round' \/ (b[1] = round' /\ b[2] >= index')
                      => b[1] > round
      BY <1>0, <2>2, <3>1 DEF TypeOK
    <3>4. round' <= Rounds'
      BY <2>3, <3>1, <3>2, SizesAssumption DEF TypeOK
    <3> QED
      BY <2>1, <3>1, <3>2, <3>3, <3>4
  <2>4. CASE ~(round < Rounds)
    BY <1>14, <2>4 DEF RoundEnd
  <2> QED
    BY <2>3, <2>4
<1>15. ASSUME Finalize PROVE RoundDiscipline'
  BY <1>15 DEF Finalize
<1>16. ASSUME Publish PROVE RoundDiscipline'
  BY <1>16 DEF Publish
<1>17. ASSUME Unwind PROVE RoundDiscipline'
  BY <1>17 DEF Unwind
<1>18. ASSUME UNCHANGED vars PROVE RoundDiscipline'
  BY <1>18 DEF vars
<1> QED
  BY <1>1, <1>a, <1>2, <1>3, <1>4, <1>5, <1>6, <1>7, <1>8, <1>9, <1>10, <1>11, <1>12,
     <1>13, <1>14, <1>15, <1>16, <1>17, <1>18
     DEF Next, WorkerStep, MainStep, Terminating

-------------------------------------------------------------------------------
(* Rows: what the threads have written.  An insert leaves k copies, plus   *)
(* one when it is reported as successful.                                  *)

RowsInv == ForwardOnly /\ EntriesMatchRows /\ MainFirst

(* Nothing is in the target database when a task starts. *)
LEMMA RowsInit == Init => RowsInv
<1> SUFFICES ASSUME Init PROVE RowsInv
  OBVIOUS
<1>1. \A b \in Batches, t \in Tables : rows[b][t] = 0 /\ out[b][t] = "none" /\ at[b] = 1
  BY SizesAssumption DEF Init, Tables, Entries
<1>2. Main \in Nat /\ Main >= 1 /\ \A b \in Batches : at[b] = 1
  BY SizesAssumption, TablesAssumption DEF Init, Tables
<1> QED
  BY <1>1, <1>2 DEF RowsInv, ForwardOnly, EntriesMatchRows, MainFirst

(* Entering an outcome that agrees with the rows keeps logs and rows       *)
(* in agreement, for a failed main table with its skipped successors too.  *)
LEMMA RowsEnter ==
  ASSUME TypeOK, RowsInv, NEW b \in Batches, NEW o \in Outcome, NEW k \in Nat,
         fut[b] = "running", at[b] \in Tables, Enter(b, at[b], o), fut' = fut,
         rows' = [rows EXCEPT ![b][at[b]] = IF o = "ok" THEN k + 1 ELSE k],
         lost' = lost + k
  PROVE  RowsInv'
<1> DEFINE t == at[b]
           skip == t = Main /\ o # "ok"
<1>1. t \in Tables /\ Tables = 1..NT /\ Main \in Tables /\ NT \in Nat /\ Tables \subseteq Entries
  BY SizesAssumption, TablesAssumption DEF Tables, Entries
<1>2. lost \in Nat /\ (lost' = 0 => k = 0 /\ lost = 0)
  BY LimitsAssumption DEF TypeOK
<1>3. \A c \in Batches : c # b =>
        at'[c] = at[c] /\ rows'[c] = rows[c] /\ \A e \in Entries : out'[c][e] = out[c][e]
  BY DEF TypeOK, Enter
<1>4. at'[b] = IF skip THEN NT + 1 ELSE t + 1
  BY DEF TypeOK, Enter
<1>5. \A e \in Tables : out'[b][e] = IF e = t THEN o
                                      ELSE IF skip /\ e > t THEN "nogen" ELSE out[b][e]
  BY <1>1 DEF TypeOK, Enter
<1>6. \A e \in Tables : rows'[b][e] = IF e = t THEN (IF o = "ok" THEN k + 1 ELSE k)
                                       ELSE rows[b][e]
  BY <1>1 DEF TypeOK
<1>7. \A c \in Batches, e \in Tables : rows[c][e] \in Nat
  BY DEF TypeOK
<1>8. \A e \in Tables : e >= t => rows[b][e] = 0
  BY DEF RowsInv, ForwardOnly
<1> HIDE DEF t, skip
<1>9. skip <=> t = Main /\ o # "ok"
  BY DEF skip
<1>10. ForwardOnly'
  <2>1. \A c \in Batches, e \in Tables : e >= at'[c] => rows'[c][e] = 0
    <3> SUFFICES ASSUME NEW c \in Batches, NEW e \in Tables, e >= at'[c]
                 PROVE  rows'[c][e] = 0
      OBVIOUS
    <3>1. CASE c = b
      BY <1>1, <1>4, <1>6, <1>8, <3>1
    <3>2. CASE c # b
      BY <1>3, <3>2 DEF RowsInv, ForwardOnly
    <3> QED
      BY <3>1, <3>2
  <2>2. \A c \in Batches :
          fut'[c] \in {"new", "queued", "cancelled", "notified", "dropped"} => at'[c] = 1
    BY <1>3 DEF RowsInv, ForwardOnly
  <2> QED
    BY <2>1, <2>2 DEF ForwardOnly
<1>11. EntriesMatchRows'
  <2> SUFFICES ASSUME NEW c \in Batches, NEW e \in Tables
               PROVE  /\ out'[c][e] = "ok" => rows'[c][e] > 0
                      /\ lost' = 0 => rows'[c][e] = IF out'[c][e] = "ok" THEN 1 ELSE 0
    BY DEF EntriesMatchRows
  <2>1. CASE c = b
    <3>1. /\ out[b][e] = "ok" => rows[b][e] > 0
          /\ lost = 0 => rows[b][e] = IF out[b][e] = "ok" THEN 1 ELSE 0
      BY DEF RowsInv, EntriesMatchRows
    <3>2. CASE e = t
      BY <1>2, <1>5, <1>6, <2>1, <3>2
    <3>3. CASE e # t /\ skip /\ e > t
      BY <1>1, <1>5, <1>6, <1>8, <2>1, <3>3
    <3>4. CASE e # t /\ ~(skip /\ e > t)
      <4>1. out'[b][e] = out[b][e] /\ rows'[b][e] = rows[b][e]
        BY <1>5, <1>6, <3>4
      <4> QED
        BY <1>2, <2>1, <3>1, <4>1
    <3> QED
      BY <3>2, <3>3, <3>4
  <2>2. CASE c # b
    <3>1. out'[c][e] = out[c][e] /\ rows'[c][e] = rows[c][e]
      BY <1>1, <1>3, <2>2
    <3>2. /\ out[c][e] = "ok" => rows[c][e] > 0
          /\ lost = 0 => rows[c][e] = IF out[c][e] = "ok" THEN 1 ELSE 0
      BY DEF RowsInv, EntriesMatchRows
    <3> QED
      BY <1>2, <3>1, <3>2
  <2> QED
    BY <2>1, <2>2
<1>12. MainFirst'
  <2> SUFFICES ASSUME NEW c \in Batches
               PROVE  /\ at'[c] \in Tables /\ at'[c] > Main => out'[c][Main] = "ok"
                      /\ \A e \in Tables : e > Main /\ rows'[c][e] > 0 => out'[c][Main] = "ok"
    BY DEF MainFirst
  <2>1. CASE c = b
    <3>1. t > Main => out[b][Main] = "ok"
      BY DEF RowsInv, MainFirst, t
    <3>2. \A e \in Tables : e > Main /\ rows[b][e] > 0 => out[b][Main] = "ok"
      BY DEF RowsInv, MainFirst
    <3> QED
      BY <1>1, <1>4, <1>5, <1>6, <1>8, <1>9, <2>1, <3>1, <3>2
  <2>2. CASE c # b
    BY <1>1, <1>3, <2>2 DEF RowsInv, MainFirst
  <2> QED
    BY <2>1, <2>2
<1> QED
  BY <1>10, <1>11, <1>12 DEF RowsInv

(* Every step keeps outcomes and rows in agreement. *)
LEMMA RowsStep ==
  ASSUME TypeOK, RoundDiscipline, RowsInv, [Next]_vars
  PROVE  RowsInv'
<1> USE DEF mainVars, statsVars, workerVars
<1>1. ASSUME NEW b \in Batches, StartBatch(b) PROVE RowsInv'
  BY <1>1 DEF StartBatch, TypeOK, RowsInv, ForwardOnly, EntriesMatchRows, MainFirst
<1>a. ASSUME NEW b \in Batches, NotifyCancelled(b) PROVE RowsInv'
  BY <1>a DEF NotifyCancelled, TypeOK, RowsInv, ForwardOnly, EntriesMatchRows, MainFirst
<1>2. ASSUME NEW b \in Batches, GenerateRefused(b) PROVE RowsInv'
  <2>1. rows[b][at[b]] = 0 /\ at[b] \in Tables /\ lost \in Int
    BY <1>2, LimitsAssumption, SizesAssumption
       DEF GenerateRefused, RowsInv, ForwardOnly, TypeOK, Tables
  <2>2. rows' = [rows EXCEPT ![b][at[b]] = IF "nogen" = "ok" THEN 0 + 1 ELSE 0]
    BY <1>2, <2>1 DEF GenerateRefused, TypeOK
  <2>3. lost' = lost + 0 /\ fut' = fut /\ "nogen" \in Outcome
    BY <1>2, <2>1 DEF GenerateRefused, Outcome
  <2> QED
    BY <1>2, <2>2, <2>3, RowsEnter DEF GenerateRefused
<1>3. ASSUME NEW b \in Batches, InsertSucceeds(b) PROVE RowsInv'
  <2>1. PICK k \in 0..Lesser(MaxRetry, MaxLost - lost) :
          rows' = [rows EXCEPT ![b][at[b]] = k + 1] /\ lost' = lost + k
    BY <1>3 DEF InsertSucceeds
  <2>2. k \in Nat /\ "ok" \in Outcome
    BY LimitsAssumption DEF TypeOK, Lesser, Outcome
  <2>3. rows' = [rows EXCEPT ![b][at[b]] = IF "ok" = "ok" THEN k + 1 ELSE k]
    BY <2>1
  <2> QED
    BY <1>3, <2>1, <2>2, <2>3, RowsEnter DEF InsertSucceeds
<1>4. ASSUME NEW b \in Batches, InsertFails(b) PROVE RowsInv'
  <2>1. PICK k \in 0..Lesser(MaxRetry + 1, MaxLost - lost) :
          rows' = [rows EXCEPT ![b][at[b]] = k] /\ lost' = lost + k
    BY <1>4 DEF InsertFails
  <2>2. k \in Nat /\ "fail" \in Outcome
    BY LimitsAssumption DEF TypeOK, Lesser, Outcome
  <2>3. rows' = [rows EXCEPT ![b][at[b]] = IF "fail" = "ok" THEN k + 1 ELSE k]
    BY <2>1
  <2> QED
    BY <1>4, <2>1, <2>2, <2>3, RowsEnter DEF InsertFails
<1>5. ASSUME NEW b \in Batches, SyncAndFinish(b) PROVE RowsInv'
  <2>1. \A c \in Batches, t \in Tables : out'[c][t] = out[c][t]
    BY <1>5, SizesAssumption DEF SyncAndFinish, TypeOK, Tables, Entries
  <2>2. Main \in Tables
    BY TablesAssumption
  <2>3. UNCHANGED <<at, rows, lost>> /\ fut' = [fut EXCEPT ![b] = "done"]
    BY <1>5 DEF SyncAndFinish
  <2>4. ForwardOnly'
    BY <2>3 DEF TypeOK, RowsInv, ForwardOnly
  <2>5. EntriesMatchRows'
    BY <2>1, <2>3 DEF RowsInv, EntriesMatchRows
  <2>6. MainFirst'
    BY <2>1, <2>2, <2>3 DEF RowsInv, MainFirst
  <2> QED
    BY <2>4, <2>5, <2>6 DEF RowsInv
<1>6. ASSUME NEW b \in Batches, BatchRaises(b) PROVE RowsInv'
  BY <1>6 DEF BatchRaises, TypeOK, RowsInv, ForwardOnly, EntriesMatchRows, MainFirst
<1>7. ASSUME Submit PROVE RowsInv'
  <2>1. \A b \in Batches : fut'[b] = "queued" => fut[b] \in {"new", "queued"}
    BY <1>7 DEF Submit, TypeOK, RoundDiscipline, Batches
  <2>2. \A b \in Batches : fut'[b] # "queued" => fut'[b] = fut[b]
    BY <1>7 DEF Submit, TypeOK
  <2> QED
    BY <1>7, <2>1, <2>2
       DEF Submit, TypeOK, RowsInv, ForwardOnly, EntriesMatchRows, MainFirst
<1>8. ASSUME NEW b \in Batches, SkipCancelled(b) PROVE RowsInv'
  BY <1>8 DEF SkipCancelled, TypeOK, RowsInv, ForwardOnly, EntriesMatchRows, MainFirst
<1>9. ASSUME NEW b \in Batches, Record(b) PROVE RowsInv'
  BY <1>9 DEF Record, TypeOK, RowsInv, ForwardOnly, EntriesMatchRows, MainFirst
<1>10. ASSUME CheckRate PROVE RowsInv'
  <2>1. \A b \in Batches : fut'[b] = fut[b] \/ fut[b] = "queued"
    BY <1>10 DEF CheckRate
  <2> QED
    BY <1>10, <2>1
       DEF CheckRate, RowsInv, ForwardOnly, EntriesMatchRows, MainFirst
<1>11. ASSUME \/ Wait \/ MainRaises \/ NextShard \/ RoundEnd \/ Finalize
              \/ Publish \/ Unwind \/ UNCHANGED vars
       PROVE  RowsInv'
  <2>1. UNCHANGED <<fut, at, out, rows, lost>>
    BY <1>11 DEF Wait, MainRaises, NextShard, RoundEnd, Finalize, Publish, Unwind, vars
  <2> QED
    BY <2>1 DEF RowsInv, ForwardOnly, EntriesMatchRows, MainFirst
<1> QED
  BY <1>1, <1>a, <1>2, <1>3, <1>4, <1>5, <1>6, <1>7, <1>8, <1>9, <1>10, <1>11
     DEF Next, WorkerStep, MainStep, Terminating

-------------------------------------------------------------------------------
(* Failures: no failed entry is logged and no round stopped without the     *)
(* statistics showing it.                                                  *)

(* No failure is recorded and none counted when a task starts. *)
LEMMA FailuresInit == Init => FailuresCounted
  BY DEF Init, FailuresCounted

(* A failure rate above the threshold means some failed row. *)
LEMMA RatePositive ==
  ASSUME TypeOK, NEW r \in 1..NR, RateExceeded(r)
  PROVE  fail[r] > 0
<1>1. succ[r] \in Nat /\ fail[r] \in Nat /\ FailPct \in Nat
  BY LimitsAssumption DEF TypeOK
<1>2. FailPct * (succ[r] + fail[r]) \in Nat
  BY <1>1
<1> QED
  BY <1>1, <1>2 DEF RateExceeded

(* Statistics that only grow, with the same logs and the same stops. *)
LEMMA FailuresKept ==
  ASSUME TypeOK, FailuresCounted, UNCHANGED stopped,
         \A r \in 1..NR : fail'[r] >= fail[r] /\ fail'[r] \in Nat,
         \A b \in Batches : fut'[b] = "logged" => fut[b] = "logged",
         \A b \in Batches, e \in Entries : fut[b] = "logged" => out'[b][e] = out[b][e]
  PROVE  FailuresCounted'
<1>1. \A b \in Batches : b[1] \in 1..NR
  BY DEF Batches
<1>2. \A r \in 1..NR : fail[r] > 0 => fail'[r] > 0
  <2>1. \A r \in 1..NR : fail[r] \in Nat
    BY DEF TypeOK
  <2> QED
    BY <2>1
<1> QED
  BY <1>1, <1>2 DEF FailuresCounted

(* Every step keeps recorded failures and failure statistics in agreement. *)
LEMMA FailuresStep ==
  ASSUME TypeOK, RoundDiscipline, FailuresCounted, [Next]_vars
  PROVE  FailuresCounted'
<1> USE DEF mainVars, statsVars, workerVars
<1>0. \A r \in 1..NR : fail[r] \in Nat /\ fail[r] >= fail[r]
  BY DEF TypeOK
<1>1. ASSUME NEW b \in Batches, StartBatch(b) PROVE FailuresCounted'
  BY <1>0, <1>1, FailuresKept DEF StartBatch, TypeOK
<1>a. ASSUME NEW b \in Batches, NotifyCancelled(b) PROVE FailuresCounted'
  BY <1>0, <1>a, FailuresKept DEF NotifyCancelled, TypeOK
<1>2. ASSUME NEW b \in Batches,
             GenerateRefused(b) \/ InsertSucceeds(b) \/ InsertFails(b)
      PROVE  FailuresCounted'
  <2>1. fut[b] = "running" /\ UNCHANGED <<fut, fail, stopped>>
    BY <1>2 DEF GenerateRefused, InsertSucceeds, InsertFails
  <2>2. \A c \in Batches : c # b => out'[c] = out[c]
    BY <1>2 DEF GenerateRefused, InsertSucceeds, InsertFails, Enter, TypeOK
  <2> QED
    BY <1>0, <2>1, <2>2, FailuresKept
<1>3. ASSUME NEW b \in Batches, SyncAndFinish(b) PROVE FailuresCounted'
  <2>1. \A c \in Batches : c # b => out'[c] = out[c] /\ fut'[c] = fut[c]
    BY <1>3 DEF SyncAndFinish, TypeOK
  <2>2. fut[b] = "running" /\ fut'[b] = "done" /\ UNCHANGED <<fail, stopped>>
    BY <1>3 DEF SyncAndFinish, TypeOK
  <2> QED
    BY <1>0, <2>1, <2>2, FailuresKept
<1>4. ASSUME NEW b \in Batches, BatchRaises(b) PROVE FailuresCounted'
  BY <1>0, <1>4, FailuresKept DEF BatchRaises, TypeOK
<1>5. ASSUME Submit PROVE FailuresCounted'
  BY <1>0, <1>5, FailuresKept DEF Submit, TypeOK
<1>6. ASSUME NEW b \in Batches, SkipCancelled(b) PROVE FailuresCounted'
  BY <1>0, <1>6, FailuresKept DEF SkipCancelled, TypeOK
<1>7. ASSUME NEW b \in Batches, Record(b) PROVE FailuresCounted'
  <2> DEFINE bad == SizeOf(b) * Cardinality(Failed(b))
  <2>1. bad \in Nat /\ (Failed(b) # {} => bad > 0)
    BY EntryCounts
  <2>2. fail' = [fail EXCEPT ![round] = @ + bad] /\ UNCHANGED <<out, stopped>>
        /\ fut' = [fut EXCEPT ![b] = "logged"] /\ fut[b] = "done"
    BY <1>7 DEF Record
  <2>3. b[1] = round /\ round \in 1..NR
    BY <2>2 DEF RoundDiscipline, InFlight, TypeOK
  <2> HIDE DEF bad
  <2>4. \A r \in 1..NR : fail'[r] = IF r = round THEN fail[r] + bad ELSE fail[r]
    BY <2>2 DEF TypeOK
  <2>5. \A r \in 1..NR : fail[r] > 0 => fail'[r] > 0
    BY <1>0, <2>1, <2>4
  <2>6. ASSUME NEW c \in Batches, NEW e \in Entries, fut'[c] = "logged", out'[c][e] # "ok"
        PROVE  fail'[c[1]] > 0
    <3>1. CASE c = b
      <4>1. Failed(b) # {}
        BY <2>2, <2>6, <3>1 DEF Failed, Succeeded
      <4> QED
        BY <1>0, <2>1, <2>3, <2>4, <3>1, <4>1
    <3>2. CASE c # b
      <4>1. fut[c] = "logged" /\ out[c][e] # "ok" /\ c[1] \in 1..NR
        BY <2>2, <2>6, <3>2 DEF TypeOK, Batches
      <4> QED
        BY <2>5, <4>1 DEF FailuresCounted
    <3> QED
      BY <3>1, <3>2
  <2> QED
    BY <2>2, <2>5, <2>6 DEF FailuresCounted
<1>8. ASSUME CheckRate PROVE FailuresCounted'
  <2>1. \A c \in Batches : fut'[c] = "logged" => fut[c] = "logged"
    BY <1>8 DEF CheckRate
  <2>2. \A r \in 1..NR : stopped'[r] => stopped[r] \/ (r = round /\ RateExceeded(round))
    BY <1>8 DEF CheckRate, TypeOK
  <2>3. UNCHANGED <<fail, out>>
    BY <1>8 DEF CheckRate
  <2> QED
    BY <2>1, <2>2, <2>3, RatePositive DEF FailuresCounted
<1>9. ASSUME RoundEnd PROVE FailuresCounted'
  <2>1. RowCount * NT \in Int
    BY SizesAssumption
  <2>2. Remaining(round) \in Nat
    <3>1. succ[round] \in Nat /\ fail[round] \in Nat
      BY DEF TypeOK
    <3> QED
      BY <2>1, <3>1 DEF Remaining
  <2>3. \A r \in 1..NR : fail'[r] = IF r = round THEN fail[r] + Remaining(round) ELSE fail[r]
    BY <1>9 DEF RoundEnd, TypeOK
  <2>4. \A r \in 1..NR : fail'[r] >= fail[r] /\ fail'[r] \in Nat
    BY <1>0, <2>2, <2>3
  <2> QED
    BY <1>9, <2>4, FailuresKept DEF RoundEnd
<1>10. ASSUME \/ Wait \/ MainRaises \/ NextShard \/ Finalize \/ Publish \/ Unwind
              \/ UNCHANGED vars
       PROVE  FailuresCounted'
  <2>1. UNCHANGED <<fut, out, fail, stopped>>
    BY <1>10 DEF Wait, MainRaises, NextShard, Finalize, Publish, Unwind, vars
  <2> QED
    BY <2>1 DEF FailuresCounted
<1> QED
  BY <1>1, <1>a, <1>2, <1>3, <1>4, <1>5, <1>6, <1>7, <1>8, <1>9, <1>10
     DEF Next, WorkerStep, MainStep, Terminating

-------------------------------------------------------------------------------
(* The verdict. *)

(* A task that starts has no verdict. *)
LEMMA VerdictInit == Init => VerdictEarned
  BY DEF Init, VerdictEarned, Unfinished

(* Steps of a pool thread change neither the verdict nor the statistics,   *)
(* and happen only to batches that are in flight.                          *)
LEMMA VerdictWorker ==
  ASSUME TypeOK, VerdictEarned, NEW b \in Batches, WorkerStep(b)
  PROVE  VerdictEarned'
<1> USE DEF mainVars, statsVars, workerVars
<1>1. fut[b] \in {"queued", "running", "cancelled"}
  BY DEF WorkerStep, StartBatch, NotifyCancelled, GenerateRefused,
           InsertSucceeds, InsertFails, SyncAndFinish, BatchRaises
<1>2. b \in InFlight /\ (b \in Unfinished \/ NotifyCancelled(b))
  BY <1>1 DEF WorkerStep, StartBatch, GenerateRefused, InsertSucceeds, InsertFails,
              SyncAndFinish, BatchRaises, Unfinished, InFlight
<1>3. pc \notin {"final", "publish"} /\ (status = "running" \/ NotifyCancelled(b))
  BY <1>2 DEF VerdictEarned
<1>4. UNCHANGED <<status, pc>>
  BY DEF WorkerStep, StartBatch, NotifyCancelled, GenerateRefused,
           InsertSucceeds, InsertFails, SyncAndFinish, BatchRaises
<1>5. CASE status = "running"
  BY <1>3, <1>4, <1>5 DEF VerdictEarned
<1>6. CASE NotifyCancelled(b)
  <2>1. /\ \A c \in Batches : fut'[c] = IF c = b THEN "notified" ELSE fut[c]
        /\ fut[b] = "cancelled" /\ UNCHANGED <<stopped, fail, iterate>>
    BY <1>6 DEF NotifyCancelled, TypeOK
  <2>2. Unfinished' = Unfinished
    BY <2>1 DEF Unfinished
  <2> QED
    BY <1>3, <1>4, <2>1, <2>2 DEF VerdictEarned, Rounds, RoundBatches
<1> QED
  BY <1>3, <1>5, <1>6

(* The main thread declares a verdict only over finished batches. *)
LEMMA VerdictStep ==
  ASSUME TypeOK, RoundDiscipline, FailuresCounted, VerdictEarned, [Next]_vars
  PROVE  VerdictEarned'
<1> USE DEF mainVars, statsVars, workerVars
<1>1. ASSUME NEW b \in Batches, WorkerStep(b) PROVE VerdictEarned'
  BY <1>1, VerdictWorker
<1>2. ASSUME pc \in {"submit", "record"}, pc' \in {"submit", "record", "unwind"},
             status' = status
      PROVE  VerdictEarned'
  <2>1. status = "running"
    BY <1>2 DEF VerdictEarned
  <2> QED
    BY <1>2, <2>1 DEF VerdictEarned
<1>3. ASSUME Submit \/ Wait \/ CheckRate \/ NextShard PROVE VerdictEarned'
  BY <1>2, <1>3 DEF Submit, Wait, CheckRate, NextShard
<1>4. ASSUME NEW b \in Batches, SkipCancelled(b) \/ Record(b) PROVE VerdictEarned'
  BY <1>2, <1>4 DEF SkipCancelled, Record
<1>5. ASSUME MainRaises PROVE VerdictEarned'
  BY <1>5 DEF MainRaises, VerdictEarned, Unfinished, Rounds, RoundBatches
<1>6. ASSUME RoundEnd PROVE VerdictEarned'
  <2>1. status = "running" /\ status' = status
    BY <1>6 DEF RoundEnd, VerdictEarned
  <2>2. InFlight = {} /\ UNCHANGED <<fut, stopped, iterate>>
    BY <1>6 DEF RoundEnd, Pending, RoundDiscipline
  <2>3. pc' \in {"submit", "final"}
    BY <1>6 DEF RoundEnd
  <2>4. ASSUME pc' = "final" PROVE Closed
    <3>1. round >= Rounds /\ round \in Int /\ Rounds \in Int
      BY <1>6, <2>4, SizesAssumption DEF RoundEnd, TypeOK, Rounds
    <3>2. ASSUME NEW b \in RoundBatches, ~stopped[b[1]] PROVE fut[b] = "logged"
      <4>1. b \in Batches /\ b[1] \in Int /\ b[1] <= round
        BY <3>1 DEF RoundBatches, Batches, RoundDiscipline
      <4>2. CASE b[1] < round
        BY <3>2, <4>1, <4>2 DEF RoundDiscipline
      <4>3. CASE b[1] = round
        <5>1. index > NB /\ index \in Int /\ NB \in Int /\ b[2] \in Int /\ b[2] <= NB
          BY <1>6, <3>2, <4>1, <4>3, SizesAssumption DEF RoundEnd, TypeOK, Batches
        <5>2. fut[b] # "new"
          BY <4>1, <4>3, <5>1 DEF RoundDiscipline
        <5>3. fut[b] \in FutureState /\ fut[b] # "dropped" /\ fut[b] # "cancelled"
          BY <3>2, <4>1 DEF TypeOK, RoundDiscipline
        <5>4. b \notin InFlight
          BY <2>2
        <5> QED
          BY <4>1, <5>2, <5>3, <5>4 DEF FutureState, InFlight
      <4> QED
        BY <3>1, <4>1, <4>2, <4>3
    <3> QED
      BY <3>2 DEF Closed
  <2>5. pc' = "final" => Closed' /\ InFlight' = {}
    BY <2>2, <2>4 DEF Closed, InFlight, RoundBatches, Rounds
  <2> QED
    BY <2>1, <2>3, <2>5 DEF VerdictEarned
<1>7. ASSUME Finalize PROVE VerdictEarned'
  <2>1. Closed /\ InFlight = {} /\ UNCHANGED <<fut, stopped, fail, iterate>>
    BY <1>7 DEF Finalize, VerdictEarned
  <2>2. Unfinished' = {} /\ InFlight' = {} /\ Closed'
    BY <2>1 DEF Unfinished, InFlight, Closed, RoundBatches, Rounds
  <2>3. ASSUME status' = "success"
        PROVE  /\ \A r \in 1..Rounds : fail[r] = 0
               /\ \A b \in RoundBatches : fut[b] = "logged"
    <3>1. \A r \in 1..Rounds : ~(fail[r] > 0) /\ fail[r] \in Nat /\ r \in 1..NR
      <4>1. Verdict = "success"
        BY <1>7, <2>3 DEF Finalize
      <4>2. {r \in 1..Rounds : fail[r] > 0} = {}
        BY <4>1 DEF Verdict
      <4>3. \A r \in 1..Rounds : r \in 1..NR
        BY SizesAssumption DEF Rounds
      <4> QED
        BY <4>2, <4>3 DEF TypeOK
    <3>2. \A b \in RoundBatches : b[1] \in 1..Rounds
      BY DEF RoundBatches
    <3>3. \A r \in 1..Rounds : ~stopped[r]
      BY <3>1 DEF FailuresCounted
    <3> QED
      BY <2>1, <3>1, <3>2, <3>3 DEF Closed
  <2>4. pc' = "publish" /\ (status' = "success" =>
          /\ \A r \in 1..Rounds' : fail'[r] = 0
          /\ \A b \in RoundBatches' : fut'[b] = "logged")
    BY <1>7, <2>1, <2>3 DEF Finalize, Rounds, RoundBatches
  <2> QED
    BY <2>2, <2>4 DEF VerdictEarned
<1>8. ASSUME Publish PROVE VerdictEarned'
  BY <1>8 DEF Publish, VerdictEarned, Unfinished, Rounds, RoundBatches
<1>9. ASSUME Unwind PROVE VerdictEarned'
  BY <1>9 DEF Unwind, VerdictEarned, Unfinished, Rounds, RoundBatches
<1>10. ASSUME UNCHANGED vars PROVE VerdictEarned'
  BY <1>10 DEF vars, VerdictEarned, Closed, InFlight, Unfinished, Rounds, RoundBatches
<1> QED
  BY <1>1, <1>3, <1>4, <1>5, <1>6, <1>7, <1>8, <1>9, <1>10
     DEF Next, MainStep, Terminating

-------------------------------------------------------------------------------
(* Statistics: what the rows counted as successes and failures add up to.  *)

(* Offsets of the rows of a batch within its round, and those logged. *)
RowsOf(b) == LET first == (b[2] - 1) * BatchSize IN first .. (first + SizeOf(b) - 1)
LoggedRows(r) ==
  {n \in 0..(RowCount - 1) :
     \E b \in Batches : b[1] = r /\ fut[b] = "logged" /\ n \in RowsOf(b)}

(* A round that still runs counts exactly what it has logged, once for     *)
(* every entry of a batch result; a round that has ended counts every row. *)
CountsAsLogged(r) == succ[r] + fail[r] = Cardinality(LoggedRows(r)) * (NT + NS)
CountsAll(r) ==
  /\ succ[r] + fail[r] >= RowCount * NT
  /\ NS = 0 => succ[r] + fail[r] = RowCount * NT
RowsCounted ==
  /\ pc \in {"submit", "record"} =>
       \A r \in 1..NR : IF r < round THEN CountsAll(r) ELSE CountsAsLogged(r)
  /\ EveryRowCounted

(* A round counts a success, or a failure, only when a log shows one. *)
LogShows(r, ok) ==
  \E b \in Batches, e \in Entries :
    b[1] = r /\ fut[b] = "logged" /\ (out[b][e] = "ok" <=> ok)
CountsShown ==
  \A r \in 1..NR : /\ succ[r] > 0 => LogShows(r, TRUE)
                   /\ fail[r] > 0 => LogShows(r, FALSE)

(* An interval given by its first number and its length. *)
LEMMA IntervalSize ==
  ASSUME NEW a \in Int, NEW n \in Nat \ {0}
  PROVE  IsFiniteSet(a .. (a + n - 1)) /\ Cardinality(a .. (a + n - 1)) = n
<1> DEFINE z == a + n - 1
<1>1. z \in Int /\ ~(a > z) /\ z - a + 1 = n
  OBVIOUS
<1> HIDE DEF z
<1>2. IsFiniteSet(a .. z) /\ Cardinality(a .. z) = IF a > z THEN 0 ELSE z - a + 1
  BY <1>1, FS_Interval
<1>3. Cardinality(a .. z) = n
  BY <1>1, <1>2
<1> QED
  BY <1>2, <1>3 DEF z

(* Quotient and remainder, for the batch a row belongs to. *)
LEMMA Quotient ==
  ASSUME NEW n \in Nat, NEW k \in Nat \ {0}
  PROVE  /\ n \div k \in Nat
         /\ k * (n \div k) <= n
         /\ n < k * (n \div k) + k
  OBVIOUS

(* The numbers of the model as integers. *)
LEMMA Numbers ==
  /\ NT \in Nat \ {0} /\ NS \in Nat /\ NT + NS \in Nat
  /\ RowCount \in Nat \ {0} /\ BatchSize \in Nat \ {0} /\ NB \in Nat \ {0}
  /\ RowCount * NT \in Nat /\ RowCount * (NT + NS) \in Nat
  /\ RowCount * (NT + NS) >= RowCount * NT
<1>1. /\ NT \in Nat \ {0} /\ NS \in Nat /\ NT + NS \in Nat
      /\ RowCount \in Nat \ {0} /\ BatchSize \in Nat \ {0} /\ NB \in Nat \ {0}
  BY SizesAssumption
<1>2. RowCount * NT \in Nat /\ RowCount * NS \in Nat
  BY <1>1
<1>3. RowCount * (NT + NS) = RowCount * NT + RowCount * NS
  BY <1>1
<1> QED
  BY <1>1, <1>2, <1>3

(* The offsets of a batch are SizeOf(b) many and belong to the round. *)
LEMMA RowsOfBatch ==
  ASSUME NEW b \in Batches
  PROVE  /\ IsFiniteSet(RowsOf(b)) /\ Cardinality(RowsOf(b)) = SizeOf(b)
         /\ RowsOf(b) \subseteq 0..(RowCount - 1)
<1>1. b[2] \in 1..NB /\ BatchSize \in Nat /\ RowCount \in Nat /\ NB \in Nat
  BY SizesAssumption DEF Batches
<1> DEFINE first == (b[2] - 1) * BatchSize
<1>2. first \in Nat
  BY <1>1
<1>3. SizeOf(b) \in Nat \ {0}
  BY SizePositive
<1>4. SizeOf(b) <= RowCount - first
  BY <1>1, <1>2 DEF SizeOf, Lesser
<1>5. RowsOf(b) = first .. (first + SizeOf(b) - 1)
  BY DEF RowsOf
<1> HIDE DEF first
<1>6. /\ IsFiniteSet(first .. (first + SizeOf(b) - 1))
      /\ Cardinality(first .. (first + SizeOf(b) - 1)) = SizeOf(b)
  <2> DEFINE n == SizeOf(b)
  <2>1. first \in Int /\ n \in Nat \ {0}
    BY <1>2, <1>3
  <2> HIDE DEF n
  <2>2. /\ IsFiniteSet(first .. (first + n - 1))
        /\ Cardinality(first .. (first + n - 1)) = n
    BY <2>1, IntervalSize
  <2> QED
    BY <2>2 DEF n
<1>7. first .. (first + SizeOf(b) - 1) \subseteq 0..(RowCount - 1)
  BY <1>1, <1>2, <1>3, <1>4
<1> QED
  BY <1>5, <1>6, <1>7

(* Different batches of a round have no offset in common. *)
LEMMA BatchesApart ==
  ASSUME NEW b \in Batches, NEW c \in Batches, b[1] = c[1], b # c
  PROVE  RowsOf(b) \cap RowsOf(c) = {}
<1>1. ASSUME NEW x \in Batches, NEW y \in Batches, x[2] < y[2],
             NEW n \in RowsOf(x), n \in RowsOf(y)
      PROVE  FALSE
  <2>1. x[2] \in 1..NB /\ y[2] \in 1..NB /\ BatchSize \in Nat /\ NB \in Nat
        /\ RowCount \in Nat
    BY SizesAssumption DEF Batches
  <2> DEFINE fx == (x[2] - 1) * BatchSize
             fy == (y[2] - 1) * BatchSize
  <2>2. fx \in Nat /\ fy \in Nat
    BY <2>1
  <2>3. fx + BatchSize <= fy
    <3>1. x[2] <= y[2] - 1 /\ x[2] \in Nat /\ y[2] - 1 \in Nat
      BY <1>1, <2>1
    <3>2. x[2] * BatchSize <= fy
      BY <2>1, <3>1
    <3>3. x[2] * BatchSize = fx + BatchSize
      BY <2>1
    <3> QED
      BY <3>2, <3>3
  <2>4. SizeOf(x) <= BatchSize /\ SizeOf(x) \in Nat
    BY <2>1, <2>2, SizePositive DEF SizeOf, Lesser
  <2>5. SizeOf(y) \in Nat
    BY SizePositive
  <2>6. n \in fx .. (fx + SizeOf(x) - 1) /\ n \in fy .. (fy + SizeOf(y) - 1)
    BY <1>1 DEF RowsOf
  <2> HIDE DEF fx, fy
  <2> QED
    BY <2>1, <2>2, <2>3, <2>4, <2>5, <2>6
<1>2. b[2] # c[2] /\ b[2] \in Int /\ c[2] \in Int
  BY DEF Batches
<1> QED
  BY <1>1, <1>2

(* Every offset of a round belongs to one of its batches. *)
LEMMA RowHasBatch ==
  ASSUME NEW r \in 1..NR, NEW n \in 0..(RowCount - 1)
  PROVE  \E b \in Batches : b[1] = r /\ n \in RowsOf(b)
<1> DEFINE q == n \div BatchSize
           b == <<r, q + 1>>
<1>1. n \in Nat /\ n < RowCount /\ BatchSize \in Nat \ {0} /\ RowCount \in Nat
      /\ NB \in Nat
  BY SizesAssumption
<1>2. q \in Nat /\ BatchSize * q <= n /\ n < BatchSize * q + BatchSize
  BY <1>1, Quotient
<1> HIDE DEF q
<1>3. BatchSize * q = q * BatchSize /\ q * BatchSize \in Nat
  BY <1>1, <1>2
<1>4. q < NB
  <2>1. SUFFICES ASSUME q >= NB PROVE FALSE
    BY <1>1, <1>2
  <2>2. q * BatchSize >= NB * BatchSize /\ NB * BatchSize \in Nat
    BY <1>1, <1>2, <2>1
  <2> QED
    BY <1>1, <1>2, <1>3, <2>2, SizesAssumption
<1>5. b \in Batches /\ b[1] = r /\ b[2] = q + 1
  BY <1>2, <1>4, SizesAssumption DEF Batches
<1>6. (b[2] - 1) * BatchSize = q * BatchSize
  BY <1>2, <1>5
<1> HIDE DEF b
<1>7. SizeOf(b) = Lesser(BatchSize, RowCount - q * BatchSize)
  BY <1>6 DEF SizeOf
<1>8. n < q * BatchSize + SizeOf(b) /\ SizeOf(b) \in Nat
  <2> DEFINE m == q * BatchSize
  <2>1. m \in Nat /\ n < m + BatchSize /\ SizeOf(b) = Lesser(BatchSize, RowCount - m)
    BY <1>2, <1>3, <1>7
  <2> HIDE DEF m
  <2>2. n < m + SizeOf(b)
    BY <1>1, <2>1 DEF Lesser
  <2> QED
    BY <1>5, <2>2, SizePositive DEF m
<1>9. RowsOf(b) = (q * BatchSize) .. (q * BatchSize + SizeOf(b) - 1)
  BY <1>6 DEF RowsOf
<1>10. n \in (q * BatchSize) .. (q * BatchSize + SizeOf(b) - 1)
  BY <1>1, <1>2, <1>3, <1>8
<1> QED
  BY <1>5, <1>9, <1>10

(* Successes and failures of a batch result are all of its entries. *)
LEMMA EntriesSplit ==
  ASSUME NEW b \in Batches
  PROVE  /\ Cardinality(Succeeded(b)) \in Nat /\ Cardinality(Failed(b)) \in Nat
         /\ Cardinality(Succeeded(b)) + Cardinality(Failed(b)) = NT + NS
<1>1. NT + NS \in Nat /\ 1 \in Int
  BY SizesAssumption
<1>2. IsFiniteSet(Entries) /\ Cardinality(Entries) = NT + NS
  <2>1. NT + NS \in Nat \ {0} /\ 1 + (NT + NS) - 1 = NT + NS
    BY SizesAssumption
  <2>2. /\ IsFiniteSet(1 .. (1 + (NT + NS) - 1))
        /\ Cardinality(1 .. (1 + (NT + NS) - 1)) = NT + NS
    BY <2>1, IntervalSize
  <2> QED
    BY <2>1, <2>2 DEF Entries
<1>3. IsFiniteSet(Succeeded(b)) /\ IsFiniteSet(Failed(b))
  BY <1>2, FS_Subset DEF Succeeded, Failed
<1>4. Succeeded(b) \cap Failed(b) = {} /\ Succeeded(b) \cup Failed(b) = Entries
  BY DEF Succeeded, Failed
<1>5. Cardinality(Succeeded(b) \cup Failed(b)) =
        Cardinality(Succeeded(b)) + Cardinality(Failed(b))
          - Cardinality(Succeeded(b) \cap Failed(b))
  BY <1>3, FS_Union
<1>6. Cardinality(Succeeded(b) \cap Failed(b)) = 0
  BY <1>4, FS_EmptySet
<1>7. Cardinality(Succeeded(b)) \in Nat /\ Cardinality(Failed(b)) \in Nat
  BY <1>3, FS_CardinalityType
<1> HIDE DEF Entries, Succeeded, Failed
<1>8. Cardinality(Entries) =
        Cardinality(Succeeded(b)) + Cardinality(Failed(b)) - 0
  BY <1>4, <1>5, <1>6
<1> QED
  BY <1>2, <1>7, <1>8

(* Recording a finished batch adds its offsets to those logged. *)
LEMMA RecordLogs ==
  ASSUME TypeOK, NEW b \in Batches, fut[b] = "done",
         fut' = [fut EXCEPT ![b] = "logged"]
  PROVE  /\ Cardinality(LoggedRows(b[1])') = Cardinality(LoggedRows(b[1])) + SizeOf(b)
         /\ \A r \in 1..NR : r # b[1] => LoggedRows(r)' = LoggedRows(r)
         /\ \A r \in 1..NR : Cardinality(LoggedRows(r)) \in Nat
<1>1. \A c \in Batches : fut'[c] = "logged" <=> (c = b \/ fut[c] = "logged")
  BY DEF TypeOK
<1>2. RowsOf(b) \subseteq 0..(RowCount - 1)
  BY RowsOfBatch
<1>3. LoggedRows(b[1])' = LoggedRows(b[1]) \cup RowsOf(b)
  BY <1>1, <1>2 DEF LoggedRows
<1>4. LoggedRows(b[1]) \cap RowsOf(b) = {}
  <2>1. ASSUME NEW n \in LoggedRows(b[1]) PROVE n \notin RowsOf(b)
    <3>1. PICK c \in Batches : c[1] = b[1] /\ fut[c] = "logged" /\ n \in RowsOf(c)
      BY <2>1 DEF LoggedRows
    <3>2. c # b
      BY <3>1
    <3> QED
      BY <3>1, <3>2, BatchesApart
  <2> QED
    BY <2>1
<1>5. \A r \in 1..NR : IsFiniteSet(LoggedRows(r))
  <2>1. IsFiniteSet(0..(RowCount - 1))
    BY Numbers, FS_Interval
  <2> QED
    BY <2>1, FS_Subset DEF LoggedRows
<1>6. b[1] \in 1..NR
  BY DEF Batches
<1>7. \A r \in 1..NR : r # b[1] => LoggedRows(r)' = LoggedRows(r)
  BY <1>1 DEF LoggedRows
<1>8. /\ IsFiniteSet(LoggedRows(b[1])) /\ IsFiniteSet(RowsOf(b))
      /\ Cardinality(RowsOf(b)) = SizeOf(b) /\ SizeOf(b) \in Nat
  BY <1>5, <1>6, RowsOfBatch, SizePositive
<1>9. Cardinality(LoggedRows(b[1]) \cup RowsOf(b)) =
        Cardinality(LoggedRows(b[1])) + Cardinality(RowsOf(b))
          - Cardinality(LoggedRows(b[1]) \cap RowsOf(b))
  BY <1>8, FS_Union
<1>10. Cardinality({}) = 0
  BY FS_EmptySet
<1>11. \A r \in 1..NR : Cardinality(LoggedRows(r)) \in Nat
  BY <1>5, FS_CardinalityType
<1>12. Cardinality(LoggedRows(b[1])') = Cardinality(LoggedRows(b[1])) + SizeOf(b)
  <2> DEFINE L == LoggedRows(b[1])
             M == RowsOf(b)
             P == LoggedRows(b[1])'
  <2>1. P = L \cup M /\ L \cap M = {}
    BY <1>3, <1>4
  <2>2. Cardinality(L \cup M) = Cardinality(L) + SizeOf(b) - Cardinality(L \cap M)
    BY <1>8, <1>9
  <2>3. Cardinality(L) \in Nat /\ SizeOf(b) \in Nat
    BY <1>6, <1>8, <1>11
  <2> HIDE DEF L, M, P
  <2>4. Cardinality(L \cap M) = 0
    BY <1>10, <2>1
  <2>5. Cardinality(P) = Cardinality(L) + SizeOf(b)
    BY <2>1, <2>2, <2>3, <2>4
  <2> QED
    BY <2>5 DEF L, P
<1> QED
  BY <1>7, <1>11, <1>12

(* Everything logged, every offset of the round is. *)
LEMMA AllLogged ==
  ASSUME NEW r \in 1..NR, \A b \in Batches : b[1] = r => fut[b] = "logged"
  PROVE  Cardinality(LoggedRows(r)) = RowCount
<1>1. LoggedRows(r) = 0..(RowCount - 1)
  BY RowHasBatch DEF LoggedRows
<1> QED
  BY <1>1, Numbers, FS_Interval

(* A round never logs more offsets than it has. *)
LEMMA LoggedBound ==
  ASSUME NEW r \in 1..NR
  PROVE  Cardinality(LoggedRows(r)) \in Nat /\ Cardinality(LoggedRows(r)) <= RowCount
<1>1. LoggedRows(r) \subseteq 0..(RowCount - 1)
  BY DEF LoggedRows
<1>2. IsFiniteSet(0..(RowCount - 1)) /\ Cardinality(0..(RowCount - 1)) = RowCount
  BY Numbers, FS_Interval
<1> QED
  BY <1>1, <1>2, FS_Subset, FS_CardinalityType

(* Nothing is counted when a task starts. *)
LEMMA CountedInit == Init => RowsCounted /\ CountsShown
<1> SUFFICES ASSUME Init PROVE RowsCounted /\ CountsShown
  OBVIOUS
<1>1. /\ pc = "submit" /\ round = 1 /\ \A b \in Batches : fut[b] = "new"
      /\ \A r \in 1..NR : succ[r] = 0 /\ fail[r] = 0
  BY DEF Init
<1>2. \A r \in 1..NR : LoggedRows(r) = {}
  BY <1>1 DEF LoggedRows
<1>3. Cardinality({}) = 0 /\ 0 * (NT + NS) = 0
  BY Numbers, FS_EmptySet
<1>4. \A r \in 1..NR : CountsAsLogged(r) /\ ~(r < round)
  BY <1>1, <1>2, <1>3 DEF CountsAsLogged
<1>5. RowsCounted
  BY <1>1, <1>4 DEF RowsCounted, EveryRowCounted
<1>6. \A r \in 1..NR : ~(succ[r] > 0) /\ ~(fail[r] > 0)
  BY <1>1
<1>7. CountsShown
  BY <1>6 DEF CountsShown
<1> QED
  BY <1>5, <1>7

(* Steps that leave the logs and the counts alone. *)
LEMMA CountedKept ==
  ASSUME RowsCounted, UNCHANGED <<succ, fail, round, iterate>>,
         \A b \in Batches : fut'[b] = "logged" <=> fut[b] = "logged",
         pc' \in {"submit", "record"} => pc \in {"submit", "record"},
         pc' \in {"final", "publish"} => pc \in {"final", "publish"}
  PROVE  RowsCounted'
<1>1. \A r \in 1..NR : LoggedRows(r)' = LoggedRows(r)
  BY DEF LoggedRows
<1>2. \A r \in 1..NR : /\ CountsAsLogged(r) => CountsAsLogged(r)'
                       /\ CountsAll(r) => CountsAll(r)'
  BY <1>1 DEF CountsAsLogged, CountsAll
<1> QED
  BY <1>2 DEF RowsCounted, EveryRowCounted, Rounds

(* Recording a batch counts its rows once for every entry of its result. *)
LEMMA CountedRecord ==
  ASSUME TypeOK, RoundDiscipline, RowsCounted, NEW b \in Batches, Record(b)
  PROVE  RowsCounted'
<1> DEFINE good == SizeOf(b) * Cardinality(Succeeded(b))
           bad  == SizeOf(b) * Cardinality(Failed(b))
<1>1. /\ pc = "record" /\ fut[b] = "done" /\ fut' = [fut EXCEPT ![b] = "logged"]
      /\ succ' = [succ EXCEPT ![round] = @ + good]
      /\ fail' = [fail EXCEPT ![round] = @ + bad]
      /\ UNCHANGED <<pc, round, iterate>>
  BY DEF Record
<1>2. b[1] = round /\ round \in 1..NR
  BY <1>1 DEF RoundDiscipline, InFlight, TypeOK
<1>3. good \in Nat /\ bad \in Nat /\ good + bad = SizeOf(b) * (NT + NS)
  <2> DEFINE S == Cardinality(Succeeded(b))
             F == Cardinality(Failed(b))
  <2>1. S \in Nat /\ F \in Nat /\ S + F = NT + NS /\ SizeOf(b) \in Nat
    BY EntriesSplit, SizePositive
  <2> HIDE DEF S, F
  <2>2. SizeOf(b) * S + SizeOf(b) * F = SizeOf(b) * (S + F)
    BY <2>1
  <2>3. SizeOf(b) * S \in Nat /\ SizeOf(b) * F \in Nat
    BY <2>1
  <2> QED
    BY <2>1, <2>2, <2>3 DEF S, F
<1>4. /\ Cardinality(LoggedRows(round)') = Cardinality(LoggedRows(round)) + SizeOf(b)
      /\ \A r \in 1..NR : r # round => LoggedRows(r)' = LoggedRows(r)
      /\ Cardinality(LoggedRows(round)) \in Nat
  BY <1>1, <1>2, RecordLogs
<1> HIDE DEF good, bad
<1>5. \A r \in 1..NR : r # round => succ'[r] = succ[r] /\ fail'[r] = fail[r]
  BY <1>1 DEF TypeOK
<1>6. succ'[round] + fail'[round] = succ[round] + fail[round] + SizeOf(b) * (NT + NS)
  <2>1. succ[round] \in Nat /\ fail[round] \in Nat
    BY <1>2 DEF TypeOK
  <2>2. succ'[round] = succ[round] + good /\ fail'[round] = fail[round] + bad
    BY <1>1, <1>2 DEF TypeOK
  <2> QED
    BY <1>3, <2>1, <2>2
<1>7. \A r \in 1..NR : IF r < round THEN CountsAll(r) ELSE CountsAsLogged(r)
  BY <1>1 DEF RowsCounted
<1>8. ASSUME NEW r \in 1..NR, r = round PROVE CountsAsLogged(r)'
  <2> DEFINE C == Cardinality(LoggedRows(round))
  <2>1. succ[round] + fail[round] = C * (NT + NS)
    BY <1>2, <1>7 DEF CountsAsLogged
  <2>2. C \in Nat /\ SizeOf(b) \in Nat /\ NT + NS \in Nat
    BY <1>4, SizePositive, Numbers
  <2> HIDE DEF C
  <2>3. (C + SizeOf(b)) * (NT + NS) = C * (NT + NS) + SizeOf(b) * (NT + NS)
    BY <2>2
  <2>4. succ'[round] + fail'[round] = (C + SizeOf(b)) * (NT + NS)
    BY <1>6, <2>1, <2>3
  <2> QED
    BY <1>1, <1>4, <1>8, <2>4 DEF C, CountsAsLogged
<1>9. ASSUME NEW r \in 1..NR, r < round PROVE CountsAll(r)'
  <2>1. CountsAll(r) /\ r # round
    BY <1>2, <1>7, <1>9
  <2> QED
    BY <1>5, <2>1 DEF CountsAll
<1>10. ASSUME NEW r \in 1..NR, ~(r < round) PROVE CountsAsLogged(r)'
  <2>1. CASE r = round
    BY <1>8, <2>1
  <2>2. CASE r # round
    <3>1. CountsAsLogged(r)
      BY <1>7, <1>10
    <3>2. LoggedRows(r)' = LoggedRows(r) /\ succ'[r] = succ[r] /\ fail'[r] = fail[r]
      BY <1>4, <1>5, <2>2
    <3> QED
      BY <3>1, <3>2 DEF CountsAsLogged
  <2> QED
    BY <2>1, <2>2
<1> QED
  BY <1>1, <1>9, <1>10 DEF RowsCounted, EveryRowCounted

(* At its end a round has counted all of its rows: every batch is logged,  *)
(* or the rows of the batches that never ran are counted as failed.        *)
LEMMA CountedRoundEnd ==
  ASSUME TypeOK, RoundDiscipline, RowsCounted, RoundEnd
  PROVE  RowsCounted'
<1>1. /\ pc = "submit" /\ Pending = {} /\ (stopped[round] \/ index > NB)
      /\ fail' = [fail EXCEPT ![round] = @ + Remaining(round)]
      /\ UNCHANGED <<succ, fut, iterate, out>>
  BY DEF RoundEnd, workerVars
<1>2. round \in 1..NR /\ round <= Rounds /\ Rounds \in Int
  BY SizesAssumption DEF TypeOK, RoundDiscipline, Rounds
<1>3. \A r \in 1..NR : IF r < round THEN CountsAll(r) ELSE CountsAsLogged(r)
  BY <1>1 DEF RowsCounted
<1> DEFINE C == Cardinality(LoggedRows(round))
           total == succ[round] + fail[round]
<1>4. C \in Nat /\ C <= RowCount
  BY <1>2, LoggedBound
<1>5. total = C * (NT + NS) /\ total \in Nat /\ succ[round] \in Nat /\ fail[round] \in Nat
  <2>1. succ[round] \in Nat /\ fail[round] \in Nat
    BY <1>2 DEF TypeOK
  <2>2. CountsAsLogged(round)
    BY <1>2, <1>3
  <2>3. total = C * (NT + NS)
    BY <2>2 DEF CountsAsLogged
  <2>4. total \in Nat
    BY <2>1
  <2> HIDE DEF total, C
  <2> QED
    BY <2>1, <2>3, <2>4
<1>6. ~stopped[round] => C = RowCount
  <2> SUFFICES ASSUME ~stopped[round], NEW b \in Batches, b[1] = round
               PROVE  fut[b] = "logged"
    BY <1>2, AllLogged
  <2>1. b[2] < index
    BY <1>1, SizesAssumption DEF Batches, TypeOK
  <2>2. b \notin InFlight
    BY <1>1 DEF Pending, RoundDiscipline
  <2> QED
    BY <2>1, <2>2 DEF TypeOK, FutureState, InFlight, RoundDiscipline
<1>7. /\ succ'[round] + fail'[round] = total + Remaining(round)
      /\ \A r \in 1..NR : r # round => fail'[r] = fail[r]
  <2>1. Remaining(round) \in Nat
    BY <1>5, Numbers DEF Remaining
  <2>2. fail'[round] = fail[round] + Remaining(round)
    BY <1>1, <1>2 DEF TypeOK
  <2>3. succ'[round] + fail'[round] = total + Remaining(round)
    BY <1>1, <1>5, <2>1, <2>2
  <2> QED
    BY <1>1, <2>3 DEF TypeOK
<1>8. NS = 0 => total <= RowCount * NT
  <2>1. C * NT <= RowCount * NT
    BY <1>4, Numbers
  <2> QED
    BY <1>5, <2>1, Numbers
<1>9. Remaining(round) = IF stopped[round] /\ RowCount * NT - total > 0
                         THEN RowCount * NT - total ELSE 0
  BY DEF Remaining
<1>10. C = RowCount => total = RowCount * (NT + NS)
  BY <1>5
<1> HIDE DEF C, total
<1>11. ASSUME NEW r \in 1..NR, r = round PROVE CountsAll(r)'
  <2> DEFINE all == RowCount * NT
             both == RowCount * (NT + NS)
  <2>1. all \in Nat /\ both \in Nat /\ both >= all /\ (NS = 0 => both = all)
    BY Numbers
  <2> HIDE DEF all, both
  <2>2. /\ Remaining(round) = IF stopped[round] /\ all - total > 0 THEN all - total ELSE 0
        /\ NS = 0 => total <= all
        /\ ~stopped[round] => total = both
    BY <1>6, <1>8, <1>9, <1>10 DEF all, both
  <2>3. /\ total + Remaining(round) >= all
        /\ NS = 0 => total + Remaining(round) = all
    <3>1. CASE stopped[round] /\ all - total > 0
      BY <1>5, <2>1, <2>2, <3>1
    <3>2. CASE stopped[round] /\ ~(all - total > 0)
      BY <1>5, <2>1, <2>2, <3>2
    <3>3. CASE ~stopped[round]
      BY <1>5, <2>1, <2>2, <3>3
    <3> QED
      BY <3>1, <3>2, <3>3
  <2>4. succ'[round] + fail'[round] >= all /\ (NS = 0 => succ'[round] + fail'[round] = all)
    BY <1>7, <2>3
  <2> QED
    BY <1>11, <2>4 DEF all, CountsAll
<1>12. ASSUME NEW r \in 1..NR, r <= round PROVE CountsAll(r)'
  <2>1. CASE r = round
    BY <1>11, <2>1
  <2>2. CASE r # round
    <3>1. CountsAll(r)
      BY <1>2, <1>3, <1>12, <2>2
    <3> QED
      BY <1>1, <1>7, <2>2, <3>1 DEF CountsAll
  <2> QED
    BY <2>1, <2>2
<1>13. ASSUME NEW r \in 1..NR, r > round PROVE CountsAsLogged(r)'
  <2>1. CountsAsLogged(r) /\ r # round
    BY <1>2, <1>3, <1>13
  <2>2. LoggedRows(r)' = LoggedRows(r)
    BY <1>1 DEF LoggedRows
  <2> QED
    BY <1>1, <1>7, <2>1, <2>2 DEF CountsAsLogged
<1>14. CASE round < Rounds
  <2>1. pc' = "submit" /\ round' = round + 1
    BY <1>14 DEF RoundEnd
  <2>2. ASSUME NEW r \in 1..NR
        PROVE  IF r < round' THEN CountsAll(r)' ELSE CountsAsLogged(r)'
    <3>1. r < round' <=> r <= round
      BY <1>2, <2>1
    <3>2. r <= round \/ r > round
      BY <1>2
    <3> QED
      BY <1>12, <1>13, <3>1, <3>2
  <2> QED
    BY <2>1, <2>2 DEF RowsCounted, EveryRowCounted
<1>15. CASE ~(round < Rounds)
  <2>1. pc' = "final" /\ round' = round /\ Rounds' = Rounds
    BY <1>1, <1>15 DEF RoundEnd, Rounds
  <2>2. \A r \in 1..Rounds : r \in 1..NR /\ r <= round
    BY <1>2, <1>15, SizesAssumption DEF Rounds
  <2>3. \A r \in 1..Rounds : CountsAll(r)'
    BY <1>12, <2>2
  <2> QED
    BY <2>1, <2>3 DEF RowsCounted, EveryRowCounted, CountsAll
<1> QED
  BY <1>14, <1>15

(* Every step keeps the counts and the logged rows in agreement. *)
LEMMA CountedStep ==
  ASSUME TypeOK, RoundDiscipline, RowsCounted, [Next]_vars
  PROVE  RowsCounted'
<1> USE DEF mainVars, statsVars, workerVars
<1>1. ASSUME NEW b \in Batches, WorkerStep(b) PROVE RowsCounted'
  <2>1. UNCHANGED <<succ, fail, round, iterate, pc>>
    BY <1>1 DEF WorkerStep, StartBatch, NotifyCancelled, GenerateRefused,
             InsertSucceeds, InsertFails, SyncAndFinish, BatchRaises
  <2>2. \A c \in Batches : fut'[c] = "logged" <=> fut[c] = "logged"
    BY <1>1 DEF TypeOK, WorkerStep, StartBatch, NotifyCancelled, GenerateRefused,
             InsertSucceeds, InsertFails, SyncAndFinish, BatchRaises
  <2> QED
    BY <2>1, <2>2, CountedKept
<1>2. ASSUME Submit PROVE RowsCounted'
  <2>1. <<round, index>> \in Batches /\ fut[<<round, index>>] = "new"
    <3>1. index <= shardEnd /\ index \in 1..(NB + 1) /\ shardEnd \in 1..NB
          /\ round \in 1..NR
      BY <1>2 DEF Submit, CanSubmit, TypeOK
    <3>2. <<round, index>> \in Batches
      BY <3>1, SizesAssumption DEF Batches
    <3> QED
      BY <3>1, <3>2 DEF RoundDiscipline
  <2>2. \A c \in Batches : fut'[c] = "logged" <=> fut[c] = "logged"
    BY <1>2, <2>1 DEF TypeOK, Submit
  <2> QED
    BY <1>2, <2>2, CountedKept DEF Submit
<1>3. ASSUME NEW b \in Batches, SkipCancelled(b) PROVE RowsCounted'
  <2>1. \A c \in Batches : fut'[c] = "logged" <=> fut[c] = "logged"
    BY <1>3 DEF TypeOK, SkipCancelled
  <2> QED
    BY <1>3, <2>1, CountedKept DEF SkipCancelled
<1>4. ASSUME CheckRate PROVE RowsCounted'
  <2>1. \A c \in Batches : fut'[c] = "logged" <=> fut[c] = "logged"
    BY <1>4 DEF CheckRate
  <2> QED
    BY <1>4, <2>1, CountedKept DEF CheckRate
<1>5. ASSUME \/ Wait \/ MainRaises \/ NextShard \/ Finalize \/ Publish \/ Unwind
             \/ UNCHANGED vars
      PROVE  RowsCounted'
  <2>1. UNCHANGED <<succ, fail, round, iterate, fut>>
    BY <1>5 DEF Wait, MainRaises, NextShard, Finalize, Publish, Unwind, vars
  <2>2. /\ pc' \in {"submit", "record"} => pc \in {"submit", "record"}
        /\ pc' \in {"final", "publish"} => pc \in {"final", "publish"}
    BY <1>5 DEF Wait, MainRaises, NextShard, Finalize, Publish, Unwind, vars
  <2> QED
    BY <2>1, <2>2, CountedKept
<1> QED
  BY <1>1, <1>2, <1>3, <1>4, <1>5, CountedRecord, CountedRoundEnd
     DEF Next, MainStep, Terminating

(* A recorded batch shows what it counts; steps that count nothing change  *)
(* no entry of a logged batch.                                             *)
LEMMA ShownStep ==
  ASSUME TypeOK, RoundDiscipline, FailuresCounted, CountsShown, [Next]_vars
  PROVE  CountsShown'
<1> USE DEF mainVars, statsVars, workerVars
<1>0. ASSUME \A b \in Batches : fut[b] = "logged" => fut'[b] = "logged" /\ out'[b] = out[b],
             NEW r \in 1..NR, NEW ok \in BOOLEAN, LogShows(r, ok)
      PROVE  LogShows(r, ok)'
  BY <1>0 DEF LogShows
<1>1. ASSUME \A b \in Batches : fut[b] = "logged" => fut'[b] = "logged" /\ out'[b] = out[b],
             UNCHANGED <<succ, fail>>
      PROVE  CountsShown'
  BY <1>0, <1>1 DEF CountsShown
<1>2. ASSUME NEW b \in Batches, WorkerStep(b) PROVE CountsShown'
  <2>1. UNCHANGED <<succ, fail>>
    BY <1>2 DEF WorkerStep, StartBatch, NotifyCancelled, GenerateRefused,
             InsertSucceeds, InsertFails, SyncAndFinish, BatchRaises
  <2>2. fut[b] # "logged"
    BY <1>2 DEF WorkerStep, StartBatch, NotifyCancelled, GenerateRefused,
             InsertSucceeds, InsertFails, SyncAndFinish, BatchRaises
  <2>3. \A c \in Batches : c # b => fut'[c] = fut[c] /\ out'[c] = out[c]
    BY <1>2 DEF TypeOK, WorkerStep, StartBatch, NotifyCancelled, GenerateRefused,
             InsertSucceeds, InsertFails, SyncAndFinish, BatchRaises, Enter
  <2> QED
    BY <1>1, <2>1, <2>2, <2>3
<1>3. ASSUME Submit PROVE CountsShown'
  <2>1. <<round, index>> \in Batches => fut[<<round, index>>] = "new"
    BY <1>3 DEF Submit, RoundDiscipline, TypeOK
  <2>2. \A c \in Batches : fut[c] = "logged" => fut'[c] = "logged"
    BY <1>3, <2>1 DEF TypeOK, Submit
  <2> QED
    BY <1>1, <1>3, <2>2 DEF Submit
<1>4. ASSUME NEW b \in Batches, SkipCancelled(b) PROVE CountsShown'
  <2>1. \A c \in Batches : fut[c] = "logged" => fut'[c] = "logged"
    BY <1>4 DEF TypeOK, SkipCancelled
  <2> QED
    BY <1>1, <1>4, <2>1 DEF SkipCancelled
<1>5. ASSUME CheckRate PROVE CountsShown'
  <2>1. \A c \in Batches : fut[c] = "logged" => fut'[c] = "logged"
    BY <1>5 DEF CheckRate
  <2> QED
    BY <1>1, <1>5, <2>1 DEF CheckRate
<1>6. ASSUME \/ Wait \/ MainRaises \/ NextShard \/ Finalize \/ Publish \/ Unwind
             \/ UNCHANGED vars
      PROVE  CountsShown'
  <2>1. UNCHANGED <<succ, fail, fut, out>>
    BY <1>6 DEF Wait, MainRaises, NextShard, Finalize, Publish, Unwind, vars
  <2> QED
    BY <1>1, <2>1
<1>7. ASSUME NEW b \in Batches, Record(b) PROVE CountsShown'
  <2> DEFINE good == SizeOf(b) * Cardinality(Succeeded(b))
             bad  == SizeOf(b) * Cardinality(Failed(b))
  <2>1. /\ succ' = [succ EXCEPT ![round] = @ + good]
        /\ fail' = [fail EXCEPT ![round] = @ + bad]
        /\ fut' = [fut EXCEPT ![b] = "logged"] /\ out' = out /\ fut[b] = "done"
    BY <1>7 DEF Record
  <2>2. b[1] = round /\ round \in 1..NR
    BY <2>1 DEF RoundDiscipline, InFlight, TypeOK
  <2>3. good # 0 => Succeeded(b) # {}
    <3>1. SizeOf(b) * 0 = 0
      BY SizePositive
    <3> QED
      BY <3>1, FS_EmptySet
  <2>4. bad # 0 => Failed(b) # {}
    <3>1. SizeOf(b) * 0 = 0
      BY SizePositive
    <3> QED
      BY <3>1, FS_EmptySet
  <2>5. good \in Nat /\ bad \in Nat
    BY EntryCounts
  <2> HIDE DEF good, bad
  <2>6. \A c \in Batches : fut[c] = "logged" => fut'[c] = "logged"
    BY <2>1 DEF TypeOK
  <2>7. fut'[b] = "logged"
    BY <2>1 DEF TypeOK
  <2>8. Succeeded(b) # {} => LogShows(b[1], TRUE)'
    <3> SUFFICES ASSUME NEW e \in Entries, out[b][e] = "ok" PROVE LogShows(b[1], TRUE)'
      BY DEF Succeeded
    <3>1. out'[b][e] = "ok"
      BY <2>1
    <3> QED
      BY <2>7, <3>1 DEF LogShows
  <2>9. Failed(b) # {} => LogShows(b[1], FALSE)'
    <3> SUFFICES ASSUME NEW e \in Entries, out[b][e] # "ok" PROVE LogShows(b[1], FALSE)'
      BY DEF Failed, Succeeded
    <3>1. out'[b][e] # "ok"
      BY <2>1
    <3> QED
      BY <2>7, <3>1 DEF LogShows
  <2>10. ASSUME NEW r \in 1..NR, succ'[r] > 0 PROVE LogShows(r, TRUE)'
    <3>1. succ[r] \in Nat /\ succ'[r] = IF r = round THEN succ[r] + good ELSE succ[r]
      BY <2>1 DEF TypeOK
    <3>2. succ[r] > 0 \/ (r = round /\ good # 0)
      BY <2>5, <2>10, <3>1
    <3>3. CASE succ[r] > 0
      BY <1>0, <2>1, <2>6, <3>3 DEF CountsShown
    <3>4. CASE r = round /\ good # 0
      BY <2>2, <2>3, <2>8, <3>4
    <3> QED
      BY <3>2, <3>3, <3>4
  <2>11. ASSUME NEW r \in 1..NR, fail'[r] > 0 PROVE LogShows(r, FALSE)'
    <3>1. fail[r] \in Nat /\ fail'[r] = IF r = round THEN fail[r] + bad ELSE fail[r]
      BY <2>1 DEF TypeOK
    <3>2. fail[r] > 0 \/ (r = round /\ bad # 0)
      BY <2>5, <2>11, <3>1
    <3>3. CASE fail[r] > 0
      BY <1>0, <2>1, <2>6, <3>3 DEF CountsShown
    <3>4. CASE r = round /\ bad # 0
      BY <2>2, <2>4, <2>9, <3>4
    <3> QED
      BY <3>2, <3>3, <3>4
  <2> QED
    BY <2>10, <2>11 DEF CountsShown
<1>8. ASSUME RoundEnd PROVE CountsShown'
  <2>1. UNCHANGED <<succ, fut, out>> /\ fail' = [fail EXCEPT ![round] = @ + Remaining(round)]
    BY <1>8 DEF RoundEnd
  <2>2. \A r \in 1..NR : fail'[r] = IF r = round THEN fail[r] + Remaining(round) ELSE fail[r]
    BY <2>1 DEF TypeOK
  <2>3. Remaining(round) # 0 => fail[round] > 0
    BY DEF Remaining, FailuresCounted, TypeOK
  <2>4. ASSUME NEW r \in 1..NR, fail'[r] > 0 PROVE fail[r] > 0
    BY <2>2, <2>3, <2>4 DEF TypeOK
  <2>5. \A r \in 1..NR, ok \in BOOLEAN : LogShows(r, ok) => LogShows(r, ok)'
    BY <1>0, <2>1
  <2> QED
    BY <2>1, <2>4, <2>5 DEF CountsShown
<1> QED
  BY <1>2, <1>3, <1>4, <1>5, <1>6, <1>7, <1>8 DEF Next, MainStep, Terminating

(* A verdict is "partial" over a failure that a log shows, and a success   *)
(* that is shown because the failure rate was not exceeded (normal mode)   *)
(* or because a round counted no failure (iterate mode).                   *)
LEMMA PartialShown ==
  ASSUME IInv, CountsShown, FailPct < 100, pc = "final", Verdict = "partial"
  PROVE  /\ \E b \in RoundBatches, e \in Entries : fut[b] = "logged" /\ out[b][e] = "ok"
         /\ \E b \in RoundBatches, e \in Entries : fut[b] = "logged" /\ out[b][e] # "ok"
<1>1. Closed
  BY DEF IInv, VerdictEarned
<1>2. 1 \in 1..Rounds /\ 1..Rounds \subseteq 1..NR
  BY SizesAssumption DEF Rounds
<1>3. \A r \in 1..NR : succ[r] \in Nat /\ fail[r] \in Nat
  BY DEF IInv, TypeOK
<1>4. PICK r \in 1..Rounds : fail[r] > 0
  BY DEF Verdict
<1>5. \E b \in RoundBatches, e \in Entries : fut[b] = "logged" /\ out[b][e] # "ok"
  <2>1. LogShows(r, FALSE)
    BY <1>2, <1>4 DEF CountsShown
  <2> QED
    BY <2>1 DEF LogShows, RoundBatches
<1>6. CASE iterate
  <2>1. {q \in 1..Rounds : fail[q] > 0} # 1..Rounds
    BY <1>4, <1>6 DEF Verdict
  <2>2. PICK q \in 1..Rounds : ~(fail[q] > 0)
    BY <2>1
  <2>3. q \in 1..NR /\ ~stopped[q]
    BY <1>2, <2>2 DEF IInv, FailuresCounted
  <2> DEFINE b == <<q, 1>>
  <2>4. b \in Batches /\ b[1] = q /\ b \in RoundBatches
    BY <2>2, <2>3, SizesAssumption DEF Batches, RoundBatches
  <2> HIDE DEF b
  <2>5. fut[b] = "logged"
    BY <1>1, <2>3, <2>4 DEF Closed
  <2>6. 1 \in Entries
    BY SizesAssumption DEF Entries
  <2>7. out[b][1] = "ok"
    BY <2>2, <2>4, <2>5, <2>6 DEF IInv, FailuresCounted
  <2> QED
    BY <1>5, <2>4, <2>5, <2>6, <2>7
<1>7. CASE ~iterate
  <2>1. ~RateExceeded(1) /\ r = 1
    BY <1>4, <1>7 DEF Verdict, Rounds
  <2>2. succ[1] > 0
    <3>1. SUFFICES ASSUME succ[1] = 0 PROVE FALSE
      BY <1>2, <1>3
    <3>2. fail[1] \in Nat /\ fail[1] > 0 /\ FailPct \in 0..99
      BY <1>2, <1>3, <1>4, <2>1, LimitsAssumption
    <3>3. ~(fail[1] * 100 > FailPct * fail[1])
      BY <2>1, <3>1, <3>2 DEF RateExceeded
    <3>4. FailPct * fail[1] <= 99 * fail[1]
      BY <3>2
    <3>5. FailPct * fail[1] \in Nat
      BY <3>2
    <3> QED
      BY <3>2, <3>3, <3>4, <3>5
  <2>3. \E b \in RoundBatches, e \in Entries : fut[b] = "logged" /\ out[b][e] = "ok"
    <3>1. LogShows(1, TRUE)
      BY <1>2, <2>2 DEF CountsShown
    <3> QED
      BY <1>2, <3>1 DEF LogShows, RoundBatches
  <2> QED
    BY <1>5, <2>3
<1> QED
  BY <1>6, <1>7

(* A partial success stays one of what is there and what is not. *)
LEMMA PartialStep ==
  ASSUME IInv, RowsCounted, CountsShown, PartialMeansMixed, FailPct < 100, [Next]_vars
  PROVE  PartialMeansMixed'
<1> USE DEF mainVars, statsVars, workerVars
<1>1. ASSUME status' = status, UNCHANGED <<out, iterate>>
      PROVE  PartialMeansMixed'
  BY <1>1 DEF PartialMeansMixed, RoundBatches, Rounds
<1>2. ASSUME status' # "partial" PROVE PartialMeansMixed'
  BY <1>2 DEF PartialMeansMixed
<1>3. ASSUME NEW b \in Batches, WorkerStep(b) PROVE PartialMeansMixed'
  <2>1. CASE NotifyCancelled(b)
    BY <1>1, <2>1 DEF NotifyCancelled
  <2>2. CASE ~NotifyCancelled(b)
    <3>1. fut[b] \in {"queued", "running"} /\ status' = status
      BY <1>3, <2>2 DEF WorkerStep, StartBatch, GenerateRefused, InsertSucceeds,
                        InsertFails, SyncAndFinish, BatchRaises
    <3>2. status = "running"
      BY <3>1 DEF IInv, VerdictEarned, Unfinished
    <3> QED
      BY <1>2, <3>1, <3>2
  <2> QED
    BY <2>1, <2>2
<1>4. ASSUME Finalize, status' = "partial" PROVE PartialMeansMixed'
  <2>1. Verdict = "partial" /\ pc = "final" /\ UNCHANGED <<out, iterate>>
    BY <1>4 DEF Finalize
  <2> QED
    BY <2>1, PartialShown DEF PartialMeansMixed, RoundBatches, Rounds
<1>5. ASSUME Unwind PROVE PartialMeansMixed'
  BY <1>1, <1>2, <1>5 DEF Unwind
<1>6. ASSUME \/ Submit \/ Wait \/ MainRaises \/ CheckRate \/ NextShard \/ RoundEnd
             \/ Publish \/ UNCHANGED vars
             \/ \E b \in Batches : SkipCancelled(b) \/ Record(b)
      PROVE  PartialMeansMixed'
  <2>1. status' = status /\ UNCHANGED <<out, iterate>>
    BY <1>6 DEF Submit, Wait, MainRaises, CheckRate, NextShard, RoundEnd, Publish, vars,
                SkipCancelled, Record
  <2> QED
    BY <1>1, <2>1
<1> QED
  BY <1>2, <1>3, <1>4, <1>5, <1>6 DEF Next, MainStep, Terminating

-------------------------------------------------------------------------------
(* The inductive invariant and what follows from it. *)

(* The inductive invariant holds at the start, *)
LEMMA IInvInit == Init => IInv
  BY TypeInit, RowsInit, RoundInit, FailuresInit, VerdictInit DEF IInv, RowsInv

(* is kept by every step, *)
LEMMA IInvStep == IInv /\ [Next]_vars => IInv'
  BY TypeStep, RowsStep, RoundStep, FailuresStep, VerdictStep DEF IInv, RowsInv

(* and therefore always holds. *)
LEMMA IInvAlways == Spec => []IInv
  BY IInvInit, IInvStep, PTL DEF Spec

(* A task declared successful is complete: every table of every batch of   *)
(* every round is in the target database and every synchronisation went    *)
(* through, although the verdict is computed from the statistics alone.    *)
THEOREM SuccessIsComplete == Spec => []SuccessMeansComplete
<1>1. IInv => SuccessMeansComplete
  <2> SUFFICES ASSUME IInv, status = "success", NEW b \in RoundBatches
               PROVE  /\ \A e \in Entries : out[b][e] = "ok"
                      /\ \A t \in Tables : rows[b][t] > 0
    BY DEF SuccessMeansComplete
  <2>1. fut[b] = "logged" /\ fail[b[1]] = 0 /\ b \in Batches
    BY DEF IInv, VerdictEarned, RoundBatches
  <2>2. \A e \in Entries : out[b][e] = "ok"
    BY <2>1 DEF IInv, FailuresCounted
  <2>3. Tables \subseteq Entries
    BY SizesAssumption DEF Tables, Entries
  <2> QED
    BY <2>1, <2>2, <2>3 DEF IInv, EntriesMatchRows
<1> QED
  BY <1>1, IInvAlways, PTL

(* Logs and rows agree: a success log stands for rows that exist, and as   *)
(* long as no commit answer is lost for exactly one copy of them.          *)
THEOREM LogsAreTrue == Spec => []LogsMatchRows
<1>1. IInv => LogsMatchRows
  BY DEF IInv, EntriesMatchRows, LogsMatchRows
<1> QED
  BY <1>1, IInvAlways, PTL

(* No row whose values were copied from the main table exists without the  *)
(* main table's rows of its batch.                                         *)
THEOREM MainBeforeDependents == Spec => []NoOrphanOfMain
<1>1. IInv => NoOrphanOfMain
  <2> SUFFICES ASSUME IInv, NEW b \in Batches, NEW t \in Tables,
                      Main \in Source[t], rows[b][t] > 0
               PROVE  rows[b][Main] > 0
    BY DEF NoOrphanOfMain
  <2>1. Main \in Tables /\ Main < t /\ t \in Int /\ Main \in Int
    BY TablesAssumption DEF Tables
  <2>2. out[b][Main] = "ok"
    BY <2>1 DEF IInv, MainFirst
  <2> QED
    BY <2>1, <2>2 DEF IInv, EntriesMatchRows
<1> QED
  BY <1>1, IInvAlways, PTL

(* Once a task has a verdict its pool is idle for good, whichever way the  *)
(* main thread left it.                                                    *)
THEOREM VerdictIsQuiet == Spec => []NoWorkAfterVerdict
<1>1. IInv => NoWorkAfterVerdict
  BY DEF IInv, VerdictEarned, NoWorkAfterVerdict
<1> QED
  BY <1>1, IInvAlways, PTL

(* Both: a success is complete and a verdict is the end of all work. *)
THEOREM VerdictsHold == Spec => []VerdictHolds
  BY SuccessIsComplete, VerdictIsQuiet, PTL DEF VerdictHolds

(* A batch cancelled by the failure-rate stop has written nothing.         *)
THEOREM CancelledAreClean == Spec => []CancelledLeavesNothing
<1>1. IInv => CancelledLeavesNothing
  <2> SUFFICES ASSUME IInv, NEW b \in Batches, NEW t \in Tables,
                      fut[b] \in {"cancelled", "notified", "dropped"}
               PROVE  rows[b][t] = 0
    BY DEF CancelledLeavesNothing
  <2>1. at[b] = 1 /\ t >= 1
    BY DEF IInv, ForwardOnly, Tables
  <2> QED
    BY <2>1 DEF IInv, ForwardOnly
<1> QED
  BY <1>1, IInvAlways, PTL

(* The rows in the target database are what the logs tell of them, for any *)
(* number of tables, batches and threads.                                  *)
THEOREM RowsAreTrue == Spec => []RowsTrue
  BY LogsAreTrue, MainBeforeDependents, CancelledAreClean, PTL DEF RowsTrue

(* The counts agree with the logs in every reachable state. *)
LEMMA CountsAlways == Spec => [](IInv /\ RowsCounted /\ CountsShown)
<1>1. Init => IInv /\ RowsCounted /\ CountsShown
  BY IInvInit, CountedInit
<1>2. IInv /\ RowsCounted /\ CountsShown /\ [Next]_vars
        => (IInv /\ RowsCounted /\ CountsShown)'
  BY IInvStep, CountedStep, ShownStep DEF IInv
<1> QED
  BY <1>1, <1>2, PTL DEF Spec

(* When the verdict is computed every row of every round was counted as a  *)
(* success or as a failure, those of batches that never ran included.      *)
THEOREM RowsAllCounted == Spec => []EveryRowCounted
<1>1. RowsCounted => EveryRowCounted
  BY DEF RowsCounted
<1> QED
  BY <1>1, CountsAlways, PTL

(* The statistics account for every row, and a partial success has         *)
(* inserted something and misses something.  The latter needs a threshold  *)
(* below one (FAIL_RATE_THRESHOLD is 0.5): no failure rate exceeds one, so *)
(* with that threshold a task that inserted nothing would be partial.      *)
THEOREM StatisticsAreTrue ==
  ASSUME FailPct < 100
  PROVE  Spec => []StatisticsTrue
<1>1. Init => PartialMeansMixed
  BY DEF Init, PartialMeansMixed
<1>2. IInv /\ RowsCounted /\ CountsShown /\ PartialMeansMixed /\ [Next]_vars
        => PartialMeansMixed'
  BY PartialStep
<1>3. RowsCounted /\ PartialMeansMixed => StatisticsTrue
  BY DEF RowsCounted, StatisticsTrue
<1> QED
  BY <1>1, <1>2, <1>3, CountsAlways, PTL DEF Spec

-------------------------------------------------------------------------------
(* The contract.  A thread's insert is an Insert, the recording of a batch *)
(* a Write, the verdict a Decide; nothing else can be seen of a run.       *)

(* A synchronisation succeeds only in a batch whose thread is through and  *)
(* has inserted every table.                                               *)
SyncsLast ==
  \A b \in Batches, e \in Syncs :
    out[b][e] = "ok" => fut[b] \in {"done", "logged"} /\ Tables \subseteq Succeeded(b)

(* Entering the outcome of a table leaves the synchronisations alone. *)
LEMMA SyncsEnter ==
  ASSUME TypeOK, SyncsLast, NEW b \in Batches, NEW o,
         fut[b] = "running", at[b] \in Tables, Enter(b, at[b], o), fut' = fut
  PROVE  SyncsLast'
<1> SUFFICES ASSUME NEW c \in Batches, NEW e \in Syncs, out'[c][e] = "ok"
             PROVE  fut[c] \in {"done", "logged"} /\ Tables \subseteq Succeeded(c)'
  BY DEF SyncsLast
<1>1. CASE c = b
  <2>1. e \in Entries /\ e \notin Tables
    BY DEF Syncs
  <2>2. out'[b][e] = out[b][e]
    BY <2>1 DEF Enter, TypeOK
  <2> QED
    BY <1>1, <2>2 DEF SyncsLast
<1>2. CASE c # b
  <2>1. out'[c] = out[c]
    BY <1>2 DEF Enter, TypeOK
  <2> QED
    BY <2>1 DEF SyncsLast, Succeeded
<1> QED
  BY <1>1, <1>2

(* Steps that change no result and finish no future. *)
LEMMA SyncsKept ==
  ASSUME SyncsLast, UNCHANGED out,
         \A b \in Batches : fut[b] \in {"done", "logged"} => fut'[b] \in {"done", "logged"}
  PROVE  SyncsLast'
  BY DEF SyncsLast, Succeeded

(* Every step keeps it. *)
LEMMA SyncsStep ==
  ASSUME TypeOK, RoundDiscipline, SyncsLast, [Next]_vars
  PROVE  SyncsLast'
<1> USE DEF mainVars, statsVars, workerVars
<1>1. ASSUME NEW b \in Batches, GenerateRefused(b) \/ InsertSucceeds(b) \/ InsertFails(b)
      PROVE  SyncsLast'
  BY <1>1, SyncsEnter DEF GenerateRefused, InsertSucceeds, InsertFails
<1>2. ASSUME NEW b \in Batches, SyncAndFinish(b) PROVE SyncsLast'
  <2>1. PICK ok \in SUBSET Syncs :
          /\ Tables \subseteq Succeeded(b) \/ ok = {}
          /\ out' = [out EXCEPT ![b] = [e \in Entries |->
                       IF e \in Tables THEN @[e]
                       ELSE IF e \in ok THEN "ok" ELSE "fail"]]
    BY <1>2 DEF SyncAndFinish
  <2>2. Tables \subseteq Entries
    BY SizesAssumption DEF Tables, Entries
  <2>3. fut' = [fut EXCEPT ![b] = "done"]
    BY <1>2 DEF SyncAndFinish
  <2> SUFFICES ASSUME NEW c \in Batches, NEW e \in Syncs, out'[c][e] = "ok"
               PROVE  fut'[c] \in {"done", "logged"} /\ Tables \subseteq Succeeded(c)'
    BY DEF SyncsLast
  <2>4. CASE c = b
    <3>1. e \in Entries /\ e \notin Tables
      BY DEF Syncs
    <3>2. \A d \in Entries : out'[b][d] = IF d \in Tables THEN out[b][d]
                                          ELSE IF d \in ok THEN "ok" ELSE "fail"
      BY <2>1 DEF TypeOK
    <3>3. Tables \subseteq Succeeded(b)
      BY <2>1, <2>4, <3>1, <3>2
    <3>4. Tables \subseteq Succeeded(b)'
      BY <2>2, <3>2, <3>3 DEF Succeeded
    <3> QED
      BY <2>3, <2>4, <3>4 DEF TypeOK
  <2>5. CASE c # b
    <3>1. out'[c] = out[c] /\ fut'[c] = fut[c]
      BY <2>1, <2>3, <2>5 DEF TypeOK
    <3> QED
      BY <3>1 DEF SyncsLast, Succeeded
  <2> QED
    BY <2>4, <2>5
<1>3. ASSUME NEW b \in Batches,
             \/ StartBatch(b) \/ NotifyCancelled(b) \/ BatchRaises(b)
             \/ SkipCancelled(b) \/ Record(b)
      PROVE  SyncsLast'
  <2>1. UNCHANGED out /\ \E s \in FutureState :
          fut' = [fut EXCEPT ![b] = s] /\ (fut[b] = "done" => s = "logged") /\ fut[b] # "logged"
    BY <1>3 DEF StartBatch, NotifyCancelled, BatchRaises, SkipCancelled, Record, FutureState
  <2> QED
    BY <2>1, SyncsKept DEF TypeOK
<1>4. ASSUME Submit PROVE SyncsLast'
  <2>1. \A b \in Batches : fut'[b] = "queued" => fut[b] \in {"new", "queued"}
    BY <1>4 DEF Submit, TypeOK, RoundDiscipline, Batches
  <2>2. \A b \in Batches : fut'[b] # "queued" => fut'[b] = fut[b]
    BY <1>4 DEF Submit, TypeOK
  <2> QED
    BY <1>4, <2>1, <2>2, SyncsKept DEF Submit
<1>5. ASSUME CheckRate PROVE SyncsLast'
  <2>1. \A b \in Batches : fut[b] \in {"done", "logged"} => fut'[b] = fut[b]
    BY <1>5 DEF CheckRate
  <2> QED
    BY <1>5, <2>1, SyncsKept DEF CheckRate
<1>6. ASSUME \/ Wait \/ MainRaises \/ NextShard \/ RoundEnd \/ Finalize
             \/ Publish \/ Unwind \/ UNCHANGED vars
      PROVE  SyncsLast'
  <2>1. UNCHANGED <<fut, out>>
    BY <1>6 DEF Wait, MainRaises, NextShard, RoundEnd, Finalize, Publish, Unwind, vars
  <2> QED
    BY <2>1, SyncsKept
<1> QED
  BY <1>1, <1>2, <1>3, <1>4, <1>5, <1>6 DEF Next, WorkerStep, MainStep, Terminating

(* A step that writes no row, no log and no verdict cannot be seen. *)
LEMMA Unseen ==
  ASSUME UNCHANGED <<iterate, rows, lost, status>>,
         \A b \in Batches : /\ fut'[b] = "logged" <=> fut[b] = "logged"
                            /\ fut[b] = "logged" => out'[b] = out[b]
  PROVE  UNCHANGED Contract!contractVars
<1> DEFINE L == {c \in Batches : fut[c] = "logged"}
<1>1. L' = L
  OBVIOUS
<1>2. \A b \in L : Succeeded(b)' = Succeeded(b)
  BY DEF Succeeded
<1>3. Logs' = Logs
  BY <1>1, <1>2 DEF Logs, Succeeded
<1>4. RoundBatches' = RoundBatches
  BY DEF RoundBatches, Rounds
<1> QED
  BY <1>3, <1>4 DEF Contract!contractVars, Answered

(* A batch whose future runs or waits to be recorded is one of the task's, *)
(* and while a thread is on it the task is running.                        *)
LEMMA AtWork ==
  ASSUME IInv, NEW b \in Batches, fut[b] \in {"running", "done"}
  PROVE  b \in RoundBatches /\ (fut[b] = "running" => status = "running")
<1>1. b \in InFlight
  BY DEF InFlight
<1>2. b[1] = round /\ round <= Rounds /\ round \in 1..NR
  BY <1>1 DEF IInv, RoundDiscipline, TypeOK
<1>3. fut[b] = "running" => status = "running"
  BY DEF IInv, VerdictEarned, Unfinished
<1>4. Rounds \in Int
  BY SizesAssumption DEF Rounds
<1> QED
  BY <1>2, <1>3, <1>4 DEF RoundBatches

(* An insert that left n copies, of which all but the last were not        *)
(* answered, or none was.                                                  *)
LEMMA InsertSeen ==
  ASSUME IInv, NEW b \in Batches, NEW n \in Nat \ {0}, NEW k \in Nat,
         fut[b] = "running", at[b] \in Tables, UNCHANGED <<iterate, fut, status>>,
         rows' = [rows EXCEPT ![b][at[b]] = n], lost' = lost + k, k = 0 => n = 1,
         \A c \in Batches : fut[c] = "logged" => out'[c] = out[c]
  PROVE  Contract!Insert(b, at[b])
<1> DEFINE t == at[b]
<1>1. /\ b \in RoundBatches /\ status = "running" /\ t \in Tables
      /\ rows[b][t] = 0 /\ rows'[b][t] = n
      /\ t > Main => rows[b][Main] > 0
  <2>1. b \in RoundBatches /\ status = "running"
    BY AtWork
  <2>2. rows[b][t] = 0
    BY DEF IInv, ForwardOnly, Tables
  <2>3. rows'[b][t] = n
    BY DEF IInv, TypeOK
  <2>4. t > Main => rows[b][Main] > 0
    BY TablesAssumption DEF IInv, MainFirst, EntriesMatchRows
  <2> QED
    BY <2>1, <2>2, <2>3, <2>4
<1>2. b \notin DOMAIN Logs
  BY DEF Logs, Succeeded
<1>3. Answered' \in {Answered, FALSE} /\ (Answered' => n = 1)
  <2>1. lost \in Nat
    BY LimitsAssumption DEF IInv, TypeOK
  <2>2. lost' = 0 => lost = 0 /\ k = 0
    BY <2>1
  <2>3. Answered \in BOOLEAN /\ Answered' \in BOOLEAN
    BY DEF Answered
  <2>4. Answered' => Answered /\ n = 1
    BY <2>2 DEF Answered
  <2> QED
    BY <2>3, <2>4
<1>4. Logs' = Logs
  <2>1. \A c \in Batches : fut[c] = "logged" => Succeeded(c)' = Succeeded(c)
    BY DEF Succeeded
  <2> QED
    BY <2>1 DEF Logs, Succeeded
<1>5. RoundBatches' = RoundBatches
  BY DEF RoundBatches, Rounds
<1>6. rows' = [rows EXCEPT ![b][t] = rows'[b][t]]
  BY <1>1
<1> QED
  BY <1>1, <1>2, <1>3, <1>4, <1>5, <1>6 DEF Contract!Insert, Contract!Logged

(* The threads of the pool insert or do nothing that can be seen. *)
LEMMA WorkerSeen ==
  ASSUME IInv, NEW b \in Batches, WorkerStep(b)
  PROVE  \/ at[b] \in Tables /\ Contract!Insert(b, at[b])
         \/ UNCHANGED Contract!contractVars
<1> USE DEF mainVars, statsVars, workerVars
<1>1. TypeOK /\ lost \in Nat
  BY LimitsAssumption DEF IInv, TypeOK
<1>2. ASSUME NEW o, Enter(b, at[b], o), fut[b] = "running"
      PROVE  \A c \in Batches : fut[c] = "logged" => out'[c] = out[c]
  BY <1>1, <1>2 DEF Enter, TypeOK
<1>3. CASE StartBatch(b)
  BY <1>1, <1>3, Unseen DEF StartBatch, TypeOK
<1>4. CASE GenerateRefused(b)
  BY <1>2, <1>4, Unseen DEF GenerateRefused
<1>5. CASE InsertSucceeds(b)
  <2>1. PICK k \in 0..Lesser(MaxRetry, MaxLost - lost) :
          rows' = [rows EXCEPT ![b][at[b]] = k + 1] /\ lost' = lost + k
    BY <1>5 DEF InsertSucceeds
  <2>2. k \in Nat /\ k + 1 \in Nat \ {0} /\ (k = 0 => k + 1 = 1)
    BY LimitsAssumption DEF Lesser
  <2> QED
    BY <1>2, <1>5, <2>1, <2>2, InsertSeen DEF InsertSucceeds
<1>6. CASE InsertFails(b)
  <2>1. PICK k \in 0..Lesser(MaxRetry + 1, MaxLost - lost) :
          rows' = [rows EXCEPT ![b][at[b]] = k] /\ lost' = lost + k
    BY <1>6 DEF InsertFails
  <2>2. CASE k = 0
    <3>1. rows[b][at[b]] = 0 /\ at[b] \in Tables
      BY <1>6 DEF InsertFails, IInv, ForwardOnly, Tables
    <3>2. rows' = rows /\ lost' = lost
      BY <1>1, <2>1, <2>2, <3>1 DEF TypeOK
    <3> QED
      BY <1>2, <1>6, <3>2, Unseen DEF InsertFails
  <2>3. CASE k # 0
    <3>1. k \in Nat \ {0}
      BY <2>3
    <3> QED
      BY <1>2, <1>6, <2>1, <3>1, InsertSeen DEF InsertFails
  <2> QED
    BY <2>2, <2>3
<1>7. CASE SyncAndFinish(b)
  <2>1. \A c \in Batches : fut[c] = "logged" => out'[c] = out[c]
    BY <1>1, <1>7 DEF SyncAndFinish, TypeOK
  <2>2. \A c \in Batches : fut'[c] = "logged" <=> fut[c] = "logged"
    BY <1>1, <1>7 DEF SyncAndFinish, TypeOK
  <2> QED
    BY <1>7, <2>1, <2>2, Unseen DEF SyncAndFinish
<1>8. CASE BatchRaises(b)
  BY <1>1, <1>8, Unseen DEF BatchRaises, TypeOK
<1>9. CASE NotifyCancelled(b)
  BY <1>9, Unseen DEF NotifyCancelled, IInv, TypeOK
<1> QED
  BY <1>3, <1>4, <1>5, <1>6, <1>7, <1>8, <1>9 DEF WorkerStep

(* The recording of a batch writes its log. *)
LEMMA RecordSeen ==
  ASSUME IInv, SyncsLast, NEW b \in Batches, Record(b)
  PROVE  Contract!Next
<1> USE DEF mainVars, statsVars, workerVars
<1> DEFINE good == Succeeded(b)
           old  == {c \in Batches : fut[c] = "logged"}
<1>1. /\ pc = "record" /\ fut[b] = "done" /\ fut' = [fut EXCEPT ![b] = "logged"]
      /\ UNCHANGED <<iterate, rows, lost, out, status>>
  BY DEF Record
<1>2. status = "running" /\ b \in RoundBatches
  BY <1>1, AtWork DEF IInv, VerdictEarned
<1>3. old' = old \cup {b} /\ b \notin old
  BY <1>1 DEF IInv, TypeOK
<1>4. \A c \in Batches : Succeeded(c)' = Succeeded(c)
  BY <1>1 DEF Succeeded
<1>5. DOMAIN Logs = old /\ \A c \in old : Logs[c] = Succeeded(c)
  BY DEF Logs, Succeeded
<1>6. DOMAIN Logs' = old' /\ \A c \in old' : Logs'[c] = Succeeded(c)
  BY <1>4 DEF Logs, Succeeded
<1>7. Logs' = [c \in DOMAIN Logs \cup {b} |-> IF c = b THEN good ELSE Logs[c]]
  <2>1. Logs' = [c \in DOMAIN Logs' |-> Logs'[c]]
    BY DEF Logs, Succeeded
  <2> HIDE DEF old, good
  <2>2. \A c \in DOMAIN Logs' : Logs'[c] = IF c = b THEN good ELSE Logs[c]
    BY <1>3, <1>5, <1>6 DEF good
  <2> QED
    BY <1>3, <1>5, <1>6, <2>1, <2>2
<1>8. /\ good \subseteq Tables \cup Syncs
      /\ \A t \in Tables : t \in good <=> out[b][t] = "ok"
      /\ good \cap Syncs # {} => Tables \subseteq good
  BY SizesAssumption DEF Succeeded, Syncs, SyncsLast, Tables, Entries
<1>9. /\ \A t \in Tables : t \in good => rows[b][t] > 0
      /\ Answered => \A t \in Tables : rows[b][t] > 0 => t \in good
  BY <1>8 DEF IInv, EntriesMatchRows, Answered
<1>10. UNCHANGED <<RoundBatches, rows, Answered, status>>
  BY <1>1 DEF RoundBatches, Rounds, Answered
<1>11. b \in DOMAIN Logs' \ DOMAIN Logs /\ Logs'[b] = good
  BY <1>3, <1>5, <1>6
<1> HIDE DEF good, old
<1>12. Contract!Write(b, good)
  BY <1>2, <1>7, <1>8, <1>9, <1>10, <1>11
     DEF Contract!Write, Contract!Logged, Contract!Entries
<1> QED
  BY <1>11, <1>12 DEF Contract!Next, Contract!Logged

(* The verdict is taken from the logs. *)
LEMMA FinalizeSeen ==
  ASSUME IInv, CountsShown, FailPct < 100, Finalize
  PROVE  Contract!Decide
<1> USE DEF mainVars, statsVars, workerVars
<1>1. /\ pc = "final" /\ status' = Verdict /\ status = "running" /\ Closed
      /\ UNCHANGED <<iterate, rows, lost, out, fut>>
  BY DEF Finalize, IInv, VerdictEarned
<1>2. Verdict \in {"success", "partial", "failed"}
  BY DEF Verdict
<1>3. /\ DOMAIN Logs = {b \in Batches : fut[b] = "logged"}
      /\ \A b \in DOMAIN Logs : Logs[b] = Succeeded(b)
  BY DEF Logs, Succeeded
<1>4. UNCHANGED <<RoundBatches, rows, Answered, Logs>>
  BY <1>1 DEF RoundBatches, Rounds, Answered, Logs, Succeeded
<1>5. Tables \cup Syncs = Entries
  BY SizesAssumption DEF Syncs, Tables, Entries
<1>6. ASSUME Verdict = "success", NEW b \in RoundBatches
      PROVE  b \in DOMAIN Logs /\ Logs[b] = Entries
  <2>1. b \in Batches /\ b[1] \in 1..Rounds /\ fail[b[1]] = 0
    <3>1. b \in Batches /\ b[1] \in 1..Rounds
      BY DEF RoundBatches
    <3>2. b[1] \in 1..NR /\ ~(fail[b[1]] > 0)
      BY <1>6, <3>1, SizesAssumption DEF Verdict, Rounds
    <3> QED
      BY <3>1, <3>2 DEF IInv, TypeOK
  <2>2. fut[b] = "logged"
    BY <1>1, <2>1 DEF Closed, IInv, FailuresCounted, Batches
  <2>3. \A e \in Entries : out[b][e] = "ok"
    BY <2>1, <2>2 DEF IInv, FailuresCounted
  <2> QED
    BY <1>3, <2>1, <2>2, <2>3 DEF Succeeded
<1>7. ASSUME Verdict = "partial"
      PROVE  /\ \E b \in DOMAIN Logs : Logs[b] # {}
             /\ \E b \in RoundBatches : b \in DOMAIN Logs /\ Logs[b] # Entries
  <2>1. \A b \in RoundBatches : fut[b] = "logged" =>
          b \in DOMAIN Logs /\ Logs[b] = Succeeded(b)
    BY <1>3 DEF RoundBatches
  <2>2. \E b \in RoundBatches, e \in Entries : fut[b] = "logged" /\ e \in Succeeded(b)
    BY <1>1, <1>7, PartialShown DEF Succeeded
  <2>3. \E b \in RoundBatches, e \in Entries : fut[b] = "logged" /\ e \notin Succeeded(b)
    BY <1>1, <1>7, PartialShown DEF Succeeded
  <2> QED
    BY <2>1, <2>2, <2>3
<1> QED
  BY <1>1, <1>2, <1>4, <1>5, <1>6, <1>7
     DEF Contract!Decide, Contract!Logged, Contract!Entries

(* After an exception the task has failed, or is what it was by then. *)
LEMMA UnwindSeen ==
  ASSUME IInv, Unwind
  PROVE  Contract!Decide \/ Contract!Withdraw \/ UNCHANGED Contract!contractVars
<1> USE DEF mainVars, statsVars, workerVars
<1>1. status' \in {status, "failed"} /\ UNCHANGED <<iterate, rows, lost, out, fut>>
  BY DEF Unwind
<1>2. UNCHANGED <<RoundBatches, rows, Answered, Logs>>
  BY <1>1 DEF RoundBatches, Rounds, Answered, Logs, Succeeded
<1>3. status \in {"running", "success", "partial", "failed"}
  BY DEF IInv, TypeOK, Verdicts
<1> QED
  BY <1>1, <1>2, <1>3 DEF Contract!Decide, Contract!Withdraw, Contract!contractVars

(* A step of the engine is a step of the contract, or cannot be seen. *)
LEMMA ContractStep ==
  ASSUME IInv, SyncsLast, CountsShown, FailPct < 100, [Next]_vars
  PROVE  [Contract!Next]_(Contract!contractVars)
<1> USE DEF mainVars, statsVars, workerVars
<1>1. ASSUME NEW b \in Batches, WorkerStep(b)
      PROVE  Contract!Next \/ UNCHANGED Contract!contractVars
  BY <1>1, WorkerSeen DEF Contract!Next
<1>2. ASSUME NEW b \in Batches, Record(b) PROVE Contract!Next
  BY <1>2, RecordSeen
<1>3. ASSUME Finalize PROVE Contract!Next
  BY <1>3, FinalizeSeen DEF Contract!Next
<1>4. ASSUME Unwind PROVE Contract!Next \/ UNCHANGED Contract!contractVars
  BY <1>4, UnwindSeen DEF Contract!Next
<1>5. ASSUME Submit PROVE UNCHANGED Contract!contractVars
  <2>1. \A b \in Batches : fut'[b] = "queued" => fut[b] \in {"new", "queued"}
    BY <1>5 DEF Submit, IInv, TypeOK, RoundDiscipline, Batches
  <2>2. \A b \in Batches : fut'[b] # "queued" => fut'[b] = fut[b]
    BY <1>5 DEF Submit, IInv, TypeOK
  <2> QED
    BY <1>5, <2>1, <2>2, Unseen DEF Submit
<1>6. ASSUME NEW b \in Batches, SkipCancelled(b) PROVE UNCHANGED Contract!contractVars
  BY <1>6, Unseen DEF SkipCancelled, IInv, TypeOK
<1>7. ASSUME CheckRate PROVE UNCHANGED Contract!contractVars
  <2>1. \A b \in Batches : fut'[b] = "logged" <=> fut[b] = "logged"
    BY <1>7 DEF CheckRate
  <2> QED
    BY <1>7, <2>1, Unseen DEF CheckRate
<1>8. ASSUME Wait \/ MainRaises \/ NextShard \/ RoundEnd \/ Publish \/ UNCHANGED vars
      PROVE  UNCHANGED Contract!contractVars
  <2>1. UNCHANGED <<iterate, rows, lost, status, fut, out>>
    BY <1>8 DEF Wait, MainRaises, NextShard, RoundEnd, Publish, vars
  <2> QED
    BY <2>1, Unseen
<1> QED
  BY <1>1, <1>2, <1>3, <1>4, <1>5, <1>6, <1>7, <1>8 DEF Next, MainStep, Terminating

(* An execution that has not begun has promised nothing. *)
LEMMA ContractInit == Init => Contract!Init
<1> SUFFICES ASSUME Init PROVE Contract!Init
  OBVIOUS
<1>1. Logs = [b \in {} |-> {}]
  <2>1. {c \in Batches : fut[c] = "logged"} = {}
    BY DEF Init
  <2> QED
    BY <2>1 DEF Logs, Succeeded
<1> QED
  BY <1>1 DEF Init, Contract!Init, RoundBatches, Answered

(* The engine keeps the contract of an execution, for any batches, tables, *)
(* threads, retries and failures, if its threshold is below one.           *)
THEOREM ContractIsKept ==
  ASSUME FailPct < 100
  PROVE  Spec => KeepsContract
<1>1. Init => IInv /\ CountsShown /\ SyncsLast
  <2>1. Init => SyncsLast
    BY DEF Init, SyncsLast, Syncs
  <2> QED
    BY <2>1, IInvInit, CountedInit
<1>2. IInv /\ RowsCounted /\ CountsShown /\ SyncsLast /\ [Next]_vars => SyncsLast'
  BY SyncsStep DEF IInv
<1>3. IInv /\ RowsCounted /\ CountsShown /\ SyncsLast /\ [Next]_vars
        => [Contract!Next]_(Contract!contractVars)
  BY ContractStep
<1> QED
  BY <1>1, <1>2, <1>3, CountsAlways, ContractInit, PTL
     DEF Spec, KeepsContract, Contract!Spec
===============================================================================
